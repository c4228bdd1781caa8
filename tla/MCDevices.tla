------------------------------ MODULE MCDevices ------------------------------
EXTENDS Devices, TLC

CONSTANTS w1, w2, k1, k2

\* One device asks the first wallet, another has asked it and is gone.
RequestsOf == {[wallet |-> w1, key |-> k1]}
UnattendedOf == {[wallet |-> w1, key |-> k2]}

\* A code with one emoji twice, one that shares an emoji with its fakes.
DigestOf == (k1 :> <<7, 255, 3, 255>>) @@ (k2 :> <<1, 2, 128, 9>>)
FakeDigestOf == (k1 :> <<4, 1, 0, 1>>) @@ (k2 :> <<1, 2, 255, 255>>)
=============================================================================
