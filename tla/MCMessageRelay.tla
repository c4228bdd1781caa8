--------------------------- MODULE MCMessageRelay ---------------------------
(***************************************************************************)
(* Instances of MessageRelay small enough for TLC.                         *)
(***************************************************************************)
EXTENDS MessageRelay, TLC

\* Two messages of one wallet for consecutive nonces.
MCMessages == {"first", "second"}
MCNonceOf == [m \in MCMessages |-> IF m = "first" THEN 0 ELSE 1]

\* Two messages of two devices for the same nonce.
MCRivalNonceOf == [m \in MCMessages |-> 0]

MCKeys == {"k1", "k2"}
MCOneKey == {"k1"}
MCInputs == {<<"first", "k1">>, <<"first", "k2">>, <<"second", "k1">>}
MCOneSigner == {<<"first", "k1">>, <<"second", "k1">>}
MCOneMessage == {"first"}
MCOneNonceOf == [m \in MCOneMessage |-> 0]
MCOneInput == {<<"first", "k1">>}

MCSymmetry == Permutations(Requests)
=============================================================================
