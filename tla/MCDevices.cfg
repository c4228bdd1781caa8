\* Two wallets of one owner, two new devices; the page is opened twice.
SPECIFICATION FairDevicesSpec
CONSTANTS
  w1 = w1  w2 = w2  k1 = k1  k2 = k2
  Wallets = {w1, w2}
  Keys = {k1, k2}
  OwnWallets = {w1, w2}
  Requests <- RequestsOf
  Unattended <- UnattendedOf
  Confirmable = {k1}
  MaxAnswers = 1
  ZeroLed = {k2}
  Digest <- DigestOf
  FakeDigest <- FakeDigestOf
  SECURITY_CODE_LENGTH = 2
  MaxOpens = 2
INVARIANT DevicesTypeOK
INVARIANT KeysWhereAsked
INVARIANT ConfirmedRequestsLeave
INVARIANT CodeCanBeEntered
INVARIANT RequestsStayUnanswered
PROPERTY RequestsShown
PROPERTY ConnectionSeen
CHECK_DEADLOCK FALSE
