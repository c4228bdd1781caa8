SPECIFICATION FairAppSpec
CONSTANTS
  k1 = k1  k2 = k2  a1 = a1  a2 = a2
  Keys = {k1, k2}
  Attempts = {a1}
  Names <- NamesOf
  Domains = {"mylogin.eth"}
  Texts <- TextsOf
  Revisited = {"/login", "/approve"}
  MaxLoads = 1
INVARIANT AppTypeOK
INVARIANT PrivatePagesHaveWallet
INVARIANT FundedKeyKept
INVARIANT CreatedWalletOwnsName
INVARIANT ConnectionsExist
PROPERTY CreationCompletes
CHECK_DEADLOCK FALSE
