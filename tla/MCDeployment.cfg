\* Two clients compete for a name, the domain gets its registrar meanwhile.
SPECIFICATION FairDeploymentSpec
CONSTANTS
  Keys = {k1, k2}
  Names = {n1}
  FirstStage = 3
  Costs = {1}
  MaxEther = 1
  MaxRestarts = 1
INVARIANT DeploymentTypeOK
INVARIANT DeployedMeansNamed
INVARIANT GrantsReachWallets
PROPERTY FutureWalletsPromised
PROPERTY DeploySettles
CHECK_DEADLOCK FALSE
