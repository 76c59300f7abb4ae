SPECIFICATION Spec
CHECK_DEADLOCK FALSE
CONSTANTS
  grid = grid
  oracle = oracle
  admin = admin
  bastion = bastion
  N = 2
  Users <- MCUsers
  Hosted <- MCHosted
  Found <- MCFound
  Outside <- MCOutside
  Others <- MCOthers
  MaxRuns = 2
  MaxFaults = 1
  MaxRewrites = 1
INVARIANTS
  TrustIsMutual
  NoForeignTrust
  LossIsReported
  RerunChangesNothing
PROPERTY SetupReturns
