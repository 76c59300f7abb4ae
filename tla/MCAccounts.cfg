SPECIFICATION Spec
CHECK_DEADLOCK FALSE
CONSTANTS
  oracle = oracle
  oinstall = oinstall
  dba = dba
  home = home
  u01 = u01
  bash = bash
  nologin = nologin
  hash = hash
  nopasswd = nopasswd
  k1 = k1
  k2 = k2
  GroupOrder <- MCGroupOrder
  UserOrder <- MCUserOrder
  Ids = {1, 2, 3}
  Keys = {k1, k2}
  Homes = {home, u01}
  Shells = {bash, nologin}
  Hashes = {hash}
  Policies = {nopasswd}
  DefaultHome = home
  DefaultShell = nologin
  Private = Private
  None = None
  Manifests <- MCManifests
  Hosts <- MCHosts
  MaxRuns = 2
  MaxVerbs = 3
  MaxFaults = 1
  MaxEdits = 1
INVARIANTS
  CoherentApplySettles
  RecordedIsComplete
  NewUsersRemoved
PROPERTY OthersAccountsKept
