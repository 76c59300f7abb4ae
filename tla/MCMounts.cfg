SPECIFICATION Spec
CHECK_DEADLOCK FALSE
CONSTANTS
  data = data
  sub = sub
  nfs = nfs
  cifs = cifs
  bind = bind
  tmp = tmp
  disk = disk
  oracle = oracle
  Root = Root
  Plain = Plain
  Unset = Unset
  Points = {data, sub}
  Above <- MCAbove
  Sources = {nfs, cifs, bind, tmp, disk}
  Type <- MCType
  Vaulted = {cifs}
  Foreign = {disk}
  Owners = {oracle}
  Manifests <- MCManifests
  Hosts <- MCHosts
  MaxRuns = 2
  MaxVerbs = 3
  MaxFaults = 1
  MaxEdits = 1
INVARIANTS
  FoundMountsKept
  CleanApplySettles
  RollbackUncovers
