SPECIFICATION Spec
CHECK_DEADLOCK FALSE
CONSTANTS
  Header = Header
  Absent = Absent
  Default = Default
  shmmax = shmmax
  unknown = unknown
  small = small
  big = big
  KeyOrder <- MCKeyOrder
  Values = {small, big}
  Refused = {unknown}
  Manifests <- MCManifests
  Files <- MCFiles
  MaxRuns = 2
  MaxVerbs = 3
  MaxFaults = 2
  MaxEdits = 1
INVARIANTS
  AppliedIsInEffect
  RollbackRestores
  DropInIsAccepted
