SPECIFICATION Spec
CHECK_DEADLOCK FALSE
CONSTANTS
  Begin = Begin
  End = End
  Blank = Blank
  localhost = localhost
  oldrac01 = oldrac01
  rac01 = rac01
  rac02 = rac02
  Entries = {rac01, rac02}
  Others = {localhost, oldrac01}
  Clash <- MCClash
  Blocks <- MCBlocks
  Bodies <- MCBodies
  MaxRuns = 2
  MaxVerbs = 3
  MaxFaults = 1
  MaxEdits = 1
INVARIANTS
  OthersKept
  ApplyConverges
  RollbackRestores
