SPECIFICATION Spec
CONSTANTS
  grp = grp
  usr = usr
  pkg = pkg
  mnt = mnt
  port = port
  svc = svc
  N <- MCN
  Change <- MCChange
  Wanted <- MCWanted
  Needs <- MCNeeds
  Provides <- MCProvides
  Hides <- MCHides
  Exclusive <- MCExclusive
  Quiet <- MCQuiet
  Undoable <- MCUndoable
  StopsAtFailure <- MCStops
  SwallowsUndo <- MCSwallows
  Probes <- MCProbes
  Reloads <- MCReloads
  Shared <- MCShared
  MaxVerbs = 2
  MaxFaults = 1
  MaxDrifts = 1
INVARIANTS
  TypeOK
  FailureStopsTheRest
  NoSilentChange
  NothingOfOthersLost
  RollbackRestores
PROPERTIES
  VerbReturns
  KeepsHostPromise
