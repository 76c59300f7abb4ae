SPECIFICATION Spec
CHECK_DEADLOCK FALSE
CONSTANTS
  data = data
  arch = arch
  u01 = u01
  u02 = u02
  xfs = xfs
  ext4 = ext4
  NoFS = NoFS
  NoVG = NoVG
  Tagged = Tagged
  D = 3
  VG = {data, arch}
  LV = {u01, u02}
  FS = {xfs, ext4}
  Layouts <- MCLayouts
  WantFS <- MCWantFS
  MaxRuns = 2
  MaxFaults = 1
INVARIANTS
  DataKept
  FoundIsKept
  RollbackRestores
  RetryConverges
