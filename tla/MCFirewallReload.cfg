SPECIFICATION Spec
CHECK_DEADLOCK FALSE
CONSTANTS
  public = public
  default = default
  ssh = ssh
  lan = lan
  Zones = {public, default}
  DefaultZone = default
  Names = {ssh, lan}
  Kind <- MCKind
  Manifests <- MCManifests
  MaxRuns = 2
  MaxVerbs = 2
  MaxFaults = 1
  MaxEdits = 1
INVARIANT DeclaredStaysOpen
