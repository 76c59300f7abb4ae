SPECIFICATION Spec
CHECK_DEADLOCK FALSE
CONSTANTS
  tool = tool
  lib = lib
  daemon = daemon
  unit = unit
  httpd = httpd
  oldName = oldName
  newName = newName
  dhcp = dhcp
  corp = corp
  Nothing = Nothing
  Unset = Unset
  Packages = {tool, lib, daemon}
  Needs <- MCNeeds
  Units = {unit}
  ShippedBy <- MCShippedBy
  Booleans = {httpd}
  Names = {oldName, newName}
  Resolvers = {dhcp, corp}
  Manifests <- MCManifests
  Hosts <- MCHosts
  MaxRuns = 2
  MaxVerbs = 2
  MaxFaults = 1
  MaxEdits = 1
INVARIANTS
  SecondApplySettles
  RollbackRestores
  FoundPackagesKept
PROPERTIES
  
  VerbReturns
