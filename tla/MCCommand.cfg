SPECIFICATION Spec
CHECK_DEADLOCK FALSE
CONSTANTS
  lab = lab
  prod = prod
  linuxYaml = linuxYaml
  envYaml = envYaml
  dev = dev
  over = over
  loop = loop
  broken = broken
  gen = gen
  joins = joins
  twice = twice
  unknown = unknown
  std = std
  rac = rac
  slim = slim
  pro = pro
  git = git
  vim = vim
  nc = nc
  dba = dba
  web = web
  app = app
  bash = bash
  sh = sh
  nopasswd = nopasswd
  data = data
  logs = logs
  root = root
  swap = swap
  shm = shm
  nofile = nofile
  low = low
  high = high
  vaultKey = vaultKey
  genKey = genKey
  key1 = key1
  key2 = key2
  Unset = Unset
  Here = Here
  Absent = Absent
  Half = Half
  Redacted = Redacted
  Catalogue <- MCCatalogue
  Bundles <- MCBundles
  Files <- MCFiles
  Secrets <- MCSecrets
  Hosts <- MCHosts
  Invocations <- MCInvocations
  MaxDepth = 4
  MaxFaults = 1
INVARIANTS
  HostOnlyAsMeant
  ClaimsAreTrue
  RenderedMeansTheSame
PROPERTIES
  InvocationEnds
