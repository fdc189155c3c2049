\* Two calls over two launches of a proxy whose user changes two settings.
\* When they are used up and no launch is running, nothing more happens.
SPECIFICATION DeploySpec
CONSTANTS
  BadAmount = BadAmount
  NoTimeout = NoTimeout
  Unset = Unset
  None = None
  Bad = Bad
  NoKey = NoKey
  NoEntry = NoEntry
  MaxTimeout = 2
  DefaultTimeout = 1
  Slack = 2
  Calls = {c1, c2}
  k1 = k1
  Keys = {k1, k2}
  Payers = {k1, k2}
  Allowances = {2}
  MaxClock = 0
  Replies <- DeployedReplies
  Guards = {Unset, 1, 2}
  Skews = {0}
  MaxSkew = 0
  Nonces = {n1}
  MaxSessions = 3
  main = main
  padded = padded
  vault = vault
  shell = shell
  here = here
  there = there
  Names = {main, padded}
  Sources = {vault, k1}
  EnvSources = {}
  RawSources = {k1}
  Trimmed <- MCTrimmed
  Paths = {here}
  Secrets = {k1, k2}
  Environs <- DeployedEnvirons
  Worlds <- DeployedWorlds
  Configs <- DeployedConfigs
  Refs <- DeployedRefs
  Demanded = {1, 2}
  MaxEdits = 2
SYMMETRY CallSymmetry
CHECK_DEADLOCK FALSE
INVARIANTS
  DebitsWithinChosen
PROPERTIES
  KeepsBridge
  KeepsLaunch
  PaysFromItsWallet
