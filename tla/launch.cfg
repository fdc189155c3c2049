\* Two wallets, two sources of keys, three changes of settings by the user.
\* When they are used up and no launch is running, nothing more happens.
SPECIFICATION LaunchSpec
CONSTANTS
  BadAmount = BadAmount
  NoTimeout = NoTimeout
  Unset = Unset
  None = None
  Bad = Bad
  MaxTimeout = 2
  DefaultTimeout = 1
  Slack = 2
  main = main
  padded = padded
  vault = vault
  shell = shell
  Names = {main, padded}
  Sources = {vault, shell, k1}
  EnvSources = {shell}
  RawSources = {k1}
  k1 = k1
  here = here
  there = there
  Trimmed <- MCTrimmed
  Paths = {here, there}
  Secrets = {k1, k2}
  Environs <- MCEnvirons
  Worlds <- MCWorlds
  Configs <- MCConfigs
  Refs <- MCRefs
  Demanded = {1, 2}
  MaxEdits = 3
CHECK_DEADLOCK FALSE
INVARIANTS
  LaunchTypeOK
  
  KeyAndCeilingTogether
  MalformedCeilingNeverServes
  InstallForetellsLaunch
  RetiredKeysAreIdle
