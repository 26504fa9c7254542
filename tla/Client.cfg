SPECIFICATION Spec
CONSTANTS
  None = None
  Chains <- MCChains
  Requests <- MCRequests
  Configurations <- MCConfigurations
  PageStates <- MCPageStates
  MaxPages = 3
  Given <- MCGiven
  Files <- MCFiles
  Processes <- MCProcesses
  Builtins <- MCBuiltins
  BuiltinChains <- MCBuiltinChains
  MaxListed = 4
  Resources <- MCResources
  Checkers = {"first", "second"}
  Interval = 1
  MaxInFlight = 1
  Settings <- MCSettings
  Feeds <- MCFeeds
  DeFiTokens <- MCDeFiTokens
  V3Pools <- MCV3Pools
  V4Pools <- MCV4Pools
  Questions <- MCQuestions
  Worlds <- MCWorlds
  MaxCallsPerMulticall = 4
  Multicall3DeploymentBlock = 2
  Ray = 10
  Wad = 10
INVARIANTS
  ContinuesWhatItBegan
  SpellingIsFree
  DiscoveryOnlyAdds
  ReadersAreServed
  CooldownsSurviveRestarts
  AloneAsTogether
PROPERTY FaultsAreReported
CHECK_DEADLOCK FALSE
