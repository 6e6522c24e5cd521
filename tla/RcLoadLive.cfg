CONSTANTS
  l1 = l1
  l2 = l2
  a1 = a1
  a2 = a2
  h1 = h1
  h2 = h2
  NoLoad = NoLoad
  NoLogin = NoLogin
  Loads <- TwoLoads
  Logins <- OneLogin
  Hashes <- TwoHashes
  Candidates <- MCCandidates
  FetchOutcomes <- ServerHasSets
  BackgroundReads = {TRUE}
  SpectatorCalls = {}
SPECIFICATION FairSpec
PROPERTIES LoadsEndAndReport
CHECK_DEADLOCK FALSE
