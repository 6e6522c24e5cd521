CONSTANTS
  l1 = l1
  l2 = l2
  a1 = a1
  a2 = a2
  h1 = h1
  h2 = h2
  NoLoad = NoLoad
  NoLogin = NoLogin
  Loads <- TwoLoads
  Logins <- OneLogin
  Hashes <- OneHash
  Candidates <- SingleCandidate
  FetchOutcomes <- AllFetchOutcomes
  BackgroundReads = {TRUE}
  SpectatorCalls = {}
SPECIFICATION Spec
INVARIANTS NoUseAfterFree
CHECK_DEADLOCK FALSE
