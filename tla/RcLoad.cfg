CONSTANTS
  l1 = l1
  l2 = l2
  a1 = a1
  a2 = a2
  h1 = h1
  h2 = h2
  NoLoad = NoLoad
  NoLogin = NoLogin
  Loads <- TwoLoads
  Logins <- TwoLogins
  Hashes <- TwoHashes
  Candidates <- MCCandidates
  FetchOutcomes <- ServerHasSets
  BackgroundReads = {TRUE, FALSE}
  SpectatorCalls = {TRUE}
SPECIFICATION Spec
INVARIANTS HeldWhileOutstanding CalledTwiceOnlyWhenQueued GameOwned
PROPERTIES SupersededNeverActivates
CHECK_DEADLOCK FALSE
