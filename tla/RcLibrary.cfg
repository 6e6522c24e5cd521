CONSTANTS
  r1 = r1
  r2 = r2
  r3 = r3
  Requests = {r1, r2, r3}
  Slots = 1
  Hashes = {"h1", "h2"}
  Paths = {"track", "disc"}
  HashOfFile <- MCHashOfFile
  Answers <- MCAnswers
  Plans <- MCPlans
  Games <- MCGames
  Measurements <- MCMeasurements
  Now = 3
  Recent = 2
  MinimumFrames = 2
  Multiplier = 4
  LongestRun = 8
SPECIFICATION LibrarySpec
INVARIANTS HeardOnce ListsFit UnlocksApplied EachShownOnce UnreadableIsOut PausesAreSpaced
 
CHECK_DEADLOCK FALSE
