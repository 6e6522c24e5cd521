CONSTANTS
  a1 = a1
  a2 = a2
  NoDef = NoDef
  Games <- MixedGames
  HitDefs <- MCHitDefs
  Values = {0, 1}
  Saves = TRUE
SPECIFICATION Spec
INVARIANTS ScreenIsRight EventsInTurn FewTrackers
