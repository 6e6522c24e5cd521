CONSTANTS
  WordBits = 8
  HalfBits = 1
  Addresses = {0, 1}
  Memories <- MCImages
  Restored <- MCSums
  Definitions <- MCSums
  ClauseKinds <- MCClauseKinds
  Readings = {0, 2, 200}
  MaxTally = 2
  Scripts <- MCScripts
  Cells = {1, 2}
  CellValues = {0, 1, 2}
  BuiltinMacros = {"Number", "ASCIIChar"}
  BufferSizes = {1, 3, 20}
  MaxFrames = 2
  Uses <- MCUses
  Versions = {1, 2}
  VariablesOf <- MCVariables
  Target = 1
  MaxHits = 1
  Shapes <- MCSumShapes
  MaxAddress = 2
  Doubtful = {2}
  MaxErrors = 2
SPECIFICATION EngineSpec
INVARIANT MeansItsOwn
CHECK_DEADLOCK FALSE
