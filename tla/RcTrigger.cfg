CONSTANTS
  Definitions <- AllDefinitions
  MaxHits = 3
  Values = {0, 1}
SPECIFICATION Spec
INVARIANTS TallyIsKnown
PROPERTIES ImplementsMeaning
