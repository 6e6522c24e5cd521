CONSTANTS
  c1 = c1
  c2 = c2
  MaxRequests = 3
  Callers <- MCCallers
  Statuses <- MCStatuses
SPECIFICATION FairSpec
INVARIANTS OneRaThread AnsweredInTurn
PROPERTIES ImplementsTransport EveryRequestAnswered
