CONSTANTS
  a1 = a1
  a2 = a2
  e1 = e1
  u1 = u1
  u2 = u2
  Awards <- TwoAwards
  Entries <- NoEntry
  Accounts <- TwoUsers
  NoAccount = NoAccount
  Sessions = TRUE
  Failures <- UpToFour
  FirstPing = 2
  PingPeriod = 3
  HideAfter = 2
SPECIFICATION Spec
PROPERTIES OnSchedule ConnectionTold CreditedOnce
CHECK_DEADLOCK FALSE
