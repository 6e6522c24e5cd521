CONSTANTS
  a1 = a1
  a2 = a2
  e1 = e1
  u1 = u1
  u2 = u2
  Awards <- OneAward
  Entries <- OneEntry
  Accounts <- OneUser
  NoAccount = NoAccount
  Sessions = FALSE
  Failures <- Twice
  FirstPing = 2
  PingPeriod = 3
  HideAfter = 2
SPECIFICATION FairSpec
PROPERTIES SettledAndTold
