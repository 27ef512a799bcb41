SPECIFICATION FairSpec
CONSTANTS
  Clients = {c1}
  Marks = {m0, m1}
  FreshMark = m0
  NoWorld = NoWorld
  Resume = TRUE
  HistoryLimit = 2
  Budgets <- StreamBudgets
INVARIANTS Durable KeysIdentify NothingMissed
PROPERTIES FollowsFeed CatchesUp
CHECK_DEADLOCK FALSE
