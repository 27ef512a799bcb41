SPECIFICATION Spec
CONSTANTS
  Clients = {c1}
  Marks = {m0}
  FreshMark = m0
  NoWorld = NoWorld
  Resume = FALSE
  HistoryLimit = 2
  Budgets <- ForgottenBudgets
PROPERTY SnapshotIsTaken
CHECK_DEADLOCK FALSE
