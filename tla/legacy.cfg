SPECIFICATION Spec
CONSTANTS
  DecisionInterval = 1
  MaxAttempts = 3
  Submissions = {s1}
  MaxReceipts = 0
  LegacyQueue = 1
  MaxVersion = 2
  MaxFaults = 1
  NoVersion = NoVersion
  NoPlan = NoPlan
  NoRequest = NoRequest
PROPERTIES DisturbedTickHasNoEffect ResetForgetsPlans StaysSafe
CHECK_DEADLOCK FALSE
