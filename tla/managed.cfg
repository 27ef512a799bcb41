SPECIFICATION FairSpec
CONSTANTS
  DecisionInterval = 2
  MaxAttempts = 3
  Submissions = {s1, s2}
  MaxReceipts = 1
  LegacyQueue = 0
  MaxVersion = 5
  MaxFaults = 0
  NoVersion = NoVersion
  NoPlan = NoPlan
  NoRequest = NoRequest
INVARIANTS PlayerPauseStands OneAnswerPerRequest NoAttemptWasted
PROPERTIES EditsAreHeard CommandIsHeard KeepsMoving
