SPECIFICATION FairSpec
CONSTANTS
  MaxAttempts = 2
  SubmitTries = 2
  SchemaLimit = 2
  MaxTicks = 2
  MaxVersion = 2
  None = None
INVARIANTS TypeOK EvidenceIsReal ReportedOnce
PROPERTIES PlansOnce PendingIsResolved
CHECK_DEADLOCK FALSE
