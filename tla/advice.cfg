SPECIFICATION Spec
CONSTANTS
  a = a
  b = b
  p = p
  q = q
  chunk = chunk
  rule = rule
  Strange = Strange
  None = None
  Crew <- MCCrew
  Plots <- MCPlots
  Chunks <- MCChunks
  RuleText <- MCRuleText
  MaxCalls = 2
  MaxTools = 3
  MaxAdvice = 2
  MaxBatch = 2
  Drafts <- MCDrafts
  Proposals <- MCProposals
  Pairs <- MCPairs
  Reviewed <- MCReviewed
INVARIANTS VerifiedWasAudited LiveIsUndegraded RetrievalIsTold
CHECK_DEADLOCK FALSE
