CONSTANTS
  s = s
  a = a
  b = b
  c = c
  tool = tool
  Subject = s
  Others <- MCOthers
  CreatedAt <- MCCreatedAt
  SameChannel <- MCSameChannel
  SameText <- MCSameText
  Related = {}
  Relations = {"supersedes", "duplicate"}
  Tools = {tool}
  Confidences = {1, 2, 3}
  MaxCandidates = 2
  MaxReads = 1
  MaxRetries <- MCRetries
  DecisionMin = 2
  ApplyMin = 2
  HasDecision = TRUE
SPECIFICATION FairSpec
INVARIANTS ReconciliationTypeOK AnsweredOnce RequestsBounded
PROPERTIES SurestApplies Adjudicates
CHECK_DEADLOCK FALSE
