CONSTANTS
  s1 = s1
  s2 = s2
  s3 = s3
  v1 = v1
  v2 = v2
  v3 = v3
  StatementIds <- Ids3
  Values = {v1, v2, v3}
  Times = {1, 2}
  Channels = {u, as}
  AssistantChannels = {as}
  AttributedChannels = {u, as}
  Humans = {h}
  Agents = {a}
  Rules = {}
  NoClaim = NoClaim
  SameText <- MCSameText
SYMMETRY Symm3
SPECIFICATION RelationsSpec
CHECK_DEADLOCK FALSE
INVARIANTS FlagMatchesDocket AuditLeadsOn
PROPERTIES AnswerLeavesOnlyAcross
