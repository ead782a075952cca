CONSTANTS
  s1 = s1
  s2 = s2
  s3 = s3
  v1 = v1
  v2 = v2
  v3 = v3
  u1 = u1
  as = as
  h = h
  a = a
  StatementIds <- Ids
  Values = {v1, v2, v3}
  Times = {1, 2}
  Channels = {u1, as}
  AssistantChannels = {as}
  AttributedChannels = {u1, as}
  Humans = {h}
  Agents = {a}
  Rules <- MCRules
  NoClaim = NoClaim
SYMMETRY Symm
SPECIFICATION CrashSpec
CHECK_DEADLOCK FALSE
INVARIANTS DurableIntegrity WriteThrough DurableAudit
PROPERTIES DurableAnswer
