CONSTANTS
  s1 = s1
  s2 = s2
  s3 = s3
  v1 = v1
  v2 = v2
  v3 = v3
  u1 = u1
  as = as
  h = h
  a = a
  t1 = t1
  t2 = t2
  StatementIds <- Ids
  Values = {v1, v2, v3}
  Times = {1, 2}
  Channels = {u1}
  AssistantChannels = {}
  AttributedChannels = {u1}
  Humans = {h}
  Agents = {a}
  Rules = {}
  NoClaim = NoClaim
  Turns = {t1, t2}
  Adjudicating = {t1, t2}
  MaxContents = 2
CONSTRAINT InOrder
SPECIFICATION FairTurnsSpec
CHECK_DEADLOCK FALSE
INVARIANTS EveryConflictAnswered
PROPERTIES SlotSpec ResolvedIsCurrent TurnsEnd
