CONSTANTS
  s1 = s1
  s2 = s2
  d1 = d1
  d2 = d2
  text = text
  StatementIds = {s1, s2}
  Dimensions = {d1, d2}
  Numbers = {0, 2}
  NotANumber = text
  Operators <- MCOperators
  Bindings <- MCBindings
  Bodies <- MCBodies
  RuleIds = {c1, c2}
  Humans = {h1, h2}
  Agents = {a}
  NoOne = NoOne
SPECIFICATION MCSpec
CHECK_DEADLOCK FALSE
INVARIANTS EveryStatementCounts
