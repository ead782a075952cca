SPECIFICATION Spec
CONSTRAINT OneChange
CONSTANTS
  Claims <- MCClaims
  Messages <- MCMessages
  Slots <- MCSlots
  Entities = {"dog"}
  Episodes = {"e1", "e2", "e3"}
  SlotOf <- MCSlotOf
  SubjectOf <- MCSubjectOf
  About <- MCAbout
  ScopeOf <- MCScopeOf
  SourcesOf <- MCSourcesOf
  CreatedAt <- MCCreatedAt
  Owner = "owner"
  NoScope = "none"
  Smoothing = 1
  SemanticLimit = 3
  ExpansionLimit = 3
  Units <- MCUnits
  SizeOf <- MCSizeOf
  MaxSources = 3
  MaxEvidence = 3
  MaxChars = 1
  Queries <- MCQueries
  FirstState <- MCFirstState
  Assistants = {"home2"}
  TextOf <- MCTextOf
  Rules <- MCRules
  BoundTo <- MCBoundTo
  FirstActive = {"commute", "shots"}
  PerSource = 1
  MaxMessages = 2
  MaxEntries = 2
  MaxLines = 7
INVARIANTS ContextIsolated OthersAsFallback BudgetKept SourcesFirst
\* The answer has its context.
CHECK_DEADLOCK FALSE
