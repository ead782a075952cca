CONSTANTS
  city = city
  trip = trip
  alias = alias
  colour = colour
  hue = hue
  size = size
  legacy = legacy
  red = red
  Keys = {colour, hue, size, legacy}
  CamelCase = {colour, hue, size}
  Compatible <- MCCompatible
  Names = {city, trip, alias}
  NoName = NoName
  Values = {red, city}
  Owner = Owner
  Context = Context
  Global = Global
  SingleKeys = {colour, hue}
  Acronyms <- MCAcronyms
  Turns <- NoTurns
  Batches <- MCTwoSubjects
  NoKey = NoKey
  Nowhere = Nowhere
  MaxClaims = 3
SPECIFICATION Spec
CHECK_DEADLOCK FALSE
INVARIANT SubjectsKeptApart
