SPECIFICATION Spec
CONSTANTS
  MapSize = 1
  Inputs <- AllInputs
  OptionSets <- AllOptions
INVARIANTS RunsTile ListingMatchesFile SummaryMatchesFile
