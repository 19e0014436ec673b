SPECIFICATION MainSpec
CONSTANTS
  TypesMax = 3
  IntMax = 7
  HeaderMax = 5
  PosMax = 8
  Types = {"int", "text"}
  Files <- AllFiles
  Lines <- AllLines
INVARIANTS AcceptsExactly CarriedOut RefusalsReported FlagsObeyed
