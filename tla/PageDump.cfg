SPECIFICATION Spec
CONSTANTS
  Offsets = 8
  Blocks = 1024
  Continues = 4
  MaxAlign = 8
  ControlSize = 296
  Pages <- AllPages
  OptionSets <- AllOptions
INVARIANTS RightSection NoFalseAlarm DamageSeen InsideRead ShownOnce ListsContents
