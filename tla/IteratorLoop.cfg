CONSTANTS
  mine = mine  other = other  none = none
  MaxIterators = 5
  Knobs = 3
  Names = {mine, other, none}
  Mine = mine
  Matching <- MCMatching
  Body = 2
SPECIFICATION LoopSpec
CHECK_DEADLOCK FALSE
PROPERTIES
  LoopEnds
INVARIANTS
  SeesEveryMatch
