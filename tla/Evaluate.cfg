SPECIFICATION FairSpec
CONSTANTS
  Modulus = 8
  MaxChoices = 3
  LongestList = 4
  Weights = {0, 1, 2, 3, 7}
  NoBound = NoBound
  Exprs <- MCExprs
INVARIANTS TypeOK PickStaysInList DrawnInShare ResultInRange
PROPERTIES AnswerableIsAnswered
CHECK_DEADLOCK FALSE
