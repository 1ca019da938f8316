CONSTANTS
  plain = plain  numbered = numbered
  Texts = {plain, numbered}
  Numbered = {numbered}
  Torn = Torn  NULL = NULL
  Half = 2
SPECIFICATION Spec
INVARIANTS
  TypeOK ArgumentsIntact StorageKept AnswersWhole
PROPERTIES
  InitialisedFirst
