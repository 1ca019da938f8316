SPECIFICATION Spec
CONSTANTS
  plain = plain  odd = odd  glob = glob  bad = bad
  zero = zero  one = one  two = two  range = range  lock = lock
  Names = {plain, odd}
  Patterns = {plain, odd, glob}
  Match <- MCMatch
  Uncompilable = {}
  Values = {one}
  NULL = NULL
  Unset = Unset
  Numbers = {1}
  Eval <- MCEval
  Decimal <- MCDecimal
  Buckets = 1
  Hash <- MCHash
  MaxIterators = 2
  Handles = {h1}
  Reach = 3
  SeedName = plain
  FilesName = plain
  PathName = plain
  Locked = {}
  Boot <- MCLongBoot
  MaxKnobs = 3
INVARIANTS YieldsItsName
CHECK_DEADLOCK FALSE
