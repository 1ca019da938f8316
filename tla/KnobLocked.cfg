SPECIFICATION Spec
CONSTANTS
  plain = plain  odd = odd  glob = glob  bad = bad
  zero = zero  one = one  two = two  range = range  lock = lock
  Names = {plain, odd}
  Patterns = {plain, odd, glob, bad}
  Match <- MCMatch
  Uncompilable = {bad}
  Values = {zero, one, lock}
  NULL = NULL
  Unset = Unset
  Numbers = {0, 1}
  Eval <- MCEval
  Decimal <- MCDecimal
  Buckets = 2
  Hash <- MCHash
  MaxIterators = 1
  Handles = {}
  Reach = 1
  SeedName = plain
  FilesName = plain
  PathName = plain
  Locked = {lock}
  Boot <- MCBoot
  MaxKnobs = 3
INVARIANTS LockedValueWins
