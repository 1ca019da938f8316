SPECIFICATION Spec
CONSTANTS
  plain = plain  odd = odd  glob = glob  bad = bad
  zero = zero  one = one  two = two  range = range  lock = lock
  Names = {plain, odd}
  Patterns = {plain, odd, glob, bad}
  Match <- MCMatch
  Uncompilable = {bad}
  Values = {one, two, range}
  NULL = NULL
  Unset = Unset
  Numbers = {1, 2}
  Eval <- MCEval
  Decimal <- MCDecimal
  Buckets = 2
  Hash <- MCHash
  MaxIterators = 1
  Handles = {}
  Reach = 1
  SeedName = plain
  FilesName = plain
  PathName = plain
  Locked = {}
  Boot <- MCBoot
  MaxKnobs = 3
INVARIANTS TypeOK SavedTableOK
PROPERTIES PinnedUntilClose PlainNamesReadTheirWrites ImplementsMap
VIEW StateView
