CONSTANTS
  k = k  m = m  glob = glob  gone = gone
  seed = seed  defines = defines  undefines = undefines  files = files
  one = one  two = two  range = range  open = open  end = end
  words = words  knob = knob  dashf = dashf  pli = pli
  plus = plus  wrong = wrong  define = define
  NULL = NULL
  Names = {k, m}
  Patterns = {k, m, glob, gone, seed, defines, undefines, files}
  Match <- MCMatch
  Values <- MCValues
  Added <- MCAdded
  Assigned = {two, words}
  Numbers <- MCNumbers
  Default = 2
  Eval <- MCEval
  Decimal <- MCDecimal
  Sown <- MCSown
  Seed = one
  SeedName = seed
  DefinesName = defines
  UndefinesName = undefines
  FilesName = files
  SeedPatterns = {seed}
  Tokens <- MCTokens
  Scan <- MCScan
  Loads <- MCLoads
  MaxKnobs = 4
  MaxSaves = 1
SPECIFICATION Spec
CHECK_DEADLOCK FALSE
INVARIANTS
  NumbersSurvive StringsSurvive
VIEW FileView
