SPECIFICATION FairSpec
CONSTANTS
  a = a  b = b  c = c  long = long  none = none
  d1 = d1  d2 = d2  one = one  two = two
  path = path  glob = glob  k = k  bad = bad
  defines = defines  undefines = undefines  files = files
  cmd = cmd  file = file  empty = empty
  Tokens <- MCTokens
  Kind <- MCKind
  Pattern <- MCPattern
  Value <- MCValue
  Text <- MCText
  CommandLines <- MCCommandLines
  Alternatives <- MCAlternatives
  Patterns <- MCPatterns
  Values <- MCValues
  Refused = {bad}
  PathPatterns = {path, glob}
  DefinesName = defines
  UndefinesName = undefines
  FilesName = files
  FileNames <- MCFileNames
  NoDir = NoDir
  Existing <- MCExisting
  Contents <- MCContents
  MaxArgv = 5
  Comments = {cmd}
  FileText = file
  Empty = empty
  Boot <- MCBoot
  MaxKnobs = 3
INVARIANTS TypeOK Provenance
PROPERTIES ImplementsExpansion LoadEnds
CHECK_DEADLOCK FALSE
