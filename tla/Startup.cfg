SPECIFICATION FairSpec
CONSTANTS
  k = k  glob = glob  seed = seed  path = path
  one = one  two = two  s1 = s1  s2 = s2  huge = huge
  fa = fa  fb = fb  none = none  nofile = nofile
  Patterns <- MCPatterns
  Values <- MCValues
  Seeds <- MCSeeds
  Unset = Unset
  SeedName = seed
  PathName = path
  SeedPatterns = {seed, glob}
  FileNames <- MCFileNames
  Empty = nofile
  Contents <- MCContents
  Worlds <- MCWorlds
  CommandLines <- MCCommandLines
  Calls <- MCCalls
  EarlyCalls <- MCEarlyCalls
  MaxCalls = 3
INVARIANTS TypeOK DrawsAsAsked SeedIsReported AnswerRemembered 
PROPERTIES SeedKept ImplementsText InitEnds
CHECK_DEADLOCK FALSE
