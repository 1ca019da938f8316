CONSTANTS
  k = k  also = also  m = m  unknown = unknown  d1 = d1  d2 = d2  here = here  nowhere = nowhere
  None = None  Torn = Torn
  Names = {k, also, m, unknown}
  Owner <- MCOwner
  Chars = {d1, d2, here, nowhere}
  Texts <- MCTexts
  Dirs <- MCDirs
  Disk <- MCDisk
  Variables = {1, 2}
  MaxPath = 2
SPECIFICATION Spec
INVARIANTS
  StringsStay ValuesAreWhole
