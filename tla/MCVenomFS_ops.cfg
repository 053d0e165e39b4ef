\* Two slots for two names, three blocks, files of no, one and two sectors.
SPECIFICATION Spec
CONSTANTS
  Names = {a, b, c}
  empty = empty
  one = one
  two = two
  Contents = {empty, one, two}
  Length <- MCLength
  MAX_FILES = 2
  MAX_EXTENTS = 2
  TOTAL_DATA_BLOCKS = 3
  HALVES_PER_SECTOR = 3
  MaxFaults = 1
  NULL = NULL
SYMMETRY Interchangeable
INVARIANTS
  TypeOK
  BlocksAccounted
  PromisesKept
PROPERTIES
  FilesAppearWhole
