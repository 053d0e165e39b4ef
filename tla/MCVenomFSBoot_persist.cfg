\* No disk fault: files written before a reboot, and the self-test of that boot.
SPECIFICATION BootSpec
CONSTANTS
  Names = {a, t}
  one = one
  two = two
  Contents = {one, two}
  Length <- MCLength
  MAX_FILES = 2
  MAX_EXTENTS = 2
  TOTAL_DATA_BLOCKS = 4
  HALVES_PER_SECTOR = 3
  MaxFaults = 0
  NULL = NULL
  TestName = t
  TestContent = two
  Fragments = {1, 3}
INVARIANTS
  PromisesKept
