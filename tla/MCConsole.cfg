\* Keys, the snake and the FAT32 commands.
SPECIFICATION FairSpec
CONSTANTS
  QUEUE_SIZE = 3
  COMMAND_CAPACITY = 3
  BOARD_WIDTH = 6
  BOARD_HEIGHT = 3
  MAX_SEGMENTS = 5
  MOVE_INTERVAL_TICKS = 2
  SECTOR = 2
  LINKS = 3
  MIN_CLUSTERS = 2
  OFFSETS = 9
  FAT_BUF = 6
  BootSectors <- TheBootSectors
  Paths <- ThePaths
  Sessions <- TheSessions
INVARIANTS
  TypeOK
  KeysArriveInOrder
  SnakeSound
  FatAnswersRight
PROPERTIES
  KeysTaken
