SPECIFICATION Spec
CONSTANTS
  RADIX = 3
  PAGE_SIZE = 2
  MANAGED_FRAMES = 26
  LOW_MEMORY_END = 2
  KERNEL_TEXT_END = 2
  KERNEL_RODATA_END = 3
  KERNEL_END = 3
  E820Maps <- LoadMaps
  SelfTest <- MCSelfTest
  Files <- LoadFiles
  ArgLists <- MCArgs
  USER_PAGE_MIN = 9
  USER_PAGE_MAX = 30
  STACK_PAGE = 17
  STACK_PAGES = 2
  WORD = 128
  EHDR_SIZE = 2
  PHDR_SIZE = 2
  MAX_LOAD_SEGMENTS = 3
  STACK_VIRT = 2147418112
  STACK_SIZE = 16384
  MAX_ARGS = 2
  MAX_ENVS = 1
  MAX_ARG_BYTES = 2048
  NIL = NIL
INVARIANT FramesAccounted
INVARIANT UserAccess
PROPERTY Implements
INVARIANT ElfAccepted
INVARIANT RangeChecked
INVARIANT StackLaidOut
