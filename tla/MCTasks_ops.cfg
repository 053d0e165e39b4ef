\* Every operation, one slot that is used twice, a process.
SPECIFICATION Spec
CONSTANTS
  MAX_TASKS = 4
  PID_GENERATION_MAX = 2
  TICKS_PER_SWITCH = 2
  INIT_IDLE_POLL_TICKS = 2
  SleepTicks = {0, 1}
  Stacks = {k1, k2, k3}
  Spaces = {r1}
  Creators = {0}
  Waiters = {0, 3}
  Ops = {"create", "process", "sleep", "syscall", "block", "unblock", "yield", "exit"}
  NULL = NULL
  BOOT = BOOT
  KERNEL_CR3 = KERNEL_CR3
SYMMETRY Interchangeable
INVARIANTS
  TypeOK
  ResourcesOwnedOnce
  ContextsOnLiveMemory
  OwnAddressSpaceAndStack
  OneRunning
  NeverHalts
  ShellInv
