\* A child of the shell has two children of its own, exits, and init adopts them.
SPECIFICATION Spec
CONSTANTS
  MAX_TASKS = 6
  PID_GENERATION_MAX = 1
  TICKS_PER_SWITCH = 1
  INIT_IDLE_POLL_TICKS = 1
  SleepTicks = {1}
  Stacks = {k1, k2, k3, k4}
  Spaces = {}
  Creators = {0, 3}
  Waiters = {}
  Ops = {"create", "exit"}
  NULL = NULL
  BOOT = BOOT
  KERNEL_CR3 = KERNEL_CR3
SYMMETRY Interchangeable
INVARIANTS
  ChildrenListed
  ListedAreChildren
