\* The shell creates up to three children and reaps them in any order.
SPECIFICATION Spec
CONSTANTS
  MAX_TASKS = 6
  PID_GENERATION_MAX = 1
  TICKS_PER_SWITCH = 1
  INIT_IDLE_POLL_TICKS = 1
  SleepTicks = {1}
  Stacks = {k1, k2, k3, k4}
  Spaces = {}
  Creators = {0}
  Waiters = {0, 3, 4, 5}
  Ops = {"create", "exit"}
  NULL = NULL
  BOOT = BOOT
  KERNEL_CR3 = KERNEL_CR3
SYMMETRY Interchangeable
INVARIANTS
  ChildrenListed
  ListedAreChildren
