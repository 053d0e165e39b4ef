\* Two creators, two reapers (the child in slot 3, and init once that has exited)
\* and a slot that is used twice: what holds whatever the races of reaping,
\* adopting and creating do to the child lists.
SPECIFICATION Spec
CONSTANTS
  MAX_TASKS = 5
  PID_GENERATION_MAX = 2
  TICKS_PER_SWITCH = 1
  INIT_IDLE_POLL_TICKS = 1
  SleepTicks = {1}
  Stacks = {k1, k2, k3, k4}
  Spaces = {r1}
  Creators = {0, 3}
  Waiters = {3}
  Ops = {"create", "process", "exit"}
  NULL = NULL
  BOOT = BOOT
  KERNEL_CR3 = KERNEL_CR3
SYMMETRY Interchangeable
INVARIANTS
  ReaperHoldsZombie
  StalePidsDetected
  ResourcesOwnedOnce
  ContextsOnLiveMemory
  GeneralInv
PROPERTIES
  CleanupNotOverwritten
