\* Fairness: one child of the shell comes and goes.
SPECIFICATION FairSpec
CONSTANTS
  MAX_TASKS = 4
  PID_GENERATION_MAX = 1
  TICKS_PER_SWITCH = 1
  INIT_IDLE_POLL_TICKS = 1
  SleepTicks = {1}
  Stacks = {k1, k2, k3}
  Spaces = {}
  Creators = {0}
  Waiters = {}
  Ops = {"create", "exit"}
  NULL = NULL
  BOOT = BOOT
  KERNEL_CR3 = KERNEL_CR3
PROPERTIES
  ReadyRuns
  CleanupCompletes
