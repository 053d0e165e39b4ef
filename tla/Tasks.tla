------------------------------- MODULE Tasks -------------------------------
(***************************************************************************)
(* The task table and the scheduler of VenomOS (kernel/task.cpp,           *)
(* kernel/scheduler.cpp and the timer and exit paths of                    *)
(* kernel/interrupts.cpp).                                                 *)
(*                                                                         *)
(* There is one CPU.  A step belongs to the task in slot `current`, or to  *)
(* the timer interrupt, which can arrive between any two steps of a task   *)
(* that runs with interrupts enabled.  A region the code runs with         *)
(* interrupts off (exit_current, reschedule, the tail of switch_to, a      *)
(* system call) may take several steps here, but no interrupt falls        *)
(* between them.                                                           *)
(***************************************************************************)
EXTENDS Integers, FiniteSets

CONSTANTS
  MAX_TASKS,            \* slots of the task table
  PID_GENERATION_MAX,   \* a slot of this generation is never reused
  TICKS_PER_SWITCH,     \* timer ticks in a quantum
  INIT_IDLE_POLL_TICKS, \* how long init sleeps when it has no child
  SleepTicks,           \* the durations tasks ask sleep_current for
  Stacks,               \* blocks the heap can hand out as kernel stacks
  Spaces,               \* page-table roots create_address_space can return
  Creators,             \* slots whose kernel threads call create
  Waiters,              \* slots whose kernel threads call wait_for_child, besides init
  Ops,                  \* the operations the tasks of this instance perform
  NULL,                 \* a null stack_base, and a cr3 of 0
  BOOT,                 \* the boot stack, on which the shell task runs
  KERNEL_CR3            \* kernel_cr3, the kernel's own page-table root

ASSUME SizesAssumption ==
  /\ MAX_TASKS \in 3 .. 255
  /\ PID_GENERATION_MAX \in Nat \ {0}
  /\ TICKS_PER_SWITCH \in Nat \ {0}
  /\ INIT_IDLE_POLL_TICKS \in Nat
  /\ SleepTicks \subseteq Nat
  /\ Ops \subseteq {"create", "process", "sleep", "syscall", "block", "unblock", "yield", "exit"}

ASSUME NamesAssumption ==
  /\ NULL \notin Stacks /\ NULL \notin Spaces /\ NULL # BOOT /\ NULL # KERNEL_CR3
  /\ BOOT \notin Stacks /\ KERNEL_CR3 \notin Spaces
  /\ Cardinality(Stacks) >= 2 /\ IsFiniteSet(Stacks)

VARIABLES
  \* struct Task, one function per field
  state, pid, generation, parent_pid, first_child, next_sibling,
  stack_base, cr3, rsp, wake,
  \* the registers and globals of the kernel
  current, loaded_cr3, rsp0, pending_cleanup, tick_counter, cpu,
  \* what the heap and the frame allocator consider allocated
  stacks, spaces,
  \* where each task is in its code, and its local variables
  pc, cursor, nxt, prev, slot, held

fields   == <<state, pid, generation, parent_pid, first_child, next_sibling,
              stack_base, cr3, rsp, wake>>
machine  == <<current, loaded_cr3, rsp0, pending_cleanup, tick_counter, cpu>>
memory   == <<stacks, spaces>>
locals   == <<cursor, nxt, prev, slot, held>>
vars     == <<fields, machine, memory, pc, locals>>

Slots == 0 .. MAX_TASKS - 1
SHELL == 0
IDLE  == 1
INIT  == 2

NO_PID == 0
make_pid(i, g)    == g * 256 + (i + 1)
pid_slot_index(p) == (p % 256) - 1
init_pid          == make_pid(INIT, 1)

NoBlock    == [stack |-> NULL, cr3 |-> NULL]
NoCleanup  == [stack |-> NULL, cr3 |-> NULL, active |-> FALSE]

States == {"Dead", "New", "Ready", "Running", "Blocked", "Sleeping", "Zombie"}

\* "start" is a task that has never run; its first switch enters task_trampoline.
CreatePcs == {"find", "alloc", "fill", "link", "ready"}
ExitPcs   == {"adopt", "die"}
WaitPcs   == {"wait", "scan", "unlink", "walk", "store", "dead", "detach",
              "block", "rescan", "head"}
Pcs       == {"start", "tramp", "take", "free", "run", "sleep", "yield"}
               \cup CreatePcs \cup ExitPcs \cup WaitPcs

\* A mutant is a plausible bug in the definition that follows it.
\* Mutant: exit_current without its cli.
InterruptsOnInExit == cpu = "task"

\* The interrupt flag: off in reschedule and switch_to, and in exit_current.
InterruptsOn == cpu = "task" /\ pc[current] \notin ExitPcs

\* A task executes its own code (not the scheduler's) at program point p.
At(s, p) == cpu = "task" /\ current = s /\ pc[s] = p
Goto(s, p) == pc' = [pc EXCEPT ![s] = p]

-----------------------------------------------------------------------------
(* A pid is a name that outlives its task: a caller may hold that of any     *)
(* task created so far.                                                      *)
KnownPids == UNION {{make_pid(t, g) : g \in 1 .. generation[t]} : t \in Slots}

\* Mutant: the lookup trusts the slot index and does not compare the pid.
find_by_pid_index(p) ==
  /\ p # NO_PID
  /\ pid_slot_index(p) \in Slots
  /\ state[pid_slot_index(p)] # "Dead"

(* Lookup by pid: find_by_pid(p) is not null. *)
find_by_pid(p) ==
  /\ p # NO_PID
  /\ pid_slot_index(p) \in Slots
  /\ state[pid_slot_index(p)] # "Dead"
  /\ pid[pid_slot_index(p)] = p

\* Mutant: remove_child cuts the list instead of bridging the gap.
sibling_of_cut(p) == NO_PID

(* The link remove_child puts in place of p. *)
sibling_of(p) == IF find_by_pid(p) THEN next_sibling[pid_slot_index(p)] ELSE NO_PID

\* Mutant: the test for Blocked is missing.
unblock_any(st, p) ==
  IF find_by_pid(p) THEN [st EXCEPT ![pid_slot_index(p)] = "Ready"] ELSE st

(* unblock(p), as the change it makes to the states st. *)
unblock(st, p) ==
  IF find_by_pid(p) /\ st[pid_slot_index(p)] = "Blocked"
  THEN [st EXCEPT ![pid_slot_index(p)] = "Ready"]
  ELSE st

\* Mutant: the test of the generation is missing.
FreeSlotsWorn == {i \in Slots : state[i] = "Dead"}

\* Mutant: a Zombie's slot counts as free before it is reaped.
FreeSlotsUnreaped ==
  {i \in Slots : state[i] \in {"Zombie", "Dead"} /\ generation[i] # PID_GENERATION_MAX}

(* The slots find_free_slot accepts. *)
FreeSlots == {i \in Slots : state[i] = "Dead" /\ generation[i] # PID_GENERATION_MAX}

target_cr3(s) == IF cr3[s] # NULL THEN cr3[s] ELSE KERNEL_CR3

\* Mutant: reschedule always scans from slot 0.
OffsetFromZero(c, n) == n

(* How far reschedule looks before it reaches slot n, starting after slot c. *)
Offset(c, n) == ((n - c - 1) % MAX_TASKS) + 1

-----------------------------------------------------------------------------
(* task::init: the caller becomes the shell in slot 0; idle and init are     *)
(* created and detached from it.                                             *)
Init ==
  /\ \E a, b \in Stacks :
       /\ a # b
       /\ stack_base = [s \in Slots |-> IF s = IDLE THEN a ELSE IF s = INIT THEN b ELSE NULL]
       /\ stacks = {a, b}
  /\ rsp = [s \in Slots |-> IF s = SHELL THEN BOOT ELSE stack_base[s]]
  /\ state = [s \in Slots |-> IF s = SHELL THEN "Running"
                              ELSE IF s \in {IDLE, INIT} THEN "Ready" ELSE "Dead"]
  /\ generation = [s \in Slots |-> IF s \in {SHELL, IDLE, INIT} THEN 1 ELSE 0]
  /\ pid = [s \in Slots |-> IF s \in {SHELL, IDLE, INIT} THEN make_pid(s, 1) ELSE NO_PID]
  /\ parent_pid   = [s \in Slots |-> NO_PID]
  /\ first_child  = [s \in Slots |-> NO_PID]
  /\ next_sibling = [s \in Slots |-> NO_PID]
  /\ cr3  = [s \in Slots |-> NULL]
  /\ wake = [s \in Slots |-> 0]
  /\ current = SHELL
  /\ loaded_cr3 = KERNEL_CR3
  /\ rsp0 = BOOT
  /\ pending_cleanup = NoCleanup
  /\ tick_counter = 0
  /\ cpu = "task"
  /\ spaces = {}
  /\ pc = [s \in Slots |-> IF s = SHELL THEN "run" ELSE "start"]
  /\ cursor = [s \in Slots |-> NO_PID]
  /\ nxt    = [s \in Slots |-> NO_PID]
  /\ prev   = [s \in Slots |-> -1]
  /\ slot   = [s \in Slots |-> -1]
  /\ held   = [s \in Slots |-> NoBlock]

-----------------------------------------------------------------------------
(* The timer interrupt: ++timer_ticks and scheduler::tick.  `wake` is how    *)
(* many ticks are left until wake_tick, so every tick brings it nearer to 0. *)
Tick ==
  /\ InterruptsOn
  /\ wake' = [s \in Slots |-> IF wake[s] > 0 THEN wake[s] - 1 ELSE 0]
  /\ state' = [s \in Slots |-> IF state[s] = "Sleeping" /\ wake'[s] = 0
                               THEN "Ready" ELSE state[s]]
  /\ tick_counter' = (tick_counter + 1) % TICKS_PER_SWITCH
  /\ cpu' = IF tick_counter' = 0 THEN "resched" ELSE cpu
  /\ UNCHANGED <<pid, generation, parent_pid, first_child, next_sibling, stack_base,
                 cr3, rsp, current, loaded_cr3, rsp0, pending_cleanup, memory, pc, locals>>

\* Mutant: the TSS keeps the stack of the previous task.
SwitchToOldStack(n) ==
  /\ n # current
  /\ state' = [state EXCEPT ![current] = IF @ = "Running" THEN "Ready" ELSE @,
                            ![n] = "Running"]
  /\ current' = n
  /\ loaded_cr3' = target_cr3(n)
  /\ cpu' = IF pc[n] = "start" THEN "task" ELSE "reap"
  /\ pc' = [pc EXCEPT ![n] = IF @ = "start" THEN "tramp" ELSE @]
  /\ UNCHANGED <<pid, generation, parent_pid, first_child, next_sibling, stack_base,
                 cr3, rsp, wake, rsp0, pending_cleanup, tick_counter, memory, locals>>

\* Mutant: the task left behind is not made Ready again.
SwitchToForgetful(n) ==
  /\ n # current
  /\ state' = [state EXCEPT ![n] = "Running"]
  /\ current' = n
  /\ loaded_cr3' = target_cr3(n)
  /\ rsp0' = IF stack_base[n] # NULL THEN stack_base[n] ELSE rsp0
  /\ cpu' = IF pc[n] = "start" THEN "task" ELSE "reap"
  /\ pc' = [pc EXCEPT ![n] = IF @ = "start" THEN "tramp" ELSE @]
  /\ UNCHANGED <<pid, generation, parent_pid, first_child, next_sibling, stack_base,
                 cr3, rsp, wake, pending_cleanup, tick_counter, memory, locals>>

(* reschedule finds the next Ready slot in round-robin order and switch_to   *)
(* leaves the current task for it.  A task that has never run starts in      *)
(* task_trampoline with interrupts on; every other one resumes inside        *)
(* switch_to, whose tail still has to run.                                   *)
SwitchTo(n) ==
  /\ n # current
  /\ state' = [state EXCEPT ![current] = IF @ = "Running" THEN "Ready" ELSE @,
                            ![n] = "Running"]
  /\ current' = n
  /\ loaded_cr3' = target_cr3(n)
  /\ rsp0' = IF stack_base[n] # NULL THEN stack_base[n] ELSE rsp0
  /\ cpu' = IF pc[n] = "start" THEN "task" ELSE "reap"
  /\ pc' = [pc EXCEPT ![n] = IF @ = "start" THEN "tramp" ELSE @]
  /\ UNCHANGED <<pid, generation, parent_pid, first_child, next_sibling, stack_base,
                 cr3, rsp, wake, pending_cleanup, tick_counter, memory, locals>>

Reschedule ==
  /\ cpu = "resched"
  /\ \E n \in Slots :
       /\ state[n] = "Ready"
       /\ \A m \in Slots : state[m] = "Ready" => Offset(current, n) <= Offset(current, m)
       /\ SwitchTo(n)

(* Nothing else is Ready: the current task goes on, unless it has exited, in *)
(* which case exit_current halts the machine.                                *)
NothingReady ==
  /\ cpu = "resched"
  /\ \A n \in Slots : state[n] = "Ready" => n = current
  /\ cpu' = IF state[current] \in {"Dead", "Zombie"} THEN "halt" ELSE "task"
  /\ UNCHANGED <<fields, current, loaded_cr3, rsp0, pending_cleanup, tick_counter,
                 memory, pc, locals>>

\* Mutant: switch_to returns without reap_pending_cleanup.
SwitchTailSkipped ==
  /\ cpu = "reap"
  /\ cpu' = "task"
  /\ UNCHANGED <<fields, current, loaded_cr3, rsp0, pending_cleanup, tick_counter, memory,
                 pc, locals>>

(* reap_pending_cleanup at the end of switch_to, with interrupts off. *)
SwitchTail ==
  /\ cpu = "reap"
  /\ cpu' = "task"
  /\ pending_cleanup' = IF pending_cleanup.active THEN NoCleanup ELSE pending_cleanup
  /\ stacks' = IF pending_cleanup.active THEN stacks \ {pending_cleanup.stack} ELSE stacks
  /\ spaces' = IF pending_cleanup.active THEN spaces \ {pending_cleanup.cr3} ELSE spaces
  /\ UNCHANGED <<fields, current, loaded_cr3, rsp0, tick_counter, pc, locals>>

-----------------------------------------------------------------------------
\* Mutant: a new task starts without reap_pending_cleanup.
TrampolineSkipped(s) ==
  /\ At(s, "tramp")
  /\ Goto(s, "run")
  /\ UNCHANGED <<fields, machine, memory, locals>>

(* task_trampoline runs reap_pending_cleanup with interrupts on: test the    *)
(* flag, take the resources with interrupts off, then free them.             *)
Trampoline(s) ==
  /\ At(s, "tramp")
  /\ Goto(s, IF pending_cleanup.active THEN "take" ELSE "run")
  /\ UNCHANGED <<fields, machine, memory, locals>>

TakeCleanup(s) ==
  /\ At(s, "take")
  /\ held' = [held EXCEPT ![s] = [stack |-> pending_cleanup.stack, cr3 |-> pending_cleanup.cr3]]
  /\ pending_cleanup' = NoCleanup
  /\ Goto(s, "free")
  /\ UNCHANGED <<fields, current, loaded_cr3, rsp0, tick_counter, cpu, memory,
                 cursor, nxt, prev, slot>>

FreeCleanup(s) ==
  /\ At(s, "free")
  /\ stacks' = stacks \ {held[s].stack}
  /\ spaces' = spaces \ {held[s].cr3}
  /\ held' = [held EXCEPT ![s] = NoBlock]
  /\ Goto(s, "run")
  /\ UNCHANGED <<fields, machine, cursor, nxt, prev, slot>>

-----------------------------------------------------------------------------
(* Creating tasks. *)

\* Ring 3 code cannot create tasks; of the kernel threads, the shell does, and in
\* the boot self-test and the stress suite a child of the shell, one at a time.
MayCreate(s) ==
  /\ s \in Creators \ {IDLE, INIT}
  /\ cr3[s] = NULL
  /\ \A t \in Slots : pc[t] \notin CreatePcs

(* create(): a kernel thread, or process::run building an address space for  *)
(* create_process.                                                           *)
CreateThread(s) ==
  /\ At(s, "run") /\ MayCreate(s)
  /\ Goto(s, "find")
  /\ UNCHANGED <<fields, machine, memory, locals>>

CreateProcess(s) ==
  /\ At(s, "run") /\ MayCreate(s)
  /\ \E r \in Spaces \ spaces :
       /\ spaces' = spaces \cup {r}
       /\ held' = [held EXCEPT ![s].cr3 = r]
  /\ Goto(s, "find")
  /\ UNCHANGED <<fields, machine, stacks, cursor, nxt, prev, slot>>

\* Mutant: process::run forgets the address space when create_process fails.
CreateFailsLeaking(s) ==
  /\ held' = [held EXCEPT ![s] = NoBlock]
  /\ slot' = [slot EXCEPT ![s] = -1]
  /\ Goto(s, "run")
  /\ UNCHANGED <<fields, machine, memory, cursor, nxt, prev>>

(* init_common_slot fails: the caller destroys the address space it built. *)
CreateFails(s) ==
  /\ spaces' = spaces \ {held[s].cr3}
  /\ held' = [held EXCEPT ![s] = NoBlock]
  /\ slot' = [slot EXCEPT ![s] = -1]
  /\ Goto(s, "run")
  /\ UNCHANGED <<fields, machine, stacks, cursor, nxt, prev>>

FindFreeSlot(s) ==
  /\ At(s, "find")
  /\ \E i \in FreeSlots :
       /\ \A j \in FreeSlots : i <= j
       /\ slot' = [slot EXCEPT ![s] = i]
  /\ Goto(s, "alloc")
  /\ UNCHANGED <<fields, machine, memory, cursor, nxt, prev, held>>

NoFreeSlot(s) == At(s, "find") /\ FreeSlots = {} /\ CreateFails(s)

AllocStack(s) ==
  /\ At(s, "alloc")
  /\ \E k \in Stacks \ stacks :
       /\ stacks' = stacks \cup {k}
       /\ held' = [held EXCEPT ![s].stack = k]
  /\ Goto(s, "fill")
  /\ UNCHANGED <<fields, machine, spaces, cursor, nxt, prev, slot>>

NoStack(s) == At(s, "alloc") /\ CreateFails(s)

(* The slot becomes New; its old pid stays until the next step. *)
FillSlot(s) ==
  LET i == slot[s] IN
  /\ At(s, "fill")
  /\ state' = [state EXCEPT ![i] = "New"]
  /\ rsp' = [rsp EXCEPT ![i] = held[s].stack]
  /\ stack_base' = [stack_base EXCEPT ![i] = held[s].stack]
  /\ generation' = [generation EXCEPT ![i] = @ + 1]
  /\ held' = [held EXCEPT ![s].stack = NULL]
  /\ pc' = [pc EXCEPT ![s] = "link", ![i] = "start"]
  /\ UNCHANGED <<pid, parent_pid, first_child, next_sibling, cr3, wake, machine, memory,
                 cursor, nxt, prev, slot>>

LinkSlot(s) ==
  LET i == slot[s]
      p == make_pid(i, generation[i])
  IN
  /\ At(s, "link")
  /\ pid' = [pid EXCEPT ![i] = p]
  /\ parent_pid' = [parent_pid EXCEPT ![i] = pid[s]]
  /\ next_sibling' = [next_sibling EXCEPT ![i] = first_child[s]]
  /\ first_child' = [first_child EXCEPT ![i] = NO_PID, ![s] = p]
  /\ wake' = [wake EXCEPT ![i] = 0]
  /\ Goto(s, "ready")
  /\ UNCHANGED <<state, generation, stack_base, cr3, rsp, machine, memory, locals>>

ReadySlot(s) ==
  LET i == slot[s] IN
  /\ At(s, "ready")
  /\ cr3' = [cr3 EXCEPT ![i] = held[s].cr3]
  /\ state' = [state EXCEPT ![i] = "Ready"]
  /\ held' = [held EXCEPT ![s] = NoBlock]
  /\ slot' = [slot EXCEPT ![s] = -1]
  /\ Goto(s, "run")
  /\ UNCHANGED <<pid, generation, parent_pid, first_child, next_sibling, stack_base,
                 rsp, wake, machine, memory, cursor, nxt, prev>>

-----------------------------------------------------------------------------
(* wait_for_child, called by the shell and the stress suite, and by init in  *)
(* its loop.  Interrupts stay on throughout.                                 *)
CallWait(s) ==
  /\ At(s, "run")
  /\ s # IDLE /\ cr3[s] = NULL
  /\ Goto(s, "wait")
  /\ UNCHANGED <<fields, machine, memory, locals>>

WaitEnter(s) ==
  /\ At(s, "wait")
  /\ cursor' = [cursor EXCEPT ![s] = first_child[s]]
  /\ Goto(s, IF first_child[s] # NO_PID THEN "scan" ELSE IF s = INIT THEN "sleep" ELSE "run")
  /\ wake' = [wake EXCEPT ![s] = IF first_child[s] = NO_PID /\ s = INIT
                                 THEN INIT_IDLE_POLL_TICKS ELSE @]
  /\ UNCHANGED <<state, pid, generation, parent_pid, first_child, next_sibling, stack_base,
                 cr3, rsp, machine, memory, nxt, prev, slot, held>>

\* One turn of the scan: the list ends here, a Zombie, or the next sibling.
ScanEnds(s) ==
  /\ At(s, "scan") /\ ~find_by_pid(cursor[s])
  /\ cursor' = [cursor EXCEPT ![s] = NO_PID]
  /\ Goto(s, "block")
  /\ UNCHANGED <<fields, machine, memory, nxt, prev, slot, held>>

ScanFinds(s) ==
  /\ At(s, "scan") /\ find_by_pid(cursor[s])
  /\ state[pid_slot_index(cursor[s])] = "Zombie"
  /\ Goto(s, "unlink")
  /\ UNCHANGED <<fields, machine, memory, locals>>

ScanNext(s) ==
  /\ At(s, "scan") /\ find_by_pid(cursor[s])
  /\ state[pid_slot_index(cursor[s])] # "Zombie"
  /\ cursor' = [cursor EXCEPT ![s] = next_sibling[pid_slot_index(cursor[s])]]
  /\ UNCHANGED <<fields, machine, memory, pc, nxt, prev, slot, held>>

(* remove_child(self, cursor): the new link is loaded in one step and stored *)
(* in the next, into first_child (prev = -1) or into a sibling.              *)
UnlinkHead(s) ==
  /\ At(s, "unlink") /\ first_child[s] = cursor[s]
  /\ nxt' = [nxt EXCEPT ![s] = sibling_of(cursor[s])]
  /\ Goto(s, "store")
  /\ UNCHANGED <<fields, machine, memory, cursor, prev, slot, held>>

\* The walk goes on at link p, or gives up if p is no task's pid.
WalkTo(s, p) ==
  /\ prev' = [prev EXCEPT ![s] = IF find_by_pid(p) THEN pid_slot_index(p) ELSE -1]
  /\ Goto(s, IF find_by_pid(p) THEN "walk" ELSE "dead")
  /\ UNCHANGED <<fields, machine, memory, cursor, nxt, slot, held>>

UnlinkWalk(s) == At(s, "unlink") /\ first_child[s] # cursor[s] /\ WalkTo(s, first_child[s])

WalkFinds(s) ==
  /\ At(s, "walk") /\ next_sibling[prev[s]] = cursor[s]
  /\ nxt' = [nxt EXCEPT ![s] = sibling_of(cursor[s])]
  /\ Goto(s, "store")
  /\ UNCHANGED <<fields, machine, memory, cursor, prev, slot, held>>

\* Mutant: the walk of remove_child looks at one sibling only.
WalkNextStops(s) ==
  /\ At(s, "walk") /\ next_sibling[prev[s]] # cursor[s]
  /\ WalkTo(s, NO_PID)

WalkNext(s) ==
  /\ At(s, "walk") /\ next_sibling[prev[s]] # cursor[s]
  /\ WalkTo(s, next_sibling[prev[s]])

StoreLink(s) ==
  /\ At(s, "store")
  /\ first_child' = IF prev[s] = -1 THEN [first_child EXCEPT ![s] = nxt[s]] ELSE first_child
  /\ next_sibling' = IF prev[s] # -1 THEN [next_sibling EXCEPT ![prev[s]] = nxt[s]]
                                     ELSE next_sibling
  /\ nxt' = [nxt EXCEPT ![s] = NO_PID]
  /\ prev' = [prev EXCEPT ![s] = -1]
  /\ Goto(s, "dead")
  /\ UNCHANGED <<state, pid, generation, parent_pid, stack_base, cr3, rsp, wake, machine,
                 memory, cursor, slot, held>>

(* child->state = Dead, and only then child->parent_pid = NO_PID. *)
MarkDead(s) ==
  /\ At(s, "dead")
  /\ state' = [state EXCEPT ![pid_slot_index(cursor[s])] = "Dead"]
  /\ Goto(s, "detach")
  /\ UNCHANGED <<pid, generation, parent_pid, first_child, next_sibling, stack_base, cr3,
                 rsp, wake, machine, memory, locals>>

Detach(s) ==
  /\ At(s, "detach")
  /\ parent_pid' = [parent_pid EXCEPT ![pid_slot_index(cursor[s])] = NO_PID]
  /\ cursor' = [cursor EXCEPT ![s] = NO_PID]
  /\ Goto(s, "run")
  /\ UNCHANGED <<state, pid, generation, first_child, next_sibling, stack_base, cr3, rsp,
                 wake, machine, memory, nxt, prev, slot, held>>

(* The loop of wait_for_child starts over at the head of the list. *)
LoadHead(s) ==
  /\ At(s, "head")
  /\ cursor' = [cursor EXCEPT ![s] = first_child[s]]
  /\ Goto(s, "scan")
  /\ UNCHANGED <<fields, machine, memory, nxt, prev, slot, held>>

(* block_current inside wait_for_child: state, then reschedule, then the     *)
(* child list is scanned again from its head.                                *)
BlockInWait(s) ==
  /\ At(s, "block")
  /\ state' = [state EXCEPT ![s] = "Blocked"]
  /\ Goto(s, "rescan")
  /\ UNCHANGED <<pid, generation, parent_pid, first_child, next_sibling, stack_base, cr3,
                 rsp, wake, machine, memory, locals>>

-----------------------------------------------------------------------------
(* Sleeping, blocking, yielding. *)

Sleep(s, n) ==
  /\ At(s, "run") /\ s \notin {IDLE, INIT}
  /\ wake' = [wake EXCEPT ![s] = n]
  /\ Goto(s, "sleep")
  /\ UNCHANGED <<state, pid, generation, parent_pid, first_child, next_sibling, stack_base,
                 cr3, rsp, machine, memory, locals>>

FallAsleep(s) ==
  /\ At(s, "sleep")
  /\ state' = [state EXCEPT ![s] = "Sleeping"]
  /\ Goto(s, "yield")
  /\ UNCHANGED <<pid, generation, parent_pid, first_child, next_sibling, stack_base, cr3,
                 rsp, wake, machine, memory, locals>>

(* SYS_SLEEP: the same, but a system call runs with interrupts off. *)
SyscallSleep(s, n) ==
  /\ At(s, "run") /\ s \notin {SHELL, IDLE, INIT}
  /\ wake' = [wake EXCEPT ![s] = n]
  /\ state' = [state EXCEPT ![s] = "Sleeping"]
  /\ cpu' = "resched"
  /\ UNCHANGED <<pid, generation, parent_pid, first_child, next_sibling, stack_base, cr3,
                 rsp, current, loaded_cr3, rsp0, pending_cleanup, tick_counter, memory,
                 pc, locals>>

(* block_current called directly, as the stress suite's tasks do. *)
Block(s) ==
  /\ At(s, "run") /\ s \notin {SHELL, IDLE, INIT}
  /\ state' = [state EXCEPT ![s] = "Blocked"]
  /\ Goto(s, "yield")
  /\ UNCHANGED <<pid, generation, parent_pid, first_child, next_sibling, stack_base, cr3,
                 rsp, wake, machine, memory, locals>>

(* unblock(p) from another kernel thread; its callers turn interrupts off. *)
Unblock(s, p) ==
  /\ At(s, "run") /\ s \notin {IDLE, INIT} /\ cr3[s] = NULL
  /\ state' = unblock(state, p)
  /\ UNCHANGED <<pid, generation, parent_pid, first_child, next_sibling, stack_base, cr3,
                 rsp, wake, machine, memory, pc, locals>>

Yield(s) ==
  /\ At(s, "run") /\ s \notin {IDLE, INIT}
  /\ cpu' = "resched"
  /\ UNCHANGED <<fields, current, loaded_cr3, rsp0, pending_cleanup, tick_counter, memory,
                 pc, locals>>

(* The call of reschedule that ends block_current and sleep_current. *)
EnterReschedule(s) ==
  /\ cpu = "task" /\ current = s /\ pc[s] \in {"yield", "rescan"}
  /\ Goto(s, IF pc[s] = "yield" THEN "run" ELSE "head")
  /\ cpu' = "resched"
  /\ UNCHANGED <<fields, current, loaded_cr3, rsp0, pending_cleanup, tick_counter, memory,
                 locals>>

-----------------------------------------------------------------------------
(* exit_current, with interrupts off from here to the switch: publish the    *)
(* stack and the address space for the next task to free, ...                *)
Exit(s) ==
  /\ At(s, "run") /\ s \notin {SHELL, IDLE, INIT}
  /\ pending_cleanup' = [stack |-> stack_base[s], cr3 |-> cr3[s],
                         active |-> stack_base[s] # NULL \/ cr3[s] # NULL]
  /\ stack_base' = [stack_base EXCEPT ![s] = NULL]
  /\ cr3' = [cr3 EXCEPT ![s] = NULL]
  /\ cursor' = [cursor EXCEPT ![s] = first_child[s]]
  /\ Goto(s, "adopt")
  /\ UNCHANGED <<state, pid, generation, parent_pid, first_child, next_sibling, rsp, wake,
                 current, loaded_cr3, rsp0, tick_counter, cpu, memory, nxt, prev, slot, held>>

\* Mutant: child->next_sibling is read after add_child has changed it.
AdoptLosesSiblings(s) ==
  LET c == pid_slot_index(cursor[s]) IN
  /\ At(s, "adopt") /\ find_by_pid(cursor[s])
  /\ parent_pid' = [parent_pid EXCEPT ![c] = init_pid]
  /\ next_sibling' = [next_sibling EXCEPT ![c] = first_child[INIT]]
  /\ first_child' = [first_child EXCEPT ![INIT] = cursor[s]]
  /\ state' = unblock(state, init_pid)
  /\ cursor' = [cursor EXCEPT ![s] = first_child[INIT]]
  /\ UNCHANGED <<pid, generation, stack_base, cr3, rsp, wake, machine, memory,
                 pc, nxt, prev, slot, held>>

\* Mutant: a child is put on init's list but keeps the pid of its old parent.
AdoptKeepsParent(s) ==
  LET c == pid_slot_index(cursor[s]) IN
  /\ At(s, "adopt") /\ find_by_pid(cursor[s])
  /\ next_sibling' = [next_sibling EXCEPT ![c] = first_child[INIT]]
  /\ first_child' = [first_child EXCEPT ![INIT] = cursor[s]]
  /\ state' = unblock(state, init_pid)
  /\ cursor' = [cursor EXCEPT ![s] = next_sibling[c]]
  /\ UNCHANGED <<pid, generation, parent_pid, stack_base, cr3, rsp, wake, machine, memory,
                 pc, nxt, prev, slot, held>>

(* ... hand each child to init, ... *)
Adopt(s) ==
  LET c == pid_slot_index(cursor[s]) IN
  /\ At(s, "adopt") /\ find_by_pid(cursor[s])
  /\ parent_pid' = [parent_pid EXCEPT ![c] = init_pid]
  /\ next_sibling' = [next_sibling EXCEPT ![c] = first_child[INIT]]
  /\ first_child' = [first_child EXCEPT ![INIT] = cursor[s]]
  /\ state' = unblock(state, init_pid)
  /\ cursor' = [cursor EXCEPT ![s] = next_sibling[c]]
  /\ UNCHANGED <<pid, generation, stack_base, cr3, rsp, wake, machine, memory,
                 pc, nxt, prev, slot, held>>

AdoptEnds(s) ==
  /\ At(s, "adopt") /\ ~find_by_pid(cursor[s])
  /\ first_child' = [first_child EXCEPT ![s] = NO_PID]
  /\ cursor' = [cursor EXCEPT ![s] = NO_PID]
  /\ Goto(s, "die")
  /\ UNCHANGED <<state, pid, generation, parent_pid, next_sibling, stack_base, cr3, rsp, wake,
                 machine, memory, nxt, prev, slot, held>>

(* ... become a Zombie and wake the parent, or Dead without one, and leave.  *)
BecomeZombie(s) ==
  /\ At(s, "die") /\ find_by_pid(parent_pid[s])
  /\ state' = unblock([state EXCEPT ![s] = "Zombie"], parent_pid[s])
  /\ cpu' = "resched"
  /\ UNCHANGED <<pid, generation, parent_pid, first_child, next_sibling, stack_base, cr3, rsp,
                 wake, current, loaded_cr3, rsp0, pending_cleanup, tick_counter, memory, pc,
                 locals>>

BecomeDead(s) ==
  /\ At(s, "die") /\ ~find_by_pid(parent_pid[s])
  /\ state' = [state EXCEPT ![s] = "Dead"]
  /\ parent_pid' = [parent_pid EXCEPT ![s] = NO_PID]
  /\ cpu' = "resched"
  /\ UNCHANGED <<pid, generation, first_child, next_sibling, stack_base, cr3, rsp, wake,
                 current, loaded_cr3, rsp0, pending_cleanup, tick_counter, memory, pc, locals>>

-----------------------------------------------------------------------------
Scheduler == Reschedule \/ NothingReady \/ SwitchTail

(* The steps that go on with an operation already begun. *)
Cleaning(s) == Trampoline(s) \/ TakeCleanup(s) \/ FreeCleanup(s)
Creating(s) ==
  \/ FindFreeSlot(s) \/ NoFreeSlot(s) \/ AllocStack(s) \/ NoStack(s)
  \/ FillSlot(s) \/ LinkSlot(s) \/ ReadySlot(s)
Scanning(s) ==
  \/ WaitEnter(s) \/ LoadHead(s) \/ ScanEnds(s) \/ ScanFinds(s) \/ ScanNext(s) \/ BlockInWait(s)
Reaping(s) ==
  \/ UnlinkHead(s) \/ UnlinkWalk(s) \/ WalkFinds(s) \/ WalkNext(s) \/ StoreLink(s)
  \/ MarkDead(s) \/ Detach(s)
Pausing(s) == FallAsleep(s) \/ EnterReschedule(s)
Exiting(s) == Adopt(s) \/ AdoptEnds(s) \/ BecomeZombie(s) \/ BecomeDead(s)

Continue(s) ==
  \/ Cleaning(s) \/ Creating(s) \/ Scanning(s) \/ Reaping(s) \/ Pausing(s) \/ Exiting(s)

(* The operations a task may begin.  init does nothing but wait and sleep.   *)
Begin(s) ==
  \/ "create" \in Ops /\ CreateThread(s)
  \/ "process" \in Ops /\ CreateProcess(s)
  \/ s \in Waiters \cup {INIT} /\ CallWait(s)
  \/ "sleep" \in Ops /\ \E n \in SleepTicks : Sleep(s, n)
  \/ "syscall" \in Ops /\ \E n \in SleepTicks : SyscallSleep(s, n)
  \/ "block" \in Ops /\ Block(s)
  \/ "unblock" \in Ops /\ \E p \in KnownPids : Unblock(s, p)
  \/ "yield" \in Ops /\ Yield(s)
  \/ "exit" \in Ops /\ Exit(s)

Next == Tick \/ Scheduler \/ \E s \in Slots : Continue(s) \/ Begin(s)

Spec == Init /\ [][Next]_vars

(* The interrupt controller holds a timer interrupt until interrupts are on  *)
(* again, the scheduler's own code always finishes, and a task that is       *)
(* scheduled again and again gets instructions executed.  init never stops   *)
(* looping.  Nothing obliges a task to begin an operation.                   *)
FairSpec ==
  /\ Spec
  /\ SF_vars(Tick) /\ WF_vars(Scheduler)
  /\ \A s \in Slots : SF_vars(Continue(s))
  /\ SF_vars(CallWait(INIT))

=============================================================================
