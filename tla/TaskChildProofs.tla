-------------------------- MODULE TaskChildProofs --------------------------
(***************************************************************************)
(* Proofs about the scheduler's states and about the child lists, with the *)
(* shell as the only creator of tasks: whoever executes is Running, and    *)
(* the shell's list is at every instant a chain of exactly its children,   *)
(* also in the middle of add_child and remove_child.                       *)
(***************************************************************************)
EXTENDS TaskLifecycleProofs, FiniteSetTheorems, WellFoundedInduction

\* Most leaves here need no arithmetic and go to Zenon; the others cite SMT.
USE ZenonT(60)

(* A task that gives up the CPU is not resumed before it is Ready again,     *)
(* because idle is there to take over; so whoever executes is Running.       *)
LEMMA RunsRunningStep == LifecycleInv /\ RunsRunning /\ [Next]_vars => RunsRunning'
<1> SUFFICES ASSUME LifecycleInv, RunsRunning, [Next]_vars PROVE RunsRunning'
  OBVIOUS
<1>0. /\ state \in [Slots -> States] /\ pc \in [Slots -> Pcs] /\ current \in Slots
      /\ IDLE \in Slots /\ SHELL \in Slots
      /\ PermanentTasks /\ RunningIsCurrent /\ LocalSlots /\ OnlyShellHasChildren
  BY SlotIndex DEF LifecycleInv, GeneralInv, TypeOK
<1> USE DEF RunsRunning
<1>1. CASE Tick \/ Scheduler
  <2>1. CASE Tick
    <3>1. \A i \in Slots : state[i] = "Running" => state'[i] = "Running"
      BY <2>1 DEF Tick
    <3> QED
      BY <1>0, <2>1, <3>1 DEF Tick, InterruptsOn
  <2>2. CASE Reschedule
    <3>1. PICK n \in Slots : state[n] = "Ready" /\ SwitchTo(n)
      BY <2>2 DEF Reschedule
    <3>2. current' = n /\ state'[n] = "Running"
      BY <1>0, <3>1 DEF SwitchTo
    <3> QED
      BY <3>2
  <2>3. CASE NothingReady
    <3>1. state[IDLE] = "Running" => IDLE = current
      BY <1>0 DEF RunningIsCurrent
    <3>2. current = IDLE
      BY <1>0, <2>3, <3>1 DEF PermanentTasks, NothingReady
    <3> QED
      BY <2>3, <3>2 DEF NothingReady, fields
  <2>4. SwitchTail => RunsRunning'
    BY DEF SwitchTail, fields
  <2> QED
    BY <1>1, <2>1, <2>2, <2>3, <2>4, Zenon DEF Scheduler
<1>2. ASSUME NEW s \in Slots, Cleaning(s) PROVE RunsRunning'
  <2>1. Trampoline(s) => RunsRunning'
    BY <1>0 DEF Trampoline, At, Goto, fields, machine, memory, locals
  <2>2. TakeCleanup(s) => RunsRunning'
    BY <1>0 DEF TakeCleanup, At, Goto, fields, machine, memory, locals
  <2>3. FreeCleanup(s) => RunsRunning'
    BY <1>0 DEF FreeCleanup, At, Goto, fields, machine, memory, locals
  <2> QED
    BY <1>2, <2>1, <2>2, <2>3, Zenon DEF Cleaning
<1>3. ASSUME NEW s \in Slots, Creating(s) PROVE RunsRunning'
  <2>1. FindFreeSlot(s) => RunsRunning'
    BY <1>0 DEF FindFreeSlot, FreeSlots, At, Goto, fields, machine, memory, locals
  <2>2. NoFreeSlot(s) => RunsRunning'
    BY <1>0 DEF NoFreeSlot, CreateFails, At, Goto, fields, machine, memory, locals
  <2>3. AllocStack(s) => RunsRunning'
    BY <1>0 DEF AllocStack, At, Goto, fields, machine, memory, locals
  <2>4. NoStack(s) => RunsRunning'
    BY <1>0 DEF NoStack, CreateFails, At, Goto, fields, machine, memory, locals
  <2>5. CASE FillSlot(s)
    <3>1. /\ s = SHELL /\ state[s] = "Running"
          /\ slot[s] \in Slots \ {SHELL, IDLE, INIT} /\ state[slot[s]] = "Dead"
      BY <1>0, <2>5 DEF FillSlot, At, OnlyShellHasChildren, LocalSlots, CreatePcs
    <3> QED
      BY <1>0, <2>5, <3>1 DEF FillSlot, At, machine
  <2>6. LinkSlot(s) => RunsRunning'
    BY <1>0 DEF LinkSlot, At, Goto, fields, machine, memory, locals
  <2>7. CASE ReadySlot(s)
    <3>1. /\ s = SHELL /\ state[s] = "Running"
          /\ slot[s] \in Slots \ {SHELL, IDLE, INIT} /\ state[slot[s]] = "New"
      BY <1>0, <2>7 DEF ReadySlot, At, OnlyShellHasChildren, LocalSlots, CreatePcs
    <3> QED
      BY <1>0, <2>7, <3>1 DEF ReadySlot, At, Goto, machine
  <2> QED
    BY <1>3, <2>1, <2>2, <2>3, <2>4, <2>5, <2>6, <2>7, Zenon DEF Creating
<1>4. ASSUME NEW s \in Slots, Scanning(s) PROVE RunsRunning'
  <2>1. WaitEnter(s) => RunsRunning'
    BY <1>0 DEF WaitEnter, At, Goto, fields, machine, memory, locals
  <2>2. LoadHead(s) => RunsRunning'
    BY <1>0 DEF LoadHead, At, Goto, fields, machine, memory, locals
  <2>3. ScanEnds(s) => RunsRunning'
    BY <1>0 DEF ScanEnds, At, Goto, fields, machine, memory, locals
  <2>4. ScanFinds(s) => RunsRunning'
    BY <1>0 DEF ScanFinds, At, Goto, fields, machine, memory, locals
  <2>5. ScanNext(s) => RunsRunning'
    BY <1>0 DEF ScanNext, At, Goto, fields, machine, memory, locals
  <2>6. CASE BlockInWait(s)
    <3>1. s # IDLE
      BY <1>0, <2>6 DEF BlockInWait, At, PermanentTasks
    <3> QED
      BY <1>0, <2>6, <3>1 DEF BlockInWait, At, Goto, machine
  <2> QED
    BY <1>4, <2>1, <2>2, <2>3, <2>4, <2>5, <2>6, Zenon DEF Scanning
<1>5. ASSUME NEW s \in Slots, Reaping(s) PROVE RunsRunning'
  <2>1. UnlinkHead(s) => RunsRunning'
    BY <1>0 DEF UnlinkHead, At, Goto, fields, machine, memory, locals
  <2>2. UnlinkWalk(s) => RunsRunning'
    BY <1>0 DEF UnlinkWalk, WalkTo, At, Goto, fields, machine, memory, locals
  <2>3. WalkFinds(s) => RunsRunning'
    BY <1>0 DEF WalkFinds, At, Goto, fields, machine, memory, locals
  <2>4. WalkNext(s) => RunsRunning'
    BY <1>0 DEF WalkNext, WalkTo, At, Goto, fields, machine, memory, locals
  <2>5. StoreLink(s) => RunsRunning'
    BY <1>0 DEF StoreLink, At, Goto, fields, machine, memory, locals
  <2>6. CASE MarkDead(s)
    <3>1. s = SHELL /\ state[pid_slot_index(cursor[s])] = "Zombie" /\ state[s] = "Running"
      BY <1>0, <2>6 DEF MarkDead, At, OnlyShellHasChildren, WaitPcs
    <3>2. pid_slot_index(cursor[s]) # IDLE /\ pid_slot_index(cursor[s]) # s
      BY <1>0, <2>6, <3>1 DEF PermanentTasks
    <3> QED
      BY <1>0, <2>6, <3>1, <3>2 DEF MarkDead, At, Goto, machine
  <2>7. Detach(s) => RunsRunning'
    BY <1>0 DEF Detach, At, Goto, fields, machine, memory, locals
  <2> QED
    BY <1>5, <2>1, <2>2, <2>3, <2>4, <2>5, <2>6, <2>7, Zenon DEF Reaping
<1>6. ASSUME NEW s \in Slots, Pausing(s) PROVE RunsRunning'
  <2>1. CASE FallAsleep(s)
    <3>1. s # IDLE
      BY <1>0, <2>1 DEF FallAsleep, At, PermanentTasks
    <3> QED
      BY <1>0, <2>1, <3>1 DEF FallAsleep, At, Goto, machine
  <2>2. EnterReschedule(s) => RunsRunning'
    BY <1>0 DEF EnterReschedule, At, Goto, fields, machine, memory, locals
  <2> QED
    BY <1>6, <2>1, <2>2, Zenon DEF Pausing
<1>7. ASSUME NEW s \in Slots, Exiting(s) PROVE RunsRunning'
  <2>1. Adopt(s) => RunsRunning'
    BY SMTT(60), <1>0 DEF Adopt, unblock, find_by_pid, At, Goto, fields, machine, memory, locals
  <2>2. AdoptEnds(s) => RunsRunning'
    BY <1>0 DEF AdoptEnds, At, Goto, fields, machine, memory, locals
  <2>3. CASE BecomeZombie(s)
    <3>1. s # IDLE
      BY <1>0, <2>3 DEF BecomeZombie, At, PermanentTasks
    <3>2. state'[IDLE] = state[IDLE]
      BY <1>0, <2>3, <3>1 DEF BecomeZombie, unblock, PermanentTasks
    <3> QED
      BY <1>0, <2>3, <3>1, <3>2 DEF BecomeZombie, At
  <2>4. CASE BecomeDead(s)
    <3>1. s # IDLE
      BY <1>0, <2>4 DEF BecomeDead, At, PermanentTasks
    <3> QED
      BY <1>0, <2>4, <3>1 DEF BecomeDead, At
  <2> QED
    BY <1>7, <2>1, <2>2, <2>3, <2>4, Zenon DEF Exiting
<1>8. ASSUME NEW s \in Slots, Begin(s) PROVE RunsRunning'
  <2>1. CreateThread(s) => RunsRunning'
    BY <1>0 DEF CreateThread, MayCreate, At, Goto, fields, machine, memory, locals
  <2>2. CreateProcess(s) => RunsRunning'
    BY <1>0 DEF CreateProcess, MayCreate, At, Goto, fields, machine, memory, locals
  <2>3. CallWait(s) => RunsRunning'
    BY <1>0 DEF CallWait, At, Goto, fields, machine, memory, locals
  <2>4. \A n \in SleepTicks : Sleep(s, n) => RunsRunning'
    BY <1>0 DEF Sleep, At, Goto, fields, machine, memory, locals
  <2>5. \A n \in SleepTicks : SyscallSleep(s, n) => RunsRunning'
    BY <1>0 DEF SyscallSleep, At, Goto, fields, machine, memory, locals
  <2>6. Block(s) => RunsRunning'
    BY <1>0 DEF Block, At, Goto, fields, machine, memory, locals
  <2>7. \A p \in KnownPids : Unblock(s, p) => RunsRunning'
    BY <1>0 DEF Unblock, unblock, At, Goto, fields, machine, memory, locals
  <2>8. Yield(s) => RunsRunning'
    BY <1>0 DEF Yield, At, Goto, fields, machine, memory, locals
  <2>9. Exit(s) => RunsRunning'
    BY <1>0 DEF Exit, At, Goto, fields, machine, memory, locals
  <2> QED
    BY <1>8, <2>1, <2>2, <2>3, <2>4, <2>5, <2>6, <2>7, <2>8, <2>9, Zenon DEF Begin
<1>9. UNCHANGED vars => RunsRunning'
  BY DEF vars, fields, machine
<1> QED
  BY <1>1, <1>2, <1>3, <1>4, <1>5, <1>6, <1>7, <1>8, <1>9, Zenon DEF Next, Continue

(* check_invariants of task_stress.cpp holds at every instant, for any number *)
(* of slots and every interleaving: at most one task is Running, it is       *)
(* current, and a task executing its own code is Running.                    *)
THEOREM OneTaskRunning ==
  ASSUME Creators \subseteq {SHELL}
  PROVE  Spec => []OneRunning
<1>1. Init => RunsRunning
  BY SMTT(60), SlotIndex DEF Init, RunsRunning, SHELL, IDLE
<1>2. LifecycleInv /\ RunsRunning => OneRunning
  BY DEF LifecycleInv, GeneralInv, RunningIsCurrent, RunsRunning, OneRunning
<1> QED
  BY <1>1, <1>2, LifecycleInvariance, RunsRunningStep, PTL DEF Spec

-----------------------------------------------------------------------------
(* The shell's list of children. *)

(* The shell is always found by its pid. *)
LEMMA ShellIsFound ==
  ASSUME LifecycleInv, TreeInv
  PROVE  find_by_pid(pid[SHELL]) /\ pid[SHELL] # NO_PID /\ pid_slot_index(pid[SHELL]) = SHELL
<1>1. SHELL \in Slots /\ state[SHELL] # "Dead" /\ (pc[SHELL] = "link" => slot[SHELL] # SHELL)
  BY SlotIndex DEF LifecycleInv, GeneralInv, PermanentTasks, LocalSlots
<1> QED
  BY <1>1 DEF TreeInv, TreeFacts, find_by_pid

(* The program points at which the shell is changing its list. *)
BusyPcs == {"link", "ready", "unlink", "walk", "store", "dead", "detach"}

(* A step that leaves the list and what the shell knows about it alone. *)
TreeUnchanged ==
  /\ UNCHANGED <<pid, generation, parent_pid, next_sibling>>
  /\ first_child'[SHELL] = first_child[SHELL] /\ prev'[SHELL] = prev[SHELL]
  /\ \A i \in Slots : (state'[i] = "Dead" <=> state[i] = "Dead") /\ (state'[i] = "New" <=> state[i] = "New")
  /\ \/ /\ pc'[SHELL] = pc[SHELL] /\ cursor'[SHELL] = cursor[SHELL]
        /\ nxt'[SHELL] = nxt[SHELL] /\ slot'[SHELL] = slot[SHELL]
     \/ pc[SHELL] \notin BusyPcs /\ pc'[SHELL] \notin BusyPcs

(* Such a step keeps the invariant. *)
LEMMA TreeFrame == TreeInv /\ TreeUnchanged => TreeInv'
<1> SUFFICES ASSUME TreeInv, TreeUnchanged PROVE TreeInv'
  OBVIOUS
<1>0. SHELL \in Slots
  BY SlotIndex
<1>1. \A i \in Slots : Child(i)' <=> Child(i)
  BY DEF TreeUnchanged, Child, BusyPcs
<1>2. \A i \in Slots : Listed(i)' <=> Listed(i)
  BY <1>1 DEF TreeUnchanged, Listed, BusyPcs
<1>3. TreeFacts'
  <2>1. /\ \A i \in Slots : state'[i] # "Dead" /\ ~(pc'[SHELL] = "link" /\ slot'[SHELL] = i) =>
             pid'[i] # NO_PID /\ pid_slot_index(pid'[i]) = i
        /\ \A i \in {SHELL, IDLE, INIT} : parent_pid'[i] = NO_PID
        /\ pc'[SHELL] \notin {"walk", "store"} => prev'[SHELL] = -1
    BY DEF TreeInv, TreeFacts, TreeUnchanged, BusyPcs
  <2>2. \A i \in Slots : Child(i)' => parent_pid'[i] = pid'[SHELL]
    BY <1>1 DEF TreeInv, TreeFacts, TreeUnchanged
  <2>3. /\ pc'[SHELL] \in {"unlink", "walk", "store", "dead"} =>
             pid'[pid_slot_index(cursor'[SHELL])] = cursor'[SHELL]
        /\ pc'[SHELL] = "detach" =>
             pid_slot_index(cursor'[SHELL]) \in Slots /\ state'[pid_slot_index(cursor'[SHELL])] = "Dead"
    BY DEF TreeInv, TreeFacts, TreeUnchanged, BusyPcs
  <2> QED
    BY <2>1, <2>2, <2>3 DEF TreeFacts, pid_slot_index
<1>8. PICK n \in 0 .. MAX_TASKS : \E L \in [1 .. n -> Slots] : Chain(n, L) /\ OnChain(n, L)
  BY DEF TreeInv
<1>4. PICK L \in [1 .. n -> Slots] : Chain(n, L) /\ OnChain(n, L)
  BY <1>8
<1>5. \A i : LinkTo(n, L, i)' = LinkTo(n, L, i)
  BY DEF LinkTo, TreeUnchanged
<1>6. Chain(n, L)'
  BY SMTT(60), <1>2, <1>4, <1>5 DEF Chain, TreeUnchanged
<1>7. OnChain(n, L)'
  BY <1>4, <1>5 DEF OnChain, TreeUnchanged, BusyPcs
<1> QED
  BY <1>3, <1>4, <1>6, <1>7 DEF TreeInv

(* The steps that do change the list: all are the shell's. *)
TreeOps ==
  \/ FillSlot(SHELL) \/ LinkSlot(SHELL) \/ ReadySlot(SHELL) \/ ScanFinds(SHELL)
  \/ UnlinkHead(SHELL) \/ UnlinkWalk(SHELL) \/ WalkFinds(SHELL) \/ WalkNext(SHELL)
  \/ StoreLink(SHELL) \/ MarkDead(SHELL) \/ Detach(SHELL)
TreeStep == TreeUnchanged \/ TreeOps

(* With one creator, every other step of the system leaves the list alone: no *)
(* other task reaps, adopts or dies without a parent.                        *)
LEMMA TreeFootprint == LifecycleInv /\ TreeInv /\ [Next]_vars => TreeStep
<1> SUFFICES ASSUME LifecycleInv, TreeInv, [Next]_vars PROVE TreeStep
  OBVIOUS
<1>0. /\ state \in [Slots -> States] /\ pc \in [Slots -> Pcs] /\ current \in Slots
      /\ cursor \in [Slots -> Nat] /\ nxt \in [Slots -> Nat] /\ first_child \in [Slots -> Nat]
      /\ prev \in [Slots -> Slots \cup {-1}] /\ slot \in [Slots -> Slots \cup {-1}]
      /\ SHELL \in Slots
      /\ LifecycleInv /\ TreeInv /\ PermanentTasks /\ OnTheCpu
      /\ \A s \in Slots \ {SHELL} : /\ pc[s] \notin CreatePcs \cup (WaitPcs \ {"wait"})
                                    /\ first_child[s] = NO_PID /\ cursor[s] = NO_PID
  BY SlotIndex DEF LifecycleInv, GeneralInv, TypeOK, OnlyShellHasChildren
<1> USE DEF TreeStep, TreeUnchanged, BusyPcs, CreatePcs, WaitPcs, ExitPcs
<1>1. CASE Tick \/ Scheduler
  <2>1. Tick => TreeStep
    BY <1>0 DEF Tick, locals
  <2>2. CASE Reschedule
    <3>1. PICK n \in Slots : state[n] = "Ready" /\ SwitchTo(n)
      BY <2>2 DEF Reschedule
    <3>2. \A i \in Slots :
             (state'[i] = "Dead" <=> state[i] = "Dead") /\ (state'[i] = "New" <=> state[i] = "New")
      BY <1>0, <3>1 DEF SwitchTo
    <3>3. pc'[SHELL] = pc[SHELL] \/ (pc[SHELL] = "start" /\ pc'[SHELL] = "tramp")
      BY <1>0, <3>1 DEF SwitchTo
    <3> QED
      BY <1>0, <3>1, <3>2, <3>3 DEF SwitchTo, locals
  <2>3. NothingReady => TreeStep
    BY <1>0 DEF NothingReady, fields, locals
  <2>4. SwitchTail => TreeStep
    BY <1>0 DEF SwitchTail, fields, locals
  <2> QED
    BY <1>1, <2>1, <2>2, <2>3, <2>4, Zenon DEF Scheduler
<1>2. ASSUME NEW s \in Slots, Cleaning(s) PROVE TreeStep
  <2>1. Trampoline(s) => TreeStep
    BY <1>0 DEF Trampoline, At, Goto, fields, machine, memory, locals
  <2>2. TakeCleanup(s) => TreeStep
    BY <1>0 DEF TakeCleanup, At, Goto, fields, machine, memory, locals
  <2>3. FreeCleanup(s) => TreeStep
    BY <1>0 DEF FreeCleanup, At, Goto, fields, machine, memory, locals
  <2> QED
    BY <1>2, <2>1, <2>2, <2>3, Zenon DEF Cleaning
<1>3. ASSUME NEW s \in Slots, Creating(s) PROVE TreeStep
  <2>1. FindFreeSlot(s) => TreeStep
    BY <1>0 DEF FindFreeSlot, FreeSlots, At, Goto, fields, machine, memory, locals
  <2>2. NoFreeSlot(s) => TreeStep
    BY <1>0 DEF NoFreeSlot, CreateFails, At, Goto, fields, machine, memory, locals
  <2>3. AllocStack(s) => TreeStep
    BY <1>0 DEF AllocStack, At, Goto, fields, machine, memory, locals
  <2>4. NoStack(s) => TreeStep
    BY <1>0 DEF NoStack, CreateFails, At, Goto, fields, machine, memory, locals
  <2>5. FillSlot(s) => TreeStep
    BY <1>0 DEF FillSlot, At, TreeOps
  <2>6. LinkSlot(s) => TreeStep
    BY <1>0 DEF LinkSlot, At, TreeOps
  <2>7. ReadySlot(s) => TreeStep
    BY <1>0 DEF ReadySlot, At, TreeOps
  <2> QED
    BY <1>3, <2>1, <2>2, <2>3, <2>4, <2>5, <2>6, <2>7, Zenon DEF Creating
<1>4. ASSUME NEW s \in Slots, Scanning(s) PROVE TreeStep
  <2>1. WaitEnter(s) => TreeStep
    BY <1>0 DEF WaitEnter, At, Goto, fields, machine, memory, locals
  <2>2. LoadHead(s) => TreeStep
    BY <1>0 DEF LoadHead, At, Goto, fields, machine, memory, locals
  <2>3. ScanEnds(s) => TreeStep
    BY <1>0 DEF ScanEnds, At, Goto, fields, machine, memory, locals
  <2>4. ScanFinds(s) => TreeStep
    BY <1>0 DEF ScanFinds, At, TreeOps
  <2>5. ScanNext(s) => TreeStep
    BY <1>0 DEF ScanNext, At, Goto, fields, machine, memory, locals
  <2>6. CASE BlockInWait(s)
    <3>1. state[s] \notin {"Dead", "New"}
      BY <1>0, <2>6 DEF BlockInWait, At, OnTheCpu
    <3> QED
      BY <1>0, <2>6, <3>1 DEF BlockInWait, At, Goto, machine, locals
  <2> QED
    BY <1>4, <2>1, <2>2, <2>3, <2>4, <2>5, <2>6, Zenon DEF Scanning
<1>5. ASSUME NEW s \in Slots, Reaping(s) PROVE TreeStep
  <2>1. UnlinkHead(s) => TreeStep
    BY <1>0 DEF UnlinkHead, At, TreeOps
  <2>2. UnlinkWalk(s) => TreeStep
    BY <1>0 DEF UnlinkWalk, At, TreeOps
  <2>3. WalkFinds(s) => TreeStep
    BY <1>0 DEF WalkFinds, At, TreeOps
  <2>4. WalkNext(s) => TreeStep
    BY <1>0 DEF WalkNext, At, TreeOps
  <2>5. StoreLink(s) => TreeStep
    BY <1>0 DEF StoreLink, At, TreeOps
  <2>6. MarkDead(s) => TreeStep
    BY <1>0 DEF MarkDead, At, TreeOps
  <2>7. Detach(s) => TreeStep
    BY <1>0 DEF Detach, At, TreeOps
  <2> QED
    BY <1>5, <2>1, <2>2, <2>3, <2>4, <2>5, <2>6, <2>7, Zenon DEF Reaping
<1>6. ASSUME NEW s \in Slots, Pausing(s) PROVE TreeStep
  <2>1. CASE FallAsleep(s)
    <3>1. state[s] \notin {"Dead", "New"}
      BY <1>0, <2>1 DEF FallAsleep, At, OnTheCpu
    <3> QED
      BY <1>0, <2>1, <3>1 DEF FallAsleep, At, Goto, machine, locals
  <2>2. EnterReschedule(s) => TreeStep
    BY <1>0 DEF EnterReschedule, At, Goto, fields, machine, memory, locals
  <2> QED
    BY <1>6, <2>1, <2>2, Zenon DEF Pausing
<1>7. ASSUME NEW s \in Slots, Exiting(s) PROVE TreeStep
  <2>1. CASE Adopt(s)
    <3>1. s # SHELL
      BY <1>0, <2>1 DEF PermanentTasks, Adopt, At
    <3> QED
      BY <1>0, <2>1, <3>1 DEF Adopt, find_by_pid
  <2>2. CASE AdoptEnds(s)
    <3>1. s # SHELL
      BY <1>0, <2>2 DEF PermanentTasks, AdoptEnds, At
    <3> QED
      BY <1>0, <2>2, <3>1 DEF AdoptEnds, At, Goto, fields, machine
  <2>3. CASE BecomeZombie(s)
    <3>1. state[s] \notin {"Dead", "New"}
      BY <1>0, <2>3 DEF BecomeZombie, At, OnTheCpu
    <3>2. \A i \in Slots :
             (state'[i] = "Dead" <=> state[i] = "Dead") /\ (state'[i] = "New" <=> state[i] = "New")
      BY <1>0, <2>3, <3>1 DEF BecomeZombie, unblock
    <3> QED
      BY <1>0, <2>3, <3>2 DEF BecomeZombie, locals
  <2>4. CASE BecomeDead(s)
    <3>1. state[s] \notin {"Dead", "New"} /\ s \notin {SHELL, IDLE, INIT}
      BY <1>0, <2>4 DEF BecomeDead, At, OnTheCpu, PermanentTasks
    <3>2. parent_pid[s] = pid[SHELL] /\ find_by_pid(pid[SHELL])
      BY <1>0, <3>1, ShellIsFound DEF TreeInv, TreeFacts, Child
    <3> QED
      BY <2>4, <3>2 DEF BecomeDead
  <2> QED
    BY <1>7, <2>1, <2>2, <2>3, <2>4, Zenon DEF Exiting
<1>8. ASSUME NEW s \in Slots, Begin(s) PROVE TreeStep
  <2>1. CreateThread(s) => TreeStep
    BY <1>0 DEF CreateThread, MayCreate, At, Goto, fields, machine, memory, locals
  <2>2. CreateProcess(s) => TreeStep
    BY <1>0 DEF CreateProcess, MayCreate, At, Goto, fields, machine, memory, locals
  <2>3. CallWait(s) => TreeStep
    BY <1>0 DEF CallWait, At, Goto, fields, machine, memory, locals
  <2>4. \A n \in SleepTicks : Sleep(s, n) => TreeStep
    BY <1>0 DEF Sleep, At, Goto, fields, machine, memory, locals
  <2>5. ASSUME NEW n \in SleepTicks, SyscallSleep(s, n) PROVE TreeStep
    <3>1. state[s] \notin {"Dead", "New"}
      BY <1>0, <2>5 DEF SyscallSleep, At, OnTheCpu
    <3> QED
      BY <1>0, <2>5, <3>1 DEF SyscallSleep, At, locals
  <2>6. CASE Block(s)
    <3>1. state[s] \notin {"Dead", "New"}
      BY <1>0, <2>6 DEF Block, At, OnTheCpu
    <3> QED
      BY <1>0, <2>6, <3>1 DEF Block, At, Goto, machine, locals
  <2>7. \A p \in KnownPids : Unblock(s, p) => TreeStep
    BY <1>0 DEF Unblock, unblock, At, Goto, fields, machine, memory, locals
  <2>8. Yield(s) => TreeStep
    BY <1>0 DEF Yield, At, Goto, fields, machine, memory, locals
  <2>9. Exit(s) => TreeStep
    BY <1>0 DEF Exit, At, Goto, fields, machine, memory, locals
  <2> QED
    BY <1>8, <2>1, <2>2, <2>3, <2>4, <2>5, <2>6, <2>7, <2>8, <2>9, Zenon DEF Begin
<1>9. UNCHANGED vars => TreeStep
  BY <1>0 DEF vars, fields, locals
<1> QED
  BY <1>1, <1>2, <1>3, <1>4, <1>5, <1>6, <1>7, <1>8, <1>9, Zenon DEF Next, Continue

(* What the tasks on the list are: alive, found by their pids, and none of   *)
(* task::init's.                                                             *)
LEMMA ChainKnown ==
  ASSUME LifecycleInv, TreeInv, NEW n \in 0 .. MAX_TASKS, NEW L \in [1 .. n -> Slots], Chain(n, L)
  PROVE  /\ \A i \in 1 .. n : /\ L[i] \in Slots \ {SHELL, IDLE, INIT} /\ Listed(L[i])
                              /\ state[L[i]] # "Dead" /\ pid[L[i]] # NO_PID
                              /\ pid_slot_index(pid[L[i]]) = L[i] /\ find_by_pid(pid[L[i]])
         /\ \A i, j \in 1 .. n : pid[L[i]] = pid[L[j]] => i = j
<1>1. ASSUME NEW i \in 1 .. n
      PROVE  /\ L[i] \in Slots \ {SHELL, IDLE, INIT} /\ Listed(L[i])
             /\ state[L[i]] # "Dead" /\ pid[L[i]] # NO_PID
             /\ pid_slot_index(pid[L[i]]) = L[i] /\ find_by_pid(pid[L[i]])
  <2>1. L[i] \in Slots /\ Listed(L[i])
    BY DEF Chain
  <2>2. L[i] \notin {SHELL, IDLE, INIT} /\ Child(L[i])
    BY <2>1 DEF Listed, Child
  <2>3. state[L[i]] # "Dead" /\ ~(pc[SHELL] = "link" /\ slot[SHELL] = L[i])
    BY <2>2 DEF Child, LifecycleInv, OnlyShellHasChildren
  <2>4. pid[L[i]] # NO_PID /\ pid_slot_index(pid[L[i]]) = L[i]
    BY <2>1, <2>3 DEF TreeInv, TreeFacts
  <2> QED
    BY <2>1, <2>2, <2>3, <2>4 DEF find_by_pid
<1>2. ASSUME NEW i \in 1 .. n, NEW j \in 1 .. n, pid[L[i]] = pid[L[j]] PROVE i = j
  <2>1. L[i] = L[j]
    BY <1>1, <1>2
  <2> QED
    BY <2>1 DEF Chain
<1> QED
  BY <1>1, <1>2

(* A step that changes no link and no membership keeps the list. *)
LEMMA ChainKept ==
  ASSUME NEW n \in 0 .. MAX_TASKS, NEW L \in [1 .. n -> Slots], Chain(n, L),
         UNCHANGED <<pid, next_sibling>>, first_child'[SHELL] = first_child[SHELL],
         \A i \in Slots : Listed(i)' <=> Listed(i)
  PROVE  Chain(n, L)'
<1>1. \A i : LinkTo(n, L, i)' = LinkTo(n, L, i)
  BY DEF LinkTo
<1> QED
  BY <1>1 DEF Chain

(* The types the steps below need. *)
LEMMA TreeTypes ==
  ASSUME LifecycleInv
  PROVE  /\ state \in [Slots -> States] /\ pc \in [Slots -> Pcs] /\ pid \in [Slots -> Nat]
         /\ cursor \in [Slots -> Nat] /\ nxt \in [Slots -> Nat] /\ first_child \in [Slots -> Nat]
         /\ next_sibling \in [Slots -> Nat] /\ parent_pid \in [Slots -> Nat]
         /\ generation \in [Slots -> 0 .. PID_GENERATION_MAX]
         /\ prev \in [Slots -> Slots \cup {-1}] /\ slot \in [Slots -> Slots \cup {-1}]
         /\ SHELL \in Slots /\ IDLE \in Slots /\ INIT \in Slots
  BY SlotIndex DEF LifecycleInv, GeneralInv, TypeOK

(* init_common_slot makes a Dead slot New: it is on no list before or after. *)
LEMMA FillTree == ASSUME LifecycleInv, TreeInv, FillSlot(SHELL) PROVE TreeInv'
<1> DEFINE c == slot[SHELL]
<1>0. /\ c \in Slots \ {SHELL, IDLE, INIT} /\ state[c] = "Dead"
      /\ pc[SHELL] = "fill" /\ pc'[SHELL] = "link" /\ slot' = slot
      /\ state'[c] = "New" /\ \A i \in Slots : i # c => state'[i] = state[i]
      /\ UNCHANGED <<pid, parent_pid, first_child, next_sibling, cursor, nxt, prev>>
  BY TreeTypes DEF FillSlot, At, LifecycleInv, GeneralInv, LocalSlots, OnlyShellHasChildren
<1> HIDE DEF c
<1>1. \A i \in Slots : Child(i)' <=> Child(i)
  BY <1>0 DEF Child
<1>2. \A i \in Slots : Listed(i)' <=> Listed(i)
  BY <1>0, <1>1 DEF Listed
<1>3. TreeFacts'
  BY <1>0, <1>1 DEF TreeInv, TreeFacts, c
<1>4. PICK n \in 0 .. MAX_TASKS : \E L \in [1 .. n -> Slots] : Chain(n, L) /\ OnChain(n, L)
  BY DEF TreeInv
<1>5. PICK L \in [1 .. n -> Slots] : Chain(n, L)
  BY <1>4
<1>6. Chain(n, L)'
  BY <1>0, <1>2, <1>5, ChainKept
<1>7. OnChain(n, L)'
  BY <1>0 DEF OnChain
<1> QED
  BY <1>3, <1>6, <1>7 DEF TreeInv

(* The slot becomes Ready: it stays on the list. *)
LEMMA ReadyTree == ASSUME LifecycleInv, TreeInv, ReadySlot(SHELL) PROVE TreeInv'
<1> DEFINE c == slot[SHELL]
<1>0. /\ c \in Slots \ {SHELL, IDLE, INIT} /\ state[c] = "New"
      /\ pc[SHELL] = "ready" /\ pc'[SHELL] = "run"
      /\ state'[c] = "Ready" /\ \A i \in Slots : i # c => state'[i] = state[i]
      /\ UNCHANGED <<pid, parent_pid, first_child, next_sibling, cursor, nxt, prev>>
  BY TreeTypes DEF ReadySlot, At, Goto, LifecycleInv, GeneralInv, LocalSlots, OnlyShellHasChildren
<1> HIDE DEF c
<1>1. \A i \in Slots : Child(i)' <=> Child(i)
  BY <1>0 DEF Child, c
<1>2. \A i \in Slots : Listed(i)' <=> Listed(i)
  BY <1>0, <1>1 DEF Listed
<1>3. TreeFacts'
  BY <1>0, <1>1 DEF TreeInv, TreeFacts
<1>4. PICK n \in 0 .. MAX_TASKS : \E L \in [1 .. n -> Slots] : Chain(n, L) /\ OnChain(n, L)
  BY DEF TreeInv
<1>5. PICK L \in [1 .. n -> Slots] : Chain(n, L)
  BY <1>4
<1>6. Chain(n, L)'
  BY <1>0, <1>2, <1>5, ChainKept
<1>7. OnChain(n, L)'
  BY <1>0 DEF OnChain
<1> QED
  BY <1>3, <1>6, <1>7 DEF TreeInv

(* wait_for_child has seen a Zombie: it knows its pid. *)
LEMMA FindTree == ASSUME LifecycleInv, TreeInv, ScanFinds(SHELL) PROVE TreeInv'
<1>0. /\ pc[SHELL] = "scan" /\ pc'[SHELL] = "unlink"
      /\ pid[pid_slot_index(cursor[SHELL])] = cursor[SHELL]
      /\ UNCHANGED <<state, pid, parent_pid, first_child, next_sibling, cursor, nxt, prev, slot>>
  BY TreeTypes DEF ScanFinds, At, Goto, find_by_pid, fields, locals
<1>1. \A i \in Slots : Child(i)' <=> Child(i)
  BY <1>0 DEF Child
<1>2. \A i \in Slots : Listed(i)' <=> Listed(i)
  BY <1>0, <1>1 DEF Listed
<1>3. TreeFacts'
  BY <1>0, <1>1 DEF TreeInv, TreeFacts, pid_slot_index
<1>4. PICK n \in 0 .. MAX_TASKS : \E L \in [1 .. n -> Slots] : Chain(n, L) /\ OnChain(n, L)
  BY DEF TreeInv
<1>5. PICK L \in [1 .. n -> Slots] : Chain(n, L)
  BY <1>4
<1>6. Chain(n, L)'
  BY <1>0, <1>2, <1>5, ChainKept
<1>7. OnChain(n, L)'
  BY <1>0 DEF OnChain
<1> QED
  BY <1>3, <1>6, <1>7 DEF TreeInv

(* The Zombie is marked Dead after it has left the list, ... *)
LEMMA DeadTree == ASSUME LifecycleInv, TreeInv, MarkDead(SHELL) PROVE TreeInv'
<1> DEFINE c == pid_slot_index(cursor[SHELL])
<1>0. /\ c \in Slots /\ state[c] = "Zombie"
      /\ pc[SHELL] = "dead" /\ pc'[SHELL] = "detach"
      /\ state'[c] = "Dead" /\ \A i \in Slots : i # c => state'[i] = state[i]
      /\ UNCHANGED <<pid, parent_pid, first_child, next_sibling, cursor, nxt, prev, slot>>
  BY TreeTypes DEF MarkDead, At, Goto, locals, LifecycleInv, OnlyShellHasChildren
<1>1. \A i \in Slots : Child(i)' => Child(i)
  <2> HIDE DEF c
  <2> QED
    BY <1>0 DEF Child
<1>2. \A i \in Slots : Listed(i)' <=> Listed(i)
  BY <1>0 DEF Listed, Child, pid_slot_index
<1>3. TreeFacts'
  BY SMTT(60), <1>0, <1>1 DEF TreeInv, TreeFacts, pid_slot_index
<1>4. PICK n \in 0 .. MAX_TASKS : \E L \in [1 .. n -> Slots] : Chain(n, L) /\ OnChain(n, L)
  BY DEF TreeInv
<1>5. PICK L \in [1 .. n -> Slots] : Chain(n, L)
  BY <1>4
<1>6. Chain(n, L)'
  BY <1>0, <1>2, <1>5, ChainKept
<1>7. OnChain(n, L)'
  BY <1>0 DEF OnChain
<1> QED
  BY <1>3, <1>6, <1>7 DEF TreeInv

(* ... and loses its parent after that. *)
LEMMA DetachTree == ASSUME LifecycleInv, TreeInv, Detach(SHELL) PROVE TreeInv'
<1> DEFINE c == pid_slot_index(cursor[SHELL])
<1>0. /\ c \in Slots /\ state[c] = "Dead"
      /\ pc[SHELL] = "detach" /\ pc'[SHELL] = "run"
      /\ parent_pid' = [parent_pid EXCEPT ![c] = NO_PID]
      /\ UNCHANGED <<state, pid, first_child, next_sibling, nxt, prev, slot>>
  BY TreeTypes DEF Detach, At, Goto, TreeInv, TreeFacts
<1> HIDE DEF c
<1>1. \A i \in Slots : (Child(i)' <=> Child(i)) /\ (Child(i) => i # c)
  BY <1>0 DEF Child
<1>2. \A i \in Slots : Listed(i)' <=> Listed(i)
  BY <1>0, <1>1 DEF Listed
<1>3. TreeFacts'
  BY <1>0, <1>1, TreeTypes DEF TreeInv, TreeFacts
<1>4. PICK n \in 0 .. MAX_TASKS : \E L \in [1 .. n -> Slots] : Chain(n, L) /\ OnChain(n, L)
  BY DEF TreeInv
<1>5. PICK L \in [1 .. n -> Slots] : Chain(n, L)
  BY <1>4
<1>6. Chain(n, L)'
  BY <1>0, <1>2, <1>5, ChainKept
<1>7. OnChain(n, L)'
  BY <1>0 DEF OnChain
<1> QED
  BY <1>3, <1>6, <1>7 DEF TreeInv

(* What remove_child starts from: the child it looks for is on the list. *)
LEMMA CursorListed ==
  ASSUME LifecycleInv, TreeInv, pc[SHELL] \in {"unlink", "walk", "store"},
         NEW n \in 0 .. MAX_TASKS, NEW L \in [1 .. n -> Slots], Chain(n, L)
  PROVE  \E j \in 1 .. n : cursor[SHELL] = pid[L[j]]
<1> DEFINE c == pid_slot_index(cursor[SHELL])
<1>1. c \in Slots /\ state[c] = "Zombie" /\ pid[c] = cursor[SHELL]
  BY DEF LifecycleInv, OnlyShellHasChildren, TreeInv, TreeFacts
<1>2. c \notin {SHELL, IDLE, INIT}
  BY <1>1 DEF LifecycleInv, GeneralInv, PermanentTasks
<1>3. Listed(c)
  BY <1>1, <1>2 DEF Listed, Child
<1>4. PICK j \in 1 .. n : L[j] = c
  BY <1>1, <1>3 DEF Chain
<1> QED
  BY <1>1, <1>4

(* A step of the walk of remove_child changes nothing but prev and nxt. *)
LEMMA WalkKeeps ==
  ASSUME LifecycleInv, TreeInv, pc[SHELL] \in {"unlink", "walk"}, pc'[SHELL] \in {"walk", "store"},
         UNCHANGED <<fields, cursor, slot>>
  PROVE  TreeFacts' /\ \A i \in Slots : Listed(i)' <=> Listed(i)
<1>0. UNCHANGED <<state, pid, parent_pid>>
  BY DEF fields
<1>1. \A i \in Slots : Child(i)' <=> Child(i)
  BY <1>0 DEF Child
<1>2. \A i \in Slots : Listed(i)' <=> Listed(i)
  BY <1>0, <1>1 DEF Listed
<1> QED
  BY SMTT(60), <1>0, <1>1, <1>2 DEF TreeInv, TreeFacts, pid_slot_index

(* remove_child finds the child at the head of the list. *)
LEMMA UnlinkHeadTree == ASSUME LifecycleInv, TreeInv, UnlinkHead(SHELL) PROVE TreeInv'
<1>0. /\ pc[SHELL] = "unlink" /\ pc'[SHELL] = "store" /\ first_child[SHELL] = cursor[SHELL]
      /\ nxt'[SHELL] = sibling_of(cursor[SHELL])
      /\ UNCHANGED <<fields, cursor, prev, slot>>
      /\ UNCHANGED <<pid, next_sibling, first_child>>
  BY TreeTypes DEF UnlinkHead, At, Goto, fields
<1>1. TreeFacts' /\ \A i \in Slots : Listed(i)' <=> Listed(i)
  BY <1>0, WalkKeeps
<1>2. PICK n \in 0 .. MAX_TASKS : \E L \in [1 .. n -> Slots] : Chain(n, L) /\ OnChain(n, L)
  BY DEF TreeInv
<1>3. PICK L \in [1 .. n -> Slots] : Chain(n, L)
  BY <1>2
<1>4. Chain(n, L)'
  BY <1>0, <1>1, <1>3, ChainKept
<1>5. PICK j \in 1 .. n : cursor[SHELL] = pid[L[j]]
  BY <1>0, <1>3, CursorListed
<1>6. 1 \in 1 .. n /\ n \in Nat
  BY SMTT(60), <1>5
<1>7. cursor[SHELL] = pid[L[1]]
  BY SMTT(60), <1>0, <1>3, <1>6 DEF Chain, LinkTo
<1>8. nxt'[SHELL] = LinkTo(n, L, 2)
  <2>1. find_by_pid(pid[L[1]]) /\ pid_slot_index(pid[L[1]]) = L[1]
    BY SMTT(60), <1>3, <1>6, ChainKnown
  <2>2. nxt'[SHELL] = next_sibling[L[1]]
    BY <1>0, <1>7, <2>1 DEF sibling_of
  <2>3. next_sibling[L[1]] = LinkTo(n, L, 1 + 1)
    BY <1>3, <1>6 DEF Chain
  <2> QED
    BY SMTT(60), <2>2, <2>3
<1>9. OnChain(n, L)'
  <2>1. prev'[SHELL] = -1
    BY <1>0 DEF TreeInv, TreeFacts
  <2>2. LinkTo(n, L, 1 + 1)' = LinkTo(n, L, 2)
    BY SMTT(60), <1>0 DEF LinkTo
  <2> QED
    BY <1>0, <1>6, <1>7, <1>8, <2>1, <2>2 DEF OnChain
<1> QED
  BY <1>1, <1>4, <1>9 DEF TreeInv

(* The child is not the first: the walk starts at the first one. *)
LEMMA UnlinkWalkTree == ASSUME LifecycleInv, TreeInv, UnlinkWalk(SHELL) PROVE TreeInv'
<1>0. /\ pc[SHELL] = "unlink" /\ first_child[SHELL] # cursor[SHELL]
      /\ WalkTo(SHELL, first_child[SHELL])
  BY DEF UnlinkWalk, At
<1>1. PICK n \in 0 .. MAX_TASKS : \E L \in [1 .. n -> Slots] : Chain(n, L) /\ OnChain(n, L)
  BY DEF TreeInv
<1>2. PICK L \in [1 .. n -> Slots] : Chain(n, L)
  BY <1>1
<1>3. PICK j \in 1 .. n : cursor[SHELL] = pid[L[j]]
  BY <1>0, <1>2, CursorListed
<1>4. 1 \in 1 .. n /\ n \in Nat
  BY SMTT(60), <1>3
<1>5. first_child[SHELL] = pid[L[1]] /\ 1 < j
  <2>1. first_child[SHELL] = pid[L[1]]
    BY SMTT(60), <1>2, <1>4 DEF Chain, LinkTo
  <2>2. j # 1
    BY <1>0, <1>3, <2>1
  <2> QED
    BY SMTT(60), <2>1, <2>2
<1>6. find_by_pid(first_child[SHELL]) /\ pid_slot_index(first_child[SHELL]) = L[1]
  BY SMTT(60), <1>2, <1>4, <1>5, ChainKnown
<1>7. /\ pc'[SHELL] = "walk" /\ prev'[SHELL] = L[1] /\ UNCHANGED <<fields, cursor, slot>>
      /\ UNCHANGED <<pid, next_sibling, first_child>>
  BY <1>0, <1>6, TreeTypes DEF WalkTo, Goto, fields
<1>8. TreeFacts' /\ \A i \in Slots : Listed(i)' <=> Listed(i)
  BY <1>0, <1>7, WalkKeeps
<1>9. Chain(n, L)'
  BY <1>2, <1>7, <1>8, ChainKept
<1>10. OnChain(n, L)'
  BY <1>3, <1>4, <1>5, <1>7 DEF OnChain
<1> QED
  BY <1>8, <1>9, <1>10 DEF TreeInv

(* The walk has come to the link that names the child. *)
LEMMA WalkFindsTree == ASSUME LifecycleInv, TreeInv, WalkFinds(SHELL) PROVE TreeInv'
<1>0. /\ pc[SHELL] = "walk" /\ pc'[SHELL] = "store" /\ next_sibling[prev[SHELL]] = cursor[SHELL]
      /\ nxt'[SHELL] = sibling_of(cursor[SHELL])
      /\ UNCHANGED <<fields, cursor, prev, slot>>
      /\ UNCHANGED <<pid, next_sibling, first_child>>
  BY TreeTypes DEF WalkFinds, At, Goto, fields
<1>1. TreeFacts' /\ \A i \in Slots : Listed(i)' <=> Listed(i)
  BY <1>0, WalkKeeps
<1>2. PICK n \in 0 .. MAX_TASKS : \E L \in [1 .. n -> Slots] : Chain(n, L) /\ OnChain(n, L)
  BY DEF TreeInv
<1>3. PICK L \in [1 .. n -> Slots] : Chain(n, L) /\ OnChain(n, L)
  BY <1>2
<1>4. Chain(n, L)'
  BY <1>0, <1>1, <1>3, ChainKept
<1>5. PICK k \in 1 .. n, j \in 1 .. n : k < j /\ prev[SHELL] = L[k] /\ cursor[SHELL] = pid[L[j]]
  BY <1>0, <1>3 DEF OnChain
<1>6. k + 1 \in 1 .. n /\ n \in Nat
  BY SMTT(60), <1>5
<1>7. k + 1 = j
  <2>1. next_sibling[L[k]] = pid[L[k + 1]]
    BY SMTT(60), <1>3, <1>6 DEF Chain, LinkTo
  <2>2. pid[L[k + 1]] = pid[L[j]]
    BY <1>0, <1>5, <2>1
  <2> QED
    BY SMTT(60), <1>3, <1>6, <2>2, ChainKnown
<1>8. nxt'[SHELL] = LinkTo(n, L, j + 1)
  <2>1. find_by_pid(pid[L[j]]) /\ pid_slot_index(pid[L[j]]) = L[j]
    BY SMTT(60), <1>3, ChainKnown
  <2>2. nxt'[SHELL] = next_sibling[L[j]]
    BY <1>0, <1>5, <2>1 DEF sibling_of
  <2> QED
    BY <1>3, <2>2 DEF Chain
<1>9. OnChain(n, L)'
  <2>1. LinkTo(n, L, j + 1)' = LinkTo(n, L, j + 1)
    BY <1>0 DEF LinkTo
  <2>2. prev'[SHELL] = L[j - 1] /\ j # 1
    BY SMTT(60), <1>0, <1>5, <1>6, <1>7
  <2> QED
    BY <1>0, <1>5, <1>8, <2>1, <2>2 DEF OnChain
<1> QED
  BY <1>1, <1>4, <1>9 DEF TreeInv

(* Or it goes on to the next sibling, which exists. *)
LEMMA WalkNextTree == ASSUME LifecycleInv, TreeInv, WalkNext(SHELL) PROVE TreeInv'
<1>0. /\ pc[SHELL] = "walk" /\ next_sibling[prev[SHELL]] # cursor[SHELL]
      /\ WalkTo(SHELL, next_sibling[prev[SHELL]])
  BY DEF WalkNext, At
<1>1. PICK n \in 0 .. MAX_TASKS : \E L \in [1 .. n -> Slots] : Chain(n, L) /\ OnChain(n, L)
  BY DEF TreeInv
<1>2. PICK L \in [1 .. n -> Slots] : Chain(n, L) /\ OnChain(n, L)
  BY <1>1
<1>3. PICK k \in 1 .. n, j \in 1 .. n : k < j /\ prev[SHELL] = L[k] /\ cursor[SHELL] = pid[L[j]]
  BY <1>0, <1>2 DEF OnChain
<1>4. k + 1 \in 1 .. n /\ n \in Nat
  BY SMTT(60), <1>3
<1>5. next_sibling[prev[SHELL]] = pid[L[k + 1]] /\ k + 1 < j
  <2>1. next_sibling[prev[SHELL]] = pid[L[k + 1]]
    BY SMTT(60), <1>2, <1>3, <1>4 DEF Chain, LinkTo
  <2>2. k + 1 # j
    BY <1>0, <1>3, <2>1
  <2> QED
    BY SMTT(60), <1>3, <2>1, <2>2
<1>6. find_by_pid(next_sibling[prev[SHELL]]) /\ pid_slot_index(next_sibling[prev[SHELL]]) = L[k + 1]
  BY SMTT(60), <1>2, <1>4, <1>5, ChainKnown
<1>7. /\ pc'[SHELL] = "walk" /\ prev'[SHELL] = L[k + 1] /\ UNCHANGED <<fields, cursor, slot>>
      /\ UNCHANGED <<pid, next_sibling, first_child>>
  BY <1>0, <1>6, TreeTypes DEF WalkTo, Goto, fields
<1>8. TreeFacts' /\ \A i \in Slots : Listed(i)' <=> Listed(i)
  BY <1>0, <1>7, WalkKeeps
<1>9. Chain(n, L)'
  BY <1>2, <1>7, <1>8, ChainKept
<1>10. OnChain(n, L)'
  BY <1>3, <1>4, <1>5, <1>7 DEF OnChain
<1> QED
  BY <1>8, <1>9, <1>10 DEF TreeInv

(* The list without its j-th entry. *)
Without(n, L, j) == [i \in 1 .. n - 1 |-> IF i < j THEN L[i] ELSE L[i + 1]]

(* remove_child bridges the gap: the list is the old one without the child. *)
LEMMA StoreTree == ASSUME LifecycleInv, TreeInv, StoreLink(SHELL) PROVE TreeInv'
<1>1. PICK n \in 0 .. MAX_TASKS : \E L \in [1 .. n -> Slots] : Chain(n, L) /\ OnChain(n, L)
  BY DEF TreeInv
<1>2. PICK L \in [1 .. n -> Slots] : Chain(n, L) /\ OnChain(n, L)
  BY <1>1
<1>3. /\ pc[SHELL] = "store" /\ pc'[SHELL] = "dead" /\ prev'[SHELL] = -1
      /\ UNCHANGED <<state, pid, parent_pid, cursor, slot>>
      /\ first_child' = IF prev[SHELL] = -1 THEN [first_child EXCEPT ![SHELL] = nxt[SHELL]]
                                            ELSE first_child
      /\ next_sibling' = IF prev[SHELL] # -1 THEN [next_sibling EXCEPT ![prev[SHELL]] = nxt[SHELL]]
                                             ELSE next_sibling
  BY TreeTypes DEF StoreLink, At, Goto
<1>4. PICK j \in 1 .. n : /\ cursor[SHELL] = pid[L[j]] /\ nxt[SHELL] = LinkTo(n, L, j + 1)
                          /\ prev[SHELL] = IF j = 1 THEN -1 ELSE L[j - 1]
  BY <1>2, <1>3 DEF OnChain
<1> DEFINE M == Without(n, L, j)
<1>5. /\ n \in Nat /\ n - 1 \in 0 .. MAX_TASKS /\ j \in Nat /\ 1 <= j /\ j <= n
      /\ M \in [1 .. n - 1 -> Slots]
      /\ \A i \in 1 .. n - 1 : M[i] = IF i < j THEN L[i] ELSE L[i + 1]
  <2>1. n \in Nat /\ n - 1 \in 0 .. MAX_TASKS /\ j \in Nat /\ 1 <= j /\ j <= n
    BY SMTT(60), SizesAssumption
  <2>2. \A i \in 1 .. n - 1 : i \in 1 .. n /\ i + 1 \in 1 .. n
    BY SMTT(60), <2>1
  <2> QED
    BY <2>1, <2>2 DEF Without
<1>6. pid_slot_index(cursor[SHELL]) = L[j] /\ L[j] \in Slots
  BY SMTT(60), <1>2, <1>4, ChainKnown
<1>7. \A i \in Slots : (Child(i)' <=> Child(i)) /\ (Listed(i)' <=> Listed(i) /\ i # L[j])
  <2>1. \A i \in Slots : Child(i)' <=> Child(i)
    BY <1>3 DEF Child
  <2> QED
    BY <1>3, <1>6, <2>1 DEF Listed, pid_slot_index
<1>8. TreeFacts'
  BY SMTT(60), <1>3, <1>7 DEF TreeInv, TreeFacts, pid_slot_index
<1>9. \A i \in Nat \ {0} : LinkTo(n - 1, M, i)' = LinkTo(n, L, IF i < j THEN i ELSE i + 1)
  <2> HIDE DEF M
  <2>1. TAKE i \in Nat \ {0}
  <2>2. CASE i \in 1 .. n - 1
    BY SMTT(60), <1>3, <1>5, <2>2 DEF LinkTo
  <2>3. CASE i \notin 1 .. n - 1
    <3>1. ~(i <= n - 1) /\ ~(i < j) /\ ~(i + 1 <= n)
      BY SMTT(60), <1>5, <2>3
    <3> QED
      BY <3>1 DEF LinkTo
  <2> QED
    BY <2>2, <2>3
<1>10. Chain(n - 1, M)'
  <2> HIDE DEF M
  <2>1. \A i, k \in 1 .. n - 1 : M[i] = M[k] => i = k
    <3>1. SUFFICES ASSUME NEW i \in 1 .. n - 1, NEW k \in 1 .. n - 1, M[i] = M[k] PROVE i = k
      OBVIOUS
    <3> DEFINE a == IF i < j THEN i ELSE i + 1
               b == IF k < j THEN k ELSE k + 1
    <3>2. a \in 1 .. n /\ b \in 1 .. n /\ L[a] = L[b]
      BY SMTT(60), <1>5, <3>1
    <3>3. a = b
      <4> HIDE DEF a, b
      <4> QED
        BY <1>2, <3>2 DEF Chain
    <3> QED
      BY SMTT(60), <1>5, <3>3
  <2>2. ASSUME NEW s \in Slots PROVE Listed(s)' <=> \E i \in 1 .. n - 1 : M[i] = s
    <3>1. ASSUME Listed(s)' PROVE \E i \in 1 .. n - 1 : M[i] = s
      <4>1. Listed(s) /\ s # L[j]
        BY <1>7, <3>1
      <4>2. PICK i \in 1 .. n : L[i] = s
        BY <1>2, <4>1 DEF Chain
      <4>3. i # j
        BY <4>1, <4>2
      <4>4. CASE i < j
        <5>1. i \in 1 .. n - 1 /\ M[i] = s
          BY SMTT(60), <1>5, <4>2, <4>4
        <5> QED
          BY <5>1
      <4>5. CASE i > j
        <5>1. i - 1 \in 1 .. n - 1 /\ ~(i - 1 < j) /\ (i - 1) + 1 = i
          BY SMTT(60), <1>5, <4>5
        <5>2. M[i - 1] = s
          BY <1>5, <4>2, <5>1
        <5> QED
          BY <5>1, <5>2
      <4> QED
        BY SMTT(60), <4>3, <4>4, <4>5
    <3>2. ASSUME NEW i \in 1 .. n - 1, M[i] = s PROVE Listed(s)'
      <4> DEFINE a == IF i < j THEN i ELSE i + 1
      <4>1. a \in 1 .. n /\ a # j /\ L[a] = s
        BY SMTT(60), <1>5, <3>2
      <4> HIDE DEF a
      <4>2. Listed(s) /\ s # L[j]
        BY <1>2, <4>1 DEF Chain
      <4> QED
        BY <1>7, <4>2
    <3> QED
      BY <3>1, <3>2
  <2>3. first_child'[SHELL] = LinkTo(n - 1, M, 1)'
    <3>1. LinkTo(n - 1, M, 1)' = LinkTo(n, L, IF 1 < j THEN 1 ELSE 1 + 1)
      BY SMTT(60), <1>9
    <3>2. CASE j = 1
      <4>1. first_child'[SHELL] = nxt[SHELL] /\ nxt[SHELL] = LinkTo(n, L, 1 + 1)
        BY <1>3, <1>4, <3>2, TreeTypes
      <4> QED
        BY SMTT(60), <3>1, <3>2, <4>1
    <3>3. CASE j # 1
      <4>1. prev[SHELL] \in Slots
        BY SMTT(60), <1>4, <1>5, <3>3
      <4>2. prev[SHELL] # -1
        BY SMTT(60), <4>1 DEF Slots
      <4>3. first_child'[SHELL] = LinkTo(n, L, 1)
        BY <1>2, <1>3, <4>2 DEF Chain
      <4> QED
        BY SMTT(60), <1>5, <3>1, <3>3, <4>3
    <3> QED
      BY <3>2, <3>3
  <2>4. ASSUME NEW i \in 1 .. n - 1 PROVE next_sibling'[M[i]] = LinkTo(n - 1, M, i + 1)'
    <3> DEFINE a == IF i < j THEN i ELSE i + 1
    <3>1. a \in 1 .. n /\ a # j /\ M[i] = L[a] /\ (a = j - 1 <=> i + 1 = j)
      BY SMTT(60), <1>5
    <3>2. LinkTo(n - 1, M, i + 1)' = LinkTo(n, L, IF i + 1 < j THEN i + 1 ELSE (i + 1) + 1)
      BY SMTT(60), <1>9
    <3>3. CASE i + 1 = j
      <4>1. prev[SHELL] = L[i] /\ L[i] \in Slots /\ M[i] = L[i]
        BY SMTT(60), <1>4, <1>5, <3>3
      <4>2. prev[SHELL] # -1
        BY SMTT(60), <4>1 DEF Slots
      <4>3. next_sibling'[M[i]] = LinkTo(n, L, j + 1)
        BY <1>3, <1>4, <4>1, <4>2, TreeTypes
      <4> QED
        BY SMTT(60), <3>2, <3>3, <4>3
    <3>4. CASE i + 1 # j
      <4>1. next_sibling'[L[a]] = next_sibling[L[a]]
        <5>1. CASE j = 1
          BY <1>3, <1>4, <5>1
        <5>2. CASE j # 1
          <6>1. j - 1 \in 1 .. n /\ a # j - 1
            BY SMTT(60), <1>5, <3>1, <3>4, <5>2
          <6>2. L[a] # L[j - 1]
            BY <1>2, <3>1, <6>1 DEF Chain
          <6>3. L[a] \in Slots
            BY <3>1
          <6> QED
            BY <1>3, <1>4, <5>2, <6>2, <6>3, TreeTypes
        <5> QED
          BY <5>1, <5>2
      <4>2. next_sibling[L[a]] = LinkTo(n, L, a + 1)
        BY <1>2, <3>1 DEF Chain
      <4>3. a + 1 = IF i + 1 < j THEN i + 1 ELSE (i + 1) + 1
        BY SMTT(60), <1>5, <3>4
      <4> QED
        BY <3>1, <3>2, <4>1, <4>2, <4>3
    <3> QED
      BY <3>3, <3>4
  <2> QED
    BY <2>1, <2>2, <2>3, <2>4 DEF Chain
<1>11. OnChain(n - 1, M)'
  BY <1>3 DEF OnChain
<1> QED
  BY <1>5, <1>8, <1>10, <1>11 DEF TreeInv

(* A list without repetitions has no more entries than there are slots. *)
LEMMA ListFits ==
  ASSUME NEW m \in Nat, NEW L \in [1 .. m -> Slots], \A i, j \in 1 .. m : L[i] = L[j] => i = j
  PROVE  m <= MAX_TASKS
<1>1. IsFiniteSet(1 .. m) /\ Cardinality(1 .. m) = m
  BY SMTT(60), FS_Interval
<1>2. IsFiniteSet(Slots) /\ Cardinality(Slots) = MAX_TASKS /\ MAX_TASKS \in Nat
  <2>1. 0 \in Int /\ MAX_TASKS - 1 \in Int /\ MAX_TASKS \in Nat /\ ~(0 > MAX_TASKS - 1)
    BY SMTT(60), SizesAssumption
  <2>2. IsFiniteSet(0 .. MAX_TASKS - 1) /\ Cardinality(0 .. MAX_TASKS - 1) = (MAX_TASKS - 1) - 0 + 1
    BY <2>1, FS_Interval
  <2> QED
    BY SMTT(60), <2>1, <2>2 DEF Slots
<1>3. SUFFICES ASSUME m > MAX_TASKS PROVE FALSE
  BY SMTT(60), <1>2
<1>4. Cardinality(Slots) < Cardinality(1 .. m)
  BY <1>1, <1>2, <1>3
<1>5. \E x, y \in 1 .. m : x # y /\ L[x] = L[y]
  BY <1>1, <1>2, <1>4, FS_PigeonHole
<1> QED
  BY <1>5

(* The list with c in front. *)
Before(n, L, c) == [i \in 1 .. n + 1 |-> IF i = 1 THEN c ELSE L[i - 1]]

(* add_child puts the new task in front of the list. *)
LEMMA LinkTree == ASSUME LifecycleInv, TreeInv, LinkSlot(SHELL) PROVE TreeInv'
<1>0. PICK c \in Slots : c = slot[SHELL]
  BY TreeTypes DEF LinkSlot, At, LifecycleInv, GeneralInv, LocalSlots
<1>15. PICK p : p = make_pid(c, generation[c])
  OBVIOUS
<1>1. PICK n \in 0 .. MAX_TASKS : \E L \in [1 .. n -> Slots] : Chain(n, L) /\ OnChain(n, L)
  BY DEF TreeInv
<1>2. PICK L \in [1 .. n -> Slots] : Chain(n, L)
  BY <1>1
<1>3. /\ c \in Slots \ {SHELL, IDLE, INIT} /\ state[c] = "New"
      /\ pc[SHELL] = "link" /\ pc'[SHELL] = "ready"
      /\ pid' = [pid EXCEPT ![c] = p]
      /\ parent_pid' = [parent_pid EXCEPT ![c] = pid[SHELL]]
      /\ next_sibling' = [next_sibling EXCEPT ![c] = first_child[SHELL]]
      /\ first_child'[SHELL] = p
      /\ UNCHANGED <<state, cursor, prev, slot>>
  BY <1>0, <1>15, TreeTypes DEF LinkSlot, At, Goto, locals, LifecycleInv, GeneralInv, LocalSlots,
                                OnlyShellHasChildren
<1>4. p \in Nat /\ p # NO_PID /\ pid_slot_index(p) = c
  <2>1. c \in 0 .. 254 /\ generation[c] \in Nat
    BY SMTT(60), <1>3, SlotIndex, TreeTypes, SizesAssumption
  <2>2. p \in Nat /\ pid_slot_index(p) = c
    BY <1>15, <2>1, MakePid
  <2>3. p # NO_PID
    BY SMTT(60), <1>15, <2>1 DEF make_pid, NO_PID
  <2> QED
    BY <2>2, <2>3
<1> DEFINE M == Before(n, L, c)
<1>5. /\ n \in Nat
      /\ M \in [1 .. n + 1 -> Slots] /\ M[1] = c
      /\ \A i \in 1 .. n : i + 1 \in 1 .. n + 1 /\ M[i + 1] = L[i]
      /\ \A i \in 1 .. n + 1 : i = 1 \/ (i - 1 \in 1 .. n /\ M[i] = L[i - 1])
  <2>1. n \in Nat /\ c \in Slots
    BY SMTT(60), <1>3, SizesAssumption
  <2>2. \A i \in 1 .. n + 1 : i = 1 \/ i - 1 \in 1 .. n
    BY SMTT(60), <2>1
  <2>3. M \in [1 .. n + 1 -> Slots]
    BY <2>1, <2>2 DEF Before
  <2> QED
    BY SMTT(60), <2>1, <2>2, <2>3 DEF Before
<1>6. \A i \in Slots : Child(i)' <=> Child(i) \/ i = c
  BY <1>0, <1>3 DEF Child
<1>7. \A i \in Slots : (Listed(i)' <=> Listed(i) \/ i = c) /\ ~Listed(c)
  <2>1. ~Child(c)
    BY <1>0, <1>3 DEF Child
  <2> QED
    BY <1>0, <1>3, <1>6, <2>1 DEF Listed
<1>8. TreeFacts'
  <2>0. SHELL \in Slots /\ IDLE \in Slots /\ INIT \in Slots
    BY TreeTypes
  <2>1. \A s \in Slots : state'[s] # "Dead" => pid'[s] # NO_PID /\ pid_slot_index(pid'[s]) = s
    BY <1>0, <1>3, <1>4, TreeTypes DEF TreeInv, TreeFacts
  <2>2. \A s \in Slots : Child(s)' => parent_pid'[s] = pid'[SHELL]
    BY <1>3, <1>6, <2>0, TreeTypes DEF TreeInv, TreeFacts
  <2>3. \A s \in {SHELL, IDLE, INIT} : parent_pid'[s] = NO_PID
    BY <1>3, <2>0, TreeTypes DEF TreeInv, TreeFacts
  <2>4. prev'[SHELL] = -1
    BY <1>3 DEF TreeInv, TreeFacts
  <2> QED
    BY <1>3, <2>1, <2>2, <2>3, <2>4 DEF TreeFacts
<1> HIDE DEF M
<1>9. \A i \in 1 .. n : pid'[L[i]] = pid[L[i]] /\ next_sibling'[L[i]] = next_sibling[L[i]] /\ L[i] # c
  <2>1. TAKE i \in 1 .. n
  <2>2. L[i] \in Slots /\ Listed(L[i])
    BY <1>2, ChainKnown
  <2>3. L[i] # c
    BY <1>7, <2>2
  <2> QED
    BY <1>3, <2>2, <2>3, TreeTypes
<1>10. \A i \in Nat \ {0} : LinkTo(n + 1, M, i + 1)' = LinkTo(n, L, i)
  <2>1. TAKE i \in Nat \ {0}
  <2>2. CASE i <= n
    BY SMTT(60), <1>5, <1>9, <2>2 DEF LinkTo
  <2>3. CASE ~(i <= n)
    BY SMTT(60), <1>5, <2>3 DEF LinkTo
  <2> QED
    BY <2>2, <2>3
<1>11. \A i, j \in 1 .. n + 1 : M[i] = M[j] => i = j
  <2>1. SUFFICES ASSUME NEW i \in 1 .. n + 1, NEW j \in 1 .. n + 1, M[i] = M[j] PROVE i = j
    OBVIOUS
  <2>2. CASE i # 1 /\ j # 1
    <3>1. i - 1 \in 1 .. n /\ j - 1 \in 1 .. n /\ L[i - 1] = L[j - 1]
      BY <1>5, <2>1, <2>2
    <3>2. i - 1 = j - 1
      BY <1>2, <3>1 DEF Chain
    <3> QED
      BY SMTT(60), <3>2
  <2> QED
    BY SMTT(60), <1>5, <1>9, <2>1, <2>2
<1>12. Chain(n + 1, M)'
  <2>1. ASSUME NEW s \in Slots PROVE Listed(s)' <=> \E i \in 1 .. n + 1 : M[i] = s
    <3>1. ASSUME Listed(s)' PROVE \E i \in 1 .. n + 1 : M[i] = s
      <4>1. CASE s = c
        BY SMTT(60), <1>5, <4>1
      <4>2. CASE Listed(s)
        <5>1. PICK i \in 1 .. n : L[i] = s
          BY <1>2, <4>2 DEF Chain
        <5> QED
          BY <1>5, <5>1
      <4> QED
        BY <1>7, <3>1, <4>1, <4>2
    <3>2. ASSUME NEW i \in 1 .. n + 1, M[i] = s PROVE Listed(s)'
      <4>1. CASE i = 1
        BY <1>5, <1>7, <3>2, <4>1
      <4>2. CASE i # 1
        <5>1. i - 1 \in 1 .. n /\ L[i - 1] = s
          BY <1>5, <3>2, <4>2
        <5>2. Listed(s)
          BY <1>2, <5>1 DEF Chain
        <5> QED
          BY <1>7, <5>2
      <4> QED
        BY <4>1, <4>2
    <3> QED
      BY <3>1, <3>2
  <2>2. first_child'[SHELL] = LinkTo(n + 1, M, 1)'
    <3>1. pid'[c] = p
      BY <1>3, TreeTypes
    <3> QED
      BY SMTT(60), <1>3, <1>5, <3>1 DEF LinkTo
  <2>3. ASSUME NEW i \in 1 .. n + 1 PROVE next_sibling'[M[i]] = LinkTo(n + 1, M, i + 1)'
    <3>1. LinkTo(n + 1, M, i + 1)' = LinkTo(n, L, i)
      BY SMTT(60), <1>10
    <3>2. CASE i = 1
      <4>1. next_sibling'[c] = first_child[SHELL]
        BY <1>3, TreeTypes
      <4>2. first_child[SHELL] = LinkTo(n, L, 1)
        BY <1>2 DEF Chain
      <4> QED
        BY <1>5, <3>1, <3>2, <4>1, <4>2
    <3>3. CASE i # 1
      <4>1. i - 1 \in 1 .. n /\ M[i] = L[i - 1] /\ (i - 1) + 1 = i
        BY SMTT(60), <1>5, <3>3
      <4>2. next_sibling'[L[i - 1]] = LinkTo(n, L, (i - 1) + 1)
        BY <1>2, <1>9, <4>1 DEF Chain
      <4> QED
        BY <3>1, <4>1, <4>2
    <3> QED
      BY <3>2, <3>3
  <2> QED
    BY <1>11, <2>1, <2>2, <2>3 DEF Chain
<1>13. n + 1 \in 0 .. MAX_TASKS
  <2>1. n + 1 \in Nat
    BY SMTT(60), <1>5
  <2>2. n + 1 <= MAX_TASKS
    BY <1>5, <1>11, <2>1, ListFits
  <2> QED
    BY SMTT(60), <2>1, <2>2, SizesAssumption
<1>14. OnChain(n + 1, M)'
  BY <1>3 DEF OnChain
<1> QED
  BY <1>5, <1>8, <1>12, <1>13, <1>14 DEF TreeInv

(* task::init leaves the shell without children. *)
LEMMA TreeInit == Init => TreeInv
<1> SUFFICES ASSUME Init PROVE TreeInv
  OBVIOUS
<1>1. SHELL \in Slots /\ IDLE \in Slots /\ INIT \in Slots
  BY SlotIndex
<1>2. \A i \in Slots : ~Child(i) /\ ~Listed(i)
  BY <1>1 DEF Init, Child, Listed
<1>3. TreeFacts
  <2>1. \A i \in Slots : make_pid(i, 1) # NO_PID /\ pid_slot_index(make_pid(i, 1)) = i
    BY SMTT(60), SlotIndex, MakePid DEF make_pid, NO_PID, Slots
  <2> QED
    BY <1>1, <1>2, <2>1 DEF Init, TreeFacts
<1>4. PICK n : n = 0
  OBVIOUS
<1>5. PICK L : L \in [1 .. n -> Slots]
  <2>1. [i \in 1 .. n |-> SHELL] \in [1 .. n -> Slots]
    BY <1>1
  <2> QED
    BY <2>1
<1>6. 1 .. n = {} /\ n \in 0 .. MAX_TASKS
  BY SMTT(60), <1>4, SizesAssumption
<1>7. Chain(n, L)
  BY SMTT(60), <1>1, <1>2, <1>4, <1>6 DEF Init, Chain, LinkTo
<1>8. OnChain(n, L)
  BY <1>1 DEF Init, OnChain
<1> QED
  BY <1>3, <1>5, <1>6, <1>7, <1>8 DEF TreeInv

(* With the shell as the only creator, its child list is, at every instant,  *)
(* a chain of exactly the children that have not been taken off it.          *)
THEOREM TreeInvariance ==
  ASSUME Creators \subseteq {SHELL}
  PROVE  Spec => [](LifecycleInv /\ TreeInv)
<1>1. LifecycleInv /\ TreeInv /\ [Next]_vars => TreeInv'
  BY TreeFootprint, TreeFrame, FillTree, LinkTree, ReadyTree, FindTree, UnlinkHeadTree,
     UnlinkWalkTree, WalkFindsTree, WalkNextTree, StoreTree, DeadTree, DetachTree
     DEF TreeStep, TreeOps
<1> QED
  BY <1>1, TreeInit, LifecycleInvariance, PTL DEF Spec

(* wait_for_child's child cannot be reaped or replaced under it: however it  *)
(* is preempted, the pid it holds is still that Zombie's.                    *)
THEOREM ReaperKeepsZombie ==
  ASSUME Creators \subseteq {SHELL}
  PROVE  Spec => []ReaperHoldsZombie
<1>1. LifecycleInv /\ TreeInv => ReaperHoldsZombie
  <2> SUFFICES ASSUME LifecycleInv, TreeInv,
                      NEW s \in Slots, pc[s] \in {"unlink", "walk", "store", "dead"}
               PROVE  find_by_pid(cursor[s]) /\ state[pid_slot_index(cursor[s])] = "Zombie"
    BY DEF ReaperHoldsZombie
  <2>1. s = SHELL
    BY DEF LifecycleInv, OnlyShellHasChildren, WaitPcs
  <2> DEFINE c == pid_slot_index(cursor[SHELL])
  <2>2. c \in Slots /\ state[c] = "Zombie" /\ pid[c] = cursor[SHELL]
    BY <2>1 DEF LifecycleInv, OnlyShellHasChildren, TreeInv, TreeFacts
  <2>3. cursor[SHELL] # NO_PID
    BY SMTT(60), <2>2 DEF pid_slot_index, NO_PID, Slots
  <2> QED
    BY <2>1, <2>2, <2>3 DEF find_by_pid
<1> QED
  BY <1>1, TreeInvariance, PTL

-----------------------------------------------------------------------------
(* Pids. *)

(* Only init_common_slot touches a slot's generation and its pid, one step   *)
(* after the other.                                                          *)
LEMMA PidsStep == LifecycleInv /\ TreeInv /\ PidsCurrent /\ [Next]_vars => PidsCurrent'
<1> SUFFICES ASSUME LifecycleInv, TreeInv, PidsCurrent, TreeStep PROVE PidsCurrent'
  BY TreeFootprint
<1> USE DEF PidsCurrent
<1>1. CASE TreeUnchanged
  BY <1>1 DEF TreeUnchanged, BusyPcs, make_pid
<1>2. CASE FillSlot(SHELL)
  <2>1. slot[SHELL] \in Slots \ {SHELL} /\ pc[SHELL] = "fill"
    BY <1>2, TreeTypes DEF FillSlot, At, LifecycleInv, GeneralInv, LocalSlots
  <2>2. pc'[SHELL] = "link" /\ slot'[SHELL] = slot[SHELL] /\ pid' = pid
    BY <1>2, <2>1, TreeTypes DEF FillSlot
  <2>3. \A i \in Slots \ {slot[SHELL]} : generation'[i] = generation[i]
    BY <1>2, TreeTypes DEF FillSlot
  <2> QED
    BY <2>1, <2>2, <2>3 DEF make_pid
<1>3. CASE LinkSlot(SHELL)
  <2>1. slot[SHELL] \in Slots /\ generation' = generation
    BY <1>3, TreeTypes DEF LinkSlot, At, LifecycleInv, GeneralInv, LocalSlots
  <2>2. pid'[slot[SHELL]] = make_pid(slot[SHELL], generation[slot[SHELL]])
    BY <1>3, <2>1, TreeTypes DEF LinkSlot
  <2>3. \A i \in Slots \ {slot[SHELL]} : pid'[i] = pid[i]
    BY <1>3, TreeTypes DEF LinkSlot
  <2> QED
    BY <2>1, <2>2, <2>3 DEF make_pid
<1>4. ReadySlot(SHELL) \/ StoreLink(SHELL) \/ MarkDead(SHELL) \/ Detach(SHELL) => PidsCurrent'
  BY DEF ReadySlot, StoreLink, MarkDead, Detach, At, make_pid
<1>5. ScanFinds(SHELL) \/ UnlinkHead(SHELL) \/ WalkFinds(SHELL) => PidsCurrent'
  BY DEF ScanFinds, UnlinkHead, WalkFinds, At, fields, make_pid
<1>6. UnlinkWalk(SHELL) \/ WalkNext(SHELL) => PidsCurrent'
  BY DEF UnlinkWalk, WalkNext, WalkTo, At, fields, make_pid
<1> QED
  BY <1>1, <1>2, <1>3, <1>4, <1>5, <1>6 DEF TreeStep, TreeOps

(* With the shell as the only creator, the pid of a slot's earlier owner is  *)
(* not found once the slot has a new one (find_by_pid, make_pid).            *)
THEOREM StalePids ==
  ASSUME Creators \subseteq {SHELL}
  PROVE  Spec => []StalePidsDetected
<1>1. Init => PidsCurrent
  BY SMTT(60) DEF Init, PidsCurrent
<1>2. LifecycleInv /\ PidsCurrent => StalePidsDetected
  <2> SUFFICES ASSUME LifecycleInv, PidsCurrent, NEW t \in Slots, NEW g \in 1 .. generation[t] - 1,
                      find_by_pid(make_pid(t, g))
               PROVE  state[t] = "New" /\ \E s \in Slots : pc[s] = "link" /\ slot[s] = t
    BY DEF StalePidsDetected
  <2>1. generation[t] \in Nat /\ g \in Nat /\ g < generation[t]
    BY SMTT(60), TreeTypes, SizesAssumption
  <2>2. pid[t] = make_pid(t, g)
    BY <2>1, MakePid, SlotIndex DEF find_by_pid
  <2>3. make_pid(t, g) # make_pid(t, generation[t]) /\ generation[t] # 0
    BY SMTT(60), <2>1, SlotIndex DEF make_pid
  <2>4. pc[SHELL] = "link" /\ slot[SHELL] = t
    BY <2>2, <2>3 DEF PidsCurrent
  <2> QED
    BY <2>4, TreeTypes DEF LifecycleInv, OnlyShellHasChildren
<1> QED
  BY <1>1, <1>2, PidsStep, TreeInvariance, PTL DEF Spec

-----------------------------------------------------------------------------
(* What a walk along a child list visits. *)

(* A nonempty set of naturals has a least element. *)
LEMMA Minimum ==
  ASSUME NEW S \in SUBSET Nat, S # {}
  PROVE  \E m \in S : \A n \in S : m <= n
<1> DEFINE R == OpToRel(<, Nat)
<1>1. PICK m \in S : \A n \in S : ~ (<<n, m>> \in R)
  <2> HIDE DEF R
  <2>1. IsWellFoundedOn(R, Nat)
    BY NatLessThanWellFounded DEF R
  <2> QED
    BY <2>1, WFMin
<1>2. \A n \in S : ~(n < m)
  BY <1>1 DEF OpToRel
<1> QED
  BY SMTT(60), <1>2

(* The pids the walk visits are determined by its first and by what follows  *)
(* each of them.                                                             *)
LEMMA WalkVisits ==
  ASSUME NEW p \in Slots, NEW W \in [0 .. MAX_TASKS -> Nat], W[0] = first_child[p],
         \A i \in 1 .. MAX_TASKS : W[i] = sibling_of(W[i - 1])
  PROVE  ChildList(p) = {W[i] : i \in 0 .. MAX_TASKS} \ {NO_PID}
<1> DEFINE step(g) == [i \in 0 .. MAX_TASKS |->
                         IF i = 0 THEN first_child[p] ELSE sibling_of(g[i - 1])]
           at == CHOOSE g : g = step(g)
<1>0. MAX_TASKS \in Nat
  BY SMTT(60), SizesAssumption
<1>1. W = step(W)
  <2>1. \A i \in 0 .. MAX_TASKS : W[i] = IF i = 0 THEN first_child[p] ELSE sibling_of(W[i - 1])
    BY SMTT(60), <1>0
  <2> QED
    BY <2>1
<1>2. at = step(at)
  <2> HIDE DEF step
  <2> QED
    BY <1>1
<1> HIDE DEF at
<1>3. \A i \in 0 .. MAX_TASKS : at[i] = IF i = 0 THEN first_child[p] ELSE sibling_of(at[i - 1])
  BY <1>2
<1>4. \A i \in 0 .. MAX_TASKS : at[i] = W[i]
  <2> DEFINE Bad == {i \in 0 .. MAX_TASKS : at[i] # W[i]}
  <2>1. SUFFICES ASSUME Bad # {} PROVE FALSE
    OBVIOUS
  <2>2. PICK m \in Bad : \A n \in Bad : m <= n
    <3>1. Bad \in SUBSET Nat
      BY SMTT(60)
    <3> HIDE DEF Bad
    <3> QED
      BY <2>1, <3>1, Minimum
  <2>3. m # 0
    BY <1>3
  <2>4. m - 1 \in 0 .. MAX_TASKS /\ m \in 1 .. MAX_TASKS /\ ~(m <= m - 1)
    BY SMTT(60), <1>0, <2>3
  <2>5. at[m - 1] = W[m - 1]
    BY <2>2, <2>4
  <2>6. at[m] = W[m]
    BY <1>3, <2>3, <2>4, <2>5
  <2> QED
    BY <2>6
<1>5. ChildList(p) = {at[i] : i \in 0 .. MAX_TASKS} \ {NO_PID}
  BY DEF ChildList, at, sibling_of
<1> QED
  BY <1>4, <1>5

(* The walk from the shell's first_child visits its list, and no other task  *)
(* has one.                                                                  *)
LEMMA ChildLists ==
  ASSUME LifecycleInv, TreeInv, NEW n \in 0 .. MAX_TASKS, NEW L \in [1 .. n -> Slots], Chain(n, L)
  PROVE  /\ ChildList(SHELL) = {pid[L[i]] : i \in 1 .. n}
         /\ \A p \in Slots \ {SHELL} : ChildList(p) = {}
<1>0. MAX_TASKS \in Nat /\ n \in Nat /\ n <= MAX_TASKS /\ SHELL \in Slots /\ pid \in [Slots -> Nat]
  BY SMTT(60), SizesAssumption, TreeTypes
<1>1. sibling_of(NO_PID) = NO_PID
  BY DEF sibling_of, find_by_pid
<1>2. ASSUME NEW p \in Slots \ {SHELL} PROVE ChildList(p) = {}
  <2> DEFINE W == [i \in 0 .. MAX_TASKS |-> NO_PID]
  <2>1. first_child[p] = NO_PID
    BY DEF LifecycleInv, OnlyShellHasChildren
  <2>2. W \in [0 .. MAX_TASKS -> Nat] /\ \A i \in 0 .. MAX_TASKS : W[i] = NO_PID
    BY DEF NO_PID
  <2> HIDE DEF W
  <2>3. W[0] = first_child[p] /\ \A i \in 1 .. MAX_TASKS : W[i] = sibling_of(W[i - 1])
    BY SMTT(60), <1>0, <1>1, <2>1, <2>2
  <2>4. ChildList(p) = {W[i] : i \in 0 .. MAX_TASKS} \ {NO_PID}
    BY <2>2, <2>3, WalkVisits
  <2> QED
    BY <2>2, <2>4
<1>3. ChildList(SHELL) = {pid[L[i]] : i \in 1 .. n}
  <2> DEFINE W == [i \in 0 .. MAX_TASKS |-> LinkTo(n, L, i + 1)]
  <2>1. \A i \in 1 .. n : /\ pid[L[i]] \in Nat /\ pid[L[i]] # NO_PID
                         /\ sibling_of(pid[L[i]]) = next_sibling[L[i]]
    <3> TAKE i \in 1 .. n
    <3>1. L[i] \in Slots /\ pid[L[i]] \in Nat
      BY <1>0
    <3>2. pid[L[i]] # NO_PID /\ find_by_pid(pid[L[i]]) /\ pid_slot_index(pid[L[i]]) = L[i]
      BY SMTT(60), ChainKnown
    <3> QED
      BY <3>1, <3>2 DEF sibling_of
  <2>2. \A i \in 1 .. MAX_TASKS + 1 : LinkTo(n, L, i) \in Nat
    BY SMTT(60), <1>0, <2>1 DEF LinkTo, NO_PID
  <2>3. W \in [0 .. MAX_TASKS -> Nat] /\ \A i \in 0 .. MAX_TASKS : W[i] = LinkTo(n, L, i + 1)
    BY SMTT(60), <1>0, <2>2
  <2> HIDE DEF W
  <2>4. W[0] = first_child[SHELL]
    BY SMTT(60), <1>0, <2>3 DEF Chain
  <2>5. ASSUME NEW i \in 1 .. MAX_TASKS PROVE W[i] = sibling_of(W[i - 1])
    <3>1. W[i] = LinkTo(n, L, i + 1) /\ W[i - 1] = LinkTo(n, L, i)
      <4>1. i \in 0 .. MAX_TASKS /\ i - 1 \in 0 .. MAX_TASKS /\ (i - 1) + 1 = i
        BY SMTT(60), <1>0
      <4> QED
        BY <2>3, <4>1
    <3>2. CASE i <= n
      <4>1. i \in 1 .. n
        BY SMTT(60), <1>0, <3>2
      <4>2. W[i - 1] = pid[L[i]]
        BY <3>1, <3>2 DEF LinkTo
      <4>3. sibling_of(pid[L[i]]) = LinkTo(n, L, i + 1)
        BY <2>1, <4>1 DEF Chain
      <4> QED
        BY <3>1, <4>2, <4>3
    <3>3. CASE ~(i <= n)
      <4>1. ~(i + 1 <= n)
        BY SMTT(60), <1>0, <3>3
      <4>2. W[i] = NO_PID /\ W[i - 1] = NO_PID
        BY <3>1, <3>3, <4>1 DEF LinkTo
      <4> QED
        BY <1>1, <4>2
    <3> QED
      BY <3>2, <3>3
  <2>6. ChildList(SHELL) = {W[i] : i \in 0 .. MAX_TASKS} \ {NO_PID}
    BY <1>0, <2>3, <2>4, <2>5, WalkVisits
  <2>7. ASSUME NEW i \in 0 .. MAX_TASKS, W[i] # NO_PID PROVE \E j \in 1 .. n : W[i] = pid[L[j]]
    <3>1. i + 1 <= n /\ W[i] = pid[L[i + 1]]
      BY <2>3, <2>7 DEF LinkTo
    <3>2. i + 1 \in 1 .. n
      BY SMTT(60), <1>0, <3>1
    <3> QED
      BY <3>1, <3>2
  <2>8. ASSUME NEW j \in 1 .. n PROVE \E i \in 0 .. MAX_TASKS : W[i] = pid[L[j]]
    <3>1. j - 1 \in 0 .. MAX_TASKS /\ (j - 1) + 1 = j /\ j <= n
      BY SMTT(60), <1>0
    <3>2. W[j - 1] = pid[L[j]]
      BY <2>3, <3>1 DEF LinkTo
    <3> QED
      BY <3>1, <3>2
  <2>9. ASSUME NEW x \in {W[i] : i \in 0 .. MAX_TASKS} \ {NO_PID}
        PROVE  x \in {pid[L[j]] : j \in 1 .. n}
    <3>1. PICK i \in 0 .. MAX_TASKS : x = W[i]
      OBVIOUS
    <3>2. PICK j \in 1 .. n : W[i] = pid[L[j]]
      BY <2>7, <3>1
    <3> QED
      BY <3>1, <3>2
  <2>10. ASSUME NEW x \in {pid[L[j]] : j \in 1 .. n}
         PROVE  x \in {W[i] : i \in 0 .. MAX_TASKS} \ {NO_PID}
    <3>1. PICK j \in 1 .. n : x = pid[L[j]]
      OBVIOUS
    <3>2. PICK i \in 0 .. MAX_TASKS : W[i] = pid[L[j]]
      BY <2>8
    <3> QED
      BY <2>1, <3>1, <3>2
  <2> QED
    BY <2>6, <2>9, <2>10
<1> QED
  BY <1>2, <1>3

(* Whenever another task can look at the table, a live task's parent exists  *)
(* and lists it.                                                             *)
THEOREM ChildrenAreListed ==
  ASSUME Creators \subseteq {SHELL}
  PROVE  Spec => []ChildrenListed
<1>1. LifecycleInv /\ TreeInv => ChildrenListed
  <2> SUFFICES ASSUME LifecycleInv, TreeInv, NEW s \in Slots, state[s] \notin {"Dead", "New"},
                      parent_pid[s] # NO_PID, ~BeingReaped(s)
               PROVE  /\ find_by_pid(parent_pid[s])
                      /\ pid[s] \in ChildList(pid_slot_index(parent_pid[s]))
    BY DEF ChildrenListed
  <2>1. Child(s) /\ parent_pid[s] = pid[SHELL]
    BY DEF TreeInv, TreeFacts, Child
  <2>2. SHELL \in Slots
    BY TreeTypes
  <2>3. Listed(s)
    BY <2>1, <2>2 DEF Listed, BeingReaped
  <2>4. PICK n \in 0 .. MAX_TASKS : \E L \in [1 .. n -> Slots] : Chain(n, L) /\ OnChain(n, L)
    BY DEF TreeInv
  <2>5. PICK L \in [1 .. n -> Slots] : Chain(n, L)
    BY <2>4
  <2>6. PICK i \in 1 .. n : L[i] = s
    BY <2>3, <2>5 DEF Chain
  <2>7. pid[s] \in ChildList(SHELL)
    BY SMTT(60), <2>5, <2>6, ChildLists
  <2> QED
    BY <2>1, <2>7, ShellIsFound
<1> QED
  BY <1>1, TreeInvariance, PTL

(* A child list names only tasks that are there and whose parent is the      *)
(* list's owner.                                                             *)
THEOREM ListsNameChildren ==
  ASSUME Creators \subseteq {SHELL}
  PROVE  Spec => []ListedAreChildren
<1>1. LifecycleInv /\ TreeInv => ListedAreChildren
  <2> SUFFICES ASSUME LifecycleInv, TreeInv, NEW p \in Slots, NEW c \in ChildList(p)
               PROVE  find_by_pid(c) /\ parent_pid[pid_slot_index(c)] = pid[p]
    BY DEF ListedAreChildren
  <2>1. PICK n \in 0 .. MAX_TASKS : \E L \in [1 .. n -> Slots] : Chain(n, L) /\ OnChain(n, L)
    BY DEF TreeInv
  <2>2. PICK L \in [1 .. n -> Slots] : Chain(n, L)
    BY <2>1
  <2>3. p = SHELL
    BY SMTT(60), <2>2, ChildLists
  <2>4. PICK i \in 1 .. n : c = pid[L[i]]
    BY SMTT(60), <2>2, <2>3, ChildLists
  <2>5. /\ L[i] \in Slots /\ Listed(L[i])
        /\ pid_slot_index(pid[L[i]]) = L[i] /\ find_by_pid(pid[L[i]])
    BY SMTT(60), <2>2, ChainKnown
  <2>6. parent_pid[L[i]] = pid[SHELL]
    BY <2>5 DEF Listed, TreeInv, TreeFacts
  <2> QED
    BY <2>3, <2>4, <2>5, <2>6
<1> QED
  BY <1>1, TreeInvariance, PTL

=============================================================================
