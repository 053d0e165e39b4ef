----------------------------- MODULE TaskProofs -----------------------------
(***************************************************************************)
(* What holds of the task table whoever creates tasks: every variable        *)
(* keeps its type, and exit_current never halts the machine.                 *)
(*                                                                           *)
(* The inductive invariant GeneralInv has one lemma per conjunct, and each   *)
(* lemma one step per action of Tasks.                                       *)
(***************************************************************************)
EXTENDS TaskProperties, TLAPS

\* Most leaves here need no arithmetic and go to Zenon; the others cite SMT.
USE ZenonT(60)

(* unblock (task.cpp) only ever turns a slot's state into another state.     *)
LEMMA UnblockType ==
  ASSUME NEW st \in [Slots -> States], NEW p
  PROVE  unblock(st, p) \in [Slots -> States]
BY ZenonT(20) DEF unblock, States

(* pid_slot_index undoes make_pid for every slot index the 8 low bits can    *)
(* hold.                                                                     *)
LEMMA MakePid ==
  ASSUME NEW i \in 0 .. 254, NEW g \in Nat
  PROVE  make_pid(i, g) \in Nat /\ pid_slot_index(make_pid(i, g)) = i
BY SMTT(60) DEF make_pid, pid_slot_index

(* Every slot index fits those 8 bits, and task::init's three tasks have     *)
(* slots.                                                                    *)
LEMMA SlotIndex ==
  /\ \A i \in Slots : i \in 0 .. 254
  /\ {SHELL, IDLE, INIT} \subseteq Slots
BY SMTT(60), SizesAssumption DEF Slots, SHELL, IDLE, INIT

(* A pid that create hands out never denotes the slot of the shell, idle or  *)
(* init.                                                                     *)
LEMMA SparesPids ==
  /\ Spares(NO_PID)
  /\ \A i \in Slots \ {SHELL, IDLE, INIT}, g \in Nat : Spares(make_pid(i, g))
<1>1. Spares(NO_PID)
  BY SMTT(60) DEF Spares, pid_slot_index, NO_PID, SHELL, IDLE, INIT
<1>2. ASSUME NEW i \in Slots \ {SHELL, IDLE, INIT}, NEW g \in Nat PROVE Spares(make_pid(i, g))
  BY MakePid, SlotIndex, ZenonT(20) DEF Spares
<1> QED
  BY <1>1, <1>2

(* init_common_slot's ++generation stays in range on a slot find_free_slot   *)
(* accepts.                                                                  *)
LEMMA NextGeneration ==
  \A g \in 0 .. PID_GENERATION_MAX :
    g # PID_GENERATION_MAX => g + 1 \in 0 .. PID_GENERATION_MAX
BY SMTT(60), SizesAssumption

(* Every step of the kernel keeps every field, register and local variable   *)
(* in its type.                                                              *)
LEMMA TypeStep ==
  TypeOK /\ LocalSlots /\ [Next]_vars => TypeOK'
<1> SUFFICES ASSUME TypeOK, LocalSlots, [Next]_vars
             PROVE  TypeOK'
  OBVIOUS
<1> USE DEF TypeOK, Pcs, CreatePcs, ExitPcs, WaitPcs, States, NoBlock, NoCleanup, NO_PID
<1>1. CASE Tick \/ Scheduler
  <2>1. Tick => TypeOK'
    BY SMTT(60), SizesAssumption DEF Tick, InterruptsOn, At, Goto, fields, machine, memory, locals
  <2>2. CASE Reschedule
    <3>1. PICK n \in Slots : SwitchTo(n)
      BY <2>2 DEF Reschedule
    <3> QED
      BY <3>1 DEF SwitchTo, target_cr3, memory, locals
  <2>3. NothingReady => TypeOK'
    BY DEF NothingReady, At, Goto, fields, machine, memory, locals
  <2>4. SwitchTail => TypeOK'
    BY SMTT(60) DEF SwitchTail, At, Goto, fields, machine, memory, locals
  <2> QED
    BY <1>1, <2>1, <2>2, <2>3, <2>4, Zenon DEF Scheduler
<1>2. ASSUME NEW s \in Slots, Cleaning(s) PROVE TypeOK'
  <2>1. Trampoline(s) => TypeOK'
    BY SMTT(60) DEF Trampoline, At, Goto, fields, machine, memory, locals
  <2>2. TakeCleanup(s) => TypeOK'
    BY SMTT(60) DEF TakeCleanup, At, Goto, fields, machine, memory, locals
  <2>3. FreeCleanup(s) => TypeOK'
    BY SMTT(60) DEF FreeCleanup, At, Goto, fields, machine, memory, locals
  <2> QED
    BY <1>2, <2>1, <2>2, <2>3, Zenon DEF Cleaning
<1>3. ASSUME NEW s \in Slots, Creating(s) PROVE TypeOK'
  <2>1. FindFreeSlot(s) => TypeOK'
    BY SMTT(60) DEF FindFreeSlot, FreeSlots, At, Goto, fields, machine, memory, locals
  <2>2. NoFreeSlot(s) => TypeOK'
    BY SMTT(60) DEF NoFreeSlot, CreateFails, At, Goto, fields, machine, memory, locals
  <2>3. CASE AllocStack(s)
    <3>1. stacks' \in SUBSET Stacks
      BY <2>3 DEF AllocStack, At, Goto
    <3>2. held' \in [Slots -> [stack : Stacks \cup {NULL}, cr3 : Spaces \cup {NULL}]]
      <4>1. PICK b \in Stacks : held' = [held EXCEPT ![s].stack = b]
        BY <2>3 DEF AllocStack
      <4> QED
        BY <4>1, SMTT(60)
    <3>3. pc' \in [Slots -> Pcs]
      BY <2>3 DEF AllocStack, At, Goto
    <3>4. UNCHANGED <<fields, machine, spaces, cursor, nxt, prev, slot>>
      BY <2>3 DEF AllocStack, fields, machine, memory, locals
    <3> QED
      BY SMTT(60), <3>1, <3>2, <3>3, <3>4 DEF fields, machine, memory, locals
  <2>4. NoStack(s) => TypeOK'
    BY SMTT(60) DEF NoStack, CreateFails, At, Goto, fields, machine, memory, locals
  <2>5. CASE FillSlot(s)
    <3>1. slot[s] \in Slots /\ generation[slot[s]] # PID_GENERATION_MAX
      BY <2>5 DEF FillSlot, At, LocalSlots
    <3>2. generation[slot[s]] + 1 \in 0 .. PID_GENERATION_MAX
      BY <3>1, NextGeneration
    <3>3. state' \in [Slots -> States]
      BY <2>5, ZenonT(20) DEF FillSlot, At, Goto
    <3>4. rsp' \in [Slots -> Stacks \cup {NULL, BOOT}]
      BY <2>5, ZenonT(20) DEF FillSlot, At, Goto
    <3>5. stack_base' \in [Slots -> Stacks \cup {NULL}]
      BY <2>5, ZenonT(20) DEF FillSlot, At, Goto
    <3>6. generation' \in [Slots -> 0 .. PID_GENERATION_MAX]
      BY <2>5, <3>2, ZenonT(20) DEF FillSlot, At, Goto
    <3>7. held' \in [Slots -> [stack : Stacks \cup {NULL}, cr3 : Spaces \cup {NULL}]]
      BY SMTT(60), <2>5 DEF FillSlot, At, Goto
    <3>8. pc' \in [Slots -> Pcs]
      BY <2>5, ZenonT(20) DEF FillSlot, At, Goto
    <3>9. UNCHANGED <<pid, parent_pid, first_child, next_sibling, cr3, wake, machine, memory,
       cursor, nxt, prev, slot>>
      BY <2>5 DEF FillSlot, fields, machine, memory, locals
    <3> QED
      BY SMTT(60), <3>3, <3>4, <3>5, <3>6, <3>7, <3>8, <3>9 DEF fields, machine, memory, locals
  <2>6. CASE LinkSlot(s)
    <3>1. slot[s] \in 0 .. 254 /\ generation[slot[s]] \in Nat
      BY SMTT(60), <2>6, SlotIndex, SizesAssumption DEF LinkSlot, At, LocalSlots
    <3>2. make_pid(slot[s], generation[slot[s]]) \in Nat
      BY <3>1, MakePid, ZenonT(20)
    <3>3. pid' \in [Slots -> Nat]
      BY <2>6, <3>2, ZenonT(20) DEF LinkSlot, At, Goto
    <3>4. parent_pid' \in [Slots -> Nat]
      BY <2>6, ZenonT(20) DEF LinkSlot, At, Goto
    <3>5. next_sibling' \in [Slots -> Nat]
      BY <2>6, ZenonT(20) DEF LinkSlot, At, Goto
    <3>6. first_child' \in [Slots -> Nat]
      BY <2>6, <3>2 DEF LinkSlot, At, Goto
    <3>7. wake' \in [Slots -> Nat]
      BY <2>6, ZenonT(20) DEF LinkSlot, At, Goto
    <3>8. pc' \in [Slots -> Pcs]
      BY <2>6 DEF LinkSlot, At, Goto
    <3>9. UNCHANGED <<state, generation, stack_base, cr3, rsp, machine, memory, locals>>
      BY <2>6 DEF LinkSlot, fields, machine, memory, locals
    <3> QED
      BY <3>3, <3>4, <3>5, <3>6, <3>7, <3>8, <3>9 DEF fields, machine, memory, locals
  <2>7. CASE ReadySlot(s)
    <3>1. cr3' \in [Slots -> Spaces \cup {NULL}]
      BY <2>7, ZenonT(20) DEF ReadySlot, At, Goto
    <3>2. state' \in [Slots -> States]
      BY <2>7, ZenonT(20) DEF ReadySlot, At, Goto
    <3>3. held' \in [Slots -> [stack : Stacks \cup {NULL}, cr3 : Spaces \cup {NULL}]]
      BY <2>7 DEF ReadySlot, At, Goto
    <3>4. slot' \in [Slots -> Slots \cup {-1}]
      BY <2>7 DEF ReadySlot, At, Goto
    <3>5. pc' \in [Slots -> Pcs]
      BY <2>7 DEF ReadySlot, At, Goto
    <3>6. UNCHANGED <<pid, generation, parent_pid, first_child, next_sibling, stack_base,
       rsp, wake, machine, memory, cursor, nxt, prev>>
      BY <2>7 DEF ReadySlot, fields, machine, memory, locals
    <3> QED
      BY SMTT(60), <3>1, <3>2, <3>3, <3>4, <3>5, <3>6 DEF fields, machine, memory, locals
  <2> QED
    BY <1>3, <2>1, <2>2, <2>3, <2>4, <2>5, <2>6, <2>7, Zenon DEF Creating
<1>4. ASSUME NEW s \in Slots, Scanning(s) PROVE TypeOK'
  <2>1. WaitEnter(s) => TypeOK'
    BY SMTT(60), SizesAssumption DEF WaitEnter, At, Goto, fields, machine, memory, locals
  <2>2. LoadHead(s) => TypeOK'
    BY SMTT(60) DEF LoadHead, At, Goto, fields, machine, memory, locals
  <2>3. ScanEnds(s) => TypeOK'
    BY SMTT(60) DEF ScanEnds, At, Goto, fields, machine, memory, locals
  <2>4. ScanFinds(s) => TypeOK'
    BY SMTT(60) DEF ScanFinds, At, Goto, fields, machine, memory, locals
  <2>5. ScanNext(s) => TypeOK'
    BY SMTT(60) DEF ScanNext, At, Goto, fields, machine, memory, locals, find_by_pid
  <2>6. BlockInWait(s) => TypeOK'
    BY SMTT(60) DEF BlockInWait, At, Goto, fields, machine, memory, locals
  <2> QED
    BY <1>4, <2>1, <2>2, <2>3, <2>4, <2>5, <2>6, Zenon DEF Scanning
<1>5. ASSUME NEW s \in Slots, Reaping(s) PROVE TypeOK'
  <2>1. CASE UnlinkHead(s)
    <3>1. nxt' \in [Slots -> Nat]
      BY <2>1 DEF UnlinkHead, sibling_of, find_by_pid, NO_PID, At, Goto
    <3>2. pc' \in [Slots -> Pcs]
      BY <2>1 DEF UnlinkHead, At, Goto
    <3>3. UNCHANGED <<fields, machine, memory, cursor, prev, slot, held>>
      BY <2>1 DEF UnlinkHead, fields, machine, memory, locals
    <3> QED
      BY SMTT(60), <3>1, <3>2, <3>3 DEF fields, machine, memory, locals
  <2>2. UnlinkWalk(s) => TypeOK'
    BY SMTT(60) DEF UnlinkWalk, WalkTo, At, Goto, fields, machine, memory, locals, find_by_pid
  <2>3. CASE WalkFinds(s)
    <3>1. nxt' \in [Slots -> Nat]
      BY <2>3 DEF WalkFinds, sibling_of, find_by_pid, NO_PID, At, Goto
    <3>2. pc' \in [Slots -> Pcs]
      BY <2>3 DEF WalkFinds, At, Goto
    <3>3. UNCHANGED <<fields, machine, memory, cursor, prev, slot, held>>
      BY <2>3 DEF WalkFinds, fields, machine, memory, locals
    <3> QED
      BY SMTT(60), <3>1, <3>2, <3>3 DEF fields, machine, memory, locals
  <2>4. WalkNext(s) => TypeOK'
    BY SMTT(60) DEF WalkNext, WalkTo, At, Goto, fields, machine, memory, locals, find_by_pid
  <2>5. StoreLink(s) => TypeOK'
    BY SMTT(60) DEF StoreLink, At, Goto, fields, machine, memory, locals
  <2>6. CASE MarkDead(s)
    <3>1. state' \in [Slots -> States]
      BY <2>6, ZenonT(20) DEF MarkDead, At, Goto
    <3>2. pc' \in [Slots -> Pcs]
      BY <2>6 DEF MarkDead, At, Goto
    <3>3. UNCHANGED <<pid, generation, parent_pid, first_child, next_sibling, stack_base,
       cr3, rsp, wake, machine, memory, locals>>
      BY <2>6 DEF MarkDead, fields, machine, memory, locals
    <3> QED
      BY SMTT(60), <3>1, <3>2, <3>3 DEF fields, machine, memory, locals
  <2>7. CASE Detach(s)
    <3>1. parent_pid' \in [Slots -> Nat]
      BY <2>7, ZenonT(20) DEF Detach, At, Goto
    <3>2. cursor' \in [Slots -> Nat]
      BY <2>7 DEF Detach, At, Goto
    <3>3. pc' \in [Slots -> Pcs]
      BY <2>7 DEF Detach, At, Goto
    <3>4. UNCHANGED <<state, pid, generation, first_child, next_sibling, stack_base, cr3,
       rsp, wake, machine, memory, nxt, prev, slot, held>>
      BY <2>7 DEF Detach, fields, machine, memory, locals
    <3> QED
      BY SMTT(60), <3>1, <3>2, <3>3, <3>4 DEF fields, machine, memory, locals
  <2> QED
    BY <1>5, <2>1, <2>2, <2>3, <2>4, <2>5, <2>6, <2>7, Zenon DEF Reaping
<1>6. ASSUME NEW s \in Slots, Pausing(s) PROVE TypeOK'
  <2>1. FallAsleep(s) => TypeOK'
    BY SMTT(60) DEF FallAsleep, At, Goto, fields, machine, memory, locals
  <2>2. EnterReschedule(s) => TypeOK'
    BY SMTT(60) DEF EnterReschedule, At, Goto, fields, machine, memory, locals
  <2> QED
    BY <1>6, <2>1, <2>2, Zenon DEF Pausing
<1>7. ASSUME NEW s \in Slots, Exiting(s) PROVE TypeOK'
  <2>1. CASE Adopt(s)
    <3>1. init_pid \in Nat
      BY SMTT(60), MakePid DEF init_pid, INIT
    <3>2. unblock(state, init_pid) \in [Slots -> States]
      BY UnblockType
    <3>3. parent_pid' \in [Slots -> Nat]
      BY <2>1, <3>1, ZenonT(20) DEF Adopt, At, Goto
    <3>4. next_sibling' \in [Slots -> Nat]
      BY <2>1, SlotIndex, ZenonT(20) DEF Adopt, At, Goto
    <3>5. first_child' \in [Slots -> Nat]
      BY <2>1, ZenonT(20) DEF Adopt, At, Goto
    <3>6. state' \in [Slots -> States]
      BY <2>1, <3>2, ZenonT(20) DEF Adopt, At, Goto
    <3>7. cursor' \in [Slots -> Nat]
      BY <2>1 DEF Adopt, find_by_pid, At, Goto
    <3>8. UNCHANGED <<pid, generation, stack_base, cr3, rsp, wake, machine, memory, nxt,
       prev, slot, held, pc>>
      BY <2>1 DEF Adopt, fields, machine, memory, locals
    <3> QED
      BY SMTT(60), <3>3, <3>4, <3>5, <3>6, <3>7, <3>8 DEF fields, machine, memory, locals
  <2>2. AdoptEnds(s) => TypeOK'
    BY SMTT(60) DEF AdoptEnds, At, Goto, fields, machine, memory, locals
  <2>3. CASE BecomeZombie(s)
    <3>1. state' \in [Slots -> States]
      BY <2>3, UnblockType, ZenonT(20) DEF BecomeZombie, At, Goto
    <3>2. cpu' \in {"task", "resched", "reap", "halt"}
      BY <2>3 DEF BecomeZombie, At, Goto
    <3>3. UNCHANGED <<pid, generation, parent_pid, first_child, next_sibling, stack_base,
       cr3, rsp, wake, current, loaded_cr3, rsp0, pending_cleanup, tick_counter, memory,
       locals, pc>>
      BY <2>3 DEF BecomeZombie, fields, machine, memory, locals
    <3> QED
      BY <3>1, <3>2, <3>3 DEF fields, machine, memory, locals
  <2>4. BecomeDead(s) => TypeOK'
    BY SMTT(60) DEF BecomeDead, At, Goto, fields, machine, memory, locals
  <2> QED
    BY <1>7, <2>1, <2>2, <2>3, <2>4, Zenon DEF Exiting
<1>8. ASSUME NEW s \in Slots, Begin(s) PROVE TypeOK'
  <2>1. CreateThread(s) => TypeOK'
    BY SMTT(60) DEF CreateThread, MayCreate, At, Goto, fields, machine, memory, locals
  <2>2. CASE CreateProcess(s)
    <3>1. spaces' \in SUBSET Spaces
      BY <2>2 DEF CreateProcess, At, Goto
    <3>2. held' \in [Slots -> [stack : Stacks \cup {NULL}, cr3 : Spaces \cup {NULL}]]
      <4>1. PICK b \in Spaces : held' = [held EXCEPT ![s].cr3 = b]
        BY <2>2 DEF CreateProcess
      <4> QED
        BY <4>1, SMTT(60)
    <3>3. pc' \in [Slots -> Pcs]
      BY <2>2 DEF CreateProcess, At, Goto
    <3>4. UNCHANGED <<fields, machine, stacks, cursor, nxt, prev, slot>>
      BY <2>2 DEF CreateProcess, fields, machine, memory, locals
    <3> QED
      BY SMTT(60), <3>1, <3>2, <3>3, <3>4 DEF fields, machine, memory, locals
  <2>3. CallWait(s) => TypeOK'
    BY SMTT(60) DEF CallWait, At, Goto, fields, machine, memory, locals
  <2>4. \A n \in SleepTicks : Sleep(s, n) => TypeOK'
    BY SMTT(60), SizesAssumption DEF Sleep, At, Goto, fields, machine, memory, locals
  <2>5. \A n \in SleepTicks : SyscallSleep(s, n) => TypeOK'
    BY SMTT(60), SizesAssumption DEF SyscallSleep, At, Goto, fields, machine, memory, locals
  <2>6. Block(s) => TypeOK'
    BY SMTT(60) DEF Block, At, Goto, fields, machine, memory, locals
  <2>7. ASSUME NEW p \in KnownPids, Unblock(s, p) PROVE TypeOK'
    <3>1. state' \in [Slots -> States]
      BY <2>7, UnblockType DEF Unblock
    <3> QED
      BY <2>7, <3>1 DEF Unblock, machine, memory, locals
  <2>8. Yield(s) => TypeOK'
    BY SMTT(60) DEF Yield, At, Goto, fields, machine, memory, locals
  <2>9. Exit(s) => TypeOK'
    BY SMTT(60) DEF Exit, At, Goto, fields, machine, memory, locals
  <2> QED
    BY <1>8, <2>1, <2>2, <2>3, <2>4, <2>5, <2>6, <2>7, <2>8, <2>9, Zenon DEF Begin
<1>9. UNCHANGED vars => TypeOK'
  BY SMTT(60) DEF vars, At, Goto, fields, machine, memory, locals
<1> QED
  BY <1>1, <1>2, <1>3, <1>4, <1>5, <1>6, <1>7, <1>8, <1>9, Zenon DEF Next, Continue

(* The slot indices held across a preemption by create and wait_for_child    *)
(* stay valid.                                                               *)
LEMMA LocalSlotsStep ==
  TypeOK /\ LocalSlots /\ PermanentTasks /\ [Next]_vars => LocalSlots'
<1> SUFFICES ASSUME TypeOK, LocalSlots, PermanentTasks, [Next]_vars
             PROVE  LocalSlots'
  OBVIOUS
<1> USE DEF LocalSlots, CreatePcs
<1>1. ASSUME UNCHANGED <<pc, slot, generation, cursor, prev>> PROVE LocalSlots'
  BY <1>1
<1> DEFINE Steps(s, p) ==
      /\ pc' = [pc EXCEPT ![s] = p]
      /\ \A t \in Slots \ {s} :
           slot'[t] = slot[t] /\ cursor'[t] = cursor[t] /\ prev'[t] = prev[t]
      /\ generation' = generation
<1>2. ASSUME NEW s \in Slots, NEW p, p \notin CreatePcs \cup {"unlink", "walk"}, Steps(s, p)
      PROVE  LocalSlots'
  <2>1. \A t \in Slots : t = s \/ pc'[t] = pc[t]
    BY <1>2, SMTT(60) DEF TypeOK
  <2>2. pc'[s] = p
    BY <1>2, SMTT(60) DEF TypeOK
  <2> QED
    BY <1>2, <2>1, <2>2
<1>3. /\ \A s \in Slots : \A v : slot' = [slot EXCEPT ![s] = v] =>
           \A t \in Slots \ {s} : slot'[t] = slot[t]
      /\ \A s \in Slots : \A v : cursor' = [cursor EXCEPT ![s] = v] =>
           \A t \in Slots \ {s} : cursor'[t] = cursor[t]
      /\ \A s \in Slots : \A v : prev' = [prev EXCEPT ![s] = v] =>
           \A t \in Slots \ {s} : prev'[t] = prev[t]
  BY SMTT(60) DEF TypeOK
<1>4. CASE Tick \/ Scheduler
  <2>1. Reschedule => LocalSlots'
    BY SMTT(60) DEF TypeOK, Reschedule, SwitchTo, locals
  <2>2. Tick \/ NothingReady \/ SwitchTail => LocalSlots'
    BY <1>1 DEF Tick, NothingReady, SwitchTail, fields, locals
  <2> QED
    BY <1>4, <2>1, <2>2 DEF Scheduler
<1>5. ASSUME NEW s \in Slots, Cleaning(s) PROVE LocalSlots'
  <2>1. Steps(s, "take") \/ Steps(s, "free") \/ Steps(s, "run")
    BY <1>5 DEF Cleaning, Trampoline, TakeCleanup, FreeCleanup, Goto, fields, locals
  <2> QED
    BY <1>2, <2>1
<1>6. ASSUME NEW s \in Slots, Creating(s) PROVE LocalSlots'
  <2>1. FindFreeSlot(s) => LocalSlots'
    BY SMTT(60) DEF TypeOK, FindFreeSlot, FreeSlots, At, Goto, fields, PermanentTasks
  <2>2. NoFreeSlot(s) \/ NoStack(s) \/ ReadySlot(s) => Steps(s, "run")
    BY <1>3 DEF NoFreeSlot, NoStack, ReadySlot, CreateFails, Goto, fields
  <2>3. AllocStack(s) => LocalSlots'
    BY SMTT(60) DEF TypeOK, AllocStack, At, Goto, fields
  <2>4. CASE FillSlot(s)
    <3>1. /\ pc' = [pc EXCEPT ![s] = "link", ![slot[s]] = "start"] /\ pc[s] = "fill"
          /\ slot' = slot /\ cursor' = cursor /\ prev' = prev
      BY <2>4 DEF FillSlot, At
    <3>2. \A t \in Slots \ {s} : pc'[t] \in {pc[t], "start"}
      BY <3>1, SMTT(60) DEF TypeOK
    <3>3. pc'[s] \in {"link", "start"}
      BY <3>1, SMTT(60) DEF TypeOK
    <3> QED
      BY <3>1, <3>2, <3>3
  <2>5. LinkSlot(s) => LocalSlots'
    BY SMTT(60) DEF TypeOK, LinkSlot, At, Goto, locals
  <2> QED
    BY <1>2, <1>6, <2>1, <2>2, <2>3, <2>4, <2>5 DEF Creating
<1>7. ASSUME NEW s \in Slots, Scanning(s) PROVE LocalSlots'
  <2>1. ScanFinds(s) => LocalSlots'
    BY SMTT(60) DEF TypeOK, ScanFinds, At, Goto, fields, locals, find_by_pid
  <2>2. ScanNext(s) => LocalSlots'
    BY SMTT(60) DEF TypeOK, ScanNext, At, fields
  <2>3. CASE WaitEnter(s)
    <3>1. Steps(s, "scan") \/ Steps(s, "sleep") \/ Steps(s, "run")
      BY <1>3, <2>3 DEF WaitEnter, Goto
    <3> QED
      BY <1>2, <3>1
  <2>4. LoadHead(s) \/ ScanEnds(s) \/ BlockInWait(s) =>
          Steps(s, "scan") \/ Steps(s, "block") \/ Steps(s, "rescan")
    BY <1>3 DEF LoadHead, ScanEnds, BlockInWait, Goto, fields, locals
  <2> QED
    BY <1>2, <1>7, <2>1, <2>2, <2>3, <2>4 DEF Scanning
<1>8. ASSUME NEW s \in Slots, Reaping(s) PROVE LocalSlots'
  <2>1. ASSUME NEW p, WalkTo(s, p), At(s, "unlink") \/ At(s, "walk") PROVE LocalSlots'
    BY <2>1, SMTT(60) DEF TypeOK, WalkTo, At, Goto, fields, find_by_pid
  <2>2. UnlinkHead(s) \/ WalkFinds(s) \/ StoreLink(s) \/ MarkDead(s) \/ Detach(s) =>
          Steps(s, "store") \/ Steps(s, "dead") \/ Steps(s, "detach") \/ Steps(s, "run")
    BY <1>3 DEF UnlinkHead, WalkFinds, StoreLink, MarkDead, Detach, Goto, fields, locals
  <2> QED
    BY <1>2, <1>8, <2>1, <2>2 DEF Reaping, UnlinkWalk, WalkNext
<1>9. ASSUME NEW s \in Slots, Pausing(s) PROVE LocalSlots'
  <2>1. Steps(s, "yield") \/ Steps(s, "run") \/ Steps(s, "head")
    BY <1>9 DEF Pausing, FallAsleep, EnterReschedule, Goto, fields, locals
  <2> QED
    BY <1>2, <2>1
<1>10. ASSUME NEW s \in Slots, Exiting(s) PROVE LocalSlots'
  <2>1. Adopt(s) => LocalSlots'
    BY SMTT(60) DEF TypeOK, Adopt, At
  <2>2. AdoptEnds(s) => Steps(s, "die")
    BY <1>3 DEF AdoptEnds, Goto
  <2>3. BecomeZombie(s) \/ BecomeDead(s) => LocalSlots'
    BY <1>1 DEF BecomeZombie, BecomeDead, locals
  <2> QED
    BY <1>2, <1>10, <2>1, <2>2, <2>3 DEF Exiting
<1>11. ASSUME NEW s \in Slots, Begin(s) PROVE LocalSlots'
  <2>1. CreateThread(s) \/ CreateProcess(s) => LocalSlots'
    <3>1. CreateThread(s) \/ CreateProcess(s) =>
            /\ pc' = [pc EXCEPT ![s] = "find"] /\ MayCreate(s)
            /\ UNCHANGED <<slot, cursor, prev, generation>>
      BY DEF CreateThread, CreateProcess, Goto, fields, locals
    <3> QED
      BY <3>1, SMTT(60) DEF TypeOK, MayCreate
  <2>2. CallWait(s) \/ Block(s) \/ Exit(s) =>
          Steps(s, "wait") \/ Steps(s, "yield") \/ Steps(s, "adopt")
    BY <1>3 DEF CallWait, Block, Exit, Goto, fields, locals
  <2>3. \A n \in SleepTicks : Sleep(s, n) => Steps(s, "sleep")
    BY DEF Sleep, Goto, locals
  <2>4. \A n \in SleepTicks : SyscallSleep(s, n) => LocalSlots'
    BY <1>1 DEF SyscallSleep, locals
  <2>5. \A p \in KnownPids : Unblock(s, p) => LocalSlots'
    BY <1>1 DEF Unblock, locals
  <2>6. Yield(s) => LocalSlots'
    BY <1>1 DEF Yield, fields, locals
  <2> QED
    BY <1>2, <1>11, <2>1, <2>2, <2>3, <2>4, <2>5, <2>6 DEF Begin
<1>12. UNCHANGED vars => LocalSlots'
  BY <1>1 DEF vars, fields, locals
<1> QED
  BY <1>4, <1>5, <1>6, <1>7, <1>8, <1>9, <1>10, <1>11, <1>12 DEF Next, Continue

(* No step makes the shell, idle or init exit: exit_current, wait_for_child  *)
(* and create spare them.                                                    *)
LEMMA PermanentStep ==
  TypeOK /\ LocalSlots /\ PermanentTasks /\ ListsSparePermanent /\ [Next]_vars =>
  PermanentTasks'
<1> SUFFICES ASSUME TypeOK, LocalSlots, PermanentTasks, ListsSparePermanent, [Next]_vars
             PROVE  PermanentTasks'
  OBVIOUS
<1> USE DEF PermanentTasks, ExitPcs
<1>1. ASSUME UNCHANGED <<state, pc>> PROVE PermanentTasks'
  BY <1>1
<1>2. ASSUME NEW s \in Slots, NEW p, pc' = [pc EXCEPT ![s] = p], state' = state,
             p \in {"take", "free", "run"} \/ (s # IDLE /\ p \notin ExitPcs)
      PROVE  PermanentTasks'
  BY <1>2, SlotIndex, SMTT(60) DEF TypeOK
<1>3. ASSUME NEW i \in Slots \ {SHELL, IDLE, INIT}, NEW v, state' = [state EXCEPT ![i] = v],
             pc' = pc
      PROVE  PermanentTasks'
  BY <1>3, SlotIndex, SMTT(60) DEF TypeOK
<1>4. ASSUME NEW p, state' = unblock(state, p), pc' = pc PROVE PermanentTasks'
  BY <1>4, SlotIndex, SMTT(60) DEF TypeOK, unblock
<1>5. CASE Tick \/ Scheduler
  <2>1. Tick => PermanentTasks'
    BY SlotIndex, SMTT(60) DEF TypeOK, Tick
  <2>2. Reschedule => PermanentTasks'
    BY SlotIndex, SMTT(60) DEF TypeOK, Reschedule, SwitchTo
  <2>3. NothingReady \/ SwitchTail => PermanentTasks'
    BY <1>1 DEF NothingReady, SwitchTail, fields
  <2> QED
    BY <1>5, <2>1, <2>2, <2>3 DEF Scheduler
<1>6. ASSUME NEW s \in Slots, Cleaning(s) PROVE PermanentTasks'
  <2>1. /\ state' = state
        /\ \/ pc' = [pc EXCEPT ![s] = "take"] \/ pc' = [pc EXCEPT ![s] = "free"]
           \/ pc' = [pc EXCEPT ![s] = "run"]
    BY <1>6 DEF Cleaning, Trampoline, TakeCleanup, FreeCleanup, Goto, fields
  <2> QED
    BY <1>2, <2>1
<1>7. ASSUME NEW s \in Slots, Creating(s) PROVE PermanentTasks'
  <2>1. CASE FillSlot(s)
    <3>1. slot[s] \in Slots \ {SHELL, IDLE, INIT}
      BY <2>1 DEF LocalSlots, FillSlot, At
    <3>2. \A i \in {SHELL, IDLE, INIT} : state'[i] = state[i] /\ pc'[i] \in {pc[i], "link"}
      BY SMTT(60), <2>1, <3>1, SlotIndex DEF TypeOK, FillSlot
    <3>3. pc[s] = "fill" /\ pc'[IDLE] = pc[IDLE]
      BY SMTT(60), <2>1, <3>1, SlotIndex DEF TypeOK, FillSlot, At
    <3> QED
      BY <3>2, <3>3
  <2>2. ReadySlot(s) => PermanentTasks'
    BY SMTT(60) DEF TypeOK, ReadySlot, At, Goto, LocalSlots
  <2>3. CASE ~FillSlot(s) /\ ~ReadySlot(s)
    <3>1. /\ state' = state /\ s # IDLE
          /\ \/ pc' = [pc EXCEPT ![s] = "alloc"] \/ pc' = [pc EXCEPT ![s] = "fill"]
             \/ pc' = [pc EXCEPT ![s] = "ready"] \/ pc' = [pc EXCEPT ![s] = "run"]
      BY <1>7, <2>3 DEF Creating, FindFreeSlot, NoFreeSlot, AllocStack, NoStack, LinkSlot,
         CreateFails, At, Goto, fields
    <3> QED
      BY <1>2, <3>1
  <2> QED
    BY <2>1, <2>2, <2>3
<1>8. ASSUME NEW s \in Slots, Scanning(s) PROVE PermanentTasks'
  <2>1. BlockInWait(s) => PermanentTasks'
    BY SMTT(60) DEF TypeOK, BlockInWait, At, Goto
  <2>2. ScanNext(s) => PermanentTasks'
    BY <1>1 DEF ScanNext, fields
  <2>3. CASE ~BlockInWait(s) /\ ~ScanNext(s)
    <3>1. /\ state' = state /\ s # IDLE
          /\ \/ pc' = [pc EXCEPT ![s] = "scan"] \/ pc' = [pc EXCEPT ![s] = "sleep"]
             \/ pc' = [pc EXCEPT ![s] = "run"] \/ pc' = [pc EXCEPT ![s] = "block"]
             \/ pc' = [pc EXCEPT ![s] = "unlink"]
      BY <1>8, <2>3 DEF Scanning, WaitEnter, LoadHead, ScanEnds, ScanFinds, At, Goto, fields
    <3> QED
      BY <1>2, <3>1
  <2> QED
    BY <2>1, <2>2, <2>3
<1>9. ASSUME NEW s \in Slots, Reaping(s) PROVE PermanentTasks'
  <2>1. MarkDead(s) => PermanentTasks'
    BY SMTT(60) DEF TypeOK, MarkDead, At, Goto, ListsSparePermanent, Spares
  <2>2. CASE ~MarkDead(s)
    <3>1. /\ state' = state /\ s # IDLE
          /\ \/ pc' = [pc EXCEPT ![s] = "store"] \/ pc' = [pc EXCEPT ![s] = "walk"]
             \/ pc' = [pc EXCEPT ![s] = "dead"] \/ pc' = [pc EXCEPT ![s] = "run"]
      BY <1>9, <2>2 DEF Reaping, UnlinkHead, UnlinkWalk, WalkFinds, WalkNext, WalkTo, StoreLink,
         Detach, At, Goto, fields
    <3> QED
      BY <1>2, <3>1
  <2> QED
    BY <2>1, <2>2
<1>10. ASSUME NEW s \in Slots, Pausing(s) PROVE PermanentTasks'
  <2>1. FallAsleep(s) => PermanentTasks'
    BY SMTT(60) DEF TypeOK, FallAsleep, At, Goto
  <2>2. EnterReschedule(s) => PermanentTasks'
    BY SMTT(60) DEF TypeOK, EnterReschedule, Goto, fields
  <2> QED
    BY <1>10, <2>1, <2>2 DEF Pausing
<1>11. ASSUME NEW s \in Slots, Exiting(s) PROVE PermanentTasks'
  <2>1. s \notin {SHELL, IDLE, INIT}
    BY <1>11 DEF Exiting, Adopt, AdoptEnds, BecomeZombie, BecomeDead, At
  <2>2. Adopt(s) => PermanentTasks'
    BY <1>4 DEF Adopt
  <2>3. AdoptEnds(s) => PermanentTasks'
    BY <2>1, SlotIndex, SMTT(60) DEF TypeOK, AdoptEnds, Goto
  <2>4. BecomeZombie(s) => PermanentTasks'
    BY <2>1, SlotIndex, SMTT(60) DEF TypeOK, BecomeZombie, unblock
  <2>5. BecomeDead(s) => PermanentTasks'
    BY <1>3, <2>1 DEF BecomeDead
  <2> QED
    BY <1>11, <2>2, <2>3, <2>4, <2>5 DEF Exiting
<1>12. ASSUME NEW s \in Slots, Begin(s) PROVE PermanentTasks'
  <2>1. CreateThread(s) \/ CreateProcess(s) => PermanentTasks'
    BY <1>2 DEF CreateThread, CreateProcess, MayCreate, Goto, fields
  <2>2. CallWait(s) => PermanentTasks'
    BY <1>2 DEF CallWait, Goto, fields
  <2>3. \A n \in SleepTicks : Sleep(s, n) => PermanentTasks'
    BY <1>2 DEF Sleep, Goto
  <2>4. \A n \in SleepTicks : SyscallSleep(s, n) => PermanentTasks'
    BY SlotIndex, SMTT(60) DEF TypeOK, SyscallSleep
  <2>5. Block(s) => PermanentTasks'
    BY SlotIndex, SMTT(60) DEF TypeOK, Block, Goto
  <2>6. \A p \in KnownPids : Unblock(s, p) => PermanentTasks'
    BY <1>4 DEF Unblock
  <2>7. Yield(s) => PermanentTasks'
    BY <1>1 DEF Yield, fields
  <2>8. Exit(s) => PermanentTasks'
    BY SlotIndex, SMTT(60) DEF TypeOK, Exit, Goto
  <2> QED
    BY <1>12, <2>1, <2>2, <2>3, <2>4, <2>5, <2>6, <2>7, <2>8 DEF Begin
<1>13. UNCHANGED vars => PermanentTasks'
  BY <1>1 DEF vars, fields
<1> QED
  BY <1>5, <1>6, <1>7, <1>8, <1>9, <1>10, <1>11, <1>12, <1>13 DEF Next, Continue

(* No step of add_child, remove_child or the adoption loop puts one of the   *)
(* three in a child list.                                                    *)
LEMMA SpareStep ==
  TypeOK /\ LocalSlots /\ ListsSparePermanent /\ [Next]_vars => ListsSparePermanent'
<1> SUFFICES ASSUME TypeOK, LocalSlots, ListsSparePermanent, [Next]_vars
             PROVE  ListsSparePermanent'
  OBVIOUS
<1> USE DEF ListsSparePermanent
<1>1. ASSUME UNCHANGED <<first_child, next_sibling, cursor, nxt>>
      PROVE  ListsSparePermanent'
  BY <1>1
<1>2. ASSUME NEW s \in Slots, NEW p, Spares(p), cursor' = [cursor EXCEPT ![s] = p],
             UNCHANGED <<first_child, next_sibling, nxt>>
      PROVE  ListsSparePermanent'
  BY <1>2, SMTT(60) DEF TypeOK
<1>3. ASSUME NEW s \in Slots, NEW p, Spares(p), nxt' = [nxt EXCEPT ![s] = p],
             UNCHANGED <<first_child, next_sibling, cursor>>
      PROVE  ListsSparePermanent'
  BY <1>3, SMTT(60) DEF TypeOK
<1>4. CASE Tick \/ Scheduler
  BY <1>1, <1>4 DEF Tick, Scheduler, Reschedule, SwitchTo, NothingReady, SwitchTail, fields,
     locals
<1>5. ASSUME NEW s \in Slots, Cleaning(s) PROVE ListsSparePermanent'
  BY <1>1, <1>5 DEF Cleaning, Trampoline, TakeCleanup, FreeCleanup, fields, locals
<1>6. ASSUME NEW s \in Slots, Creating(s) PROVE ListsSparePermanent'
  <2>1. CASE LinkSlot(s)
    <3>1. slot[s] \in Slots \ {SHELL, IDLE, INIT} /\ generation[slot[s]] \in Nat
      BY <2>1, SizesAssumption, SMTT(60) DEF TypeOK, LocalSlots, LinkSlot, At
    <3>2. Spares(NO_PID) /\ Spares(make_pid(slot[s], generation[slot[s]]))
      BY <3>1, SparesPids
    <3> QED
      BY <2>1, <3>2, SMTT(60) DEF TypeOK, LinkSlot, locals
  <2>2. CASE ~LinkSlot(s)
    BY <1>1, <1>6, <2>2 DEF Creating, FindFreeSlot, NoFreeSlot, AllocStack, NoStack, FillSlot,
       ReadySlot, CreateFails, fields, locals
  <2> QED
    BY <2>1, <2>2
<1>7. ASSUME NEW s \in Slots, Scanning(s) PROVE ListsSparePermanent'
  <2>1. WaitEnter(s) \/ LoadHead(s) => ListsSparePermanent'
    BY <1>2 DEF WaitEnter, LoadHead, fields
  <2>2. ScanEnds(s) \/ ScanNext(s) => ListsSparePermanent'
    BY <1>2, SparesPids DEF ScanEnds, ScanNext, find_by_pid, fields
  <2>3. ScanFinds(s) \/ BlockInWait(s) => ListsSparePermanent'
    BY <1>1 DEF ScanFinds, BlockInWait, fields, locals
  <2> QED
    BY <1>7, <2>1, <2>2, <2>3 DEF Scanning
<1>8. ASSUME NEW s \in Slots, Reaping(s) PROVE ListsSparePermanent'
  <2>1. UnlinkHead(s) \/ WalkFinds(s) => ListsSparePermanent'
    <3>1. Spares(sibling_of(cursor[s]))
      BY SparesPids DEF sibling_of, find_by_pid
    <3> QED
      BY <1>3, <3>1 DEF UnlinkHead, WalkFinds, fields
  <2>2. UnlinkWalk(s) \/ WalkNext(s) \/ MarkDead(s) => ListsSparePermanent'
    BY <1>1 DEF UnlinkWalk, WalkNext, WalkTo, MarkDead, fields, locals
  <2>3. StoreLink(s) => ListsSparePermanent'
    BY SparesPids, SMTT(60) DEF TypeOK, StoreLink
  <2>4. Detach(s) => ListsSparePermanent'
    BY <1>2, SparesPids DEF Detach
  <2> QED
    BY <1>8, <2>1, <2>2, <2>3, <2>4 DEF Reaping
<1>9. ASSUME NEW s \in Slots, Pausing(s) PROVE ListsSparePermanent'
  BY <1>1, <1>9 DEF Pausing, FallAsleep, EnterReschedule, fields, locals
<1>10. ASSUME NEW s \in Slots, Exiting(s) PROVE ListsSparePermanent'
  <2>1. CASE Adopt(s)
    <3>1. /\ pid_slot_index(cursor[s]) \in Slots
          /\ Spares(cursor[s]) /\ Spares(next_sibling[pid_slot_index(cursor[s])])
          /\ Spares(first_child[INIT])
      BY <2>1, SlotIndex DEF Adopt, find_by_pid
    <3>2. \A i \in Slots : Spares(first_child'[i]) /\ Spares(next_sibling'[i])
      BY <2>1, <3>1, SMTT(60) DEF TypeOK, Adopt
    <3>3. \A i \in Slots : Spares(cursor'[i]) /\ nxt' = nxt
      BY <2>1, <3>1, SMTT(60) DEF TypeOK, Adopt
    <3> QED
      BY <3>2, <3>3, SMTT(60)
  <2>2. AdoptEnds(s) => ListsSparePermanent'
    BY SparesPids, SMTT(60) DEF TypeOK, AdoptEnds
  <2>3. BecomeZombie(s) \/ BecomeDead(s) => ListsSparePermanent'
    BY <1>1 DEF BecomeZombie, BecomeDead, locals
  <2> QED
    BY <1>10, <2>1, <2>2, <2>3 DEF Exiting
<1>11. ASSUME NEW s \in Slots, Begin(s) PROVE ListsSparePermanent'
  <2>1. Exit(s) => ListsSparePermanent'
    BY <1>2 DEF Exit
  <2>2. CASE ~Exit(s)
    BY <1>1, <1>11, <2>2 DEF Begin, CreateThread, CreateProcess, CallWait, Sleep, SyscallSleep,
       Block, Unblock, Yield, fields, locals
  <2> QED
    BY <2>1, <2>2
<1>12. UNCHANGED vars => ListsSparePermanent'
  BY <1>1 DEF vars, fields, locals
<1> QED
  BY <1>4, <1>5, <1>6, <1>7, <1>8, <1>9, <1>10, <1>11, <1>12 DEF Next, Continue

(* A pending cleanup is consumed before any task gets as far as calling      *)
(* exit_current again.                                                       *)
LEMMA WindowStep ==
  TypeOK /\ CleanupWindow /\ [Next]_vars => CleanupWindow'
<1> SUFFICES ASSUME TypeOK, CleanupWindow, [Next]_vars
             PROVE  CleanupWindow'
  OBVIOUS
<1> USE DEF CleanupWindow
<1>1. ASSUME pending_cleanup' = pending_cleanup, cpu = "task",
             pc[current] \notin ExitPcs \cup {"tramp", "take"}
      PROVE  CleanupWindow'
  BY <1>1 DEF ExitPcs
<1>2. CASE Tick \/ Scheduler
  <2>1. Tick => CleanupWindow'
    BY DEF Tick, InterruptsOn, At, locals
  <2>2. Reschedule => CleanupWindow'
    BY SMTT(60) DEF TypeOK, Reschedule, SwitchTo, Pcs, CreatePcs, ExitPcs, WaitPcs
  <2>3. NothingReady => CleanupWindow'
    BY SMTT(60) DEF TypeOK, NothingReady
  <2>4. SwitchTail => CleanupWindow'
    BY SMTT(60) DEF TypeOK, SwitchTail, NoCleanup
  <2> QED
    BY <1>2, <2>1, <2>2, <2>3, <2>4 DEF Scheduler
<1>3. ASSUME NEW s \in Slots, Cleaning(s) PROVE CleanupWindow'
  <2>1. Trampoline(s) => CleanupWindow'
    BY SMTT(60) DEF TypeOK, Trampoline, At, Goto, machine
  <2>2. TakeCleanup(s) => CleanupWindow'
    BY SMTT(60) DEF TakeCleanup, NoCleanup
  <2>3. FreeCleanup(s) => CleanupWindow'
    BY <1>1 DEF FreeCleanup, At, machine, ExitPcs
  <2> QED
    BY <1>3, <2>1, <2>2, <2>3 DEF Cleaning
<1>4. ASSUME NEW s \in Slots, Creating(s) PROVE CleanupWindow'
  <2>1. cpu = "task" /\ pc[current] \in CreatePcs /\ pending_cleanup' = pending_cleanup
    BY <1>4 DEF Creating, FindFreeSlot, NoFreeSlot, AllocStack, NoStack, FillSlot, LinkSlot,
       ReadySlot, CreateFails, CreatePcs, At, machine
  <2> QED
    BY <1>1, <2>1 DEF CreatePcs, ExitPcs
<1>5. ASSUME NEW s \in Slots, Scanning(s) \/ Reaping(s) PROVE CleanupWindow'
  <2>1. Scanning(s) =>
          /\ cpu = "task" /\ pc[current] \in WaitPcs \cup {"scan", "rescan"}
          /\ pending_cleanup' = pending_cleanup
    BY DEF Scanning, WaitEnter, LoadHead, ScanEnds, ScanFinds, ScanNext, BlockInWait,
       WaitPcs, At, machine
  <2>2. Reaping(s) =>
          /\ cpu = "task" /\ pc[current] \in WaitPcs
          /\ pending_cleanup' = pending_cleanup
    BY DEF Reaping, UnlinkHead, UnlinkWalk, WalkFinds, WalkNext, WalkTo, StoreLink, MarkDead,
       Detach, WaitPcs, At, machine
  <2> QED
    BY <1>1, <1>5, <2>1, <2>2 DEF WaitPcs, ExitPcs
<1>6. ASSUME NEW s \in Slots, Pausing(s) PROVE CleanupWindow'
  BY <1>1, <1>6 DEF Pausing, FallAsleep, EnterReschedule, At, machine, ExitPcs
<1>7. ASSUME NEW s \in Slots, Exiting(s) PROVE CleanupWindow'
  <2>1. Adopt(s) => CleanupWindow'
    BY DEF Adopt, At, machine
  <2>2. AdoptEnds(s) => CleanupWindow'
    BY SMTT(60) DEF TypeOK, AdoptEnds, At, Goto, machine, ExitPcs
  <2>3. BecomeZombie(s) \/ BecomeDead(s) => CleanupWindow'
    BY DEF BecomeZombie, BecomeDead, At
  <2> QED
    BY <1>7, <2>1, <2>2, <2>3 DEF Exiting
<1>8. ASSUME NEW s \in Slots, Begin(s) PROVE CleanupWindow'
  <2>1. CASE Exit(s)
    <3>1. current' = current /\ current = s /\ pc' = [pc EXCEPT ![s] = "adopt"]
      BY <2>1 DEF Exit, At, Goto
    <3>2. pc'[current'] = "adopt"
      BY <3>1, SMTT(60) DEF TypeOK
    <3> QED
      BY <3>2 DEF ExitPcs
  <2>2. CASE ~Exit(s)
    <3>1. cpu = "task" /\ pc[current] = "run" /\ pending_cleanup' = pending_cleanup
      BY <1>8, <2>2 DEF Begin, CreateThread, CreateProcess, CallWait, Sleep, SyscallSleep,
         Block, Unblock, Yield, At, machine
    <3> QED
      BY <1>1, <3>1 DEF ExitPcs
  <2> QED
    BY <2>1, <2>2
<1>9. UNCHANGED vars => CleanupWindow'
  BY DEF vars, machine
<1> QED
  BY <1>2, <1>3, <1>4, <1>5, <1>6, <1>7, <1>8, <1>9 DEF Next, Continue

(* switch_to demotes the task it leaves, so only the current task is ever    *)
(* Running.                                                                  *)
LEMMA RunningStep ==
  TypeOK /\ RunningIsCurrent /\ [Next]_vars => RunningIsCurrent'
<1> SUFFICES ASSUME TypeOK, RunningIsCurrent, [Next]_vars
             PROVE  RunningIsCurrent'
  OBVIOUS
<1> USE DEF RunningIsCurrent
<1>1. ASSUME state' = state, current' = current PROVE RunningIsCurrent'
  BY <1>1
<1>2. ASSUME NEW i, NEW v, v # "Running", state' = [state EXCEPT ![i] = v], current' = current
      PROVE  RunningIsCurrent'
  BY <1>2, SMTT(60) DEF TypeOK
<1>3. ASSUME NEW p, state' = unblock(state, p), current' = current
      PROVE  RunningIsCurrent'
  BY <1>3, SMTT(60) DEF TypeOK, unblock
<1>4. CASE Tick \/ Scheduler
  <2>1. Tick => RunningIsCurrent'
    BY SMTT(60) DEF TypeOK, Tick
  <2>2. Reschedule => RunningIsCurrent'
    BY SMTT(60) DEF TypeOK, Reschedule, SwitchTo
  <2>3. NothingReady \/ SwitchTail => state' = state /\ current' = current
    BY DEF NothingReady, SwitchTail, fields
  <2> QED
    BY <1>1, <1>4, <2>1, <2>2, <2>3 DEF Scheduler
<1>5. ASSUME NEW s \in Slots, Cleaning(s) PROVE RunningIsCurrent'
  BY <1>1, <1>5 DEF Cleaning, Trampoline, TakeCleanup, FreeCleanup, fields, machine
<1>6. ASSUME NEW s \in Slots, Creating(s) PROVE RunningIsCurrent'
  <2>1. FillSlot(s) \/ ReadySlot(s) => RunningIsCurrent'
    BY <1>2 DEF FillSlot, ReadySlot, machine
  <2>2. CASE ~FillSlot(s) /\ ~ReadySlot(s)
    BY <1>1, <1>6, <2>2 DEF Creating, FindFreeSlot, NoFreeSlot, AllocStack, NoStack, LinkSlot,
       CreateFails, fields, machine
  <2> QED
    BY <2>1, <2>2
<1>7. ASSUME NEW s \in Slots, Scanning(s) PROVE RunningIsCurrent'
  <2>1. BlockInWait(s) => RunningIsCurrent'
    BY <1>2 DEF BlockInWait, machine
  <2>2. CASE ~BlockInWait(s)
    BY <1>1, <1>7, <2>2 DEF Scanning, WaitEnter, LoadHead, ScanEnds, ScanFinds, ScanNext,
       fields, machine
  <2> QED
    BY <2>1, <2>2
<1>8. ASSUME NEW s \in Slots, Reaping(s) PROVE RunningIsCurrent'
  <2>1. MarkDead(s) => RunningIsCurrent'
    BY <1>2 DEF MarkDead, machine
  <2>2. CASE ~MarkDead(s)
    BY <1>1, <1>8, <2>2 DEF Reaping, UnlinkHead, UnlinkWalk, WalkFinds, WalkNext, WalkTo,
       StoreLink, Detach, fields, machine
  <2> QED
    BY <2>1, <2>2
<1>9. ASSUME NEW s \in Slots, Pausing(s) PROVE RunningIsCurrent'
  BY <1>1, <1>2, <1>9 DEF Pausing, FallAsleep, EnterReschedule, fields, machine
<1>10. ASSUME NEW s \in Slots, Exiting(s) PROVE RunningIsCurrent'
  <2>1. Adopt(s) => RunningIsCurrent'
    BY <1>3 DEF Adopt, machine
  <2>2. AdoptEnds(s) => RunningIsCurrent'
    BY <1>1 DEF AdoptEnds, machine
  <2>3. BecomeZombie(s) => RunningIsCurrent'
    BY SMTT(60) DEF TypeOK, BecomeZombie, unblock
  <2>4. BecomeDead(s) => RunningIsCurrent'
    BY <1>2 DEF BecomeDead
  <2> QED
    BY <1>10, <2>1, <2>2, <2>3, <2>4 DEF Exiting
<1>11. ASSUME NEW s \in Slots, Begin(s) PROVE RunningIsCurrent'
  <2>1. CreateThread(s) \/ CreateProcess(s) \/ CallWait(s) \/ Yield(s) \/ Exit(s)
          => RunningIsCurrent'
    BY <1>1 DEF CreateThread, CreateProcess, CallWait, Yield, Exit, fields, machine
  <2>2. \A n \in SleepTicks : Sleep(s, n) => RunningIsCurrent'
    BY <1>1 DEF Sleep, machine
  <2>3. \A n \in SleepTicks : SyscallSleep(s, n) => RunningIsCurrent'
    BY <1>2 DEF SyscallSleep
  <2>4. Block(s) => RunningIsCurrent'
    BY <1>2 DEF Block, machine
  <2>5. \A p \in KnownPids : Unblock(s, p) => RunningIsCurrent'
    BY <1>3 DEF Unblock, machine
  <2> QED
    BY <1>11, <2>1, <2>2, <2>3, <2>4, <2>5 DEF Begin
<1>12. UNCHANGED vars => RunningIsCurrent'
  BY <1>1 DEF vars, fields, machine
<1> QED
  BY <1>4, <1>5, <1>6, <1>7, <1>8, <1>9, <1>10, <1>11, <1>12 DEF Next, Continue

(* reschedule called by exit_current always finds idle Ready, so the hlt     *)
(* loop is not reached.                                                      *)
LEMMA HaltStep ==
  TypeOK /\ PermanentTasks /\ RunningIsCurrent /\ NeverHalts /\ [Next]_vars => NeverHalts'
<1> SUFFICES ASSUME TypeOK, PermanentTasks, RunningIsCurrent, NeverHalts, [Next]_vars
             PROVE  NeverHalts'
  OBVIOUS
<1> USE DEF NeverHalts
<1>1. CASE Tick \/ Scheduler
  <2>1. Tick => NeverHalts'
    BY SMTT(60) DEF Tick
  <2>2. Reschedule => NeverHalts'
    BY SMTT(60) DEF Reschedule, SwitchTo
  <2>3. NothingReady => NeverHalts'
    BY SlotIndex DEF NothingReady, PermanentTasks, RunningIsCurrent, IDLE
  <2>4. SwitchTail => NeverHalts'
    BY DEF SwitchTail
  <2> QED
    BY <1>1, <2>1, <2>2, <2>3, <2>4 DEF Scheduler
<1>2. ASSUME NEW s \in Slots, Cleaning(s) PROVE NeverHalts'
  BY <1>2 DEF Cleaning, Trampoline, TakeCleanup, FreeCleanup, machine
<1>3. ASSUME NEW s \in Slots, Creating(s) PROVE NeverHalts'
  BY <1>3 DEF Creating, FindFreeSlot, NoFreeSlot, AllocStack, NoStack, FillSlot, LinkSlot,
     ReadySlot, CreateFails, machine
<1>4. ASSUME NEW s \in Slots, Scanning(s) PROVE NeverHalts'
  BY <1>4 DEF Scanning, WaitEnter, LoadHead, ScanEnds, ScanFinds, ScanNext, BlockInWait, machine
<1>5. ASSUME NEW s \in Slots, Reaping(s) PROVE NeverHalts'
  BY <1>5 DEF Reaping, UnlinkHead, UnlinkWalk, WalkFinds, WalkNext, WalkTo, StoreLink, MarkDead,
     Detach, machine
<1>6. ASSUME NEW s \in Slots, Pausing(s) PROVE NeverHalts'
  BY <1>6 DEF Pausing, FallAsleep, EnterReschedule, machine
<1>7. ASSUME NEW s \in Slots, Exiting(s) PROVE NeverHalts'
  BY <1>7 DEF Exiting, Adopt, AdoptEnds, BecomeZombie, BecomeDead, machine
<1>8. ASSUME NEW s \in Slots, Begin(s) PROVE NeverHalts'
  BY <1>8 DEF Begin, CreateThread, CreateProcess, CallWait, Sleep, SyscallSleep, Block, Unblock,
     Yield, Exit, machine
<1>9. UNCHANGED vars => NeverHalts'
  BY DEF vars, machine
<1> QED
  BY <1>1, <1>2, <1>3, <1>4, <1>5, <1>6, <1>7, <1>8, <1>9 DEF Next, Continue

(* task::init establishes the general invariant.                             *)
LEMMA InitGeneral == Init => GeneralInv
<1> SUFFICES ASSUME Init PROVE GeneralInv
  OBVIOUS
<1>1. PICK a \in Stacks, b \in Stacks :
        /\ stack_base = [s \in Slots |-> IF s = IDLE THEN a ELSE IF s = INIT THEN b ELSE NULL]
        /\ stacks = {a, b}
  BY SMTT(60) DEF Init
<1>2. \A s \in {SHELL, IDLE, INIT} : make_pid(s, 1) \in Nat
  BY SMTT(60) DEF make_pid, SHELL, IDLE, INIT
<1>3. pid \in [Slots -> Nat] /\ generation \in [Slots -> 0 .. PID_GENERATION_MAX]
  BY <1>2, SizesAssumption, SMTT(60) DEF Init, NO_PID
<1>4. TypeOK
  <2>1. /\ state \in [Slots -> States] /\ pc \in [Slots -> Pcs]
        /\ cpu \in {"task", "resched", "reap", "halt"} /\ current \in Slots
    BY SlotIndex, SMTT(60) DEF Init, States, Pcs
  <2>2. /\ stack_base \in [Slots -> Stacks \cup {NULL}]
        /\ rsp \in [Slots -> Stacks \cup {NULL, BOOT}]
        /\ stacks \in SUBSET Stacks
    BY <1>1, SMTT(60) DEF Init
  <2>3. /\ tick_counter \in 0 .. TICKS_PER_SWITCH - 1
        /\ cr3 \in [Slots -> Spaces \cup {NULL}] /\ spaces \in SUBSET Spaces
        /\ loaded_cr3 \in Spaces \cup {KERNEL_CR3} /\ rsp0 \in Stacks \cup {BOOT}
    BY SizesAssumption, SMTT(60) DEF Init
  <2>4. /\ parent_pid \in [Slots -> Nat] /\ first_child \in [Slots -> Nat]
        /\ next_sibling \in [Slots -> Nat] /\ wake \in [Slots -> Nat]
        /\ cursor \in [Slots -> Nat] /\ nxt \in [Slots -> Nat]
    BY SMTT(60) DEF Init, NO_PID
  <2>5. /\ prev \in [Slots -> Slots \cup {-1}] /\ slot \in [Slots -> Slots \cup {-1}]
        /\ held \in [Slots -> [stack : Stacks \cup {NULL}, cr3 : Spaces \cup {NULL}]]
    BY SMTT(60) DEF Init, NoBlock
  <2>6. pending_cleanup \in
          [stack : Stacks \cup {NULL}, cr3 : Spaces \cup {NULL}, active : BOOLEAN]
    BY SMTT(60) DEF Init, NoCleanup
  <2> QED
    BY <1>3, <2>1, <2>2, <2>3, <2>4, <2>5, <2>6, SMTT(60) DEF TypeOK
<1>5. LocalSlots
  BY SMTT(60) DEF Init, LocalSlots, CreatePcs
<1>6. PermanentTasks
  BY SlotIndex, SMTT(60) DEF Init, PermanentTasks, ExitPcs, SHELL, IDLE, INIT
<1>7. ListsSparePermanent
  BY SparesPids, SMTT(60) DEF Init, ListsSparePermanent
<1>8. CleanupWindow /\ RunningIsCurrent /\ NeverHalts
  BY SlotIndex DEF Init, CleanupWindow, RunningIsCurrent, NeverHalts, NoCleanup
<1> QED
  BY <1>4, <1>5, <1>6, <1>7, <1>8 DEF GeneralInv

(* Every step of the kernel preserves the general invariant.                 *)
LEMMA GeneralStep == GeneralInv /\ [Next]_vars => GeneralInv'
BY TypeStep, LocalSlotsStep, PermanentStep, SpareStep, WindowStep, RunningStep, HaltStep
   DEF GeneralInv

(* The general invariant holds in every reachable state, whoever creates     *)
(* tasks.                                                                    *)
THEOREM GeneralInvariance == Spec => []GeneralInv
BY InitGeneral, GeneralStep, PTL DEF Spec

(* Every field of the task table, every scheduler variable and every local   *)
(* of task.cpp keeps its type: no operation indexes the table out of range.  *)
THEOREM TypeCorrect == Spec => []TypeOK
<1>1. GeneralInv => TypeOK
  BY DEF GeneralInv
<1> QED
  BY <1>1, GeneralInvariance, PTL

(* exit_current never reaches its final halt loop: idle can always take over *)
(* the CPU.                                                                  *)
THEOREM NoHalt == Spec => []NeverHalts
<1>1. GeneralInv => NeverHalts
  BY DEF GeneralInv
<1> QED
  BY <1>1, GeneralInvariance, PTL

=============================================================================
