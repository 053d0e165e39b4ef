------------------------ MODULE TaskLifecycleProofs ------------------------
(***************************************************************************)
(* The lifecycle invariant, for the kernel as it boots: the shell is the     *)
(* only task that creates others.                                            *)
(*                                                                           *)
(* It ties what a task owns to its state and to where it is in its code.     *)
(* Unique ownership of kernel stacks and address spaces follows from it.     *)
(***************************************************************************)
EXTENDS TaskProofs

\* Most leaves here need no arithmetic and go to Zenon; the others cite SMT.
USE ZenonT(60)

(* The states of a slot without a task that can run, and a step after which  *)
(* the same slots are in the same ones.                                      *)
Gone == {"Dead", "Zombie", "New"}
Kept == \A i \in Slots : state[i] \in Gone \/ state'[i] \in Gone => state'[i] = state[i]

(* Only creation, wait_for_child and exit_current let a task come or go; the *)
(* scheduler and every other step leave those slots alone.                   *)
LEMMA KeptStep ==
  TypeOK /\ OnTheCpu /\ [Next]_vars =>
    \/ Kept
    \/ \E s \in Slots : FillSlot(s) \/ ReadySlot(s) \/ MarkDead(s) \/ BecomeZombie(s) \/ BecomeDead(s)
<1> SUFFICES ASSUME TypeOK, OnTheCpu, [Next]_vars,
                    \A s \in Slots : ~(\/ FillSlot(s) \/ ReadySlot(s) \/ MarkDead(s)
                                       \/ BecomeZombie(s) \/ BecomeDead(s))
             PROVE  Kept
  OBVIOUS
<1> USE DEF Kept, Gone
<1>1. ASSUME UNCHANGED state PROVE Kept
  BY <1>1
<1>2. ASSUME NEW v \in {"Blocked", "Sleeping"}, state' = [state EXCEPT ![current] = v],
             pc[current] \notin ExitPcs
      PROVE  Kept
  BY <1>2, SMTT(60) DEF TypeOK, OnTheCpu
<1>3. ASSUME NEW p, state' = unblock(state, p) PROVE Kept
  BY <1>3, SMTT(60) DEF TypeOK, unblock, find_by_pid
<1>4. CASE Tick \/ Scheduler
  <2>1. Tick => Kept
    BY DEF Tick
  <2>2. ASSUME NEW n \in Slots, state[n] = "Ready", SwitchTo(n) PROVE Kept
    BY <2>2, SMTT(60) DEF TypeOK, SwitchTo
  <2>3. NothingReady \/ SwitchTail => Kept
    BY <1>1 DEF NothingReady, SwitchTail, fields
  <2> QED
    BY <1>4, <2>1, <2>2, <2>3 DEF Scheduler, Reschedule
<1>5. ASSUME NEW s \in Slots, Cleaning(s) \/ Creating(s) PROVE Kept
  BY <1>1, <1>5 DEF Cleaning, Trampoline, TakeCleanup, FreeCleanup, Creating, FindFreeSlot,
     NoFreeSlot, NoStack, CreateFails, AllocStack, LinkSlot, fields
<1>6. ASSUME NEW s \in Slots, Scanning(s) \/ Pausing(s) PROVE Kept
  <2>1. BlockInWait(s) \/ FallAsleep(s) => Kept
    BY <1>2 DEF BlockInWait, FallAsleep, At, ExitPcs
  <2> QED
    BY <1>1, <1>6, <2>1 DEF Scanning, WaitEnter, LoadHead, ScanEnds, ScanFinds, ScanNext,
       Pausing, EnterReschedule, fields
<1>7. ASSUME NEW s \in Slots, Reaping(s) PROVE Kept
  BY <1>1, <1>7 DEF Reaping, UnlinkHead, UnlinkWalk, WalkFinds, WalkNext, WalkTo, StoreLink,
     Detach, fields
<1>8. ASSUME NEW s \in Slots, Exiting(s) PROVE Kept
  BY <1>1, <1>3, <1>8 DEF Exiting, Adopt, AdoptEnds
<1>9. ASSUME NEW s \in Slots, Begin(s) PROVE Kept
  <2>1. \A n \in SleepTicks : SyscallSleep(s, n) => Kept
    BY <1>2 DEF SyscallSleep, At, ExitPcs
  <2>2. Block(s) => Kept
    BY <1>2 DEF Block, At, ExitPcs
  <2>3. \A p \in KnownPids : Unblock(s, p) => Kept
    BY <1>3 DEF Unblock
  <2> QED
    BY <1>1, <1>9, <2>1, <2>2, <2>3 DEF Begin, CreateThread, CreateProcess, CallWait, Sleep, Yield,
       Exit, fields
<1>10. UNCHANGED vars => Kept
  BY <1>1 DEF vars, fields
<1> QED
  BY <1>4, <1>5, <1>6, <1>7, <1>8, <1>9, <1>10 DEF Next, Continue

(* A step of task s to the point p of its code. *)
Moves(s, p) == s \in Slots /\ pc' = [pc EXCEPT ![s] = p]

(* Where every task is after such a step. *)
LEMMA MovesTo ==
  ASSUME TypeOK, NEW s, NEW p, Moves(s, p)
  PROVE  pc'[s] = p /\ \A t \in Slots \ {s} : pc'[t] = pc[t]
BY SMTT(60) DEF TypeOK, Moves

(* A local variable or field of task s that a step assigns leaves those of   *)
(* the other tasks alone.                                                    *)
LEMMA OthersKeep ==
  ASSUME TypeOK
  PROVE  /\ \A s \in Slots : \A v : cursor' = [cursor EXCEPT ![s] = v] =>
              \A t \in Slots \ {s} : cursor'[t] = cursor[t]
         /\ \A s \in Slots : \A v : slot' = [slot EXCEPT ![s] = v] =>
              \A t \in Slots \ {s} : slot'[t] = slot[t]
         /\ \A s \in Slots : \A v : first_child' = [first_child EXCEPT ![s] = v] =>
              \A t \in Slots \ {s} : first_child'[t] = first_child[t]
BY SMTT(60) DEF TypeOK

(* With the shell as the only creator, it stays the only task with children, *)
(* the slot it is reaping stays a Zombie and the slot it is filling stays    *)
(* its own.                                                                  *)
LEMMA OnlyShellStep ==
  Creators \subseteq {SHELL} /\ TypeOK /\ LocalSlots /\ PermanentTasks /\
  OnlyShellHasChildren /\ Lifecycle /\ OnTheCpu /\ [Next]_vars => OnlyShellHasChildren'
<1> SUFFICES ASSUME Creators \subseteq {SHELL}, TypeOK, LocalSlots, PermanentTasks,
                    OnlyShellHasChildren, Lifecycle, OnTheCpu, [Next]_vars
             PROVE  OnlyShellHasChildren'
  OBVIOUS
<1> USE DEF OnlyShellHasChildren, CreatePcs, WaitPcs
<1> DEFINE Stays == \A i \in Slots : state[i] \in Gone => state'[i] = state[i]
           Childless == \A t \in Slots \ {SHELL} :
                          first_child'[t] = first_child[t] /\ cursor'[t] = cursor[t]
           Linking == {"unlink", "walk", "store", "dead", "alloc", "fill", "link", "ready"}
<1>1. ASSUME Stays, UNCHANGED <<pc, first_child, cursor, slot, cr3>> PROVE OnlyShellHasChildren'
  BY <1>1, SlotIndex DEF LocalSlots, Gone
<1>2. ASSUME Childless, NEW p, p \notin Linking, Moves(SHELL, p) PROVE OnlyShellHasChildren'
  <2>1. pc'[SHELL] = p /\ \A t \in Slots \ {SHELL} : pc'[t] = pc[t]
    BY <1>2, MovesTo, SMTT(60)
  <2> QED
    BY <1>2, <2>1
<1>3. ASSUME Stays, UNCHANGED <<first_child, cursor, slot, cr3>>, NEW s \in Slots \ {SHELL}, NEW p,
             p \notin CreatePcs \cup (WaitPcs \ {"wait"}), Moves(s, p)
      PROVE  OnlyShellHasChildren'
  <2>1. pc'[SHELL] = pc[SHELL] /\ \A t \in Slots \ {SHELL} : pc'[t] \in {pc[t], p}
    BY <1>3, MovesTo, SlotIndex, SMTT(60)
  <2> QED
    BY <1>3, <2>1, SlotIndex DEF LocalSlots, Gone
<1>4. ASSUME Stays, Childless, cursor' = cursor, pc[SHELL] \in {"unlink", "walk", "store"},
             NEW p, p \in {"walk", "store", "dead"}, Moves(SHELL, p)
      PROVE  OnlyShellHasChildren'
  <2>1. pc'[SHELL] = p /\ \A t \in Slots \ {SHELL} : pc'[t] = pc[t]
    BY <1>4, MovesTo, SMTT(60)
  <2> QED
    BY <1>4, <2>1, SlotIndex DEF Gone
<1>5. ASSUME \E s \in Slots : FillSlot(s) \/ ReadySlot(s) \/ MarkDead(s) PROVE OnlyShellHasChildren'
  <2>1. PICK s \in Slots : FillSlot(s) \/ ReadySlot(s) \/ MarkDead(s)
    BY <1>5
  <2>2. s = SHELL
    BY <2>1 DEF FillSlot, ReadySlot, MarkDead, At
  <2>3. CASE FillSlot(SHELL)
    <3>1. slot[SHELL] \in Slots \ {SHELL, IDLE, INIT} /\ state[slot[SHELL]] = "Dead" /\ SHELL \in Slots
      BY <2>3, SlotIndex DEF FillSlot, At, LocalSlots
    <3>2. cr3[slot[SHELL]] = NULL
      BY <3>1 DEF Lifecycle
    <3>3. /\ pc'[SHELL] = "link" /\ \A t \in Slots \ {SHELL} : pc'[t] \in {pc[t], "start"}
          /\ state'[slot[SHELL]] = "New"
      BY <2>3, <3>1, SMTT(60) DEF TypeOK, FillSlot
    <3> QED
      BY <2>3, <3>1, <3>2, <3>3 DEF FillSlot
  <2>4. ReadySlot(SHELL) \/ MarkDead(SHELL) => Childless /\ (Moves(SHELL, "run") \/ Moves(SHELL, "detach"))
    BY SlotIndex DEF ReadySlot, MarkDead, Goto, Moves, locals
  <2> QED
    BY <1>2, <2>1, <2>2, <2>3, <2>4
<1>6. ASSUME NEW s \in Slots, BecomeZombie(s) \/ BecomeDead(s) PROVE OnlyShellHasChildren'
  <2>1. state[s] \notin Gone
    BY <1>6 DEF OnTheCpu, BecomeZombie, BecomeDead, At, ExitPcs, Gone
  <2>2. Stays
    BY SMTT(60), <1>6, <2>1 DEF TypeOK, BecomeZombie, BecomeDead, unblock, find_by_pid, Gone
  <2> QED
    BY <1>1, <1>6, <2>2 DEF BecomeZombie, BecomeDead, locals
<1>7. SUFFICES ASSUME Stays, ~\E s \in Slots : FillSlot(s) \/ ReadySlot(s) \/ MarkDead(s)
                                               \/ BecomeZombie(s) \/ BecomeDead(s)
               PROVE  OnlyShellHasChildren'
  BY <1>5, <1>6, KeptStep DEF Kept
<1>8. CASE Tick \/ Scheduler
  <2>1. Tick \/ NothingReady \/ SwitchTail => UNCHANGED <<pc, first_child, cursor, slot, cr3>>
    BY DEF Tick, NothingReady, SwitchTail, fields, locals
  <2>2. ASSUME NEW n \in Slots, SwitchTo(n) PROVE OnlyShellHasChildren'
    <3>1. \A i \in Slots : pc'[i] = pc[i] \/ pc'[i] = "tramp"
      BY <2>2, SMTT(60) DEF TypeOK, SwitchTo
    <3>2. UNCHANGED <<cursor, slot, cr3, first_child>>
      BY <2>2 DEF SwitchTo, locals
    <3>3. CASE pc'[SHELL] = "tramp"
      BY <3>1, <3>2, <3>3
    <3>4. CASE pc'[SHELL] = pc[SHELL]
      BY <1>7, <3>1, <3>2, <3>4, SlotIndex DEF LocalSlots, Gone
    <3> QED
      BY <3>1, <3>3, <3>4, SlotIndex
  <2> QED
    BY <1>1, <1>7, <1>8, <2>1, <2>2 DEF Scheduler, Reschedule
<1>9. ASSUME NEW s \in Slots, NEW p, Moves(s, p), UNCHANGED <<first_child, cursor, slot, cr3>>,
             p \notin CreatePcs \cup (WaitPcs \ {"wait"})
      PROVE  OnlyShellHasChildren'
  BY <1>2, <1>3, <1>7, <1>9 DEF Moves
<1>10. ASSUME NEW s \in Slots, Cleaning(s) PROVE OnlyShellHasChildren'
  <2>1. /\ UNCHANGED <<first_child, cursor, slot, cr3>>
        /\ Moves(s, "take") \/ Moves(s, "free") \/ Moves(s, "run")
    BY <1>10 DEF Cleaning, Trampoline, TakeCleanup, FreeCleanup, Goto, Moves, fields, locals
  <2> QED
    BY <1>9, <2>1
<1>11. ASSUME NEW s \in Slots, Creating(s) PROVE OnlyShellHasChildren'
  <2>1. s = SHELL
    BY <1>11 DEF Creating, FindFreeSlot, NoFreeSlot, AllocStack, NoStack, FillSlot, LinkSlot,
       ReadySlot, At
  <2>2. NoFreeSlot(s) \/ NoStack(s) => Childless /\ Moves(SHELL, "run")
    BY <2>1 DEF NoFreeSlot, NoStack, CreateFails, Goto, Moves, fields
  <2>3. FindFreeSlot(s) => OnlyShellHasChildren'
    BY SMTT(60), <2>1 DEF TypeOK, FindFreeSlot, FreeSlots, Goto, fields
  <2>4. AllocStack(s) => OnlyShellHasChildren'
    BY SMTT(60), <2>1 DEF TypeOK, AllocStack, At, Goto, fields
  <2>5. LinkSlot(s) => OnlyShellHasChildren'
    BY SMTT(60), <2>1 DEF TypeOK, LinkSlot, At, Goto, locals, LocalSlots
  <2> QED
    BY <1>2, <1>7, <1>11, <2>1, <2>2, <2>3, <2>4, <2>5 DEF Creating
<1>12. ASSUME NEW s \in Slots, Scanning(s) PROVE OnlyShellHasChildren'
  <2>1. CASE s # SHELL
    <3>1. WaitEnter(s) /\ first_child[s] = NO_PID /\ cursor[s] = NO_PID
      BY <1>12, <2>1 DEF Scanning, WaitEnter, LoadHead, ScanEnds, ScanFinds, ScanNext,
         BlockInWait, At
    <3>2. cursor' = cursor
      BY <3>1, SMTT(60) DEF TypeOK, WaitEnter
    <3>3. Moves(s, "sleep") \/ Moves(s, "run")
      BY <3>1 DEF WaitEnter, Goto, Moves
    <3> QED
      BY <1>9, <3>1, <3>2, <3>3 DEF WaitEnter
  <2>2. CASE s = SHELL
    <3>1. Childless
      BY <1>12, <2>2, OthersKeep, SlotIndex DEF Scanning, WaitEnter, LoadHead, ScanEnds, ScanFinds,
         ScanNext, BlockInWait, fields, locals
    <3>2. ScanFinds(s) => OnlyShellHasChildren'
      BY SMTT(60), <2>2 DEF TypeOK, ScanFinds, Goto, fields, locals, find_by_pid
    <3>3. ScanNext(s) => OnlyShellHasChildren'
      BY <2>2, <3>1 DEF ScanNext, At
    <3>4. WaitEnter(s) => Moves(SHELL, "scan") \/ Moves(SHELL, "sleep") \/ Moves(SHELL, "run")
      BY <2>2 DEF WaitEnter, Goto, Moves
    <3>5. LoadHead(s) \/ ScanEnds(s) \/ BlockInWait(s) =>
            Moves(SHELL, "scan") \/ Moves(SHELL, "block") \/ Moves(SHELL, "rescan")
      BY <2>2 DEF LoadHead, ScanEnds, BlockInWait, Goto, Moves
    <3> QED
      BY <1>2, <1>12, <3>1, <3>2, <3>3, <3>4, <3>5 DEF Scanning
  <2> QED
    BY <2>1, <2>2
<1>13. ASSUME NEW s \in Slots, Reaping(s) PROVE OnlyShellHasChildren'
  <2>1. s = SHELL
    BY <1>13 DEF Reaping, UnlinkHead, UnlinkWalk, WalkFinds, WalkNext, StoreLink, MarkDead,
       Detach, At
  <2>2. Childless
    BY <1>7, <1>13, <2>1, OthersKeep, SlotIndex DEF Reaping, UnlinkHead, UnlinkWalk, WalkFinds,
       WalkNext, WalkTo, StoreLink, Detach, fields
  <2>3. Detach(s) => Moves(SHELL, "run")
    BY <2>1 DEF Detach, Goto, Moves
  <2>4. Detach(s) \/ /\ cursor' = cursor /\ pc[SHELL] \in {"unlink", "walk", "store"}
                     /\ Moves(SHELL, "walk") \/ Moves(SHELL, "store") \/ Moves(SHELL, "dead")
    BY <1>7, <1>13, <2>1 DEF Reaping, UnlinkHead, UnlinkWalk, WalkFinds, WalkNext, WalkTo,
       StoreLink,
       At, Goto, Moves
  <2> QED
    BY <1>2, <1>4, <1>7, <2>2, <2>3, <2>4
<1>14. ASSUME NEW s \in Slots, Pausing(s) PROVE OnlyShellHasChildren'
  <2>1. /\ UNCHANGED <<first_child, cursor, slot, cr3>>
        /\ Moves(s, "yield") \/ Moves(s, "run") \/ (s = SHELL /\ Moves(SHELL, "head"))
    BY <1>14 DEF Pausing, FallAsleep, EnterReschedule, At, Goto, Moves, fields, locals
  <2> QED
    BY <1>2, <1>9, <2>1
<1>15. ASSUME NEW s \in Slots, Exiting(s) PROVE OnlyShellHasChildren'
  <2>1. s # SHELL
    BY <1>15 DEF Exiting, Adopt, AdoptEnds, BecomeZombie, BecomeDead, At, PermanentTasks, ExitPcs
  <2>2. cursor[s] = NO_PID /\ first_child[s] = NO_PID
    BY <2>1
  <2>3. ~Adopt(s)
    BY <2>2 DEF Adopt, find_by_pid
  <2>4. CASE AdoptEnds(s)
    <3>1. cursor' = cursor /\ first_child' = first_child
      BY <2>2, <2>4, SMTT(60) DEF TypeOK, AdoptEnds
    <3>2. Moves(s, "die") /\ UNCHANGED <<slot, cr3>>
      BY <2>4 DEF AdoptEnds, Goto, Moves
    <3> QED
      BY <1>9, <3>1, <3>2
  <2> QED
    BY <1>7, <1>15, <2>3, <2>4 DEF Exiting
<1>16. ASSUME NEW s \in Slots, Begin(s) PROVE OnlyShellHasChildren'
  <2>1. CreateThread(s) \/ CreateProcess(s) => s = SHELL /\ Childless /\ Moves(SHELL, "find")
    BY DEF CreateThread, CreateProcess, MayCreate, Goto, Moves, fields, locals
  <2>2. CallWait(s) => UNCHANGED <<first_child, cursor, slot, cr3>> /\ Moves(s, "wait")
    BY DEF CallWait, Goto, Moves, fields, locals
  <2>3. \A n \in SleepTicks : Sleep(s, n) => UNCHANGED <<first_child, cursor, slot, cr3>> /\ Moves(s, "sleep")
    BY DEF Sleep, Goto, Moves, locals
  <2>4. \A n \in SleepTicks : SyscallSleep(s, n) => UNCHANGED <<pc, first_child, cursor, slot, cr3>>
    BY DEF SyscallSleep, locals
  <2>5. Block(s) => UNCHANGED <<first_child, cursor, slot, cr3>> /\ Moves(s, "yield")
    BY DEF Block, Goto, Moves, locals
  <2>6. \A p \in KnownPids : Unblock(s, p) => UNCHANGED <<pc, first_child, cursor, slot, cr3>>
    BY DEF Unblock, locals
  <2>7. Yield(s) => UNCHANGED <<pc, first_child, cursor, slot, cr3>>
    BY DEF Yield, fields, locals
  <2>8. CASE Exit(s)
    <3>1. s # SHELL /\ first_child[s] = NO_PID /\ cursor[s] = NO_PID /\ Moves(s, "adopt")
      BY <2>8 DEF Exit, Goto, Moves
    <3>2. cursor' = cursor
      BY <2>8, <3>1, SMTT(60) DEF TypeOK, Exit
    <3>3. \A i \in Slots : cr3[i] = NULL => cr3'[i] = NULL
      BY <2>8, SMTT(60) DEF TypeOK, Exit
    <3>4. pc'[SHELL] = pc[SHELL] /\ \A t \in Slots \ {SHELL} : pc'[t] \in {pc[t], "adopt"}
      BY <3>1, MovesTo, SlotIndex, SMTT(60)
    <3> QED
      BY <1>7, <2>8, <3>2, <3>3, <3>4, SlotIndex DEF Exit, LocalSlots, Gone
  <2> QED
    BY <1>1, <1>2, <1>7, <1>9, <1>16, <2>1, <2>2, <2>3, <2>4, <2>5, <2>6, <2>7, <2>8 DEF Begin
<1>17. UNCHANGED vars => OnlyShellHasChildren'
  BY <1>1, <1>7 DEF vars, fields, locals
<1> QED
  BY <1>8, <1>10, <1>11, <1>12, <1>13, <1>14, <1>15, <1>16, <1>17 DEF Next, Continue

(* A plain step of the current task, which is not exiting: no task comes or  *)
(* goes, no memory changes hands, and the CPU keeps its registers.           *)
Plain ==
  /\ Kept /\ pc[current] \notin ExitPcs
  /\ UNCHANGED <<stack_base, cr3, rsp, held, current, loaded_cr3, rsp0, pending_cleanup, memory>>
  /\ \/ pc' = pc
     \/ \E p \in Pcs \ (ExitPcs \cup {"start", "fill"}) :
          /\ Moves(current, p) /\ pc[current] \notin {"fill", "free"}
          /\ pc[current] \in CreatePcs => p \in CreatePcs

(* Every other step is one of the scheduler, of reap_pending_cleanup, of     *)
(* create, of exit_current, or the one that marks a reaped child Dead.       *)
LEMMA PlainStep ==
  TypeOK /\ OnTheCpu /\ [Next]_vars =>
    \/ Plain \/ UNCHANGED vars \/ Scheduler
    \/ \E s \in Slots : \/ TakeCleanup(s) \/ FreeCleanup(s) \/ CreateProcess(s) \/ NoFreeSlot(s)
                         \/ AllocStack(s) \/ NoStack(s) \/ FillSlot(s) \/ ReadySlot(s)
                         \/ MarkDead(s) \/ Exit(s) \/ Exiting(s)
<1> SUFFICES ASSUME TypeOK, OnTheCpu, [Next]_vars, ~UNCHANGED vars, ~Scheduler,
                    \A s \in Slots :
                      ~(\/ TakeCleanup(s) \/ FreeCleanup(s) \/ CreateProcess(s) \/ NoFreeSlot(s)
                        \/ AllocStack(s) \/ NoStack(s) \/ FillSlot(s) \/ ReadySlot(s)
                        \/ MarkDead(s) \/ Exit(s) \/ Exiting(s))
             PROVE  Plain
  OBVIOUS
<1>1. Kept
  BY KeptStep DEF Exiting
<1> USE DEF fields, machine, locals, At, CreatePcs, ExitPcs
<1> DEFINE Same == UNCHANGED <<stack_base, cr3, rsp, held, current, loaded_cr3, rsp0,
                               pending_cleanup, memory>>
<1>2. ASSUME Same, pc' = pc, pc[current] \notin ExitPcs PROVE Plain
  BY <1>1, <1>2 DEF Plain
<1>3. ASSUME Same, NEW s \in Slots, s = current, pc[s] \notin ExitPcs \cup {"fill", "free"},
             NEW p \in Pcs \ (ExitPcs \cup {"start", "fill"}), Goto(s, p),
             pc[s] \in CreatePcs => p \in CreatePcs
      PROVE  Plain
  BY <1>1, <1>3 DEF Plain, Moves, Goto
<1>4. {"run", "take", "alloc", "ready", "find", "wait", "sleep", "yield", "scan", "block", "unlink",
       "rescan", "head", "walk", "store", "dead"} \subseteq Pcs \ (ExitPcs \cup {"start", "fill"})
  BY DEF Pcs, WaitPcs
<1>5. Tick => Plain
  BY <1>2 DEF Tick, InterruptsOn
<1>6. ASSUME NEW s \in Slots, Cleaning(s) \/ Creating(s) PROVE Plain
  <2>1. Trampoline(s) => Plain
    BY <1>3, <1>4 DEF Trampoline
  <2>2. FindFreeSlot(s) \/ LinkSlot(s) => Plain
    BY <1>3, <1>4 DEF FindFreeSlot, LinkSlot
  <2> QED
    BY <1>6, <2>1, <2>2 DEF Cleaning, Creating
<1>7. ASSUME NEW s \in Slots, Scanning(s) PROVE Plain
  <2>1. WaitEnter(s) => Plain
    BY <1>3, <1>4 DEF WaitEnter
  <2>2. LoadHead(s) \/ ScanEnds(s) \/ ScanFinds(s) \/ BlockInWait(s) => Plain
    BY <1>3, <1>4 DEF LoadHead, ScanEnds, ScanFinds, BlockInWait
  <2>3. ScanNext(s) => Plain
    BY <1>2 DEF ScanNext
  <2> QED
    BY <1>7, <2>1, <2>2, <2>3 DEF Scanning
<1>8. ASSUME NEW s \in Slots, Reaping(s) PROVE Plain
  <2>1. UnlinkWalk(s) \/ WalkNext(s) => Plain
    BY <1>3, <1>4 DEF UnlinkWalk, WalkNext, WalkTo
  <2>2. UnlinkHead(s) \/ WalkFinds(s) \/ StoreLink(s) \/ Detach(s) => Plain
    BY <1>3, <1>4 DEF UnlinkHead, WalkFinds, StoreLink, Detach
  <2> QED
    BY <1>8, <2>1, <2>2 DEF Reaping
<1>9. ASSUME NEW s \in Slots, Pausing(s) PROVE Plain
  BY <1>3, <1>4, <1>9 DEF Pausing, FallAsleep, EnterReschedule
<1>10. ASSUME NEW s \in Slots, Begin(s) PROVE Plain
  <2>1. CreateThread(s) \/ CallWait(s) \/ Block(s) => Plain
    BY <1>3, <1>4 DEF CreateThread, CallWait, Block
  <2>2. \A n \in SleepTicks : Sleep(s, n) => Plain
    BY <1>3, <1>4 DEF Sleep
  <2>3. \A n \in SleepTicks : SyscallSleep(s, n) => Plain
    BY <1>2 DEF SyscallSleep
  <2>4. \A p \in KnownPids : Unblock(s, p) => Plain
    BY <1>2 DEF Unblock
  <2>5. Yield(s) => Plain
    BY <1>2 DEF Yield
  <2> QED
    BY <1>10, <2>1, <2>2, <2>3, <2>4, <2>5 DEF Begin
<1> QED
  BY <1>5, <1>6, <1>7, <1>8, <1>9, <1>10 DEF Next, Continue

(* What a task owns keeps following from its state and its position in its   *)
(* code.                                                                     *)
LEMMA LifecycleStep ==
  TypeOK /\ LocalSlots /\ PermanentTasks /\ OnlyShellHasChildren /\ Lifecycle /\ OnTheCpu
  /\ [Next]_vars => Lifecycle'
<1> SUFFICES ASSUME TypeOK, LocalSlots, PermanentTasks, OnlyShellHasChildren, Lifecycle,
                    OnTheCpu, [Next]_vars
             PROVE  Lifecycle'
  OBVIOUS
<1> USE DEF Lifecycle, CreatePcs, ExitPcs
<1>1. CASE Plain
  <2>1. CASE pc' = pc
    BY <1>1, <2>1 DEF Plain, Kept, Gone
  <2>2. ASSUME NEW p \in Pcs \ (ExitPcs \cup {"start", "fill"}), Moves(current, p),
               pc[current] \notin {"fill", "free"}, pc[current] \in CreatePcs => p \in CreatePcs
        PROVE  Lifecycle'
    <3>1. pc'[current] = p /\ \A t \in Slots \ {current} : pc'[t] = pc[t]
      BY <2>2, MovesTo, SMTT(60)
    <3>2. current \in Slots /\ state'[current] \notin Gone /\ pc[current] \notin ExitPcs \cup {"start"}
      BY <1>1 DEF TypeOK, OnTheCpu, Plain, Kept, Gone
    <3>3. \A t \in Slots : state'[t] \in Gone => t # current /\ state'[t] = state[t]
      BY <1>1, <3>2 DEF Plain, Kept
    <3>4. \A t \in Slots : state[t] \in Gone => state'[t] = state[t]
      BY <1>1 DEF Plain, Kept
    <3> QED
      BY <1>1, <2>2, <3>1, <3>2, <3>3, <3>4, SMTT(60) DEF Plain, Gone
  <2> QED
    BY <1>1, <2>1, <2>2 DEF Plain
<1>2. ASSUME UNCHANGED <<state, stack_base, cr3, rsp, held, current, pc>> PROVE Lifecycle'
  BY <1>2
<1>3. CASE Scheduler
  <2>1. CASE Reschedule
    <3>1. PICK n \in Slots : state[n] = "Ready" /\ SwitchTo(n)
      BY <2>1, SMTT(60) DEF Reschedule
    <3>2. pc[current] \in ExitPcs => state[current] \in {"Dead", "Zombie"}
      BY <2>1 DEF OnTheCpu, Reschedule
    <3> QED
      BY SMTT(60), <3>1, <3>2 DEF TypeOK, SwitchTo, locals
  <2>2. NothingReady \/ SwitchTail => Lifecycle'
    BY <1>2 DEF NothingReady, SwitchTail, fields, locals
  <2> QED
    BY <1>3, <2>1, <2>2 DEF Scheduler
<1>4. ASSUME NEW s \in Slots, TakeCleanup(s) \/ FreeCleanup(s) PROVE Lifecycle'
  <2>1. TakeCleanup(s) => Lifecycle'
    BY SMTT(60) DEF TypeOK, OnTheCpu, TakeCleanup, NoBlock, At, Goto, fields, machine
  <2>2. FreeCleanup(s) => Lifecycle'
    BY SMTT(60) DEF TypeOK, OnTheCpu, FreeCleanup, NoBlock, At, Goto, fields, machine
  <2> QED
    BY <1>4, <2>1, <2>2
<1>5. ASSUME NEW s \in Slots, CreateProcess(s) PROVE Lifecycle'
  BY SMTT(60), <1>5 DEF TypeOK, OnTheCpu, CreateProcess, At, Goto, fields, machine
<1>6. ASSUME NEW s \in Slots, NoFreeSlot(s) \/ NoStack(s) PROVE Lifecycle'
  BY SMTT(60), <1>6 DEF TypeOK, OnTheCpu, NoFreeSlot, NoStack, CreateFails, NoBlock, At, Goto,
     fields, machine
<1>7. ASSUME NEW s \in Slots, AllocStack(s) PROVE Lifecycle'
  <2>1. PICK k \in Stacks : held' = [held EXCEPT ![s].stack = k]
    BY <1>7 DEF AllocStack
  <2>2. k # NULL
    BY NamesAssumption
  <2> QED
    BY SMTT(60), <1>7, <2>1, <2>2 DEF TypeOK, OnTheCpu, AllocStack, At, Goto, fields, machine
<1>8. ASSUME NEW s \in Slots, FillSlot(s) PROVE Lifecycle'
  <2>1. s = SHELL
    BY <1>8 DEF OnlyShellHasChildren, FillSlot, At
  <2>2. slot[s] \in Slots \ {SHELL, IDLE, INIT} /\ state[slot[s]] = "Dead"
    BY <1>8, <2>1 DEF LocalSlots, OnlyShellHasChildren, FillSlot, At
  <2>3. held[s].stack \in Stacks
    BY <1>8 DEF TypeOK, FillSlot, At
  <2>4. held[slot[s]].stack = NULL /\ held[slot[s]].cr3 = NULL
    BY SMTT(60), <2>2 DEF TypeOK
  <2> QED
    BY SMTT(60), <1>8, <2>1, <2>2, <2>3, <2>4 DEF TypeOK, FillSlot, At, machine
<1>9. ASSUME NEW s \in Slots, ReadySlot(s) PROVE Lifecycle'
  <2>1. s = SHELL
    BY <1>9 DEF OnlyShellHasChildren, ReadySlot, At
  <2>2. slot[s] \in Slots \ {SHELL, IDLE, INIT} /\ state[slot[s]] = "New"
    BY <1>9, <2>1 DEF LocalSlots, OnlyShellHasChildren, ReadySlot, At
  <2> QED
    BY SMTT(60), <1>9, <2>1, <2>2 DEF TypeOK, NoBlock, ReadySlot, At, Goto, machine
<1>10. ASSUME NEW s \in Slots, MarkDead(s) PROVE Lifecycle'
  <2>1. s = SHELL
    BY <1>10 DEF OnlyShellHasChildren, MarkDead, At, WaitPcs
  <2>2. pid_slot_index(cursor[s]) \in Slots /\ state[pid_slot_index(cursor[s])] = "Zombie"
    BY <1>10, <2>1 DEF OnlyShellHasChildren, MarkDead, At
  <2> QED
    BY SMTT(60), <1>10, <2>1, <2>2 DEF TypeOK, MarkDead, At, Goto, machine, locals
<1>11. ASSUME NEW s \in Slots, Exit(s) PROVE Lifecycle'
  BY SMTT(60), <1>11 DEF TypeOK, OnTheCpu, Exit, At, Goto
<1>12. ASSUME NEW s \in Slots, Exiting(s) PROVE Lifecycle'
  <2>1. Adopt(s) => Lifecycle'
    BY SMTT(60) DEF TypeOK, Adopt, machine, unblock, find_by_pid
  <2>2. AdoptEnds(s) => Lifecycle'
    BY SMTT(60) DEF TypeOK, OnTheCpu, AdoptEnds, At, Goto, machine
  <2>3. BecomeZombie(s) => Lifecycle'
    BY SMTT(60) DEF TypeOK, BecomeZombie, At, locals, unblock, find_by_pid
  <2>4. BecomeDead(s) => Lifecycle'
    BY SMTT(60) DEF TypeOK, BecomeDead, At, locals
  <2> QED
    BY <1>12, <2>1, <2>2, <2>3, <2>4 DEF Exiting
<1>13. UNCHANGED vars => Lifecycle'
  BY <1>2 DEF vars, fields, machine, locals
<1> QED
  BY <1>1, <1>3, <1>4, <1>5, <1>6, <1>7, <1>8, <1>9, <1>10, <1>11, <1>12, <1>13, PlainStep

(* switch_to and exit_current keep CR3, RSP0 and the pending cleanup in step *)
(* with the current task.                                                    *)
LEMMA CpuStep ==
  TypeOK /\ LocalSlots /\ PermanentTasks /\ OnlyShellHasChildren /\ Lifecycle /\ OnTheCpu
  /\ [Next]_vars => OnTheCpu'
<1> SUFFICES ASSUME TypeOK, LocalSlots, PermanentTasks, OnlyShellHasChildren, Lifecycle,
                    OnTheCpu, [Next]_vars
             PROVE  OnTheCpu'
  OBVIOUS
<1> USE DEF OnTheCpu, target_cr3, ExitPcs
<1>0. current \in Slots
  BY DEF TypeOK
<1>1. ASSUME UNCHANGED <<current, loaded_cr3, rsp0, rsp, pending_cleanup>>,
             pc[current] \notin ExitPcs, pc'[current] \notin ExitPcs \cup {"start"},
             stack_base'[current] = stack_base[current], cr3'[current] = cr3[current],
             state'[current] \notin Gone
      PROVE  OnTheCpu'
  BY <1>1 DEF Gone
<1>2. CASE Plain
  <2>1. pc[current] \notin ExitPcs /\ state'[current] \notin Gone
    BY <1>0, <1>2 DEF Plain, Kept, Gone
  <2>2. pc'[current] \notin ExitPcs \cup {"start"}
    <3>1. CASE pc' = pc
      BY <2>1, <3>1
    <3>2. ASSUME NEW p \in Pcs \ (ExitPcs \cup {"start", "fill"}), Moves(current, p)
          PROVE  pc'[current] \notin ExitPcs \cup {"start"}
      BY <3>2, MovesTo, SMTT(60)
    <3> QED
      BY <1>2, <3>1, <3>2 DEF Plain
  <2> QED
    BY <1>1, <1>2, <2>1, <2>2 DEF Plain
<1>3. CASE UNCHANGED vars
  BY <1>3 DEF vars, fields, machine
<1>4. CASE Scheduler
  <2>1. CASE Reschedule
    <3>1. PICK n \in Slots : state[n] = "Ready" /\ SwitchTo(n)
      BY <2>1, SMTT(60) DEF Reschedule
    <3>2. pc[n] \notin ExitPcs
      <4>1. pc[n] \in ExitPcs => n = current
        BY <3>1 DEF Lifecycle
      <4>2. n # current
        BY <3>1 DEF SwitchTo
      <4> QED
        BY <4>1, <4>2
    <3> QED
      BY SMTT(60), <3>1, <3>2 DEF TypeOK, SwitchTo
  <2>2. NothingReady => OnTheCpu'
    BY SMTT(60) DEF TypeOK, NothingReady, fields
  <2>3. SwitchTail => OnTheCpu'
    BY SMTT(60) DEF TypeOK, SwitchTail, fields, NoCleanup
  <2> QED
    BY <1>4, <2>1, <2>2, <2>3 DEF Scheduler
<1>5. ASSUME NEW s \in Slots, TakeCleanup(s) PROVE OnTheCpu'
  BY SMTT(60), <1>5 DEF TypeOK, TakeCleanup, At, Goto, fields, NoCleanup
<1>6. ASSUME NEW s \in Slots, \/ FreeCleanup(s) \/ CreateProcess(s) \/ NoFreeSlot(s)
                              \/ AllocStack(s) \/ NoStack(s)
      PROVE  OnTheCpu'
  <2>1. /\ Moves(s, "run") \/ Moves(s, "find") \/ Moves(s, "fill")
        /\ s = current /\ pc[s] \notin ExitPcs /\ UNCHANGED <<fields, machine>>
    BY <1>6 DEF FreeCleanup, CreateProcess, NoFreeSlot, AllocStack, NoStack, CreateFails, At, Goto,
       Moves
  <2>2. pc'[s] \in {"run", "find", "fill"}
    BY <2>1, MovesTo, SMTT(60)
  <2> QED
    BY <1>1, <2>1, <2>2 DEF fields, machine, Gone
<1>7. ASSUME NEW s \in Slots, FillSlot(s) \/ ReadySlot(s) PROVE OnTheCpu'
  <2>1. s = SHELL /\ current = SHELL /\ pc[SHELL] \in {"fill", "ready"}
    BY <1>7 DEF OnlyShellHasChildren, FillSlot, ReadySlot, At, CreatePcs
  <2>2. slot[s] \in Slots \ {SHELL, IDLE, INIT}
    BY <1>7, <2>1 DEF LocalSlots, FillSlot, ReadySlot, At
  <2>3. FillSlot(s) => /\ pc'[s] = "link" /\ state'[s] = state[s]
                       /\ stack_base'[s] = stack_base[s] /\ cr3' = cr3
    BY SMTT(60), <2>1, <2>2 DEF TypeOK, FillSlot
  <2>4. ReadySlot(s) => /\ pc'[s] = "run" /\ state'[s] = state[s]
                        /\ cr3'[s] = cr3[s] /\ stack_base' = stack_base
    BY SMTT(60), <2>1, <2>2 DEF TypeOK, ReadySlot, Goto
  <2>5. UNCHANGED <<current, loaded_cr3, rsp0, pending_cleanup>> /\ rsp'[s] = rsp[s]
    BY SMTT(60), <1>7, <2>1, <2>2 DEF TypeOK, FillSlot, ReadySlot, machine
  <2> QED
    BY <1>7, <2>1, <2>3, <2>4, <2>5
<1>8. ASSUME NEW s \in Slots, MarkDead(s) PROVE OnTheCpu'
  <2>1. s = SHELL /\ current = SHELL /\ pc[SHELL] = "dead"
    BY <1>8 DEF OnlyShellHasChildren, MarkDead, At, WaitPcs
  <2>2. pid_slot_index(cursor[s]) \in Slots /\ state[pid_slot_index(cursor[s])] = "Zombie"
    BY <2>1 DEF OnlyShellHasChildren
  <2>3. state'[s] = state[s] /\ pc'[s] = "detach"
    BY SMTT(60), <1>8, <2>1, <2>2 DEF TypeOK, MarkDead, Goto
  <2> QED
    BY <1>1, <1>8, <2>1, <2>3 DEF MarkDead, machine, Gone
<1>9. ASSUME NEW s \in Slots, Exit(s) PROVE OnTheCpu'
  <2>1. rsp[s] \in Stacks /\ stack_base[s] = rsp[s]
    BY <1>9 DEF Lifecycle, Exit, At
  <2>2. stack_base[s] # NULL
    BY <2>1, NamesAssumption
  <2> QED
    BY <1>9, <2>1, <2>2 DEF TypeOK, Exit, At, Goto
<1>10. ASSUME NEW s \in Slots, Exiting(s) PROVE OnTheCpu'
  <2>1. Adopt(s) => OnTheCpu'
    BY SMTT(60) DEF TypeOK, Adopt, At, machine, unblock, find_by_pid
  <2>2. AdoptEnds(s) => OnTheCpu'
    BY SMTT(60) DEF TypeOK, AdoptEnds, At, Goto, machine
  <2>3. BecomeZombie(s) => OnTheCpu'
    BY SMTT(60) DEF TypeOK, BecomeZombie, At, unblock, find_by_pid
  <2>4. BecomeDead(s) => OnTheCpu'
    BY SMTT(60) DEF TypeOK, BecomeDead, At
  <2> QED
    BY <1>10, <2>1, <2>2, <2>3, <2>4 DEF Exiting
<1> QED
  BY <1>2, <1>3, <1>4, <1>5, <1>6, <1>7, <1>8, <1>9, <1>10, PlainStep

(* task::init establishes the lifecycle invariant.                           *)
LEMMA InitLifecycle == Init => LifecycleInv
<1> SUFFICES ASSUME Init PROVE LifecycleInv
  OBVIOUS
<1>1. PICK a \in Stacks, b \in Stacks :
        /\ a # b
        /\ stack_base = [s \in Slots |-> IF s = IDLE THEN a ELSE IF s = INIT THEN b ELSE NULL]
        /\ stacks = {a, b}
  BY DEF Init
<1>2. a # NULL /\ b # NULL /\ \A s \in Slots : held[s].stack = NULL /\ held[s].cr3 = NULL
  BY NamesAssumption DEF Init, NoBlock
<1>3. OnlyShellHasChildren
  BY SlotIndex DEF Init, OnlyShellHasChildren, CreatePcs, WaitPcs
<1>4. Lifecycle
  <2>1. \A s \in Slots : /\ stack_base[s] \in {a, b, NULL} /\ cr3[s] = NULL /\ pc[s] \in {"run", "start"}
                       /\ state[s] \in {"Running", "Ready", "Dead"}
    BY <1>1 DEF Init
  <2>2. \A s \in Slots : state[s] = "Dead" => stack_base[s] = NULL /\ pc[s] = "start"
    BY <1>1 DEF Init, SHELL, IDLE, INIT
  <2>3. \A s \in Slots : state[s] # "Dead" =>
          IF s = SHELL THEN rsp[s] = BOOT /\ stack_base[s] = NULL
          ELSE rsp[s] \in Stacks /\ stack_base[s] = rsp[s]
    BY SMTT(60), <1>1 DEF Init, SHELL, IDLE, INIT
  <2> QED
    BY <1>2, <2>1, <2>2, <2>3 DEF Lifecycle, ExitPcs, CreatePcs
<1>5. OnTheCpu
  <2>1. /\ current = SHELL /\ SHELL \in Slots /\ pc[SHELL] = "run" /\ state[SHELL] = "Running"
        /\ cr3[SHELL] = NULL /\ cpu = "task" /\ loaded_cr3 = KERNEL_CR3
    BY SlotIndex DEF Init
  <2>2. stack_base[SHELL] = NULL
    BY SMTT(60), <1>1, <2>1 DEF SHELL, IDLE, INIT
  <2>3. pending_cleanup.stack = NULL /\ pending_cleanup.cr3 = NULL /\ pending_cleanup.active = FALSE
    BY DEF Init, NoCleanup
  <2> QED
    BY <2>1, <2>2, <2>3, ZenonT(30) DEF OnTheCpu, ExitPcs, target_cr3
<1> QED
  BY <1>3, <1>4, <1>5, InitGeneral DEF LifecycleInv

(* With the shell as the only creator, the lifecycle invariant holds in      *)
(* every reachable state.                                                    *)
THEOREM LifecycleInvariance ==
  ASSUME Creators \subseteq {SHELL}
  PROVE  Spec => []LifecycleInv
<1>1. LifecycleInv /\ [Next]_vars => GeneralInv'
  BY GeneralStep DEF LifecycleInv
<1>2. LifecycleInv /\ [Next]_vars => (OnlyShellHasChildren /\ Lifecycle /\ OnTheCpu)'
  BY OnlyShellStep, LifecycleStep, CpuStep DEF GeneralInv, LifecycleInv
<1>3. LifecycleInv /\ [Next]_vars => LifecycleInv'
  BY <1>1, <1>2 DEF LifecycleInv
<1> QED
  BY InitLifecycle, <1>3, PTL DEF Spec

(* switch_to always loads the page tables and the interrupt stack of the     *)
(* task that runs, for any number of slots, stacks and address spaces.       *)
THEOREM OwnSpaceAndStack ==
  ASSUME Creators \subseteq {SHELL}
  PROVE  Spec => []OwnAddressSpaceAndStack
<1>1. LifecycleInv => OwnAddressSpaceAndStack
  BY NamesAssumption
     DEF LifecycleInv, GeneralInv, TypeOK, Lifecycle, OnTheCpu, OwnAddressSpaceAndStack
<1> QED
  BY <1>1, LifecycleInvariance, PTL

-----------------------------------------------------------------------------
(* Kernel stacks and address spaces: each has one owner, and none is used    *)
(* after it is freed.  A step either leaves ownership alone (Footprint) or   *)
(* is one of six moves of a block between owners, each with a lemma of its   *)
(* own.                                                                      *)

\* The variables through which memory is owned.
owned == <<stack_base, cr3, held, pending_cleanup, stacks, spaces>>

(* Only the tail of switch_to, reap_pending_cleanup, create and exit_current *)
(* move a stack or an address space from one owner to another; every other   *)
(* step leaves ownership alone.                                              *)
LEMMA Footprint ==
  [Next]_vars =>
    \/ UNCHANGED owned
    \/ SwitchTail
    \/ \E s \in Slots : \/ TakeCleanup(s) \/ FreeCleanup(s) \/ CreateProcess(s) \/ NoFreeSlot(s)
                         \/ AllocStack(s) \/ NoStack(s) \/ FillSlot(s) \/ ReadySlot(s) \/ Exit(s)
<1> USE DEF owned, fields, machine, memory, locals
<1>1. Tick \/ Reschedule \/ NothingReady => UNCHANGED owned
  BY DEF Tick, Reschedule, SwitchTo, NothingReady
<1>2. ASSUME NEW s \in Slots, Trampoline(s) \/ FindFreeSlot(s) \/ LinkSlot(s) PROVE UNCHANGED owned
  BY <1>2 DEF Trampoline, FindFreeSlot, LinkSlot
<1>3. ASSUME NEW s \in Slots, Scanning(s) PROVE UNCHANGED owned
  BY <1>3 DEF Scanning, WaitEnter, LoadHead, ScanEnds, ScanFinds, ScanNext, BlockInWait
<1>4. ASSUME NEW s \in Slots, Reaping(s) PROVE UNCHANGED owned
  BY <1>4 DEF Reaping, UnlinkHead, UnlinkWalk, WalkFinds, WalkNext, WalkTo, StoreLink, MarkDead,
     Detach
<1>5. ASSUME NEW s \in Slots, Pausing(s) \/ Exiting(s) PROVE UNCHANGED owned
  BY <1>5 DEF Pausing, FallAsleep, EnterReschedule, Exiting, Adopt, AdoptEnds, BecomeZombie,
     BecomeDead
<1>6. ASSUME NEW s \in Slots, Begin(s), ~CreateProcess(s), ~Exit(s) PROVE UNCHANGED owned
  BY <1>6 DEF Begin, CreateThread, CallWait, Sleep, SyscallSleep, Block, Unblock, Yield
<1>7. UNCHANGED vars => UNCHANGED owned
  BY DEF vars
<1> HIDE DEF owned, fields, machine, memory, locals
<1> QED
  BY <1>1, <1>2, <1>3, <1>4, <1>5, <1>6, <1>7 DEF Next, Continue, Scheduler, Cleaning, Creating

(* reap_pending_cleanup takes the pending block into a local variable: one   *)
(* owner before, one after.                                                  *)
LEMMA TakeOwned ==
  ASSUME NEW b, NEW h, NEW p, NEW A, NEW h2, NEW s \in Slots, OwnedOnce(b, h, p, A),
         h[s] = NULL, h2[s] = p, \A t \in Slots : t # s => h2[t] = h[t]
  PROVE  OwnedOnce(b, h2, NULL, A)
<1>1. \A k \in A : NULL = k \/ \E t \in Slots : b[t] = k \/ h2[t] = k
  BY DEF OwnedOnce
<1>2. \A t \in Slots : b[t] \in A \cup {NULL} /\ h2[t] \in A \cup {NULL}
  BY DEF OwnedOnce
<1>3. \A t, u \in Slots :
        b[t] # NULL => (b[t] = b[u] => t = u) /\ b[t] # h2[u] /\ b[t] # NULL
  BY SMTT(60) DEF OwnedOnce
<1>4. \A t, u \in Slots : h2[t] # NULL => (h2[t] = h2[u] => t = u) /\ h2[t] # NULL
  BY SMTT(60) DEF OwnedOnce
<1> QED
  BY SMTT(60), <1>1, <1>2, <1>3, <1>4 DEF OwnedOnce

(* kfree or destroy_address_space of a block held in a local variable leaves *)
(* the other blocks owned once.                                              *)
LEMMA FreeOwned ==
  ASSUME NEW b, NEW h, NEW p, NEW A, NEW h2, NEW s \in Slots, OwnedOnce(b, h, p, A),
         h2[s] = NULL, \A t \in Slots : t # s => h2[t] = h[t]
  PROVE  OwnedOnce(b, h2, p, A \ {h[s]})
<1>1. \A k \in A \ {h[s]} : p = k \/ \E t \in Slots : b[t] = k \/ h2[t] = k
  BY SMTT(60) DEF OwnedOnce
<1>2. /\ p \in (A \ {h[s]}) \cup {NULL}
      /\ \A t \in Slots : b[t] \in (A \ {h[s]}) \cup {NULL} /\ h2[t] \in (A \ {h[s]}) \cup {NULL}
  BY SMTT(60) DEF OwnedOnce
<1>3. \A t, u \in Slots :
        /\ b[t] # NULL => (b[t] = b[u] => t = u) /\ b[t] # h2[u] /\ b[t] # p
        /\ h2[t] # NULL => (h2[t] = h2[u] => t = u) /\ h2[t] # p
  BY SMTT(60) DEF OwnedOnce
<1> QED
  BY <1>1, <1>2, <1>3 DEF OwnedOnce

(* So does freeing the pending block directly, as the tail of switch_to      *)
(* does.                                                                     *)
LEMMA DropOwned ==
  ASSUME NEW b, NEW h, NEW p, NEW A, OwnedOnce(b, h, p, A)
  PROVE  OwnedOnce(b, h, NULL, A \ {p})
BY DEF OwnedOnce

(* A block fresh from the allocator gets one owner, the local variable it is *)
(* returned to.                                                              *)
LEMMA AllocOwned ==
  ASSUME NEW b, NEW h, NEW p, NEW A, NEW h2, NEW s \in Slots, OwnedOnce(b, h, p, A), NEW k,
         NEW A2, \A x : x \in A2 <=> x \in A \/ x = k, k \notin A, k # NULL, NULL \notin A,
         h[s] = NULL, h2[s] = k, \A t \in Slots : t # s => h2[t] = h[t]
  PROVE  OwnedOnce(b, h2, p, A2)
<1>1. \A j \in A2 : p = j \/ \E t \in Slots : b[t] = j \/ h2[t] = j
  BY SMTT(60) DEF OwnedOnce
<1> QED
  BY SMTT(60), <1>1 DEF OwnedOnce

(* init_common_slot moves a block from a local variable into a slot that     *)
(* owns none.                                                                *)
LEMMA GiveOwned ==
  ASSUME NEW b, NEW h, NEW p, NEW A, NEW b2, NEW h2, NEW s \in Slots, NEW i \in Slots,
         OwnedOnce(b, h, p, A), b[i] = NULL,
         b2[i] = h[s], \A t \in Slots : t # i => b2[t] = b[t],
         h2[s] = NULL, \A t \in Slots : t # s => h2[t] = h[t]
  PROVE  OwnedOnce(b2, h2, p, A)
<1>1. ASSUME NEW k \in A PROVE p = k \/ \E t \in Slots : b2[t] = k \/ h2[t] = k
  <2>1. CASE h[s] = k
    BY <2>1
  <2>2. CASE b[i] = k
    BY <2>2
  <2>3. ASSUME h[s] # k, b[i] # k, p # k PROVE \E t \in Slots : b2[t] = k \/ h2[t] = k
    <3>1. PICK t \in Slots : b[t] = k \/ h[t] = k
      BY <2>3 DEF OwnedOnce
    <3>2. b2[t] = k \/ h2[t] = k
      BY <2>3, <3>1
    <3> QED
      BY <3>2
  <2> QED
    BY <2>1, <2>2, <2>3
<1>2. \A t \in Slots : b2[t] \in A \cup {NULL} /\ h2[t] \in A \cup {NULL}
  BY DEF OwnedOnce
<1>3. \A t, u \in Slots :
        b2[t] # NULL => (b2[t] = b2[u] => t = u) /\ b2[t] # h2[u] /\ b2[t] # p
  BY SMTT(60) DEF OwnedOnce
<1>4. \A t, u \in Slots : h2[t] # NULL => (h2[t] = h2[u] => t = u) /\ h2[t] # p
  BY SMTT(60) DEF OwnedOnce
<1>5. p \in A \cup {NULL}
  BY DEF OwnedOnce
<1>6. \A t, u \in Slots :
        /\ b2[t] # NULL => (b2[t] = b2[u] => t = u) /\ b2[t] # h2[u] /\ b2[t] # p
        /\ h2[t] # NULL => (h2[t] = h2[u] => t = u) /\ h2[t] # p
  BY <1>3, <1>4
<1> QED
  BY <1>1, <1>2, <1>5, <1>6, Zenon DEF OwnedOnce

(* exit_current moves a block from its own slot into an empty pending        *)
(* cleanup.                                                                  *)
LEMMA ExitOwned ==
  ASSUME NEW b, NEW h, NEW A, NEW b2, NEW s \in Slots, OwnedOnce(b, h, NULL, A),
         b2[s] = NULL, \A t \in Slots : t # s => b2[t] = b[t]
  PROVE  OwnedOnce(b2, h, b[s], A)
<1>1. \A k \in A : b[s] = k \/ \E t \in Slots : b2[t] = k \/ h[t] = k
  BY SMTT(60) DEF OwnedOnce
<1>2. /\ b[s] \in A \cup {NULL}
      /\ \A t \in Slots : b2[t] \in A \cup {NULL} /\ h[t] \in A \cup {NULL}
  BY DEF OwnedOnce
<1>3. \A t, u \in Slots :
        /\ b2[t] # NULL => (b2[t] = b2[u] => t = u) /\ b2[t] # h[u] /\ b2[t] # b[s]
        /\ h[t] # NULL => (h[t] = h[u] => t = u) /\ h[t] # b[s]
  BY SMTT(60) DEF OwnedOnce
<1> QED
  BY <1>1, <1>2, <1>3 DEF OwnedOnce

(* Every step leaves every allocated kernel stack with exactly one owner.    *)
LEMMA StacksStep ==
  TypeOK /\ LocalSlots /\ CleanupWindow /\ OnlyShellHasChildren /\ Lifecycle /\ OnTheCpu /\
     StacksOwnedOnce /\ [Next]_vars
    => StacksOwnedOnce'
<1> SUFFICES ASSUME TypeOK, LocalSlots, CleanupWindow, OnlyShellHasChildren, Lifecycle,
   OnTheCpu, StacksOwnedOnce, [Next]_vars
             PROVE  StacksOwnedOnce'
  OBVIOUS
<1> USE DEF StacksOwnedOnce
<1>1. CASE UNCHANGED owned
  BY <1>1 DEF owned, held_stacks, held_spaces
<1>2. CASE SwitchTail
  <2>1. UNCHANGED <<stack_base, held_stacks>>
    BY <1>2 DEF SwitchTail, fields, locals, held_stacks
  <2>2. CASE pending_cleanup.active
    <3>1. pending_cleanup'.stack = NULL /\ stacks' = stacks \ {pending_cleanup.stack}
      BY <1>2, <2>2 DEF SwitchTail, NoCleanup
    <3> QED
      BY <2>1, <3>1, DropOwned
  <2>3. CASE ~pending_cleanup.active
    <3>1. UNCHANGED <<pending_cleanup, stacks>>
      BY <1>2, <2>3 DEF SwitchTail
    <3> QED
      BY <2>1, <3>1
  <2> QED
    BY <2>2, <2>3
<1>3. ASSUME NEW s \in Slots, TakeCleanup(s) PROVE StacksOwnedOnce'
  <2>1. held_stacks[s] = NULL
    BY <1>3 DEF Lifecycle, TakeCleanup, At, CreatePcs, held_stacks
  <2>2. /\ held_stacks'[s] = pending_cleanup.stack /\ \A t \in Slots : t # s => held_stacks'[t] = held_stacks[t]
        /\ pending_cleanup'.stack = NULL /\ UNCHANGED <<stack_base, stacks>>
    BY <1>3 DEF TypeOK, TakeCleanup, fields, memory, NoCleanup, held_stacks
  <2> QED
    BY <2>1, <2>2, TakeOwned
<1>4. ASSUME NEW s \in Slots, FreeCleanup(s) PROVE StacksOwnedOnce'
  <2>1. /\ held_stacks'[s] = NULL /\ \A t \in Slots : t # s => held_stacks'[t] = held_stacks[t]
        /\ stacks' = stacks \ {held_stacks[s]} /\ UNCHANGED <<stack_base, pending_cleanup>>
    BY <1>4 DEF TypeOK, FreeCleanup, fields, machine, NoBlock, held_stacks
  <2> QED
    BY <2>1, FreeOwned
<1>5. ASSUME NEW s \in Slots, CreateProcess(s) PROVE StacksOwnedOnce'
  <2>1. /\ \A t \in Slots : held'[t].stack = held[t].stack
        /\ UNCHANGED <<stack_base, pending_cleanup, stacks>>
    BY SMTT(60), <1>5 DEF TypeOK, CreateProcess, fields, machine, memory
  <2>2. UNCHANGED held_stacks
    BY <2>1 DEF held_stacks
  <2> QED
    BY <2>1, <2>2
<1>6. ASSUME NEW s \in Slots, NoFreeSlot(s) PROVE StacksOwnedOnce'
  <2>1. held[s].stack = NULL
    BY <1>6 DEF Lifecycle, NoFreeSlot, At
  <2>2. /\ \A t \in Slots : held'[t].stack = held[t].stack
        /\ UNCHANGED <<stack_base, pending_cleanup, stacks>>
    BY <1>6, <2>1 DEF TypeOK, NoFreeSlot, CreateFails, fields, machine, NoBlock
  <2>3. UNCHANGED held_stacks
    BY <2>2 DEF held_stacks
  <2> QED
    BY <2>2, <2>3
<1>7. ASSUME NEW s \in Slots, AllocStack(s) PROVE StacksOwnedOnce'
  <2>1. held_stacks[s] = NULL
    BY <1>7 DEF Lifecycle, AllocStack, At, CreatePcs, held_stacks
  <2>2. PICK k \in Stacks \ stacks : stacks' = stacks \cup {k} /\ held' = [held EXCEPT ![s].stack = k]
    BY <1>7 DEF AllocStack
  <2>3. /\ held_stacks'[s] = k /\ \A t \in Slots : t # s => held_stacks'[t] = held_stacks[t]
        /\ UNCHANGED <<stack_base, pending_cleanup>>
    BY SMTT(60), <1>7, <2>2 DEF TypeOK, AllocStack, fields, machine, held_stacks
  <2>4. k # NULL /\ k \notin stacks /\ NULL \notin stacks
    BY <2>2, NamesAssumption DEF TypeOK
  <2>5. \A x : x \in stacks' <=> x \in stacks \/ x = k
    BY <2>2
  <2>6. OwnedOnce(stack_base, held_stacks', pending_cleanup.stack, stacks')
    BY <2>1, <2>3, <2>4, <2>5, AllocOwned
  <2> QED
    BY <2>3, <2>6
<1>8. ASSUME NEW s \in Slots, NoStack(s) PROVE StacksOwnedOnce'
  <2>1. held[s].stack = NULL
    BY <1>8 DEF Lifecycle, NoStack, At
  <2>2. /\ \A t \in Slots : held'[t].stack = held[t].stack
        /\ UNCHANGED <<stack_base, pending_cleanup, stacks>>
    BY <1>8, <2>1 DEF TypeOK, NoStack, CreateFails, fields, machine, NoBlock
  <2>3. UNCHANGED held_stacks
    BY <2>2 DEF held_stacks
  <2> QED
    BY <2>2, <2>3
<1>9. ASSUME NEW s \in Slots, FillSlot(s) PROVE StacksOwnedOnce'
  <2>1. s = SHELL
    BY <1>9 DEF OnlyShellHasChildren, FillSlot, At, CreatePcs
  <2>2. slot[s] \in Slots \ {SHELL, IDLE, INIT} /\ state[slot[s]] = "Dead"
    BY <1>9, <2>1 DEF LocalSlots, OnlyShellHasChildren, FillSlot, At
  <2>3. stack_base[slot[s]] = NULL
    BY <1>9, <2>1, <2>2 DEF Lifecycle, OnlyShellHasChildren, FillSlot, At
  <2> DEFINE i == slot[s]
  <2>4. /\ stack_base'[i] = held_stacks[s] /\ \A t \in Slots : t # i => stack_base'[t] = stack_base[t]
        /\ held_stacks'[s] = NULL /\ \A t \in Slots : t # s => held_stacks'[t] = held_stacks[t]
        /\ UNCHANGED <<stacks, pending_cleanup>>
    BY <1>9, <2>2 DEF TypeOK, FillSlot, machine, memory, NoBlock, held_stacks
  <2>5. i \in Slots /\ stack_base[i] = NULL
    BY <2>2, <2>3
  <2> HIDE DEF i
  <2>6. OwnedOnce(stack_base', held_stacks', pending_cleanup.stack, stacks)
    BY SMTT(60), <2>4, <2>5, GiveOwned
  <2> QED
    BY <2>4, <2>6
<1>10. ASSUME NEW s \in Slots, ReadySlot(s) PROVE StacksOwnedOnce'
  <2>1. held[s].stack = NULL
    BY <1>10 DEF Lifecycle, ReadySlot, At
  <2>2. /\ \A t \in Slots : held'[t].stack = held[t].stack
        /\ UNCHANGED <<stack_base, pending_cleanup, stacks>>
    BY <1>10, <2>1 DEF TypeOK, ReadySlot, machine, memory, NoBlock
  <2>3. UNCHANGED held_stacks
    BY <2>2 DEF held_stacks
  <2> QED
    BY <2>2, <2>3
<1>11. ASSUME NEW s \in Slots, Exit(s) PROVE StacksOwnedOnce'
  <2>1. pending_cleanup.stack = NULL
    BY <1>11 DEF CleanupWindow, OnTheCpu, Exit, At
  <2>2. /\ pending_cleanup'.stack = stack_base[s] /\ stack_base'[s] = NULL
        /\ \A t \in Slots : t # s => stack_base'[t] = stack_base[t]
        /\ UNCHANGED <<held_stacks, stacks>>
    BY <1>11 DEF TypeOK, Exit, memory, held_stacks
  <2> QED
    BY <2>1, <2>2, ExitOwned
<1> QED
  BY <1>1, <1>2, <1>3, <1>4, <1>5, <1>6, <1>7, <1>8, <1>9, <1>10, <1>11, Footprint, Zenon

(* Every step leaves every allocated address space with exactly one owner.   *)
LEMMA SpacesStep ==
  TypeOK /\ LocalSlots /\ CleanupWindow /\ OnlyShellHasChildren /\ Lifecycle /\ OnTheCpu /\
     SpacesOwnedOnce /\ [Next]_vars
    => SpacesOwnedOnce'
<1> SUFFICES ASSUME TypeOK, LocalSlots, CleanupWindow, OnlyShellHasChildren, Lifecycle,
   OnTheCpu, SpacesOwnedOnce, [Next]_vars
             PROVE  SpacesOwnedOnce'
  OBVIOUS
<1> USE DEF SpacesOwnedOnce
<1>1. CASE UNCHANGED owned
  BY <1>1 DEF owned, held_stacks, held_spaces
<1>2. CASE SwitchTail
  <2>1. UNCHANGED <<cr3, held_spaces>>
    BY <1>2 DEF SwitchTail, fields, locals, held_spaces
  <2>2. CASE pending_cleanup.active
    <3>1. pending_cleanup'.cr3 = NULL /\ spaces' = spaces \ {pending_cleanup.cr3}
      BY <1>2, <2>2 DEF SwitchTail, NoCleanup
    <3> QED
      BY <2>1, <3>1, DropOwned
  <2>3. CASE ~pending_cleanup.active
    <3>1. UNCHANGED <<pending_cleanup, spaces>>
      BY <1>2, <2>3 DEF SwitchTail
    <3> QED
      BY <2>1, <3>1
  <2> QED
    BY <2>2, <2>3
<1>3. ASSUME NEW s \in Slots, TakeCleanup(s) PROVE SpacesOwnedOnce'
  <2>1. held_spaces[s] = NULL
    BY <1>3 DEF Lifecycle, TakeCleanup, At, CreatePcs, held_spaces
  <2>2. /\ held_spaces'[s] = pending_cleanup.cr3 /\ \A t \in Slots : t # s => held_spaces'[t] = held_spaces[t]
        /\ pending_cleanup'.cr3 = NULL /\ UNCHANGED <<cr3, spaces>>
    BY <1>3 DEF TypeOK, TakeCleanup, fields, memory, NoCleanup, held_spaces
  <2> QED
    BY <2>1, <2>2, TakeOwned
<1>4. ASSUME NEW s \in Slots, FreeCleanup(s) PROVE SpacesOwnedOnce'
  <2>1. /\ held_spaces'[s] = NULL /\ \A t \in Slots : t # s => held_spaces'[t] = held_spaces[t]
        /\ spaces' = spaces \ {held_spaces[s]} /\ UNCHANGED <<cr3, pending_cleanup>>
    BY <1>4 DEF TypeOK, FreeCleanup, fields, machine, NoBlock, held_spaces
  <2> QED
    BY <2>1, FreeOwned
<1>5. ASSUME NEW s \in Slots, CreateProcess(s) PROVE SpacesOwnedOnce'
  <2>1. held_spaces[s] = NULL
    BY <1>5 DEF Lifecycle, CreateProcess, At, CreatePcs, held_spaces
  <2>2. PICK k \in Spaces \ spaces : spaces' = spaces \cup {k} /\ held' = [held EXCEPT ![s].cr3 = k]
    BY <1>5 DEF CreateProcess
  <2>3. /\ held_spaces'[s] = k /\ \A t \in Slots : t # s => held_spaces'[t] = held_spaces[t]
        /\ UNCHANGED <<cr3, pending_cleanup>>
    BY SMTT(60), <1>5, <2>2 DEF TypeOK, CreateProcess, fields, machine, held_spaces
  <2>4. k # NULL /\ k \notin spaces /\ NULL \notin spaces
    BY <2>2, NamesAssumption DEF TypeOK
  <2>5. \A x : x \in spaces' <=> x \in spaces \/ x = k
    BY <2>2
  <2>6. OwnedOnce(cr3, held_spaces', pending_cleanup.cr3, spaces')
    BY <2>1, <2>3, <2>4, <2>5, AllocOwned
  <2> QED
    BY <2>3, <2>6
<1>6. ASSUME NEW s \in Slots, NoFreeSlot(s) PROVE SpacesOwnedOnce'
  <2>1. /\ held_spaces'[s] = NULL /\ \A t \in Slots : t # s => held_spaces'[t] = held_spaces[t]
        /\ spaces' = spaces \ {held_spaces[s]} /\ UNCHANGED <<cr3, pending_cleanup>>
    BY <1>6 DEF TypeOK, NoFreeSlot, CreateFails, fields, machine, NoBlock, held_spaces
  <2> QED
    BY <2>1, FreeOwned
<1>7. ASSUME NEW s \in Slots, AllocStack(s) PROVE SpacesOwnedOnce'
  <2>1. /\ \A t \in Slots : held'[t].cr3 = held[t].cr3
        /\ UNCHANGED <<cr3, pending_cleanup, spaces>>
    BY SMTT(60), <1>7 DEF TypeOK, AllocStack, fields, machine, memory
  <2>2. UNCHANGED held_spaces
    BY <2>1 DEF held_spaces
  <2> QED
    BY <2>1, <2>2
<1>8. ASSUME NEW s \in Slots, NoStack(s) PROVE SpacesOwnedOnce'
  <2>1. /\ held_spaces'[s] = NULL /\ \A t \in Slots : t # s => held_spaces'[t] = held_spaces[t]
        /\ spaces' = spaces \ {held_spaces[s]} /\ UNCHANGED <<cr3, pending_cleanup>>
    BY <1>8 DEF TypeOK, NoStack, CreateFails, fields, machine, NoBlock, held_spaces
  <2> QED
    BY <2>1, FreeOwned
<1>9. ASSUME NEW s \in Slots, FillSlot(s) PROVE SpacesOwnedOnce'
  <2>1. /\ \A t \in Slots : held'[t].cr3 = held[t].cr3
        /\ UNCHANGED <<cr3, pending_cleanup, spaces>>
    BY <1>9 DEF TypeOK, FillSlot, fields, machine, memory
  <2>2. UNCHANGED held_spaces
    BY <2>1 DEF held_spaces
  <2> QED
    BY <2>1, <2>2
<1>10. ASSUME NEW s \in Slots, ReadySlot(s) PROVE SpacesOwnedOnce'
  <2>1. s = SHELL
    BY <1>10 DEF OnlyShellHasChildren, ReadySlot, At, CreatePcs
  <2>2. slot[s] \in Slots \ {SHELL, IDLE, INIT} /\ state[slot[s]] = "New"
    BY <1>10, <2>1 DEF LocalSlots, OnlyShellHasChildren, ReadySlot, At
  <2>3. cr3[slot[s]] = NULL
    BY <1>10, <2>1, <2>2 DEF Lifecycle, OnlyShellHasChildren, ReadySlot, At
  <2> DEFINE i == slot[s]
  <2>4. /\ cr3'[i] = held_spaces[s] /\ \A t \in Slots : t # i => cr3'[t] = cr3[t]
        /\ held_spaces'[s] = NULL /\ \A t \in Slots : t # s => held_spaces'[t] = held_spaces[t]
        /\ UNCHANGED <<spaces, pending_cleanup>>
    BY <1>10, <2>2 DEF TypeOK, ReadySlot, machine, memory, NoBlock, held_spaces
  <2>5. i \in Slots /\ cr3[i] = NULL
    BY <2>2, <2>3
  <2> HIDE DEF i
  <2>6. OwnedOnce(cr3', held_spaces', pending_cleanup.cr3, spaces)
    BY <2>4, <2>5, GiveOwned, SMTT(60)
  <2> QED
    BY <2>4, <2>6
<1>11. ASSUME NEW s \in Slots, Exit(s) PROVE SpacesOwnedOnce'
  <2>1. pending_cleanup.cr3 = NULL
    BY <1>11 DEF CleanupWindow, OnTheCpu, Exit, At
  <2>2. /\ pending_cleanup'.cr3 = cr3[s] /\ cr3'[s] = NULL
        /\ \A t \in Slots : t # s => cr3'[t] = cr3[t]
        /\ UNCHANGED <<held_spaces, spaces>>
    BY <1>11 DEF TypeOK, Exit, memory, held_spaces
  <2> QED
    BY <2>1, <2>2, ExitOwned
<1> QED
  BY <1>1, <1>2, <1>3, <1>4, <1>5, <1>6, <1>7, <1>8, <1>9, <1>10, <1>11, Footprint, Zenon

(* After task::init idle and init own the only two stacks.                   *)
LEMMA InitOwned == Init => ResourcesOwnedOnce
<1> SUFFICES ASSUME Init PROVE ResourcesOwnedOnce
  OBVIOUS
<1>1. PICK a \in Stacks, b \in Stacks :
        /\ a # b
        /\ stack_base = [s \in Slots |-> IF s = IDLE THEN a ELSE IF s = INIT THEN b ELSE NULL]
        /\ stacks = {a, b}
  BY DEF Init
<1>2. a # NULL /\ b # NULL /\ \A s \in Slots : held[s].stack = NULL /\ held[s].cr3 = NULL
  BY NamesAssumption DEF Init, NoBlock
<1>3. StacksOwnedOnce
  <2>1. /\ stack_base[IDLE] = a /\ stack_base[INIT] = b /\ IDLE \in Slots /\ INIT \in Slots
        /\ \A s \in Slots \ {IDLE, INIT} : stack_base[s] = NULL
    BY SMTT(60), <1>1, SlotIndex DEF IDLE, INIT
  <2>2. pending_cleanup.stack = NULL
    BY DEF Init, NoCleanup
  <2> QED
    BY <1>1, <1>2, <2>1, <2>2 DEF StacksOwnedOnce, OwnedOnce, held_stacks
<1>4. SpacesOwnedOnce
  BY <1>2 DEF Init, SpacesOwnedOnce, OwnedOnce, held_spaces, NoCleanup
<1> QED
  BY <1>3, <1>4 DEF ResourcesOwnedOnce

(* With the shell as the only creator, the lifecycle invariant and unique    *)
(* ownership hold in every reachable state.                                  *)
THEOREM ShellInvariance ==
  ASSUME Creators \subseteq {SHELL}
  PROVE  Spec => []ShellInv
<1>1. Init => ResourcesOwnedOnce
  BY InitOwned
<1>2. LifecycleInv /\ ResourcesOwnedOnce /\ [Next]_vars => ResourcesOwnedOnce'
  BY StacksStep, SpacesStep DEF LifecycleInv, GeneralInv, ResourcesOwnedOnce
<1> QED
  BY <1>1, <1>2, LifecycleInvariance, PTL DEF Spec, ShellInv

(* exit_current never overwrites a cleanup that is still pending, whoever    *)
(* creates tasks.                                                            *)
THEOREM CleanupSafe == Spec => CleanupNotOverwritten
<1>1. GeneralInv /\ [Next]_vars =>
        [pending_cleanup.active => pending_cleanup' \in {pending_cleanup, NoCleanup}]_pending_cleanup
  <2> SUFFICES ASSUME GeneralInv, [Next]_vars, pending_cleanup.active
               PROVE  pending_cleanup' \in {pending_cleanup, NoCleanup}
    OBVIOUS
  <2>1. CASE UNCHANGED owned
    BY <2>1 DEF owned
  <2>2. CASE SwitchTail
    BY <2>2 DEF SwitchTail
  <2>3. ASSUME NEW s \in Slots, TakeCleanup(s) PROVE pending_cleanup' = NoCleanup
    BY <2>3 DEF TakeCleanup
  <2>4. ASSUME NEW s \in Slots, FreeCleanup(s) \/ CreateProcess(s) \/ AllocStack(s) \/ FillSlot(s)
        PROVE  pending_cleanup' = pending_cleanup
    BY <2>4 DEF FreeCleanup, CreateProcess, AllocStack, FillSlot, machine
  <2>5. ASSUME NEW s \in Slots, NoFreeSlot(s) \/ NoStack(s) \/ ReadySlot(s)
        PROVE  pending_cleanup' = pending_cleanup
    BY <2>5 DEF NoFreeSlot, NoStack, CreateFails, ReadySlot, machine
  <2>6. ASSUME NEW s \in Slots, Exit(s) PROVE FALSE
    BY <2>6 DEF GeneralInv, CleanupWindow, Exit, At
  <2> QED
    BY <2>1, <2>2, <2>3, <2>4, <2>5, <2>6, Footprint
<1> QED
  BY <1>1, GeneralInvariance, PTL DEF Spec, CleanupNotOverwritten

(* create, exit_current and reap_pending_cleanup leak no kernel stack or     *)
(* address space and free none twice, for any number of slots, stacks and    *)
(* address spaces and any interleaving.                                      *)
THEOREM ResourcesSafe ==
  ASSUME Creators \subseteq {SHELL}
  PROVE  Spec => []ResourcesOwnedOnce
<1>1. ShellInv => ResourcesOwnedOnce
  BY DEF ShellInv
<1> QED
  BY <1>1, ShellInvariance, PTL

(* The CPU never runs on a freed stack or with freed page tables, and no     *)
(* task that may be scheduled has its context on one.                        *)
THEOREM ContextsSafe ==
  ASSUME Creators \subseteq {SHELL}
  PROVE  Spec => []ContextsOnLiveMemory
<1>1. ShellInv => ContextsOnLiveMemory
  <2> SUFFICES ASSUME ShellInv PROVE ContextsOnLiveMemory
    OBVIOUS
  <2> USE DEF ShellInv, LifecycleInv, GeneralInv
  <2>1. current \in Slots
    BY DEF TypeOK
  <2>2. \A s \in Slots : cr3[s] \in spaces \cup {NULL}
    BY DEF ResourcesOwnedOnce, SpacesOwnedOnce, OwnedOnce
  <2>3. pc[current] \in ExitPcs => rsp[current] \in stacks
    <3>1. pc[current] \in ExitPcs => pending_cleanup.stack = rsp[current] /\ rsp[current] # NULL
      BY NamesAssumption DEF OnTheCpu
    <3>2. pending_cleanup.stack \in stacks \cup {NULL}
      BY DEF ResourcesOwnedOnce, StacksOwnedOnce, OwnedOnce
    <3> QED
      BY <3>1, <3>2
  <2>4. \A s \in Slots : state[s] \notin {"Dead", "Zombie"} /\ pc[s] \notin ExitPcs =>
          rsp[s] \in stacks \cup {BOOT}
    <3>1. \A s \in Slots : stack_base[s] \in stacks \cup {NULL}
      BY DEF ResourcesOwnedOnce, StacksOwnedOnce, OwnedOnce
    <3> QED
      BY <3>1, NamesAssumption DEF Lifecycle
  <2>5. \A s \in Slots : state[s] \notin {"Dead", "Zombie"} => rsp[s] \in stacks \cup {BOOT}
    BY <2>3, <2>4 DEF Lifecycle
  <2>6. rsp[current] \in stacks \cup {BOOT}
    BY <2>1, <2>3, <2>4 DEF OnTheCpu
  <2>7. pending_cleanup.cr3 \in spaces \cup {NULL}
    BY DEF ResourcesOwnedOnce, SpacesOwnedOnce, OwnedOnce
  <2>8. loaded_cr3 \in spaces \cup {KERNEL_CR3}
    BY <2>1, <2>2, <2>7 DEF OnTheCpu, target_cr3
  <2> QED
    BY <2>2, <2>5, <2>6, <2>8 DEF ContextsOnLiveMemory
<1> QED
  BY <1>1, ShellInvariance, PTL

=============================================================================
