--------------------------- MODULE TaskProperties ---------------------------
(***************************************************************************)
(* What the task table and the scheduler guarantee.                        *)
(***************************************************************************)
EXTENDS Tasks

(* Every field, register and local variable keeps its type: in particular    *)
(* the slot indices the code dereferences stay inside the task table.        *)
TypeOK ==
  /\ state \in [Slots -> States]
  /\ pid \in [Slots -> Nat] /\ generation \in [Slots -> 0 .. PID_GENERATION_MAX]
  /\ parent_pid \in [Slots -> Nat] /\ first_child \in [Slots -> Nat]
  /\ next_sibling \in [Slots -> Nat]
  /\ stack_base \in [Slots -> Stacks \cup {NULL}]
  /\ rsp \in [Slots -> Stacks \cup {NULL, BOOT}]
  /\ cr3 \in [Slots -> Spaces \cup {NULL}]
  /\ wake \in [Slots -> Nat]
  /\ current \in Slots
  /\ loaded_cr3 \in Spaces \cup {KERNEL_CR3}
  /\ rsp0 \in Stacks \cup {BOOT}
  /\ pending_cleanup \in [stack : Stacks \cup {NULL}, cr3 : Spaces \cup {NULL}, active : BOOLEAN]
  /\ tick_counter \in 0 .. TICKS_PER_SWITCH - 1
  /\ cpu \in {"task", "resched", "reap", "halt"}
  /\ stacks \in SUBSET Stacks /\ spaces \in SUBSET Spaces
  /\ pc \in [Slots -> Pcs]
  /\ cursor \in [Slots -> Nat] /\ nxt \in [Slots -> Nat]
  /\ prev \in [Slots -> Slots \cup {-1}] /\ slot \in [Slots -> Slots \cup {-1}]
  /\ held \in [Slots -> [stack : Stacks \cup {NULL}, cr3 : Spaces \cup {NULL}]]

(* Every allocated block has exactly one owner, who is responsible for       *)
(* freeing it, and no freed one has any.  The owner is a task (base), a task *)
(* that holds it in a local variable while it creates another or frees an    *)
(* exited one's memory (local), or pending_cleanup (pend).                   *)
OwnedOnce(base, local, pend, allocated) ==
  /\ pend \in allocated \cup {NULL}
  /\ \A s \in Slots : base[s] \in allocated \cup {NULL} /\ local[s] \in allocated \cup {NULL}
  /\ \A s, t \in Slots :
       /\ base[s] # NULL => (base[s] = base[t] => s = t) /\ base[s] # local[t] /\ base[s] # pend
       /\ local[s] # NULL => (local[s] = local[t] => s = t) /\ local[s] # pend
  /\ \A k \in allocated : pend = k \/ \E s \in Slots : base[s] = k \/ local[s] = k

held_stacks == [s \in Slots |-> held[s].stack]
held_spaces == [s \in Slots |-> held[s].cr3]
StacksOwnedOnce == OwnedOnce(stack_base, held_stacks, pending_cleanup.stack, stacks)
SpacesOwnedOnce == OwnedOnce(cr3, held_spaces, pending_cleanup.cr3, spaces)

(* Exit, creation and cleanup, however interleaved, leak no stack and no     *)
(* address space, free none twice and let no two tasks share one             *)
(* (exit_current, reap_pending_cleanup, init_common_slot).                   *)
ResourcesOwnedOnce == StacksOwnedOnce /\ SpacesOwnedOnce

(* The CPU never executes on a stack that has been freed, nor with a freed   *)
(* page table in CR3, and no task that can still be switched to has its      *)
(* saved context on one (the reason for pending_cleanup and for the cli of   *)
(* exit_current).                                                            *)
ContextsOnLiveMemory ==
  /\ rsp[current] \in stacks \cup {BOOT}
  /\ loaded_cr3 \in spaces \cup {KERNEL_CR3}
  /\ \A s \in Slots : state[s] \in {"New", "Ready", "Running", "Blocked", "Sleeping"} =>
       rsp[s] \in stacks \cup {BOOT} /\ cr3[s] \in spaces \cup {NULL}

(* An exited task's stack and address space wait in the single               *)
(* pending_cleanup slot until somebody frees them: no second exit_current    *)
(* overwrites them.                                                          *)
CleanupNotOverwritten ==
  [][pending_cleanup.active => pending_cleanup' \in {pending_cleanup, NoCleanup}]_pending_cleanup

(* While a task executes, CR3 is its own address space, and an interrupt or  *)
(* system call from ring 3 lands on its own kernel stack (switch_to).        *)
OwnAddressSpaceAndStack ==
  cpu = "task" /\ pc[current] \notin ExitPcs =>
    /\ loaded_cr3 = target_cr3(current)
    /\ stack_base[current] # NULL => rsp0 = stack_base[current] /\ rsp[current] = rsp0

(* check_invariants of task_stress.cpp: at most one task is Running, and it  *)
(* is current(); a task executing its own code at top level is Running.      *)
OneRunning ==
  /\ \A s \in Slots : state[s] = "Running" => s = current
  /\ cpu = "task" /\ pc[current] = "run" => state[current] = "Running"

(* exit_current always finds a task to switch to: the machine never reaches  *)
(* the cli; hlt loop at its end.                                             *)
NeverHalts == cpu # "halt"

(* wait_for_child holds a child's pid across preemptions.  From the moment   *)
(* it has seen a Zombie until it marks it Dead, that slot is still the same  *)
(* Zombie: nobody else reaps it and its slot is not reused.                  *)
ReaperHoldsZombie ==
  \A s \in Slots : pc[s] \in {"unlink", "walk", "store", "dead"} =>
    find_by_pid(cursor[s]) /\ state[pid_slot_index(cursor[s])] = "Zombie"

(* The child list of slot p as the pids a walk from first_child visits. *)
ChildList(p) ==
  LET after(c) == IF find_by_pid(c) THEN next_sibling[pid_slot_index(c)] ELSE NO_PID
      at[i \in 0 .. MAX_TASKS] == IF i = 0 THEN first_child[p] ELSE after(at[i - 1])
  IN  {at[i] : i \in 0 .. MAX_TASKS} \ {NO_PID}

\* s is a Zombie that its parent is in the middle of reaping.
BeingReaped(s) ==
  \E p \in Slots : pc[p] \in {"dead", "detach"} /\ pid_slot_index(cursor[p]) = s

(* check_invariants: a live task's parent exists and lists it as a child, at *)
(* every instant another task could observe the table.                       *)
ChildrenListed ==
  \A s \in Slots :
    (InterruptsOn /\ state[s] \notin {"Dead", "New"} /\ parent_pid[s] # NO_PID /\ ~BeingReaped(s)) =>
      /\ find_by_pid(parent_pid[s])
      /\ pid[s] \in ChildList(pid_slot_index(parent_pid[s]))

(* What a child list names is a child: it is alive or a Zombie and has the   *)
(* list's owner as its parent.                                               *)
ListedAreChildren ==
  \A p \in Slots : InterruptsOn /\ state[p] # "Dead" =>
    \A c \in ChildList(p) : find_by_pid(c) /\ parent_pid[pid_slot_index(c)] = pid[p]

(* ARCHITECTURE.md: a pid is "index plus generation, so stale PIDs are       *)
(* detected".  The pid of an earlier owner of a slot is not found, so it     *)
(* neither wakes nor names the slot's new owner; only while init_common_slot *)
(* has made the slot New and not yet stored the new pid is it still found,   *)
(* and a New task is one that no operation on a pid touches.                 *)
StalePidsDetected ==
  \A t \in Slots : \A g \in 1 .. generation[t] - 1 :
    find_by_pid(make_pid(t, g)) =>
      state[t] = "New" /\ \E s \in Slots : pc[s] = "link" /\ slot[s] = t

(* Round robin is fair: a Ready task gets the CPU. *)
ReadyRuns == \A s \in Slots : state[s] = "Ready" ~> current = s

(* What an exited task leaves in pending_cleanup goes back to the heap. *)
CleanupCompletes == \A k \in Stacks : pending_cleanup.stack = k ~> k \notin stacks

(* README: "wait: Block until any child of the shell exits, reap it".  A     *)
(* wait by a task that has an exited child returns.                          *)
WaitReturns ==
  \A s \in Slots :
    (pc[s] \in WaitPcs /\ \E c \in ChildList(s) : state[pid_slot_index(c)] = "Zombie")
      ~> pc[s] \notin WaitPcs

-----------------------------------------------------------------------------
(* The inductive invariants behind the proofs. *)

\* One task at a time is creating one, and the slots that tasks hold in local
\* variables are slots of the table.
LocalSlots ==
  /\ \A s, t \in Slots : pc[s] \in CreatePcs /\ pc[t] \in CreatePcs => s = t
  /\ \A s \in Slots : pc[s] \in {"alloc", "fill", "link", "ready"} =>
       slot[s] \in Slots \ {SHELL, IDLE, INIT}
  /\ \A s \in Slots : pc[s] \in {"alloc", "fill"} => generation[slot[s]] # PID_GENERATION_MAX
  /\ \A s \in Slots : pc[s] \in {"unlink", "walk"} => pid_slot_index(cursor[s]) \in Slots
  /\ \A s \in Slots : pc[s] = "walk" => prev[s] \in Slots

\* The tasks of task::init never exit ...
PermanentTasks ==
  /\ state[IDLE] \in {"Ready", "Running"}
  /\ pc[IDLE] \in {"start", "tramp", "take", "free", "run"}
  /\ \A s \in {SHELL, INIT} : state[s] \notin {"Dead", "Zombie", "New"} /\ pc[s] \notin ExitPcs

\* ... and no child list names them.
Spares(p) == pid_slot_index(p) \notin {SHELL, IDLE, INIT}
ListsSparePermanent ==
  \A s \in Slots :
    Spares(first_child[s]) /\ Spares(next_sibling[s]) /\ Spares(cursor[s]) /\ Spares(nxt[s])

\* Nobody reaches the point where it could exit while a cleanup is pending.
CleanupWindow ==
  pending_cleanup.active =>
    cpu \in {"reap", "halt"} \/ pc[current] \in {"adopt", "die", "tramp", "take"}

RunningIsCurrent == \A s \in Slots : state[s] = "Running" => s = current

GeneralInv ==
  /\ TypeOK /\ LocalSlots /\ PermanentTasks /\ ListsSparePermanent
  /\ CleanupWindow /\ RunningIsCurrent /\ NeverHalts

\* With the shell as the only creator: only it has children, so only it reaps.
OnlyShellHasChildren ==
  /\ \A s \in Slots \ {SHELL} :
       /\ pc[s] \notin CreatePcs \cup (WaitPcs \ {"wait"})
       /\ first_child[s] = NO_PID /\ cursor[s] = NO_PID
  /\ pc[SHELL] \in {"unlink", "walk", "store", "dead"} =>
       /\ pid_slot_index(cursor[SHELL]) \in Slots
       /\ state[pid_slot_index(cursor[SHELL])] = "Zombie"
  /\ pc[SHELL] \in {"alloc", "fill"} => state[slot[SHELL]] = "Dead"
  /\ pc[SHELL] \in {"link", "ready"} => state[slot[SHELL]] = "New" /\ cr3[slot[SHELL]] = NULL

\* What a task owns follows from its state and from where it is in its code.
Lifecycle ==
  \A s \in Slots :
    /\ state[s] \in {"Dead", "Zombie"} => stack_base[s] = NULL /\ cr3[s] = NULL
    /\ state[s] \in {"Dead", "Zombie"} => pc[s] \in ExitPcs \cup {"start"}
    /\ state[s] = "Zombie" => pc[s] = "die"
    /\ state[s] = "New" => pc[s] = "start"
    /\ pc[s] \in ExitPcs => stack_base[s] = NULL /\ cr3[s] = NULL
    /\ pc[s] \in ExitPcs => s = current \/ state[s] \in {"Dead", "Zombie"}
    /\ state[s] \notin {"Dead", "Zombie"} /\ pc[s] \notin ExitPcs =>
         IF s = SHELL THEN rsp[s] = BOOT /\ stack_base[s] = NULL
         ELSE rsp[s] \in Stacks /\ stack_base[s] = rsp[s]
    /\ held[s].stack # NULL => pc[s] \in {"fill", "free"}
    /\ pc[s] = "fill" => held[s].stack # NULL
    /\ held[s].cr3 # NULL => pc[s] \in CreatePcs \cup {"free"}

\* The CPU: what it runs on while a task executes, exits and is switched away from.
OnTheCpu ==
  /\ pending_cleanup.active <=> (pending_cleanup.stack # NULL \/ pending_cleanup.cr3 # NULL)
  /\ pc[current] # "start"
  /\ cpu = "reap" => pc[current] \notin ExitPcs
  /\ pc[current] \notin ExitPcs =>
       /\ state[current] \notin {"Dead", "Zombie", "New"}
       /\ loaded_cr3 = target_cr3(current)
       /\ stack_base[current] # NULL => rsp0 = stack_base[current]
  /\ pc[current] \in ExitPcs =>
       /\ rsp[current] = pending_cleanup.stack /\ rsp[current] \in Stacks
       /\ loaded_cr3 = IF pending_cleanup.cr3 # NULL THEN pending_cleanup.cr3 ELSE KERNEL_CR3
       /\ cpu = "task" => state[current] \notin {"Dead", "Zombie", "New"}
       /\ cpu = "resched" => state[current] \in {"Dead", "Zombie"}

LifecycleInv == GeneralInv /\ OnlyShellHasChildren /\ Lifecycle /\ OnTheCpu
ShellInv == LifecycleInv /\ ResourcesOwnedOnce

\* With the shell as the only creator: s is its child, from the moment add_child
\* has linked it until wait_for_child marks it Dead ...
Child(s) ==
  /\ s \notin {SHELL, IDLE, INIT}
  /\ state[s] \notin {"Dead", "New"} \/ (pc[SHELL] = "ready" /\ slot[SHELL] = s)

\* ... and on its list until remove_child has taken it off.
Listed(s) == Child(s) /\ ~(pc[SHELL] = "dead" /\ pid_slot_index(cursor[SHELL]) = s)

\* The n slots of L, in this order, are the shell's list.
LinkTo(n, L, i) == IF i <= n THEN pid[L[i]] ELSE NO_PID
Chain(n, L) ==
  /\ \A i, j \in 1 .. n : L[i] = L[j] => i = j
  /\ \A s \in Slots : Listed(s) <=> \E i \in 1 .. n : L[i] = s
  /\ first_child[SHELL] = LinkTo(n, L, 1)
  /\ \A i \in 1 .. n : next_sibling[L[i]] = LinkTo(n, L, i + 1)

\* Where remove_child is on that list: before the child it looks for, and then
\* right before it, with the link that will replace it in nxt.
OnChain(n, L) ==
  /\ pc[SHELL] = "walk" =>
       \E k, j \in 1 .. n : k < j /\ prev[SHELL] = L[k] /\ cursor[SHELL] = pid[L[j]]
  /\ pc[SHELL] = "store" =>
       \E j \in 1 .. n : /\ cursor[SHELL] = pid[L[j]] /\ nxt[SHELL] = LinkTo(n, L, j + 1)
                         /\ prev[SHELL] = IF j = 1 THEN -1 ELSE L[j - 1]

TreeFacts ==
  /\ \A s \in Slots : state[s] # "Dead" /\ ~(pc[SHELL] = "link" /\ slot[SHELL] = s) =>
       pid[s] # NO_PID /\ pid_slot_index(pid[s]) = s
  /\ \A s \in Slots : Child(s) => parent_pid[s] = pid[SHELL]
  /\ \A s \in {SHELL, IDLE, INIT} : parent_pid[s] = NO_PID
  /\ pc[SHELL] \in {"unlink", "walk", "store", "dead"} =>
       pid[pid_slot_index(cursor[SHELL])] = cursor[SHELL]
  /\ pc[SHELL] = "detach" =>
       pid_slot_index(cursor[SHELL]) \in Slots /\ state[pid_slot_index(cursor[SHELL])] = "Dead"
  /\ pc[SHELL] \notin {"walk", "store"} => prev[SHELL] = -1

TreeInv ==
  /\ TreeFacts
  /\ \E n \in 0 .. MAX_TASKS : \E L \in [1 .. n -> Slots] : Chain(n, L) /\ OnChain(n, L)

\* A slot's pid is that of its generation, except while the shell is between the
\* two.
PidsCurrent ==
  \A s \in Slots :
    \/ generation[s] = 0
    \/ pid[s] = make_pid(s, generation[s])
    \/ pc[SHELL] = "link" /\ slot[SHELL] = s

\* Only a task that has just given up the CPU, or is about to, is not Running
\* while it is current.
RunsRunning ==
  /\ current = IDLE => state[IDLE] = "Running"
  /\ cpu = "reap" => state[current] = "Running"
  /\ cpu = "task" /\ pc[current] \notin {"yield", "rescan"} => state[current] = "Running"

=============================================================================
