# A TLA+ model of VenomOS

VenomOS is an educational operating system for one x86-64 CPU. This directory
models its kernel in TLA+, checks it with TLC on small instances, and proves the
most important results with TLAPS for every instance.

The kernel runs on one CPU and has no locks. Its only protection is turning
interrupts off, and it does so in few places. Almost every question worth asking
is therefore of the form "what if the timer interrupt falls between these two
statements?", which is what a unit test cannot choose and a model checker can.

## 1. Inventory

| Component | State | Operations | Hard part | What makes it correct |
|---|---|---|---|---|
| Task table (`task.cpp`) | 128 slots, pid with generation, child lists threaded through `first_child`/`next_sibling`, one `pending_cleanup` | `create`, `create_process`, `exit_current`, `wait_for_child`, `sleep_current`, `block_current`, `unblock` | lists and slots changed with interrupts on; a task cannot free its own stack | every stack and address space has one owner; lists and parents agree; pids of dead tasks name nobody |
| Scheduler (`scheduler.cpp`, `task_switch.asm`) | tick counter, `current`, CR3, RSP0 | `tick`, `reschedule`, `yield`, `switch_to` | a new task resumes elsewhere than an old one | round robin is fair; the CPU has the page tables and stack of the task it runs |
| Interrupts, system calls (`interrupts.cpp`) | ticks, the trap frame | timer, keyboard, ring 3 faults, nine system calls | calls run with interrupts off and call everything else | a call works on its own task's memory only |
| Ring 3 entry (`ring3.cpp`) | the TSS | `set_kernel_stack`, `enter`, two demos | RSP0 must follow every switch | interrupts from ring 3 land on the right stack |
| Frame allocator (`pmm.cpp`) | bitmap, free count | `alloc_frame`, `free_frame` | no lock | no frame has two owners; the count is right |
| Heap (`heap.cpp`) | address-ordered block list | `kmalloc`, `kfree`, `grow_heap` | split, merge and growth by single frames | live blocks are disjoint and never merged away |
| Paging (`paging.cpp`) | four levels of tables | map, unmap, protect, create and destroy an address space | half-done mappings, shared kernel tables | destroying gives back exactly what was private |
| Process loader (`process.cpp`) | the address space being built | `run` | many steps, each of which can fail | a failure leaks nothing; no page is writable and executable |
| ELF validation (`elf.cpp`) | none | `validate` | 64-bit wrap-around | what is accepted can be loaded without going outside file and user space |
| User memory (`usercopy.cpp`) | none | range check, copies | wrap-around, last page | every byte copied is on a user page |
| VenomFS (`fs.cpp`) | table and bitmap in memory and on disk | `write`, `read`, `remove`, `init`, `format` | several sectors per update, each of which can fail; power loss | no block in two files; a file is one write's content; what was saved survives |
| FAT32 reader (`fat32.cpp`) | volume, one cached FAT sector | `mount`, `list`, `read` | arbitrary chains | every walk ends; what it reads is the chain's content |
| ATA (`ata.cpp`) | the drive's registers | `read_sectors`, `write_sectors` | timeouts; a failed write has written a prefix | reports failure |
| Keyboard (`keyboard.cpp`) | ring buffer, shift, caps, prefix | `poll`, `handle_irq`, `read_char` | producer in interrupt and in loop | characters come out once, in order |
| Shell (`shell.cpp`), main loop (`kernel.cpp`) | the line being edited | commands | runs as task 0, with interrupts on | its waits end |
| Snake (`snake.cpp`) | body, food | `tick`, `handle_key` | growth limit, reversal | the snake stays on the board and off itself |

Interaction: the timer calls the scheduler, which switches tasks; a switch frees
what the previous task left in `pending_cleanup` through the heap and paging; both
take frames from the frame allocator; the loader reads VenomFS, validates the ELF
file, builds an address space and creates a task; a process enters the kernel
again through faults and system calls, which reach the keyboard, VenomFS and the
task table.

`PROJECT.json` lists every component with its status, and every hazard found in
the code with its line and the properties that cover it.

## 2. Modules and runs

| Part | Modules | Abstract specification | Proofs |
|---|---|---|---|
| tasks, scheduler, exit and wait | `Tasks`, `TaskProperties` | - | `TaskProofs`, `TaskLifecycleProofs`, `TaskChildProofs` |
| heap, frame allocator | `Heap` | `Allocator` | `HeapProofs`, `HeapShapeProofs` |
| VenomFS on an ATA disk | `VenomFS`, `VenomFSBoot` | `FileStore` | - |
| page tables, loader, ELF, user pointers | `Paging`, `Loader`, with the pure parts `Elf`, `InitialStack`, `Usercopy` | `AddressSpaces` | - |
| keyboard, main loop, shell, snake, FAT32 | `Console`, composed of `Keyboard`, `Snake`, `Fat32` | - | `KeyboardProofs`, `ConsoleProofs`, `ShellProofs` |

Each `MC...` module gives the constants of one part their values for TLC.

| Run | Part | Distinct states | Question |
|---|---|---|---|
| `tasks_ops` | tasks | 153 k | does any preemption break ownership of memory or the state of the CPU? |
| `tasks_shell` | tasks | 660 k | do child lists stay right while three children exit in any order? |
| `tasks_orphans` | tasks | 101 k | does init inherit and reap a family whose parent exits at any moment? |
| `tasks_races` | tasks | 147 k | what survives when two tasks create, two reap, and a slot is taken again while its last owner is being reaped? |
| `tasks_live` | tasks | 11 k | does every Ready task run and all memory of exited tasks come back? |
| `lost_wakeup` | tasks | violation | does `wait` return? |
| `heap_calls` | heap | 68 k | is the heap an allocator, until memory runs out? |
| `heap_growth` | heap | violation | also when frames come back right below the heap's? |
| `fs_ops` | VenomFS | 219 k | what survives a failed transfer and a power loss, and what do readers see? |
| `fs_persist` | VenomFS | violation | do files survive a boot without any fault? |
| `vm_load` | loader | 48 k | does every process get the memory its file describes, and all frames come back? |
| `console` | console | 831 k | do keys arrive once and in order; do the game and the FAT32 commands stay right? |

## 3. The task model (`Tasks.tla`)

The fields of `struct Task` are one function each (`state`, `pid`, `parent_pid`,
...). The kernel's globals and the registers that matter are variables of the same
name: `current`, `loaded_cr3`, `rsp0` (TSS.RSP0), `pending_cleanup`,
`tick_counter`. `stacks` and `spaces` are the blocks the heap and the frame
allocator consider allocated. `pc[s]` is where task `s` is in its code, and
`cursor`, `nxt`, `prev`, `slot`, `held` are its local variables, which is how the
model says what a preempted task still holds.

`cpu` says whose code runs: a task's (`"task"`), `reschedule`'s (`"resched"`), the
tail of `switch_to` (`"reap"`), or nobody's (`"halt"`). The timer interrupt (`Tick`)
is enabled wherever the interrupt flag is on (`InterruptsOn`): in tasks, but not in
the scheduler and not in `exit_current`.

| Code | Actions |
|---|---|
| timer, `scheduler::tick` | `Tick` |
| `reschedule`, `switch_to` | `Reschedule` (with `SwitchTo`), `NothingReady`, `SwitchTail` |
| `task_trampoline`, `reap_pending_cleanup` | `Trampoline`, `TakeCleanup`, `FreeCleanup` |
| `create`, `create_process`, `process::run`'s end | `CreateThread`, `CreateProcess`, `FindFreeSlot`, `NoFreeSlot`, `AllocStack`, `NoStack`, `FillSlot`, `LinkSlot`, `ReadySlot` |
| `wait_for_child`, `init_entry` | `CallWait`, `WaitEnter`, `LoadHead`, `ScanEnds`, `ScanFinds`, `ScanNext`, `MarkDead`, `Detach`, `BlockInWait` |
| `remove_child` | `UnlinkHead`, `UnlinkWalk`, `WalkFinds`, `WalkNext`, `StoreLink` |
| `sleep_current`, `SYS_SLEEP`, `block_current`, `unblock`, `yield` | `Sleep`, `FallAsleep`, `SyscallSleep`, `Block`, `Unblock`, `Yield`, `EnterReschedule` |
| `exit_current` | `Exit`, `Adopt`, `AdoptEnds`, `BecomeZombie`, `BecomeDead` |

Modelling decisions a reader should know:

- A step that is atomic here is one the timer cannot split with a visible effect.
  `FillSlot` and `LinkSlot` are several stores each, to a slot that only the
  creator looks at, except for the creator's own `first_child`, which is stored
  once. `FreeCleanup` is `kfree` and `destroy_address_space` in one step.
- `wake` is the number of ticks that are left, not the absolute `wake_tick`.
- Exit codes, names and entry points are left out. Which task runs what is not
  fixed: any task may begin any operation its kind may call (`Begin`), as far as
  the constant `Ops` allows. `init` only waits and sleeps, `idle` does nothing,
  and neither they nor the shell exit.
- `Creators` are the slots that may create, `Waiters` those that may call
  `wait_for_child`; `init` always does. An `unblock` may be given the pid of any task
  that was ever created (`KnownPids`), not only of those that are still there.
- One task at a time is inside `create` (`MayCreate`). That is true of the shell, of the
  boot self-test, in which a child of the shell creates a grandchild while the shell polls
  for its pid (`task.cpp:454`), and of the stress suite, and it is an assumption:
  `find_free_slot` and the store of `New` are not atomic, and two simultaneous creators
  would get the same slot.
- `BOOT` stands for any stack that is not a task's. The shell runs on the boot stack;
  `RSP0` holds no task's stack until the first switch to a task that has one.
- Pids use unbounded naturals; a slot is retired at `PID_GENERATION_MAX`.

### Properties (`TaskProperties.tla`)

- `TypeOK`: types; above all, slot indices kept across preemptions stay in the table.
- `ResourcesOwnedOnce`: every allocated stack and address space has exactly one
  owner (a task, a creator's or reaper's local variable, or `pending_cleanup`), and
  a freed one has none. No leak, no double free, no sharing.
- `ContextsOnLiveMemory`: the CPU never runs on a freed stack or with freed page
  tables, and no task that can be switched to is saved on one.
- `CleanupNotOverwritten`: no exit overwrites a cleanup that is still pending.
- `OwnAddressSpaceAndStack`: a task executes with its own CR3 and RSP0.
- `OneRunning`, `ChildrenListed`, `ListedAreChildren`: the structural invariants that
  `check_invariants` of `task_stress.cpp` tests, at every instant.
- `ReaperHoldsZombie`: the slot `wait_for_child` is about to free is still the Zombie
  it saw: no second reaper takes it and its slot is not reused.
- `StalePidsDetected`: a pid of an earlier owner of a slot is found by nobody, except
  while `init_common_slot` has made the slot New and not yet stored its new pid. This is
  what `docs/ARCHITECTURE.md` promises of the generation in a pid.
- `NeverHalts`: `exit_current` always finds something to switch to.
- `ReadyRuns`, `CleanupCompletes`, `WaitReturns`: liveness.

### Runs

All use `MCTasks`. Stacks and address spaces are interchangeable model values and
the safety runs use that symmetry; slots are not, because the code scans them in
order.

| Run | Bounds | Shows |
|---|---|---|
| `tasks_ops` | 4 slots, 2 generations, 2 ticks per quantum, all operations | memory, CPU state and the state machine are right with a slot that is reused once, with threads and processes, and when slots, stacks and address spaces run out; the inductive invariant `ShellInv` of the proofs holds |
| `tasks_shell` | 6 slots, 1 generation, the shell creates and waits | three children that exit in any order: unlinking from the head, the middle and the end of a list |
| `tasks_orphans` | 6 slots, 1 generation, the shell and slot 3 create | a family whose parent exits at any moment; `init` adopts and reaps it |
| `tasks_races` | 5 slots, 2 generations, the shell and slot 3 create, slot 3 and `init` reap, threads and processes | within these bounds the reaper's hold on its Zombie, the detection of stale pids, ownership of memory, live contexts and the single `pending_cleanup` survive the first race below; the only run in which a task exits without a parent (`BecomeDead`) |
| `tasks_live` | 4 slots, fairness | round robin starves nobody, exited tasks' memory comes back |
| `lost_wakeup` (violation) | 4 slots, fairness | see below |

Four slots are the three permanent tasks and one that comes and goes, which is
enough for everything one task can do to the table, reuse included. Six add the three
children a list needs before its walk has a middle. Larger instances of `tasks_races`
(every task a waiter, 2.0 M states; six slots, 1.6 M states) pass too and take longer
than the five minutes a run should.

**Fairness** (`FairSpec`): strong fairness of the tick, because the interrupt
controller keeps a timer interrupt pending until interrupts are on again; weak
fairness of the scheduler's own steps, which run with interrupts off; strong fairness
of each task's started operations, because a task that is scheduled again and again
executes instructions; and of `init`'s loop. No task is obliged to begin anything.

### What disagrees with the documentation

**Lost wake-up** (`lost_wakeup`, `task.cpp:374`). `wait_for_child` looks at its
children and then blocks, with interrupts on. A child that exits in between finds
its parent not Blocked, so `unblock` does nothing, and the parent then sleeps on a
Zombie. If that was its last child the shell's `wait` never returns.

### Two races on the child lists

Both need tasks that someone other than the shell created, so that `init` has children
to reap. That happens in the stress suite and once in the boot self-test, which begins to
create again as soon as the pid of the grandchild that `init` reaps is not found any more
(`task.cpp:572`): the first race is possible there, the second is not.
They are why the bounds of `tasks_orphans` are one generation and one family, and why
most theorems about tasks assume one creator. The first happens in `tasks_races`, which
shows that with two generations per slot memory stays safe all the same. Whether it does
in longer histories, where tasks that no longer belong to a list are still on it, is
neither proved nor refuted here. The second is outside all runs.

- `task.cpp:368`: the slot of a reaped child is free from the store of `Dead`, but
  `parent_pid` is cleared one statement later. If another task creates in between, the
  new task loses its parent: it exits straight to Dead and stays on its parent's list.
- `task.cpp:92`: `remove_child` in `init` loads a link and stores it later; a task
  that exits in between pushes its children on the same list, and the store drops
  them.

## 4. Heap and frame allocator (`Heap.tla`)

`free_list_head` and the `next` pointers form one list of all blocks in address
order, so `blocks` is a function from header addresses to `[size, free]`. `used` and
`free_count` are the bitmap and counter of `pmm.cpp`; `grown` and `others` record who
asked for a frame. `want` and `attempt` are the locals of the `kmalloc` in progress.

| Code | Actions and operators |
|---|---|
| `pmm::init`, `mark_range_*` | `PmmInit`, `RangeFrames` |
| `alloc_frame`, `free_frame` | `alloc_frame`, `free_frame`, called by `Grow`, `TakeFrame`, `ReturnFrame` |
| `kmalloc` | `Kmalloc`, `Take` (with `split`), `Grow` (with `insert_free_block`, `range`), `GiveUp` |
| `kfree` | `Kfree`: the tests are `Accepted`, the merges `release` |

`kmalloc` and `kfree` turn interrupts off, so an attempt is one step. `Kfree` is
called with every address, good or bad. Between calls the rest of the kernel takes
frames and returns them.

- `Implements`: the heap refines `Allocator`, whose state is the set of blocks in
  callers' hands. A block is granted only if it is long enough and overlaps nothing,
  and disappears only when its owner frees it.
- `BlocksTileFrames`: blocks and headers cover the heap's frames exactly.
- `Coalesced`: no two free blocks lie side by side.
- `LiveAccepted`: `kfree` never rejects a block somebody holds.
- `FramesOwnedOnce`: no frame has two owners, and the count is right.

Bounds: 5 frames of 8 bytes, headers of 2, alignment 2, requests of 0, 1, 4, 5, 9 and
23 bytes. These give blocks that are split and not split, that fill a frame, that
span frames after growth, and requests that no amount of growth satisfies. Others
take frames between two growths, so the heap is not one range.

**Growth over an allocated block** (`heap_growth`, `heap.cpp:84`). `insert_free_block`
absorbs the block behind a new one without a look at its free flag. The frame below an
allocated block must come back to `pmm.cpp` (a process exits) and be the lowest free
frame when the heap grows. `heap_calls` excludes exactly that with
`RETURN_ANY = FALSE`, and the theorem `HeapImplements` shows that nothing else is
needed.

## 5. VenomFS (`VenomFS.tla`, `VenomFSBoot.tla`)

`file_table` and `bitmap` are the tables in memory; `d_magic`, `d_table`, `d_data` are
the superblock, the table and the data sectors on disk. The bitmap on disk is left
out, because no code reads it. Sizes are counted in sectors, and a data sector is the
pair of the content it belongs to and its place in it.

| Code | Actions |
|---|---|
| `init`, `format` | `init_mount`, `init_unreadable`, `format_superblock`, `format_table`, `mount_bitmap` |
| `write` | `write` (slot and extents), `write_data` (per sector), `publish`, `save_table`, `complete` or `undo`, `save_table_unchecked`, `save_bitmap_unchecked` |
| `remove` | `remove`, `save_table`, `complete` or `undo` |
| `read` | the operator `read`, evaluated between any two steps |
| `self_test`, last part | `Fragment`, `TestWrite`, `TestRemove`, `Restore` (`VenomFSBoot`) |

An ATA call is one step. It succeeds, or fails after any number of its sectors; an
entry of the table has two halves which may lie in different sectors. `PowerCycle`
may happen at any step and keeps only the disk.

- `PromisesKept`: a write or remove that returned true stays done, on disk and in
  memory, until the next operation on that name. `promise` is a history variable.
- `BlocksAccounted`: no block is in two files, and the bitmap is exactly the blocks of
  the files and of the write under way.
- `FilesAppearWhole`: readers between the steps see a refinement of `FileStore`. A name
  has no file or one whole file, and never changes from one file to another at once.

Bounds: 3 names for 2 slots, 3 blocks, contents of 0, 1 and 2 sectors, 2 extents,
3 half entries per sector, so that an entry lies across two sectors. One ATA call
fails in each behaviour, on top of any number of power losses. Names are symmetric.

Two limits of what is claimed. A power loss during an overwrite may leave the old
entry on disk pointing at new data; the name being written is promised nothing until
the write returns. After a mount that failed, the shell still accepts commands that
save the incomplete table; the properties speak of volumes to which no such command
was given (`trusted`).

**Self-test over a user's file** (`fs_persist`, `fs.cpp:494`). Without any fault: the
self-test of the next boot marks all blocks used except 10 and 20, whoever owns these,
and writes its test file there.

## 6. Page tables and the loader (`Paging.tla`, `Loader.tla`)

The machine's memory is one record: free frames, their count, the tables (each a
function from indices to entries with a target and a set of flags) and the bytes of
data frames. A frame that is freed keeps junk, so code that forgets to clear a table
is seen. `Paging` has the functions of `paging.cpp` on that record, `Elf`,
`InitialStack` and `Usercopy` the pure parts, and `Loader` the process.

| Code | Actions and operators |
|---|---|
| `pmm::init`, kernel image protection | `Init` (`pmm_init`, `protect_kernel_image`) |
| boot self-tests on pages | `self_test` (`map_page`, `protect_page`, `unmap_page`) |
| `process::run` | `run`, `load_segments` (per page), `build_stack`, `map_stack` (per page), `create_process`, `abandon` |
| `reap_pending_cleanup` of a process | `reap` (`destroy_address_space`) |
| `elf::validate` | `validate`, `segment_ok` |
| `usercopy` | `page_is_user_accessible`, `validate_user_range` |

Taking a frame, filling it and mapping it is one step; between pages any process may
be reaped. `translation` is the processor's page walk and external to the code.

- `FramesAccounted`: a frame that is not free is the kernel's, or hangs at exactly one
  place of one address space.
- `Implements`: `Loader` refines `AddressSpaces`. A process has, from the moment it
  exists until it is reaped, the pages, flags and bytes its file describes, W^X
  included, and the kernel's mapping no longer changes once the shell runs.
- `UserAccess`: the software walk accepts exactly the pages of the process's image.
- `ElfAccepted`, `RangeChecked`, `StackLaidOut`: `validate`, `validate_user_range` and
  `build_initial_stack` agree with definitions in unbounded integers, on sets of inputs
  around every limit (`MCLoader`).

Bounds: tables have 3 entries instead of 512, pages 2 bytes, machine words 7 bits.
The user's half is pages 9 to 29, which leaves one PDPT slot shared with the kernel
and several private ones; the stack crosses a table boundary. Twelve memory maps with
0 to 23 usable frames make memory run out at every step. Two runnable files (one that
starts in the middle of a page, one with data, zeroed memory and a non-load header)
and one that must be refused. The addresses of `InitialStack` are not scaled except for
the base of the stack.

The files stay below PML4 slot 1, as the repository's own programs do. The validator
accepts segments in slots 0 to 255, but `destroy_address_space` (`paging.cpp:197`) walks
slot 0 only: with a file in a higher slot `FramesAccounted` does not hold, although
`docs/ARCHITECTURE.md:64` says that it "frees every private frame".

## 7. From a key to the shell (`Console.tla`)

`Console` composes the keyboard controller (`wire`, `data`, `full`, `irq1`), the driver
(`Keyboard`), the main loop of `kernel.cpp` (`pc` and its locals), a process that calls
`read`, and what the shell starts: the game (`Snake`) and the `fat` commands (`Fat32`).

| Code | Actions |
|---|---|
| person, controller (external) | `Stroke`, `Present` |
| `keyboard_handler`, `handle_irq` | `Irq` |
| `SYS_READ` | `SysRead` |
| main loop: `poll` | `Wake`, `PollStatus`, `PollData`, `PollScan`, `PollStore`, `PollAdvance` |
| main loop: `shell::tick`, `available`, `read_char` | `ShellTick`, `LoadHead`, `Available`, `CheckChar`, `LoadChar`, `LoadTail`, `StoreTail` |
| `shell::handle_char` | `HandleKey`, `HandleEnter` (with `execute`), `HandleChar` |
| `fat32::list`, `read` | `FatCommand`: `Resolve`, `WalkSector`, `ReadSector`, `NextCached`, `NextLoaded`, `NextRefused`, ... |

The main loop runs with interrupts on and is cut into the steps that an interrupt or a
system call can fall between; those two run with interrupts off and are one step each.
A `fat` command is one step per sector, and the disk may refuse any of them.

- `KeysArriveInOrder`: every character typed is decoded right and goes to the shell or
  a process once and in order, or is dropped by a full ring, as long as no interrupt
  falls into the main loop's poll between status byte and end of `enqueue`, and no
  process reads inside the shell's `read_char`, from its test of the ring to its store
  of `queue_tail`. In these two windows two writers, or two readers, share an index: a
  read between the test and the load of the character, for one, may empty the ring and
  let the shell take an old character and move the tail past the head. `overlap` records
  that a window was entered and the property then claims nothing. Interrupts and reads
  anywhere else are shown harmless, among them a read between the main loop's own test
  of the ring and `read_char`, which then returns NUL. What a process has taken counts as
  delivered, also if copying it to the process fails.
- `KeysTaken`: outside these windows the main loop always comes back to `hlt` with every
  character taken. A `fat` command that walked for ever would violate it: a cyclic
  root that is searched for a name it does not hold is among the cases.
- `SnakeSound`: the snake stays on the board, off itself and off the food, and no keys
  between two moves turn it into its own neck.
- `FatAnswersRight`: `fat cat` and `fat ls` answer what the FAT says or fail, whatever
  the disk refused in this command or an earlier one; on an intact volume they fail
  only for a path that is not there. `mount` accepts only a sound geometry.
- `TypeOK`: indices stay in the ring, the line leaves room for its NUL, `fat cat` stays in
  its buffer, and no walk enters more clusters than the volume has.

**Fairness** (`FairSpec`): weak fairness of the main loop's steps (`Main`), because the
timer wakes it from `hlt` and the scheduler comes back to task 0, which then executes its
next instruction, a step of a `fat` command included; the controller presents a byte it
has; a latched interrupt is taken. Nobody has to type or to read, and nothing is assumed
about where the main loop gets to: that it leaves its loops is what `KeysTaken` checks.

`"Shift"` is either Shift key, to the decoder and to the person: the decoder knows one
flag, and with both keys held the release of one clears it (`keyboard.cpp:101`). What a
person with two fingers on Shift expects is not stated.

A FAT entry is addressed with `c * 4` in 32 bits (`fat32.cpp:51`). `fat_entry` wraps as
that product does, for the constant `OFFSETS` (2^30 in the code). The volumes of the
instance lie below it, as every FAT32 volume, of fewer than 2^28 clusters, does; `mount`
does not refuse a larger one, and what the commands answer on it is not checked.

Bounds: a ring of 3 (2 characters), a line of 3, a board of 6 by 3 with at most 5
segments, sectors of 2 bytes with 3 FAT links. Three sessions: one who types three keys
fast while a process reads 1 or 3 characters, so that the ring fills and every overlap
occurs; one who plays; one who gives two `fat` commands on an intact volume, a volume
with a cyclic root and a file that ends early, and one with a self-link and a chain into
a free cluster. In the last two the person waits for the machine (`patient`), since the
first session covers the interleavings. Commands are one letter, and food falls on any
free cell instead of a pseudo-random one.

## 8. Proofs

Each theorem is about all values of the constants that satisfy the named assumptions
of the module they are declared in; TLC evaluates the same assumptions on its
instances.

### Tasks

`TaskProofs`, `TaskLifecycleProofs` and `TaskChildProofs` prove, for every size of the
table, every set of stacks and address spaces, every `Ops` and every interleaving:

| Theorem | Statement | Assumes |
|---|---|---|
| `TypeCorrect` | `Spec => []TypeOK` | the constants' assumptions |
| `NoHalt` | `Spec => []NeverHalts` | the same |
| `CleanupSafe` | `Spec => CleanupNotOverwritten` | the same |
| `OwnSpaceAndStack` | `Spec => []OwnAddressSpaceAndStack` | only the shell creates |
| `ResourcesSafe` | `Spec => []ResourcesOwnedOnce` | only the shell creates |
| `ContextsSafe` | `Spec => []ContextsOnLiveMemory` | only the shell creates |
| `OneTaskRunning` | `Spec => []OneRunning` | only the shell creates |
| `ReaperKeepsZombie` | `Spec => []ReaperHoldsZombie` | only the shell creates |
| `ChildrenAreListed` | `Spec => []ChildrenListed` | only the shell creates |
| `ListsNameChildren` | `Spec => []ListedAreChildren` | only the shell creates |
| `StalePids` | `Spec => []StalePidsDetected` | only the shell creates |

"Only the shell creates" (`Creators \subseteq {SHELL}`) is how the system runs after its
boot self-test, which once lets a child of the shell create (`task.cpp:454`), and outside
its stress suite. Any task may wait. The proofs need it: with other creators the races of
section 3 break the child lists, and `LifecycleInv` rests on them (a reaper's Zombie stays
a Zombie because no second list names it). Whether the memory theorems hold without it is open.

The argument has layers, each an inductive invariant on top of the ones before.

1. `GeneralInv`, for any creators. Types are not inductive alone: that `prev` and
   `slot` index the table needs to know where their owner is (`LocalSlots`), and that
   idle is always runnable needs to know that no list ever names a permanent task,
   since whoever is named by a list can be marked Dead (`ListsSparePermanent`,
   `PermanentTasks`). `CleanupWindow` says where the CPU can be while a cleanup is
   pending; nothing there can begin another exit.
2. `LifecycleInv`, with one creator. What a task owns follows from its state and its
   program counter (`Lifecycle`), and what the CPU runs on follows from the current
   task, or during an exit from `pending_cleanup` (`OnTheCpu`). `OnlyShellHasChildren`
   is what makes the Zombie a reaper looks at stay a Zombie. `PidsCurrent`, that a used
   slot holds the pid of its present generation unless it is just being filled, gives
   `StalePids`: two generations of a slot never make the same pid.
3. `ShellInv` adds `ResourcesOwnedOnce` itself. Ownership is stated once for stacks and
   address spaces (`OwnedOnce`), and moves of a resource from one owner to another are
   lemmas about it.
4. `RunsRunning` says that whoever executes is Running. It rests on idle being there
   to take over from a task that has just given up the CPU.
5. `TreeInv` says that the shell's list is a chain: a sequence `L` of distinct slots
   exists that holds exactly the children not yet taken off the list, `first_child`
   leads to its first element, and each `next_sibling` to the next (`Chain`). `OnChain`
   says where on it a preempted `remove_child` is. The sequence is a witness under an
   existential quantifier, so that no step has to compute a list. Linking puts a slot
   before `L` (`Before`), unlinking takes one out (`Without`), and every other step
   keeps `L`. The paths that `ChildList` follows are then shown to be the elements of
   `L`, by the least index at which one could leave it.

### Heap and frame allocator

`HeapProofs` and `HeapShapeProofs` prove, for every memory map, every size of frame,
header and alignment, every set of request lengths and every sequence of calls:

| Theorem | Statement | Assumes |
|---|---|---|
| `BlocksTile` | `Spec => []BlocksTileFrames` | the constants' assumptions |
| `LiveIsAccepted` | `Spec => []LiveAccepted` | the same |
| `FramesSafe` | `Spec => []FramesOwnedOnce` | the same |
| `HeapTyped` | `Spec => []TypeOK` | the same |
| `HeapImplements` | `Spec => Implements` | `RETURN_ANY = FALSE` |
| `FreeBlocksCoalesced` | `Spec => []Coalesced` | `RETURN_ANY = FALSE` |

1. `FramesInv`: a free frame is usable memory behind the kernel, and every owner's
   frames are used ones. Without that a frame just allocated could be reserved memory.
   `Counted` adds that `free_count` is the number of free frames, which needs
   `FramesInv`: `free_frame` counts only frames whose bit was set.
2. `ListInv` adds the type of the list and the tiling. The tiling needs `FramesInv`: a
   new frame overlaps no block only because the allocator never hands out a frame the
   heap has. One lemma per operator (`AbsorbTiles`, `SplitTiles`, `FrameTiles`,
   `MergePrev`, `InsertFrame`, `Release`) says that it keeps the tiling and what it does
   to the blocks in callers' hands. That `next` and `prev` lead to headers rests on the
   natural numbers being well founded (`Minimum`, `Maximum`).
3. `GrowthInv` says that no free frame lies right below a frame of the heap. Growth keeps
   it because `alloc_frame` returns the lowest free frame; returning frames keeps it if
   `RETURN_ANY` is false. With it `insert_free_block` never finds an adjacent block
   behind the new one, and every step maps to a step of `Allocator` or a stutter
   (`Refines`). `BlocksTile` needs no such condition: growth over an allocated block
   loses no byte, it only changes whose they are.
4. `ShapeInv`: headers and lengths are aligned, and `heap_min` and `heap_max` enclose
   all frames of the heap. With the tiling this gives every test of `kfree`.
5. `Joined` is `Coalesced` for any list, and `JoinedBut` the same except for the pair
   that `merge_prev` has still to look at. The lemma behind both is `Adjacent`: in a list
   that tiles, neighbours in memory are neighbours in the list, so looking at `next` and
   `prev` alone misses no pair.

### Console

`KeyboardProofs`, `ConsoleProofs` and `ShellProofs` prove, for every ring and line
size, board, script of keys, volume that `mount` accepts, and interleaving:

| Theorem | Statement | Assumes |
|---|---|---|
| `KeysInOrder` | `Spec => []KeysArriveInOrder` | the constants' assumptions |
| `SnakeIsSound` | `Spec => []SnakeSound` | the same |
| `MountIsSound` | `GeometrySound` | the same |
| `ConsoleTyped` | `Spec => []TypeOK` | the same |

1. `KeyboardProofs` is about two data structures on their own. The ring: what storing at
   the head and advancing an index do to the sequence it holds, wrap-around included
   (`RingStore`, `RingPush`, `RingPop`). The decoder: `Stands` says that the scancodes on
   their way decode to the characters still expected, from a state `d` to a state `e`,
   with lemmas for a scancode more at the end and one fewer in front.
2. `KeysInv` is the types of keyboard and main loop (`KeyTypes`), which hold always,
   and, until `overlap`, what the main loop knows inside its two windows (`Windows`: what
   `available` concluded from the head it loaded is still true, for one) and
   that the characters expected are those in the ring, the one in the main loop's hand
   and those the scancodes in flight stand for (`Ordered`). The types must hold without
   the condition, because the overlap is left out of what is claimed, not out of what can
   happen.
3. `SnakeInv` adds to `SnakeSound` that the head is one step from the neck in
   `direction`, and that the requested direction is never the opposite. This is why two
   quick keys cannot turn the snake into its neck.
4. `ShellInv` bounds the line (`CommandInv`), keeps the volume as it was mounted
   (`Mounted`) and bounds the locals of a `fat` command (`CallInv`): bytes copied by the
   buffer, clusters entered by the volume. `valid_cluster` is part of it from the first
   sector of a cluster on. The arithmetic of `mount` is proved for unbounded fields.

### Only model-checked

- Liveness (`ReadyRuns`, `CleanupCompletes`, `KeysTaken`, `WaitReturns`): it needs
  fairness and `ENABLED`, which the prover does not handle.
- `FatAnswersRight`: its reference definition follows chains of clusters recursively.
- Everything about tasks that assumes one creator, when tasks other than the shell create.
  For the child lists the races of section 3 make the general statements false.
- VenomFS and the loader, which have no proofs. What a file reads as is a concatenation of
  extents, and what an address space maps is found by a walk through trees of tables; both
  are computed recursively, and induction over data is out of the prover's reach. The
  accounting of blocks and frames (`BlocksAccounted`, `FramesAccounted`) rests on the same
  operators.

## 9. Not modelled

- Screen output, the boot loader, PIC and PS/2 programming and the image tools: straight
  hardware access with no state anything else reads.
- The register protocol inside an ATA transfer. A transfer is one step, so two tasks
  inside the driver at once are outside the models.
- A call of `alloc_frame` or `free_frame` is one step. It runs with interrupts on in the
  code; that two callers may meet inside it, an allocation and another or an allocation
  and a reaper's `free_frame`, is listed as a hazard.
- The ring 3 demo programs, and the frames they leave mapped.
- The TLB, and caches of the disk.
- The boot self-tests, except where they change what later calls find (page mappings of
  the kernel, the bitmap of VenomFS). Of `paging::self_test` the block that tries
  `count_wx_pages` on an address space of its own (`paging.cpp:327`) is left out: it gives
  everything back unless its first mapping runs out of frames during boot, and then it
  leaves one frame behind.
- Argument parsing and the commands of the shell that only print.
- The stress suite, whose structural checks are properties of `Tasks`.

`PROJECT.json` gives the status of every component.
