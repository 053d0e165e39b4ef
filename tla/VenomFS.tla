------------------------------ MODULE VenomFS ------------------------------
(***************************************************************************)
(* VenomFS (kernel/fs.cpp) on the ATA disk (kernel/ata.cpp): the file      *)
(* table and the bitmap in memory, the file table and the data sectors on  *)
(* the disk, and a writer (the shell's task, or the boot) whose operations *)
(* are cut into one step per ATA call.  Between any two steps the power    *)
(* may go, and any process may read a file (SYS_READFILE runs with         *)
(* interrupts off, so a whole read falls between two steps).               *)
(*                                                                         *)
(* Sizes are counted in sectors; a block of data is the pair of the        *)
(* content it belongs to and its place in it.  The bitmap on the disk is   *)
(* left out: no code reads it, init rebuilds the bitmap from the table.    *)
(***************************************************************************)
EXTENDS Integers, FiniteSets, Sequences, SequencesExt

CONSTANTS Names, Contents,
          Length,             \* sectors of each content
          MAX_FILES, MAX_EXTENTS, TOTAL_DATA_BLOCKS,
          HALVES_PER_SECTOR,  \* halves of a file table entry in one sector
          MaxFaults,          \* bound on the ATA calls that fail
          NULL

ASSUME VenomFSAssumption ==
  /\ Length \in [Contents -> Nat]
  /\ {MAX_FILES, MAX_EXTENTS, TOTAL_DATA_BLOCKS, HALVES_PER_SECTOR} \subseteq Nat \ {0}
  /\ MaxFaults \in Nat
  /\ NULL \notin Names \cup Contents

VARIABLES
  file_table, bitmap,        \* memory: the entries, the blocks in use
  d_magic, d_table, d_data,  \* disk: superblock valid, file table, data region
  pc, op,                    \* the writer: next ATA call, and its locals
  fs_ok,                     \* what init returned
  faults,                    \* ATA calls that have failed
  trusted,                   \* history: no command was given to an unmounted volume
  promise                    \* history: what the last completed operation on a name left

disk == <<d_magic, d_table, d_data>>
history == <<trusted, promise>>
vars == <<file_table, bitmap, disk, pc, op, fs_ok, faults, history>>

-----------------------------------------------------------------------------
Slots == 0 .. MAX_FILES - 1
Blocks == 0 .. TOTAL_DATA_BLOCKS - 1

(* A FileEntry; `used` is the name being there, an extent is <<start, count>>. *)
FREE_ENTRY == [name |-> NULL, size |-> 0, extent_count |-> 0, extents |-> <<>>]
EMPTY_TABLE == [i \in Slots |-> FREE_ENTRY]
NoOp == [name |-> NULL, content |-> NULL, slot |-> 0, extents |-> <<>>, next |-> 1,
         backup |-> FREE_ENTRY, table_ok |-> TRUE]

(* The blocks of a list of extents, in the order in which they hold data. *)
BlockSeq(extents) ==
  LET upTo[e \in 0 .. Len(extents)] ==
        IF e = 0 THEN <<>>
        ELSE upTo[e - 1] \o [i \in 1 .. extents[e][2] |-> extents[e][1] + i - 1]
  IN  upTo[Len(extents)]
Covered(extents) == UNION {extents[e][1] .. extents[e][1] + extents[e][2] - 1 : e \in DOMAIN extents}

(* The extents an entry counts; those beyond the stored ones are all zero. *)
Counted(entry) ==
  SubSeq(entry.extents, 1, IF entry.extent_count < Len(entry.extents)
                           THEN entry.extent_count ELSE Len(entry.extents))
BlocksOf(entry) == Covered(Counted(entry))

rebuild_bitmap_from_file_table(t) == UNION {BlocksOf(t[i]) : i \in Slots}

Lowest(S) == CHOOSE i \in S : \A j \in S : i <= j

(* find: the first used slot with that name, or nullptr. *)
find(t, n) ==
  LET hits == {i \in Slots : t[i].name = n} IN IF hits = {} THEN NULL ELSE Lowest(hits)

\* A run may reach one block past the data region.
find_free_run_past_end(needed, used) ==
  LET starts == {b \in Blocks : b .. (b + needed - 1) \subseteq (0 .. TOTAL_DATA_BLOCKS) \ used}
  IN  IF starts = {} THEN <<>> ELSE << <<Lowest(starts), needed>> >>

(* find_free_run: the first run of `needed` free blocks. *)
find_free_run(needed, used) ==
  LET starts == {b \in Blocks : b .. (b + needed - 1) \subseteq Blocks \ used}
  IN  IF starts = {} THEN <<>> ELSE << <<Lowest(starts), needed>> >>

(* find_free_extents: the lowest free blocks, as maximal runs; none if there   *)
(* are too few blocks or the runs do not fit in an entry.                      *)
find_free_extents(needed, used) ==
  LET free   == Blocks \ used
      taken  == {b \in free : Cardinality({x \in free : x < b}) < needed}
      starts == SetToSortSeq({b \in taken : b - 1 \notin taken}, <)
      Run(b) == {x \in taken : x >= b /\ b .. x \subseteq taken}
  IN  IF Cardinality(taken) < needed \/ Len(starts) > MAX_EXTENTS THEN <<>>
      ELSE [e \in DOMAIN starts |-> <<starts[e], Cardinality(Run(starts[e]))>>]

Allocate(needed, used) ==
  IF find_free_run(needed, used) # <<>> THEN find_free_run(needed, used)
  ELSE find_free_extents(needed, used)

(* What read returns for an entry: its first `size` sectors, fewer if the      *)
(* extents end before.                                                         *)
read(entry, data) ==
  LET seq == BlockSeq(Counted(entry))
  IN  [i \in 1 .. (IF entry.size < Len(seq) THEN entry.size ELSE Len(seq)) |-> data[seq[i]]]

FileIn(t, n) ==
  LET slot == find(t, n) IN IF slot = NULL THEN NULL ELSE read(t[slot], d_data)

-----------------------------------------------------------------------------
(* ATA.  Any call may fail, MaxFaults of them in all.  A transfer that fails,  *)
(* or is cut short by a loss of power, has moved some of its sectors, and an   *)
(* entry of 72 bytes may lie across two of them.                               *)
Fault == faults < MaxFaults /\ faults' = faults + 1

FILE_TABLE_SECTORS == (2 * MAX_FILES + HALVES_PER_SECTOR - 1) \div HALVES_PER_SECTOR
Moved(half, sectors) == half \div HALVES_PER_SECTOR < sectors

Transferred(from, to, sectors) ==
  [i \in Slots |->
     [(IF Moved(2 * i, sectors) THEN from[i] ELSE to[i])
        EXCEPT !.extents = IF Moved(2 * i + 1, sectors) THEN from[i].extents ELSE to[i].extents]]

(* Transfers of the file table that end after k sectors. *)
write_sectors(t, k) == Transferred(t, d_table, k)
read_sectors(k) == Transferred(d_table, file_table, k)

(* save_file_table: `ok` is its result. *)
save_file_table(t, ok) ==
  \/ ok /\ d_table' = t /\ UNCHANGED faults
  \/ /\ ~ok /\ Fault
     /\ \E k \in 0 .. FILE_TABLE_SECTORS : d_table' = write_sectors(t, k)

(* save_bitmap: what it puts on the disk is never read. *)
save_bitmap(ok) == IF ok THEN UNCHANGED faults ELSE Fault

-----------------------------------------------------------------------------
(* Boot. *)
Init ==
  /\ file_table = EMPTY_TABLE /\ bitmap = {}
  /\ d_magic = FALSE /\ d_table = EMPTY_TABLE /\ d_data = [b \in Blocks |-> NULL]
  /\ pc = "boot" /\ op = NoOp /\ fs_ok = FALSE /\ faults = 0
  /\ trusted = TRUE /\ promise = [n \in Names |-> NULL]

(* Power is lost at any step: memory is gone, the disk stays. *)
PowerCycle ==
  /\ pc' = "boot" /\ op' = NoOp /\ file_table' = EMPTY_TABLE /\ bitmap' = {}
  /\ fs_ok' = FALSE
  /\ UNCHANGED <<disk, faults, history>>

(* init with a valid superblock: the table is read, all of it or a part. *)
init_mount ==
  /\ pc = "boot" /\ d_magic
  /\ \/ file_table' = d_table /\ pc' = "mount_bitmap" /\ UNCHANGED faults
     \/ /\ Fault
        /\ \E k \in 0 .. FILE_TABLE_SECTORS : file_table' = read_sectors(k)
        /\ pc' = "idle"
  /\ UNCHANGED <<bitmap, disk, op, fs_ok, history>>

(* init, then format, on a disk without the magic; each write may fail. *)
init_unreadable ==
  /\ pc = "boot" /\ Fault
  /\ pc' = "idle"
  /\ UNCHANGED <<file_table, bitmap, disk, op, fs_ok, history>>

format_superblock ==
  /\ pc = "boot" /\ ~d_magic
  /\ \/ d_magic' = TRUE /\ pc' = "format_table" /\ UNCHANGED faults
     \/ Fault /\ d_magic' \in BOOLEAN /\ pc' = "idle"
  /\ UNCHANGED <<file_table, bitmap, d_table, d_data, op, fs_ok, history>>

format_table ==
  /\ pc = "format_table"
  /\ file_table' = EMPTY_TABLE
  /\ \E ok \in BOOLEAN :
       /\ save_file_table(EMPTY_TABLE, ok)
       /\ pc' = IF ok THEN "mount_bitmap" ELSE "idle"
  /\ UNCHANGED <<bitmap, d_magic, d_data, op, fs_ok, history>>

\* The bitmap is left as it is after power-on.
mount_bitmap_stale ==
  /\ pc = "mount_bitmap"
  /\ \E ok \in BOOLEAN : save_bitmap(ok) /\ fs_ok' = ok
  /\ pc' = "idle"
  /\ UNCHANGED <<file_table, bitmap, disk, op, history>>

(* The last step of format (bitmap all clear) and of init (bitmap rebuilt). *)
mount_bitmap ==
  /\ pc = "mount_bitmap"
  /\ bitmap' = rebuild_bitmap_from_file_table(file_table)
  /\ \E ok \in BOOLEAN : save_bitmap(ok) /\ fs_ok' = ok
  /\ pc' = "idle"
  /\ UNCHANGED <<file_table, disk, op, history>>

-----------------------------------------------------------------------------
(* Every operation starts from the shell's prompt, mounted or not. *)
Start(n) ==
  /\ pc = "idle"
  /\ trusted' = (trusted /\ fs_ok)
  /\ promise' = IF trusted' THEN [promise EXCEPT ![n] = NULL] ELSE [m \in Names |-> NULL]

\* The old entry stays in the table while its blocks are written over.
write_in_place(n, c) ==
  LET old     == find(file_table, n)
      inUse   == IF old = NULL THEN bitmap ELSE bitmap \ BlocksOf(file_table[old])
      slot    == IF old = NULL THEN find(file_table, NULL) ELSE old
      extents == IF Length[c] = 0 THEN <<>> ELSE Allocate(Length[c], inUse)
      fits    == slot # NULL /\ (Length[c] = 0 \/ extents # <<>>)
  IN  /\ Start(n) /\ fits
      /\ bitmap' = inUse \cup Covered(extents)
      /\ op' = [NoOp EXCEPT !.name = n, !.content = c, !.slot = slot, !.extents = extents]
      /\ pc' = "data"
      /\ UNCHANGED <<file_table, disk, fs_ok, faults>>

(* write up to its first ATA call: the old file is given up in memory, a slot  *)
(* and blocks are chosen; without them the tables are saved as they now are.   *)
write(n, c) ==
  LET old     == find(file_table, n)
      inUse   == IF old = NULL THEN bitmap ELSE bitmap \ BlocksOf(file_table[old])
      cleared == IF old = NULL THEN file_table ELSE [file_table EXCEPT ![old] = FREE_ENTRY]
      slot    == IF old = NULL THEN find(file_table, NULL) ELSE old
      extents == IF Length[c] = 0 THEN <<>> ELSE Allocate(Length[c], inUse)
      fits    == slot # NULL /\ (Length[c] = 0 \/ extents # <<>>)
  IN  /\ Start(n)
      /\ file_table' = cleared
      /\ bitmap' = IF fits THEN inUse \cup Covered(extents) ELSE inUse
      /\ op' = IF fits THEN [NoOp EXCEPT !.name = n, !.content = c, !.slot = slot,
                                         !.extents = extents]
                       ELSE NoOp
      /\ pc' = IF fits THEN "data" ELSE "drop_bitmap"
      /\ UNCHANGED <<disk, fs_ok, faults>>

(* One data sector; a failure gives the blocks back and saves the tables. *)
write_data ==
  LET block == BlockSeq(op.extents)[op.next]
      written == [d_data EXCEPT ![block] = <<op.content, op.next>>]
  IN  /\ pc = "data" /\ op.next <= Length[op.content]
      /\ \/ /\ d_data' = written
            /\ op' = [op EXCEPT !.next = @ + 1]
            /\ UNCHANGED <<pc, bitmap, faults>>
         \/ /\ Fault
            /\ d_data' \in {d_data, written}
            /\ bitmap' = bitmap \ Covered(op.extents)
            /\ op' = NoOp
            /\ pc' = "drop_bitmap"
      /\ UNCHANGED <<file_table, d_magic, d_table, fs_ok, history>>

(* The entry is filled in, `used` last. *)
publish ==
  /\ pc = "data" /\ op.next > Length[op.content]
  /\ file_table' = [file_table EXCEPT ![op.slot] =
       [name |-> op.name, size |-> Length[op.content],
        extent_count |-> Len(op.extents), extents |-> op.extents]]
  /\ pc' = "save_table"
  /\ UNCHANGED <<bitmap, disk, op, fs_ok, faults, history>>

(* remove up to its first ATA call. *)
remove(n) ==
  LET slot == find(file_table, n)
  IN  /\ Start(n)
      /\ slot # NULL
      /\ op' = [NoOp EXCEPT !.name = n, !.slot = slot, !.backup = file_table[slot]]
      /\ bitmap' = bitmap \ BlocksOf(file_table[slot])
      /\ file_table' = [file_table EXCEPT ![slot] = FREE_ENTRY]
      /\ pc' = "save_table"
      /\ UNCHANGED <<disk, fs_ok, faults>>

save_table ==
  /\ pc = "save_table"
  /\ \E ok \in BOOLEAN :
       save_file_table(file_table, ok) /\ op' = [op EXCEPT !.table_ok = ok]
  /\ pc' = "save_bitmap"
  /\ UNCHANGED <<file_table, bitmap, d_magic, d_data, fs_ok, history>>

(* Both saves done: the operation has succeeded. *)
complete ==
  /\ pc = "save_bitmap" /\ op.table_ok
  /\ promise' = IF ~trusted THEN promise
                ELSE [promise EXCEPT ![op.name] = IF op.content = NULL THEN "absent" ELSE op.content]
  /\ pc' = "idle" /\ op' = NoOp
  /\ UNCHANGED <<file_table, bitmap, disk, fs_ok, faults, trusted>>

\* The blocks of the failed write stay marked.
undo_keeps_blocks ==
  /\ pc = "save_bitmap"
  /\ IF op.table_ok THEN Fault ELSE UNCHANGED faults
  /\ file_table' = [file_table EXCEPT ![op.slot] = op.backup]
  /\ bitmap' = bitmap \cup BlocksOf(op.backup)
  /\ pc' = IF op.content = NULL THEN "idle" ELSE "undo_table"
  /\ op' = NoOp
  /\ UNCHANGED <<disk, fs_ok, history>>

(* One of the two failed: write undoes itself and saves again, remove puts the *)
(* entry back in memory only.                                                  *)
undo ==
  /\ pc = "save_bitmap"
  /\ IF op.table_ok THEN Fault ELSE UNCHANGED faults
  /\ file_table' = [file_table EXCEPT ![op.slot] = op.backup]
  /\ bitmap' = (bitmap \ Covered(op.extents)) \cup BlocksOf(op.backup)
  /\ pc' = IF op.content = NULL THEN "idle" ELSE "undo_table"
  /\ op' = NoOp
  /\ UNCHANGED <<disk, fs_ok, history>>

(* The saves whose results nobody looks at: table then bitmap after undo,      *)
(* bitmap then table when a write gives up early.                              *)
save_table_unchecked ==
  /\ pc \in {"undo_table", "drop_table"}
  /\ \E ok \in BOOLEAN : save_file_table(file_table, ok)
  /\ pc' = IF pc = "undo_table" THEN "undo_bitmap" ELSE "idle"
  /\ UNCHANGED <<file_table, bitmap, d_magic, d_data, op, fs_ok, history>>

save_bitmap_unchecked ==
  /\ pc \in {"undo_bitmap", "drop_bitmap"}
  /\ \E ok \in BOOLEAN : save_bitmap(ok)
  /\ pc' = IF pc = "drop_bitmap" THEN "drop_table" ELSE "idle"
  /\ UNCHANGED <<file_table, bitmap, disk, op, fs_ok, history>>

Step ==
  \/ init_mount \/ init_unreadable \/ format_superblock \/ format_table \/ mount_bitmap
  \/ write_data \/ publish \/ save_table \/ complete \/ undo
  \/ save_table_unchecked \/ save_bitmap_unchecked

Next ==
  \/ PowerCycle
  \/ Step
  \/ \E n \in Names : remove(n) \/ \E c \in Contents : write(n, c)

Spec == Init /\ [][Next]_vars

-----------------------------------------------------------------------------
Mounted == fs_ok /\ trusted
Content(c) == [i \in 1 .. Length[c] |-> <<c, i>>]

Disjoint(t) == \A i, j \in Slots : i < j => BlocksOf(t[i]) \cap BlocksOf(t[j]) = {}

(* The tables hold entries, the bitmap holds blocks of the data region, and    *)
(* the writer's locals are there only while an operation is under way.         *)
TypeOK ==
  /\ \A t \in {file_table, d_table} : \A i \in Slots :
       /\ t[i].name \in Names \cup {NULL}
       /\ Len(t[i].extents) <= MAX_EXTENTS
       /\ BlocksOf(t[i]) \subseteq Blocks
  /\ bitmap \subseteq Blocks
  /\ d_magic \in BOOLEAN /\ fs_ok \in BOOLEAN /\ faults \in 0 .. MaxFaults /\ trusted \in BOOLEAN
  /\ promise \in [Names -> Contents \cup {NULL, "absent"}]
  /\ pc \notin {"data", "save_table", "save_bitmap"} => op = NoOp

(* write, remove and init: no block belongs to two files, in memory or on the  *)
(* disk, and the bitmap is exactly the blocks of the files and of the write    *)
(* under way: no block is handed out twice and none is lost.                   *)
BlocksAccounted ==
  Mounted =>
    /\ Disjoint(file_table) /\ Disjoint(d_table)
    /\ bitmap = rebuild_bitmap_from_file_table(file_table) \cup Covered(op.extents)

(* A write or remove that returned true stays done, on the disk as well as in  *)
(* memory, until the next operation on that name: whatever is done to other    *)
(* files, whichever ATA call fails, and whenever power is lost.              *)
PromisesKept ==
  trusted => \A n \in Names : promise[n] # NULL =>
    LET kept == IF promise[n] = "absent" THEN NULL ELSE Content(promise[n])
    IN  FileIn(d_table, n) = kept /\ (fs_ok => FileIn(file_table, n) = kept)

(* What read returns (readers run between the writer's steps): a name has no   *)
(* file or one whole file, and never changes from one file to another.         *)
Store == INSTANCE FileStore WITH
  Whole <- {Content(c) : c \in Contents},
  Readable <- Seq((Contents \X Nat) \cup {NULL}),
  ABSENT <- NULL,
  up <- Mounted,
  store <- [n \in Names |-> IF Mounted THEN FileIn(file_table, n) ELSE NULL],
  dropped <- IF Mounted /\ op.backup # FREE_ENTRY
             THEN <<op.name, read(op.backup, d_data)>> ELSE NULL
FilesAppearWhole == Store!Spec
=============================================================================
