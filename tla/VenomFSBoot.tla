---------------------------- MODULE VenomFSBoot ----------------------------
(***************************************************************************)
(* VenomFS as kernel_main uses it: after a successful mount the boot runs  *)
(* fs::self_test, and the shell takes commands only after that.  Of the    *)
(* self-test the last part is modelled: it marks every block in use except *)
(* two, writes a file of two sectors so that it must take these two,       *)
(* removes it and rebuilds the bitmap.  The parts before are calls of      *)
(* write and remove like any other.                                        *)
(***************************************************************************)
EXTENDS VenomFS

CONSTANTS TestName, TestContent,  \* "__fs_selftest_fragmented__" and its two sectors
          Fragments               \* blocks 10 and 20

VARIABLE test                     \* how far the self-test of this boot is

BootInit == Init /\ test = "fragment"

(* bitmap = 0xFF everywhere, then bit_clear of the two. *)
Fragment ==
  /\ test = "fragment" /\ pc = "idle" /\ fs_ok
  /\ bitmap' = Blocks \ Fragments
  /\ test' = "write"
  /\ UNCHANGED <<file_table, disk, pc, op, fs_ok, faults, history>>

TestWrite == test = "write" /\ write(TestName, TestContent) /\ test' = "remove"
TestRemove == test = "remove" /\ remove(TestName) /\ test' = "restore"

(* The copy of the bitmap comes back and is rebuilt from the table at once. *)
Restore ==
  /\ test = "restore" /\ pc = "idle"
  /\ bitmap' = rebuild_bitmap_from_file_table(file_table)
  /\ save_bitmap(TRUE)
  /\ test' = "done"
  /\ UNCHANGED <<file_table, disk, pc, op, fs_ok, history>>

Command == \E n \in Names \ {TestName}, c \in Contents : remove(n) \/ write(n, c)

BootNext ==
  \/ PowerCycle /\ test' = "fragment"
  \/ Step /\ UNCHANGED test
  \/ Fragment \/ TestWrite \/ TestRemove \/ Restore
  \/ test = "done" /\ Command /\ UNCHANGED test

BootSpec == BootInit /\ [][BootNext]_<<vars, test>>
=============================================================================
