----------------------------- MODULE MCConsole ------------------------------
(* An instance of Console: three people, and three disks. *)
EXTENDS Console, TLC

Boot(spc, reserved, num_fats, fat_sectors, total, root) ==
  [signature |-> TRUE, bytes_per_sector |-> SECTOR, spc |-> spc, reserved |-> reserved,
   num_fats |-> num_fats, root_entries |-> 0, total16 |-> 0, fat16 |-> 0, fs_version |-> 0,
   fat32_sectors |-> fat_sectors, total32 |-> total, root_cluster |-> root]

TheBootSectors ==
  { Boot(spc, r, n, f, t, 2) :
      spc \in 0 .. 4, r \in 0 .. 2, n \in 0 .. 2, f \in 0 .. 3, t \in 0 .. 18 }

File(n, c, size) == [kind |-> "file", name |-> n, cluster |-> c, size |-> size]
Dir(n, c) == [kind |-> "dir", name |-> n, cluster |-> c, size |-> 0]
Other(k) == [kind |-> k, name |-> "A", cluster |-> 2, size |-> 1]

(* The root lies in clusters 2 and 4, its file A in 3 and 6, directory D in *)
(* 5 and D's file in 7; the FAT has three sectors.                         *)
Sectors ==
  [x \in (2 .. 7) \X {1, 2} |->
     CASE x = <<2, 1>> -> <<Other("label"), Dir("D", 5)>>
       [] x = <<2, 2>> -> <<Other("deleted"), File("Z", 0, 0)>>
       [] x = <<4, 1>> -> <<File("A", 3, 7), Dir("R", 0)>>
       [] x = <<5, 1>> -> <<File("A", 7, 3), Other("end")>>
       [] OTHER -> <<>>]

Volume(links) ==
  [bs |-> Boot(2, 1, 1, 3, 16, 2), data |-> Sectors,
   fat |-> [c \in 2 .. 7 |-> IF c \in DOMAIN links THEN links[c] ELSE FAT_EOC]]

TheVolumes ==
  { Volume(2 :> 4 @@ 3 :> 6),                       \* intact
    Volume(2 :> 4 @@ 4 :> 2),                       \* the root is a cycle, A ends too early
    Volume(2 :> 4 @@ 4 :> 4 @@ 3 :> 0) }            \* the root ends in itself, A in a free cluster

ThePaths ==
  {<<>>, <<"a">>, <<"B">>, <<"D">>, <<"d", "A">>, <<"Z">>, <<"A", "A">>, <<"R", "A">>, <<"..">>}

(* One who types fast while a process reads, one who plays, and one who     *)
(* looks at the FAT32 volume.                                              *)
TheSessions ==
  LET any == {"a", "Up", "Unup", "Shift", "Unshift"}
      edit == {"f", "l", "Back", "Caps"} IN
  << [script |-> <<any, any, {"a", "Enter"}>>,
      patient |-> FALSE, lengths |-> {1, 3}, disks |-> {Volume(<<>>)}],
     [script |-> <<{"s"}, {"Enter"}, {"Down", "Left"}, {"Left", "Up"}, {"Up", "Esc", "Right"}>>,
      patient |-> TRUE, lengths |-> {}, disks |-> {Volume(<<>>)}],
     [script |-> <<{"f", "l"}, {"Enter"}, edit, edit, {"Enter"}>>,
      patient |-> TRUE, lengths |-> {}, disks |-> TheVolumes] >>

=============================================================================
