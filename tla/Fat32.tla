------------------------------- MODULE Fat32 --------------------------------
(***************************************************************************)
(* The read-only FAT32 driver of kernel/fat32.cpp.                         *)
(*                                                                         *)
(* A volume is its boot sector, its FAT and its data sectors.  A path is   *)
(* the sequence of its names.  A command runs one sector at a time; the    *)
(* disk may refuse any of the reads.  What survives a command is the       *)
(* cached FAT sector.  Sizes are scaled: a sector has SECTOR bytes and     *)
(* LINKS entries of the FAT.                                               *)
(***************************************************************************)
EXTENDS Naturals, Sequences, FiniteSetsExt

CONSTANTS
  SECTOR, LINKS,
  FAT_BUF,               \* the size of the buffer of fat cat
  MIN_CLUSTERS,          \* 65525: below that a volume is FAT12 or FAT16
  OFFSETS,               \* 2^30: a 32-bit offset c * 4 tells so many entries of the FAT apart
  BootSectors            \* the boot sectors to try mount on

ASSUME FatAssumption ==
  /\ {SECTOR, LINKS, OFFSETS} \subseteq Nat \ {0} /\ {FAT_BUF, MIN_CLUSTERS} \subseteq Nat
  /\ \A bs \in BootSectors :
       {bs.spc, bs.reserved, bs.num_fats, bs.fat32_sectors, bs.total32} \subseteq Nat

VARIABLES
  vol,               \* the volume
  fat_cache_sector,  \* the FAT sector fat_cache is tagged with, or NONE
  fat_cache,         \* the FAT sector its bytes come from, or NONE after a failed read
  call               \* the command in progress: its arguments, its locals, what it found

NONE == 99
FAT_EOC == 98        \* FAT_EOC_MIN and above
FAT_BAD == 97
-----------------------------------------------------------------------------
clusters(bs) == (bs.total32 - (bs.reserved + bs.num_fats * bs.fat32_sectors)) \div bs.spc

(* mount accepts a boot sector. *)
mount(bs) ==
  /\ bs.signature /\ bs.bytes_per_sector = SECTOR
  /\ bs.spc \in {1, 2, 4, 8, 16, 32, 64, 128}
  /\ bs.reserved # 0 /\ bs.num_fats # 0
  /\ bs.root_entries = 0 /\ bs.total16 = 0 /\ bs.fat16 = 0 /\ bs.fs_version = 0
  /\ bs.fat32_sectors # 0 /\ bs.total32 # 0
  /\ bs.reserved + bs.num_fats * bs.fat32_sectors < bs.total32
  /\ clusters(bs) >= MIN_CLUSTERS
  /\ bs.fat32_sectors * LINKS >= clusters(bs) + 2   \* the FAT describes every cluster
  /\ bs.root_cluster >= 2 /\ bs.root_cluster < clusters(bs) + 2

valid_cluster(c) == c >= 2 /\ c < clusters(vol.bs) + 2

\* The sector of the volume where cluster c starts.
cluster_sector(bs, c) == bs.reserved + bs.num_fats * bs.fat32_sectors + (c - 2) * bs.spc
(* What a mounted volume is made of, whatever its FAT and its sectors say. *)
IsEntry(e) == DOMAIN e = {"kind", "name", "cluster", "size"} /\ {e.cluster, e.size} \subseteq Nat
IsVolume(v) ==
  LET all == 2 .. clusters(v.bs) + 1 IN
  /\ {v.bs.spc, v.bs.reserved, v.bs.num_fats, v.bs.fat32_sectors, v.bs.total32, v.bs.root_cluster}
       \subseteq Nat
  /\ v.fat \in [all -> Nat] /\ DOMAIN v.data = all \X (1 .. v.bs.spc)
  /\ \A x \in DOMAIN v.data : \A i \in DOMAIN v.data[x] : i \in Nat /\ IsEntry(v.data[x][i])
-----------------------------------------------------------------------------
(* "name.ext" in upper case, or "" for what is no 8.3 name. *)
short_names == [A |-> "A", a |-> "A", B |-> "B", D |-> "D", d |-> "D", R |-> "R", Z |-> "Z"]
to_short_name(n) == IF n \in DOMAIN short_names THEN short_names[n] ELSE ""

ends_at(sector) == \E i \in DOMAIN sector : sector[i].kind = "end"

(* The entries of a sector that walk_dir passes to visit: neither deleted,  *)
(* nor a volume label or part of a long name, nor behind the end mark.     *)
live(sector) ==
  { i \in DOMAIN sector :
      sector[i].kind \in {"file", "dir"} /\ \A j \in 1 .. i : sector[j].kind # "end" }

entries_of(sector) ==
  LET last == IF live(sector) = {} THEN 0 ELSE Max(live(sector)) IN
  SelectSeq(SubSeq(sector, 1, last), LAMBDA e : e.kind \in {"file", "dir"})

Root == [kind |-> "dir", name |-> "", cluster |-> vol.bs.root_cluster, size |-> 0]

min(a, b) == IF a <= b THEN a ELSE b

\* read has its bytes, or walk_dir is behind the last cluster.
Finished == IF call.phase = "read" THEN call.got >= call.to_read ELSE call.cluster = 0
-----------------------------------------------------------------------------
NoCall == [phase |-> "none"]

(* The start of fat32::read and fat32::list. *)
FatCall(op, path) ==
  call' = [op |-> op, asked |-> path, faulted |-> FALSE, phase |-> "resolve", path |-> path,
           cur |-> Root, want |-> "", cluster |-> 0, sector |-> 1, steps |-> 0,
           got |-> 0, to_read |-> 0, out |-> <<>>]

Returns(ok, got) == call' = [call EXCEPT !.phase = IF ok THEN "ok" ELSE "failed", !.got = got]

\* Both walks begin at the first sector of a cluster.
Walks(phase, want, c) ==
  call' = [call EXCEPT !.phase = phase, !.want = want, !.cluster = c, !.sector = 1, !.steps = 0,
                       !.to_read = IF phase = "read" THEN min(call.cur.size, FAT_BUF) ELSE 0]

(* One turn of the loop in resolve, and what its callers do with the entry. *)
Resolve ==
  /\ call.phase = "resolve"
  /\ IF call.path # <<>>
     THEN IF to_short_name(call.path[1]) = "" \/ call.cur.kind # "dir" THEN Returns(FALSE, 0)
          ELSE Walks("walk", to_short_name(call.path[1]), call.cur.cluster)
     ELSE IF (call.cur.kind = "dir") # (call.op = "ls") THEN Returns(FALSE, 0)
          ELSE Walks(IF call.op = "ls" THEN "walk" ELSE "read", "", call.cur.cluster)
  /\ UNCHANGED <<vol, fat_cache_sector, fat_cache>>

InSector == call.phase \in {"walk", "read"} /\ call.sector <= vol.bs.spc /\ ~Finished
here == <<call.cluster, call.sector>>

\* The test at the top of both walks.
enters == valid_cluster(call.cluster) /\ call.steps + 1 <= clusters(vol.bs)

BadCluster ==
  /\ InSector /\ call.sector = 1 /\ ~enters
  /\ Returns(FALSE, 0)
  /\ UNCHANGED <<vol, fat_cache_sector, fat_cache>>

DiskRefuses ==
  /\ InSector /\ (call.sector = 1 => enters)
  /\ call' = [call EXCEPT !.phase = "failed", !.faulted = TRUE]
  /\ UNCHANGED <<vol, fat_cache_sector, fat_cache>>

\* Mutant: the walk does not count the clusters it enters.
OnwardUncounted == [call EXCEPT !.sector = @ + 1]

\* On to the next sector.
Onward == [call EXCEPT !.sector = @ + 1, !.steps = IF call.sector = 1 THEN @ + 1 ELSE @]

(* The visitor of resolve stops at the first entry with the name it wants;  *)
(* the visitor of list takes every entry.                                  *)
wanted(sector) == { i \in live(sector) : call.want # "" /\ sector[i].name = call.want }
listed(sector) == IF call.want = "" THEN call.out \o entries_of(sector) ELSE <<>>

(* Cluster 0 stands for the root in the ".." of its subdirectories. *)
entry_found(e) ==
  IF e.kind = "dir" /\ e.cluster = 0 THEN [e EXCEPT !.cluster = vol.bs.root_cluster] ELSE e

(* walk_dir shows the live entries of a sector to the visitor.             *)
WalkSector ==
  LET sector == vol.data[here] IN
  /\ InSector /\ call.phase = "walk" /\ (call.sector = 1 => enters)
  /\ IF wanted(sector) # {}
     THEN call' = [call EXCEPT !.phase = "resolve", !.path = Tail(@),
                               !.cur = entry_found(sector[Min(wanted(sector))])]
     ELSE IF ends_at(sector)
     THEN call' = [call EXCEPT !.phase = IF call.want = "" THEN "ok" ELSE "failed",
                               !.out = listed(sector)]
     ELSE call' = [Onward EXCEPT !.out = listed(sector)]
  /\ UNCHANGED <<vol, fat_cache_sector, fat_cache>>

ReadSector ==
  /\ InSector /\ call.phase = "read" /\ (call.sector = 1 => enters)
  /\ call' = [Onward EXCEPT !.out = Append(@, here), !.got = @ + min(SECTOR, call.to_read - @)]
  /\ UNCHANGED <<vol, fat_cache_sector, fat_cache>>

(* The end of a walk: read has all its bytes, or walk_dir met the end of    *)
(* the chain.                                                              *)
Finish ==
  /\ call.phase \in {"walk", "read"} /\ Finished
  /\ Returns(call.phase = "read" \/ call.want = "", call.got)
  /\ UNCHANGED <<vol, fat_cache_sector, fat_cache>>
-----------------------------------------------------------------------------
(* next_cluster behind the last sector of a cluster.  Its test that the FAT *)
(* reaches that far never fails on a mounted volume: see GeometrySound.    *)
AtEnd == call.phase \in {"walk", "read"} /\ call.sector > vol.bs.spc /\ ~Finished
fat_entry == call.cluster % OFFSETS
fat_sector == fat_entry \div LINKS

(* The link in the cache; 2 stands for whatever a half overwritten buffer   *)
(* holds, and the first two entries of a FAT are no links.                 *)
link ==
  IF fat_cache' # fat_sector THEN 2
  ELSE IF fat_entry \in DOMAIN vol.fat THEN vol.fat[fat_entry] ELSE FAT_EOC

Follow ==
  IF link = FAT_EOC
  THEN IF call.phase = "walk" THEN call' = [call EXCEPT !.cluster = 0, !.sector = 1]
       ELSE Returns(FALSE, call.got)
  ELSE IF link = FAT_BAD \/ ~valid_cluster(link) \/ link = call.cluster
  THEN Returns(FALSE, call.got)
  ELSE call' = [call EXCEPT !.cluster = link, !.sector = 1]

NextCached ==
  /\ AtEnd /\ fat_cache_sector = fat_sector
  /\ UNCHANGED <<vol, fat_cache_sector, fat_cache>>
  /\ Follow

NextLoaded ==
  /\ AtEnd /\ fat_cache_sector # fat_sector
  /\ fat_cache_sector' = fat_sector /\ fat_cache' = fat_sector
  /\ Follow
  /\ UNCHANGED vol

\* Mutant: a failed read leaves the tag of the bytes it overwrote.
NextRefusedKeepsTag ==
  /\ AtEnd /\ fat_cache_sector # fat_sector
  /\ fat_cache' = NONE
  /\ call' = [call EXCEPT !.phase = "failed", !.faulted = TRUE]
  /\ UNCHANGED <<vol, fat_cache_sector>>

NextRefused ==
  /\ AtEnd /\ fat_cache_sector # fat_sector
  /\ fat_cache_sector' = NONE /\ fat_cache' = NONE
  /\ call' = [call EXCEPT !.phase = "failed", !.faulted = TRUE]
  /\ UNCHANGED vol

FatStep ==
  \/ Resolve \/ BadCluster \/ DiskRefuses \/ WalkSector \/ ReadSector \/ Finish
  \/ NextCached \/ NextLoaded \/ NextRefused
-----------------------------------------------------------------------------
(* What a volume holds, read off its FAT and its sectors without the       *)
(* driver.  chain(c)[i] is cluster number i of the chain at c, 0 behind    *)
(* its end; sector number j of the chain lies in cluster (j - 1) \div spc. *)
chain(c) ==
  LET n == clusters(vol.bs)
      q[i \in 1 .. n] == IF i = 1 THEN c
                         ELSE IF q[i - 1] \in DOMAIN vol.fat THEN vol.fat[q[i - 1]] ELSE 0
  IN q

content(c, sectors) ==
  [j \in 1 .. sectors |-> <<chain(c)[(j - 1) \div vol.bs.spc + 1], ((j - 1) % vol.bs.spc) + 1>>]

(* The directory at cluster c, as the sequence of its entries. *)
directory(c) ==
  LET n == Cardinality({ i \in DOMAIN chain(c) :
                           \A j \in 1 .. i : chain(c)[j] \in DOMAIN vol.fat })
      raw == MapThenFoldSet(\o, <<>>, LAMBDA j : vol.data[content(c, n * vol.bs.spc)[j]],
                            Min, 1 .. n * vol.bs.spc)
  IN entries_of(raw)

(* The set of entries a path stands for: one, or none. *)
entry_at(path) ==
  LET lookup(cur, name) ==
        LET dir == directory(IF cur.cluster = 0 THEN vol.bs.root_cluster ELSE cur.cluster)
            found == { i \in DOMAIN dir : dir[i].name = to_short_name(name) }
        IN IF cur.kind # "dir" \/ found = {} THEN {} ELSE {dir[Min(found)]}
      at[i \in 0 .. Len(path)] ==
        IF i = 0 THEN {Root} ELSE UNION { lookup(cur, path[i]) : cur \in at[i - 1] }
  IN at[Len(path)]

sectors_in(bytes) == (bytes + SECTOR - 1) \div SECTOR

\* A volume as mkfs and the image tools lay it out.
Intact == \A c \in DOMAIN vol.fat : vol.fat[c] \in {FAT_EOC} \cup { d \in DOMAIN vol.fat : d > c }

(* What mount must guarantee to next_cluster and cluster_sector. *)
GeometrySound ==
  \A bs \in BootSectors : mount(bs) =>
    \A c \in 2 .. clusters(bs) + 1 :
      cluster_sector(bs, c) + bs.spc <= bs.total32 /\ c \div LINKS < bs.fat32_sectors

(* What fat cat and fat ls must answer. *)
CatAnswers(path) ==
  { [got |-> min(e.size, FAT_BUF), data |-> content(e.cluster, sectors_in(min(e.size, FAT_BUF)))] :
      e \in { f \in entry_at(path) : f.kind = "file" } }

LsAnswers(path) ==
  { [got |-> 0, data |-> directory(IF e.cluster = 0 THEN vol.bs.root_cluster ELSE e.cluster)] :
      e \in { f \in entry_at(path) : f.kind = "dir" } }

=============================================================================
