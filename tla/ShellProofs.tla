---------------------------- MODULE ShellProofs ----------------------------
(***************************************************************************)
(* The rest of Console, for every board, volume and script: the snake      *)
(* never overlaps itself or its food, a mounted volume has a sound         *)
(* geometry, and no fat command runs past its buffer or its chain.         *)
(***************************************************************************)
EXTENDS ConsoleProofs, WellFoundedInduction

\* Most leaves here need no arithmetic and go to Zenon; the others cite SMT.
USE ZenonT(60)

(* What start, tick and handle_key keep true of the game while it runs: the  *)
(* head is where the last move took it from the neck, and the direction      *)
(* asked for is not the one it came from.                                    *)
SnakeInv ==
  running =>
    /\ body \in Seq(Point) /\ Len(body) \in 3 .. MAX_SEGMENTS
    /\ \A i, j \in 1 .. Len(body) : body[i] = body[j] => i = j
    /\ food \in Point /\ \A i \in 1 .. Len(body) : body[i] # food
    /\ direction \in Direction /\ requested_direction \in Direction
    /\ body[1] = cell_ahead(body[2], direction)
    /\ ~is_opposite(direction, requested_direction)

(* The four directions and their steps. *)
LEMMA Directions ==
  /\ Direction = {"Up", "Down", "Left", "Right"}
  /\ \A d \in Direction : step[d][1] \in Int /\ step[d][2] \in Int /\ ~is_opposite(d, d)
<1>1. Direction = {"Up", "Down", "Left", "Right"}
  BY DEF Direction, step
<1>2. \A d \in Direction : step[d][1] \in Int /\ step[d][2] \in Int
  BY SMTT(60), <1>1 DEF step
<1>3. \A d \in Direction : ~is_opposite(d, d)
  BY SMTT(60), <1>1 DEF step, is_opposite
<1> QED
  BY <1>1, <1>2, <1>3

(* The steps of the game. *)
SnakeStep ==
  UNCHANGED snake \/ start \/ stop \/ tick \/ \E k : handle_key(k)

(* The invariant says what it should: asking for a direction never points    *)
(* the head at the neck.                                                     *)
LEMMA SnakeInvSound == SnakeInv => SnakeSound
<1> SUFFICES ASSUME SnakeInv, running PROVE SnakeSound
  BY DEF SnakeSound
<1>1. /\ body \in Seq(Point) /\ Len(body) \in 3 .. MAX_SEGMENTS
      /\ \A i, j \in 1 .. Len(body) : body[i] = body[j] => i = j
      /\ food \in Point /\ \A i \in 1 .. Len(body) : body[i] # food
      /\ direction \in Direction /\ requested_direction \in Direction
      /\ body[1] = cell_ahead(body[2], direction)
      /\ ~is_opposite(direction, requested_direction)
  BY DEF SnakeInv
<1>2. DOMAIN body = 1 .. Len(body) /\ Len(body) \in Nat /\ 2 \in DOMAIN body
  BY SMTT(60), <1>1, SnakeAssumption
<1>3. Range(body) \subseteq Point /\ IsInjective(body) /\ food \notin Range(body)
  BY SMTT(60), <1>1, <1>2 DEF Range, IsInjective
<1>4. cell_ahead(body[1], requested_direction) # body[2]
  <2>1. PICK x \in Int, y \in Int : body[2] = <<x, y>>
    <3>1. body[2] \in Point
      BY SMTT(60), <1>1, <1>2
    <3> QED
      BY SMTT(60), <3>1, SnakeAssumption DEF Point
  <2>2. \E a, b, c, d \in Int : /\ step[direction] = <<a, b>> /\ step[requested_direction] = <<c, d>>
                                /\ (a + c # 0 \/ b + d # 0)
    <3>1. \A d \in Direction : \E a, b \in Int : step[d] = <<a, b>>
      BY SMTT(60), Directions DEF step
    <3>2. PICK a \in Int, b \in Int : step[direction] = <<a, b>>
      BY <1>1, <3>1
    <3>3. PICK c \in Int, d \in Int : step[requested_direction] = <<c, d>>
      BY <1>1, <3>1
    <3>4. a + c # 0 \/ b + d # 0
      <4>1. ~(step[direction][1] + step[requested_direction][1] = 0
              /\ step[direction][2] + step[requested_direction][2] = 0)
        BY <1>1 DEF is_opposite
      <4> QED
        BY SMTT(60), <3>2, <3>3, <4>1
    <3> QED
      BY <3>2, <3>3, <3>4
  <2>3. PICK a \in Int, b \in Int, c \in Int, d \in Int :
          /\ step[direction] = <<a, b>> /\ step[requested_direction] = <<c, d>>
          /\ a + c # 0 \/ b + d # 0
    BY <2>2
  <2>4. body[1] = <<x + a, y + b>>
    BY SMTT(60), <1>1, <2>1, <2>3 DEF cell_ahead
  <2>5. cell_ahead(body[1], requested_direction) = <<(x + a) + c, (y + b) + d>>
    BY SMTT(60), <2>3, <2>4 DEF cell_ahead
  <2>6. (x + a) + c # x \/ (y + b) + d # y
    BY SMTT(60), <2>3
  <2> QED
    BY SMTT(60), <2>1, <2>5, <2>6
<1> QED
  BY <1>1, <1>3, <1>4 DEF SnakeSound

(* A new game starts with three cells in the middle of the board. *)
LEMMA StartKeeps == start => SnakeInv'
<1> SUFFICES ASSUME start PROVE SnakeInv'
  OBVIOUS
<1> DEFINE x == BOARD_WIDTH \div 2
           y == (BOARD_HEIGHT + 1) \div 2
           b == << <<x, y>>, <<x - 1, y>>, <<x - 2, y>> >>
<1>1. x \in 3 .. BOARD_WIDTH /\ y \in 1 .. BOARD_HEIGHT
  BY SMTT(60), SnakeAssumption
<1>2. body' = b /\ direction' = "Right" /\ requested_direction' = "Right"
  BY DEF start
<1>3. food' \in Point /\ \A i \in 1 .. Len(body') : body'[i] # food'
  BY DEF start, spawn_food, occupies
<1> HIDE DEF x, y
<1>4. /\ b \in Seq(Point) /\ Len(b) = 3
      /\ b[1] = <<x, y>> /\ b[2] = <<x - 1, y>> /\ b[3] = <<x - 2, y>>
  <2>1. x - 1 \in 1 .. BOARD_WIDTH /\ x - 2 \in 1 .. BOARD_WIDTH /\ x \in 1 .. BOARD_WIDTH
    BY SMTT(60), <1>1, SnakeAssumption
  <2>2. <<x, y>> \in Point /\ <<x - 1, y>> \in Point /\ <<x - 2, y>> \in Point
    BY <1>1, <2>1 DEF Point
  <2> QED
    BY SMTT(60), <2>2
<1> HIDE DEF b
<1>5. \A i, j \in 1 .. 3 : b[i] = b[j] => i = j
  <2>1. x \in Int /\ x # x - 1 /\ x # x - 2 /\ x - 1 # x - 2
    BY SMTT(60), <1>1
  <2>2. b[1] # b[2] /\ b[1] # b[3] /\ b[2] # b[3]
    BY SMTT(60), <1>4, <2>1
  <2> QED
    BY SMTT(60), <2>2
<1>6. b[1] = cell_ahead(b[2], "Right")
  BY SMTT(60), <1>1, <1>4 DEF cell_ahead, step
<1>7. 3 \in 3 .. MAX_SEGMENTS
  BY SMTT(60), SnakeAssumption
<1> QED
  BY <1>2, <1>3, <1>4, <1>5, <1>6, <1>7, Directions DEF SnakeInv

(* A move of the head drags the body along, and grows it only where a cell   *)
(* was eaten.                                                                *)
LEMMA MoveKeeps == ASSUME SnakeInv, running, move PROVE SnakeInv'
<1> DEFINE next == cell_ahead(body[1], requested_direction)
           ate == next = food
           m == IF ate /\ Len(body) < MAX_SEGMENTS THEN Len(body) + 1 ELSE Len(body)
           hit == next \notin Point \/ occupies(body, next, IF ate THEN Len(body) ELSE Len(body) - 1)
<1>1. /\ body \in Seq(Point) /\ Len(body) \in 3 .. MAX_SEGMENTS /\ Len(body) \in Nat
      /\ \A i, j \in 1 .. Len(body) : body[i] = body[j] => i = j
      /\ food \in Point /\ \A i \in 1 .. Len(body) : body[i] # food
      /\ requested_direction \in Direction
  BY SMTT(60), SnakeAssumption DEF SnakeInv
<1>2. CASE hit
  BY <1>2 DEF move, SnakeInv
<1>3. CASE ~hit
  <2>1. /\ direction' = requested_direction /\ requested_direction' = requested_direction
        /\ body' = SubSeq(<<next>> \o body, 1, m) /\ next \in Point
        /\ IF ate THEN spawn_food(body') ELSE food' = food
    BY <1>3 DEF move
  <2>2. \A i \in 1 .. (IF ate THEN Len(body) ELSE Len(body) - 1) : body[i] # next
    BY <1>3 DEF occupies
  <2>3. m \in 3 .. MAX_SEGMENTS /\ m \in Nat /\ (m = Len(body) \/ (ate /\ m = Len(body) + 1))
    BY SMTT(60), <1>1, SnakeAssumption
  <2> HIDE DEF next, m, ate
  <2>4. /\ body' \in Seq(Point) /\ Len(body') = m /\ body'[1] = next
        /\ \A i \in 2 .. m : body'[i] = body[i - 1]
    <3> DEFINE c == <<next>> \o body
    <3>1. /\ c \in Seq(Point) /\ Len(c) = Len(body) + 1 /\ c[1] = next
          /\ \A i \in 2 .. Len(body) + 1 : c[i] = body[i - 1]
      BY SMTT(60), <1>1, <2>1
    <3> HIDE DEF c
    <3>2. m <= Len(c) /\ 1 <= m
      BY SMTT(60), <1>1, <2>3, <3>1
    <3>3. /\ SubSeq(c, 1, m) \in Seq(Point) /\ Len(SubSeq(c, 1, m)) = m
          /\ \A i \in 1 .. m : SubSeq(c, 1, m)[i] = c[i]
      BY SMTT(60), <1>1, <2>3, <3>1, <3>2
    <3>4. body' = SubSeq(c, 1, m)
      BY <2>1 DEF c
    <3>5. \A i \in 2 .. m : body'[i] = body[i - 1]
      <4>1. \A i \in 2 .. m : i \in 1 .. m /\ i \in 2 .. Len(body) + 1
        BY SMTT(60), <1>1, <2>3
      <4> QED
        BY <3>1, <3>3, <3>4, <4>1
    <3>6. body'[1] = next
      BY SMTT(60), <2>3, <3>1, <3>3, <3>4
    <3> QED
      BY <3>3, <3>4, <3>5, <3>6
  <2>5. \A i \in 2 .. m : i - 1 \in 1 .. Len(body) /\ body[i - 1] # next
    BY SMTT(60), <1>1, <2>2, <2>3
  <2>6. \A i, j \in 1 .. m : body'[i] = body'[j] => i = j
    <3>1. SUFFICES ASSUME NEW i \in 1 .. m, NEW j \in 1 .. m, body'[i] = body'[j] PROVE i = j
      OBVIOUS
    <3>2. CASE i = 1 \/ j = 1
      BY SMTT(60), <2>3, <2>4, <2>5, <3>1, <3>2
    <3>3. CASE i # 1 /\ j # 1
      <4>1. i - 1 \in 1 .. Len(body) /\ j - 1 \in 1 .. Len(body) /\ body[i - 1] = body[j - 1]
        BY SMTT(60), <2>3, <2>4, <2>5, <3>1, <3>3
      <4>2. i - 1 = j - 1
        BY <1>1, <4>1
      <4> QED
        BY SMTT(60), <4>2
    <3> QED
      BY <3>2, <3>3
  <2>7. food' \in Point /\ \A i \in 1 .. m : body'[i] # food'
    <3>1. CASE ate
      BY <2>1, <2>4, <3>1 DEF spawn_food, occupies
    <3>2. CASE ~ate
      <4>1. food' = food /\ next # food
        BY <2>1, <3>2 DEF ate
      <4> QED
        BY SMTT(60), <1>1, <2>3, <2>4, <2>5, <4>1
    <3> QED
      BY <3>1, <3>2
  <2>8. body'[1] = cell_ahead(body'[2], direction')
    <3>1. body'[2] = body[1]
      BY SMTT(60), <2>3, <2>4
    <3> QED
      BY <2>1, <2>4, <3>1 DEF next
  <2> QED
    BY <1>1, <2>1, <2>3, <2>4, <2>6, <2>7, <2>8, Directions DEF SnakeInv
<1> QED
  BY <1>2, <1>3

(* Every step of the game keeps the invariant. *)
LEMMA SnakeKeeps == SnakeInv /\ SnakeStep => SnakeInv'
<1> SUFFICES ASSUME SnakeInv, SnakeStep PROVE SnakeInv'
  OBVIOUS
<1>1. CASE UNCHANGED snake
  BY <1>1 DEF snake, SnakeInv, cell_ahead, is_opposite
<1>2. CASE stop
  BY <1>2 DEF stop, SnakeInv
<1>3. CASE start
  BY <1>3, StartKeeps
<1>4. ASSUME NEW k, handle_key(k) PROVE SnakeInv'
  BY <1>4 DEF handle_key, SnakeInv, cell_ahead, is_opposite
<1>5. CASE tick
  <2>1. CASE /\ running /\ tick_count + 1 < MOVE_INTERVAL_TICKS
             /\ UNCHANGED <<body, food, direction, requested_direction, running>>
    BY <2>1 DEF SnakeInv, cell_ahead, is_opposite
  <2> QED
    BY <1>1, <1>5, <2>1, MoveKeeps DEF tick
<1> QED
  BY <1>1, <1>2, <1>3, <1>4, <1>5 DEF SnakeStep

(* Only start, stop, tick and handle_key touch the game. *)
LEMMA SnakeFootprint == [Next]_vars => SnakeStep
<1> SUFFICES ASSUME [Next]_vars PROVE SnakeStep
  OBVIOUS
<1>1. CASE UNCHANGED vars
  BY <1>1 DEF vars, SnakeStep
<1>2. ASSUME NEW k, Stroke(k) PROVE SnakeStep
  BY <1>2 DEF Stroke, SnakeStep
<1>3. CASE Present \/ Irq
  BY <1>3 DEF Present, Irq, SnakeStep
<1>4. ASSUME NEW n, SysRead(n) PROVE SnakeStep
  BY <1>4 DEF SysRead, SnakeStep
<1>5. CASE Wake \/ PollStatus \/ PollData \/ PollScan \/ PollStore \/ PollAdvance
  BY <1>5 DEF Wake, PollStatus, PollData, PollScan, PollStore, PollAdvance, SnakeStep
<1>6. CASE LoadHead \/ Available \/ CheckChar \/ LoadChar \/ LoadTail \/ StoreTail
           \/ HandleChar \/ FatCommand
  BY <1>6 DEF LoadHead, Available, CheckChar, LoadChar, LoadTail, StoreTail, HandleChar,
              FatCommand, SnakeStep
<1>7. CASE ShellTick \/ HandleKey
  BY <1>7 DEF ShellTick, HandleKey, SnakeStep
<1>8. CASE HandleEnter
  BY <1>8 DEF HandleEnter, execute, SnakeStep
<1> QED
  BY <1>1, <1>2, <1>3, <1>4, <1>5, <1>6, <1>7, <1>8 DEF Next, Main

(* Whatever is typed, while the game runs the snake lies on the board and    *)
(* crosses neither itself nor the food, and cannot turn back into its neck.  *)
THEOREM SnakeIsSound == Spec => []SnakeSound
<1>1. Init => SnakeInv
  BY DEF Init, SnakeInit, SnakeInv
<1> QED
  BY <1>1, SnakeInvSound, SnakeKeeps, SnakeFootprint, PTL DEF Spec

-----------------------------------------------------------------------------
(* The FAT32 commands. *)

(* What the commands keep true of their locals and the volume. *)
Fields == {"op", "asked", "faulted", "phase", "path", "cur", "want", "cluster", "sector",
           "steps", "got", "to_read", "out"}
Phases == {"resolve", "walk", "read", "ok", "failed"}
Mounted == mount(vol.bs) /\ IsVolume(vol)
Bounded ==
  /\ DOMAIN call = Fields /\ call.phase \in Phases /\ IsEntry(call.cur)
  /\ call.cluster \in Nat /\ call.sector \in Nat \ {0} /\ call.steps \in Nat
  /\ call.got \in Nat /\ call.to_read \in Nat /\ call.to_read <= FAT_BUF
  /\ call.got <= FAT_BUF /\ call.steps <= clusters(vol.bs)
  /\ call.phase \in {"resolve", "walk"} => call.got = 0
  /\ call.phase = "read" => call.got <= call.to_read
  /\ call.phase \in {"walk", "read"} /\ call.sector > 1 => valid_cluster(call.cluster)
CallInv == call # NoCall => Bounded

(* Division as mount and next_cluster use it. *)
LEMMA Divides ==
  ASSUME NEW a \in Nat, NEW b \in Nat \ {0}
  PROVE  a \div b \in Nat /\ b * (a \div b) <= a
BY SMTT(60)

(* A product grows with its factors. *)
LEMMA Times ==
  ASSUME NEW x \in Nat, NEW y \in Nat, NEW s \in Nat, x <= y
  PROVE  x * s \in Nat /\ y * s \in Nat /\ x * s <= y * s
BY SMTT(60)

(* fat32.cpp, mount: the arithmetic behind GeometrySound. *)
LEMMA ClustersCount ==
  ASSUME NEW bs, {bs.spc, bs.reserved, bs.num_fats, bs.fat32_sectors, bs.total32} \subseteq Nat,
         mount(bs)
  PROVE  /\ clusters(bs) \in Nat /\ bs.spc \in Nat \ {0}
         /\ \A c \in 2 .. clusters(bs) + 1 :
              cluster_sector(bs, c) + bs.spc <= bs.total32 /\ c \div LINKS < bs.fat32_sectors
<1>1. PICK m \in Nat : m = bs.reserved + bs.num_fats * bs.fat32_sectors
  BY SMTT(60)
<1>2. PICK d \in Nat : d = bs.total32 - m /\ bs.total32 = m + d
  BY SMTT(60), <1>1 DEF mount
<1>3. PICK s \in Nat \ {0} : s = bs.spc
  BY SMTT(60) DEF mount
<1>4. PICK q \in Nat : q = clusters(bs) /\ s * q <= d
  BY <1>1, <1>2, <1>3, Divides DEF clusters
<1>5. ASSUME NEW c \in 2 .. clusters(bs) + 1
      PROVE  cluster_sector(bs, c) + bs.spc <= bs.total32 /\ c \div LINKS < bs.fat32_sectors
  <2>1. PICK x \in Nat : x = c - 2 /\ x + 1 <= q
    BY SMTT(60), <1>4
  <2>2. (x + 1) * s <= q * s /\ x * s \in Nat
    BY SMTT(60), <1>3, <2>1, Times
  <2>3. (x + 1) * s = x * s + s /\ q * s = s * q
    BY SMTT(60), <1>3
  <2>4. m + x * s + s <= m + d
    BY SMTT(60), <1>2, <1>3, <1>4, <2>2, <2>3
  <2>5. cluster_sector(bs, c) = m + x * s
    BY <1>1, <1>3, <2>1 DEF cluster_sector
  <2>6. PICK l \in Nat \ {0}, f \in Nat, e \in Nat : l = LINKS /\ f = bs.fat32_sectors /\ e = c \div LINKS
    BY SMTT(60), FatAssumption, Divides
  <2>7. l * e <= c /\ c < f * l
    <3>1. f * l >= q + 2
      BY <1>4, <2>6 DEF mount
    <3> QED
      BY SMTT(60), <1>4, <2>6, <3>1, Divides
  <2>8. e < f
    <3>1. SUFFICES ASSUME f <= e PROVE FALSE
      BY SMTT(60), <2>6
    <3>2. f * l <= e * l /\ e * l = l * e /\ f * l \in Nat /\ e * l \in Nat
      BY SMTT(60), <3>1, Times
    <3> QED
      BY SMTT(60), <2>7, <3>2
  <2> QED
    BY <1>2, <1>3, <2>4, <2>5, <2>6, <2>8
<1> QED
  BY <1>3, <1>4, <1>5

(* fat32.cpp, mount: on every boot sector it accepts, every cluster lies on  *)
(* the volume and has its entry in the FAT.                                  *)
THEOREM MountIsSound == GeometrySound
  BY FatAssumption, ClustersCount DEF GeometrySound

(* A nonempty set of naturals has a least element. *)
LEMMA Least ==
  ASSUME NEW S \in SUBSET Nat, S # {}
  PROVE  Min(S) \in S
<1> DEFINE R == OpToRel(<, Nat)
<1>1. PICK m \in S : \A n \in S : ~ (<<n, m>> \in R)
  <2> HIDE DEF R
  <2>1. IsWellFoundedOn(R, Nat)
    BY NatLessThanWellFounded DEF R
  <2> QED
    BY <2>1, WFMin
<1>2. \A n \in S : ~(n < m)
  BY <1>1 DEF OpToRel
<1>3. \E x \in S : \A y \in S : x =< y
  BY SMTT(60), <1>2
<1> QED
  BY <1>3 DEF Min

(* A command starts with nothing read and nothing walked. *)
LEMMA FatCallKeeps ==
  ASSUME Mounted, NEW op, NEW path, FatCall(op, path), UNCHANGED vol
  PROVE  CallInv'
<1>1. clusters(vol.bs) \in Nat
  BY ClustersCount DEF Mounted, IsVolume
<1>2. IsEntry(Root)
  <2>1. vol.bs.root_cluster \in Nat
    BY DEF Mounted, IsVolume
  <2> QED
    BY SMTT(60), <2>1 DEF Root, IsEntry
<1>3. clusters(vol.bs)' = clusters(vol.bs)
  BY DEF clusters
<1>4. /\ DOMAIN call' = Fields /\ call'.phase = "resolve" /\ call'.cur = Root /\ call'.cluster = 0
      /\ call'.sector = 1 /\ call'.steps = 0 /\ call'.got = 0 /\ call'.to_read = 0
  BY DEF FatCall, Fields
<1> QED
  BY SMTT(60), <1>1, <1>2, <1>3, <1>4, FatAssumption DEF CallInv, Bounded, Phases

(* What a step of a command may rely on. *)
LEMMA InCall ==
  ASSUME CallInv, Mounted, call.phase \in {"resolve", "walk", "read"}
  PROVE  /\ Bounded /\ clusters(vol.bs) \in Nat /\ vol.bs.spc \in Nat \ {0}
         /\ FAT_BUF \in Nat /\ SECTOR \in Nat
<1>1. call # NoCall
  BY SMTT(60) DEF NoCall
<1>2. clusters(vol.bs) \in Nat /\ vol.bs.spc \in Nat \ {0}
  BY ClustersCount DEF Mounted, IsVolume
<1> QED
  BY <1>1, <1>2, FatAssumption DEF CallInv, FatAssumption

(* A command that returns. *)
LEMMA ReturnsKeep ==
  ASSUME CallInv, Mounted, call.phase \in {"resolve", "walk", "read"}, UNCHANGED vol,
         NEW ok \in BOOLEAN, NEW got \in {0, call.got}, Returns(ok, got)
  PROVE  CallInv'
<1>1. /\ Bounded /\ clusters(vol.bs) \in Nat /\ vol.bs.spc \in Nat \ {0}
      /\ FAT_BUF \in Nat /\ SECTOR \in Nat
  BY InCall
<1>2. clusters(vol.bs)' = clusters(vol.bs) /\ call'.phase \in {"ok", "failed"}
  BY <1>1 DEF Bounded, clusters, Returns, Fields
<1>3. /\ DOMAIN call' = Fields /\ call'.cur = call.cur /\ call'.cluster = call.cluster
      /\ call'.sector = call.sector /\ call'.steps = call.steps /\ call'.got = got
      /\ call'.to_read = call.to_read
  BY <1>1 DEF Bounded, Returns, Fields
<1> QED
  BY SMTT(60), <1>2, <1>3, <1>1 DEF Bounded, CallInv, Phases

(* A command that fails at the disk. *)
LEMMA RefusedKeeps ==
  ASSUME CallInv, Mounted, call.phase \in {"resolve", "walk", "read"}, UNCHANGED vol,
         call' = [call EXCEPT !.phase = "failed", !.faulted = TRUE]
  PROVE  CallInv'
<1>1. /\ Bounded /\ clusters(vol.bs) \in Nat /\ vol.bs.spc \in Nat \ {0}
      /\ FAT_BUF \in Nat /\ SECTOR \in Nat
  BY InCall
<1>2. clusters(vol.bs)' = clusters(vol.bs) /\ call'.phase = "failed"
  BY <1>1 DEF Bounded, clusters, Fields
<1>3. /\ DOMAIN call' = Fields /\ call'.cur = call.cur /\ call'.cluster = call.cluster
      /\ call'.sector = call.sector /\ call'.steps = call.steps /\ call'.got = call.got
      /\ call'.to_read = call.to_read
  BY <1>1 DEF Bounded, Fields
<1> QED
  BY <1>2, <1>3, <1>1 DEF Bounded, CallInv, Phases

(* resolve, and the walk it begins. *)
LEMMA ResolveKeeps == ASSUME CallInv, Mounted, Resolve PROVE CallInv'
<1>1. call.phase = "resolve" /\ UNCHANGED vol
  BY DEF Resolve
<1>2. CASE Returns(FALSE, 0)
  BY <1>1, <1>2, ReturnsKeep
<1>3. ASSUME NEW phase \in {"walk", "read"}, NEW want, Walks(phase, want, call.cur.cluster)
      PROVE  CallInv'
  <2>1. /\ Bounded /\ clusters(vol.bs) \in Nat /\ vol.bs.spc \in Nat \ {0}
        /\ FAT_BUF \in Nat /\ SECTOR \in Nat
    BY <1>1, InCall
  <2>2. clusters(vol.bs)' = clusters(vol.bs) /\ call.cur.cluster \in Nat /\ call.cur.size \in Nat
    BY <1>1, <2>1 DEF Bounded, clusters, IsEntry
  <2>3. /\ DOMAIN call' = Fields /\ call'.phase = phase /\ call'.cur = call.cur
        /\ call'.cluster = call.cur.cluster /\ call'.sector = 1 /\ call'.steps = 0
        /\ call'.got = call.got
        /\ call'.to_read = IF phase = "read" THEN min(call.cur.size, FAT_BUF) ELSE 0
    BY <1>1, <1>3, <2>1 DEF Bounded, Walks, Fields
  <2>4. call'.to_read \in Nat /\ call'.to_read <= FAT_BUF
    BY SMTT(60), <1>1, <2>2, <2>3, <2>1 DEF Bounded, min
  <2> QED
    BY SMTT(60), <1>1, <2>2, <2>3, <2>4, <2>1 DEF Bounded, CallInv, Phases
<1> QED
  BY <1>2, <1>3 DEF Resolve

(* The sector a walk is at exists. *)
LEMMA HereExists ==
  ASSUME CallInv, Mounted, InSector, call.sector = 1 => enters
  PROVE  /\ here \in (2 .. clusters(vol.bs) + 1) \X (1 .. vol.bs.spc)
         /\ valid_cluster(call.cluster)
         /\ \A i \in DOMAIN vol.data[here] : i \in Nat /\ IsEntry(vol.data[here][i])
         /\ call.sector = 1 => call.steps + 1 <= clusters(vol.bs)
<1>1. call.phase \in {"walk", "read"} /\ call.sector <= vol.bs.spc
  BY DEF InSector
<1>2. /\ Bounded /\ clusters(vol.bs) \in Nat /\ vol.bs.spc \in Nat \ {0}
      /\ FAT_BUF \in Nat /\ SECTOR \in Nat
  BY <1>1, InCall
<1>3. valid_cluster(call.cluster) /\ (call.sector = 1 => call.steps + 1 <= clusters(vol.bs))
  BY SMTT(60), <1>1, <1>2 DEF Bounded, enters
<1>4. here \in (2 .. clusters(vol.bs) + 1) \X (1 .. vol.bs.spc)
  BY SMTT(60), <1>1, <1>3, <1>2 DEF Bounded, here, valid_cluster
<1>5. \A i \in DOMAIN vol.data[here] : i \in Nat /\ IsEntry(vol.data[here][i])
  BY <1>4, <1>2 DEF Bounded, Mounted, IsVolume
<1> QED
  BY <1>3, <1>4, <1>5, <1>2 DEF Bounded

(* walk_dir. *)
LEMMA WalkKeeps == ASSUME CallInv, Mounted, WalkSector PROVE CallInv'
<1>1. /\ call.phase = "walk" /\ UNCHANGED vol /\ InSector /\ (call.sector = 1 => enters)
  BY DEF WalkSector
<1>2. /\ Bounded /\ clusters(vol.bs) \in Nat /\ vol.bs.spc \in Nat \ {0}
      /\ FAT_BUF \in Nat /\ SECTOR \in Nat
  BY <1>1, InCall
<1>3. PICK sector : /\ sector = vol.data[here]
                    /\ \A i \in DOMAIN sector : i \in Nat /\ IsEntry(sector[i])
  BY <1>1, HereExists
<1>4. clusters(vol.bs)' = clusters(vol.bs)
  BY <1>1, <1>2 DEF Bounded, clusters
<1>5. CASE wanted(sector) # {}
  <2>1. PICK i \in DOMAIN sector : i = Min(wanted(sector))
    <3>1. wanted(sector) \subseteq DOMAIN sector
      BY <1>2, Zenon DEF Bounded, wanted, live
    <3>2. DOMAIN sector \subseteq Nat
      BY <1>3, <1>2 DEF Bounded
    <3>3. Min(wanted(sector)) \in wanted(sector)
      BY <1>5, <3>1, <3>2, Least
    <3> QED
      BY <3>1, <3>3, <1>2 DEF Bounded
  <2>2. IsEntry(sector[i]) /\ vol.bs.root_cluster \in Nat
    BY <1>3, <1>2 DEF Bounded, Mounted, IsVolume
  <2>3. IsEntry(entry_found(sector[i]))
    BY <2>2, <1>2 DEF Bounded, entry_found, IsEntry
  <2>4. call' = [call EXCEPT !.phase = "resolve", !.path = Tail(@), !.cur = entry_found(sector[i])]
    BY <1>3, <1>5, <2>1, <1>2 DEF Bounded, WalkSector
  <2>5. /\ DOMAIN call' = Fields /\ call'.phase = "resolve" /\ call'.cur = entry_found(sector[i])
        /\ call'.cluster = call.cluster /\ call'.sector = call.sector /\ call'.steps = call.steps
        /\ call'.got = call.got /\ call'.to_read = call.to_read
    BY <1>1, <2>4, <1>2 DEF Bounded, Fields
  <2> QED
    BY <1>1, <1>4, <2>3, <2>5, <1>2 DEF Bounded, CallInv, Phases
<1>6. CASE wanted(sector) = {} /\ ends_at(sector)
  <2>1. call' = [call EXCEPT !.phase = IF call.want = "" THEN "ok" ELSE "failed", !.out = listed(sector)]
    BY <1>3, <1>6, <1>2 DEF Bounded, WalkSector
  <2>2. /\ DOMAIN call' = Fields /\ call'.phase \in {"ok", "failed"} /\ call'.cur = call.cur
        /\ call'.cluster = call.cluster /\ call'.sector = call.sector /\ call'.steps = call.steps
        /\ call'.got = call.got /\ call'.to_read = call.to_read
    BY <1>1, <2>1, <1>2 DEF Bounded, Fields
  <2> QED
    BY <1>1, <1>4, <2>2, <1>2 DEF Bounded, CallInv, Phases
<1>7. CASE wanted(sector) = {} /\ ~ends_at(sector)
  <2>1. call' = [Onward EXCEPT !.out = listed(sector)]
    BY <1>3, <1>7, <1>2 DEF Bounded, WalkSector
  <2>2. /\ DOMAIN call' = Fields /\ call'.phase = call.phase /\ call'.cur = call.cur
        /\ call'.cluster = call.cluster /\ call'.sector = call.sector + 1
        /\ call'.steps = (IF call.sector = 1 THEN call.steps + 1 ELSE call.steps)
        /\ call'.got = call.got /\ call'.to_read = call.to_read
    BY <1>1, <2>1, <1>2 DEF Bounded, Onward, Fields
  <2>3. valid_cluster(call.cluster) /\ (call.sector = 1 => call.steps + 1 <= clusters(vol.bs))
    BY <1>1, HereExists
  <2> QED
    <3>1. valid_cluster(call.cluster)'
      BY <1>4, <2>2, <2>3, <1>2 DEF Bounded, valid_cluster
    <3>2. call'.sector \in Nat \ {0} /\ call'.steps \in Nat /\ call'.steps <= clusters(vol.bs)
      BY SMTT(60), <1>1, <2>2, <2>3, <1>2 DEF Bounded
    <3> QED
      BY <1>1, <1>4, <2>2, <3>1, <3>2, <1>2 DEF Bounded, CallInv, Phases
<1> QED
  BY <1>5, <1>6, <1>7, <1>2 DEF Bounded

(* The loop of read: the buffer of fat cat is never overrun. *)
LEMMA ReadKeeps == ASSUME CallInv, Mounted, ReadSector PROVE CallInv'
<1>1. call.phase = "read" /\ UNCHANGED vol /\ InSector /\ (call.sector = 1 => enters)
  BY DEF ReadSector
<1>2. /\ Bounded /\ clusters(vol.bs) \in Nat /\ vol.bs.spc \in Nat \ {0}
      /\ FAT_BUF \in Nat /\ SECTOR \in Nat
  BY <1>1, InCall
<1>3. clusters(vol.bs)' = clusters(vol.bs)
  BY <1>1, <1>2 DEF Bounded, clusters
<1>4. /\ DOMAIN call' = Fields /\ call'.phase = call.phase /\ call'.cur = call.cur
      /\ call'.cluster = call.cluster /\ call'.sector = call.sector + 1
      /\ call'.steps = (IF call.sector = 1 THEN call.steps + 1 ELSE call.steps)
      /\ call'.got = call.got + min(SECTOR, call.to_read - call.got) /\ call'.to_read = call.to_read
  BY <1>1, <1>2 DEF Bounded, ReadSector, Onward, Fields
<1>5. call'.got \in Nat /\ call'.got <= call.to_read
  <2>1. call.got \in Nat /\ call.to_read \in Nat /\ call.got <= call.to_read
    BY <1>1, <1>2 DEF Bounded
  <2>2. \A g, n \in Nat : g <= n => g + min(SECTOR, n - g) \in Nat /\ g + min(SECTOR, n - g) <= n
    BY SMTT(60), <1>2 DEF min
  <2>3. call'.got = call.got + min(SECTOR, call.to_read - call.got)
    BY <1>4
  <2> QED
    BY <2>1, <2>2, <2>3
<1>6. valid_cluster(call.cluster) /\ (call.sector = 1 => call.steps + 1 <= clusters(vol.bs))
  BY <1>1, HereExists
<1> QED
  BY SMTT(60), <1>1, <1>3, <1>4, <1>5, <1>6, <1>2 DEF Bounded, CallInv, Phases, valid_cluster

(* next_cluster follows a link that names a cluster. *)
LEMMA FollowKeeps == ASSUME CallInv, Mounted, AtEnd, Follow, UNCHANGED vol PROVE CallInv'
<1>1. call.phase \in {"walk", "read"} /\ call.sector > vol.bs.spc
  BY DEF AtEnd
<1>2. /\ Bounded /\ clusters(vol.bs) \in Nat /\ vol.bs.spc \in Nat \ {0}
      /\ FAT_BUF \in Nat /\ SECTOR \in Nat
  BY <1>1, InCall
<1>3. clusters(vol.bs)' = clusters(vol.bs)
  BY <1>2 DEF Bounded, clusters
<1>4. CASE \E ok \in BOOLEAN : Returns(ok, call.got)
  BY <1>1, <1>4, ReturnsKeep
<1>5. ASSUME NEW c \in Nat, call' = [call EXCEPT !.cluster = c, !.sector = 1] PROVE CallInv'
  <2>1. /\ DOMAIN call' = Fields /\ call'.phase = call.phase /\ call'.cur = call.cur
        /\ call'.cluster = c /\ call'.sector = 1 /\ call'.steps = call.steps
        /\ call'.got = call.got /\ call'.to_read = call.to_read
    BY <1>1, <1>5, <1>2 DEF Bounded, Fields
  <2> QED
    BY SMTT(60), <1>1, <1>3, <2>1, <1>2 DEF Bounded, CallInv, Phases
<1>6. link \in Nat
  <2>1. \A c \in DOMAIN vol.fat : vol.fat[c] \in Nat
    BY DEF Mounted, IsVolume
  <2>2. 2 \in Nat /\ FAT_EOC \in Nat
    BY SMTT(60) DEF FAT_EOC
  <2> QED
    BY <2>1, <2>2 DEF link
<1> QED
  BY <1>4, <1>5, <1>6, <1>2 DEF Bounded, Follow

(* Every step of a command. *)
LEMMA FatStepKeeps == ASSUME CallInv, Mounted, FatStep PROVE CallInv' /\ UNCHANGED vol
<1>1. CASE Resolve
  BY <1>1, ResolveKeeps DEF Resolve
<1>2. CASE BadCluster \/ Finish
  <2>1. call.phase \in {"resolve", "walk", "read"} /\ UNCHANGED vol
    BY <1>2 DEF BadCluster, Finish, InSector
  <2>2. \E ok \in BOOLEAN, got \in {0, call.got} : Returns(ok, got)
    BY <1>2 DEF BadCluster, Finish
  <2> QED
    BY <2>1, <2>2, ReturnsKeep
<1>3. CASE DiskRefuses \/ NextRefused
  <2>1. /\ call.phase \in {"resolve", "walk", "read"} /\ UNCHANGED vol
        /\ call' = [call EXCEPT !.phase = "failed", !.faulted = TRUE]
    BY <1>3 DEF DiskRefuses, NextRefused, InSector, AtEnd
  <2> QED
    BY <2>1, RefusedKeeps
<1>4. CASE WalkSector \/ ReadSector
  BY <1>4, WalkKeeps, ReadKeeps DEF WalkSector, ReadSector
<1>5. CASE NextCached \/ NextLoaded
  BY <1>5, FollowKeeps DEF NextCached, NextLoaded
<1> QED
  BY <1>1, <1>2, <1>3, <1>4, <1>5 DEF FatStep

-----------------------------------------------------------------------------
(* The line and the commands. *)

(* What handle_char keeps true of the line. *)
CommandInv == command \in Seq(Printable) /\ Len(command) < COMMAND_CAPACITY

(* shell.cpp, handle_char: a character is appended only with room left for   *)
(* the NUL.                                                                  *)
LEMMA EditedKeeps == ASSUME CommandInv, command' = edited PROVE CommandInv'
<1>1. /\ command \in Seq(Printable) /\ Len(command) \in Nat /\ Len(command) < COMMAND_CAPACITY
      /\ COMMAND_CAPACITY \in Nat
  BY SMTT(60), CommandAssumption DEF CommandInv
<1>2. "Back" \notin Printable
  BY SMTT(60) DEF Printable, Letters, capital
<1>3. CASE ch = "Back" /\ command # <<>>
  <2>1. edited = SubSeq(command, 1, Len(command) - 1)
    BY <1>2, <1>3 DEF edited
  <2>2. PICK n \in Nat : n = Len(command) - 1
    <3>1. Len(command) > 0
      BY SMTT(60), <1>1, <1>3
    <3> QED
      BY SMTT(60), <1>1, <3>1
  <2>3. SubSeq(command, 1, n) \in Seq(Printable) /\ Len(SubSeq(command, 1, n)) = n
    <3>1. \A i \in 1 .. n : command[i] \in Printable
      BY SMTT(60), <1>1, <2>2
    <3> QED
      BY SMTT(60), <1>1, <2>2, <3>1
  <2> QED
    BY SMTT(60), <1>1, <2>1, <2>2, <2>3 DEF CommandInv
<1>4. CASE ch \in Printable /\ Len(command) + 1 < COMMAND_CAPACITY
  <2>1. edited = Append(command, ch)
    BY <1>2, <1>4 DEF edited
  <2> QED
    BY SMTT(60), <1>1, <1>4, <2>1 DEF CommandInv
<1>5. CASE ~(ch = "Back" /\ command # <<>>) /\ ~(ch \in Printable /\ Len(command) + 1 < COMMAND_CAPACITY)
  <2>1. edited = command
    BY <1>5 DEF edited
  <2> QED
    BY <2>1 DEF CommandInv
<1> QED
  BY <1>3, <1>4, <1>5

(* Only handle_char and the commands touch the line and the volume. *)
LEMMA ShellFootprint ==
  ASSUME [Next]_vars
  PROVE  \/ UNCHANGED <<fat, command>>
         \/ UNCHANGED <<vol, command>> /\ (call' = NoCall \/ FatStep)
         \/ UNCHANGED fat /\ command' = edited
         \/ command' = <<>> /\ UNCHANGED vol
              /\ (UNCHANGED call \/ \E op, path : FatCall(op, path))
<1>1. CASE UNCHANGED vars
  BY <1>1 DEF vars
<1>2. CASE Present \/ Irq \/ (\E k \in script[1] : Stroke(k)) \/ (\E n \in Sessions[session].lengths : SysRead(n))
  BY <1>2 DEF Present, Irq, Stroke, SysRead
<1>3. CASE Wake \/ PollStatus \/ PollData \/ PollScan \/ PollStore \/ PollAdvance \/ ShellTick
           \/ LoadHead \/ CheckChar \/ LoadChar \/ LoadTail \/ StoreTail \/ HandleKey
  BY <1>3 DEF Wake, PollStatus, PollData, PollScan, PollStore, PollAdvance, ShellTick, LoadHead,
              CheckChar, LoadChar, LoadTail, StoreTail, HandleKey
<1>4. CASE Available \/ FatCommand
  <2>1. UNCHANGED command /\ ((call' = NoCall /\ UNCHANGED vol) \/ FatStep)
    BY <1>4 DEF Available, FatCommand
  <2>2. FatStep => UNCHANGED vol
    BY DEF FatStep, Resolve, BadCluster, DiskRefuses, WalkSector, ReadSector, Finish, NextCached,
           NextLoaded, NextRefused
  <2> QED
    BY <2>1, <2>2
<1>5. CASE HandleChar
  BY <1>5 DEF HandleChar
<1>6. CASE HandleEnter
  BY <1>6 DEF HandleEnter, execute, fat
<1> QED
  BY <1>1, <1>2, <1>3, <1>4, <1>5, <1>6 DEF Next, Main

(* The invariant of the shell and its commands. *)
ShellInv == CommandInv /\ Mounted /\ CallInv

(* It holds once mount has accepted the volume. *)
LEMMA ShellInit == Init => ShellInv
<1> SUFFICES ASSUME Init PROVE ShellInv
  OBVIOUS
<1>1. Mounted
  BY SessionsAssumption DEF Init, Mounted
<1>2. CommandInv
  BY SMTT(60), CommandAssumption DEF Init, CommandInv
<1>3. CallInv
  BY DEF Init, CallInv
<1> QED
  BY <1>1, <1>2, <1>3 DEF ShellInv

(* Every step keeps it. *)
LEMMA ShellStep == ShellInv /\ [Next]_vars => ShellInv'
<1> SUFFICES ASSUME ShellInv, [Next]_vars PROVE ShellInv'
  OBVIOUS
<1>1. CommandInv /\ Mounted /\ CallInv
  BY DEF ShellInv
<1>2. UNCHANGED vol
  BY ShellFootprint DEF fat
<1>3. Mounted'
  BY <1>1, <1>2 DEF Mounted, mount, IsVolume, clusters
<1>4. CommandInv'
  <2>1. CASE UNCHANGED command
    BY <1>1, <2>1 DEF CommandInv
  <2>2. CASE command' = <<>>
    BY SMTT(60), <2>2, CommandAssumption DEF CommandInv
  <2> QED
    BY <1>1, <2>1, <2>2, ShellFootprint, EditedKeeps
<1>5. CallInv'
  <2>1. CASE UNCHANGED call
    BY <1>1, <1>2, <2>1 DEF CallInv, Bounded, clusters, valid_cluster
  <2>2. CASE call' = NoCall
    BY <2>2 DEF CallInv, Bounded
  <2>3. CASE FatStep
    BY <1>1, <2>3, FatStepKeeps
  <2>4. CASE \E op, path : FatCall(op, path)
    BY <1>1, <1>2, <2>4, FatCallKeeps
  <2> QED
    BY <2>1, <2>2, <2>3, <2>4, ShellFootprint DEF fat
<1> QED
  BY <1>3, <1>4, <1>5 DEF ShellInv

(* keyboard.cpp, shell.cpp and fat32.cpp: the ring's indices stay in the     *)
(* ring, the line leaves room for its NUL, fat cat never writes behind its   *)
(* buffer, and no walk enters more clusters than the volume has.             *)
THEOREM ConsoleTyped == Spec => []TypeOK
<1>1. KeysInv /\ ShellInv => TypeOK
  <2> SUFFICES ASSUME KeysInv, ShellInv PROVE TypeOK
    OBVIOUS
  <2>1. {queue_head, queue_tail, next_head, next_tail} \subseteq DOMAIN queue
    BY DEF KeysInv, KeyTypes
  <2>2. Range(command) \subseteq Printable /\ Len(command) < COMMAND_CAPACITY
    BY SMTT(60) DEF ShellInv, CommandInv, Range
  <2>3. call # NoCall => call.got <= FAT_BUF /\ call.steps <= clusters(vol.bs)
    BY DEF ShellInv, CallInv, Bounded
  <2> QED
    BY <2>1, <2>2, <2>3 DEF TypeOK
<1> QED
  BY <1>1, KeysInit, KeysStep, ShellInit, ShellStep, PTL DEF Spec

=============================================================================
