-------------------------- MODULE HeapShapeProofs ---------------------------
(***************************************************************************)
(* More about the heap and the frame allocator: kfree accepts every block  *)
(* a caller holds, free blocks are merged, a frame has one owner and the   *)
(* count of free frames is right.                                          *)
(***************************************************************************)
EXTENDS HeapProofs

-----------------------------------------------------------------------------
(* Lengths, alignment and the range of the heap. *)

(* A multiple of ALIGNMENT plus a rest leaves that rest. *)
LEMMA Remainder ==
  ASSUME NEW q \in Int, NEW r \in 0 .. ALIGNMENT - 1
  PROVE  (q * ALIGNMENT + r) % ALIGNMENT = r
<1>1. ALIGNMENT \in Nat \ {0} /\ q * ALIGNMENT \in Int
  BY HeapAssumption
<1> QED
  BY <1>1

Aligned(n) == n % ALIGNMENT = 0

(* An aligned number is a multiple of ALIGNMENT, and the other way round. *)
LEMMA AlignedMultiple ==
  ASSUME NEW n \in Int
  PROVE  Aligned(n) <=> \E q \in Int : n = q * ALIGNMENT
<1>1. ALIGNMENT \in Nat \ {0}
  BY HeapAssumption
<1>2. ASSUME Aligned(n) PROVE \E q \in Int : n = q * ALIGNMENT
  <2>1. n = (n \div ALIGNMENT) * ALIGNMENT /\ n \div ALIGNMENT \in Int
    BY <1>1, <1>2 DEF Aligned
  <2> QED
    BY <2>1
<1>3. ASSUME NEW q \in Int, n = q * ALIGNMENT PROVE Aligned(n)
  <2>1. (q * ALIGNMENT + 0) % ALIGNMENT = 0
    BY <1>1, Remainder
  <2>2. q * ALIGNMENT + 0 = n
    BY <1>1, <1>3
  <2> QED
    BY <2>1, <2>2 DEF Aligned
<1> QED
  BY <1>2, <1>3

(* Sums and differences of aligned numbers are aligned. *)
LEMMA AlignedSum ==
  ASSUME NEW m \in Int, NEW n \in Int, Aligned(m), Aligned(n)
  PROVE  Aligned(m + n) /\ Aligned(m - n)
<1>1. PICK p \in Int : m = p * ALIGNMENT
  BY AlignedMultiple
<1>2. PICK q \in Int : n = q * ALIGNMENT
  BY AlignedMultiple
<1>3. m + n = (p + q) * ALIGNMENT /\ m - n = (p - q) * ALIGNMENT
  BY <1>1, <1>2, HeapAssumption
<1> QED
  BY <1>3, AlignedMultiple

(* Every frame starts at an aligned address. *)
LEMMA AlignedFrame ==
  ASSUME NEW f \in Nat
  PROVE  Aligned(f * FRAME_SIZE) /\ Aligned(FRAME_SIZE) /\ Aligned(HEADER) /\ Aligned(FRAME_SIZE - HEADER)
<1>1. Aligned(FRAME_SIZE) /\ Aligned(HEADER) /\ FRAME_SIZE \in Int /\ HEADER \in Int
  BY HeapAssumption DEF Aligned
<1>2. PICK q \in Int : FRAME_SIZE = q * ALIGNMENT
  BY <1>1, AlignedMultiple
<1>3. f * FRAME_SIZE = (f * q) * ALIGNMENT /\ f * q \in Int /\ f * FRAME_SIZE \in Int
  BY <1>2, HeapAssumption
<1> QED
  BY SMTT(60), <1>1, <1>3, AlignedMultiple, AlignedSum

(* What kmalloc looks for is a multiple of ALIGNMENT. *)
LEMMA AlignUpAligned == ASSUME NEW n \in Nat PROVE Aligned(align_up(n))
<1>1. (n + ALIGNMENT - 1) \div ALIGNMENT \in Int /\ align_up(n) \in Int
  BY HeapAssumption DEF align_up
<1> QED
  BY <1>1, AlignedMultiple DEF align_up

(* Every header lies at an aligned address, and every block has an aligned   *)
(* length that is not 0.                                                     *)
Shaped(B) == \A a \in DOMAIN B : Aligned(a) /\ Aligned(B[a].size) /\ B[a].size > 0

(* Merging two blocks keeps addresses and lengths aligned. *)
LEMMA AbsorbShaped ==
  ASSUME NEW B, List(B), Shaped(B), NEW a \in DOMAIN B, NEW b \in DOMAIN B, a # b
  PROVE  Shaped(absorb(B, a, b))
<1> DEFINE C == absorb(B, a, b)
<1>1. /\ DOMAIN C = DOMAIN B \ {b} /\ C[a].size = B[a].size + HEADER + B[b].size
      /\ \A x \in DOMAIN C : x # a => C[x] = B[x]
  BY SMTT(60) DEF absorb, List
<1>2. /\ B[a].size \in Nat /\ B[b].size \in Nat /\ HEADER \in Nat
      /\ B[a].size \in Int /\ B[b].size \in Int /\ HEADER \in Int /\ B[a].size + HEADER \in Int
      /\ B[a].size > 0 /\ Aligned(B[a].size) /\ Aligned(B[b].size) /\ Aligned(HEADER)
  BY SMTT(60), AlignedFrame, HeapAssumption DEF List, Shaped
<1>3. Aligned(B[a].size + HEADER)
  BY ZenonT(60), <1>2, AlignedSum
<1>4. Aligned(B[a].size + HEADER + B[b].size)
  BY ZenonT(60), <1>2, <1>3, AlignedSum
<1>5. C[a].size > 0
  BY SMTT(60), <1>1, <1>2
<1> HIDE DEF C
<1>6. Shaped(C)
  BY SMTT(60), <1>1, <1>4, <1>5 DEF Shaped
<1> QED
  BY <1>6 DEF C

(* So does writing a header. *)
LEMMA PutShaped ==
  ASSUME NEW B, Shaped(B), NEW a, NEW n, Aligned(a), Aligned(n), n > 0, NEW flag
  PROVE  Shaped(PutBlock(B, a, n, flag))
  BY DEF Shaped, PutBlock

(* So does the merge with the block before, ... *)
LEMMA MergePrevShaped ==
  ASSUME NEW B, NEW G \in SUBSET Nat, List(B), Tiles(B, G), Shaped(B), NEW a \in DOMAIN B
  PROVE  Shaped(merge_prev(B, a))
<1> DEFINE p == prev(B, a)
<1>1. CASE p # nullptr /\ B[p].free /\ adjacent(B, p, a)
  <2>1. p \in DOMAIN B
    BY SMTT(60), <1>1, Neighbours
  <2>2. p # a
    BY ZenonT(60), <1>1, <2>1, AbsorbTiles
  <2>3. Shaped(absorb(B, p, a))
    BY <2>1, <2>2, AbsorbShaped
  <2> QED
    BY <1>1, <2>3 DEF merge_prev
<1>2. CASE ~(p # nullptr /\ B[p].free /\ adjacent(B, p, a))
  BY <1>2 DEF merge_prev
<1> QED
  BY SMTT(60), <1>1, <1>2

(* ... the growth of the heap by a frame, ... *)
LEMMA InsertShaped ==
  ASSUME NEW B, NEW G \in SUBSET Nat, List(B), Tiles(B, G), Shaped(B), NEW f \in Nat, f \notin G
  PROVE  Shaped(insert_free_block(B, f * FRAME_SIZE, FRAME_SIZE - HEADER))
<1> DEFINE a  == f * FRAME_SIZE
           B0 == PutBlock(B, a, FRAME_SIZE - HEADER, TRUE)
           b  == next(B0, a)
           B1 == IF b # nullptr /\ adjacent(B0, a, b) THEN absorb(B0, a, b) ELSE B0
           H  == G \cup {f}
<1>1. List(B0) /\ Tiles(B0, H) /\ a \in DOMAIN B0 /\ H \in SUBSET Nat
  BY ZenonT(60), FrameTiles
<1>2. Shaped(B0)
  <2>1. FRAME_SIZE - HEADER > 0
    BY SMTT(60), HeapAssumption
  <2> QED
    BY ZenonT(60), <2>1, AlignedFrame, PutShaped
<1> HIDE DEF B0, a, H
<1>3. List(B1) /\ Tiles(B1, H) /\ Shaped(B1) /\ a \in DOMAIN B1
  <2>1. CASE b # nullptr /\ adjacent(B0, a, b)
    <3>1. b \in DOMAIN B0
      BY SMTT(60), <1>1, <2>1, Neighbours
    <3>2. List(absorb(B0, a, b)) /\ Tiles(absorb(B0, a, b), H) /\ DOMAIN absorb(B0, a, b) = DOMAIN B0 \ {b} /\ a # b
      BY SMTT(60), <1>1, <2>1, <3>1, AbsorbTiles
    <3>3. Shaped(absorb(B0, a, b))
      BY SMTT(60), <1>1, <1>2, <3>1, <3>2, AbsorbShaped
    <3> QED
      BY SMTT(60), <1>1, <2>1, <3>2, <3>3
  <2>2. CASE ~(b # nullptr /\ adjacent(B0, a, b))
    BY <1>1, <1>2, <2>2
  <2> QED
    BY SMTT(60), <2>1, <2>2
<1> HIDE DEF B1
<1>4. Shaped(merge_prev(B1, a))
  BY SMTT(60), <1>1, <1>3, MergePrevShaped
<1> QED
  BY ZenonT(60), <1>4 DEF insert_free_block, B1, B0, a

(* ... the end of kfree ... *)
LEMMA ReleaseShaped ==
  ASSUME NEW B, NEW G \in SUBSET Nat, List(B), Tiles(B, G), Shaped(B), NEW a \in DOMAIN B
  PROVE  Shaped(release(B, a))
<1> DEFINE B0 == PutBlock(B, a, B[a].size, TRUE)
           b  == next(B0, a)
           B1 == IF b # nullptr /\ B0[b].free /\ adjacent(B0, a, b) THEN absorb(B0, a, b) ELSE B0
<1>1. List(B0) /\ Tiles(B0, G) /\ DOMAIN B0 = DOMAIN B
  BY ZenonT(60), FlagTiles
<1>2. Shaped(B0)
  BY ZenonT(60), PutShaped DEF Shaped
<1> HIDE DEF B0
<1>3. List(B1) /\ Tiles(B1, G) /\ Shaped(B1) /\ a \in DOMAIN B1
  <2>1. CASE b # nullptr /\ B0[b].free /\ adjacent(B0, a, b)
    <3>1. b \in DOMAIN B0
      BY SMTT(60), <1>1, <2>1, Neighbours
    <3>2. List(absorb(B0, a, b)) /\ Tiles(absorb(B0, a, b), G) /\ DOMAIN absorb(B0, a, b) = DOMAIN B0 \ {b} /\ a # b
      BY SMTT(60), <1>1, <2>1, <3>1, AbsorbTiles
    <3>3. Shaped(absorb(B0, a, b))
      BY SMTT(60), <1>1, <1>2, <3>1, <3>2, AbsorbShaped
    <3> QED
      BY SMTT(60), <1>1, <2>1, <3>2, <3>3
  <2>2. CASE ~(b # nullptr /\ B0[b].free /\ adjacent(B0, a, b))
    BY SMTT(60), <1>1, <1>2, <2>2
  <2> QED
    BY SMTT(60), <2>1, <2>2
<1> HIDE DEF B1
<1>4. Shaped(merge_prev(B1, a))
  BY SMTT(60), <1>3, MergePrevShaped
<1> QED
  BY ZenonT(60), <1>4 DEF release, B1, B0

(* ... and the split of kmalloc. *)
LEMMA SplitShaped ==
  ASSUME NEW B, List(B), Shaped(B), NEW a \in DOMAIN B,
         NEW n \in Nat \ {0}, Aligned(n), n <= B[a].size
  PROVE  Shaped(split(B, a, n))
<1>0. /\ B[a].size \in Nat /\ a \in Nat /\ HEADER \in Nat /\ MIN_SPLIT_REMAINDER \in Nat \ {0}
      /\ Aligned(a) /\ Aligned(B[a].size) /\ Aligned(HEADER) /\ B[a].size > 0
  BY SMTT(60), AlignedFrame, HeapAssumption DEF List, Shaped
<1> DEFINE s == B[a].size
<1> HIDE DEF s
<1>1. CASE ~(B[a].size - n >= HEADER + MIN_SPLIT_REMAINDER)
  BY ZenonT(60), <1>0, <1>1, PutShaped DEF split
<1>2. CASE B[a].size - n >= HEADER + MIN_SPLIT_REMAINDER
  <2> DEFINE C == PutBlock(B, a, n, FALSE)
             c == a + HEADER + n
             r == s - n - HEADER
  <2>1. Shaped(C)
    <3>1. n > 0
      BY SMTT(60)
    <3> QED
      BY ZenonT(60), <1>0, <3>1, PutShaped
  <2>2. s \in Int /\ n \in Int /\ HEADER \in Int /\ a \in Int /\ a + HEADER \in Int /\ s - n \in Int
    BY <1>0 DEF s
  <2>3. Aligned(a + HEADER) /\ Aligned(s - n)
    BY ZenonT(60), <1>0, <2>2, AlignedSum DEF s
  <2>4. Aligned(c) /\ Aligned(r) /\ r > 0
    <3>1. Aligned(c) /\ Aligned(r)
      BY ZenonT(60), <1>0, <2>2, <2>3, AlignedSum
    <3>2. s - n - HEADER > 0
      BY <1>0, <1>2 DEF s
    <3> QED
      BY SMTT(60), <3>1, <3>2
  <2> HIDE DEF C, c, r
  <2>5. Shaped(PutBlock(C, c, r, TRUE))
    BY ZenonT(60), <2>1, <2>4, PutShaped
  <2> QED
    BY ZenonT(60), <1>2, <2>5 DEF split, C, c, r, s
<1> QED
  BY SMTT(60), <1>1, <1>2

(* What LiveAccepted and TypeOK rest on beyond ListInv: aligned headers and  *)
(* lengths, and a cached range of the heap that covers all its frames.       *)
ShapeInv ==
  /\ Shaped(blocks) /\ Aligned(want)
  /\ heap_min \in Memory /\ heap_max \in Memory
  /\ \A f \in grown : heap_min # 0 /\ heap_min <= f * FRAME_SIZE /\ (f + 1) * FRAME_SIZE <= heap_max
  /\ attempt \in 0 .. MAX_GROW_ATTEMPTS + 1

(* A managed frame lies in the managed memory. *)
LEMMA FrameInMemory ==
  ASSUME NEW f \in Frames
  PROVE  /\ f \in Nat /\ f * FRAME_SIZE \in Memory /\ (f + 1) * FRAME_SIZE \in Memory
         /\ f # 0 => f * FRAME_SIZE # 0
<1>1. f \in Nat /\ f + 1 <= MANAGED_FRAMES /\ MANAGED_FRAMES \in Nat /\ FRAME_SIZE \in Nat \ {0}
  BY HeapAssumption DEF Frames
<1>2. f * FRAME_SIZE \in Nat /\ (f + 1) * FRAME_SIZE = f * FRAME_SIZE + FRAME_SIZE
  BY <1>1
<1>3. ASSUME NEW k \in Nat, k <= MANAGED_FRAMES PROVE k * FRAME_SIZE <= MANAGED_FRAMES * FRAME_SIZE
  BY <1>1, <1>3
<1>4. (f + 1) * FRAME_SIZE <= MANAGED_FRAMES * FRAME_SIZE /\ MANAGED_FRAMES * FRAME_SIZE \in Nat
  BY <1>1, <1>3
<1>5. f # 0 => f * FRAME_SIZE # 0
  BY <1>1
<1> QED
  BY <1>1, <1>2, <1>4, <1>5 DEF Memory

(* pmm.cpp never hands out frame 0: it lies below the end of the kernel. *)
LEMMA NotFrameZero ==
  ASSUME FramesInv, NEW f \in Frames
  PROVE  (f \in free_frames \cup grown \cup others) => f # 0
<1>1. 0 < KERNEL_END /\ 0 \div FRAME_SIZE <= 0 /\ 0 < (KERNEL_END + FRAME_SIZE - 1) \div FRAME_SIZE
  BY HeapAssumption
<1>2. 0 \in Frames => 0 \in RangeFrames(0, KERNEL_END)
  BY <1>1 DEF RangeFrames
<1> QED
  BY <1>2 DEF FramesInv

(* Every step keeps ShapeInv. *)
LEMMA ShapeStep == ListInv /\ ShapeInv /\ [Next]_vars => ShapeInv'
<1> SUFFICES ASSUME ListInv, ShapeInv, [Next]_vars PROVE ShapeInv'
  OBVIOUS
<1>0. /\ FramesInv /\ grown \in SUBSET Frames /\ grown \in SUBSET Nat
      /\ List(blocks) /\ Tiles(blocks, grown) /\ want \in Nat
      /\ MAX_GROW_ATTEMPTS \in Nat
  <2>1. Frames \subseteq Nat
    BY DEF Frames
  <2>2. FramesInv /\ grown \subseteq Frames
    BY DEF ListInv, FramesInv
  <2> QED
    BY <2>1, <2>2, HeapAssumption DEF ListInv
<1>1. CASE UNCHANGED <<blocks, grown, heap_min, heap_max, want, attempt>>
  <2>1. Shaped(blocks)' /\ Aligned(want)'
    BY SMTT(60), <1>1 DEF ShapeInv, Shaped, Aligned
  <2> QED
    BY SMTT(60), <1>1, <2>1 DEF ShapeInv, Memory
<1>2. ASSUME NEW n \in Sizes, Kmalloc(n) PROVE ShapeInv'
  <2>1. n \in Nat /\ want' = align_up(n) /\ UNCHANGED <<blocks, grown, heap_min, heap_max, attempt>>
    BY <1>2, HeapAssumption DEF Kmalloc, heap
  <2>2. Aligned(align_up(n))
    BY SMTT(60), <2>1, AlignUpAligned
  <2> QED
    BY <2>1, <2>2 DEF ShapeInv, Shaped, Aligned, Memory
<1>3. CASE Take
  <2>1. PICK a \in Fits : blocks' = split(blocks, a, want)
    BY SMTT(60), <1>3 DEF Take
  <2>2. a \in DOMAIN blocks /\ want <= blocks[a].size /\ want \in Nat \ {0}
    BY SMTT(60), <1>0, <1>3 DEF Fits, List, Take
  <2>3. Shaped(split(blocks, a, want))
    BY <1>0, <2>2, SplitShaped DEF ShapeInv
  <2>4. Shaped(blocks')
    BY SMTT(60), <2>1, <2>3
  <2>5. Shaped(blocks)' /\ Aligned(want)' /\ attempt' = 0 /\ UNCHANGED <<grown, heap_min, heap_max>>
    <3>1. want' = 0 /\ attempt' = 0 /\ UNCHANGED <<grown, heap_min, heap_max>>
      BY <1>3 DEF Take
    <3>2. 0 % ALIGNMENT = 0
      BY SMTT(60), HeapAssumption
    <3> QED
      BY SMTT(60), <2>4, <3>1, <3>2 DEF Shaped, Aligned
  <2> QED
    BY <1>0, <2>5 DEF ShapeInv, Memory
<1>4. CASE Grow
  <2>1. PICK f \in Frames :
          /\ alloc_frame(f) /\ grown' = grown \cup {f}
          /\ blocks' = insert_free_block(blocks, f * FRAME_SIZE, FRAME_SIZE - HEADER)
          /\ heap_min' = range(<<heap_min, heap_max>>, f)[1]
          /\ heap_max' = range(<<heap_min, heap_max>>, f)[2]
    BY SMTT(60), <1>4 DEF Grow
  <2>2. f \in Nat /\ f \notin grown /\ f # 0
    BY SMTT(60), <1>0, <2>1, NotFrameZero, FrameInMemory DEF FramesInv, alloc_frame, free_frames
  <2>3. Shaped(blocks)'
    <3>1. Shaped(insert_free_block(blocks, f * FRAME_SIZE, FRAME_SIZE - HEADER))
      BY SMTT(60), <1>0, <2>2, InsertShaped DEF ShapeInv
    <3> QED
      BY SMTT(60), <2>1, <3>1 DEF Shaped, Aligned
  <2>4. /\ want' = want /\ attempt' \in 0 .. MAX_GROW_ATTEMPTS + 1
    BY <1>0, <1>4 DEF Grow, ShapeInv
  <2> DEFINE lo == f * FRAME_SIZE
             hi == (f + 1) * FRAME_SIZE
  <2>5. lo \in Memory /\ hi \in Memory /\ lo # 0
    BY SMTT(60), <2>2, FrameInMemory
  <2>6. /\ heap_min' = IF heap_min = 0 \/ lo < heap_min THEN lo ELSE heap_min
        /\ heap_max' = IF hi > heap_max THEN hi ELSE heap_max
    BY <2>1 DEF range
  <2>7. heap_min' \in Memory /\ heap_max' \in Memory
    <3> HIDE DEF lo, hi
    <3> QED
      BY <2>5, <2>6 DEF ShapeInv
  <2>8. ASSUME NEW g \in grown'
        PROVE  heap_min' # 0 /\ heap_min' <= g * FRAME_SIZE /\ (g + 1) * FRAME_SIZE <= heap_max'
    <3>1. CASE g = f
      <4>1. heap_min' # 0 /\ heap_min' <= lo /\ hi <= heap_max'
        <5> HIDE DEF lo, hi
        <5> QED
          BY <2>5, <2>6 DEF ShapeInv, Memory
      <4> QED
        BY SMTT(60), <3>1, <4>1
    <3>2. CASE g \in grown
      <4> DEFINE l == g * FRAME_SIZE
                 h == (g + 1) * FRAME_SIZE
      <4>1. heap_min # 0 /\ heap_min <= l /\ h <= heap_max /\ l \in Memory /\ h \in Memory
        BY SMTT(60), <1>0, <3>2, FrameInMemory DEF ShapeInv
      <4>2. heap_min' # 0 /\ heap_min' <= l /\ h <= heap_max'
        <5> HIDE DEF lo, hi, l, h
        <5> QED
          BY <2>5, <2>6, <4>1 DEF ShapeInv, Memory
      <4> QED
        BY <4>2
    <3> QED
      BY <2>1, <3>1, <3>2
  <2>9. Aligned(want)' /\ Memory' = Memory
    BY <2>4 DEF ShapeInv, Aligned, Memory
  <2> QED
    BY SMTT(60), <2>3, <2>4, <2>7, <2>8, <2>9 DEF ShapeInv
<1>5. ASSUME NEW p \in Memory, Kfree(p) PROVE ShapeInv'
  <2>1. UNCHANGED <<grown, heap_min, heap_max, want, attempt>>
    BY SMTT(60), <1>5 DEF Kfree
  <2>2. CASE Accepted(p)
    <3>1. Shaped(release(blocks, p - HEADER))
      BY SMTT(60), <1>0, <2>2, ReleaseShaped DEF Accepted, ShapeInv
    <3>2. blocks' = release(blocks, p - HEADER)
      BY SMTT(60), <1>5, <2>2 DEF Kfree
    <3>3. Shaped(blocks)'
      BY SMTT(60), <3>1, <3>2 DEF Shaped, Aligned
    <3> QED
      BY SMTT(60), <2>1, <3>3 DEF ShapeInv, Aligned, Memory
  <2>3. CASE ~Accepted(p)
    BY SMTT(60), <1>1, <1>5, <2>1, <2>3 DEF Kfree
  <2> QED
    BY <2>2, <2>3
<1>6. CASE GiveUp
  <2>1. want' = 0 /\ attempt' = 0 /\ UNCHANGED <<blocks, grown, heap_min, heap_max>> /\ 0 % ALIGNMENT = 0
    BY SMTT(60), <1>6, HeapAssumption DEF GiveUp, heap
  <2> QED
    BY SMTT(60), <1>0, <2>1 DEF ShapeInv, Shaped, Aligned, Memory
<1>7. CASE TakeFrame \/ (\E f \in Frames : ReturnFrame(f)) \/ UNCHANGED vars
  BY SMTT(60), <1>1, <1>7 DEF TakeFrame, ReturnFrame, heap, vars
<1> QED
  BY <1>2, <1>3, <1>4, <1>5, <1>6, <1>7 DEF Next

(* It holds of the empty heap of the boot. *)
LEMMA ShapeInit == Init => ShapeInv
<1>1. 0 % ALIGNMENT = 0 /\ 0 \in Memory /\ 0 \in 0 .. MAX_GROW_ATTEMPTS + 1
  BY HeapAssumption DEF Memory
<1> QED
  BY <1>1 DEF Init, ShapeInv, Shaped, Aligned

(* kfree accepts every pointer kmalloc has returned and nobody has freed: the *)
(* range and alignment tests of heap.cpp never turn a good pointer down,     *)
(* whatever frames the heap was given and in whatever order.                 *)
THEOREM LiveIsAccepted == Spec => []LiveAccepted
<1>1. ListInv /\ ShapeInv => LiveAccepted
  <2> SUFFICES ASSUME ListInv, ShapeInv, NEW a \in DOMAIN blocks, ~blocks[a].free
               PROVE  Accepted(a + HEADER)
    BY SMTT(60) DEF LiveAccepted, Live
  <2>1. /\ a \in Nat /\ blocks[a].size \in Nat /\ blocks[a].size > 0 /\ Aligned(a)
        /\ Tiles(blocks, grown) /\ grown \subseteq Nat
        /\ heap_min \in Nat /\ heap_max \in Nat
    <3>1. Frames \subseteq Nat /\ Memory \subseteq Nat
      BY SMTT(60) DEF Frames, Memory
    <3>2. grown \subseteq Frames /\ Tiles(blocks, grown) /\ a \in Nat /\ blocks[a].size \in Nat
      BY SMTT(60) DEF ListInv, FramesInv, List
    <3> QED
      BY <3>1, <3>2 DEF ShapeInv, Shaped
  <2> DEFINE z == BlockEnd(blocks, a) - 1
  <2>2. z \in Nat /\ a <= z /\ a + HEADER <= z /\ HEADER \in Nat
    BY SMTT(60), <2>1, HeapAssumption DEF BlockEnd
  <2>3. a \div FRAME_SIZE \in grown /\ z \div FRAME_SIZE \in grown
    <3>1. a \in a .. BlockEnd(blocks, a) - 1 /\ z \in a .. BlockEnd(blocks, a) - 1
      BY SMTT(60), <2>1, <2>2
    <3> QED
      BY SMTT(60), <2>1, <3>1 DEF Tiles
  <2> HIDE DEF z
  <2>4. (a \div FRAME_SIZE) * FRAME_SIZE <= a /\ z < (z \div FRAME_SIZE + 1) * FRAME_SIZE
    BY SMTT(60), <2>1, <2>2, HeapAssumption
  <2>5. heap_min # 0 /\ heap_min <= a /\ z < heap_max
    <3> DEFINE l == (a \div FRAME_SIZE) * FRAME_SIZE
               h == (z \div FRAME_SIZE + 1) * FRAME_SIZE
    <3>1. heap_min # 0 /\ heap_min <= l /\ h <= heap_max
      BY SMTT(60), <2>3 DEF ShapeInv
    <3>2. l \in Int /\ h \in Int /\ l <= a /\ z < h
      BY SMTT(60), <2>1, <2>2, <2>4, HeapAssumption
    <3> HIDE DEF l, h
    <3> QED
      BY SMTT(60), <2>1, <2>2, <3>1, <3>2
  <2>6. Aligned(a + HEADER)
    <3>1. a \in Int /\ HEADER \in Int /\ Aligned(HEADER)
      BY SMTT(60), <2>1, <2>2, AlignedFrame
    <3> QED
      BY SMTT(60), <2>1, <3>1, AlignedSum
  <2>7. a + HEADER - HEADER = a
    BY SMTT(60), <2>1, <2>2
  <2> QED
    BY SMTT(60), <2>1, <2>2, <2>5, <2>6, <2>7 DEF Accepted, Aligned
<1> QED
  BY <1>1, ListInit, ListStep, ShapeInit, ShapeStep, PTL DEF Spec

-----------------------------------------------------------------------------
(* Merging. *)

(* Coalesced of a list B; JoinedBut leaves out the pair that ends at a, which *)
(* merge_prev has still to look at.                                          *)
Joined(B) ==
  \A x \in DOMAIN B : B[x].free /\ BlockEnd(B, x) \in DOMAIN B => ~B[BlockEnd(B, x)].free
JoinedBut(B, a) ==
  \A x \in DOMAIN B :
    B[x].free /\ BlockEnd(B, x) \in DOMAIN B /\ BlockEnd(B, x) # a => ~B[BlockEnd(B, x)].free

(* The neighbours in memory are the neighbours in the list, which is why     *)
(* looking at next and prev alone is enough.                                 *)
LEMMA Adjacent ==
  ASSUME NEW B, NEW G, List(B), Tiles(B, G), NEW a \in DOMAIN B, NEW b \in DOMAIN B, adjacent(B, a, b)
  PROVE  a < b /\ next(B, a) = b /\ prev(B, b) = a
<1>0. HEADER \in Nat \ {0}
  BY SMTT(60), HeapAssumption
<1>1. DOMAIN B \subseteq Nat /\ a < b /\ BlockEnd(B, a) = b
  BY SMTT(60), <1>0 DEF List, adjacent, BlockEnd
<1>2. \A c \in DOMAIN B : a < c => b <= c
  BY <1>1 DEF Tiles
<1>3. next(B, a) = b
  <2> DEFINE P(c) == c > a /\ \A d \in DOMAIN B : d > a => c <= d
             m == CHOOSE c \in DOMAIN B : P(c)
  <2>1. P(b)
    BY <1>1, <1>2
  <2>2. m \in DOMAIN B /\ P(m)
    BY <2>1
  <2>3. next(B, a) = m
    BY <1>1 DEF next
  <2> HIDE DEF m
  <2> QED
    BY SMTT(60), <1>1, <1>2, <2>2, <2>3
<1>4. prev(B, b) = a
  <2> DEFINE P(c) == c < b /\ \A d \in DOMAIN B : d < b => d <= c
             m == CHOOSE c \in DOMAIN B : P(c)
  <2>1. P(a)
    BY <1>1, <1>2
  <2>2. m \in DOMAIN B /\ P(m)
    BY <2>1
  <2>3. prev(B, b) = m
    BY <1>1 DEF prev
  <2>4. m < b /\ a <= m /\ m \in Nat
    BY SMTT(60), <1>1, <2>2
  <2> HIDE DEF m
  <2> QED
    BY SMTT(60), <1>1, <1>2, <2>2, <2>3, <2>4
<1> QED
  BY SMTT(60), <1>1, <1>3, <1>4

(* A block holds its own header. *)
LEMMA HeaderInBlock ==
  ASSUME NEW B, List(B), NEW a \in DOMAIN B
  PROVE  a \in Nat /\ a \in a .. BlockEnd(B, a) - 1
<1>1. a \in Nat /\ B[a].size \in Nat /\ HEADER \in Nat \ {0}
  BY HeapAssumption DEF List
<1> QED
  BY <1>1 DEF BlockEnd

(* No header lies at address 0, so no header is taken for nullptr. *)
LEMMA NoNullHeader ==
  ASSUME NEW B, NEW G, List(B), Tiles(B, G), 0 \notin G PROVE 0 \notin DOMAIN B
<1> SUFFICES ASSUME 0 \in DOMAIN B PROVE FALSE
  OBVIOUS
<1>1. 0 \in 0 .. BlockEnd(B, 0) - 1
  BY HeaderInBlock
<1>2. 0 \div FRAME_SIZE = 0
  BY SMTT(60), HeapAssumption
<1> QED
  BY <1>1, <1>2 DEF Tiles

(* What absorb does to the blocks. *)
LEMMA AbsorbGives ==
  ASSUME NEW B, List(B), NEW a \in DOMAIN B, NEW b \in DOMAIN B, a # b, adjacent(B, a, b)
  PROVE  LET C == absorb(B, a, b)
         IN  /\ DOMAIN C = DOMAIN B \ {b} /\ BlockEnd(C, a) = BlockEnd(B, b)
             /\ \A x \in DOMAIN C : C[x].free = B[x].free /\ (x # a => BlockEnd(C, x) = BlockEnd(B, x))
<1> DEFINE C == absorb(B, a, b)
<1>1. /\ DOMAIN C = DOMAIN B \ {b} /\ C[a] = [size |-> B[a].size + HEADER + B[b].size, free |-> B[a].free]
      /\ \A x \in DOMAIN C : x # a => C[x] = B[x]
  BY SMTT(60) DEF absorb, List
<1>2. B[a].size \in Nat /\ B[b].size \in Nat /\ a \in Nat /\ b \in Nat /\ HEADER \in Nat
  BY SMTT(60), HeapAssumption DEF List
<1> HIDE DEF C
<1>3. BlockEnd(C, a) = BlockEnd(B, b)
  BY SMTT(60), <1>1, <1>2 DEF BlockEnd, adjacent
<1> QED
  BY <1>1, <1>3 DEF BlockEnd, C

(* After merge_prev no two free blocks are neighbours. *)
LEMMA MergePrevJoined ==
  ASSUME NEW B, NEW G, List(B), Tiles(B, G), 0 \notin DOMAIN B,
         NEW a \in DOMAIN B, B[a].free, JoinedBut(B, a)
  PROVE  Joined(merge_prev(B, a))
<1> DEFINE p == prev(B, a)
<1>1. CASE p # nullptr /\ B[p].free /\ adjacent(B, p, a)
  <2> DEFINE C == absorb(B, p, a)
  <2>1. p \in DOMAIN B /\ p < a /\ p \in Nat /\ a \in Nat
    BY <1>1, Neighbours, Adjacent DEF List
  <2>2. p # a
    BY SMTT(60), <2>1
  <2>3. /\ DOMAIN C = DOMAIN B \ {a} /\ BlockEnd(C, p) = BlockEnd(B, a)
        /\ \A x \in DOMAIN C : C[x].free = B[x].free /\ (x # p => BlockEnd(C, x) = BlockEnd(B, x))
    BY ZenonT(60), <1>1, <2>1, <2>2, AbsorbGives
  <2> HIDE DEF C, p
  <2>4. BlockEnd(B, a) # a
    BY HeapAssumption DEF List, BlockEnd
  <2>5. Joined(C)
    <3> SUFFICES ASSUME NEW x \in DOMAIN C, C[x].free, BlockEnd(C, x) \in DOMAIN C
                 PROVE  ~C[BlockEnd(C, x)].free
      BY DEF Joined
    <3>1. CASE x = p
      BY SMTT(60), <2>3, <2>4, <3>1 DEF JoinedBut
    <3>2. CASE x # p
      BY SMTT(60), <2>3, <3>2 DEF JoinedBut
    <3> QED
      BY <3>1, <3>2
  <2> QED
    BY SMTT(60), <1>1, <2>5 DEF merge_prev, C, p
<1>2. CASE ~(p # nullptr /\ B[p].free /\ adjacent(B, p, a))
  <2>1. ASSUME NEW x \in DOMAIN B, B[x].free, BlockEnd(B, x) = a PROVE FALSE
    <3>1. adjacent(B, x, a)
      BY <2>1 DEF adjacent
    <3>2. prev(B, a) = x
      BY SMTT(60), <2>1, <3>1, Adjacent
    <3> QED
      BY SMTT(60), <1>2, <2>1, <3>1, <3>2 DEF nullptr
  <2> QED
    BY <1>2, <2>1 DEF merge_prev, Joined, JoinedBut
<1> QED
  BY SMTT(60), <1>1, <1>2

(* kfree leaves no two free blocks side by side. *)
LEMMA ReleaseJoined ==
  ASSUME NEW B, NEW G \in SUBSET Nat, List(B), Tiles(B, G), 0 \notin G,
         NEW a \in DOMAIN B, Joined(B)
  PROVE  Joined(release(B, a))
<1> DEFINE B0 == PutBlock(B, a, B[a].size, TRUE)
           b  == next(B0, a)
           B1 == IF b # nullptr /\ B0[b].free /\ adjacent(B0, a, b) THEN absorb(B0, a, b) ELSE B0
<1>1. List(B0) /\ Tiles(B0, G) /\ DOMAIN B0 = DOMAIN B
  BY ZenonT(60), FlagTiles
<1>2. /\ B0[a].free /\ \A x \in DOMAIN B : x # a => B0[x] = B[x]
      /\ \A x \in DOMAIN B : BlockEnd(B0, x) = BlockEnd(B, x)
  BY DEF PutBlock, BlockEnd
<1> HIDE DEF B0
<1>3. List(B1) /\ Tiles(B1, G) /\ a \in DOMAIN B1 /\ B1[a].free /\ JoinedBut(B1, a)
  <2>1. CASE b # nullptr /\ B0[b].free /\ adjacent(B0, a, b)
    <3> DEFINE C == absorb(B0, a, b)
    <3>1. b \in DOMAIN B0
      BY SMTT(60), <1>1, <2>1, Neighbours
    <3>2. List(C) /\ Tiles(C, G) /\ DOMAIN C = DOMAIN B0 \ {b} /\ a # b
      BY ZenonT(60), <1>1, <2>1, <3>1, AbsorbTiles
    <3> HIDE DEF b
    <3>3. List(B0) /\ a \in DOMAIN B0 /\ b \in DOMAIN B0 /\ a # b /\ adjacent(B0, a, b)
      BY <1>1, <2>1, <3>1, <3>2
    <3>4. /\ DOMAIN C = DOMAIN B0 \ {b} /\ BlockEnd(C, a) = BlockEnd(B0, b)
          /\ \A x \in DOMAIN C : C[x].free = B0[x].free /\ (x # a => BlockEnd(C, x) = BlockEnd(B0, x))
      BY ZenonT(60), <3>3, AbsorbGives
    <3> HIDE DEF C
    <3>5. JoinedBut(C, a)
      <4> SUFFICES ASSUME NEW x \in DOMAIN C, C[x].free, BlockEnd(C, x) \in DOMAIN C, BlockEnd(C, x) # a
                   PROVE  ~C[BlockEnd(C, x)].free
        BY SMTT(60) DEF JoinedBut
      <4>1. CASE x = a
        BY SMTT(60), <1>1, <1>2, <2>1, <3>1, <3>2, <3>4, <4>1 DEF Joined
      <4>2. CASE x # a
        BY SMTT(60), <1>1, <1>2, <3>2, <3>4, <4>2 DEF Joined
      <4> QED
        BY SMTT(60), <4>1, <4>2
    <3> QED
      BY SMTT(60), <1>1, <1>2, <2>1, <3>2, <3>4, <3>5 DEF C, b
  <2>2. CASE ~(b # nullptr /\ B0[b].free /\ adjacent(B0, a, b))
    <3>1. JoinedBut(B0, a)
      <4> SUFFICES ASSUME NEW x \in DOMAIN B0, B0[x].free, BlockEnd(B0, x) \in DOMAIN B0, BlockEnd(B0, x) # a
                   PROVE  ~B0[BlockEnd(B0, x)].free
        BY DEF JoinedBut
      <4>1. CASE x = a
        <5>1. adjacent(B0, a, BlockEnd(B0, a))
          BY DEF adjacent
        <5>2. b = BlockEnd(B0, a)
          BY SMTT(60), <1>1, <4>1, <5>1, Adjacent
        <5>3. b # nullptr
          BY SMTT(60), <1>1, <4>1, <5>2, NoNullHeader DEF nullptr
        <5> QED
          BY SMTT(60), <2>2, <4>1, <5>1, <5>2, <5>3
      <4>2. CASE x # a
        BY <1>1, <1>2, <4>2 DEF Joined
      <4> QED
        BY <4>1, <4>2
    <3> QED
      BY SMTT(60), <1>1, <1>2, <2>2, <3>1
  <2> QED
    BY ZenonT(60), <2>1, <2>2
<1> HIDE DEF B1
<1>4. 0 \notin DOMAIN B1
  BY SMTT(60), <1>3, NoNullHeader
<1>5. Joined(merge_prev(B1, a))
  BY SMTT(60), <1>3, <1>4, MergePrevJoined
<1> QED
  BY ZenonT(60), <1>5 DEF release, B1, B0

(* Growth by a frame with no block of the heap right behind it leaves no two *)
(* free blocks side by side.                                                 *)
LEMMA InsertJoined ==
  ASSUME NEW B, NEW G \in SUBSET Nat, List(B), Tiles(B, G), 0 \notin G,
         NEW f \in Nat \ {0}, f \notin G, f + 1 \notin G, Joined(B)
  PROVE  Joined(insert_free_block(B, f * FRAME_SIZE, FRAME_SIZE - HEADER))
<1> DEFINE a  == f * FRAME_SIZE
           B0 == PutBlock(B, a, FRAME_SIZE - HEADER, TRUE)
           H  == G \cup {f}
           e  == (f + 1) * FRAME_SIZE
<1>1. List(B0) /\ Tiles(B0, H) /\ a \in DOMAIN B0 /\ H \in SUBSET Nat /\ 0 \notin H
  BY ZenonT(60), FrameTiles
<1>2. a \in Nat /\ e = a + FRAME_SIZE
  BY SMTT(60), HeapAssumption
<1>3. /\ B0[a] = [size |-> FRAME_SIZE - HEADER, free |-> TRUE] /\ DOMAIN B0 = DOMAIN B \cup {a}
      /\ \A x \in DOMAIN B0 : x # a => B0[x] = B[x] /\ BlockEnd(B0, x) = BlockEnd(B, x)
  BY SMTT(60) DEF PutBlock, BlockEnd
<1>4. e \notin DOMAIN B0
  <2> SUFFICES ASSUME e \in DOMAIN B0 PROVE FALSE
    BY ZenonT(60)
  <2>1. e \in e .. BlockEnd(B0, e) - 1
    BY ZenonT(60), <1>1, HeaderInBlock
  <2>2. e \div FRAME_SIZE = f + 1
    <3>1. f + 1 \in Nat /\ e \in Int /\ (f + 1) * FRAME_SIZE <= e /\ e < (f + 1 + 1) * FRAME_SIZE
      BY SMTT(60), HeapAssumption
    <3> QED
      BY SMTT(60), <3>1, InFrame
  <2> HIDE DEF e, B0
  <2> QED
    BY <1>1, <2>1, <2>2 DEF Tiles
<1> HIDE DEF B0, a, e
<1>5. BlockEnd(B0, a) = e
  BY SMTT(60), <1>2, <1>3, HeapAssumption DEF BlockEnd
<1>6. JoinedBut(B0, a)
  <2> SUFFICES ASSUME NEW x \in DOMAIN B0, B0[x].free, BlockEnd(B0, x) \in DOMAIN B0, BlockEnd(B0, x) # a
               PROVE  ~B0[BlockEnd(B0, x)].free
    BY SMTT(60) DEF JoinedBut
  <2> QED
    BY SMTT(60), <1>3, <1>4, <1>5 DEF Joined
<1>7. Joined(merge_prev(B0, a))
  BY SMTT(60), <1>1, <1>3, <1>6, NoNullHeader, MergePrevJoined
<1> DEFINE b == next(B0, a)
<1>8. ~(b # nullptr /\ adjacent(B0, a, b))
  BY SMTT(60), <1>1, <1>4, <1>5, Neighbours DEF adjacent
<1> HIDE DEF b
<1> QED
  BY ZenonT(60), <1>7, <1>8 DEF insert_free_block, B0, a, b

(* The rest that kmalloc splits off has no free block behind it. *)
LEMMA SplitJoined ==
  ASSUME NEW B, NEW G, List(B), Tiles(B, G), NEW a \in DOMAIN B, B[a].free,
         NEW n \in Nat, n <= B[a].size, Joined(B)
  PROVE  Joined(split(B, a, n))
<1>0. B[a].size \in Nat /\ a \in Nat /\ HEADER \in Nat \ {0} /\ MIN_SPLIT_REMAINDER \in Nat \ {0} /\ DOMAIN B \subseteq Nat
  BY SMTT(60), HeapAssumption DEF List
<1>1. CASE ~(B[a].size - n >= HEADER + MIN_SPLIT_REMAINDER)
  <2> DEFINE C == split(B, a, n)
  <2>1. /\ DOMAIN C = DOMAIN B /\ ~C[a].free /\ \A x \in DOMAIN B : x # a => C[x] = B[x]
        /\ \A x \in DOMAIN B : BlockEnd(C, x) = BlockEnd(B, x)
    BY ZenonT(60), <1>1 DEF split, PutBlock, BlockEnd
  <2> HIDE DEF C
  <2>2. Joined(C)
    BY SMTT(60), <2>1 DEF Joined
  <2> QED
    BY SMTT(60), <2>2 DEF C
<1>2. CASE B[a].size - n >= HEADER + MIN_SPLIT_REMAINDER
  <2> DEFINE C == split(B, a, n)
             c == a + HEADER + n
             e == BlockEnd(B, a)
  <2>1. a < c /\ c < e /\ c \in Nat /\ e \in Nat
    BY SMTT(60), <1>0, <1>2 DEF BlockEnd
  <2>2. c \notin DOMAIN B
    BY SMTT(60), <1>0, <2>1 DEF Tiles
  <2>3. /\ DOMAIN C = DOMAIN B \cup {c} /\ ~C[a].free
        /\ C[c] = [size |-> B[a].size - n - HEADER, free |-> TRUE]
        /\ \A x \in DOMAIN B : x # a => C[x] = B[x]
    BY ZenonT(60), <1>2, <2>1, <2>2 DEF split, PutBlock
  <2> HIDE DEF C
  <2>4. BlockEnd(C, c) = e
    BY SMTT(60), <1>0, <2>3 DEF BlockEnd
  <2>5. \A x \in DOMAIN B : x # a => BlockEnd(C, x) = BlockEnd(B, x) /\ BlockEnd(B, x) # c
    <3> SUFFICES ASSUME NEW x \in DOMAIN B, x # a
                 PROVE  BlockEnd(C, x) = BlockEnd(B, x) /\ BlockEnd(B, x) # c
      BY SMTT(60)
    <3>1. x \in Nat /\ B[x].size \in Nat /\ BlockEnd(B, x) \in Nat /\ BlockEnd(B, x) > x
      BY SMTT(60), <1>0 DEF List, BlockEnd
    <3>2. (x < a => BlockEnd(B, x) <= a) /\ (a < x => e <= x)
      BY SMTT(60) DEF Tiles
    <3> HIDE DEF e, c
    <3>3. BlockEnd(B, x) # c
      BY SMTT(60), <1>0, <2>1, <3>1, <3>2
    <3> QED
      BY SMTT(60), <2>3, <3>3 DEF BlockEnd
  <2> HIDE DEF c
  <2>6. Joined(C)
    <3> SUFFICES ASSUME NEW x \in DOMAIN C, C[x].free, BlockEnd(C, x) \in DOMAIN C
                 PROVE  ~C[BlockEnd(C, x)].free
      BY SMTT(60) DEF Joined
    <3>1. x # a
      BY SMTT(60), <2>3
    <3>2. CASE x = c
      <4>1. e \in DOMAIN B
        BY SMTT(60), <2>1, <2>3, <2>4, <3>2
      <4> QED
        BY SMTT(60), <1>0, <2>1, <2>3, <2>4, <3>2, <4>1 DEF Joined
    <3>3. CASE x # c
      <4>1. x \in DOMAIN B /\ BlockEnd(C, x) \in DOMAIN B
        BY SMTT(60), <2>3, <2>5, <3>1, <3>3
      <4> QED
        BY SMTT(60), <2>3, <2>5, <3>1, <4>1 DEF Joined
    <3> QED
      BY SMTT(60), <3>2, <3>3
  <2> QED
    BY <2>6 DEF C
<1> QED
  BY SMTT(60), <1>1, <1>2

(* Every step keeps the free blocks apart, as long as no frame right below   *)
(* one of the heap's is returned.                                            *)
LEMMA JoinedStep == ListInv /\ GrowthInv /\ Joined(blocks) /\ [Next]_vars => Joined(blocks)'
<1> SUFFICES ASSUME ListInv, GrowthInv, Joined(blocks), [Next]_vars PROVE Joined(blocks')
  BY DEF Joined, BlockEnd
<1>0. /\ FramesInv /\ grown \in SUBSET Nat /\ 0 \notin grown
      /\ List(blocks) /\ Tiles(blocks, grown) /\ want \in Nat
  <2>1. Frames \subseteq Nat
    BY DEF Frames
  <2>2. FramesInv /\ grown \subseteq Frames
    BY SMTT(60) DEF ListInv, FramesInv
  <2> QED
    BY <2>1, <2>2, NotFrameZero DEF ListInv
<1>1. CASE Take
  <2>1. PICK a \in Fits : blocks' = split(blocks, a, want)
    BY SMTT(60), <1>1 DEF Take
  <2>2. a \in DOMAIN blocks /\ blocks[a].free /\ want <= blocks[a].size
    BY SMTT(60), <1>0 DEF Fits, List
  <2> QED
    BY SMTT(60), <1>0, <2>1, <2>2, SplitJoined
<1>2. CASE Grow
  <2>1. PICK f \in Frames : /\ alloc_frame(f)
                            /\ blocks' = insert_free_block(blocks, f * FRAME_SIZE, FRAME_SIZE - HEADER)
    BY SMTT(60), <1>2 DEF Grow
  <2>2. f \in free_frames /\ f \notin grown /\ f + 1 \notin grown
    BY <2>1 DEF ListInv, FramesInv, GrowthInv, alloc_frame, free_frames
  <2>3. f \in Nat \ {0}
    BY SMTT(60), <1>0, <2>2, NotFrameZero, FrameInMemory
  <2> QED
    BY SMTT(60), <1>0, <2>1, <2>2, <2>3, InsertJoined
<1>3. ASSUME NEW p \in Memory, Kfree(p) PROVE Joined(blocks')
  <2>1. CASE Accepted(p)
    <3>1. Joined(release(blocks, p - HEADER))
      BY SMTT(60), <1>0, <2>1, ReleaseJoined DEF Accepted
    <3> QED
      BY SMTT(60), <1>3, <2>1, <3>1 DEF Kfree
  <2> QED
    BY SMTT(60), <1>3, <2>1 DEF Kfree
<1>4. CASE \/ \E n \in Sizes : Kmalloc(n)
           \/ GiveUp \/ TakeFrame
           \/ \E f \in Frames : ReturnFrame(f)
           \/ UNCHANGED vars
  BY <1>4 DEF Kmalloc, GiveUp, TakeFrame, ReturnFrame, heap, vars
<1> QED
  BY SMTT(60), <1>1, <1>2, <1>3, <1>4 DEF Next

(* heap.cpp merges completely: no two free blocks ever lie side by side, for *)
(* every sequence of calls in which no frame right below one of the heap's is *)
(* returned.                                                                 *)
THEOREM FreeBlocksCoalesced ==
  ASSUME RETURN_ANY = FALSE
  PROVE  Spec => []Coalesced
<1>1. Init => GrowthInv /\ Joined(blocks)
  BY DEF Init, GrowthInv, Joined
<1>2. ListInv => FramesInv
  BY DEF ListInv
<1>3. Joined(blocks) => Coalesced
  BY DEF Joined, Coalesced
<1> QED
  BY <1>1, <1>2, <1>3, ListInit, ListStep, GrowthStep, JoinedStep, PTL DEF Spec

-----------------------------------------------------------------------------
(* The number of free frames. *)

INSTANCE FiniteSetTheorems

(* The counter of pmm.cpp is the number of free frames. *)
Counted == free_count = Cardinality(free_frames)

(* The set of managed frames is finite, so pmm.cpp can count it. *)
LEMMA FramesFinite == IsFiniteSet(Frames)
  BY HeapAssumption, FS_Interval DEF Frames

(* alloc_frame keeps the counter of pmm.cpp right. *)
LEMMA AllocCounts ==
  ASSUME used \subseteq Frames, free_count = Cardinality(free_frames), NEW f, alloc_frame(f)
  PROVE  free_count' = Cardinality(free_frames')
<1>1. IsFiniteSet(free_frames)
  BY FramesFinite, FS_Subset DEF free_frames
<1>2. f \in free_frames /\ free_frames' = free_frames \ {f}
  BY DEF alloc_frame, free_frames, Frames
<1>3. Cardinality(free_frames \ {f}) = Cardinality(free_frames) - 1
  BY <1>1, <1>2, FS_RemoveElement
<1> QED
  BY <1>2, <1>3 DEF alloc_frame

(* free_frame keeps the counter of pmm.cpp right. *)
LEMMA FreeCounts ==
  ASSUME used \subseteq Frames, free_count = Cardinality(free_frames),
         NEW f \in used, free_frame(f)
  PROVE  free_count' = Cardinality(free_frames')
<1>1. IsFiniteSet(free_frames)
  BY FramesFinite, FS_Subset DEF free_frames
<1>2. f \notin free_frames /\ free_frames' = free_frames \cup {f}
  BY DEF free_frame, free_frames, Frames
<1>3. Cardinality(free_frames \cup {f}) = Cardinality(free_frames) + 1
  BY <1>1, <1>2, FS_AddElement
<1> QED
  BY <1>2, <1>3 DEF free_frame

(* pmm_init counts the frames it frees. *)
LEMMA InitCount == Init => Counted
<1> SUFFICES ASSUME Init PROVE free_count = Cardinality(free_frames)
  BY DEF Counted
<1>1. free_frames = UsableFrames \ RangeFrames(0, KERNEL_END)
  BY DEF Init, PmmInit, free_frames, UsableFrames, RangeFrames
<1> QED
  BY <1>1 DEF Init, PmmInit

(* Every step keeps the counter right. *)
LEMMA CountStep == FramesInv /\ Counted /\ [Next]_vars => Counted'
<1> SUFFICES ASSUME FramesInv, Counted, [Next]_vars PROVE free_count' = Cardinality(free_frames')
  BY DEF Counted
<1> USE DEF Counted
<1>0. used \subseteq Frames
  BY DEF FramesInv
<1>1. CASE UNCHANGED <<used, free_count>>
  BY <1>1 DEF free_frames, Frames
<1>2. ASSUME NEW f, alloc_frame(f) PROVE free_count' = Cardinality(free_frames')
  BY <1>0, <1>2, AllocCounts
<1>3. ASSUME NEW f \in Frames, ReturnFrame(f) PROVE free_count' = Cardinality(free_frames')
  <2>1. f \in used /\ free_frame(f)
    BY ZenonT(60), <1>3 DEF ReturnFrame, FramesInv
  <2> QED
    BY <1>0, <2>1, FreeCounts
<1>4. CASE Grow \/ TakeFrame
  BY ZenonT(60), <1>2, <1>4 DEF Grow, TakeFrame
<1>5. CASE \/ \E n \in Sizes : Kmalloc(n)
           \/ Take \/ GiveUp
           \/ \E p \in Memory : Kfree(p)
           \/ UNCHANGED vars
  BY <1>5, <1>1 DEF Kmalloc, Take, GiveUp, Kfree, vars, pmm
<1> QED
  BY <1>3, <1>4, <1>5 DEF Next

(* pmm.cpp and heap.cpp: for every memory map and every sequence of calls no *)
(* frame has two owners, none is in the kernel's image or in reserved        *)
(* memory, and the count of free frames is right.                           *)
THEOREM FramesSafe == Spec => []FramesOwnedOnce
<1>1. Init => FramesInv
  BY ZenonT(60) DEF Init, PmmInit, FramesInv, free_frames, UsableFrames, RangeFrames
<1>2. Init => Counted
  BY InitCount
<1>3. FramesInv /\ Counted => FramesOwnedOnce
  <2>1. RangeFrames(0, KERNEL_END) \subseteq Frames
    BY DEF RangeFrames
  <2> QED
    BY ZenonT(60), <2>1 DEF FramesInv, FramesOwnedOnce, Counted, free_frames
<1> QED
  BY <1>1, <1>2, <1>3, FramesStep, CountStep, PTL DEF Spec

(* Every variable of the heap and of the frame allocator has its type, and   *)
(* every block lies in the managed memory, for every memory map.             *)
THEOREM HeapTyped == Spec => []TypeOK
<1>1. ListInv /\ ShapeInv /\ Counted => TypeOK
  <2> SUFFICES ASSUME ListInv, ShapeInv, Counted PROVE TypeOK
    OBVIOUS
  <2>1. free_count \in Nat
    BY SMTT(60), FramesFinite, FS_Subset, FS_CardinalityType DEF ListInv, FramesInv, Counted, free_frames
  <2>2. ASSUME NEW a \in DOMAIN blocks
        PROVE  /\ a \in Memory /\ BlockEnd(blocks, a) \in Memory
               /\ blocks[a] \in [size : Nat, free : BOOLEAN]
    <3>1. a \in Nat /\ blocks[a].size \in Nat /\ BlockEnd(blocks, a) \in Memory
      BY SMTT(60), BlockInMemory
    <3>2. a \in Memory
      BY <3>1, HeapAssumption DEF BlockEnd, Memory
    <3> QED
      BY SMTT(60), <3>1, <3>2 DEF ListInv, List
  <2> QED
    BY <2>1, <2>2 DEF TypeOK, ListInv, ShapeInv, FramesInv
<1>2. Init => Counted
  BY InitCount
<1>3. ListInv => FramesInv
  BY DEF ListInv
<1> QED
  BY <1>1, <1>2, <1>3, ListInit, ListStep, ShapeInit, ShapeStep, CountStep, PTL DEF Spec

=============================================================================
