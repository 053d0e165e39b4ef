----------------------------- MODULE HeapProofs -----------------------------
(***************************************************************************)
(* Proofs about the heap and the frame allocator, for every memory map,    *)
(* every size of frame and header, and every sequence of calls: the blocks *)
(* tile the heap's frames, and kmalloc and kfree implement the abstract    *)
(* allocator.                                                              *)
(***************************************************************************)
EXTENDS Heap, WellFoundedInduction, TLAPS

(* What FramesOwnedOnce rests on: a frame that pmm.cpp holds free is usable  *)
(* memory behind the kernel, and every owner's frames are managed ones.     *)
FramesInv ==
  /\ used \subseteq Frames
  /\ free_frames \subseteq UsableFrames \ RangeFrames(0, KERNEL_END)
  /\ grown \cap others = {}
  /\ grown \cup others \subseteq (used \cap UsableFrames) \ RangeFrames(0, KERNEL_END)

(* Every step of the heap and of the frame allocator keeps FramesInv. *)
LEMMA FramesStep == FramesInv /\ [Next]_vars => FramesInv'
<1> SUFFICES ASSUME FramesInv, [Next]_vars PROVE FramesInv'
  OBVIOUS
<1> USE DEF FramesInv
<1>0. UsableFrames' = UsableFrames /\ RangeFrames(0, KERNEL_END)' = RangeFrames(0, KERNEL_END) /\ Frames' = Frames
  BY DEF UsableFrames, RangeFrames, Frames
<1>1. CASE UNCHANGED <<used, grown, others>>
  BY <1>1, <1>0 DEF free_frames
<1>2. ASSUME NEW f \in Frames, alloc_frame(f), grown' = grown \cup {f}, UNCHANGED others
      PROVE  FramesInv'
  BY <1>0, <1>2 DEF alloc_frame, free_frames
<1>3. ASSUME NEW f \in Frames, alloc_frame(f), others' = others \cup {f}, UNCHANGED grown
      PROVE  FramesInv'
  BY <1>0, <1>3 DEF alloc_frame, free_frames
<1>4. ASSUME NEW f \in Frames, ReturnFrame(f) PROVE FramesInv'
  <2>1. f \in others \cap used /\ free_frame(f) /\ others' = others \ {f} /\ UNCHANGED grown
    BY <1>4 DEF ReturnFrame, heap
  <2> QED
    BY <1>0, <2>1 DEF free_frame, free_frames
<1>5. CASE Grow
  BY <1>5, <1>2 DEF Grow
<1>6. CASE TakeFrame
  BY <1>6, <1>3 DEF TakeFrame, heap
<1>7. CASE \/ \E n \in Sizes : Kmalloc(n)
           \/ Take \/ GiveUp
           \/ \E p \in Memory : Kfree(p)
           \/ UNCHANGED vars
  BY <1>7, <1>1 DEF Kmalloc, Take, GiveUp, Kfree, vars, heap, pmm
<1> QED
  BY <1>4, <1>5, <1>6, <1>7 DEF Next

-----------------------------------------------------------------------------
(* The operators on the block list. *)

(* The type of a block list: every header has an address, a length and a flag. *)
List(B) == DOMAIN B \subseteq Nat /\ \A a \in DOMAIN B : B[a] \in [size : Nat, free : BOOLEAN]

(* BlocksTileFrames of a list B and a set of frames G, for the lemmas on the *)
(* operators.                                                                *)
Tiles(B, G) ==
  /\ \A f \in G : \A x \in f * FRAME_SIZE .. (f + 1) * FRAME_SIZE - 1 :
       \E a \in DOMAIN B : a <= x /\ x < BlockEnd(B, a)
  /\ \A a \in DOMAIN B :
       /\ \A x \in a .. BlockEnd(B, a) - 1 : x \div FRAME_SIZE \in G
       /\ \A b \in DOMAIN B : a < b => BlockEnd(B, a) <= b

(* Joining two adjacent blocks (the merges of kfree and insert_free_block)   *)
(* keeps the tiling: the length grows by exactly one header and one block.   *)
LEMMA AbsorbTiles ==
  ASSUME NEW B, NEW G \in SUBSET Nat, List(B), Tiles(B, G),
         NEW a \in DOMAIN B, NEW b \in DOMAIN B, adjacent(B, a, b)
  PROVE  /\ List(absorb(B, a, b)) /\ Tiles(absorb(B, a, b), G)
         /\ DOMAIN absorb(B, a, b) = DOMAIN B \ {b} /\ a # b
<1> DEFINE C == absorb(B, a, b)
<1>1. a # b /\ a < b /\ BlockEnd(B, a) = b /\ BlockEnd(B, b) \in Nat /\ b < BlockEnd(B, b)
  BY HeapAssumption DEF List, adjacent, BlockEnd
<1>2. DOMAIN C = DOMAIN B \ {b}
  BY DEF absorb
<1>3. \A x \in DOMAIN C : x # a => C[x] = B[x]
  BY DEF absorb
<1>4. C[a] = [B[a] EXCEPT !.size = B[a].size + HEADER + B[b].size]
  BY <1>1 DEF absorb
<1>5. C[a] \in [size : Nat, free : BOOLEAN] /\ C[a].size = B[a].size + HEADER + B[b].size
  BY <1>4, HeapAssumption DEF List
<1> HIDE DEF C
<1>6. List(C)
  BY <1>2, <1>3, <1>5 DEF List
<1>7. BlockEnd(C, a) = BlockEnd(B, b)
  BY <1>1, <1>5, HeapAssumption DEF List, BlockEnd, adjacent
<1>8. \A x \in DOMAIN C : x # a => BlockEnd(C, x) = BlockEnd(B, x)
  BY <1>3 DEF BlockEnd
<1>9. \A x \in DOMAIN B : BlockEnd(B, x) \in Nat /\ x \in Nat /\ x < BlockEnd(B, x)
  BY HeapAssumption DEF List, BlockEnd
<1>10. ASSUME NEW f \in G, NEW x \in f * FRAME_SIZE .. (f + 1) * FRAME_SIZE - 1
       PROVE  \E c \in DOMAIN C : c <= x /\ x < BlockEnd(C, c)
  <2>1. PICK c \in DOMAIN B : c <= x /\ x < BlockEnd(B, c)
    BY <1>10 DEF Tiles
  <2>2. x \in Int
    BY HeapAssumption
  <2>3. CASE c = a \/ c = b
    BY <2>1, <2>2, <2>3, <1>1, <1>2, <1>7, <1>9
  <2>4. CASE c # a /\ c # b
    BY <2>1, <2>4, <1>2, <1>8
  <2> QED
    BY <2>3, <2>4
<1>11. ASSUME NEW c \in DOMAIN C, NEW x \in c .. BlockEnd(C, c) - 1
       PROVE  x \div FRAME_SIZE \in G
  <2>1. CASE c # a
    BY <2>1, <1>2, <1>8 DEF Tiles
  <2>2. CASE c = a /\ x < b
    <3>1. x \in a .. BlockEnd(B, a) - 1
      BY <2>2, <1>1, <1>7, <1>9
    <3> QED
      BY <3>1 DEF Tiles
  <2>3. CASE c = a /\ ~(x < b)
    <3>1. x \in b .. BlockEnd(B, b) - 1
      BY <2>3, <1>1, <1>7, <1>9
    <3> QED
      BY <3>1 DEF Tiles
  <2> QED
    BY <2>1, <2>2, <2>3
<1>12. ASSUME NEW c \in DOMAIN C, NEW d \in DOMAIN C, c < d
       PROVE  BlockEnd(C, c) <= d
  <2>1. CASE c # a
    BY <2>1, <1>2, <1>8, <1>12 DEF Tiles
  <2>2. CASE c = a
    <3>1. d \in DOMAIN B /\ d # b
      BY <1>2
    <3>2. BlockEnd(B, a) <= d
      BY <3>1, <1>12, <2>2 DEF Tiles
    <3>3. b < d
      BY <3>1, <3>2, <1>1, <1>9
    <3> QED
      BY <3>1, <3>3, <2>2, <1>7 DEF Tiles
  <2> QED
    BY <2>1, <2>2
<1>13. Tiles(C, G)
  BY <1>10, <1>11, <1>12 DEF Tiles
<1> QED
  BY <1>1, <1>2, <1>6, <1>13 DEF C

(* Marking a block free or taken moves no boundary. *)
LEMMA FlagTiles ==
  ASSUME NEW B, NEW G \in SUBSET Nat, List(B), Tiles(B, G), NEW a \in DOMAIN B, NEW flag \in BOOLEAN
  PROVE  LET C == PutBlock(B, a, B[a].size, flag) IN List(C) /\ Tiles(C, G) /\ DOMAIN C = DOMAIN B
<1> DEFINE C == PutBlock(B, a, B[a].size, flag)
<1>1. DOMAIN C = DOMAIN B
  BY DEF PutBlock
<1>2. \A x \in DOMAIN B : C[x].size = B[x].size /\ C[x] \in [size : Nat, free : BOOLEAN]
  BY DEF PutBlock, List
<1> HIDE DEF C
<1>3. \A x \in DOMAIN B : BlockEnd(C, x) = BlockEnd(B, x)
  BY <1>2 DEF BlockEnd
<1>4. Tiles(C, G)
  BY <1>1, <1>3 DEF Tiles
<1> QED
  BY <1>1, <1>2, <1>4 DEF List, C

(* kmalloc's split keeps the tiling: the header of the rest lies right behind *)
(* the bytes handed out, and the two blocks end where the one did.           *)
LEMMA SplitTiles ==
  ASSUME NEW B, NEW G \in SUBSET Nat, List(B), Tiles(B, G), NEW a \in DOMAIN B,
         NEW n \in Nat, n <= B[a].size
  PROVE  List(split(B, a, n)) /\ Tiles(split(B, a, n), G)
<1>1. CASE ~(B[a].size - n >= HEADER + MIN_SPLIT_REMAINDER)
  BY ZenonT(60), <1>1, FlagTiles DEF split
<1>2. CASE B[a].size - n >= HEADER + MIN_SPLIT_REMAINDER
  <2> DEFINE c == a + HEADER + n
             C == split(B, a, n)
  <2>0. \A x \in DOMAIN B : BlockEnd(B, x) \in Nat /\ x \in Nat /\ x < BlockEnd(B, x)
    BY HeapAssumption DEF List, BlockEnd
  <2>1. c \in Nat /\ a < c /\ c < BlockEnd(B, a) /\ B[a].size \in Nat
    BY <1>2, HeapAssumption DEF List, BlockEnd
  <2>2. c \notin DOMAIN B
    BY <2>0, <2>1 DEF Tiles
  <2>3. C = PutBlock(PutBlock(B, a, n, FALSE), c, B[a].size - n - HEADER, TRUE)
    BY <1>2 DEF split
  <2>4. DOMAIN C = DOMAIN B \cup {c}
    BY <2>3 DEF PutBlock
  <2>5. /\ C[a] = [size |-> n, free |-> FALSE]
        /\ C[c] = [size |-> B[a].size - n - HEADER, free |-> TRUE]
        /\ \A x \in DOMAIN B : x # a => C[x] = B[x]
    BY <2>3, <2>1, <2>2 DEF PutBlock
  <2>6. B[a].size - n - HEADER \in Nat
    BY <2>1, <1>2, HeapAssumption
  <2> HIDE DEF C
  <2>7. List(C)
    <3>1. C[a] \in [size : Nat, free : BOOLEAN] /\ C[c] \in [size : Nat, free : BOOLEAN]
      BY <2>5, <2>6
    <3>2. \A x \in DOMAIN B : x # a => C[x] \in [size : Nat, free : BOOLEAN]
      BY <2>5 DEF List
    <3> HIDE DEF c
    <3> QED
      BY <2>1, <2>4, <3>1, <3>2 DEF List
  <2>8. BlockEnd(C, a) = c /\ BlockEnd(C, c) = BlockEnd(B, a)
    BY <2>1, <2>5, <2>0, HeapAssumption DEF BlockEnd
  <2>9. \A x \in DOMAIN B : x # a => BlockEnd(C, x) = BlockEnd(B, x)
    BY <2>5 DEF BlockEnd
  <2> HIDE DEF c
  <2>10. ASSUME NEW f \in G, NEW x \in f * FRAME_SIZE .. (f + 1) * FRAME_SIZE - 1
         PROVE  \E d \in DOMAIN C : d <= x /\ x < BlockEnd(C, d)
    <3>1. PICK d \in DOMAIN B : d <= x /\ x < BlockEnd(B, d)
      BY <2>10 DEF Tiles
    <3>2. x \in Int
      BY HeapAssumption
    <3> QED
      BY <3>1, <3>2, <2>0, <2>1, <2>4, <2>8, <2>9
  <2>11. ASSUME NEW d \in DOMAIN C, NEW x \in d .. BlockEnd(C, d) - 1
         PROVE  x \div FRAME_SIZE \in G
    <3>1. CASE d \in DOMAIN B /\ d # a
      BY <3>1, <2>9 DEF Tiles
    <3>2. CASE d \in {a, c}
      <4>1. x \in a .. BlockEnd(B, a) - 1
        BY <3>2, <2>0, <2>1, <2>8
      <4> QED
        BY <4>1 DEF Tiles
    <3> QED
      BY <3>1, <3>2, <2>4
  <2>12. ASSUME NEW d \in DOMAIN C, NEW e \in DOMAIN C, d < e
         PROVE  BlockEnd(C, d) <= e
    <3>1. CASE d \in DOMAIN B /\ e \in DOMAIN B
      <4>1. BlockEnd(B, d) <= e
        BY <3>1, <2>12 DEF Tiles
      <4> QED
        BY <4>1, <3>1, <2>0, <2>1, <2>8, <2>9
    <3>2. CASE d = c /\ e \in DOMAIN B
      <4>1. a < e
        BY <3>2, <2>12, <2>0, <2>1
      <4> QED
        BY <4>1, <3>2, <2>8 DEF Tiles
    <3>3. CASE d \in DOMAIN B /\ e = c
      <4>1. CASE d = a
        BY <4>1, <3>3, <2>8, <2>1
      <4>2. CASE d < a
        BY <4>2, <3>3, <2>0, <2>1, <2>9 DEF Tiles
      <4>3. CASE d > a
        BY <4>3, <3>3, <2>12, <2>0, <2>1 DEF Tiles
      <4> QED
        BY <4>1, <4>2, <4>3, <3>3, <2>0
    <3> QED
      BY SMTT(60), <3>1, <3>2, <3>3, <2>4, <2>12, <2>1
  <2>13. Tiles(C, G)
    BY <2>10, <2>11, <2>12 DEF Tiles
  <2> QED
    BY <2>7, <2>13 DEF C
<1> QED
  BY <1>1, <1>2

(* An address between two multiples of FRAME_SIZE lies in the lower frame. *)
LEMMA InFrame ==
  ASSUME NEW f \in Nat, NEW x \in Int, f * FRAME_SIZE <= x, x < (f + 1) * FRAME_SIZE
  PROVE  x \div FRAME_SIZE = f
<1>1. FRAME_SIZE \in Nat \ {0} /\ f * FRAME_SIZE \in Nat /\ (f + 1) * FRAME_SIZE = f * FRAME_SIZE + FRAME_SIZE
  BY HeapAssumption
<1> QED
  BY <1>1

(* The block that grow_heap makes of a new frame fills that frame, and only it. *)
LEMMA FrameTiles ==
  ASSUME NEW B, NEW G \in SUBSET Nat, List(B), Tiles(B, G), NEW f \in Nat, f \notin G
  PROVE  LET C == PutBlock(B, f * FRAME_SIZE, FRAME_SIZE - HEADER, TRUE)
         IN  List(C) /\ Tiles(C, G \cup {f}) /\ f * FRAME_SIZE \in DOMAIN C
<1> DEFINE c == f * FRAME_SIZE
           end == (f + 1) * FRAME_SIZE
           C == PutBlock(B, c, FRAME_SIZE - HEADER, TRUE)
<1>0. \A x \in DOMAIN B : BlockEnd(B, x) \in Nat /\ x \in Nat /\ x < BlockEnd(B, x)
  BY HeapAssumption DEF List, BlockEnd
<1>1. c \in Nat /\ end = c + FRAME_SIZE /\ end \in Nat /\ c < end
  BY HeapAssumption
<1>2. \A x \in Int : c <= x /\ x < end => x \div FRAME_SIZE = f
  BY InFrame
<1> HIDE DEF c, end
<1>3. DOMAIN C = DOMAIN B \cup {c} /\ C[c] = [size |-> FRAME_SIZE - HEADER, free |-> TRUE]
  BY DEF PutBlock
<1>4. \A x \in DOMAIN B : x # c => C[x] = B[x]
  BY DEF PutBlock
<1> HIDE DEF C
<1>5. BlockEnd(C, c) = end
  BY <1>1, <1>3, HeapAssumption DEF BlockEnd
<1>6. \A x \in DOMAIN B : x # c => BlockEnd(C, x) = BlockEnd(B, x)
  BY <1>4 DEF BlockEnd
<1>7. List(C)
  <2>1. FRAME_SIZE - HEADER \in Nat
    BY HeapAssumption
  <2>2. C[c] \in [size : Nat, free : BOOLEAN]
    BY <1>3, <2>1
  <2> QED
    BY ZenonT(60), <1>1, <1>3, <1>4, <2>2 DEF List
<1>8. ASSUME NEW a \in DOMAIN B
      PROVE  BlockEnd(B, a) <= c \/ end <= a
  <2>1. CASE a <= c /\ c < BlockEnd(B, a)
    <3>1. c \in a .. BlockEnd(B, a) - 1
      BY <2>1, <1>0, <1>1
    <3>2. c \div FRAME_SIZE = f
      BY <1>1, <1>2
    <3> QED
      BY <3>1, <3>2 DEF Tiles
  <2>2. CASE c < a /\ a < end
    <3>1. a \in a .. BlockEnd(B, a) - 1
      BY <1>0
    <3>2. a \div FRAME_SIZE = f
      BY <2>2, <1>0, <1>1, <1>2
    <3> QED
      BY <3>1, <3>2 DEF Tiles
  <2> QED
    BY <2>1, <2>2, <1>0, <1>1
<1>9. c \notin DOMAIN B
  BY <1>8, <1>0, <1>1
<1>10. ASSUME NEW g \in G \cup {f}, NEW x \in g * FRAME_SIZE .. (g + 1) * FRAME_SIZE - 1
       PROVE  \E d \in DOMAIN C : d <= x /\ x < BlockEnd(C, d)
  <2>1. CASE g = f
    BY <2>1, <1>1, <1>3, <1>5 DEF c, end
  <2>2. CASE g \in G
    <3>1. PICK d \in DOMAIN B : d <= x /\ x < BlockEnd(B, d)
      BY <2>2 DEF Tiles
    <3> QED
      BY <3>1, <1>3, <1>6, <1>9
  <2> QED
    BY <2>1, <2>2
<1>11. ASSUME NEW d \in DOMAIN C, NEW x \in d .. BlockEnd(C, d) - 1
       PROVE  x \div FRAME_SIZE \in G \cup {f}
  <2>1. CASE d = c
    BY <2>1, <1>1, <1>2, <1>5
  <2>2. CASE d \in DOMAIN B
    BY <2>2, <1>6, <1>9 DEF Tiles
  <2> QED
    BY <2>1, <2>2, <1>3
<1>12. ASSUME NEW d \in DOMAIN C, NEW e \in DOMAIN C, d < e
       PROVE  BlockEnd(C, d) <= e
  <2>1. CASE d \in DOMAIN B /\ e \in DOMAIN B
    BY <2>1, <1>6, <1>9, <1>12 DEF Tiles
  <2>2. CASE d = c /\ e \in DOMAIN B
    BY <2>2, <1>5, <1>8, <1>12, <1>0, <1>1
  <2>3. CASE d \in DOMAIN B /\ e = c
    BY SMTT(60), <2>3, <1>6, <1>8, <1>9, <1>12, <1>0, <1>1
  <2> QED
    BY <2>1, <2>2, <2>3, <1>3, <1>12, <1>1
<1>13. Tiles(C, G \cup {f})
  BY <1>10, <1>11, <1>12 DEF Tiles
<1> QED
  BY ZenonT(60), <1>3, <1>7, <1>13 DEF C, c

(* A set of addresses that is not empty has a least element; the list walk of *)
(* heap.cpp finds it.                                                        *)
LEMMA Minimum ==
  ASSUME NEW S \in SUBSET Nat, S # {}
  PROVE  \E m \in S : \A n \in S : m <= n
<1> DEFINE R == OpToRel(<, Nat)
<1>1. PICK m \in S : \A n \in S : ~ (<<n, m>> \in R)
  <2> HIDE DEF R
  <2>1. IsWellFoundedOn(R, Nat)
    BY ZenonT(60), NatLessThanWellFounded DEF R
  <2> QED
    BY ZenonT(60), <2>1, WFMin
<1>2. \A n \in S : ~(n < m)
  BY ZenonT(60), <1>1 DEF OpToRel
<1> QED
  BY <1>2

(* A set of addresses below a has a greatest element. *)
LEMMA Maximum ==
  ASSUME NEW a \in Nat, NEW S \in SUBSET Nat, S # {}, \A n \in S : n < a
  PROVE  \E m \in S : \A n \in S : n <= m
<1> DEFINE D == { a - n : n \in S }
<1>1. D \in SUBSET Nat /\ D # {}
  <2>1. \A n \in S : a - n \in Nat
    OBVIOUS
  <2>2. PICK n \in S : TRUE
    BY ZenonT(60)
  <2>3. a - n \in D
    OBVIOUS
  <2> QED
    BY <2>1, <2>3
<1>2. PICK d \in D : \A e \in D : d <= e
  <2> HIDE DEF D
  <2> QED
    BY <1>1, Minimum
<1>3. PICK m \in S : d = a - m
  OBVIOUS
<1>4. ASSUME NEW n \in S PROVE n <= m
  <2>1. d <= a - n
    BY <1>2
  <2> QED
    BY <2>1, <1>3
<1> QED
  BY ZenonT(60), <1>4

(* The next and prev pointers of a header lead to headers of the list. *)
LEMMA Neighbours ==
  ASSUME NEW B, List(B), NEW a \in DOMAIN B
  PROVE  /\ next(B, a) # nullptr => next(B, a) \in DOMAIN B
         /\ prev(B, a) # nullptr => prev(B, a) \in DOMAIN B
<1>1. ASSUME \E b \in DOMAIN B : b > a PROVE next(B, a) \in DOMAIN B
  <2> DEFINE S == { b \in DOMAIN B : b > a }
  <2>1. S \in SUBSET Nat /\ S # {}
    BY <1>1 DEF List
  <2>2. PICK m \in S : \A n \in S : m <= n
    BY ZenonT(60), <2>1, Minimum
  <2>3. \E b \in DOMAIN B : b > a /\ \A c \in DOMAIN B : c > a => b <= c
    BY <2>2
  <2>4. next(B, a) = CHOOSE b \in DOMAIN B : b > a /\ \A c \in DOMAIN B : c > a => b <= c
    BY <1>1 DEF next
  <2> QED
    BY <2>3, <2>4
<1>2. ASSUME \E b \in DOMAIN B : b < a PROVE prev(B, a) \in DOMAIN B
  <2> DEFINE S == { b \in DOMAIN B : b < a }
  <2>1. S \in SUBSET Nat /\ S # {} /\ a \in Nat
    BY <1>2 DEF List
  <2>2. PICK m \in S : \A n \in S : n <= m
    BY ZenonT(60), <2>1, Maximum
  <2>3. \E b \in DOMAIN B : b < a /\ \A c \in DOMAIN B : c < a => c <= b
    BY <2>2
  <2>4. prev(B, a) = CHOOSE b \in DOMAIN B : b < a /\ \A c \in DOMAIN B : c < a => c <= b
    BY <1>2 DEF prev
  <2> QED
    BY <2>3, <2>4
<1> QED
  BY <1>1, <1>2 DEF next, prev

(* The blocks of list B in callers' hands. *)
LiveIn(B) == {[ptr |-> a + HEADER, size |-> B[a].size] : a \in {b \in DOMAIN B : ~B[b].free}}

(* Joining two free blocks takes nothing from a caller. *)
LEMMA AbsorbLive ==
  ASSUME NEW B, List(B), NEW a \in DOMAIN B, NEW b \in DOMAIN B, a # b, B[a].free, B[b].free
  PROVE  LiveIn(absorb(B, a, b)) = LiveIn(B) /\ absorb(B, a, b)[a].free
<1> DEFINE C == absorb(B, a, b)
<1>1. DOMAIN C = DOMAIN B \ {b} /\ C[a].free /\ \A x \in DOMAIN C : x # a => C[x] = B[x]
  BY DEF absorb, List
<1>2. {x \in DOMAIN C : ~C[x].free} = {x \in DOMAIN B : ~B[x].free}
  <2> HIDE DEF C
  <2> QED
    BY <1>1
<1>3. \A x \in {y \in DOMAIN B : ~B[y].free} : C[x] = B[x]
  <2> HIDE DEF C
  <2> QED
    BY <1>1, <1>2
<1> HIDE DEF C
<1>4. LiveIn(C) = LiveIn(B)
  BY <1>2, <1>3 DEF LiveIn
<1> QED
  BY <1>1, <1>4 DEF C

(* merge_prev keeps the list and the tiling; a free block that joins the one *)
(* before it takes nothing from a caller.                                    *)
LEMMA MergePrev ==
  ASSUME NEW B, NEW G \in SUBSET Nat, List(B), Tiles(B, G), NEW a \in DOMAIN B
  PROVE  /\ List(merge_prev(B, a)) /\ Tiles(merge_prev(B, a), G)
         /\ B[a].free => LiveIn(merge_prev(B, a)) = LiveIn(B)
<1> DEFINE p == prev(B, a)
<1>1. CASE p # nullptr /\ B[p].free /\ adjacent(B, p, a)
  <2>1. p \in DOMAIN B
    BY <1>1, Neighbours
  <2>2. merge_prev(B, a) = absorb(B, p, a)
    BY <1>1 DEF merge_prev
  <2> HIDE DEF p
  <2>3. p # a /\ List(absorb(B, p, a)) /\ Tiles(absorb(B, p, a), G)
    BY ZenonT(60), <1>1, <2>1, AbsorbTiles
  <2> QED
    BY <1>1, <2>1, <2>2, <2>3, AbsorbLive
<1>2. CASE ~(p # nullptr /\ B[p].free /\ adjacent(B, p, a))
  BY <1>2 DEF merge_prev
<1> QED
  BY <1>1, <1>2

(* insert_free_block adds a new frame f to the list.  It absorbs the block   *)
(* behind without a look at its flag, so callers keep their blocks only if the *)
(* frame behind f is not the heap's.                                         *)
LEMMA InsertFrame ==
  ASSUME NEW B, NEW G \in SUBSET Nat, List(B), Tiles(B, G), NEW f \in Nat, f \notin G
  PROVE  LET C == insert_free_block(B, f * FRAME_SIZE, FRAME_SIZE - HEADER)
         IN  /\ List(C) /\ Tiles(C, G \cup {f})
             /\ f + 1 \notin G => LiveIn(C) = LiveIn(B)
<1> DEFINE a == f * FRAME_SIZE
           B0 == PutBlock(B, a, FRAME_SIZE - HEADER, TRUE)
           b == next(B0, a)
           joins == b # nullptr /\ adjacent(B0, a, b)
           B1 == IF joins THEN absorb(B0, a, b) ELSE B0
           H == G \cup {f}
<1>1. List(B0) /\ Tiles(B0, H) /\ a \in DOMAIN B0 /\ H \in SUBSET Nat
  BY ZenonT(60), FrameTiles
<1>2. B0[a].free /\ LiveIn(B0) = LiveIn(B)
  <2>1. a \notin DOMAIN B
    <3>1. a \in Nat /\ a \div FRAME_SIZE = f
      BY InFrame, HeapAssumption
    <3>2. ASSUME a \in DOMAIN B PROVE FALSE
      <4>1. a \in a .. BlockEnd(B, a) - 1
        BY <3>1, <3>2, HeapAssumption DEF List, BlockEnd
      <4> QED
        BY <3>1, <3>2, <4>1 DEF Tiles
    <3> QED
      BY <3>2
  <2> HIDE DEF a
  <2>2. DOMAIN B0 = DOMAIN B \cup {a} /\ B0[a].free /\ \A x \in DOMAIN B : B0[x] = B[x]
    BY <2>1 DEF PutBlock
  <2> HIDE DEF B0
  <2>3. {x \in DOMAIN B0 : ~B0[x].free} = {x \in DOMAIN B : ~B[x].free}
    BY <2>2
  <2> QED
    BY <2>2, <2>3 DEF LiveIn
<1>3. insert_free_block(B, a, FRAME_SIZE - HEADER) = merge_prev(B1, a)
  BY DEF insert_free_block
<1>4. ASSUME joins PROVE b \in DOMAIN B0 /\ f + 1 \in G
  <2>1. b \in DOMAIN B0
    BY ZenonT(60), <1>4, <1>1, Neighbours
  <2>2. BlockEnd(B0, a) = (f + 1) * FRAME_SIZE
    BY HeapAssumption DEF BlockEnd, PutBlock
  <2>3. b = (f + 1) * FRAME_SIZE /\ b \in Nat
    BY ZenonT(60), <1>4, <2>2, <2>1, <1>1 DEF adjacent, List
  <2> HIDE DEF b, B0
  <2>4. b \in b .. BlockEnd(B0, b) - 1
    BY <2>1, <2>3, <1>1, HeapAssumption DEF List, BlockEnd
  <2>5. b \div FRAME_SIZE \in H
    BY <2>1, <2>4, <1>1 DEF Tiles
  <2>6. b \div FRAME_SIZE = f + 1
    <3>1. (f + 1) * FRAME_SIZE < (f + 1 + 1) * FRAME_SIZE
      BY SMTT(60), HeapAssumption
    <3> QED
      BY <2>3, <3>1, InFrame
  <2> QED
    BY <2>1, <2>5, <2>6
<1> HIDE DEF a, B0, b
<1>5. /\ List(B1) /\ Tiles(B1, H) /\ a \in DOMAIN B1
      /\ f + 1 \notin G => B1[a].free /\ LiveIn(B1) = LiveIn(B)
  <2> HIDE DEF H
  <2>1. CASE joins
    <3>1. a \in DOMAIN B0 /\ b \in DOMAIN B0 /\ adjacent(B0, a, b) /\ f + 1 \in G
      BY <2>1, <1>1, <1>4
    <3>2. /\ List(absorb(B0, a, b)) /\ Tiles(absorb(B0, a, b), H)
          /\ DOMAIN absorb(B0, a, b) = DOMAIN B0 \ {b} /\ a # b
      <4> HIDE DEF B1, joins
      <4> QED
        BY <3>1, <1>1, AbsorbTiles, ZenonT(60)
    <3> QED
      BY <2>1, <3>1, <3>2
  <2>2. CASE ~joins
    BY <2>2, <1>1, <1>2
  <2> QED
    BY <2>1, <2>2
<1> HIDE DEF B1, H
<1>6. /\ List(merge_prev(B1, a)) /\ Tiles(merge_prev(B1, a), H)
      /\ B1[a].free => LiveIn(merge_prev(B1, a)) = LiveIn(B1)
  BY <1>1, <1>5, MergePrev
<1> QED
  BY <1>3, <1>5, <1>6 DEF a, H

(* The end of kfree gives back exactly the block of the pointer, whichever   *)
(* neighbours it joins.                                                      *)
LEMMA Release ==
  ASSUME NEW B, NEW G \in SUBSET Nat, List(B), Tiles(B, G), NEW a \in DOMAIN B, ~B[a].free
  PROVE  /\ List(release(B, a)) /\ Tiles(release(B, a), G)
         /\ LiveIn(release(B, a)) = LiveIn(B) \ {[ptr |-> a + HEADER, size |-> B[a].size]}
<1> DEFINE B0 == PutBlock(B, a, B[a].size, TRUE)
           b == next(B0, a)
           joins == b # nullptr /\ B0[b].free /\ adjacent(B0, a, b)
           B1 == IF joins THEN absorb(B0, a, b) ELSE B0
           gone == [ptr |-> a + HEADER, size |-> B[a].size]
<1>1. List(B0) /\ Tiles(B0, G) /\ DOMAIN B0 = DOMAIN B
  BY ZenonT(60), FlagTiles
<1>2. B0[a].free /\ LiveIn(B0) = LiveIn(B) \ {gone}
  <2>1. B0[a].free /\ \A x \in DOMAIN B : x # a => B0[x] = B[x]
    BY DEF PutBlock
  <2> HIDE DEF B0
  <2>2. {x \in DOMAIN B0 : ~B0[x].free} = {x \in DOMAIN B : ~B[x].free} \ {a}
    BY <2>1, <1>1
  <2>3. \A x \in DOMAIN B : x # a => x + HEADER # a + HEADER
    BY HeapAssumption DEF List
  <2> QED
    BY <2>1, <2>2, <2>3 DEF LiveIn
<1>3. release(B, a) = merge_prev(B1, a)
  BY DEF release
<1>4. joins => b \in DOMAIN B0
  BY ZenonT(60), <1>1, Neighbours
<1> HIDE DEF B0, b, gone
<1>5. /\ List(B1) /\ Tiles(B1, G) /\ a \in DOMAIN B1
      /\ B1[a].free /\ LiveIn(B1) = LiveIn(B0)
  <2>1. CASE joins
    <3>1. a # b /\ List(absorb(B0, a, b)) /\ Tiles(absorb(B0, a, b), G) /\ DOMAIN absorb(B0, a, b) = DOMAIN B0 \ {b}
      BY SMTT(60), <2>1, <1>1, <1>4, AbsorbTiles
    <3>2. LiveIn(absorb(B0, a, b)) = LiveIn(B0) /\ absorb(B0, a, b)[a].free
      BY SMTT(60), <2>1, <3>1, <1>1, <1>2, <1>4, AbsorbLive
    <3> QED
      BY SMTT(60), <2>1, <3>1, <3>2, <1>1
  <2>2. CASE ~joins
    BY <2>2, <1>1, <1>2
  <2> QED
    BY SMTT(60), <2>1, <2>2
<1> HIDE DEF B1
<1>6. /\ List(merge_prev(B1, a)) /\ Tiles(merge_prev(B1, a), G)
      /\ LiveIn(merge_prev(B1, a)) = LiveIn(B1)
  BY SMTT(60), <1>5, MergePrev
<1> QED
  BY <1>2, <1>3, <1>5, <1>6 DEF gone

(* kmalloc hands out exactly one block, at the header it chose, of at least the *)
(* aligned length.                                                           *)
LEMMA SplitLive ==
  ASSUME NEW B, NEW G \in SUBSET Nat, List(B), Tiles(B, G), NEW a \in DOMAIN B, B[a].free,
         NEW n \in Nat, n <= B[a].size
  PROVE  \E s \in n .. B[a].size :
           LiveIn(split(B, a, n)) = LiveIn(B) \cup {[ptr |-> a + HEADER, size |-> s]}
<1>0. B[a].size \in Nat /\ a \in Nat
  BY SMTT(60) DEF List
<1>1. CASE ~(B[a].size - n >= HEADER + MIN_SPLIT_REMAINDER)
  <2> DEFINE C == split(B, a, n)
  <2>1. DOMAIN C = DOMAIN B /\ C[a] = [size |-> B[a].size, free |-> FALSE] /\ \A x \in DOMAIN B : x # a => C[x] = B[x]
    BY <1>1 DEF split, PutBlock
  <2> HIDE DEF C
  <2>2. {x \in DOMAIN C : ~C[x].free} = {x \in DOMAIN B : ~B[x].free} \cup {a}
    BY SMTT(60), <2>1
  <2>3. LiveIn(C) = LiveIn(B) \cup {[ptr |-> a + HEADER, size |-> B[a].size]}
    BY <2>1, <2>2 DEF LiveIn
  <2>4. B[a].size \in n .. B[a].size
    BY <1>0
  <2> QED
    BY SMTT(60), <2>3, <2>4 DEF C
<1>2. CASE B[a].size - n >= HEADER + MIN_SPLIT_REMAINDER
  <2> DEFINE C == split(B, a, n)
             c == a + HEADER + n
  <2>1. c \notin DOMAIN B
    <3>1. a < c /\ c < BlockEnd(B, a)
      BY <1>0, <1>2, HeapAssumption DEF BlockEnd
    <3>2. c \in Nat /\ BlockEnd(B, a) \in Nat
      BY <1>0, HeapAssumption DEF BlockEnd
    <3> QED
      BY <3>1, <3>2 DEF Tiles
  <2>2. a # c
    BY SMTT(60), <1>0, HeapAssumption
  <2>3. /\ DOMAIN C = DOMAIN B \cup {c}
        /\ C[a] = [size |-> n, free |-> FALSE] /\ C[c].free
        /\ \A x \in DOMAIN B : x # a => C[x] = B[x]
    BY SMTT(60), <1>2, <2>1, <2>2 DEF split, PutBlock
  <2> HIDE DEF C, c
  <2>4. {x \in DOMAIN C : ~C[x].free} = {x \in DOMAIN B : ~B[x].free} \cup {a}
    BY SMTT(60), <2>1, <2>3
  <2>5. LiveIn(C) = LiveIn(B) \cup {[ptr |-> a + HEADER, size |-> n]}
    BY <2>3, <2>4 DEF LiveIn
  <2>6. n \in n .. B[a].size
    BY <1>0
  <2> QED
    BY <2>5, <2>6 DEF C
<1> QED
  BY <1>1, <1>2

-----------------------------------------------------------------------------
(* The invariant and the refinement. *)

(* The inductive invariant behind BlocksTileFrames: the frames of the heap are *)
(* managed frames with one owner, which is why a new frame overlaps no block. *)
ListInv == FramesInv /\ List(blocks) /\ Tiles(blocks, grown) /\ want \in Nat

(* kmalloc never looks for a block of length 0. *)
LEMMA AlignUp == ASSUME NEW n \in Nat \ {0} PROVE align_up(n) \in Nat \ {0}
<1> DEFINE m == n + ALIGNMENT - 1
<1>1. m \in Nat /\ m >= ALIGNMENT /\ ALIGNMENT \in Nat \ {0}
  BY HeapAssumption
<1>2. m \div ALIGNMENT \in Nat /\ m \div ALIGNMENT >= 1
  <2> HIDE DEF m
  <2> QED
    BY <1>1
<1> HIDE DEF m
<1>3. ASSUME NEW k \in Nat, k >= 1 PROVE k * ALIGNMENT \in Nat \ {0}
  BY <1>1, <1>3
<1> QED
  BY <1>2, <1>3 DEF align_up, m

(* Every step of the heap and of the frame allocator keeps ListInv. *)
LEMMA ListStep == ListInv /\ [Next]_vars => ListInv'
<1> SUFFICES ASSUME ListInv, [Next]_vars PROVE ListInv'
  OBVIOUS
<1>0. FramesInv' /\ grown \in SUBSET Nat /\ List(blocks) /\ Tiles(blocks, grown) /\ want \in Nat
  <2>1. FramesInv'
    BY FramesStep DEF ListInv
  <2>2. Frames \subseteq Nat
    BY DEF Frames
  <2>3. grown \subseteq Frames
    BY DEF ListInv, FramesInv
  <2> QED
    BY <2>1, <2>2, <2>3 DEF ListInv
<1>1. CASE UNCHANGED <<blocks, grown>> /\ want' \in Nat
  <2>1. List(blocks)' /\ Tiles(blocks, grown)'
    BY <1>1, <1>0 DEF List, Tiles, BlockEnd
  <2> QED
    BY <1>0, <1>1, <2>1 DEF ListInv
<1>2. ASSUME NEW n \in Sizes, Kmalloc(n) PROVE ListInv'
  <2>1. n \in Nat \ {0}
    BY SMTT(60), <1>2, HeapAssumption DEF Kmalloc
  <2> QED
    BY <1>1, <1>2, <2>1, AlignUp DEF Kmalloc, heap
<1>3. CASE Take
  <2>1. PICK a \in Fits : blocks' = split(blocks, a, want)
    BY <1>3 DEF Take
  <2>2. a \in DOMAIN blocks /\ want <= blocks[a].size
    BY <1>0 DEF Fits, List
  <2>3. List(split(blocks, a, want)) /\ Tiles(split(blocks, a, want), grown)
    BY <1>0, <2>2, SplitTiles
  <2>4. grown' = grown /\ want' = 0
    BY <1>3 DEF Take
  <2>5. List(blocks') /\ Tiles(blocks', grown')
    BY SMTT(60), <2>1, <2>3, <2>4
  <2> QED
    BY <1>0, <2>4, <2>5 DEF ListInv, List, Tiles, BlockEnd
<1>4. CASE Grow
  <2>1. PICK f \in Frames : /\ alloc_frame(f) /\ grown' = grown \cup {f}
                            /\ blocks' = insert_free_block(blocks, f * FRAME_SIZE, FRAME_SIZE - HEADER)
    BY <1>4 DEF Grow
  <2>2. f \in Nat /\ f \notin grown
    BY <2>1 DEF ListInv, FramesInv, alloc_frame, free_frames, Frames
  <2>3. List(blocks') /\ Tiles(blocks', grown') /\ want' = want
    BY <1>0, <1>4, <2>1, <2>2, InsertFrame DEF Grow
  <2> QED
    BY <1>0, <2>3 DEF ListInv, List, Tiles, BlockEnd
<1>5. ASSUME NEW p \in Memory, Kfree(p) PROVE ListInv'
  <2>1. CASE Accepted(p)
    <3>1. List(release(blocks, p - HEADER)) /\ Tiles(release(blocks, p - HEADER), grown)
      BY <1>0, <2>1, Release DEF Accepted
    <3>2. blocks' = release(blocks, p - HEADER) /\ grown' = grown /\ want' = want
      BY <1>5, <2>1 DEF Kfree
    <3>3. List(blocks') /\ Tiles(blocks', grown')
      BY <3>1, <3>2
    <3> QED
      BY <1>0, <3>2, <3>3 DEF ListInv, List, Tiles, BlockEnd
  <2>2. CASE ~Accepted(p)
    BY SMTT(60), <1>0, <1>1, <1>5, <2>2 DEF Kfree
  <2> QED
    BY SMTT(60), <2>1, <2>2
<1>6. CASE GiveUp \/ TakeFrame \/ (\E f \in Frames : ReturnFrame(f)) \/ UNCHANGED vars
  BY <1>0, <1>1, <1>6 DEF GiveUp, TakeFrame, ReturnFrame, heap, vars
<1> QED
  BY <1>2, <1>3, <1>4, <1>5, <1>6 DEF Next

(* The empty list of the boot tiles the empty heap. *)
LEMMA ListInit == Init => ListInv
<1> SUFFICES ASSUME Init PROVE ListInv
  BY SMTT(60)
<1>1. FramesInv
  BY ZenonT(60) DEF Init, PmmInit, FramesInv, free_frames, UsableFrames, RangeFrames
<1>2. DOMAIN blocks = {} /\ grown = {} /\ want = 0
  BY DEF Init
<1> QED
  BY <1>1, <1>2 DEF ListInv, List, Tiles

(* heap.cpp: whatever is allocated, freed, split, merged or grown, the blocks *)
(* and their headers tile the frames the heap has taken; no byte is lost and no *)
(* two blocks overlap.  This holds even where growth absorbs a caller's block. *)
THEOREM BlocksTile == Spec => []BlocksTileFrames
<1>1. ListInv => BlocksTileFrames
  BY DEF ListInv, Tiles, BlocksTileFrames
<1> QED
  BY <1>1, ListInit, ListStep, PTL DEF Spec

(* No free frame lies right below a frame of the heap.  alloc_frame returns the *)
(* lowest free frame, so growth alone never breaks it; a returned frame may. *)
GrowthInv == \A f \in free_frames : f + 1 \notin grown

(* If no frame right below one of the heap's is returned, GrowthInv is kept. *)
LEMMA GrowthStep ==
  ASSUME RETURN_ANY = FALSE
  PROVE  FramesInv /\ GrowthInv /\ [Next]_vars => GrowthInv'
<1> SUFFICES ASSUME FramesInv, GrowthInv, [Next]_vars PROVE GrowthInv'
  OBVIOUS
<1>1. CASE UNCHANGED <<used, grown>>
  BY <1>1 DEF GrowthInv, free_frames, Frames
<1>2. CASE Grow
  <2>1. PICK f \in Frames : alloc_frame(f) /\ grown' = grown \cup {f}
    BY <1>2 DEF Grow
  <2>2. free_frames' = free_frames \ {f} /\ free_frames \subseteq Nat /\ f \in Nat
    BY <2>1 DEF alloc_frame, free_frames, Frames
  <2>3. \A g \in free_frames : f <= g
    BY <2>1 DEF alloc_frame
  <2>4. \A g \in free_frames' : g + 1 # f
    BY <2>2, <2>3
  <2> QED
    BY <2>1, <2>2, <2>4 DEF GrowthInv
<1>3. CASE TakeFrame
  BY <1>3 DEF TakeFrame, alloc_frame, heap, GrowthInv, free_frames, Frames
<1>4. ASSUME NEW f \in Frames, ReturnFrame(f) PROVE GrowthInv'
  <2>1. f + 1 \notin grown /\ used' = used \ {f} /\ grown' = grown
    BY SMTT(60), <1>4 DEF ReturnFrame, free_frame, heap
  <2> QED
    BY <2>1 DEF GrowthInv, free_frames, Frames
<1>5. CASE \/ \E n \in Sizes : Kmalloc(n)
           \/ Take \/ GiveUp
           \/ \E p \in Memory : Kfree(p)
           \/ UNCHANGED vars
  BY SMTT(60), <1>5, <1>1 DEF Kmalloc, Take, GiveUp, Kfree, vars, heap, pmm
<1> QED
  BY <1>2, <1>3, <1>4, <1>5 DEF Next

(* Every block of the list lies in the managed memory. *)
LEMMA BlockInMemory ==
  ASSUME ListInv, NEW a \in DOMAIN blocks
  PROVE  a \in Nat /\ blocks[a].size \in Nat /\ BlockEnd(blocks, a) \in Memory
<1>1. a \in Nat /\ blocks[a].size \in Nat
  BY SMTT(60) DEF ListInv, List
<1> DEFINE x == BlockEnd(blocks, a) - 1
<1>2. x \in a .. BlockEnd(blocks, a) - 1 /\ x \in Nat
  BY SMTT(60), <1>1, HeapAssumption DEF BlockEnd
<1>3. x \div FRAME_SIZE \in Frames
  BY <1>2 DEF ListInv, Tiles, FramesInv
<1>4. x < MANAGED_FRAMES * FRAME_SIZE
  <2> HIDE DEF x
  <2>1. x < (x \div FRAME_SIZE + 1) * FRAME_SIZE
    BY <1>2, HeapAssumption
  <2>2. ASSUME NEW q \in Frames PROVE (q + 1) * FRAME_SIZE <= MANAGED_FRAMES * FRAME_SIZE
    BY <2>2, HeapAssumption DEF Frames
  <2>3. x \div FRAME_SIZE \in Nat /\ MANAGED_FRAMES * FRAME_SIZE \in Nat
    BY <1>2, HeapAssumption
  <2> QED
    BY SMTT(60), <1>2, <1>3, <2>1, <2>2, <2>3, HeapAssumption
<1> QED
  BY SMTT(60), <1>1, <1>2, <1>4, HeapAssumption DEF Memory, BlockEnd

(* Every step of heap.cpp and pmm.cpp is a step of the abstract allocator or *)
(* leaves its state alone.                                                   *)
LEMMA Refines ==
  ASSUME RETURN_ANY = FALSE
  PROVE  ListInv /\ GrowthInv /\ [Next]_vars => [A!Next]_<<Live, want>>
<1> SUFFICES ASSUME ListInv, GrowthInv, [Next]_vars
             PROVE  A!Next \/ UNCHANGED <<Live, want>>
  BY SMTT(60)
<1>0. /\ grown \in SUBSET Nat /\ List(blocks) /\ Tiles(blocks, grown) /\ want \in Nat
      /\ Live = LiveIn(blocks) /\ Live' = LiveIn(blocks')
  <2>1. Frames \subseteq Nat
    BY DEF Frames
  <2>2. grown \subseteq Frames
    BY DEF ListInv, FramesInv
  <2> QED
    BY <2>1, <2>2 DEF ListInv, Live, LiveIn
<1>1. ASSUME NEW n \in Sizes, Kmalloc(n) PROVE A!Ask
  <2>1. n \in Nat \ {0} /\ want = 0 /\ want' = align_up(n) /\ blocks' = blocks
    BY <1>1, HeapAssumption DEF Kmalloc, heap
  <2>2. Live' = Live
    BY <1>0, <2>1
  <2> QED
    BY <2>1, <2>2, AlignUp DEF A!Ask
<1>2. CASE Take
  <2>1. PICK a \in Fits : blocks' = split(blocks, a, want)
    BY SMTT(60), <1>2 DEF Take
  <2>2. a \in DOMAIN blocks /\ blocks[a].free /\ want <= blocks[a].size
    BY SMTT(60), <1>0 DEF Fits, List
  <2>3. PICK s \in want .. blocks[a].size :
          Live' = Live \cup {[ptr |-> a + HEADER, size |-> s]}
    BY SMTT(60), <1>0, <2>1, <2>2, SplitLive
  <2>4. /\ a \in Nat /\ blocks[a].size \in Nat /\ BlockEnd(blocks, a) \in Memory
        /\ s \in Nat /\ want <= s /\ s <= blocks[a].size
    BY SMTT(60), <1>0, <2>2, BlockInMemory
  <2>5. a + HEADER \in Memory /\ s \in Memory
    BY SMTT(60), <2>4, HeapAssumption DEF Memory, BlockEnd
  <2>6. ASSUME NEW c \in Live PROVE A!Disjoint([ptr |-> a + HEADER, size |-> s], c)
    <3>1. PICK b \in DOMAIN blocks : /\ ~blocks[b].free
                                     /\ c = [ptr |-> b + HEADER, size |-> blocks[b].size]
      BY SMTT(60), <2>6 DEF Live
    <3>2. b \in Nat /\ blocks[b].size \in Nat /\ a # b
      BY SMTT(60), <1>0, <2>2, <3>1 DEF List
    <3>3. (a < b => BlockEnd(blocks, a) <= b) /\ (b < a => BlockEnd(blocks, b) <= a)
      BY SMTT(60), <1>0, <2>2, <3>1 DEF Tiles
    <3>4. a + HEADER + s <= b + HEADER \/ b + HEADER + blocks[b].size <= a + HEADER
      BY SMTT(60), <2>4, <3>2, <3>3, HeapAssumption DEF BlockEnd
    <3> QED
      BY SMTT(60), <3>1, <3>4 DEF A!Disjoint
  <2>7. want # 0 /\ want' = 0
    BY SMTT(60), <1>2 DEF Take
  <2>8. A!Grant
    <3> DEFINE p == a + HEADER
    <3>1. p \in Memory /\ s \in Memory /\ s >= want
      BY SMTT(60), <2>4, <2>5, <1>0
    <3> HIDE DEF p
    <3>2. \A c \in Live : A!Disjoint([ptr |-> p, size |-> s], c)
      BY <2>6 DEF p
    <3>3. Live' = Live \cup {[ptr |-> p, size |-> s]}
      BY <2>3 DEF p
    <3> QED
      BY SMTT(60), <2>7, <3>1, <3>2, <3>3 DEF A!Grant
  <2> QED
    BY <2>8 DEF A!Next
<1>3. CASE Grow
  <2>1. PICK f \in Frames : /\ alloc_frame(f)
                            /\ blocks' = insert_free_block(blocks, f * FRAME_SIZE, FRAME_SIZE - HEADER)
    BY SMTT(60), <1>3 DEF Grow
  <2>2. f \in Nat /\ f \notin grown /\ f + 1 \notin grown
    BY SMTT(60), <2>1 DEF ListInv, FramesInv, GrowthInv, alloc_frame, free_frames, Frames
  <2>3. LiveIn(blocks') = LiveIn(blocks)
    BY ZenonT(60), <1>0, <2>1, <2>2, InsertFrame
  <2> QED
    BY SMTT(60), <1>0, <1>3, <2>3 DEF Grow
<1>4. CASE GiveUp
  <2>1. want # 0 /\ want' = 0 /\ blocks' = blocks
    BY <1>4 DEF GiveUp, heap
  <2>2. Live' = Live
    BY <1>0, <2>1
  <2> QED
    BY <2>1, <2>2 DEF A!Refuse, A!Next
<1>5. ASSUME NEW p \in Memory, Kfree(p) PROVE A!Next \/ UNCHANGED <<Live, want>>
  <2>1. CASE Accepted(p)
    <3> DEFINE a == p - HEADER
               b == [ptr |-> a + HEADER, size |-> blocks[a].size]
    <3>1. a \in DOMAIN blocks /\ ~blocks[a].free
      BY <2>1 DEF Accepted
    <3>2. blocks' = release(blocks, a) /\ want = 0 /\ want' = want
      BY SMTT(60), <1>5, <2>1 DEF Kfree
    <3>3. b \in Live
      BY SMTT(60), <3>1 DEF Live
    <3>4. Live' = Live \ {b}
      BY SMTT(60), <1>0, <3>1, <3>2, Release
    <3> HIDE DEF b
    <3> QED
      BY <3>2, <3>3, <3>4 DEF A!Free, A!Next
  <2>2. CASE ~Accepted(p)
    BY SMTT(60), <1>0, <1>5, <2>2 DEF Kfree
  <2> QED
    BY <2>1, <2>2
<1>6. CASE TakeFrame \/ (\E f \in Frames : ReturnFrame(f)) \/ UNCHANGED vars
  BY <1>0, <1>6 DEF TakeFrame, ReturnFrame, heap, vars
<1> QED
  BY <1>1, <1>2, <1>3, <1>4, <1>5, <1>6 DEF Next, A!Next

(* kmalloc and kfree implement the abstract allocator, for every memory map, *)
(* alignment and sequence of calls, bad kfree pointers included, as long as no *)
(* frame right below one of the heap's is returned to pmm.cpp.  Without that *)
(* condition insert_free_block absorbs a caller's block.                     *)
THEOREM HeapImplements ==
  ASSUME RETURN_ANY = FALSE
  PROVE  Spec => Implements
<1>1. Init => GrowthInv
  BY SMTT(60) DEF Init, GrowthInv
<1>2. Init => A!Init
  BY DEF Init, A!Init, Live
<1>3. ListInv => FramesInv
  BY DEF ListInv
<1> QED
  BY <1>1, <1>2, <1>3, ListInit, ListStep, GrowthStep, Refines, PTL DEF Spec, Implements, A!Spec

=============================================================================
