-------------------------------- MODULE Heap --------------------------------
(***************************************************************************)
(* The kernel heap (kernel/heap.cpp) and the frame allocator it grows from *)
(* (kernel/pmm.cpp).                                                       *)
(*                                                                         *)
(* free_list_head and the next pointers form one list of all blocks, free  *)
(* and allocated, in address order: insert_free_block inserts by address,  *)
(* and kmalloc puts the rest of a split block right behind it.  The list   *)
(* is therefore a function from the addresses of its headers.  The magic   *)
(* of a header always says the same as its free flag.                      *)
(*                                                                         *)
(* kmalloc and kfree run with interrupts off; one attempt of kmalloc is a  *)
(* step.  Between two calls other parts of the kernel (paging, the process *)
(* loader, the ring 3 demos) take and return frames.                       *)
(***************************************************************************)
EXTENDS Integers, FiniteSets

CONSTANTS
  FRAME_SIZE,          \* bytes in a frame
  MANAGED_FRAMES,      \* frames below MANAGED_LIMIT
  E820,                \* the memory map: a set of [base, length, usable]
  KERNEL_END,          \* first byte after the kernel image
  HEADER,              \* sizeof(BlockHeader)
  ALIGNMENT,
  MIN_SPLIT_REMAINDER,
  MAX_GROW_ATTEMPTS,
  Sizes,               \* the lengths callers ask for
  RETURN_ANY           \* whether a frame right below one of the heap's is ever returned

ASSUME HeapAssumption ==
  /\ FRAME_SIZE \in Nat \ {0} /\ MANAGED_FRAMES \in Nat /\ KERNEL_END \in Nat \ {0}
  /\ HEADER \in Nat \ {0} /\ ALIGNMENT \in Nat \ {0}
  /\ MIN_SPLIT_REMAINDER \in Nat \ {0} /\ MAX_GROW_ATTEMPTS \in Nat
  /\ HEADER < FRAME_SIZE /\ HEADER % ALIGNMENT = 0 /\ FRAME_SIZE % ALIGNMENT = 0
  /\ E820 \subseteq [base : Nat, length : Nat, usable : BOOLEAN]
  /\ Sizes \subseteq Nat
  /\ RETURN_ANY \in BOOLEAN

VARIABLES
  blocks,               \* the block list: address of a header -> [size, free]
  heap_min, heap_max,   \* the range in_heap_range tests
  used,                 \* frames whose bit is set in the bitmap
  free_count,
  grown,                \* frames grow_heap has taken
  others,               \* frames other callers of alloc_frame hold
  want, attempt         \* the kmalloc in progress: aligned size (0: none), attempt

heap == <<blocks, heap_min, heap_max, grown>>
pmm  == <<used, free_count>>
vars == <<heap, pmm, others, want, attempt>>

nullptr == 0
Frames  == 0 .. MANAGED_FRAMES - 1
Memory  == 0 .. MANAGED_FRAMES * FRAME_SIZE

-----------------------------------------------------------------------------
(* The frame allocator. *)

(* The frames that mark_range_used and mark_range_free set or clear. *)
RangeFrames(start, end) ==
  {f \in Frames : start < end /\ start \div FRAME_SIZE <= f
                              /\ f < (end + FRAME_SIZE - 1) \div FRAME_SIZE}

UsableFrames == UNION {RangeFrames(e.base, e.base + e.length) : e \in {r \in E820 : r.usable}}

free_frames == Frames \ used

(* pmm::init: usable memory, without what lies below the end of the kernel. *)
PmmInit ==
  /\ used = Frames \ (UsableFrames \ RangeFrames(0, KERNEL_END))
  /\ free_count = Cardinality(UsableFrames \ RangeFrames(0, KERNEL_END))

(* alloc_frame returns the lowest free frame f. *)
alloc_frame(f) ==
  /\ f \in free_frames
  /\ \A g \in free_frames : f <= g
  /\ used' = used \cup {f}
  /\ free_count' = free_count - 1

\* Mutant: freeing forgets the counter.
free_frame_uncounted(f) == used' = used \ {f} /\ UNCHANGED free_count

free_frame(f) ==
  /\ used' = used \ {f}
  /\ free_count' = IF f \in used THEN free_count + 1 ELSE free_count

-----------------------------------------------------------------------------
(* The block list B. *)

align_up(n) == ((n + ALIGNMENT - 1) \div ALIGNMENT) * ALIGNMENT

BlockEnd(B, a) == a + HEADER + B[a].size

(* The neighbours of header a in the list. *)
next(B, a) ==
  IF \E b \in DOMAIN B : b > a
  THEN CHOOSE b \in DOMAIN B : b > a /\ \A c \in DOMAIN B : c > a => b <= c
  ELSE nullptr
prev(B, a) ==
  IF \E b \in DOMAIN B : b < a
  THEN CHOOSE b \in DOMAIN B : b < a /\ \A c \in DOMAIN B : c < a => c <= b
  ELSE nullptr

adjacent(B, a, b) == BlockEnd(B, a) = b

PutBlock(B, a, n, isFree) ==
  [x \in DOMAIN B \cup {a} |-> IF x = a THEN [size |-> n, free |-> isFree] ELSE B[x]]

\* Mutant: the header of the absorbed block is lost.
absorb_headerless(B, a, b) ==
  [x \in DOMAIN B \ {b} |-> IF x = a THEN [B[a] EXCEPT !.size = @ + B[b].size] ELSE B[x]]

(* Block b, right behind a, becomes part of a. *)
absorb(B, a, b) ==
  [x \in DOMAIN B \ {b} |->
     IF x = a THEN [B[a] EXCEPT !.size = @ + HEADER + B[b].size] ELSE B[x]]

\* Mutant: only the block behind is considered.
merge_prev_never(B, a) == B

(* The free block a joins a free block right before it. *)
merge_prev(B, a) ==
  LET p == prev(B, a) IN
  IF p # nullptr /\ B[p].free /\ adjacent(B, p, a) THEN absorb(B, p, a) ELSE B

(* insert_free_block: the block behind is absorbed if it is adjacent; its    *)
(* free flag is not looked at.                                               *)
insert_free_block(B, a, n) ==
  LET B0 == PutBlock(B, a, n, TRUE)
      b  == next(B0, a)
      B1 == IF b # nullptr /\ adjacent(B0, a, b) THEN absorb(B0, a, b) ELSE B0
  IN  merge_prev(B1, a)

(* The end of kfree: both neighbours are absorbed if adjacent and free. *)
release(B, a) ==
  LET B0 == PutBlock(B, a, B[a].size, TRUE)
      b  == next(B0, a)
      B1 == IF b # nullptr /\ B0[b].free /\ adjacent(B0, a, b) THEN absorb(B0, a, b) ELSE B0
  IN  merge_prev(B1, a)

\* Mutant: the split does not leave room for the header of the rest.
split_flush(B, a, n) ==
  LET remainder == B[a].size - n IN
  IF remainder >= HEADER + MIN_SPLIT_REMAINDER
  THEN PutBlock(PutBlock(B, a, n, FALSE), a + HEADER + n, remainder, TRUE)
  ELSE PutBlock(B, a, B[a].size, FALSE)

(* kmalloc takes block a for n bytes and splits off the rest if it is worth  *)
(* a header.                                                                 *)
split(B, a, n) ==
  LET remainder == B[a].size - n IN
  IF remainder >= HEADER + MIN_SPLIT_REMAINDER
  THEN PutBlock(PutBlock(B, a, n, FALSE), a + HEADER + n, remainder - HEADER, TRUE)
  ELSE PutBlock(B, a, B[a].size, FALSE)

\* Mutant: a block that is in use is taken again.
FitsAny == {a \in DOMAIN blocks : blocks[a].size >= want}

Fits == {a \in DOMAIN blocks : blocks[a].free /\ blocks[a].size >= want}

\* Mutant: the upper end of the heap is not moved when it grows.
rangeStuck(m, f) == <<IF m[1] = 0 \/ f * FRAME_SIZE < m[1] THEN f * FRAME_SIZE ELSE m[1],
                      IF m[2] = 0 THEN (f + 1) * FRAME_SIZE ELSE m[2]>>

(* grow_heap's update of the range <<heap_min, heap_max>> for frame f. *)
range(m, f) == <<IF m[1] = 0 \/ f * FRAME_SIZE < m[1] THEN f * FRAME_SIZE ELSE m[1],
                 IF (f + 1) * FRAME_SIZE > m[2] THEN (f + 1) * FRAME_SIZE ELSE m[2]>>

-----------------------------------------------------------------------------
Init ==
  /\ PmmInit
  /\ blocks = [a \in {} |-> [size |-> 0, free |-> TRUE]]
  /\ heap_min = 0 /\ heap_max = 0
  /\ grown = {} /\ others = {}
  /\ want = 0 /\ attempt = 0

(* kmalloc(n): align, lock, ... *)
Kmalloc(n) ==
  /\ want = 0 /\ n # 0
  /\ want' = align_up(n)
  /\ UNCHANGED <<heap, pmm, others, attempt>>

(* ... take the first free block that is long enough, ... *)
Take ==
  /\ want # 0 /\ attempt <= MAX_GROW_ATTEMPTS
  /\ \E a \in Fits :
       /\ \A b \in Fits : a <= b
       /\ blocks' = split(blocks, a, want)
  /\ want' = 0 /\ attempt' = 0
  /\ UNCHANGED <<heap_min, heap_max, grown, pmm, others>>

(* ... or grow by a frame and try again, ... *)
Grow ==
  /\ want # 0 /\ attempt <= MAX_GROW_ATTEMPTS /\ Fits = {}
  /\ \E f \in Frames :
       /\ alloc_frame(f)
       /\ blocks' = insert_free_block(blocks, f * FRAME_SIZE, FRAME_SIZE - HEADER)
       /\ heap_min' = range(<<heap_min, heap_max>>, f)[1]
       /\ heap_max' = range(<<heap_min, heap_max>>, f)[2]
       /\ grown' = grown \cup {f}
  /\ attempt' = attempt + 1
  /\ UNCHANGED <<others, want>>

(* ... or return nullptr: no frame is left, or there were too many attempts. *)
GiveUp ==
  /\ want # 0
  /\ attempt > MAX_GROW_ATTEMPTS \/ (Fits = {} /\ free_frames = {})
  /\ want' = 0 /\ attempt' = 0
  /\ UNCHANGED <<heap, pmm, others>>

(* The checks of kfree on a pointer. *)
Accepted(p) ==
  /\ p % ALIGNMENT = 0
  /\ heap_min # 0 /\ p >= heap_min /\ p < heap_max
  /\ p >= heap_min + HEADER
  /\ p - HEADER \in DOMAIN blocks
  /\ ~blocks[p - HEADER].free

(* kfree(p), for any p: a caller's block or anything else. *)
Kfree(p) ==
  /\ want = 0
  /\ blocks' = IF Accepted(p) THEN release(blocks, p - HEADER) ELSE blocks
  /\ UNCHANGED <<heap_min, heap_max, grown, pmm, others, want, attempt>>

(* The rest of the kernel takes a frame, or returns one it holds. *)
TakeFrame ==
  /\ want = 0
  /\ \E f \in Frames : alloc_frame(f) /\ others' = others \cup {f}
  /\ UNCHANGED <<heap, want, attempt>>

ReturnFrame(f) ==
  /\ want = 0 /\ f \in others
  /\ RETURN_ANY \/ f + 1 \notin grown
  /\ free_frame(f)
  /\ others' = others \ {f}
  /\ UNCHANGED <<heap, want, attempt>>

Next ==
  \/ \E n \in Sizes : Kmalloc(n)
  \/ Take \/ Grow \/ GiveUp
  \/ \E p \in Memory : Kfree(p)
  \/ TakeFrame
  \/ \E f \in Frames : ReturnFrame(f)

Spec == Init /\ [][Next]_vars

-----------------------------------------------------------------------------
(* Every variable has its type; blocks lie in the managed memory. *)
TypeOK ==
  /\ DOMAIN blocks \subseteq Memory
  /\ \A a \in DOMAIN blocks :
       blocks[a] \in [size : Nat, free : BOOLEAN] /\ BlockEnd(blocks, a) \in Memory
  /\ heap_min \in Memory /\ heap_max \in Memory
  /\ used \in SUBSET Frames /\ free_count \in Nat
  /\ grown \in SUBSET Frames /\ others \in SUBSET Frames
  /\ want \in Nat /\ attempt \in 0 .. MAX_GROW_ATTEMPTS + 1

(* The blocks that kmalloc has handed out and nobody has freed. *)
Live == {[ptr |-> a + HEADER, size |-> blocks[a].size] : a \in {b \in DOMAIN blocks : ~blocks[b].free}}

(* kmalloc and kfree implement the abstract allocator: what is handed out is *)
(* long enough and overlaps nothing, nothing a caller holds disappears or    *)
(* changes its length, and a bad kfree has no effect.                        *)
A == INSTANCE Allocator WITH Addresses <- Memory, live <- Live, request <- want
Implements == A!Spec

(* Splitting, merging and growing lose no byte: the blocks, each with its    *)
(* header, tile exactly the frames the heap has taken.                       *)
BlocksTileFrames ==
  /\ \A f \in grown : \A x \in f * FRAME_SIZE .. (f + 1) * FRAME_SIZE - 1 :
       \E a \in DOMAIN blocks : a <= x /\ x < BlockEnd(blocks, a)
  /\ \A a \in DOMAIN blocks :
       /\ \A x \in a .. BlockEnd(blocks, a) - 1 : x \div FRAME_SIZE \in grown
       /\ \A b \in DOMAIN blocks : a < b => BlockEnd(blocks, a) <= b

(* ARCHITECTURE.md: "merging of adjacent free blocks".  No two free blocks   *)
(* lie side by side, so a request fails only if no free range can hold it.   *)
Coalesced ==
  \A a \in DOMAIN blocks :
    LET b == BlockEnd(blocks, a) IN
    blocks[a].free /\ b \in DOMAIN blocks => ~blocks[b].free

(* kfree accepts every block a caller holds: the cached range of the heap    *)
(* and the alignment test never reject a good pointer.                       *)
LiveAccepted == \A b \in Live : Accepted(b.ptr)

(* A frame has one owner (the heap, another part of the kernel, or the       *)
(* kernel image and reserved memory) and the counter meminfo shows is right. *)
FramesOwnedOnce ==
  /\ grown \cap others = {}
  /\ grown \cup others \subseteq used \cap UsableFrames
  /\ RangeFrames(0, KERNEL_END) \subseteq used \ (grown \cup others)
  /\ free_count = Cardinality(free_frames)

=============================================================================
