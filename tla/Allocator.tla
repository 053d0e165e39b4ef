----------------------------- MODULE Allocator -----------------------------
(***************************************************************************)
(* What a caller of kmalloc and kfree may rely on: a granted block is at   *)
(* least as long as the request and overlaps no other block, and a block   *)
(* stays the caller's, with its length, until the caller frees it.         *)
(***************************************************************************)
EXTENDS Integers

CONSTANT Addresses

VARIABLES
  live,     \* the blocks in callers' hands, [ptr, size]
  request   \* the length asked for by the kmalloc in progress, or 0

Disjoint(b, c) == b.ptr + b.size <= c.ptr \/ c.ptr + c.size <= b.ptr

Init == live = {} /\ request = 0

Ask ==
  /\ request = 0
  /\ request' \in Nat \ {0}
  /\ UNCHANGED live

Grant ==
  /\ request # 0
  /\ \E p, n \in Addresses :
       LET b == [ptr |-> p, size |-> n] IN
       /\ n >= request
       /\ \A c \in live : Disjoint(b, c)
       /\ live' = live \cup {b}
  /\ request' = 0

Refuse == request # 0 /\ request' = 0 /\ UNCHANGED live

Free ==
  /\ request = 0
  /\ \E b \in live : live' = live \ {b}
  /\ UNCHANGED request

Next == Ask \/ Grant \/ Refuse \/ Free

Spec == Init /\ [][Next]_<<live, request>>

=============================================================================
