------------------------------ MODULE Keyboard ------------------------------
(***************************************************************************)
(* The PS/2 keyboard driver of kernel/keyboard.cpp: the decoder of         *)
(* scancodes and the ring of decoded characters.                           *)
(*                                                                         *)
(* A scancode is the key it names and its release bit.  "Shift" is either  *)
(* Shift key: the driver keeps one flag for both, and clears it when one   *)
(* is let go while the other is still held.  A character is the name of    *)
(* the key, in capitals for a shifted letter.  The ring has one            *)
(* writer if only the interrupt handler decodes and one reader if only the *)
(* shell takes characters; Console has the callers and their overlaps.     *)
(***************************************************************************)
EXTENDS Naturals, Sequences

CONSTANT QUEUE_SIZE
ASSUME QueueAssumption == QUEUE_SIZE \in Nat \ {0, 1}

VARIABLES
  queue, queue_head, queue_tail,            \* the ring, with its two indices
  shift_down, caps_lock, extended_sequence  \* the decoder

ring == <<queue, queue_head, queue_tail>>
decoder == <<shift_down, caps_lock, extended_sequence>>
-----------------------------------------------------------------------------
Letters == {"a", "f", "l", "s"}
Arrows == {"Up", "Down", "Left", "Right"}
Keys == Letters \cup Arrows \cup {"Enter", "Back", "Esc", "Shift", "Caps"}

Make(k) == [key |-> k, released |-> FALSE]
Break(k) == [key |-> k, released |-> TRUE]
EXTENDED_PREFIX == Break("0x60")   \* 0xE0

NUL == "0"
capital == [a |-> "A", f |-> "F", l |-> "L", s |-> "S"]

(* Both key maps.  A key they do not reach, such as a keypad arrow, is NUL. *)
translate(k) ==
  CASE k \in Letters -> IF shift_down # caps_lock THEN capital[k] ELSE k
    [] k \in {"Enter", "Back", "Esc"} -> k
    [] OTHER -> NUL

\* Mutant: only a key's press ends an extended sequence.
still_extended_presses(b) == b = EXTENDED_PREFIX \/ (extended_sequence /\ b.released)

\* extended_sequence after scancode b.
still_extended(b) == b = EXTENDED_PREFIX

(* What process_scancode enqueues for scancode b, NUL for nothing. *)
decoded(b) ==
  IF b = EXTENDED_PREFIX \/ b.released \/ b.key \in {"Shift", "Caps"} THEN NUL
  ELSE IF extended_sequence THEN IF b.key \in Arrows THEN b.key ELSE NUL
  ELSE translate(b.key)

(* What process_scancode does to the decoder. *)
Decode(b) ==
  LET swallowed == b = EXTENDED_PREFIX \/ (extended_sequence /\ ~b.released) IN
  /\ shift_down' = IF b.key = "Shift" /\ ~swallowed THEN ~b.released ELSE shift_down
  /\ caps_lock' = IF b = Make("Caps") /\ ~swallowed THEN ~caps_lock ELSE caps_lock
  /\ extended_sequence' = still_extended(b)
-----------------------------------------------------------------------------
after(i) == (i + 1) % QUEUE_SIZE

\* available(), once it has loaded head from queue_head.
available_from(head) == head # queue_tail
available == available_from(queue_head)

has_room == after(queue_head) # queue_tail

(* The characters between tail and head, oldest first. *)
contents ==
  [i \in 1 .. (queue_head + QUEUE_SIZE - queue_tail) % QUEUE_SIZE |->
     queue[(queue_tail + i - 1) % QUEUE_SIZE]]

(* enqueue in one piece, as the interrupt handler runs it. *)
enqueue(c) ==
  /\ queue' = IF c # NUL /\ has_room THEN [queue EXCEPT ![queue_head] = c] ELSE queue
  /\ queue_head' = IF c # NUL /\ has_room THEN after(queue_head) ELSE queue_head

KeyboardInit ==
  /\ queue = [i \in 0 .. QUEUE_SIZE - 1 |-> NUL]
  /\ queue_head = 0 /\ queue_tail = 0
  /\ shift_down = FALSE /\ caps_lock = FALSE /\ extended_sequence = FALSE

=============================================================================
