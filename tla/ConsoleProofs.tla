--------------------------- MODULE ConsoleProofs ---------------------------
(***************************************************************************)
(* The keyboard's part of Console, for every ring, script and session: the *)
(* keys reach the shell in the order they were typed.                      *)
(***************************************************************************)
EXTENDS Console, KeyboardProofs, TLAPS

\* Most leaves here need no arithmetic and go to Zenon; the others cite SMT.
USE ZenonT(60)

(* Strokes, and the decoder after everything the person has done: never in   *)
(* the middle of an extended sequence.                                       *)
Strokes == Keys \cup {"Unup", "Unshift"}
Hands == [shift : BOOLEAN, caps : BOOLEAN]
Then(h) == [shift |-> h.shift, caps |-> h.caps, ext |-> FALSE]
HandAfter(h, k) ==
  [shift |-> IF k \in {"Shift", "Unshift"} THEN k = "Shift" ELSE h.shift,
   caps |-> IF k = "Caps" THEN ~h.caps ELSE h.caps]

(* A stroke's scancodes stand for what the person expects of it. *)
LEMMA StandsStroke ==
  ASSUME NEW d, NEW n, NEW B \in Seq(Scancodes), NEW W \in Seq(Chars), hand \in Hands,
         Stands(d, n, B, W, Then(hand)), NEW k \in Strokes
  PROVE  /\ B \o bytes(k) \in Seq(Scancodes) /\ W \o expected(k) \in Seq(Chars)
         /\ Stands(d, n, B \o bytes(k), W \o expected(k), Then(HandAfter(hand, k)))
<1> USE DEF Letters, Arrows
<1>1. Then(hand) \in DecoderStates /\ W \o <<>> = W
  BY SMTT(60) DEF Hands, Then, DecoderStates
<1>2. EXTENDED_PREFIX \in Scancodes /\ \A x \in Keys : Make(x) \in Scancodes /\ Break(x) \in Scancodes
  BY DEF EXTENDED_PREFIX, Make, Break, Scancodes
<1>3. CASE k \in Arrows \cup {"Unup"}
  <2>1. PICK b \in Scancodes : b = IF k = "Unup" THEN Break("Up") ELSE Make(k)
    BY <1>2, <1>3 DEF Keys
  <2>2. bytes(k) = <<EXTENDED_PREFIX, b>>
    BY <1>3, <2>1 DEF bytes
  <2>3. PICK A \in Seq(Scancodes) : A = Append(B, EXTENDED_PREFIX)
    <3>1. Append(B, EXTENDED_PREFIX) \in Seq(Scancodes)
      BY SMTT(60), <1>2
    <3> QED
      BY <3>1
  <2>4. Append(A, b) = B \o bytes(k) /\ Append(A, b) \in Seq(Scancodes)
    BY SMTT(60), <2>2, <2>3, <1>2
  <2>5. PICK m \in DecoderStates : m = state_after(Then(hand), EXTENDED_PREFIX)
    BY <1>1, <1>2, DecoderTypes
  <2>6. char_of(Then(hand), EXTENDED_PREFIX) = NUL
    BY DEF char_of
  <2>7. Stands(d, n, A, W, m)
    BY <1>2, <2>3, <2>5, <2>6, StandsLonger
  <2>8. m = [shift |-> hand.shift, caps |-> hand.caps, ext |-> TRUE]
    BY <2>5 DEF state_after, Then, EXTENDED_PREFIX, Break
  <2>9. state_after(m, b) = Then(HandAfter(hand, k))
    BY <1>3, <2>1, <2>8 DEF state_after, Then, HandAfter, EXTENDED_PREFIX, Break, Make, Hands
  <2>10. CASE k = "Unup"
    <3>1. char_of(m, b) = NUL /\ expected(k) = <<>>
      BY <2>1, <2>10 DEF char_of, Break, expected
    <3>2. Stands(d, n, Append(A, b), W, state_after(m, b))
      BY <2>7, <3>1, StandsLonger
    <3> QED
      BY <1>1, <2>4, <2>9, <3>1, <3>2
  <2>11. CASE k \in Arrows
    <3>1. char_of(m, b) = k /\ k # NUL /\ expected(k) = <<k>>
      BY <2>1, <2>8, <2>11 DEF char_of, Make, Break, EXTENDED_PREFIX, expected, NUL
    <3>2. Stands(d, n, Append(A, b), Append(W, k), state_after(m, b))
      BY <2>7, <3>1, StandsLonger
    <3>3. Append(W, k) = W \o <<k>> /\ Append(W, k) \in Seq(Chars)
      BY SMTT(60), <2>11 DEF Chars
    <3> QED
      BY <2>4, <2>9, <3>1, <3>2, <3>3
  <2> QED
    BY <1>3, <2>10, <2>11
<1>4. CASE k \notin Arrows \cup {"Unup"}
  <2>1. PICK b \in Scancodes : b = IF k = "Unshift" THEN Break("Shift") ELSE Make(k)
    BY <1>2, <1>4 DEF Strokes, Keys
  <2>2. bytes(k) = <<b>>
    BY <1>4, <2>1 DEF bytes
  <2>3. Append(B, b) = B \o bytes(k) /\ Append(B, b) \in Seq(Scancodes)
    BY SMTT(60), <2>2
  <2>4. state_after(Then(hand), b) = Then(HandAfter(hand, k))
    BY <1>4, <2>1 DEF state_after, Then, HandAfter, EXTENDED_PREFIX, Break, Make, Hands
  <2>5. CASE k \in {"Shift", "Caps", "Unshift"}
    <3>1. char_of(Then(hand), b) = NUL /\ expected(k) = <<>>
      BY <2>1, <2>5 DEF char_of, Break, Make, expected
    <3>2. Stands(d, n, Append(B, b), W, state_after(Then(hand), b))
      BY <3>1, StandsLonger
    <3> QED
      BY <1>1, <2>3, <2>4, <3>1, <3>2
  <2>6. CASE k \in Letters \cup {"Enter", "Back", "Esc"}
    <3>1. PICK c \in Chars : c = IF k \in Letters /\ hand.shift # hand.caps THEN capital[k] ELSE k
      BY SMTT(60), <2>6 DEF Chars, capital
    <3>2. c # NUL /\ expected(k) = <<c>>
      BY SMTT(60), <2>6, <3>1 DEF expected, NUL, capital
    <3>3. char_of(Then(hand), b) = c
      BY <2>1, <2>6, <3>1 DEF char_of, Then, Make, EXTENDED_PREFIX, Break
    <3>4. Stands(d, n, Append(B, b), Append(W, c), state_after(Then(hand), b))
      BY <3>2, <3>3, StandsLonger
    <3>5. Append(W, c) = W \o <<c>> /\ Append(W, c) \in Seq(Chars)
      BY SMTT(60)
    <3> QED
      BY <2>3, <2>4, <3>2, <3>4, <3>5
  <2> QED
    BY <1>4, <2>5, <2>6 DEF Strokes, Keys
<1> QED
  BY <1>3, <1>4

-----------------------------------------------------------------------------
(* The invariant. *)

(* The decoder's state, and the scancodes it has not seen: in the main       *)
(* loop's hand, in port 0x60, on the wire.                                   *)
now == [shift |-> shift_down, caps |-> caps_lock, ext |-> extended_sequence]
InFlight == (IF pc = "scan" THEN <<byte>> ELSE <<>>) \o (IF full THEN <<data>> ELSE <<>>) \o wire

(* The characters in the ring, and the one the main loop is about to store.  *)
InRing == Count(queue_head, queue_tail)
Held == IF pc \in {"store", "advance"} THEN 1 ELSE 0

(* The types of what the keyboard's state is made of. *)
KeyTypes ==
  /\ queue \in [Places -> Chars] /\ queue_head \in Places /\ queue_tail \in Places
  /\ next_head \in Places /\ next_tail \in Places /\ ch \in Chars
  /\ byte \in Scancodes /\ data \in Scancodes /\ wire \in Seq(Scancodes)
  /\ now \in DecoderStates /\ full \in BOOLEAN /\ overlap \in BOOLEAN
  /\ hand \in Hands /\ script \in Seq(SUBSET Strokes) /\ session \in DOMAIN Sessions

(* What the main loop knows inside its two windows. *)
Windows ==
  /\ pc = "data" => full
  /\ pc \in {"store", "advance"} =>
       has_room /\ next_head = after(queue_head) /\ waiting[InRing + 1] = ch
  /\ pc = "advance" => queue[queue_head] = ch
  /\ pc = "check" /\ available_from(next_head) => available
  /\ pc \in {"take", "bump", "settail"} => available
  /\ pc \in {"bump", "settail"} => ch = queue[queue_tail]
  /\ pc = "settail" => next_tail = after(queue_tail)

(* The characters waited for are those in the ring, the one the main loop    *)
(* holds, and those the scancodes in flight stand for.                       *)
Ordered ==
  /\ waiting \in Seq(Chars)
  /\ Stands(now, InRing + Held, InFlight, waiting, Then(hand))
  /\ \A i \in 1 .. InRing : waiting[i] = Ring(queue, queue_head, queue_tail)[i]

(* The inductive invariant behind KeysArriveInOrder. *)
KeysInv == KeyTypes /\ (~overlap => Windows /\ Ordered)

(* The ring as the model writes it. *)
LEMMA Contents ==
  ASSUME KeyTypes
  PROVE  /\ contents = Ring(queue, queue_head, queue_tail) /\ Len(contents) = InRing
         /\ InRing \in Nat /\ contents \in Seq(Chars)
<1>1. contents = Ring(queue, queue_head, queue_tail)
  BY DEF contents, Ring, Count, Place
<1>2. InRing \in Nat /\ InRing < QUEUE_SIZE /\ QUEUE_SIZE \in Nat
  <2>1. queue_head \in Places /\ queue_tail \in Places
    BY DEF KeyTypes
  <2>2. InRing \in Places
    BY <2>1, Counts DEF InRing
  <2> QED
    BY SMTT(60), <2>2, QueueAssumption DEF Places
<1>3. ASSUME NEW i \in 1 .. InRing PROVE queue[Place(queue_tail, i)] \in Chars
  <2>1. i \in 1 .. QUEUE_SIZE
    BY SMTT(60), <1>2
  <2> QED
    BY <2>1, PlacesOf DEF KeyTypes
<1>4. /\ Ring(queue, queue_head, queue_tail) \in Seq(Chars)
      /\ Len(Ring(queue, queue_head, queue_tail)) = InRing
  BY SMTT(60), <1>2, <1>3 DEF Ring, InRing
<1> QED
  BY <1>1, <1>2, <1>4

(* The oldest character lies at the tail. *)
LEMMA Oldest ==
  ASSUME KeyTypes, available
  PROVE  InRing > 0 /\ Ring(queue, queue_head, queue_tail)[1] = queue[queue_tail]
<1>1. InRing \in Nat /\ InRing # 0 /\ QUEUE_SIZE \in Nat /\ QUEUE_SIZE > 1
  <2>1. queue_head \in Places /\ queue_tail \in Places /\ queue_head # queue_tail
    BY DEF KeyTypes, available, available_from
  <2>2. InRing \in Places /\ InRing # 0
    BY SMTT(60), <2>1, Counts DEF InRing
  <2> QED
    BY SMTT(60), <2>2, QueueAssumption DEF Places
<1>2. 1 \in 1 .. InRing /\ 1 \in 1 .. QUEUE_SIZE
  BY SMTT(60), <1>1
<1>3. Place(queue_tail, 1) = queue_tail
  <2>1. queue_tail \in Places
    BY DEF KeyTypes
  <2>2. Place(queue_tail, 1) = IF queue_tail + 1 - 1 < QUEUE_SIZE THEN queue_tail + 1 - 1
                               ELSE queue_tail + 1 - 1 - QUEUE_SIZE
    BY <1>2, <2>1, PlacesOf
  <2> QED
    BY SMTT(60), <1>1, <2>1, <2>2 DEF Places
<1> QED
  BY SMTT(60), <1>1, <1>2, <1>3 DEF Ring, InRing

(* The invariant is what the property needs. *)
LEMMA KeysInvSound == KeysInv => KeysArriveInOrder
<1> SUFFICES ASSUME KeysInv, ~overlap
             PROVE  /\ Len(contents) <= Len(waiting) /\ contents = SubSeq(waiting, 1, Len(contents))
                    /\ pc \in {"bump", "settail"} => ch = Head(waiting)
  BY DEF KeysArriveInOrder
<1>1. KeyTypes /\ Windows /\ Ordered
  BY DEF KeysInv
<1>2. /\ contents = Ring(queue, queue_head, queue_tail) /\ Len(contents) = InRing /\ InRing \in Nat
      /\ contents \in Seq(Chars) /\ waiting \in Seq(Chars)
  BY <1>1, Contents DEF Ordered
<1>3. InRing <= Len(waiting)
  <2>1. InFlight \in Seq(Scancodes)
    BY SMTT(60), <1>1 DEF InFlight, KeyTypes
  <2>2. InRing + Held <= Len(waiting)
    BY <1>1, <1>2, <2>1, StandsBehind DEF Ordered
  <2> QED
    BY SMTT(60), <1>2, <2>2 DEF Held
<1>4. contents = SubSeq(waiting, 1, Len(contents))
  <2>1. \A i \in 1 .. InRing : waiting[i] = contents[i]
    BY <1>1, <1>2 DEF Ordered
  <2>2. SubSeq(contents, 1, InRing) = SubSeq(waiting, 1, InRing)
    BY SMTT(60), <1>2, <1>3, <2>1
  <2> QED
    BY SMTT(60), <1>2, <1>3, <2>2
<1>5. ASSUME pc \in {"bump", "settail"} PROVE ch = Head(waiting)
  <2>1. available /\ ch = queue[queue_tail]
    BY <1>1, <1>5 DEF Windows
  <2>2. InRing > 0 /\ contents[1] = ch
    BY <1>1, <1>2, <2>1, Oldest
  <2>3. waiting[1] = ch
    BY SMTT(60), <1>1, <1>2, <2>2 DEF Ordered
  <2> QED
    BY SMTT(60), <1>2, <1>3, <2>2, <2>3
<1> QED
  BY <1>2, <1>3, <1>4, <1>5

(* It holds when the driver is initialized. *)
LEMMA KeysInit == Init => KeysInv
<1> SUFFICES ASSUME Init PROVE KeysInv
  OBVIOUS
<1>1. QUEUE_SIZE \in Nat /\ QUEUE_SIZE > 1 /\ 0 \in Places
  BY SMTT(60), QueueAssumption DEF Places
<1>2. Make("Esc") \in Scancodes /\ NUL \in Chars
  BY DEF Make, Scancodes, Keys, Chars
<1>3. KeyTypes
  <2>1. script \in Seq(SUBSET Strokes) /\ session \in DOMAIN Sessions
    BY SessionsAssumption DEF Init, Strokes
  <2>2. now \in DecoderStates /\ hand \in Hands
    BY DEF Init, KeyboardInit, now, DecoderStates, Hands
  <2>3. queue \in [Places -> Chars]
    BY <1>2 DEF Init, KeyboardInit, Places
  <2>4. /\ queue_head = 0 /\ queue_tail = 0 /\ next_head = 0 /\ next_tail = 0 /\ ch = NUL
        /\ byte = Make("Esc") /\ data = Make("Esc") /\ wire = <<>>
        /\ full = FALSE /\ overlap = FALSE
    BY DEF Init, KeyboardInit
  <2> QED
    BY SMTT(60), <1>1, <1>2, <2>1, <2>2, <2>3, <2>4 DEF KeyTypes
<1>4. InRing = 0
  BY <1>1, Counts DEF Init, KeyboardInit, InRing
<1>5. Ordered
  <2>1. InFlight = <<>> /\ waiting = <<>> /\ waiting \in Seq(Chars) /\ Len(waiting) = 0
    BY SMTT(60) DEF Init, InFlight
  <2>2. Then(hand) = now /\ Held = 0 /\ now \in DecoderStates
    BY <1>3 DEF Init, KeyboardInit, Then, now, Held, KeyTypes
  <2>3. Stands(now, 0, <<>>, waiting, now)
    BY <2>1, <2>2, StandsNothing
  <2>4. InRing + Held = 0
    BY SMTT(60), <1>4, <2>2
  <2> QED
    BY SMTT(60), <1>4, <2>1, <2>2, <2>3, <2>4 DEF Ordered
<1>6. Windows
  BY DEF Init, Windows
<1> QED
  BY <1>3, <1>5, <1>6 DEF KeysInv

(* The decoder's step is the function of its state. *)
LEMMA DecodesNow ==
  ASSUME KeyTypes, NEW b \in Scancodes
  PROVE  /\ decoded(b) = char_of(now, b) /\ decoded(b) \in Chars
         /\ Decode(b) => now' = state_after(now, b) /\ now' \in DecoderStates
<1>1. decoded(b) = char_of(now, b)
  BY SMTT(60) DEF decoded, translate, char_of, now
<1>2. Decode(b) => now' = state_after(now, b)
  BY DEF Decode, still_extended, state_after, now
<1>3. char_of(now, b) \in Chars /\ state_after(now, b) \in DecoderStates
  BY DecoderTypes DEF KeyTypes
<1> QED
  BY <1>1, <1>2, <1>3

(* What is on its way. *)
LEMMA Flight ==
  ASSUME KeyTypes
  PROVE  /\ InFlight \in Seq(Scancodes)
         /\ pc # "scan" /\ ~full => InFlight = wire
         /\ pc # "scan" /\ full => InFlight = <<data>> \o wire
         /\ pc = "scan" /\ ~full => InFlight = <<byte>> \o wire
         /\ pc = "scan" /\ full => InFlight = <<byte>> \o (<<data>> \o wire)
<1>1. byte \in Scancodes /\ data \in Scancodes /\ wire \in Seq(Scancodes)
  BY DEF KeyTypes
<1> QED
  BY SMTT(60), <1>1 DEF InFlight

(* Dropping the character behind the ring's. *)
Without(W, k) == SubSeq(W, 1, k) \o SubSeq(W, k + 2, Len(W))
LEMMA DropMoves ==
  ASSUME NEW W \in Seq(Chars), NEW k \in Nat, k + 1 <= Len(W),
         NEW V, V = Without(W, k)
  PROVE  V \in Seq(Chars) /\ Moved(W, V, k + 1, 1) /\ \A i \in 1 .. k : V[i] = W[i]
<1>1. PICK n \in Nat : n = Len(W)
  BY SMTT(60)
<1>2. PICK X \in Seq(Chars) : X = SubSeq(W, 1, k)
  <2>1. SubSeq(W, 1, k) \in Seq(Chars)
    BY SMTT(60), <1>1
  <2> QED
    BY <2>1
<1>3. PICK Y \in Seq(Chars) : Y = SubSeq(W, k + 2, n)
  <2>1. SubSeq(W, k + 2, n) \in Seq(Chars)
    BY SMTT(60), <1>1
  <2> QED
    BY <2>1
<1>4. Len(X) = k /\ \A i \in 1 .. k : X[i] = W[i]
  BY SMTT(60), <1>1, <1>2
<1>5. Len(Y) = n - k - 1 /\ \A i \in 1 .. n - k - 1 : Y[i] = W[k + 1 + i]
  <2>1. k + 2 \in Nat \ {0} /\ n \in 0 .. Len(W)
    BY SMTT(60), <1>1
  <2>2. /\ Len(Y) = IF k + 2 <= n THEN n - (k + 2) + 1 ELSE 0
        /\ \A i \in 1 .. n - (k + 2) + 1 : Y[i] = W[k + 2 + i - 1]
    BY <1>3, <2>1, PartOfSeq
  <2>3. n - (k + 2) + 1 = n - k - 1 /\ \A i \in Int : k + 2 + i - 1 = k + 1 + i
    BY SMTT(60), <1>1
  <2> QED
    BY SMTT(60), <1>1, <2>2, <2>3
<1>6. V = X \o Y
  BY <1>1, <1>2, <1>3 DEF Without
<1>7. /\ V \in Seq(Chars) /\ Len(V) = Len(X) + Len(Y)
       /\ \A i \in 1 .. Len(X) + Len(Y) : V[i] = IF i <= Len(X) THEN X[i] ELSE Y[i - Len(X)]
  <2>1. /\ X \o Y \in Seq(Chars)
        /\ Len(X \o Y) = Len(X) + Len(Y)
        /\ \A i \in 1 .. Len(X) + Len(Y) : (X \o Y)[i] = IF i <= Len(X) THEN X[i] ELSE Y[i - Len(X)]
    BY Concatenation
  <2> QED
    BY <1>6, <2>1
<1>8. Len(V) = n - 1 /\ \A i \in 1 .. k : V[i] = W[i]
  <2>1. k + (n - k - 1) = n - 1 /\ n - 1 \in Nat /\ \A i \in 1 .. k : i \in 1 .. n - 1 /\ i <= k
    BY SMTT(60), <1>1
  <2> QED
    BY <1>4, <1>5, <1>7, <2>1
<1>9. ASSUME NEW j \in Nat, k < j, j <= n - 1 PROVE V[j] = W[j + 1]
  <2>1. PICK i \in 1 .. n - k - 1 : i = j - k
    BY SMTT(60), <1>1, <1>9
  <2>2. V[j] = Y[i]
    <3>1. j \in 1 .. k + (n - k - 1) /\ ~(j <= k)
      BY SMTT(60), <1>1, <1>9
    <3> QED
      BY <1>4, <1>5, <1>7, <2>1, <3>1
  <2>3. k + 1 + i = j + 1
    BY SMTT(60), <1>9, <2>1
  <2> QED
    BY <1>5, <2>2, <2>3
<1>10. Moved(W, V, k + 1, 1)
  <2>1. (k + 1) - 1 = k /\ 1 <= k + 1
    BY SMTT(60)
  <2> QED
    BY <1>1, <1>8, <1>9, <2>1 DEF Moved
<1> QED
  BY <1>7, <1>8, <1>10

(* Scancode b, the first on its way, is decoded: its character comes next    *)
(* behind the ring's, or is dropped.                                         *)
LEMMA Consumed ==
  ASSUME KeyTypes, Ordered, Held = 0, NEW b \in Scancodes, NEW B \in Seq(Scancodes),
         InFlight = <<b>> \o B, NEW c, c = char_of(now, b), NEW V, V = Dropped(c)
  PROVE  /\ V \in Seq(Chars) /\ \A i \in 1 .. InRing : V[i] = Ring(queue, queue_head, queue_tail)[i]
         /\ IF c # NUL /\ has_room
            THEN V[InRing + 1] = c /\ Stands(state_after(now, b), InRing + 1, B, V, Then(hand))
            ELSE Stands(state_after(now, b), InRing, B, V, Then(hand))
<1>1. PICK A \in Seq(Scancodes) : A = InFlight
  BY Flight
<1>2. A # <<>> /\ A[1] = b /\ Tail(A) = B
  BY SMTT(60), <1>1
<1>3. /\ waiting \in Seq(Chars) /\ Stands(now, InRing, A, waiting, Then(hand))
      /\ \A i \in 1 .. InRing : waiting[i] = Ring(queue, queue_head, queue_tail)[i]
      /\ Len(contents) = InRing /\ InRing \in Nat
  <2>1. InRing + Held = InRing
    BY SMTT(60), Contents
  <2> QED
    BY <1>1, <2>1, Contents DEF Ordered
<1>4. IF c = NUL THEN Stands(state_after(now, b), InRing, B, waiting, Then(hand))
      ELSE /\ Stands(state_after(now, b), InRing + 1, B, waiting, Then(hand))
           /\ InRing + 1 <= Len(waiting) /\ waiting[InRing + 1] = c
  <2>1. IF char_of(now, A[1]) = NUL
        THEN Stands(state_after(now, A[1]), InRing, Tail(A), waiting, Then(hand))
        ELSE /\ Stands(state_after(now, A[1]), InRing + 1, Tail(A), waiting, Then(hand))
             /\ InRing + 1 <= Len(waiting) /\ waiting[InRing + 1] = char_of(now, A[1])
    BY SMTT(60), <1>2, <1>3, StandsShorter
  <2> QED
    BY <1>2, <2>1
<1>5. CASE c = NUL \/ has_room
  BY <1>3, <1>4, <1>5 DEF Dropped
<1>6. CASE c # NUL /\ ~has_room
  <2>1. V = SubSeq(waiting, 1, InRing) \o SubSeq(waiting, InRing + 2, Len(waiting))
    BY <1>3, <1>6 DEF Dropped
  <2>2. /\ V \in Seq(Chars) /\ Moved(waiting, V, InRing + 1, 1)
        /\ \A i \in 1 .. InRing : V[i] = waiting[i]
    <3>1. PICK k \in Nat : k = InRing /\ k + 1 <= Len(waiting)
      BY <1>3, <1>4, <1>6
    <3>2. V = Without(waiting, k)
      BY <2>1, <3>1 DEF Without
    <3>3. V \in Seq(Chars) /\ Moved(waiting, V, k + 1, 1) /\ \A i \in 1 .. k : V[i] = waiting[i]
      <4>1. waiting \in Seq(Chars) /\ k + 1 <= Len(waiting)
        BY <1>3, <3>1
      <4> QED
        BY <3>2, <4>1, DropMoves
    <3> QED
      BY <3>1, <3>3
  <2>3. Stands(state_after(now, b), (InRing + 1) - 1, B, V, Then(hand))
    BY <1>3, <1>4, <1>6, <2>2, StandsShifted
  <2>4. (InRing + 1) - 1 = InRing
    BY SMTT(60), <1>3
  <2> QED
    BY <1>3, <1>6, <2>2, <2>3, <2>4
<1> QED
  BY <1>5, <1>6

(* A step that leaves the ring and the decoder alone, and the scancodes on   *)
(* their way where the order is concerned.                                   *)
LEMMA StillOrdered ==
  ASSUME KeysInv, UNCHANGED <<ring, decoder, person, waiting, overlap>>,
         byte' \in Scancodes, data' \in Scancodes, wire' \in Seq(Scancodes), full' \in BOOLEAN,
         ch' \in Chars, next_head' \in Places, next_tail' \in Places,
         ~overlap => InFlight' = InFlight /\ Held' = Held
  PROVE  KeyTypes' /\ (~overlap' => Ordered')
<1>1. now' = now /\ InRing' = InRing /\ Then(hand)' = Then(hand)
  BY DEF now, decoder, InRing, ring, Count, Then, person
<1>2. KeyTypes'
  BY <1>1 DEF KeysInv, KeyTypes, ring, person
<1>3. ASSUME ~overlap' PROVE Ordered'
  <2>1. ~overlap
    BY <1>3
  <2>2. InFlight' = InFlight /\ Held' = Held /\ waiting' = waiting /\ Ordered
    BY <2>1 DEF KeysInv
  <2>3. Stands(now, InRing + Held, InFlight, waiting, Then(hand))' =
        Stands(now, InRing + Held, InFlight, waiting, Then(hand))
    BY SMTT(60), <1>1, <2>2 DEF Stands, Decoding, Decodes
  <2>4. Ring(queue, queue_head, queue_tail)' = Ring(queue, queue_head, queue_tail)
    BY DEF Ring, Count, Place, ring
  <2> QED
    BY <1>1, <2>2, <2>3, <2>4 DEF Ordered
<1> QED
  BY <1>2, <1>3

(* The main loop outside its windows, and a process or an interrupt that has *)
(* nothing to do.                                                            *)
LEMMA QuietKeys ==
  ASSUME KeysInv, UNCHANGED <<ring, decoder, person, controller, waiting, overlap>>,
         byte' \in Scancodes, ch' \in Chars, next_head' \in Places, next_tail' \in Places,
         pc \notin {"scan", "store", "advance"},
         pc' \notin {"data", "scan", "store", "advance", "check", "take", "bump", "settail"}
  PROVE  KeysInv'
<1>1. InFlight' = InFlight /\ Held' = Held
  BY DEF InFlight, Held, controller
<1>2. data' \in Scancodes /\ wire' \in Seq(Scancodes) /\ full' \in BOOLEAN
  BY DEF KeysInv, KeyTypes, controller
<1>3. KeyTypes' /\ (~overlap' => Ordered')
  BY <1>1, <1>2, StillOrdered
<1>4. Windows'
  BY DEF Windows
<1> QED
  BY <1>3, <1>4 DEF KeysInv

(* A scancode moves from the wire to port 0x60. *)
LEMMA PresentKeys == ASSUME KeysInv, Present PROVE KeysInv'
<1>1. KeyTypes /\ wire \in Seq(Scancodes) /\ wire # <<>> /\ ~full /\ full' = TRUE
  BY DEF KeysInv, KeyTypes, Present
<1>2. data' = Head(wire) /\ wire' = Tail(wire) /\ data' \in Scancodes /\ wire' \in Seq(Scancodes)
  BY SMTT(60), <1>1 DEF Present
<1>3. UNCHANGED <<ring, decoder, person, waiting, overlap, pc, locals>>
  BY DEF Present
<1>4. wire = <<data'>> \o wire'
  BY SMTT(60), <1>1, <1>2
<1>5. InFlight' = InFlight /\ Held' = Held
  <2>1. Held' = Held
    BY <1>3 DEF Held
  <2>2. InFlight' = (IF pc = "scan" THEN <<byte>> ELSE <<>>) \o <<data'>> \o wire'
    BY <1>1, <1>3 DEF InFlight, locals
  <2>3. InFlight = (IF pc = "scan" THEN <<byte>> ELSE <<>>) \o <<>> \o wire
    BY <1>1 DEF InFlight
  <2>4. byte \in Scancodes
    BY <1>1 DEF KeyTypes
  <2> QED
    BY SMTT(60), <1>1, <1>2, <1>4, <2>1, <2>2, <2>3, <2>4
<1>6. KeyTypes' /\ (~overlap' => Ordered')
  <2>1. byte' \in Scancodes /\ ch' \in Chars /\ next_head' \in Places /\ next_tail' \in Places
    BY <1>1, <1>3 DEF KeyTypes, locals
  <2> QED
    BY <1>1, <1>2, <1>3, <1>5, <2>1, StillOrdered
<1>7. ~overlap' => Windows'
  BY <1>1, <1>3 DEF KeysInv, Windows, InRing, Count, has_room, available, available_from,
     after, ring,
     locals
<1> QED
  BY <1>6, <1>7 DEF KeysInv

(* The main loop takes the byte of port 0x60, which still has it. *)
LEMMA PollDataKeys == ASSUME KeysInv, PollData PROVE KeysInv'
<1>1. KeyTypes /\ pc = "data" /\ pc' = "scan" /\ byte' = data /\ full' = FALSE
  BY DEF KeysInv, PollData, At
<1>2. UNCHANGED <<ring, decoder, person, waiting, overlap, wire, data, ch, next_head, next_tail>>
  BY DEF PollData
<1>3. data \in Scancodes /\ wire \in Seq(Scancodes)
  BY <1>1 DEF KeyTypes
<1>4. ASSUME ~overlap PROVE InFlight' = InFlight /\ Held' = Held
  <2>1. full
    BY <1>1, <1>4 DEF KeysInv, Windows
  <2>2. InFlight' = <<data>> \o <<>> \o wire
    BY <1>1, <1>2 DEF InFlight
  <2>3. InFlight = <<>> \o <<data>> \o wire
    BY <1>1, <2>1 DEF InFlight
  <2>4. Held' = Held
    BY <1>1 DEF Held
  <2> QED
    BY SMTT(60), <1>3, <2>2, <2>3, <2>4
<1>5. KeyTypes' /\ (~overlap' => Ordered')
  <2>1. /\ byte' \in Scancodes /\ data' \in Scancodes /\ wire' \in Seq(Scancodes) /\ full' \in BOOLEAN
        /\ ch' \in Chars /\ next_head' \in Places /\ next_tail' \in Places
    BY <1>1, <1>2 DEF KeyTypes
  <2> QED
    BY <1>2, <1>4, <2>1, StillOrdered
<1>6. Windows'
  BY <1>1 DEF Windows
<1> QED
  BY <1>5, <1>6 DEF KeysInv

(* available() in read_char: the head it loads, and what it concludes.       *)
LEMMA LookKeys == ASSUME KeysInv, LoadHead \/ CheckChar PROVE KeysInv'
<1>1. /\ KeyTypes /\ UNCHANGED <<ring, decoder, person, controller, waiting, overlap>>
      /\ pc \in {"avail", "load", "check"} /\ pc' \in {"test", "check", "take", "handle"}
  BY DEF KeysInv, LoadHead, CheckChar, At
<1>2. /\ byte' \in Scancodes /\ ch' \in Chars /\ next_head' \in Places /\ next_tail' \in Places
      /\ data' \in Scancodes /\ wire' \in Seq(Scancodes) /\ full' \in BOOLEAN
  <2>1. /\ Make("Esc") \in Scancodes /\ NUL \in Chars /\ 0 \in Places
    BY SMTT(60), QueueAssumption DEF Make, Scancodes, Keys, Chars, Places
  <2> QED
    BY <1>1, <2>1 DEF KeyTypes, LoadHead, CheckChar, NoLocals, controller
<1>3. KeyTypes' /\ (~overlap' => Ordered')
  <2>1. InFlight' = InFlight /\ Held' = Held
    BY <1>1 DEF InFlight, Held, controller
  <2> QED
    BY <1>1, <1>2, <2>1, StillOrdered
<1>4. ~overlap' => Windows'
  <2>1. CASE LoadHead
    BY <1>1, <2>1 DEF LoadHead, At, Windows, available, available_from, ring
  <2>2. CASE CheckChar
    <3>1. ~overlap => (available_from(next_head) => available)
      BY <2>2 DEF CheckChar, At, KeysInv, Windows
    <3> QED
      BY SMTT(60), <1>1, <2>2, <3>1 DEF CheckChar, At, Windows, available, available_from, ring
  <2> QED
    BY <2>1, <2>2
<1> QED
  BY <1>3, <1>4 DEF KeysInv

(* read_char loads a character and the new tail. *)
LEMMA LoadKeys == ASSUME KeysInv, LoadChar \/ LoadTail PROVE KeysInv'
<1>1. KeyTypes /\ UNCHANGED <<ring, decoder, person, controller, waiting, overlap, byte, next_head>>
  BY DEF KeysInv, LoadChar, LoadTail
<1>2. queue_head \in Places /\ queue_tail \in Places /\ queue \in [Places -> Chars] /\ NUL \in Chars
  BY <1>1 DEF KeyTypes, Chars
<1>3. ch' \in Chars /\ next_tail' \in Places
  <2>1. CASE LoadChar
    BY <1>1, <1>2, <2>1 DEF LoadChar, KeyTypes
  <2>2. CASE LoadTail
    <3>1. after(queue_tail) \in Places
      BY <1>2, Counts
    <3> QED
      BY <1>1, <2>2, <3>1 DEF LoadTail, KeyTypes
  <2> QED
    BY <2>1, <2>2
<1>4. KeyTypes' /\ (~overlap' => Ordered')
  <2>1. /\ byte' \in Scancodes /\ data' \in Scancodes /\ wire' \in Seq(Scancodes) /\ full' \in BOOLEAN
        /\ next_head' \in Places
    BY <1>1 DEF KeyTypes, controller
  <2>2. InFlight' = InFlight /\ Held' = Held
    BY <1>1 DEF InFlight, Held, LoadChar, LoadTail, At, controller
  <2> QED
    BY <1>1, <1>3, <2>1, <2>2, StillOrdered
<1>5. ~overlap' => Windows'
  <2>1. CASE LoadChar
    <3>1. ~overlap => available
      BY <2>1 DEF LoadChar, At, KeysInv, Windows
    <3> QED
      BY SMTT(60), <1>1, <2>1, <3>1 DEF LoadChar, At, Windows, available, available_from, ring
  <2>2. CASE LoadTail
    BY SMTT(60), <1>1, <2>2 DEF LoadTail, At, KeysInv, Windows, available, available_from,
       after, ring
  <2> QED
    BY <2>1, <2>2
<1> QED
  BY <1>4, <1>5 DEF KeysInv

(* A stroke is one or two scancodes, and at most one character. *)
LEMMA StrokeTypes ==
  ASSUME NEW k \in Strokes
  PROVE  bytes(k) \in Seq(Scancodes) /\ expected(k) \in Seq(Chars)
<1>1. \A x \in Keys : Make(x) \in Scancodes /\ Break(x) \in Scancodes
  BY DEF Make, Break, Scancodes
<1>2. EXTENDED_PREFIX \in Scancodes
  BY DEF EXTENDED_PREFIX, Break, Scancodes
<1>3. bytes(k) \in Seq(Scancodes)
  <2>1. CASE k \in Arrows
    BY SMTT(60), <1>1, <1>2, <2>1 DEF bytes, Arrows, Keys
  <2>2. CASE k = "Unup"
    BY SMTT(60), <1>1, <1>2, <2>2 DEF bytes, Arrows, Keys
  <2>3. CASE k = "Unshift"
    BY SMTT(60), <1>1, <2>3 DEF bytes, Arrows, Keys
  <2>4. CASE k \in Keys \ Arrows
    BY SMTT(60), <1>1, <2>4 DEF bytes, Arrows, Keys, Letters
  <2> QED
    BY <2>1, <2>2, <2>3, <2>4 DEF Strokes
<1>4. expected(k) \in Seq(Chars)
  <2>1. CASE k \in Letters
    <3>1. PICK c \in Chars : c = IF hand.shift # hand.caps THEN capital[k] ELSE k
      BY SMTT(60), <2>1 DEF Letters, capital, Chars
    <3>2. expected(k) = <<c>>
      BY <2>1, <3>1 DEF expected, Letters, Arrows
    <3> QED
      BY SMTT(60), <3>2
  <2>2. CASE k \in Arrows \cup {"Enter", "Back", "Esc"}
    <3>1. k \in Chars /\ expected(k) = <<k>>
      BY <2>2 DEF expected, Letters, Arrows, Chars
    <3> QED
      BY SMTT(60), <3>1
  <2>3. CASE k \notin Letters \cup Arrows \cup {"Enter", "Back", "Esc"}
    <3>1. expected(k) = <<>>
      BY <2>3 DEF expected
    <3> QED
      BY SMTT(60), <3>1
  <2> QED
    BY <2>1, <2>2, <2>3
<1> QED
  BY <1>3, <1>4

(* A stroke: its scancodes go on the wire. *)
LEMMA StrokeKeys == ASSUME KeysInv, script # <<>>, NEW k \in script[1], Stroke(k) PROVE KeysInv'
<1>1. KeyTypes /\ k \in Strokes /\ hand \in Hands /\ wire \in Seq(Scancodes)
  <2>1. KeyTypes
    BY DEF KeysInv
  <2>2. script[1] \in SUBSET Strokes
    BY SMTT(60), <2>1 DEF KeyTypes
  <2> QED
    BY <2>1, <2>2 DEF KeyTypes
<1>2. UNCHANGED <<ring, decoder, data, full, pc, locals, overlap, session>> /\ script' = Tail(script)
  BY DEF Stroke
<1>3. hand' = HandAfter(hand, k) /\ wire' = wire \o bytes(k)
  BY DEF Stroke, HandAfter
<1>4. PICK X \in Seq(Scancodes) : X = bytes(k)
  BY <1>1, StrokeTypes
<1>5. KeyTypes'
  <2>1. wire' \in Seq(Scancodes)
    BY SMTT(60), <1>1, <1>3, <1>4
  <2>2. hand' \in Hands
    BY <1>1, <1>3 DEF HandAfter, Hands
  <2>3. script' \in Seq(SUBSET Strokes)
    <3>1. script \in Seq(SUBSET Strokes)
      BY <1>1 DEF KeyTypes
    <3> QED
      BY SMTT(60), <1>2, <3>1
  <2>4. now' = now
    BY <1>2 DEF now, decoder
  <2> QED
    BY <1>1, <1>2, <2>1, <2>2, <2>3, <2>4 DEF KeyTypes, ring, locals
<1>6. ASSUME ~overlap' PROVE Windows' /\ Ordered'
  <2>1. ~overlap /\ Windows /\ Ordered /\ waiting' = waiting \o expected(k)
    BY SMTT(60), <1>2, <1>6 DEF KeysInv, Stroke
  <2>2. InFlight' = InFlight \o bytes(k)
    <3>1. PICK P \in Seq(Scancodes) : P = IF pc = "scan" THEN <<byte>> ELSE <<>>
      <4>1. byte \in Scancodes
        BY <1>1 DEF KeyTypes
      <4>2. <<byte>> \in Seq(Scancodes) /\ <<>> \in Seq(Scancodes)
        BY SMTT(60), <4>1
      <4>3. (IF pc = "scan" THEN <<byte>> ELSE <<>>) \in Seq(Scancodes)
        BY <4>2
      <4> QED
        BY <4>3
    <3>2. PICK Q \in Seq(Scancodes) : Q = IF full THEN <<data>> ELSE <<>>
      <4>1. data \in Scancodes
        BY <1>1 DEF KeyTypes
      <4>2. <<data>> \in Seq(Scancodes) /\ <<>> \in Seq(Scancodes)
        BY SMTT(60), <4>1
      <4>3. (IF full THEN <<data>> ELSE <<>>) \in Seq(Scancodes)
        BY <4>2
      <4> QED
        BY <4>3
    <3>3. InFlight = (P \o Q) \o wire /\ InFlight' = (P \o Q) \o (wire \o X)
      BY <1>2, <1>3, <1>4, <3>1, <3>2 DEF InFlight, locals
    <3>4. PICK R \in Seq(Scancodes) : R = P \o Q
      <4>1. P \o Q \in Seq(Scancodes)
        BY SMTT(60)
      <4> QED
        BY <4>1
    <3>5. R \o (wire \o X) = (R \o wire) \o X
      <4>1. wire \in Seq(Scancodes) /\ X \in Seq(Scancodes)
        BY <1>1, <1>4 DEF KeyTypes
      <4> QED
        BY SMTT(60), <4>1
    <3> QED
      BY <1>4, <3>3, <3>4, <3>5
  <2>3. InRing \in Nat /\ InRing' = InRing /\ Held' = Held /\ now' = now
    BY <1>1, <1>2, Contents DEF InRing, Count, Held, now, ring, decoder
  <2>4. InFlight \in Seq(Scancodes)
    BY <1>1, Flight
  <2>5. PICK V \in Seq(Chars) :
          /\ V = waiting \o expected(k)
          /\ Stands(now, InRing + Held, InFlight \o bytes(k), V, Then(HandAfter(hand, k)))
    BY <1>1, <2>1, <2>4, StandsStroke DEF Ordered
  <2>6. waiting \in Seq(Chars) /\ InRing + Held <= Len(waiting)
    BY <2>1, <2>4, StandsBehind DEF Ordered
  <2>7. \A i \in 1 .. Len(waiting) : V[i] = waiting[i]
    <3>1. expected(k) \in Seq(Chars)
      BY <1>1, StrokeTypes
    <3>2. PICK E \in Seq(Chars) : E = expected(k)
      BY <3>1
    <3>3. V = waiting \o E
      BY <2>5, <3>2
    <3> QED
      BY SMTT(60), <2>6, <3>3
  <2>8. Ring(queue, queue_head, queue_tail)' = Ring(queue, queue_head, queue_tail)
    BY <1>2 DEF Ring, Count, Place, ring
  <2>9. waiting' = V /\ Then(hand)' = Then(HandAfter(hand, k)) /\ InFlight' = InFlight \o bytes(k)
    BY <1>3, <2>1, <2>2, <2>5 DEF Then
  <2>10. Stands(now, InRing + Held, InFlight, waiting, Then(hand))'
    BY <2>3, <2>5, <2>9 DEF Stands, Decoding, Decodes
  <2>11. ASSUME NEW i \in 1 .. InRing PROVE V[i] = Ring(queue, queue_head, queue_tail)[i]
    <3>1. i \in 1 .. Len(waiting)
      BY SMTT(60), <2>3, <2>6 DEF Held
    <3> QED
      BY <2>1, <2>7, <3>1 DEF Ordered
  <2>12. Ordered'
    BY <2>3, <2>5, <2>8, <2>9, <2>10, <2>11 DEF Ordered
  <2>13. pc \in {"store", "advance"} => V[InRing + 1] = waiting[InRing + 1]
    <3>1. ASSUME pc \in {"store", "advance"} PROVE InRing + 1 \in 1 .. Len(waiting)
      BY SMTT(60), <2>3, <2>6, <3>1 DEF Held
    <3> QED
      BY <2>7, <3>1
  <2>14. Windows'
    BY <1>2, <2>1, <2>3, <2>9, <2>13 DEF Windows, has_room, available, available_from,
       after, ring, locals
  <2> QED
    BY <2>12, <2>14
<1> QED
  BY <1>5, <1>6 DEF KeysInv

(* What enqueue stores, and what waits when g characters are gone. *)
Stored(q, h, c) == [q EXCEPT ![h] = c]
Behind(W, g) == SubSeq(W, g + 1, Len(W))

(* enqueue appends character c: r is the ring's array afterwards, h its head. *)
LEMMA Pushed ==
  ASSUME KeyTypes, has_room, NEW c \in Chars, NEW r, r = Stored(queue, queue_head, c),
         NEW h, h = after(queue_head)
  PROVE  /\ r \in [Places -> Chars] /\ h \in Places /\ h # queue_tail
         /\ InRing \in Nat /\ Count(h, queue_tail) = InRing + 1
         /\ \A i \in 1 .. InRing : Ring(r, h, queue_tail)[i] = Ring(queue, queue_head, queue_tail)[i]
         /\ Ring(r, h, queue_tail)[InRing + 1] = c
<1>1. queue \in [Places -> Chars] /\ queue_head \in Places /\ queue_tail \in Places
  BY DEF KeyTypes
<1>2. /\ r \in [Places -> Chars] /\ r[queue_head] = c
      /\ \A i \in Places \ {queue_head} : r[i] = queue[i]
  BY <1>1 DEF Stored
<1>3. after(queue_head) # queue_tail /\ h \in Places
  BY <1>1, Counts DEF has_room
<1>4. /\ Count(h, queue_tail) = Count(queue_head, queue_tail) + 1
      /\ \A i \in 1 .. Count(queue_head, queue_tail) :
           Ring(r, h, queue_tail)[i] = Ring(r, queue_head, queue_tail)[i]
      /\ Ring(r, h, queue_tail)[Count(queue_head, queue_tail) + 1] = r[queue_head]
  <2>1. /\ Count(after(queue_head), queue_tail) = Count(queue_head, queue_tail) + 1
        /\ \A i \in 1 .. Count(queue_head, queue_tail) :
             Ring(r, after(queue_head), queue_tail)[i] = Ring(r, queue_head, queue_tail)[i]
        /\ Ring(r, after(queue_head), queue_tail)[Count(queue_head, queue_tail) + 1] = r[queue_head]
    BY SMTT(60), <1>1, <1>3, RingPush
  <2> QED
    BY <2>1
<1>5. Ring(r, queue_head, queue_tail) = Ring(queue, queue_head, queue_tail)
  BY <1>1, <1>2, RingStore
<1>6. InRing \in Nat
  BY Contents
<1>7. h # queue_tail
  BY <1>3
<1> QED
  BY <1>2, <1>3, <1>4, <1>5, <1>6, <1>7 DEF InRing

(* The first g characters leave waiting. *)
LEMMA PopMoves ==
  ASSUME NEW W \in Seq(Chars), NEW g \in Nat, g <= Len(W), NEW V, V = Behind(W, g)
  PROVE  /\ V \in Seq(Chars) /\ Len(V) = Len(W) - g /\ \A j \in 1 .. Len(V) : V[j] = W[j + g]
         /\ \A k \in Nat : g <= k => Moved(W, V, k, g)
<1>1. PICK n \in Nat : n = Len(W)
  BY SMTT(60)
<1>2. g + 1 \in Nat \ {0} /\ n \in 0 .. Len(W)
  BY SMTT(60), <1>1
<1>3. /\ SubSeq(W, g + 1, n) \in Seq(Chars)
      /\ Len(SubSeq(W, g + 1, n)) = IF g + 1 <= n THEN n - (g + 1) + 1 ELSE 0
      /\ \A i \in 1 .. n - (g + 1) + 1 : SubSeq(W, g + 1, n)[i] = W[g + 1 + i - 1]
  BY <1>2, PartOfSeq
<1>4. V = SubSeq(W, g + 1, n) /\ n - (g + 1) + 1 = n - g /\ \A i \in Int : g + 1 + i - 1 = i + g
  BY SMTT(60), <1>1 DEF Behind
<1>5. V \in Seq(Chars) /\ Len(V) = n - g /\ \A j \in 1 .. n - g : V[j] = W[j + g]
  <2>1. V \in Seq(Chars)
    BY <1>3, <1>4
  <2>2. Len(V) = n - g
    BY SMTT(60), <1>1, <1>3, <1>4
  <2>3. ASSUME NEW j \in 1 .. n - g PROVE V[j] = W[j + g]
    <3>1. V[j] = W[g + 1 + j - 1] /\ g + 1 + j - 1 = j + g
      BY SMTT(60), <1>3, <1>4, <2>3
    <3> QED
      BY <3>1
  <2> QED
    BY <2>1, <2>2, <2>3
<1>6. ASSUME NEW k \in Nat, g <= k PROVE Moved(W, V, k, g)
  <2>1. ASSUME NEW j \in Nat, k - g < j, j <= Len(V) PROVE V[j] = W[j + g]
    <3>1. j \in 1 .. n - g
      BY SMTT(60), <1>1, <1>5, <1>6, <2>1
    <3> QED
      BY <1>5, <3>1
  <2> QED
    BY <1>1, <1>5, <1>6, <2>1 DEF Moved
<1> QED
  BY <1>1, <1>5, <1>6

(* g characters leave the ring: t is its tail afterwards, V what waits. *)
LEMMA Popped ==
  ASSUME KeyTypes, Ordered, NEW g \in Nat, g <= InRing,
         NEW t, t = Ahead(queue_tail, g),
         NEW V, V = Behind(waiting, g)
  PROVE  /\ t \in Places /\ InRing \in Nat /\ Count(queue_head, t) = InRing - g
         /\ V \in Seq(Chars) /\ Stands(now, Count(queue_head, t) + Held, InFlight, V, Then(hand))
         /\ \A i \in 1 .. Count(queue_head, t) : V[i] = Ring(queue, queue_head, t)[i]
         /\ Held = 1 => V[Count(queue_head, t) + 1] = waiting[InRing + 1]
<1>1. /\ queue_head \in Places /\ queue_tail \in Places
      /\ InFlight \in Seq(Scancodes) /\ InRing \in Nat /\ InRing = Count(queue_head, queue_tail)
  BY Flight, Contents DEF KeyTypes, InRing
<1>2. /\ t \in Places /\ Count(queue_head, t) = Count(queue_head, queue_tail) - g
      /\ \A i \in 1 .. Count(queue_head, t) :
           Ring(queue, queue_head, t)[i] = Ring(queue, queue_head, queue_tail)[i + g]
  <2>1. g \in 0 .. Count(queue_head, queue_tail)
    BY SMTT(60), <1>1
  <2>2. /\ Ahead(queue_tail, g) \in Places
        /\ Count(queue_head, Ahead(queue_tail, g)) = Count(queue_head, queue_tail) - g
        /\ \A i \in 1 .. Count(queue_head, Ahead(queue_tail, g)) :
             Ring(queue, queue_head, Ahead(queue_tail, g))[i]
               = Ring(queue, queue_head, queue_tail)[i + g]
    <3>1. PICK h \in Places, u \in Places : h = queue_head /\ u = queue_tail
      BY <1>1
    <3>2. /\ Ahead(u, g) \in Places /\ Count(h, Ahead(u, g)) = Count(h, u) - g
          /\ \A i \in 1 .. Count(h, Ahead(u, g)) :
               Ring(queue, h, Ahead(u, g))[i] = Ring(queue, h, u)[i + g]
      BY SMTT(60), <2>1, <3>1, RingPop
    <3> QED
      BY <3>1, <3>2
  <2> QED
    BY <2>2
<1>3. /\ waiting \in Seq(Chars) /\ Stands(now, InRing + Held, InFlight, waiting, Then(hand))
      /\ \A i \in 1 .. InRing : waiting[i] = Ring(queue, queue_head, queue_tail)[i]
  BY DEF Ordered
<1>4. PICK k \in Nat : k = InRing + Held /\ g <= k /\ k <= Len(waiting) /\ InRing <= k
  <2>1. InRing + Held <= Len(waiting) /\ InRing + Held \in Nat
    BY <1>1, <1>3, StandsBehind
  <2> QED
    BY SMTT(60), <1>1, <2>1 DEF Held
<1>5. /\ V \in Seq(Chars) /\ Len(V) = Len(waiting) - g /\ \A j \in 1 .. Len(V) : V[j] = waiting[j + g]
      /\ Moved(waiting, V, k, g)
  <2>1. g <= Len(waiting)
    BY SMTT(60), <1>3, <1>4
  <2> QED
    BY SMTT(60), <1>3, <1>4, <2>1, PopMoves
<1>6. Stands(now, k - g, InFlight, V, Then(hand))
  BY <1>1, <1>3, <1>4, <1>5, StandsShifted
<1>7. k - g = Count(queue_head, t) + Held
  BY SMTT(60), <1>1, <1>2, <1>4 DEF Held
<1>8. ASSUME NEW i \in 1 .. Count(queue_head, t) PROVE V[i] = Ring(queue, queue_head, t)[i]
  <2>1. i \in 1 .. Len(V) /\ i + g \in 1 .. InRing
    BY SMTT(60), <1>1, <1>2, <1>3, <1>4, <1>5
  <2> QED
    BY <1>2, <1>3, <1>5, <2>1
<1>9. ASSUME Held = 1 PROVE V[Count(queue_head, t) + 1] = waiting[InRing + 1]
  <2>1. PICK j \in 1 .. Len(V) : j = Count(queue_head, t) + 1 /\ j + g = InRing + 1
    BY SMTT(60), <1>1, <1>2, <1>3, <1>4, <1>5, <1>9
  <2> QED
    BY <1>5, <2>1
<1> QED
  BY <1>1, <1>2, <1>5, <1>6, <1>7, <1>8, <1>9

(* What the scancodes stand for, in the next state. *)
LEMMA StandsLater ==
  ASSUME NEW d, NEW k, NEW B, NEW W, NEW e, Stands(d, k, B, W, e), now' = d, InRing' + Held' = k,
         InFlight' = B, waiting' = W, Then(hand)' = e
  PROVE  Stands(now, InRing + Held, InFlight, waiting, Then(hand))'
  BY DEF Stands, Decoding, Decodes

(* handle_irq decodes and enqueues a scancode in one piece. *)
LEMMA IrqKeys == ASSUME KeysInv, Irq PROVE KeysInv'
<1>1. /\ KeyTypes /\ full' = FALSE /\ UNCHANGED <<queue_tail, person, wire, data, pc, locals>>
      /\ data \in Scancodes /\ wire \in Seq(Scancodes)
  BY DEF KeysInv, KeyTypes, Irq
<1>2. /\ byte' \in Scancodes /\ ch' \in Chars /\ next_head' \in Places /\ next_tail' \in Places
      /\ data' \in Scancodes /\ wire' \in Seq(Scancodes) /\ full' \in BOOLEAN
  BY <1>1 DEF KeyTypes, locals
<1>3. CASE ~full
  <2>1. UNCHANGED <<ring, decoder, person, waiting, overlap>>
    BY <1>1, <1>3 DEF Irq, ring
  <2>2. InFlight' = InFlight /\ Held' = Held
    BY <1>1, <1>3 DEF InFlight, Held, locals
  <2>3. KeyTypes' /\ (~overlap' => Ordered')
    BY <1>2, <2>1, <2>2, StillOrdered
  <2>4. ~overlap' => Windows'
    BY <1>1, <1>3, <2>1 DEF KeysInv, Windows, InRing, Count, has_room, available,
       available_from, after,
       ring, locals
  <2> QED
    BY <2>3, <2>4 DEF KeysInv
<1>4. CASE full
  <2>1. PICK c \in Chars : c = decoded(data) /\ c = char_of(now, data)
    BY <1>1, DecodesNow
  <2>2. Decode(data) /\ enqueue(c) /\ overlap' = (overlap \/ Polling)
    BY <1>4, <2>1 DEF Irq
  <2>3. now' = state_after(now, data) /\ now' \in DecoderStates
    BY <1>1, <2>2, DecodesNow
  <2>4. queue_tail' = queue_tail /\ queue_tail \in Places /\ queue_head \in Places
    BY <1>1 DEF KeyTypes
  <2>5. CASE c # NUL /\ has_room
    <3>1. queue' = Stored(queue, queue_head, c) /\ queue_head' = after(queue_head)
      BY <2>2, <2>5 DEF enqueue, Stored
    <3>2. /\ queue' \in [Places -> Chars] /\ queue_head' \in Places /\ queue_head' # queue_tail
          /\ InRing \in Nat /\ Count(queue_head', queue_tail) = InRing + 1
          /\ \A i \in 1 .. InRing :
               Ring(queue', queue_head', queue_tail)[i] = Ring(queue, queue_head, queue_tail)[i]
          /\ Ring(queue', queue_head', queue_tail)[InRing + 1] = c
      BY SMTT(60), <1>1, <2>5, <3>1, Pushed
    <3>3. KeyTypes'
      BY <1>1, <1>2, <2>2, <2>3, <2>4, <3>2 DEF KeyTypes, person
    <3>4. ASSUME ~overlap' PROVE Windows' /\ Ordered'
      <4>1. ~overlap /\ ~Polling /\ Windows /\ Ordered /\ waiting' = Dropped(c)
        BY <1>4, <2>1, <2>2, <3>4 DEF KeysInv, Irq
      <4>2. Held = 0 /\ Held' = 0 /\ InFlight = <<data>> \o wire /\ InFlight' = wire
        <5>1. pc # "scan" /\ Held = 0 /\ Held' = 0
          BY <1>1, <4>1 DEF Polling, Held
        <5>2. InFlight = <<data>> \o wire
          BY <1>1, <1>4, <5>1, Flight
        <5>3. InFlight' = <<>> \o <<>> \o wire
          BY <1>1, <5>1 DEF InFlight
        <5> QED
          BY SMTT(60), <1>1, <5>1, <5>2, <5>3
      <4>3. /\ waiting' \in Seq(Chars)
            /\ \A i \in 1 .. InRing : waiting'[i] = Ring(queue, queue_head, queue_tail)[i]
            /\ waiting'[InRing + 1] = c /\ Stands(now', InRing + 1, wire, waiting', Then(hand))
        BY <1>1, <2>1, <2>3, <2>5, <4>1, <4>2, Consumed
      <4>4. InRing' = InRing + 1 /\ InRing' + Held' = InRing + 1 /\ Then(hand)' = Then(hand)
        BY SMTT(60), <1>1, <2>4, <3>2, <4>2 DEF InRing, Count, Then, person
      <4>5. Stands(now, InRing + Held, InFlight, waiting, Then(hand))'
        BY <4>2, <4>3, <4>4, StandsLater
      <4>6. ASSUME NEW i \in 1 .. InRing + 1
            PROVE waiting'[i] = Ring(queue', queue_head', queue_tail)[i]
        <5>1. i \in 1 .. InRing \/ i = InRing + 1
          BY SMTT(60), <3>2
        <5> QED
          BY <3>2, <4>3, <5>1
      <4>7. Ring(queue, queue_head, queue_tail)' = Ring(queue', queue_head', queue_tail)
        BY <2>4 DEF Ring, Count, Place
      <4>8. Ordered'
        BY <4>3, <4>4, <4>5, <4>6, <4>7 DEF Ordered
      <4>9. pc \in {"bump", "settail"} => queue'[queue_tail] = queue[queue_tail]
        BY <1>1, <2>4, <3>1, <4>1 DEF Windows, available, available_from, Stored, KeyTypes
      <4>10. Windows'
        BY <1>1, <2>4, <3>2, <4>1, <4>9 DEF Windows, Polling, available, available_from,
           after, locals
      <4> QED
        BY <4>8, <4>10
    <3> QED
      BY <3>3, <3>4 DEF KeysInv
  <2>6. CASE ~(c # NUL /\ has_room)
    <3>1. queue' = queue /\ queue_head' = queue_head
      BY <2>2, <2>6 DEF enqueue
    <3>2. KeyTypes'
      BY <1>1, <1>2, <2>2, <2>3, <2>4, <3>1 DEF KeyTypes, person
    <3>3. ASSUME ~overlap' PROVE Windows' /\ Ordered'
      <4>1. ~overlap /\ ~Polling /\ Windows /\ Ordered /\ waiting' = Dropped(c)
        BY <1>4, <2>1, <2>2, <3>3 DEF KeysInv, Irq
      <4>2. Held = 0 /\ Held' = 0 /\ InFlight = <<data>> \o wire /\ InFlight' = wire
        <5>1. pc # "scan" /\ Held = 0 /\ Held' = 0
          BY <1>1, <4>1 DEF Polling, Held
        <5>2. InFlight = <<data>> \o wire
          BY <1>1, <1>4, <5>1, Flight
        <5>3. InFlight' = <<>> \o <<>> \o wire
          BY <1>1, <5>1 DEF InFlight
        <5> QED
          BY SMTT(60), <1>1, <5>1, <5>2, <5>3
      <4>3. /\ waiting' \in Seq(Chars)
            /\ \A i \in 1 .. InRing : waiting'[i] = Ring(queue, queue_head, queue_tail)[i]
            /\ Stands(now', InRing, wire, waiting', Then(hand))
        BY <1>1, <2>1, <2>3, <2>6, <4>1, <4>2, Consumed
      <4>4. InRing' = InRing /\ InRing' + Held' = InRing /\ Then(hand)' = Then(hand)
        BY SMTT(60), <1>1, <2>4, <3>1, <4>2, Contents DEF InRing, Count, Then, person
      <4>5. Stands(now, InRing + Held, InFlight, waiting, Then(hand))'
        BY <4>2, <4>3, <4>4, StandsLater
      <4>6. Ring(queue, queue_head, queue_tail)' = Ring(queue, queue_head, queue_tail)
        BY <2>4, <3>1 DEF Ring, Count, Place
      <4>7. Ordered'
        BY <4>3, <4>4, <4>5, <4>6 DEF Ordered
      <4>8. Windows'
        BY <1>1, <2>4, <3>1, <4>1 DEF Windows, Polling, available, available_from, after,
           locals
      <4> QED
        BY <4>7, <4>8
    <3> QED
      BY <3>2, <3>3 DEF KeysInv
  <2> QED
    BY <2>5, <2>6
<1> QED
  BY <1>3, <1>4

(* The main loop decodes the scancode in its hand. *)
LEMMA PollScanKeys == ASSUME KeysInv, PollScan PROVE KeysInv'
<1>1. /\ KeyTypes /\ UNCHANGED <<ring, person, controller, byte, next_tail, overlap>>
      /\ byte \in Scancodes /\ data \in Scancodes /\ wire \in Seq(Scancodes) /\ pc = "scan"
  BY DEF KeysInv, KeyTypes, PollScan, At
<1>2. PICK c \in Chars : c = decoded(byte) /\ c = char_of(now, byte)
  BY <1>1, DecodesNow
<1>3. Decode(byte) /\ ch' = c /\ next_head' = after(queue_head)
  BY <1>2 DEF PollScan
<1>4. now' = state_after(now, byte) /\ now' \in DecoderStates
  BY <1>1, <1>3, DecodesNow
<1>5. pc' = IF c # NUL /\ has_room THEN "store" ELSE "tick"
  BY <1>2 DEF PollScan, At
<1>6. queue_head \in Places /\ after(queue_head) \in Places
  BY <1>1, Counts DEF KeyTypes
<1>7. KeyTypes'
  BY <1>1, <1>3, <1>4, <1>6 DEF KeyTypes, ring, person, controller
<1>8. ASSUME ~overlap' PROVE Windows' /\ Ordered'
  <2>1. ~overlap /\ Ordered /\ waiting' = Dropped(c)
    BY SMTT(60), <1>1, <1>2, <1>8 DEF KeysInv, PollScan
  <2>2. PICK B \in Seq(Scancodes) : InFlight = <<byte>> \o B /\ InFlight' = B
    <3>1. CASE full
      <4>1. PICK B \in Seq(Scancodes) : B = <<data>> \o wire
        <5>1. <<data>> \o wire \in Seq(Scancodes)
          BY SMTT(60), <1>1
        <5> QED
          BY <5>1
      <4>2. InFlight = <<byte>> \o B
        BY <1>1, <3>1, <4>1, Flight
      <4>3. InFlight' = <<>> \o <<data>> \o wire
        BY <1>1, <1>5, <3>1 DEF InFlight, controller
      <4>4. InFlight' = B
        BY SMTT(60), <1>1, <4>1, <4>3
      <4> QED
        BY <4>2, <4>4
    <3>2. CASE ~full
      <4>1. InFlight = <<byte>> \o wire
        BY <1>1, <3>2, Flight
      <4>2. InFlight' = <<>> \o <<>> \o wire
        BY <1>1, <1>5, <3>2 DEF InFlight, controller
      <4>3. InFlight' = wire
        BY SMTT(60), <1>1, <4>2
      <4> QED
        BY <1>1, <4>1, <4>3
    <3> QED
      BY <3>1, <3>2
  <2>3. Held = 0 /\ Held' = IF c # NUL /\ has_room THEN 1 ELSE 0
    BY <1>1, <1>5 DEF Held
  <2>4. /\ waiting' \in Seq(Chars)
        /\ \A i \in 1 .. InRing : waiting'[i] = Ring(queue, queue_head, queue_tail)[i]
        /\ IF c # NUL /\ has_room
           THEN waiting'[InRing + 1] = c /\ Stands(now', InRing + 1, B, waiting', Then(hand))
           ELSE Stands(now', InRing, B, waiting', Then(hand))
    <3>1. KeyTypes /\ Ordered /\ Held = 0 /\ InFlight = <<byte>> \o B /\ byte \in Scancodes
      BY <1>1, <2>1, <2>2, <2>3
    <3>2. c = char_of(now, byte) /\ waiting' = Dropped(c) /\ now' = state_after(now, byte)
      BY <1>2, <1>4, <2>1
    <3>3. /\ waiting' \in Seq(Chars)
          /\ \A i \in 1 .. InRing : waiting'[i] = Ring(queue, queue_head, queue_tail)[i]
          /\ IF c # NUL /\ has_room
             THEN /\ waiting'[InRing + 1] = c
                  /\ Stands(state_after(now, byte), InRing + 1, B, waiting', Then(hand))
             ELSE Stands(state_after(now, byte), InRing, B, waiting', Then(hand))
      BY SMTT(60), <3>1, <3>2, Consumed
    <3> QED
      BY <3>2, <3>3
  <2>5. InRing' = InRing /\ InRing \in Nat /\ Then(hand)' = Then(hand)
    BY <1>1, Contents DEF InRing, Count, ring, Then, person
  <2>6. Ring(queue, queue_head, queue_tail)' = Ring(queue, queue_head, queue_tail)
    BY <1>1 DEF Ring, Count, Place, ring
  <2>7. InRing' + Held' = (IF c # NUL /\ has_room THEN InRing + 1 ELSE InRing)
    BY SMTT(60), <2>3, <2>5
  <2>8. Stands(now, InRing + Held, InFlight, waiting, Then(hand))'
    <3>1. CASE c # NUL /\ has_room
      BY <2>2, <2>4, <2>5, <2>7, <3>1, StandsLater
    <3>2. CASE ~(c # NUL /\ has_room)
      BY <2>2, <2>4, <2>5, <2>7, <3>2, StandsLater
    <3> QED
      BY <3>1, <3>2
  <2>9. Ordered'
    BY <2>4, <2>5, <2>6, <2>8 DEF Ordered
  <2>10. has_room' = has_room /\ after(queue_head)' = after(queue_head)
    BY <1>1 DEF has_room, after, ring
  <2>11. Windows'
    BY <1>3, <1>5, <2>4, <2>5, <2>10 DEF Windows
  <2> QED
    BY <2>9, <2>11
<1> QED
  BY <1>7, <1>8 DEF KeysInv

(* The main loop stores the character ... *)
LEMMA PollStoreKeys == ASSUME KeysInv, PollStore PROVE KeysInv'
<1>1. /\ KeyTypes
      /\ UNCHANGED <<queue_head, queue_tail, decoder, person, controller, locals, waiting, overlap>>
      /\ pc = "store" /\ pc' = "advance" /\ queue' = [queue EXCEPT ![queue_head] = ch]
  BY DEF KeysInv, PollStore, At
<1>2. /\ queue \in [Places -> Chars] /\ queue_head \in Places /\ queue_tail \in Places /\ ch \in Chars
  BY <1>1 DEF KeyTypes
<1>3. /\ queue' \in [Places -> Chars] /\ queue'[queue_head] = ch
      /\ \A i \in Places \ {queue_head} : queue'[i] = queue[i]
  BY <1>1, <1>2
<1>4. now' = now /\ InRing' = InRing /\ Then(hand)' = Then(hand) /\ Held' = Held /\ InFlight' = InFlight
  BY <1>1 DEF now, decoder, InRing, Count, Then, person, Held, InFlight, controller
<1>5. KeyTypes'
  BY <1>1, <1>3, <1>4 DEF KeyTypes, person, controller, locals
<1>6. Ring(queue, queue_head, queue_tail)' = Ring(queue, queue_head, queue_tail)
  <2>1. Ring(queue', queue_head, queue_tail) = Ring(queue, queue_head, queue_tail)
    BY <1>2, <1>3, RingStore
  <2>2. Ring(queue, queue_head, queue_tail)' = Ring(queue', queue_head, queue_tail)
    BY SMTT(60), <1>1 DEF Ring, Count, Place
  <2> QED
    BY <2>1, <2>2
<1>7. ASSUME ~overlap' PROVE Windows' /\ Ordered'
  <2>1. Windows /\ Ordered
    BY <1>1, <1>7 DEF KeysInv
  <2>2. Stands(now, InRing + Held, InFlight, waiting, Then(hand))'
    BY <1>1, <1>4, <2>1, StandsLater DEF Ordered
  <2>3. Ordered'
    BY <1>1, <1>4, <1>6, <2>1, <2>2 DEF Ordered
  <2>4. Windows'
    BY <1>1, <1>3, <1>4, <2>1 DEF Windows, has_room, after, locals
  <2> QED
    BY <2>3, <2>4
<1> QED
  BY <1>5, <1>7 DEF KeysInv

(* ... and moves the head over it. *)
LEMMA PollAdvanceKeys == ASSUME KeysInv, PollAdvance PROVE KeysInv'
<1>1. /\ KeyTypes
      /\ UNCHANGED <<queue, queue_tail, decoder, person, controller, locals, waiting, overlap>>
      /\ pc = "advance" /\ pc' = "tick" /\ queue_head' = next_head
  BY DEF KeysInv, PollAdvance, At
<1>2. /\ queue \in [Places -> Chars] /\ queue_head \in Places /\ queue_tail \in Places /\ ch \in Chars
  BY <1>1 DEF KeyTypes
<1>3. now' = now /\ Then(hand)' = Then(hand) /\ Held = 1 /\ Held' = 0 /\ InFlight' = InFlight
  BY <1>1 DEF now, decoder, Then, person, Held, InFlight, controller
<1>4. KeyTypes'
  BY <1>1, <1>3 DEF KeyTypes, person, controller, locals
<1>5. ASSUME ~overlap' PROVE Ordered'
  <2>1. Windows /\ Ordered
    BY <1>1, <1>5 DEF KeysInv
  <2>2. has_room /\ queue_head' = after(queue_head) /\ waiting[InRing + 1] = ch /\ queue[queue_head] = ch
    BY <1>1, <2>1 DEF Windows
  <2>3. queue' = Stored(queue, queue_head, ch)
    BY <1>1, <1>2, <2>2 DEF Stored
  <2>4. /\ InRing \in Nat /\ Count(queue_head', queue_tail) = InRing + 1
        /\ \A i \in 1 .. InRing :
             Ring(queue', queue_head', queue_tail)[i] = Ring(queue, queue_head, queue_tail)[i]
        /\ Ring(queue', queue_head', queue_tail)[InRing + 1] = ch
    <3>1. KeyTypes /\ ch \in Chars /\ has_room /\ queue_head' = after(queue_head)
      BY <1>1, <1>2, <2>2
    <3> QED
      BY SMTT(60), <2>3, <3>1, Pushed
  <2>5. /\ InRing' = InRing + 1 /\ InRing' + Held' = InRing + Held
        /\ Ring(queue, queue_head, queue_tail)' = Ring(queue', queue_head', queue_tail)
    BY SMTT(60), <1>1, <1>3, <2>4 DEF InRing, Count, Ring, Place
  <2>6. Stands(now, InRing + Held, InFlight, waiting, Then(hand))'
    BY <1>1, <1>3, <2>1, <2>5, StandsLater DEF Ordered
  <2>7. ASSUME NEW i \in 1 .. InRing + 1 PROVE waiting[i] = Ring(queue', queue_head', queue_tail)[i]
    <3>1. i \in 1 .. InRing \/ i = InRing + 1
      BY SMTT(60), <2>4
    <3> QED
      BY <2>1, <2>2, <2>4, <3>1 DEF Ordered
  <2> QED
    BY <1>1, <2>1, <2>5, <2>6, <2>7 DEF Ordered
<1>6. Windows'
  BY <1>1 DEF Windows
<1> QED
  BY <1>4, <1>5, <1>6 DEF KeysInv

(* A process reads while the shell does not. *)
LEMMA SysReadKeys ==
  ASSUME KeysInv, NEW n \in Sessions[session].lengths, SysRead(n) PROVE KeysInv'
<1>1. /\ KeyTypes /\ UNCHANGED <<queue, queue_head, decoder, person, controller, pc, locals>>
      /\ overlap' = (overlap \/ Taking)
  BY DEF KeysInv, SysRead
<1>2. n \in Nat /\ Len(contents) = InRing /\ InRing \in Nat
  BY <1>1, SessionsAssumption, Contents DEF KeyTypes
<1>3. PICK g \in Nat : g = min(n, InRing) /\ g > 0 /\ g <= InRing
  BY SMTT(60), <1>2 DEF SysRead, min
<1>4. /\ queue_tail' = Ahead(queue_tail, g)
      /\ ~overlap' => waiting' = Behind(waiting, g)
  BY <1>2, <1>3 DEF SysRead, Ahead, Behind
<1>5. /\ queue_head \in Places /\ queue_tail \in Places /\ queue_tail' \in Places
      /\ Count(queue_head, queue_tail') = InRing - g
  <2>1. queue_head \in Places /\ queue_tail \in Places /\ g \in 0 .. Count(queue_head, queue_tail)
    BY SMTT(60), <1>1, <1>2, <1>3 DEF KeyTypes, InRing
  <2>2. /\ Ahead(queue_tail, g) \in Places
        /\ Count(queue_head, Ahead(queue_tail, g)) = Count(queue_head, queue_tail) - g
    BY <2>1, RingPop
  <2> QED
    BY <1>4, <2>1, <2>2 DEF InRing
<1>6. now' = now /\ Then(hand)' = Then(hand) /\ Held' = Held /\ InFlight' = InFlight
  BY <1>1 DEF now, decoder, Then, person, Held, InFlight, controller, locals
<1>7. KeyTypes'
  BY <1>1, <1>5, <1>6 DEF KeyTypes, person, controller, locals
<1>8. ASSUME ~overlap' PROVE Windows' /\ Ordered'
  <2>1. ~overlap /\ ~Taking /\ Windows /\ Ordered
    BY <1>1, <1>8 DEF KeysInv
  <2>2. /\ waiting' \in Seq(Chars)
        /\ Stands(now, Count(queue_head, queue_tail') + Held, InFlight, waiting', Then(hand))
        /\ \A i \in 1 .. Count(queue_head, queue_tail') :
             waiting'[i] = Ring(queue, queue_head, queue_tail')[i]
        /\ Held = 1 => waiting'[Count(queue_head, queue_tail') + 1] = waiting[InRing + 1]
    <3>1. queue_tail' = Ahead(queue_tail, g) /\ waiting' = Behind(waiting, g) /\ g <= InRing
      BY <1>3, <1>4, <1>8
    <3> QED
      BY SMTT(60), <1>1, <2>1, <3>1, Popped
  <2>3. /\ InRing' = Count(queue_head, queue_tail')
        /\ Ring(queue, queue_head, queue_tail)' = Ring(queue, queue_head, queue_tail')
    BY <1>1 DEF InRing, Count, Ring, Place
  <2>4. Stands(now, InRing + Held, InFlight, waiting, Then(hand))'
    BY <1>6, <2>2, <2>3, StandsLater
  <2>5. Ordered'
    BY <2>2, <2>3, <2>4 DEF Ordered
  <2>6. has_room => has_room'
    <3>1. has_room' <=> after(queue_head) # queue_tail'
      BY <1>1 DEF has_room, after
    <3>2. /\ after(queue_head) # queue_tail' <=> Count(queue_head, queue_tail') < QUEUE_SIZE - 1
          /\ after(queue_head) # queue_tail <=> Count(queue_head, queue_tail) < QUEUE_SIZE - 1
      BY <1>5, Counts
    <3>3. QUEUE_SIZE \in Nat
      BY QueueAssumption
    <3> QED
      BY SMTT(60), <1>2, <1>3, <1>5, <3>1, <3>2, <3>3 DEF has_room, InRing
  <2>7. Windows'
    <3>1. after(queue_head)' = after(queue_head) /\ (pc \in {"store", "advance"} => Held = 1)
      BY <1>1 DEF after, Held
    <3> QED
      BY <1>1, <2>1, <2>2, <2>3, <2>6, <3>1 DEF Windows, Taking, controller, locals
  <2> QED
    BY <2>5, <2>7
<1> QED
  BY <1>7, <1>8 DEF KeysInv

(* The shell takes the character read_char has loaded. *)
LEMMA StoreTailKeys == ASSUME KeysInv, StoreTail PROVE KeysInv'
<1>1. /\ KeyTypes /\ UNCHANGED <<queue, queue_head, decoder, person, controller, locals, overlap>>
      /\ pc = "settail" /\ pc' = "handle" /\ queue_tail' = next_tail
  BY DEF KeysInv, StoreTail, At
<1>2. now' = now /\ Then(hand)' = Then(hand) /\ Held' = Held /\ InFlight' = InFlight
  BY <1>1 DEF now, decoder, Then, person, Held, InFlight, controller, locals
<1>3. KeyTypes'
  BY <1>1, <1>2 DEF KeyTypes, person, controller, locals
<1>4. ASSUME ~overlap' PROVE Ordered'
  <2>1. ~overlap /\ Windows /\ Ordered
    BY <1>1, <1>4 DEF KeysInv
  <2>2. available /\ queue_tail' = Ahead(queue_tail, 1) /\ waiting' = Tail(waiting)
    BY <1>1, <2>1 DEF Windows, StoreTail, after, Ahead
  <2>3. InRing \in Nat /\ 1 <= InRing
    <3>1. InRing \in Nat /\ InRing > 0
      BY <1>1, <2>2, Contents, Oldest
    <3> QED
      BY SMTT(60), <3>1
  <2>4. waiting' = Behind(waiting, 1)
    <3>1. waiting \in Seq(Chars) /\ InFlight \in Seq(Scancodes)
      BY <1>1, <2>1, Flight DEF Ordered
    <3>2. InRing + Held <= Len(waiting)
      BY <2>1, <3>1, StandsBehind DEF Ordered
    <3>3. Len(waiting) \in Nat /\ Len(waiting) > 0
      BY SMTT(60), <2>3, <3>1, <3>2 DEF Held
    <3>4. waiting # <<>> /\ 1 + 1 = 2
      BY SMTT(60), <3>1, <3>3
    <3> QED
      BY <2>2, <3>1, <3>4, TailIsPart DEF Behind
  <2>5. /\ waiting' \in Seq(Chars)
        /\ Stands(now, Count(queue_head, queue_tail') + Held, InFlight, waiting', Then(hand))
        /\ \A i \in 1 .. Count(queue_head, queue_tail') :
             waiting'[i] = Ring(queue, queue_head, queue_tail')[i]
    <3>1. PICK g \in Nat : /\ g = 1 /\ g <= InRing
                           /\ queue_tail' = Ahead(queue_tail, g) /\ waiting' = Behind(waiting, g)
      BY <2>2, <2>3, <2>4
    <3> QED
      BY SMTT(60), <1>1, <2>1, <3>1, Popped
  <2>6. /\ InRing' = Count(queue_head, queue_tail')
        /\ Ring(queue, queue_head, queue_tail)' = Ring(queue, queue_head, queue_tail')
    BY <1>1 DEF InRing, Count, Ring, Place
  <2>7. Stands(now, InRing + Held, InFlight, waiting, Then(hand))'
    BY <1>2, <2>5, <2>6, StandsLater
  <2> QED
    BY <2>5, <2>6, <2>7 DEF Ordered
<1>5. Windows'
  BY <1>1 DEF Windows
<1> QED
  BY <1>3, <1>4, <1>5 DEF KeysInv

(* Every step keeps the invariant. *)
LEMMA KeysStep == KeysInv /\ [Next]_vars => KeysInv'
<1> SUFFICES ASSUME KeysInv, [Next]_vars PROVE KeysInv'
  OBVIOUS
<1>1. /\ byte \in Scancodes /\ ch \in Chars /\ next_head \in Places /\ next_tail \in Places
      /\ Make("Esc") \in Scancodes /\ NUL \in Chars /\ 0 \in Places
  BY SMTT(60), QueueAssumption DEF KeysInv, KeyTypes, Make, Scancodes, Keys, Chars, Places
<1>2. CASE UNCHANGED vars
  <2>1. now' = now /\ InRing' = InRing /\ Then(hand)' = Then(hand) /\ InFlight' = InFlight /\ Held' = Held
    BY <1>2 DEF vars, now, decoder, InRing, Count, ring, Then, person, InFlight, controller,
       locals, Held
  <2>2. KeyTypes' /\ (~overlap' => Ordered')
    <3>1. /\ byte' \in Scancodes /\ ch' \in Chars /\ next_head' \in Places /\ next_tail' \in Places
          /\ data' \in Scancodes /\ wire' \in Seq(Scancodes) /\ full' \in BOOLEAN
          /\ UNCHANGED <<ring, decoder, person, waiting, overlap>>
      BY <1>2 DEF KeysInv, KeyTypes, vars, controller, locals
    <3> QED
      BY <2>1, <3>1, StillOrdered
  <2>3. ~overlap' => Windows'
    BY <1>2, <2>1 DEF KeysInv, Windows, has_room, available, available_from, after, vars,
       ring,
       controller, locals
  <2> QED
    BY <2>2, <2>3 DEF KeysInv
<1>3. CASE script # <<>> /\ \E k \in script[1] : Stroke(k)
  BY <1>3, StrokeKeys
<1>4. CASE Present \/ Irq
  BY <1>4, PresentKeys, IrqKeys
<1>5. CASE \E n \in Sessions[session].lengths : SysRead(n)
  BY <1>5, SysReadKeys
<1>6. CASE Wake
  BY <1>1, <1>6, QuietKeys DEF Wake, At, locals
<1>7. CASE PollStatus
  <2>1. CASE full
    <3>1. InFlight' = InFlight /\ Held' = Held
      BY <1>7 DEF PollStatus, At, InFlight, Held, controller
    <3>2. KeyTypes' /\ (~overlap' => Ordered')
      <4>1. /\ byte' \in Scancodes /\ ch' \in Chars /\ next_head' \in Places /\ next_tail' \in Places
            /\ data' \in Scancodes /\ wire' \in Seq(Scancodes) /\ full' \in BOOLEAN
            /\ UNCHANGED <<ring, decoder, person, waiting, overlap>>
        BY <1>7 DEF PollStatus, KeysInv, KeyTypes, controller, locals
      <4> QED
        BY <3>1, <4>1, StillOrdered
    <3>3. Windows'
      BY <1>7, <2>1 DEF PollStatus, At, Windows, controller
    <3> QED
      BY <3>2, <3>3 DEF KeysInv
  <2>2. CASE ~full
    BY <1>1, <1>7, <2>2, QuietKeys DEF PollStatus, At, locals
  <2> QED
    BY <2>1, <2>2
<1>8. CASE PollData \/ PollScan \/ PollStore \/ PollAdvance
  BY <1>8, PollDataKeys, PollScanKeys, PollStoreKeys, PollAdvanceKeys
<1>9. CASE ShellTick \/ HandleKey \/ HandleChar
  BY <1>1, <1>9, QuietKeys DEF ShellTick, HandleKey, HandleChar, At, NoLocals
<1>10. CASE LoadHead \/ Available \/ CheckChar
  <2>1. Available => KeysInv'
    BY <1>1, QuietKeys DEF Available, At, NoLocals
  <2> QED
    BY <1>10, <2>1, LookKeys
<1>11. CASE LoadChar \/ LoadTail
  BY <1>11, LoadKeys
<1>12. CASE StoreTail
  BY <1>12, StoreTailKeys
<1>13. CASE HandleEnter
  <2>1. pc' \in {"fat", "avail"}
    BY <1>13 DEF HandleEnter, execute
  <2> QED
    BY <1>1, <1>13, <2>1, QuietKeys DEF HandleEnter, NoLocals
<1>14. CASE FatCommand
  <2>1. pc = "fat" /\ pc' \in {"fat", "avail"}
    BY <1>14 DEF FatCommand
  <2> QED
    BY <1>1, <1>14, <2>1, QuietKeys DEF FatCommand, locals
<1> QED
  BY <1>2, <1>3, <1>4, <1>5, <1>6, <1>7, <1>8, <1>9, <1>10, <1>11, <1>12, <1>13, <1>14 DEF Next,
     Main

(* keyboard.cpp: outside the two windows every character typed is decoded    *)
(* right and arrives once, in order, or is dropped by a full ring.           *)
THEOREM KeysInOrder == Spec => []KeysArriveInOrder
<1> QED
  BY KeysInit, KeysStep, KeysInvSound, PTL DEF Spec

=============================================================================
