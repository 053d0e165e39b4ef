--------------------------- MODULE KeyboardProofs ---------------------------
(***************************************************************************)
(* What the keyboard's operators compute: the ring as a queue of the       *)
(* characters between tail and head, and the decoder as a function of the  *)
(* scan codes.  ConsoleProofs builds on these lemmas.                      *)
(***************************************************************************)
EXTENDS Keyboard, TLAPS

(* Sequences of waiting characters and of scancodes on their way, put one    *)
(* after the other.                                                          *)
LEMMA Concatenation ==
  ASSUME NEW S, NEW s \in Seq(S), NEW t \in Seq(S)
  PROVE  /\ s \o t \in Seq(S) /\ Len(s \o t) = Len(s) + Len(t)
         /\ \A i \in 1 .. Len(s) + Len(t) :
              (s \o t)[i] = IF i <= Len(s) THEN s[i] ELSE t[i - Len(s)]
BY SMTT(60)

(* The part of such a sequence that SubSeq cuts out.                         *)
LEMMA PartOfSeq ==
  ASSUME NEW S, NEW s \in Seq(S), NEW m \in Nat \ {0}, NEW n \in 0 .. Len(s)
  PROVE  /\ SubSeq(s, m, n) \in Seq(S)
         /\ Len(SubSeq(s, m, n)) = IF m <= n THEN n - m + 1 ELSE 0
         /\ \A i \in 1 .. n - m + 1 : SubSeq(s, m, n)[i] = s[m + i - 1]
BY SMTT(60)

(* What is left when the reader of the ring takes the first character.       *)
LEMMA TailIsPart ==
  ASSUME NEW S, NEW s \in Seq(S), s # <<>>
  PROVE  Tail(s) = SubSeq(s, 2, Len(s))
BY SMTT(60)

-----------------------------------------------------------------------------
(* The ring. *)

(* The characters, and those ring q holds between tail t and head h. *)
Chars == Letters \cup {"A", "F", "L", "S"} \cup Arrows \cup {"Enter", "Back", "Esc", NUL}
Places == 0 .. QUEUE_SIZE - 1
Count(h, t) == (h + QUEUE_SIZE - t) % QUEUE_SIZE
Place(t, i) == (t + i - 1) % QUEUE_SIZE
Ahead(t, g) == (t + g) % QUEUE_SIZE
Ring(q, h, t) == [i \in 1 .. Count(h, t) |-> q[Place(t, i)]]

(* An index wraps around at most once. *)
LEMMA Wraps ==
  ASSUME NEW x \in 0 .. 2 * QUEUE_SIZE - 1
  PROVE  /\ x % QUEUE_SIZE = (IF x < QUEUE_SIZE THEN x ELSE x - QUEUE_SIZE)
         /\ x % QUEUE_SIZE \in Places
<1>1. QUEUE_SIZE \in Nat \ {0}
  BY QueueAssumption
<1>2. CASE x < QUEUE_SIZE
  BY <1>1, <1>2 DEF Places
<1>3. CASE ~(x < QUEUE_SIZE)
  <2>1. x - QUEUE_SIZE \in Places
    BY <1>1, <1>3 DEF Places
  <2>2. x = 1 * QUEUE_SIZE + (x - QUEUE_SIZE)
    BY <1>1
  <2>3. x % QUEUE_SIZE = x - QUEUE_SIZE
    BY <1>1, <2>1, <2>2 DEF Places
  <2> QED
    BY <1>3, <2>1, <2>3
<1> QED
  BY <1>2, <1>3

(* The number of characters, without the remainder. *)
LEMMA Counts ==
  ASSUME NEW h \in Places, NEW t \in Places
  PROVE  /\ Count(h, t) = (IF h >= t THEN h - t ELSE h - t + QUEUE_SIZE)
         /\ Count(h, t) \in Places
         /\ Count(h, t) = 0 <=> h = t
         /\ after(h) = (IF h + 1 < QUEUE_SIZE THEN h + 1 ELSE 0) /\ after(h) \in Places
         /\ after(h) # t <=> Count(h, t) < QUEUE_SIZE - 1
<1>1. QUEUE_SIZE \in Nat /\ QUEUE_SIZE > 1 /\ h \in Nat /\ t \in Nat /\ h < QUEUE_SIZE /\ t < QUEUE_SIZE
  BY QueueAssumption DEF Places
<1>2. h + QUEUE_SIZE - t \in 0 .. 2 * QUEUE_SIZE - 1 /\ h + 1 \in 0 .. 2 * QUEUE_SIZE - 1
  BY <1>1
<1>3. PICK x \in 0 .. 2 * QUEUE_SIZE - 1 : x = h + QUEUE_SIZE - t
  BY <1>2
<1>4. PICK y \in 0 .. 2 * QUEUE_SIZE - 1 : y = h + 1
  BY <1>2
<1>5. /\ Count(h, t) = (IF x < QUEUE_SIZE THEN x ELSE x - QUEUE_SIZE) /\ Count(h, t) \in Places
  BY <1>3, Wraps DEF Count
<1>6. /\ after(h) = (IF y < QUEUE_SIZE THEN y ELSE y - QUEUE_SIZE) /\ after(h) \in Places
  BY <1>4, Wraps DEF after
<1>7. Count(h, t) = (IF h >= t THEN h - t ELSE h - t + QUEUE_SIZE)
  BY <1>1, <1>3, <1>5
<1>8. after(h) = (IF h + 1 < QUEUE_SIZE THEN h + 1 ELSE 0)
  BY <1>1, <1>4, <1>6
<1>9. (Count(h, t) = 0 <=> h = t) /\ (after(h) # t <=> Count(h, t) < QUEUE_SIZE - 1)
  BY <1>1, <1>7, <1>8
<1> QED
  BY <1>5, <1>6, <1>7, <1>8, <1>9

(* So with the places of the characters. *)
LEMMA PlacesOf ==
  ASSUME NEW t \in Places, NEW i \in 1 .. QUEUE_SIZE
  PROVE  /\ Place(t, i) = (IF t + i - 1 < QUEUE_SIZE THEN t + i - 1 ELSE t + i - 1 - QUEUE_SIZE)
         /\ Place(t, i) \in Places
<1>1. QUEUE_SIZE \in Nat /\ QUEUE_SIZE > 1 /\ t \in Nat /\ t < QUEUE_SIZE
  BY QueueAssumption DEF Places
<1>2. PICK x \in 0 .. 2 * QUEUE_SIZE - 1 : x = t + i - 1
  BY <1>1
<1>3. x % QUEUE_SIZE = (IF x < QUEUE_SIZE THEN x ELSE x - QUEUE_SIZE) /\ x % QUEUE_SIZE \in Places
  BY Wraps
<1>4. Place(t, i) = x % QUEUE_SIZE
  BY <1>2 DEF Place
<1> QED
  BY <1>1, <1>2, <1>3, <1>4

(* The first half of enqueue: storing at the head does not touch what the    *)
(* ring holds.                                                               *)
LEMMA RingStore ==
  ASSUME NEW h \in Places, NEW t \in Places, NEW q, NEW p, \A i \in Places \ {h} : p[i] = q[i]
  PROVE  Ring(p, h, t) = Ring(q, h, t)
<1>1. QUEUE_SIZE \in Nat /\ QUEUE_SIZE > 1
  BY QueueAssumption
<1>2. ASSUME NEW i \in 1 .. Count(h, t) PROVE p[Place(t, i)] = q[Place(t, i)]
  <2>1. /\ Count(h, t) = (IF h >= t THEN h - t ELSE h - t + QUEUE_SIZE)
        /\ Count(h, t) \in Places
    BY Counts
  <2>2. Count(h, t) \in Nat /\ Count(h, t) < QUEUE_SIZE
    BY <1>1, <2>1 DEF Places
  <2>3. i \in 1 .. QUEUE_SIZE
    BY <1>1, <2>2
  <2>4. Place(t, i) # h
    <3>1. Place(t, i) = (IF t + i - 1 < QUEUE_SIZE THEN t + i - 1 ELSE t + i - 1 - QUEUE_SIZE)
      BY <2>3, PlacesOf
    <3> QED
      BY <1>1, <2>2, <2>1, <3>1 DEF Places
  <2>5. Place(t, i) \in Places
    BY <2>3, PlacesOf
  <2> QED
    BY <2>4, <2>5
<1> QED
  BY <1>2 DEF Ring

(* The second half: moving the head appends the character that was stored.   *)
LEMMA RingPush ==
  ASSUME NEW q, NEW h \in Places, NEW t \in Places, after(h) # t
  PROVE  /\ Count(after(h), t) = Count(h, t) + 1
         /\ \A i \in 1 .. Count(h, t) : Ring(q, after(h), t)[i] = Ring(q, h, t)[i]
         /\ Ring(q, after(h), t)[Count(h, t) + 1] = q[h]
<1>1. /\ QUEUE_SIZE \in Nat /\ QUEUE_SIZE > 1 /\ Count(h, t) \in Nat /\ Count(h, t) < QUEUE_SIZE - 1
      /\ Count(h, t) = (IF h >= t THEN h - t ELSE h - t + QUEUE_SIZE)
      /\ after(h) = (IF h + 1 < QUEUE_SIZE THEN h + 1 ELSE 0) /\ after(h) \in Places
      /\ h \in Nat /\ t \in Nat /\ h < QUEUE_SIZE /\ t < QUEUE_SIZE
  <2>1. /\ Count(h, t) = (IF h >= t THEN h - t ELSE h - t + QUEUE_SIZE)
        /\ Count(h, t) \in Places
        /\ after(h) = (IF h + 1 < QUEUE_SIZE THEN h + 1 ELSE 0) /\ after(h) \in Places
        /\ after(h) # t <=> Count(h, t) < QUEUE_SIZE - 1
    BY Counts
  <2> QED
    BY <2>1, QueueAssumption DEF Places
<1>2. Count(after(h), t) = Count(h, t) + 1
  <2>1. after(h) \in Places
    BY Counts
  <2>2. Count(after(h), t) = IF after(h) >= t THEN after(h) - t ELSE after(h) - t + QUEUE_SIZE
    BY SMTT(60), <2>1, Counts
  <2> QED
    BY <1>1, <2>1, <2>2
<1>3. Place(t, Count(h, t) + 1) = h
  <2>1. PICK n \in 1 .. QUEUE_SIZE : n = Count(h, t) + 1
    <3>1. Count(h, t) + 1 \in 1 .. QUEUE_SIZE
      BY <1>1
    <3> QED
      BY <3>1
  <2>2. Place(t, n) = IF t + n - 1 < QUEUE_SIZE THEN t + n - 1 ELSE t + n - 1 - QUEUE_SIZE
    BY PlacesOf
  <2>3. Place(t, n) = h
    BY <1>1, <2>1, <2>2
  <2> QED
    BY <2>1, <2>3
<1>4. Count(h, t) + 1 \in 1 .. Count(after(h), t)
  BY <1>1, <1>2
<1>5. \A i \in 1 .. Count(h, t) : i \in 1 .. Count(after(h), t)
  BY <1>1, <1>2
<1> QED
  BY <1>2, <1>3, <1>4, <1>5 DEF Ring

(* Taking g characters: the ring holds the others.                           *)
LEMMA RingPop ==
  ASSUME NEW q, NEW h \in Places, NEW t \in Places, NEW g \in 0 .. Count(h, t)
  PROVE  /\ Ahead(t, g) \in Places /\ Count(h, Ahead(t, g)) = Count(h, t) - g
         /\ \A i \in 1 .. Count(h, Ahead(t, g)) : Ring(q, h, Ahead(t, g))[i] = Ring(q, h, t)[i + g]
<1> DEFINE u == Ahead(t, g)
<1>1. /\ QUEUE_SIZE \in Nat /\ QUEUE_SIZE > 1 /\ Count(h, t) \in Nat /\ g \in Nat /\ g <= Count(h, t)
      /\ Count(h, t) < QUEUE_SIZE /\ h \in Nat /\ t \in Nat /\ h < QUEUE_SIZE /\ t < QUEUE_SIZE
  <2>1. Count(h, t) \in Places
    BY Counts
  <2> QED
    BY <2>1, QueueAssumption DEF Places
<1>2. u \in Places /\ u = IF t + g < QUEUE_SIZE THEN t + g ELSE t + g - QUEUE_SIZE
  <2>1. PICK x \in 0 .. 2 * QUEUE_SIZE - 1 : x = t + g
    BY <1>1
  <2>2. x % QUEUE_SIZE = (IF x < QUEUE_SIZE THEN x ELSE x - QUEUE_SIZE) /\ x % QUEUE_SIZE \in Places
    BY Wraps
  <2>3. u = x % QUEUE_SIZE
    BY <2>1 DEF Ahead
  <2> HIDE DEF u
  <2>4. (t + g < QUEUE_SIZE <=> x < QUEUE_SIZE) /\ t + g - QUEUE_SIZE = x - QUEUE_SIZE
    BY <1>1, <2>1
  <2> QED
    BY <2>1, <2>2, <2>3, <2>4
<1> HIDE DEF u
<1>3. Count(h, u) = Count(h, t) - g
  <2>1. /\ Count(h, t) = (IF h >= t THEN h - t ELSE h - t + QUEUE_SIZE)
        /\ Count(h, u) = (IF h >= u THEN h - u ELSE h - u + QUEUE_SIZE)
    BY <1>2, Counts
  <2> QED
    BY <1>1, <1>2, <2>1
<1>4. ASSUME NEW i \in 1 .. Count(h, u)
      PROVE  i + g \in 1 .. Count(h, t) /\ Place(u, i) = Place(t, i + g)
  <2>1. i + g \in 1 .. Count(h, t)
    BY <1>1, <1>3
  <2>2. i \in 1 .. QUEUE_SIZE /\ i + g \in 1 .. QUEUE_SIZE
    BY <1>1, <1>3
  <2>3. Place(u, i) = IF u + i - 1 < QUEUE_SIZE THEN u + i - 1 ELSE u + i - 1 - QUEUE_SIZE
    BY <1>2, <2>2, PlacesOf
  <2>4. PICK j \in 1 .. QUEUE_SIZE : j = i + g
    BY <2>2
  <2>5. Place(t, j) = IF t + j - 1 < QUEUE_SIZE THEN t + j - 1 ELSE t + j - 1 - QUEUE_SIZE
    BY PlacesOf
  <2>6. Place(u, i) = Place(t, j)
    BY <1>1, <1>2, <2>3, <2>4, <2>5
  <2> QED
    BY <2>1, <2>4, <2>6
<1>5. \A i \in 1 .. Count(h, u) : Ring(q, h, u)[i] = Ring(q, h, t)[i + g]
  BY <1>4 DEF Ring
<1> QED
  BY <1>2, <1>3, <1>5 DEF u

-----------------------------------------------------------------------------
(* The decoder: what a sequence of scancodes is going to become. *)

(* process_scancode as a function of the decoder's state and a scancode: the *)
(* character it enqueues, and the state it leaves.                           *)
DecoderStates == [shift : BOOLEAN, caps : BOOLEAN, ext : BOOLEAN]
Scancodes == [key : Keys \cup {"0x60"}, released : BOOLEAN]

char_of(d, b) ==
  IF b = EXTENDED_PREFIX \/ b.released \/ b.key \in {"Shift", "Caps"} THEN NUL
  ELSE IF d.ext THEN IF b.key \in Arrows THEN b.key ELSE NUL
  ELSE CASE b.key \in Letters -> IF d.shift # d.caps THEN capital[b.key] ELSE b.key
         [] b.key \in {"Enter", "Back", "Esc"} -> b.key
         [] OTHER -> NUL

state_after(d, b) ==
  LET swallowed == b = EXTENDED_PREFIX \/ (d.ext /\ ~b.released) IN
  [shift |-> IF b.key = "Shift" /\ ~swallowed THEN ~b.released ELSE d.shift,
   caps |-> IF b = Make("Caps") /\ ~swallowed THEN ~d.caps ELSE d.caps,
   ext |-> b = EXTENDED_PREFIX]

(* From state d and with c characters before it, scancode b leads to state e *)
(* and to f characters, the last of which is the one it stands for.          *)
Decodes(d, c, b, e, f, W) ==
  /\ e = state_after(d, b)
  /\ IF char_of(d, b) = NUL THEN f = c ELSE f = c + 1 /\ W[f] = char_of(d, b)

(* The scancodes B lead from decoder state d to state e, and stand for the   *)
(* characters of W behind the first k.                                       *)
Decoding(D, C, d, k, B, W, e) ==
  /\ D[0] = d /\ C[0] = k /\ D[Len(B)] = e /\ C[Len(B)] = Len(W)
  /\ \A i, j \in 0 .. Len(B) : i <= j => C[i] <= C[j]
  /\ \A i \in 1 .. Len(B) : Decodes(D[i - 1], C[i - 1], B[i], D[i], C[i], W)
Stands(d, k, B, W, e) ==
  \E D \in [0 .. Len(B) -> DecoderStates], C \in [0 .. Len(B) -> Nat] : Decoding(D, C, d, k, B, W, e)

(* Both are total. *)
LEMMA DecoderTypes ==
  ASSUME NEW d \in DecoderStates, NEW b \in Scancodes
  PROVE  char_of(d, b) \in Chars /\ state_after(d, b) \in DecoderStates
<1>1. state_after(d, b) \in DecoderStates
  BY ZenonT(60) DEF state_after, DecoderStates, Scancodes
<1>2. \A k \in Letters : capital[k] \in {"A", "F", "L", "S"}
  BY DEF capital, Letters
<1>3. char_of(d, b) \in Chars
  BY <1>2 DEF char_of, Chars
<1> QED
  BY <1>1, <1>3

(* Nothing on its way: there are no characters but the first k. *)
LEMMA StandsNothing ==
  ASSUME NEW d \in DecoderStates, NEW W \in Seq(Chars)
  PROVE  Stands(d, Len(W), <<>>, W, d)
<1> DEFINE D == [i \in 0 .. 0 |-> d]
           C == [i \in 0 .. 0 |-> Len(W)]
<1>1. Len(<<>>) = 0 /\ Len(W) \in Nat
  OBVIOUS
<1>2. D \in [0 .. 0 -> DecoderStates] /\ C \in [0 .. 0 -> Nat] /\ D[0] = d /\ C[0] = Len(W)
  BY <1>1
<1> HIDE DEF D, C
<1>3. Decoding(D, C, d, Len(W), <<>>, W, d)
  BY <1>1, <1>2 DEF Decoding
<1> QED
  BY <1>1, <1>2, <1>3 DEF Stands

(* The bounds of the characters that scancodes stand for. *)
LEMMA StandsBehind ==
  ASSUME NEW d, NEW k, NEW B \in Seq(Scancodes), NEW W \in Seq(Chars), NEW e, Stands(d, k, B, W, e)
  PROVE  k \in Nat /\ k <= Len(W) /\ d \in DecoderStates /\ e \in DecoderStates
<1>1. PICK D \in [0 .. Len(B) -> DecoderStates], C \in [0 .. Len(B) -> Nat] :
        Decoding(D, C, d, k, B, W, e)
  BY SMTT(60) DEF Stands
<1>2. Len(B) \in Nat /\ 0 \in 0 .. Len(B) /\ Len(B) \in 0 .. Len(B)
  OBVIOUS
<1> QED
  BY <1>1, <1>2 DEF Decoding

(* One more scancode at the end stands for its character. *)
LEMMA StandsLonger ==
  ASSUME NEW d, NEW k, NEW B \in Seq(Scancodes), NEW W \in Seq(Chars), NEW e, Stands(d, k, B, W, e),
         NEW b \in Scancodes
  PROVE  Stands(d, k, Append(B, b), IF char_of(e, b) = NUL THEN W ELSE Append(W, char_of(e, b)),
                state_after(e, b))
<1>1. PICK D \in [0 .. Len(B) -> DecoderStates], C \in [0 .. Len(B) -> Nat] :
        Decoding(D, C, d, k, B, W, e)
  BY SMTT(60) DEF Stands
<1>2. PICK n \in Nat : n = Len(B)
  OBVIOUS
<1>3. PICK A \in Seq(Scancodes) : A = Append(B, b)
  BY SMTT(60)
<1>4. PICK c \in Chars : c = char_of(e, b)
  BY ZenonT(60), StandsBehind, DecoderTypes
<1>5. PICK V \in Seq(Chars) : V = IF c = NUL THEN W ELSE Append(W, c)
  <2>1. Append(W, c) \in Seq(Chars)
    OBVIOUS
  <2>2. (IF c = NUL THEN W ELSE Append(W, c)) \in Seq(Chars)
    BY <2>1
  <2> QED
    BY ZenonT(60), <2>2
<1>6. PICK f \in DecoderStates : f = state_after(e, b)
  BY ZenonT(60), StandsBehind, DecoderTypes
<1>7. Len(A) = n + 1 /\ A[n + 1] = b /\ \A i \in 1 .. n : A[i] = B[i]
  BY <1>2, <1>3
<1>8. /\ Len(W) \in Nat /\ Len(V) \in Nat /\ Len(W) <= Len(V) /\ \A i \in 1 .. Len(W) : V[i] = W[i]
      /\ IF c = NUL THEN Len(V) = Len(W) ELSE Len(V) = Len(W) + 1 /\ V[Len(V)] = c
  BY <1>5
<1> DEFINE D2 == [i \in 0 .. n + 1 |-> IF i = n + 1 THEN f ELSE D[i]]
           C2 == [i \in 0 .. n + 1 |-> IF i = n + 1 THEN Len(V) ELSE C[i]]
<1>9. /\ D2 \in [0 .. n + 1 -> DecoderStates] /\ C2 \in [0 .. n + 1 -> Nat]
      /\ D2[n + 1] = f /\ C2[n + 1] = Len(V)
      /\ \A i \in 0 .. n : D2[i] = D[i] /\ C2[i] = C[i]
  <2>1. \A i \in 0 .. n + 1 : i = n + 1 \/ i \in 0 .. n
    BY <1>2
  <2>2. \A i \in 0 .. n : i \in 0 .. n + 1 /\ i # n + 1
    BY <1>2
  <2> QED
    BY <1>2, <1>8, <2>1, <2>2
<1> HIDE DEF D2, C2
<1>10. /\ D[0] = d /\ C[0] = k /\ D[n] = e /\ C[n] = Len(W)
       /\ \A i, j \in 0 .. n : i <= j => C[i] <= C[j]
       /\ \A i \in 1 .. n : Decodes(D[i - 1], C[i - 1], B[i], D[i], C[i], W)
  BY <1>1, <1>2 DEF Decoding
<1>11. ASSUME NEW i \in 0 .. n PROVE C[i] \in Nat /\ C[i] <= Len(W)
  <2>1. n \in 0 .. n /\ i <= n
    BY <1>2
  <2>2. C[i] <= C[n]
    BY <1>10, <2>1
  <2> QED
    BY <1>2, <1>10, <2>2
<1>12. Decoding(D2, C2, d, k, A, V, f)
  <2>1. D2[0] = d /\ C2[0] = k /\ D2[n + 1] = f /\ C2[n + 1] = Len(V)
    BY <1>2, <1>9, <1>10
  <2>2. \A i, j \in 0 .. n + 1 : i <= j => C2[i] <= C2[j]
    <3>1. SUFFICES ASSUME NEW i \in 0 .. n + 1, NEW j \in 0 .. n + 1, i <= j PROVE C2[i] <= C2[j]
      OBVIOUS
    <3>2. CASE j = n + 1 /\ i = n + 1
      BY <1>8, <1>9, <3>2
    <3>3. CASE j = n + 1 /\ i \in 0 .. n
      BY SMTT(60), <1>8, <1>9, <1>11, <3>3
    <3>4. CASE j \in 0 .. n
      <4>1. i \in 0 .. n
        BY <3>1, <3>4
      <4> QED
        BY <1>9, <1>10, <3>1, <3>4, <4>1
    <3> QED
      BY <3>2, <3>3, <3>4
  <2>3. ASSUME NEW i \in 1 .. n + 1 PROVE Decodes(D2[i - 1], C2[i - 1], A[i], D2[i], C2[i], V)
    <3>1. CASE i = n + 1
      <4>1. i - 1 = n /\ n \in 0 .. n
        BY <3>1
      <4>2. D2[i - 1] = e /\ C2[i - 1] = Len(W) /\ A[i] = b /\ D2[i] = f /\ C2[i] = Len(V)
        BY <1>7, <1>9, <1>10, <3>1, <4>1
      <4> QED
        BY <1>4, <1>6, <1>8, <4>2 DEF Decodes
    <3>2. CASE i \in 1 .. n
      <4>1. i - 1 \in 0 .. n /\ i \in 0 .. n
        BY <3>2
      <4>2. Decodes(D[i - 1], C[i - 1], B[i], D[i], C[i], W)
        BY <1>10, <3>2
      <4>3. /\ D2[i - 1] = D[i - 1] /\ C2[i - 1] = C[i - 1] /\ A[i] = B[i]
            /\ D2[i] = D[i] /\ C2[i] = C[i]
        BY SMTT(60), <1>7, <1>9, <3>2, <4>1
      <4>4. C[i - 1] \in Nat /\ C[i] \in Nat /\ C[i] <= Len(W)
        BY ZenonT(60), <1>11, <4>1
      <4>5. C[i] = C[i - 1] + 1 => V[C[i]] = W[C[i]]
        <5>1. SUFFICES ASSUME C[i] = C[i - 1] + 1 PROVE V[C[i]] = W[C[i]]
          OBVIOUS
        <5>2. C[i] \in 1 .. Len(W)
          BY <1>8, <4>4, <5>1
        <5> QED
          BY SMTT(60), <1>8, <5>2
      <4> QED
        BY <4>2, <4>3, <4>5 DEF Decodes
    <3> QED
      BY <3>1, <3>2
  <2> QED
    BY <1>7, <2>1, <2>2, <2>3 DEF Decoding
<1>13. Stands(d, k, A, V, f)
  BY ZenonT(60), <1>7, <1>9, <1>12 DEF Stands
<1> QED
  BY <1>3, <1>4, <1>5, <1>6, <1>13

(* The first scancode is decoded: it stood for the first character, or for   *)
(* none.                                                                     *)
LEMMA StandsShorter ==
  ASSUME NEW d, NEW k, NEW B \in Seq(Scancodes), NEW W \in Seq(Chars), NEW e, Stands(d, k, B, W, e),
         B # <<>>
  PROVE  IF char_of(d, B[1]) = NUL
         THEN Stands(state_after(d, B[1]), k, Tail(B), W, e)
         ELSE /\ Stands(state_after(d, B[1]), k + 1, Tail(B), W, e)
              /\ k + 1 <= Len(W) /\ W[k + 1] = char_of(d, B[1])
<1>1. PICK D \in [0 .. Len(B) -> DecoderStates], C \in [0 .. Len(B) -> Nat] :
        Decoding(D, C, d, k, B, W, e)
  BY DEF Stands
<1>2. PICK n \in Nat : Len(B) = n + 1
  <2>1. Len(B) \in Nat /\ Len(B) # 0
    OBVIOUS
  <2>2. Len(B) - 1 \in Nat /\ Len(B) = (Len(B) - 1) + 1
    BY <2>1
  <2> QED
    BY ZenonT(60), <2>2
<1>3. PICK A \in Seq(Scancodes) : A = Tail(B)
  BY SMTT(60)
<1>4. Len(A) = n /\ \A i \in 1 .. n : A[i] = B[i + 1]
  BY <1>2, <1>3
<1>5. /\ D[0] = d /\ C[0] = k /\ D[n + 1] = e /\ C[n + 1] = Len(W)
      /\ \A i, j \in 0 .. n + 1 : i <= j => C[i] <= C[j]
      /\ \A i \in 1 .. n + 1 : Decodes(D[i - 1], C[i - 1], B[i], D[i], C[i], W)
  BY <1>1, <1>2 DEF Decoding
<1>6. Decodes(d, k, B[1], D[1], C[1], W)
  <2>1. 1 \in 1 .. n + 1 /\ 1 - 1 = 0
    BY <1>2
  <2>2. Decodes(D[1 - 1], C[1 - 1], B[1], D[1], C[1], W)
    BY <1>5, <2>1
  <2> QED
    BY <1>5, <2>1, <2>2
<1> DEFINE D2 == [i \in 0 .. n |-> D[i + 1]]
           C2 == [i \in 0 .. n |-> C[i + 1]]
<1>7. /\ D2 \in [0 .. n -> DecoderStates] /\ C2 \in [0 .. n -> Nat]
      /\ \A i \in 0 .. n : D2[i] = D[i + 1] /\ C2[i] = C[i + 1]
  <2>1. \A i \in 0 .. n : i + 1 \in 0 .. n + 1
    BY <1>2
  <2> QED
    BY <1>2, <2>1
<1> HIDE DEF D2, C2
<1>8. Decoding(D2, C2, D[1], C[1], A, W, e)
  <2>1. D2[0] = D[1] /\ C2[0] = C[1] /\ D2[n] = e /\ C2[n] = Len(W)
    BY <1>2, <1>5, <1>7
  <2>2. \A i, j \in 0 .. n : i <= j => C2[i] <= C2[j]
    <3>1. \A i, j \in 0 .. n : i <= j => i + 1 \in 0 .. n + 1 /\ j + 1 \in 0 .. n + 1 /\ i + 1 <= j + 1
      BY <1>2
    <3> QED
      BY ZenonT(60), <1>5, <1>7, <3>1
  <2>3. ASSUME NEW i \in 1 .. n PROVE Decodes(D2[i - 1], C2[i - 1], A[i], D2[i], C2[i], W)
    <3>1. i - 1 \in 0 .. n /\ i \in 0 .. n /\ (i - 1) + 1 = i /\ i + 1 \in 1 .. n + 1 /\ (i + 1) - 1 = i
      BY <1>2
    <3>2. Decodes(D[(i + 1) - 1], C[(i + 1) - 1], B[i + 1], D[i + 1], C[i + 1], W)
      BY <1>5, <3>1
    <3>3. /\ D2[i - 1] = D[i] /\ C2[i - 1] = C[i] /\ A[i] = B[i + 1]
          /\ D2[i] = D[i + 1] /\ C2[i] = C[i + 1]
      BY SMTT(60), <1>4, <1>7, <3>1
    <3> QED
      BY <3>1, <3>2, <3>3
  <2> QED
    BY <1>4, <2>1, <2>2, <2>3 DEF Decoding
<1>9. Stands(D[1], C[1], A, W, e)
  BY ZenonT(60), <1>4, <1>7, <1>8 DEF Stands
<1>10. C[1] <= Len(W) /\ C[1] \in Nat
  BY <1>2, <1>5
<1> QED
  BY <1>3, <1>6, <1>9, <1>10 DEF Decodes

(* V is W without g of its first k characters. *)
Moved(W, V, k, g) ==
  /\ g <= k /\ Len(V) = Len(W) - g
  /\ \A j \in Nat : k - g < j /\ j <= Len(V) => V[j] = W[j + g]

(* Characters that no scancode on its way stands for leave, and the others   *)
(* move up.                                                                  *)
LEMMA StandsShifted ==
  ASSUME NEW d, NEW k, NEW B \in Seq(Scancodes), NEW W \in Seq(Chars), NEW e, Stands(d, k, B, W, e),
         NEW g \in Nat, NEW V \in Seq(Chars), Moved(W, V, k, g)
  PROVE  Stands(d, k - g, B, V, e)
<1>1. PICK D \in [0 .. Len(B) -> DecoderStates], C \in [0 .. Len(B) -> Nat] :
        Decoding(D, C, d, k, B, W, e)
  BY DEF Stands
<1>2. PICK n \in Nat : n = Len(B)
  OBVIOUS
<1>3. /\ D[0] = d /\ C[0] = k /\ D[n] = e /\ C[n] = Len(W)
      /\ \A i, j \in 0 .. n : i <= j => C[i] <= C[j]
      /\ \A i \in 1 .. n : Decodes(D[i - 1], C[i - 1], B[i], D[i], C[i], W)
  BY <1>1, <1>2 DEF Decoding
<1>4. k \in Nat /\ Len(W) \in Nat /\ Len(V) \in Nat /\ g <= k /\ Len(V) = Len(W) - g
  <2>1. k \in Nat
    BY ZenonT(60), StandsBehind
  <2> QED
    BY <2>1 DEF Moved
<1>5. ASSUME NEW i \in 0 .. n PROVE C[i] \in Nat /\ k <= C[i] /\ C[i] <= Len(W)
  <2>1. n \in 0 .. n /\ 0 \in 0 .. n /\ 0 <= i /\ i <= n
    BY <1>2
  <2>2. C[i] <= C[n] /\ C[0] <= C[i]
    BY <1>3, <2>1
  <2> QED
    BY ZenonT(60), <1>2, <1>3, <2>2
<1> DEFINE C2 == [i \in 0 .. n |-> C[i] - g]
<1>6. C2 \in [0 .. n -> Nat] /\ \A i \in 0 .. n : C2[i] = C[i] - g
  <2>1. \A i \in 0 .. n : C[i] - g \in Nat
    BY SMTT(60), <1>4, <1>5
  <2> QED
    BY <2>1
<1> HIDE DEF C2
<1>7. Decoding(D, C2, d, k - g, B, V, e)
  <2>1. D[0] = d /\ C2[0] = k - g /\ D[n] = e /\ C2[n] = Len(V)
    <3>1. 0 \in 0 .. n /\ n \in 0 .. n
      BY <1>2
    <3> QED
      BY ZenonT(60), <1>3, <1>4, <1>6, <3>1
  <2>2. ASSUME NEW i \in 0 .. n, NEW j \in 0 .. n, i <= j PROVE C2[i] <= C2[j]
    <3>1. C[i] <= C[j] /\ C2[i] = C[i] - g /\ C2[j] = C[j] - g
      BY SMTT(60), <1>3, <1>6, <2>2
    <3>2. C[i] \in Nat /\ C[j] \in Nat
      BY <1>5
    <3> QED
      BY <3>1, <3>2
  <2>3. ASSUME NEW i \in 1 .. n PROVE Decodes(D[i - 1], C2[i - 1], B[i], D[i], C2[i], V)
    <3>1. i - 1 \in 0 .. n /\ i \in 0 .. n
      BY <1>2
    <3>2. C2[i - 1] = C[i - 1] - g /\ C2[i] = C[i] - g
      BY SMTT(60), <1>6, <3>1
    <3>3. C[i] \in Nat /\ C[i - 1] \in Nat /\ k <= C[i - 1] /\ C[i] <= Len(W)
      BY SMTT(60), <1>5, <3>1
    <3>4. Decodes(D[i - 1], C[i - 1], B[i], D[i], C[i], W)
      BY <1>3
    <3>5. CASE char_of(D[i - 1], B[i]) = NUL
      BY SMTT(60), <3>2, <3>3, <3>4, <3>5 DEF Decodes
    <3>6. CASE char_of(D[i - 1], B[i]) # NUL
      <4>1. C[i] = C[i - 1] + 1 /\ W[C[i]] = char_of(D[i - 1], B[i]) /\ D[i] = state_after(D[i - 1], B[i])
        BY <3>4, <3>6 DEF Decodes
      <4>2. PICK j \in Nat : j = C[i] - g
        BY SMTT(60), <1>4, <3>3, <4>1
      <4>3. k - g < j /\ j <= Len(V) /\ j + g = C[i] /\ C2[i] = j /\ j = C2[i - 1] + 1
        <5>1. PICK x \in Nat, y \in Nat : x = C[i] /\ y = C[i - 1]
          BY <3>3
        <5>2. x = y + 1 /\ j = x - g /\ k <= y /\ x <= Len(W) /\ C2[i] = x - g /\ C2[i - 1] = y - g
          BY <3>2, <3>3, <4>1, <4>2, <5>1
        <5>3. PICK v \in Nat, w \in Nat : v = Len(V) /\ w = Len(W)
          BY ZenonT(60), <1>4
        <5>4. k - g < j /\ j <= v /\ j + g = x /\ j = (y - g) + 1
          BY <1>4, <5>2, <5>3
        <5> QED
          BY <5>1, <5>2, <5>3, <5>4
      <4>4. V[j] = W[j + g]
        BY SMTT(60), <4>3 DEF Moved
      <4> QED
        BY SMTT(60), <3>6, <4>1, <4>3, <4>4 DEF Decodes
    <3> QED
      BY <3>5, <3>6
  <2> QED
    BY <1>2, <2>1, <2>2, <2>3 DEF Decoding
<1>8. C2 \in [0 .. Len(B) -> Nat]
  BY <1>2, <1>6
<1> QED
  BY SMTT(60), <1>7, <1>8 DEF Stands


=============================================================================
