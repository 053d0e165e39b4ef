------------------------------ MODULE Console -------------------------------
(***************************************************************************)
(* From a key to the shell: the keyboard controller, the interrupt of      *)
(* IRQ1, the main loop of kernel/kernel.cpp, the read system call of a     *)
(* process, and the shell with its line, the snake and the FAT32 commands. *)
(*                                                                         *)
(* The main loop runs with interrupts on, a few instructions at a time,    *)
(* and is preempted anywhere.  An interrupt handler and a system call run  *)
(* with interrupts off and are one step each.                              *)
(***************************************************************************)
EXTENDS Keyboard, Snake, Fat32

CONSTANTS
  COMMAND_CAPACITY,
  Sessions,             \* a sequence of what people do at the keyboard, see below
  Paths                 \* given to the fat commands

ASSUME CommandAssumption == COMMAND_CAPACITY \in Nat \ {0}
ASSUME SessionsAssumption ==
  \A s \in DOMAIN Sessions :
    /\ Sessions[s].script \in Seq(SUBSET (Keys \cup {"Unup", "Unshift"}))
    /\ Sessions[s].lengths \subseteq Nat
    /\ \A v \in Sessions[s].disks : mount(v.bs) => IsVolume(v)

(* A session has a script, the keys the person may choose from for each    *)
(* stroke; patient, whether each stroke and its bytes find the machine at   *)
(* rest; the lengths processes pass to the read system call; and the disks. *)
VARIABLES
  session, script,      \* the session and what is left of its script
  wire, data, full,     \* the keyboard controller: bytes not yet presented, port 0x60, OUTPUT_FULL
  irq1,                 \* latched by the interrupt controller
  pc, byte, ch, next_head, next_tail,   \* the main loop and its locals
  command,              \* the line typed so far
  hand,                 \* the person's Shift and Caps Lock
  waiting,              \* characters typed that nobody has taken, oldest first
  overlap               \* some reader or writer of the ring ran inside another

controller == <<wire, data, full, irq1>>
locals == <<byte, ch, next_head, next_tail>>
fat == <<vol, fat_cache_sector, fat_cache, call>>
person == <<session, script, hand>>
vars == <<ring, decoder, snake, fat, person, controller, pc, locals, command, waiting, overlap>>

Init ==
  /\ KeyboardInit /\ SnakeInit
  /\ session \in DOMAIN Sessions /\ script = Sessions[session].script
  /\ vol \in Sessions[session].disks /\ mount(vol.bs) /\ fat_cache_sector = NONE /\ fat_cache = NONE
  /\ wire = <<>> /\ data = Make("Esc") /\ full = FALSE /\ irq1 = FALSE
  /\ pc = "hlt" /\ byte = Make("Esc") /\ ch = NUL /\ next_head = 0 /\ next_tail = 0
  /\ command = <<>> /\ call = NoCall
  /\ hand = [shift |-> FALSE, caps |-> FALSE] /\ waiting = <<>> /\ overlap = FALSE
-----------------------------------------------------------------------------
(* The person and the controller.                                          *)

\* The bytes of a stroke; a stroke is a key pressed, or one let go.  There are two
\* Shift keys, so one can be pressed or let go while the other is held.
bytes(k) ==
  CASE k \in Arrows -> <<EXTENDED_PREFIX, Make(k)>>
    [] k = "Unup" -> <<EXTENDED_PREFIX, Break("Up")>>
    [] k = "Unshift" -> <<Break("Shift")>>
    [] OTHER -> <<Make(k)>>

\* What the person expects to see for it, if the last Shift stroke decides.
expected(k) ==
  CASE k \in Letters -> <<IF hand.shift # hand.caps THEN capital[k] ELSE k>>
    [] k \in Arrows \cup {"Enter", "Back", "Esc"} -> <<k>>
    [] OTHER -> <<>>

\* Nothing on its way from the keyboard to the ring.
Idle == wire = <<>> /\ ~full /\ ~irq1

Stroke(k) ==
  /\ k \in script[1] /\ script' = Tail(script)
  /\ Sessions[session].patient => pc = "hlt" /\ Idle
  /\ hand' = [shift |-> IF k \in {"Shift", "Unshift"} THEN k = "Shift" ELSE hand.shift,
              caps |-> IF k = "Caps" THEN ~hand.caps ELSE hand.caps]
  /\ wire' = wire \o bytes(k)
  /\ waiting' = IF overlap THEN waiting ELSE waiting \o expected(k)
  /\ UNCHANGED <<session, ring, decoder, snake, fat, data, full, irq1, pc, locals,
                 command, overlap>>

Present ==
  /\ wire # <<>> /\ ~full
  /\ Sessions[session].patient => pc = "hlt"
  /\ data' = Head(wire) /\ wire' = Tail(wire)
  /\ full' = TRUE /\ irq1' = TRUE
  /\ UNCHANGED <<ring, decoder, snake, fat, person, pc, locals, command, waiting, overlap>>
-----------------------------------------------------------------------------
(* The two windows of the main loop in which the ring is not its own: from  *)
(* the status byte to the end of enqueue, and the whole of read_char, from *)
(* its load of queue_head to the store of queue_tail.                      *)
Polling == pc \in {"data", "scan", "store", "advance"}
Taking == pc \in {"check", "take", "bump", "settail"}

\* A full ring drops character c: nobody will see it.
Dropped(c) ==
  IF c = NUL \/ has_room THEN waiting
  ELSE SubSeq(waiting, 1, Len(contents)) \o SubSeq(waiting, Len(contents) + 2, Len(waiting))

(* IRQ1: handle_irq polls like the main loop, and the status byte tells it  *)
(* when the main loop has taken the byte already.                          *)
Irq ==
  /\ irq1 /\ irq1' = FALSE
  /\ full' = FALSE
  /\ IF full
     THEN /\ Decode(data) /\ enqueue(decoded(data))
          /\ overlap' = (overlap \/ Polling)
          /\ waiting' = IF overlap' THEN <<>> ELSE Dropped(decoded(data))
     ELSE UNCHANGED <<decoder, queue, queue_head, overlap, waiting>>
  /\ UNCHANGED <<queue_tail, snake, fat, person, wire, data, pc, locals, command>>

(* The read system call: up to n characters leave the ring, and are lost    *)
(* if copy_to_user fails; fd # 0 and n > 256 change nothing.               *)
SysRead(n) ==
  LET got == min(n, Len(contents)) IN
  /\ got > 0
  /\ queue_tail' = (queue_tail + got) % QUEUE_SIZE
  /\ overlap' = (overlap \/ Taking)
  /\ waiting' = IF overlap' THEN <<>> ELSE SubSeq(waiting, got + 1, Len(waiting))
  /\ UNCHANGED <<queue, queue_head, decoder, snake, fat, person, controller, pc, locals,
                 command>>
-----------------------------------------------------------------------------
(* The main loop.                                                          *)
At(from, to) == pc = from /\ pc' = to
NoLocals == byte' = Make("Esc") /\ ch' = NUL /\ next_head' = 0 /\ next_tail' = 0

Wake ==
  /\ At("hlt", "status")
  /\ Sessions[session].patient => Idle
  /\ UNCHANGED <<ring, decoder, snake, fat, person, controller, locals, command, waiting,
                 overlap>>

PollStatus ==
  /\ At("status", IF full THEN "data" ELSE "tick")
  /\ UNCHANGED <<ring, decoder, snake, fat, person, controller, locals, command, waiting,
                 overlap>>

\* Port 0x60 gives its last byte again when it has no new one.
PollData ==
  /\ At("data", "scan")
  /\ byte' = data /\ full' = FALSE
  /\ UNCHANGED <<ring, decoder, snake, fat, person, wire, data, irq1, ch, next_head,
                 next_tail, command, waiting, overlap>>

PollScan ==
  /\ At("scan", IF decoded(byte) # NUL /\ has_room THEN "store" ELSE "tick")
  /\ Decode(byte)
  /\ ch' = decoded(byte) /\ next_head' = after(queue_head)
  /\ waiting' = IF overlap THEN <<>> ELSE Dropped(decoded(byte))
  /\ UNCHANGED <<ring, snake, fat, person, controller, byte, next_tail, command, overlap>>

PollStore ==
  /\ At("store", "advance")
  /\ queue' = [queue EXCEPT ![queue_head] = ch]
  /\ UNCHANGED <<queue_head, queue_tail, decoder, snake, fat, person, controller, locals,
                 command, waiting, overlap>>

PollAdvance ==
  /\ At("advance", "tick")
  /\ queue_head' = next_head
  /\ UNCHANGED <<queue, queue_tail, decoder, snake, fat, person, controller, locals,
                 command, waiting, overlap>>

ShellTick ==
  /\ At("tick", "avail")
  /\ tick /\ NoLocals
  /\ UNCHANGED <<ring, decoder, fat, person, controller, command, waiting, overlap>>

(* available() loads queue_head, and then queue_tail to compare it with:    *)
(* in the condition of the main loop, and again in read_char.  Loaded the  *)
(* other way round, a read between the loads costs a call of read_char that *)
(* finds nothing, as one behind the test does.                             *)
LoadHead ==
  /\ At("avail", "test") \/ At("load", "check")
  /\ next_head' = queue_head
  /\ UNCHANGED <<ring, decoder, snake, fat, person, controller, byte, ch, next_tail,
                 command, waiting, overlap>>

Available ==
  /\ At("test", IF available_from(next_head) THEN "load" ELSE "hlt")
  /\ call' = NoCall /\ NoLocals
  /\ UNCHANGED <<ring, decoder, snake, vol, fat_cache_sector, fat_cache, person,
                 controller, command, waiting, overlap>>

\* A process may have emptied the ring since: read_char returns NUL.
CheckChar ==
  /\ At("check", IF available_from(next_head) THEN "take" ELSE "handle")
  /\ NoLocals
  /\ UNCHANGED <<ring, decoder, snake, fat, person, controller, command, waiting, overlap>>

LoadChar ==
  /\ At("take", "bump")
  /\ ch' = queue[queue_tail]
  /\ UNCHANGED <<ring, decoder, snake, fat, person, controller, byte, next_head,
                 next_tail, command, waiting, overlap>>

LoadTail ==
  /\ At("bump", "settail")
  /\ next_tail' = after(queue_tail)
  /\ UNCHANGED <<ring, decoder, snake, fat, person, controller, byte, ch, next_head,
                 command, waiting, overlap>>

StoreTail ==
  /\ At("settail", "handle")
  /\ queue_tail' = next_tail
  /\ waiting' = IF overlap THEN <<>> ELSE Tail(waiting)
  /\ UNCHANGED <<queue, queue_head, decoder, snake, fat, person, controller, locals,
                 command, overlap>>
-----------------------------------------------------------------------------
(* shell::handle_char.  Commands are one letter long.                      *)
Printable == Letters \cup { capital[k] : k \in Letters }

execute ==
  IF command \in {<<"f">>, <<"l">>}
  THEN /\ pc' = "fat"
       /\ \E path \in Paths : FatCall(IF command = <<"f">> THEN "cat" ELSE "ls", path)
       /\ UNCHANGED <<vol, fat_cache_sector, fat_cache, snake>>
  ELSE /\ pc' = "avail"
       /\ IF command = <<"s">> THEN start ELSE UNCHANGED snake
       /\ UNCHANGED fat

FatCommand ==
  /\ pc = "fat" /\ FatStep
  /\ pc' = IF call'.phase \in {"ok", "failed"} THEN "avail" ELSE "fat"
  /\ UNCHANGED <<ring, decoder, snake, person, controller, locals, command, waiting, overlap>>

HandleKey ==
  /\ At("handle", "avail") /\ NoLocals /\ running
  /\ IF ch = "Esc" THEN stop ELSE handle_key(ch)
  /\ UNCHANGED <<ring, decoder, fat, person, controller, command, waiting, overlap>>

HandleEnter ==
  /\ pc = "handle" /\ NoLocals /\ ~running /\ ch = "Enter"
  /\ execute /\ command' = <<>>
  /\ UNCHANGED <<ring, decoder, person, controller, waiting, overlap>>

\* Mutant: no room is kept for the final NUL.
edited_full ==
  CASE ch = "Back" /\ command # <<>> -> SubSeq(command, 1, Len(command) - 1)
    [] ch \in Printable /\ Len(command) < COMMAND_CAPACITY -> Append(command, ch)
    [] OTHER -> command

\* The line after ch.
edited ==
  CASE ch = "Back" /\ command # <<>> -> SubSeq(command, 1, Len(command) - 1)
    [] ch \in Printable /\ Len(command) + 1 < COMMAND_CAPACITY -> Append(command, ch)
    [] OTHER -> command

HandleChar ==
  /\ At("handle", "avail") /\ NoLocals /\ ~running /\ ch # "Enter"
  /\ command' = edited
  /\ UNCHANGED <<ring, decoder, snake, fat, person, controller, waiting, overlap>>

Main ==
  \/ Wake \/ PollStatus \/ PollData \/ PollScan \/ PollStore \/ PollAdvance \/ ShellTick
  \/ LoadHead \/ Available \/ CheckChar \/ LoadChar \/ LoadTail \/ StoreTail
  \/ HandleKey \/ HandleEnter \/ HandleChar \/ FatCommand

Next ==
  \/ script # <<>> /\ \E k \in script[1] : Stroke(k)
  \/ Present \/ Irq \/ Main
  \/ \E n \in Sessions[session].lengths : SysRead(n)

Spec == Init /\ [][Next]_vars

(* The timer wakes the main loop and the scheduler comes back to it, so it  *)
(* goes on with its next instruction; the controller presents its bytes,   *)
(* and a latched interrupt is taken.  Nobody has to type or to read.       *)
FairSpec == Spec /\ WF_vars(Main) /\ WF_vars(Present) /\ WF_vars(Irq)
-----------------------------------------------------------------------------
(* keyboard.cpp: the ring indices stay inside the ring, and shell.cpp: the *)
(* line leaves room for the final NUL.                                     *)
TypeOK ==
  /\ {queue_head, queue_tail, next_head, next_tail} \subseteq DOMAIN queue
  /\ Range(command) \subseteq Printable /\ Len(command) < COMMAND_CAPACITY
  /\ call # NoCall => call.got <= FAT_BUF /\ call.steps <= clusters(vol.bs)

(* keyboard.cpp: as long as no interrupt falls between the status byte and *)
(* the end of enqueue in the main loop's poll, and no process reads during *)
(* the shell's read_char, every character typed is decoded right and goes  *)
(* to the shell or a process exactly once, in the order of typing, or is   *)
(* dropped by a full ring.  Interrupts and reads at every other point of   *)
(* the main loop, also between its two looks at the ring, are harmless.    *)
KeysArriveInOrder ==
  ~overlap =>
    /\ Len(contents) <= Len(waiting) /\ contents = SubSeq(waiting, 1, Len(contents))
    /\ pc \in {"bump", "settail"} => ch = Head(waiting)

(* kernel.cpp, the main loop: outside those two windows it always comes    *)
(* back to hlt with every character taken, whatever interrupts it: poll,   *)
(* the loop over the ring and every fat command end.                       *)
KeysTaken == []<>(overlap \/ (pc = "hlt" /\ waiting = <<>>))

(* fat32.cpp: fat cat and fat ls answer what the FAT and the sectors say   *)
(* or fail, whichever sectors the disk refused in this command or before,  *)
(* also on a volume whose chains are cyclic or broken; on an intact disk   *)
(* they fail only for a path that is not there.  And mount accepts a boot  *)
(* sector only if every cluster lies on the volume and in the FAT.         *)
FatAnswersRight ==
  /\ GeometrySound
  /\ call.phase \in {"ok", "failed"} =>
       LET right == IF call.op = "cat" THEN CatAnswers(call.asked) ELSE LsAnswers(call.asked) IN
       /\ call.phase = "ok" => [got |-> call.got, data |-> call.out] \in right
       /\ Intact /\ ~call.faulted => (call.phase = "ok" <=> right # {})

=============================================================================
