------------------------------- MODULE Snake --------------------------------
(***************************************************************************)
(* The game of kernel/snake.cpp.  The shell starts it and passes it keys,  *)
(* the main loop ticks it.  Food appears on any free cell: the generator   *)
(* behind spawn_food is abstracted, its retry loop is not.                 *)
(***************************************************************************)
EXTENDS Integers, Sequences, Functions

CONSTANTS BOARD_WIDTH, BOARD_HEIGHT, MAX_SEGMENTS, MOVE_INTERVAL_TICKS
ASSUME SnakeAssumption ==
  /\ BOARD_WIDTH \in Nat /\ BOARD_WIDTH \div 2 > 2
  /\ BOARD_HEIGHT \in Nat \ {0} /\ MOVE_INTERVAL_TICKS \in Nat \ {0}
  /\ MAX_SEGMENTS \in 3 .. (BOARD_WIDTH * BOARD_HEIGHT - 1)

VARIABLES body, food, tick_count, direction, requested_direction, running

snake == <<body, food, tick_count, direction, requested_direction, running>>
-----------------------------------------------------------------------------
Point == (1 .. BOARD_WIDTH) \X (1 .. BOARD_HEIGHT)
step == [Up |-> <<0, -1>>, Down |-> <<0, 1>>, Left |-> <<-1, 0>>, Right |-> <<1, 0>>]
Direction == DOMAIN step

cell_ahead(p, d) == <<p[1] + step[d][1], p[2] + step[d][2]>>

occupies(b, p, count) == \E i \in 1 .. count : b[i] = p

is_opposite(d, e) == step[d][1] + step[e][1] = 0 /\ step[d][2] + step[e][2] = 0

spawn_food(b) == food' \in { p \in Point : ~occupies(b, p, Len(b)) }

SnakeInit ==
  /\ body = <<>> /\ food = <<0, 0>> /\ tick_count = 0 /\ running = FALSE
  /\ direction = "Right" /\ requested_direction = "Right"

start ==
  LET x == BOARD_WIDTH \div 2  y == (BOARD_HEIGHT + 1) \div 2 IN
  /\ body' = << <<x, y>>, <<x - 1, y>>, <<x - 2, y>> >>
  /\ direction' = "Right" /\ requested_direction' = "Right"
  /\ tick_count' = 0 /\ running' = TRUE
  /\ spawn_food(body')

stop == running' = FALSE /\ UNCHANGED <<body, food, tick_count, direction, requested_direction>>

\* Mutant: the new direction is compared with the one last requested.
handle_key_twice(k) ==
  /\ requested_direction' =
       IF k \in Direction /\ ~is_opposite(requested_direction, k) THEN k ELSE requested_direction
  /\ UNCHANGED <<body, food, tick_count, direction, running>>

handle_key(k) ==
  /\ requested_direction' =
       IF k \in Direction /\ ~is_opposite(direction, k) THEN k ELSE requested_direction
  /\ UNCHANGED <<body, food, tick_count, direction, running>>

(* One move, when MOVE_INTERVAL_TICKS calls of tick have passed. *)
move ==
  LET next == cell_ahead(body[1], requested_direction)
      ate == next = food
      new_length == IF ate /\ Len(body) < MAX_SEGMENTS THEN Len(body) + 1 ELSE Len(body)
  IN
  /\ tick_count' = 0 /\ direction' = requested_direction
  /\ IF next \notin Point \/ occupies(body, next, IF ate THEN Len(body) ELSE Len(body) - 1)
     THEN running' = FALSE /\ UNCHANGED <<body, food>>
     ELSE /\ body' = SubSeq(<<next>> \o body, 1, new_length)
          /\ IF ate THEN spawn_food(body') ELSE UNCHANGED food
          /\ UNCHANGED running
  /\ UNCHANGED requested_direction

tick ==
  \/ ~running /\ UNCHANGED snake
  \/ /\ running /\ tick_count + 1 < MOVE_INTERVAL_TICKS
     /\ tick_count' = tick_count + 1
     /\ UNCHANGED <<body, food, direction, requested_direction, running>>
  \/ running /\ tick_count + 1 >= MOVE_INTERVAL_TICKS /\ move

(* snake.cpp: while the game runs the snake lies on the board and crosses  *)
(* neither itself nor the food, whatever is typed and however often it     *)
(* grew, and no sequence of keys between two moves turns it back into its  *)
(* own neck.                                                               *)
SnakeSound ==
  running =>
    /\ Range(body) \subseteq Point /\ IsInjective(body)
    /\ Len(body) \in 3 .. MAX_SEGMENTS
    /\ food \in Point \ Range(body)
    /\ cell_ahead(body[1], requested_direction) # body[2]

=============================================================================
