------------------------------- MODULE Snake ------------------------------
(***************************************************************************)
(* The game of the shell example (examples/shell/games/snake.c), which     *)
(* runs in a protection domain of its own: ShellConsole has its two        *)
(* notifications and the keyboard's side.                                  *)
(*                                                                         *)
(* The shell, which has the higher priority, stores a key in kbd_buffer at *)
(* any moment and getch returns the last one stored, so that every call of *)
(* getch may return any key.  rand is external: any number in its range.   *)
(* The score, the drawing and the final message are left out.              *)
(***************************************************************************)
EXTENDS Integers, Sequences, SequencesExt

CONSTANTS SCREEN_WIDTH, SCREEN_HEIGHT,
          START_SNAKE_LEN,
          BONUS_MIN_TIME, BONUS_MAX_TIME,
          MaxLen            \* bound: parts of the snake

ASSUME SnakeAssumption ==
    /\ SCREEN_WIDTH \in Nat \ {0} /\ SCREEN_HEIGHT \in Nat \ {0}
    /\ START_SNAKE_LEN \in 1 .. (SCREEN_WIDTH \div 2) + 1
    /\ BONUS_MIN_TIME \in Nat \ {0} /\ BONUS_MAX_TIME \in Nat
    /\ BONUS_MIN_TIME <= BONUS_MAX_TIME
    /\ MaxLen \in Nat /\ START_SNAKE_LEN <= MaxLen

VARIABLES pc,               \* wait, loop, or for ever:
                            \*   halted (getch), searching (snake_update)
          quit,
          snake_direction,
          snake_head, snake_body,
          food,
          bonus, timer      \* the bonus and how long it stays

snakeVars == <<snake_head, snake_body>>
itemVars == <<food, bonus, timer>>
vars == <<pc, quit, snake_direction, snakeVars, itemVars>>

Cell == (0 .. SCREEN_WIDTH - 1) \X (0 .. SCREEN_HEIGHT - 1)
NoWhere == <<-1, -1>>

\* The keys that turn the snake, alone and at the end of an escape sequence.
Letter == [w |-> "up", s |-> "down", d |-> "right", a |-> "left", D |-> "right", A |-> "left"]
Arrow == [A |-> "up", B |-> "down", C |-> "right", D |-> "left"]
Opposite == [up |-> "down", down |-> "up", left |-> "right", right |-> "left"]

\* The globals before the first game.
Init ==
    /\ pc = "wait" /\ quit = FALSE /\ snake_direction = "right"
    /\ snake_head = <<0, 0>> /\ snake_body = <<>>
    /\ food = <<0, 0>> /\ bonus = <<0, 0>> /\ timer = 0

\* snake_init, in main_snake.  It sets neither quit nor snake_direction.
Start ==
    LET middle == <<SCREEN_WIDTH \div 2, SCREEN_HEIGHT \div 2>>
    IN  /\ pc = "wait" /\ pc' = "loop"
        /\ snake_head' = middle
        /\ snake_body' = [n \in 1 .. START_SNAKE_LEN |-> <<middle[1] - (n - 1), middle[2]>>]
        /\ food' \in Cell /\ bonus' = NoWhere /\ timer' = -1
        /\ UNCHANGED <<quit, snake_direction>>

---------------------------------------------------------------------------
(* snake_input: the direction of the next step, and whether to leave.      *)

\* Faulty variant: the snake may turn on the spot.
TurnUnchecked(direction) == snake_direction' = direction

Turn(direction) ==
    snake_direction' = IF snake_direction = Opposite[direction] THEN snake_direction
                       ELSE direction

\* A letter; escape, [ and a letter; or keys without a meaning here, of which
\* q leaves the game.
Input(leave) ==
    \/ ~leave /\ \E key \in DOMAIN Letter : Turn(Letter[key])
    \/ ~leave /\ \E key \in DOMAIN Arrow : Turn(Arrow[key])
    \/ UNCHANGED snake_direction

---------------------------------------------------------------------------
(* snake_update, in the direction that snake_input has left.               *)

\* One step from p, and where it leads on a screen without borders.
Ahead(p, direction) ==
    CASE direction = "up"    -> <<p[1], p[2] - 1>>
      [] direction = "down"  -> <<p[1], p[2] + 1>>
      [] direction = "left"  -> <<p[1] - 1, p[2]>>
      [] direction = "right" -> <<p[1] + 1, p[2]>>

\* Faulty variant: the screen is not left on the right and at the bottom.
WrapLow(p) == <<IF p[1] < 0 THEN SCREEN_WIDTH - 1 ELSE p[1],
                IF p[2] < 0 THEN SCREEN_HEIGHT - 1 ELSE p[2]>>

Wrap(p) == <<p[1] % SCREEN_WIDTH, p[2] % SCREEN_HEIGHT>>

\* The test for a collision: on the way, before the head is wrapped.
Intersects(p) == \E n \in 2 .. Len(snake_body) : snake_body[n] = p

Collide(p) ==
    /\ Intersects(p)
    /\ snake_head' = p /\ quit' = TRUE /\ pc' = "loop"
    /\ UNCHANGED <<snake_body, itemVars>>

\* Where in_snake finds the snake, with its head at p.
InSnake(p) == {p} \cup {snake_body[n] : n \in DOMAIN snake_body}

\* Faulty variant: the new food may lie under the snake.
FoodAfterAnywhere(p) == IF p = food THEN food' \in Cell \ {bonus} ELSE food' = food

\* What an eaten food is replaced by.
FoodAfter(p) == IF p = food THEN food' \in Cell \ (InSnake(p) \cup {bonus}) ELSE food' = food

\* A bonus not eaten loses time and goes; without one another may come up.
BonusAfter(p) ==
    LET gone == bonus = NoWhere \/ p = bonus
    IN  \/ ~gone /\ timer > 1 /\ timer' = timer - 1 /\ bonus' = bonus
        \/ (gone \/ timer = 1) /\ timer' = -1 /\ bonus' = NoWhere
        \/ /\ gone
           /\ timer' \in BONUS_MIN_TIME .. BONUS_MAX_TIME
           /\ bonus' \in Cell \ (InSnake(p) \cup {food'})

\* Faulty variant: the parts of the body are moved from the head on.
ShiftFromHead(p) ==
    [n \in 1 .. Len(snake_body) + (IF p = food THEN 1 ELSE 0) |->
        IF n = 1 THEN p ELSE snake_body[1]]

\* The body after the parts have moved up behind p; it keeps its tail if it ate.
Shift(p) == <<p>> \o (IF p = food THEN snake_body ELSE Front(snake_body))

Advance(p, leave) ==
    /\ snake_head' = p
    /\ FoodAfter(p) /\ BonusAfter(p)
    /\ snake_body' = Shift(p)
    /\ quit' = leave /\ pc' = "loop"

\* With no cell free, the loop that draws a place for the food at random does
\* not end.
SearchFood(p, leave) ==
    /\ p = food /\ Cell \subseteq InSnake(p) \cup {bonus}
    /\ snake_head' = p /\ snake_body' = Append(snake_body, NoWhere)
    /\ quit' = leave /\ pc' = "searching"
    /\ UNCHANGED itemVars

\* Likewise for a bonus, when the food has the last free cell.
SearchBonus(p, leave) ==
    /\ FoodAfter(p)
    /\ bonus \in {NoWhere, p} /\ Cell \subseteq InSnake(p) \cup {food'}
    /\ snake_head' = p
    /\ snake_body' = IF p = food THEN Append(snake_body, NoWhere) ELSE snake_body
    /\ bonus' = NoWhere /\ timer' = -1
    /\ quit' = leave /\ pc' = "searching"

Update(p, leave) ==
    \/ Collide(p)
    \/ /\ ~Intersects(p)
       /\ Wrap(p) = food => Len(snake_body) < MaxLen
       /\ Advance(Wrap(p), leave) \/ SearchFood(Wrap(p), leave) \/ SearchBonus(Wrap(p), leave)

---------------------------------------------------------------------------
(* The loop of main_snake.                                                 *)

\* Faulty variant: the loop goes on after the game has been lost or left.
TurnOfLoopAnyway(leave) ==
    /\ pc = "loop"
    /\ Input(leave) /\ Update(Ahead(snake_head, snake_direction'), quit \/ leave)

TurnOfLoop(leave) ==
    /\ pc = "loop" /\ ~quit
    /\ Input(leave) /\ Update(Ahead(snake_head, snake_direction'), leave)

\* The answer of getch to ctrl-c is not to return.
Halt ==
    /\ pc = "loop" /\ ~quit /\ pc' = "halted"
    /\ UNCHANGED <<quit, snake_direction, snakeVars, itemVars>>

End ==
    /\ pc = "loop" /\ quit /\ pc' = "wait"
    /\ UNCHANGED <<quit, snake_direction, snakeVars, itemVars>>

Game == (\E leave \in BOOLEAN : TurnOfLoop(leave)) \/ Halt \/ End

Next == Start \/ Game

Spec == Init /\ [][Next]_vars

\* A game that has begun runs whenever the shell and the driver wait.
FairSpec == Spec /\ WF_vars(Game)

---------------------------------------------------------------------------
(* Properties.                                                             *)

Begun == snake_body # <<>>

\* Body parts are at a place, but for the one added when food was eaten and
\* the game hangs before the shift.
Placed == IF pc = "searching" THEN Cell \cup {NoWhere} ELSE Cell

\* The type invariant: once a game has begun everything is on the screen, and
\* a bonus is there exactly as long as it has time left.
TypeOK ==
    /\ pc \in {"wait", "loop", "halted", "searching"}
    /\ quit \in BOOLEAN /\ snake_direction \in DOMAIN Opposite
    /\ snake_head \in Cell /\ food \in Cell
    /\ snake_body \in Seq(Placed) /\ Len(snake_body) <= MaxLen
    /\ Begun => /\ Len(snake_body) >= START_SNAKE_LEN
                /\ bonus \in Cell \cup {NoWhere}
                /\ IF bonus = NoWhere THEN timer = -1 ELSE timer \in 1 .. BONUS_MAX_TIME

Adjacent(p, q) == \E direction \in DOMAIN Opposite : q = Wrap(Ahead(p, direction))

\* The body is one connected line behind the head, across the border too.
BodyConnected ==
    /\ snake_body[1] = snake_head \/ quit
    /\ \A n \in 1 .. Len(snake_body) - 1 : Adjacent(snake_body[n], snake_body[n + 1])

\* Food put out during the game, and every bonus, is apart from the body.
ItemsClear ==
    /\ bonus # food /\ bonus \notin ToSet(snake_body)
    /\ Len(snake_body) > START_SNAKE_LEN => food \notin ToSet(snake_body)

\* The snake stays in one piece, also in the step in which it grows and while
\* it follows turns, and food and bonus stay where it can get them, although
\* they are put out against a body that has not moved yet.
BoardSound == Begun /\ pc # "searching" => BodyConnected /\ ItemsClear

\* The snake never turns into the part right behind its head, whichever way
\* and however fast the turns are keyed in.
NeckSafe ==
    [][ pc = "loop" /\ ~quit /\ Len(snake_body) > 1
          => Ahead(snake_head, snake_direction') # snake_body[2] ]_vars

\* A game that was lost or left goes back to the shell, unless that very step
\* of it looks in vain for a free cell.
QuitEnds == quit ~> pc \in {"wait", "searching"}
===========================================================================
