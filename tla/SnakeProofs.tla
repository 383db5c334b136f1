---------------------------- MODULE SnakeProofs ----------------------------
(***************************************************************************)
(* The snake stays in one piece, food and bonus stay where it can get      *)
(* them, and it never turns into the part behind its head, for screens and *)
(* snakes of any size.                                                     *)
(*                                                                         *)
(* What a step does to the body is told by three facts: the new head is    *)
(* next to the old one, also across the border (StepBack), the head was    *)
(* the first part before the step, and what is put out is put out against  *)
(* more cells than the new body has (BodyAfter).  The neck is safe because *)
(* the direction is the one of the last step (NeckInv): a screen of two    *)
(* cells, where one step on leads to the part behind the head, is the only *)
(* exception.                                                              *)
(***************************************************************************)
EXTENDS Snake, SequenceTheorems, TLAPS

\* The screen and the snake as numbers.
LEMMA Sizes ==
    /\ SCREEN_WIDTH \in Nat /\ SCREEN_WIDTH > 0 /\ SCREEN_HEIGHT \in Nat /\ SCREEN_HEIGHT > 0
    /\ START_SNAKE_LEN \in Nat /\ START_SNAKE_LEN >= 1
    /\ START_SNAKE_LEN <= MaxLen /\ MaxLen \in Nat
    /\ BONUS_MIN_TIME \in Nat /\ BONUS_MIN_TIME > 0
    /\ BONUS_MAX_TIME \in Nat /\ BONUS_MIN_TIME <= BONUS_MAX_TIME
BY SnakeAssumption DEF SnakeAssumption

\* The middle of the screen has room for the snake on its left.
LEMMA Middle ==
    /\ SCREEN_WIDTH \div 2 \in 0 .. SCREEN_WIDTH - 1
    /\ SCREEN_HEIGHT \div 2 \in 0 .. SCREEN_HEIGHT - 1
    /\ START_SNAKE_LEN <= (SCREEN_WIDTH \div 2) + 1
BY Sizes, SnakeAssumption DEF SnakeAssumption

\* A number at most one step outside the range is wrapped to its other end.
LEMMA WrapNear ==
    ASSUME NEW m \in Nat, m > 0, NEW x \in -1 .. m
    PROVE  x % m = IF x = m THEN 0 ELSE IF x = -1 THEN m - 1 ELSE x
<1> DEFINE q == x \div m
           r == x % m
<1>1. q \in Int /\ r \in 0 .. m - 1 /\ x = m * q + r
  OBVIOUS
<1> HIDE DEF q, r
<1>2. ~ (q >= 2)
  <2> SUFFICES ASSUME q >= 2 PROVE FALSE
    OBVIOUS
  <2>1. m * (q - 2) >= 0
    BY <1>1
  <2>2. m * (q - 2) = m * q - 2 * m
    BY <1>1
  <2> QED
    BY <1>1, <2>1, <2>2
<1>3. ~ (q <= -2)
  <2> SUFFICES ASSUME q <= -2 PROVE FALSE
    OBVIOUS
  <2>1. m * (-2 - q) >= 0
    BY <1>1
  <2>2. m * (-2 - q) = -2 * m - m * q
    BY <1>1
  <2> QED
    BY <1>1, <2>1, <2>2
<1>4. CASE q = 0
  BY <1>1, <1>4 DEF r
<1>5. CASE q = 1
  BY <1>1, <1>5 DEF r
<1>6. CASE q = -1
  BY <1>1, <1>6 DEF r
<1> QED
  BY <1>1, <1>2, <1>3, <1>4, <1>5, <1>6

\* The four directions, and what keys and Opposite make of them.
Direction == {"up", "down", "left", "right"}

LEMMA Directions ==
    /\ DOMAIN Opposite = Direction
    /\ Opposite["up"] = "down" /\ Opposite["down"] = "up"
    /\ Opposite["left"] = "right" /\ Opposite["right"] = "left"
    /\ \A key \in DOMAIN Letter : Letter[key] \in Direction
    /\ \A key \in DOMAIN Arrow : Arrow[key] \in Direction
BY DEF Opposite, Letter, Arrow, Direction

\* A turn is never a turn back.
LEMMA InputIs ==
    ASSUME snake_direction \in Direction, NEW leave, Input(leave)
    PROVE  snake_direction' \in Direction /\ snake_direction' # Opposite[snake_direction]
<1>1. ASSUME NEW d \in Direction, Turn(d)
      PROVE  snake_direction' \in Direction /\ snake_direction' # Opposite[snake_direction]
  BY <1>1, Directions DEF Turn, Direction
<1>2. snake_direction # Opposite[snake_direction]
  BY Directions DEF Direction
<1> QED
  BY <1>1, <1>2, Directions DEF Input

\* What wrapping does to one step.
Left(x) == IF x = 0 THEN SCREEN_WIDTH - 1 ELSE x - 1
Right(x) == IF x = SCREEN_WIDTH - 1 THEN 0 ELSE x + 1
Up(y) == IF y = 0 THEN SCREEN_HEIGHT - 1 ELSE y - 1
Down(y) == IF y = SCREEN_HEIGHT - 1 THEN 0 ELSE y + 1

LEMMA WrapIs ==
    ASSUME NEW x \in 0 .. SCREEN_WIDTH - 1, NEW y \in 0 .. SCREEN_HEIGHT - 1
    PROVE  /\ Wrap(<<x, y>>) = <<x, y>>
           /\ Wrap(Ahead(<<x, y>>, "up")) = <<x, Up(y)>>
           /\ Wrap(Ahead(<<x, y>>, "down")) = <<x, Down(y)>>
           /\ Wrap(Ahead(<<x, y>>, "left")) = <<Left(x), y>>
           /\ Wrap(Ahead(<<x, y>>, "right")) = <<Right(x), y>>
<1>1. x % SCREEN_WIDTH = x /\ y % SCREEN_HEIGHT = y
  BY Sizes, WrapNear
<1>2. (x - 1) % SCREEN_WIDTH = Left(x) /\ (x + 1) % SCREEN_WIDTH = Right(x)
  <2>1. x - 1 \in -1 .. SCREEN_WIDTH /\ x + 1 \in -1 .. SCREEN_WIDTH
    BY Sizes
  <2> QED
    BY <2>1, Sizes, WrapNear DEF Left, Right
<1>3. (y - 1) % SCREEN_HEIGHT = Up(y) /\ (y + 1) % SCREEN_HEIGHT = Down(y)
  <2>1. y - 1 \in -1 .. SCREEN_HEIGHT /\ y + 1 \in -1 .. SCREEN_HEIGHT
    BY Sizes
  <2> QED
    BY <2>1, Sizes, WrapNear DEF Up, Down
<1>4. /\ Ahead(<<x, y>>, "up") = <<x, y - 1>> /\ Ahead(<<x, y>>, "down") = <<x, y + 1>>
      /\ Ahead(<<x, y>>, "left") = <<x - 1, y>> /\ Ahead(<<x, y>>, "right") = <<x + 1, y>>
  BY DEF Ahead
<1>5. \A a, b \in Int : Wrap(<<a, b>>) = <<a % SCREEN_WIDTH, b % SCREEN_HEIGHT>>
  BY DEF Wrap
<1>6. x \in Int /\ y \in Int
  BY Sizes
<1> QED
  BY <1>1, <1>2, <1>3, <1>4, <1>5, <1>6

\* A step on the screen goes to a neighbour, and the step back leads back.
LEMMA StepBack ==
    ASSUME NEW p \in Cell, NEW d \in Direction
    PROVE  /\ Wrap(Ahead(p, d)) \in Cell
           /\ Opposite[d] \in Direction
           /\ Wrap(Ahead(Wrap(Ahead(p, d)), Opposite[d])) = p
<1> PICK x \in 0 .. SCREEN_WIDTH - 1, y \in 0 .. SCREEN_HEIGHT - 1 : p = <<x, y>>
  BY DEF Cell
<1>1. /\ Left(x) \in 0 .. SCREEN_WIDTH - 1 /\ Right(x) \in 0 .. SCREEN_WIDTH - 1
      /\ Up(y) \in 0 .. SCREEN_HEIGHT - 1 /\ Down(y) \in 0 .. SCREEN_HEIGHT - 1
  BY Sizes DEF Left, Right, Up, Down
<1>2. /\ Left(Right(x)) = x /\ Right(Left(x)) = x /\ Up(Down(y)) = y /\ Down(Up(y)) = y
  BY Sizes DEF Left, Right, Up, Down
<1> DEFINE Goal == /\ Wrap(Ahead(p, d)) \in Cell
                   /\ Opposite[d] \in Direction
                   /\ Wrap(Ahead(Wrap(Ahead(p, d)), Opposite[d])) = p
<1>3. CASE d = "up"
  BY <1>1, <1>2, <1>3, WrapIs, Directions DEF Cell, Direction
<1>4. CASE d = "down"
  BY <1>1, <1>2, <1>4, WrapIs, Directions DEF Cell, Direction
<1>5. CASE d = "left"
  BY <1>1, <1>2, <1>5, WrapIs, Directions DEF Cell, Direction
<1>6. CASE d = "right"
  BY <1>1, <1>2, <1>6, WrapIs, Directions DEF Cell, Direction
<1> QED
  BY <1>3, <1>4, <1>5, <1>6 DEF Direction

\* Two steps without a turn back do not lead to where they began, but where a
\* screen of two cells closes on itself.
LEMMA NoReturn ==
    ASSUME SCREEN_WIDTH # 2, SCREEN_HEIGHT # 2,
           NEW p \in Cell, NEW d \in Direction, NEW e \in Direction, e # Opposite[d]
    PROVE  Ahead(Wrap(Ahead(p, d)), e) # p
<1> PICK x \in 0 .. SCREEN_WIDTH - 1, y \in 0 .. SCREEN_HEIGHT - 1 : p = <<x, y>>
  BY DEF Cell
<1>1. /\ Left(x) \in Int /\ Right(x) \in Int /\ Up(y) \in Int /\ Down(y) \in Int
      /\ Left(x) - 1 # x /\ Right(x) + 1 # x /\ Up(y) - 1 # y /\ Down(y) + 1 # y
  BY Sizes DEF Left, Right, Up, Down
<1>2. x \in Int /\ y \in Int /\ x - 1 # x /\ x + 1 # x /\ y - 1 # y /\ y + 1 # y
  BY Sizes
<1>3. \A a, b \in Int :
         /\ Ahead(<<a, b>>, "up") = <<a, b - 1>> /\ Ahead(<<a, b>>, "down") = <<a, b + 1>>
         /\ Ahead(<<a, b>>, "left") = <<a - 1, b>> /\ Ahead(<<a, b>>, "right") = <<a + 1, b>>
  BY DEF Ahead
<1>4. CASE d = "up"
  <2>1. e \in {"up", "left", "right"}
    BY <1>4, Directions DEF Direction
  <2>2. Wrap(Ahead(p, d)) = <<x, Up(y)>>
    BY <1>4, WrapIs
  <2>3. Ahead(<<x, Up(y)>>, e) # <<x, y>>
    BY <1>1, <1>2, <1>3, <2>1
  <2> QED
    BY <2>2, <2>3
<1>5. CASE d = "down"
  <2>1. e \in {"down", "left", "right"}
    BY <1>5, Directions DEF Direction
  <2>2. Wrap(Ahead(p, d)) = <<x, Down(y)>>
    BY <1>5, WrapIs
  <2>3. Ahead(<<x, Down(y)>>, e) # <<x, y>>
    BY <1>1, <1>2, <1>3, <2>1
  <2> QED
    BY <2>2, <2>3
<1>6. CASE d = "left"
  <2>1. e \in {"left", "up", "down"}
    BY <1>6, Directions DEF Direction
  <2>2. Wrap(Ahead(p, d)) = <<Left(x), y>>
    BY <1>6, WrapIs
  <2>3. Ahead(<<Left(x), y>>, e) # <<x, y>>
    BY <1>1, <1>2, <1>3, <2>1
  <2> QED
    BY <2>2, <2>3
<1>7. CASE d = "right"
  <2>1. e \in {"right", "up", "down"}
    BY <1>7, Directions DEF Direction
  <2>2. Wrap(Ahead(p, d)) = <<Right(x), y>>
    BY <1>7, WrapIs
  <2>3. Ahead(<<Right(x), y>>, e) # <<x, y>>
    BY <1>1, <1>2, <1>3, <2>1
  <2> QED
    BY <2>2, <2>3
<1> QED
  BY <1>4, <1>5, <1>6, <1>7 DEF Direction

---------------------------------------------------------------------------
(* The inductive invariant.                                                *)

\* A game that runs has a body.
BodyThere == pc # "wait" => Begun

\* The first game starts in the direction in which snake_init lays the body.
FirstGame == pc = "wait" /\ ~quit => snake_direction = "right"

\* The head came from the part behind it in the direction it still has.
NeckInv ==
    pc = "loop" /\ ~quit =>
        /\ snake_body[1] = snake_head
        /\ Len(snake_body) > 1 => snake_head = Wrap(Ahead(snake_body[2], snake_direction))

IInv == TypeOK /\ BodyThere /\ FirstGame /\ NeckInv /\ BoardSound

\* The type invariant in a running game.
LEMMA Running ==
    ASSUME IInv, pc = "loop"
    PROVE  /\ snake_body \in Seq(Cell) /\ snake_body # <<>>
           /\ Len(snake_body) \in Nat /\ Len(snake_body) >= 1
           /\ Len(snake_body) >= START_SNAKE_LEN /\ Len(snake_body) <= MaxLen
           /\ DOMAIN snake_body = 1 .. Len(snake_body)
           /\ \A n \in 1 .. Len(snake_body) : snake_body[n] \in Cell
           /\ snake_head \in Cell /\ food \in Cell /\ bonus \in Cell \cup {NoWhere}
           /\ snake_direction \in Direction
           /\ IF bonus = NoWhere THEN timer = -1 ELSE timer \in 1 .. BONUS_MAX_TIME
<1>1. Begun
  BY DEF IInv, BodyThere
<1>2. snake_body \in Seq(Cell) /\ snake_body # <<>>
  BY <1>1 DEF IInv, TypeOK, Placed, Begun
<1>3. /\ Len(snake_body) \in Nat /\ DOMAIN snake_body = 1 .. Len(snake_body)
      /\ \A n \in 1 .. Len(snake_body) : snake_body[n] \in Cell
  BY <1>2, LenProperties, ElementOfSeq
<1>4. Len(snake_body) >= START_SNAKE_LEN /\ Len(snake_body) <= MaxLen
  BY <1>1 DEF IInv, TypeOK
<1>5. /\ snake_head \in Cell /\ food \in Cell /\ bonus \in Cell \cup {NoWhere}
      /\ snake_direction \in Direction
      /\ IF bonus = NoWhere THEN timer = -1 ELSE timer \in 1 .. BONUS_MAX_TIME
  BY <1>1, Directions DEF IInv, TypeOK
<1> QED
  BY <1>2, <1>3, <1>4, <1>5, Sizes

LEMMA NoWhereIs == NoWhere \notin Cell
BY Sizes DEF NoWhere, Cell

\* The body after a step: the parts have moved up behind the new head.
LEMMA BodyAfter ==
    ASSUME snake_body \in Seq(Cell), snake_body # <<>>, NEW p \in Cell, snake_body' = Shift(p)
    PROVE  /\ snake_body' \in Seq(Cell) /\ snake_body' # <<>>
           /\ Len(snake_body') = Len(snake_body) + (IF p = food THEN 1 ELSE 0)
           /\ snake_body'[1] = p
           /\ \A n \in 2 .. Len(snake_body') : snake_body'[n] = snake_body[n - 1]
<1> DEFINE tail == IF p = food THEN snake_body ELSE Front(snake_body)
           k == Len(snake_body) - 1 + (IF p = food THEN 1 ELSE 0)
<1>1. Len(snake_body) \in Nat /\ Len(snake_body) >= 1
  BY EmptySeq, LenProperties
<1>2. \A n \in 1 .. Len(snake_body) : snake_body[n] \in Cell
  BY ElementOfSeq
<1>3. /\ tail \in Seq(Cell) /\ Len(tail) = k
      /\ \A n \in 1 .. k : tail[n] = snake_body[n]
  <2>1. CASE p = food
    BY <1>1, <2>1
  <2>2. CASE p # food
    <3> DEFINE m == Len(snake_body) - 1
    <3>1. m \in Int /\ m >= 0 /\ m - 1 + 1 = m
      BY <1>1
    <3>2. \A n \in 1 .. m : snake_body[n] \in Cell
      BY <1>1, <1>2
    <3> HIDE DEF m
    <3>3. /\ SubSeq(snake_body, 1, m) \in Seq(Cell) /\ Len(SubSeq(snake_body, 1, m)) = m
          /\ \A n \in 1 .. m : SubSeq(snake_body, 1, m)[n] = snake_body[n]
      BY <3>1, <3>2, SubSeqProperties
    <3>4. tail = SubSeq(snake_body, 1, m)
      BY <2>2 DEF Front, m
    <3>5. k = m
      BY <1>1, <2>2 DEF m
    <3> QED
      BY <3>3, <3>4, <3>5
  <2> QED
    BY <2>1, <2>2
<1>4. snake_body' = <<p>> \o tail
  BY DEF Shift
<1>5. k \in Nat /\ k + 1 = Len(snake_body) + (IF p = food THEN 1 ELSE 0)
  BY <1>1
<1> HIDE DEF tail, k
<1>6. <<p>> \in Seq(Cell) /\ Len(<<p>>) = 1 /\ <<p>>[1] = p
  OBVIOUS
<1>7. /\ snake_body' \in Seq(Cell) /\ Len(snake_body') = 1 + k
      /\ \A n \in 1 .. 1 + k : snake_body'[n] = IF n <= 1 THEN <<p>>[n] ELSE tail[n - 1]
  BY <1>3, <1>4, <1>6, ConcatProperties
<1>8. snake_body'[1] = p
  BY <1>5, <1>6, <1>7
<1>9. \A n \in 2 .. 1 + k : snake_body'[n] = snake_body[n - 1]
  <2> TAKE n \in 2 .. 1 + k
  <2>1. n \in 1 .. 1 + k /\ ~ (n <= 1) /\ n - 1 \in 1 .. k
    BY <1>5
  <2> QED
    BY <1>3, <1>7, <2>1
<1>10. snake_body' # <<>>
  BY <1>5, <1>7, EmptySeq
<1> QED
  BY <1>5, <1>7, <1>8, <1>9, <1>10

---------------------------------------------------------------------------
(* Steps of the game.                                                      *)

\* The head after a step, on a screen without borders and on this one.
LEMMA NextHead ==
    ASSUME IInv, pc = "loop", NEW leave, Input(leave)
    PROVE  /\ snake_direction' \in Direction
           /\ snake_direction' # Opposite[snake_direction]
           /\ Wrap(Ahead(snake_head, snake_direction')) \in Cell
BY Running, InputIs, StepBack

\* The snake has bitten itself: only its end is told.
LEMMA CollideInv ==
    ASSUME IInv, pc = "loop", NEW leave, Input(leave), NEW p, Collide(p)
    PROVE  IInv'
<1>1. PICK n \in 2 .. Len(snake_body) : snake_body[n] = p
  BY DEF Collide, Intersects
<1>2. p \in Cell
  <2>1. n \in 1 .. Len(snake_body)
    BY Running
  <2> QED
    BY <1>1, <2>1, Running
<1>3. /\ snake_head' = p /\ quit' = TRUE /\ pc' = "loop" /\ snake_body' = snake_body
      /\ food' = food /\ bonus' = bonus /\ timer' = timer
  BY DEF Collide, itemVars
<1>4. snake_direction' \in Direction
  BY NextHead
<1>5. TypeOK'
  BY <1>2, <1>3, <1>4, Directions DEF IInv, TypeOK, Placed, Begun
<1>6. BodyThere' /\ FirstGame' /\ NeckInv'
  BY <1>3 DEF IInv, BodyThere, FirstGame, NeckInv, Begun
<1>7. BoardSound'
  BY <1>3 DEF IInv, BoardSound, BodyConnected, ItemsClear, Begun, Adjacent
<1> QED
  BY <1>5, <1>6, <1>7 DEF IInv

\* Food and bonus after a step are on the screen, not at the same place, and
\* apart from where the snake was and its head is.
LEMMA ItemsAfter ==
    ASSUME IInv, pc = "loop", NEW p \in Cell, FoodAfter(p), BonusAfter(p)
    PROVE  /\ food' \in Cell /\ bonus' \in Cell \cup {NoWhere} /\ bonus' # food'
           /\ IF bonus' = NoWhere THEN timer' = -1 ELSE timer' \in 1 .. BONUS_MAX_TIME
           /\ IF p = food THEN food' \notin InSnake(p) ELSE food' = food
           /\ bonus' \notin InSnake(p)
<1>1. /\ food \in Cell /\ bonus \in Cell \cup {NoWhere} /\ bonus # food
      /\ IF bonus = NoWhere THEN timer = -1 ELSE timer \in 1 .. BONUS_MAX_TIME
  BY Running DEF IInv, BoardSound, ItemsClear, BodyThere
<1>2. /\ food' \in Cell /\ food' # bonus
      /\ IF p = food THEN food' \notin InSnake(p) ELSE food' = food
  BY <1>1 DEF FoodAfter
<1>3. \A n \in DOMAIN snake_body : snake_body[n] # bonus /\ snake_body[n] \in Cell
  <2>1. bonus \notin ToSet(snake_body)
    BY DEF IInv, BoardSound, ItemsClear, BodyThere
  <2> QED
    BY <2>1, Running DEF ToSet
<1>4. bonus # p => bonus \notin InSnake(p)
  BY <1>3 DEF InSnake
<1>5. NoWhere \notin InSnake(p)
  BY <1>3, NoWhereIs DEF InSnake
<1> DEFINE gone == bonus = NoWhere \/ p = bonus
<1>6. CASE ~gone /\ timer > 1 /\ timer' = timer - 1 /\ bonus' = bonus
  <2>1. timer' \in 1 .. BONUS_MAX_TIME
    BY <1>1, <1>6, Sizes
  <2> QED
    BY <1>1, <1>2, <1>4, <1>6, <2>1
<1>7. CASE timer' = -1 /\ bonus' = NoWhere
  BY <1>2, <1>5, <1>7, NoWhereIs
<1>8. CASE /\ timer' \in BONUS_MIN_TIME .. BONUS_MAX_TIME
           /\ bonus' \in Cell \ (InSnake(p) \cup {food'})
  <2>1. timer' \in 1 .. BONUS_MAX_TIME
    BY <1>8, Sizes
  <2> QED
    BY <1>2, <1>8, <2>1, NoWhereIs
<1> QED
  BY <1>6, <1>7, <1>8 DEF BonusAfter

\* The parts of the moved body.
LEMMA AdvanceFacts ==
    ASSUME IInv, pc = "loop", NEW leave \in BOOLEAN, Input(leave),
           NEW p, p = Wrap(Ahead(snake_head, snake_direction')),
           p = food => Len(snake_body) < MaxLen, Advance(p, leave)
    PROVE  /\ p \in Cell /\ snake_head' = p /\ quit' = leave /\ pc' = "loop"
           /\ snake_body' \in Seq(Cell) /\ snake_body' # <<>> /\ snake_body'[1] = p
           /\ Len(snake_body') = Len(snake_body) + (IF p = food THEN 1 ELSE 0)
           /\ \A n \in 2 .. Len(snake_body') :
                 n - 1 \in 1 .. Len(snake_body) /\ snake_body'[n] = snake_body[n - 1]
           /\ DOMAIN snake_body' = 1 .. Len(snake_body')
           /\ Len(snake_body') >= START_SNAKE_LEN /\ Len(snake_body') <= MaxLen
<1>1. p \in Cell
  BY NextHead
<1>2. snake_head' = p /\ quit' = leave /\ pc' = "loop" /\ snake_body' = Shift(p)
  BY DEF Advance
<1>3. /\ snake_body' \in Seq(Cell) /\ snake_body' # <<>> /\ snake_body'[1] = p
      /\ Len(snake_body') = Len(snake_body) + (IF p = food THEN 1 ELSE 0)
      /\ \A n \in 2 .. Len(snake_body') : snake_body'[n] = snake_body[n - 1]
  BY <1>1, <1>2, Running, BodyAfter
<1>4. \A n \in 2 .. Len(snake_body') : n - 1 \in 1 .. Len(snake_body)
  BY <1>3, Running
<1>5. Len(snake_body') >= START_SNAKE_LEN /\ Len(snake_body') <= MaxLen
  BY <1>3, Running, Sizes
<1>6. DOMAIN snake_body' = 1 .. Len(snake_body')
  BY <1>3, LenProperties
<1> QED
  BY <1>1, <1>2, <1>3, <1>4, <1>5, <1>6

\* One step of the snake.
LEMMA AdvanceInv ==
    ASSUME IInv, pc = "loop", ~quit, NEW leave \in BOOLEAN, Input(leave),
           NEW p, p = Wrap(Ahead(snake_head, snake_direction')),
           p = food => Len(snake_body) < MaxLen, Advance(p, leave)
    PROVE  IInv'
<1>1. /\ p \in Cell /\ snake_head' = p /\ quit' = leave /\ pc' = "loop"
      /\ snake_body' \in Seq(Cell) /\ snake_body' # <<>> /\ snake_body'[1] = p
      /\ Len(snake_body') = Len(snake_body) + (IF p = food THEN 1 ELSE 0)
      /\ \A n \in 2 .. Len(snake_body') :
            n - 1 \in 1 .. Len(snake_body) /\ snake_body'[n] = snake_body[n - 1]
      /\ DOMAIN snake_body' = 1 .. Len(snake_body')
      /\ Len(snake_body') >= START_SNAKE_LEN /\ Len(snake_body') <= MaxLen
  BY AdvanceFacts
<1>2. /\ food' \in Cell /\ bonus' \in Cell \cup {NoWhere} /\ bonus' # food'
      /\ IF bonus' = NoWhere THEN timer' = -1 ELSE timer' \in 1 .. BONUS_MAX_TIME
      /\ IF p = food THEN food' \notin InSnake(p) ELSE food' = food
      /\ bonus' \notin InSnake(p)
  BY <1>1, ItemsAfter DEF Advance
<1>3. snake_direction' \in Direction
  BY NextHead
<1>4. TypeOK'
  BY <1>1, <1>2, <1>3, Directions DEF TypeOK, Placed, Begun
<1>5. BodyThere' /\ FirstGame'
  BY <1>1 DEF BodyThere, FirstGame, Begun
<1>6. snake_body[1] = snake_head /\ Len(snake_body) \in Nat /\ Len(snake_body) >= 1
  BY Running DEF IInv, NeckInv
<1>7. NeckInv'
  <2>1. ASSUME Len(snake_body') > 1 PROVE snake_body'[2] = snake_head
    <3>1. 2 \in 2 .. Len(snake_body') /\ 2 - 1 = 1
      BY <1>1, <1>6, <2>1
    <3> QED
      BY <1>1, <1>6, <3>1
  <2> QED
    BY <1>1, <2>1 DEF NeckInv
<1>8. BodyConnected'
  <2>1. ASSUME NEW n \in 1 .. Len(snake_body') - 1
        PROVE  Adjacent(snake_body'[n], snake_body'[n + 1])
    <3>1. n + 1 \in 2 .. Len(snake_body') /\ (n + 1) - 1 = n /\ Len(snake_body') \in Nat
      BY <1>1, <1>6
    <3>2. snake_body'[n + 1] = snake_body[n]
      BY <1>1, <3>1
    <3>3. CASE n = 1
      <4>1. /\ Opposite[snake_direction'] \in Direction
            /\ snake_head = Wrap(Ahead(p, Opposite[snake_direction']))
        BY <1>3, StepBack, Running
      <4> QED
        BY <1>1, <1>6, <3>2, <3>3, <4>1, Directions DEF Adjacent
    <3>4. CASE n # 1
      <4>1. n \in 2 .. Len(snake_body') /\ n - 1 \in 1 .. Len(snake_body) - 1 /\ (n - 1) + 1 = n
        BY <1>1, <1>6, <3>1, <3>4
      <4>2. snake_body'[n] = snake_body[n - 1]
        BY <1>1, <4>1
      <4>3. Adjacent(snake_body[n - 1], snake_body[(n - 1) + 1])
        BY <4>1 DEF IInv, BoardSound, BodyConnected, BodyThere
      <4> QED
        BY <3>2, <4>1, <4>2, <4>3
    <3> QED
      BY <3>3, <3>4
  <2>2. snake_body'[1] = snake_head'
    BY <1>1
  <2> QED
    BY <2>1, <2>2 DEF BodyConnected, Adjacent
<1>9. ItemsClear'
  <2>1. \A n \in DOMAIN snake_body' :
           snake_body'[n] = p \/ \E m \in DOMAIN snake_body : snake_body'[n] = snake_body[m]
    <3> TAKE n \in DOMAIN snake_body'
    <3>1. n = 1 \/ n \in 2 .. Len(snake_body')
      BY <1>1, <1>6
    <3> QED
      BY <1>1, <3>1, Running
  <2>2. ToSet(snake_body') \subseteq InSnake(p)
    BY <2>1 DEF ToSet, InSnake
  <2>3. ASSUME Len(snake_body') > START_SNAKE_LEN PROVE food' \notin ToSet(snake_body')
    <3>1. CASE p = food
      BY <1>2, <2>2, <3>1
    <3>2. CASE p # food
      <4>1. Len(snake_body) > START_SNAKE_LEN
        BY <1>1, <1>6, <2>3, <3>2
      <4>2. food \notin ToSet(snake_body)
        BY <4>1 DEF IInv, BoardSound, ItemsClear, BodyThere
      <4>3. food \notin InSnake(p)
        BY <3>2, <4>2 DEF InSnake, ToSet
      <4> QED
        BY <1>2, <2>2, <3>2, <4>3
    <3> QED
      BY <3>1, <3>2
  <2> QED
    BY <1>2, <2>2, <2>3 DEF ItemsClear, ToSet
<1> QED
  BY <1>4, <1>5, <1>7, <1>8, <1>9 DEF IInv, BoardSound

\* A search without end: the parts stay on the screen, but for the new one.
LEMMA SearchInv ==
    ASSUME IInv, pc = "loop", NEW leave \in BOOLEAN, Input(leave),
           NEW p, p = Wrap(Ahead(snake_head, snake_direction')),
           p = food => Len(snake_body) < MaxLen,
           SearchFood(p, leave) \/ SearchBonus(p, leave)
    PROVE  IInv'
<1>1. p \in Cell /\ snake_direction' \in Direction
  BY NextHead
<1>2. /\ snake_head' = p /\ quit' = leave /\ pc' = "searching"
      /\ snake_body' = IF p = food THEN Append(snake_body, NoWhere) ELSE snake_body
      /\ food' \in Cell /\ bonus' \in Cell \cup {NoWhere}
      /\ IF bonus' = NoWhere THEN timer' = -1 ELSE timer' \in 1 .. BONUS_MAX_TIME
  BY Running DEF SearchFood, SearchBonus, FoodAfter, itemVars
<1> DEFINE T == Cell \cup {NoWhere}
<1>3. snake_body \in Seq(T)
  BY Running, SeqMonotonic
<1>4. NoWhere \in T
  OBVIOUS
<1> HIDE DEF T
<1>5. /\ Append(snake_body, NoWhere) \in Seq(T)
      /\ Len(Append(snake_body, NoWhere)) = Len(snake_body) + 1
  BY <1>3, <1>4, AppendProperties
<1>6. /\ snake_body' \in Seq(T)
      /\ Len(snake_body') >= START_SNAKE_LEN /\ Len(snake_body') <= MaxLen
  <2>1. CASE p = food
    BY <1>2, <1>5, <2>1, Running, Sizes
  <2>2. CASE p # food
    BY <1>2, <1>3, <2>2, Running, Sizes
  <2> QED
    BY <2>1, <2>2
<1>7. Begun'
  <2>1. Len(snake_body') # 0
    BY <1>6, Sizes
  <2> QED
    BY <1>6, <2>1, EmptySeq DEF Begun
<1>8. TypeOK'
  BY <1>1, <1>2, <1>6, <1>7, Directions DEF TypeOK, Placed, Begun, T
<1> QED
  BY <1>2, <1>7, <1>8 DEF IInv, BodyThere, FirstGame, NeckInv, BoardSound, Begun

\* A new game: the snake lies to the left of the middle of the screen.
LEMMA StartInv == ASSUME IInv, Start PROVE IInv'
<1> DEFINE x == SCREEN_WIDTH \div 2
           y == SCREEN_HEIGHT \div 2
           b == [n \in 1 .. START_SNAKE_LEN |-> <<x - (n - 1), y>>]
<1>1. /\ pc = "wait" /\ pc' = "loop" /\ snake_head' = <<x, y>> /\ snake_body' = b
      /\ food' \in Cell /\ bonus' = NoWhere /\ timer' = -1
      /\ quit' = quit /\ snake_direction' = snake_direction
  <2>1. <<x, y>>[1] = x /\ <<x, y>>[2] = y
    OBVIOUS
  <2> QED
    BY <2>1, Zenon DEF Start
<1>2. /\ x \in 0 .. SCREEN_WIDTH - 1 /\ y \in 0 .. SCREEN_HEIGHT - 1
      /\ START_SNAKE_LEN <= x + 1
  BY Middle
<1> HIDE DEF x, y
<1>3. \A n \in 1 .. START_SNAKE_LEN :
         b[n] = <<x - (n - 1), y>> /\ x - (n - 1) \in 0 .. SCREEN_WIDTH - 1
  BY <1>2, Sizes
<1>4. \A n \in 1 .. START_SNAKE_LEN : b[n] \in Cell
  BY <1>2, <1>3 DEF Cell
<1>5. DOMAIN b = 1 .. START_SNAKE_LEN
  OBVIOUS
<1>6. b \in [1 .. START_SNAKE_LEN -> Cell]
  BY <1>4
<1> HIDE DEF b
<1>7. /\ b \in Seq(Cell) /\ Len(b) = START_SNAKE_LEN /\ b # <<>>
  <2>1. b \in Seq(Cell)
    BY <1>6, Sizes, SeqDef
  <2>2. Len(b) \in Nat /\ DOMAIN b = 1 .. Len(b)
    BY <2>1, LenProperties
  <2>3. Len(b) = START_SNAKE_LEN
    BY <1>5, <2>2, Sizes
  <2> QED
    BY <2>1, <2>3, Sizes, EmptySeq
<1>8. b[1] = <<x, y>> /\ <<x, y>> \in Cell
  <2>1. 1 \in 1 .. START_SNAKE_LEN /\ x - (1 - 1) = x
    BY <1>2, Sizes
  <2> QED
    BY <1>3, <1>4, <2>1
<1>9. TypeOK'
  BY <1>1, <1>7, <1>8, Sizes DEF IInv, TypeOK, Placed, Begun
<1>10. BodyThere' /\ FirstGame'
  BY <1>1, <1>7 DEF BodyThere, FirstGame, Begun
<1>11. NeckInv'
  <2>1. ASSUME ~quit, START_SNAKE_LEN > 1
        PROVE  <<x, y>> = Wrap(Ahead(b[2], snake_direction))
    <3>1. snake_direction = "right"
      BY <1>1, <2>1 DEF IInv, FirstGame
    <3>2. 2 \in 1 .. START_SNAKE_LEN /\ x - (2 - 1) = x - 1
      BY <1>2, <2>1, Sizes
    <3>3. b[2] = <<x - 1, y>> /\ x - 1 \in 0 .. SCREEN_WIDTH - 1
      BY <1>3, <3>2
    <3>4. Right(x - 1) = x
      BY <1>2, <3>3, Sizes DEF Right
    <3> QED
      BY <1>2, <3>1, <3>3, <3>4, WrapIs
  <2> QED
    BY <1>1, <1>7, <1>8, <2>1 DEF NeckInv
<1>12. BodyConnected'
  <2>1. ASSUME NEW n \in 1 .. START_SNAKE_LEN - 1 PROVE Adjacent(b[n], b[n + 1])
    <3>1. /\ n \in 1 .. START_SNAKE_LEN /\ n + 1 \in 1 .. START_SNAKE_LEN
          /\ x - (n + 1 - 1) = x - (n - 1) - 1
      BY <1>2, Sizes
    <3> DEFINE a == x - (n - 1)
    <3>2. b[n] = <<a, y>> /\ a \in 0 .. SCREEN_WIDTH - 1
      BY <1>3, <3>1
    <3>3. b[n + 1] = <<a - 1, y>> /\ a - 1 \in 0 .. SCREEN_WIDTH - 1
      BY <1>3, <3>1
    <3> HIDE DEF a
    <3>4. Left(a) = a - 1
      BY <3>2, <3>3, Sizes DEF Left
    <3>5. b[n + 1] = Wrap(Ahead(b[n], "left"))
      BY <1>2, <3>2, <3>3, <3>4, WrapIs
    <3> QED
      BY <3>5, Directions DEF Adjacent, Direction
  <2> QED
    BY <1>1, <1>7, <1>8, <2>1 DEF BodyConnected, Adjacent
<1>13. ItemsClear'
  <2>1. NoWhere \notin ToSet(b)
    BY <1>4, <1>5, NoWhereIs DEF ToSet
  <2>2. ~ (Len(b) > START_SNAKE_LEN)
    BY <1>7, Sizes
  <2> QED
    BY <1>1, <2>1, <2>2, NoWhereIs DEF ItemsClear, ToSet
<1> QED
  BY <1>9, <1>10, <1>11, <1>12, <1>13 DEF IInv, BoardSound

\* The globals before the first game.
LEMMA InitInv == Init => IInv
<1> SUFFICES ASSUME Init PROVE IInv
  OBVIOUS
<1>1. <<0, 0>> \in Cell
  BY Sizes DEF Cell
<1>2. snake_body \in Seq(Cell) /\ Len(snake_body) = 0 /\ ~ Begun
  BY EmptySeq DEF Init, Begun
<1>3. TypeOK
  <2>1. Placed = Cell
    BY DEF Init, Placed
  <2>2. snake_body \in Seq(Placed) /\ Len(snake_body) <= MaxLen
    BY <1>2, <2>1, Sizes
  <2>3. snake_direction \in DOMAIN Opposite
    BY Directions DEF Init, Direction
  <2> QED
    BY <1>1, <1>2, <2>2, <2>3 DEF Init, TypeOK
<1> QED
  BY <1>2, <1>3 DEF Init, IInv, BodyThere, FirstGame, NeckInv, BoardSound

LEMMA StepInv == IInv /\ [Next]_vars => IInv'
<1> SUFFICES ASSUME IInv, [Next]_vars PROVE IInv'
  OBVIOUS
<1>1. CASE Start
  BY <1>1, StartInv
<1>2. ASSUME NEW leave \in BOOLEAN, TurnOfLoop(leave) PROVE IInv'
  <2> DEFINE ahead == Ahead(snake_head, snake_direction')
  <2>1. pc = "loop" /\ ~quit /\ Input(leave) /\ Update(ahead, leave)
    BY <1>2 DEF TurnOfLoop
  <2> HIDE DEF ahead
  <2>2. CASE Collide(ahead)
    BY <2>1, <2>2, CollideInv
  <2>3. CASE /\ Wrap(ahead) = food => Len(snake_body) < MaxLen
             /\ \/ Advance(Wrap(ahead), leave)
                \/ SearchFood(Wrap(ahead), leave) \/ SearchBonus(Wrap(ahead), leave)
    <3> DEFINE p == Wrap(ahead)
    <3>1. p = Wrap(Ahead(snake_head, snake_direction'))
      BY DEF ahead
    <3>2. p = food => Len(snake_body) < MaxLen
      BY <2>3
    <3>3. Advance(p, leave) \/ SearchFood(p, leave) \/ SearchBonus(p, leave)
      BY <2>3
    <3> HIDE DEF p
    <3> QED
      BY <2>1, <3>1, <3>2, <3>3, AdvanceInv, SearchInv
  <2> QED
    BY <2>1, <2>2, <2>3 DEF Update
<1>3. CASE Halt
  BY <1>3 DEF Halt, IInv, TypeOK, Placed, BodyThere, FirstGame, NeckInv, BoardSound,
              BodyConnected, ItemsClear, Begun, Adjacent, snakeVars, itemVars
<1>4. CASE End
  BY <1>4 DEF End, IInv, TypeOK, Placed, BodyThere, FirstGame, NeckInv, BoardSound,
              BodyConnected, ItemsClear, Begun, Adjacent, snakeVars, itemVars
<1>5. CASE UNCHANGED vars
  BY <1>5 DEF vars, IInv, TypeOK, Placed, BodyThere, FirstGame, NeckInv, BoardSound,
              BodyConnected, ItemsClear, Begun, Adjacent, snakeVars, itemVars
<1> QED
  BY <1>1, <1>2, <1>3, <1>4, <1>5 DEF Next, Game

LEMMA Invariance == Spec => []IInv
BY InitInv, StepInv, PTL DEF Spec

---------------------------------------------------------------------------
(* What holds throughout.                                                  *)

\* Snake, food and bonus are on the screen in every game, from the end of the
\* first on in the state that snake_init leaves.
THEOREM TypeCorrect == Spec => []TypeOK
<1>1. IInv => TypeOK
  BY DEF IInv
<1> QED
  BY <1>1, Invariance, PTL

\* snake_update keeps the snake in one piece and the items apart from it, over
\* the borders, through turns and while it grows.
THEOREM BoardAlwaysSound == Spec => []BoardSound
<1>1. IInv => BoardSound
  BY DEF IInv
<1> QED
  BY <1>1, Invariance, PTL

\* snake_input and snake_update together never send the head into the part
\* behind it, on any screen but one that is two cells wide or high.
THEOREM NeckAlwaysSafe ==
    ASSUME SCREEN_WIDTH # 2, SCREEN_HEIGHT # 2
    PROVE  Spec => NeckSafe
<1>1. IInv /\ [Next]_vars =>
        [ pc = "loop" /\ ~quit /\ Len(snake_body) > 1
            => Ahead(snake_head, snake_direction') # snake_body[2] ]_vars
  <2> SUFFICES ASSUME IInv, Next, pc = "loop", ~quit, Len(snake_body) > 1
               PROVE  Ahead(snake_head, snake_direction') # snake_body[2]
    OBVIOUS
  <2>1. snake_direction \in Direction /\ snake_direction # Opposite[snake_direction]
    BY Running, Directions DEF Direction
  <2>2. snake_direction' \in Direction /\ snake_direction' # Opposite[snake_direction]
    <3>1. ASSUME NEW leave, Input(leave)
          PROVE  snake_direction' \in Direction /\ snake_direction' # Opposite[snake_direction]
      BY <3>1, NextHead
    <3> QED
      BY <2>1, <3>1 DEF Next, Start, Game, TurnOfLoop, Halt, End
  <2>3. snake_head = Wrap(Ahead(snake_body[2], snake_direction)) /\ snake_body[2] \in Cell
    BY Running DEF IInv, NeckInv
  <2> QED
    BY <2>1, <2>2, <2>3, NoReturn
<1> QED
  BY <1>1, Invariance, PTL DEF Spec, NeckSafe
=============================================================================
