-------------------------------- MODULE Snake --------------------------------
(***************************************************************************)
(* The snake of shell/shell.c.  Its cells are kept in two static arrays,   *)
(* head first, of which the first len are the snake.  After a meal len is  *)
(* raised at once: the last cell is then one of an older snake, or of the  *)
(* corner, until the next tick moves the others down.  That tick treats it *)
(* as a cell of the snake: it ends the game if the head comes upon it, and *)
(* else wipes it from the screen.                                          *)
(***************************************************************************)
EXTENDS Integers, FiniteSets

CONSTANTS
  SnakeW, SnakeH,   \* SNAKE_W and SNAKE_H
  StartLen,         \* 4
  MaxLen,           \* the size of sx and sy
  MaxScore          \* bound on the score

ASSUME SnakeAssumption ==
  /\ {SnakeW, SnakeH, StartLen, MaxLen} \subseteq Nat \ {0} /\ MaxScore \in Nat
  /\ StartLen < MaxLen /\ StartLen <= SnakeW \div 2 + 1

VARIABLES
  crawling,    \* cmd_snake is in its loop
  dir,         \* dir
  len,         \* len
  trail,       \* sx and sy; the head is also in headx and heady
  food,        \* fx and fy
  snakeScore,  \* score
  fresh,       \* the last cell is not of this snake (not in the code)
  drawn,       \* cells of the screen that show an O
  gaps,        \* cells of the snake that should not show one (not in the code)
  over         \* what the last game ended at (not in the code)

svars == <<crawling, dir, len, trail, food, snakeScore, fresh, drawn, gaps, over>>

Field == (0 .. SnakeW - 1) \X (0 .. SnakeH - 1)
Up == 0
Right == 1
Down == 2
Left == 3
Opposite(d) == (d + 2) % 4

Ahead(cell, d) ==
  CASE d = Up    -> <<cell[1], cell[2] - 1>>
    [] d = Right -> <<cell[1] + 1, cell[2]>>
    [] d = Down  -> <<cell[1], cell[2] + 1>>
    [] d = Left  -> <<cell[1] - 1, cell[2]>>

(* The snake moves: all cells but the last go one place down. *)
Shifted(next) == [i \in DOMAIN trail |-> IF i = 0 THEN next ELSE IF i < len THEN trail[i - 1] ELSE trail[i]]

(* The places of the arrays that are the snake. *)
BodyPlaces == 0 .. (IF fresh THEN len - 2 ELSE len - 1)
Body == {trail[i] : i \in BodyPlaces}

SnakeInit ==
  /\ crawling = FALSE
  /\ dir = Right
  /\ len = StartLen
  /\ trail = [i \in 0 .. MaxLen - 1 |-> <<0, 0>>]
  /\ food = <<0, 0>>
  /\ snakeScore = 0
  /\ fresh = FALSE
  /\ drawn = {} /\ gaps = {}
  /\ over = "no"

(* The snake begins unseen: a cell is drawn when the head comes to it. *)
SnakeStart ==
  /\ ~crawling
  /\ crawling' = TRUE
  /\ dir' = Right
  /\ len' = StartLen
  /\ trail' = [i \in DOMAIN trail |->
                IF i < StartLen THEN <<SnakeW \div 2 - i, SnakeH \div 2>> ELSE trail[i]]
  /\ food' \in Field
  /\ snakeScore' = 0
  /\ fresh' = FALSE
  /\ drawn' = {} /\ gaps' = Body'
  /\ over' = "no"

(* w, a, s or d: not straight back, but two keys may come before a tick. *)
Turn(d) ==
  /\ crawling
  /\ dir # Opposite(d)
  /\ dir' = d
  /\ UNCHANGED <<crawling, len, trail, food, snakeScore, fresh, drawn, gaps, over>>

(* Mutant: cells of the arrays behind the snake's end are in the way too.  *)
HitsAll(cell) == cell \notin Field \/ \E i \in DOMAIN trail : trail[i] = cell

(* What the loop finds in the way: a wall, or a cell of the arrays. *)
Hits(cell) == cell \notin Field \/ \E i \in 0 .. len - 1 : trail[i] = cell

(* The end of a game.  Only the arrays stay. *)
SnakeEnd(why) ==
  /\ crawling
  /\ crawling' = FALSE
  /\ dir' = Right
  /\ len' = StartLen
  /\ food' = <<0, 0>>
  /\ snakeScore' = 0
  /\ fresh' = FALSE
  /\ drawn' = {} /\ gaps' = {}
  /\ over' = why
  /\ UNCHANGED trail

(* "q" *)
SnakeQuits == SnakeEnd("quit")

(* What the rules, not the arrays, have at the cell. *)
Obstacle(cell) ==
  IF cell \notin Field THEN "wall"
  ELSE IF cell \in Body THEN "itself"
  ELSE IF fresh /\ cell = trail[len - 1] THEN "stale"
  ELSE "nothing"

(* A tick that finds something in the way. *)
SnakeDies ==
  LET next == Ahead(trail[0], dir)
  IN  Hits(next) /\ SnakeEnd(Obstacle(next))

(* A tick.  What is wiped is the last place of the arrays, and a new meal  *)
(* is shown wherever it falls, on the snake as well.                       *)
Crawl ==
  LET next == Ahead(trail[0], dir)
      eats == next = food
  IN  /\ crawling
      /\ ~Hits(next)
      /\ snakeScore + 10 <= MaxScore
      /\ trail' = Shifted(next)
      /\ len' = IF eats /\ len < MaxLen THEN len + 1 ELSE len
      /\ fresh' = (len' > len)
      /\ snakeScore' = IF eats THEN snakeScore + 10 ELSE snakeScore
      /\ IF eats THEN food' \in Field ELSE UNCHANGED food
      /\ LET meal  == IF eats THEN {food'} ELSE {}
             wiped == IF fresh THEN {trail[len - 1]} ELSE {}
         IN  /\ drawn' = ((drawn \ {trail[len - 1]}) \cup {next}) \ meal
             /\ gaps' = (((gaps \cup wiped) \ {next}) \cup meal) \cap Body'
      /\ UNCHANGED <<crawling, dir, over>>

SnakeKeys == Crawl \/ SnakeQuits \/ SnakeDies \/ \E d \in {Up, Right, Down, Left} : Turn(d)

SnakeNext == SnakeStart \/ SnakeKeys

SnakeSpec == SnakeInit /\ [][SnakeNext]_svars

-----------------------------------------------------------------------------
SnakeTypeOK ==
  /\ {crawling, fresh} \subseteq BOOLEAN
  /\ dir \in {Up, Right, Down, Left}
  /\ len \in StartLen .. MaxLen
  /\ trail \in [0 .. MaxLen - 1 -> Field]
  /\ food \in Field
  /\ snakeScore \in 0 .. MaxScore
  /\ drawn \subseteq Field /\ gaps \subseteq Field
  /\ over \in {"no", "quit", "wall", "itself", "stale", "nothing"}

Lesser(a, b) == IF a < b THEN a ELSE b

(* Through turns, meals and runs of the game over the same arrays, a snake *)
(* is in one piece and on the field, nowhere twice, and as long as its     *)
(* meals make it.  The screen shows all of it and nothing that it has      *)
(* left, but for the cells that it began on, those where a meal appeared   *)
(* and those where the tick after a meal wiped a cell of an older snake    *)
(* (3483).  A game ends at "q", at a wall, at the snake itself or, in the  *)
(* tick after a meal, at the cell of an older snake (3476, 3491), which    *)
(* the player does not see; and at nothing else.                           *)
SnakeWhole ==
  /\ SnakeTypeOK
  /\ over # "nothing"
  /\ crawling =>
       /\ \A i, j \in BodyPlaces : trail[i] = trail[j] => i = j
       /\ \A i \in BodyPlaces \ {0} :
            \E d \in {Up, Right, Down, Left} : trail[i - 1] = Ahead(trail[i], d)
       /\ len = Lesser(StartLen + snakeScore \div 10, MaxLen)
       /\ drawn = Body \ gaps
=============================================================================
