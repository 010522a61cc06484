-------------------------------- MODULE Tiles --------------------------------
(***************************************************************************)
(* The game of 2048 of shell/shell.c.  A key slides the tiles of every     *)
(* line to one side, joins equal neighbours and, if the board changed,     *)
(* puts a 2 or a 4 on an empty cell.                                       *)
(***************************************************************************)
EXTENDS Integers, Sequences, FiniteSets, SequencesExt, FiniteSetsExt

CONSTANTS
  Rows, Columns,   \* 4 and 4
  MaxSpawns        \* tiles put on the board in a game (bound)

ASSUME TilesAssumption == {Rows, Columns} \subseteq Nat \ {0} /\ Rows * Columns > 2 /\ MaxSpawns \in Nat

VARIABLES
  sliding,   \* cmd_game_2048: "no", "yes", or "over" while it waits for a last key
  board,     \* g, 0 for an empty cell
  score,     \* score
  twos,      \* tiles put on the board in this game that were a 2
  fours      \* and that were a 4 (both are not in the code)

tvars == <<sliding, board, score, twos, fours>>

Cells == (1 .. Rows) \X (1 .. Columns)
EmptyBoard == [c \in Cells |-> 0]
Directions == {"left", "right", "up", "down"}

-----------------------------------------------------------------------------
(* t2048_slide_line: a tile is joined with the next one if they are equal, *)
(* and what was joined is not joined again.                                *)
RECURSIVE Joined(_)
Joined(t) ==
  IF Len(t) < 2 THEN t
  ELSE IF t[1] = t[2] THEN <<2 * t[1]>> \o Joined(Tail(Tail(t)))
  ELSE <<t[1]>> \o Joined(Tail(t))

RECURSIVE Gained(_)
Gained(t) ==
  IF Len(t) < 2 THEN 0
  ELSE IF t[1] = t[2] THEN 2 * t[1] + Gained(Tail(Tail(t)))
  ELSE Gained(Tail(t))

(* The cells of each line, from the side to which they slide. *)
LinesTo(dir) ==
  LET row(r) == [i \in 1 .. Columns |-> <<r, i>>]
      column(c) == [i \in 1 .. Rows |-> <<i, c>>]
  IN  CASE dir = "left"  -> {row(r) : r \in 1 .. Rows}
        [] dir = "right" -> {Reverse(row(r)) : r \in 1 .. Rows}
        [] dir = "up"    -> {column(c) : c \in 1 .. Columns}
        [] dir = "down"  -> {Reverse(column(c)) : c \in 1 .. Columns}

TilesOn(g, line) ==
  SelectSeq([i \in 1 .. Len(line) |-> g[line[i]]], LAMBDA tile : tile # 0)

Moved(g, dir) ==
  [c \in Cells |->
    LET line == CHOOSE l \in LinesTo(dir) : c \in ToSet(l)
        out  == Joined(TilesOn(g, line))
        i    == CHOOSE j \in 1 .. Len(line) : line[j] = c
    IN  IF i <= Len(out) THEN out[i] ELSE 0]

GainOf(g, dir) == MapThenSumSet(LAMBDA line : Gained(TilesOn(g, line)), LinesTo(dir))

(* t2048_over *)
Over(g) ==
  \A c \in Cells :
    /\ g[c] # 0
    /\ c[2] < Columns => g[c] # g[<<c[1], c[2] + 1>>]
    /\ c[1] < Rows => g[c] # g[<<c[1] + 1, c[2]>>]

EmptyCells(g) == {c \in Cells : g[c] = 0}

-----------------------------------------------------------------------------
TilesInit ==
  /\ sliding = "no"
  /\ board = EmptyBoard
  /\ score = 0
  /\ twos = 0 /\ fours = 0

(* A board with two tiles, at the start and for "r". *)
NewGame ==
  \E c, d \in Cells, t, u \in {2, 4} :
    /\ c[1] < d[1] \/ (c[1] = d[1] /\ c[2] < d[2])
    /\ board' = [EmptyBoard EXCEPT ![c] = t, ![d] = u]
    /\ score' = 0
    /\ fours' = Cardinality({i \in {1, 2} : <<t, u>>[i] = 4})
    /\ twos' = 2 - fours'

TilesStart ==
  /\ sliding = "no"
  /\ sliding' = "yes"
  /\ NewGame

Restart ==
  /\ sliding = "yes"
  /\ NewGame
  /\ UNCHANGED sliding

(* w, a, s or d: a slide that changes the board, the new tile and the test *)
(* for the end of the game.                                                *)
Slide(dir) ==
  LET g == Moved(board, dir)
  IN  /\ sliding = "yes"
      /\ twos + fours < MaxSpawns
      /\ g # board
      /\ score' = score + GainOf(board, dir)
      /\ \E c \in EmptyCells(g), t \in {2, 4} :
           /\ board' = [g EXCEPT ![c] = t]
           /\ IF t = 2 THEN twos' = twos + 1 /\ UNCHANGED fours
                       ELSE fours' = fours + 1 /\ UNCHANGED twos
      /\ sliding' = IF Over(board') THEN "over" ELSE "yes"

(* "q", or any key at the end of the game *)
TilesQuit ==
  /\ sliding # "no"
  /\ sliding' = "no"
  /\ board' = EmptyBoard
  /\ score' = 0 /\ twos' = 0 /\ fours' = 0

TilesKeys == Restart \/ TilesQuit \/ \E dir \in Directions : Slide(dir)

TilesNext == TilesStart \/ TilesKeys

TilesSpec == TilesInit /\ [][TilesNext]_tvars

-----------------------------------------------------------------------------
Powers == {2 ^ k : k \in 1 .. MaxSpawns + 1}
LogOf(tile) == CHOOSE k \in 1 .. MaxSpawns + 1 : tile = 2 ^ k
SumOver(op(_)) == MapThenSumSet(op, {c \in Cells : board[c] # 0})

TilesTypeOK ==
  /\ sliding \in {"no", "yes", "over"}
  /\ board \in [Cells -> {0} \cup Powers]
  /\ {score, twos, fours} \subseteq Nat

(* Slides lose no tile and count no join twice, whatever order tiles were  *)
(* joined in: the board adds up to what was put on it, and the score is    *)
(* what it takes to make these tiles, less the fours that came for free.   *)
(* And the game is called over exactly when no key would change the board, *)
(* which the code finds out by another way than by sliding.                *)
ScoreAccounts ==
  /\ TilesTypeOK
  /\ SumOver(LAMBDA c : board[c]) = 2 * twos + 4 * fours
  /\ score + 4 * fours = SumOver(LAMBDA c : (LogOf(board[c]) - 1) * board[c])
  /\ sliding # "no" =>
       (sliding = "over" <=> \A dir \in Directions : Moved(board, dir) = board)
=============================================================================
