------------------------------ MODULE TicTacToe ------------------------------
(***************************************************************************)
(* Tic-tac-toe of shell/shell.c: the user has X and begins, the machine    *)
(* has O and looks at every way the game can go on.  A key is one step,    *)
(* with the machine's answer.                                              *)
(***************************************************************************)
EXTENDS Integers, FiniteSets, FiniteSetsExt

VARIABLES
  ttt,      \* cmd_tictactoe: "no", "yes", or "again" while it asks for a new game
  marks,    \* b
  outcome   \* what the last game ended with: "none", "win", "draw" or "cpu"

xvars == <<ttt, marks, outcome>>

Squares == 0 .. 8
NoMarks == [i \in Squares |-> " "]

WinLines == {{0, 1, 2}, {3, 4, 5}, {6, 7, 8}, {0, 3, 6}, {1, 4, 7}, {2, 5, 8}, {0, 4, 8}, {2, 4, 6}}

(* ttt_winner *)
HasLine(b, p) == \E l \in WinLines : \A i \in l : b[i] = p

FreeSquares(b) == {i \in Squares : b[i] = " "}

Other(p) == IF p = "O" THEN "X" ELSE "O"

(* ttt_minimax: the worth of the board for the machine when p is to move. *)
RECURSIVE Minimax(_, _)
Minimax(b, p) ==
  IF HasLine(b, "X") THEN -10
  ELSE IF HasLine(b, "O") THEN 10
  ELSE IF FreeSquares(b) = {} THEN 0
  ELSE LET worths == {Minimax([b EXCEPT ![i] = p], Other(p)) : i \in FreeSquares(b)}
       IN  IF p = "O" THEN Max(worths) ELSE Min(worths)

(* Mutant: the answers are weighed as if the machine were to move again. *)
WorthOwn(b, i) == Minimax([b EXCEPT ![i] = "O"], "O")

Worth(b, i) == Minimax([b EXCEPT ![i] = "O"], "X")

(* ttt_cpu_move: the first of the best squares. *)
CpuMove(b) ==
  LET worths == {<<Worth(b, i), i>> : i \in FreeSquares(b)}
      best   == Max({w[1] : w \in worths})
  IN  Min({w[2] : w \in {v \in worths : v[1] = best}})

-----------------------------------------------------------------------------
TttInit == ttt = "no" /\ marks = NoMarks /\ outcome = "none"

TttStart ==
  /\ ttt = "no"
  /\ ttt' = "yes"
  /\ marks' = NoMarks
  /\ outcome' = "none"

(* What a board means after p moved. *)
Verdict(b, p) ==
  IF HasLine(b, p) THEN IF p = "X" THEN "win" ELSE "cpu"
  ELSE IF FreeSquares(b) = {} THEN "draw" ELSE "none"

(* 1 to 9 *)
Mark(i) ==
  /\ ttt = "yes"
  /\ marks[i] = " "
  /\ LET mine  == [marks EXCEPT ![i] = "X"]
         whole == IF Verdict(mine, "X") # "none" THEN mine
                  ELSE [mine EXCEPT ![CpuMove(mine)] = "O"]
     IN  /\ marks' = whole
         /\ outcome' = IF Verdict(mine, "X") # "none" THEN Verdict(mine, "X")
                       ELSE Verdict(whole, "O")
  /\ ttt' = IF outcome' = "none" THEN "yes" ELSE "again"

(* "y" for another game *)
PlayAgain ==
  /\ ttt = "again"
  /\ ttt' = "yes"
  /\ marks' = NoMarks
  /\ outcome' = "none"

(* "q", or anything but "y" at the end of a game *)
TttQuit ==
  /\ ttt # "no"
  /\ ttt' = "no"
  /\ marks' = NoMarks
  /\ outcome' = "none"

TttKeys == PlayAgain \/ TttQuit \/ \E i \in Squares : Mark(i)

TttNext == TttStart \/ TttKeys

TttSpec == TttInit /\ [][TttNext]_xvars

-----------------------------------------------------------------------------
TttTypeOK ==
  /\ ttt \in {"no", "yes", "again"}
  /\ marks \in [Squares -> {" ", "X", "O"}]
  /\ outcome \in {"none", "win", "draw", "cpu"}

Count(p) == Cardinality({i \in Squares : marks[i] = p})

(* Whatever the user plays, the machine does not lose, and neither side    *)
(* moves out of turn: when the user is asked there are as many X as O, and *)
(* no line that the machine has already made.                              *)
NeverLoses ==
  /\ TttTypeOK
  /\ outcome # "win"
  /\ ttt = "yes" => Count("X") = Count("O") /\ ~HasLine(marks, "O")
=============================================================================
