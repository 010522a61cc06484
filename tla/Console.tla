------------------------------- MODULE Console -------------------------------
(***************************************************************************)
(* The screen of drivers/vga.c, the line that shell_run reads on it, and   *)
(* the capture of what a command prints, by which shell/shell.c makes      *)
(* pipes and redirections.  Each visible character that is printed has a   *)
(* number of its own, in the order of printing.                            *)
(***************************************************************************)
EXTENDS Integers, Sequences, FiniteSets, SequencesExt

CONSTANTS
  Height, Width,   \* VGA_HEIGHT and VGA_WIDTH
  TabStop,         \* 8
  LineTab,         \* blanks that Tab adds to a line, 4
  LineMax,         \* SHELL_MAX_CMD
  MaxSerial,       \* bound on the characters that are printed
  MaxCaptures      \* bound on the captures inside one another

ASSUME ConsoleAssumption ==
  /\ {Height, Width, TabStop, LineMax} \subseteq Nat \ {0}
  /\ {LineTab, MaxSerial, MaxCaptures} \subseteq Nat

VARIABLES
  screen,     \* VGA_MEMORY, cursor_row, cursor_col, the cursor that is shown, and
              \* whether lines were moved or erased by this step (not in the code)
  atPrompt,   \* shell_run reads a line
  line,       \* cmdline, so far
  captures,   \* the captures under way: where each began, the number of its first
              \* character, and whether nothing moved since (not in the code)
  serial,     \* the characters printed so far (not in the code)
  taken,      \* those that captures inside others took from the screen (not in the code)
  hidden,     \* a character was deleted at the left edge (not in the code)
  last        \* a capture that just ended: what it wrote to its file and what was
              \* printed meanwhile (not in the code)

convars == <<screen, atPrompt, line, captures, serial, taken, hidden, last>>

Spots == (0 .. Height - 1) \X (0 .. Width - 1)
NoChar == 0
NewLine == -1
Tabulator == -2
Backspace == -3
PromptSign == -4
Erased == [p \in Spots |-> NoChar]
NoText == <<>>
NoCapture == [rows |-> NoText, printed |-> {}, whole |-> TRUE]

-----------------------------------------------------------------------------
VgaClear(s) == [s EXCEPT !.cells = Erased, !.row = 0, !.col = 0, !.cursor = <<0, 0>>, !.moved = TRUE]

VgaScroll(s) ==
  [s EXCEPT !.cells = [p \in Spots |-> IF p[1] < Height - 1 THEN s.cells[<<p[1] + 1, p[2]>>] ELSE NoChar],
            !.row = Height - 1, !.moved = TRUE]

NextRow(s) == [s EXCEPT !.row = s.row + 1, !.col = 0]

(* What a character does by itself. *)
Placed(s, c) ==
  IF c = NewLine THEN NextRow(s)
  ELSE IF c = Tabulator THEN [s EXCEPT !.col = ((s.col + TabStop) \div TabStop) * TabStop]
  ELSE IF c = Backspace THEN
    IF s.col = 0 THEN s
    ELSE [s EXCEPT !.col = s.col - 1, !.cells[<<s.row, s.col - 1>>] = NoChar]
  ELSE [s EXCEPT !.col = s.col + 1, !.cells[<<s.row, s.col>>] = c]

Wrapped(s) == IF s.col >= Width THEN NextRow(s) ELSE s

Fitted(s) == IF s.row >= Height THEN VgaScroll(s) ELSE s

VgaPutchar(s, c) ==
  LET t == Fitted(Wrapped(Placed(s, c))) IN [t EXCEPT !.cursor = <<t.row, t.col>>]

VgaPuts(s, text) ==
  LET after[k \in 0 .. Len(text)] == IF k = 0 THEN s ELSE VgaPutchar(after[k - 1], text[k])
  IN  after[Len(text)]

Shows(s) ==
  /\ screen' = [s EXCEPT !.moved = FALSE]
  /\ captures' = [k \in DOMAIN captures |-> [captures[k] EXCEPT !.whole = @ /\ ~s.moved]]
  /\ last' = NoCapture

ConsoleInit ==
  /\ screen = [cells |-> Erased, row |-> 0, col |-> 0, cursor |-> <<0, 0>>, moved |-> FALSE]
  /\ atPrompt = FALSE /\ line = <<>> /\ captures = <<>>
  /\ serial = 0 /\ taken = {} /\ hidden = FALSE /\ last = NoCapture

-----------------------------------------------------------------------------
(* Reading a line, as shell_run does.  That a command reads one, too, is   *)
(* left out.                                                               *)
PrintPrompt ==
  /\ ~atPrompt /\ captures = <<>>
  /\ Shows(VgaPutchar(screen, PromptSign))
  /\ atPrompt' = TRUE /\ line' = <<>> /\ hidden' = FALSE
  /\ UNCHANGED <<serial, taken>>

TypeChar ==
  /\ atPrompt /\ Len(line) < LineMax - 1 /\ serial < MaxSerial
  /\ line' = Append(line, serial + 1)
  /\ serial' = serial + 1
  /\ Shows(VgaPutchar(screen, serial + 1))
  /\ UNCHANGED <<atPrompt, taken, hidden>>

TypeTab ==
  LET n == LineMax - 1 - Len(line)
      blanks == [k \in 1 .. (IF n < LineTab THEN n ELSE LineTab) |-> NoChar]
  IN  /\ atPrompt
      /\ line' = line \o blanks
      /\ Shows(VgaPuts(screen, blanks))
      /\ UNCHANGED <<atPrompt, serial, taken, hidden>>

Rubbed == <<Backspace, NoChar, Backspace>>

TypeBackspace ==
  /\ atPrompt /\ line # <<>>
  /\ line' = Front(line)
  /\ Shows(VgaPuts(screen, Rubbed))
  /\ hidden' = (hidden \/ screen.col = 0)
  /\ UNCHANGED <<atPrompt, serial, taken>>

TypeCtrlL ==
  /\ atPrompt
  /\ Shows(VgaPuts(VgaClear(screen), <<PromptSign>> \o line))
  /\ hidden' = FALSE
  /\ UNCHANGED <<atPrompt, line, serial, taken>>

TypeEnter ==
  /\ atPrompt
  /\ Shows(VgaPutchar(screen, NewLine))
  /\ atPrompt' = FALSE /\ line' = <<>> /\ hidden' = FALSE
  /\ UNCHANGED <<serial, taken>>

-----------------------------------------------------------------------------
(* What a command prints. *)
PrintChar ==
  /\ ~atPrompt /\ serial < MaxSerial
  /\ serial' = serial + 1
  /\ Shows(VgaPutchar(screen, serial + 1))
  /\ UNCHANGED <<atPrompt, line, taken, hidden>>

PrintControl(c) ==
  /\ ~atPrompt
  /\ Shows(VgaPutchar(screen, c))
  /\ UNCHANGED <<atPrompt, line, serial, taken, hidden>>

ClearScreen ==
  /\ ~atPrompt
  /\ Shows(VgaClear(screen))
  /\ UNCHANGED <<atPrompt, line, serial, taken, hidden>>

(* shell_execute comes to a command with "|" or ">" after it, perhaps in a *)
(* script that is captured itself.                                         *)
BeginCapture ==
  /\ ~atPrompt /\ Len(captures) < MaxCaptures
  /\ captures' = Append(captures, [row |-> screen.row, col |-> screen.col, first |-> serial + 1, whole |-> TRUE])
  /\ last' = NoCapture
  /\ UNCHANGED <<screen, atPrompt, line, serial, taken, hidden>>

(* Mutant: the last row is left out. *)
LastRowBefore(capture) == screen.row - 1

(* r1, when the command has cleared the screen that of its start. *)
LastRow(capture) == IF screen.row < capture.row THEN capture.row ELSE screen.row

FirstCol(capture, r) == IF r = capture.row THEN capture.col ELSE 0
LastCol(capture, r) == IF r = LastRow(capture) THEN screen.col ELSE Width - 1

(* The rows save_vga_region writes: the cell under the cursor is one more  *)
(* than the command printed, and each row goes on to the edge.             *)
SaveVgaRegion(capture) ==
  [k \in 1 .. LastRow(capture) - capture.row + 1 |->
    LET r == capture.row + k - 1
        c == FirstCol(capture, r)
        n == LastCol(capture, r) - c + 1
    IN  [j \in 1 .. n |-> screen.cells[<<r, c + j - 1>>]]]

InRegion(capture, p) ==
  /\ p[1] \in capture.row .. LastRow(capture)
  /\ p[2] \in FirstCol(capture, p[1]) .. LastCol(capture, p[1])

(* restore_screen puts only the cursor that is shown back to the start. *)
RestoreScreen(s, capture) ==
  [s EXCEPT !.cells = [p \in Spots |-> IF InRegion(capture, p) THEN NoChar ELSE s.cells[p]],
            !.cursor = <<capture.row, capture.col>>]

(* When the file cannot be opened a message says so, and the output is     *)
(* erased all the same.                                                    *)
EndCapture(opened) ==
  LET capture == Last(captures)
      said == IF opened THEN screen ELSE VgaPuts(screen, <<serial + 1, NewLine>>)
  IN  /\ captures # <<>>
      /\ opened \/ serial < MaxSerial
      /\ serial' = IF opened THEN serial ELSE serial + 1
      /\ screen' = [RestoreScreen(said, capture) EXCEPT !.moved = FALSE]
      /\ captures' = [k \in DOMAIN Front(captures) |-> [captures[k] EXCEPT !.whole = @ /\ ~said.moved]]
      /\ taken' = IF Len(captures) = 1 THEN {}
                  ELSE taken \cup ({said.cells[p] : p \in {q \in Spots : InRegion(capture, q)}} \ {NoChar})
      /\ last' = IF opened THEN [rows |-> SaveVgaRegion(capture),
                                 printed |-> (capture.first .. serial) \ taken,
                                 whole |-> capture.whole]
                           ELSE NoCapture
      /\ UNCHANGED <<atPrompt, line, hidden>>

ConsoleNext ==
  \/ PrintPrompt \/ TypeChar \/ TypeTab \/ TypeBackspace \/ TypeCtrlL \/ TypeEnter
  \/ PrintChar \/ ClearScreen \/ BeginCapture
  \/ \E c \in {NewLine, Tabulator} : PrintControl(c)
  \/ \E opened \in BOOLEAN : EndCapture(opened)

ConsoleSpec == ConsoleInit /\ [][ConsoleNext]_convars

-----------------------------------------------------------------------------
ConsoleTypeOK ==
  /\ DOMAIN screen.cells = Spots
  /\ <<screen.row, screen.col>> \in Spots /\ screen.cursor \in Spots
  /\ Len(line) < LineMax
  /\ serial \in 0 .. MaxSerial

Index(p) == p[1] * Width + p[2]
Here == <<screen.row, screen.col>>

(* While a line is read the screen shows it, up to the cursor, and nothing *)
(* behind it, however the screen was scrolled or captured from before.     *)
(* (A backspace in the leftmost column deletes what stays on the screen,   *)
(* until Ctrl+L.)                                                          *)
LineShown ==
  /\ ConsoleTypeOK
  /\ \A p \in Spots : Index(p) >= Index(Here) => screen.cells[p] = NoChar
  /\ atPrompt =>
       /\ screen.cursor = Here
       /\ ~hidden =>
            \A k \in 1 .. Len(line) : \A p \in Spots :
              Index(p) = Index(Here) - Len(line) + k - 1 => screen.cells[p] = line[k]

(* The file that stands for what a command printed has nothing else in it, *)
(* and in the order of printing; and all of it, if the screen was neither  *)
(* scrolled nor cleared meanwhile.                                         *)
CaptureExact ==
  LET rows == last.rows
      text == (UNION {ToSet(rows[k]) : k \in DOMAIN rows}) \ {NoChar}
  IN  /\ text \subseteq last.printed
      /\ \A k, m \in DOMAIN rows : \A i \in DOMAIN rows[k], j \in DOMAIN rows[m] :
           /\ k < m \/ (k = m /\ i < j)
           /\ {rows[k][i], rows[m][j]} \subseteq text
           => rows[k][i] < rows[m][j]
      /\ last.whole => text = last.printed

(* What is shown, on the screen and in captures, is what was printed.      *)
PrintedShown == LineShown /\ CaptureExact
=============================================================================
