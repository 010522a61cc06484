-------------------------------- MODULE Shell --------------------------------
(***************************************************************************)
(* The shell of shell/shell.c and the programs that it runs in its own     *)
(* loop.  There is one keyboard: shell_run hands it to a program that a    *)
(* line names, when the blocks of the script engine are active, and has it *)
(* back when the program returns.  A line that starts no program goes to   *)
(* the engine.                                                             *)
(***************************************************************************)
EXTENDS Console, Editor, Engine, Environment, AtJobs, Tiles, TicTacToe, Snake, Hangman, Windows,
        Sources, Commands

VARIABLES
  program,   \* what reads the keyboard
  used       \* the one kind of line that is typed in a behaviour (bound)

cvars == <<program, used>>
dvars == <<sourcevars, entered>>
allvars == <<cvars, dvars, evars, nvars, nvenv, jvars, convars, tvars, xvars, svars, hvars, wvars>>

Prompt == "prompt"

ShellInit ==
  /\ program = Prompt
  /\ used \in {"screen", "lines", "env", "at", "edit", "2048", "tictactoe", "snake", "hangman", "gui", "source"} \cup DOMAIN Pieces
  /\ EditorInit /\ EngineInit /\ EnvInit /\ AtInit /\ ConsoleInit /\ TilesInit /\ TttInit /\ SnakeInit /\ HangInit /\ WindowsInit
  /\ SourcesInit /\ CommandsInit
  /\ used = "edit" \/ file = CHOOSE f \in Files : TRUE

(* The line that is typed, and what it prints. *)
Typing ==
  /\ program = Prompt /\ used = "screen"
  /\ ConsoleNext
  /\ UNCHANGED <<cvars, dvars, evars, nvars, nvenv, jvars, tvars, xvars, svars, hvars, wvars>>

(* A segment of a line, or of a file that is run, goes to the engine. *)
Segment ==
  /\ program = Prompt /\ used = "lines"
  /\ EngineNext
  /\ UNCHANGED <<cvars, dvars, evars, nvenv, jvars, convars, tvars, xvars, svars, hvars, wvars>>

(* A line that sets a name of the environment. *)
Setting ==
  /\ program = Prompt /\ used = "env"
  /\ ~Skipping /\ BlockActive
  /\ EnvNext
  /\ UNCHANGED <<cvars, dvars, evars, nvars, jvars, convars, tvars, xvars, svars, hvars, wvars>>

(* The turns of shell_run, with at_run_due before each line. *)
AtTurn ==
  /\ program = Prompt /\ used = "at"
  /\ ~Skipping /\ BlockActive
  /\ AtNext
  /\ UNCHANGED <<cvars, dvars, evars, nvars, nvenv, convars, tvars, xvars, svars, hvars, wvars>>

(* Files are executed. *)
Sourcing ==
  /\ program = Prompt /\ used = "source"
  /\ SourcesNext
  /\ UNCHANGED <<cvars, entered, evars, nvars, nvenv, jvars, convars, tvars, xvars, svars, hvars, wvars>>

(* What commands and their parsers are given is put together. *)
Entering ==
  /\ program = Prompt /\ used \in DOMAIN Pieces
  /\ Enter(used)
  /\ UNCHANGED <<cvars, sourcevars, evars, nvars, nvenv, jvars, convars, tvars, xvars, svars, hvars, wvars>>

(* shell_handle_line comes to a command that keeps the keyboard. *)
Starts(p) ==
  /\ program = Prompt /\ used = p
  /\ ~Skipping /\ BlockActive
  /\ program' = p
  /\ UNCHANGED <<used, dvars, nvars, nvenv, jvars, convars>>

(* The program returns when what it keeps of itself says that it ended. *)
Stays(on) ==
  /\ program' = IF on THEN program ELSE Prompt
  /\ UNCHANGED <<used, dvars, nvars, nvenv, jvars, convars>>

CmdEdit ==
  /\ \/ Starts("edit") /\ EditOpen
     \/ program = "edit" /\ EditCommands /\ Stays(editing')
  /\ UNCHANGED <<tvars, xvars, svars, hvars, wvars>>

CmdGame2048 ==
  /\ \/ Starts("2048") /\ TilesStart
     \/ program = "2048" /\ TilesKeys /\ Stays(sliding' # "no")
  /\ UNCHANGED <<evars, xvars, svars, hvars, wvars>>

CmdTictactoe ==
  /\ \/ Starts("tictactoe") /\ TttStart
     \/ program = "tictactoe" /\ TttKeys /\ Stays(ttt' # "no")
  /\ UNCHANGED <<evars, tvars, svars, hvars, wvars>>

CmdSnake ==
  /\ \/ Starts("snake") /\ SnakeStart
     \/ program = "snake" /\ SnakeKeys /\ Stays(crawling')
  /\ UNCHANGED <<evars, tvars, xvars, hvars, wvars>>

CmdHangman ==
  /\ \/ Starts("hangman") /\ HangStart
     \/ program = "hangman" /\ HangKeys /\ Stays(hang' # "no")
  /\ UNCHANGED <<evars, tvars, xvars, svars, wvars>>

CmdGui ==
  /\ \/ Starts("gui") /\ GuiInit
     \/ program = "gui" /\ WindowsCalls /\ Stays(running')
  /\ UNCHANGED <<evars, tvars, xvars, svars, hvars>>

ShellNext ==
  \/ Typing \/ Segment \/ Setting \/ AtTurn \/ Sourcing \/ Entering
  \/ CmdEdit \/ CmdGame2048 \/ CmdTictactoe \/ CmdSnake \/ CmdHangman \/ CmdGui

ShellSpec == ShellInit /\ [][ShellNext]_allvars

-----------------------------------------------------------------------------
(* What a command makes of any text is what the command is for: lines that *)
(* are sorted are the same lines, grep prints those with the pattern, what *)
(* is parted, turned round, cut into columns or pasted, enciphered or      *)
(* encoded comes back, a change shows in every sum and in cmp, and an      *)
(* expression has the value that precedence gives it, in which errors are  *)
(* not lost.  Where the code falls short the clauses say so: diff and      *)
(* paste go only up to a pair of empty lines, uniq leaves out a first line *)
(* that is empty, cut a last one without newline, and tr reads behind its  *)
(* second set.                                                             *)
CommandsExact ==
  CASE used = "file"   -> FiltersSound(entered)
    [] used = "cipher" -> CiphersSound(entered) /\ (entered = <<>> => RomanSound(400))
    [] used = "sci"    -> SciSound(entered) /\ (entered = <<>> => FixedSound(16))
    [] used = "values" -> StatsSound(entered)
    [] OTHER           -> TRUE

(* The loops of the library do on every memory what the C library's are    *)
(* for, overlaps and strings without room included, a number is read back  *)
(* from what is printed of it, and long division is exact for all signed   *)
(* numbers but the one quotient that does not fit.                         *)
LibraryExact ==
  used = "memory" =>
    /\ MovesSound(entered) /\ StringsAgree(entered)
    /\ entered = <<>> => DivisionSound /\ PrintingSound({-IntWord \div 2, IntWord \div 2 - 1} \cup -40 .. 40)

(* Marks in quotes are words for all of the scanners: a line is cut into   *)
(* segments, commands and words, and sent to a pipe or to a file, where    *)
(* its marks say so, up to the words and segments that there is room for.  *)
QuotesRespected == used = "line" => LineMeant(entered)

(* 2048, tic-tac-toe and hangman end when their rules say and in no state  *)
(* that the rules do not allow, and scores agree with the play.  A snake's *)
(* game ends only at "q", a wall, the snake, or the one cell of an older   *)
(* snake that the tick after a meal takes for its end.                     *)
GamesFair == ScoreAccounts /\ NeverLoses /\ SnakeWhole /\ HangmanFair
=============================================================================
