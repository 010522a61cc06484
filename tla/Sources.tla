-------------------------------- MODULE Sources --------------------------------
(***************************************************************************)
(* Files of lines that the shell executes: source, whose files may source  *)
(* others and themselves.  shell_script_file reads the whole file before   *)
(* its first line is executed, and calls shell_handle_line, which comes    *)
(* back to it for a segment that is a source again.  A line is a sequence  *)
(* of segments; one that is no source or copy is "other".                  *)
(***************************************************************************)
EXTENDS Words

CONSTANTS
  MaxDepth,      \* 8 scripts inside each other
  LineParts,     \* the segments of lines
  ScriptLines,   \* the lines of each file at first
  TypedLines     \* lines that are typed (bound)

ASSUME SourcesAssumption ==
  /\ MaxDepth \in Nat \ {0}
  /\ ScriptLines \in [DOMAIN ScriptLines -> Seq(Seq(LineParts))]
  /\ TypedLines \subseteq Seq(LineParts)
  /\ \A part \in LineParts : part.kind = "copy" => part.file \in DOMAIN ScriptLines

VARIABLES
  scripts,    \* the calls of shell_handle_line: what is left of each line,
              \* and of the file that it is a line of
  contents    \* the lines of the files

sourcevars == <<scripts, contents>>

Call(now, lines) == [now |-> now, lines |-> lines]
Top == Last(scripts)

(* shell_handle_line takes no more segments than there is room for. *)
Handled(line, lines) == Call(SubSeq(line, 1, Min({Len(line), MaxSegments})), lines)

SourcesInit ==
  /\ scripts = <<>>
  /\ contents = ScriptLines

LineTyped ==
  /\ scripts = <<>>
  /\ \E line \in TypedLines : scripts' = <<Handled(line, <<>>)>>
  /\ UNCHANGED contents

(* The segment at the head of the top line is over. *)
Passed == Append(Front(scripts), [Top EXCEPT !.now = Tail(@)])

AtSegment(kind) == scripts # <<>> /\ Top.now # <<>> /\ Head(Top.now).kind = kind

(* Mutant: a script in a script is not counted. *)
SourceEver ==
  /\ AtSegment("source")
  /\ LET file == Head(Top.now).file IN
     \/ scripts' = Passed
     \/ file \in DOMAIN contents /\ scripts' = Append(Passed, Call(<<>>, contents[file]))
  /\ UNCHANGED contents

(* Nothing is executed of a file that is not there, of one too many, nor   *)
(* of one that no memory was left for.                                     *)
Source ==
  /\ AtSegment("source")
  /\ LET file == Head(Top.now).file IN
     \/ scripts' = Passed
     \/ /\ Len(scripts) - 1 < MaxDepth /\ file \in DOMAIN contents
        /\ scripts' = Append(Passed, Call(<<>>, contents[file]))
  /\ UNCHANGED contents

(* cp: a file that is being executed may be written meanwhile. *)
CopyFile ==
  /\ AtSegment("copy")
  /\ scripts' = Passed
  /\ contents' = [contents EXCEPT ![Head(Top.now).to] = contents[Head(Top.now).file]]

OtherSegment ==
  /\ AtSegment("other")
  /\ scripts' = Passed
  /\ UNCHANGED contents

(* The next line of the file, or the return to the line that sourced it. *)
NextLine ==
  /\ scripts # <<>> /\ Top.now = <<>> /\ Top.lines # <<>>
  /\ scripts' = Append(Front(scripts), Handled(Head(Top.lines), Tail(Top.lines)))
  /\ UNCHANGED contents

Return ==
  /\ scripts # <<>> /\ Top.now = <<>> /\ Top.lines = <<>>
  /\ scripts' = Front(scripts)
  /\ UNCHANGED contents

SourcesNext == LineTyped \/ Source \/ CopyFile \/ OtherSegment \/ NextLine \/ Return

SourcesSpec == SourcesInit /\ [][SourcesNext]_sourcevars

-----------------------------------------------------------------------------
(* Less is left in t of the d-th call of s: the call is over, lines of its *)
(* file are, or segments of its line.                                      *)
Nearer(t, s, d) ==
  /\ d <= Len(s)
  /\ d <= Len(t) =>
       \/ Len(t[d].lines) < Len(s[d].lines)
       \/ Len(t[d].lines) = Len(s[d].lines) /\ Len(t[d].now) < Len(s[d].now)

(* Whatever files source each other, and are overwritten by what they      *)
(* execute, the shell comes back to its prompt: each step leaves less to   *)
(* do of some call and changes none of those that it was made from, and    *)
(* there are only so many calls in one another.                            *)
ScriptsEnd ==
  [][scripts # <<>> =>
       \E d \in 1 .. MaxDepth + 1 :
         Nearer(scripts', scripts, d) /\ \A e \in 1 .. d - 1 : scripts'[e] = scripts[e]
    ]_sourcevars
=============================================================================
