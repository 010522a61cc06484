-------------------------------- MODULE Editor --------------------------------
(***************************************************************************)
(* The line editor of shell/shell.c (cmd_edit): one buffer of characters   *)
(* that ends at the first NUL, and the table of where its lines begin,     *)
(* which editor_rebuild makes again from the buffer after every change,    *)
(* so that it is an operator here.  Characters beyond the NUL keep what    *)
(* deletions left there.  A command is one step.  Opening a file and "s"   *)
(* write behind the buffer when it is too small for them: what comes after *)
(* is not the editor's to say, and the model does no more with it then     *)
(* than to leave and to open it.                                           *)
(***************************************************************************)
EXTENDS Integers, Sequences, FiniteSets, SequencesExt

CONSTANTS
  EditMaxSize,     \* EDIT_MAX_SIZE
  EditMaxLines,    \* EDIT_MAX_LINES
  Letters,         \* what a line is made of
  Files,           \* what the file may hold before, sequences of characters
  Olds,            \* what "s" is asked to replace
  Texts,           \* what is typed for a line
  MaxEdits         \* bound on the changes of a sitting

NUL == "NUL"
NL == "NL"
Chars == Letters \cup {NUL, NL}

ASSUME EditorAssumption ==
  /\ EditMaxSize \in Nat \ {0, 1} /\ EditMaxLines \in Nat \ {0, 1}
  /\ NUL \notin Letters /\ NL \notin Letters
  /\ Texts \subseteq Seq(Letters)
  /\ Olds \subseteq Seq(Letters) \ {<<>>}
  /\ Files \subseteq Seq(Letters \cup {NL})
  /\ MaxEdits \in Nat

VARIABLES
  editing,   \* cmd_edit has the keyboard
  buf,       \* buf, a character for each position
  dirty,     \* dirty
  file,      \* the contents of the file
  text,      \* the lines as the user made them (not in the code)
  spoilt,    \* the text has gained what nobody typed (not in the code)
  overrun,   \* what first wrote behind the buffer (not in the code)
  edits      \* changes so far (bound)

evars == <<editing, buf, dirty, file, text, spoilt, overrun, edits>>

Places == 0 .. EditMaxSize - 1
Blank == [i \in Places |-> NUL]

-----------------------------------------------------------------------------
(***************************************************************************)
(* Lines of the buffer (editor_rebuild)                                    *)
(***************************************************************************)
Lowest(S) == CHOOSE i \in S : \A j \in S : i <= j

(* The first place from i on that does not hold a letter. *)
StopFrom(b, i) == Lowest({j \in Places : j >= i /\ b[j] \in {NUL, NL}})

(* Where the line goes to that is at i: behind its newline, if it has one. *)
LineEnd(b, i) ==
  LET stop == StopFrom(b, i) IN IF b[stop] = NL THEN stop + 1 ELSE stop

(* offs, which has no room for the lines after the first EDIT_MAX_LINES-1. *)
Offs(b) ==
  LET at[k \in 1 .. EditMaxLines] == IF k = 1 THEN 0 ELSE LineEnd(b, at[k - 1])
      n == Lowest({k \in 1 .. EditMaxLines - 1 : k = EditMaxLines - 1 \/ b[at[k + 1]] = NUL})
  IN  [k \in 1 .. n |-> at[k]]

LineAt(b, k) ==
  LET from == Offs(b)[k]
  IN  [j \in 1 .. StopFrom(b, from) - from |-> b[from + j - 1]]

Lines(b) == [k \in 1 .. Len(Offs(b)) |-> LineAt(b, k)]

(* What follows line k. *)
Beyond(b, k) == LineEnd(b, Offs(b)[k])

Total(b) == Beyond(b, Len(Offs(b)))

-----------------------------------------------------------------------------
(***************************************************************************)
(* Changes of the buffer                                                   *)
(***************************************************************************)
Room(b, t) ==
  Len(Offs(b)) < EditMaxLines - 1 /\ Total(b) + Len(t) + 1 < EditMaxSize

(* Mutant: one character too few is moved out of the way. *)
InsertedShort(b, at, t) ==
  LET end == Total(b)
      pos == IF at >= Len(Offs(b)) THEN end ELSE Offs(b)[at + 1]
      n   == Len(t)
  IN  [i \in Places |->
        IF i < pos \/ i >= end + n THEN b[i]
        ELSE IF i < pos + n THEN t[i - pos + 1]
        ELSE IF i = pos + n THEN NL ELSE b[i - n - 1]]

(* editor_insert where there is room: the text and a newline before line   *)
(* at+1, or at the end.  The NUL behind the text is not moved.             *)
Inserted(b, at, t) ==
  LET end == Total(b)
      pos == IF at >= Len(Offs(b)) THEN end ELSE Offs(b)[at + 1]
      n   == Len(t)
  IN  [i \in Places |->
        IF i < pos \/ i > end + n THEN b[i]
        ELSE IF i < pos + n THEN t[i - pos + 1]
        ELSE IF i = pos + n THEN NL ELSE b[i - n - 1]]

(* editor_delete of line k: what follows is moved up and ends in a NUL. *)
Deleted(b, k) ==
  LET start == Offs(b)[k]
      end   == Beyond(b, k)
      total == Total(b)
  IN  IF Len(Offs(b)) = 1
      THEN [b EXCEPT ![0] = NL, ![1] = NUL]
      ELSE [i \in Places |->
             IF i < start \/ i > total - (end - start) THEN b[i]
             ELSE IF i = total - (end - start) THEN NUL ELSE b[i + (end - start)]]

Kept(b) == [i \in 1 .. Total(b) |-> b[i - 1]]

(* The "s" command: where the old text is found in memory, and where it is *)
(* replaced: not where it begins inside of what is replaced already.       *)
Occurs(work, i, old) ==
  /\ i + Len(old) - 1 <= Len(work)
  /\ \A j \in 1 .. Len(old) : work[i + j - 1] = old[j]

AreReplaced(places, work, n, old) ==
  \A i \in 1 .. n :
    i \in places <=> Occurs(work, i, old) /\ \A j \in places : j < i => j + Len(old) <= i

Replacements(work, n, old) == CHOOSE places \in SUBSET (1 .. n) : AreReplaced(places, work, n, old)

(* All of the old text becomes the new one.  The copy that is compared     *)
(* goes on, behind the characters, with what the heap holds there.         *)
Replaced(chars, heap, old, new) ==
  LET places == Replacements(chars \o heap, Len(chars), old)
  IN  FlattenSeq(
        [i \in 1 .. Len(chars) |->
          IF i \in places THEN new
          ELSE IF \E j \in places : j < i /\ i < j + Len(old) THEN <<>> ELSE <<chars[i]>>])

(* The buffer up to its end with the characters, and a NUL, from its start. *)
Filled(b, chars) ==
  [i \in Places |->
    IF i < Len(chars) THEN chars[i + 1] ELSE IF i = Len(chars) THEN NUL ELSE b[i]]

(* What cmd_edit makes of the file, of which it reads no more than the     *)
(* buffer holds with a NUL: a last newline, and one if it is empty.        *)
Loaded(f) ==
  LET read == SubSeq(f, 1, IF Len(f) < EditMaxSize THEN Len(f) ELSE EditMaxSize - 1)
  IN  IF read = <<>> \/ Last(read) # NL THEN Append(read, NL) ELSE read

-----------------------------------------------------------------------------
EditorInit ==
  /\ editing = FALSE
  /\ buf = Blank
  /\ dirty = FALSE
  /\ file \in Files
  /\ text = <<>>
  /\ spoilt = FALSE
  /\ overrun = "no"
  /\ edits = 0

(* The last character that is written is at place top. *)
Writes(top, command) ==
  overrun' = IF overrun = "no" /\ top >= EditMaxSize THEN command ELSE overrun

(* cmd_edit up to its first prompt; the file may have been missing.  The   *)
(* newline that a file lacks which fills the buffer has no room for its    *)
(* NUL.                                                                    *)
EditOpen ==
  /\ ~editing
  /\ editing' = TRUE
  /\ buf' = Filled(Blank, Loaded(file))
  /\ Writes(Len(Loaded(file)), "open")
  /\ dirty' = FALSE
  /\ text' = IF overrun' = "no" THEN Lines(Filled(Blank, Loaded(file))) ELSE <<>>
  /\ spoilt' = FALSE
  /\ UNCHANGED <<file, edits>>

Change(b, t, s) ==
  /\ editing
  /\ edits < MaxEdits
  /\ edits' = edits + 1
  /\ buf' = b
  /\ dirty' = TRUE
  /\ text' = t
  /\ spoilt' = (spoilt \/ s)
  /\ UNCHANGED <<editing, file>>

(* The end of the text after an insertion is where deletions left a NUL,   *)
(* or characters.                                                          *)
Spoils(b, t) == b[Total(b) + Len(t) + 1] # NUL

Insert(at, t) ==
  /\ Room(buf, t)
  /\ Change(Inserted(buf, at, t),
            IF at >= Len(text) THEN Append(text, t) ELSE InsertAt(text, at + 1, t),
            Spoils(buf, t))
  /\ Writes(Total(buf) + Len(t), "insert")

(* "a": each line of the append mode goes to the end. *)
EditAppend(t) == Insert(Len(Offs(buf)), t)

(* "i<N>": before line N, the last one if there is no such line. *)
EditInsert(ln, t) ==
  LET n == Len(Offs(buf)) IN Insert((IF ln > n THEN n ELSE ln) - 1, t)

(* Where a deletion puts its NUL. *)
DeletedTop(b, k) ==
  IF Len(Offs(b)) = 1 THEN 1 ELSE Total(b) - (Beyond(b, k) - Offs(b)[k])

(* What is left of the lines when one is deleted: never none. *)
Without(k) == IF Len(text) = 1 THEN << <<>> >> ELSE RemoveAt(text, k)

(* "d<N>" *)
EditDelete(ln) ==
  /\ ln <= Len(Offs(buf))
  /\ Change(Deleted(buf, ln), IF ln <= Len(text) THEN Without(ln) ELSE text, FALSE)
  /\ Writes(DeletedTop(buf, ln), "delete")

(* "r<N>": a deletion, then an insertion whose failure goes unseen.  The   *)
(* line that is always left stays behind the text that replaces the only   *)
(* one.                                                                    *)
EditReplace(ln, t) ==
  LET n   == Len(Offs(buf))
      cut == Deleted(buf, ln)
  IN  /\ ln <= n
      /\ IF Room(cut, t)
         THEN /\ Change(Inserted(cut, ln - 1, t),
                        IF ln <= Len(text) THEN ReplaceAt(text, ln, t) ELSE text,
                        n = 1 \/ Spoils(cut, t))
              /\ Writes(Total(cut) + Len(t), "insert")
         ELSE /\ Change(cut, IF ln <= Len(text) THEN Without(ln) ELSE text, FALSE)
              /\ Writes(DeletedTop(buf, ln), "delete")

(* "s<old,new>", which does not ask whether the result has room. *)
EditSubstitute(old, new) ==
  \E heap \in [1 .. Len(old) - 1 -> Chars] :
    LET out == Replaced(Kept(buf), heap, old, new)
    IN  /\ Change(Filled(buf, out),
                  [k \in 1 .. Len(text) |-> Replaced(text[k], <<>>, old, new)],
                  FALSE)
        /\ Writes(Len(out), "substitute")

(* cmd_edit returns, and its memory is released. *)
Leave == editing' = FALSE /\ buf' = Blank /\ text' = <<>>

(* "w" and "wq": the lines of the table, or, if the file cannot be opened, *)
(* the end of the editor without a word about changes.                     *)
EditWrite(quit, opens) ==
  /\ editing
  /\ IF opens
     THEN /\ file' = Kept(buf)
          /\ dirty' = FALSE
     ELSE UNCHANGED <<file, dirty>>
  /\ IF quit \/ ~opens THEN Leave ELSE UNCHANGED <<editing, buf, text>>
  /\ UNCHANGED <<spoilt, overrun, edits>>

(* "q", whether there are changes or not *)
EditQuit ==
  /\ editing
  /\ Leave
  /\ UNCHANGED <<dirty, file, spoilt, overrun, edits>>

EditCommands ==
  \/ /\ overrun = "no"
     /\ \/ \E t \in Texts :
             \/ EditAppend(t)
             \/ \E ln \in 1 .. EditMaxLines : EditInsert(ln, t) \/ EditReplace(ln, t)
        \/ \E ln \in 1 .. EditMaxLines : EditDelete(ln)
        \/ \E old \in Olds, new \in Texts : EditSubstitute(old, new)
        \/ \E quit, opens \in BOOLEAN : EditWrite(quit, opens)
  \/ EditQuit

EditorNext == EditOpen \/ EditCommands

EditorSpec == EditorInit /\ [][EditorNext]_evars

-----------------------------------------------------------------------------
EditorTypeOK ==
  /\ {editing, dirty, spoilt} \subseteq BOOLEAN
  /\ buf \in [Places -> Chars]
  /\ file \in Seq(Letters \cup {NL})
  /\ text \in Seq(Seq(Letters))
  /\ overrun \in {"no", "open", "insert", "delete", "substitute"}
  /\ edits \in 0 .. MaxEdits

(* Until something is written behind the buffer, which a file that fills   *)
(* it and a substitution do when there is no room and no other command     *)
(* ever does, and as long as no insertion ended where a deletion had left  *)
(* characters and no only line was replaced, the lines on the screen are   *)
(* those the user made, whatever was inserted, replaced, deleted and       *)
(* substituted, at either end and when the buffer or the table of lines is *)
(* full.                                                                   *)
EditsKept ==
  /\ EditorTypeOK
  /\ overrun \notin {"insert", "delete"}
  /\ editing /\ ~spoilt /\ overrun = "no" => Lines(buf) = text

(* "r<N> replace": a line is replaced by the text that was typed, and the  *)
(* other lines stay (the help line of the editor).                         *)
LinesAsTyped == editing /\ overrun = "no" => Lines(buf) = text
=============================================================================
