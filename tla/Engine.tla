-------------------------------- MODULE Engine --------------------------------
(***************************************************************************)
(* The script engine of shell/shell.c: the stack of open if, for, while    *)
(* and until blocks that handle_segment keeps between lines.  A step is a  *)
(* segment, a part of a line between semicolons; whether a condition is    *)
(* met, and how many items a for has, come from outside.                   *)
(*                                                                         *)
(* A loop does not keep its body, and nothing repeats it: "done" only sets *)
(* the variable or runs the condition, and the loop's next turn is what    *)
(* the user or the file gives after it, up to a "done" of its own.  A loop *)
(* given once, as the README of the system shows it (lines 74 and 781), is *)
(* so executed once and is still open after its "done".  "Turn" means this *)
(* turn of the engine's here, and no property says that a body is repeated.*)
(***************************************************************************)
EXTENDS Integers, Sequences, FiniteSets, SequencesExt

CONSTANTS
  MaxBlocks,     \* MAX_BLOCKS
  Items          \* how many items a for may have (bound)

ASSUME EngineAssumption == MaxBlocks \in Nat \ {0} /\ Items \subseteq Nat /\ Items # {}

VARIABLES
  blocks,        \* the first block_depth elements of blocks
  skipTarget,    \* skip_target
  skipAct,       \* skip_act, "break" for 0 and "continue" for 1
  frames,        \* the blocks that are open by the words of the script (not in the code)
  orderly,       \* the script has been what the engine is made for (not in the code)
  astray         \* what is skipped was left from a part that does not run (not in the code)

nvars == <<blocks, skipTarget, skipAct, frames, orderly, astray>>

Loops == {"for", "while", "until"}
Depth == Len(blocks)
Skipping == skipTarget >= 0

NewBlock(kind, active, items) ==
  [kind |-> kind, active |-> active, taken |-> kind = "if" /\ active,
   idx |-> 0, iter |-> IF kind = "for" THEN items ELSE 0]

BlockActive == \A i \in 1 .. Depth : blocks[i].active

Pop(s) == SubSeq(s, 1, Len(s) - 1)

-----------------------------------------------------------------------------
(***************************************************************************)
(* What a script means                                                     *)
(***************************************************************************)
(* A frame is an open block: live when its present part is to be executed, *)
(* done when some part was, skip when break or continue left its body,     *)
(* with the turns a for has left, the present one included.                *)
Frame(kind, live, left) ==
  [kind |-> kind, live |-> live, done |-> live, skip |-> "no", left |-> left]

Runs == \A i \in 1 .. Len(frames) : frames[i].live /\ frames[i].skip = "no"

TopIs(kinds) == frames # <<>> /\ Last(frames).kind \in kinds

SetTop(frame) == Append(Pop(frames), frame)

(* The meaning goes on to f, if the segment was one of those the engine is *)
(* made for; after another there is nothing to compare with.               *)
Means(f, fine) ==
  /\ orderly' = (orderly /\ fine)
  /\ frames' = IF orderly /\ fine THEN f ELSE <<>>

HasMore(f, met) ==
  CASE f.kind = "for"   -> f.left > 1
    [] f.kind = "while" -> met
    [] f.kind = "until" -> ~met

LaterTurn(f) == Frame(f.kind, TRUE, IF f.kind = "for" THEN f.left - 1 ELSE 0)

(* The end of a loop's turn: it is over, or its body is live again. *)
EndTurn(met) ==
  IF Last(frames).skip = "break" \/ ~HasMore(Last(frames), met) THEN Pop(frames)
  ELSE SetTop(LaterTurn(Last(frames)))

-----------------------------------------------------------------------------
(* loop_iterate on the innermost block; met is what run_status says of its *)
(* condition.  An if is not iterated.                                      *)
Goes(b, met) ==
  CASE b.kind = "for"   -> b.idx + 1 < b.iter
    [] b.kind = "while" -> met
    [] b.kind = "until" -> ~met
    [] b.kind = "if"    -> TRUE

(* Mutant: a loop that is over stays open. *)
LoopIterateOn(met) ==
  LET b == Last(blocks)
  IN  IF b.kind = "for" /\ Goes(b, met)
        THEN [blocks EXCEPT ![Depth].idx = @ + 1]
        ELSE [blocks EXCEPT ![Depth].active = Goes(b, met)]

LoopIterate(met) ==
  LET b == Last(blocks)
  IN  IF ~Goes(b, met) THEN Pop(blocks)
      ELSE CASE b.kind = "for" -> [blocks EXCEPT ![Depth].idx = @ + 1]
             [] b.kind = "if"  -> blocks
             [] b.kind \in {"while", "until"} -> [blocks EXCEPT ![Depth].active = TRUE]

(* A closing word while segments are skipped: both words count alike.  A   *)
(* break that the script does not mean ends a loop that should go on.      *)
SkipClose(word, met) ==
  /\ Skipping
  /\ IF Depth - 1 = skipTarget
     THEN /\ blocks' = IF skipAct = "break" THEN Pop(blocks) ELSE LoopIterate(met)
          /\ skipTarget' = -1
          /\ astray' = FALSE
     ELSE /\ blocks' = Pop(blocks)
          /\ UNCHANGED <<skipTarget, astray>>
  /\ IF word = "fi"
     THEN Means(Pop(frames), TopIs({"if"}))
     ELSE Means(EndTurn(met),
                TopIs(Loops) /\ (astray /\ skipAct = "break" => ~HasMore(Last(frames), met)))
  /\ UNCHANGED skipAct

(* Any other segment while segments are skipped.  The words of the inner   *)
(* blocks are not looked at, so that a block must not begin there; an else *)
(* or an elif may stand there, and its condition is not even executed.     *)
SkipOther(word) ==
  /\ Skipping
  /\ UNCHANGED <<blocks, skipTarget, skipAct, astray>>
  /\ Means(frames, word # "opens")

-----------------------------------------------------------------------------
Fi ==
  /\ ~Skipping /\ Depth > 0
  /\ blocks' = Pop(blocks)
  /\ UNCHANGED <<skipTarget, skipAct, astray>>
  /\ Means(Pop(frames), TopIs({"if"}))

Done(met) ==
  /\ ~Skipping /\ Depth > 0
  /\ blocks' = LoopIterate(met)
  /\ UNCHANGED <<skipTarget, skipAct, astray>>
  /\ Means(EndTurn(met), TopIs(Loops))

(* The innermost block, if it is an if, comes to another part. *)
NextPart(active, taken) ==
  /\ blocks' = IF Last(blocks).kind # "if" THEN blocks
               ELSE Append(Pop(blocks),
                           [Last(blocks) EXCEPT !.active = active, !.taken = taken])
  /\ UNCHANGED <<skipTarget, skipAct, astray>>

Else ==
  /\ ~Skipping /\ Depth > 0
  /\ NextPart(~Last(blocks).taken, Last(blocks).taken)
  /\ Means(SetTop([Last(frames) EXCEPT !.live = ~Last(frames).done]), TopIs({"if"}))

(* An elif is fine when no part was taken; after one that was, the code    *)
(* leaves the block as it is, and the commands of this part run as well.   *)
Elif(met) ==
  /\ ~Skipping /\ Depth > 0
  /\ LET b == Last(blocks) IN
     IF b.taken THEN NextPart(b.active, TRUE) ELSE NextPart(met, met)
  /\ Means(SetTop([Last(frames) EXCEPT !.live = met, !.done = met]),
           TopIs({"if"}) /\ (frames # <<>> => ~Last(frames).done))

(* Whether the commands of a new block are executed, if it is reached.     *)
BeginsActive(kind, met, items) ==
  CASE kind = "for"            -> items > 0
    [] kind = "until"          -> ~met
    [] kind \in {"if", "while"} -> met

(* if, for, while, until.  At "done" the condition of a loop that had no   *)
(* turn is executed again, and a loop where nothing runs goes on to its    *)
(* next turn, so that neither may begin; nor anything where the stack is   *)
(* full.                                                                   *)
Opens(kind, met, items) ==
  LET active == BeginsActive(kind, met, items)
  IN  /\ ~Skipping
      /\ blocks' = IF Depth < MaxBlocks THEN Append(blocks, NewBlock(kind, active, items)) ELSE blocks
      /\ UNCHANGED <<skipTarget, skipAct, astray>>
      /\ Means(Append(frames, Frame(kind, active, IF kind = "for" THEN items ELSE 0)),
               /\ Depth < MaxBlocks
               /\ kind \in Loops => Runs
               /\ kind \in {"while", "until"} => active)

(* break and continue go to the innermost loop.  handle_segment does not   *)
(* ask block_active() before: they are executed in a part of an if that    *)
(* does not run as well, where the script does not mean them.              *)
InnerLoop == {d \in 1 .. Depth : blocks[d].kind \in Loops /\ \A e \in d + 1 .. Depth : blocks[e].kind = "if"}

Leaves(act) ==
  /\ ~Skipping
  /\ \E d \in InnerLoop :
       /\ skipTarget' = d - 1
       /\ skipAct' = act
       /\ Means(IF Runs THEN [frames EXCEPT ![d].skip = act] ELSE frames, TRUE)
  /\ astray' = (orderly /\ ~Runs)
  /\ UNCHANGED blocks

EngineInit ==
  /\ blocks = <<>>
  /\ skipTarget = -1
  /\ skipAct = "break"
  /\ frames = <<>>
  /\ orderly = TRUE
  /\ astray = FALSE

EngineNext ==
  \/ Fi \/ Else
  \/ \E met \in BOOLEAN :
       \/ Done(met) \/ Elif(met)
       \/ \E word \in {"fi", "done"} : SkipClose(word, met)
       \/ \E kind \in {"if"} \cup Loops, items \in Items : Opens(kind, met, items)
  \/ \E act \in {"break", "continue"} : Leaves(act)
  \/ \E word \in {"opens", "other"} : SkipOther(word)

EngineSpec == EngineInit /\ [][EngineNext]_nvars

-----------------------------------------------------------------------------
EngineTypeOK ==
  /\ Depth <= MaxBlocks
  /\ \A i \in 1 .. Depth :
       /\ blocks[i].kind \in {"if"} \cup Loops
       /\ {blocks[i].active, blocks[i].taken} \subseteq BOOLEAN
       /\ blocks[i].idx \in Nat /\ blocks[i].iter \in Items \cup {0}
  /\ skipTarget \in -1 .. MaxBlocks - 1
  /\ skipAct \in {"break", "continue"}
  /\ {orderly, astray} \subseteq BOOLEAN

(* Whatever is typed, what is skipped ends at an open loop, and no block   *)
(* outside the stack is looked at; and an orderly script executes in every *)
(* turn that is given the commands that it should and no others, breaks    *)
(* and continues from inside ifs included.  A script is orderly while      *)
(* - each fi ends an if and each done a loop, and the stack has room;      *)
(* - no elif follows a part that was taken (2933), no loop begins where    *)
(*   commands do not run nor a while or until whose condition is not met,  *)
(*   and no block begins in what break or continue skips;                  *)
(* - no break from a part that does not run has ended a loop that should   *)
(*   have gone on (2953).                                                  *)
(* Such a break or continue is taken all the same: from there to the done  *)
(* of its loop nothing is executed, which the script does not mean, and    *)
(* from then on the engine is with the script again.                       *)
ScriptRuns ==
  /\ EngineTypeOK
  /\ Skipping => skipTarget < Depth /\ blocks[skipTarget + 1].kind \in Loops
  /\ orderly => /\ Depth = Len(frames)
                /\ IF astray THEN Skipping ELSE (~Skipping /\ BlockActive <=> Runs)

=============================================================================
