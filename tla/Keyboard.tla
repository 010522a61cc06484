------------------------------ MODULE Keyboard ------------------------------
(***************************************************************************)
(* The PS/2 keyboard driver of drivers/keyboard.c: an interrupt handler    *)
(* that tracks the modifiers and puts characters into a ring, and readers  *)
(* (keyboard_getchar, keyboard_read_nonblocking) that take them out with   *)
(* interrupts enabled.  The handler is atomic (interrupt gates clear IF);  *)
(* the readers are not.  Their steps are the memory accesses of the build: *)
(* count is loaded once, tested, decremented in a register and stored      *)
(* back, and only then is the character read and tail stored.              *)
(*                                                                         *)
(* A slot of the ring holds the position in typed of the character it was  *)
(* given, so that what is read can be told from what was typed.            *)
(***************************************************************************)
EXTENDS Integers, SequencesExt

CONSTANTS Size,      \* KB_BUFFER_SIZE
          Letters,   \* keys of letters
          Others,    \* keys of the other characters
          Modifiers, \* keys the handler tracks; the shift keys, "ctrl", ...
          MaxTyped   \* bound: characters put into the ring in a run

ASSUME KeyboardAssumption ==
  /\ Size \in Nat \ {0}
  /\ MaxTyped \in Nat
  /\ Modifiers \subseteq {"lshift", "rshift", "ctrl", "alt", "caps"}

VARIABLES buffer, head, tail, count,   \* the ring of kb_state
          shift, ctrl, alt, capslock,  \* its modifiers
          pc,      \* where the reader is
          loaded,  \* the register count was loaded into
          typed,   \* characters put into the ring, in order (history)
          got,     \* positions in typed of the characters readers returned (history)
          lapped,  \* a character was overwritten before it was read (history)
          down     \* modifier keys that are held down (environment)

ring == <<buffer, head, tail, count>>
mods == <<shift, ctrl, alt, capslock>>
reader == <<pc, loaded, got>>
kept == <<mods, typed, lapped, down>>        \* what no reader touches
vars == <<ring, mods, reader, typed, lapped, down>>

Keys == Letters \cup Others
ShiftKeys == {"lshift", "rshift"}

(* A character is its key and whether it is the shifted one, or a control. *)
Char(k) ==
  LET upper == IF k \in Letters THEN shift # capslock ELSE shift IN
  IF ctrl /\ k \in {"c", "l"} /\ ~upper THEN [key |-> k, form |-> "control"]
  ELSE [key |-> k, form |-> IF upper THEN "shifted" ELSE "plain"]

(***************************************************************************)
(* keyboard_init                                                           *)
(***************************************************************************)
Init ==
  /\ buffer = [i \in 0 .. Size - 1 |-> 0]
  /\ head = 0 /\ tail = 0 /\ count = 0
  /\ shift = FALSE /\ ctrl = FALSE /\ alt = FALSE /\ capslock = FALSE
  /\ pc = "idle"
  /\ loaded = 0
  /\ typed = <<>>
  /\ got = <<>>
  /\ lapped = FALSE
  /\ down = {}

(***************************************************************************)
(* keyboard_irq_handler.  An interrupt also ends the reader's hlt.         *)
(***************************************************************************)
(* Mutant: the reader sleeps through it. *)
InterruptUnseen == pc' = pc

Interrupt == pc' = IF pc = "halted" THEN "load" ELSE pc

Put(c) ==
  IF count < Size
  THEN /\ buffer' = [buffer EXCEPT ![head] = Len(typed) + 1]
       /\ head' = (head + 1) % Size
       /\ count' = count + 1
       /\ typed' = Append(typed, c)
       /\ lapped' = (lapped \/ Len(typed) - Len(got) >= Size)
       /\ UNCHANGED tail
  ELSE UNCHANGED <<ring, typed, lapped>>

PressKey(k) ==
  /\ Len(typed) < MaxTyped
  /\ Put(Char(k))
  /\ Interrupt
  /\ UNCHANGED <<mods, loaded, got, down>>

PressModifier(m) ==
  /\ down' = down \cup {m}
  /\ shift' = (shift \/ m \in ShiftKeys)
  /\ ctrl' = (ctrl \/ m = "ctrl")
  /\ alt' = (alt \/ m = "alt")
  /\ capslock' = IF m = "caps" THEN ~capslock ELSE capslock
  /\ Interrupt
  /\ UNCHANGED <<ring, loaded, typed, got, lapped>>

(* Mutant: the release of the right shift key is not looked for. *)
ReleaseLeftOnly(m) ==
  /\ m \in down
  /\ down' = down \ {m}
  /\ shift' = (shift /\ m # "lshift")
  /\ ctrl' = (ctrl /\ m # "ctrl")
  /\ alt' = (alt /\ m # "alt")
  /\ Interrupt
  /\ UNCHANGED <<ring, capslock, loaded, typed, got, lapped>>

ReleaseModifier(m) ==
  /\ m \in down
  /\ down' = down \ {m}
  /\ shift' = (shift /\ m \notin ShiftKeys)
  /\ ctrl' = (ctrl /\ m # "ctrl")
  /\ alt' = (alt /\ m # "alt")
  /\ Interrupt
  /\ UNCHANGED <<ring, capslock, loaded, typed, got, lapped>>

(* Any other interrupt: the timer, a hundred times a second. *)
Timer ==
  /\ Interrupt
  /\ UNCHANGED <<ring, mods, loaded, got, typed, lapped, down>>

(***************************************************************************)
(* The reader.  keyboard_getchar halts while count is 0, and looks again   *)
(* after an interrupt; keyboard_read_nonblocking gives up.                 *)
(***************************************************************************)
Getchar ==
  /\ pc = "idle"
  /\ pc' = "load"
  /\ UNCHANGED <<ring, loaded, got, kept>>

ReadNonblocking ==
  /\ pc = "idle"
  /\ loaded' = count
  /\ pc' = IF count = 0 THEN "idle" ELSE "store"
  /\ UNCHANGED <<ring, got, kept>>

(* Mutant: after the hlt count is taken to be more than 0. *)
LoadUnchecked ==
  /\ pc = "load"
  /\ loaded' = count
  /\ pc' = "store"
  /\ UNCHANGED <<ring, got, kept>>

Load ==
  /\ pc = "load"
  /\ loaded' = count
  /\ pc' = IF count = 0 THEN "hlt" ELSE "store"
  /\ UNCHANGED <<ring, got, kept>>

Hlt ==
  /\ pc = "hlt"
  /\ pc' = "halted"
  /\ UNCHANGED <<ring, loaded, got, kept>>

StoreCount ==
  /\ pc = "store"
  /\ count' = loaded - 1
  /\ loaded' = 0
  /\ pc' = "take"
  /\ UNCHANGED <<buffer, head, tail, got, kept>>

(* Mutant: the newest character is taken. *)
TakeNewest ==
  /\ pc = "take"
  /\ got' = Append(got, buffer[(head - 1) % Size])
  /\ tail' = (tail + 1) % Size
  /\ pc' = "idle"
  /\ UNCHANGED <<buffer, head, count, loaded, kept>>

Take ==
  /\ pc = "take"
  /\ got' = Append(got, buffer[tail])
  /\ tail' = (tail + 1) % Size
  /\ pc' = "idle"
  /\ UNCHANGED <<buffer, head, count, loaded, kept>>

Read == Load \/ Hlt \/ StoreCount \/ Take

Next ==
  \/ \E k \in Keys : PressKey(k)
  \/ \E m \in Modifiers : PressModifier(m) \/ ReleaseModifier(m)
  \/ Timer
  \/ Getchar
  \/ ReadNonblocking
  \/ Read

(* The timer never stops, and a read that was begun goes on.  The shell    *)
(* reads again and again.                                                  *)
Fairness == WF_vars(Timer) /\ WF_vars(Read) /\ WF_vars(Getchar)

Spec == Init /\ [][Next]_vars /\ Fairness
-----------------------------------------------------------------------------
TypeOK ==
  /\ buffer \in [0 .. Size - 1 -> 0 .. Len(typed)]
  /\ head \in 0 .. Size - 1
  /\ tail \in 0 .. Size - 1
  /\ count \in 0 .. Size
  /\ {shift, ctrl, alt, capslock, lapped} \subseteq BOOLEAN
  /\ pc \in {"idle", "load", "hlt", "halted", "store", "take"}
  /\ loaded \in 0 .. Size
  /\ typed \in Seq([key : Keys, form : {"plain", "shifted", "control"}])
  /\ got \in Seq(0 .. Len(typed))
  /\ down \subseteq Modifiers

(* The lost updates of count err on one side only: a reader never takes    *)
(* more out of the ring than the handler put in, so it never returns an    *)
(* old character again or one that was not typed.                          *)
NeverAhead ==
  /\ TypeOK
  /\ Len(got) <= Len(typed)
  /\ pc \in {"idle", "load", "hlt", "halted"} => count <= Len(typed) - Len(got)

(* Until the handler laps the reader, characters are returned in the order *)
(* they were typed in and none is skipped, wherever interrupts fall.       *)
InOrder == ~lapped => got = [i \in 1 .. Len(got) |-> i]

(* No modifier sticks: it is on only while one of its keys is down.        *)
NoStuckModifier ==
  /\ shift => down \cap ShiftKeys # {}
  /\ ctrl => "ctrl" \in down
  /\ alt => "alt" \in down

(* The check of count and the hlt after it are not one step, and a key can *)
(* come between; the reader still wakes, at the next interrupt.            *)
ReaderWakes == (pc = "halted" /\ count > 0) ~> (pc = "store")

(* "Buffer character for shell consumption": while the shell goes on       *)
(* calling keyboard_getchar it is given every character of the ring.       *)
EveryKeyRead == \A n \in 1 .. MaxTyped : (Len(typed) >= n) ~> (Len(got) >= n)
=============================================================================
