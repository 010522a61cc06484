------------------------------- MODULE Hangman -------------------------------
(***************************************************************************)
(* Hangman of shell/shell.c.  A key is one step.                           *)
(***************************************************************************)
EXTENDS Integers, Sequences, FiniteSets, SequencesExt

CONSTANTS
  Alphabet,   \* a to z but q, which leaves the game
  Words,      \* words, as sequences of letters
  MaxWrong    \* 6

(* What is shown of a letter that was not guessed. *)
Hidden == "_"

ASSUME HangmanAssumption ==
  /\ Words # {} /\ Words \subseteq Seq(Alphabet) \ {<<>>} /\ Hidden \notin Alphabet
  /\ MaxWrong \in Nat \ {0}

VARIABLES
  hang,      \* cmd_hangman: "no", "yes", or how the last game ended, "won" or "hanged"
  word,      \* word
  shown,     \* shown
  guessed,   \* guessed, the first glen letters
  wrong      \* wrong

hvars == <<hang, word, shown, guessed, wrong>>

HangInit == hang = "no" /\ word = <<>> /\ shown = <<>> /\ guessed = {} /\ wrong = 0

NewWord ==
  /\ hang' = "yes"
  /\ \E w \in Words : word' = w /\ shown' = [i \in 1 .. Len(w) |-> Hidden]
  /\ guessed' = {}
  /\ wrong' = 0

HangStart == hang = "no" /\ NewWord

NewGuess(c) == c \notin guessed

Guess(c) ==
  /\ hang = "yes"
  /\ NewGuess(c)
  /\ guessed' = guessed \cup {c}
  /\ shown' = [i \in 1 .. Len(word) |-> IF word[i] = c THEN c ELSE shown[i]]
  /\ IF c \in ToSet(word)
     THEN /\ hang' = IF Hidden \in ToSet(shown') THEN "yes" ELSE "won"
          /\ UNCHANGED wrong
     ELSE /\ wrong' = wrong + 1
          /\ hang' = IF wrong' >= MaxWrong THEN "hanged" ELSE "yes"
  /\ UNCHANGED word

(* "y" for another game *)
HangAgain == hang \in {"won", "hanged"} /\ NewWord

(* "q", or anything but "y" at the end of a game *)
HangQuit ==
  /\ hang # "no"
  /\ hang' = "no" /\ word' = <<>> /\ shown' = <<>> /\ guessed' = {} /\ wrong' = 0

HangKeys == HangAgain \/ HangQuit \/ \E c \in Alphabet : Guess(c)

HangNext == HangStart \/ HangKeys

HangSpec == HangInit /\ [][HangNext]_hvars

-----------------------------------------------------------------------------
HangTypeOK ==
  /\ hang \in {"no", "yes", "won", "hanged"}
  /\ word \in Words \cup {<<>>}
  /\ shown \in Seq(Alphabet \cup {Hidden})
  /\ guessed \subseteq Alphabet
  /\ wrong \in 0 .. MaxWrong

(* Whatever is typed, repeated letters included, the user sees exactly the *)
(* letters that were guessed, pays once for each wrong one, and the game   *)
(* ends when, and only when, the word is whole or the tries are used up.   *)
HangmanFair ==
  /\ HangTypeOK
  /\ shown = [i \in 1 .. Len(word) |-> IF word[i] \in guessed THEN word[i] ELSE Hidden]
  /\ wrong = Cardinality(guessed \ ToSet(word))
  /\ hang = "won" <=> hang # "no" /\ ToSet(word) \subseteq guessed
  /\ hang = "hanged" <=> wrong = MaxWrong
=============================================================================
