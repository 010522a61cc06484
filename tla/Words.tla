--------------------------------- MODULE Words ---------------------------------
(***************************************************************************)
(* How shell/shell.c takes a line apart: at semicolons into segments, a    *)
(* segment at "|" or ">" into a command and where its output goes, and a   *)
(* command into words.  Three scanners count quotes in three loops of      *)
(* their own (apostrophes, too), and parse_args knows another rule: only a *)
(* double quote where a word begins is a quote.                            *)
(***************************************************************************)
EXTENDS Integers, FiniteSets, SequencesExt

CONSTANTS
  MaxSegments,   \* segs of shell_handle_line, 8
  MaxArgs        \* SHELL_MAX_ARGS

ASSUME WordsAssumption == {MaxSegments, MaxArgs} \subseteq Nat \ {0}

Quote == "\""
Quotes == {Quote, "'"}
Blank1 == " "

-----------------------------------------------------------------------------
(* Mutant: after the first quotation of a line there is no other. *)
InQuotesFirst(s, k) == Cardinality({j \in 1 .. k - 1 : s[j] \in Quotes}) = 1

(* An odd number of quotes stands before the k-th character. *)
InQuotes(s, k) == Cardinality({j \in 1 .. k - 1 : s[j] \in Quotes}) % 2 = 1

(* split_semicolons: what comes after the last segment is dropped. *)
Segments(s) ==
  LET cuts == SetToSortSeq({k \in DOMAIN s : s[k] = ";" /\ ~InQuotes(s, k)}, <)
      ends == <<0>> \o cuts \o <<Len(s) + 1>>
      all == [n \in 1 .. Len(ends) - 1 |-> SubSeq(s, ends[n] + 1, ends[n + 1] - 1)]
  IN SubSeq(all, 1, Min({Len(all), MaxSegments}))

(* find_unquoted and find_redirect: the first place, 0 for none.  An arrow *)
(* and a comparison are no redirections.                                   *)
FirstOf(places) == IF places = {} THEN 0 ELSE Min(places)

FindUnquoted(s, c) == FirstOf({k \in DOMAIN s : s[k] = c /\ ~InQuotes(s, k)})

FindRedirect(s) ==
  FirstOf({k \in DOMAIN s :
             /\ s[k] = ">" /\ ~InQuotes(s, k)
             /\ k > 1 => s[k - 1] \notin {"-", "="}
             /\ k < Len(s) => s[k + 1] # "="})

-----------------------------------------------------------------------------
(* The first place from k on of a character in a set, or the end. *)
NextOf(s, k, chars) == Min({Len(s) + 1} \cup {j \in k .. Len(s) : s[j] \in chars})

NotBlank(s, k) == Min({Len(s) + 1} \cup {j \in k .. Len(s) : s[j] # Blank1})

(* parse_args *)
ParseArgs(s) ==
  LET Take(w, turn) ==
        LET k == NotBlank(s, w.at)
            quoted == k <= Len(s) /\ s[k] = Quote
            first == IF quoted THEN k + 1 ELSE k
            end == NextOf(s, first, IF quoted THEN {Quote} ELSE {Blank1})
        IN IF k > Len(s) THEN w
           ELSE [at |-> end + 1, args |-> Append(w.args, SubSeq(s, first, end - 1))]
  IN FoldLeft(Take, [at |-> 1, args |-> <<>>], [turn \in 1 .. MaxArgs |-> turn]).args

Trimmed(s) ==
  LET k == NotBlank(s, 1)
      inked == {j \in DOMAIN s : s[j] # Blank1}
  IN SubSeq(s, k, Max({k - 1} \cup inked))

(* What shell_execute makes of a segment without a name that is assigned:  *)
(* the words of its command, and those of the command behind "|" with the  *)
(* file of the pipe, or the file behind ">" or ">>".                       *)
Executed(s) ==
  LET bar == FindUnquoted(s, "|")
      gt == FindRedirect(s)
      after == gt < Len(s) /\ s[gt + 1] = ">"
      left(k) == ParseArgs(SubSeq(s, 1, k - 1))
      right(k) == SubSeq(s, NotBlank(s, k), Len(s))
  IN IF bar # 0
     THEN IF right(bar + 1) = <<>> THEN [kind |-> "error"]
          ELSE [kind |-> "pipe", args |-> left(bar),
                to |-> ParseArgs(right(bar + 1) \o <<Blank1, "p">>)]
     ELSE IF gt # 0
     THEN LET target == Trimmed(SubSeq(s, IF after THEN gt + 2 ELSE gt + 1, Len(s))) IN
          IF target = <<>> THEN [kind |-> "error"]
          ELSE [kind |-> IF after THEN "append" ELSE "write", args |-> left(gt), to |-> target]
     ELSE [kind |-> "plain", args |-> ParseArgs(s)]
=============================================================================
