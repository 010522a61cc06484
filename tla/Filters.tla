-------------------------------- MODULE Filters --------------------------------
(***************************************************************************)
(* The commands of shell/shell.c that read a file a character at a time    *)
(* and print something made of it.  A text is the sequence of the file's   *)
(* characters; what is printed is a sequence of lines, or of characters    *)
(* where the command prints them one by one.  The buffers of the commands  *)
(* have different sizes in the code (128, 256 and 512).                    *)
(***************************************************************************)
EXTENDS Integers, FiniteSets, SequencesExt

CONSTANTS
  LineRoom,     \* characters that a line buffer has room for
  RingLines,    \* lines that tail keeps, 256
  KeptLines,    \* lines that sort, tac and shuf keep, 512 and 256
  ColumnStop,   \* 8
  Printed,      \* characters from 32 to 126
  ShortRun,     \* strings prints nothing shorter, 4
  Ascii         \* the code of each character

ASSUME FiltersAssumption ==
  /\ {LineRoom, RingLines, KeptLines, ColumnStop, ShortRun} \subseteq Nat \ {0}
  /\ Printed \subseteq DOMAIN Ascii

Newline == "\n"
TabChar == "\t"
Gap == " "

-----------------------------------------------------------------------------
(* Mutant: a line takes one character more than it has room for. *)
GatherWide(g, c) ==
  IF c = Newline \/ Len(g.line) > LineRoom
  THEN [done |-> Append(g.done, g.line), line |-> <<>>]
  ELSE [g EXCEPT !.line = Append(@, c)]

(* The loop of grep, tail, sort, uniq, rev, nl, tac and cut: a line ends   *)
(* at a newline, or at a character for which the buffer has no room; that  *)
(* character is dropped.                                                   *)
Gather(g, c) ==
  IF c = Newline \/ Len(g.line) >= LineRoom
  THEN [done |-> Append(g.done, g.line), line |-> <<>>]
  ELSE [g EXCEPT !.line = Append(@, c)]

Gathered(text) == FoldLeft(Gather, [done |-> <<>>, line |-> <<>>], text)

(* With a last line that has no newline. *)
LinesOf(text) ==
  LET g == Gathered(text) IN IF g.line = <<>> THEN g.done ELSE Append(g.done, g.line)

(* What the lines are when each is printed with a newline. *)
Unlines(lines) == FlattenSeq([k \in DOMAIN lines |-> Append(lines[k], Newline)])

-----------------------------------------------------------------------------
Holds(line, pattern) ==
  \E k \in 0 .. Len(line) - Len(pattern) : SubSeq(line, k + 1, k + Len(pattern)) = pattern

Grep(pattern, text) == SelectSeq(LinesOf(text), LAMBDA l : Holds(l, pattern))

Wc(text) ==
  LET Count(w, c) ==
        LET blank == c \in {Gap, TabChar, Newline} IN
        [lines |-> w.lines + (IF c = Newline THEN 1 ELSE 0),
         words |-> w.words + (IF blank /\ w.inside THEN 1 ELSE 0),
         chars |-> w.chars + 1, inside |-> ~blank]
      w == FoldLeft(Count, [lines |-> 0, words |-> 0, chars |-> 0, inside |-> FALSE], text)
  IN [lines |-> w.lines, chars |-> w.chars, words |-> w.words + (IF w.inside THEN 1 ELSE 0)]

(* head -n N prints one line even for N = 0. *)
HeadOf(n, text) ==
  LET ends == {k \in DOMAIN text :
                 /\ text[k] = Newline
                 /\ Cardinality({j \in 1 .. k : text[j] = Newline}) >= n}
  IN IF ends = {} THEN text ELSE SubSeq(text, 1, Min(ends))

(* tail -n N prints from a ring, which has the last lines only. *)
TailOf(n, text) ==
  LET all == LinesOf(text)
      start == IF Len(all) > n THEN Len(all) - n ELSE 0
      InRing(i) == Max({j \in 0 .. Len(all) - 1 : (j - i) % RingLines = 0})
  IN [k \in 1 .. Len(all) - start |-> all[InRing(start + k - 1) + 1]]

FirstKept(lines) == SubSeq(lines, 1, Min({Len(lines), KeptLines}))

Greater(s, t) ==
  \E k \in 1 .. Len(s) :
    /\ \A j \in 1 .. k - 1 : j <= Len(t) /\ s[j] = t[j]
    /\ k > Len(t) \/ Ascii[s[k]] > Ascii[t[k]]

(* The exchange sort of sort: the pairs i < j in their order. *)
Exchanged(lines) ==
  LET n == Len(lines)
      Exchange(l, k) ==
        LET i == ((k - 1) \div n) + 1
            j == ((k - 1) % n) + 1 IN
        IF i < j /\ Greater(l[i], l[j]) THEN [l EXCEPT ![i] = l[j], ![j] = l[i]] ELSE l
  IN FoldLeft(Exchange, lines, [k \in 1 .. n * n |-> k])

SortOf(text) == Exchanged(FirstKept(LinesOf(text)))

(* uniq begins as if an empty line had been printed: a first line that is  *)
(* empty is not.                                                           *)
Uniq(text) ==
  FoldLeft(LAMBDA u, l : IF l = u.prev THEN u ELSE [prev |-> l, out |-> Append(u.out, l)],
           [prev |-> <<>>, out |-> <<>>], LinesOf(text)).out

Rev(text) == LET all == LinesOf(text) IN [k \in DOMAIN all |-> Reverse(all[k])]

Tac(text) == Reverse(FirstKept(LinesOf(text)))

(* The orders that shuf can print lines in: its draws are the sequences j, *)
(* with j[i] the one for the i-th line, from the last down.                *)
Shuffled(lines, j) ==
  FoldRight(LAMBDA i, l : [l EXCEPT ![i] = l[j[i]], ![j[i]] = l[i]],
            [i \in DOMAIN lines |-> i], lines)

(* strings: runs of printed characters; one that is too long is cut. *)
Strings(text) ==
  LET Take(g, c) ==
        IF c \in Printed
        THEN IF Len(g.line) < LineRoom THEN [g EXCEPT !.line = Append(@, c)] ELSE g
        ELSE [done |-> IF Len(g.line) >= ShortRun THEN Append(g.done, g.line) ELSE g.done,
              line |-> <<>>]
  IN FoldLeft(Take, [done |-> <<>>, line |-> <<>>], Append(text, Newline)).done

(* cut -f N: the line from its N-th field on, up to the next delimiter; a  *)
(* last line without newline is not printed.                               *)
CutField(n, delim, line) ==
  LET Delims(k) == Cardinality({j \in 1 .. k - 1 : line[j] = delim})
      first == Min({k \in 1 .. Len(line) + 1 : k > Len(line) \/ Delims(k) >= n - 1})
      end == Min({k \in first .. Len(line) + 1 : k > Len(line) \/ line[k] = delim})
  IN SubSeq(line, first, end - 1)

CutOf(n, text) ==
  LET all == Gathered(text).done IN [k \in DOMAIN all |-> CutField(n, TabChar, all[k])]

(* paste and diff read two files together, up to a pair of lines that are  *)
(* both empty, or the end of both.                                         *)
Pairs(text, other) ==
  LET l == LinesOf(text)  m == LinesOf(other)
      At(lines, k) == IF k <= Len(lines) THEN lines[k] ELSE <<>>
      end == Min({k \in 1 .. Max({Len(l), Len(m)}) + 1 : At(l, k) = <<>> /\ At(m, k) = <<>>})
  IN [k \in 1 .. end - 1 |-> <<At(l, k), At(m, k)>>]

Paste(text, other) ==
  LET p == Pairs(text, other) IN [k \in DOMAIN p |-> p[k][1] \o <<TabChar>> \o p[k][2]]

Diff(text, other) ==
  LET p == Pairs(text, other) IN SelectSeq([k \in DOMAIN p |-> <<k>> \o p[k]], LAMBDA d : d[2] # d[3])

(* cmp: the first byte that differs, 0 for none; what one file has more of *)
(* is not looked at.                                                       *)
CmpOf(text, other) ==
  LET both == 1 .. Min({Len(text), Len(other)})
      diffs == {k \in both : text[k] # other[k]}
  IN IF diffs = {} THEN 0 ELSE Min(diffs)

-----------------------------------------------------------------------------
(* Commands that print characters and count columns. *)
Fold(width, text) ==
  LET Put(s, c) ==
        IF c = Newline THEN [out |-> Append(s.out, c), col |-> 0]
        ELSE IF s.col >= width THEN [out |-> s.out \o <<Newline, c>>, col |-> 1]
        ELSE [out |-> Append(s.out, c), col |-> s.col + 1]
      s == FoldLeft(Put, [out |-> <<>>, col |-> 0], text)
  IN IF s.col > 0 THEN Append(s.out, Newline) ELSE s.out

Gaps(n) == [k \in 1 .. n |-> Gap]

Expanded(text) ==
  LET Put(s, c) ==
        LET n == ColumnStop - (s.col % ColumnStop) IN
        IF c = TabChar THEN [out |-> s.out \o Gaps(n), col |-> s.col + n]
        ELSE [out |-> Append(s.out, c), col |-> IF c = Newline THEN 0 ELSE s.col + 1]
  IN FoldLeft(Put, [out |-> <<>>, col |-> 0], text).out

(* unexpand: when a column stop is reached, all the blanks before it       *)
(* become one tab if they are as many as a stop, or more.                  *)
Unexpand(text) ==
  LET Put(s, c) ==
        IF c = Gap
        THEN IF (s.col + 1) % ColumnStop = 0 /\ s.gaps + 1 >= ColumnStop
             THEN [out |-> Append(s.out, TabChar), col |-> s.col + 1, gaps |-> 0]
             ELSE [s EXCEPT !.col = @ + 1, !.gaps = @ + 1]
        ELSE [out |-> Append(s.out \o Gaps(s.gaps), c), gaps |-> 0,
              col |-> IF c = Newline THEN 0 ELSE s.col + 1]
      s == FoldLeft(Put, [out |-> <<>>, col |-> 0, gaps |-> 0], text)
  IN s.out \o Gaps(s.gaps)

(* tr: the first place of a character in set1 says which of set2 it        *)
(* becomes.  Nothing looks at how long set2 is: a character one place past *)
(* it becomes the NUL behind set2, with which the printed line ends, and   *)
(* one further past becomes what the memory holds behind that.             *)
Nul == ""

Tr(set1, set2, behind, line) ==
  LET memory == set2 \o <<Nul>> \o behind
      To(c) == LET at == {k \in DOMAIN set1 : set1[k] = c} IN IF at = {} THEN c ELSE memory[Min(at)]
      end == Min({k \in 1 .. Len(line) + 1 : k > Len(line) \/ To(line[k]) = Nul})
  IN [k \in 1 .. end - 1 |-> To(line[k])]

-----------------------------------------------------------------------------
(* Sums over the bytes of a file.  A word is the set of its bits.          *)
BitsOf(n, width) == {b \in 0 .. width - 1 : (n \div 2^b) % 2 = 1}

Cksum(text) ==
  LET poly == {0, 1, 2, 4, 5, 7, 8, 10, 11, 12, 16, 22, 23, 26}
      Shift(crc, turn) ==
        LET up == {b + 1 : b \in crc \ {31}} IN IF 31 \in crc THEN SymDiff(up, poly) ELSE up
      Byte(crc, c) ==
        FoldLeft(Shift, SymDiff(crc, {b + 24 : b \in BitsOf(Ascii[c], 8)}), [k \in 1 .. 8 |-> k])
  IN FoldLeft(Byte, {}, text)

SumOf(text) ==
  FoldLeft(LAMBDA s, c : ((s \div 2) + (s % 2) * 32768 + Ascii[c]) % 65536, 0, text)

Basename(path) ==
  LET last == Max({0} \cup {k \in DOMAIN path : path[k] = "/"}) IN SubSeq(path, last + 1, Len(path))

Dirname(path) ==
  LET last == Max({0} \cup {k \in DOMAIN path : path[k] = "/"}) IN
  IF last <= 1 THEN <<"/">> ELSE SubSeq(path, 1, last - 1)
=============================================================================
