-------------------------------- MODULE Commands --------------------------------
(***************************************************************************)
(* What a line of the shell is for its parsers, and what its filters,      *)
(* ciphers and calculators make of what they are given, against what they  *)
(* are for.  A text, a line or an expression is entered piece by piece.    *)
(***************************************************************************)
EXTENDS Filters, Ciphers, Numbers, Words

CONSTANTS
  Pieces,      \* for each kind of text the pieces it is made of
  MostPieces   \* and how many (bound)

VARIABLES
  entered      \* the pieces of the text

CommandsInit == entered = <<>>

Together(pieces, sep) ==
  FoldLeftDomain(LAMBDA s, k : s \o (IF k = 1 THEN <<>> ELSE sep) \o pieces[k], <<>>, pieces)

-----------------------------------------------------------------------------
(* The texts of files. *)
Times(s, x) == Cardinality({k \in DOMAIN s : s[k] = x})

NewlineBefore(t, k) == Max({0} \cup {j \in 1 .. k - 1 : t[j] = Newline})

LineSound(t) ==
  LET u == Unlines(LinesOf(t))
      TooLong(k) == u[k] = Newline /\ k - NewlineBefore(u, k) = LineRoom + 1
  IN /\ Len(u) - Len(t) \in {0, 1}
     /\ \A k \in 1 .. Len(t) : u[k] = t[k] \/ TooLong(k)
     /\ \A n \in DOMAIN LinesOf(t) : Len(LinesOf(t)[n]) <= LineRoom

WcSound(t) ==
  LET Blank2(k) == t[k] \in {Gap, TabChar, Newline}
  IN Wc(t) = [lines |-> Times(t, Newline), chars |-> Len(t),
              words |-> Cardinality({k \in DOMAIN t : ~Blank2(k) /\ (k = 1 \/ Blank2(k - 1))})]

(* head and tail part a text whose lines are short enough. *)
PartsSound(t) ==
  LET all == LinesOf(t) IN
  Unlines(all) \in {t, Append(t, Newline)} =>
    \A n \in 1 .. Len(all) :
      Len(all) - n <= RingLines => LinesOf(HeadOf(n, t)) \o TailOf(Len(all) - n, t) = all

OrderSound(t) ==
  LET sorted == SortOf(t)  kept == FirstKept(LinesOf(t))  once == Uniq(Unlines(sorted)) IN
  /\ \A k \in DOMAIN kept : Times(sorted, kept[k]) = Times(kept, kept[k])
  /\ Len(sorted) = Len(kept)
  /\ \A i, j \in DOMAIN sorted : i < j => ~Greater(sorted[i], sorted[j])
  /\ ToSet(kept) \ {<<>>} \subseteq ToSet(once) /\ ToSet(once) \subseteq ToSet(kept) /\ IsInjective(once)
  /\ Rev(Unlines(Rev(t))) = LinesOf(t)
  /\ Len(LinesOf(t)) <= KeptLines => Tac(Unlines(Tac(t))) = LinesOf(t)

(* uniq is for printing a line unless it repeats the line before it.  It   *)
(* does so, but for a first line that is empty, which it leaves out.       *)
UniqSound(t) ==
  LET all == LinesOf(t)
      fresh == SetToSortSeq({k \in DOMAIN all : k = 1 \/ all[k] # all[k - 1]}, <)
      meant == [n \in DOMAIN fresh |-> all[fresh[n]]]
  IN Uniq(t) = IF all # <<>> /\ all[1] = <<>> THEN Tail(meant) ELSE meant

(* grep prints the lines in which the pattern begins at some place, where  *)
(* no line was cut.                                                        *)
GrepSound(t, pattern) ==
  LET begins == {k \in 1 .. Len(t) - Len(pattern) + 1 : SubSeq(t, k, k + Len(pattern) - 1) = pattern} IN
  Unlines(LinesOf(t)) \in {t, Append(t, Newline)} =>
    /\ Len(Grep(pattern, t)) = Cardinality({NewlineBefore(t, k) : k \in begins})
    /\ \A n \in DOMAIN Grep(pattern, t) : Grep(pattern, t)[n] \in ToSet(LinesOf(t))

(* The columns that cut prints one by one give each line back; it prints   *)
(* no last line that has no newline.                                       *)
CutSound(t) ==
  LET all == LinesOf(t)
      shown == IF Gathered(t).line = <<>> THEN all ELSE Front(all) IN
  /\ Len(CutOf(1, t)) = Len(shown)
  /\ \A k \in DOMAIN shown :
       Together([n \in 1 .. Times(shown[k], TabChar) + 1 |-> CutOf(n, t)[k]], <<TabChar>>) = shown[k]

(* The columns of what paste prints are the lines of the two files, up to  *)
(* a pair of empty lines, where it stops.                                  *)
PasteSound(t, other) ==
  LET At(lines, k) == IF k \in DOMAIN lines THEN lines[k] ELSE <<>>
      l == LinesOf(t)  m == LinesOf(other)  shown == Paste(t, other)
      Stopped(k) == \E j \in 1 .. k : At(l, j) = <<>> /\ At(m, j) = <<>>
  IN TabChar \notin ToSet(t) \cup ToSet(other) =>
       \A k \in 1 .. Max({Len(l), Len(m)}) :
         IF Stopped(k) THEN k > Len(shown)
         ELSE /\ k <= Len(shown)
              /\ CutField(1, TabChar, shown[k]) = At(l, k)
              /\ CutField(2, TabChar, shown[k]) = At(m, k)

(* Runs of printed characters, by where they begin. *)
StringsSound(t) ==
  LET In(k) == k \in DOMAIN t /\ t[k] \in Printed
      End(k) == Min({j \in k .. Len(t) + 1 : ~In(j)})
      starts == {k \in DOMAIN t : In(k) /\ ~In(k - 1) /\ End(k) - k >= ShortRun}
      order == SetToSortSeq(starts, <)
  IN Strings(t) = [n \in DOMAIN order |->
                     SubSeq(t, order[n], Min({End(order[n]), order[n] + LineRoom}) - 1)]

(* A character of t is changed into another one.  cmp and the sums show   *)
(* it.  diff shows it at its line, and there alone, unless it is one that  *)
(* the line had no room for, or stands behind a pair of empty lines: the   *)
(* loop of diff takes those for the end of both files.                     *)
ChangesSeen(t, other) ==
  \A k \in DOMAIN t :
    LET u == [t EXCEPT ![k] = other]
        before == Gathered(SubSeq(t, 1, k - 1))
        n == Len(before.done) + 1
        hidden == Len(before.line) >= LineRoom \/ <<>> \in ToSet(before.done) IN
    t[k] # other =>
      /\ CmpOf(t, u) = k /\ Cksum(t) # Cksum(u) /\ SumOf(t) # SumOf(u)
      /\ IF hidden THEN Diff(t, u) = <<>>
         ELSE /\ Diff(t, u) # <<>> /\ Diff(t, u)[1][1] = n
              /\ t[k] # Newline => Diff(t, u) = <<<<n, LinesOf(t)[n], LinesOf(u)[n]>>>>

ColumnsSound(t) ==
  LET wide == Expanded(t)
      From(k) == Max({0} \cup {j \in 1 .. k - 1 : wide[j] = Newline}) + 1
      Split(k) ==   \* blanks that begin between two stops and reach a later one
        /\ wide[k] = Gap /\ (k = From(k) \/ wide[k - 1] # Gap) /\ (k - From(k)) % ColumnStop # 0
        /\ \A j \in k .. k + ColumnStop - 1 : j <= Len(wide) /\ wide[j] = Gap
  IN /\ TabChar \notin ToSet(wide)
     /\ SelectSeq(wide, LAMBDA c : c # Gap) = SelectSeq(t, LAMBDA c : c \notin {Gap, TabChar})
     /\ (\E k \in DOMAIN wide : Split(k)) \/ Expanded(Unexpand(wide)) = wide
     /\ \A width \in 1 .. 3 :
          LET folded == Fold(width, t) IN
          /\ SelectSeq(folded, LAMBDA c : c # Newline) = SelectSeq(t, LAMBDA c : c # Newline)
          /\ \A k \in DOMAIN folded : folded[k] # Newline => k - NewlineBefore(folded, k) <= width
          /\ Times(folded, Newline) >= Times(t, Newline)

(* a is exchanged with b, and back again.  A second set that is too short  *)
(* by one ends the line, and one too short by two shows the memory behind. *)
TrSound(t, a, b) ==
  LET Changed(c, d) == [k \in DOMAIN t |-> IF t[k] = c THEN d ELSE t[k]] IN
  /\ Tr(<<a, b>>, <<b, a>>, <<>>, Tr(<<a, b>>, <<b, a>>, <<>>, t)) = t
  /\ b \notin ToSet(t) => Tr(<<b>>, <<a>>, <<>>, Tr(<<a>>, <<b>>, <<>>, t)) = t
  /\ Tr(<<a, b>>, <<a>>, <<>>, t) = SubSeq(t, 1, Min({Len(t) + 1} \cup {k \in DOMAIN t : t[k] = b}) - 1)
  /\ b \notin ToSet(t) =>
       \A c \in {a, b} : Tr(<<a, b, Gap>>, <<a>>, <<c>>, t) = Changed(Gap, c)

PathSound(path) ==
  /\ path # <<>> /\ path[1] = "/"
  /\ ~\E k \in 2 .. Len(path) : path[k - 1] = "/" /\ path[k] = "/"
  =>
    Dirname(path) \o (IF Len(Dirname(path)) = 1 THEN <<>> ELSE <<"/">>) \o Basename(path) = path

(* Every order comes from one sequence of draws. *)
ShuffleFair(n) ==
  LET lines == [i \in 1 .. n |-> i]
      draws == {j \in [1 .. n -> 1 .. n] : \A i \in 1 .. n : j[i] <= i}
      orders == {p \in [1 .. n -> 1 .. n] : IsInjective(p)}
  IN \A p \in orders : Cardinality({j \in draws : Shuffled(lines, j) = p}) = 1

FiltersSound(t) ==
  /\ LineSound(t) /\ WcSound(t) /\ PartsSound(t) /\ OrderSound(t) /\ UniqSound(t) /\ StringsSound(t)
  /\ GrepSound(t, <<"a">>) /\ GrepSound(t, <<"a", "/">>) /\ CutSound(t) /\ PasteSound(t, HeadOf(1, t))
  /\ ChangesSeen(t, "/") /\ ColumnsSound(t) /\ TrSound(t, "a", "/") /\ PathSound(t)
  /\ t = <<>> => \A n \in 1 .. 4 : ShuffleFair(n)

-----------------------------------------------------------------------------
(* What is enciphered or encoded comes back. *)
Base64Bits(text) ==
  LET Value(c) == CHOOSE n \in 0 .. 63 : Base64Char(n) = c
      Char(k) == IF k <= Len(text) /\ text[k] # Padding THEN Value(text[k]) ELSE 0
  IN [k \in 1 .. (Len(text) * 3) \div 4 |->
        LET g == 4 * ((k - 1) \div 3)
            v == Char(g + 1) * 262144 + Char(g + 2) * 4096 + Char(g + 3) * 64 + Char(g + 4)
        IN (v \div (256^(2 - ((k - 1) % 3)))) % 256]

CiphersSound(t) ==
  /\ Rot13(Rot13(t)) = t /\ Atbash(Atbash(t)) = t
  /\ \A n \in 0 .. 25 :
       /\ Caesar(-n, Caesar(n, t)) = t
       /\ \E m \in DOMAIN Brute(t) : Brute(Caesar(n, t))[m] = t
  /\ \A key \in {<<98>>, <<66, 45, 122>>} :
       /\ Vigenere(key, TRUE, Vigenere(key, FALSE, t)) = t
       /\ LET letters == SelectSeq(t, LAMBDA c : c \in Small \cup Capital) IN
          SelectSeq(Vigenere(key, FALSE, t), LAMBDA c : c \in Small \cup Capital)
            = Vigenere(key, FALSE, letters)
  /\ UrlDecode(UrlEncode(t)) = t
  /\ Len(Base64(t)) % 4 = 0 /\ Times(Base64(t), Padding) <= 2
  /\ SubSeq(Base64Bits(Base64(t)), 1, Len(t)) = t

RomanSound(greatest) == \A n \in 1 .. greatest : RomanParsed(Roman(n)) = n

-----------------------------------------------------------------------------
(* An expression is entered with its operators behind their operands, "~"  *)
(* for the sign.  Read builds its value and its text, with no parenthesis  *)
(* that the rules of precedence make needless.                             *)
Calls == {"max", "mod"}
Binary == {"+", "-", "*", "/", "^"} \cup Calls
Order(op) == IF op \in {"+", "-"} THEN 1 ELSE IF op \in {"*", "/"} THEN 2 ELSE 3

Needing(e, order) == IF e.order < order THEN <<"(">> \o e.text \o <<")">> ELSE e.text

Meaning(op, a, b) ==
  CASE op = "+" -> Wrap(a + b)
    [] op = "-" -> Wrap(a - b)
    [] op = "*" -> FpMul(a, b)
    [] op = "/" -> FpDiv(a, b)
    [] op = "^" -> Power(a, b)
    [] op = "max" -> Max({a, b})
    [] op = "mod" -> Rest(a, b)

Fails(op, a, b) == (op \in {"/", "mod"} /\ b = 0) \/ (op = "^" /\ a < 0 /\ Rest(b, FpOne) # 0)

Read(stack, piece) ==
  LET n == Len(stack)  a == stack[n - 1]  b == stack[n] IN
  IF piece \in Binary
  THEN Append(SubSeq(stack, 1, n - 2), IF piece \in Calls THEN
         [value |-> IF Fails(piece, a.value, b.value) THEN 0 ELSE Meaning(piece, a.value, b.value),
          err |-> a.err \/ b.err \/ Fails(piece, a.value, b.value), order |-> 4,
          text |-> <<piece, "(">> \o a.text \o <<",">> \o b.text \o <<")">>]
       ELSE
         [value |-> IF Fails(piece, a.value, b.value) THEN 0 ELSE Meaning(piece, a.value, b.value),
          err |-> a.err \/ b.err \/ Fails(piece, a.value, b.value),
          order |-> Order(piece),
          text |-> Needing(a, IF piece = "^" THEN 4 ELSE Order(piece)) \o <<piece>>
                   \o Needing(b, IF piece = "^" THEN 3 ELSE Order(piece) + 1)])
  ELSE IF piece = "~"
  THEN Append(Front(stack), [b EXCEPT !.value = Wrap(-@), !.order = 3,
                                      !.text = <<"-">> \o Needing(b, 3)])
  ELSE Append(stack, [value |-> IF piece \in DOMAIN FpNamed THEN FpNamed[piece] ELSE DigitOf[piece] * FpOne,
                      err |-> FALSE, order |-> 4, text |-> <<piece>>])

Stack(pieces) == FoldLeft(Read, <<>>, pieces)

(* No operator without its operands *)
Readable(pieces) ==
  \A k \in DOMAIN pieces :
    LET up(j) == pieces[j] \notin Binary \cup {"~"}
        Height0(j) == Cardinality({i \in 1 .. j : up(i)}) - Cardinality({i \in 1 .. j : pieces[i] \in Binary})
    IN Height0(k) >= 1 /\ (pieces[k] \in Binary => Height0(k - 1) >= 2)

SciSound(pieces) ==
  Len(Stack(pieces)) = 1 =>
    LET e == Stack(pieces)[1] IN Sci(e.text) = IF e.err THEN FpError ELSE e.value

FixedSound(limit) ==
  /\ \A a, b \in 0 .. limit :
       LET g == GcdOf(a, b) IN
       a + b > 0 => /\ a % g = 0 /\ b % g = 0
                    /\ \A d \in 1 .. limit : (a % d = 0 /\ b % d = 0 => d <= g)
  /\ \A a \in 1 .. limit, b \in 1 .. limit :
       LET m == Applied("lcm", a * FpOne, b * FpOne).value IN
       m = FpOne * Min({k \in 1 .. limit * limit : k % a = 0 /\ k % b = 0})
  /\ \A b \in -3 .. 3, e \in 0 .. 5 : FpPow(b * FpOne, e) = (IF e = 0 THEN 1 ELSE b^e) * FpOne
  /\ \A x \in 1 .. limit * limit : LET y == FpSqrt(x) IN AbsOf(y * y - x * FpOne) <= 2 * y
  /\ \A x \in 0 .. limit * FpOne : FpPow(FpDiv(x, FpOne), 1) = x
  /\ \A x \in -limit .. limit :
       /\ Applied("floor", x, 0).value <= x /\ x <= Applied("ceil", x, 0).value
       /\ Applied("ceil", x, 0).value - Applied("floor", x, 0).value = IF x % FpOne = 0 THEN 0 ELSE FpOne
       /\ 2 * AbsOf(Applied("round", x, 0).value - x) <= FpOne
  /\ \A n \in 2 .. limit :
       /\ Primes(n) = {p \in 2 .. n : \A d \in 2 .. p - 1 : p % d # 0}
       /\ FoldLeft(LAMBDA m, f : m * f, 1, Factors(n)) = n
       /\ ToSet(Factors(n)) \subseteq Primes(n)
       /\ Len(Fib(n)) = n
       /\ \A k \in 3 .. n : Fib(n)[k] = Fib(n)[k - 1] + Fib(n)[k - 2]
  /\ \A first, last \in -3 .. 3, step \in {-2, -1, 1, 2} :
       ToSet(SeqFrom(first, step, last)) =
         {i \in -3 .. 3 : (i - first) % AbsOf(step) = 0
                           /\ IF step > 0 THEN i \in first .. last ELSE i \in last .. first}

StatsSound(vals) ==
  vals # <<>> =>
    LET s == Stats(vals)  n == Len(vals)
        Of(P(_)) == Cardinality({k \in 1 .. n : P(vals[k])}) IN
    /\ 2 * Of(LAMBDA v : v < s.median) <= n /\ 2 * Of(LAMBDA v : v > s.median) <= n
    /\ \A v \in ToSet(vals) : Of(LAMBDA w : w = v) <= s.times /\ s.least <= v /\ v <= s.most
    /\ Of(LAMBDA v : v = s.mode) = s.times
    /\ s.mean \in s.least .. s.most
    /\ s.deviation <= s.most - s.least

-----------------------------------------------------------------------------
(* The library on a memory, at all its addresses. *)
StrAt(mem, a) == SubSeq(mem, a, a + StrLen(mem, a) - 1)

Before(s, t) ==
  \E k \in 1 .. Min({Len(t), Len(s) + 1}) :
    SubSeq(s, 1, k - 1) = SubSeq(t, 1, k - 1) /\ (k > Len(s) \/ s[k] < t[k])

MovesSound(mem) ==
  \A dst, src \in DOMAIN mem, n \in 0 .. Len(mem) :
    Max({dst, src}) + n <= Len(mem) + 1 =>
      /\ MemMove(mem, dst, src, n)
           = [k \in DOMAIN mem |-> IF k \in dst .. dst + n - 1 THEN mem[k - dst + src] ELSE mem[k]]
      /\ AbsOf(dst - src) >= n => CopyUp(mem, dst, src, n) = MemMove(mem, dst, src, n)

(* Strings that end in the memory: how they compare, and what is put       *)
(* together of them where it does not run over.                            *)
StringsAgree(mem) ==
  LET starts == {a \in DOMAIN mem : \E k \in a .. Len(mem) : mem[k] = 0}
      Room(a) == Len(mem) - a
      Apart(a, n, b, m) == a + n < b \/ b + m < a
  IN \A a, b \in starts :
       LET s == StrAt(mem, a)  t == StrAt(mem, b) IN
       /\ (StrCmp(mem, a, b) = 0) = (s = t)
       /\ (StrCmp(mem, a, b) < 0) = Before(s, t)
       /\ \A n \in 0 .. 3 :
            /\ (StrNCmp(mem, a, b, n) < 0) = Before(SubSeq(s, 1, Min({n, Len(s)})), SubSeq(t, 1, Min({n, Len(t)})))
            /\ Apart(a, n, b, Len(t)) /\ n <= Room(a) + 1 =>
                 /\ SubSeq(StrNCpy(mem, a, b, n), a, a + n - 1)
                      = [k \in 1 .. n |-> IF k <= Len(t) THEN t[k] ELSE 0]
                 /\ n > Len(t) => StrAt(StrNCpy(mem, a, b, n), a) = t
       /\ Apart(a, Len(s) + Len(t), b, Len(t)) /\ Len(s) + Len(t) <= Room(a) =>
            StrAt(StrCat(mem, a, b), a) = s \o t
       /\ LET k == StrStr(mem, a, b) IN
            IF k = 0 THEN \A j \in 0 .. Len(s) - Len(t) : SubSeq(s, j + 1, j + Len(t)) # t
            ELSE /\ SubSeq(s, k - a + 1, k - a + Len(t)) = t
                 /\ Len(t) = 1 => k = StrChr(mem, a, t[1]) /\ StrRChr(mem, a, t[1]) >= k
       /\ Atoi(s) = -Atoi(<<Minus>> \o s) \/ s = <<>> \/ s[1] \notin Zero .. Zero + 9

(* Numbers are printed in each base and width, and read back. *)
PrintingSound(values) ==
  \A v \in values :
    /\ Atoi(Itoa(v, 10)) = v
    /\ \A base \in {2, 8, 10, 16, 36} :
         LET s == Utoa(v, base)
             d(k) == IF s[k] >= 97 THEN s[k] - 87 ELSE s[k] - Zero IN
         /\ FoldLeftDomain(LAMBDA n, k : n * base + d(k), 0, s) = v % IntWord
         /\ Len(s) = 1 \/ s[1] # Zero
    /\ Dec(Utoa(v, 16)) = v
    /\ \A left, zero \in BOOLEAN, width \in {0, 2, 5} :
         LET fmt == <<Percent>> \o (IF left THEN <<Minus>> ELSE <<>>) \o (IF zero THEN <<Zero>> ELSE <<>>)
                    \o (IF width > 0 THEN <<Zero + width>> ELSE <<>>) \o <<100, Percent, 115>>
             out == VSprintf(fmt, <<v, <<33>>>>)
             digits == Len(Itoa(AbsOf(v), 10))
         IN /\ Len(out) = Max({width, digits}) + (IF v < 0 THEN 2 ELSE 1)
            /\ Last(out) = 33
            /\ v >= 0 \/ zero \/ left => Atoi(out) = v

DivisionSound ==
  LET half == 2^(LongBits - 1) IN
  \A n, d \in -half .. half - 1 :
    d # 0 /\ ~(n = -half /\ d = -1) =>
      /\ DivDi3(n, d) * d + ModDi3(n, d) = n
      /\ AbsOf(ModDi3(n, d)) < AbsOf(d) /\ (ModDi3(n, d) # 0 => SignOf(ModDi3(n, d)) = SignOf(n))

-----------------------------------------------------------------------------
(* A line is entered as words, words in quotes, and marks. *)
Word(text) == [kind |-> "word", text |-> text]
Quoted(text) == [kind |-> "quoted", text |-> text]
MarkPiece(text) == [kind |-> "mark", text |-> text]

Shown(piece) == IF piece.kind = "quoted" THEN <<Quote>> \o piece.text \o <<Quote>> ELSE piece.text
Line(pieces) == Together([k \in DOMAIN pieces |-> Shown(pieces[k])], <<Blank1>>)

(* The first mark with one of the texts, 0 for none. *)
MarkIn(pieces, texts) ==
  FirstOf({k \in DOMAIN pieces : pieces[k].kind = "mark" /\ pieces[k].text \in texts})

SplitAt(pieces) ==
  LET cuts == <<0>> \o SetToSortSeq({k \in DOMAIN pieces : pieces[k] = MarkPiece(<<";">>)}, <)
              \o <<Len(pieces) + 1>>
  IN [n \in 1 .. Len(cuts) - 1 |-> SubSeq(pieces, cuts[n] + 1, cuts[n + 1] - 1)]

WordsOf(pieces) == [k \in 1 .. Min({Len(pieces), MaxArgs}) |-> pieces[k].text]

Meant(pieces) ==
  LET bar == MarkIn(pieces, {<<"|">>})
      gt == MarkIn(pieces, {<<">">>, <<">", ">">>})
      cut == IF bar # 0 THEN bar ELSE gt
      left == SubSeq(pieces, 1, cut - 1)
      right == SubSeq(pieces, cut + 1, Len(pieces))
  IN IF cut = 0 THEN [kind |-> "plain", args |-> WordsOf(pieces)]
     ELSE IF right = <<>> THEN [kind |-> "error"]
     ELSE IF bar # 0
       THEN [kind |-> "pipe", args |-> WordsOf(left), to |-> WordsOf(Append(right, Word(<<"p">>)))]
     ELSE [kind |-> IF pieces[gt].text = <<">">> THEN "write" ELSE "append",
           args |-> WordsOf(left), to |-> Line(right)]

LineMeant(pieces) ==
  LET segments == Segments(Line(pieces))  parts == SplitAt(pieces) IN
  /\ Len(segments) = Min({Len(parts), MaxSegments})
  /\ \A n \in DOMAIN segments : Executed(segments[n]) = Meant(parts[n])

-----------------------------------------------------------------------------
(* One more piece, where it can stand; after the last another text is begun. *)
Enter(kind) ==
  \/ /\ Len(entered) < MostPieces[kind]
     /\ \E piece \in Pieces[kind] :
          /\ entered' = Append(entered, piece)
          /\ kind = "sci" => Readable(entered')
  \/ Len(entered) = MostPieces[kind] /\ entered' = <<>>
=============================================================================
