-------------------------------- MODULE Library --------------------------------
(***************************************************************************)
(* lib/string.c, lib/stdio.c and lib/div64.c: what the kernel and the      *)
(* shell have in place of a C library.  A memory is a sequence of bytes,   *)
(* an address a place in it, and a string at an address goes up to the     *)
(* first zero; characters are their codes.                                 *)
(***************************************************************************)
EXTENDS Integers, FiniteSets, SequencesExt

CONSTANTS
  IntWord,    \* 2^32
  LongBits    \* 64

ASSUME LibraryAssumption ==
  /\ {IntWord, LongBits} \subseteq Nat \ {0}
  /\ IntWord % 2 = 0

Minus == 45
Plus == 43
Zero == 48
Space32 == 32
Percent == 37

Wrap(n) == ((n + IntWord \div 2) % IntWord) - IntWord \div 2

-----------------------------------------------------------------------------
(* The loops of memcpy and memmove store one byte after the other.         *)
CopyUp(mem, dst, src, n) ==
  FoldLeft(LAMBDA m, i : [m EXCEPT ![dst + i - 1] = m[src + i - 1]], mem, [i \in 1 .. n |-> i])

CopyDown(mem, dst, src, n) ==
  FoldRight(LAMBDA i, m : [m EXCEPT ![dst + i - 1] = m[src + i - 1]], [i \in 1 .. n |-> i], mem)

(* Mutant: memmove copies upwards whatever the places are. *)
MemMoveUp(mem, dst, src, n) == CopyUp(mem, dst, src, n)

MemMove(mem, dst, src, n) ==
  IF dst < src THEN CopyUp(mem, dst, src, n) ELSE CopyDown(mem, dst, src, n)

MemSet(mem, dst, val, n) == [k \in DOMAIN mem |-> IF k \in dst .. dst + n - 1 THEN val % 256 ELSE mem[k]]

MemCmp(mem, a, b, n) ==
  LET diffs == {i \in 0 .. n - 1 : mem[a + i] # mem[b + i]} IN
  IF diffs = {} THEN 0 ELSE mem[a + Min(diffs)] - mem[b + Min(diffs)]

StrLen(mem, a) == Min({n \in 0 .. Len(mem) - a : mem[a + n] = 0})

StrCmp(mem, a, b) == LET n == Min({StrLen(mem, a), StrLen(mem, b)}) IN MemCmp(mem, a, b, n + 1)

StrNCmp(mem, a, b, n) == MemCmp(mem, a, b, Min({n, StrLen(mem, a) + 1, StrLen(mem, b) + 1}))

StrCpy(mem, dst, src) == CopyUp(mem, dst, src, StrLen(mem, src) + 1)

(* What is left of n is filled with zeros; a long string has none behind. *)
StrNCpy(mem, dst, src, n) ==
  LET m == Min({n, StrLen(mem, src)}) IN MemSet(CopyUp(mem, dst, src, m), dst + m, 0, n - m)

StrCat(mem, dst, src) == StrCpy(mem, dst + StrLen(mem, dst), src)

(* The address, or 0. *)
LeastOf(places) == IF places = {} THEN 0 ELSE Min(places)

StrChr(mem, a, c) == LeastOf({k \in a .. a + StrLen(mem, a) : mem[k] = c})

StrRChr(mem, a, c) ==
  LET at == {k \in a .. a + StrLen(mem, a) : mem[k] = c} IN IF at = {} THEN 0 ELSE Max(at)

StrStr(mem, hay, needle) ==
  LET n == StrLen(mem, needle) IN
  LeastOf({k \in hay .. hay + StrLen(mem, hay) :
           k + n <= hay + StrLen(mem, hay) /\ MemCmp(mem, k, needle, n) = 0})

-----------------------------------------------------------------------------
(* itoa and utoa: the digits from the last one on, then turned round. *)
Digits(value, base) ==
  LET Byte(d) == IF d < 10 THEN Zero + d ELSE 87 + d
      Turn(s, k) == IF s.left = 0 /\ s.out # <<>> THEN s
                    ELSE [left |-> s.left \div base, out |-> <<Byte(s.left % base)>> \o s.out]
  IN FoldLeft(Turn, [left |-> value, out |-> <<>>], [k \in 1 .. 32 |-> k]).out

Utoa(value, base) == IF base \in 2 .. 36 THEN Digits(value % IntWord, base) ELSE <<>>

Itoa(value, base) ==
  IF value < 0 /\ base = 10 THEN <<Minus>> \o Utoa(-value, base) ELSE Utoa(value, base)

Atoi(s) ==
  LET At(k) == IF k <= Len(s) THEN s[k] ELSE 0
      k == Min({j \in 1 .. Len(s) + 1 : At(j) # Space32})
      first == IF At(k) \in {Minus, Plus} THEN k + 1 ELSE k
      end == Min({j \in first .. Len(s) + 1 : At(j) \notin Zero .. Zero + 9})
      n == FoldLeft(LAMBDA r, c : Wrap(r * 10 + c - Zero), 0, SubSeq(s, first, end - 1))
  IN IF At(k) = Minus THEN Wrap(-n) ELSE n

-----------------------------------------------------------------------------
(* vsprintf_helper.  A directive's flags, with the place of its letter. *)
Flags(fmt, k) ==
  LET At(j) == IF j <= Len(fmt) THEN fmt[j] ELSE 0
      left == At(k) = Minus
      a == IF left THEN k + 1 ELSE k
      zero == At(a) = Zero
      b == IF zero THEN a + 1 ELSE a
      end == Min({j \in b .. Len(fmt) + 1 : At(j) \notin Zero .. Zero + 9})
  IN [left |-> left, zero |-> zero, at |-> IF At(end) = 108 THEN end + 1 ELSE end,
      width |-> FoldLeft(LAMBDA w, c : w * 10 + c - Zero, 0, SubSeq(fmt, b, end - 1))]

Padded(f, body, zero) ==
  LET fill(c) == [i \in 1 .. f.width - Len(body) |-> c] IN
  IF f.left THEN body \o fill(Space32) ELSE fill(IF zero THEN Zero ELSE Space32) \o body

(* %d: the sign goes before the blanks, and has no place in the width. *)
Signed(f, value) ==
  LET t == Itoa(value, 10) IN
  IF value < 0 THEN <<Minus>> \o Padded(f, Tail(t), f.zero) ELSE Padded(f, t, f.zero)

Upper(s) == [k \in DOMAIN s |-> IF s[k] \in 97 .. 102 THEN s[k] - 32 ELSE s[k]]

(* What the letter c prints of a value, a number or for %s a string. *)
Converted(f, c, value) ==
  CASE c \in {100, 105} -> Signed(f, value)
    [] c = 117 -> Padded(f, Utoa(value, 10), f.zero)
    [] c = 120 -> Padded(f, Utoa(value, 16), f.zero)
    [] c = 88  -> Padded(f, Upper(Utoa(value, 16)), f.zero)
    [] c = 111 -> Utoa(value, 8)
    [] c = 112 -> <<Zero, 120>> \o Padded([left |-> FALSE, width |-> 8], Utoa(value, 16), TRUE)
    [] c = 99  -> <<value % 256>>
    [] c = 115 -> Padded(f, value, FALSE)

(* A letter that is not known is printed behind its "%", and takes none of *)
(* the values.                                                             *)
VSprintf(fmt, values) ==
  LET Turn(s, k) ==
        LET f == Flags(fmt, s.at + 1)
            c == IF f.at <= Len(fmt) THEN fmt[f.at] ELSE 0
            takes == c \in {88, 99, 100, 105, 111, 112, 115, 117, 120} IN
        IF s.at > Len(fmt) THEN s
        ELSE IF fmt[s.at] # Percent THEN [s EXCEPT !.at = @ + 1, !.out = Append(@, fmt[s.at])]
        ELSE [at |-> f.at + 1, used |-> IF takes THEN s.used + 1 ELSE s.used,
              out |-> s.out \o IF takes THEN Converted(f, c, values[s.used + 1])
                               ELSE IF c = Percent THEN <<c>> ELSE <<Percent, c>>]
  IN FoldLeft(Turn, [at |-> 1, used |-> 0, out |-> <<>>], [k \in 1 .. Len(fmt) |-> k]).out

-----------------------------------------------------------------------------
(* udiv64: long division, bit by bit; the remainder has LongBits bits. *)
UDiv(n, d) ==
  LET Turn(s, i) ==
        LET r == (2 * s.r + ((n \div 2^i) % 2)) % 2^LongBits IN
        IF r >= d THEN [q |-> s.q + 2^i, r |-> r - d] ELSE [s EXCEPT !.r = r]
  IN IF d = 0 THEN [q |-> 2^LongBits - 1, r |-> 0]
     ELSE FoldLeft(Turn, [q |-> 0, r |-> 0], [k \in 1 .. LongBits |-> LongBits - k])

SignOf(n) == IF n < 0 THEN -1 ELSE 1
AbsOf(n) == IF n < 0 THEN -n ELSE n

DivDi3(n, d) == SignOf(n) * SignOf(d) * UDiv(AbsOf(n), AbsOf(d)).q

ModDi3(n, d) == SignOf(n) * UDiv(AbsOf(n), AbsOf(d)).r
=============================================================================
