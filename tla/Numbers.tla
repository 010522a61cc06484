-------------------------------- MODULE Numbers --------------------------------
(***************************************************************************)
(* The arithmetic of shell/shell.c: fixed-point numbers, the expressions   *)
(* of sci, and what stats, primes, fib, factor, seq and dec compute.       *)
(* A fixed-point number is an integer, so many parts of FpOne; integers    *)
(* wrap as in Library.  A sci expression is a sequence of characters, with *)
(* a name for one character.                                               *)
(***************************************************************************)
EXTENDS Library

CONSTANTS
  FpOne,      \* 65536
  PowTurns,   \* bits of an exponent that is reached
  MaxFact,    \* 12
  FpNamed     \* pi, e, phi, sqrt2 and tau in parts of FpOne

ASSUME NumbersAssumption ==
  /\ {FpOne, PowTurns, MaxFact} \subseteq Nat \ {0}
  /\ IntWord % (2 * FpOne) = 0
  /\ IntWord \div (2 * FpOne) < 2^PowTurns
  /\ DOMAIN FpNamed = {"pi", "e", "phi", "sqrt2", "tau"}

FpError == (IntWord \div 2) - 1

(* "/" and "%" of C, towards zero. *)
Quot(a, b) == SignOf(a) * SignOf(b) * (AbsOf(a) \div AbsOf(b))
Rest(a, b) == SignOf(a) * (AbsOf(a) % AbsOf(b))

-----------------------------------------------------------------------------
(* The product is shifted down, the quotient cut towards zero. *)
FpMul(a, b) == Wrap((a * b) \div FpOne)

FpDiv(a, b) == IF b = 0 THEN FpError ELSE Wrap(Quot(a * FpOne, b))

(* fp_pow for e >= 0, bit by bit *)
FpRaised(b, e) ==
  LET Turn(s, k) ==
        [r |-> IF (e \div 2^k) % 2 = 1 THEN FpMul(s.r, s.b) ELSE s.r,
         b |-> IF 2^k <= e THEN FpMul(s.b, s.b) ELSE s.b]
  IN FoldLeft(Turn, [r |-> FpOne, b |-> b], [k \in 1 .. PowTurns |-> k - 1]).r

FpPow(b, e) == IF e < 0 THEN FpDiv(FpOne, FpRaised(b, -e)) ELSE FpRaised(b, e)

(* fp_sqrt: Newton's steps, until one changes nothing. *)
FpSqrt(x) ==
  LET Better(y) == FpDiv(Wrap(y + FpDiv(x, y)), 2 * FpOne)
      first == FpDiv(x, 2 * FpOne) + FpOne
  IN IF x < 0 THEN FpError ELSE IF x = 0 THEN 0
     ELSE FoldLeft(LAMBDA y, turn : Better(y), first, [turn \in 1 .. 24 |-> turn])

(* The series of fp_exp, and of fp_ln, which ends at a term of zero. *)
FpExp(x) ==
  LET Term(s, n) == LET t == FpDiv(FpMul(s.term, x), n * FpOne) IN [term |-> t, sum |-> Wrap(s.sum + t)]
  IN IF AbsOf(x) > 4 * FpOne THEN FpError
     ELSE FoldLeft(Term, [term |-> FpOne, sum |-> FpOne], [n \in 1 .. 14 |-> n]).sum

FpLn(x) ==
  LET z == FpDiv(Wrap(x - FpOne), Wrap(x + FpOne))
      Term(s, n) == [pow |-> FpMul(s.pow, FpMul(z, z)), sum |-> Wrap(s.sum + FpDiv(s.pow, n * FpOne))]
  IN IF x <= 0 THEN FpError
     ELSE FpMul(FoldLeft(Term, [pow |-> z, sum |-> 0], [n \in 1 .. 16 |-> 2 * n - 1]).sum, 2 * FpOne)

FpLog10(x) == IF FpLn(x) = FpError THEN FpError ELSE FpDiv(FpLn(x), FpLn(10 * FpOne))

(* Euclid's steps; b / FP_ONE is the whole part. *)
GcdOf(a, b) ==
  LET Turn(s, k) == IF s[2] = 0 THEN s ELSE <<s[2], s[1] % s[2]>>
  IN FoldLeft(Turn, <<AbsOf(a), AbsOf(b)>>, [k \in 1 .. 2 * PowTurns |-> k])[1]

Factorial(n) == FoldLeft(LAMBDA f, i : f * i, 1, [i \in 1 .. n |-> i])

(* A power with an exponent that is no whole number goes through fp_ln. *)
Power(a, b) == IF Rest(b, FpOne) = 0 THEN FpPow(a, Quot(b, FpOne)) ELSE FpExp(FpMul(b, FpLn(a)))

(* What sci_apply makes of a name and its two arguments, the second zero   *)
(* when there is none.  The names of angles are left out.                  *)
Applied(name, a, b) ==
  LET x == Quot(a, FpOne)  y == Quot(b, FpOne)
      fine(v) == [value |-> Wrap(v), err |-> FALSE]
      bad == [value |-> 0, err |-> TRUE]
      third(v) == FpExp(FpDiv(FpLn(v), 3 * FpOne))
  IN CASE name = "sqrt"  -> fine(FpSqrt(a))
       [] name = "abs"   -> fine(AbsOf(a))
       [] name = "round" -> fine(((a + FpOne \div 2) \div FpOne) * FpOne)
       [] name = "floor" -> fine((a \div FpOne) * FpOne)
       [] name = "ceil"  -> fine(-((-a) \div FpOne) * FpOne)
       [] name = "min"   -> fine(IF a < b THEN a ELSE b)
       [] name = "max"   -> fine(IF a > b THEN a ELSE b)
       [] name = "gcd"   -> fine(GcdOf(x, y) * FpOne)
       [] name = "lcm"   -> fine(IF x = 0 \/ y = 0 THEN 0
                                 ELSE (AbsOf(x) \div GcdOf(x, y)) * AbsOf(y) * FpOne)
       [] name = "fact"  -> IF x < 0 \/ x > MaxFact THEN bad ELSE fine(Factorial(x) * FpOne)
       [] name = "mod"   -> IF b = 0 THEN bad ELSE fine(Rest(a, b))
       [] name = "hypot" -> fine(FpSqrt(Wrap(FpMul(a, a) + FpMul(b, b))))
       [] name = "avg"   -> fine(FpDiv(Wrap(a + b), 2 * FpOne))
       [] name = "cbrt"  -> fine(IF a < 0 THEN -third(-a) ELSE third(a))
       [] name = "exp"   -> fine(FpExp(a))
       [] name = "ln"    -> fine(FpLn(a))
       [] name = "log"   -> fine(FpLog10(a))
       [] name = "pow"   -> IF a < 0 /\ Rest(b, FpOne) # 0 THEN bad ELSE fine(Power(a, b))
       [] OTHER          -> bad

-----------------------------------------------------------------------------
(* The parser of sci: each function takes the place where it begins and    *)
(* gives back the value, the place where it stopped and whether an error   *)
(* was met.  What follows the end of an expression is not looked at.       *)
DigitOf == [d \in {"0", "1", "2", "3", "4", "5", "6", "7", "8", "9"} |->
  CHOOSE n \in 0 .. 9 : ToString(n) = d]

CharAt(s, k) == IF k <= Len(s) THEN s[k] ELSE " "

SciLeaf(value, at, err) == [value |-> value, at |-> at, err |-> err]

(* fp_parse of a number without a sign: digits of the whole part are not   *)
(* counted once it is large, nor more than seven behind the point.         *)
FpParsed(s, k) ==
  LET whole == Min({j \in k .. Len(s) + 1 : CharAt(s, j) \notin DOMAIN DigitOf})
      dot == CharAt(s, whole) = "."
      end == IF dot THEN Min({j \in whole + 1 .. Len(s) + 1 : CharAt(s, j) \notin DOMAIN DigitOf})
             ELSE whole
      ip == FoldLeft(LAMBDA n, c : IF n < 100000 THEN n * 10 + DigitOf[c] ELSE n, 0, SubSeq(s, k, whole - 1))
      frac == FoldLeft(LAMBDA f, j : f + DigitOf[s[j]] * (FpOne \div 10^(j - whole)), 0,
                       [j \in 1 .. Min({7, end - whole - 1}) |-> whole + j])
  IN SciLeaf(Wrap(ip * FpOne + frac), end, FALSE)

RECURSIVE SciExpr(_, _), SciFactor(_, _), SciProducts(_, _), SciSums(_, _)

SciClosed(s, k) == IF CharAt(s, k) = ")" THEN k + 1 ELSE k

(* What a function gives, whose arguments end at k. *)
SciGiven(s, v, k, err) == SciLeaf(v.value, SciClosed(s, k), err \/ v.err)

SciCall(s, name, a, b) == SciGiven(s, Applied(name, a.value, b.value), b.at, a.err \/ b.err)

SciArgs(s, name, a) ==
  SciCall(s, name, a, IF CharAt(s, a.at) = "," THEN SciExpr(s, a.at + 1) ELSE [a EXCEPT !.value = 0])

SciPrimary(s, k) ==
  LET c == CharAt(s, k) IN
  IF c = "(" THEN [SciExpr(s, k + 1) EXCEPT !.at = SciClosed(s, @)]
  ELSE IF c \in DOMAIN DigitOf \cup {"."} THEN FpParsed(s, k)
  ELSE IF c \in DOMAIN FpNamed THEN SciLeaf(FpNamed[c], k + 1, FALSE)
  ELSE IF c \in {" ", ")", ",", "*", "/", "^", "+", "-"} THEN SciLeaf(0, k, TRUE)
  ELSE SciArgs(s, c, SciExpr(s, IF CharAt(s, k + 1) = "(" THEN k + 2 ELSE k + 1))

SciPower(base, e) ==
  IF base.value < 0 /\ Rest(e.value, FpOne) # 0 THEN SciLeaf(0, e.at, TRUE)
  ELSE SciLeaf(Power(base.value, e.value), e.at, base.err \/ e.err)

SciRaised(s, base) ==
  IF CharAt(s, base.at) = "^" THEN SciPower(base, SciFactor(s, base.at + 1)) ELSE base

(* Signs bind less than "^", and its right side is a factor again. *)
SciFactor(s, k) ==
  LET first == Min({j \in k .. Len(s) + 1 : CharAt(s, j) \notin {"-", "+"}})
      neg == Cardinality({j \in k .. first - 1 : s[j] = "-"}) % 2 = 1
  IN [SciRaised(s, SciPrimary(s, first)) EXCEPT !.value = IF neg THEN Wrap(-@) ELSE @]

(* A product is given up at a division by zero. *)
SciProduct(s, v, f) ==
  IF CharAt(s, v.at) = "*"
  THEN SciProducts(s, SciLeaf(FpMul(v.value, f.value), f.at, v.err \/ f.err))
  ELSE IF f.value = 0 THEN SciLeaf(0, f.at, TRUE)
  ELSE SciProducts(s, SciLeaf(FpDiv(v.value, f.value), f.at, v.err \/ f.err))

(* The rest of a product whose value so far is v, and of a sum. *)
SciProducts(s, v) ==
  IF CharAt(s, v.at) \in {"*", "/"} THEN SciProduct(s, v, SciFactor(s, v.at + 1)) ELSE v

SciTerm(s, k) == SciProducts(s, SciFactor(s, k))

SciSum(s, v, t) ==
  SciLeaf(Wrap(IF CharAt(s, v.at) = "+" THEN v.value + t.value ELSE v.value - t.value),
          t.at, v.err \/ t.err)

SciSums(s, v) ==
  IF CharAt(s, v.at) \in {"+", "-"} THEN SciSums(s, SciSum(s, v, SciTerm(s, v.at + 1))) ELSE v

SciExpr(s, k) == SciSums(s, SciTerm(s, k))

(* cmd_sci *)
Sci(s) == LET v == SciExpr(s, 1) IN IF v.err THEN FpError ELSE v.value

-----------------------------------------------------------------------------
(* stats: the values, and those that are printed of them *)
Stats(vals) ==
  LET n == Len(vals)
      Swap(l, k) ==
        LET i == ((k - 1) \div n) + 1
            j == ((k - 1) % n) + 1 IN
        IF i < j /\ l[j] < l[i] THEN [l EXCEPT ![i] = l[j], ![j] = l[i]] ELSE l
      sorted == FoldLeft(Swap, vals, [k \in 1 .. n * n |-> k])
      Count(x) == Cardinality({j \in 1 .. n : sorted[j] = x})
      best == Min({i \in 1 .. n : \A j \in 1 .. n : Count(sorted[j]) <= Count(sorted[i])})
      mean == Quot(FoldLeft(LAMBDA s, x : s + x, 0, vals), n)
      h == (n \div 2) + 1
      variance == Quot(FoldLeft(LAMBDA s, x : s + FpMul(Wrap(x - mean), Wrap(x - mean)), 0, vals), n)
  IN [least |-> Min(ToSet(vals)), most |-> Max(ToSet(vals)), mean |-> mean,
      median |-> IF n % 2 = 1 THEN sorted[h] ELSE FpDiv(Wrap(sorted[h - 1] + sorted[h]), 2 * FpOne),
      mode |-> sorted[best], times |-> Count(sorted[best]),
      variance |-> variance, deviation |-> FpSqrt(Wrap(variance))]

(* primes: the sieve *)
Primes(limit) ==
  LET Strike(left, i) ==
        IF i * i <= limit /\ i \in left THEN left \ {i * j : j \in i .. limit \div i} ELSE left
  IN FoldLeft(Strike, 2 .. limit, [k \in 1 .. limit |-> k + 1])

Fib(n) ==
  FoldLeft(LAMBDA s, k : [a |-> s.b, b |-> s.a + s.b, out |-> Append(s.out, s.a)],
           [a |-> 0, b |-> 1, out |-> <<>>], [k \in 1 .. n |-> k]).out

(* factor: each divisor as often as it goes, and what is left over *)
Factors(n) ==
  LET Divide(s, k) ==
        IF s.d * s.d > s.n THEN s
        ELSE IF s.n % s.d = 0 THEN [s EXCEPT !.n = @ \div s.d, !.out = Append(@, s.d)]
        ELSE [s EXCEPT !.d = @ + 1]
      s == FoldLeft(Divide, [n |-> n, d |-> 2, out |-> <<>>], [k \in 1 .. n |-> k])
  IN IF s.n > 1 THEN Append(s.out, s.n) ELSE s.out

(* seq FIRST STEP LAST; a step of zero ends only above LAST. *)
SeqFrom(first, step, last) ==
  LET n == IF step > 0 THEN (last - first) \div step ELSE (first - last) \div (-step)
  IN [k \in 1 .. n + 1 |-> first + (k - 1) * step]
=============================================================================
