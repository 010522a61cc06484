-------------------------------- MODULE Ciphers --------------------------------
(***************************************************************************)
(* The ciphers and encodings of shell/shell.c.  A text is the sequence of  *)
(* its bytes: rot13 and base64 take the first argument, the others join    *)
(* all that follow with spaces (a buffer of 512 has room for every line    *)
(* that the shell reads).                                                  *)
(***************************************************************************)
EXTENDS Library

Small == 97 .. 122
Capital == 65 .. 90
Digit == 48 .. 57
Padding == 61

-----------------------------------------------------------------------------
(* A letter moved on by n in its alphabet; "% 26 + 26) % 26" makes what C  *)
(* leaves negative positive.                                               *)
Rotated(c, n) ==
  IF c \in Small THEN 97 + ((c - 97 + n) % 26)
  ELSE IF c \in Capital THEN 65 + ((c - 65 + n) % 26)
  ELSE c

Rot13(text) == [k \in DOMAIN text |-> Rotated(text[k], 13)]

Caesar(shift, text) == [k \in DOMAIN text |-> Rotated(text[k], shift)]

(* caesar --brute: the lines of all the shifts *)
Brute(text) == [s \in 0 .. 25 |-> Caesar(s, text)]

(* What a byte of the key moves by; what is no letter does not move. *)
KeyShift(c) == IF c \in Small THEN c - 97 ELSE IF c \in Capital THEN c - 65 ELSE 0

(* The key moves on at letters only. *)
KeyPlace(text, k) == Cardinality({j \in 1 .. k - 1 : text[j] \in Small \cup Capital})

Vigenere(key, decode, text) ==
  [k \in DOMAIN text |->
     LET n == KeyShift(key[(KeyPlace(text, k) % Len(key)) + 1])
     IN Rotated(text[k], IF decode THEN -n ELSE n)]

Atbash(text) ==
  [k \in DOMAIN text |->
     LET c == text[k] IN
     IF c \in Small THEN 122 - (c - 97) ELSE IF c \in Capital THEN 90 - (c - 65) ELSE c]

-----------------------------------------------------------------------------
HexDigit(n) == IF n < 10 THEN 48 + n ELSE 55 + n

HexVal(c) ==
  IF c \in Digit THEN c - 48
  ELSE IF c \in 97 .. 102 THEN c - 87
  ELSE IF c \in 65 .. 70 THEN c - 55 ELSE -1

(* letters, digits, "-", ".", "_" and "~" *)
Unreserved == Small \cup Capital \cup Digit \cup {45, 46, 95, 126}

UrlEncode(text) ==
  FlattenSeq([k \in DOMAIN text |->
    LET c == text[k] IN
    IF c \in Unreserved THEN <<c>>
    ELSE <<Percent, HexDigit((c \div 16) % 16), HexDigit(c % 16)>>])

(* A percent sign that no two hexadecimal digits follow stands for itself. *)
UrlDecode(text) ==
  LET Escape(k) ==
        /\ text[k] = Percent /\ k + 2 <= Len(text)
        /\ HexVal(text[k + 1]) >= 0 /\ HexVal(text[k + 2]) >= 0
      Take(s, k) ==
        IF s.skip > 0 THEN [s EXCEPT !.skip = @ - 1]
        ELSE IF Escape(k)
          THEN [out |-> Append(s.out, HexVal(text[k + 1]) * 16 + HexVal(text[k + 2])), skip |-> 2]
        ELSE [s EXCEPT !.out = Append(@, IF text[k] = Plus THEN Space32 ELSE text[k])]
  IN FoldLeftDomain(Take, [out |-> <<>>, skip |-> 0], text).out

(* dec, behind "0x": what is no digit counts as zero. *)
Dec(text) ==
  FoldLeft(LAMBDA v, c : Wrap(16 * v + IF HexVal(c) < 0 THEN 0 ELSE HexVal(c)), 0, text)

-----------------------------------------------------------------------------
Base64Char(n) ==
  IF n < 26 THEN 65 + n ELSE IF n < 52 THEN 71 + n ELSE IF n < 62 THEN n - 4
  ELSE IF n = 62 THEN Plus ELSE 47

(* Three bytes become four characters; the last are padded. *)
Base64(text) ==
  LET At(k) == IF k <= Len(text) THEN text[k] ELSE 0
      Group(g) ==
        LET i == 3 * (g - 1) + 1
            v == At(i) * 65536 + At(i + 1) * 256 + At(i + 2)
        IN << Base64Char(v \div 262144), Base64Char((v \div 4096) % 64),
              IF i + 1 <= Len(text) THEN Base64Char((v \div 64) % 64) ELSE Padding,
              IF i + 2 <= Len(text) THEN Base64Char(v % 64) ELSE Padding >>
  IN FlattenSeq([g \in 1 .. (Len(text) + 2) \div 3 |-> Group(g)])

-----------------------------------------------------------------------------
RomanValue == <<1000, 900, 500, 400, 100, 90, 50, 40, 10, 9, 5, 4, 1>>
RomanSign == << <<"M">>, <<"C", "M">>, <<"D">>, <<"C", "D">>, <<"C">>, <<"X", "C">>, <<"L">>,
                <<"X", "L">>, <<"X">>, <<"I", "X">>, <<"V">>, <<"I", "V">>, <<"I">> >>

(* roman N takes the greatest value that there is room for, again and      *)
(* again; each is taken three times at most.                               *)
Roman(n) ==
  LET Take(s, k) ==
        LET i == ((k - 1) \div 3) + 1 IN
        IF s.left < RomanValue[i] THEN s
        ELSE [left |-> s.left - RomanValue[i], out |-> s.out \o RomanSign[i]]
  IN FoldLeft(Take, [left |-> n, out |-> <<>>], [k \in 1 .. 39 |-> k]).out

SignValue(c) ==
  CASE c = "I" -> 1 [] c = "V" -> 5 [] c = "X" -> 10 [] c = "L" -> 50
    [] c = "C" -> 100 [] c = "D" -> 500 [] c = "M" -> 1000

(* roman -p: a sign before a greater one counts against the sum. *)
RomanParsed(signs) ==
  FoldLeftDomain(LAMBDA total, k :
    LET v == SignValue(signs[k]) IN
    IF k < Len(signs) /\ SignValue(signs[k + 1]) > v THEN total - v ELSE total + v, 0, signs)
=============================================================================
