----------------------------- MODULE DriverProofs -----------------------------
(***************************************************************************)
(* Proofs about the keyboard and the screen.  Readers of the keyboard      *)
(* never return what was not typed, return it in order until they are      *)
(* lapped, and no modifier sticks, wherever interrupts fall, for every     *)
(* size of the ring and set of keys.  The screen of any size shows what    *)
(* was printed and the line that is typed, and what is captured from it is *)
(* what a command printed.                                                 *)
(***************************************************************************)
EXTENDS Keyboard, Console, FiniteSetTheorems, SequenceTheorems,
        WellFoundedInduction, TLAPS

Unread == Len(typed) - Len(got)

(* The inductive invariant: count never exceeds the characters that are    *)
(* unread, less the one that a reader is about to take; what a reader      *)
(* loaded of it was right for the characters that were there then.         *)
CountBelow ==
  /\ count <= Unread
  /\ pc = "store" => loaded >= 1 /\ loaded <= Unread
  /\ pc = "take" => count <= Unread - 1

(* The slot of the k-th character from the tail on, and what the ring has. *)
Slot(k) == IF tail + k < Size THEN tail + k ELSE tail + k - Size

InRing ==
  ~lapped =>
    /\ Unread <= Size
    /\ head = Slot(Unread)
    /\ \A k \in 0 .. Unread - 1 : buffer[Slot(k)] = Len(got) + 1 + k

KInv == TypeOK /\ CountBelow /\ InRing /\ InOrder /\ NoStuckModifier

-----------------------------------------------------------------------------
(* The next slot of the ring.                                              *)
LEMMA NextSlot ==
  ASSUME NEW x \in 0 .. Size - 1
  PROVE  (x + 1) % Size = IF x + 1 < Size THEN x + 1 ELSE 0
<1>1. Size \in Nat /\ Size > 0 BY KeyboardAssumption
<1>2. CASE x + 1 < Size BY <1>1, <1>2
<1>3. CASE x + 1 = Size
  <2>1. Size % Size = 0 BY <1>1
  <2> QED BY <1>3, <2>1
<1> QED BY <1>1, <1>2, <1>3

LEMMA CharTyped ==
  ASSUME NEW k \in Keys
  PROVE  Char(k) \in [key : Keys, form : {"plain", "shifted", "control"}]
BY DEF Char

LEMMA Counts ==
  ASSUME KInv
  PROVE  /\ Size \in Nat /\ Size > 0
         /\ Len(typed) \in Nat /\ Len(got) \in Nat /\ Unread \in Nat /\ Unread = Len(typed) - Len(got)
         /\ count \in 0 .. Size /\ head \in 0 .. Size - 1 /\ tail \in 0 .. Size - 1 /\ loaded \in 0 .. Size
BY KeyboardAssumption DEF KInv, TypeOK, CountBelow, Unread

-----------------------------------------------------------------------------
(* A character that is put into the ring.                                  *)
LEMMA PutKeeps ==
  ASSUME KInv, NEW c \in [key : Keys, form : {"plain", "shifted", "control"}], Put(c), Interrupt,
         UNCHANGED <<mods, loaded, got, down>>
  PROVE  KInv'
<1>0. TypeOK /\ CountBelow /\ InRing /\ InOrder /\ NoStuckModifier BY DEF KInv
<1>1. pc' \in {"idle", "load", "hlt", "halted", "store", "take"}
      /\ (pc' = "store" => pc = "store") /\ (pc' = "take" => pc = "take")
  BY <1>0 DEF Interrupt, TypeOK
<1>2. NoStuckModifier' BY <1>0 DEF NoStuckModifier, mods
<1>3. CASE ~(count < Size)
  <2>1. UNCHANGED <<ring, typed, lapped, mods, loaded, got, down>> BY <1>3 DEF Put
  <2>2. TypeOK' BY <1>0, <1>1, <2>1 DEF TypeOK, ring, mods
  <2>3. CountBelow' BY <1>0, <1>1, <2>1 DEF CountBelow, Unread, ring
  <2>4. InRing' /\ InOrder' BY <1>0, <2>1 DEF InRing, InOrder, Unread, Slot, ring
  <2> QED BY <1>2, <2>2, <2>3, <2>4 DEF KInv
<1>4. CASE count < Size
  <2>0. /\ Size \in Nat /\ Size > 0 /\ Unread \in Nat
        /\ Len(typed) \in Nat /\ Len(got) \in Nat /\ Unread = Len(typed) - Len(got)
        /\ count \in 0 .. Size /\ head \in 0 .. Size - 1 /\ tail \in 0 .. Size - 1
    BY Counts
  <2>1. /\ buffer' = [buffer EXCEPT ![head] = Len(typed) + 1]
        /\ head' = (head + 1) % Size /\ count' = count + 1 /\ typed' = Append(typed, c)
        /\ lapped' = (lapped \/ Unread >= Size) /\ tail' = tail
        /\ loaded' = loaded /\ got' = got /\ UNCHANGED <<mods, down>>
    BY <1>4 DEF Put, Unread
  <2>2. head' = IF head + 1 < Size THEN head + 1 ELSE 0 BY <2>0, <2>1, NextSlot
  <2>3. typed' \in Seq([key : Keys, form : {"plain", "shifted", "control"}])
        /\ Len(typed') = Len(typed) + 1
    BY <1>0, <2>1, AppendProperties DEF TypeOK
  <2>4. Unread' = Unread + 1 BY <2>0, <2>1, <2>3 DEF Unread
  <2>5. TypeOK'
    <3>1. buffer' \in [0 .. Size - 1 -> 0 .. Len(typed')]
      BY <1>0, <2>0, <2>1, <2>3, SMTT(30) DEF TypeOK
    <3>2. head' \in 0 .. Size - 1 /\ count' \in 0 .. Size BY <1>4, <2>0, <2>1, <2>2
    <3>3. {shift, ctrl, alt, capslock, lapped}' \subseteq BOOLEAN
      BY <1>0, <2>1 DEF TypeOK, mods
    <3>4. got' \in Seq(0 .. Len(typed'))
      <4>1. \A i \in 1 .. Len(got) : got[i] \in 0 .. Len(typed') BY <1>0, <2>0, <2>3 DEF TypeOK
      <4>2. got \in Seq(0 .. Len(typed)) BY <1>0 DEF TypeOK
      <4> QED BY <4>1, <4>2, <2>1
    <3> QED BY <1>0, <1>1, <2>1, <2>3, <3>1, <3>2, <3>3, <3>4 DEF TypeOK
  <2>6. CountBelow'
    BY <1>0, <1>1, <2>0, <2>1, <2>4, Counts DEF CountBelow
  <2>7. InRing'
    <3> SUFFICES ASSUME ~lapped' PROVE InRing' BY DEF InRing
    <3>0. ~lapped /\ ~(Unread >= Size)
      <4>1. lapped' = (lapped \/ Unread >= Size) BY <2>1
      <4> QED BY <4>1, Zenon
    <3>1. ~lapped /\ Unread < Size BY <2>0, <3>0
    <3>2. head = Slot(Unread) /\ \A k \in 0 .. Unread - 1 : buffer[Slot(k)] = Len(got) + 1 + k
      BY <1>0, <3>1 DEF InRing
    <3>3. \A k \in Nat : Slot(k)' = Slot(k) BY <2>1 DEF Slot
    <3>4. head' = Slot(Unread + 1) BY <2>0, <2>2, <3>1, <3>2 DEF Slot
    <3>5. ASSUME NEW k \in 0 .. Unread PROVE buffer'[Slot(k)] = Len(got) + 1 + k
      <4>1. Slot(k) \in 0 .. Size - 1 BY <2>0, <3>1 DEF Slot
      <4>2. CASE k = Unread
        <5>1. buffer'[head] = Len(typed) + 1 BY <1>0, <2>0, <2>1 DEF TypeOK
        <5> QED BY <2>0, <3>2, <4>2, <5>1
      <4>3. CASE k < Unread
        <5>1. Slot(k) # head BY <2>0, <3>1, <3>2, <4>3 DEF Slot
        <5>2. buffer'[Slot(k)] = buffer[Slot(k)] BY <1>0, <2>1, <4>1, <5>1 DEF TypeOK
        <5>3. k \in 0 .. Unread - 1 BY <2>0, <4>3
        <5> QED BY <3>2, <5>2, <5>3
      <4>4. k = Unread \/ k < Unread BY <2>0
      <4> QED BY <4>2, <4>3, <4>4
    <3>6. ASSUME NEW k \in 0 .. Unread' - 1 PROVE buffer'[Slot(k)'] = Len(got') + 1 + k
      <4>1. k \in 0 .. Unread /\ k \in Nat BY <2>0, <2>4
      <4>2. Slot(k)' = Slot(k) BY <3>3, <4>1
      <4> QED BY <2>1, <3>5, <4>1, <4>2
    <3>7. Unread' <= Size /\ head' = Slot(Unread)'
      <4>1. Slot(Unread)' = IF tail' + Unread' < Size THEN tail' + Unread' ELSE tail' + Unread' - Size
        BY DEF Slot
      <4>2. Slot(Unread)' = IF tail + (Unread + 1) < Size THEN tail + (Unread + 1)
                            ELSE tail + (Unread + 1) - Size
        BY <2>1, <2>4, <4>1
      <4>3. Slot(Unread)' = Slot(Unread + 1) BY <4>2 DEF Slot
      <4>4. Unread' <= Size BY <2>0, <2>4, <3>1
      <4> QED BY <3>4, <4>3, <4>4
    <3> QED BY <3>6, <3>7 DEF InRing
  <2>8. InOrder' BY <1>0, <2>1 DEF InOrder
  <2> QED BY <1>2, <2>5, <2>6, <2>7, <2>8 DEF KInv
<1> QED BY <1>3, <1>4

(* Interrupts that put nothing into the ring.                              *)
LEMMA OtherInterrupts ==
  ASSUME KInv, Interrupt, UNCHANGED <<ring, loaded, typed, got, lapped>>,
         {shift', ctrl', alt', capslock'} \subseteq BOOLEAN, down' \subseteq Modifiers,
         NoStuckModifier'
  PROVE  KInv'
<1>0. TypeOK /\ CountBelow /\ InRing /\ InOrder BY DEF KInv
<1>1. pc' \in {"idle", "load", "hlt", "halted", "store", "take"}
      /\ (pc' = "store" => pc = "store") /\ (pc' = "take" => pc = "take")
  BY <1>0 DEF Interrupt, TypeOK
<1>2. TypeOK' BY <1>0, <1>1 DEF TypeOK, ring
<1>3. CountBelow' BY <1>0, <1>1 DEF CountBelow, Unread, ring
<1>4. InRing' /\ InOrder' BY <1>0 DEF InRing, InOrder, Unread, Slot, ring
<1> QED BY <1>2, <1>3, <1>4 DEF KInv

(* Steps of a reader that take nothing out of the ring.                    *)
LEMMA ReaderSteps ==
  ASSUME KInv, UNCHANGED <<buffer, head, tail, got, kept>>,
         pc' \in {"idle", "load", "hlt", "halted", "store", "take"},
         loaded' \in 0 .. Size, count' \in 0 .. Size, CountBelow'
  PROVE  KInv'
<1>0. TypeOK /\ InRing /\ InOrder /\ NoStuckModifier BY DEF KInv
<1>1. TypeOK' BY <1>0 DEF TypeOK, kept, mods
<1>2. InRing' /\ InOrder' BY <1>0 DEF InRing, InOrder, Unread, Slot, kept
<1>3. NoStuckModifier' BY <1>0 DEF NoStuckModifier, kept, mods
<1> QED BY <1>1, <1>2, <1>3 DEF KInv

LEMMA TakeKeeps ==
  ASSUME KInv, Take
  PROVE  KInv'
<1>0. TypeOK /\ CountBelow /\ InRing /\ InOrder /\ NoStuckModifier BY DEF KInv
<1>1. /\ Size \in Nat /\ Size > 0 /\ Unread \in Nat
      /\ Len(typed) \in Nat /\ Len(got) \in Nat /\ Unread = Len(typed) - Len(got)
      /\ count \in 0 .. Size /\ head \in 0 .. Size - 1 /\ tail \in 0 .. Size - 1
  BY Counts
<1>2. /\ pc = "take" /\ got' = Append(got, buffer[tail]) /\ tail' = (tail + 1) % Size /\ pc' = "idle"
      /\ UNCHANGED <<buffer, head, count, loaded, kept>>
  BY DEF Take
<1>3. tail' = IF tail + 1 < Size THEN tail + 1 ELSE 0 BY <1>1, <1>2, NextSlot
<1>4. buffer[tail] \in 0 .. Len(typed) BY <1>0, <1>1 DEF TypeOK
<1>5. /\ got' \in Seq(0 .. Len(typed)) /\ Len(got') = Len(got) + 1
      /\ \A i \in 1 .. Len(got) : got'[i] = got[i]
      /\ got'[Len(got) + 1] = buffer[tail]
  BY <1>0, <1>2, <1>4, AppendProperties DEF TypeOK
<1>6. Unread' = Unread - 1 /\ Unread >= 1
  BY <1>0, <1>1, <1>2, <1>5 DEF Unread, kept, CountBelow
<1>7. TypeOK' BY <1>0, <1>1, <1>2, <1>3, <1>5 DEF TypeOK, kept, mods
<1>8. CountBelow' BY <1>0, <1>1, <1>2, <1>6 DEF CountBelow
<1>9. ASSUME ~lapped PROVE Unread <= Size /\ buffer[tail] = Len(got) + 1
  <2>1. Slot(0) = tail /\ 0 \in 0 .. Unread - 1 BY <1>1, <1>6 DEF Slot
  <2> QED BY <1>0, <1>1, <1>9, <2>1 DEF InRing
<1>10. InRing'
  <2> SUFFICES ASSUME ~lapped PROVE InRing' BY <1>2 DEF InRing, kept
  <2>1. /\ head = Slot(Unread) /\ Unread <= Size
        /\ \A k \in 0 .. Unread - 1 : buffer[Slot(k)] = Len(got) + 1 + k
    BY <1>0 DEF InRing
  <2>2. \A k \in 0 .. Unread - 1 : Slot(k)' = Slot(k + 1)
    BY <1>1, <1>3, <2>1 DEF Slot
  <2>3. Slot(Unread)' = head'
    <3>1. Unread - 1 \in 0 .. Unread - 1 BY <1>1, <1>6
    <3>2. Slot(Unread)' = IF tail' + Unread' < Size THEN tail' + Unread' ELSE tail' + Unread' - Size
      BY DEF Slot
    <3> QED BY <1>1, <1>2, <1>3, <1>6, <2>1, <3>2, SMTT(30) DEF Slot
  <2>4. ASSUME NEW k \in 0 .. Unread' - 1 PROVE buffer'[Slot(k)'] = Len(got') + 1 + k
    <3>1. k \in 0 .. Unread - 1 /\ k + 1 \in 0 .. Unread - 1 BY <1>1, <1>6
    <3>2. buffer[Slot(k + 1)] = Len(got) + 1 + (k + 1) BY <2>1, <3>1
    <3>3. Slot(k)' = Slot(k + 1) BY <2>2, <3>1
    <3> QED BY <1>1, <1>2, <1>5, <3>1, <3>2, <3>3
  <2>5. Unread' <= Size BY <1>1, <1>6, <2>1
  <2> QED BY <2>3, <2>4, <2>5 DEF InRing
<1>11. InOrder'
  <2> SUFFICES ASSUME ~lapped PROVE got' = [i \in 1 .. Len(got') |-> i]
    BY <1>2 DEF InOrder, kept
  <2>1. got = [i \in 1 .. Len(got) |-> i] BY <1>0 DEF InOrder
  <2>2. \A i \in 1 .. Len(got') : got'[i] = i BY <1>1, <1>5, <1>9, <2>1
  <2>3. DOMAIN got' = 1 .. Len(got') /\ got' = [i \in DOMAIN got' |-> got'[i]] BY <1>5
  <2> QED BY <2>2, <2>3
<1>12. NoStuckModifier' BY <1>0, <1>2 DEF NoStuckModifier, kept, mods
<1> QED BY <1>7, <1>8, <1>10, <1>11, <1>12 DEF KInv

-----------------------------------------------------------------------------
LEMMA KInit == Init => KInv
<1> SUFFICES ASSUME Init PROVE KInv OBVIOUS
<1> USE KeyboardAssumption DEF Init
<1>1. TypeOK
  <2>1. Size \in Nat /\ Size > 0 /\ Len(typed) = 0 /\ Len(got) = 0 OBVIOUS
  <2>2. buffer \in [0 .. Size - 1 -> 0 .. Len(typed)] BY <2>1
  <2>3. head \in 0 .. Size - 1 /\ tail \in 0 .. Size - 1 /\ count \in 0 .. Size /\ loaded \in 0 .. Size
    BY <2>1
  <2>4. typed \in Seq([key : Keys, form : {"plain", "shifted", "control"}]) OBVIOUS
  <2>5. got \in Seq(0 .. Len(typed)) OBVIOUS
  <2> QED BY <2>2, <2>3, <2>4, <2>5 DEF TypeOK
<1>2. CountBelow BY DEF CountBelow, Unread
<1>3. InRing BY DEF InRing, Unread, Slot
<1>4. InOrder
  <2>1. <<>> = [i \in 1 .. 0 |-> i] OBVIOUS
  <2> QED BY <2>1 DEF InOrder
<1>5. NoStuckModifier BY DEF NoStuckModifier
<1> QED BY <1>1, <1>2, <1>3, <1>4, <1>5 DEF KInv

LEMMA KNext == KInv /\ [Next]_vars => KInv'
<1> SUFFICES ASSUME KInv, [Next]_vars PROVE KInv' OBVIOUS
<1>0. TypeOK /\ CountBelow /\ NoStuckModifier BY DEF KInv
<1>1. ASSUME NEW k \in Keys, PressKey(k) PROVE KInv'
  BY <1>1, CharTyped, PutKeeps DEF PressKey
<1>2. ASSUME NEW m \in Modifiers, PressModifier(m) PROVE KInv'
  <2>1. {shift', ctrl', alt', capslock'} \subseteq BOOLEAN /\ down' \subseteq Modifiers
    BY <1>0, <1>2 DEF PressModifier, TypeOK
  <2>2. NoStuckModifier' BY <1>0, <1>2 DEF PressModifier, NoStuckModifier
  <2> QED BY <1>2, <2>1, <2>2, OtherInterrupts DEF PressModifier
<1>3. ASSUME NEW m \in Modifiers, ReleaseModifier(m) PROVE KInv'
  <2>1. {shift', ctrl', alt', capslock'} \subseteq BOOLEAN /\ down' \subseteq Modifiers
    BY <1>0, <1>3 DEF ReleaseModifier, TypeOK
  <2>2. NoStuckModifier' BY <1>0, <1>3 DEF ReleaseModifier, NoStuckModifier, ShiftKeys
  <2> QED BY <1>3, <2>1, <2>2, OtherInterrupts DEF ReleaseModifier
<1>4. CASE Timer
  <2>1. {shift', ctrl', alt', capslock'} \subseteq BOOLEAN /\ down' \subseteq Modifiers
    BY <1>0, <1>4 DEF Timer, TypeOK, mods
  <2>2. NoStuckModifier' BY <1>0, <1>4 DEF Timer, NoStuckModifier, mods
  <2> QED BY <1>4, <2>1, <2>2, OtherInterrupts DEF Timer
<1>5. CASE Getchar
  BY <1>0, <1>5, ReaderSteps DEF Getchar, TypeOK, CountBelow, Unread, ring, kept
<1>6. CASE ReadNonblocking
  BY <1>0, <1>6, ReaderSteps DEF ReadNonblocking, TypeOK, CountBelow, Unread, ring, kept
<1>7. CASE Load
  BY <1>0, <1>7, ReaderSteps DEF Load, TypeOK, CountBelow, Unread, ring, kept
<1>8. CASE Hlt
  BY <1>0, <1>8, ReaderSteps DEF Hlt, TypeOK, CountBelow, Unread, ring, kept
<1>9. CASE StoreCount
  <2>1. /\ count' = loaded - 1 /\ loaded' = 0 /\ pc' = "take" /\ Unread' = Unread
        /\ loaded >= 1 /\ loaded <= Unread /\ loaded \in 0 .. Size
    BY <1>0, <1>9 DEF StoreCount, TypeOK, CountBelow, Unread, kept
  <2>2. CountBelow' BY <2>1, Counts DEF CountBelow
  <2>3. loaded' \in 0 .. Size /\ count' \in 0 .. Size BY <2>1, Counts
  <2> QED BY <1>9, <2>1, <2>2, <2>3, ReaderSteps DEF StoreCount
<1>10. CASE Take BY <1>10, TakeKeeps
<1>11. CASE UNCHANGED vars
  BY <1>0, <1>11, ReaderSteps DEF vars, ring, reader, kept, TypeOK, CountBelow, Unread
<1> QED
  BY <1>1, <1>2, <1>3, <1>4, <1>5, <1>6, <1>7, <1>8, <1>9, <1>10, <1>11 DEF Next, Read

THEOREM KInductive == Spec => []KInv
BY KInit, KNext, PTL DEF Spec

(* Wherever interrupts fall in the accesses of keyboard_getchar, it takes  *)
(* nothing that keyboard_irq_handler did not put in.                       *)
THEOREM NeverAheadAlways == Spec => []NeverAhead
<1>1. KInv => NeverAhead
  <2> SUFFICES ASSUME KInv PROVE NeverAhead OBVIOUS
  <2>1. TypeOK /\ CountBelow BY DEF KInv
  <2> QED BY <2>1, Counts DEF NeverAhead, CountBelow, Unread
<1> QED BY <1>1, KInductive, PTL

(* Until it is lapped, it takes the characters in the order they were      *)
(* typed in, and each of them.                                             *)
THEOREM InOrderAlways == Spec => []InOrder
<1>1. KInv => InOrder BY DEF KInv
<1> QED BY <1>1, KInductive, PTL

(* A modifier is on only while one of its keys is down.                    *)
THEOREM NoStuckModifierAlways == Spec => []NoStuckModifier
<1>1. KInv => NoStuckModifier BY DEF KInv
<1> QED BY <1>1, KInductive, PTL
-----------------------------------------------------------------------------
(* Places of the screen, counted through.                                  *)
Screen == [cells : [Spots -> Int], row : Nat, col : Nat, cursor : Nat \X Nat, moved : BOOLEAN]

At(s) == Index(<<s.row, s.col>>)

LEMMA ConsoleConstants ==
  /\ Height \in Nat /\ Height >= 1 /\ Width \in Nat /\ Width >= 1 /\ TabStop \in Nat /\ TabStop >= 1
  /\ LineMax \in Nat /\ LineMax >= 1 /\ LineTab \in Nat /\ MaxSerial \in Nat /\ MaxCaptures \in Nat
BY ConsoleAssumption

LEMMA RowsApart ==
  ASSUME NEW r \in Nat, NEW q \in Nat
  PROVE  /\ r * Width \in Nat /\ (r + 1) * Width = r * Width + Width
         /\ r < q => r * Width + Width <= q * Width
<1>1. Width \in Nat /\ Width >= 1 BY ConsoleConstants
<1>2. r * Width \in Nat /\ (r + 1) * Width = r * Width + Width BY <1>1
<1>3. ASSUME r < q PROVE r * Width + Width <= q * Width
  <2>1. PICK e \in Nat : q = r + 1 + e
    <3>1. q - (r + 1) \in Nat /\ q = r + 1 + (q - (r + 1)) BY <1>3
    <3> QED BY <3>1
  <2>2. q * Width = r * Width + Width + e * Width BY <1>1, <2>1
  <2>3. e * Width \in Nat BY <1>1
  <2> QED BY <1>1, <1>2, <2>2, <2>3
<1> QED BY <1>2, <1>3

LEMMA IndexIs ==
  ASSUME NEW r \in Nat, NEW c \in Nat
  PROVE  Index(<<r, c>>) = r * Width + c /\ Index(<<r, c>>) \in Nat
BY RowsApart DEF Index

LEMMA SpotIs ==
  ASSUME NEW p \in Spots
  PROVE  /\ p[1] \in Nat /\ p[1] <= Height - 1 /\ p[2] \in Nat /\ p[2] <= Width - 1
         /\ p = <<p[1], p[2]>> /\ Index(p) \in Nat /\ Index(p) = p[1] * Width + p[2]
<1>1. p[1] \in 0 .. Height - 1 /\ p[2] \in 0 .. Width - 1 /\ p = <<p[1], p[2]>> BY DEF Spots
<1>2. p[1] \in Nat /\ p[2] \in Nat BY <1>1
<1>3. p[1] <= Height - 1 /\ p[2] <= Width - 1 BY <1>1, ConsoleConstants
<1> QED BY <1>1, <1>2, <1>3, IndexIs

LEMMA IndexOrder ==
  ASSUME NEW p \in Spots, NEW q \in Spots
  PROVE  /\ p[1] < q[1] => Index(p) < Index(q)
         /\ p[1] = q[1] => Index(q) - Index(p) = q[2] - p[2]
         /\ Index(p) = Index(q) => p = q
<1>1. PICK r, a, e, b \in Nat : r = p[1] /\ a = p[2] /\ e = q[1] /\ b = q[2] BY SpotIs
<1>2. /\ a <= Width - 1 /\ b <= Width - 1 /\ Index(p) = r * Width + a /\ Index(q) = e * Width + b
      /\ p = <<r, a>> /\ q = <<e, b>>
  BY <1>1, SpotIs
<1>3. PICK w, x, y \in Nat : w = Width /\ x = r * Width /\ y = e * Width BY RowsApart, ConsoleConstants
<1>4. (r < e => x + w <= y) /\ (e < r => y + w <= x) BY <1>3, RowsApart
<1>5. r = e => x = y BY <1>3
<1>6. r < e => x + a < y + b BY <1>2, <1>3, <1>4
<1>7. e < r => y + b < x + a BY <1>2, <1>3, <1>4
<1>8. r = e => (y + b) - (x + a) = b - a BY <1>5
<1>9. x + a = y + b => r = e /\ a = b BY <1>5, <1>6, <1>7
<1> QED BY <1>1, <1>2, <1>3, <1>6, <1>8, <1>9

(* The place a row further down.                                           *)
LEMMA SpotBelow ==
  ASSUME NEW p \in Spots, p[1] < Height - 1
  PROVE  <<p[1] + 1, p[2]>> \in Spots /\ Index(<<p[1] + 1, p[2]>>) = Index(p) + Width
<1>1. PICK r, a, h, w \in Nat : r = p[1] /\ a = p[2] /\ h = Height /\ w = Width BY SpotIs, ConsoleConstants
<1>2. r + 1 \in 0 .. h - 1 /\ a \in 0 .. w - 1 BY <1>1, SpotIs
<1>3. <<r + 1, a>> \in Spots BY <1>1, <1>2 DEF Spots
<1>4. PICK x \in Nat : x = r * Width BY RowsApart
<1>5. Index(p) = x + a /\ Index(<<r + 1, a>>) = (x + w) + a BY <1>1, <1>4, SpotIs, IndexIs, RowsApart
<1> QED BY <1>1, <1>3, <1>5

LEMMA SpotLast ==
  ASSUME NEW p \in Spots, NEW q \in Spots, ~(p[1] < Height - 1)
  PROVE  Index(q) < Index(p) + Width
<1>1. PICK r, a, e, b, h, w \in Nat : /\ r = p[1] /\ a = p[2] /\ e = q[1] /\ b = q[2]
                                     /\ h = Height /\ w = Width
  BY SpotIs, ConsoleConstants
<1>2. e <= r /\ b <= w - 1 BY <1>1, SpotIs
<1>3. PICK x, y \in Nat : x = r * Width /\ y = e * Width BY RowsApart
<1>4. y <= x
  <2>1. CASE e < r
    <3>1. y + w <= x BY <1>1, <1>3, <2>1, RowsApart
    <3> QED BY <3>1
  <2>2. CASE e = r BY <1>3, <2>2
  <2> QED BY <1>2, <2>1, <2>2
<1>5. Index(p) = x + a /\ Index(q) = y + b BY <1>1, <1>3, SpotIs
<1> QED BY <1>1, <1>2, <1>4, <1>5

LEMMA TabIs ==
  ASSUME NEW c \in Nat
  PROVE  ((c + TabStop) \div TabStop) * TabStop \in Nat /\ ((c + TabStop) \div TabStop) * TabStop > c
<1>1. PICK w \in Nat : w = TabStop /\ w >= 1 BY ConsoleConstants
<1>2. PICK x \in Nat : x = c + w BY <1>1
<1>3. PICK q \in Nat : q = x \div w BY <1>1, <1>2
<1>4. q * w + (x % w) = x /\ x % w \in 0 .. w - 1
  <2>1. x % w \in 0 .. w - 1 BY <1>1, <1>2
  <2>2. x = w * (x \div w) + (x % w) BY <1>1, <1>2
  <2>3. w * q = q * w BY <1>1, <1>3
  <2> QED BY <1>3, <2>1, <2>2, <2>3
<1>5. PICK y \in Nat : y = q * w BY <1>1, <1>3
<1>6. y > x - w BY <1>4, <1>5
<1> QED BY <1>1, <1>2, <1>3, <1>5, <1>6

(* What vga_putchar does: the character goes to the cursor, which moves on *)
(* by one or more, and perhaps all goes a row up.                          *)
Visible(c) == c \notin {NewLine, Tabulator, Backspace}

Ink(s, c, p) == IF Visible(c) /\ p = <<s.row, s.col>> THEN c ELSE s.cells[p]

Puts(s, t, c, d) ==
  /\ t \in Screen /\ <<t.row, t.col>> \in Spots /\ t.cursor = <<t.row, t.col>>
  /\ t.moved = (s.moved \/ d # 0)
  /\ At(t) + d >= At(s) + 1
  /\ Visible(c) => At(t) + d = At(s) + 1
  /\ Visible(c) /\ s.col + 1 < Width => d = 0 /\ t.row = s.row /\ t.col = s.col + 1
  /\ \A p \in Spots :
       \/ \E q \in Spots : Index(q) = Index(p) + d /\ t.cells[p] = Ink(s, c, q)
       \/ t.cells[p] = NoChar /\ \A q \in Spots : Index(q) < Index(p) + d

(* Before the cursor is back on the screen.                                *)
Between(s, a, c, w) ==
  /\ a \in Screen /\ a.moved = s.moved /\ a.cells = [p \in Spots |-> Ink(s, c, p)]
  /\ \/ a.row = s.row /\ a.col > s.col /\ a.col < w /\ (Visible(c) => a.col = s.col + 1)
     \/ a.row = s.row + 1 /\ a.col = 0 /\ (Visible(c) => s.col = w - 1)

LEMMA NextRowIs ==
  ASSUME NEW s \in Screen
  PROVE  /\ NextRow(s) \in Screen /\ NextRow(s).row = s.row + 1 /\ NextRow(s).col = 0
         /\ NextRow(s).cells = s.cells /\ NextRow(s).moved = s.moved
<1>1. PICK r \in Nat : r = s.row + 1 BY DEF Screen
<1> DEFINE a == [s EXCEPT !.row = r, !.col = 0]
<1>2. NextRow(s) = a BY <1>1 DEF NextRow
<1>3. a \in Screen BY DEF Screen
<1>4. a.row = r BY DEF Screen
<1>5. a.col = 0 BY DEF Screen
<1>6. a.cells = s.cells BY DEF Screen
<1>7. a.moved = s.moved BY DEF Screen
<1> HIDE DEF a
<1> QED BY <1>1, <1>2, <1>3, <1>4, <1>5, <1>6, <1>7

(* A visible character at the cursor.                                      *)
Inked(s, c) == [s EXCEPT !.col = s.col + 1, !.cells[<<s.row, s.col>>] = c]

LEMMA InkedIs ==
  ASSUME NEW s \in Screen, NEW c \in Int, Visible(c)
  PROVE  /\ Inked(s, c) \in Screen /\ Inked(s, c).row = s.row /\ Inked(s, c).col = s.col + 1
         /\ Inked(s, c).cells = [p \in Spots |-> Ink(s, c, p)] /\ Inked(s, c).moved = s.moved
<1>1. PICK m \in Nat : m = s.col + 1 BY DEF Screen
<1>2. PICK f : f = [s.cells EXCEPT ![<<s.row, s.col>>] = c] OBVIOUS
<1>3. s.cells \in [Spots -> Int] BY DEF Screen
<1>4. f = [p \in Spots |-> Ink(s, c, p)] BY <1>2, <1>3 DEF Ink
<1>5. f \in [Spots -> Int] BY <1>2, <1>3
<1> DEFINE a == [s EXCEPT !.col = m, !.cells = f]
<1>6. a \in Screen BY <1>5 DEF Screen
<1>7. a.row = s.row BY DEF Screen
<1>8. a.col = m BY DEF Screen
<1>9. a.cells = f BY DEF Screen
<1>10. a.moved = s.moved BY DEF Screen
<1>11. Inked(s, c) = a BY <1>1, <1>2 DEF Inked
<1> HIDE DEF a
<1> QED BY <1>1, <1>4, <1>6, <1>7, <1>8, <1>9, <1>10, <1>11

LEMMA WrappedIs ==
  ASSUME NEW s \in Screen, <<s.row, s.col>> \in Spots, NEW c \in Int, c # Backspace
  PROVE  Between(s, Wrapped(Placed(s, c)), c, Width)
<1>1. PICK w \in Nat : w = Width /\ w >= 1 BY ConsoleConstants
<1>2. PICK i, j \in Nat : i = s.row /\ j = s.col BY DEF Screen
<1>3. j <= w - 1
  <2>1. j \in 0 .. Width - 1 BY <1>2 DEF Spots
  <2> QED BY <1>1, <2>1
<1>4. <<i, j>> \in Spots /\ s.cells \in [Spots -> Int] BY <1>2 DEF Screen
<1> DEFINE ink == [p \in Spots |-> Ink(s, c, p)]
<1>5. CASE c = NewLine
  <2>1. ~Visible(c) BY <1>5 DEF Visible
  <2>2. ink = s.cells BY <1>4, <2>1 DEF Ink
  <2> DEFINE a == NextRow(s)
  <2>3. Placed(s, c) = a BY <1>5 DEF Placed
  <2>4. a \in Screen /\ a.row = i + 1 /\ a.col = 0 /\ a.cells = s.cells /\ a.moved = s.moved
    BY <1>2, NextRowIs
  <2> HIDE DEF a
  <2>5. Wrapped(a) = a BY <1>1, <2>4 DEF Wrapped
  <2> QED BY <1>1, <1>2, <2>1, <2>2, <2>3, <2>4, <2>5 DEF Between
<1>6. CASE c = Tabulator
  <2>1. ~Visible(c) /\ c # NewLine BY <1>6 DEF Visible, Tabulator, NewLine
  <2>2. ink = s.cells BY <1>4, <2>1 DEF Ink
  <2>3. PICK x \in Nat : x = ((j + TabStop) \div TabStop) * TabStop /\ x > j BY TabIs
  <2> DEFINE a == [s EXCEPT !.col = x]
  <2>4. Placed(s, c) = a BY <1>2, <1>6, <2>1, <2>3 DEF Placed
  <2>5. a \in Screen /\ a.row = i /\ a.col = x /\ a.cells = s.cells /\ a.moved = s.moved
    BY <1>2 DEF Screen
  <2> HIDE DEF a
  <2>6. CASE x >= w
    <3> DEFINE b == NextRow(a)
    <3>1. Wrapped(a) = b BY <1>1, <2>5, <2>6 DEF Wrapped
    <3>2. b \in Screen /\ b.row = i + 1 /\ b.col = 0 /\ b.cells = s.cells /\ b.moved = s.moved
      BY <2>5, NextRowIs
    <3> HIDE DEF b
    <3> QED BY <1>1, <1>2, <2>1, <2>2, <2>4, <3>1, <3>2 DEF Between
  <2>7. CASE ~(x >= w)
    <3>1. Wrapped(a) = a BY <1>1, <2>5, <2>7 DEF Wrapped
    <3> QED BY <1>1, <1>2, <2>1, <2>2, <2>3, <2>4, <2>5, <2>7, <3>1 DEF Between
  <2> QED BY <2>6, <2>7
<1>7. CASE c # NewLine /\ c # Tabulator
  <2>1. Visible(c) BY <1>7 DEF Visible
  <2> DEFINE a == Inked(s, c)
  <2>4. Placed(s, c) = a BY <1>7 DEF Placed, Inked
  <2>5. a \in Screen /\ a.row = i /\ a.col = j + 1 /\ a.cells = ink /\ a.moved = s.moved
    BY <1>2, <2>1, InkedIs
  <2> HIDE DEF a
  <2>6. CASE j + 1 >= w
    <3> DEFINE b == NextRow(a)
    <3>1. Wrapped(a) = b BY <1>1, <2>5, <2>6 DEF Wrapped
    <3>2. b \in Screen /\ b.row = i + 1 /\ b.col = 0 /\ b.cells = ink /\ b.moved = s.moved
      BY <2>5, NextRowIs
    <3>3. j = w - 1 BY <1>3, <2>6
    <3> HIDE DEF b
    <3> QED BY <1>1, <1>2, <2>1, <2>4, <3>1, <3>2, <3>3 DEF Between
  <2>7. CASE ~(j + 1 >= w)
    <3>1. Wrapped(a) = a BY <1>1, <2>5, <2>7 DEF Wrapped
    <3> QED BY <1>1, <1>2, <2>1, <2>4, <2>5, <2>7, <3>1 DEF Between
  <2> QED BY <2>6, <2>7
<1> QED BY <1>5, <1>6, <1>7

LEMMA ScrollIs ==
  ASSUME NEW a \in Screen
  PROVE  /\ VgaScroll(a) \in Screen /\ VgaScroll(a).row = Height - 1 /\ VgaScroll(a).col = a.col
         /\ VgaScroll(a).moved = TRUE
         /\ VgaScroll(a).cells = [p \in Spots |-> IF p[1] < Height - 1 THEN a.cells[<<p[1] + 1, p[2]>>] ELSE NoChar]
<1>1. PICK h \in Nat : h = Height - 1 BY ConsoleConstants
<1>2. PICK f : f = [p \in Spots |-> IF p[1] < Height - 1 THEN a.cells[<<p[1] + 1, p[2]>>] ELSE NoChar] OBVIOUS
<1>3. f \in [Spots -> Int]
  <2>1. a.cells \in [Spots -> Int] BY DEF Screen
  <2>2. ASSUME NEW p \in Spots PROVE (IF p[1] < Height - 1 THEN a.cells[<<p[1] + 1, p[2]>>] ELSE NoChar) \in Int
    <3>1. CASE p[1] < Height - 1 BY <2>1, <3>1, SpotBelow
    <3>2. CASE ~(p[1] < Height - 1) BY <3>2 DEF NoChar
    <3> QED BY <3>1, <3>2
  <2> QED BY <1>2, <2>2
<1> DEFINE t == [a EXCEPT !.cells = f, !.row = h, !.moved = TRUE]
<1>4. t \in Screen BY <1>3 DEF Screen
<1>5. t.row = h BY DEF Screen
<1>6. t.col = a.col BY DEF Screen
<1>7. t.moved = TRUE BY DEF Screen
<1>8. t.cells = f BY DEF Screen
<1>9. VgaScroll(a) = t BY <1>1, <1>2 DEF VgaScroll
<1> HIDE DEF t
<1> QED BY <1>1, <1>2, <1>4, <1>5, <1>6, <1>7, <1>8, <1>9

Shown(t) == [t EXCEPT !.cursor = <<t.row, t.col>>]

LEMMA ShownIs ==
  ASSUME NEW t \in Screen
  PROVE  /\ Shown(t) \in Screen /\ Shown(t).row = t.row /\ Shown(t).col = t.col
         /\ Shown(t).cells = t.cells /\ Shown(t).moved = t.moved /\ Shown(t).cursor = <<t.row, t.col>>
<1>1. Shown(t) \in Screen BY DEF Screen, Shown
<1>2. Shown(t).row = t.row BY DEF Screen, Shown
<1>3. Shown(t).col = t.col BY DEF Screen, Shown
<1>4. Shown(t).cells = t.cells BY DEF Screen, Shown
<1>5. Shown(t).moved = t.moved BY DEF Screen, Shown
<1>6. Shown(t).cursor = <<t.row, t.col>> BY DEF Screen, Shown
<1> QED BY <1>1, <1>2, <1>3, <1>4, <1>5, <1>6

LEMMA PutIs ==
  ASSUME NEW s \in Screen, <<s.row, s.col>> \in Spots, NEW c \in Int, c # Backspace
  PROVE  \E d \in Nat : Puts(s, VgaPutchar(s, c), c, d)
<1>1. PICK w, h \in Nat : w = Width /\ w >= 1 /\ h = Height /\ h >= 1 BY ConsoleConstants
<1>2. PICK i, j \in Nat : i = s.row /\ j = s.col BY DEF Screen
<1>3. j <= w - 1 /\ i <= h - 1
  <2>1. j \in 0 .. Width - 1 /\ i \in 0 .. Height - 1 BY <1>2 DEF Spots
  <2> QED BY <1>1, <2>1
<1> DEFINE a == Wrapped(Placed(s, c))
<1>4. Between(s, a, c, w) BY <1>1, WrappedIs
<1>5. VgaPutchar(s, c) = Shown(Fitted(a)) BY DEF VgaPutchar, Shown
<1> HIDE DEF a
<1>6. PICK m, n \in Nat : m = a.row /\ n = a.col BY <1>4 DEF Between, Screen
<1>7. \/ m = i /\ n > j /\ n < w /\ (Visible(c) => n = j + 1)
      \/ m = i + 1 /\ n = 0 /\ (Visible(c) => j = w - 1)
  BY <1>2, <1>4, <1>6 DEF Between
<1>8. PICK x \in Nat : x = i * Width /\ (i + 1) * Width = x + w BY <1>1, RowsApart
<1>9. At(s) = x + j BY <1>2, <1>8, IndexIs DEF At
<1>10. \A p \in Spots : a.cells[p] = Ink(s, c, p) BY <1>4 DEF Between
<1>11. a \in Screen /\ a.moved = s.moved /\ s.moved \in BOOLEAN BY <1>4 DEF Between, Screen
<1>12. CASE m >= h
  <2>1. m = h /\ i = h - 1 /\ n = 0 /\ (Visible(c) => j = w - 1) BY <1>3, <1>7, <1>12
  <2> DEFINE t == Shown(VgaScroll(a))
  <2>2. VgaPutchar(s, c) = t BY <1>1, <1>5, <1>6, <1>12 DEF Fitted
  <2>3. /\ t \in Screen /\ t.row = i /\ t.col = 0 /\ t.moved = TRUE /\ t.cursor = <<t.row, t.col>>
        /\ t.cells = [p \in Spots |-> IF p[1] < Height - 1 THEN a.cells[<<p[1] + 1, p[2]>>] ELSE NoChar]
    <3> DEFINE b == VgaScroll(a)
    <3>1. /\ b \in Screen /\ b.row = Height - 1 /\ b.col = a.col /\ b.moved = TRUE
          /\ b.cells = [p \in Spots |-> IF p[1] < Height - 1 THEN a.cells[<<p[1] + 1, p[2]>>] ELSE NoChar]
      BY <1>11, ScrollIs
    <3> HIDE DEF b
    <3>2. t \in Screen /\ t.row = b.row /\ t.col = b.col /\ t.moved = b.moved /\ t.cursor = <<b.row, b.col>> /\ t.cells = b.cells
      BY <3>1, ShownIs DEF b
    <3>3. b.row = i /\ b.col = 0 BY <1>1, <1>6, <2>1, <3>1
    <3> QED BY <3>1, <3>2, <3>3
  <2> HIDE DEF t
  <2>4. <<t.row, t.col>> \in Spots BY <1>1, <1>3, <2>3 DEF Spots
  <2>5. At(t) = x BY <1>8, <2>3, IndexIs DEF At
  <2>6. At(t) + w >= At(s) + 1 /\ (Visible(c) => At(t) + w = At(s) + 1) BY <1>3, <1>9, <2>1, <2>5
  <2>7. ~(Visible(c) /\ s.col + 1 < Width) BY <1>1, <1>2, <2>1
  <2>8. ASSUME NEW p \in Spots
        PROVE  \/ \E q \in Spots : Index(q) = Index(p) + w /\ t.cells[p] = Ink(s, c, q)
               \/ t.cells[p] = NoChar /\ \A q \in Spots : Index(q) < Index(p) + w
    <3>1. CASE p[1] < Height - 1
      <4>1. <<p[1] + 1, p[2]>> \in Spots /\ Index(<<p[1] + 1, p[2]>>) = Index(p) + w BY <1>1, <3>1, SpotBelow
      <4>2. t.cells[p] = Ink(s, c, <<p[1] + 1, p[2]>>) BY <1>10, <2>3, <3>1, <4>1
      <4> QED BY <4>1, <4>2
    <3>2. CASE ~(p[1] < Height - 1)
      <4>1. t.cells[p] = NoChar BY <2>3, <3>2
      <4>2. \A q \in Spots : Index(q) < Index(p) + w BY <1>1, <3>2, SpotLast
      <4> QED BY <4>1, <4>2
    <3> QED BY <3>1, <3>2
  <2>9. w # 0 BY <1>1
  <2>10. Puts(s, t, c, w) BY <1>11, <2>3, <2>4, <2>6, <2>7, <2>8, <2>9 DEF Puts
  <2> QED BY <2>2, <2>10
<1>13. CASE ~(m >= h)
  <2> DEFINE t == Shown(a)
  <2>1. VgaPutchar(s, c) = t BY <1>1, <1>5, <1>6, <1>13 DEF Fitted
  <2>2. t \in Screen /\ t.row = m /\ t.col = n /\ t.moved = s.moved /\ t.cursor = <<t.row, t.col>> /\ t.cells = a.cells
    BY <1>6, <1>11, ShownIs
  <2> HIDE DEF t
  <2>3. <<t.row, t.col>> \in Spots
    <3>1. m \in 0 .. h - 1 /\ n \in 0 .. w - 1 BY <1>1, <1>3, <1>7, <1>13
    <3> QED BY <1>1, <2>2, <3>1 DEF Spots
  <2>4. PICK y \in Nat : y = m * Width BY RowsApart
  <2>5. At(t) = y + n BY <2>2, <2>4, IndexIs DEF At
  <2>6. (m = i => y = x) /\ (m = i + 1 => y = x + w) BY <1>8, <2>4
  <2>7. At(t) + 0 >= At(s) + 1 /\ (Visible(c) => At(t) + 0 = At(s) + 1)
    BY <1>3, <1>7, <1>9, <2>5, <2>6
  <2>8. Visible(c) /\ s.col + 1 < Width => t.row = s.row /\ t.col = s.col + 1
    BY <1>1, <1>2, <1>7, <2>2
  <2>9. ASSUME NEW p \in Spots PROVE Index(p) = Index(p) + 0 /\ t.cells[p] = Ink(s, c, p)
    BY <1>10, <2>2, SpotIs
  <2>10. t.moved = (s.moved \/ 0 # 0) BY <1>11, <2>2
  <2>11. Puts(s, t, c, 0) BY <2>2, <2>3, <2>7, <2>8, <2>9, <2>10 DEF Puts
  <2> QED BY <2>1, <2>11
<1> QED BY <1>12, <1>13

-----------------------------------------------------------------------------
(* What is on the screen: characters in the order of printing, up to the   *)
(* cursor, and what the captures under way will find there.                *)
Drawn(s, n) ==
  /\ s \in Screen /\ <<s.row, s.col>> \in Spots
  /\ \A p \in Spots : s.cells[p] \in {NoChar, PromptSign} \cup (1 .. n)
  /\ \A p \in Spots : Index(p) >= At(s) => s.cells[p] = NoChar
  /\ \A p, q \in Spots : Index(p) < Index(q) /\ s.cells[p] > 0 /\ s.cells[q] > 0 => s.cells[p] < s.cells[q]

Capture == [row : Nat, col : Nat, first : Nat \ {0}, whole : BOOLEAN]
From(cap) == Index(<<cap.row, cap.col>>)

Captured(s, n, tk, cap) ==
  /\ \A p \in Spots : Index(p) >= From(cap) => s.cells[p] = NoChar \/ s.cells[p] >= cap.first
  /\ cap.whole /\ ~s.moved =>
       /\ From(cap) <= At(s)
       /\ \A x \in cap.first .. n : x \in tk \/ \E p \in Spots : Index(p) >= From(cap) /\ s.cells[p] = x

(* A character that is printed after all that is on the screen.            *)
Writable(s, n, c) ==
  Visible(c) => /\ c \in {NoChar, PromptSign} \cup (1 .. n)
                /\ \A p \in Spots : c > 0 /\ s.cells[p] > 0 => s.cells[p] < c

LEMMA InkDrawn ==
  ASSUME NEW s, NEW n \in Nat, NEW c \in Int, Drawn(s, n), Writable(s, n, c)
  PROVE  /\ \A p \in Spots : Ink(s, c, p) \in {NoChar, PromptSign} \cup (1 .. n)
         /\ \A p \in Spots : Index(p) >= At(s) + 1 => Ink(s, c, p) = NoChar
         /\ \A p, q \in Spots : Index(p) < Index(q) /\ Ink(s, c, p) > 0 /\ Ink(s, c, q) > 0 => Ink(s, c, p) < Ink(s, c, q)
<1>1. PICK h \in Spots : h = <<s.row, s.col>> BY DEF Drawn
<1>2. At(s) = Index(h) /\ Index(h) \in Nat BY <1>1, SpotIs DEF At
<1>3. \A p \in Spots : Ink(s, c, p) = IF Visible(c) /\ p = h THEN c ELSE s.cells[p] BY <1>1 DEF Ink
<1>4. ASSUME NEW p \in Spots PROVE Ink(s, c, p) \in {NoChar, PromptSign} \cup (1 .. n)
  BY <1>3 DEF Drawn, Writable
<1>5. ASSUME NEW p \in Spots, Index(p) >= At(s) + 1 PROVE Ink(s, c, p) = NoChar
  <2>1. Index(p) >= At(s) /\ p # h BY <1>2, <1>5, SpotIs
  <2> QED BY <1>3, <2>1 DEF Drawn
<1>6. ASSUME NEW p \in Spots, NEW q \in Spots, Index(p) < Index(q), Ink(s, c, p) > 0, Ink(s, c, q) > 0
      PROVE  Ink(s, c, p) < Ink(s, c, q)
  <2>1. CASE Visible(c) /\ p = h
    <3>1. Index(q) >= At(s) + 1 BY <1>2, <1>6, <2>1, SpotIs
    <3>2. Ink(s, c, q) = 0 BY <1>5, <3>1 DEF NoChar
    <3> QED BY <1>6, <3>2
  <2>2. CASE Visible(c) /\ q = h /\ p # h
    <3>1. Ink(s, c, q) = c /\ Ink(s, c, p) = s.cells[p] BY <1>3, <2>2
    <3> QED BY <1>6, <2>2, <3>1 DEF Writable
  <2>3. CASE ~(Visible(c) /\ (p = h \/ q = h))
    <3>1. Ink(s, c, q) = s.cells[q] /\ Ink(s, c, p) = s.cells[p] BY <1>3, <2>3
    <3> QED BY <1>6, <3>1 DEF Drawn
  <2> QED BY <2>1, <2>2, <2>3
<1> QED BY <1>4, <1>5, <1>6

(* Where a cell that is not blank came from.                               *)
LEMMA CameFrom ==
  ASSUME NEW s, NEW t, NEW c \in Int, NEW d \in Nat, Puts(s, t, c, d), NEW p \in Spots, t.cells[p] # NoChar
  PROVE  \E q \in Spots : Index(q) = Index(p) + d /\ t.cells[p] = Ink(s, c, q)
BY DEF Puts

LEMMA DrawnPut ==
  ASSUME NEW s, NEW t, NEW n \in Nat, NEW c \in Int, NEW d \in Nat,
         Drawn(s, n), Writable(s, n, c), Puts(s, t, c, d)
  PROVE  Drawn(t, n)
<1>1. t \in Screen /\ <<t.row, t.col>> \in Spots /\ At(t) + d >= At(s) + 1 /\ At(t) \in Nat /\ At(s) \in Nat
  <2>1. t \in Screen /\ <<t.row, t.col>> \in Spots /\ At(t) + d >= At(s) + 1 BY DEF Puts
  <2>2. <<s.row, s.col>> \in Spots BY DEF Drawn
  <2> QED BY <2>1, <2>2, SpotIs DEF At
<1>2. ASSUME NEW p \in Spots PROVE t.cells[p] \in {NoChar, PromptSign} \cup (1 .. n)
  <2>1. CASE t.cells[p] = NoChar BY <2>1
  <2>2. CASE t.cells[p] # NoChar
    <3>1. PICK q \in Spots : t.cells[p] = Ink(s, c, q) BY <2>2, CameFrom
    <3> QED BY <3>1, InkDrawn
  <2> QED BY <2>1, <2>2
<1>3. ASSUME NEW p \in Spots, Index(p) >= At(t) PROVE t.cells[p] = NoChar
  <2>1. SUFFICES ASSUME t.cells[p] # NoChar PROVE FALSE OBVIOUS
  <2>2. PICK q \in Spots : Index(q) = Index(p) + d /\ t.cells[p] = Ink(s, c, q) BY <2>1, CameFrom
  <2>3. Index(q) >= At(s) + 1 BY <1>1, <1>3, <2>2, SpotIs
  <2> QED BY <2>1, <2>2, <2>3, InkDrawn
<1>4. ASSUME NEW p \in Spots, NEW q \in Spots, Index(p) < Index(q), t.cells[p] > 0, t.cells[q] > 0
      PROVE  t.cells[p] < t.cells[q]
  <2>1. t.cells[p] # NoChar /\ t.cells[q] # NoChar BY <1>4 DEF NoChar
  <2>2. PICK u \in Spots : Index(u) = Index(p) + d /\ t.cells[p] = Ink(s, c, u) BY <2>1, CameFrom
  <2>3. PICK v \in Spots : Index(v) = Index(q) + d /\ t.cells[q] = Ink(s, c, v) BY <2>1, CameFrom
  <2>4. Index(u) < Index(v) BY <1>4, <2>2, <2>3, SpotIs
  <2> QED BY <1>4, <2>2, <2>3, <2>4, InkDrawn
<1> QED BY <1>1, <1>2, <1>3, <1>4 DEF Drawn

(* A character that moves nothing.                                         *)
LEMMA PutsInPlace ==
  ASSUME NEW s, NEW t, NEW c \in Int, Puts(s, t, c, 0)
  PROVE  \A p \in Spots : t.cells[p] = Ink(s, c, p)
<1> SUFFICES ASSUME NEW p \in Spots PROVE t.cells[p] = Ink(s, c, p) OBVIOUS
<1>1. \/ \E q \in Spots : Index(q) = Index(p) + 0 /\ t.cells[p] = Ink(s, c, q)
      \/ \A q \in Spots : Index(q) < Index(p) + 0
  BY DEF Puts
<1>2. Index(p) \in Nat /\ Index(p) + 0 = Index(p) BY SpotIs
<1>3. PICK q \in Spots : Index(q) = Index(p) /\ t.cells[p] = Ink(s, c, q) BY <1>1, <1>2
<1>4. q = p BY <1>3, IndexOrder
<1> QED BY <1>3, <1>4

LEMMA PutsStill ==
  ASSUME NEW s, NEW t, NEW c \in Int, NEW d \in Nat, Puts(s, t, c, d), ~t.moved
  PROVE  d = 0 /\ ~s.moved /\ At(t) >= At(s) + 1 /\ \A p \in Spots : t.cells[p] = Ink(s, c, p)
<1>1. d = 0 /\ ~s.moved
  <2>1. t.moved = (s.moved \/ d # 0) BY Zenon DEF Puts
  <2>2. ~(s.moved \/ d # 0) BY <2>1, Zenon
  <2> QED BY <2>2
<1>2. t \in Screen /\ <<t.row, t.col>> \in Spots /\ At(t) + d >= At(s) + 1 BY DEF Puts
<1>3. At(t) \in Nat BY <1>2, SpotIs DEF At
<1> QED BY <1>1, <1>2, <1>3, PutsInPlace

Adds(c, n, m) == (~Visible(c) /\ m = n) \/ (Visible(c) /\ c = m /\ m = n + 1)

LEMMA CapturedPut ==
  ASSUME NEW s, NEW t, NEW n \in Nat, NEW m \in Nat, NEW c \in Int, NEW d \in Nat, NEW tk,
         NEW cap \in Capture, cap.first <= n + 1, Drawn(s, n), Captured(s, n, tk, cap),
         Puts(s, t, c, d), Adds(c, n, m)
  PROVE  Captured(t, m, tk, cap)
<1>1. PICK h \in Spots : h = <<s.row, s.col>> BY DEF Drawn
<1>2. At(s) = Index(h) /\ Index(h) \in Nat BY <1>1, SpotIs DEF At
<1>3. \A p \in Spots : Ink(s, c, p) = IF Visible(c) /\ p = h THEN c ELSE s.cells[p] BY <1>1 DEF Ink
<1>4. PICK f, b \in Nat : f = cap.first /\ b = From(cap) /\ f > 0
  <2>1. cap.first \in Nat \ {0} /\ From(cap) \in Nat BY IndexIs DEF Capture, From
  <2> QED BY <2>1
<1>5. ASSUME NEW p \in Spots, Index(p) >= From(cap) PROVE t.cells[p] = NoChar \/ t.cells[p] >= cap.first
  <2>1. SUFFICES ASSUME t.cells[p] # NoChar PROVE t.cells[p] >= cap.first OBVIOUS
  <2>2. PICK q \in Spots : Index(q) = Index(p) + d /\ t.cells[p] = Ink(s, c, q) BY <2>1, CameFrom
  <2>3. Index(q) >= From(cap) BY <1>4, <1>5, <2>2, SpotIs
  <2>4. CASE Visible(c) /\ q = h
    <3>1. t.cells[p] = c /\ c = n + 1 BY <1>3, <2>2, <2>4 DEF Adds
    <3> QED BY <3>1
  <2>5. CASE ~(Visible(c) /\ q = h)
    <3>1. t.cells[p] = s.cells[q] BY <1>3, <2>2, <2>5
    <3> QED BY <2>1, <2>3, <3>1 DEF Captured
  <2> QED BY <2>4, <2>5
<1>6. ASSUME cap.whole, ~t.moved
      PROVE  /\ From(cap) <= At(t)
             /\ \A x \in cap.first .. m : x \in tk \/ \E p \in Spots : Index(p) >= From(cap) /\ t.cells[p] = x
  <2>1. ~s.moved /\ At(t) >= At(s) + 1 /\ \A p \in Spots : t.cells[p] = Ink(s, c, p) BY <1>6, PutsStill
  <2>2. At(t) \in Nat
    <3>1. <<t.row, t.col>> \in Spots BY DEF Puts
    <3> QED BY <3>1, SpotIs DEF At
  <2>3. b <= Index(h) BY <1>2, <1>4, <1>6, <2>1 DEF Captured
  <2>4. From(cap) <= At(t) BY <1>2, <1>4, <2>1, <2>2, <2>3
  <2>5. ASSUME NEW x \in cap.first .. m, x \notin tk
        PROVE  \E p \in Spots : Index(p) >= From(cap) /\ t.cells[p] = x
    <3>1. CASE Visible(c) /\ x = c
      <4>1. t.cells[h] = x BY <1>3, <2>1, <3>1
      <4> QED BY <1>4, <2>3, <4>1
    <3>2. CASE ~(Visible(c) /\ x = c)
      <4>1. x \in cap.first .. n BY <1>4, <2>5, <3>2 DEF Adds
      <4>2. PICK p \in Spots : Index(p) >= From(cap) /\ s.cells[p] = x BY <1>6, <2>1, <2>5, <4>1 DEF Captured
      <4>3. CASE p # h BY <1>3, <2>1, <4>2, <4>3
      <4>4. CASE p = h
        <5>1. x = 0 BY <1>1, <1>2, <4>2, <4>4 DEF Drawn, NoChar
        <5>2. x > 0 BY <1>4, <2>5
        <5> QED BY <5>1, <5>2
      <4> QED BY <4>3, <4>4
    <3> QED BY <3>1, <3>2
  <2> QED BY <2>4, <2>5
<1> QED BY <1>5, <1>6 DEF Captured

(* The last characters before the cursor are the first m of a line.        *)
Lined(s, l, m) ==
  \A k \in 1 .. m, p \in Spots : Index(p) = At(s) - m + k - 1 => s.cells[p] = l[k]

LEMMA LinedPut ==
  ASSUME NEW s, NEW t, NEW n \in Nat, NEW c \in Int, NEW d \in Nat, Drawn(s, n), Puts(s, t, c, d),
         Visible(c), NEW l, NEW m \in Nat, Lined(s, l, m), l[m + 1] = c
  PROVE  Lined(t, l, m + 1)
<1>1. PICK h \in Spots : h = <<s.row, s.col>> BY DEF Drawn
<1>2. At(s) = Index(h) /\ Index(h) \in Nat BY <1>1, SpotIs DEF At
<1>3. \A p \in Spots : Ink(s, c, p) = IF p = h THEN c ELSE s.cells[p] BY <1>1 DEF Ink
<1>4. At(t) + d = At(s) + 1 BY DEF Puts
<1>5. At(t) \in Nat
  <2>1. <<t.row, t.col>> \in Spots BY DEF Puts
  <2> QED BY <2>1, SpotIs DEF At
<1>6. ASSUME NEW k \in 1 .. m + 1, NEW p \in Spots, Index(p) = At(t) - (m + 1) + k - 1
      PROVE  t.cells[p] = l[k]
  <2>1. Index(p) + d = Index(h) - m + k - 1 BY <1>2, <1>4, <1>5, <1>6
  <2>2. ~(Index(h) < Index(p) + d) BY <1>2, <2>1
  <2>3. PICK q \in Spots : Index(q) = Index(p) + d /\ t.cells[p] = Ink(s, c, q) BY <2>2 DEF Puts
  <2>4. CASE k = m + 1
    <3>1. Index(q) = Index(h) BY <1>2, <2>1, <2>3, <2>4
    <3>2. q = h BY <3>1, IndexOrder
    <3> QED BY <1>3, <2>3, <2>4, <3>2
  <2>5. CASE k # m + 1
    <3>1. k \in 1 .. m /\ Index(q) = At(s) - m + k - 1 BY <1>2, <2>1, <2>3, <2>5
    <3>2. q # h BY <1>2, <3>1
    <3> QED BY <1>3, <2>3, <3>1, <3>2 DEF Lined
  <2> QED BY <2>4, <2>5
<1> QED BY <1>6 DEF Lined

-----------------------------------------------------------------------------
(* Backspace.                                                              *)
Backs(s, t) ==
  /\ t \in Screen /\ t.cursor = <<t.row, t.col>> /\ t.moved = s.moved /\ t.row = s.row
  /\ s.col = 0 => t.col = 0 /\ t.cells = s.cells
  /\ s.col # 0 => t.col = s.col - 1 /\ t.cells = [s.cells EXCEPT ![<<s.row, s.col - 1>>] = NoChar]

LEMMA BackIs ==
  ASSUME NEW s \in Screen, <<s.row, s.col>> \in Spots
  PROVE  Backs(s, VgaPutchar(s, Backspace))
<1>1. s.row \in 0 .. Height - 1 /\ s.col \in 0 .. Width - 1 BY DEF Spots
<1>2. ~(s.row >= Height) /\ ~(s.col >= Width) /\ s.row \in Nat /\ s.col \in Nat BY <1>1, ConsoleConstants
<1>3. Backspace # NewLine /\ Backspace # Tabulator BY DEF Backspace, NewLine, Tabulator
<1>4. CASE s.col = 0
  <2>1. Placed(s, Backspace) = s BY <1>3, <1>4 DEF Placed
  <2>2. VgaPutchar(s, Backspace) = Shown(s) BY <1>2, <2>1 DEF VgaPutchar, Wrapped, Fitted, Shown
  <2> QED BY <1>4, <2>2, ShownIs DEF Backs
<1>5. CASE s.col # 0
  <2>1. PICK m \in Nat : m = s.col - 1 BY <1>2, <1>5
  <2>2. PICK f : f = [s.cells EXCEPT ![<<s.row, s.col - 1>>] = NoChar] OBVIOUS
  <2>3. f \in [Spots -> Int]
    <3>1. s.cells \in [Spots -> Int] BY DEF Screen
    <3>2. f = [p \in Spots |-> IF p = <<s.row, s.col - 1>> THEN NoChar ELSE s.cells[p]] BY <2>2, <3>1
    <3>3. \A p \in Spots : (IF p = <<s.row, s.col - 1>> THEN NoChar ELSE s.cells[p]) \in Int BY <3>1 DEF NoChar
    <3> QED BY <3>2, <3>3
  <2> DEFINE a == [s EXCEPT !.col = m, !.cells = f]
  <2>4. a \in Screen BY <2>3 DEF Screen
  <2>5. a.row = s.row BY DEF Screen
  <2>6. a.col = m BY DEF Screen
  <2>7. a.cells = f BY DEF Screen
  <2>8. a.moved = s.moved BY DEF Screen
  <2>9. Placed(s, Backspace) = a BY <1>3, <1>5, <2>1, <2>2 DEF Placed
  <2> HIDE DEF a
  <2>10. ~(a.row >= Height) /\ ~(a.col >= Width) BY <1>2, <2>1, <2>5, <2>6, ConsoleConstants
  <2>11. VgaPutchar(s, Backspace) = Shown(a) BY <2>9, <2>10 DEF VgaPutchar, Wrapped, Fitted, Shown
  <2> DEFINE t == Shown(a)
  <2>12. /\ t \in Screen /\ t.row = a.row /\ t.col = a.col /\ t.cells = a.cells /\ t.moved = a.moved
         /\ t.cursor = <<a.row, a.col>>
    BY <2>4, ShownIs
  <2> HIDE DEF t
  <2>13. Backs(s, t) BY <1>5, <2>1, <2>2, <2>5, <2>6, <2>7, <2>8, <2>12 DEF Backs
  <2> QED BY <2>11, <2>13 DEF t
<1> QED BY <1>4, <1>5

LEMMA BackCells ==
  ASSUME NEW s, NEW t, Backs(s, t), s \in Screen, <<s.row, s.col>> \in Spots
  PROVE  /\ <<t.row, t.col>> \in Spots /\ At(s) \in Nat /\ At(t) \in Nat
         /\ s.col = 0 => At(t) = At(s) /\ t.cells = s.cells
         /\ s.col # 0 => /\ At(t) = At(s) - 1
                         /\ \A p \in Spots : t.cells[p] = IF Index(p) = At(t) THEN NoChar ELSE s.cells[p]
<1>1. PICK i, j, w, x \in Nat : i = s.row /\ j = s.col /\ w = Width /\ x = i * Width
  <2>1. s.row \in Nat /\ s.col \in Nat /\ Width \in Nat /\ s.row * Width \in Nat BY ConsoleConstants, RowsApart DEF Screen
  <2> QED BY <2>1
<1>2. i \in 0 .. Height - 1 /\ j \in 0 .. Width - 1 BY <1>1 DEF Spots
<1>3. At(s) = x + j BY <1>1, IndexIs DEF At
<1>4. CASE j = 0
  <2>1. t.row = i /\ t.col = 0 /\ t.cells = s.cells BY <1>1, <1>4 DEF Backs
  <2>2. At(t) = At(s) BY <1>1, <1>4, <2>1 DEF At
  <2>3. <<t.row, t.col>> = <<s.row, s.col>> BY <1>1, <1>4, <2>1
  <2>4. At(s) \in Nat BY <1>3
  <2>5. s.col = 0 BY <1>1, <1>4
  <2> QED BY <2>1, <2>2, <2>3, <2>4, <2>5
<1>5. CASE j # 0
  <2>1. PICK m \in Nat : m = j - 1 BY <1>5
  <2>2. t.row = i /\ t.col = m /\ t.cells = [s.cells EXCEPT ![<<i, m>>] = NoChar] BY <1>1, <1>5, <2>1 DEF Backs
  <2>3. At(t) = x + m BY <1>1, <2>2, IndexIs DEF At
  <2>4. m \in 0 .. Width - 1 BY <1>1, <1>2, <2>1
  <2>5. PICK h \in Spots : h = <<i, m>> BY <1>2, <2>4 DEF Spots
  <2>6. At(t) = Index(h) BY <2>2, <2>5 DEF At
  <2>7. ASSUME NEW p \in Spots PROVE t.cells[p] = IF Index(p) = At(t) THEN NoChar ELSE s.cells[p]
    <3>1. s.cells \in [Spots -> Int] BY DEF Screen
    <3>2. t.cells[p] = IF p = h THEN NoChar ELSE s.cells[p] BY <2>2, <2>5, <3>1
    <3>3. Index(p) = Index(h) <=> p = h BY IndexOrder
    <3> QED BY <2>6, <3>2, <3>3
  <2>8. At(t) = At(s) - 1 BY <1>3, <2>1, <2>3
  <2>9. <<t.row, t.col>> \in Spots /\ s.col # 0 BY <1>1, <1>5, <2>2, <2>5
  <2> QED BY <1>3, <2>3, <2>7, <2>8, <2>9
<1> QED BY <1>4, <1>5

LEMMA DrawnBack ==
  ASSUME NEW s, NEW t, NEW n \in Nat, Drawn(s, n), Backs(s, t)
  PROVE  Drawn(t, n)
<1>1. s \in Screen /\ <<s.row, s.col>> \in Spots /\ t \in Screen BY DEF Drawn, Backs
<1>2. CASE s.col = 0
  <2>1. <<t.row, t.col>> \in Spots /\ At(t) = At(s) /\ t.cells = s.cells BY <1>1, <1>2, BackCells
  <2> QED BY <1>1, <2>1 DEF Drawn
<1>3. CASE s.col # 0
  <2>1. /\ <<t.row, t.col>> \in Spots /\ At(s) \in Nat /\ At(t) = At(s) - 1
        /\ \A p \in Spots : t.cells[p] = IF Index(p) = At(t) THEN NoChar ELSE s.cells[p]
    BY <1>1, <1>3, BackCells
  <2>2. ASSUME NEW p \in Spots PROVE t.cells[p] \in {NoChar, PromptSign} \cup (1 .. n) BY <2>1 DEF Drawn
  <2>3. ASSUME NEW p \in Spots, Index(p) >= At(t) PROVE t.cells[p] = NoChar
    <3>1. CASE Index(p) = At(t) BY <2>1, <3>1
    <3>2. CASE Index(p) # At(t)
      <4>1. Index(p) >= At(s) BY <2>1, <2>3, <3>2, SpotIs
      <4> QED BY <2>1, <3>2, <4>1 DEF Drawn
    <3> QED BY <3>1, <3>2
  <2>4. ASSUME NEW p \in Spots, NEW q \in Spots, Index(p) < Index(q), t.cells[p] > 0, t.cells[q] > 0
        PROVE  t.cells[p] < t.cells[q]
    <3>1. t.cells[p] = s.cells[p] /\ t.cells[q] = s.cells[q] BY <2>1, <2>4 DEF NoChar
    <3> QED BY <2>4, <3>1 DEF Drawn
  <2> QED BY <1>1, <2>1, <2>2, <2>3, <2>4 DEF Drawn
<1> QED BY <1>2, <1>3

-----------------------------------------------------------------------------
(* A text is printed character by character.                               *)
LEMMA CountsUp ==
  ASSUME NEW Good, 0 \in Good, \A n \in Nat : n \in Good => n + 1 \in Good
  PROVE  Nat \subseteq Good
<1> DEFINE Bad == Nat \ Good
<1> SUFFICES ASSUME Bad # {} PROVE FALSE OBVIOUS
<1>1. PICK x \in Bad : \A y \in Bad : ~(<<y, x>> \in OpToRel(<, Nat))
  BY WFMin, NatLessThanWellFounded
<1>2. x \in Nat /\ x # 0 OBVIOUS
<1>3. x - 1 \in Nat /\ (x - 1) + 1 = x BY <1>2
<1>4. x - 1 \notin Good BY <1>1, <1>3
<1>5. <<x - 1, x>> \in Nat \X Nat /\ <<x - 1, x>>[1] = x - 1 /\ <<x - 1, x>>[2] = x BY <1>2, <1>3
<1>6. <<x - 1, x>> \in OpToRel(<, Nat) BY <1>3, <1>5 DEF OpToRel
<1> QED BY <1>1, <1>3, <1>4, <1>6

After(s, text, g, n) ==
  /\ g[0] = s
  /\ \A k \in 1 .. n : g[k] = VgaPutchar(g[k - 1], text[k])

Steps(s, text, m, g) == g = [k \in 0 .. m |-> IF k = 0 THEN s ELSE VgaPutchar(g[k - 1], text[k])]

LEMMA AfterExists ==
  ASSUME NEW s, NEW text, NEW m \in Nat
  PROVE  \E g : Steps(s, text, m, g)
<1> DEFINE Good == {n \in Nat : \E g : After(s, text, g, n)}
<1>1. 0 \in Good
  <2>1. After(s, text, [k \in {0} |-> s], 0) BY DEF After
  <2> QED BY <2>1
<1>2. ASSUME NEW n \in Nat, n \in Good PROVE n + 1 \in Good
  <2>1. PICK g : After(s, text, g, n) BY <1>2
  <2> DEFINE h == [k \in 0 .. n + 1 |-> IF k <= n THEN g[k] ELSE VgaPutchar(g[n], text[n + 1])]
  <2>2. h[0] = s BY <2>1 DEF After
  <2>3. ASSUME NEW k \in 1 .. n + 1 PROVE h[k] = VgaPutchar(h[k - 1], text[k])
    <3>1. k \in 0 .. n + 1 /\ k - 1 \in 0 .. n + 1 /\ k - 1 <= n OBVIOUS
    <3>2. h[k - 1] = g[k - 1] BY <3>1
    <3>3. CASE k = n + 1
      <4>1. h[k] = VgaPutchar(g[n], text[n + 1]) /\ k - 1 = n BY <3>1, <3>3
      <4> QED BY <3>2, <3>3, <4>1
    <3>4. CASE k # n + 1
      <4>1. k \in 1 .. n /\ h[k] = g[k] BY <3>1, <3>4
      <4> QED BY <2>1, <3>2, <4>1 DEF After
    <3> QED BY <3>3, <3>4
  <2> HIDE DEF h
  <2>4. After(s, text, h, n + 1) BY <2>2, <2>3 DEF After
  <2> QED BY <2>4
<1> HIDE DEF Good
<1>3. Nat \subseteq Good BY <1>1, <1>2, CountsUp
<1>4. PICK f : After(s, text, f, m) BY <1>3 DEF Good
<1> DEFINE g == [k \in 0 .. m |-> f[k]]
<1>5. ASSUME NEW k \in 0 .. m PROVE f[k] = IF k = 0 THEN s ELSE VgaPutchar(g[k - 1], text[k])
  <2>1. CASE k = 0 BY <1>4, <2>1 DEF After
  <2>2. CASE k # 0
    <3>1. k \in 1 .. m /\ k - 1 \in 0 .. m BY <2>2
    <3>2. g[k - 1] = f[k - 1] BY <3>1
    <3> QED BY <1>4, <2>2, <3>1, <3>2 DEF After
  <2> QED BY <2>1, <2>2
<1>6. g = [k \in 0 .. m |-> IF k = 0 THEN s ELSE VgaPutchar(g[k - 1], text[k])] BY <1>5
<1> HIDE DEF g
<1> QED BY <1>6 DEF Steps

LEMMA PutsAre ==
  ASSUME NEW s, NEW text, Len(text) \in Nat
  PROVE  \E g : After(s, text, g, Len(text)) /\ VgaPuts(s, text) = g[Len(text)]
<1> PICK m \in Nat : m = Len(text) OBVIOUS
<1> DEFINE f == CHOOSE g : Steps(s, text, m, g)
<1>1. \E g : Steps(s, text, m, g) BY AfterExists
<1>2. f = [k \in 0 .. m |-> IF k = 0 THEN s ELSE VgaPutchar(f[k - 1], text[k])] BY <1>1 DEF Steps
<1>3. VgaPuts(s, text) = f[m] BY DEF VgaPuts, Steps
<1> HIDE DEF f
<1>4. f[0] = s BY <1>2
<1>5. ASSUME NEW k \in 1 .. m PROVE f[k] = VgaPutchar(f[k - 1], text[k]) BY <1>2
<1>6. After(s, text, f, m) BY <1>4, <1>5 DEF After
<1> QED BY <1>3, <1>6

(* A line is typed at once, or typed again when the screen was cleared.    *)
Fits(s, n, b) ==
  \A i \in 1 .. Len(b) :
    /\ b[i] \in {NoChar, PromptSign} \cup (1 .. n)
    /\ \A p \in Spots : b[i] > 0 /\ s.cells[p] > 0 => s.cells[p] < b[i]
    /\ \A j \in 1 .. Len(b) : j < i /\ b[i] > 0 /\ b[j] > 0 => b[j] < b[i]

Fitting(s, n, b, k) ==
  \A i \in k + 1 .. Len(b), p \in Spots : b[i] > 0 /\ s.cells[p] > 0 => s.cells[p] < b[i]

LEMMA TypedLine ==
  ASSUME NEW s, NEW n \in Nat, Drawn(s, n), s.cursor = <<s.row, s.col>>, NEW b, Len(b) \in Nat, Fits(s, n, b),
         NEW l, NEW m \in Nat, Lined(s, l, m), \A k \in 1 .. Len(b) : l[m + k] = b[k]
  PROVE  LET t == VgaPuts(s, b) IN Drawn(t, n) /\ t.cursor = <<t.row, t.col>> /\ Lined(t, l, m + Len(b))
<1>1. PICK z \in Nat : z = Len(b) OBVIOUS
<1>2. PICK g : After(s, b, g, z) /\ VgaPuts(s, b) = g[z] BY <1>1, PutsAre
<1> DEFINE Ready(k) == /\ Drawn(g[k], n) /\ g[k].cursor = <<g[k].row, g[k].col>>
                       /\ Lined(g[k], l, m + k) /\ Fitting(g[k], n, b, k)
           Good == {k \in Nat : k <= z => Ready(k)}
<1>3. 0 \in Good
  <2>1. g[0] = s /\ m + 0 = m BY <1>2 DEF After
  <2>2. Fitting(s, n, b, 0) BY DEF Fits, Fitting
  <2>3. Ready(0) BY <2>1, <2>2
  <2> HIDE DEF Ready
  <2> QED BY <2>3
<1>4. ASSUME NEW k \in Nat, k \in Good PROVE k + 1 \in Good
  <2> SUFFICES ASSUME k + 1 <= z PROVE Ready(k + 1) BY <1>4
  <2>1. Ready(k) /\ k + 1 \in 1 .. z /\ (k + 1) - 1 = k BY <1>4
  <2> PICK u : u = g[k] OBVIOUS
  <2> PICK c : c = b[k + 1] OBVIOUS
  <2> PICK t : t = g[k + 1] OBVIOUS
  <2>2. /\ Drawn(u, n) /\ u.cursor = <<u.row, u.col>> /\ Lined(u, l, m + k) /\ Fitting(u, n, b, k)
    BY <2>1
  <2> HIDE DEF Ready
  <2>3. c \in {NoChar, PromptSign} \cup (1 .. n) BY <1>1, <2>1 DEF Fits
  <2>4. c \in Int /\ Visible(c) BY <2>3 DEF NoChar, PromptSign, Visible, NewLine, Tabulator, Backspace
  <2>5. t = VgaPutchar(u, c) BY <1>2, <2>1 DEF After
  <2>6. k + 1 \in k + 1 .. Len(b) BY <1>1, <2>1
  <2>7. Writable(u, n, c) BY <2>2, <2>3, <2>6 DEF Writable, Fitting
  <2>8. c # Backspace /\ u \in Screen /\ <<u.row, u.col>> \in Spots BY <2>2, <2>4 DEF Visible, Drawn
  <2>9. PICK d \in Nat : Puts(u, t, c, d) BY <2>4, <2>5, <2>8, PutIs
  <2>10. Drawn(t, n) BY <2>2, <2>4, <2>7, <2>9, DrawnPut
  <2>11. t.cursor = <<t.row, t.col>> BY <2>9 DEF Puts
  <2>12. Lined(t, l, m + (k + 1))
    <3>1. l[(m + k) + 1] = c /\ m + k \in Nat /\ (m + k) + 1 = m + (k + 1) BY <1>1, <2>1
    <3>2. Lined(t, l, (m + k) + 1) BY <2>2, <2>4, <2>9, <3>1, LinedPut
    <3> QED BY <3>1, <3>2
  <2>13. Fitting(t, n, b, k + 1)
    <3> SUFFICES ASSUME NEW i \in (k + 1) + 1 .. Len(b), NEW p \in Spots, b[i] > 0, t.cells[p] > 0
                 PROVE  t.cells[p] < b[i]
      BY DEF Fitting
    <3>1. t.cells[p] # NoChar BY DEF NoChar
    <3>2. PICK q \in Spots : t.cells[p] = Ink(u, c, q) BY <2>4, <2>9, <3>1, CameFrom
    <3>3. CASE t.cells[p] = c
      <4>1. i \in 1 .. Len(b) /\ k + 1 \in 1 .. Len(b) /\ k + 1 < i BY <1>1, <2>1
      <4> QED BY <3>3, <4>1 DEF Fits
    <3>4. CASE t.cells[p] = u.cells[q]
      <4>1. i \in k + 1 .. Len(b) BY <1>1
      <4> QED BY <2>2, <3>4, <4>1 DEF Fitting
    <3> QED BY <3>2, <3>3, <3>4 DEF Ink
  <2> QED BY <2>10, <2>11, <2>12, <2>13 DEF Ready
<1> HIDE DEF Good
<1>5. z \in Good BY <1>3, <1>4, CountsUp
<1>6. Ready(z) BY <1>5 DEF Good
<1> QED BY <1>1, <1>2, <1>6

(* What the screen loses when a character is deleted.                      *)
LEMMA Rubs ==
  ASSUME NEW s, NEW n \in Nat, Drawn(s, n)
  PROVE  LET t == VgaPuts(s, Rubbed)
         IN  /\ Drawn(t, n) /\ t.cursor = <<t.row, t.col>>
             /\ \A l : \A m \in Nat : s.col # 0 /\ Lined(s, l, m + 1) => Lined(t, l, m)
<1>1. 3 \in Nat /\ Len(Rubbed) = 3 /\ Rubbed[1] = Backspace /\ Rubbed[2] = NoChar /\ Rubbed[3] = Backspace BY DEF Rubbed
<1>2. PICK g : After(s, Rubbed, g, 3) /\ VgaPuts(s, Rubbed) = g[3]
  <2>1. \E g : After(s, Rubbed, g, Len(Rubbed)) /\ VgaPuts(s, Rubbed) = g[Len(Rubbed)]
    <3>1. Len(Rubbed) \in Nat BY <1>1
    <3> QED BY <3>1, PutsAre
  <2> QED BY <1>1, <2>1
<1>3. g[0] = s /\ \A k \in 1 .. 3 : g[k] = VgaPutchar(g[k - 1], Rubbed[k]) BY <1>2 DEF After
<1> PICK a : a = VgaPutchar(s, Backspace) OBVIOUS
<1> PICK b : b = VgaPutchar(a, NoChar) OBVIOUS
<1> PICK t : t = VgaPutchar(b, Backspace) OBVIOUS
<1>4. VgaPuts(s, Rubbed) = t
  <2>1. g[1] = VgaPutchar(g[0], Rubbed[1]) BY <1>3
  <2>2. g[2] = VgaPutchar(g[1], Rubbed[2]) BY <1>3
  <2>3. g[3] = VgaPutchar(g[2], Rubbed[3]) BY <1>3
  <2> QED BY <1>1, <1>2, <1>3, <2>1, <2>2, <2>3
<1>5. s \in Screen /\ <<s.row, s.col>> \in Spots BY DEF Drawn
<1>6. Backs(s, a) /\ Drawn(a, n) BY <1>5, BackIs, DrawnBack
<1>7. a \in Screen /\ <<a.row, a.col>> \in Spots BY <1>6 DEF Drawn
<1>8. NoChar \in Int /\ NoChar # Backspace /\ Visible(NoChar) BY DEF NoChar, Backspace, Visible, NewLine, Tabulator
<1>9. PICK d \in Nat : Puts(a, b, NoChar, d) BY <1>7, <1>8, PutIs
<1>10. Writable(a, n, NoChar) BY DEF Writable, NoChar
<1>11. Drawn(b, n) BY <1>6, <1>8, <1>9, <1>10, DrawnPut
<1>12. b \in Screen /\ <<b.row, b.col>> \in Spots BY <1>11 DEF Drawn
<1>13. Backs(b, t) /\ Drawn(t, n) BY <1>11, <1>12, BackIs, DrawnBack
<1>14. t.cursor = <<t.row, t.col>> BY <1>13 DEF Backs
<1>16. /\ At(b) \in Nat
       /\ b.col # 0 => /\ At(t) = At(b) - 1
                       /\ \A p \in Spots : t.cells[p] = IF Index(p) = At(t) THEN NoChar ELSE b.cells[p]
  BY <1>12, <1>13, BackCells, ZenonT(60)
<1>15. ASSUME NEW l, NEW m \in Nat, s.col # 0, Lined(s, l, m + 1) PROVE Lined(t, l, m)
  <2>1. At(s) \in Nat /\ At(a) = At(s) - 1 /\ \A p \in Spots : Index(p) # At(a) => a.cells[p] = s.cells[p]
    BY <1>5, <1>6, <1>15, BackCells
  <2>2. a.col = s.col - 1 /\ a.row = s.row BY <1>6, <1>15 DEF Backs
  <2>3. s.col \in 0 .. Width - 1 BY <1>5 DEF Spots
  <2>4. a.col + 1 = s.col /\ a.col + 1 < Width BY <1>15, <2>2, <2>3, ConsoleConstants
  <2>5. d = 0 /\ b.row = a.row /\ b.col = a.col + 1 /\ At(b) + d = At(a) + 1 BY <1>8, <1>9, <2>4 DEF Puts
  <2>6. \A p \in Spots : b.cells[p] = Ink(a, NoChar, p) BY <1>8, <1>9, <2>5, PutsInPlace
  <2>7. b.col # 0 BY <1>15, <2>4, <2>5
  <2>8. At(b) \in Nat /\ At(t) = At(b) - 1 /\ \A p \in Spots : Index(p) # At(t) => t.cells[p] = b.cells[p]
    <3>1. /\ At(b) \in Nat /\ At(t) = At(b) - 1
          /\ \A p \in Spots : t.cells[p] = IF Index(p) = At(t) THEN NoChar ELSE b.cells[p]
      BY <1>16, <2>7
    <3>2. ASSUME NEW p \in Spots, Index(p) # At(t) PROVE t.cells[p] = b.cells[p] BY <3>1, <3>2
    <3> QED BY <3>1, <3>2
  <2>9. At(t) = At(a)
    <3>3. At(a) \in Nat BY <1>7, SpotIs DEF At
    <3>1. PICK x, y \in Nat : x = At(a) /\ y = At(b) BY <2>8, <3>3
    <3>2. y = x + 1 BY <2>5, <3>1
    <3> QED BY <2>8, <3>1, <3>2
  <2>10. ASSUME NEW k \in 1 .. m, NEW p \in Spots, Index(p) = At(t) - m + k - 1 PROVE t.cells[p] = l[k]
    <3>1. Index(p) = At(s) - (m + 1) + k - 1 /\ k \in 1 .. m + 1 BY <2>1, <2>9, <2>10
    <3>2. Index(p) # At(a) /\ Index(p) # At(t) BY <2>1, <2>9, <2>10
    <3>3. p # <<a.row, a.col>> BY <3>2 DEF At
    <3>4. t.cells[p] = s.cells[p] BY <2>1, <2>6, <2>8, <3>2, <3>3 DEF Ink
    <3> QED BY <1>15, <3>1, <3>4 DEF Lined
  <2> QED BY <2>10 DEF Lined
<1> QED BY <1>4, <1>13, <1>14, <1>15

(* Two characters, as in a message.                                        *)
LEMMA TwoPuts ==
  ASSUME NEW s, NEW n \in Nat, Drawn(s, n), NEW c \in Int, c # Backspace, NEW e \in Int, e # Backspace
  PROVE  \E t : \E d, f \in Nat : Puts(s, t, c, d) /\ Puts(t, VgaPuts(s, <<c, e>>), e, f)
<1> PICK text : text = <<c, e>> OBVIOUS
<1>1. Len(text) = 2 /\ text[1] = c /\ text[2] = e OBVIOUS
<1>2. PICK g : After(s, text, g, 2) /\ VgaPuts(s, text) = g[2] BY <1>1, PutsAre
<1>3. g[0] = s /\ \A k \in 1 .. 2 : g[k] = VgaPutchar(g[k - 1], text[k]) BY <1>2 DEF After
<1>4. g[1] = VgaPutchar(s, c)
  <2>1. g[1] = VgaPutchar(g[0], text[1]) BY <1>3
  <2> QED BY <1>1, <1>3, <2>1
<1>5. g[2] = VgaPutchar(g[1], e)
  <2>1. g[2] = VgaPutchar(g[1], text[2]) BY <1>3
  <2> QED BY <1>1, <2>1
<1>6. s \in Screen /\ <<s.row, s.col>> \in Spots BY DEF Drawn
<1>7. PICK d \in Nat : Puts(s, g[1], c, d) BY <1>4, <1>6, PutIs
<1>8. g[1] \in Screen /\ <<g[1].row, g[1].col>> \in Spots BY <1>7 DEF Puts
<1>9. PICK f \in Nat : Puts(g[1], g[2], e, f) BY <1>5, <1>8, PutIs
<1> QED BY <1>2, <1>7, <1>9

-----------------------------------------------------------------------------
(* The screen and the captures together.                                   *)
Caps(cs, n) ==
  /\ cs \in Seq(Capture)
  /\ \A k \in DOMAIN cs : <<cs[k].row, cs[k].col>> \in Spots /\ cs[k].first <= n + 1

Sound(s, n, tk, cs) ==
  /\ Drawn(s, n)
  /\ \A k \in DOMAIN cs : Captured(s, n, tk, cs[k])
  /\ tk \subseteq 1 .. n /\ \A p \in Spots : s.cells[p] \notin tk

LEMMA DrawnMore ==
  ASSUME NEW s, NEW n \in Nat, NEW m \in Nat, n <= m, Drawn(s, n)
  PROVE  Drawn(s, m)
<1>1. ASSUME NEW p \in Spots PROVE s.cells[p] \in {NoChar, PromptSign} \cup (1 .. m)
  <2>1. s.cells[p] \in {NoChar, PromptSign} \cup (1 .. n) BY DEF Drawn
  <2> QED BY <2>1
<1> QED BY <1>1 DEF Drawn

LEMMA AddsWritable ==
  ASSUME NEW s, NEW n \in Nat, NEW m \in Nat, NEW c \in Int, Drawn(s, n), Adds(c, n, m)
  PROVE  n <= m /\ Drawn(s, m) /\ Writable(s, m, c)
<1>1. n <= m BY DEF Adds
<1>2. Drawn(s, m) BY <1>1, DrawnMore
<1>3. ASSUME Visible(c)
      PROVE  c \in {NoChar, PromptSign} \cup (1 .. m) /\ \A p \in Spots : c > 0 /\ s.cells[p] > 0 => s.cells[p] < c
  <2>1. c = n + 1 /\ c \in 1 .. m BY <1>3 DEF Adds
  <2>2. ASSUME NEW p \in Spots, s.cells[p] > 0 PROVE s.cells[p] < c
    <3>1. s.cells[p] \in {NoChar, PromptSign} \cup (1 .. n) BY DEF Drawn
    <3>2. s.cells[p] \in 1 .. n BY <2>2, <3>1 DEF NoChar, PromptSign
    <3> QED BY <2>1, <3>2
  <2> QED BY <2>1, <2>2
<1> QED BY <1>1, <1>2, <1>3 DEF Writable

LEMMA SoundPut ==
  ASSUME NEW s, NEW t, NEW n \in Nat, NEW m \in Nat, NEW c \in Int, NEW d \in Nat, NEW tk, NEW cs,
         Caps(cs, n), Sound(s, n, tk, cs), Puts(s, t, c, d), Adds(c, n, m)
  PROVE  Sound(t, m, tk, cs)
<1>1. Drawn(s, n) /\ tk \subseteq 1 .. n /\ \A p \in Spots : s.cells[p] \notin tk BY DEF Sound
<1>2. n <= m /\ Drawn(s, m) /\ Writable(s, m, c) BY <1>1, AddsWritable
<1>3. Drawn(t, m) BY <1>2, DrawnPut
<1>4. ASSUME NEW k \in DOMAIN cs PROVE Captured(t, m, tk, cs[k])
  <2>1. cs[k] \in Capture /\ cs[k].first <= n + 1
    <3>1. cs \in Seq(Capture) /\ cs[k].first <= n + 1 BY DEF Caps
    <3>2. cs[k] \in Capture BY <3>1
    <3> QED BY <3>1, <3>2
  <2>2. Captured(s, n, tk, cs[k]) BY DEF Sound
  <2> QED BY <1>1, <2>1, <2>2, CapturedPut
<1>5. tk \subseteq 1 .. m BY <1>1, <1>2
<1>6. ASSUME NEW p \in Spots PROVE t.cells[p] \notin tk
  <2>1. NoChar \notin tk BY <1>1 DEF NoChar
  <2>2. CASE t.cells[p] = NoChar BY <2>1, <2>2
  <2>3. CASE t.cells[p] # NoChar
    <3>1. PICK q \in Spots : t.cells[p] = Ink(s, c, q) BY <2>3, CameFrom
    <3>2. Visible(c) => c \notin tk BY <1>1 DEF Adds
    <3> QED BY <1>1, <3>1, <3>2 DEF Ink
  <2> QED BY <2>2, <2>3
<1> QED BY <1>3, <1>4, <1>5, <1>6 DEF Sound

(* What a capture takes away.                                              *)
Restored(s, t, R) ==
  /\ t \in Screen /\ t.row = s.row /\ t.col = s.col /\ t.moved = s.moved
  /\ \A p \in Spots : t.cells[p] = IF p \in R THEN NoChar ELSE s.cells[p]

TakenOf(s, tk, cs, R) == IF Len(cs) = 1 THEN {} ELSE tk \cup ({s.cells[p] : p \in R} \ {NoChar})

LEMMA SoundRestored ==
  ASSUME NEW s, NEW t, NEW n \in Nat, NEW tk, NEW cs, NEW R \in SUBSET Spots, NEW z \in Nat,
         Caps(cs, n), Sound(s, n, tk, cs), z = Len(cs), z > 0, Restored(s, t, R),
         \A p \in R : Index(p) >= From(cs[z])
  PROVE  /\ Drawn(t, n)
         /\ \A k \in 1 .. z - 1 : Captured(t, n, TakenOf(s, tk, cs, R), cs[k])
         /\ TakenOf(s, tk, cs, R) \subseteq 1 .. n /\ \A p \in Spots : t.cells[p] \notin TakenOf(s, tk, cs, R)
<1>1. Drawn(s, n) /\ tk \subseteq 1 .. n /\ \A p \in Spots : s.cells[p] \notin tk BY DEF Sound
<1>2. /\ t \in Screen /\ t.row = s.row /\ t.col = s.col /\ t.moved = s.moved /\ At(t) = At(s)
      /\ \A p \in Spots : t.cells[p] = IF p \in R THEN NoChar ELSE s.cells[p]
  BY DEF Restored, At
<1>3. Drawn(t, n)
  <2>1. <<t.row, t.col>> \in Spots BY <1>1, <1>2 DEF Drawn
  <2>2. \A p \in Spots : t.cells[p] \in {NoChar, PromptSign} \cup (1 .. n) BY <1>1, <1>2 DEF Drawn
  <2>3. \A p \in Spots : Index(p) >= At(t) => t.cells[p] = NoChar BY <1>1, <1>2 DEF Drawn
  <2>4. ASSUME NEW p \in Spots, NEW q \in Spots, Index(p) < Index(q), t.cells[p] > 0, t.cells[q] > 0
        PROVE  t.cells[p] < t.cells[q]
    <3>1. t.cells[p] = s.cells[p] /\ t.cells[q] = s.cells[q] BY <1>2, <2>4 DEF NoChar
    <3> QED BY <1>1, <2>4, <3>1 DEF Drawn
  <2> QED BY <1>2, <2>1, <2>2, <2>3, <2>4 DEF Drawn
<1>4. cs[z] \in Capture /\ z \in DOMAIN cs /\ DOMAIN cs = 1 .. z BY DEF Caps
<1>5. ASSUME NEW p \in R, s.cells[p] # NoChar PROVE s.cells[p] \in 1 .. n
  <2>1. Captured(s, n, tk, cs[z]) BY <1>4 DEF Sound
  <2>2. s.cells[p] >= cs[z].first BY <1>5, <2>1 DEF Captured
  <2>3. cs[z].first \in Nat \ {0} BY <1>4 DEF Capture
  <2>4. s.cells[p] \in {NoChar, PromptSign} \cup (1 .. n) BY <1>1 DEF Drawn
  <2> QED BY <1>5, <2>2, <2>3, <2>4 DEF PromptSign, NoChar
<1> DEFINE T == TakenOf(s, tk, cs, R)
<1>6. T \subseteq 1 .. n BY <1>1, <1>5 DEF TakenOf
<1>7. ASSUME NEW p \in Spots PROVE t.cells[p] \notin T
  <2>1. NoChar \notin T BY <1>6 DEF NoChar
  <2>2. CASE p \in R BY <1>2, <2>1, <2>2
  <2>3. CASE p \notin R
    <3>1. SUFFICES ASSUME t.cells[p] \in T PROVE FALSE OBVIOUS
    <3>2. t.cells[p] = s.cells[p] /\ s.cells[p] \notin tk BY <1>1, <1>2, <2>3
    <3>3. PICK q \in R : s.cells[q] = s.cells[p] BY <3>1, <3>2 DEF TakenOf
    <3>4. s.cells[p] > 0 BY <1>6, <3>1, <3>2
    <3>5. Index(p) < Index(q) \/ Index(q) < Index(p)
      <4>1. p # q BY <2>3
      <4> QED BY <4>1, SpotIs, IndexOrder
    <3>6. s.cells[p] < s.cells[q] \/ s.cells[q] < s.cells[p] BY <1>1, <3>3, <3>4, <3>5 DEF Drawn
    <3>7. s.cells[p] \in Int BY <1>6, <3>1, <3>2
    <3> QED BY <3>3, <3>6, <3>7
  <2> QED BY <2>2, <2>3
<1>8. ASSUME NEW k \in 1 .. z - 1 PROVE Captured(t, n, T, cs[k])
  <2>1. Captured(s, n, tk, cs[k]) BY <1>4 DEF Sound
  <2>2. T = tk \cup ({s.cells[p] : p \in R} \ {NoChar})
    <3>1. Len(cs) # 1 BY <1>8
    <3> QED BY <3>1 DEF TakenOf
  <2>3. \A p \in Spots : Index(p) >= From(cs[k]) => t.cells[p] = NoChar \/ t.cells[p] >= cs[k].first
    BY <1>2, <2>1 DEF Captured
  <2>4. ASSUME cs[k].whole, ~t.moved PROVE From(cs[k]) <= At(t) BY <1>2, <2>1, <2>4 DEF Captured
  <2>5. ASSUME cs[k].whole, ~t.moved, NEW x \in cs[k].first .. n, x \notin T
        PROVE  \E p \in Spots : Index(p) >= From(cs[k]) /\ t.cells[p] = x
    <3>1. x \notin tk BY <2>2, <2>5
    <3>2. PICK p \in Spots : Index(p) >= From(cs[k]) /\ s.cells[p] = x BY <1>2, <2>1, <2>5, <3>1 DEF Captured
    <3>3. CASE p \in R
      <4>1. x = NoChar BY <2>2, <2>5, <3>2, <3>3
      <4> QED BY <1>2, <3>2, <3>3, <4>1
    <3>4. CASE p \notin R BY <1>2, <3>2, <3>4
    <3> QED BY <3>3, <3>4
  <2> QED BY <2>3, <2>4, <2>5 DEF Captured
<1> QED BY <1>3, <1>6, <1>7, <1>8

-----------------------------------------------------------------------------
(* What a capture writes.                                                  *)
LEMMA CornersAre ==
  ASSUME Here \in Spots, NEW cap \in Capture, <<cap.row, cap.col>> \in Spots
  PROVE  /\ screen.row \in 0 .. Height - 1 /\ screen.col \in 0 .. Width - 1
         /\ cap.row \in 0 .. Height - 1 /\ cap.col \in 0 .. Width - 1
         /\ LastRow(cap) \in 0 .. Height - 1 /\ LastRow(cap) >= cap.row
         /\ \A r : FirstCol(cap, r) \in 0 .. Width - 1 /\ LastCol(cap, r) \in 0 .. Width - 1
<1>1. /\ screen.row \in 0 .. Height - 1 /\ screen.col \in 0 .. Width - 1
      /\ cap.row \in 0 .. Height - 1 /\ cap.col \in 0 .. Width - 1
  BY DEF Spots, Here
<1>2. LastRow(cap) \in 0 .. Height - 1 /\ LastRow(cap) >= cap.row BY <1>1 DEF LastRow
<1>3. Width - 1 \in 0 .. Width - 1 /\ 0 \in 0 .. Width - 1 BY ConsoleConstants
<1>4. ASSUME NEW r PROVE FirstCol(cap, r) \in 0 .. Width - 1 /\ LastCol(cap, r) \in 0 .. Width - 1
  BY <1>1, <1>3 DEF FirstCol, LastCol
<1> QED BY <1>1, <1>2, <1>4

RowIs(row, r, f, g) ==
  /\ DOMAIN row = 1 .. g - f + 1
  /\ \A j \in 1 .. g - f + 1 : row[j] = screen.cells[<<r, f + j - 1>>]

LEMMA RowsAre ==
  ASSUME Here \in Spots, NEW cap \in Capture, <<cap.row, cap.col>> \in Spots
  PROVE  LET rows == SaveVgaRegion(cap) IN
         /\ DOMAIN rows = 1 .. LastRow(cap) - cap.row + 1
         /\ \A k \in DOMAIN rows : \A j \in DOMAIN rows[k] :
              \E q \in Spots : /\ q[1] = cap.row + k - 1 /\ q[2] = FirstCol(cap, cap.row + k - 1) + j - 1
                              /\ InRegion(cap, q) /\ rows[k][j] = screen.cells[q]
         /\ \A p \in Spots : InRegion(cap, p) =>
              \E k \in DOMAIN rows : \E j \in DOMAIN rows[k] : rows[k][j] = screen.cells[p]
<1> PICK rows : rows = SaveVgaRegion(cap) OBVIOUS
<1>1. /\ cap.row \in 0 .. Height - 1 /\ LastRow(cap) \in 0 .. Height - 1 /\ LastRow(cap) >= cap.row
      /\ \A r : FirstCol(cap, r) \in 0 .. Width - 1 /\ LastCol(cap, r) \in 0 .. Width - 1
  BY CornersAre
<1> PICK a, z \in Nat : a = cap.row /\ z = LastRow(cap) BY <1>1
<1>2. DOMAIN rows = 1 .. z - a + 1 BY DEF SaveVgaRegion
<1>3. ASSUME NEW k \in 1 .. z - a + 1, NEW r \in Nat, NEW f \in Nat, NEW g \in Nat,
             r = a + k - 1, f = FirstCol(cap, r), g = LastCol(cap, r)
      PROVE  RowIs(rows[k], r, f, g)
  BY <1>3 DEF SaveVgaRegion, RowIs
<1>4. ASSUME NEW k \in DOMAIN rows, NEW j \in DOMAIN rows[k]
      PROVE  \E q \in Spots : /\ q[1] = a + k - 1 /\ q[2] = FirstCol(cap, a + k - 1) + j - 1
                              /\ InRegion(cap, q) /\ rows[k][j] = screen.cells[q]
  <2> PICK r \in Nat : r = a + k - 1 BY <1>2
  <2> PICK f, g \in Nat : f = FirstCol(cap, r) /\ g = LastCol(cap, r) BY <1>1
  <2>1. j \in 1 .. g - f + 1 /\ rows[k][j] = screen.cells[<<r, f + j - 1>>]
    <3>1. k \in 1 .. z - a + 1 BY <1>2
    <3>2. RowIs(rows[k], r, f, g) BY <1>3, <3>1
    <3> QED BY <3>2 DEF RowIs
  <2>2. r \in a .. z /\ f + j - 1 \in f .. g /\ f + j - 1 \in Nat
    <3>1. k \in 1 .. z - a + 1 BY <1>2
    <3>2. r \in a .. z BY <3>1
    <3>3. f + j - 1 \in f .. g /\ f + j - 1 \in Nat BY <2>1
    <3> QED BY <3>2, <3>3
  <2> PICK c \in Nat : c = f + j - 1 BY <2>2
  <2>3. r \in 0 .. Height - 1 /\ c \in 0 .. Width - 1
    <3>1. f \in 0 .. Width - 1 /\ g \in 0 .. Width - 1 BY <1>1
    <3> QED BY <1>1, <2>2, <3>1, ConsoleConstants
  <2>4. PICK q \in Spots : q = <<r, c>> BY <2>3 DEF Spots
  <2>5. InRegion(cap, q) BY <2>2, <2>4 DEF InRegion
  <2> QED BY <2>1, <2>4, <2>5
<1>5. ASSUME NEW p \in Spots, InRegion(cap, p)
      PROVE  \E k \in DOMAIN rows : \E j \in DOMAIN rows[k] : rows[k][j] = screen.cells[p]
  <2> PICK r, c \in Nat : r = p[1] /\ c = p[2] /\ p = <<r, c>> BY SpotIs
  <2> PICK f, g \in Nat : f = FirstCol(cap, r) /\ g = LastCol(cap, r) BY <1>1
  <2>1. r \in a .. z /\ c \in f .. g BY <1>5 DEF InRegion
  <2> PICK k, j \in Nat : k = r - a + 1 /\ j = c - f + 1 BY <2>1
  <2>2. k \in 1 .. z - a + 1 /\ j \in 1 .. g - f + 1 /\ a + k - 1 = r /\ f + j - 1 = c BY <2>1
  <2>3. j \in DOMAIN rows[k] /\ rows[k][j] = screen.cells[p]
    <3>1. RowIs(rows[k], r, f, g) BY <1>3, <2>2
    <3>2. j \in DOMAIN rows[k] BY <2>2, <3>1 DEF RowIs
    <3>3. <<r, f + j - 1>> = p BY <2>2
    <3>4. rows[k][j] = screen.cells[<<r, f + j - 1>>] BY <2>2, <3>1 DEF RowIs
    <3> QED BY <3>2, <3>3, <3>4
  <2> QED BY <1>2, <2>2, <2>3
<1> QED BY <1>2, <1>4, <1>5

LEMMA RegionFrom ==
  ASSUME Here \in Spots, NEW cap \in Capture, <<cap.row, cap.col>> \in Spots, NEW p \in Spots, InRegion(cap, p)
  PROVE  Index(p) >= From(cap)
<1>1. PICK h \in Spots : h = <<cap.row, cap.col>> OBVIOUS
<1>2. From(cap) = Index(h) BY <1>1 DEF From
<1>3. h[1] = cap.row /\ h[2] = cap.col BY <1>1
<1>4. p[1] >= cap.row /\ (p[1] = cap.row => p[2] >= cap.col) BY CornersAre DEF InRegion, FirstCol
<1> QED BY <1>2, <1>3, <1>4, SpotIs, IndexOrder

LEMMA RegionWhole ==
  ASSUME Here \in Spots, NEW cap \in Capture, <<cap.row, cap.col>> \in Spots, NEW p \in Spots,
         From(cap) <= Index(p), Index(p) < At(screen)
  PROVE  InRegion(cap, p)
<1>1. PICK h \in Spots : h = <<cap.row, cap.col>> OBVIOUS
<1>2. PICK e \in Spots : e = Here OBVIOUS
<1>3. h[1] = cap.row /\ h[2] = cap.col /\ e[1] = screen.row /\ e[2] = screen.col BY <1>1, <1>2 DEF Here
<1>4. Index(h) <= Index(p) /\ Index(p) < Index(e) BY <1>1, <1>2 DEF From, At, Here
<1>5. h[1] <= p[1] /\ p[1] <= e[1] BY <1>4, SpotIs, IndexOrder
<1>6. p[1] = h[1] => h[2] <= p[2] BY <1>4, SpotIs, IndexOrder
<1>7. p[1] = e[1] => p[2] <= e[2] BY <1>4, SpotIs, IndexOrder
<1>8. p[2] \in 0 .. Width - 1 BY SpotIs, ConsoleConstants
<1>9. LastRow(cap) = screen.row BY <1>3, <1>5, SpotIs DEF LastRow
<1>10. p[1] \in cap.row .. LastRow(cap) BY <1>3, <1>5, <1>9, SpotIs
<1>11. p[2] >= FirstCol(cap, p[1]) BY <1>3, <1>6, <1>8 DEF FirstCol
<1>12. p[2] <= LastCol(cap, p[1]) BY <1>3, <1>7, <1>8, <1>9 DEF LastCol
<1>13. p[2] \in FirstCol(cap, p[1]) .. LastCol(cap, p[1]) BY <1>8, <1>11, <1>12, CornersAre
<1> QED BY <1>10, <1>13 DEF InRegion

Exact(l) ==
  LET rows == l.rows
      text == (UNION {ToSet(rows[k]) : k \in DOMAIN rows}) \ {NoChar}
  IN  /\ text \subseteq l.printed
      /\ \A k, m \in DOMAIN rows : \A i \in DOMAIN rows[k], j \in DOMAIN rows[m] :
           /\ k < m \/ (k = m /\ i < j)
           /\ {rows[k][i], rows[m][j]} \subseteq text
           => rows[k][i] < rows[m][j]
      /\ l.whole => text = l.printed

LEMMA CaptureIs ==
  ASSUME NEW n \in Nat, NEW cap \in Capture, <<cap.row, cap.col>> \in Spots, Drawn(screen, n), ~screen.moved,
         NEW tk, tk \subseteq 1 .. n, \A p \in Spots : screen.cells[p] \notin tk, Captured(screen, n, tk, cap)
  PROVE  Exact([rows |-> SaveVgaRegion(cap), printed |-> (cap.first .. n) \ tk, whole |-> cap.whole])
<1> PICK rows : rows = SaveVgaRegion(cap) OBVIOUS
<1> DEFINE text == (UNION {ToSet(rows[k]) : k \in DOMAIN rows}) \ {NoChar}
<1>1. Here \in Spots BY DEF Drawn, Here
<1>2. /\ DOMAIN rows = 1 .. LastRow(cap) - cap.row + 1
      /\ \A k \in DOMAIN rows : \A j \in DOMAIN rows[k] :
              \E q \in Spots : /\ q[1] = cap.row + k - 1 /\ q[2] = FirstCol(cap, cap.row + k - 1) + j - 1
                              /\ InRegion(cap, q) /\ rows[k][j] = screen.cells[q]
      /\ \A p \in Spots : InRegion(cap, p) =>
              \E k \in DOMAIN rows : \E j \in DOMAIN rows[k] : rows[k][j] = screen.cells[p]
  BY <1>1, RowsAre
<1>3. ASSUME NEW x
      PROVE  x \in text <=> x # NoChar /\ \E k \in DOMAIN rows : \E j \in DOMAIN rows[k] : rows[k][j] = x
  <2> PICK sets : sets = {ToSet(rows[k]) : k \in DOMAIN rows} OBVIOUS
  <2>3. (\E m \in sets : x \in m) <=> \E k \in DOMAIN rows : x \in ToSet(rows[k]) OBVIOUS
  <2>4. text = (UNION sets) \ {NoChar} OBVIOUS
  <2> HIDE DEF text
  <2>1. x \in text <=> x # NoChar /\ \E k \in DOMAIN rows : x \in ToSet(rows[k])
    <3>1. x \in UNION sets <=> \E m \in sets : x \in m BY Zenon
    <3>2. x \in text <=> x \in UNION sets /\ x # NoChar BY <2>4, Zenon
    <3> QED BY <2>3, <3>1, <3>2, Zenon
  <2>2. \A k \in DOMAIN rows : x \in ToSet(rows[k]) <=> \E j \in DOMAIN rows[k] : rows[k][j] = x BY DEF ToSet
  <2> QED BY <2>1, <2>2
<1>4. cap.first \in Nat \ {0} BY DEF Capture
<1> HIDE DEF text
<1>5. ASSUME NEW x \in text PROVE x \in (cap.first .. n) \ tk
  <2>1. PICK q \in Spots : InRegion(cap, q) /\ screen.cells[q] = x BY <1>2, <1>3
  <2>2. Index(q) >= From(cap) BY <1>1, <2>1, RegionFrom
  <2>3. x >= cap.first BY <1>3, <2>1, <2>2 DEF Captured
  <2>4. x \in {NoChar, PromptSign} \cup (1 .. n) /\ x \notin tk BY <2>1 DEF Drawn
  <2>5. x \in 1 .. n BY <1>4, <2>3, <2>4 DEF NoChar, PromptSign
  <2> QED BY <1>4, <2>3, <2>4, <2>5
<1>6. ASSUME NEW k \in DOMAIN rows, NEW m \in DOMAIN rows, NEW i \in DOMAIN rows[k], NEW j \in DOMAIN rows[m],
             k < m \/ (k = m /\ i < j), rows[k][i] \in text, rows[m][j] \in text
      PROVE  rows[k][i] < rows[m][j]
  <2>1. PICK p \in Spots : /\ p[1] = cap.row + k - 1 /\ p[2] = FirstCol(cap, cap.row + k - 1) + i - 1
                           /\ rows[k][i] = screen.cells[p]
    BY <1>2
  <2>2. PICK q \in Spots : /\ q[1] = cap.row + m - 1 /\ q[2] = FirstCol(cap, cap.row + m - 1) + j - 1
                           /\ rows[m][j] = screen.cells[q]
    BY <1>2
  <2>3. cap.row \in Nat /\ k \in Nat /\ m \in Nat
    <3>1. cap.row \in Nat BY DEF Capture
    <3>2. k \in 1 .. LastRow(cap) - cap.row + 1 /\ m \in 1 .. LastRow(cap) - cap.row + 1 BY <1>2
    <3> QED BY <3>1, <3>2
  <2>4. Index(p) < Index(q)
    <3>1. CASE k < m
      <4>1. p[1] < q[1] BY <2>1, <2>2, <2>3, <3>1
      <4> QED BY <4>1, IndexOrder
    <3>2. CASE k = m /\ i < j
      <4> PICK f \in Nat : f = FirstCol(cap, cap.row + k - 1) BY <1>1, CornersAre
      <4>1. p[1] = q[1] /\ p[2] = f + i - 1 /\ q[2] = f + j - 1 BY <2>1, <2>2, <3>2
      <4>2. p[2] \in Nat /\ q[2] \in Nat BY SpotIs
      <4>3. i \in Int /\ j \in Int
        <5>1. rows[k] = [x \in 1 .. LastCol(cap, cap.row + k - 1) - FirstCol(cap, cap.row + k - 1) + 1 |-> rows[k][x]]
          <6>1. SaveVgaRegion(cap)[k] = rows[k] OBVIOUS
          <6> QED BY <1>2, <6>1 DEF SaveVgaRegion
        <5> QED BY <3>2, <5>1
      <4>4. q[2] - p[2] = j - i /\ j - i > 0 BY <3>2, <4>1, <4>3
      <4>5. Index(q) - Index(p) = q[2] - p[2] BY <4>1, IndexOrder
      <4>6. Index(p) \in Nat /\ Index(q) \in Nat BY SpotIs
      <4> QED BY <4>3, <4>4, <4>5, <4>6
    <3> QED BY <1>6, <3>1, <3>2
  <2>5. screen.cells[p] > 0 /\ screen.cells[q] > 0 BY <1>4, <1>5, <1>6, <2>1, <2>2
  <2> QED BY <2>1, <2>2, <2>4, <2>5 DEF Drawn
<1>7. ASSUME cap.whole, NEW x \in (cap.first .. n) \ tk PROVE x \in text
  <2>1. From(cap) <= At(screen) BY <1>7 DEF Captured
  <2>2. PICK p \in Spots : Index(p) >= From(cap) /\ screen.cells[p] = x BY <1>7 DEF Captured
  <2>3. x > 0 /\ x # NoChar BY <1>4 DEF NoChar
  <2>4. ~(Index(p) >= At(screen)) BY <2>2, <2>3 DEF Drawn
  <2>5. At(screen) \in Nat /\ Index(p) \in Nat /\ From(cap) \in Nat BY <1>1, SpotIs DEF At, Here, From
  <2>6. InRegion(cap, p) BY <1>1, <2>2, <2>4, <2>5, RegionWhole
  <2> QED BY <1>2, <1>3, <2>2, <2>3, <2>6
<1> PICK l : l = [rows |-> rows, printed |-> (cap.first .. n) \ tk, whole |-> cap.whole] OBVIOUS
<1>8. l.rows = rows /\ l.printed = (cap.first .. n) \ tk /\ l.whole = cap.whole OBVIOUS
<1>9. text = (UNION {ToSet(l.rows[k]) : k \in DOMAIN l.rows}) \ {NoChar} BY <1>8 DEF text
<1>10. text \subseteq l.printed BY <1>5, <1>8
<1>11. l.whole => text = l.printed BY <1>5, <1>7, <1>8
<1>12. \A k, m \in DOMAIN l.rows : \A i \in DOMAIN l.rows[k], j \in DOMAIN l.rows[m] :
           /\ k < m \/ (k = m /\ i < j)
           /\ {l.rows[k][i], l.rows[m][j]} \subseteq text
           => l.rows[k][i] < l.rows[m][j]
  BY <1>6, <1>8
<1>13. Exact(l) BY <1>9, <1>10, <1>11, <1>12 DEF Exact
<1> QED BY <1>13

-----------------------------------------------------------------------------
(* What is remembered for a property only.                                 *)
Unmoved(t) == [t EXCEPT !.moved = FALSE]

LEMMA UnmovedIs ==
  ASSUME NEW t \in Screen
  PROVE  /\ Unmoved(t) \in Screen /\ Unmoved(t).row = t.row /\ Unmoved(t).col = t.col
         /\ Unmoved(t).cells = t.cells /\ Unmoved(t).cursor = t.cursor /\ ~Unmoved(t).moved
<1>1. Unmoved(t) \in Screen BY DEF Screen, Unmoved
<1>2. Unmoved(t).row = t.row BY DEF Screen, Unmoved
<1>3. Unmoved(t).col = t.col BY DEF Screen, Unmoved
<1>4. Unmoved(t).cells = t.cells BY DEF Screen, Unmoved
<1>5. Unmoved(t).cursor = t.cursor BY DEF Screen, Unmoved
<1>6. Unmoved(t).moved = FALSE BY DEF Screen, Unmoved
<1> QED BY <1>1, <1>2, <1>3, <1>4, <1>5, <1>6

Marked(cap, t) == [cap EXCEPT !.whole = @ /\ ~t.moved]

LEMMA MarkedIs ==
  ASSUME NEW t \in Screen, NEW cap \in Capture
  PROVE  /\ Marked(cap, t) \in Capture /\ Marked(cap, t).row = cap.row /\ Marked(cap, t).col = cap.col
         /\ Marked(cap, t).first = cap.first /\ (Marked(cap, t).whole => cap.whole /\ ~t.moved)
<1>1. PICK b \in BOOLEAN : b = (cap.whole /\ ~t.moved) OBVIOUS
<1> DEFINE c == [cap EXCEPT !.whole = b]
<1>2. Marked(cap, t) = c BY <1>1 DEF Marked
<1>3. c \in Capture BY DEF Capture
<1>4. c.row = cap.row BY DEF Capture
<1>5. c.col = cap.col BY DEF Capture
<1>6. c.first = cap.first BY DEF Capture
<1>7. c.whole = b BY DEF Capture
<1> HIDE DEF c
<1> QED BY <1>1, <1>2, <1>3, <1>4, <1>5, <1>6, <1>7

LEMMA CapturedMarked ==
  ASSUME NEW t \in Screen, NEW cap \in Capture, NEW n \in Nat, NEW tk, Captured(t, n, tk, cap)
  PROVE  Captured(Unmoved(t), n, tk, Marked(cap, t))
<1>1. /\ Unmoved(t).cells = t.cells /\ Unmoved(t).row = t.row /\ Unmoved(t).col = t.col BY UnmovedIs
<1>2. /\ Marked(cap, t).row = cap.row /\ Marked(cap, t).col = cap.col /\ Marked(cap, t).first = cap.first
      /\ (Marked(cap, t).whole => cap.whole /\ ~t.moved)
  BY MarkedIs
<1>3. At(Unmoved(t)) = At(t) /\ From(Marked(cap, t)) = From(cap) BY <1>1, <1>2 DEF At, From
<1> QED BY <1>1, <1>2, <1>3 DEF Captured

LEMMA DrawnUnmoved ==
  ASSUME NEW t \in Screen, NEW n \in Nat, Drawn(t, n)
  PROVE  Drawn(Unmoved(t), n)
<1>1. /\ Unmoved(t) \in Screen /\ Unmoved(t).cells = t.cells /\ Unmoved(t).row = t.row /\ Unmoved(t).col = t.col
  BY UnmovedIs
<1>2. At(Unmoved(t)) = At(t) BY <1>1 DEF At
<1> QED BY <1>1, <1>2 DEF Drawn

LEMMA CapsMarked ==
  ASSUME NEW t \in Screen, NEW cs, NEW n \in Nat, NEW m \in Nat, n <= m, Caps(cs, n)
  PROVE  Caps([k \in DOMAIN cs |-> Marked(cs[k], t)], m)
<1> DEFINE ds == [k \in DOMAIN cs |-> Marked(cs[k], t)]
<1>1. cs \in Seq(Capture) BY DEF Caps
<1>2. \A k \in DOMAIN cs : cs[k] \in Capture BY <1>1
<1>3. \A k \in DOMAIN cs : ds[k] = Marked(cs[k], t) /\ Marked(cs[k], t) \in Capture BY <1>2, MarkedIs
<1>4. ds \in Seq(Capture)
  <2>1. PICK z \in Nat : z = Len(cs) /\ DOMAIN cs = 1 .. z BY <1>1
  <2>2. ds \in [1 .. z -> Capture] BY <1>3, <2>1
  <2> HIDE DEF ds
  <2> QED BY <2>2
<1>5. ASSUME NEW k \in DOMAIN ds PROVE <<ds[k].row, ds[k].col>> \in Spots /\ ds[k].first <= m + 1
  <2>1. cs[k] \in Capture /\ <<cs[k].row, cs[k].col>> \in Spots /\ cs[k].first <= n + 1 BY <1>2 DEF Caps
  <2>2. ds[k].row = cs[k].row /\ ds[k].col = cs[k].col /\ ds[k].first = cs[k].first BY <1>3, <2>1, MarkedIs
  <2>3. cs[k].first \in Nat BY <2>1 DEF Capture
  <2> QED BY <2>1, <2>2, <2>3
<1> HIDE DEF ds
<1> QED BY <1>4, <1>5 DEF Caps, ds

-----------------------------------------------------------------------------
(* The inductive invariant.                                                *)
Counted(l, n) ==
  \A i \in 1 .. Len(l) :
    /\ l[i] \in 0 .. n
    /\ \A j \in 1 .. Len(l) : j < i /\ l[i] > 0 /\ l[j] > 0 => l[j] < l[i]

ScreenInv ==
  /\ Sound(screen, serial, taken, captures) /\ Caps(captures, serial)
  /\ ~screen.moved /\ screen.cursor \in Spots
  /\ captures = <<>> => taken = {}
  /\ CaptureExact

LineInv == line \in Seq(Int) /\ Len(line) < LineMax /\ Counted(line, serial)

PromptInv ==
  atPrompt => /\ captures = <<>> /\ screen.cursor = Here
              /\ ~hidden => Lined(screen, line, Len(line))

ConsoleInv == ScreenInv /\ LineInv /\ PromptInv /\ serial \in 0 .. MaxSerial /\ {atPrompt, hidden} \subseteq BOOLEAN

LEMMA NothingExact ==
  ASSUME last' = NoCapture
  PROVE  CaptureExact'
BY DEF CaptureExact, NoCapture, NoText, ToSet

(* A step that prints.                                                     *)
LEMMA ShownKeeps ==
  ASSUME ConsoleInv, NEW t \in Screen, t.cursor \in Spots, Shows(t), serial' \in Nat, serial <= serial', taken' = taken,
         Sound(t, serial', taken, captures)
  PROVE  /\ ScreenInv' /\ (captures = <<>> => captures' = <<>>)
         /\ screen' \in Screen /\ screen'.row = t.row /\ screen'.col = t.col
         /\ screen'.cells = t.cells /\ screen'.cursor = t.cursor
<1>1. screen' = Unmoved(t) BY DEF Shows, Unmoved
<1>2. captures' = [k \in DOMAIN captures |-> Marked(captures[k], t)] BY DEF Shows, Marked
<1>3. /\ screen' \in Screen /\ screen'.row = t.row /\ screen'.col = t.col
      /\ screen'.cells = t.cells /\ screen'.cursor = t.cursor /\ ~screen'.moved
  BY <1>1, UnmovedIs
<1>4. CaptureExact' BY NothingExact DEF Shows
<1>5. serial \in Nat /\ Caps(captures, serial) BY DEF ConsoleInv, ScreenInv
<1>6. Caps(captures', serial') BY <1>2, <1>5, CapsMarked
<1>7. Drawn(screen', serial') BY <1>1, DrawnUnmoved DEF Sound
<1>8. ASSUME NEW k \in DOMAIN captures' PROVE Captured(screen', serial', taken, captures'[k])
  <2>1. k \in DOMAIN captures /\ captures'[k] = Marked(captures[k], t) BY <1>2
  <2>2. captures \in Seq(Capture) BY <1>5 DEF Caps
  <2>3. captures[k] \in Capture BY <2>1, <2>2
  <2>4. Captured(t, serial', taken, captures[k]) BY <2>1 DEF Sound
  <2> QED BY <1>1, <2>1, <2>3, <2>4, CapturedMarked
<1>9. taken \subseteq 1 .. serial' /\ \A p \in Spots : screen'.cells[p] \notin taken BY <1>3 DEF Sound
<1>10. Sound(screen', serial', taken', captures') BY <1>7, <1>8, <1>9 DEF Sound
<1>11. captures = <<>> => captures' = <<>> BY <1>2
<1>12. captures' = <<>> => taken' = {}
  <2>1. captures' = <<>> => captures = <<>>
    <3>1. captures \in Seq(Capture) BY <1>5 DEF Caps
    <3>2. DOMAIN captures' = DOMAIN captures BY <1>2
    <3> QED BY <3>1, <3>2
  <2> QED BY <2>1 DEF ConsoleInv, ScreenInv
<1> QED BY <1>3, <1>4, <1>6, <1>10, <1>11, <1>12 DEF ScreenInv

LEMMA SoundAlone ==
  ASSUME NEW t, NEW n \in Nat, Drawn(t, n), captures = <<>>, taken = {}
  PROVE  Sound(t, n, taken, captures)
BY DEF Sound

(* What the invariant gives to start with.                                 *)
LEMMA ConsoleHas ==
  ASSUME ConsoleInv
  PROVE  /\ serial \in Nat /\ serial <= MaxSerial /\ Sound(screen, serial, taken, captures) /\ Caps(captures, serial)
         /\ Drawn(screen, serial) /\ screen \in Screen /\ <<screen.row, screen.col>> \in Spots
         /\ ~screen.moved /\ captures \in Seq(Capture)
         /\ line \in Seq(Int) /\ Len(line) \in Nat /\ Len(line) < LineMax /\ Counted(line, serial)
         /\ (atPrompt => captures = <<>> /\ taken = {} /\ screen.cursor = <<screen.row, screen.col>>)
         /\ (atPrompt /\ ~hidden => Lined(screen, line, Len(line)))
<1>1. serial \in 0 .. MaxSerial /\ MaxSerial \in Nat BY ConsoleConstants DEF ConsoleInv
<1>2. Sound(screen, serial, taken, captures) /\ Caps(captures, serial) BY DEF ConsoleInv, ScreenInv
<1>3. Drawn(screen, serial) BY <1>2 DEF Sound
<1>4. captures \in Seq(Capture) BY <1>2 DEF Caps
<1>5. line \in Seq(Int) /\ Len(line) < LineMax /\ Counted(line, serial) BY DEF ConsoleInv, LineInv
<1>6. atPrompt => captures = <<>> /\ taken = {} /\ screen.cursor = <<screen.row, screen.col>>
  BY DEF ConsoleInv, ScreenInv, PromptInv, Here
<1>7. atPrompt /\ ~hidden => Lined(screen, line, Len(line)) BY DEF ConsoleInv, PromptInv
<1> QED BY <1>1, <1>2, <1>3, <1>4, <1>5, <1>6, <1>7 DEF ConsoleInv, ScreenInv, Drawn

LEMMA NoLine == <<>> \in Seq(Int) /\ Len(<<>>) = 0 /\ Len(<<>>) < LineMax /\ \A n : Counted(<<>>, n)
BY ConsoleConstants DEF Counted

LEMMA PrintPromptKeeps ==
  ASSUME ConsoleInv, PrintPrompt
  PROVE  ConsoleInv'
<1> PICK s, n : s = screen /\ n = serial OBVIOUS
<1> PICK t : t = VgaPutchar(screen, PromptSign) OBVIOUS
<1>1. /\ ~atPrompt /\ captures = <<>> /\ Shows(t) /\ atPrompt' = TRUE /\ line' = <<>> /\ hidden' = FALSE
      /\ serial' = serial /\ taken' = taken
  BY DEF PrintPrompt
<1>2. n \in Nat /\ Drawn(s, n) /\ s \in Screen /\ <<s.row, s.col>> \in Spots BY ConsoleHas
<1>3. PromptSign \in Int /\ PromptSign # Backspace BY DEF PromptSign, Backspace
<1>4. PICK d \in Nat : Puts(s, t, PromptSign, d) BY <1>2, <1>3, PutIs
<1>5. Writable(s, n, PromptSign) BY DEF Writable, PromptSign
<1>6. Drawn(t, n) BY <1>2, <1>3, <1>4, <1>5, DrawnPut
<1>7. taken = {} BY <1>1 DEF ConsoleInv, ScreenInv
<1>8. Sound(t, serial', taken, captures) BY <1>1, <1>2, <1>6, <1>7, SoundAlone
<1>9. t \in Screen /\ <<t.row, t.col>> \in Spots /\ t.cursor = <<t.row, t.col>> BY <1>4 DEF Puts
<1>10. serial' \in Nat /\ serial <= serial' BY <1>1, <1>2
<1>11. /\ ScreenInv' /\ captures' = <<>> /\ screen'.cursor = <<screen'.row, screen'.col>>
  BY <1>1, <1>8, <1>9, <1>10, ShownKeeps
<1>12. LineInv' BY <1>1, NoLine DEF LineInv
<1>13. PromptInv'
  <2>1. Lined(screen', <<>>, 0) BY DEF Lined
  <2> QED BY <1>1, <1>11, <2>1, NoLine DEF PromptInv, Here
<1> QED BY <1>1, <1>11, <1>12, <1>13 DEF ConsoleInv

LEMMA TypeCharKeeps ==
  ASSUME ConsoleInv, TypeChar
  PROVE  ConsoleInv'
<1> PICK s : s = screen OBVIOUS
<1> PICK n \in Nat : n = serial BY ConsoleHas
<1> PICK c \in Nat : c = n + 1 OBVIOUS
<1> PICK t : t = VgaPutchar(screen, serial + 1) OBVIOUS
<1>1. /\ atPrompt /\ serial < MaxSerial /\ Len(line) < LineMax - 1 /\ Shows(t)
      /\ line' = Append(line, c) /\ serial' = c
      /\ taken' = taken /\ atPrompt' = atPrompt /\ hidden' = hidden
  BY DEF TypeChar
<1>2. Drawn(s, n) /\ s \in Screen /\ <<s.row, s.col>> \in Spots /\ captures = <<>> /\ taken = {} BY <1>1, ConsoleHas
<1>3. c \in Int /\ c # Backspace /\ Visible(c) BY DEF Visible, NewLine, Tabulator, Backspace
<1>4. PICK d \in Nat : Puts(s, t, c, d) BY <1>2, <1>3, PutIs
<1>5. Adds(c, n, c) BY <1>3 DEF Adds
<1>6. Drawn(s, c) /\ Writable(s, c, c) BY <1>2, <1>3, <1>5, AddsWritable
<1>7. Drawn(t, c) BY <1>3, <1>4, <1>6, DrawnPut
<1>8. Sound(t, serial', taken, captures) BY <1>1, <1>2, <1>7, SoundAlone
<1>9. t \in Screen /\ <<t.row, t.col>> \in Spots /\ t.cursor = <<t.row, t.col>> BY <1>4 DEF Puts
<1>10. serial' \in Nat /\ serial <= serial' BY <1>1
<1>11. /\ ScreenInv' /\ captures' = <<>> /\ screen'.cursor = <<screen'.row, screen'.col>>
       /\ screen'.row = t.row /\ screen'.col = t.col /\ screen'.cells = t.cells
  BY <1>1, <1>2, <1>8, <1>9, <1>10, ShownKeeps
<1>12. line \in Seq(Int) /\ Counted(line, n) BY ConsoleHas
<1> PICK z \in Nat : z = Len(line) BY <1>12
<1> PICK l : l = line' OBVIOUS
<1>13. l \in Seq(Int) /\ Len(l) = z + 1 /\ l[z + 1] = c /\ \A k \in 1 .. z : l[k] = line[k]
  BY <1>1, <1>3, <1>12
<1>14. LineInv'
  <2>1. Len(l) < LineMax BY <1>1, <1>13, ConsoleConstants
  <2>2. ASSUME NEW i \in 1 .. z + 1
        PROVE  l[i] \in 0 .. c /\ \A j \in 1 .. z + 1 : j < i /\ l[i] > 0 /\ l[j] > 0 => l[j] < l[i]
    <3>1. \A k \in 1 .. z : l[k] \in 0 .. n BY <1>12, <1>13 DEF Counted
    <3>2. CASE i = z + 1
      <4>1. \A j \in 1 .. z + 1 : j < i => j \in 1 .. z BY <3>2
      <4> QED BY <1>13, <3>1, <3>2, <4>1
    <3>3. CASE i # z + 1
      <4>1. i \in 1 .. z /\ \A j \in 1 .. z + 1 : j < i => j \in 1 .. z BY <3>3
      <4>2. l[i] \in 0 .. c BY <3>1, <4>1
      <4>3. \A j \in 1 .. z : j < i /\ l[i] > 0 /\ l[j] > 0 => l[j] < l[i] BY <1>12, <1>13, <4>1 DEF Counted
      <4> QED BY <4>1, <4>2, <4>3
    <3> QED BY <3>2, <3>3
  <2>3. Counted(l, c) BY <1>13, <2>2 DEF Counted
  <2> QED BY <1>1, <1>13, <2>1, <2>3 DEF LineInv
<1>15. PromptInv'
  <2>1. ASSUME ~hidden PROVE Lined(t, l, z + 1)
    <3>1. Lined(s, line, z) BY <1>1, <2>1, ConsoleHas
    <3>2. Lined(s, l, z) BY <1>13, <3>1 DEF Lined
    <3> QED BY <1>2, <1>3, <1>4, <1>13, <3>2, LinedPut
  <2>2. Lined(t, l, z + 1) => Lined(screen', l, Len(l)) BY <1>11, <1>13 DEF Lined, At
  <2> QED BY <1>1, <1>11, <2>1, <2>2 DEF PromptInv, Here
<1>16. serial' \in 0 .. MaxSerial BY <1>1, ConsoleConstants
<1> QED BY <1>1, <1>11, <1>14, <1>15, <1>16 DEF ConsoleInv

LEMMA LinedSame ==
  ASSUME NEW s, NEW t, t.row = s.row, t.col = s.col, t.cells = s.cells, NEW l, NEW m \in Nat, Lined(s, l, m)
  PROVE  Lined(t, l, m)
<1>1. At(t) = At(s) BY DEF At
<1> QED BY <1>1 DEF Lined

LEMMA DrawnLine ==
  ASSUME NEW s, NEW n \in Nat, Drawn(s, n), s.cursor = <<s.row, s.col>>, NEW b, Len(b) \in Nat, Fits(s, n, b)
  PROVE  Drawn(VgaPuts(s, b), n) /\ VgaPuts(s, b).cursor = <<VgaPuts(s, b).row, VgaPuts(s, b).col>>
<1>1. Lined(s, b, 0) /\ 0 \in Nat BY DEF Lined
<1>2. \A k \in 1 .. Len(b) : b[0 + k] = b[k] OBVIOUS
<1> QED BY <1>1, <1>2, TypedLine

LEMMA JoinedIs ==
  ASSUME NEW p \in Seq(Int), NEW q \in Seq(Int)
  PROVE  /\ p \o q \in Seq(Int) /\ Len(p \o q) = Len(p) + Len(q)
         /\ \A k \in 1 .. Len(p) : (p \o q)[k] = p[k]
         /\ \A k \in 1 .. Len(q) : (p \o q)[Len(p) + k] = q[k]
OBVIOUS

LEMMA TypeTabKeeps ==
  ASSUME ConsoleInv, TypeTab
  PROVE  ConsoleInv'
<1> PICK s : s = screen OBVIOUS
<1> PICK n \in Nat : n = serial BY ConsoleHas
<1> PICK z \in Nat : z = Len(line) BY ConsoleHas
<1> PICK w : w = (IF LineMax - 1 - Len(line) < LineTab THEN LineMax - 1 - Len(line) ELSE LineTab) OBVIOUS
<1> PICK b : b = [k \in 1 .. w |-> NoChar] OBVIOUS
<1> PICK t : t = VgaPuts(screen, b) OBVIOUS
<1> PICK l : l = line' OBVIOUS
<1>1. /\ atPrompt /\ Shows(t) /\ l = line \o b
      /\ serial' = n /\ taken' = taken /\ atPrompt' = atPrompt /\ hidden' = hidden
  BY DEF TypeTab
<1>2. /\ Drawn(s, n) /\ s \in Screen /\ <<s.row, s.col>> \in Spots /\ captures = <<>> /\ taken = {}
      /\ s.cursor = <<s.row, s.col>> /\ line \in Seq(Int) /\ Counted(line, n) /\ z < LineMax
  BY <1>1, ConsoleHas
<1>3. w \in Nat /\ z + w < LineMax
  <2>1. LineTab \in Nat /\ LineMax \in Nat BY ConsoleConstants
  <2> QED BY <1>2, <2>1
<1> PICK x \in Nat : x = w BY <1>3
<1>4. b \in Seq(Int) /\ Len(b) = x /\ \A k \in 1 .. x : b[k] = NoChar
  <2>1. NoChar \in Int BY DEF NoChar
  <2> QED BY <1>3, <2>1
<1>5. l \in Seq(Int) /\ Len(l) = z + x /\ (\A k \in 1 .. z : l[k] = line[k]) /\ (\A k \in 1 .. x : l[z + k] = b[k])
  BY <1>1, <1>2, <1>4, JoinedIs
<1>6. Fits(s, n, b)
  <2>1. \A i \in 1 .. Len(b) : b[i] = 0 BY <1>4 DEF NoChar
  <2> QED BY <2>1 DEF Fits, NoChar
<1>7. s.cursor = <<s.row, s.col>> /\ Len(b) \in Nat BY <1>2, <1>3, <1>4
<1>8. Drawn(t, n) /\ t.cursor = <<t.row, t.col>> BY <1>2, <1>6, <1>7, DrawnLine
<1>9. Sound(t, serial', taken, captures) BY <1>1, <1>2, <1>8, SoundAlone
<1>10. t \in Screen /\ <<t.row, t.col>> \in Spots BY <1>8 DEF Drawn
<1>11. serial' \in Nat /\ serial <= serial' BY <1>1
<1>12. /\ ScreenInv' /\ captures' = <<>> /\ screen'.cursor = <<screen'.row, screen'.col>>
       /\ screen'.row = t.row /\ screen'.col = t.col /\ screen'.cells = t.cells
  BY <1>1, <1>2, <1>8, <1>9, <1>10, <1>11, ShownKeeps
<1>13. LineInv'
  <2>1. ASSUME NEW i \in 1 .. z + x
        PROVE  l[i] \in 0 .. n /\ \A j \in 1 .. z + x : j < i /\ l[i] > 0 /\ l[j] > 0 => l[j] < l[i]
    <3>1. CASE i \in 1 .. z
      <4>1. \A j \in 1 .. z + x : j < i => j \in 1 .. z BY <3>1
      <4> QED BY <1>2, <1>5, <3>1, <4>1 DEF Counted
    <3>2. CASE i \notin 1 .. z
      <4>1. i - z \in 1 .. x /\ z + (i - z) = i BY <1>3, <3>2
      <4>2. l[i] = 0 BY <1>4, <1>5, <4>1 DEF NoChar
      <4> QED BY <4>2
    <3> QED BY <3>1, <3>2
  <2>2. Counted(l, n) BY <1>5, <2>1 DEF Counted
  <2>3. Len(l) < LineMax BY <1>3, <1>5
  <2> QED BY <1>1, <1>5, <2>2, <2>3 DEF LineInv
<1>14. PromptInv'
  <2>1. ASSUME ~hidden PROVE Lined(t, l, z + x)
    <3>1. Lined(s, line, z) BY <1>1, <2>1, ConsoleHas
    <3>2. Lined(s, l, z) BY <1>5, <3>1 DEF Lined
    <3>3. \A k \in 1 .. Len(b) : l[z + k] = b[k] BY <1>4, <1>5
    <3>4. Lined(t, l, z + Len(b)) BY <1>2, <1>6, <1>7, <3>2, <3>3, TypedLine
    <3> QED BY <1>4, <3>4
  <2>2. ASSUME Lined(t, l, z + x) PROVE Lined(screen', l, Len(l))
    <3> PICK y \in Nat : y = z + x OBVIOUS
    <3>1. Lined(t, l, y) /\ Len(l) = y BY <1>5, <2>2
    <3>2. Lined(screen', l, y) BY <1>12, <3>1, LinedSame
    <3> QED BY <3>1, <3>2
  <2> QED BY <1>1, <1>12, <2>1, <2>2 DEF PromptInv, Here
<1> QED BY <1>1, <1>12, <1>13, <1>14 DEF ConsoleInv

LEMMA TypeBackspaceKeeps ==
  ASSUME ConsoleInv, TypeBackspace
  PROVE  ConsoleInv'
<1> PICK s : s = screen OBVIOUS
<1> PICK n \in Nat : n = serial BY ConsoleHas
<1> PICK t : t = VgaPuts(screen, Rubbed) OBVIOUS
<1> PICK l : l = line' OBVIOUS
<1>1. /\ atPrompt /\ line # <<>> /\ Shows(t) /\ l = Front(line)
      /\ serial' = n /\ taken' = taken /\ atPrompt' = atPrompt /\ hidden' = (hidden \/ screen.col = 0)
  BY DEF TypeBackspace
<1>2. /\ Drawn(s, n) /\ captures = <<>> /\ taken = {}
      /\ line \in Seq(Int) /\ Counted(line, n) /\ Len(line) < LineMax
  BY <1>1, ConsoleHas
<1> PICK z \in Nat : Len(line) = z + 1
  <2>1. Len(line) \in Nat /\ Len(line) # 0 BY <1>1, <1>2
  <2>2. Len(line) - 1 \in Nat /\ Len(line) = (Len(line) - 1) + 1 BY <2>1
  <2> QED BY <2>2
<1>3. l \in Seq(Int) /\ Len(l) = z /\ \A k \in 1 .. z : l[k] = line[k]
  <2>1. l = SubSeq(line, 1, z) BY <1>1 DEF Front
  <2> QED BY <1>2, <2>1
<1>4. /\ Drawn(t, n) /\ t.cursor = <<t.row, t.col>>
      /\ \A h : \A m \in Nat : s.col # 0 /\ Lined(s, h, m + 1) => Lined(t, h, m)
  BY <1>2, Rubs
<1>5. Sound(t, serial', taken, captures) BY <1>1, <1>2, <1>4, SoundAlone
<1>6. t \in Screen /\ <<t.row, t.col>> \in Spots BY <1>4 DEF Drawn
<1>7. serial' \in Nat /\ serial <= serial' BY <1>1
<1>8. /\ ScreenInv' /\ captures' = <<>> /\ screen'.cursor = <<screen'.row, screen'.col>>
      /\ screen'.row = t.row /\ screen'.col = t.col /\ screen'.cells = t.cells
  BY <1>1, <1>2, <1>4, <1>5, <1>6, <1>7, ShownKeeps
<1>9. LineInv'
  <2>1. Counted(l, n)
    <3>1. \A i \in 1 .. z : i \in 1 .. Len(line) OBVIOUS
    <3> QED BY <1>2, <1>3, <3>1 DEF Counted
  <2>2. Len(l) < LineMax BY <1>2, <1>3, ConsoleConstants
  <2> QED BY <1>1, <1>3, <2>1, <2>2 DEF LineInv
<1>10. PromptInv'
  <2>1. ASSUME ~hidden' PROVE Lined(screen', l, Len(l))
    <3>1. ~hidden /\ s.col # 0 BY <1>1, <2>1
    <3>2. Lined(s, line, z + 1) BY <1>1, <3>1, ConsoleHas
    <3>3. Lined(t, line, z) BY <1>4, <3>1, <3>2
    <3> QED BY <1>3, <1>8, <3>3 DEF Lined, At
  <2> QED BY <1>1, <1>8, <2>1 DEF PromptInv, Here
<1>11. hidden' \in BOOLEAN BY <1>1 DEF ConsoleInv
<1> QED BY <1>1, <1>8, <1>9, <1>10, <1>11 DEF ConsoleInv

(* The prompt is not part of the line.                                     *)
LEMMA LinedTail ==
  ASSUME NEW s, At(s) \in Nat, NEW h, NEW l, NEW z \in Nat, \A k \in 1 .. z : h[k + 1] = l[k], Lined(s, h, z + 1)
  PROVE  Lined(s, l, z)
<1> SUFFICES ASSUME NEW k \in 1 .. z, NEW p \in Spots, Index(p) = At(s) - z + k - 1 PROVE s.cells[p] = l[k] BY DEF Lined
<1>1. k + 1 \in 1 .. z + 1 /\ Index(p) = At(s) - (z + 1) + (k + 1) - 1 OBVIOUS
<1>2. s.cells[p] = h[k + 1] BY <1>1 DEF Lined
<1> QED BY <1>2

LEMMA ClearIs ==
  ASSUME NEW s \in Screen
  PROVE  /\ VgaClear(s) \in Screen /\ VgaClear(s).row = 0 /\ VgaClear(s).col = 0 /\ VgaClear(s).cursor = <<0, 0>>
         /\ VgaClear(s).moved = TRUE /\ VgaClear(s).cells = Erased
         /\ <<0, 0>> \in Spots /\ \A n \in Nat : Drawn(VgaClear(s), n)
<1> DEFINE t == VgaClear(s)
<1>1. Erased \in [Spots -> Int] BY DEF Erased, NoChar
<1>2. t \in Screen BY <1>1 DEF Screen, VgaClear
<1>3. t.row = 0 BY DEF Screen, VgaClear
<1>4. t.col = 0 BY DEF Screen, VgaClear
<1>5. t.cursor = <<0, 0>> BY DEF Screen, VgaClear
<1>6. t.moved = TRUE BY DEF Screen, VgaClear
<1>7. t.cells = Erased BY DEF Screen, VgaClear
<1>8. <<0, 0>> \in Spots
  <2>1. 0 \in 0 .. Height - 1 /\ 0 \in 0 .. Width - 1 BY ConsoleConstants
  <2> QED BY <2>1 DEF Spots
<1> HIDE DEF t
<1>9. \A p \in Spots : t.cells[p] = NoChar BY <1>7 DEF Erased
<1>10. ASSUME NEW n \in Nat PROVE Drawn(t, n) BY <1>2, <1>3, <1>4, <1>8, <1>9 DEF Drawn, NoChar
<1> QED BY <1>2, <1>3, <1>4, <1>5, <1>6, <1>7, <1>8, <1>10 DEF t

LEMMA TypeCtrlLKeeps ==
  ASSUME ConsoleInv, TypeCtrlL
  PROVE  ConsoleInv'
<1> PICK s : s = VgaClear(screen) OBVIOUS
<1> PICK n \in Nat : n = serial BY ConsoleHas
<1> PICK b : b = <<PromptSign>> \o line OBVIOUS
<1> PICK t : t = VgaPuts(s, b) OBVIOUS
<1>1. /\ atPrompt /\ Shows(t)
      /\ line' = line /\ serial' = n /\ taken' = taken /\ atPrompt' = atPrompt /\ hidden' = FALSE
  BY DEF TypeCtrlL
<1>2. /\ screen \in Screen /\ captures = <<>> /\ taken = {}
      /\ line \in Seq(Int) /\ Counted(line, n) /\ Len(line) < LineMax
  BY <1>1, ConsoleHas
<1> PICK z \in Nat : z = Len(line) BY <1>2
<1>3. /\ Drawn(s, n) /\ s.row = 0 /\ s.col = 0 /\ s.cursor = <<0, 0>> /\ \A p \in Spots : s.cells[p] = NoChar
  BY <1>2, ClearIs DEF Erased
<1>4. b \in Seq(Int) /\ Len(b) = z + 1 /\ b[1] = PromptSign /\ \A k \in 1 .. z : b[k + 1] = line[k]
  <2>1. <<PromptSign>> \in Seq(Int) /\ Len(<<PromptSign>>) = 1 /\ <<PromptSign>>[1] = PromptSign BY DEF PromptSign
  <2> PICK a \in Seq(Int) : a = <<PromptSign>> /\ Len(a) = 1 /\ a[1] = PromptSign BY <2>1
  <2>2. b \in Seq(Int) /\ Len(b) = 1 + z BY <1>2, JoinedIs
  <2>3. b[1] = PromptSign
    <3>1. 1 \in 1 .. Len(a) OBVIOUS
    <3>2. (a \o line)[1] = a[1] BY <1>2, <3>1, JoinedIs
    <3> QED BY <3>2
  <2>4. ASSUME NEW k \in 1 .. z PROVE b[k + 1] = line[k]
    <3>1. (a \o line)[Len(a) + k] = line[k] BY <1>2, JoinedIs
    <3>2. Len(a) + k = k + 1 OBVIOUS
    <3> QED BY <3>1, <3>2
  <2> QED BY <2>2, <2>3, <2>4
<1>5. Fits(s, n, b)
  <2> SUFFICES ASSUME NEW i \in 1 .. Len(b)
               PROVE  /\ b[i] \in {NoChar, PromptSign} \cup (1 .. n)
                      /\ \A p \in Spots : b[i] > 0 /\ s.cells[p] > 0 => s.cells[p] < b[i]
                      /\ \A j \in 1 .. Len(b) : j < i /\ b[i] > 0 /\ b[j] > 0 => b[j] < b[i]
    BY DEF Fits
  <2>1. \A p \in Spots : ~(s.cells[p] > 0) BY <1>3 DEF NoChar
  <2>2. CASE i = 1
    <3>1. b[i] = PromptSign BY <1>4, <2>2
    <3> QED BY <2>1, <3>1 DEF PromptSign
  <2>3. CASE i # 1
    <3> PICK k \in 1 .. z : i = k + 1
      <4>1. i - 1 \in 1 .. z /\ i = (i - 1) + 1 BY <1>4, <2>3
      <4> QED BY <4>1
    <3>1. b[i] = line[k] /\ line[k] \in 0 .. n BY <1>2, <1>4 DEF Counted
    <3>2. b[i] \in {NoChar, PromptSign} \cup (1 .. n) BY <3>1 DEF NoChar
    <3>3. ASSUME NEW j \in 1 .. Len(b), j < i, b[i] > 0, b[j] > 0 PROVE b[j] < b[i]
      <4>1. j # 1 BY <1>4, <3>3 DEF PromptSign
      <4> PICK m \in 1 .. z : j = m + 1
        <5>1. j - 1 \in 1 .. z /\ j = (j - 1) + 1 BY <1>4, <4>1
        <5> QED BY <5>1
      <4>2. m < k /\ b[j] = line[m] BY <1>4, <3>3
      <4> QED BY <1>2, <3>1, <3>3, <4>2 DEF Counted
    <3> QED BY <2>1, <3>2, <3>3
  <2> QED BY <2>2, <2>3
<1>6. s.cursor = <<s.row, s.col>> /\ Len(b) \in Nat BY <1>3, <1>4
<1>7. Drawn(t, n) /\ t.cursor = <<t.row, t.col>> BY <1>3, <1>5, <1>6, DrawnLine
<1>8. Lined(t, b, z + 1)
  <2>1. Lined(s, b, 0) /\ 0 \in Nat BY DEF Lined
  <2>2. \A k \in 1 .. Len(b) : b[0 + k] = b[k] BY <1>4
  <2>3. Lined(t, b, 0 + Len(b)) BY <1>3, <1>5, <1>6, <2>1, <2>2, TypedLine
  <2>4. 0 + Len(b) = z + 1 BY <1>4
  <2> QED BY <2>3, <2>4
<1>9. Sound(t, serial', taken, captures) BY <1>1, <1>2, <1>7, SoundAlone
<1>10. t \in Screen /\ <<t.row, t.col>> \in Spots /\ At(t) \in Nat
  <2>1. t \in Screen /\ <<t.row, t.col>> \in Spots BY <1>7 DEF Drawn
  <2> QED BY <2>1, SpotIs DEF At
<1>11. serial' \in Nat /\ serial <= serial' BY <1>1
<1>12. /\ ScreenInv' /\ captures' = <<>> /\ screen'.cursor = <<screen'.row, screen'.col>>
       /\ screen'.row = t.row /\ screen'.col = t.col /\ screen'.cells = t.cells
  BY <1>1, <1>2, <1>7, <1>9, <1>10, <1>11, ShownKeeps
<1>13. Lined(t, line, z) BY <1>4, <1>8, <1>10, LinedTail
<1>14. PromptInv'
  <2>1. Lined(screen', line, z) BY <1>12, <1>13 DEF Lined, At
  <2> QED BY <1>1, <1>12, <2>1 DEF PromptInv, Here
<1>15. LineInv' BY <1>1, <1>2 DEF LineInv
<1> QED BY <1>1, <1>12, <1>14, <1>15 DEF ConsoleInv

LEMMA TypeEnterKeeps ==
  ASSUME ConsoleInv, TypeEnter
  PROVE  ConsoleInv'
<1> PICK s, n : s = screen /\ n = serial OBVIOUS
<1> PICK t : t = VgaPutchar(screen, NewLine) OBVIOUS
<1>1. /\ atPrompt /\ Shows(t) /\ atPrompt' = FALSE /\ line' = <<>> /\ hidden' = FALSE
      /\ serial' = serial /\ taken' = taken
  BY DEF TypeEnter
<1>2. /\ n \in Nat /\ Drawn(s, n) /\ s \in Screen /\ <<s.row, s.col>> \in Spots /\ captures = <<>> /\ taken = {}
  BY <1>1, ConsoleHas
<1>3. NewLine \in Int /\ NewLine # Backspace BY DEF NewLine, Backspace
<1>4. PICK d \in Nat : Puts(s, t, NewLine, d) BY <1>2, <1>3, PutIs
<1>5. Writable(s, n, NewLine) BY DEF Writable, Visible
<1>6. Drawn(t, n) BY <1>2, <1>3, <1>4, <1>5, DrawnPut
<1>7. Sound(t, serial', taken, captures) BY <1>1, <1>2, <1>6, SoundAlone
<1>8. t \in Screen /\ <<t.row, t.col>> \in Spots /\ t.cursor = <<t.row, t.col>> BY <1>4 DEF Puts
<1>9. serial' \in Nat /\ serial <= serial' BY <1>1, <1>2
<1>10. ScreenInv' BY <1>1, <1>7, <1>8, <1>9, ShownKeeps
<1>11. LineInv' BY <1>1, NoLine DEF LineInv
<1>12. PromptInv' BY <1>1 DEF PromptInv
<1> QED BY <1>1, <1>10, <1>11, <1>12 DEF ConsoleInv

-----------------------------------------------------------------------------
(* What commands print.                                                    *)
LEMMA CountedMore ==
  ASSUME NEW l, NEW n \in Nat, NEW m \in Nat, n <= m, Counted(l, n)
  PROVE  Counted(l, m)
<1>1. ASSUME NEW i \in 1 .. Len(l) PROVE l[i] \in 0 .. m
  <2>1. l[i] \in 0 .. n BY DEF Counted
  <2> QED BY <2>1
<1> QED BY <1>1 DEF Counted

LEMMA PrintKeeps ==
  ASSUME ConsoleInv, ~atPrompt, NEW c \in Int, c # Backspace, Shows(VgaPutchar(screen, c)),
         serial' \in 0 .. MaxSerial, Adds(c, serial, serial'), UNCHANGED <<atPrompt, line, taken, hidden>>
  PROVE  ConsoleInv'
<1> PICK s : s = screen OBVIOUS
<1> PICK n \in Nat : n = serial BY ConsoleHas
<1> PICK t : t = VgaPutchar(screen, c) OBVIOUS
<1>1. /\ s \in Screen /\ <<s.row, s.col>> \in Spots /\ Sound(s, n, taken, captures) /\ Caps(captures, n)
      /\ line \in Seq(Int) /\ Counted(line, n) /\ Len(line) < LineMax
  BY ConsoleHas
<1>2. PICK m \in Nat : m = serial' BY ConsoleConstants
<1>3. PICK d \in Nat : Puts(s, t, c, d) BY <1>1, PutIs
<1>4. Sound(t, m, taken, captures) BY <1>1, <1>2, <1>3, SoundPut
<1>5. t \in Screen /\ <<t.row, t.col>> \in Spots /\ t.cursor = <<t.row, t.col>> BY <1>3 DEF Puts
<1>6. n <= m BY <1>2 DEF Adds
<1>7. ScreenInv' BY <1>2, <1>4, <1>5, <1>6, ShownKeeps
<1>8. LineInv'
  <2>1. Counted(line, m) BY <1>1, <1>6, CountedMore
  <2> QED BY <1>1, <1>2, <2>1 DEF LineInv
<1>9. PromptInv' BY DEF PromptInv
<1> QED BY <1>7, <1>8, <1>9 DEF ConsoleInv

LEMMA PrintCharKeeps ==
  ASSUME ConsoleInv, PrintChar
  PROVE  ConsoleInv'
<1> PICK n \in Nat : n = serial BY ConsoleHas
<1>1. /\ ~atPrompt /\ serial < MaxSerial /\ serial' = n + 1 /\ Shows(VgaPutchar(screen, n + 1))
      /\ UNCHANGED <<atPrompt, line, taken, hidden>>
  BY DEF PrintChar
<1>2. n + 1 \in Int /\ n + 1 # Backspace /\ Visible(n + 1) BY DEF Visible, NewLine, Tabulator, Backspace
<1>3. Adds(n + 1, serial, serial') BY <1>1, <1>2 DEF Adds
<1>4. serial' \in 0 .. MaxSerial BY <1>1, ConsoleConstants
<1> QED BY <1>1, <1>2, <1>3, <1>4, PrintKeeps

LEMMA PrintControlKeeps ==
  ASSUME ConsoleInv, NEW c \in {NewLine, Tabulator}, PrintControl(c)
  PROVE  ConsoleInv'
<1>1. /\ ~atPrompt /\ Shows(VgaPutchar(screen, c)) /\ serial' = serial
      /\ UNCHANGED <<atPrompt, line, taken, hidden>>
  BY DEF PrintControl
<1>2. c \in Int /\ c # Backspace /\ ~Visible(c) BY DEF Visible, NewLine, Tabulator, Backspace
<1>3. Adds(c, serial, serial') BY <1>1, <1>2 DEF Adds
<1>4. serial' \in 0 .. MaxSerial BY <1>1 DEF ConsoleInv
<1> QED BY <1>1, <1>2, <1>3, <1>4, PrintKeeps

LEMMA ClearScreenKeeps ==
  ASSUME ConsoleInv, ClearScreen
  PROVE  ConsoleInv'
<1> PICK n \in Nat : n = serial BY ConsoleHas
<1> PICK t : t = VgaClear(screen) OBVIOUS
<1>1. ~atPrompt /\ Shows(t) /\ serial' = n /\ UNCHANGED <<atPrompt, line, taken, hidden>> BY DEF ClearScreen
<1>2. screen \in Screen /\ Sound(screen, n, taken, captures) BY ConsoleHas
<1>3. /\ t \in Screen /\ t.cursor \in Spots /\ t.moved = TRUE /\ Drawn(t, n) /\ \A p \in Spots : t.cells[p] = NoChar
  BY <1>2, ClearIs DEF Erased
<1>4. \A cap : Captured(t, n, taken, cap) BY <1>3 DEF Captured
<1>5. taken \subseteq 1 .. n /\ NoChar \notin taken BY <1>2 DEF Sound, NoChar
<1>6. Sound(t, serial', taken, captures) BY <1>1, <1>3, <1>4, <1>5 DEF Sound
<1>7. ScreenInv' BY <1>1, <1>3, <1>6, ShownKeeps
<1>8. LineInv' BY <1>1 DEF ConsoleInv, LineInv
<1>9. PromptInv' BY <1>1 DEF PromptInv
<1> QED BY <1>1, <1>7, <1>8, <1>9 DEF ConsoleInv

(* A capture begins.                                                       *)
LEMMA BeginCaptureKeeps ==
  ASSUME ConsoleInv, BeginCapture
  PROVE  ConsoleInv'
<1> PICK n \in Nat : n = serial BY ConsoleHas
<1> PICK s : s = screen OBVIOUS
<1> PICK cap : cap = [row |-> screen.row, col |-> screen.col, first |-> serial + 1, whole |-> TRUE] OBVIOUS
<1> PICK cs : cs = captures' OBVIOUS
<1>1. ~atPrompt /\ cs = Append(captures, cap) /\ last' = NoCapture /\ UNCHANGED <<screen, atPrompt, line, serial, taken, hidden>>
  BY DEF BeginCapture
<1>2. /\ s \in Screen /\ <<s.row, s.col>> \in Spots /\ Sound(s, n, taken, captures) /\ Caps(captures, n)
      /\ captures \in Seq(Capture) /\ ~s.moved
  BY ConsoleHas
<1>3. cap \in Capture /\ cap.row = s.row /\ cap.col = s.col /\ cap.first = n + 1 BY <1>2 DEF Capture, Screen
<1> PICK z \in Nat : z = Len(captures) BY <1>2
<1>4. cs \in Seq(Capture) /\ DOMAIN cs = 1 .. z + 1 /\ cs[z + 1] = cap /\ (\A k \in 1 .. z : cs[k] = captures[k])
      /\ DOMAIN captures = 1 .. z
  BY <1>1, <1>2, <1>3
<1>5. At(s) = From(cap) /\ At(s) \in Nat BY <1>2, <1>3, SpotIs DEF At, From
<1>6. Captured(s, n, taken, cap)
  <2>1. \A p \in Spots : Index(p) >= From(cap) => s.cells[p] = NoChar BY <1>2, <1>5 DEF Sound, Drawn
  <2>2. \A x \in cap.first .. n : FALSE BY <1>3
  <2>3. PICK a \in Nat : a = From(cap) /\ a = At(s) BY <1>5
  <2>4. From(cap) <= At(s) BY <2>3
  <2>5. \A p \in Spots : Index(p) >= From(cap) => s.cells[p] = NoChar \/ s.cells[p] >= cap.first BY <2>1
  <2> QED BY <2>2, <2>4, <2>5 DEF Captured
<1>7. Caps(cs, n)
  <2>1. ASSUME NEW k \in DOMAIN cs PROVE <<cs[k].row, cs[k].col>> \in Spots /\ cs[k].first <= n + 1
    <3>1. CASE k = z + 1
      <4>1. cs[k] = cap BY <1>4, <3>1
      <4>2. <<cap.row, cap.col>> \in Spots BY <1>2, <1>3
      <4>3. cap.first <= n + 1 BY <1>3
      <4> QED BY <4>1, <4>2, <4>3
    <3>2. CASE k # z + 1
      <4>1. k \in 1 .. z BY <1>4, <3>2
      <4> QED BY <1>2, <1>4, <4>1 DEF Caps
    <3> QED BY <3>1, <3>2
  <2> QED BY <1>4, <2>1 DEF Caps
<1>8. Sound(s, n, taken, cs)
  <2>1. ASSUME NEW k \in DOMAIN cs PROVE Captured(s, n, taken, cs[k])
    <3>1. CASE k = z + 1 BY <1>4, <1>6, <3>1
    <3>2. CASE k # z + 1
      <4>1. k \in 1 .. z BY <1>4, <3>2
      <4> QED BY <1>2, <1>4, <4>1 DEF Sound
    <3> QED BY <3>1, <3>2
  <2> QED BY <1>2, <2>1 DEF Sound
<1>9. ScreenInv'
  <2>1. CaptureExact' BY <1>1, NothingExact
  <2>2. cs # <<>> BY <1>4
  <2>3. ~screen'.moved /\ screen'.cursor \in Spots BY <1>1 DEF ConsoleInv, ScreenInv
  <2> QED BY <1>1, <1>7, <1>8, <2>1, <2>2, <2>3 DEF ScreenInv
<1>10. LineInv' BY <1>1 DEF ConsoleInv, LineInv
<1>11. PromptInv' BY <1>1 DEF PromptInv
<1> QED BY <1>1, <1>9, <1>10, <1>11 DEF ConsoleInv

(* A capture ends: what it wrote, and the message if it could not.         *)
LEMMA RestoreIs ==
  ASSUME NEW s \in Screen, NEW cap \in Capture
  PROVE  /\ Restored(s, RestoreScreen(s, cap), {p \in Spots : InRegion(cap, p)})
         /\ RestoreScreen(s, cap).cursor = <<cap.row, cap.col>>
<1> DEFINE R == {p \in Spots : InRegion(cap, p)}
           t == RestoreScreen(s, cap)
<1>1. PICK f : f = [p \in Spots |-> IF InRegion(cap, p) THEN NoChar ELSE s.cells[p]] OBVIOUS
<1>2. s.cells \in [Spots -> Int] BY DEF Screen
<1>3. f \in [Spots -> Int] BY <1>1, <1>2 DEF NoChar
<1>4. PICK g \in Nat \X Nat : g = <<cap.row, cap.col>> BY DEF Capture
<1> DEFINE u == [s EXCEPT !.cells = f, !.cursor = g]
<1>5. t = u BY <1>1, <1>4 DEF RestoreScreen
<1>6. u \in Screen BY <1>3 DEF Screen
<1>7. u.row = s.row BY DEF Screen
<1>8. u.col = s.col BY DEF Screen
<1>9. u.moved = s.moved BY DEF Screen
<1>10. u.cells = f BY DEF Screen
<1>11. u.cursor = g BY DEF Screen
<1> HIDE DEF u, t
<1>12. \A p \in Spots : t.cells[p] = IF p \in R THEN NoChar ELSE s.cells[p] BY <1>1, <1>5, <1>10
<1> HIDE DEF R
<1>13. Restored(s, t, R) BY <1>5, <1>6, <1>7, <1>8, <1>9, <1>12 DEF Restored
<1> QED BY <1>4, <1>5, <1>11, <1>13 DEF R, t

LEMMA FrontMarked ==
  ASSUME NEW t \in Screen, NEW cs, NEW n \in Nat, NEW m \in Nat, n <= m, Caps(cs, n), NEW z \in Nat, Len(cs) = z + 1
  PROVE  Caps([k \in 1 .. z |-> Marked(cs[k], t)], m)
<1> DEFINE ds == [k \in 1 .. z |-> cs[k]]
<1>1. cs \in Seq(Capture) BY DEF Caps
<1>2. \A k \in 1 .. z : k \in DOMAIN cs /\ cs[k] \in Capture BY <1>1
<1>3. ds \in [1 .. z -> Capture] BY <1>2
<1>4. \A k \in 1 .. z : ds[k] = cs[k] OBVIOUS
<1>5. DOMAIN ds = 1 .. z OBVIOUS
<1> HIDE DEF ds
<1>6. ds \in Seq(Capture) BY <1>3
<1>7. Caps(ds, n) BY <1>2, <1>4, <1>5, <1>6 DEF Caps
<1>8. Caps([k \in DOMAIN ds |-> Marked(ds[k], t)], m) BY <1>7, CapsMarked
<1>9. [k \in DOMAIN ds |-> Marked(ds[k], t)] = [k \in 1 .. z |-> Marked(cs[k], t)] BY <1>4, <1>5
<1> QED BY <1>8, <1>9

LEMMA EndCaptureKeeps ==
  ASSUME ConsoleInv, NEW opened \in BOOLEAN, EndCapture(opened)
  PROVE  ConsoleInv'
<1> PICK n \in Nat : n = serial BY ConsoleHas
<1> PICK s : s = screen OBVIOUS
<1> PICK cap : cap = Last(captures) OBVIOUS
<1> PICK said : said = (IF opened THEN screen ELSE VgaPuts(screen, <<serial + 1, NewLine>>)) OBVIOUS
<1> PICK R : R = {p \in Spots : InRegion(cap, p)} OBVIOUS
<1> PICK t : t = RestoreScreen(said, cap) OBVIOUS
<1> PICK m : m = serial' OBVIOUS
<1>1. /\ captures # <<>> /\ (opened \/ serial < MaxSerial)
      /\ m = (IF opened THEN n ELSE n + 1)
      /\ screen' = Unmoved(t)
      /\ captures' = [k \in DOMAIN Front(captures) |-> Marked(captures[k], said)]
      /\ taken' = TakenOf(said, taken, captures, R)
      /\ last' = (IF opened THEN [rows |-> SaveVgaRegion(cap), printed |-> (cap.first .. m) \ taken, whole |-> cap.whole]
                            ELSE NoCapture)
      /\ UNCHANGED <<atPrompt, line, hidden>>
  BY DEF EndCapture, Unmoved, Marked, TakenOf
<1>2. /\ s \in Screen /\ <<s.row, s.col>> \in Spots /\ Sound(s, n, taken, captures) /\ Caps(captures, n)
      /\ captures \in Seq(Capture) /\ ~s.moved /\ Drawn(s, n)
  BY ConsoleHas
<1> PICK z \in Nat : Len(captures) = z + 1
  <2>1. Len(captures) \in Nat /\ Len(captures) # 0 BY <1>1, <1>2
  <2>2. Len(captures) - 1 \in Nat /\ Len(captures) = (Len(captures) - 1) + 1 BY <2>1
  <2> QED BY <2>2
<1>3. DOMAIN captures = 1 .. z + 1 /\ cap = captures[z + 1] /\ cap \in Capture /\ <<cap.row, cap.col>> \in Spots
      /\ DOMAIN Front(captures) = 1 .. z
  <2>1. cap = captures[z + 1] BY DEF Last
  <2>2. z + 1 \in DOMAIN captures /\ DOMAIN captures = 1 .. z + 1 BY <1>2
  <2>3. cap \in Capture /\ <<cap.row, cap.col>> \in Spots BY <1>2, <2>1, <2>2 DEF Caps
  <2>4. Front(captures) = SubSeq(captures, 1, z) BY DEF Front
  <2>5. DOMAIN Front(captures) = 1 .. z BY <1>2, <2>4
  <2> QED BY <2>1, <2>2, <2>3, <2>5
<1>4. ~atPrompt BY <1>1, ConsoleHas
<1>5. m \in Nat /\ n <= m /\ m \in 0 .. MaxSerial BY <1>1, ConsoleHas, ConsoleConstants
<1>6. said \in Screen /\ Sound(said, m, taken, captures) /\ Caps(captures, m)
  <2>1. CASE opened BY <1>1, <1>2, <2>1
  <2>2. CASE ~opened
    <3>1. PICK c \in Nat : c = n + 1 OBVIOUS
    <3>2. c \in Int /\ c # Backspace /\ Visible(c) BY <3>1 DEF Visible, NewLine, Tabulator, Backspace
    <3>3. NewLine \in Int /\ NewLine # Backspace /\ ~Visible(NewLine) BY DEF Visible, NewLine, Tabulator, Backspace
    <3>4. said = VgaPuts(s, <<c, NewLine>>) /\ m = c BY <1>1, <2>2, <3>1
    <3>5. PICK u : \E d, f \in Nat : Puts(s, u, c, d) /\ Puts(u, VgaPuts(s, <<c, NewLine>>), NewLine, f)
      BY <1>2, <3>2, <3>3, TwoPuts
    <3>6. PICK d \in Nat, f \in Nat : Puts(s, u, c, d) /\ Puts(u, said, NewLine, f) BY <3>4, <3>5
    <3>7. Adds(c, n, c) BY <3>1, <3>2 DEF Adds
    <3>8. Sound(u, c, taken, captures) BY <1>2, <3>2, <3>6, <3>7, SoundPut
    <3>9. Caps(captures, c)
      <4>1. ASSUME NEW k \in DOMAIN captures PROVE captures[k].first <= c + 1
        <5>1. captures[k].first <= n + 1 BY <1>2 DEF Caps
        <5>4. captures[k] \in Capture BY <1>2
        <5>2. captures[k].first \in Nat BY <5>4 DEF Capture
        <5> QED BY <3>1, <5>1, <5>2
      <4> QED BY <1>2, <4>1 DEF Caps
    <3>10. Adds(NewLine, c, c) BY <3>3 DEF Adds
    <3>11. Sound(said, c, taken, captures) BY <3>3, <3>6, <3>8, <3>9, <3>10, SoundPut
    <3>12. said \in Screen BY <3>6 DEF Puts
    <3> QED BY <3>4, <3>9, <3>11, <3>12
  <2> QED BY <2>1, <2>2
<1>7. Restored(said, t, R) /\ t.cursor = <<cap.row, cap.col>> BY <1>3, <1>6, RestoreIs
<1>8. R \in SUBSET Spots /\ \A p \in R : Index(p) >= From(captures[z + 1])
  <2>1. Here \in Spots BY <1>2 DEF Here
  <2> QED BY <1>3, <2>1, RegionFrom
<1> PICK tk : tk = TakenOf(said, taken, captures, R) OBVIOUS
<1>9. /\ Drawn(t, m) /\ \A k \in 1 .. (z + 1) - 1 : Captured(t, m, tk, captures[k])
      /\ tk \subseteq 1 .. m /\ \A p \in Spots : t.cells[p] \notin tk
  <2>1. z + 1 \in Nat /\ z + 1 = Len(captures) /\ z + 1 > 0 OBVIOUS
  <2> QED BY <1>5, <1>6, <1>7, <1>8, <2>1, SoundRestored
<1>10. t \in Screen /\ t.moved = said.moved BY <1>7 DEF Restored
<1>11. /\ screen' \in Screen /\ screen'.cells = t.cells /\ screen'.cursor = t.cursor /\ ~screen'.moved
  BY <1>1, <1>10, UnmovedIs
<1>12. captures' = [k \in 1 .. z |-> Marked(captures[k], t)]
  <2>1. \A c : Marked(c, t) = Marked(c, said) BY <1>10 DEF Marked
  <2> QED BY <1>1, <1>3, <2>1
<1>13. Caps(captures', m) BY <1>2, <1>5, <1>10, <1>12, FrontMarked
<1>14. Sound(screen', m, tk, captures')
  <2>1. Drawn(screen', m) BY <1>1, <1>5, <1>9, <1>10, DrawnUnmoved
  <2>2. ASSUME NEW k \in DOMAIN captures' PROVE Captured(screen', m, tk, captures'[k])
    <3>1. k \in 1 .. z /\ captures'[k] = Marked(captures[k], t) BY <1>12
    <3>2. captures[k] \in Capture BY <1>2, <1>3, <3>1
    <3>3. k \in 1 .. (z + 1) - 1 BY <3>1
    <3>4. Captured(t, m, tk, captures[k]) BY <1>9, <3>3
    <3> QED BY <1>1, <1>5, <1>10, <3>1, <3>2, <3>4, CapturedMarked
  <2> QED BY <1>9, <1>11, <2>1, <2>2 DEF Sound
<1>15. captures' = <<>> => tk = {}
  <2>1. ASSUME captures' = <<>> PROVE z = 0
    <3>1. DOMAIN captures' = 1 .. z BY <1>12
    <3> QED BY <2>1, <3>1
  <2>2. z = 0 => Len(captures) = 1 OBVIOUS
  <2> QED BY <2>1, <2>2 DEF TakenOf
<1>16. CaptureExact'
  <2>1. CASE opened
    <3>1. m = n /\ last' = [rows |-> SaveVgaRegion(cap), printed |-> (cap.first .. n) \ taken, whole |-> cap.whole]
      BY <1>1, <2>1
    <3>2. taken \subseteq 1 .. n /\ (\A p \in Spots : screen.cells[p] \notin taken) /\ Captured(screen, n, taken, cap)
      BY <1>2, <1>3 DEF Sound
    <3>3. Exact([rows |-> SaveVgaRegion(cap), printed |-> (cap.first .. n) \ taken, whole |-> cap.whole])
      BY <1>2, <1>3, <3>2, CaptureIs
    <3>4. Exact(last') BY <3>1, <3>3
    <3> QED BY <3>4 DEF CaptureExact, Exact
  <2>2. CASE ~opened BY <1>1, <2>2, NothingExact
  <2> QED BY <2>1, <2>2
<1>17. screen'.cursor \in Spots BY <1>3, <1>7, <1>11
<1>18. ScreenInv' BY <1>1, <1>11, <1>13, <1>14, <1>15, <1>16, <1>17 DEF ScreenInv
<1>19. LineInv'
  <2>1. line \in Seq(Int) /\ Len(line) < LineMax /\ Counted(line, n) BY ConsoleHas
  <2>2. Counted(line, m) BY <1>5, <2>1, CountedMore
  <2> QED BY <1>1, <2>1, <2>2 DEF LineInv
<1>20. PromptInv' BY <1>1, <1>4 DEF PromptInv
<1> QED BY <1>1, <1>5, <1>18, <1>19, <1>20 DEF ConsoleInv

-----------------------------------------------------------------------------
(* The invariant holds from the start, and what it gives.                  *)
LEMMA ConsoleStarts ==
  ASSUME ConsoleInit
  PROVE  ConsoleInv
<1> PICK s : s = screen OBVIOUS
<1>1. /\ s = [cells |-> Erased, row |-> 0, col |-> 0, cursor |-> <<0, 0>>, moved |-> FALSE]
      /\ atPrompt = FALSE /\ line = <<>> /\ captures = <<>>
      /\ serial = 0 /\ taken = {} /\ hidden = FALSE /\ last = NoCapture
  BY DEF ConsoleInit
<1>2. Erased \in [Spots -> Int] BY DEF Erased, NoChar
<1>3. s \in Screen BY <1>1, <1>2 DEF Screen
<1>4. s.row = 0 /\ s.col = 0 /\ s.cursor = <<0, 0>> /\ s.moved = FALSE /\ s.cells = Erased BY <1>1
<1>5. <<0, 0>> \in Spots BY <1>3, ClearIs
<1>6. \A p \in Spots : s.cells[p] = NoChar BY <1>4 DEF Erased
<1>7. Drawn(s, 0) BY <1>3, <1>4, <1>5, <1>6 DEF Drawn, NoChar
<1>8. Sound(s, 0, taken, captures) BY <1>1, <1>7, SoundAlone
<1>9. Caps(captures, 0) BY <1>1 DEF Caps
<1>10. CaptureExact BY <1>1 DEF CaptureExact, NoCapture, NoText, ToSet
<1>11. ScreenInv BY <1>1, <1>4, <1>5, <1>8, <1>9, <1>10 DEF ScreenInv
<1>12. LineInv BY <1>1, NoLine DEF LineInv
<1>13. PromptInv BY <1>1 DEF PromptInv
<1>14. serial \in 0 .. MaxSerial BY <1>1, ConsoleConstants
<1> QED BY <1>1, <1>11, <1>12, <1>13, <1>14 DEF ConsoleInv

LEMMA ConsoleStays ==
  ASSUME ConsoleInv, UNCHANGED convars
  PROVE  ConsoleInv'
<1>1. UNCHANGED <<screen, atPrompt, line, captures, serial, taken, hidden, last>> BY DEF convars
<1>2. ScreenInv' BY <1>1 DEF ConsoleInv, ScreenInv, CaptureExact, SaveVgaRegion, LastRow, FirstCol, LastCol
<1>3. LineInv' BY <1>1 DEF ConsoleInv, LineInv
<1>4. PromptInv' BY <1>1 DEF ConsoleInv, PromptInv, Here
<1> QED BY <1>1, <1>2, <1>3, <1>4 DEF ConsoleInv

LEMMA ConsoleShown ==
  ASSUME ConsoleInv
  PROVE  PrintedShown
<1> PICK s : s = screen OBVIOUS
<1>1. /\ s \in Screen /\ <<s.row, s.col>> \in Spots /\ Drawn(s, serial) /\ Len(line) < LineMax
      /\ (atPrompt => s.cursor = <<s.row, s.col>>) /\ (atPrompt /\ ~hidden => Lined(s, line, Len(line)))
  BY ConsoleHas
<1>2. DOMAIN s.cells = Spots BY <1>1 DEF Screen
<1>3. s.cursor \in Spots /\ serial \in 0 .. MaxSerial BY DEF ConsoleInv, ScreenInv
<1>4. ConsoleTypeOK BY <1>1, <1>2, <1>3 DEF ConsoleTypeOK
<1>5. Index(Here) = At(s) BY DEF Here, At
<1>6. \A p \in Spots : Index(p) >= Index(Here) => screen.cells[p] = NoChar BY <1>1, <1>5 DEF Drawn
<1>7. ASSUME atPrompt, ~hidden, NEW k \in 1 .. Len(line), NEW p \in Spots, Index(p) = Index(Here) - Len(line) + k - 1
      PROVE  screen.cells[p] = line[k]
  BY <1>1, <1>5, <1>7 DEF Lined
<1>8. atPrompt => screen.cursor = Here BY <1>1 DEF Here
<1>9. LineShown BY <1>4, <1>6, <1>7, <1>8 DEF LineShown
<1>10. CaptureExact BY DEF ConsoleInv, ScreenInv
<1> QED BY <1>9, <1>10 DEF PrintedShown

(* Whatever is typed and printed, scrolled, cleared and captured: up to    *)
(* the cursor of drivers/vga.c the screen has the characters in the order  *)
(* of printing, behind it nothing, and before it, at the prompt, the line  *)
(* that shell_run reads; and a capture under way that saw nothing scrolled *)
(* still has on the screen all that was printed since it began.            *)
THEOREM ConsoleInductive == ConsoleSpec => []ConsoleInv
<1>1. ConsoleInit => ConsoleInv BY ConsoleStarts
<1>2. ConsoleInv /\ [ConsoleNext]_convars => ConsoleInv'
  <2> SUFFICES ASSUME ConsoleInv, [ConsoleNext]_convars PROVE ConsoleInv' OBVIOUS
  <2>1. CASE PrintPrompt BY <2>1, PrintPromptKeeps
  <2>2. CASE TypeChar BY <2>2, TypeCharKeeps
  <2>3. CASE TypeTab BY <2>3, TypeTabKeeps
  <2>4. CASE TypeBackspace BY <2>4, TypeBackspaceKeeps
  <2>5. CASE TypeCtrlL BY <2>5, TypeCtrlLKeeps
  <2>6. CASE TypeEnter BY <2>6, TypeEnterKeeps
  <2>7. CASE PrintChar BY <2>7, PrintCharKeeps
  <2>8. CASE ClearScreen BY <2>8, ClearScreenKeeps
  <2>9. CASE BeginCapture BY <2>9, BeginCaptureKeeps
  <2>10. ASSUME NEW c \in {NewLine, Tabulator}, PrintControl(c) PROVE ConsoleInv' BY <2>10, PrintControlKeeps
  <2>11. ASSUME NEW opened \in BOOLEAN, EndCapture(opened) PROVE ConsoleInv' BY <2>11, EndCaptureKeeps
  <2>12. CASE UNCHANGED convars BY <2>12, ConsoleStays
  <2> QED BY <2>1, <2>2, <2>3, <2>4, <2>5, <2>6, <2>7, <2>8, <2>9, <2>10, <2>11, <2>12 DEF ConsoleNext
<1> QED BY <1>1, <1>2, PTL DEF ConsoleSpec

(* While a line is read the screen shows it, up to the cursor and nothing  *)
(* behind it, and the file that stands for what a command printed has that *)
(* and nothing else, in the order of printing (PrintedShown of Console.tla *)
(* says when a part of it may be missing).                                 *)
THEOREM PrintedShownAlways == ConsoleSpec => []PrintedShown
<1>1. ConsoleInv => PrintedShown BY ConsoleShown
<1> QED BY <1>1, ConsoleInductive, PTL

=============================================================================
