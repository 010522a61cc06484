----------------------------- MODULE HeapProofs -----------------------------
(***************************************************************************)
(* Proofs about the kernel heap: what is checked on small arenas in the    *)
(* runs of Heap holds for every arena, word size and set of requests.      *)
(***************************************************************************)
EXTENDS Heap, FiniteSetTheorems, WellFoundedInduction, TLAPS

(***************************************************************************)
(* The inductive invariant.  To the properties themselves it adds what a   *)
(* call in progress relies on: the block being merged is free and no other *)
(* pair of neighbours is, and no block the search has passed fits.         *)
(***************************************************************************)
Merging ==
  /\ pc \in {"next", "prev"} => heap[cur].free
  /\ pc = "next" =>
       \A b \in blocks : heap[b].free /\ b # cur /\ heap[b].next # cur
                           => ~FreeAt(heap[b].next)
  /\ pc = "prev" =>
       \A b \in blocks : heap[b].free /\ heap[b].next # cur => ~FreeAt(heap[b].next)

Searching ==
  pc = "scan" => \A b \in blocks : cur = NULL \/ b < cur => ~Fits(b)

(* What the search was asked for leaves room for the bytes of the caller.  *)
Roomy ==
  pc = "scan" =>
    IF call.align = 0 THEN call.n <= call.want
    ELSE call.n + call.align + 4 <= call.want

Shape == TypeOK /\ Tiled /\ Linked

IInv == Shape /\ InUseIsHeld /\ Coalesced /\ Merging /\ Searching

-----------------------------------------------------------------------------
(***************************************************************************)
(* The list                                                                *)
(***************************************************************************)
(* A block other than the first is the one its predecessor points to, and  *)
(* ends where it begins: the byte before it belongs to some block.         *)
LEMMA PrevIs ==
  ASSUME Shape, NEW b \in blocks, b # HeapStart
  PROVE  /\ heap[b].prev \in blocks
         /\ EndOf(heap[b].prev) = b
         /\ heap[heap[b].prev].next = b
<1>1. b - 1 \in HeapStart .. HeapEnd - 1
  BY HeapAssumption DEF Shape, TypeOK
<1>2. PICK c \in blocks : c <= b - 1 /\ b - 1 < EndOf(c)
  BY <1>1 DEF Shape, Tiled
<1>3. EndOf(c) = b
  <2>1. b \in Nat /\ c \in Nat /\ heap[c].size \in Nat
    BY HeapAssumption DEF Shape, TypeOK, Header
  <2>2. EndOf(c) <= b
    BY <1>2, <2>1 DEF Shape, Tiled
  <2> QED BY <1>2, <2>1, <2>2 DEF EndOf, Hdr
<1>4. b # HeapEnd
  BY HeapAssumption DEF Shape, TypeOK
<1> QED BY <1>3, <1>4 DEF Shape, Linked

(* The next block, when there is one, begins where a block ends. *)
LEMMA NextIs ==
  ASSUME Shape, NEW b \in blocks, heap[b].next # NULL
  PROVE  /\ heap[b].next \in blocks
         /\ heap[b].next = EndOf(b)
         /\ heap[heap[b].next].prev = b
         /\ heap[b].next > b
         /\ heap[b].next # HeapStart
<1>1. b \in Nat /\ b >= HeapStart /\ heap[b].size \in Nat
  BY HeapAssumption DEF Shape, TypeOK, Header
<1>2. heap[b].next = EndOf(b) /\ heap[b].next \in blocks /\ heap[heap[b].next].prev = b
  BY DEF Shape, Linked
<1> QED BY <1>1, <1>2, HeapAssumption DEF EndOf, Hdr

(* Changing prev leaves the rest of a header as it is. *)
LEMMA PrevChanged ==
  ASSUME NEW h \in Header, NEW p
  PROVE  LET g == [h EXCEPT !.prev = p] IN
         g.size = h.size /\ g.free = h.free /\ g.next = h.next /\ g.prev = p
BY DEF Header

(* What each header becomes when the tail of b is split off at rest ...    *)
SplitOff(b, rest) ==
  /\ blocks' = blocks \cup {rest} /\ rest \notin blocks
  /\ heap'[b] = [size |-> call.want, free |-> FALSE, next |-> rest, prev |-> heap[b].prev]
  /\ heap'[rest] = [size |-> heap[b].size - call.want - Hdr, free |-> TRUE,
                    next |-> heap[b].next, prev |-> b]
  /\ \A a \in blocks \ {b} :
       /\ heap'[a].size = heap[a].size
       /\ heap'[a].free = heap[a].free
       /\ heap'[a].next = heap[a].next
       /\ heap'[a].prev = IF a = heap[b].next THEN rest ELSE heap[a].prev

(* ... when b is taken whole, or given back ...                            *)
Marked(b, free) ==
  /\ blocks' = blocks
  /\ heap'[b].free = free
  /\ \A a \in blocks :
       /\ heap'[a].size = heap[a].size
       /\ a # b => heap'[a].free = heap[a].free
       /\ heap'[a].next = heap[a].next
       /\ heap'[a].prev = heap[a].prev

(* ... and when b swallows the next block c.                               *)
Joined(b, c) ==
  /\ blocks' = blocks \ {c} /\ b # c /\ c # HeapStart
  /\ heap'[b].size = heap[b].size + Hdr + heap[c].size
  /\ heap'[b].free = heap[b].free
  /\ heap'[b].next = heap[c].next /\ heap'[b].prev = heap[b].prev
  /\ \A a \in blocks \ {b, c} :
       /\ heap'[a].size = heap[a].size
       /\ heap'[a].free = heap[a].free
       /\ heap'[a].next = heap[a].next
       /\ heap'[a].prev = IF a = heap[c].next THEN b ELSE heap[a].prev

(* kmalloc cuts the block in two or marks it, and does nothing else. *)
LEMMA AllocatedIs ==
  ASSUME Shape, NEW b \in blocks, Fits(b), heap' = Allocated(b),
         NEW rest, rest = b + Hdr + call.want
  PROVE  IF Splits(b) THEN SplitOff(b, rest) ELSE Marked(b, FALSE)
<1>1. b \in Nat /\ heap[b].size \in Nat /\ call.want \in Nat
  BY HeapAssumption DEF Shape, TypeOK, Header
<1>2. \A a \in blocks : heap[a] \in Header
  BY DEF Shape, TypeOK
<1>3. CASE Splits(b)
  <2>1. rest \notin blocks
    <3>1. b < rest /\ ~(EndOf(b) <= rest)
      BY <1>1, <1>3 DEF Splits, EndOf, Hdr, MinRest
    <3> QED BY <3>1 DEF Shape, Tiled
  <2>2. heap[b].next # b
    BY NextIs, <1>1, HeapAssumption DEF Shape, TypeOK, NULL
  <2>3. blocks' = blocks \cup {rest}
    BY <1>3 DEF Allocated, blocks
  <2>4. heap'[rest] = [size |-> heap[b].size - call.want - Hdr, free |-> TRUE,
                       next |-> heap[b].next, prev |-> b]
    BY <1>3 DEF Allocated
  <2>5. heap'[b] = [size |-> call.want, free |-> FALSE, next |-> rest, prev |-> heap[b].prev]
    BY <1>3, <2>1 DEF Allocated
  <2>6. \A a \in blocks \ {b} :
          heap'[a] = IF a = heap[b].next THEN [heap[a] EXCEPT !.prev = rest] ELSE heap[a]
    BY <1>3, <2>1 DEF Allocated
  <2>7. \A a \in blocks \ {b} :
          /\ heap'[a].size = heap[a].size /\ heap'[a].free = heap[a].free
          /\ heap'[a].next = heap[a].next
          /\ heap'[a].prev = IF a = heap[b].next THEN rest ELSE heap[a].prev
    <3> TAKE a \in blocks \ {b}
    <3>1. CASE a = heap[b].next
      <4>1. heap'[a] = [heap[a] EXCEPT !.prev = rest]
        BY <2>6, <3>1
      <4> QED BY <1>2, <3>1, <4>1, PrevChanged
    <3>2. CASE a # heap[b].next
      BY <2>6, <3>2
    <3> QED BY <3>1, <3>2
  <2> QED BY <1>3, <2>1, <2>3, <2>4, <2>5, <2>7 DEF SplitOff
<1>4. CASE ~Splits(b)
  <2>1. heap' = [heap EXCEPT ![b].free = FALSE]
    BY <1>4 DEF Allocated
  <2>2. \A a \in blocks \ {b} : heap'[a] = heap[a]
    BY <2>1 DEF blocks
  <2>3. blocks' = blocks
    BY <2>1 DEF blocks
  <2>4. heap'[b] = [heap[b] EXCEPT !.free = FALSE]
    BY <2>1 DEF blocks
  <2> QED BY <1>2, <1>4, <2>2, <2>3, <2>4 DEF Header, Marked
<1> QED BY <1>3, <1>4

(* An iteration of a merging loop joins two blocks and does nothing else. *)
LEMMA AbsorbIs ==
  ASSUME Shape, NEW b \in blocks, NEW c, c = heap[b].next, c # NULL,
         heap' = Absorb(b, c)
  PROVE  Joined(b, c)
<1>1. b \in Nat /\ heap[b] \in Header
  BY HeapAssumption DEF Shape, TypeOK
<1>2. c \in blocks /\ c > b /\ c # HeapStart
  BY NextIs
<1>3. \A a \in blocks : heap[a] \in Header
  BY DEF Shape, TypeOK
<1>4. b # c
  BY <1>1, <1>2, HeapAssumption DEF Shape, TypeOK
<1>5. blocks' = blocks \ {c}
  BY DEF Absorb, blocks
<1>6. \A a \in blocks \ {b, c} :
        heap'[a] = IF a = heap[c].next THEN [heap[a] EXCEPT !.prev = b] ELSE heap[a]
  BY <1>4 DEF Absorb
<1>7. heap'[b] = [heap[b] EXCEPT !.size = @ + Hdr + heap[c].size, !.next = heap[c].next]
  BY <1>4 DEF Absorb
<1>8. \A a \in blocks \ {b, c} :
        /\ heap'[a].size = heap[a].size /\ heap'[a].free = heap[a].free
        /\ heap'[a].next = heap[a].next
        /\ heap'[a].prev = IF a = heap[c].next THEN b ELSE heap[a].prev
  <2> TAKE a \in blocks \ {b, c}
  <2>1. CASE a = heap[c].next
    <3>1. heap'[a] = [heap[a] EXCEPT !.prev = b]
      BY <1>6, <2>1
    <3> QED BY <1>3, <2>1, <3>1, PrevChanged
  <2>2. CASE a # heap[c].next
    BY <1>6, <2>2
  <2> QED BY <2>1, <2>2
<1>9. /\ heap'[b].size = heap[b].size + Hdr + heap[c].size
      /\ heap'[b].free = heap[b].free
      /\ heap'[b].next = heap[c].next /\ heap'[b].prev = heap[b].prev
  BY <1>1, <1>7 DEF Header
<1> QED BY <1>2, <1>4, <1>5, <1>8, <1>9 DEF Joined

-----------------------------------------------------------------------------
(***************************************************************************)
(* Splitting and merging keep the list a tiling of the arena.              *)
(***************************************************************************)
LEMMA Addresses ==
  ASSUME Shape, NEW b \in blocks
  PROVE  /\ b \in Nat /\ b >= HeapStart /\ b < HeapEnd /\ b # NULL
         /\ heap[b].size \in Nat /\ heap[b].free \in BOOLEAN
         /\ heap[b].next \in Nat /\ heap[b].prev \in Nat
         /\ EndOf(b) = b + 16 + heap[b].size /\ EndOf(b) \in Nat
BY HeapAssumption DEF Shape, TypeOK, Header, EndOf, Hdr, NULL

(* Cutting a block in two keeps the tiling. *)
LEMMA SplitTiled ==
  ASSUME Shape, NEW b \in blocks, NEW rest, rest = b + Hdr + call.want,
         Splits(b), SplitOff(b, rest)
  PROVE  Tiled'
<1>1. call.want \in Nat
  BY DEF Shape, TypeOK
<1>2. /\ blocks' = blocks \cup {rest} /\ b < rest /\ rest < EndOf(b)
      /\ rest \in Nat /\ rest >= HeapStart
  BY <1>1, Addresses, HeapAssumption DEF Splits, SplitOff, Hdr, MinRest
<1>3. \A a \in blocks \ {b} : EndOf(a)' = EndOf(a)
  BY DEF EndOf, SplitOff
<1>4. EndOf(b)' = rest /\ EndOf(rest)' = EndOf(b)
  BY <1>1, Addresses DEF EndOf, SplitOff, Hdr
<1>5. \A a \in blocks : EndOf(a) \in Nat /\ a \in Nat
  BY Addresses
<1>6. \A a \in blocks' : EndOf(a)' <= HeapEnd
  BY <1>2, <1>3, <1>4, <1>5, HeapAssumption DEF Shape, Tiled
<1>7. ASSUME NEW a \in blocks', NEW c \in blocks', a < c
      PROVE  EndOf(a)' <= c
  <2>1. CASE a # rest /\ c # rest
    BY <1>2, <1>3, <1>4, <1>5, <1>7, <2>1 DEF Shape, Tiled
  <2>2. CASE a = rest
    BY <1>2, <1>3, <1>4, <1>5, <1>7, <2>2 DEF Shape, Tiled
  <2>3. CASE c = rest
    BY <1>2, <1>3, <1>4, <1>5, <1>7, <2>3 DEF Shape, Tiled
  <2> QED BY <2>1, <2>2, <2>3
<1>8. ASSUME NEW x \in HeapStart .. HeapEnd - 1
      PROVE  \E a \in blocks' : a <= x /\ x < EndOf(a)'
  <2>1. PICK a \in blocks : a <= x /\ x < EndOf(a)
    BY DEF Shape, Tiled
  <2>2. CASE a # b
    BY <1>2, <1>3, <2>1, <2>2
  <2>3. CASE a = b
    <3>1. x \in Int
      BY HeapAssumption
    <3>2. CASE x < rest
      BY <1>2, <1>4, <2>1, <2>3, <3>2
    <3>3. CASE rest <= x
      BY <1>2, <1>4, <2>1, <2>3, <3>3
    <3> QED BY <1>2, <3>1, <3>2, <3>3
  <2> QED BY <2>2, <2>3
<1> QED BY <1>6, <1>7, <1>8 DEF Tiled

(* Cutting a block in two keeps the pointers right on both sides. *)
LEMMA SplitLinked ==
  ASSUME Shape, NEW b \in blocks, NEW rest, rest = b + Hdr + call.want,
         Splits(b), SplitOff(b, rest)
  PROVE  Linked'
<1>1. call.want \in Nat
  BY DEF Shape, TypeOK
<1>2. /\ blocks' = blocks \cup {rest} /\ b < rest /\ rest < EndOf(b)
      /\ rest \in Nat /\ rest \notin blocks
  BY <1>1, Addresses, HeapAssumption DEF Splits, SplitOff, Hdr, MinRest
<1>3. \A a \in blocks \ {b} : EndOf(a)' = EndOf(a) /\ heap'[a].next = heap[a].next
  BY DEF EndOf, SplitOff
<1>4. /\ EndOf(b)' = rest /\ EndOf(rest)' = EndOf(b)
      /\ heap'[b].next = rest /\ heap'[b].prev = heap[b].prev
      /\ heap'[rest].next = heap[b].next /\ heap'[rest].prev = b
  BY <1>1, Addresses DEF EndOf, SplitOff, Hdr
<1>5. \A a \in blocks \ {b} :
        heap'[a].prev = IF a = heap[b].next THEN rest ELSE heap[a].prev
  BY DEF SplitOff
<1>6. heap[b].next # HeapStart
  BY NextIs, HeapAssumption DEF NULL
<1>7. HeapStart \in blocks' /\ heap'[HeapStart].prev = NULL
  BY <1>2, <1>4, <1>5, <1>6 DEF Shape, Linked
<1>8. /\ EndOf(b) <= HeapEnd /\ b < HeapEnd /\ b \in Nat /\ EndOf(b) \in Nat
      /\ HeapEnd \in Nat
  BY Addresses, HeapAssumption DEF Shape, Tiled
<1>9. ASSUME NEW a \in blocks'
      PROVE  IF EndOf(a)' = HeapEnd
             THEN heap'[a].next = NULL
             ELSE /\ heap'[a].next = EndOf(a)' /\ EndOf(a)' \in blocks'
                  /\ heap'[EndOf(a)'].prev = a
  <2>1. CASE a = b
    BY <1>2, <1>4, <1>8, <2>1
  <2>2. CASE a = rest
    <3>1. EndOf(b) # b
      BY <1>2, <1>8
    <3>2. CASE EndOf(b) = HeapEnd
      BY <1>4, <2>2, <3>2 DEF Shape, Linked
    <3>3. CASE EndOf(b) # HeapEnd
      <4>1. heap[b].next = EndOf(b) /\ EndOf(b) \in blocks
        BY <3>3 DEF Shape, Linked
      <4>2. heap'[EndOf(b)].prev = rest
        BY <1>5, <3>1, <4>1
      <4> QED BY <1>2, <1>4, <2>2, <3>3, <4>1, <4>2
    <3> QED BY <3>2, <3>3
  <2>3. CASE a # b /\ a # rest
    <3>1. a \in blocks /\ EndOf(a)' = EndOf(a) /\ heap'[a].next = heap[a].next
      BY <1>2, <1>3, <2>3
    <3>2. CASE EndOf(a) = HeapEnd
      BY <3>1, <3>2 DEF Shape, Linked
    <3>3. CASE EndOf(a) # HeapEnd
      <4>1. heap[a].next = EndOf(a) /\ EndOf(a) \in blocks /\ heap[EndOf(a)].prev = a
        BY <3>1, <3>3 DEF Shape, Linked
      <4>2. EndOf(a) # heap[b].next
        BY <2>3, <4>1, Addresses, NextIs
      <4>3. heap'[EndOf(a)].prev = heap[EndOf(a)].prev
        BY <1>4, <1>5, <4>1, <4>2
      <4> QED BY <1>2, <3>1, <3>3, <4>1, <4>3
    <3> QED BY <3>2, <3>3
  <2> QED BY <2>1, <2>2, <2>3
<1> QED BY <1>7, <1>9 DEF Linked

(* Changing free flags keeps the tiling and the pointers. *)
LEMMA MarkedShape ==
  ASSUME Shape, NEW b \in blocks, NEW free, Marked(b, free)
  PROVE  Tiled' /\ Linked'
<1>1. blocks' = blocks /\ \A a \in blocks : /\ EndOf(a)' = EndOf(a)
                                            /\ heap'[a].next = heap[a].next
                                            /\ heap'[a].prev = heap[a].prev
  BY DEF Marked, EndOf
<1>2. Tiled'
  BY <1>1 DEF Shape, Tiled
<1>3. Linked'
  BY <1>1 DEF Shape, Linked
<1> QED BY <1>2, <1>3

(* Joining neighbours keeps the tiling. *)
LEMMA JoinedTiled ==
  ASSUME Shape, NEW b \in blocks, NEW c, c = heap[b].next, c # NULL, Joined(b, c)
  PROVE  Tiled'
<1>1. c \in blocks /\ c = EndOf(b) /\ c > b
  BY NextIs
<1>2. \A a \in blocks : EndOf(a) \in Nat /\ a \in Nat
  BY Addresses
<1>3. EndOf(b)' = EndOf(c)
  BY <1>1, Addresses DEF EndOf, Joined, Hdr
<1>4. \A a \in blocks \ {b, c} : EndOf(a)' = EndOf(a)
  BY DEF EndOf, Joined
<1>5. blocks' = blocks \ {c}
  BY DEF Joined
<1>6. \A a \in blocks' : EndOf(a)' <= HeapEnd
  BY <1>1, <1>3, <1>4, <1>5 DEF Shape, Tiled
<1>7. ASSUME NEW a \in blocks', NEW d \in blocks', a < d
      PROVE  EndOf(a)' <= d
  <2>1. CASE a # b
    BY <1>4, <1>5, <1>7, <2>1 DEF Shape, Tiled
  <2>2. CASE a = b
    <3>1. EndOf(b) <= d
      BY <1>5, <1>7, <2>2 DEF Shape, Tiled
    <3>2. c < d
      BY <1>1, <1>2, <1>5, <3>1
    <3> QED BY <1>1, <1>3, <1>5, <2>2, <3>2 DEF Shape, Tiled
  <2> QED BY <2>1, <2>2
<1>8. ASSUME NEW x \in HeapStart .. HeapEnd - 1
      PROVE  \E a \in blocks' : a <= x /\ x < EndOf(a)'
  <2>1. PICK a \in blocks : a <= x /\ x < EndOf(a)
    BY DEF Shape, Tiled
  <2>2. x \in Int
    BY HeapAssumption
  <2>3. CASE a # b /\ a # c
    BY <1>4, <1>5, <2>1, <2>3
  <2>4. CASE a = b \/ a = c
    <3>1. EndOf(b) <= EndOf(c) /\ b \in blocks'
      BY <1>1, <1>2, <1>5, Addresses
    <3> QED BY <1>1, <1>2, <1>3, <2>1, <2>2, <2>4, <3>1
  <2> QED BY <2>3, <2>4
<1> QED BY <1>6, <1>7, <1>8 DEF Tiled

(* Joining neighbours keeps the pointers right on both sides. *)
LEMMA JoinedLinked ==
  ASSUME Shape, NEW b \in blocks, NEW c, c = heap[b].next, c # NULL, Joined(b, c)
  PROVE  Linked'
<1>1. c \in blocks /\ c = EndOf(b) /\ c > b /\ c # HeapStart /\ heap[c].prev = b
  BY NextIs
<1>2. EndOf(b)' = EndOf(c)
  BY <1>1, Addresses DEF EndOf, Joined, Hdr
<1>3. \A a \in blocks \ {b, c} : EndOf(a)' = EndOf(a) /\ heap'[a].next = heap[a].next
  BY DEF EndOf, Joined
<1>4. /\ blocks' = blocks \ {c} /\ b # c
      /\ heap'[b].next = heap[c].next /\ heap'[b].prev = heap[b].prev
      /\ \A a \in blocks \ {b, c} :
           heap'[a].prev = IF a = heap[c].next THEN b ELSE heap[a].prev
  BY DEF Joined
<1>5. heap[c].next # HeapStart
  BY <1>1, NextIs, HeapAssumption DEF NULL
<1>6. HeapStart \in blocks' /\ heap'[HeapStart].prev = NULL
  BY <1>1, <1>4, <1>5 DEF Shape, Linked
<1>7. ASSUME NEW a \in blocks'
      PROVE  IF EndOf(a)' = HeapEnd
             THEN heap'[a].next = NULL
             ELSE /\ heap'[a].next = EndOf(a)' /\ EndOf(a)' \in blocks'
                  /\ heap'[EndOf(a)'].prev = a
  <2>1. CASE a = b
    <3>1. CASE EndOf(c) = HeapEnd
      BY <1>1, <1>2, <1>4, <2>1, <3>1 DEF Shape, Linked
    <3>2. CASE EndOf(c) # HeapEnd
      <4>1. heap[c].next = EndOf(c) /\ EndOf(c) \in blocks
        BY <1>1, <3>2 DEF Shape, Linked
      <4>2. EndOf(c) > c
        BY <1>1, Addresses
      <4>3. EndOf(c) # c /\ EndOf(c) # b
        BY <1>1, <4>1, <4>2, Addresses
      <4> QED BY <1>2, <1>4, <2>1, <3>2, <4>1, <4>3
    <3> QED BY <3>1, <3>2
  <2>2. CASE a # b
    <3>1. a \in blocks /\ a # c /\ EndOf(a)' = EndOf(a) /\ heap'[a].next = heap[a].next
      BY <1>3, <1>4, <2>2
    <3>2. CASE EndOf(a) = HeapEnd
      BY <3>1, <3>2 DEF Shape, Linked
    <3>3. CASE EndOf(a) # HeapEnd
      <4>1. heap[a].next = EndOf(a) /\ EndOf(a) \in blocks /\ heap[EndOf(a)].prev = a
        BY <3>1, <3>3 DEF Shape, Linked
      <4>2. EndOf(a) # c
        BY <1>1, <2>2, <4>1
      <4>3. EndOf(a) # heap[c].next
        BY <1>1, <3>1, <4>1, Addresses, NextIs
      <4>4. heap'[EndOf(a)].prev = a
        BY <1>4, <4>1, <4>2, <4>3
      <4> QED BY <1>4, <3>1, <3>3, <4>1, <4>2, <4>4
    <3> QED BY <3>2, <3>3
  <2> QED BY <2>1, <2>2
<1> QED BY <1>6, <1>7 DEF Linked

(* The list stays a function from addresses of the arena to headers. *)
LEMMA AllocatedType ==
  ASSUME Shape, NEW b \in blocks, Fits(b), heap' = Allocated(b)
  PROVE  heap' \in [blocks' -> Header] /\ blocks' \subseteq HeapStart .. HeapEnd - 1
<1>0. PICK rest : rest = b + Hdr + call.want
  OBVIOUS
<1>1. call.want \in Nat /\ heap \in [blocks -> Header]
  BY DEF Shape, TypeOK
<1>2. CASE Splits(b)
  <2>1. SplitOff(b, rest)
    BY <1>0, <1>2, AllocatedIs
  <2>2. b < rest /\ rest < EndOf(b) /\ rest \in Nat /\ EndOf(b) <= HeapEnd
    BY <1>0, <1>1, <1>2, Addresses DEF Splits, Hdr, MinRest, Shape, Tiled
  <2>3. blocks' \subseteq HeapStart .. HeapEnd - 1
    BY <2>1, <2>2, Addresses, HeapAssumption DEF SplitOff, Shape, TypeOK
  <2>4. heap' = [a \in blocks' |-> heap'[a]]
    BY <1>2 DEF Allocated, blocks
  <2>5. heap'[b] \in Header
    BY <1>1, <2>1, <2>2, Addresses DEF SplitOff, Header
  <2>6. heap'[rest] \in Header
    BY <1>1, <1>2, <2>1, Addresses DEF SplitOff, Header, Splits, Hdr, MinRest
  <2>7. ASSUME NEW a \in blocks \ {b} PROVE heap'[a] \in Header
    <3>1. heap'[a] = IF a = heap[b].next THEN [heap[a] EXCEPT !.prev = rest] ELSE heap[a]
      BY <1>0, <1>2, <2>1 DEF Allocated, SplitOff
    <3> QED BY <1>1, <2>2, <3>1 DEF Header
  <2>8. \A a \in blocks' : heap'[a] \in Header
    BY <2>1, <2>5, <2>6, <2>7 DEF SplitOff
  <2> QED BY <2>3, <2>4, <2>8
<1>3. CASE ~Splits(b)
  <2>1. heap' = [heap EXCEPT ![b].free = FALSE]
    BY <1>3 DEF Allocated
  <2>2. blocks' = blocks
    BY <1>1, <2>1 DEF blocks
  <2> QED BY <1>1, <2>1, <2>2, ZenonT(30) DEF Header, Shape, TypeOK
<1> QED BY <1>2, <1>3

(* Joining neighbours yields headers. *)
LEMMA AbsorbType ==
  ASSUME Shape, NEW b \in blocks, NEW c, c = heap[b].next, c # NULL,
         heap' = Absorb(b, c)
  PROVE  heap' \in [blocks' -> Header] /\ blocks' \subseteq HeapStart .. HeapEnd - 1
<1>1. Joined(b, c) /\ c \in blocks
  BY AbsorbIs, NextIs
<1>2. heap \in [blocks -> Header] /\ b \in Nat
  BY Addresses DEF Shape, TypeOK
<1>3. blocks' = blocks \ {c}
  BY <1>1 DEF Joined
<1>4. heap' = [a \in blocks' |-> heap'[a]]
  BY DEF Absorb, blocks
<1>5. ASSUME NEW a \in blocks' PROVE heap'[a] \in Header
  <2>1. heap'[a] = IF a = b
                   THEN [heap[b] EXCEPT !.size = @ + Hdr + heap[c].size,
                                        !.next = heap[c].next]
                   ELSE IF a = heap[c].next THEN [heap[a] EXCEPT !.prev = b]
                   ELSE heap[a]
    BY <1>3, <1>4 DEF Absorb
  <2>2. CASE a = b
    <3>1. heap'[a] = [heap[b] EXCEPT !.size = @ + Hdr + heap[c].size,
                                     !.next = heap[c].next]
      BY <2>1, <2>2
    <3>2. heap[b] \in Header /\ heap[c].size \in Nat /\ heap[c].next \in Nat
      BY <1>1, <1>2, Addresses
    <3>3. heap[b].size + Hdr + heap[c].size \in Nat
      BY <3>2, Addresses DEF Hdr
    <3> QED BY <3>1, <3>2, <3>3 DEF Header
  <2>3. CASE a # b
    <3>1. heap[a] \in Header
      BY <1>2, <1>3
    <3> QED BY <1>2, <2>1, <2>3, <3>1 DEF Header
  <2> QED BY <2>2, <2>3
<1> QED BY <1>3, <1>4, <1>5 DEF Shape, TypeOK

-----------------------------------------------------------------------------
(***************************************************************************)
(* Rounding up                                                             *)
(***************************************************************************)
LEMMA AlignUpNat ==
  ASSUME NEW x \in Nat, NEW a \in Nat \ {0}
  PROVE  AlignUp(x, a) \in Nat
<1> DEFINE y == (x + a - 1) % Word
<1>1. y \in Nat
  BY HeapAssumption
<1>2. \A z \in Nat : z % a \in Nat /\ z % a <= z
  OBVIOUS
<1> QED BY <1>1, <1>2 DEF AlignUp

(* Without wrapping, the result is the first multiple of a from x on. *)
LEMMA AlignUpUp ==
  ASSUME NEW x \in Nat, NEW a \in Nat \ {0}, x + a <= Word
  PROVE  x <= AlignUp(x, a) /\ AlignUp(x, a) <= x + a - 1
<1>1. (x + a - 1) % Word = x + a - 1
  BY HeapAssumption
<1>2. \A z \in Nat : z % a \in 0 .. a - 1
  OBVIOUS
<1>3. (x + a - 1) % a \in 0 .. a - 1
  BY <1>2
<1> QED BY <1>1, <1>3 DEF AlignUp

-----------------------------------------------------------------------------
(***************************************************************************)
(* Every step preserves the invariant: one lemma for each action.          *)
(***************************************************************************)
LEMMA InitIInv == Init => IInv
<1> SUFFICES ASSUME Init PROVE IInv
  OBVIOUS
<1>1. /\ blocks = {HeapStart} /\ heap[HeapStart].free = TRUE
      /\ heap[HeapStart].size = HeapEnd - HeapStart - Hdr
      /\ heap[HeapStart].next = NULL /\ heap[HeapStart].prev = NULL
  BY DEF Init, blocks
<1>2. heap \in [blocks -> Header]
  BY HeapAssumption DEF Init, Header, Hdr, NULL, blocks
<1>3. TypeOK
  BY <1>1, <1>2, HeapAssumption DEF Init, TypeOK, NULL, NoCall, Hdr
<1>4. EndOf(HeapStart) = HeapEnd
  BY <1>1, HeapAssumption DEF EndOf, Hdr
<1>5. Tiled /\ Linked
  BY <1>1, <1>4, HeapAssumption DEF Tiled, Linked
<1>6. InUseIsHeld
  BY <1>1 DEF Init, InUseIsHeld
<1>7. Coalesced /\ Merging /\ Searching
  BY <1>1 DEF Init, Coalesced, Merging, Searching, FreeAt
<1> QED BY <1>3, <1>5, <1>6, <1>7 DEF IInv, Shape

(* A step that leaves the list and the callers alone keeps what is said of them. *)
LEMMA SameList ==
  ASSUME Shape, UNCHANGED heap
  PROVE  blocks' = blocks /\ Tiled' /\ Linked'
<1>1. blocks' = blocks
  BY DEF blocks
<1>2. Tiled'
  BY <1>1 DEF Shape, Tiled, EndOf
<1>3. Linked'
  BY <1>1 DEF Shape, Linked, EndOf
<1> QED BY <1>1, <1>2, <1>3

(* The invariant is one of the variables only. *)
LEMMA StutterStep == ASSUME IInv, UNCHANGED vars PROVE IInv'
<1>1. Shape'
  BY SameList DEF IInv, Shape, TypeOK, vars
<1>2. InUseIsHeld' /\ Coalesced' /\ Merging' /\ Searching'
  BY SameList DEF IInv, vars, InUseIsHeld, Coalesced, Merging, Searching, FreeAt, Fits
<1> QED BY <1>1, <1>2 DEF IInv

(* The call of kmalloc, kmalloc_aligned or a moving krealloc keeps the invariant. *)
LEMMA SearchStep ==
  ASSUME IInv, NEW size \in Nat, NEW n \in Nat, NEW align \in Nat,
         NEW old \in DOMAIN held \cup {NULL}, old \in Nat,
         Search(size, n, align, old)
  PROVE  IInv'
<1>1. AlignUp(size, 4) \in Nat
  BY AlignUpNat
<1>2. HeapStart \in blocks
  BY DEF IInv, Shape, Linked
<1>3. blocks' = blocks /\ Tiled' /\ Linked'
  BY SameList DEF IInv, Search
<1>4. TypeOK'
  BY <1>1, <1>2, <1>3 DEF IInv, Shape, TypeOK, Search, NULL
<1>5. InUseIsHeld' /\ Coalesced' /\ Merging'
  BY <1>3 DEF IInv, Search, InUseIsHeld, Coalesced, Merging, FreeAt
<1>6. Searching'
  <2>1. \A b \in blocks : b \in Nat /\ b >= HeapStart
    BY Addresses DEF IInv
  <2>2. cur' = HeapStart
    BY DEF Search
  <2>3. \A b \in blocks : ~(cur' = NULL \/ b < cur')
    BY <2>1, <2>2, HeapAssumption DEF NULL
  <2> QED BY <1>3, <2>3 DEF Searching
<1> QED BY <1>3, <1>4, <1>5, <1>6 DEF IInv, Shape

(* The search going on to the next block keeps it. *)
LEMMA ScanNextStep == ASSUME IInv, ScanNext PROVE IInv'
<1>1. blocks' = blocks /\ Tiled' /\ Linked'
  BY SameList DEF IInv, ScanNext
<1>2. cur \in blocks
  BY DEF IInv, Shape, TypeOK, ScanNext
<1>3. cur' = heap[cur].next /\ cur' \in blocks \cup {NULL}
  BY <1>2, NextIs DEF IInv, ScanNext
<1>4. TypeOK'
  BY <1>1, <1>3 DEF IInv, Shape, TypeOK, ScanNext
<1>5. InUseIsHeld' /\ Coalesced' /\ Merging'
  BY <1>1 DEF IInv, ScanNext, InUseIsHeld, Coalesced, Merging, FreeAt
<1>6. ASSUME NEW b \in blocks, cur' = NULL \/ b < cur' PROVE ~Fits(b)
  <2>1. b < EndOf(cur)
    <3>1. CASE cur' = NULL
      <4>1. EndOf(cur) = HeapEnd
        BY <1>2, <1>3, <3>1, Addresses DEF IInv, Shape, Linked
      <4> QED BY <4>1, Addresses DEF IInv
    <3>2. CASE cur' # NULL
      BY <1>2, <1>3, <1>6, <3>2, NextIs DEF IInv
    <3> QED BY <3>1, <3>2
  <2>2. b <= cur
    BY <1>2, <2>1, Addresses DEF IInv, Shape, Tiled
  <2> QED BY <1>2, <2>2, Addresses DEF IInv, ScanNext, Searching
<1>7. Searching'
  BY <1>1, <1>6 DEF Searching, Fits, ScanNext
<1> QED BY <1>1, <1>4, <1>5, <1>7 DEF IInv, Shape

(* Taking the block keeps it, split or whole. *)
LEMMA ScanTakeStep == ASSUME IInv, ScanTake PROVE IInv'
<1>0. PICK rest : rest = cur + Hdr + call.want
  OBVIOUS
<1>1. cur \in blocks /\ Fits(cur) /\ heap' = Allocated(cur) /\ heap[cur].free
  BY DEF IInv, Shape, TypeOK, ScanTake, Fits
<1>2. IF Splits(cur) THEN SplitOff(cur, rest) ELSE Marked(cur, FALSE)
  BY <1>0, <1>1, AllocatedIs DEF IInv
<1>3. Tiled' /\ Linked'
  BY <1>0, <1>1, <1>2, SplitTiled, SplitLinked, MarkedShape DEF IInv
<1>4. heap' \in [blocks' -> Header] /\ blocks' \subseteq HeapStart .. HeapEnd - 1
  BY <1>1, AllocatedType DEF IInv
<1>5. cur \in blocks' /\ heap'[cur].size \in Nat /\ heap'[cur].free = FALSE
  <2>1. cur \in blocks' /\ heap'[cur].free = FALSE
    BY <1>1, <1>2 DEF SplitOff, Marked
  <2>2. heap'[cur] \in Header
    BY <1>4, <2>1
  <2> QED BY <2>1, <2>2 DEF Header
<1>6. /\ DOMAIN held' = DOMAIN held \cup {cur + Hdr}
      /\ \A p \in DOMAIN held \ {cur + Hdr} : held'[p] = held[p]
      /\ held'[cur + Hdr] = Handed(cur + Hdr)
      /\ held' = [p \in DOMAIN held' |-> held'[p]]
  BY DEF ScanTake
<1>7. Handed(cur + Hdr) \in [at : Nat, n : Nat]
  <2>1. cur + Hdr \in Nat /\ cur + Hdr + 4 \in Nat
    BY <1>1, Addresses DEF IInv, Hdr
  <2>2. call.align \in Nat /\ call.n \in Nat
    BY DEF IInv, Shape, TypeOK
  <2>3. call.align # 0 => AlignUp(cur + Hdr + 4, call.align) \in Nat
    BY <2>1, <2>2, AlignUpNat
  <2> QED BY <2>1, <2>2, <2>3 DEF Handed
<1>8. TypeOK'
  <2>1. held' \in [DOMAIN held' -> [at : Nat, n : Nat]]
    BY <1>6, <1>7 DEF IInv, Shape, TypeOK
  <2>4. DOMAIN held' \subseteq Nat
    BY <1>1, <1>6, Addresses DEF IInv, Shape, TypeOK, Hdr
  <2>2. heapUsed' \in Int /\ result' \in Nat
    BY <1>1, <1>5, Addresses DEF IInv, Shape, TypeOK, ScanTake, Hdr
  <2>3. /\ pc' \in {"idle", "scan", "copied", "next", "prev"} /\ cur' = NULL
        /\ pc' \notin {"next", "prev"}
        /\ call' \in [want : Nat, n : Nat, align : Nat, old : Nat]
        /\ call'.old # NULL => pc' \in {"scan", "copied"} /\ call'.old \in DOMAIN held'
        /\ pc' = "copied" => call'.old # NULL
    BY <1>6 DEF IInv, Shape, TypeOK, ScanTake, NoCall, NULL
  <2> QED BY <1>4, <2>1, <2>2, <2>3, <2>4 DEF TypeOK
<1>9. InUseIsHeld'
  <2>1. ASSUME NEW b \in blocks' PROVE ~heap'[b].free <=> b + Hdr \in DOMAIN held'
    <3>1. b \in Nat /\ cur \in Nat
      BY <1>1, <1>4, HeapAssumption, Addresses DEF IInv
    <3>2. b + Hdr = cur + Hdr <=> b = cur
      BY <3>1 DEF Hdr
    <3>3. CASE b = cur
      BY <1>5, <1>6, <3>3
    <3>4. CASE b # cur /\ b \in blocks
      BY <1>1, <1>2, <1>6, <3>2, <3>4 DEF IInv, InUseIsHeld, SplitOff, Marked
    <3>5. CASE b # cur /\ b \notin blocks
      <4>1. Splits(cur) /\ SplitOff(cur, rest) /\ b = rest
        BY <1>2, <3>5 DEF SplitOff, Marked
      <4>2. heap'[b].free
        BY <4>1 DEF SplitOff
      <4>3. b + Hdr \notin DOMAIN held
        <5>1. BlockOf(b + Hdr) = b
          BY <3>1 DEF BlockOf, Hdr
        <5> QED BY <3>5, <5>1 DEF IInv, InUseIsHeld
      <4> QED BY <1>6, <3>2, <3>5, <4>2, <4>3
    <3> QED BY <3>3, <3>4, <3>5
  <2>2. ASSUME NEW p \in DOMAIN held' PROVE BlockOf(p) \in blocks'
    <3>1. BlockOf(cur + Hdr) = cur
      BY <1>1, Addresses DEF IInv, BlockOf, Hdr
    <3>2. blocks \subseteq blocks'
      BY <1>2 DEF SplitOff, Marked
    <3> QED BY <1>5, <1>6, <3>1, <3>2 DEF IInv, InUseIsHeld
  <2> QED BY <2>1, <2>2 DEF InUseIsHeld, BlockOf
<1>10. Coalesced'
  <2> SUFFICES ASSUME NEW b \in blocks', heap'[b].free PROVE ~FreeAt(heap[b].next)'
    BY DEF Coalesced
  <2>1. b # cur
    BY <1>5
  <2>2. CASE b \in blocks
    <3>1. heap[b].free /\ heap'[b].next = heap[b].next
      BY <1>2, <2>1, <2>2 DEF SplitOff, Marked
    <3>2. ~FreeAt(heap[b].next)
      BY <2>2, <3>1 DEF IInv, Coalesced, ScanTake
    <3>3. heap[b].next # NULL => heap[b].next \in blocks
      BY <2>2, NextIs DEF IInv
    <3>4. heap[b].next # NULL => heap'[heap[b].next].free = heap[heap[b].next].free
      BY <1>1, <1>2, <3>2, <3>3 DEF SplitOff, Marked, FreeAt
    <3> QED BY <3>1, <3>2, <3>4 DEF FreeAt
  <2>3. CASE b \notin blocks
    <3>1. Splits(cur) /\ SplitOff(cur, rest) /\ b = rest
      BY <1>2, <2>3 DEF SplitOff, Marked
    <3>2. heap'[b].next = heap[cur].next
      BY <3>1 DEF SplitOff
    <3>3. ~FreeAt(heap[cur].next)
      BY <1>1 DEF IInv, Coalesced, ScanTake
    <3>4. heap[cur].next # NULL => heap[cur].next \in blocks /\ heap[cur].next # cur
      BY <1>1, NextIs, Addresses DEF IInv
    <3> QED BY <3>1, <3>2, <3>3, <3>4 DEF FreeAt, SplitOff
  <2> QED BY <2>2, <2>3
<1>11. Merging' /\ Searching'
  BY DEF Merging, Searching, ScanTake
<1> QED BY <1>3, <1>8, <1>9, <1>10, <1>11 DEF IInv, Shape

(* Giving up keeps it. *)
LEMMA ScanFailStep == ASSUME IInv, ScanFail PROVE IInv'
<1>1. blocks' = blocks /\ Tiled' /\ Linked'
  BY SameList DEF IInv, ScanFail
<1>2. TypeOK'
  BY <1>1 DEF IInv, Shape, TypeOK, ScanFail, NoCall, NULL
<1>3. InUseIsHeld' /\ Coalesced' /\ Merging' /\ Searching'
  BY <1>1 DEF IInv, ScanFail, InUseIsHeld, Coalesced, Merging, Searching, FreeAt
<1> QED BY <1>1, <1>2, <1>3 DEF IInv, Shape

(* A krealloc in place keeps it. *)
LEMMA InPlaceStep ==
  ASSUME IInv, NEW p \in DOMAIN held, NEW n \in Nat, KreallocInPlace(p, n)
  PROVE  IInv'
<1>1. blocks' = blocks /\ Tiled' /\ Linked'
  BY SameList DEF IInv, KreallocInPlace
<1>2. DOMAIN held' = DOMAIN held
  BY DEF KreallocInPlace
<1>3. p \in Nat /\ held' \in [DOMAIN held' -> [at : Nat, n : Nat]]
  BY <1>2 DEF IInv, Shape, TypeOK, KreallocInPlace
<1>4. TypeOK'
  BY <1>1, <1>2, <1>3 DEF IInv, Shape, TypeOK, KreallocInPlace
<1>5. InUseIsHeld' /\ Coalesced' /\ Merging' /\ Searching'
  BY <1>1, <1>2 DEF IInv, KreallocInPlace, InUseIsHeld, Coalesced, Merging, Searching,
                    FreeAt
<1> QED BY <1>1, <1>4, <1>5 DEF IInv, Shape

(* kfree marking the block keeps it; the block may now have free neighbours. *)
LEMMA ReleaseStep ==
  ASSUME IInv, NEW p \in DOMAIN held, pc \in {"idle", "copied"}, Release(p), result' \in Nat
  PROVE  IInv'
<1> DEFINE b == BlockOf(p)
<1>1. b \in blocks /\ p \in Nat /\ b + Hdr = p
  BY Addresses DEF IInv, InUseIsHeld, Shape, TypeOK, BlockOf, Hdr
<1> HIDE DEF b
<1>2. heap' = [heap EXCEPT ![b].free = TRUE] /\ cur' = b /\ pc' = "next"
  BY DEF Release, b
<1>3. heap \in [blocks -> Header]
  BY DEF IInv, Shape, TypeOK
<1>4. blocks' = blocks
  BY <1>2, <1>3 DEF blocks
<1>5. Marked(b, TRUE) /\ heap' \in [blocks' -> Header]
  BY <1>1, <1>2, <1>3, <1>4 DEF Marked, Header
<1>6. Tiled' /\ Linked'
  BY <1>1, <1>5, MarkedShape DEF IInv
<1>7. DOMAIN held' = DOMAIN held \ {p} /\ \A q \in DOMAIN held' : held'[q] = held[q]
  BY DEF Release
<1>8. TypeOK'
  <2>1. held' \in [DOMAIN held' -> [at : Nat, n : Nat]] /\ DOMAIN held' \subseteq Nat
    BY <1>7 DEF IInv, Shape, TypeOK, Release
  <2>2. heapUsed' \in Int
    BY <1>1, Addresses DEF IInv, Shape, TypeOK, Release, b
  <2>3. cur' \in blocks' /\ cur' # NULL
    BY <1>1, <1>2, <1>4, Addresses DEF IInv
  <2>4. call' \in [want : Nat, n : Nat, align : Nat, old : Nat] /\ call'.old = NULL
    BY DEF Release, NoCall, NULL
  <2>5. blocks' \subseteq HeapStart .. HeapEnd - 1
    BY <1>4 DEF IInv, Shape, TypeOK
  <2> QED BY <1>2, <1>5, <2>1, <2>2, <2>3, <2>4, <2>5 DEF TypeOK
<1>9. InUseIsHeld'
  <2>1. ASSUME NEW a \in blocks' PROVE ~heap'[a].free <=> a + Hdr \in DOMAIN held'
    <3>1. CASE a = b
      BY <1>1, <1>5, <1>7, <3>1 DEF Marked
    <3>2. CASE a # b
      <4>1. a + Hdr # p
        BY <1>1, <1>4, <3>2, Addresses DEF IInv, Hdr
      <4> QED BY <1>4, <1>5, <1>7, <3>2, <4>1 DEF IInv, InUseIsHeld, Marked
    <3> QED BY <3>1, <3>2
  <2> QED BY <1>4, <1>7, <2>1 DEF IInv, InUseIsHeld, BlockOf
<1>10. Merging'
  <2> SUFFICES ASSUME NEW a \in blocks', heap'[a].free, a # cur', heap'[a].next # cur'
               PROVE  ~FreeAt(heap[a].next)'
    BY <1>2, <1>5 DEF Merging, Marked
  <2>1. heap[a].free /\ heap'[a].next = heap[a].next
    BY <1>2, <1>4, <1>5 DEF Marked
  <2>2. ~FreeAt(heap[a].next)
    BY <1>4, <2>1 DEF IInv, Coalesced
  <2>3. heap[a].next # NULL => heap[a].next \in blocks
    BY <1>4, NextIs DEF IInv
  <2> QED BY <1>2, <1>5, <2>1, <2>2, <2>3 DEF FreeAt, Marked
<1>11. Coalesced' /\ Searching'
  BY <1>2 DEF Coalesced, Searching
<1> QED BY <1>6, <1>8, <1>9, <1>10, <1>11 DEF IInv, Shape

(* The end of the forward merging loop keeps it. *)
LEMMA MergeNextDoneStep == ASSUME IInv, MergeNextDone PROVE IInv'
<1>1. blocks' = blocks /\ Tiled' /\ Linked'
  BY SameList DEF IInv, MergeNextDone
<1>2. TypeOK'
  BY <1>1 DEF IInv, Shape, TypeOK, MergeNextDone
<1>3. InUseIsHeld'
  BY <1>1 DEF IInv, MergeNextDone, InUseIsHeld
<1>4. Merging'
  BY <1>1 DEF IInv, MergeNextDone, Merging, FreeAt
<1>5. Coalesced' /\ Searching'
  BY DEF MergeNextDone, Coalesced, Searching
<1> QED BY <1>1, <1>2, <1>3, <1>4, <1>5 DEF IInv, Shape

(* The end of the backward merging loop keeps it: all is coalesced. *)
LEMMA MergePrevDoneStep == ASSUME IInv, MergePrevDone PROVE IInv'
<1>1. blocks' = blocks /\ Tiled' /\ Linked'
  BY SameList DEF IInv, MergePrevDone
<1>2. TypeOK'
  BY <1>1 DEF IInv, Shape, TypeOK, MergePrevDone
<1>3. InUseIsHeld'
  BY <1>1 DEF IInv, MergePrevDone, InUseIsHeld
<1>4. Coalesced'
  <2> SUFFICES ASSUME NEW b \in blocks, heap[b].free PROVE ~FreeAt(heap[b].next)
    BY <1>1 DEF MergePrevDone, Coalesced, FreeAt
  <2>1. CASE heap[b].next # cur
    BY <2>1 DEF IInv, Merging, MergePrevDone
  <2>2. CASE heap[b].next = cur
    <3>1. heap[cur].prev = b /\ b # NULL
      BY <2>2, NextIs, Addresses DEF IInv, Shape, TypeOK, MergePrevDone
    <3> QED BY <3>1 DEF MergePrevDone, FreeAt
  <2> QED BY <2>1, <2>2
<1>5. Merging' /\ Searching'
  BY DEF MergePrevDone, Merging, Searching
<1> QED BY <1>1, <1>2, <1>3, <1>4, <1>5 DEF IInv, Shape

(* What both merging loops share: joining two free blocks. *)
LEMMA JoinStep ==
  ASSUME IInv, NEW b \in blocks, NEW c, c = heap[b].next, c # NULL,
         heap[b].free, heap[c].free, heap' = Absorb(b, c),
         pc \in {"next", "prev"}, cur' = b, UNCHANGED <<heapUsed, pc, call, result, held>>
  PROVE  Shape' /\ InUseIsHeld' /\ Joined(b, c) /\ c \in blocks
<1>1. Joined(b, c) /\ c \in blocks
  BY AbsorbIs, NextIs DEF IInv
<1>2. Tiled' /\ Linked'
  BY <1>1, JoinedTiled, JoinedLinked DEF IInv
<1>3. heap' \in [blocks' -> Header] /\ blocks' \subseteq HeapStart .. HeapEnd - 1
  BY AbsorbType DEF IInv
<1>4. b \in blocks' /\ b # NULL
  BY <1>1, Addresses DEF IInv, Joined
<1>5. TypeOK'
  BY <1>3, <1>4 DEF IInv, Shape, TypeOK
<1>6. InUseIsHeld'
  <2>1. ASSUME NEW a \in blocks' PROVE ~heap'[a].free <=> a + Hdr \in DOMAIN held'
    BY <1>1 DEF IInv, InUseIsHeld, Joined
  <2>2. ASSUME NEW p \in DOMAIN held' PROVE BlockOf(p) \in blocks'
    <3>1. BlockOf(p) \in blocks /\ BlockOf(p) + Hdr = p
      BY DEF IInv, InUseIsHeld, Shape, TypeOK, BlockOf, Hdr
    <3>2. BlockOf(p) # c
      BY <1>1, <3>1 DEF IInv, InUseIsHeld
    <3> QED BY <1>1, <3>1, <3>2 DEF Joined
  <2> QED BY <2>1, <2>2 DEF InUseIsHeld, BlockOf
<1> QED BY <1>1, <1>2, <1>5, <1>6 DEF Shape

(* A turn of the forward merging loop keeps it. *)
LEMMA MergeNextStep == ASSUME IInv, MergeNext PROVE IInv'
<1> DEFINE c == heap[cur].next
<1>1. cur \in blocks /\ heap[cur].free /\ c # NULL /\ heap[c].free /\ heap' = Absorb(cur, c)
      /\ cur' = cur /\ pc = "next" /\ pc' = "next"
  BY DEF IInv, Shape, TypeOK, Merging, MergeNext, FreeAt
<1>2. Shape' /\ InUseIsHeld' /\ Joined(cur, c) /\ c \in blocks
  BY <1>1, JoinStep DEF MergeNext
<1> HIDE DEF c
<1>3. Merging'
  <2> SUFFICES ASSUME NEW a \in blocks', heap'[a].free, a # cur, heap'[a].next # cur
               PROVE  ~FreeAt(heap[a].next)'
    BY <1>1, <1>2 DEF Merging, Joined
  <2>1. a \in blocks \ {cur, c} /\ heap[a].free /\ heap'[a].next = heap[a].next
    BY <1>2 DEF Joined
  <2>2. ~FreeAt(heap[a].next)
    BY <1>1, <2>1 DEF IInv, Merging
  <2>3. heap[a].next # NULL => heap[a].next \in blocks \ {cur, c}
    <3>1. heap[a].next # NULL => heap[a].next \in blocks /\ heap[heap[a].next].prev = a
      BY <2>1, NextIs DEF IInv
    <3>2. heap[c].prev = cur
      BY <1>1, NextIs DEF IInv, c
    <3> QED BY <2>1, <3>1, <3>2
  <2> QED BY <1>2, <2>1, <2>2, <2>3 DEF FreeAt, Joined
<1>4. Coalesced' /\ Searching'
  BY <1>1 DEF Coalesced, Searching
<1> QED BY <1>2, <1>3, <1>4 DEF IInv

(* A turn of the backward merging loop keeps it. *)
LEMMA MergePrevStep == ASSUME IInv, MergePrev PROVE IInv'
<1> DEFINE p == heap[cur].prev
<1>1. cur \in blocks /\ heap[cur].free /\ p # NULL /\ heap[p].free /\ heap' = Absorb(p, cur)
      /\ cur' = p /\ pc = "prev" /\ pc' = "prev"
  BY DEF IInv, Shape, TypeOK, Merging, MergePrev, FreeAt
<1>2. p \in blocks /\ heap[p].next = cur /\ cur # NULL
  <2>1. cur # HeapStart
    BY <1>1 DEF IInv, Shape, Linked
  <2> QED BY <1>1, <2>1, PrevIs, Addresses DEF IInv
<1>3. Shape' /\ InUseIsHeld' /\ Joined(p, cur)
  BY <1>1, <1>2, JoinStep DEF MergePrev
<1> HIDE DEF p
<1>4. Merging'
  <2> SUFFICES ASSUME NEW a \in blocks', heap'[a].free, heap'[a].next # p
               PROVE  ~FreeAt(heap[a].next)'
    BY <1>1, <1>3 DEF Merging, Joined
  <2>1. CASE a = p
    <3>1. heap'[a].next = heap[cur].next
      BY <1>3, <2>1 DEF Joined
    <3>2. heap[cur].next # NULL => heap[cur].next \in blocks /\ heap[cur].next # cur
      BY <1>1, NextIs, Addresses DEF IInv
    <3>3. ~FreeAt(heap[cur].next)
      BY <1>1, <3>2, Addresses DEF IInv, Merging, FreeAt
    <3> QED BY <1>3, <3>1, <3>2, <3>3 DEF FreeAt, Joined
  <2>2. CASE a # p
    <3>1. a \in blocks \ {p, cur} /\ heap[a].free /\ heap'[a].next = heap[a].next
      BY <1>3, <2>2 DEF Joined
    <3>2. heap[a].next # cur
      BY <1>1, <1>2, <3>1, NextIs DEF IInv
    <3>3. ~FreeAt(heap[a].next)
      BY <1>1, <3>1, <3>2 DEF IInv, Merging
    <3>4. heap[a].next # NULL => heap[a].next \in blocks \ {cur}
      BY <3>1, <3>2, NextIs DEF IInv
    <3> QED BY <1>3, <3>1, <3>3, <3>4 DEF FreeAt, Joined
  <2> QED BY <2>1, <2>2
<1>5. Coalesced' /\ Searching'
  BY <1>1 DEF Coalesced, Searching
<1> QED BY <1>3, <1>4, <1>5 DEF IInv

(* Every step of every call keeps the invariant. *)
LEMMA NextIInv == ASSUME IInv, [Next]_vars PROVE IInv'
<1>1. CASE UNCHANGED vars
  BY <1>1, StutterStep
<1>2. ASSUME NEW n \in Requests, Kmalloc(n) PROVE IInv'
  BY <1>2, SearchStep, HeapAssumption DEF Kmalloc, NULL
<1>3. ASSUME NEW n \in Requests, NEW al \in Alignments, KmallocAligned(n, al) PROVE IInv'
  <2>1. n \in Nat /\ al \in Nat /\ (n + al + 4) % Word \in Nat
    BY HeapAssumption
  <2> QED BY <1>3, <2>1, SearchStep DEF KmallocAligned, NULL
<1>4. ASSUME NEW p \in DOMAIN held, Kfree(p) PROVE IInv'
  <2>1. result' \in Nat /\ pc = "idle" /\ Release(p)
    BY <1>4 DEF Kfree, NULL
  <2> QED BY <2>1, ReleaseStep
<1>5. ASSUME NEW p \in DOMAIN held, NEW n \in Requests, KreallocInPlace(p, n) PROVE IInv'
  <2>1. n \in Nat
    BY HeapAssumption
  <2> QED BY <1>5, <2>1, InPlaceStep
<1>6. ASSUME NEW p \in DOMAIN held, NEW n \in Requests, KreallocMove(p, n) PROVE IInv'
  <2>1. n \in Nat /\ 0 \in Nat /\ p \in Nat /\ Search(n, n, 0, p)
    BY <1>6, HeapAssumption DEF KreallocMove, IInv, Shape, TypeOK
  <2> QED BY <2>1, SearchStep
<1>7. CASE Call
  BY <1>2, <1>3, <1>4, <1>5, <1>6, <1>7 DEF Call
<1>8. CASE KreallocFreeOld
  <2>1. call.old \in DOMAIN held /\ result' \in Nat /\ pc = "copied" /\ Release(call.old)
    BY <1>8 DEF KreallocFreeOld, IInv, Shape, TypeOK
  <2> QED BY <2>1, ReleaseStep
<1>9. CASE Step
  BY <1>8, <1>9, ScanNextStep, ScanTakeStep, ScanFailStep, MergeNextStep, MergeNextDoneStep,
     MergePrevStep, MergePrevDoneStep DEF Step
<1> QED BY <1>1, <1>7, <1>9 DEF Next

-----------------------------------------------------------------------------
(***************************************************************************)
(* The theorems                                                            *)
(***************************************************************************)
(* The strengthening holds in every reachable state. *)
THEOREM Inductive == Spec => []IInv
<1>1. Init => IInv
  BY InitIInv
<1>2. IInv /\ [Next]_vars => IInv'
  BY NextIInv
<1> QED BY <1>1, <1>2, PTL DEF Spec

(* The state of the allocator keeps its type. *)
THEOREM TypeCorrect == Spec => []TypeOK
BY Inductive, PTL DEF IInv, Shape

(* Every byte of the arena always belongs to exactly one block, whatever   *)
(* the size of the arena and the requests.                                 *)
THEOREM TiledAlways == Spec => []Tiled
BY Inductive, PTL DEF IInv, Shape

(* The two directions of the list always agree with the addresses.         *)
THEOREM LinkedAlways == Spec => []Linked
BY Inductive, PTL DEF IInv, Shape

(* All that walks and searches of the list rely on holds at every moment.  *)
THEOREM ListSoundAlways == Spec => []ListSound
BY Inductive, PTL DEF IInv, Shape, ListSound

(* Between calls no two neighbours are free: one kfree merges all it can.  *)
THEOREM CoalescedAlways == Spec => []Coalesced
BY Inductive, PTL DEF IInv

(* The search takes the first block that fits and fails only if none does. *)
THEOREM FirstFitAlways == Spec => FirstFit
<1>1. ASSUME IInv, ScanTake PROVE \A b \in blocks : Fits(b) => cur <= b
  <2>1. cur \in blocks /\ pc = "scan"
    BY <1>1 DEF IInv, Shape, TypeOK, ScanTake
  <2>2. \A b \in blocks : b < cur => ~Fits(b)
    BY <1>1, <2>1 DEF IInv, Searching
  <2>3. \A b \in blocks : b \in Nat /\ cur \in Nat
    BY <1>1, <2>1, Addresses DEF IInv
  <2> QED BY <2>2, <2>3
<1>2. ASSUME IInv, ScanFail PROVE \A b \in blocks : ~Fits(b)
  BY <1>2 DEF IInv, Searching, ScanFail
<1>3. IInv => /\ ScanTake => \A b \in blocks : Fits(b) => cur <= b
              /\ ScanFail => \A b \in blocks : ~Fits(b)
  BY <1>1, <1>2
<1> QED BY <1>3, Inductive, PTL DEF FirstFit

-----------------------------------------------------------------------------
(***************************************************************************)
(* Callers' memory: nothing of a block that is held changes but its prev,  *)
(* and a block is handed out for no more than fits in it.                  *)
(***************************************************************************)
(* What callers hold keeps its place and size as long as they hold it. *)
LEMMA HeldKept ==
  ASSUME IInv, [Next]_vars, NEW p \in DOMAIN held, p \in DOMAIN held'
  PROVE  /\ BlockOf(p) \in blocks /\ BlockOf(p) \in blocks'
         /\ heap'[BlockOf(p)].size = heap[BlockOf(p)].size
         /\ EndOf(BlockOf(p))' = EndOf(BlockOf(p))
<1> DEFINE b == BlockOf(p)
<1>1. b \in blocks /\ ~heap[b].free
  BY Addresses DEF IInv, InUseIsHeld, Shape, TypeOK, BlockOf, Hdr
<1> HIDE DEF b
<1> SUFFICES b \in blocks' /\ heap'[b].size = heap[b].size
  BY <1>1 DEF b, EndOf, BlockOf
<1>2. CASE UNCHANGED heap
  BY <1>1, <1>2 DEF blocks
<1>3. CASE ScanTake
  <2>1. cur \in blocks /\ Fits(cur) /\ heap' = Allocated(cur) /\ b # cur
    BY <1>1, <1>3 DEF IInv, Shape, TypeOK, ScanTake, Fits
  <2>2. PICK rest : rest = cur + Hdr + call.want
    OBVIOUS
  <2>3. IF Splits(cur) THEN SplitOff(cur, rest) ELSE Marked(cur, FALSE)
    BY <2>1, <2>2, AllocatedIs DEF IInv
  <2> QED BY <1>1, <2>1, <2>3 DEF SplitOff, Marked
<1>4. ASSUME NEW q \in DOMAIN held, Release(q)
      PROVE  b \in blocks' /\ heap'[b].size = heap[b].size
  <2>1. heap \in [blocks -> Header] /\ BlockOf(q) \in blocks
    BY DEF IInv, Shape, TypeOK, InUseIsHeld
  <2>2. heap' = [heap EXCEPT ![BlockOf(q)].free = TRUE]
    BY <1>4 DEF Release
  <2> QED BY <1>1, <2>1, <2>2 DEF blocks, Header
<1>5. CASE MergeNext
  <2>1. /\ cur \in blocks /\ heap[cur].next # NULL /\ heap[heap[cur].next].free
        /\ heap' = Absorb(cur, heap[cur].next) /\ heap[cur].free
    BY <1>5 DEF IInv, Shape, TypeOK, Merging, MergeNext, FreeAt
  <2>2. Joined(cur, heap[cur].next)
    BY <2>1, AbsorbIs DEF IInv
  <2> QED BY <1>1, <2>1, <2>2 DEF Joined
<1>6. CASE MergePrev
  <2> DEFINE c == heap[cur].prev
  <2>1. /\ cur \in blocks /\ c # NULL /\ heap[c].free
        /\ heap' = Absorb(c, cur) /\ heap[cur].free
    BY <1>6 DEF IInv, Shape, TypeOK, Merging, MergePrev, FreeAt
  <2>2. c \in blocks /\ heap[c].next = cur /\ cur # NULL
    BY <2>1, PrevIs, Addresses DEF IInv, Shape, Linked
  <2>3. Joined(c, cur)
    BY <2>1, <2>2, AbsorbIs DEF IInv
  <2> QED BY <1>1, <2>1, <2>3 DEF Joined
<1>7. CASE Call
  BY <1>2, <1>4, <1>7 DEF Call, Kmalloc, KmallocAligned, KreallocInPlace, KreallocMove,
                          Search, Kfree
<1>8. CASE Step
  <2>1. CASE KreallocFreeOld
    BY <1>4, <2>1 DEF KreallocFreeOld, IInv, Shape, TypeOK
  <2> QED BY <1>2, <1>3, <1>5, <1>6, <1>8, <2>1
          DEF Step, ScanNext, ScanFail, MergeNextDone, MergePrevDone
<1> QED BY <1>2, <1>7, <1>8 DEF Next, vars

(* The search asks for room for the caller's bytes, however they are       *)
(* aligned: rounding up to 4 does not wrap.                                *)
LEMMA AsksEnough ==
  ASSUME NEW size \in Nat, NEW n \in Nat, NEW align \in Nat, NEW old,
         Search(size, n, align, old), size + 3 < Word,
         IF align = 0 THEN n <= size ELSE n + align + 4 <= size
  PROVE  Roomy' /\ call'.want # 0
<1>1. size <= AlignUp(size, 4) /\ AlignUp(size, 4) \in Nat
  <2>1. size + 4 <= Word /\ 4 \in Nat \ {0}
    BY HeapAssumption
  <2> QED BY <2>1, AlignUpUp, AlignUpNat
<1>2. call' = [want |-> AlignUp(size, 4), n |-> n, align |-> align, old |-> old]
  BY DEF Search
<1> QED BY <1>1, <1>2 DEF Roomy, Search

(* A call asks the search for enough, and for something. *)
LEMMA CallRoomy == ASSUME IInv, Call PROVE Roomy' /\ (pc' = "scan" => call'.want # 0)
<1>1. ASSUME NEW n \in Requests, Kmalloc(n) \/ \E p : KreallocMove(p, n)
      PROVE  Roomy' /\ call'.want # 0
  <2>1. n \in Nat /\ n + 3 < Word /\ 0 \in Nat
    BY HeapAssumption, RequestsFit
  <2>2. \E old : Search(n, n, 0, old)
    BY <1>1 DEF Kmalloc, KreallocMove
  <2> QED BY <2>1, <2>2, AsksEnough
<1>2. ASSUME NEW n \in Requests, NEW al \in Alignments, KmallocAligned(n, al)
      PROVE  Roomy' /\ call'.want # 0
  <2>1. n \in Nat /\ al \in Nat \ {0} /\ n + al + 4 \in Nat /\ n + al + 4 + 3 < Word
    BY HeapAssumption, RequestsFit
  <2>2. (n + al + 4) % Word = n + al + 4
    BY <2>1, HeapAssumption
  <2>3. Search(n + al + 4, n, al, NULL)
    BY <1>2, <2>2 DEF KmallocAligned
  <2> QED BY <2>1, <2>3, AsksEnough
<1>3. ASSUME NEW p \in DOMAIN held, Kfree(p) \/ \E n : KreallocInPlace(p, n)
      PROVE  pc' # "scan"
  BY <1>3 DEF Kfree, Release, KreallocInPlace
<1>4. pc' # "scan" => Roomy'
  BY DEF Roomy
<1> QED BY <1>1, <1>2, <1>3, <1>4 DEF Call

(* Every step keeps what callers hold inside blocks in use. *)
LEMMA OwnedStep == ASSUME IInv, Owned, Roomy, [Next]_vars PROVE Owned' /\ Roomy'
<1>1. IInv'
  BY NextIInv
<1>2. Roomy'
  <2>1. CASE ScanNext
    BY <2>1 DEF ScanNext, Roomy
  <2>2. CASE UNCHANGED vars
    BY <2>2 DEF vars, Roomy
  <2>3. CASE pc' # "scan"
    BY <2>3 DEF Roomy
  <2> QED BY <2>1, <2>2, <2>3, CallRoomy
          DEF Next, Step, ScanTake, ScanFail, KreallocFreeOld, Release, MergeNext,
              MergeNextDone, MergePrev, MergePrevDone
<1>3. ASSUME NEW p \in DOMAIN held'
      PROVE  /\ held'[p].at = p \/ held'[p].at >= p + 4
             /\ held'[p].at + held'[p].n <= EndOf(BlockOf(p))'
  <2>1. CASE p \in DOMAIN held /\ held'[p] = held[p]
    BY <2>1, HeldKept DEF Owned
  <2>2. ASSUME NEW n \in Requests, KreallocInPlace(p, n)
        PROVE  held'[p].at = p /\ held'[p].at + held'[p].n <= EndOf(BlockOf(p))'
    <3>1. /\ p \in DOMAIN held /\ p \in Nat /\ held'[p].at = p /\ held'[p].n = n
          /\ heap[BlockOf(p)].size >= n /\ n \in Nat
      BY <2>2, HeapAssumption DEF KreallocInPlace, IInv, Shape, TypeOK
    <3>2. BlockOf(p) \in blocks /\ EndOf(BlockOf(p))' = EndOf(BlockOf(p))
      BY <3>1, HeldKept
    <3>3. BlockOf(p) = p - 16
      BY DEF BlockOf, Hdr
    <3> QED BY <3>1, <3>2, <3>3, Addresses DEF IInv
  <2>3. ASSUME ScanTake, p = cur + Hdr
        PROVE  /\ held'[p].at = p \/ held'[p].at >= p + 4
               /\ held'[p].at + held'[p].n <= EndOf(BlockOf(p))'
    <3>0. PICK b : b = cur
      OBVIOUS
    <3>1. b \in blocks /\ Fits(b) /\ heap' = Allocated(b) /\ pc = "scan"
      BY <2>3, <3>0 DEF IInv, Shape, TypeOK, ScanTake
    <3>2. call.want \in Nat /\ call.n \in Nat /\ call.align \in Nat
      BY DEF IInv, Shape, TypeOK
    <3>3. held'[p] = Handed(p)
      BY <2>3 DEF ScanTake
    <3>4. p \in Nat /\ BlockOf(p) = b /\ p = b + 16
      BY <2>3, <3>0, <3>1, Addresses DEF IInv, BlockOf, Hdr
    <3>5. b \in blocks' /\ heap'[b].size >= call.want
      <4>1. PICK rest : rest = b + Hdr + call.want
        OBVIOUS
      <4>2. IF Splits(b) THEN SplitOff(b, rest) ELSE Marked(b, FALSE)
        BY <3>1, <4>1, AllocatedIs DEF IInv
      <4> QED BY <3>1, <3>2, <4>2 DEF SplitOff, Marked, Fits
    <3>6. EndOf(BlockOf(p))' >= p + call.want /\ EndOf(BlockOf(p))' <= HeapEnd
          /\ EndOf(BlockOf(p))' \in Nat
      <4>1. EndOf(b)' = b + 16 + heap'[b].size /\ heap'[b].size \in Nat /\ b \in Nat
        <5>1. heap'[b] \in Header
          BY <1>1, <3>5 DEF IInv, Shape, TypeOK
        <5> QED BY <3>1, <5>1, Addresses DEF IInv, EndOf, Hdr, Header
      <4>2. EndOf(b)' <= HeapEnd
        BY <1>1, <3>5 DEF IInv, Shape, Tiled
      <4>3. BlockOf(p)' = b
        BY <3>4 DEF BlockOf
      <4>4. EndOf(BlockOf(p))' = EndOf(b)'
        BY <4>3 DEF EndOf
      <4> QED BY <3>2, <3>4, <3>5, <4>1, <4>2, <4>4
    <3>7. CASE call.align = 0
      BY <3>1, <3>2, <3>3, <3>4, <3>6, <3>7 DEF Handed, Roomy
    <3>8. CASE call.align # 0
      <4>1. call.n + call.align + 4 <= call.want
        BY <3>1, <3>8 DEF Roomy
      <4>2. p + 4 + call.align <= Word
        BY <3>2, <3>4, <3>6, <4>1, HeapAssumption
      <4>3. p + 4 <= AlignUp(p + 4, call.align)
            /\ AlignUp(p + 4, call.align) <= p + 4 + call.align - 1
            /\ AlignUp(p + 4, call.align) \in Nat
        <5>1. p + 4 \in Nat /\ call.align \in Nat \ {0} /\ (p + 4) + call.align <= Word
          BY <3>2, <3>4, <3>8, <4>2
        <5> QED BY <5>1, AlignUpUp, AlignUpNat
      <4>4. held'[p].at = AlignUp(p + 4, call.align) /\ held'[p].n = call.n
        BY <3>3, <3>8 DEF Handed
      <4> QED BY <3>2, <3>4, <3>6, <4>1, <4>3, <4>4
    <3> QED BY <3>7, <3>8
  <2>4. CASE Call
    <3>1. ASSUME NEW q \in DOMAIN held, NEW n \in Requests, KreallocInPlace(q, n), p # q
          PROVE  p \in DOMAIN held /\ held'[p] = held[p]
      BY <3>1 DEF KreallocInPlace
    <3>2. ASSUME NEW q \in DOMAIN held, Kfree(q)
          PROVE  p \in DOMAIN held /\ held'[p] = held[p]
      BY <3>2 DEF Kfree, Release
    <3> QED BY <2>1, <2>2, <2>4, <3>1, <3>2
            DEF Call, Kmalloc, KmallocAligned, KreallocMove, Search
  <2>5. CASE Step
    <3>1. ASSUME ScanTake, p # cur + Hdr
          PROVE  p \in DOMAIN held /\ held'[p] = held[p]
      BY <3>1 DEF ScanTake
    <3>2. ASSUME KreallocFreeOld
          PROVE  p \in DOMAIN held /\ held'[p] = held[p]
      BY <3>2 DEF KreallocFreeOld, Release
    <3> QED BY <2>1, <2>3, <2>5, <3>1, <3>2
            DEF Step, ScanNext, ScanFail, MergeNext, MergeNextDone, MergePrev, MergePrevDone
  <2>6. CASE UNCHANGED vars
    BY <2>1, <2>6 DEF vars
  <2> QED BY <2>4, <2>5, <2>6 DEF Next
<1> QED BY <1>1, <1>2, <1>3 DEF IInv, Owned, BlockOf

(* A caller's bytes stay inside a block of its own, also the aligned ones. *)
THEOREM OwnedAlways == Spec => []Owned
<1>1. Init => IInv /\ Owned /\ Roomy
  BY InitIInv DEF Init, IInv, Owned, Roomy
<1>2. IInv /\ Owned /\ Roomy /\ [Next]_vars => (IInv /\ Owned /\ Roomy)'
  BY NextIInv, OwnedStep
<1> QED BY <1>1, <1>2, PTL DEF Spec

-----------------------------------------------------------------------------
(***************************************************************************)
(* The list of blocks implements the Allocator: a search is one request,   *)
(* granted or refused when it ends, and merging cannot be seen.            *)
(***************************************************************************)
grants == [p \in DOMAIN held |-> heap[BlockOf(p)].size]
asked == IF pc = "scan" THEN call.want ELSE 0
Wanted == pc = "scan" => call.want # 0

(* Steps between taking and releasing leave the grants as they are. *)
LEMMA GrantsKept ==
  ASSUME IInv, [Next]_vars, UNCHANGED held
  PROVE  grants' = grants
BY HeldKept DEF grants, BlockOf

(* Taking a block is a grant of the Allocator. *)
LEMMA RefinesGrant == ASSUME IInv, Wanted, ScanTake PROVE A!Grant
<1>0. PICK b : b = cur
  OBVIOUS
<1>1. b \in blocks /\ Fits(b) /\ heap' = Allocated(b) /\ pc = "scan" /\ pc' # "scan"
  BY <1>0 DEF IInv, Shape, TypeOK, ScanTake
<1>2. PICK rest : rest = b + Hdr + call.want
  OBVIOUS
<1>3. IF Splits(b) THEN SplitOff(b, rest) ELSE Marked(b, FALSE)
  BY <1>1, <1>2, AllocatedIs DEF IInv
<1>4. /\ result' = b + 16 /\ result' - 16 = b /\ b \in Nat
      /\ b + 16 + heap[b].size <= HeapEnd /\ heap[b].size \in Nat
      /\ call.want \in Nat /\ heap[b].free
  <2>1. result' = b + 16
    BY <1>0 DEF ScanTake, Hdr
  <2>2. b \in Nat /\ heap[b].size \in Nat /\ EndOf(b) = b + 16 + heap[b].size
    BY <1>1, Addresses DEF IInv
  <2>3. EndOf(b) <= HeapEnd
    BY <1>1 DEF IInv, Shape, Tiled
  <2>4. call.want \in Nat
    BY DEF IInv, Shape, TypeOK
  <2>5. heap[b].free
    BY <1>1 DEF Fits
  <2> QED BY <2>1, <2>2, <2>3, <2>4, <2>5
<1>5. PICK len : len = heap'[b].size
  OBVIOUS
<1>6. len \in call.want .. call.want + 32 /\ len <= heap[b].size
  BY <1>1, <1>3, <1>4, <1>5 DEF SplitOff, Marked, Splits, Fits, Hdr, MinRest
<1>7. b >= HeapStart /\ b + 16 + len <= HeapEnd
  BY <1>1, <1>4, <1>6, Addresses, HeapAssumption DEF IInv
<1>8. ASSUME NEW q \in DOMAIN held
      PROVE  /\ b + 16 + len <= q - 16 \/ q + heap[BlockOf(q)].size <= b
             /\ q # result'
  <2>1. BlockOf(q) \in blocks /\ ~heap[BlockOf(q)].free /\ q \in Nat /\ BlockOf(q) = q - 16
    BY DEF IInv, InUseIsHeld, Shape, TypeOK, BlockOf, Hdr
  <2>2. BlockOf(q) # b /\ EndOf(BlockOf(q)) = q + heap[BlockOf(q)].size
        /\ heap[BlockOf(q)].size \in Nat
    BY <1>4, <2>1, Addresses DEF IInv
  <2>3. b < BlockOf(q) => EndOf(b) <= BlockOf(q)
    BY <1>1, <2>1 DEF IInv, Shape, Tiled
  <2>4. BlockOf(q) < b => EndOf(BlockOf(q)) <= b
    BY <1>1, <2>1 DEF IInv, Shape, Tiled
  <2>5. EndOf(b) = b + 16 + heap[b].size
    BY <1>1, Addresses DEF IInv
  <2> QED BY <1>4, <1>6, <2>1, <2>2, <2>3, <2>4, <2>5
<1>9. /\ DOMAIN held' = DOMAIN held \cup {result'}
      /\ heap'[b].size = len
      /\ \A q \in DOMAIN held : heap'[BlockOf(q)].size = heap[BlockOf(q)].size
  <2>1. DOMAIN held' = DOMAIN held \cup {result'}
    BY DEF ScanTake
  <2>2. ScanTake => [Next]_vars
    BY DEF Next, Step
  <2> QED BY <1>5, <2>1, <2>2, HeldKept
<1>10. [p \in DOMAIN held |-> heap[BlockOf(p)].size]' =
         [q \in DOMAIN held \cup {result'} |->
            IF q = result' THEN len ELSE heap[BlockOf(q)].size]
  <2>1. BlockOf(result') = b
    BY <1>4 DEF BlockOf, Hdr
  <2>2. [p \in DOMAIN held |-> heap[BlockOf(p)].size]'
          = [p \in DOMAIN held' |-> heap'[BlockOf(p)].size]
    BY DEF BlockOf
  <2> QED BY <1>8, <1>9, <2>1, <2>2
<1>11. A!Vacant(result' - Hdr, result' + len)
  BY <1>4, <1>7, <1>8 DEF A!Vacant, Hdr
<1>12. /\ result' \in HeapStart .. HeapEnd
       /\ len \in call.want .. call.want + (Hdr + MinRest)
  BY <1>4, <1>6, <1>7, HeapAssumption DEF Hdr, MinRest
<1>13. call.want # 0
  BY <1>1 DEF Wanted
<1> QED BY <1>1, <1>8, <1>10, <1>11, <1>12, <1>13 DEF A!Grant

(* Giving up is a refusal: no gap between the blocks in use has room. *)
LEMMA RefinesRefuse == ASSUME IInv, Wanted, ScanFail PROVE A!Refuse
<1>1. /\ pc = "scan" /\ cur = NULL /\ pc' = "idle" /\ result' = 0
      /\ call.want \in Nat /\ call.want # 0
  BY DEF IInv, Shape, TypeOK, ScanFail, Wanted, NULL
<1>2. ASSUME NEW a \in HeapStart .. HeapEnd, A!Vacant(a, a + Hdr + call.want) PROVE FALSE
  <2>1. /\ a \in Nat /\ a + 16 + call.want <= HeapEnd /\ a < HeapEnd
        /\ \A q \in DOMAIN held :
             a + 16 + call.want <= q - 16 \/ q + heap[BlockOf(q)].size <= a
    BY <1>1, <1>2, HeapAssumption DEF A!Vacant, Hdr
  <2>2. PICK b \in blocks : b <= a /\ a < EndOf(b)
    BY <2>1, HeapAssumption DEF IInv, Shape, Tiled
  <2>3. ASSUME NEW c \in blocks, ~heap[c].free, c <= a + 16 + call.want - 1, a < EndOf(c)
        PROVE  FALSE
    <3>1. c + 16 \in DOMAIN held /\ BlockOf(c + 16) = c
      BY <2>3, Addresses DEF IInv, InUseIsHeld, BlockOf, Hdr
    <3>2. c \in Nat /\ heap[c].size \in Nat /\ EndOf(c) = c + 16 + heap[c].size
      BY Addresses DEF IInv
    <3>3. a + 16 + call.want <= c + 16 - 16 \/ c + 16 + heap[c].size <= a
      BY <2>1, <3>1, <3>2
    <3> QED BY <1>1, <2>1, <2>3, <3>2, <3>3
  <2>4. heap[b].free
    BY <1>1, <2>1, <2>2, <2>3, Addresses DEF IInv
  <2>5. heap[b].size < call.want
    BY <1>1, <2>4, Addresses DEF IInv, Searching, Fits, ScanFail
  <2>6. EndOf(b) < a + 16 + call.want /\ EndOf(b) # HeapEnd /\ EndOf(b) \in Nat
    BY <1>1, <2>1, <2>2, <2>5, Addresses, HeapAssumption DEF IInv
  <2>7. heap[b].next = EndOf(b) /\ EndOf(b) \in blocks
    BY <2>6 DEF IInv, Shape, Linked
  <2>8. ~heap[EndOf(b)].free
    BY <1>1, <2>4, <2>7, Addresses DEF IInv, Coalesced, FreeAt
  <2>9. a < EndOf(EndOf(b)) /\ EndOf(b) <= a + 16 + call.want - 1
    BY <1>1, <2>1, <2>2, <2>6, <2>7, Addresses DEF IInv
  <2> QED BY <2>3, <2>7, <2>8, <2>9
<1>3. ~A!Room
  BY <1>1, <1>2 DEF A!Room
<1>4. ScanFail => [Next]_vars /\ UNCHANGED held
  BY DEF ScanFail, Next, Step
<1>5. grants' = grants
  BY <1>4, GrantsKept
<1> QED BY <1>1, <1>3, <1>5 DEF A!Refuse, grants

(* Releasing a block is the Allocator taking back the extent. *)
LEMMA RefinesFree ==
  ASSUME IInv, pc \in {"idle", "copied"}, NEW p \in DOMAIN held, Release(p),
         result' \in {0, result}, [Next]_vars
  PROVE  A!Free
<1>1. /\ DOMAIN held' = DOMAIN held \ {p} /\ pc # "scan" /\ pc' # "scan"
  BY DEF Release
<1>2. \A q \in DOMAIN held' : heap'[BlockOf(q)].size = heap[BlockOf(q)].size
  BY <1>1, HeldKept
<1>3. grants' = [q \in DOMAIN held \ {p} |-> heap[BlockOf(q)].size]
  BY <1>1, <1>2 DEF grants, BlockOf
<1> QED BY <1>1, <1>3 DEF A!Free, grants

(* Every step of the heap is a step of the Allocator or a stutter. *)
LEMMA RefinesStep == ASSUME IInv, Wanted, [Next]_vars PROVE [A!AllocatorNext]_(A!avars)
<1> DEFINE Hidden == UNCHANGED <<grants, asked, result>>
<1>1. ASSUME Hidden PROVE [A!AllocatorNext]_(A!avars)
  BY <1>1 DEF A!avars, grants, asked
<1>2. ASSUME NEW size, NEW n, NEW align, NEW old, Search(size, n, align, old)
      PROVE  A!Ask
  <2>1. call' \in [want : Nat, n : Nat, align : Nat, old : Nat]
    BY NextIInv DEF IInv, Shape, TypeOK
  <2>2. pc' = "scan" /\ pc = "idle" /\ result' = 0 /\ UNCHANGED held
    BY <1>2 DEF Search, NULL
  <2>3. call'.want # 0
    <3>1. CASE Call
      BY <2>2, <3>1, CallRoomy
    <3>2. CASE Step
      BY <2>2, <3>2 DEF Step, ScanNext, ScanTake, ScanFail, KreallocFreeOld, MergeNext,
                        MergeNextDone, MergePrev, MergePrevDone
    <3>3. CASE UNCHANGED vars
      BY <2>2, <3>3 DEF vars
    <3> QED BY <3>1, <3>2, <3>3 DEF Next
  <2>4. grants' = grants
    BY <2>2, GrantsKept
  <2> QED BY <2>1, <2>2, <2>3, <2>4 DEF A!Ask, grants
<1>3. CASE Call
  <2>1. ASSUME NEW p \in DOMAIN held, Kfree(p) PROVE A!Free
    BY <2>1, RefinesFree DEF Kfree, NULL
  <2>2. ASSUME NEW p \in DOMAIN held, NEW n \in Requests, KreallocInPlace(p, n)
        PROVE  A!Keep
    <3>1. /\ pc = "idle" /\ pc' = "idle" /\ result' = p /\ DOMAIN held' = DOMAIN held
          /\ UNCHANGED heap
      BY <2>2 DEF KreallocInPlace
    <3>2. grants' = grants
      BY <3>1 DEF grants, BlockOf
    <3> QED BY <3>1, <3>2 DEF A!Keep, grants
  <2> QED BY <1>2, <1>3, <2>1, <2>2
          DEF Call, Kmalloc, KmallocAligned, KreallocMove, A!AllocatorNext
<1>4. CASE Step
  <2>1. CASE KreallocFreeOld
    BY <2>1, RefinesFree DEF KreallocFreeOld, IInv, Shape, TypeOK, A!AllocatorNext
  <2>2. CASE ScanNext \/ MergeNext \/ MergeNextDone \/ MergePrev \/ MergePrevDone
    <3>1. UNCHANGED held
      BY <2>2 DEF ScanNext, MergeNext, MergeNextDone, MergePrev, MergePrevDone
    <3>2. grants' = grants
      BY <3>1, GrantsKept
    <3>3. asked' = asked /\ result' = result
      BY <2>2 DEF ScanNext, MergeNext, MergeNextDone, MergePrev, MergePrevDone, asked
    <3> QED BY <1>1, <3>2, <3>3
  <2> QED BY <1>4, <2>1, <2>2, RefinesGrant, RefinesRefuse DEF Step, A!AllocatorNext
<1>5. CASE UNCHANGED vars
  <2>1. UNCHANGED held /\ asked' = asked /\ result' = result
    BY <1>5 DEF vars, asked
  <2>2. grants' = grants
    BY <2>1, GrantsKept
  <2> QED BY <1>1, <2>1, <2>2
<1> QED BY <1>3, <1>4, <1>5 DEF Next

(* A search is always for at least one byte. *)
LEMMA WantedStep == ASSUME IInv, Wanted, [Next]_vars PROVE Wanted'
<1>1. CASE ScanNext
  BY <1>1 DEF ScanNext, Wanted
<1>2. CASE UNCHANGED vars
  BY <1>2 DEF vars, Wanted
<1>3. CASE pc' # "scan"
  BY <1>3 DEF Wanted
<1> QED BY <1>1, <1>2, <1>3, CallRoomy
        DEF Wanted, Next, Step, ScanTake, ScanFail, KreallocFreeOld, Release, MergeNext,
            MergeNextDone, MergePrev, MergePrevDone

(* What callers see of kmalloc, kmalloc_aligned, krealloc and kfree is the *)
(* Allocator: disjoint extents, and no request refused that would fit.     *)
THEOREM Implements == Spec => ImplementsAllocator
<1>1. Init => IInv /\ Wanted
  BY InitIInv DEF Init, Wanted
<1>2. IInv /\ Wanted /\ [Next]_vars => (IInv /\ Wanted)'
  BY NextIInv, WantedStep
<1>3. Init => A!AllocatorInit
  BY DEF Init, A!AllocatorInit, NULL
<1>4. IInv /\ Wanted /\ [Next]_vars => [A!AllocatorNext]_(A!avars)
  BY RefinesStep
<1> QED BY <1>1, <1>2, <1>3, <1>4, PTL DEF Spec, ImplementsAllocator, A!AllocatorSpec

-----------------------------------------------------------------------------
(***************************************************************************)
(* heap_used.  A sum over blocks is that over all addresses up to the end  *)
(* of the arena, where an address that is not a block's weighs nothing:    *)
(* p[k] is the sum below address k.                                        *)
(***************************************************************************)
Weight(g, k) == IF k \in DOMAIN g THEN g[k] ELSE 0

Adds(p, g, n) ==
  /\ p \in [0 .. n -> Int] /\ p[0] = 0
  /\ \A k \in 0 .. n - 1 : p[k + 1] = p[k] + Weight(g, k)

InUse == {b \in blocks : ~heap[b].free}
SizesOf(s) == [b \in s |-> heap[b].size]

UsedAdded == \E p : Adds(p, SizesOf(InUse), HeapEnd) /\ heapUsed = p[HeapEnd]

LEMMA HeapInduction ==
  ASSUME NEW n \in Nat, NEW S, 0 \in S, \A k \in 0 .. n - 1 : k \in S => k + 1 \in S
  PROVE  0 .. n \subseteq S
<1> SUFFICES ASSUME (0 .. n) \ S # {} PROVE FALSE
  OBVIOUS
<1> DEFINE T == (0 .. n) \ S
<1>1. PICK x \in T : \A y \in T : ~(<<y, x>> \in OpToRel(<, Nat))
  <2>1. T \subseteq Nat /\ T # {}
    OBVIOUS
  <2> HIDE DEF T
  <2> QED BY <2>1, WFMin, NatLessThanWellFounded
<1>2. x # 0 /\ x \in Nat /\ x - 1 \in 0 .. n - 1 /\ (x - 1) + 1 = x
  OBVIOUS
<1>3. <<x - 1, x>> \in OpToRel(<, Nat)
  <2>1. <<x - 1, x>> \in Nat \X Nat /\ <<x - 1, x>>[1] < <<x - 1, x>>[2]
    BY <1>2
  <2> QED BY <2>1 DEF OpToRel
<1>4. x - 1 \notin T
  BY <1>1, <1>3
<1>5. x - 1 \in S
  BY <1>2, <1>4
<1> QED BY <1>2, <1>5

(* Every function of addresses has such sums, and only one ... *)
LEMMA AddsExists ==
  ASSUME NEW n \in Nat, NEW g, \A k \in DOMAIN g : g[k] \in Int
  PROVE  \E p : Adds(p, g, n)
<1> DEFINE Good == {m \in 0 .. n : \E p : Adds(p, g, m)}
<1>1. 0 \in Good
  <2> DEFINE p == [k \in 0 .. 0 |-> 0]
  <2>1. Adds(p, g, 0)
    BY DEF Adds
  <2> HIDE DEF p
  <2> QED BY <2>1
<1>2. ASSUME NEW m \in 0 .. n - 1, m \in Good PROVE m + 1 \in Good
  <2>1. PICK p : Adds(p, g, m)
    BY <1>2
  <2> DEFINE q == [k \in 0 .. m + 1 |-> IF k <= m THEN p[k] ELSE p[m] + Weight(g, m)]
  <2>2. m \in Nat /\ m + 1 \in 0 .. n /\ m \in 0 .. m
    OBVIOUS
  <2>3. Weight(g, m) \in Int
    BY DEF Weight
  <2>4. q \in [0 .. m + 1 -> Int] /\ q[0] = 0
    BY <2>1, <2>2, <2>3 DEF Adds
  <2>5. ASSUME NEW k \in 0 .. (m + 1) - 1 PROVE q[k + 1] = q[k] + Weight(g, k)
    <3>1. CASE k = m
      BY <2>2, <3>1
    <3>2. CASE k # m
      <4>1. k \in 0 .. m - 1 /\ k + 1 <= m /\ k <= m /\ k + 1 \in 0 .. m + 1
        BY <2>2, <3>2
      <4> QED BY <2>1, <4>1 DEF Adds
    <3> QED BY <3>1, <3>2
  <2> HIDE DEF q
  <2>6. Adds(q, g, m + 1)
    BY <2>4, <2>5 DEF Adds
  <2> QED BY <2>2, <2>6
<1> HIDE DEF Good
<1>3. 0 .. n \subseteq Good
  BY <1>1, <1>2, HeapInduction
<1> QED BY <1>3 DEF Good

LEMMA AddsSame ==
  ASSUME NEW n \in Nat, NEW g, NEW p, NEW q, Adds(p, g, n), Adds(q, g, n)
  PROVE  p[n] = q[n]
<1> DEFINE Same == {k \in 0 .. n : p[k] = q[k]}
<1>1. 0 \in Same
  BY DEF Adds
<1>2. ASSUME NEW k \in 0 .. n - 1, k \in Same PROVE k + 1 \in Same
  BY <1>2 DEF Adds
<1> HIDE DEF Same
<1>3. 0 .. n \subseteq Same
  BY <1>1, <1>2, HeapInduction
<1> QED BY <1>3 DEF Same

(* ... and those of a function that differs at one address differ by that. *)
LEMMA AddsChange ==
  ASSUME NEW n \in Nat, NEW g, NEW h, NEW p, Adds(p, g, n), NEW x \in 0 .. n - 1,
         Weight(h, x) \in Int, \A k \in 0 .. n - 1 : Weight(g, k) \in Int,
         \A k \in 0 .. n - 1 : k # x => Weight(h, k) = Weight(g, k)
  PROVE  \E q : Adds(q, h, n) /\ q[n] = p[n] + Weight(h, x) - Weight(g, x)
<1>1. PICK d \in Int : d = Weight(h, x) - Weight(g, x)
  OBVIOUS
<1> DEFINE q == [k \in 0 .. n |-> IF k <= x THEN p[k] ELSE p[k] + d]
<1>2. q \in [0 .. n -> Int] /\ q[0] = 0 /\ q[n] = p[n] + d
  BY DEF Adds
<1>3. ASSUME NEW k \in 0 .. n - 1 PROVE q[k + 1] = q[k] + Weight(h, k)
  <2>1. p[k + 1] = p[k] + Weight(g, k) /\ p[k] \in Int /\ p[k + 1] \in Int
    BY DEF Adds
  <2>2. k \in 0 .. n /\ k + 1 \in 0 .. n
    OBVIOUS
  <2>3. CASE k = x
    <3>1. q[k] = p[k] /\ q[k + 1] = p[k + 1] + d
      BY <2>2, <2>3
    <3> QED BY <1>1, <2>1, <2>3, <3>1
  <2>4. CASE k # x
    <3>1. Weight(h, k) = Weight(g, k)
      BY <2>4
    <3>2. PICK w \in Int : w = Weight(g, k)
      OBVIOUS
    <3>4. CASE k < x
      <4>1. q[k] = p[k] /\ q[k + 1] = p[k + 1]
        BY <2>2, <3>4
      <4> QED BY <2>1, <3>1, <3>2, <4>1
    <3>5. CASE k > x
      <4>1. q[k] = p[k] + d /\ q[k + 1] = p[k + 1] + d
        BY <2>2, <3>5
      <4>2. p[k + 1] + d = (p[k] + d) + w
        BY <2>1, <3>2
      <4> QED BY <3>1, <3>2, <4>1, <4>2
    <3> QED BY <2>4, <3>4, <3>5
  <2> QED BY <2>3, <2>4
<1> HIDE DEF q
<1>4. Adds(q, h, n)
  BY <1>2, <1>3 DEF Adds
<1> QED BY <1>1, <1>2, <1>4

(* MapThenSumSet of a set of blocks is such a sum. *)
LEMMA SumIs ==
  ASSUME Shape, NEW U \in SUBSET blocks, NEW p, Adds(p, SizesOf(U), HeapEnd)
  PROVE  MapThenSumSet(LAMBDA b : heap[b].size, U) = p[HeapEnd]
<1> DEFINE Pick(s) == CHOOSE x \in s : TRUE
           Val(s) == CHOOSE v \in Int : \E q : Adds(q, SizesOf(s), HeapEnd) /\ v = q[HeapEnd]
           Turn(it, s) == IF s = {} THEN 0 ELSE heap[Pick(s)].size + it[s \ {Pick(s)}]
           it == CHOOSE it : it = [s \in SUBSET U |-> Turn(it, s)]
<1>1. HeapEnd \in Nat /\ \A b \in blocks : b \in 0 .. HeapEnd - 1 /\ heap[b].size \in Nat
  BY HeapAssumption DEF Shape, TypeOK, Header
<1>2. ASSUME NEW s \in SUBSET U
      PROVE  Val(s) \in Int /\ \E q : Adds(q, SizesOf(s), HeapEnd) /\ Val(s) = q[HeapEnd]
  <2>1. PICK q : Adds(q, SizesOf(s), HeapEnd)
    <3>1. \A k \in DOMAIN SizesOf(s) : SizesOf(s)[k] \in Int
      BY <1>1 DEF SizesOf
    <3> QED BY <1>1, <3>1, AddsExists
  <2>2. q[HeapEnd] \in Int
    BY <1>1, <2>1 DEF Adds
  <2> QED BY <2>1, <2>2
<1> HIDE DEF Val
<1>3. Val({}) = 0
  <2>1. PICK q : Adds(q, SizesOf({}), HeapEnd) /\ Val({}) = q[HeapEnd]
    BY <1>2
  <2> DEFINE z == [k \in 0 .. HeapEnd |-> 0]
  <2>2. \A k : Weight(SizesOf({}), k) = 0
    BY DEF SizesOf, Weight
  <2>3. Adds(z, SizesOf({}), HeapEnd)
    BY <1>1, <2>2 DEF Adds
  <2>4. z[HeapEnd] = 0
    BY <1>1
  <2> HIDE DEF z
  <2>5. q[HeapEnd] = z[HeapEnd]
    BY <1>1, <2>1, <2>3, AddsSame
  <2> QED BY <2>1, <2>4, <2>5
<1>4. ASSUME NEW s \in SUBSET U, NEW x \in s
      PROVE  Val(s) = heap[x].size + Val(s \ {x})
  <2>1. PICK q : Adds(q, SizesOf(s), HeapEnd) /\ Val(s) = q[HeapEnd]
    BY <1>2
  <2>2. PICK r : Adds(r, SizesOf(s \ {x}), HeapEnd) /\ Val(s \ {x}) = r[HeapEnd]
    <3>1. s \ {x} \in SUBSET U
      OBVIOUS
    <3> QED BY <1>2, <3>1
  <2>3. /\ Weight(SizesOf(s), x) = heap[x].size /\ Weight(SizesOf(s \ {x}), x) = 0
        /\ \A k : k # x => Weight(SizesOf(s), k) = Weight(SizesOf(s \ {x}), k)
        /\ \A k : Weight(SizesOf(s \ {x}), k) \in Int
    BY <1>1 DEF Weight, SizesOf
  <2>4. x \in 0 .. HeapEnd - 1 /\ heap[x].size \in Int
    BY <1>1
  <2>5. PICK q2 : /\ Adds(q2, SizesOf(s), HeapEnd)
                  /\ q2[HeapEnd] = r[HeapEnd] + Weight(SizesOf(s), x) - Weight(SizesOf(s \ {x}), x)
    <3>1. PICK g, h : g = SizesOf(s \ {x}) /\ h = SizesOf(s)
      OBVIOUS
    <3>2. /\ Adds(r, g, HeapEnd) /\ Weight(h, x) \in Int
          /\ \A k \in 0 .. HeapEnd - 1 : Weight(g, k) \in Int
          /\ \A k \in 0 .. HeapEnd - 1 : k # x => Weight(h, k) = Weight(g, k)
      BY <2>2, <2>3, <2>4, <3>1
    <3>3. \E q2 : Adds(q2, h, HeapEnd) /\ q2[HeapEnd] = r[HeapEnd] + Weight(h, x) - Weight(g, x)
      BY <1>1, <2>4, <3>2, AddsChange
    <3> QED BY <3>1, <3>3
  <2>6. q[HeapEnd] = q2[HeapEnd]
    BY <1>1, <2>1, <2>5, AddsSame
  <2>7. r[HeapEnd] \in Int
    BY <1>1, <2>2 DEF Adds
  <2> QED BY <2>1, <2>2, <2>3, <2>4, <2>5, <2>6, <2>7
<1>5. it = [s \in SUBSET U |-> Turn(it, s)]
  <2> DEFINE w == [s \in SUBSET U |-> Val(s)]
  <2>1. ASSUME NEW s \in SUBSET U PROVE Val(s) = Turn(w, s)
    <3>1. CASE s = {}
      BY <1>3, <3>1
    <3>2. CASE s # {}
      <4>1. Pick(s) \in s /\ s \ {Pick(s)} \in SUBSET U
        BY <3>2
      <4> HIDE DEF Pick
      <4>2. w[s \ {Pick(s)}] = Val(s \ {Pick(s)})
        BY <4>1
      <4>3. Val(s) = heap[Pick(s)].size + Val(s \ {Pick(s)})
        BY <1>4, <4>1
      <4> QED BY <3>2, <4>2, <4>3
    <3> QED BY <3>1, <3>2
  <2>2. w = [s \in SUBSET U |-> Turn(w, s)]
    BY <2>1
  <2> HIDE DEF w, Turn
  <2> QED BY <2>2
<1>6. MapThenSumSet(LAMBDA b : heap[b].size, U) = it[U]
  BY DEF MapThenSumSet, MapThenFoldSet
<1> HIDE DEF it
<1>7. ASSUME NEW s \in SUBSET U PROVE it[s] = Turn(it, s)
  BY <1>5
<1>8. IsFiniteSet(U)
  <2>1. 0 \in Int /\ HeapEnd - 1 \in Int
    BY <1>1
  <2>2. U \subseteq 0 .. HeapEnd - 1
    BY <1>1
  <2> QED BY <2>1, <2>2, FS_Interval, FS_Subset
<1>9. PICK n \in Nat : n = Cardinality(U)
  BY <1>8, FS_CardinalityType
<1> DEFINE Good == {k \in 0 .. n : \A s \in SUBSET U : Cardinality(s) = k => it[s] = Val(s)}
<1>10. 0 \in Good
  <2> SUFFICES ASSUME NEW s \in SUBSET U, Cardinality(s) = 0 PROVE it[s] = Val(s)
    OBVIOUS
  <2>1. s = {}
    BY <1>8, FS_Subset, FS_EmptySet
  <2> QED BY <1>3, <1>7, <2>1
<1>11. ASSUME NEW k \in 0 .. n - 1, k \in Good PROVE k + 1 \in Good
  <2> SUFFICES ASSUME NEW s \in SUBSET U, Cardinality(s) = k + 1 PROVE it[s] = Val(s)
    BY <1>9
  <2>1. IsFiniteSet(s) /\ s # {}
    BY <1>8, FS_Subset, FS_EmptySet
  <2>2. Pick(s) \in s /\ s \ {Pick(s)} \in SUBSET U
    BY <2>1
  <2> HIDE DEF Pick
  <2>3. Cardinality(s \ {Pick(s)}) = k
    <3>1. Cardinality(s \ {Pick(s)}) = Cardinality(s) - 1
      BY <2>1, <2>2, FS_RemoveElement
    <3> QED BY <3>1
  <2>4. it[s \ {Pick(s)}] = Val(s \ {Pick(s)})
    BY <1>11, <2>2, <2>3
  <2>5. Val(s) = heap[Pick(s)].size + Val(s \ {Pick(s)})
    BY <1>4, <2>2
  <2> QED BY <1>7, <2>1, <2>4, <2>5
<1>12. 0 .. n \subseteq Good
  <2> HIDE DEF Good
  <2> QED BY <1>10, <1>11, HeapInduction
<1>13. it[U] = Val(U)
  <2>1. n \in Good
    BY <1>12
  <2> QED BY <1>9, <2>1
<1>14. Val(U) = p[HeapEnd]
  <2>1. PICK q : Adds(q, SizesOf(U), HeapEnd) /\ Val(U) = q[HeapEnd]
    BY <1>2
  <2> QED BY <1>1, <2>1, AddsSame
<1> QED BY <1>6, <1>13, <1>14

(* What a step does to the weights decides what it must do to heap_used.   *)
LEMMA UsedChange ==
  ASSUME IInv, UsedAdded, blocks' \subseteq 0 .. HeapEnd - 1, NEW b \in 0 .. HeapEnd - 1,
         Weight(SizesOf(InUse)', b) \in Int,
         \A k : k # b => Weight(SizesOf(InUse)', k) = Weight(SizesOf(InUse), k),
         heapUsed' = heapUsed + Weight(SizesOf(InUse)', b) - Weight(SizesOf(InUse), b)
  PROVE  UsedAdded'
<1>1. PICK p : Adds(p, SizesOf(InUse), HeapEnd) /\ heapUsed = p[HeapEnd]
  BY DEF UsedAdded
<1>2. PICK g, h : g = SizesOf(InUse) /\ h = SizesOf(InUse)'
  OBVIOUS
<1>3. HeapEnd \in Nat
  BY HeapAssumption
<1>4. \A k : Weight(g, k) \in Int
  <2>1. \A k \in InUse : heap[k].size \in Int
    BY DEF IInv, Shape, TypeOK, Header, InUse
  <2> QED BY <1>2, <2>1 DEF Weight, SizesOf
<1>5. \E q : Adds(q, h, HeapEnd) /\ q[HeapEnd] = p[HeapEnd] + Weight(h, b) - Weight(g, b)
  <2>1. /\ Adds(p, g, HeapEnd) /\ Weight(h, b) \in Int
        /\ \A k \in 0 .. HeapEnd - 1 : Weight(g, k) \in Int
        /\ \A k \in 0 .. HeapEnd - 1 : k # b => Weight(h, k) = Weight(g, k)
    BY <1>1, <1>2, <1>4
  <2> QED BY <1>3, <2>1, AddsChange, ZenonT(30)
<1>6. PICK q : Adds(q, h, HeapEnd) /\ q[HeapEnd] = p[HeapEnd] + Weight(h, b) - Weight(g, b)
  BY <1>5
<1>7. heapUsed' = q[HeapEnd]
  BY <1>1, <1>2, <1>6
<1> QED BY <1>2, <1>6, <1>7 DEF UsedAdded

(* Changes of free blocks are none of the sum. *)
LEMMA UsedSame ==
  ASSUME UsedAdded, heapUsed' = heapUsed, InUse' = InUse,
         \A b \in InUse : heap'[b].size = heap[b].size
  PROVE  UsedAdded'
<1>1. SizesOf(InUse)' = SizesOf(InUse)
  BY DEF SizesOf
<1> QED BY <1>1 DEF UsedAdded

LEMMA TakeAdded == ASSUME IInv, UsedAdded, ScanTake PROVE UsedAdded'
<1>0. PICK rest : rest = cur + Hdr + call.want
  OBVIOUS
<1>1. cur \in blocks /\ Fits(cur) /\ heap' = Allocated(cur) /\ heap[cur].free
  BY DEF IInv, Shape, TypeOK, ScanTake, Fits
<1>2. IF Splits(cur) THEN SplitOff(cur, rest) ELSE Marked(cur, FALSE)
  BY <1>0, <1>1, AllocatedIs DEF IInv
<1>3. /\ InUse' = InUse \cup {cur} /\ cur \notin InUse
      /\ \A b \in InUse : heap'[b].size = heap[b].size
  BY <1>1, <1>2 DEF InUse, SplitOff, Marked
<1>4. heap' \in [blocks' -> Header] /\ blocks' \subseteq HeapStart .. HeapEnd - 1 /\ cur \in blocks'
  BY <1>1, <1>2, AllocatedType DEF IInv, SplitOff, Marked
<1>5. cur \in 0 .. HeapEnd - 1 /\ blocks' \subseteq 0 .. HeapEnd - 1 /\ heap'[cur].size \in Int
  BY <1>1, <1>4, HeapAssumption DEF IInv, Shape, TypeOK, Header
<1>6. /\ Weight(SizesOf(InUse)', cur) = heap'[cur].size /\ Weight(SizesOf(InUse), cur) = 0
      /\ \A k : k # cur => Weight(SizesOf(InUse)', k) = Weight(SizesOf(InUse), k)
  BY <1>3 DEF SizesOf, Weight
<1>7. heapUsed' = heapUsed + Weight(SizesOf(InUse)', cur) - Weight(SizesOf(InUse), cur)
  BY <1>5, <1>6 DEF ScanTake, IInv, Shape, TypeOK
<1> QED BY <1>5, <1>6, <1>7, UsedChange

LEMMA ReleaseAdded ==
  ASSUME IInv, UsedAdded, NEW p \in DOMAIN held, Release(p)
  PROVE  UsedAdded'
<1> DEFINE b == BlockOf(p)
<1>1. b \in blocks /\ ~heap[b].free
  <2>1. p \in Nat /\ b + Hdr = p /\ b \in blocks
    BY Addresses DEF IInv, InUseIsHeld, Shape, TypeOK, BlockOf, Hdr
  <2> QED BY <2>1 DEF IInv, InUseIsHeld
<1> HIDE DEF b
<1>2. heap' = [heap EXCEPT ![b].free = TRUE] /\ heapUsed' = heapUsed - heap[b].size
  BY DEF Release, b
<1>3. heap \in [blocks -> Header]
  BY DEF IInv, Shape, TypeOK
<1>4. /\ blocks' = blocks /\ InUse' = InUse \ {b} /\ b \in InUse
      /\ \A a \in blocks : heap'[a].size = heap[a].size
  <2>1. blocks' = blocks
    BY <1>2, <1>3 DEF blocks
  <2>2. heap'[b].free /\ \A a \in blocks :
          heap'[a].size = heap[a].size /\ (a # b => heap'[a].free = heap[a].free)
    BY <1>1, <1>2, <1>3 DEF Header
  <2> QED BY <1>1, <2>1, <2>2 DEF InUse
<1>5. b \in 0 .. HeapEnd - 1 /\ blocks' \subseteq 0 .. HeapEnd - 1 /\ heap[b].size \in Int
  BY <1>1, <1>4, HeapAssumption DEF IInv, Shape, TypeOK, Header
<1>6. /\ Weight(SizesOf(InUse)', b) = 0 /\ Weight(SizesOf(InUse), b) = heap[b].size
      /\ \A k : k # b => Weight(SizesOf(InUse)', k) = Weight(SizesOf(InUse), k)
  BY <1>4 DEF SizesOf, Weight, InUse
<1>7. heapUsed' = heapUsed + Weight(SizesOf(InUse)', b) - Weight(SizesOf(InUse), b)
  BY <1>2, <1>5, <1>6 DEF IInv, Shape, TypeOK
<1>8. Weight(SizesOf(InUse)', b) \in Int
  BY <1>6
<1> QED BY <1>5, <1>6, <1>7, <1>8, UsedChange

(* A merge is of two free blocks. *)
LEMMA JoinAdded ==
  ASSUME UsedAdded, NEW b \in blocks, NEW c \in blocks, heap[b].free, heap[c].free,
         Joined(b, c), heapUsed' = heapUsed
  PROVE  UsedAdded'
<1>1. InUse' = InUse /\ \A a \in InUse : heap'[a].size = heap[a].size
  BY DEF InUse, Joined
<1> QED BY <1>1, UsedSame

LEMMA AddedStep == ASSUME IInv, UsedAdded, [Next]_vars PROVE UsedAdded'
<1>1. CASE UNCHANGED <<heap, heapUsed>>
  BY <1>1, UsedSame DEF InUse, blocks
<1>2. CASE ScanTake
  BY <1>2, TakeAdded
<1>3. ASSUME NEW p \in DOMAIN held, Kfree(p) PROVE UsedAdded'
  BY <1>3, ReleaseAdded DEF Kfree
<1>4. CASE KreallocFreeOld
  BY <1>4, ReleaseAdded DEF KreallocFreeOld, IInv, Shape, TypeOK
<1>5. CASE MergeNext
  <2>1. cur \in blocks /\ heap[cur].free /\ FreeAt(heap[cur].next)
    BY <1>5 DEF IInv, Shape, TypeOK, Merging, MergeNext
  <2>2. heap[cur].next \in blocks /\ heap[heap[cur].next].free
    BY <2>1, NextIs DEF IInv, FreeAt
  <2>3. Joined(cur, heap[cur].next)
    BY <1>5, <2>1, JoinStep DEF MergeNext, FreeAt
  <2> QED BY <1>5, <2>1, <2>2, <2>3, JoinAdded DEF MergeNext
<1>6. CASE MergePrev
  <2>1. cur \in blocks /\ heap[cur].free /\ FreeAt(heap[cur].prev)
    BY <1>6 DEF IInv, Shape, TypeOK, Merging, MergePrev
  <2>2. heap[cur].prev \in blocks /\ heap[heap[cur].prev].next = cur /\ cur # NULL
    <3>1. cur # HeapStart
      BY <2>1 DEF IInv, Shape, Linked, FreeAt
    <3> QED BY <2>1, <3>1, PrevIs, Addresses DEF IInv
  <2>3. Joined(heap[cur].prev, cur)
    BY <1>6, <2>1, <2>2, JoinStep DEF MergePrev, FreeAt
  <2> QED BY <1>6, <2>1, <2>2, <2>3, JoinAdded DEF MergePrev, FreeAt
<1>7. ASSUME NEW size, NEW n, NEW align, NEW old, Search(size, n, align, old)
      PROVE  UNCHANGED <<heap, heapUsed>>
  BY <1>7 DEF Search
<1> QED
  BY <1>1, <1>2, <1>3, <1>4, <1>5, <1>6, <1>7
  DEF Next, Call, Step, Kmalloc, KmallocAligned, KreallocInPlace, KreallocMove, ScanNext,
      ScanFail, MergeNextDone, MergePrevDone, vars

(* heap_get_used is the sum of the blocks in use, between any two steps of *)
(* any calls.                                                              *)
THEOREM AccountedAlways == Spec => []Accounted
<1>1. Init => IInv /\ UsedAdded
  <2> SUFFICES ASSUME Init PROVE UsedAdded
    BY InitIInv
  <2> DEFINE p == [k \in 0 .. HeapEnd |-> 0]
  <2>1. InUse = {}
    BY DEF Init, InUse, blocks
  <2>2. \A k : Weight(SizesOf(InUse), k) = 0
    BY <2>1 DEF Weight, SizesOf
  <2>3. Adds(p, SizesOf(InUse), HeapEnd) /\ heapUsed = p[HeapEnd]
    BY <2>2, HeapAssumption DEF Adds, Init
  <2> HIDE DEF p
  <2> QED BY <2>3 DEF UsedAdded
<1>2. IInv /\ UsedAdded /\ [Next]_vars => (IInv /\ UsedAdded)'
  BY NextIInv, AddedStep
<1>3. IInv /\ UsedAdded => Accounted
  <2> SUFFICES ASSUME IInv, UsedAdded PROVE Accounted
    OBVIOUS
  <2>1. PICK p : Adds(p, SizesOf(InUse), HeapEnd) /\ heapUsed = p[HeapEnd]
    BY DEF UsedAdded
  <2>2. InUse \in SUBSET blocks
    BY DEF InUse
  <2>3. MapThenSumSet(LAMBDA b : heap[b].size, InUse) = p[HeapEnd]
    BY <2>1, <2>2, SumIs DEF IInv
  <2> QED BY <2>1, <2>3 DEF Accounted, InUse
<1> QED BY <1>1, <1>2, <1>3, PTL DEF Spec
=============================================================================
