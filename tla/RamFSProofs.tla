------------------------------ MODULE RamFSProofs ------------------------------
(***************************************************************************)
(* Proofs that the calls of fs/fs.c keep the tree of inodes, the blocks    *)
(* and the contents of files sound, for every size of the pools.           *)
(***************************************************************************)
EXTENDS RamFS, FiniteSetTheorems, SequenceTheorems, WellFoundedInduction, TLAPS

-----------------------------------------------------------------------------
(* Numbers.                                                                *)
LEMMA LeastExists ==
  ASSUME NEW T, T \subseteq Nat, T # {}
  PROVE  Min(T) \in T /\ \A y \in T : Min(T) <= y
<1>1. PICK x \in T : \A y \in T : ~(<<y, x>> \in OpToRel(<, Nat))
  BY WFMin, NatLessThanWellFounded
<1>2. ASSUME NEW y \in T PROVE x <= y
  <2>1. x \in Nat /\ y \in Nat OBVIOUS
  <2>2. y < x => <<y, x>> \in OpToRel(<, Nat)
    <3>1. <<y, x>> \in Nat \X Nat /\ <<y, x>>[1] = y /\ <<y, x>>[2] = x BY <2>1
    <3> QED BY <3>1 DEF OpToRel
  <2>3. ~(<<y, x>> \in OpToRel(<, Nat)) BY <1>1
  <2>4. ~(y < x) BY <2>2, <2>3
  <2> QED BY <2>1, <2>4
<1> QED BY <1>2 DEF Min

LEMMA GreatestExists ==
  ASSUME NEW n \in Nat, NEW T, T \subseteq 0 .. n, T # {}
  PROVE  Max(T) \in T /\ \A y \in T : Max(T) >= y
<1> DEFINE R == {k \in Nat : \A y \in T : y <= k}
<1>1. R \subseteq Nat /\ n \in R OBVIOUS
<1>2. Min(R) \in R /\ \A k \in R : Min(R) <= k BY <1>1, LeastExists
<1>3. PICK x \in Nat : x \in R /\ \A k \in R : x <= k BY <1>2
<1>4. x \in T
  <2> SUFFICES ASSUME x \notin T PROVE FALSE OBVIOUS
  <2>1. PICK y : y \in T OBVIOUS
  <2>2. x # 0 /\ x - 1 \in Nat BY <1>3, <2>1
  <2>3. x - 1 \in R BY <1>3, <2>2
  <2> QED BY <1>3, <2>2, <2>3
<1>5. \A y \in T : x >= y BY <1>3
<1> QED BY <1>4, <1>5 DEF Max

LEMMA Division ==
  ASSUME NEW a \in Nat, NEW m \in Nat, m > 0
  PROVE  a \div m \in Nat /\ a % m \in 0 .. m - 1 /\ a = m * (a \div m) + (a % m)
OBVIOUS

(* Induction, over sets of numbers.                                        *)
LEMMA Induction ==
  ASSUME NEW S, 0 \in S, \A k \in Nat : k \in S => k + 1 \in S
  PROVE  Nat \subseteq S
<1> SUFFICES ASSUME Nat \ S # {} PROVE FALSE OBVIOUS
<1>1. PICK x \in Nat \ S : \A y \in Nat \ S : x <= y BY LeastExists
<1>2. x # 0 /\ x - 1 \in Nat BY <1>1
<1>3. x - 1 \in S BY <1>1, <1>2
<1> QED BY <1>1, <1>2, <1>3

LEMMA BoundedInduction ==
  ASSUME NEW n \in Nat, NEW S, 0 \in S, \A k \in 0 .. n - 1 : k \in S => k + 1 \in S
  PROVE  0 .. n \subseteq S
<1> DEFINE R == S \cup {k \in Nat : k > n}
<1>1. 0 \in R /\ \A k \in Nat : k \in R => k + 1 \in R OBVIOUS
<1> HIDE DEF R
<1>2. Nat \subseteq R BY <1>1, Induction
<1> QED BY <1>2 DEF R

-----------------------------------------------------------------------------
(* The folds over sequences of n elements: the function that they are      *)
(* defined by exists, for each step G that stays inside V.                 *)
FoldsBy(it, n, base, G) ==
  \A s \in SUBSET (1 .. n) :
    it[s] = IF s = {} THEN base ELSE G[<<it[s \ {Max(s)}], Max(s)>>]

LEMMA FoldExists ==
  ASSUME NEW n \in Nat, NEW V, NEW base \in V, NEW G \in [V \X (1 .. n) -> V]
  PROVE  \E it \in [SUBSET (1 .. n) -> V] : FoldsBy(it, n, base, G)
<1> DEFINE Step(it, m) == \A s \in SUBSET (1 .. m) :
             it[s] = IF s = {} THEN base ELSE G[<<it[s \ {Max(s)}], Max(s)>>]
           Good == {m \in 0 .. n : \E it \in [SUBSET (1 .. m) -> V] : Step(it, m)}
<1>1. 0 \in Good
  <2> DEFINE it == [s \in SUBSET (1 .. 0) |-> base]
  <2>1. it \in [SUBSET (1 .. 0) -> V] OBVIOUS
  <2>2. \A s \in SUBSET (1 .. 0) : s = {} OBVIOUS
  <2>3. Step(it, 0) BY <2>2
  <2> HIDE DEF Step
  <2> QED BY <2>1, <2>3
<1>2. ASSUME NEW m \in 0 .. n - 1, m \in Good PROVE m + 1 \in Good
  <2> HIDE DEF Step
  <2>1. PICK it \in [SUBSET (1 .. m) -> V] : Step(it, m) BY <1>2
  <2> USE DEF Step
  <2> DEFINE h == [s \in SUBSET (1 .. m + 1) |->
                     IF s \subseteq 1 .. m THEN it[s] ELSE G[<<it[s \ {m + 1}], m + 1>>]]
  <2>2. m \in Nat /\ m + 1 \in 1 .. n OBVIOUS
  <2>3. h \in [SUBSET (1 .. m + 1) -> V]
    <3>1. ASSUME NEW s \in SUBSET (1 .. m + 1) PROVE h[s] \in V
      <4>1. CASE s \subseteq 1 .. m BY <2>1, <4>1
      <4>2. CASE ~(s \subseteq 1 .. m)
        <5>1. it[s \ {m + 1}] \in V
          <6>1. s \ {m + 1} \in SUBSET (1 .. m) BY <2>2
          <6> QED BY <2>1, <6>1
        <5>2. <<it[s \ {m + 1}], m + 1>> \in V \X (1 .. n) BY <2>2, <5>1
        <5> QED BY <4>2, <5>2
      <4> QED BY <4>1, <4>2
    <3> QED BY <3>1
  <2>4. ASSUME NEW s \in SUBSET (1 .. m + 1)
        PROVE  h[s] = IF s = {} THEN base ELSE G[<<h[s \ {Max(s)}], Max(s)>>]
    <3>1. CASE s = {} BY <2>1, <3>1
    <3>2. CASE s # {} /\ s \subseteq 1 .. m
      <4>1. s \subseteq 0 .. m BY <3>2
      <4>2. Max(s) \in s BY <2>2, <3>2, <4>1, GreatestExists
      <4>3. s \ {Max(s)} \in SUBSET (1 .. m) /\ s \ {Max(s)} \in SUBSET (1 .. m + 1) BY <3>2
      <4>4. h[s] = it[s] /\ h[s \ {Max(s)}] = it[s \ {Max(s)}] BY <3>2, <4>3
      <4> QED BY <2>1, <3>2, <4>4
    <3>3. CASE ~(s \subseteq 1 .. m)
      <4>1. m + 1 \in s BY <2>2, <3>3
      <4>2. s \subseteq 0 .. m + 1 /\ m + 1 \in Nat /\ s # {} BY <2>2, <4>1
      <4>3. Max(s) \in s /\ \A y \in s : Max(s) >= y
        <5> HIDE DEF h
        <5> QED BY <4>2, GreatestExists
      <4>4. Max(s) = m + 1
        <5>1. Max(s) \in 1 .. m + 1 /\ Max(s) >= m + 1 BY <4>1, <4>3
        <5> QED BY <2>2, <5>1
      <4>5. s \ {m + 1} \in SUBSET (1 .. m) BY <2>2
      <4>6. h[s \ {m + 1}] = it[s \ {m + 1}] BY <4>5
      <4>7. h[s] = G[<<it[s \ {m + 1}], m + 1>>] /\ s # {} BY <3>3, <4>1
      <4> QED BY <4>4, <4>6, <4>7
    <3> QED BY <3>1, <3>2, <3>3
  <2>5. Step(h, m + 1) BY <2>4
  <2> HIDE DEF Step, h
  <2> QED BY <2>2, <2>3, <2>5
<1> HIDE DEF Good
<1>3. 0 .. n \subseteq Good BY <1>1, <1>2, BoundedInduction
<1>4. n \in Good BY <1>3
<1> QED BY <1>4 DEF Good, FoldsBy

-----------------------------------------------------------------------------
(* Looking up: the inodes that a path comes by.                            *)
Places == Inodes \cup {NULL}

Walks(w, begin, path) ==
  /\ w \in [0 .. Len(path) -> Places]
  /\ w[0] = begin
  /\ \A k \in 1 .. Len(path) : w[k] = Lookup(w[k - 1], path[k])

LEMMA Sizes ==
  /\ MaxFiles \in Nat /\ MaxOpen \in Nat /\ MaxBlocks \in Nat /\ BlockSize \in Nat
  /\ Direct \in Nat /\ Word \in Nat
  /\ MaxFiles >= 3 /\ MaxOpen > 0 /\ MaxBlocks > 0 /\ BlockSize > 0 /\ Direct > 0
  /\ Word > MaxOpen + 1
BY RamFSAssumption

(* The first child of the name, if there is one. *)
LEMMA FindChildIs ==
  ASSUME TypeOK, NEW d \in Inodes, NEW name
  PROVE  \/ /\ FindChild(d, name) = NULL
            /\ inode[d].type = "dir" =>
                 \A k \in DOMAIN inode[d].children : inode[inode[d].children[k]].name # name
         \/ \E k \in DOMAIN inode[d].children :
              /\ FindChild(d, name) = inode[d].children[k]
              /\ inode[inode[d].children[k]].name = name
<1> DEFINE hits == {k \in DOMAIN inode[d].children : inode[inode[d].children[k]].name = name}
<1>1. inode[d].children \in Seq(Inodes) BY DEF TypeOK
<1>2. DOMAIN inode[d].children \subseteq Nat BY <1>1
<1>3. FindChild(d, name) = IF d = NULL \/ inode[d].type # "dir" \/ hits = {} THEN NULL
                           ELSE inode[d].children[Min(hits)]
  BY DEF FindChild
<1>4. d # NULL BY Sizes DEF Inodes, NULL
<1>5. CASE hits = {} BY <1>3, <1>5
<1>6. CASE hits # {}
  <2>1. hits \subseteq Nat BY <1>2
  <2> HIDE DEF hits
  <2>2. Min(hits) \in hits BY <1>6, <2>1, LeastExists
  <2> USE DEF hits
  <2>3. PICK k \in hits : k = Min(hits) BY <2>2
  <2> QED BY <1>3, <1>4, <2>3
<1> QED BY <1>5, <1>6

LEMMA LookupType ==
  ASSUME TypeOK, NEW d \in Places, NEW component
  PROVE  Lookup(d, component) \in Places
<1>1. CASE d = NULL BY <1>1 DEF Lookup, Places
<1>2. CASE d # NULL
  <2>1. d \in Inodes BY <1>2 DEF Places
  <2>2. inode[d].parent \in Places BY <2>1 DEF TypeOK, Places
  <2>3. FindChild(d, component) \in Places
    <3>1. inode[d].children \in Seq(Inodes) BY <2>1 DEF TypeOK
    <3>2. \A k \in DOMAIN inode[d].children : inode[d].children[k] \in Inodes BY <3>1
    <3> QED BY <2>1, <3>2, FindChildIs DEF Places
  <2> QED BY <1>2, <2>1, <2>2, <2>3 DEF Lookup, Places
<1> QED BY <1>1, <1>2

LEMMA ResolveWalks ==
  ASSUME TypeOK, NEW begin \in Places, NEW P, NEW path \in Seq(P)
  PROVE  \E w : Walks(w, begin, path) /\ Resolve(begin, path) = w[Len(path)]
<1> DEFINE n == Len(path)
           At(it, s) == IF s = {} THEN begin ELSE Lookup(it[s \ {Max(s)}], path[Max(s)])
           G == [vk \in Places \X (1 .. n) |-> Lookup(vk[1], path[vk[2]])]
           it == CHOOSE it : it = [s \in SUBSET (1 .. n) |-> At(it, s)]
<1>1. n \in Nat /\ DOMAIN path = 1 .. n OBVIOUS
<1>2. Resolve(begin, path) = it[1 .. n]
  BY <1>1 DEF Resolve, FoldLeft, MapThenFoldSet
<1>3. it = [s \in SUBSET (1 .. n) |-> At(it, s)]
  <2>1. G \in [Places \X (1 .. n) -> Places] BY LookupType
  <2>2. PICK f \in [SUBSET (1 .. n) -> Places] : FoldsBy(f, n, begin, G)
    <3> HIDE DEF G, n, it
    <3>1. n \in Nat BY <1>1
    <3> QED BY <2>1, <3>1, FoldExists, Zenon
  <2>3. ASSUME NEW s \in SUBSET (1 .. n), s # {}
        PROVE  G[<<f[s \ {Max(s)}], Max(s)>>] = Lookup(f[s \ {Max(s)}], path[Max(s)])
    <3>1. s \subseteq 0 .. n OBVIOUS
    <3>2. Max(s) \in s
      <4> HIDE DEF G, n
      <4> QED BY <1>1, <2>3, <3>1, GreatestExists
    <3>3. f[s \ {Max(s)}] \in Places
      <4>1. s \ {Max(s)} \in SUBSET (1 .. n) OBVIOUS
      <4> QED BY <4>1
    <3>4. <<f[s \ {Max(s)}], Max(s)>> \in Places \X (1 .. n) BY <3>2, <3>3
    <3> QED BY <3>4
  <2> HIDE DEF G
  <2>4. f = [s \in SUBSET (1 .. n) |-> At(f, s)] BY <2>2, <2>3 DEF FoldsBy
  <2> QED BY <2>4
<1> DEFINE w == [k \in 0 .. n |-> it[1 .. k]]
           In == {k \in 0 .. n : w[k] \in Places}
<1> HIDE DEF it
<1>4. w[0] = begin
  <2>1. 1 .. 0 = {} /\ 1 .. 0 \in SUBSET (1 .. n) OBVIOUS
  <2> QED BY <1>1, <1>3, <2>1
<1>5. ASSUME NEW k \in 1 .. n PROVE w[k] = Lookup(w[k - 1], path[k])
  <2>1. 1 .. k \in SUBSET (1 .. n) /\ 1 .. k # {} /\ 1 .. k \subseteq 0 .. k
    <3>1. k \in Nat /\ k \in 1 .. k /\ k \in 1 .. n BY <1>1
    <3>2. \A j \in 1 .. k : j \in 1 .. n /\ j \in 0 .. k BY <1>1, <3>1
    <3> HIDE DEF w, n
    <3> QED BY <3>1, <3>2
  <2>2. Max(1 .. k) \in 1 .. k /\ \A y \in 1 .. k : Max(1 .. k) >= y
    <3>1. k \in Nat BY <1>1
    <3> HIDE DEF w, n
    <3> QED BY <2>1, <3>1, GreatestExists
  <2>3. Max(1 .. k) = k
    <3>1. Max(1 .. k) >= k BY <2>2
    <3> QED BY <2>2, <3>1
  <2>4. (1 .. k) \ {k} = 1 .. k - 1 BY <1>1
  <2>5. it[1 .. k] = Lookup(it[1 .. k - 1], path[k]) BY <1>3, <2>1, <2>3, <2>4
  <2> QED BY <1>1, <2>5
<1> HIDE DEF w
<1>6. 0 .. n \subseteq In
  <2>1. 0 \in In BY <1>1, <1>4
  <2>2. ASSUME NEW k \in 0 .. n - 1, k \in In PROVE k + 1 \in In
    <3>1. k + 1 \in 1 .. n /\ (k + 1) - 1 = k BY <1>1
    <3>2. w[k + 1] = Lookup(w[k], path[k + 1]) BY <1>5, <3>1
    <3> QED BY <2>2, <3>1, <3>2, LookupType
  <2> HIDE DEF In
  <2> QED BY <1>1, <2>1, <2>2, BoundedInduction
<1>7. w \in [0 .. n -> Places] /\ w[n] = it[1 .. n]
  <2>1. \A k \in 0 .. n : w[k] \in Places BY <1>6
  <2> QED BY <1>1, <2>1 DEF w
<1> QED BY <1>2, <1>4, <1>5, <1>7 DEF Walks

LEMMA ResolveType ==
  ASSUME TypeOK, NEW begin \in Places, NEW P, NEW path \in Seq(P)
  PROVE  Resolve(begin, path) \in Places
<1>1. PICK w : Walks(w, begin, path) /\ Resolve(begin, path) = w[Len(path)] BY ResolveWalks
<1>2. Len(path) \in 0 .. Len(path) OBVIOUS
<1> QED BY <1>1, <1>2 DEF Walks

(* The last component is looked up where the others lead to.               *)
LEMMA ResolveSplits ==
  ASSUME TypeOK, NEW begin \in Places, NEW P, NEW path \in Seq(P) \ {<<>>}
  PROVE  /\ Front(path) \in Seq(P)
         /\ Resolve(begin, path) = Lookup(Resolve(begin, Front(path)), Last(path))
<1> DEFINE n == Len(path) - 1
<1>1. n \in Nat /\ Len(path) = n + 1 OBVIOUS
<1>2. Front(path) \in Seq(P) /\ Len(Front(path)) = n /\ \A k \in 1 .. n : Front(path)[k] = path[k]
  BY <1>1 DEF Front
<1>3. PICK w : Walks(w, begin, path) /\ Resolve(begin, path) = w[n + 1] BY <1>1, ResolveWalks
<1>4. PICK v : Walks(v, begin, Front(path)) /\ Resolve(begin, Front(path)) = v[n]
  BY <1>2, ResolveWalks
<1> DEFINE Same == {k \in 0 .. n : w[k] = v[k]}
<1>5. 0 .. n \subseteq Same
  <2>1. 0 \in Same BY <1>1, <1>3, <1>4 DEF Walks
  <2>2. ASSUME NEW k \in 0 .. n - 1, k \in Same PROVE k + 1 \in Same
    <3>1. k + 1 \in 1 .. n /\ k + 1 \in 1 .. n + 1 /\ (k + 1) - 1 = k BY <1>1
    <3>2. w[k + 1] = Lookup(w[k], path[k + 1]) BY <1>1, <1>3, <3>1 DEF Walks
    <3>3. v[k + 1] = Lookup(v[k], path[k + 1]) BY <1>2, <1>4, <3>1 DEF Walks
    <3> QED BY <2>2, <3>1, <3>2, <3>3
  <2> HIDE DEF Same, n
  <2> QED BY <1>1, <2>1, <2>2, BoundedInduction
<1>6. w[n] = v[n] BY <1>1, <1>5
<1>7. w[n + 1] = Lookup(w[n], path[n + 1])
  <2>1. n + 1 \in 1 .. Len(path) /\ (n + 1) - 1 = n BY <1>1
  <2> QED BY <1>3, <2>1 DEF Walks
<1> QED BY <1>1, <1>2, <1>3, <1>4, <1>6, <1>7 DEF Last

-----------------------------------------------------------------------------
(* The inodes from which the root is reached.                              *)
Runs(g, n, base, G) == g[0] = base /\ \A k \in 0 .. n - 1 : g[k + 1] = G[g[k]]

RunsOn(f, base, G) == f[0] = base /\ \A n \in Nat : f[n + 1] = G[f[n]]

LEMMA RecursionExists ==
  ASSUME NEW V, NEW base \in V, NEW G \in [V -> V]
  PROVE  \E f \in [Nat -> V] : RunsOn(f, base, G)
<1> DEFINE Good == {n \in Nat : \E g \in [0 .. n -> V] : Runs(g, n, base, G)}
<1>1. Nat \subseteq Good
  <2>1. 0 \in Good
    <3>1. [k \in 0 .. 0 |-> base] \in [0 .. 0 -> V] /\ Runs([k \in 0 .. 0 |-> base], 0, base, G)
      BY DEF Runs
    <3> QED BY <3>1
  <2>2. ASSUME NEW n \in Nat, n \in Good PROVE n + 1 \in Good
    <3>1. PICK g \in [0 .. n -> V] : Runs(g, n, base, G) BY <2>2
    <3> DEFINE h == [k \in 0 .. n + 1 |-> IF k <= n THEN g[k] ELSE G[g[n]]]
    <3>2. h \in [0 .. n + 1 -> V]
      <4>1. \A k \in 0 .. n + 1 : h[k] \in V OBVIOUS
      <4> QED BY <4>1
    <3>3. Runs(h, n + 1, base, G)
      <4>1. h[0] = base BY <3>1 DEF Runs
      <4>2. ASSUME NEW k \in 0 .. n + 1 - 1 PROVE h[k + 1] = G[h[k]]
        <5>1. CASE k = n BY <5>1
        <5>2. CASE k \in 0 .. n - 1 BY <3>1, <5>2 DEF Runs
        <5> QED BY <5>1, <5>2
      <4> HIDE DEF h
      <4> QED BY <4>1, <4>2 DEF Runs
    <3> HIDE DEF h
    <3> QED BY <3>2, <3>3
  <2> HIDE DEF Good
  <2> QED BY <2>1, <2>2, Induction
<1>2. ASSUME NEW n \in Nat, NEW m \in Nat, NEW g, NEW h, Runs(g, n, base, G), Runs(h, m, base, G)
      PROVE  \A k \in Nat : k <= n /\ k <= m => g[k] = h[k]
  <2> DEFINE Same == {k \in Nat : k <= n /\ k <= m => g[k] = h[k]}
  <2>1. 0 \in Same BY <1>2 DEF Runs
  <2>2. ASSUME NEW k \in Nat, k \in Same PROVE k + 1 \in Same
    <3> SUFFICES ASSUME k + 1 <= n, k + 1 <= m PROVE g[k + 1] = h[k + 1] OBVIOUS
    <3>1. k \in 0 .. n - 1 /\ k \in 0 .. m - 1 OBVIOUS
    <3>2. g[k] = h[k] BY <2>2, <3>1
    <3> QED BY <1>2, <3>1, <3>2 DEF Runs
  <2> HIDE DEF Same
  <2>3. Nat \subseteq Same BY <2>1, <2>2, Induction
  <2> QED BY <2>3 DEF Same
<1> DEFINE At(n) == CHOOSE g \in [0 .. n -> V] : Runs(g, n, base, G)
           f == [n \in Nat |-> At(n)[n]]
<1>3. \A n \in Nat : At(n) \in [0 .. n -> V] /\ Runs(At(n), n, base, G) BY <1>1
<1> HIDE DEF At
<1>4. f \in [Nat -> V]
  <2>1. \A n \in Nat : n \in 0 .. n OBVIOUS
  <2> QED BY <1>3, <2>1
<1>5. f[0] = base BY <1>3 DEF Runs
<1>6. ASSUME NEW n \in Nat PROVE f[n + 1] = G[f[n]]
  <2>1. Runs(At(n), n, base, G) /\ Runs(At(n + 1), n + 1, base, G) BY <1>3
  <2>2. At(n)[n] = At(n + 1)[n] BY <1>2, <2>1
  <2>3. n \in 0 .. (n + 1) - 1 OBVIOUS
  <2>4. At(n + 1)[n + 1] = G[At(n + 1)[n]] BY <2>1, <2>3 DEF Runs
  <2> QED BY <2>2, <2>4
<1> HIDE DEF f
<1> QED BY <1>4, <1>5, <1>6 DEF RunsOn

LEMMA UpSteps ==
  /\ Up[0] = {Root}
  /\ \A n \in Nat : Up[n + 1] = {i \in Inodes : inode[i].parent \in Up[n]}
<1> DEFINE G == [S \in SUBSET (Inodes \cup {Root}) |-> {i \in Inodes : inode[i].parent \in S}]
<1>1. {Root} \in SUBSET (Inodes \cup {Root})
      /\ G \in [SUBSET (Inodes \cup {Root}) -> SUBSET (Inodes \cup {Root})]
  OBVIOUS
<1>2. PICK f \in [Nat -> SUBSET (Inodes \cup {Root})] :
        f[0] = {Root} /\ \A n \in Nat : f[n + 1] = G[f[n]]
  <2> HIDE DEF G
  <2> DEFINE V == SUBSET (Inodes \cup {Root})
             base == {Root}
  <2>1. base \in V /\ G \in [V -> V] BY <1>1
  <2> HIDE DEF V, base
  <2>2. PICK f \in [Nat -> V] : RunsOn(f, base, G) BY <2>1, RecursionExists
  <2> QED BY <2>2 DEF RunsOn, V, base
<1>3. f = [n \in Nat |-> IF n = 0 THEN {Root} ELSE {i \in Inodes : inode[i].parent \in f[n - 1]}]
  <2>1. \A n \in Nat : n # 0 => f[n] = {i \in Inodes : inode[i].parent \in f[n - 1]}
    <3> SUFFICES ASSUME NEW n \in Nat, n # 0
                 PROVE  f[n] = {i \in Inodes : inode[i].parent \in f[n - 1]}
      OBVIOUS
    <3>1. n - 1 \in Nat /\ (n - 1) + 1 = n OBVIOUS
    <3>2. f[n] = G[f[n - 1]]
      <4> HIDE DEF G
      <4> QED BY <1>2, <3>1
    <3>3. f[n - 1] \in SUBSET (Inodes \cup {Root}) BY <3>1
    <3> QED BY <3>2, <3>3
  <2> QED BY <1>2, <2>1
<1>4. Up = [n \in Nat |-> IF n = 0 THEN {Root} ELSE {i \in Inodes : inode[i].parent \in Up[n - 1]}]
  BY <1>3 DEF Up
<1>5. Up[0] = {Root} BY <1>4
<1>6. ASSUME NEW n \in Nat PROVE Up[n + 1] = {i \in Inodes : inode[i].parent \in Up[n]}
  <2>1. n + 1 \in Nat /\ n + 1 # 0 /\ (n + 1) - 1 = n OBVIOUS
  <2> QED BY <1>4, <2>1
<1> QED BY <1>5, <1>6

LEMMA UpStepsNext ==
  /\ Up'[0] = {Root}
  /\ \A n \in Nat : Up'[n + 1] = {i \in Inodes : inode'[i].parent \in Up'[n]}
<1>1. UpSteps' BY UpSteps, PTL
<1> QED BY <1>1 DEF UpSteps
-----------------------------------------------------------------------------
(* The loop of fs_write: what holds before it and is kept by each turn     *)
(* holds after it.  The states of the loop are given as a set.             *)
LEMMA LesserOfTwo ==
  ASSUME NEW a \in Int, NEW b \in Int
  PROVE  Min({a, b}) = IF a <= b THEN a ELSE b
BY DEF Min

LEMMA GreaterOfTwo ==
  ASSUME NEW a \in Int, NEW b \in Int
  PROVE  Max({a, b}) = IF a >= b THEN a ELSE b
BY DEF Max

Begun(f) == [pos |-> fd[f].pos, done |-> 0, stop |-> FALSE, used |-> used,
             blocks |-> inode[fd[f].inode].blocks, storage |-> storage]

LEMMA WriteTurns ==
  ASSUME NEW f, NEW data \in Seq(Nat), NEW Turn, Begun(f) \in Turn[0],
         \A j \in Nat : \A w \in Turn[j] : Chunk(data, w) \in Turn[j + 1]
  PROVE  Written(f, data) \in Turn[Len(data)]
<1> DEFINE Loop == UNION {Turn[j] : j \in Nat}
<1>0. Begun(f) \in Loop /\ \A w \in Loop : Chunk(data, w) \in Loop
  <2>1. Begun(f) \in Loop OBVIOUS
  <2>2. ASSUME NEW j \in Nat, NEW w \in Turn[j] PROVE Chunk(data, w) \in Loop
    <3>1. j + 1 \in Nat /\ Chunk(data, w) \in Turn[j + 1] OBVIOUS
    <3> QED BY <3>1
  <2> QED BY <2>1, <2>2
<1> HIDE DEF Loop
<1> DEFINE n == Len(data)
           At(it, s) == IF s = {} THEN Begun(f) ELSE Chunk(data, it[s \ {Max(s)}])
           G == [vk \in Loop \X (1 .. n) |-> Chunk(data, vk[1])]
           it == CHOOSE it : it = [s \in SUBSET (1 .. n) |-> At(it, s)]
           turns == [turn \in 1 .. Len(data) |-> turn]
<1>1. n \in Nat /\ turns \in Seq(Nat) /\ Len(turns) = n OBVIOUS
<1>2. Written(f, data) = it[1 .. n]
  BY <1>1 DEF Written, FoldLeft, MapThenFoldSet, Begun
<1>3. PICK g \in [SUBSET (1 .. n) -> Loop] : FoldsBy(g, n, Begun(f), G)
  <2>1. G \in [Loop \X (1 .. n) -> Loop] BY <1>0
  <2> HIDE DEF G, n, it
  <2>2. n \in Nat BY <1>1
  <2> QED BY <1>0, <2>1, <2>2, FoldExists, Zenon
<1>4. it = [s \in SUBSET (1 .. n) |-> At(it, s)]
  <2>1. ASSUME NEW s \in SUBSET (1 .. n), s # {}
        PROVE  G[<<g[s \ {Max(s)}], Max(s)>>] = Chunk(data, g[s \ {Max(s)}])
    <3>1. s \subseteq 0 .. n OBVIOUS
    <3>2. Max(s) \in s
      <4> HIDE DEF G, n
      <4> QED BY <1>1, <2>1, <3>1, GreatestExists
    <3>3. g[s \ {Max(s)}] \in Loop
      <4>1. s \ {Max(s)} \in SUBSET (1 .. n) OBVIOUS
      <4> QED BY <4>1
    <3>4. <<g[s \ {Max(s)}], Max(s)>> \in Loop \X (1 .. n) BY <3>2, <3>3
    <3> QED BY <3>4
  <2> HIDE DEF G
  <2>2. g = [s \in SUBSET (1 .. n) |-> At(g, s)] BY <1>3, <2>1 DEF FoldsBy
  <2> QED BY <2>2
<1> DEFINE In == {k \in 0 .. n : it[1 .. k] \in Turn[k]}
<1> HIDE DEF it
<1>5. 0 .. n \subseteq In
  <2>1. 0 \in In
    <3>1. 1 .. 0 = {} /\ 1 .. 0 \in SUBSET (1 .. n) OBVIOUS
    <3> QED BY <1>1, <1>4, <3>1
  <2>2. ASSUME NEW j \in 0 .. n - 1, j \in In PROVE j + 1 \in In
    <3> DEFINE k == j + 1
    <3>1. k \in Nat /\ k \in 1 .. k /\ k \in 1 .. n BY <1>1
    <3>2. \A y \in 1 .. k : y \in 1 .. n /\ y \in 0 .. k BY <1>1, <3>1
    <3>3. 1 .. k \in SUBSET (1 .. n) /\ 1 .. k # {} /\ 1 .. k \subseteq 0 .. k
      <4> HIDE DEF k, n
      <4> QED BY <3>1, <3>2
    <3>4. Max(1 .. k) \in 1 .. k /\ \A y \in 1 .. k : Max(1 .. k) >= y
      <4> HIDE DEF k, n
      <4> QED BY <3>1, <3>3, GreatestExists
    <3>5. Max(1 .. k) = k
      <4>1. Max(1 .. k) >= k BY <3>1, <3>4
      <4> QED BY <3>4, <4>1
    <3>6. (1 .. k) \ {k} = 1 .. j BY <1>1
    <3>7. it[1 .. k] = Chunk(data, it[1 .. j]) BY <1>4, <3>3, <3>5, <3>6
    <3>8. j \in Nat /\ it[1 .. j] \in Turn[j] BY <1>1, <2>2
    <3>9. it[1 .. k] \in Turn[k] BY <3>7, <3>8
    <3> QED BY <1>1, <3>1, <3>9
  <2> HIDE DEF In
  <2> QED BY <1>1, <2>1, <2>2, BoundedInduction
<1>6. n \in 0 .. n BY <1>1
<1> QED BY <1>2, <1>5, <1>6

LEMMA WriteInduction ==
  ASSUME NEW f, NEW data \in Seq(Nat), NEW Loop, Begun(f) \in Loop,
         \A w \in Loop : Chunk(data, w) \in Loop
  PROVE  Written(f, data) \in Loop
<1> DEFINE Turn == [j \in Nat |-> Loop]
<1>1. Begun(f) \in Turn[0] /\ \A j \in Nat : \A w \in Turn[j] : Chunk(data, w) \in Turn[j + 1]
  OBVIOUS
<1>2. Len(data) \in Nat OBVIOUS
<1> HIDE DEF Turn
<1>3. Written(f, data) \in Turn[Len(data)] BY <1>1, WriteTurns
<1> QED BY <1>2, <1>3 DEF Turn
-----------------------------------------------------------------------------
(* Types.                                                                  *)
BlockLists == [0 .. Direct - 1 -> Blocks]

StoreTypes == [Blocks -> [0 .. BlockSize - 1 -> Nat]]

Table == [Inodes -> [name : Names, type : {"file", "dir"}, size : Nat,
                     ref : 0 .. Word - 1, blocks : BlockLists,
                     parent : Inodes \cup {NULL}, children : Seq(Inodes)]]

Turns(data) == [pos : Nat, done : 0 .. Len(data), stop : BOOLEAN, used : SUBSET Blocks,
                blocks : BlockLists, storage : StoreTypes]

LEMMA TableIs == TypeOK <=> /\ inode \in Table
                            /\ fd \in [Fds -> [inode : Inodes \cup {NULL}, pos : Nat]]
                            /\ used \subseteq Blocks
                            /\ storage \in StoreTypes
                            /\ content \in [Inodes -> Seq(Nat)]
                            /\ stale \in BOOLEAN
BY DEF TypeOK, Table, StoreTypes, BlockLists

LEMMA FirstFreeIs ==
  ASSUME NEW marked \in SUBSET Blocks
  PROVE  /\ FirstFree(marked) \in Blocks
         /\ ~(Blocks \subseteq marked) => FirstFree(marked) \notin marked
         /\ Blocks \subseteq marked => FirstFree(marked) = 0
<1>1. CASE Blocks \subseteq marked BY <1>1, Sizes DEF FirstFree, Blocks
<1>2. CASE ~(Blocks \subseteq marked)
  <2>1. Blocks \ marked \subseteq Nat /\ Blocks \ marked # {} BY <1>2 DEF Blocks
  <2>2. Min(Blocks \ marked) \in Blocks \ marked
    <3> DEFINE T == Blocks \ marked
    <3>1. T \subseteq Nat /\ T # {} BY <2>1
    <3> HIDE DEF T
    <3>2. Min(T) \in T BY <3>1, LeastExists
    <3> QED BY <3>2 DEF T
  <2> QED BY <1>2, <2>2 DEF FirstFree
<1> QED BY <1>1, <1>2

(* What a turn of the loop that stores bytes does.                         *)
Stored(data, w, v, k, o, n, b) ==
  /\ k = w.pos \div BlockSize /\ k \in 0 .. Direct - 1
  /\ o = w.pos % BlockSize /\ o \in 0 .. BlockSize - 1
  /\ n \in 1 .. BlockSize - o /\ n <= Len(data) - w.done
  /\ b \in Blocks \ {0}
  /\ \/ w.blocks[k] = 0 /\ b \notin w.used /\ v.used = w.used \cup {b}
     \/ w.blocks[k] = b /\ v.used = w.used
  /\ v.pos = w.pos + n /\ v.done = w.done + n
  /\ v.blocks = [w.blocks EXCEPT ![k] = b]
  /\ v.storage = [w.storage EXCEPT ![b] =
       [q \in 0 .. BlockSize - 1 |->
          IF q \in o .. o + n - 1 THEN data[w.done + q - o + 1]
          ELSE IF w.blocks[k] = 0 THEN 0 ELSE w.storage[b][q]]]

(* What any other turn does: nothing, but block 0 may be marked.           *)
Halted(w, v) ==
  /\ v.pos = w.pos /\ v.done = w.done /\ v.blocks = w.blocks /\ v.storage = w.storage
  /\ w.used \subseteq v.used /\ v.used \subseteq w.used \cup {0}

PieceFits(n, size, o, len, done) ==
  /\ n \in 1 .. size - o /\ n <= len - done
  /\ done + n \in 0 .. len
  /\ \A q \in o .. o + n - 1 : done + q - o + 1 \in 1 .. len

LEMMA Piece ==
  ASSUME NEW size \in Nat, NEW o \in 0 .. size - 1, NEW len \in Nat,
         NEW done \in 0 .. len, done # len
  PROVE  PieceFits(Min({size - o, len - done}), size, o, len, done)
<1>1. size - o \in Int /\ len - done \in Int OBVIOUS
<1>2. Min({size - o, len - done}) = IF size - o <= len - done THEN size - o ELSE len - done
  BY <1>1, LesserOfTwo
<1> QED BY <1>2 DEF PieceFits

LEMMA ChunkIs ==
  ASSUME NEW data \in Seq(Nat), NEW w \in Turns(data)
  PROVE  /\ Chunk(data, w) \in Turns(data)
         /\ \/ Halted(w, Chunk(data, w))
            \/ \E k, o, n, b \in Nat : Stored(data, w, Chunk(data, w), k, o, n, b)
<1> DEFINE k == w.pos \div BlockSize
           o == w.pos % BlockSize
           n == Min({BlockSize - o, Len(data) - w.done})
           missing == w.blocks[k] = 0
           b == IF missing THEN FirstFree(w.used) ELSE w.blocks[k]
           before == Cleared(missing, w.storage[b])
           marked == IF missing /\ ~(Blocks \subseteq w.used) THEN w.used \cup {b} ELSE w.used
           store == [q \in 0 .. BlockSize - 1 |->
                       IF q \in o .. o + n - 1 THEN data[w.done + q - o + 1] ELSE before[q]]
           v == [pos |-> w.pos + n, done |-> w.done + n, stop |-> FALSE, used |-> marked,
                 blocks |-> [w.blocks EXCEPT ![k] = b],
                 storage |-> [w.storage EXCEPT ![b] = store]]
<1>1. Chunk(data, w) = IF w.stop \/ w.done = Len(data) THEN w
                       ELSE IF k >= Direct THEN [w EXCEPT !.stop = TRUE]
                       ELSE IF b = 0 THEN [w EXCEPT !.stop = TRUE, !.used = marked]
                       ELSE v
  BY DEF Chunk
<1>2. w.pos \in Nat /\ w.done \in 0 .. Len(data) /\ Len(data) \in Nat /\ w.used \in SUBSET Blocks
      /\ w.blocks \in BlockLists /\ w.storage \in StoreTypes /\ w.stop \in BOOLEAN
      /\ w = [pos |-> w.pos, done |-> w.done, stop |-> w.stop, used |-> w.used,
              blocks |-> w.blocks, storage |-> w.storage]
  BY DEF Turns
<1>3. k \in Nat /\ o \in 0 .. BlockSize - 1 BY <1>2, Sizes, Division
<1>4. CASE w.stop \/ w.done = Len(data)
  <2>1. Chunk(data, w) = w BY <1>1, <1>4
  <2> QED BY <2>1 DEF Halted
<1>5. CASE ~(w.stop \/ w.done = Len(data)) /\ k >= Direct
  <2>1. Chunk(data, w) = [w EXCEPT !.stop = TRUE] BY <1>1, <1>5
  <2>2. Chunk(data, w) = [pos |-> w.pos, done |-> w.done, stop |-> TRUE, used |-> w.used,
                          blocks |-> w.blocks, storage |-> w.storage]
    BY <1>2, <2>1
  <2> QED BY <1>2, <2>2 DEF Halted, Turns
<1>6. CASE ~(w.stop \/ w.done = Len(data)) /\ ~(k >= Direct)
  <2>1. k \in 0 .. Direct - 1 BY <1>3, <1>6, Sizes
  <2>2. w.blocks[k] \in Blocks BY <1>2, <2>1 DEF BlockLists
  <2>3. b \in Blocks BY <1>2, <2>2, FirstFreeIs
  <2>4. marked \subseteq Blocks /\ w.used \subseteq marked BY <1>2, <2>3
  <2>5. CASE b = 0
    <3>1. Chunk(data, w) = [w EXCEPT !.stop = TRUE, !.used = marked] BY <1>1, <1>6, <2>5
    <3>2. Chunk(data, w) = [pos |-> w.pos, done |-> w.done, stop |-> TRUE, used |-> marked,
                            blocks |-> w.blocks, storage |-> w.storage]
      BY <1>2, <3>1
    <3>3. marked \subseteq w.used \cup {0} BY <2>5
    <3> HIDE DEF marked, b
    <3> QED BY <1>2, <2>4, <3>2, <3>3 DEF Halted, Turns
  <2>6. CASE b # 0
    <3>1. Chunk(data, w) = v BY <1>1, <1>6, <2>6
    <3>2. PieceFits(n, BlockSize, o, Len(data), w.done)
      <4>1. w.done # Len(data) /\ BlockSize \in Nat BY <1>6, Sizes
      <4> HIDE DEF o
      <4> QED BY <1>2, <1>3, <4>1, Piece
    <3>3. before \in [0 .. BlockSize - 1 -> Nat]
      BY <1>2, <2>3 DEF Cleared, Zeros, StoreTypes
    <3>4. \A q \in 0 .. BlockSize - 1 :
            before[q] = IF w.blocks[k] = 0 THEN 0 ELSE w.storage[b][q]
      BY DEF Cleared, Zeros
    <3>5. store \in [0 .. BlockSize - 1 -> Nat]
      <4>1. ASSUME NEW q \in 0 .. BlockSize - 1, q \in o .. o + n - 1
            PROVE  data[w.done + q - o + 1] \in Nat
        <5> HIDE DEF o, n
        <5>1. w.done + q - o + 1 \in 1 .. Len(data) BY <3>2, <4>1 DEF PieceFits
        <5> QED BY <5>1
      <4>2. ASSUME NEW q \in 0 .. BlockSize - 1 PROVE before[q] \in Nat BY <3>3
      <4> HIDE DEF o, n, before
      <4> QED BY <4>1, <4>2
    <3>6. store = [q \in 0 .. BlockSize - 1 |->
            IF q \in o .. o + n - 1 THEN data[w.done + q - o + 1]
            ELSE IF w.blocks[k] = 0 THEN 0 ELSE w.storage[b][q]]
      <4> HIDE DEF o, n, before, b, k
      <4> QED BY <3>4
    <3>7. \/ w.blocks[k] = 0 /\ b \notin w.used /\ marked = w.used \cup {b}
          \/ w.blocks[k] = b /\ marked = w.used
      <4>1. CASE missing
        <5>1. ~(Blocks \subseteq w.used) /\ b \notin w.used BY <1>2, <2>6, <4>1, FirstFreeIs
        <5> QED BY <4>1, <5>1
      <4>2. CASE ~missing BY <4>2
      <4> QED BY <4>1, <4>2
    <3> HIDE DEF k, o, n, b, before, marked, store
    <3>8. v \in Turns(data)
      <4>1. [w.blocks EXCEPT ![k] = b] \in BlockLists BY <1>2, <2>1, <2>3 DEF BlockLists
      <4>2. [w.storage EXCEPT ![b] = store] \in StoreTypes BY <1>2, <3>5 DEF StoreTypes
      <4>3. w.pos + n \in Nat /\ w.done + n \in 0 .. Len(data)
        <5> HIDE DEF v
        <5>1. n \in Nat
          <6>1. n \in 1 .. BlockSize - o BY <3>2 DEF PieceFits
          <6> QED BY <6>1
        <5> QED BY <1>2, <3>2, <5>1 DEF PieceFits
      <4> QED BY <2>4, <4>1, <4>2, <4>3 DEF Turns
    <3>9. Stored(data, w, v, k, o, n, b)
      <4>1. v.pos = w.pos + n /\ v.done = w.done + n /\ v.used = marked
            /\ v.blocks = [w.blocks EXCEPT ![k] = b]
            /\ v.storage = [w.storage EXCEPT ![b] = store]
        OBVIOUS
      <4>2. k = w.pos \div BlockSize /\ o = w.pos % BlockSize BY DEF k, o
      <4>3. b \in Blocks \ {0} BY <2>3, <2>6
      <4> HIDE DEF v
      <4> QED BY <1>3, <2>1, <3>2, <3>6, <3>7, <4>1, <4>2, <4>3 DEF Stored, PieceFits
    <3>10. k \in Nat /\ o \in Nat /\ n \in Nat /\ b \in Nat
      BY <1>3, <2>3, <3>2, Sizes DEF Blocks, PieceFits
    <3> HIDE DEF v
    <3> QED BY <3>1, <3>8, <3>9, <3>10
  <2> QED BY <2>5, <2>6
<1> QED BY <1>4, <1>5, <1>6
(* The blocks that the loop takes were free, and no block of another file  *)
(* is written.                                                             *)
Allocates(list, w) ==
  /\ used \subseteq w.used
  /\ w.used \subseteq used \cup {0} \cup {w.blocks[k] : k \in 0 .. Direct - 1}
  /\ \A k \in 0 .. Direct - 1 :
       /\ list[k] # 0 => w.blocks[k] = list[k]
       /\ w.blocks[k] # 0 => /\ w.blocks[k] \in w.used
                             /\ list[k] = 0 => w.blocks[k] \notin used
  /\ \A k, l \in 0 .. Direct - 1 : w.blocks[k] # 0 /\ w.blocks[k] = w.blocks[l] => k = l
  /\ \A c \in used : (\A k \in 0 .. Direct - 1 : list[k] # c) => w.storage[c] = storage[c]

(* What lies at a position of a file with these blocks.                    *)
ByteIn(list, store, o) ==
  LET k == o \div BlockSize IN
  IF k < Direct /\ list[k] # 0 THEN store[list[k]][o % BlockSize] ELSE 0

(* The bytes that the loop stored are there, and no others are changed.    *)
Stores(data, pos, list, w) ==
  /\ w.pos = pos + w.done
  /\ \A o \in Nat : ByteIn(w.blocks, w.storage, o) =
       IF o >= pos /\ o < w.pos THEN data[o - pos + 1] ELSE ByteIn(list, storage, o)

LEMMA ChunkAllocates ==
  ASSUME used \subseteq Blocks, storage \in StoreTypes, NEW data \in Seq(Nat), NEW w \in Turns(data),
         NEW list \in BlockLists, Allocates(list, w)
  PROVE  Allocates(list, Chunk(data, w))
<1> DEFINE v == Chunk(data, w)
<1>1. v \in Turns(data) /\ (Halted(w, v) \/ \E k, o, n, b \in Nat : Stored(data, w, v, k, o, n, b))
  BY ChunkIs
<1> HIDE DEF v
<1> SUFFICES Allocates(list, v) BY DEF v
<1>2. CASE Halted(w, v)
  <2>1. v.blocks = w.blocks /\ v.storage = w.storage
        /\ w.used \subseteq v.used /\ v.used \subseteq w.used \cup {0}
    BY <1>2 DEF Halted
  <2>2. v.used \subseteq used \cup {0} \cup {v.blocks[k] : k \in 0 .. Direct - 1}
    BY <2>1 DEF Allocates
  <2>3. used \subseteq v.used BY <2>1 DEF Allocates
  <2>4. \A k \in 0 .. Direct - 1 : v.blocks[k] # 0 => v.blocks[k] \in v.used
    BY <2>1 DEF Allocates
  <2> QED BY <2>1, <2>2, <2>3, <2>4 DEF Allocates
<1>3. CASE \E k, o, n, b \in Nat : Stored(data, w, v, k, o, n, b)
  <2>1. PICK k, o, n, b \in Nat : Stored(data, w, v, k, o, n, b) BY <1>3
  <2>2. /\ k \in 0 .. Direct - 1 /\ b \in Blocks \ {0}
        /\ \/ w.blocks[k] = 0 /\ b \notin w.used /\ v.used = w.used \cup {b}
           \/ w.blocks[k] = b /\ v.used = w.used
    BY <2>1 DEF Stored
  <2>3. w.blocks \in BlockLists /\ w.storage \in StoreTypes BY DEF Turns
  <2>4. \A l \in 0 .. Direct - 1 : v.blocks[l] = IF l = k THEN b ELSE w.blocks[l]
    BY <2>1, <2>3 DEF Stored, BlockLists
  <2>5. \A c \in Blocks : c # b => v.storage[c] = w.storage[c]
    BY <2>1, <2>3 DEF Stored, StoreTypes
  <2>6. used \subseteq v.used BY <2>2 DEF Allocates
  <2>7. v.used \subseteq used \cup {0} \cup {v.blocks[l] : l \in 0 .. Direct - 1}
    <3>1. ASSUME NEW l \in 0 .. Direct - 1, w.blocks[l] # 0
          PROVE  w.blocks[l] \in {v.blocks[m] : m \in 0 .. Direct - 1}
      BY <2>2, <2>4, <3>1
    <3>2. b \in {v.blocks[l] : l \in 0 .. Direct - 1} BY <2>2, <2>4
    <3>3. ASSUME NEW c \in w.used
          PROVE  c \in used \cup {0} \cup {v.blocks[l] : l \in 0 .. Direct - 1}
      <4>1. CASE c \in used \cup {0} BY <4>1
      <4>2. CASE c \notin used \cup {0}
        <5>1. PICK l \in 0 .. Direct - 1 : c = w.blocks[l] BY <4>2 DEF Allocates
        <5>2. w.blocks[l] # 0 BY <4>2, <5>1
        <5>3. c \in {v.blocks[m] : m \in 0 .. Direct - 1} BY <3>1, <5>1, <5>2
        <5> QED BY <5>3
      <4> QED BY <4>1, <4>2
    <3> QED BY <2>2, <3>2, <3>3
  <2>8. ASSUME NEW l \in 0 .. Direct - 1
        PROVE  /\ list[l] # 0 => v.blocks[l] = list[l]
               /\ v.blocks[l] # 0 => /\ v.blocks[l] \in v.used
                                     /\ list[l] = 0 => v.blocks[l] \notin used
    BY <2>2, <2>4 DEF Allocates
  <2>9. ASSUME NEW l \in 0 .. Direct - 1, NEW m \in 0 .. Direct - 1,
               v.blocks[l] # 0, v.blocks[l] = v.blocks[m]
        PROVE  l = m
    BY <2>2, <2>4, <2>9 DEF Allocates
  <2>10. ASSUME NEW c \in used, \A l \in 0 .. Direct - 1 : list[l] # c
         PROVE  v.storage[c] = storage[c]
    <3>1. b # c BY <2>2, <2>10 DEF Allocates
    <3> QED BY <2>5, <2>10, <3>1 DEF Allocates
  <2> QED BY <2>6, <2>7, <2>8, <2>9, <2>10 DEF Allocates
<1> QED BY <1>1, <1>2, <1>3

(* The positions of one block.                                             *)
LEMMA SameBlock ==
  ASSUME NEW m \in Nat, m > 0, NEW p \in Nat, NEW q \in Nat, NEW n \in Nat,
         (p % m) + n <= m
  PROVE  /\ p \div m = q \div m => q - p = (q % m) - (p % m)
         /\ q >= p /\ q < p + n => q \div m = p \div m
<1>1. p \div m \in Nat /\ p % m \in 0 .. m - 1 /\ p = m * (p \div m) + (p % m) BY Division
<1>2. q \div m \in Nat /\ q % m \in 0 .. m - 1 /\ q = m * (q \div m) + (q % m) BY Division
<1>3. p \div m = q \div m => q - p = (q % m) - (p % m) BY <1>1, <1>2
<1>4. ASSUME q >= p, q < p + n PROVE q \div m = p \div m
  <2>1. q = m * (p \div m) + ((p % m) + (q - p)) /\ (p % m) + (q - p) \in 0 .. m - 1
    BY <1>1, <1>4
  <2> DEFINE k == p \div m
             r == (p % m) + (q - p)
  <2>2. k \in Nat /\ r \in 0 .. m - 1 /\ q = m * k + r BY <1>1, <2>1
  <2> HIDE DEF k, r
  <2>3. q \div m = k BY <2>2
  <2> QED BY <2>3 DEF k
<1> QED BY <1>3, <1>4

LEMMA SameDistance ==
  ASSUME NEW done \in Nat, NEW p \in Nat, NEW pos \in Nat, NEW q \in Nat, NEW off \in Nat,
         NEW o \in Nat, p = pos + done, o - p = q - off
  PROVE  done + q - off + 1 = o - pos + 1
OBVIOUS

LEMMA ChunkStores ==
  ASSUME NEW data \in Seq(Nat), NEW w \in Turns(data), NEW v, NEW pos \in Nat,
         NEW list \in BlockLists, storage \in StoreTypes,
         NEW k \in Nat, NEW off \in Nat, NEW n \in Nat, NEW b \in Nat,
         Stored(data, w, v, k, off, n, b), Allocates(list, w), Stores(data, pos, list, w)
  PROVE  Stores(data, pos, list, v)
<1>1. /\ k = w.pos \div BlockSize /\ k \in 0 .. Direct - 1
      /\ off = w.pos % BlockSize /\ off \in 0 .. BlockSize - 1
      /\ n \in 1 .. BlockSize - off
      /\ b \in Blocks \ {0}
      /\ \/ w.blocks[k] = 0 /\ b \notin w.used
         \/ w.blocks[k] = b
      /\ v.pos = w.pos + n /\ v.done = w.done + n
  BY DEF Stored
<1>2. w.pos \in Nat /\ w.done \in Nat /\ w.blocks \in BlockLists /\ w.storage \in StoreTypes
  BY DEF Turns
<1>3. \A l \in 0 .. Direct - 1 : v.blocks[l] = IF l = k THEN b ELSE w.blocks[l]
  BY <1>2 DEF Stored, BlockLists
<1>4. \A c \in Blocks : c # b => v.storage[c] = w.storage[c]
  BY <1>2 DEF Stored, StoreTypes
<1>5. \A q \in 0 .. BlockSize - 1 :
        v.storage[b][q] = IF q \in off .. off + n - 1 THEN data[w.done + q - off + 1]
                          ELSE IF w.blocks[k] = 0 THEN 0 ELSE w.storage[b][q]
  BY <1>1, <1>2 DEF Stored, StoreTypes
<1>6. ASSUME NEW o \in Nat
      PROVE  ByteIn(v.blocks, v.storage, o) =
               IF o >= w.pos /\ o < v.pos THEN data[o - pos + 1]
               ELSE ByteIn(w.blocks, w.storage, o)
  <2> DEFINE l == o \div BlockSize
             q == o % BlockSize
  <2>1. l \in Nat /\ q \in 0 .. BlockSize - 1 BY Sizes, Division
  <2>2. /\ k = l => o - w.pos = q - off
        /\ o >= w.pos /\ o < v.pos => l = k
    <3>1. (w.pos % BlockSize) + n <= BlockSize BY <1>1, Sizes
    <3>2. n \in Nat /\ BlockSize \in Nat /\ BlockSize > 0 BY <1>1, Sizes
    <3>3. /\ w.pos \div BlockSize = o \div BlockSize =>
               o - w.pos = (o % BlockSize) - (w.pos % BlockSize)
          /\ o >= w.pos /\ o < w.pos + n => o \div BlockSize = w.pos \div BlockSize
      BY <1>2, <3>1, <3>2, SameBlock
    <3> QED BY <1>1, <3>3
  <2>3. /\ ByteIn(v.blocks, v.storage, o) =
             IF l < Direct /\ v.blocks[l] # 0 THEN v.storage[v.blocks[l]][q] ELSE 0
        /\ ByteIn(w.blocks, w.storage, o) =
             IF l < Direct /\ w.blocks[l] # 0 THEN w.storage[w.blocks[l]][q] ELSE 0
    BY DEF ByteIn
  <2> HIDE DEF l, q
  <2>4. CASE l = k
    <3>1. ByteIn(v.blocks, v.storage, o) = v.storage[b][q]
      BY <1>1, <1>3, <2>3, <2>4, Sizes
    <3>2. ByteIn(w.blocks, w.storage, o) = IF w.blocks[k] = 0 THEN 0 ELSE w.storage[b][q]
      BY <1>1, <2>3, <2>4, Sizes
    <3>3. q \in off .. off + n - 1 <=> o >= w.pos /\ o < v.pos
      BY <1>1, <1>2, <2>1, <2>2, <2>4, SMTT(30)
    <3>4. w.done + q - off + 1 = o - pos + 1
      <4>1. w.pos = pos + w.done BY DEF Stores
      <4>2. o - w.pos = q - off BY <2>2, <2>4
      <4>3. q \in Nat /\ w.done \in Nat /\ w.pos \in Nat BY <1>2, <2>1, Sizes
      <4> QED BY <4>1, <4>2, <4>3, SameDistance, SMTT(30)
    <3> QED BY <1>5, <2>1, <3>1, <3>2, <3>3, <3>4
  <2>5. CASE l # k
    <3>1. CASE l < Direct /\ w.blocks[l] # 0
      <4>1. l \in 0 .. Direct - 1 BY <2>1, <3>1, Sizes
      <4>2. v.blocks[l] = w.blocks[l] BY <1>3, <2>5, <4>1
      <4>3. w.blocks[l] # b BY <1>1, <2>5, <3>1, <4>1 DEF Allocates
      <4>4. w.blocks[l] \in Blocks BY <1>2, <4>1 DEF BlockLists
      <4>5. v.storage[w.blocks[l]] = w.storage[w.blocks[l]] BY <1>4, <4>3, <4>4
      <4> QED BY <2>2, <2>3, <2>5, <3>1, <4>2, <4>5
    <3>2. CASE ~(l < Direct /\ w.blocks[l] # 0)
      <4>1. ~(l < Direct /\ v.blocks[l] # 0)
        <5>1. l < Direct => l \in 0 .. Direct - 1 BY <2>1, Sizes
        <5> QED BY <1>3, <2>5, <3>2, <5>1
      <4> QED BY <2>2, <2>3, <2>5, <3>2, <4>1
    <3> QED BY <3>1, <3>2
  <2> QED BY <2>4, <2>5
<1>7. v.pos = pos + v.done BY <1>1, <1>2 DEF Stores
<1>8. ASSUME NEW o \in Nat
      PROVE  ByteIn(v.blocks, v.storage, o) =
               IF o >= pos /\ o < v.pos THEN data[o - pos + 1] ELSE ByteIn(list, storage, o)
  <2>1. ByteIn(w.blocks, w.storage, o) =
          IF o >= pos /\ o < w.pos THEN data[o - pos + 1] ELSE ByteIn(list, storage, o)
    BY DEF Stores
  <2>2. w.pos = pos + w.done BY DEF Stores
  <2>3. CASE o >= w.pos /\ o < v.pos
    <3>1. o >= pos /\ o < v.pos BY <1>2, <2>2, <2>3
    <3> QED BY <1>6, <2>3, <3>1
  <2>4. CASE ~(o >= w.pos /\ o < v.pos)
    <3>1. (o >= pos /\ o < v.pos) <=> (o >= pos /\ o < w.pos) BY <1>1, <1>2, <2>2, <2>4
    <3>2. ByteIn(v.blocks, v.storage, o) = ByteIn(w.blocks, w.storage, o) BY <1>6, <2>4
    <3> QED BY <2>1, <3>1, <3>2
  <2> QED BY <2>3, <2>4
<1> QED BY <1>7, <1>8 DEF Stores
(* What fs_write leaves behind its loop.                                   *)
LEMMA WrittenType ==
  ASSUME TypeOK, NEW f \in Fds, fd[f].inode # NULL, NEW data \in Seq(Nat)
  PROVE  Written(f, data) \in Turns(data) /\ fd[f].inode \in Inodes /\ fd[f].pos \in Nat
<1>1. fd[f].inode \in Inodes /\ fd[f].pos \in Nat BY DEF TypeOK
<1>2. Begun(f) \in Turns(data)
  <2>1. inode[fd[f].inode].blocks \in BlockLists /\ storage \in StoreTypes
    BY <1>1, TableIs DEF Table
  <2>2. used \in SUBSET Blocks /\ 0 \in 0 .. Len(data) BY DEF TypeOK
  <2> QED BY <1>1, <2>1, <2>2 DEF Begun, Turns
<1>3. \A w \in Turns(data) : Chunk(data, w) \in Turns(data) BY ChunkIs
<1> DEFINE Loop == Turns(data)
<1> HIDE DEF Loop
<1>4. Written(f, data) \in Loop BY <1>2, <1>3, WriteInduction DEF Loop
<1> QED BY <1>1, <1>4 DEF Loop

LEMMA WrittenIs ==
  ASSUME TypeOK, BlocksExclusive, NEW f \in Fds, fd[f].inode # NULL, NEW data \in Seq(Nat)
  PROVE  /\ Allocates(inode[fd[f].inode].blocks, Written(f, data))
         /\ Stores(data, fd[f].pos, inode[fd[f].inode].blocks, Written(f, data))
<1> DEFINE i == fd[f].inode
           list == inode[i].blocks
           pos == fd[f].pos
           Loop == {w \in Turns(data) : Allocates(list, w) /\ Stores(data, pos, list, w)}
<1>1. i \in Inodes /\ pos \in Nat BY DEF TypeOK
<1>2. list \in BlockLists /\ storage \in StoreTypes /\ used \in SUBSET Blocks
  BY <1>1, TableIs DEF Table
<1>3. Begun(f) \in Loop
  <2>1. Begun(f) \in Turns(data)
    <3>1. 0 \in 0 .. Len(data) OBVIOUS
    <3> QED BY <1>1, <1>2, <3>1 DEF Begun, Turns
  <2>2. Allocates(list, Begun(f)) BY <1>1 DEF Allocates, Begun, BlocksExclusive
  <2>3. Stores(data, pos, list, Begun(f))
    <3>1. pos = pos + 0 BY <1>1
    <3>2. Begun(f).pos = pos /\ Begun(f).done = 0 /\ Begun(f).blocks = list
          /\ Begun(f).storage = storage
      BY DEF Begun
    <3>3. ASSUME NEW o \in Nat PROVE ~(o >= pos /\ o < pos) BY <1>1
    <3> HIDE DEF pos, list
    <3> QED BY <3>1, <3>2, <3>3 DEF Stores
  <2> QED BY <2>1, <2>2, <2>3
<1>4. ASSUME NEW w \in Loop PROVE Chunk(data, w) \in Loop
  <2> HIDE DEF list, pos
  <2>1. w \in Turns(data) /\ Allocates(list, w) /\ Stores(data, pos, list, w) OBVIOUS
  <2>2. Chunk(data, w) \in Turns(data) /\ Allocates(list, Chunk(data, w))
    BY <1>2, <2>1, ChunkIs, ChunkAllocates
  <2>3. Stores(data, pos, list, Chunk(data, w))
    <3>1. CASE Halted(w, Chunk(data, w)) BY <2>1, <3>1 DEF Halted, Stores
    <3>2. CASE \E k, o, n, b \in Nat : Stored(data, w, Chunk(data, w), k, o, n, b)
      BY <1>1, <1>2, <2>1, <3>2, ChunkStores
    <3> QED BY <2>1, <3>1, <3>2, ChunkIs
  <2> QED BY <2>2, <2>3
<1> HIDE DEF Loop
<1>5. Written(f, data) \in Loop BY <1>3, <1>4, WriteInduction
<1> QED BY <1>5 DEF Loop

-----------------------------------------------------------------------------
(* remove_child: the list without one of its members.                      *)
Without(r, s, e, S) ==
  /\ r \in Seq(S)
  /\ \A m \in DOMAIN s : s[m] # e => \E k \in DOMAIN r : r[k] = s[m]
  /\ \A k, l \in DOMAIN r : \E m, n \in DOMAIN s :
       r[k] = s[m] /\ r[l] = s[n] /\ (k # l => m # n)
  /\ (\A m, n \in DOMAIN s : m # n => s[m] # s[n]) => \A k \in DOMAIN r : r[k] # e

LEMMA SuffixSize ==
  ASSUME NEW len \in Nat, NEW n \in 1 .. len
  PROVE  /\ len - (n + 1) + 1 = len - n
         /\ n + 1 <= len \/ len - n = 0
         /\ \A k \in Int : (n + 1) + k - 1 = n + k
OBVIOUS

LEMMA RemoveFirstIs ==
  ASSUME NEW S, NEW s \in Seq(S), NEW e
  PROVE  Without(RemoveFirst(s, e), s, e, S)
<1> DEFINE r == RemoveFirst(s, e)
           hits == {m \in 1 .. Len(s) : s[m] = e}
           n == Min(hits)
<1>0. Len(s) \in Nat /\ DOMAIN s = 1 .. Len(s) /\ \A m \in 1 .. Len(s) : s[m] \in S OBVIOUS
<1>1. CASE hits = {}
  <2>1. r = s BY <1>1 DEF RemoveFirst
  <2>2. \A m \in DOMAIN s : s[m] # e BY <1>0, <1>1
  <2> HIDE DEF r
  <2> QED BY <2>1, <2>2 DEF Without, r
<1>2. CASE hits # {}
  <2>1. r = SubSeq(s, 1, n - 1) \o SubSeq(s, n + 1, Len(s))
    BY <1>2 DEF RemoveFirst, RemoveAt, SelectInSeq
  <2>2. n \in hits
    <3>1. hits \subseteq Nat BY <1>0
    <3> HIDE DEF hits
    <3> QED BY <1>2, <3>1, LeastExists
  <2>3. n \in 1 .. Len(s) /\ s[n] = e BY <2>2
  <2> HIDE DEF n, hits, r
  <2>4. /\ SubSeq(s, 1, n - 1) \in Seq(S) /\ Len(SubSeq(s, 1, n - 1)) = n - 1
        /\ \A k \in 1 .. n - 1 : SubSeq(s, 1, n - 1)[k] = s[k]
    BY <1>0, <2>3
  <2>5. /\ SubSeq(s, n + 1, Len(s)) \in Seq(S) /\ Len(SubSeq(s, n + 1, Len(s))) = Len(s) - n
        /\ \A k \in 1 .. Len(s) - n : SubSeq(s, n + 1, Len(s))[k] = s[n + k]
    <3> DEFINE m == n + 1
               o == Len(s)
    <3>1. m \in Int /\ o \in Int /\ \A k \in m .. o : s[k] \in S BY <1>0, <2>3
    <3>2. /\ o - m + 1 = Len(s) - n /\ (m <= o \/ Len(s) - n = 0)
          /\ \A k \in Int : m + k - 1 = n + k
      BY <1>0, <2>3, SuffixSize
    <3> HIDE DEF m, o
    <3>4. /\ SubSeq(s, m, o) \in Seq(S)
          /\ Len(SubSeq(s, m, o)) = IF m <= o THEN o - m + 1 ELSE 0
          /\ \A k \in 1 .. o - m + 1 : SubSeq(s, m, o)[k] = s[m + k - 1]
      BY <3>1, SubSeqProperties
    <3>5. Len(SubSeq(s, m, o)) = Len(s) - n BY <3>2, <3>4
    <3>6. ASSUME NEW k \in 1 .. Len(s) - n PROVE SubSeq(s, m, o)[k] = s[n + k]
      <4>1. k \in 1 .. o - m + 1 /\ k \in Int BY <3>2
      <4>2. m + k - 1 = n + k BY <3>2, <4>1
      <4> QED BY <3>4, <4>1, <4>2
    <3> QED BY <3>4, <3>5, <3>6 DEF m, o
  <2>6. r \in Seq(S) /\ Len(r) = Len(s) - 1 /\ DOMAIN r = 1 .. Len(s) - 1
    <3> DEFINE a == SubSeq(s, 1, n - 1)
               b == SubSeq(s, n + 1, Len(s))
    <3>1. a \in Seq(S) /\ b \in Seq(S) /\ Len(a) = n - 1 /\ Len(b) = Len(s) - n
          /\ r = a \o b
      BY <2>1, <2>4, <2>5
    <3> HIDE DEF a, b
    <3>2. r \in Seq(S) /\ Len(r) = Len(a) + Len(b) BY <3>1, ConcatProperties
    <3>3. Len(r) = Len(s) - 1 BY <1>0, <2>3, <3>1, <3>2
    <3> QED BY <3>2, <3>3
  <2>7. ASSUME NEW k \in 1 .. Len(s) - 1 PROVE r[k] = IF k < n THEN s[k] ELSE s[k + 1]
    <3> DEFINE a == SubSeq(s, 1, n - 1)
               b == SubSeq(s, n + 1, Len(s))
    <3>1. a \in Seq(S) /\ b \in Seq(S) /\ Len(a) = n - 1 /\ Len(b) = Len(s) - n
          /\ r = a \o b
      BY <2>1, <2>4, <2>5
    <3>2. CASE k < n
      <4>1. k \in 1 .. n - 1 BY <1>0, <2>3, <3>2
      <4>2. a[k] = s[k] BY <2>4, <4>1
      <4> HIDE DEF a, b
      <4>3. r[k] = a[k] BY <3>1, <4>1
      <4> QED BY <3>2, <4>2, <4>3
    <3>3. CASE ~(k < n)
      <4>1. k - (n - 1) \in 1 .. Len(s) - n /\ n + (k - (n - 1)) = k + 1 BY <1>0, <2>3, <3>3
      <4>2. b[k - (n - 1)] = s[k + 1] BY <2>5, <4>1
      <4> HIDE DEF a, b
      <4>3. r[k] = b[k - (n - 1)]
        <5>1. k \in 1 .. Len(a) + Len(b) /\ ~(k <= Len(a)) BY <1>0, <2>3, <3>1, <3>3
        <5> QED BY <3>1, <5>1
      <4> QED BY <3>3, <4>2, <4>3
    <3> QED BY <3>2, <3>3
  <2> DEFINE at(k) == IF k < n THEN k ELSE k + 1
  <2>8. ASSUME NEW k \in DOMAIN r
        PROVE  at(k) \in DOMAIN s /\ at(k) # n /\ r[k] = s[at(k)]
    BY <1>0, <2>3, <2>6, <2>7
  <2>9. ASSUME NEW m \in DOMAIN s, s[m] # e PROVE \E k \in DOMAIN r : r[k] = s[m]
    <3>1. m # n BY <2>3, <2>9
    <3>2. CASE m < n
      <4>1. m \in DOMAIN r /\ r[m] = s[m] BY <1>0, <2>3, <2>6, <2>7, <3>2
      <4> QED BY <4>1
    <3>3. CASE m > n
      <4>1. m - 1 \in 1 .. Len(s) - 1 /\ ~(m - 1 < n) /\ (m - 1) + 1 = m BY <1>0, <2>3, <3>3
      <4>2. m - 1 \in DOMAIN r /\ r[m - 1] = s[m] BY <2>6, <2>7, <4>1
      <4> QED BY <4>2
    <3> QED BY <1>0, <2>3, <3>1, <3>2, <3>3
  <2>10. ASSUME NEW k \in DOMAIN r, NEW l \in DOMAIN r
         PROVE  \E m, o \in DOMAIN s : r[k] = s[m] /\ r[l] = s[o] /\ (k # l => m # o)
    <3>1. k # l => at(k) # at(l) BY <1>0, <2>3, <2>6
    <3> HIDE DEF at
    <3> QED BY <2>8, <3>1
  <2>11. ASSUME \A m, o \in DOMAIN s : m # o => s[m] # s[o], NEW k \in DOMAIN r
         PROVE  r[k] # e
    <3> HIDE DEF at
    <3> QED BY <1>0, <2>3, <2>8, <2>11
  <2> QED BY <2>6, <2>9, <2>10, <2>11 DEF Without, r
<1> QED BY <1>1, <1>2
-----------------------------------------------------------------------------
(* What the calls do, field by field.                                      *)
SameNode(j) ==
  /\ inode'[j].name = inode[j].name /\ inode'[j].type = inode[j].type
  /\ inode'[j].parent = inode[j].parent /\ inode'[j].children = inode[j].children

SameData(j) == inode'[j].size = inode[j].size /\ inode'[j].blocks = inode[j].blocks

(* fs_open puts the inode, which had ref references, into a descriptor if  *)
(* there is one.                                                           *)
Descriptor(i, ref) ==
  \/ fd' = fd /\ inode'[i].ref = ref
  \/ \E f \in Fds, pos \in Nat :
       /\ fd[f].inode = NULL
       /\ fd' = [fd EXCEPT ![f] = [inode |-> i, pos |-> pos]]
       /\ inode'[i].ref = (ref + 1) % Word

Opens(i) ==
  /\ inode' \in Table
  /\ \A j \in Inodes : SameNode(j)
  /\ \A j \in Inodes \ {i} : SameData(j) /\ inode'[j].ref = inode[j].ref
  /\ \/ /\ SameData(i) /\ used' = used /\ content' = content
     \/ /\ inode'[i].size = 0 /\ inode'[i].blocks = NoBlocks
        /\ used' = used \ BlocksOf(i) /\ content' = [content EXCEPT ![i] = <<>>]
  /\ Descriptor(i, inode[i].ref)
  /\ storage' = storage /\ stale' = stale

(* fs_open and fs_mkdir make inode i in directory d.                       *)
Adds(i, d, name) ==
  /\ inode' \in Table
  /\ \A j \in Inodes \ {i} :
       /\ inode'[j].name = inode[j].name /\ inode'[j].type = inode[j].type
       /\ inode'[j].parent = inode[j].parent /\ inode'[j].ref = inode[j].ref
       /\ SameData(j)
       /\ j # d => inode'[j].children = inode[j].children
  /\ inode'[i].name = name /\ inode'[i].parent = d
  /\ inode'[i].size = 0 /\ inode'[i].blocks = NoBlocks
  /\ IF i = d THEN inode'[i].children = <<i>>
     ELSE inode'[i].children = <<>> /\ inode'[d].children = <<i>> \o inode[d].children
  /\ Descriptor(i, 1)
  /\ used' = used /\ storage' = storage /\ stale' = stale
  /\ content' = [content EXCEPT ![i] = <<>>]

Removes(i) ==
  /\ inode' \in Table
  /\ \A j \in Inodes :
       /\ inode'[j].type = inode[j].type /\ inode'[j].parent = inode[j].parent
       /\ inode'[j].size = inode[j].size
       /\ IF j = inode[i].parent
          THEN Without(inode'[j].children, inode[j].children, i, Inodes)
          ELSE inode'[j].children = inode[j].children
  /\ \A j \in Inodes \ {i} :
       inode'[j].name = inode[j].name /\ inode'[j].ref = inode[j].ref
       /\ inode'[j].blocks = inode[j].blocks
  /\ inode'[i].name = NoName /\ inode'[i].ref = 0 /\ inode'[i].blocks = NoBlocks
  /\ used' = used \ BlocksOf(i)
  /\ fd' = fd /\ storage' = storage /\ content' = content

LEMMA LeastFree ==
  ASSUME FreeInodes # {}
  PROVE  Min(FreeInodes) \in FreeInodes /\ Min(FreeInodes) \in Inodes
<1>1. FreeInodes \subseteq Nat /\ FreeInodes \subseteq Inodes BY DEF FreeInodes, Inodes
<1> QED BY <1>1, LeastExists

LEMMA LeastClosed ==
  ASSUME NEW free, free \subseteq Fds, free # {}
  PROVE  Min(free) \in free
<1>1. free \subseteq Nat BY DEF Fds
<1> QED BY <1>1, LeastExists

SameFields(new, old) ==
  /\ new.name = old.name /\ new.type = old.type /\ new.parent = old.parent

(* A table of inodes with one reference count changed.                     *)
RefSet(u, t, i, ref) ==
  /\ u \in Table
  /\ \A j \in Inodes :
       /\ SameFields(u[j], t[j]) /\ u[j].children = t[j].children
       /\ u[j].size = t[j].size /\ u[j].blocks = t[j].blocks
       /\ j # i => u[j].ref = t[j].ref
  /\ u[i].ref = ref

LEMMA RefIsSet ==
  ASSUME NEW t \in Table, NEW i \in Inodes, NEW ref \in 0 .. Word - 1
  PROVE  RefSet([t EXCEPT ![i].ref = ref], t, i, ref)
<1> DEFINE u == [t EXCEPT ![i].ref = ref]
<1>1. u \in Table BY DEF Table
<1>2. ASSUME NEW j \in Inodes
      PROVE  /\ SameFields(u[j], t[j]) /\ u[j].children = t[j].children
             /\ u[j].size = t[j].size /\ u[j].blocks = t[j].blocks
             /\ j # i => u[j].ref = t[j].ref
  BY DEF Table, SameFields
<1>3. u[i].ref = ref BY DEF Table
<1> HIDE DEF u
<1>4. RefSet(u, t, i, ref) BY <1>1, <1>2, <1>3 DEF RefSet
<1> QED BY <1>4 DEF u

(* O_TRUNC: a table of inodes with one cut to nothing.                     *)
Cut(u, t, i) ==
  /\ u \in Table
  /\ \A j \in Inodes :
       /\ SameFields(u[j], t[j]) /\ u[j].children = t[j].children /\ u[j].ref = t[j].ref
       /\ j # i => u[j].size = t[j].size /\ u[j].blocks = t[j].blocks
  /\ u[i].size = 0 /\ u[i].blocks = NoBlocks

LEMMA BlocksTable ==
  ASSUME NEW v \in Table, NEW i \in Inodes
  PROVE  [v EXCEPT ![i].blocks = NoBlocks] \in Table
<1>1. NoBlocks \in BlockLists BY Sizes DEF NoBlocks, BlockLists, Blocks
<1> QED BY <1>1 DEF Table

LEMMA IsCut ==
  ASSUME NEW t \in Table, NEW i \in Inodes
  PROVE  Cut([t EXCEPT ![i].size = 0, ![i].blocks = NoBlocks], t, i)
<1> DEFINE v == [t EXCEPT ![i].size = 0]
           u == [v EXCEPT ![i].blocks = NoBlocks]
<1>2. v \in Table /\ v[i].size = 0 BY DEF Table
<1>3. ASSUME NEW j \in Inodes
      PROVE  /\ SameFields(v[j], t[j]) /\ v[j].children = t[j].children /\ v[j].ref = t[j].ref
             /\ v[j].blocks = t[j].blocks
             /\ j # i => v[j].size = t[j].size
  BY DEF Table, SameFields
<1>4. [t EXCEPT ![i].size = 0, ![i].blocks = NoBlocks] = u OBVIOUS
<1> HIDE DEF v
<1>5. u \in Table BY <1>2, BlocksTable
<1>9. u[i].blocks = NoBlocks /\ u[i].size = 0 BY <1>2 DEF Table
<1>6. ASSUME NEW j \in Inodes
      PROVE  /\ SameFields(u[j], v[j]) /\ u[j].children = v[j].children /\ u[j].ref = v[j].ref
             /\ u[j].size = v[j].size
             /\ j # i => u[j].blocks = v[j].blocks
  BY <1>2 DEF Table, SameFields
<1> HIDE DEF u
<1>7. \A j \in Inodes : SameFields(u[j], t[j]) BY <1>3, <1>6 DEF SameFields
<1>8. Cut(u, t, i) BY <1>3, <1>5, <1>6, <1>7, <1>9 DEF Cut
<1> QED BY <1>4, <1>8

(* alloc_inode and add_child.                                              *)
Makes(made, i, d, name) ==
  /\ made \in Table
  /\ \A j \in Inodes \ {i} :
       /\ SameFields(made[j], inode[j])
       /\ made[j].size = inode[j].size /\ made[j].blocks = inode[j].blocks
       /\ made[j].ref = inode[j].ref
       /\ made[j].children = IF j = d THEN <<i>> \o inode[j].children ELSE inode[j].children
  /\ made[i].name = name /\ made[i].parent = d /\ made[i].size = 0
  /\ made[i].blocks = NoBlocks /\ made[i].ref = 1
  /\ made[i].children = IF i = d THEN <<i>> ELSE <<>>

LEMMA CreatedIs ==
  ASSUME TypeOK, NEW i \in Inodes, NEW d \in Inodes, NEW name \in Names,
         NEW type \in {"file", "dir"}
  PROVE  Makes(Created(i, d, name, type), i, d, name)
<1> DEFINE node == [name |-> name, type |-> type, size |-> 0, ref |-> 1,
                    blocks |-> NoBlocks, parent |-> d, children |-> <<>>]
           first == [inode EXCEPT ![i] = node]
           second == [first EXCEPT ![d].children = <<i>> \o @]
<1>1. Created(i, d, name, type) = second BY DEF Created, Node
<1>2. node \in [name : Names, type : {"file", "dir"}, size : Nat, ref : 0 .. Word - 1,
                blocks : BlockLists, parent : Inodes \cup {NULL}, children : Seq(Inodes)]
  <2>1. 1 \in 0 .. Word - 1 /\ 0 \in Nat BY Sizes
  <2>2. NoBlocks \in BlockLists BY Sizes DEF NoBlocks, BlockLists, Blocks
  <2> QED BY <2>1, <2>2
<1>3. inode \in Table BY TableIs
<1>4. /\ node.name = name /\ node.parent = d /\ node.size = 0 /\ node.blocks = NoBlocks
      /\ node.ref = 1 /\ node.children = <<>>
  OBVIOUS
<1> HIDE DEF node
<1>5. first \in Table BY <1>2, <1>3 DEF Table
<1>6. \A j \in Inodes : first[j] = IF j = i THEN node ELSE inode[j] BY <1>3 DEF Table
<1> HIDE DEF first
<1>7. <<i>> \o first[d].children \in Seq(Inodes)
  <2>1. first[d].children \in Seq(Inodes) BY <1>5 DEF Table
  <2> QED BY <2>1
<1>8. second \in Table BY <1>5, <1>7 DEF Table
<1>9. ASSUME NEW j \in Inodes
      PROVE  /\ SameFields(second[j], first[j])
             /\ second[j].size = first[j].size /\ second[j].blocks = first[j].blocks
             /\ second[j].ref = first[j].ref
             /\ second[j].children = IF j = d THEN <<i>> \o first[j].children
                                     ELSE first[j].children
  BY <1>5 DEF Table, SameFields
<1> HIDE DEF second
<1>10. <<i>> \o <<>> = <<i>> OBVIOUS
<1>11. ASSUME NEW j \in Inodes \ {i}
       PROVE  /\ SameFields(second[j], inode[j])
              /\ second[j].size = inode[j].size /\ second[j].blocks = inode[j].blocks
              /\ second[j].ref = inode[j].ref
              /\ second[j].children = IF j = d THEN <<i>> \o inode[j].children
                                      ELSE inode[j].children
  <2>1. first[j] = inode[j] BY <1>6
  <2> QED BY <1>9, <2>1
<1>12. /\ second[i].name = name /\ second[i].parent = d /\ second[i].size = 0
       /\ second[i].blocks = NoBlocks /\ second[i].ref = 1
       /\ second[i].children = IF i = d THEN <<i>> ELSE <<>>
  <2>1. first[i] = node BY <1>6
  <2>2. /\ SameFields(second[i], node)
        /\ second[i].size = node.size /\ second[i].blocks = node.blocks
        /\ second[i].ref = node.ref
        /\ second[i].children = IF i = d THEN <<i>> \o node.children ELSE node.children
    BY <1>9, <2>1
  <2>3. second[i].children = IF i = d THEN <<i>> ELSE <<>>
    BY <1>4, <1>10, <2>2
  <2> QED BY <1>4, <2>2, <2>3 DEF SameFields
<1>13. Makes(second, i, d, name) BY <1>8, <1>11, <1>12 DEF Makes
<1> QED BY <1>1, <1>13

LEMMA RemovedIs ==
  ASSUME TypeOK, NEW i \in Inodes, Removed(i)
  PROVE  Removes(i)
<1> DEFINE p == inode[i].parent
           first == [inode EXCEPT ![p].children = RemoveFirst(@, i)]
           second == [first EXCEPT ![i].blocks = NoBlocks]
           third == [second EXCEPT ![i].name = NoName]
           last == [third EXCEPT ![i].ref = 0]
<1>1. inode' = last /\ used' = used \ BlocksOf(i) /\ fd' = fd /\ storage' = storage
      /\ content' = content
  BY DEF Removed
<1>2. inode \in Table BY TableIs
<1>3. \A j \in Inodes : inode[j].children \in Seq(Inodes)
                        /\ Without(RemoveFirst(inode[j].children, i), inode[j].children, i, Inodes)
  BY <1>2, RemoveFirstIs DEF Table
<1>4. \A j \in Inodes : RemoveFirst(inode[j].children, i) \in Seq(Inodes) BY <1>3 DEF Without
<1>5. first \in Table
      /\ \A j \in Inodes : first[j] =
           IF j = p THEN [inode[j] EXCEPT !.children = RemoveFirst(inode[j].children, i)]
           ELSE inode[j]
  BY <1>2, <1>4 DEF Table
<1> HIDE DEF first
<1>6. NoBlocks \in BlockLists BY Sizes DEF NoBlocks, BlockLists, Blocks
<1>7. second \in Table
      /\ \A j \in Inodes : second[j] =
           IF j = i THEN [first[j] EXCEPT !.blocks = NoBlocks] ELSE first[j]
  BY <1>5, <1>6, ZenonT(30) DEF Table
<1> HIDE DEF second
<1>8. third \in Table
      /\ \A j \in Inodes : third[j] =
           IF j = i THEN [second[j] EXCEPT !.name = NoName] ELSE second[j]
  <2>1. NoName \in Names BY PathsAssumption DEF NoName
  <2> QED BY <1>7, <2>1 DEF Table
<1> HIDE DEF third
<1>9. last \in Table
      /\ \A j \in Inodes : last[j] = IF j = i THEN [third[j] EXCEPT !.ref = 0] ELSE third[j]
  <2>1. 0 \in 0 .. Word - 1 BY Sizes
  <2> QED BY <1>8, <2>1 DEF Table
<1> HIDE DEF last
<1>10. ASSUME NEW j \in Inodes
       PROVE  /\ last[j].type = inode[j].type /\ last[j].parent = inode[j].parent
              /\ last[j].size = inode[j].size
              /\ last[j].children = IF j = p THEN RemoveFirst(inode[j].children, i)
                                    ELSE inode[j].children
              /\ j # i => last[j].name = inode[j].name /\ last[j].ref = inode[j].ref
                          /\ last[j].blocks = inode[j].blocks
              /\ j = i => last[j].name = NoName /\ last[j].ref = 0 /\ last[j].blocks = NoBlocks
  <2>1. /\ first[j].type = inode[j].type /\ first[j].parent = inode[j].parent
        /\ first[j].size = inode[j].size /\ first[j].name = inode[j].name
        /\ first[j].ref = inode[j].ref /\ first[j].blocks = inode[j].blocks
        /\ first[j].children = IF j = p THEN RemoveFirst(inode[j].children, i)
                               ELSE inode[j].children
    BY <1>2, <1>5 DEF Table
  <2>2. /\ second[j].type = first[j].type /\ second[j].parent = first[j].parent
        /\ second[j].size = first[j].size /\ second[j].name = first[j].name
        /\ second[j].ref = first[j].ref /\ second[j].children = first[j].children
        /\ second[j].blocks = IF j = i THEN NoBlocks ELSE first[j].blocks
    BY <1>5, <1>7 DEF Table
  <2>3. /\ third[j].type = second[j].type /\ third[j].parent = second[j].parent
        /\ third[j].size = second[j].size /\ third[j].children = second[j].children
        /\ third[j].ref = second[j].ref /\ third[j].blocks = second[j].blocks
        /\ third[j].name = IF j = i THEN NoName ELSE second[j].name
    BY <1>7, <1>8 DEF Table
  <2>4. /\ last[j].type = third[j].type /\ last[j].parent = third[j].parent
        /\ last[j].size = third[j].size /\ last[j].children = third[j].children
        /\ last[j].name = third[j].name /\ last[j].blocks = third[j].blocks
        /\ last[j].ref = IF j = i THEN 0 ELSE third[j].ref
    BY <1>8, <1>9 DEF Table
  <2> QED BY <2>1, <2>2, <2>3, <2>4
<1> QED BY <1>1, <1>3, <1>9, <1>10 DEF Removes
(* A name that the directory has not.                                      *)
NewName(d, name) ==
  /\ inode[d].type = "dir"
  /\ FindChild(d, name) = NULL \/ inode[d].parent = NULL

LEMMA AddsIs ==
  ASSUME TypeOK, NEW i \in Inodes, NEW d \in Inodes, NEW name \in Names,
         NEW type \in {"file", "dir"}, NEW made, made = Created(i, d, name, type),
         \/ inode' = made /\ fd' = fd
         \/ /\ inode' = [made EXCEPT ![i].ref = (@ + 1) % Word]
            /\ \E f \in Fds, pos \in Nat :
                 fd[f].inode = NULL /\ fd' = [fd EXCEPT ![f] = [inode |-> i, pos |-> pos]],
         used' = used, storage' = storage, stale' = stale, content' = [content EXCEPT ![i] = <<>>]
  PROVE  Adds(i, d, name)
<1>1. Makes(made, i, d, name) BY CreatedIs
<1>2. made \in Table /\ made[i].ref = 1 BY <1>1 DEF Makes
<1>3. \E ref \in 0 .. Word - 1 : RefSet(inode', made, i, ref)
  <2>1. CASE inode' = made
    <3>1. RefSet(made, made, i, 1) BY <1>2 DEF RefSet, SameFields
    <3>2. 1 \in 0 .. Word - 1 BY Sizes
    <3> QED BY <2>1, <3>1, <3>2
  <2>2. CASE inode' = [made EXCEPT ![i].ref = (@ + 1) % Word]
    <3>1. inode' = [made EXCEPT ![i].ref = (made[i].ref + 1) % Word] BY <2>2
    <3>2. (made[i].ref + 1) % Word \in 0 .. Word - 1 BY <1>2, Sizes
    <3> QED BY <1>2, <3>1, <3>2, RefIsSet
  <2> QED BY <2>1, <2>2
<1>4. Descriptor(i, 1)
  <2>1. CASE inode' = made /\ fd' = fd BY <1>2, <2>1 DEF Descriptor
  <2>2. CASE /\ inode' = [made EXCEPT ![i].ref = (@ + 1) % Word]
             /\ \E f \in Fds, pos \in Nat :
                  fd[f].inode = NULL /\ fd' = [fd EXCEPT ![f] = [inode |-> i, pos |-> pos]]
    <3>1. inode'[i].ref = (1 + 1) % Word BY <1>2, <2>2 DEF Table
    <3> QED BY <2>2, <3>1 DEF Descriptor
  <2> QED BY <2>1, <2>2
<1>5. inode' \in Table BY <1>3 DEF RefSet
<1>6. \A j \in Inodes : /\ SameFields(inode'[j], made[j]) /\ inode'[j].children = made[j].children
                        /\ inode'[j].size = made[j].size /\ inode'[j].blocks = made[j].blocks
                        /\ j # i => inode'[j].ref = made[j].ref
  BY <1>3 DEF RefSet
<1>7. \A j \in Inodes \ {i} :
        /\ inode'[j].name = inode[j].name /\ inode'[j].type = inode[j].type
        /\ inode'[j].parent = inode[j].parent /\ inode'[j].ref = inode[j].ref
        /\ SameData(j)
        /\ j # d => inode'[j].children = inode[j].children
  BY <1>1, <1>6 DEF SameData, SameFields, Makes
<1>8. IF i = d THEN inode'[i].children = <<i>>
      ELSE inode'[i].children = <<>> /\ inode'[d].children = <<i>> \o inode[d].children
  BY <1>1, <1>6 DEF Makes
<1>9. inode'[i].name = name /\ inode'[i].parent = d /\ inode'[i].size = 0
      /\ inode'[i].blocks = NoBlocks
  BY <1>1, <1>6 DEF Makes, SameFields
<1> QED BY <1>4, <1>5, <1>7, <1>8, <1>9 DEF Adds

LEMMA MkdirIs ==
  ASSUME TypeOK, NEW begin \in Places, NEW path \in Seq(Names) \ {<<>>}, Mkdir(begin, path)
  PROVE  \E i \in FreeInodes, d \in Inodes :
           Adds(i, d, Last(path)) /\ NewName(d, Last(path)) /\ d = Resolve(begin, Front(path))
<1> DEFINE i == Min(FreeInodes)
           d == Resolve(begin, Front(path))
<1>1. /\ d # NULL /\ inode[d].type = "dir" /\ FindChild(d, Last(path)) = NULL
      /\ FreeInodes # {}
      /\ inode' = Created(i, d, Last(path), "dir")
      /\ content' = [content EXCEPT ![i] = <<>>]
      /\ fd' = fd /\ used' = used /\ storage' = storage /\ stale' = stale
  BY DEF Mkdir
<1>2. i \in FreeInodes /\ i \in Inodes BY <1>1, LeastFree
<1>3. d \in Inodes
  <2>1. Front(path) \in Seq(Names) BY ResolveSplits
  <2>2. d \in Places BY <2>1, ResolveType
  <2> QED BY <1>1, <2>2 DEF Places
<1>4. Last(path) \in Names
  <2>1. Len(path) \in 1 .. Len(path) OBVIOUS
  <2> QED BY <2>1 DEF Last
<1> HIDE DEF i, d
<1>5. Adds(i, d, Last(path)) BY <1>1, <1>2, <1>3, <1>4, AddsIs
<1>6. NewName(d, Last(path)) BY <1>1 DEF NewName
<1> QED BY <1>2, <1>3, <1>5, <1>6 DEF d

LEMMA OpenIs ==
  ASSUME TypeOK, NEW begin \in Places, NEW path \in Seq(Names) \ {<<>>}, NEW mode,
         Open(begin, path, mode)
  PROVE  \/ Resolve(begin, path) \in Inodes /\ Opens(Resolve(begin, path))
         \/ \E i \in FreeInodes, d \in Inodes :
              Adds(i, d, Last(path)) /\ NewName(d, Last(path)) /\ d = Resolve(begin, Front(path))
<1> DEFINE new == Resolve(begin, path) = NULL
           d == Resolve(begin, Front(path))
           i == IF new THEN Min(FreeInodes) ELSE Resolve(begin, path)
           there == IF new THEN Created(i, d, Last(path), "file") ELSE inode
           cut == IF "TRUNC" \in mode
                  THEN [there EXCEPT ![i].size = 0, ![i].blocks = NoBlocks] ELSE there
           free == {f \in Fds : fd[f].inode = NULL}
           seek == IF "APPEND" \in mode THEN cut[i].size ELSE 0
<1>1. /\ MayOpen(begin, path, mode)
      /\ used' = IF "TRUNC" \in mode /\ ~new THEN used \ BlocksOf(i) ELSE used
      /\ content' = IF "TRUNC" \in mode \/ new THEN [content EXCEPT ![i] = <<>>] ELSE content
      /\ IF free = {} THEN inode' = cut /\ fd' = fd
         ELSE /\ inode' = [cut EXCEPT ![i].ref = (@ + 1) % Word]
              /\ fd' = [fd EXCEPT ![Min(free)] = [inode |-> i, pos |-> seek]]
      /\ storage' = storage /\ stale' = stale
  BY DEF Open
<1>2. Resolve(begin, path) \in Places BY ResolveType
<1>3. Front(path) \in Seq(Names) /\ Resolve(begin, path) = Lookup(d, Last(path)) /\ d \in Places
  BY ResolveSplits, ResolveType
<1>4. free # {} => Min(free) \in Fds /\ fd[Min(free)].inode = NULL
  <2> HIDE DEF i, cut, seek
  <2>1. free \subseteq Fds OBVIOUS
  <2>2. free # {} => Min(free) \in free
    <3> HIDE DEF free
    <3> QED BY <2>1, LeastClosed
  <2> QED BY <2>2
<1>5. inode \in Table BY TableIs
<1>6. NoBlocks \in BlockLists BY Sizes DEF NoBlocks, BlockLists, Blocks
<1>7. CASE ~new
  <2>1. i \in Inodes /\ i = Resolve(begin, path) BY <1>2, <1>7 DEF Places
  <2>2. there = inode BY <1>7
  <2>3. cut \in Table /\ \A j \in Inodes :
          /\ SameFields(cut[j], inode[j]) /\ cut[j].children = inode[j].children
          /\ cut[j].ref = inode[j].ref
          /\ j # i => cut[j].size = inode[j].size /\ cut[j].blocks = inode[j].blocks
    <3> HIDE DEF i
    <3>1. CASE "TRUNC" \in mode
      <4>1. cut = [inode EXCEPT ![i].size = 0, ![i].blocks = NoBlocks] BY <2>2, <3>1
      <4>2. Cut(cut, inode, i) BY <1>5, <2>1, <4>1, IsCut
      <4> QED BY <4>2 DEF Cut
    <3>2. CASE "TRUNC" \notin mode BY <1>5, <2>2, <3>2 DEF SameFields
    <3> QED BY <3>1, <3>2
  <2>4. IF "TRUNC" \in mode THEN cut[i].size = 0 /\ cut[i].blocks = NoBlocks
        ELSE cut[i].size = inode[i].size /\ cut[i].blocks = inode[i].blocks
    <3> HIDE DEF i
    <3>1. CASE "TRUNC" \in mode
      <4>1. cut = [inode EXCEPT ![i].size = 0, ![i].blocks = NoBlocks] BY <2>2, <3>1
      <4>2. Cut(cut, inode, i) BY <1>5, <2>1, <4>1, IsCut
      <4> QED BY <3>1, <4>2 DEF Cut
    <3>2. CASE "TRUNC" \notin mode BY <2>2, <3>2
    <3> QED BY <3>1, <3>2
  <2>5. seek \in Nat
    <3> HIDE DEF cut, i
    <3> QED BY <2>1, <2>3 DEF Table
  <2>6. /\ used' = IF "TRUNC" \in mode THEN used \ BlocksOf(i) ELSE used
        /\ content' = IF "TRUNC" \in mode THEN [content EXCEPT ![i] = <<>>] ELSE content
    BY <1>1, <1>7
  <2> HIDE DEF cut, i, free, seek
  <2>7. (\E ref \in 0 .. Word - 1 : RefSet(inode', cut, i, ref)) /\ Descriptor(i, cut[i].ref)
    <3>1. CASE free = {}
      <4>1. inode' = cut /\ fd' = fd BY <1>1, <3>1
      <4>2. cut[i].ref \in 0 .. Word - 1 BY <2>1, <2>3 DEF Table
      <4>3. RefSet(cut, cut, i, cut[i].ref) BY <2>3 DEF RefSet, SameFields
      <4> QED BY <4>1, <4>2, <4>3 DEF Descriptor
    <3>2. CASE free # {}
      <4>1. /\ inode' = [cut EXCEPT ![i].ref = (cut[i].ref + 1) % Word]
            /\ fd' = [fd EXCEPT ![Min(free)] = [inode |-> i, pos |-> seek]]
        BY <1>1, <3>2
      <4>2. cut[i].ref \in Nat BY <2>1, <2>3 DEF Table
      <4>3. (cut[i].ref + 1) % Word \in 0 .. Word - 1 BY <4>2, Sizes
      <4>4. RefSet(inode', cut, i, (cut[i].ref + 1) % Word) BY <2>1, <2>3, <4>1, <4>3, RefIsSet
      <4>5. inode'[i].ref = (cut[i].ref + 1) % Word BY <4>4 DEF RefSet
      <4>6. Descriptor(i, cut[i].ref) BY <1>4, <2>5, <3>2, <4>1, <4>5 DEF Descriptor
      <4> QED BY <4>3, <4>4, <4>6
    <3> QED BY <3>1, <3>2
  <2>8. Opens(i)
    <3>0. inode' \in Table /\ \A j \in Inodes :
            /\ SameFields(inode'[j], cut[j]) /\ inode'[j].children = cut[j].children
            /\ inode'[j].size = cut[j].size /\ inode'[j].blocks = cut[j].blocks
            /\ j # i => inode'[j].ref = cut[j].ref
      BY <2>7 DEF RefSet
    <3>1. \A j \in Inodes : SameNode(j) BY <2>3, <3>0 DEF SameNode, SameFields
    <3>2. \A j \in Inodes \ {i} : SameData(j) /\ inode'[j].ref = inode[j].ref
      BY <2>3, <3>0 DEF SameData
    <3>3. \/ SameData(i) /\ used' = used /\ content' = content
          \/ /\ inode'[i].size = 0 /\ inode'[i].blocks = NoBlocks
             /\ used' = used \ BlocksOf(i) /\ content' = [content EXCEPT ![i] = <<>>]
      BY <2>1, <2>4, <2>6, <3>0 DEF SameData
    <3>4. Descriptor(i, inode[i].ref) BY <2>1, <2>3, <2>7
    <3> QED BY <1>1, <3>0, <3>1, <3>2, <3>3, <3>4 DEF Opens
  <2> QED BY <2>1, <2>8
<1>8. CASE new
  <2>1. d \in Inodes /\ inode[d].type = "dir" /\ FreeInodes # {}
    BY <1>1, <1>3, <1>8 DEF MayOpen, MayCreate, Places
  <2>2. i \in FreeInodes /\ i \in Inodes
    <3>1. i = Min(FreeInodes) BY <1>8
    <3> HIDE DEF i
    <3> QED BY <2>1, <3>1, LeastFree
  <2>3. there = Created(i, d, Last(path), "file") BY <1>8
  <2>4. Last(path) \in Names
    <3>1. Len(path) \in 1 .. Len(path) OBVIOUS
    <3> QED BY <3>1 DEF Last
  <2>5. NewName(d, Last(path))
    <3>1. d # NULL BY <2>1, Sizes DEF Inodes, NULL
    <3>2. Lookup(d, Last(path)) = NULL BY <1>3, <1>8
    <3> HIDE DEF d
    <3> QED BY <2>1, <3>1, <3>2 DEF Lookup, NewName
  <2>6. cut = there
    <3> HIDE DEF there, i, d
    <3>1. Makes(there, i, d, Last(path)) BY <2>1, <2>2, <2>3, <2>4, CreatedIs
    <3>2. [there EXCEPT ![i].size = 0, ![i].blocks = NoBlocks] = there
      BY <2>2, <3>1 DEF Table, Makes
    <3> QED BY <3>2
  <2>7. seek \in Nat
    <3> HIDE DEF there, i, d
    <3>1. there \in Table BY <2>1, <2>2, <2>3, <2>4, CreatedIs DEF Makes
    <3> HIDE DEF cut
    <3> QED BY <2>2, <2>6, <3>1 DEF Table
  <2>8. used' = used /\ content' = [content EXCEPT ![i] = <<>>] BY <1>1, <1>8
  <2> HIDE DEF cut, there, i, d, free, seek
  <2>9. \/ inode' = there /\ fd' = fd
        \/ /\ inode' = [there EXCEPT ![i].ref = (@ + 1) % Word]
           /\ \E f \in Fds, pos \in Nat :
                fd[f].inode = NULL /\ fd' = [fd EXCEPT ![f] = [inode |-> i, pos |-> pos]]
    <3>1. CASE free = {} BY <1>1, <2>6, <3>1
    <3>2. CASE free # {} BY <1>1, <1>4, <2>6, <2>7, <3>2
    <3> QED BY <3>1, <3>2
  <2>10. Adds(i, d, Last(path))
    BY <1>1, <2>1, <2>2, <2>3, <2>4, <2>8, <2>9, AddsIs
  <2> QED BY <2>1, <2>2, <2>5, <2>10 DEF d
<1> QED BY <1>7, <1>8
Closes(f) ==
  /\ fd[f].inode \in Inodes
  /\ RefSet(inode', inode, fd[f].inode, (inode[fd[f].inode].ref - 1) % Word)
  /\ fd' = [fd EXCEPT ![f] = Closed]
  /\ used' = used /\ storage' = storage /\ content' = content /\ stale' = stale

LEMMA CloseIs ==
  ASSUME TypeOK, NEW f \in Fds, Close(f)
  PROVE  Closes(f)
<1> DEFINE i == fd[f].inode
<1>1. i \in Inodes BY DEF TypeOK, Close
<1>2. inode' = [inode EXCEPT ![i].ref = (inode[i].ref - 1) % Word] BY DEF Close
<1>3. inode \in Table BY TableIs
<1>4. (inode[i].ref - 1) % Word \in 0 .. Word - 1
  <2>1. inode[i].ref \in Nat BY <1>1, <1>3 DEF Table
  <2> QED BY <2>1, Sizes
<1> HIDE DEF i
<1>5. RefSet(inode', inode, i, (inode[i].ref - 1) % Word) BY <1>1, <1>2, <1>3, <1>4, RefIsSet
<1> QED BY <1>1, <1>5 DEF Close, Closes, i

WritesTo(f, data) ==
  LET i == fd[f].inode
      w == Written(f, data) IN
  /\ i \in Inodes /\ fd[f].pos \in Nat
  /\ w \in Turns(data)
  /\ inode' \in Table
  /\ \A j \in Inodes : SameNode(j) /\ inode'[j].ref = inode[j].ref
  /\ \A j \in Inodes \ {i} : SameData(j)
  /\ inode'[i].blocks = w.blocks
  /\ inode'[i].size = IF inode[i].size >= w.pos THEN inode[i].size ELSE w.pos
  /\ fd' = [fd EXCEPT ![f].pos = w.pos]
  /\ used' = w.used /\ storage' = w.storage /\ stale' = stale
  /\ content' = [content EXCEPT ![i] = Promised(@, fd[f].pos, data, w.done)]

LEMMA WriteIs ==
  ASSUME TypeOK, NEW f \in Fds, NEW data \in Seq(Nat), Write(f, data)
  PROVE  WritesTo(f, data)
<1> DEFINE i == fd[f].inode
           w == Written(f, data)
           first == [inode EXCEPT ![i].blocks = w.blocks]
           second == [first EXCEPT ![i].size = Max({@, w.pos})]
<1>1. fd[f].inode # NULL BY DEF Write
<1>2. w \in Turns(data) /\ i \in Inodes /\ fd[f].pos \in Nat BY <1>1, WrittenType
<1>3. /\ inode' = second
      /\ fd' = [fd EXCEPT ![f].pos = w.pos]
      /\ used' = w.used /\ storage' = w.storage /\ stale' = stale
      /\ content' = [content EXCEPT ![i] = Promised(@, fd[f].pos, data, w.done)]
  BY DEF Write
<1>4. w.pos \in Nat /\ w.blocks \in BlockLists BY <1>2 DEF Turns
<1>5. inode \in Table BY TableIs
<1> HIDE DEF i, w
<1>6. first \in Table /\ first[i].size = inode[i].size BY <1>2, <1>4, <1>5 DEF Table
<1>7. first[i].blocks = w.blocks BY <1>2, <1>4, <1>5 DEF Table
<1>8. ASSUME NEW j \in Inodes
      PROVE  /\ SameFields(first[j], inode[j]) /\ first[j].children = inode[j].children
             /\ first[j].ref = inode[j].ref
             /\ j # i => first[j].size = inode[j].size /\ first[j].blocks = inode[j].blocks
  BY <1>5 DEF Table, SameFields
<1> HIDE DEF first
<1>9. Max({first[i].size, w.pos}) = IF inode[i].size >= w.pos THEN inode[i].size ELSE w.pos
  <2>1. inode[i].size \in Nat BY <1>2, <1>5 DEF Table
  <2>2. Max({inode[i].size, w.pos}) = IF inode[i].size >= w.pos THEN inode[i].size ELSE w.pos
    BY <1>4, <2>1, GreaterOfTwo, SMTT(30)
  <2> QED BY <1>6, <2>2
<1>10. Max({first[i].size, w.pos}) \in Nat
  <2>1. inode[i].size \in Nat BY <1>2, <1>5 DEF Table
  <2> QED BY <1>4, <1>9, <2>1
<1>11. second = [first EXCEPT ![i].size = Max({first[i].size, w.pos})] BY <1>2, <1>6
<1>12. second \in Table BY <1>2, <1>6, <1>10, <1>11 DEF Table
<1>13. ASSUME NEW j \in Inodes
       PROVE  /\ SameFields(second[j], first[j]) /\ second[j].children = first[j].children
              /\ second[j].ref = first[j].ref /\ second[j].blocks = first[j].blocks
              /\ j # i => second[j].size = first[j].size
  BY <1>6 DEF Table, SameFields
<1>14. second[i].size = Max({first[i].size, w.pos}) BY <1>2, <1>6, <1>11 DEF Table
<1> HIDE DEF second
<1>15. \A j \in Inodes : SameNode(j) /\ inode'[j].ref = inode[j].ref
  BY <1>3, <1>8, <1>13 DEF SameNode, SameFields
<1>16. \A j \in Inodes \ {i} : SameData(j) BY <1>3, <1>8, <1>13 DEF SameData
<1>17. inode'[i].blocks = w.blocks
       /\ inode'[i].size = IF inode[i].size >= w.pos THEN inode[i].size ELSE w.pos
  BY <1>2, <1>3, <1>7, <1>9, <1>13, <1>14
<1> QED BY <1>2, <1>3, <1>12, <1>15, <1>16, <1>17 DEF WritesTo, i, w

(* fs_read and fs_seek.                                                    *)
Moves(f) ==
  /\ \E pos \in Nat : fd' = [fd EXCEPT ![f].pos = pos]
  /\ inode' = inode /\ used' = used /\ storage' = storage /\ content' = content
  /\ stale' = stale

LEMMA ReadIs ==
  ASSUME TypeOK, NEW f \in Fds, NEW n \in Nat, Read(f, n)
  PROVE  Moves(f)
<1> DEFINE i == fd[f].inode
           left == inode[i].size - fd[f].pos
           got == Max({0, Min({n, left})})
<1>1. i \in Inodes BY DEF TypeOK, Read
<1>2. inode[i].size \in Nat /\ fd[f].pos \in Nat BY <1>1 DEF TypeOK
<1>3. got \in Nat
  <2>1. left \in Int BY <1>2
  <2> HIDE DEF left
  <2>2. Min({n, left}) \in Int BY <2>1, LesserOfTwo
  <2> QED BY <2>2, GreaterOfTwo
<1>4. fd' = [fd EXCEPT ![f].pos = @ + got] BY DEF Read
<1> HIDE DEF got, left
<1>5. fd' = [fd EXCEPT ![f].pos = fd[f].pos + got] /\ fd[f].pos + got \in Nat BY <1>2, <1>3, <1>4
<1> QED BY <1>5 DEF Moves, Read

LEMMA SeekIs ==
  ASSUME TypeOK, NEW f \in Fds, NEW offset \in Offsets, Seek(f, offset)
  PROVE  Moves(f)
<1>1. fd[f].inode \in Inodes BY DEF TypeOK, Seek
<1>2. inode[fd[f].inode].size \in Nat /\ fd[f].pos \in Nat BY <1>1 DEF TypeOK
<1>3. PICK base \in {0, fd[f].pos, inode[fd[f].inode].size} :
        fd' = [fd EXCEPT ![f].pos = base + offset]
  BY DEF Seek
<1>4. base + offset \in Nat BY <1>2, RamFSAssumption
<1> QED BY <1>3, <1>4 DEF Moves, Seek

-----------------------------------------------------------------------------
(* What the calls leave of their types.                                    *)
LEMMA DescriptorTypes ==
  ASSUME TypeOK, NEW i \in Inodes, NEW ref, Descriptor(i, ref)
  PROVE  fd' \in [Fds -> [inode : Inodes \cup {NULL}, pos : Nat]]
<1>1. fd \in [Fds -> [inode : Inodes \cup {NULL}, pos : Nat]] BY DEF TypeOK
<1> QED BY <1>1 DEF Descriptor

LEMMA ContentCut ==
  ASSUME TypeOK, NEW i \in Inodes
  PROVE  [content EXCEPT ![i] = <<>>] \in [Inodes -> Seq(Nat)]
BY DEF TypeOK

LEMMA TableIsNext ==
  ASSUME inode' \in Table, fd' \in [Fds -> [inode : Inodes \cup {NULL}, pos : Nat]],
         used' \subseteq Blocks, storage' \in StoreTypes, content' \in [Inodes -> Seq(Nat)],
         stale' \in BOOLEAN
  PROVE  TypeOK'
BY DEF TypeOK, Table, StoreTypes, BlockLists

LEMMA OpensTypes ==
  ASSUME TypeOK, NEW i \in Inodes, Opens(i)
  PROVE  TypeOK'
<1>1. fd' \in [Fds -> [inode : Inodes \cup {NULL}, pos : Nat]] BY DescriptorTypes DEF Opens
<1>2. content' \in [Inodes -> Seq(Nat)]
  <2>1. content \in [Inodes -> Seq(Nat)] BY DEF TypeOK
  <2> QED BY <2>1, ContentCut DEF Opens
<1>3. used' \subseteq Blocks /\ storage' \in StoreTypes /\ stale' \in BOOLEAN /\ inode' \in Table
  BY TableIs DEF Opens
<1> QED BY <1>1, <1>2, <1>3, TableIsNext

LEMMA AddsTypes ==
  ASSUME TypeOK, NEW i \in Inodes, NEW d \in Inodes, NEW name, Adds(i, d, name)
  PROVE  TypeOK'
<1>1. fd' \in [Fds -> [inode : Inodes \cup {NULL}, pos : Nat]] BY DescriptorTypes DEF Adds
<1>2. content' \in [Inodes -> Seq(Nat)] BY ContentCut DEF Adds
<1>3. used' \subseteq Blocks /\ storage' \in StoreTypes /\ stale' \in BOOLEAN /\ inode' \in Table
  BY TableIs DEF Adds
<1> QED BY <1>1, <1>2, <1>3, TableIsNext

LEMMA RemovesTypes ==
  ASSUME TypeOK, NEW i \in Inodes, Removes(i), stale' \in BOOLEAN
  PROVE  TypeOK'
<1>1. used' \subseteq Blocks /\ storage' \in StoreTypes /\ inode' \in Table
      /\ fd' \in [Fds -> [inode : Inodes \cup {NULL}, pos : Nat]]
      /\ content' \in [Inodes -> Seq(Nat)]
  BY TableIs DEF Removes
<1> QED BY <1>1, TableIsNext

LEMMA ClosesTypes ==
  ASSUME TypeOK, NEW f \in Fds, Closes(f)
  PROVE  TypeOK'
<1>1. fd' \in [Fds -> [inode : Inodes \cup {NULL}, pos : Nat]]
  <2>1. fd \in [Fds -> [inode : Inodes \cup {NULL}, pos : Nat]] BY DEF TypeOK
  <2> QED BY <2>1 DEF Closes, Closed
<1>2. used' \subseteq Blocks /\ storage' \in StoreTypes /\ inode' \in Table
      /\ content' \in [Inodes -> Seq(Nat)] /\ stale' \in BOOLEAN
  BY TableIs DEF Closes, RefSet
<1> QED BY <1>1, <1>2, TableIsNext

LEMMA MovesTypes ==
  ASSUME TypeOK, NEW f \in Fds, Moves(f)
  PROVE  TypeOK'
<1>1. fd' \in [Fds -> [inode : Inodes \cup {NULL}, pos : Nat]]
  <2>1. fd \in [Fds -> [inode : Inodes \cup {NULL}, pos : Nat]] BY DEF TypeOK
  <2> QED BY <2>1 DEF Moves
<1>2. used' \subseteq Blocks /\ storage' \in StoreTypes /\ inode' \in Table
      /\ content' \in [Inodes -> Seq(Nat)] /\ stale' \in BOOLEAN
  BY TableIs DEF Moves
<1> QED BY <1>1, <1>2, TableIsNext

(* The bytes that a file is promised.                                      *)
LEMMA PromisedIs ==
  ASSUME NEW old \in Seq(Nat), NEW pos \in Nat, NEW data \in Seq(Nat),
         NEW n \in 0 .. Len(data)
  PROVE  /\ Promised(old, pos, data, n) \in Seq(Nat)
         /\ Len(Promised(old, pos, data, n)) =
              IF Len(old) >= pos + n THEN Len(old) ELSE pos + n
         /\ \A q \in 1 .. Len(Promised(old, pos, data, n)) :
              Promised(old, pos, data, n)[q] =
                IF q > pos /\ q <= pos + n THEN data[q - pos]
                ELSE IF q <= Len(old) THEN old[q] ELSE 0
<1> DEFINE m == IF Len(old) >= pos + n THEN Len(old) ELSE pos + n
           at(q) == IF q > pos /\ q <= pos + n THEN data[q - pos]
                    ELSE IF q <= Len(old) THEN old[q] ELSE 0
<1>1. Len(old) \in Nat /\ pos + n \in Nat /\ m \in Nat OBVIOUS
<1>2. Max({Len(old), pos + n}) = m BY <1>1, GreaterOfTwo
<1>3. Promised(old, pos, data, n) = [q \in 1 .. m |-> at(q)] BY <1>2 DEF Promised
<1>4. ASSUME NEW q \in 1 .. m PROVE at(q) \in Nat
  <2>1. CASE q > pos /\ q <= pos + n
    <3>1. q - pos \in 1 .. Len(data) BY <1>1, <2>1
    <3> QED BY <2>1, <3>1
  <2>2. CASE ~(q > pos /\ q <= pos + n) /\ q <= Len(old)
    <3>1. q \in 1 .. Len(old) BY <1>1, <2>2
    <3> QED BY <2>2, <3>1
  <2>3. CASE ~(q > pos /\ q <= pos + n) /\ ~(q <= Len(old)) BY <2>3
  <2> QED BY <2>1, <2>2, <2>3
<1> HIDE DEF at
<1>5. [q \in 1 .. m |-> at(q)] \in [1 .. m -> Nat] BY <1>4
<1> DEFINE s == [q \in 1 .. m |-> at(q)]
<1>6. s \in Seq(Nat) /\ Len(s) = m /\ \A q \in 1 .. m : s[q] = at(q)
  <2> HIDE DEF m
  <2> QED BY <1>1, <1>5
<1> HIDE DEF s
<1>7. Promised(old, pos, data, n) = s BY <1>3 DEF s
<1> QED BY <1>6, <1>7 DEF at

LEMMA WritesToTypes ==
  ASSUME TypeOK, NEW f \in Fds, NEW data \in Seq(Nat), WritesTo(f, data)
  PROVE  TypeOK'
<1> DEFINE i == fd[f].inode
           w == Written(f, data)
<1>1. i \in Inodes /\ fd[f].pos \in Nat /\ w \in Turns(data) BY DEF WritesTo
<1>2. w.pos \in Nat /\ w.used \subseteq Blocks /\ w.storage \in StoreTypes
      /\ w.done \in 0 .. Len(data)
  BY <1>1 DEF Turns
<1>3. content \in [Inodes -> Seq(Nat)] /\ fd \in [Fds -> [inode : Inodes \cup {NULL}, pos : Nat]]
  BY DEF TypeOK
<1>4. content' \in [Inodes -> Seq(Nat)]
  <2>1. content[i] \in Seq(Nat) BY <1>1, <1>3
  <2>2. Promised(content[i], fd[f].pos, data, w.done) \in Seq(Nat)
    BY <1>1, <1>2, <2>1, PromisedIs
  <2>3. content' = [content EXCEPT ![i] = Promised(content[i], fd[f].pos, data, w.done)]
    BY DEF WritesTo
  <2> QED BY <1>3, <2>2, <2>3
<1>5. fd' \in [Fds -> [inode : Inodes \cup {NULL}, pos : Nat]]
  <2>1. fd' = [fd EXCEPT ![f].pos = w.pos] BY DEF WritesTo
  <2> HIDE DEF w
  <2> QED BY <1>2, <1>3, <2>1
<1>6. used' \subseteq Blocks /\ storage' \in StoreTypes /\ stale' \in BOOLEAN /\ inode' \in Table
  BY <1>2, TableIs DEF WritesTo
<1> QED BY <1>4, <1>5, <1>6, TableIsNext
-----------------------------------------------------------------------------
(* The blocks.                                                             *)
LEMMA FewerBlocks ==
  ASSUME TypeOK, BlocksExclusive,
         \A j \in Inodes : inode'[j].blocks \in {inode[j].blocks, NoBlocks},
         \/ used' = used
         \/ \E i \in Inodes : inode'[i].blocks = NoBlocks /\ used' = used \ BlocksOf(i)
  PROVE  BlocksExclusive'
<1>1. ASSUME NEW i \in Inodes, NEW k \in 0 .. Direct - 1, inode'[i].blocks[k] # 0
      PROVE  inode'[i].blocks = inode[i].blocks
  <2>1. inode'[i].blocks # NoBlocks BY <1>1 DEF NoBlocks
  <2> QED BY <2>1
<1>2. ASSUME NEW i \in Inodes, NEW k \in 0 .. Direct - 1, inode'[i].blocks[k] # 0
      PROVE  inode'[i].blocks[k] \in used'
  <2>1. inode'[i].blocks = inode[i].blocks /\ inode[i].blocks[k] \in used
    BY <1>1, <1>2 DEF BlocksExclusive
  <2>2. ASSUME NEW m \in Inodes, inode'[m].blocks = NoBlocks, used' = used \ BlocksOf(m)
        PROVE  inode[i].blocks[k] \notin BlocksOf(m)
    <3> SUFFICES ASSUME NEW l \in 0 .. Direct - 1, inode[i].blocks[k] = inode[m].blocks[l]
                 PROVE  FALSE
      BY DEF BlocksOf
    <3>1. i = m BY <1>2, <2>1 DEF BlocksExclusive
    <3> QED BY <1>2, <2>2, <3>1 DEF NoBlocks
  <2> QED BY <2>1, <2>2
<1>3. ASSUME NEW i \in Inodes, NEW j \in Inodes, NEW k \in 0 .. Direct - 1,
             NEW l \in 0 .. Direct - 1,
             inode'[i].blocks[k] # 0, inode'[i].blocks[k] = inode'[j].blocks[l]
      PROVE  i = j /\ k = l
  <2>1. inode'[i].blocks = inode[i].blocks /\ inode'[j].blocks = inode[j].blocks BY <1>1, <1>3
  <2> QED BY <1>3, <2>1 DEF BlocksExclusive
<1> QED BY <1>2, <1>3 DEF BlocksExclusive

LEMMA OpensBlocks ==
  ASSUME TypeOK, BlocksExclusive, NEW i \in Inodes, Opens(i)
  PROVE  BlocksExclusive'
<1>1. \A j \in Inodes : inode'[j].blocks \in {inode[j].blocks, NoBlocks} BY DEF Opens, SameData
<1>2. used' = used \/ (inode'[i].blocks = NoBlocks /\ used' = used \ BlocksOf(i)) BY DEF Opens
<1> QED BY <1>1, <1>2, FewerBlocks

LEMMA AddsBlocks ==
  ASSUME TypeOK, BlocksExclusive, NEW i \in Inodes, NEW d \in Inodes, NEW name, Adds(i, d, name)
  PROVE  BlocksExclusive'
<1>1. \A j \in Inodes : inode'[j].blocks \in {inode[j].blocks, NoBlocks} BY DEF Adds, SameData
<1>2. used' = used BY DEF Adds
<1> QED BY <1>1, <1>2, FewerBlocks

LEMMA RemovesBlocks ==
  ASSUME TypeOK, BlocksExclusive, NEW i \in Inodes, Removes(i)
  PROVE  BlocksExclusive'
<1>1. \A j \in Inodes : inode'[j].blocks \in {inode[j].blocks, NoBlocks} BY DEF Removes
<1>2. inode'[i].blocks = NoBlocks /\ used' = used \ BlocksOf(i) BY DEF Removes
<1> QED BY <1>1, <1>2, FewerBlocks

LEMMA SameBlocks ==
  ASSUME TypeOK, BlocksExclusive, NEW f \in Fds, Closes(f) \/ Moves(f)
  PROVE  BlocksExclusive'
<1>1. \A j \in Inodes : inode'[j].blocks \in {inode[j].blocks, NoBlocks}
  BY DEF Closes, RefSet, Moves
<1>2. used' = used BY DEF Closes, Moves
<1> QED BY <1>1, <1>2, FewerBlocks

LEMMA WritesToBlocks ==
  ASSUME TypeOK, BlocksExclusive, NEW f \in Fds, fd[f].inode # NULL, NEW data \in Seq(Nat),
         WritesTo(f, data)
  PROVE  BlocksExclusive'
<1> DEFINE i == fd[f].inode
           w == Written(f, data)
           list == inode[i].blocks
<1>1. i \in Inodes /\ inode'[i].blocks = w.blocks /\ used' = w.used
      /\ \A j \in Inodes \ {i} : inode'[j].blocks = inode[j].blocks
  BY DEF WritesTo, SameData
<1>2. Allocates(list, w) BY WrittenIs
<1> HIDE DEF w, list
<1>3. ASSUME NEW j \in Inodes, NEW k \in 0 .. Direct - 1, inode'[j].blocks[k] # 0
      PROVE  inode'[j].blocks[k] \in used'
  <2>1. CASE j = i BY <1>1, <1>2, <1>3, <2>1 DEF Allocates
  <2>2. CASE j # i BY <1>1, <1>2, <1>3, <2>2 DEF Allocates, BlocksExclusive
  <2> QED BY <2>1, <2>2
<1>4. ASSUME NEW j \in Inodes, NEW k \in 0 .. Direct - 1, NEW l \in 0 .. Direct - 1,
             j # i, w.blocks[k] # 0
      PROVE  w.blocks[k] # inode[j].blocks[l]
  <2>1. CASE list[k] = 0
    <3>1. w.blocks[k] \notin used BY <1>2, <1>4, <2>1 DEF Allocates
    <3> QED BY <1>4, <3>1 DEF BlocksExclusive
  <2>2. CASE list[k] # 0
    <3>1. w.blocks[k] = inode[i].blocks[k] BY <1>2, <2>2 DEF Allocates, list
    <3> QED BY <1>1, <1>4, <3>1 DEF BlocksExclusive
  <2> QED BY <2>1, <2>2
<1>5. ASSUME NEW j \in Inodes, NEW m \in Inodes, NEW k \in 0 .. Direct - 1,
             NEW l \in 0 .. Direct - 1,
             inode'[j].blocks[k] # 0, inode'[j].blocks[k] = inode'[m].blocks[l]
      PROVE  j = m /\ k = l
  <2>1. CASE j = i /\ m = i BY <1>1, <1>2, <1>5, <2>1 DEF Allocates
  <2>2. CASE j = i /\ m # i BY <1>1, <1>4, <1>5, <2>2
  <2>3. CASE j # i /\ m = i BY <1>1, <1>4, <1>5, <2>3
  <2>4. CASE j # i /\ m # i BY <1>1, <1>5, <2>4 DEF BlocksExclusive
  <2> QED BY <2>1, <2>2, <2>3, <2>4
<1> QED BY <1>3, <1>5 DEF BlocksExclusive

(* Every step is one of these.                                             *)
Changes ==
  \/ \E i \in Inodes : Opens(i)
  \/ \E i, d \in Inodes, name \in Names : Adds(i, d, name)
  \/ \E i \in Inodes : Removes(i) /\ stale' \in BOOLEAN
  \/ \E f \in Fds : Closes(f) \/ Moves(f)
  \/ \E f \in Fds, data \in Seq(Nat) : fd[f].inode # NULL /\ WritesTo(f, data)
  \/ UNCHANGED vars

LEMMA ChangesKept ==
  ASSUME TypeOK, BlocksExclusive, Changes
  PROVE  TypeOK' /\ BlocksExclusive'
<1>1. CASE \E i \in Inodes : Opens(i) BY <1>1, OpensTypes, OpensBlocks
<1>2. CASE \E i, d \in Inodes, name \in Names : Adds(i, d, name) BY <1>2, AddsTypes, AddsBlocks
<1>3. CASE \E i \in Inodes : Removes(i) /\ stale' \in BOOLEAN
  BY <1>3, RemovesTypes, RemovesBlocks
<1>4. CASE \E f \in Fds : Closes(f) \/ Moves(f) BY <1>4, ClosesTypes, MovesTypes, SameBlocks
<1>5. CASE \E f \in Fds, data \in Seq(Nat) : fd[f].inode # NULL /\ WritesTo(f, data)
  BY <1>5, WritesToTypes, WritesToBlocks
<1>6. CASE UNCHANGED vars
  <2>1. TypeOK' BY <1>6 DEF vars, TypeOK
  <2>2. BlocksExclusive' BY <1>6 DEF vars, BlocksExclusive
  <2> QED BY <2>1, <2>2
<1> QED BY <1>1, <1>2, <1>3, <1>4, <1>5, <1>6 DEF Changes

LEMMA RootPlace == Root \in Inodes /\ Root \in Places
BY Sizes DEF Root, Inodes, Places

LEMMA PathNames == ASSUME NEW path \in Paths PROVE path \in Seq(Names) \ {<<>>}
BY PathsAssumption

LEMMA LastName == ASSUME NEW path \in Seq(Names) \ {<<>>} PROVE Last(path) \in Names
<1>1. Len(path) \in 1 .. Len(path) OBVIOUS
<1> QED BY <1>1 DEF Last

LEMMA OpenChanges ==
  ASSUME TypeOK, NEW begin \in Places, NEW path \in Seq(Names) \ {<<>>}, NEW mode,
         Open(begin, path, mode)
  PROVE  Changes
<1>1. CASE \E i \in Inodes : Opens(i) BY <1>1 DEF Changes
<1>2. CASE \E i \in FreeInodes, d \in Inodes : Adds(i, d, Last(path))
  BY <1>2, LastName DEF Changes, FreeInodes
<1> QED BY <1>1, <1>2, OpenIs

LEMMA MkdirChanges ==
  ASSUME TypeOK, NEW begin \in Places, NEW path \in Seq(Names) \ {<<>>}, Mkdir(begin, path)
  PROVE  Changes
BY MkdirIs, LastName DEF Changes, FreeInodes

LEMMA RemovalChanges ==
  ASSUME TypeOK, NEW begin \in Places, NEW path \in Seq(Names) \ {<<>>},
         Unlink(begin, path) \/ Rmdir(begin, path)
  PROVE  Changes
<1> DEFINE i == Resolve(begin, path)
<1>1. i \in Inodes
  <2>1. i \in Places BY ResolveType
  <2>2. i # NULL BY DEF Unlink, Rmdir
  <2> QED BY <2>1, <2>2 DEF Places
<1>2. Removed(i) BY DEF Unlink, Rmdir
<1>3. stale \in BOOLEAN BY DEF TypeOK
<1>4. stale' \in BOOLEAN
  <2>1. CASE Unlink(begin, path)
    <3>1. stale' = stale BY <2>1 DEF Unlink
    <3> QED BY <1>3, <3>1
  <2>2. CASE Rmdir(begin, path)
    <3>1. stale' = (stale \/ OpenOf(i) # {}) BY <2>2 DEF Rmdir
    <3> HIDE DEF i
    <3> QED BY <3>1
  <2> QED BY <2>1, <2>2
<1> HIDE DEF i
<1>5. Removes(i) BY <1>1, <1>2, RemovedIs
<1> QED BY <1>1, <1>4, <1>5 DEF Changes

LEMMA NextChanges ==
  ASSUME TypeOK, [Next]_vars
  PROVE  Changes
<1>1. CASE \E path \in Paths, mode \in Modes : Open(Root, path, mode)
  BY <1>1, PathNames, RootPlace, OpenChanges
<1>2. CASE \E path \in Paths : Mkdir(Root, path)
  BY <1>2, PathNames, RootPlace, MkdirChanges
<1>3. CASE \E path \in Paths : Unlink(Root, path) \/ Rmdir(Root, path)
  BY <1>3, PathNames, RootPlace, RemovalChanges
<1>4. CASE \E f \in Fds : Close(f) BY <1>4, CloseIs DEF Changes
<1>5. CASE \E f \in Fds, data \in Writes : Write(f, data)
  <2>1. PICK f \in Fds, data \in Writes : Write(f, data) BY <1>5
  <2>2. data \in Seq(Nat) /\ fd[f].inode # NULL BY <2>1, RamFSAssumption DEF Write
  <2> QED BY <2>1, <2>2, WriteIs DEF Changes
<1>6. CASE \E f \in Fds, data \in Writes : Read(f, Len(data))
  <2>1. PICK f \in Fds, data \in Writes : Read(f, Len(data)) BY <1>6
  <2>2. Len(data) \in Nat
    <3>1. data \in Seq(Nat) BY RamFSAssumption
    <3> QED BY <3>1
  <2> QED BY <2>1, <2>2, ReadIs DEF Changes
<1>7. CASE \E f \in Fds, offset \in Offsets : Seek(f, offset) BY <1>7, SeekIs DEF Changes
<1>8. CASE UNCHANGED vars BY <1>8 DEF Changes
<1> QED BY <1>1, <1>2, <1>3, <1>4, <1>5, <1>6, <1>7, <1>8 DEF Next

(* The nodes of the first state.                                           *)
FreshNode(node) ==
  /\ node \in [name : Names, type : {"file", "dir"}, size : Nat,
               ref : 0 .. Word - 1, blocks : BlockLists,
               parent : Inodes \cup {NULL}, children : Seq(Inodes)]
  /\ node.blocks = NoBlocks

LEMMA InitKept ==
  ASSUME Init
  PROVE  TypeOK /\ BlocksExclusive
<1>1. NoBlocks \in BlockLists /\ Zeros \in [0 .. BlockSize - 1 -> Nat]
  BY Sizes DEF NoBlocks, BlockLists, Blocks, Zeros
<1>2. ASSUME NEW i \in Inodes PROVE FreshNode(inode[i])
  <2>1. {0, 1, 2} \subseteq 0 .. Word - 1 /\ {1, 2, 3} \subseteq Inodes
    BY Sizes DEF Inodes
  <2>2. <<2>> \in Seq(Inodes) /\ <<3>> \in Seq(Inodes) /\ <<>> \in Seq(Inodes) BY <2>1
  <2>3. NoName \in Names /\ "/" \in Names /\ "etc" \in Names /\ "passwd" \in Names
    BY PathsAssumption DEF NoName
  <2> HIDE DEF NoBlocks, NoName
  <2>4. inode[i] = IF i = 1 THEN Node("/", "dir", 1, Root, <<2>>)
                   ELSE IF i = 2 THEN Node("etc", "dir", 1, Root, <<3>>)
                   ELSE IF i = 3 THEN Node("passwd", "file", 2, 2, <<>>)
                   ELSE Node(NoName, "file", 0, NULL, <<>>)
    BY DEF Init, Blank
  <2>5. ASSUME NEW name \in Names, NEW type \in {"file", "dir"}, NEW ref \in 0 .. Word - 1,
               NEW parent \in Inodes \cup {NULL}, NEW children \in Seq(Inodes)
        PROVE  FreshNode(Node(name, type, ref, parent, children))
    BY <1>1 DEF Node, FreshNode
  <2>6. 1 \in Inodes \cup {NULL} /\ 2 \in Inodes \cup {NULL} /\ NULL \in Inodes \cup {NULL}
        /\ Root = 1 /\ 0 \in 0 .. Word - 1 /\ 1 \in 0 .. Word - 1 /\ 2 \in 0 .. Word - 1
    BY <2>1 DEF Root
  <2>7. CASE i = 1
    <3>1. inode[i] = Node("/", "dir", 1, Root, <<2>>) BY <2>4, <2>7
    <3> QED BY <2>2, <2>3, <2>5, <2>6, <3>1
  <2>8. CASE i = 2
    <3>1. inode[i] = Node("etc", "dir", 1, Root, <<3>>) BY <2>4, <2>8
    <3> QED BY <2>2, <2>3, <2>5, <2>6, <3>1
  <2>9. CASE i = 3
    <3>1. inode[i] = Node("passwd", "file", 2, 2, <<>>) BY <2>4, <2>9
    <3> QED BY <2>2, <2>3, <2>5, <2>6, <3>1
  <2>10. CASE i \notin {1, 2, 3}
    <3>1. inode[i] = Node(NoName, "file", 0, NULL, <<>>) BY <2>4, <2>10
    <3> QED BY <2>2, <2>3, <2>5, <2>6, <3>1
  <2> QED BY <2>7, <2>8, <2>9, <2>10
<1>3. inode \in Table
  <2>1. inode = [i \in Inodes |-> inode[i]] BY DEF Init
  <2> QED BY <1>2, <2>1 DEF Table, FreshNode
<1>4. TypeOK
  <2>1. fd \in [Fds -> [inode : Inodes \cup {NULL}, pos : Nat]]
    BY Sizes DEF Init, Closed, Inodes
  <2>2. storage \in StoreTypes /\ content \in [Inodes -> Seq(Nat)]
    BY <1>1 DEF Init, StoreTypes
  <2>3. used \subseteq Blocks /\ stale \in BOOLEAN BY DEF Init
  <2> QED BY <1>3, <2>1, <2>2, <2>3, TableIs
<1>5. BlocksExclusive BY <1>2 DEF BlocksExclusive, NoBlocks, FreshNode
<1> QED BY <1>4, <1>5

(* The calls of fs/fs.c keep every field of an inode, descriptor and block *)
(* in its type, and no block comes to belong to two files or twice to one, *)
(* or is up for allocation while it belongs to one, whatever is removed    *)
(* while it is open.                                                       *)
THEOREM BlocksStayExclusive == Spec => [](TypeOK /\ BlocksExclusive)
<1>1. Init => TypeOK /\ BlocksExclusive BY InitKept
<1>2. TypeOK /\ BlocksExclusive /\ [Next]_vars => (TypeOK /\ BlocksExclusive)'
  BY NextChanges, ChangesKept
<1> QED BY <1>1, <1>2, PTL DEF Spec
-----------------------------------------------------------------------------
(* The tree.  What the calls keep as long as no open directory was         *)
(* removed: the reference counts, the files of fs_init (an inode that is   *)
(* in use is never unlinked, so that its directories are never empty), and *)
(* the links between the inodes.                                           *)
Refs ==
  \A i \in Inodes :
    IF i \in InUse THEN inode[i].ref = 1 + Cardinality(OpenOf(i)) ELSE OpenOf(i) = {}

Booted ==
  /\ Root \in InUse /\ 2 \in InUse /\ 3 \in InUse
  /\ inode[Root].type = "dir" /\ inode[Root].parent = Root
  /\ inode[2].parent = Root
  /\ inode[3].parent = 2 /\ inode[3].type = "file"

Listed ==
  \A i \in InUse \ {Root} :
    /\ inode[i].parent \in InUse /\ inode[inode[i].parent].type = "dir"
    /\ \E k \in DOMAIN inode[inode[i].parent].children :
         inode[inode[i].parent].children[k] = i

Once ==
  \A d \in Inodes : \A k \in DOMAIN inode[d].children :
    /\ inode[d].children[k] \in InUse \ {Root}
    /\ inode[inode[d].children[k]].parent = d

Distinct ==
  \A d \in Inodes : \A k, l \in DOMAIN inode[d].children :
    k # l => /\ inode[d].children[k] # inode[d].children[l]
             /\ inode[inode[d].children[k]].name # inode[inode[d].children[l]].name

Empty == \A d \in FreeInodes : inode[d].children = <<>>

Reached == \E n \in Nat : InUse \subseteq Up[n]

Standing == Refs /\ Booted /\ Listed /\ Once /\ Distinct /\ Empty /\ Reached

(* Parents.                                                                *)
LEMMA RootUp ==
  ASSUME Booted
  PROVE  \A n \in Nat : Root \in Up[n]
<1> DEFINE S == {n \in Nat : Root \in Up[n]}
<1>1. 0 \in S BY UpSteps
<1>2. ASSUME NEW n \in Nat, n \in S PROVE n + 1 \in S
  BY <1>2, UpSteps, RootPlace DEF Booted
<1> HIDE DEF S
<1>3. Nat \subseteq S BY <1>1, <1>2, Induction
<1> QED BY <1>3 DEF S

LEMMA UpGrows ==
  ASSUME Booted, NEW n \in Nat, NEW m \in Nat, n <= m
  PROVE  Up[n] \subseteq Up[m]
<1> DEFINE S == {k \in Nat : Up[k] \subseteq Up[k + 1]}
<1>1. Nat \subseteq S
  <2>1. 0 \in S
    <3>1. Up[0] = {Root} /\ Root \in Up[0 + 1] BY UpSteps, RootUp
    <3> QED BY <3>1
  <2>2. ASSUME NEW k \in Nat, k \in S PROVE k + 1 \in S
    <3>1. Up[k + 1] = {i \in Inodes : inode[i].parent \in Up[k]}
          /\ Up[k + 1 + 1] = {i \in Inodes : inode[i].parent \in Up[k + 1]}
          /\ Up[k] \subseteq Up[k + 1]
      BY <2>2, UpSteps
    <3> QED BY <3>1
  <2> HIDE DEF S
  <2> QED BY <2>1, <2>2, Induction
<1> DEFINE T == {k \in Nat : k >= n => Up[n] \subseteq Up[k]}
<1>2. Nat \subseteq T
  <2>1. 0 \in T
    <3>1. 0 >= n => n = 0 OBVIOUS
    <3> QED BY <3>1
  <2>2. ASSUME NEW k \in Nat, k \in T PROVE k + 1 \in T
    <3>1. CASE k >= n
      <4>1. Up[n] \subseteq Up[k] /\ Up[k] \subseteq Up[k + 1] BY <1>1, <2>2, <3>1
      <4> QED BY <4>1
    <3>2. CASE k + 1 = n BY <3>2
    <3>3. CASE k + 1 < n BY <3>3
    <3> QED BY <3>1, <3>2, <3>3
  <2> HIDE DEF T
  <2> QED BY <2>1, <2>2, Induction
<1> QED BY <1>2

(* The inodes whose parents are kept stay as near to the root as they are. *)
LEMMA UpKept ==
  ASSUME Booted, NEW S, S \subseteq Inodes, inode'[Root].parent = Root,
         \A i \in S \ {Root} : inode[i].parent \in S /\ inode'[i].parent = inode[i].parent
  PROVE  \A n \in Nat : Up[n] \cap S \subseteq Up'[n] /\ Root \in Up'[n]
<1> DEFINE T == {n \in Nat : Up[n] \cap S \subseteq Up'[n] /\ Root \in Up'[n]}
<1>1. 0 \in T BY UpSteps, UpStepsNext
<1>2. ASSUME NEW n \in Nat, n \in T PROVE n + 1 \in T
  <2>1. Up[n + 1] = {i \in Inodes : inode[i].parent \in Up[n]} BY UpSteps
  <2>2. Up'[n + 1] = {i \in Inodes : inode'[i].parent \in Up'[n]} BY UpStepsNext
  <2>3. Root \in Up'[n + 1] BY <1>2, <2>2, RootPlace
  <2>4. ASSUME NEW i \in Up[n + 1] \cap S PROVE i \in Up'[n + 1]
    <3>1. CASE i = Root BY <2>3, <3>1
    <3>2. CASE i # Root
      <4>1. i \in Inodes /\ inode[i].parent \in Up[n] /\ inode[i].parent \in S
            /\ inode'[i].parent = inode[i].parent
        BY <2>1, <3>2
      <4>2. inode'[i].parent \in Up'[n] BY <1>2, <4>1
      <4> QED BY <2>2, <4>1, <4>2
    <3> QED BY <3>1, <3>2
  <2> QED BY <2>3, <2>4
<1> HIDE DEF T
<1>3. Nat \subseteq T BY <1>1, <1>2, Induction
<1> QED BY <1>3 DEF T

(* There are no more levels than inodes: each but the last has one more.   *)
LEMMA Levels ==
  ASSUME Booted, Listed, Reached
  PROVE  InUse \subseteq Up[MaxFiles]
<1> DEFINE L(n) == InUse \cap Up[n]
           S == {n \in Nat : L(n) = InUse \/ Cardinality(L(n)) >= n + 1}
<1>1. \A n \in Nat : IsFiniteSet(L(n)) /\ Cardinality(L(n)) \in Nat
                     /\ Cardinality(L(n)) <= MaxFiles
  <2>1. IsFiniteSet(Inodes) /\ Cardinality(Inodes) = MaxFiles
    <3>1. 1 .. MaxFiles = Inodes /\ MaxFiles \in Nat BY Sizes DEF Inodes
    <3>2. IsFiniteSet(1 .. MaxFiles)
          /\ Cardinality(1 .. MaxFiles) = IF 1 > MaxFiles THEN 0 ELSE MaxFiles - 1 + 1
      BY <3>1, FS_Interval
    <3> QED BY <3>1, <3>2, Sizes
  <2>2. \A n \in Nat : L(n) \subseteq Inodes BY DEF InUse
  <2> HIDE DEF L
  <2> QED BY <2>1, <2>2, FS_Subset, FS_CardinalityType
<1>2. 0 \in S
  <2>1. Root \in L(0) BY UpSteps DEF Booted
  <2>2. Cardinality(L(0)) # 0
    <3> HIDE DEF L
    <3> QED BY <1>1, <2>1, FS_EmptySet
  <2> HIDE DEF L
  <2> QED BY <1>1, <2>2
<1>3. ASSUME NEW n \in Nat, n \in S PROVE n + 1 \in S
  <2>1. Up[n] \subseteq Up[n + 1] BY UpGrows
  <2>2. L(n) \subseteq L(n + 1) BY <2>1
  <2>3. CASE L(n) = InUse BY <2>2, <2>3
  <2>4. CASE L(n) # InUse
    <3>1. Cardinality(L(n)) >= n + 1 BY <1>3, <2>4
    <3> DEFINE M == {m \in Nat : L(m) \ L(n) # {}}
    <3>2. M # {} /\ M \subseteq Nat
      <4>1. PICK m \in Nat : InUse \subseteq Up[m] BY DEF Reached
      <4>2. L(m) = InUse BY <4>1
      <4>3. m \in M BY <2>4, <4>2
      <4> QED BY <4>3
    <3>3. PICK m \in M : \A l \in M : m <= l
      <4> HIDE DEF M
      <4> QED BY <3>2, LeastExists
    <3>4. PICK i : i \in L(m) /\ i \notin L(n) BY <3>3
    <3>5. m # 0
      <4>1. L(0) \subseteq {Root} /\ Root \in Up[n] BY UpSteps, RootUp
      <4> QED BY <3>4, <4>1
    <3>6. m - 1 \in Nat /\ (m - 1) + 1 = m BY <3>3, <3>5
    <3>7. L(m - 1) \subseteq L(n)
      <4>1. ~(m - 1 \in M) BY <3>3, <3>6
      <4> QED BY <3>6, <4>1
    <3>8. Up[m] = {j \in Inodes : inode[j].parent \in Up[m - 1]}
          /\ Up[n + 1] = {j \in Inodes : inode[j].parent \in Up[n]}
      BY <3>6, UpSteps
    <3>9. i \in L(n + 1)
      <4>1. i \in Inodes /\ inode[i].parent \in Up[m - 1] /\ i \in InUse BY <3>4, <3>8
      <4>2. i # Root BY <3>4, RootUp, <4>1
      <4>3. inode[i].parent \in InUse BY <4>1, <4>2 DEF Listed
      <4>4. inode[i].parent \in L(n) BY <3>7, <4>1, <4>3
      <4> QED BY <3>8, <4>1, <4>4
    <3> HIDE DEF L, M
    <3>10. IsFiniteSet(L(n) \cup {i}) /\ Cardinality(L(n) \cup {i}) = Cardinality(L(n)) + 1
      BY <1>1, <3>4, FS_AddElement
    <3>11. L(n) \cup {i} \subseteq L(n + 1) BY <2>2, <3>9
    <3>12. Cardinality(L(n) \cup {i}) <= Cardinality(L(n + 1)) BY <1>1, <3>11, FS_Subset
    <3>13. Cardinality(L(n + 1)) >= (n + 1) + 1
      <4>1. Cardinality(L(n)) \in Nat /\ Cardinality(L(n + 1)) \in Nat BY <1>1
      <4> QED BY <3>1, <3>10, <3>12, <4>1
    <3> QED BY <3>13
  <2> QED BY <2>3, <2>4
<1>4. Nat \subseteq S
  <2> HIDE DEF S
  <2> QED BY <1>2, <1>3, Induction
<1>5. MaxFiles \in S BY <1>4, Sizes
<1>6. L(MaxFiles) = InUse
  <2>1. Cardinality(L(MaxFiles)) \in Nat /\ Cardinality(L(MaxFiles)) <= MaxFiles
    BY <1>1, Sizes
  <2> HIDE DEF L
  <2> QED BY <1>5, <2>1, Sizes
<1> QED BY <1>6

(* The invariant says that the tree is sound.                              *)
LEMMA StandingSound ==
  ASSUME TypeOK, Standing
  PROVE  Rooted
<1>1. ASSUME NEW i \in InUse \ {Root}
      PROVE  /\ inode[i].parent \in InUse
             /\ inode[inode[i].parent].type = "dir"
             /\ \A d \in Inodes : Range(inode[d].children) \cap {i} # {} => d = inode[i].parent
             /\ i \in Range(inode[inode[i].parent].children)
  <2>1. inode[i].parent \in InUse /\ inode[inode[i].parent].type = "dir"
    BY DEF Standing, Listed
  <2>2. ASSUME NEW d \in Inodes, Range(inode[d].children) \cap {i} # {}
        PROVE  d = inode[i].parent
    <3>1. PICK k \in DOMAIN inode[d].children : inode[d].children[k] = i BY <2>2 DEF Range
    <3> QED BY <3>1 DEF Standing, Once
  <2>3. i \in Range(inode[inode[i].parent].children)
    <3>1. PICK k \in DOMAIN inode[inode[i].parent].children :
            inode[inode[i].parent].children[k] = i
      BY DEF Standing, Listed
    <3> QED BY <3>1 DEF Range
  <2> QED BY <2>1, <2>2, <2>3
<1>2. InUse \subseteq Up[MaxFiles] BY Levels DEF Standing
<1>3. ASSUME NEW d \in InUse, NEW k \in DOMAIN inode[d].children,
             NEW l \in DOMAIN inode[d].children
      PROVE  LET c == inode[d].children IN
             /\ c[k] \in InUse
             /\ k # l => c[k] # c[l] /\ inode[c[k]].name # inode[c[l]].name
  BY DEF Standing, Once, Distinct, InUse
<1> QED BY <1>1, <1>2, <1>3 DEF Rooted

(* Paths that begin at an inode in use lead to one, or nowhere.            *)
LEMMA ResolveInUse ==
  ASSUME TypeOK, Standing, NEW begin \in InUse \cup {NULL}, NEW P, NEW path \in Seq(P)
  PROVE  Resolve(begin, path) \in InUse \cup {NULL}
<1>1. InUse \cup {NULL} \subseteq Places BY DEF InUse, Places
<1>2. PICK w : Walks(w, begin, path) /\ Resolve(begin, path) = w[Len(path)]
  BY <1>1, ResolveWalks
<1>3. ASSUME NEW d \in InUse \cup {NULL}, NEW component
      PROVE  Lookup(d, component) \in InUse \cup {NULL}
  <2>1. CASE d = NULL BY <2>1 DEF Lookup
  <2>2. CASE d # NULL
    <3>1. d \in InUse /\ d \in Inodes BY <2>2 DEF InUse
    <3>2. inode[d].parent \in InUse
      <4>1. CASE d = Root BY <4>1 DEF Standing, Booted
      <4>2. CASE d # Root BY <3>1, <4>2 DEF Standing, Listed
      <4> QED BY <4>1, <4>2
    <3>3. FindChild(d, component) \in InUse \cup {NULL}
      BY <3>1, FindChildIs DEF Standing, Once
    <3> QED BY <2>2, <3>1, <3>2, <3>3 DEF Lookup
  <2> QED BY <2>1, <2>2
<1> DEFINE n == Len(path)
           S == {k \in 0 .. n : w[k] \in InUse \cup {NULL}}
<1>4. 0 .. n \subseteq S
  <2>1. n \in Nat /\ 0 \in S BY <1>2 DEF Walks
  <2>2. ASSUME NEW k \in 0 .. n - 1, k \in S PROVE k + 1 \in S
    <3>1. k + 1 \in 1 .. n /\ (k + 1) - 1 = k /\ k + 1 \in 0 .. n BY <2>1
    <3>2. w[k + 1] = Lookup(w[k], path[k + 1]) BY <1>2, <3>1 DEF Walks
    <3>3. w[k + 1] \in InUse \cup {NULL} BY <1>3, <2>2, <3>2
    <3> QED BY <3>1, <3>3
  <2> HIDE DEF S, n
  <2> QED BY <2>1, <2>2, BoundedInduction
<1>5. n \in 0 .. n OBVIOUS
<1> QED BY <1>2, <1>4, <1>5
(* Reference counts.                                                       *)
LEMMA OpenCount ==
  ASSUME NEW i
  PROVE  /\ OpenOf(i) \subseteq Fds /\ IsFiniteSet(Fds) /\ IsFiniteSet(OpenOf(i))
         /\ Cardinality(OpenOf(i)) \in Nat /\ Cardinality(Fds) = MaxOpen
<1>1. OpenOf(i) \subseteq Fds BY DEF OpenOf
<1>2. IsFiniteSet(Fds) /\ Cardinality(Fds) = MaxOpen
  <2>1. MaxOpen - 1 \in Int /\ ~(0 > MaxOpen - 1) /\ MaxOpen - 1 - 0 + 1 = MaxOpen BY Sizes
  <2> QED BY <2>1, FS_Interval DEF Fds
<1>3. IsFiniteSet(OpenOf(i)) BY <1>1, <1>2, FS_Subset
<1> QED BY <1>1, <1>2, <1>3, FS_CardinalityType

LEMMA OpenCountNext == ASSUME NEW i PROVE Cardinality(OpenOf(i)') \in Nat
<1>1. OpenOf(i)' \subseteq Fds BY DEF OpenOf
<1>2. IsFiniteSet(OpenOf(i)') BY <1>1, OpenCount, FS_Subset
<1> QED BY <1>2, FS_CardinalityType

LEMMA OneMoreOpen ==
  ASSUME TypeOK, NEW i \in Inodes, NEW f \in Fds, NEW pos, fd[f].inode = NULL,
         fd' = [fd EXCEPT ![f] = [inode |-> i, pos |-> pos]]
  PROVE  /\ Cardinality(OpenOf(i)') = Cardinality(OpenOf(i)) + 1
         /\ Cardinality(OpenOf(i)) + 1 <= MaxOpen
         /\ \A j \in Inodes \ {i} : OpenOf(j)' = OpenOf(j)
<1>1. \A g \in Fds : fd'[g].inode = IF g = f THEN i ELSE fd[g].inode BY DEF TypeOK
<1>2. NULL \notin Inodes BY DEF NULL, Inodes
<1>3. OpenOf(i)' = OpenOf(i) \cup {f} BY <1>1 DEF OpenOf
<1>4. f \notin OpenOf(i) BY <1>2 DEF OpenOf
<1>5. \A j \in Inodes \ {i} : OpenOf(j)' = OpenOf(j) BY <1>1, <1>2 DEF OpenOf
<1>6. Cardinality(OpenOf(i) \cup {f}) = Cardinality(OpenOf(i)) + 1
  BY <1>4, OpenCount, FS_AddElement
<1>7. Cardinality(OpenOf(i) \cup {f}) <= MaxOpen
  <2>1. OpenOf(i) \cup {f} \subseteq Fds BY OpenCount
  <2> QED BY <2>1, OpenCount, FS_Subset
<1> QED BY <1>3, <1>5, <1>6, <1>7

LEMMA OneLessOpen ==
  ASSUME TypeOK, NEW f \in Fds, NEW i \in Inodes, fd[f].inode = i,
         fd' = [fd EXCEPT ![f] = Closed]
  PROVE  /\ Cardinality(OpenOf(i)') = Cardinality(OpenOf(i)) - 1
         /\ Cardinality(OpenOf(i)) >= 1 /\ OpenOf(i) # {}
         /\ \A j \in Inodes \ {i} : OpenOf(j)' = OpenOf(j)
<1>1. \A g \in Fds : fd'[g].inode = IF g = f THEN NULL ELSE fd[g].inode BY DEF TypeOK, Closed
<1>2. NULL \notin Inodes BY DEF NULL, Inodes
<1>3. OpenOf(i)' = OpenOf(i) \ {f} BY <1>1, <1>2 DEF OpenOf
<1>4. f \in OpenOf(i) BY DEF OpenOf
<1>5. \A j \in Inodes \ {i} : OpenOf(j)' = OpenOf(j) BY <1>1, <1>2 DEF OpenOf
<1>6. Cardinality(OpenOf(i) \ {f}) = Cardinality(OpenOf(i)) - 1
      /\ Cardinality(OpenOf(i) \ {f}) \in Nat /\ Cardinality(OpenOf(i)) \in Nat
  <2>1. IsFiniteSet(OpenOf(i) \ {f})
        /\ Cardinality(OpenOf(i) \ {f}) = Cardinality(OpenOf(i)) - 1
    BY <1>4, OpenCount, FS_RemoveElement
  <2> QED BY <2>1, OpenCount, FS_CardinalityType
<1>7. Cardinality(OpenOf(i)) >= 1 BY <1>6
<1> QED BY <1>3, <1>4, <1>5, <1>6, <1>7

(* The count of an inode that may have got a descriptor.                   *)
Counted(i) ==
  /\ inode'[i].ref = 1 + Cardinality(OpenOf(i)')
  /\ \A j \in Inodes \ {i} : OpenOf(j)' = OpenOf(j)

LEMMA DescriptorCounts ==
  ASSUME TypeOK, NEW i \in Inodes, Descriptor(i, 1 + Cardinality(OpenOf(i)))
  PROVE  Counted(i)
<1> DEFINE n == Cardinality(OpenOf(i))
<1>1. n \in Nat BY OpenCount
<1>2. CASE fd' = fd /\ inode'[i].ref = 1 + n BY <1>2 DEF Counted, OpenOf
<1>3. CASE \E f \in Fds, pos \in Nat :
             /\ fd[f].inode = NULL
             /\ fd' = [fd EXCEPT ![f] = [inode |-> i, pos |-> pos]]
             /\ inode'[i].ref = (1 + n + 1) % Word
  <2>1. PICK f \in Fds, pos \in Nat :
             /\ fd[f].inode = NULL
             /\ fd' = [fd EXCEPT ![f] = [inode |-> i, pos |-> pos]]
             /\ inode'[i].ref = (1 + n + 1) % Word
    BY <1>3
  <2>2. /\ Cardinality(OpenOf(i)') = n + 1 /\ n + 1 <= MaxOpen
        /\ \A j \in Inodes \ {i} : OpenOf(j)' = OpenOf(j)
    BY <2>1, OneMoreOpen
  <2> HIDE DEF n
  <2>3. (1 + n + 1) % Word = 1 + (n + 1) BY <1>1, <2>2, Sizes
  <2> QED BY <2>1, <2>2, <2>3 DEF Counted
<1> QED BY <1>2, <1>3 DEF Descriptor

(* An inode with references is in use.                                     *)
LEMMA UsedWhen ==
  ASSUME NEW i \in Inodes
  PROVE  /\ i \in InUse <=> inode[i].ref # 0 \/ inode[i].name # NoName
         /\ i \in FreeInodes <=> i \notin InUse
BY DEF InUse, FreeInodes

LEMMA UsedWhenNext ==
  ASSUME NEW i \in Inodes
  PROVE  /\ i \in InUse' <=> inode'[i].ref # 0 \/ inode'[i].name # NoName
         /\ i \in FreeInodes' <=> i \notin InUse'
BY DEF InUse, FreeInodes

(* A call that leaves the tree alone.                                      *)
LEMMA TreeUntouched ==
  ASSUME TypeOK, Standing, \A j \in Inodes : SameNode(j), InUse' = InUse, Refs'
  PROVE  Standing'
<1>1. InUse \subseteq Inodes /\ FreeInodes' = FreeInodes /\ FreeInodes \subseteq Inodes
  BY UsedWhen, UsedWhenNext DEF InUse, FreeInodes
<1>2. \A j \in Inodes : inode[j].parent \in Inodes \cup {NULL} /\ inode[j].children \in Seq(Inodes)
  BY DEF TypeOK
<1>3. Booted' BY <1>1 DEF Standing, Booted, SameNode
<1>4. Listed'
  <2> SUFFICES ASSUME NEW i \in InUse \ {Root}
               PROVE  /\ inode'[i].parent \in InUse /\ inode'[inode'[i].parent].type = "dir"
                      /\ \E k \in DOMAIN inode'[inode'[i].parent].children :
                           inode'[inode'[i].parent].children[k] = i
    BY DEF Listed
  <2>1. i \in Inodes /\ inode[i].parent \in Inodes BY <1>1 DEF Standing, Listed
  <2>2. SameNode(i) /\ SameNode(inode[i].parent) BY <2>1
  <2> QED BY <2>2 DEF Standing, Listed, SameNode
<1>5. ASSUME NEW d \in Inodes
      PROVE  /\ inode'[d].children = inode[d].children
             /\ \A k \in DOMAIN inode[d].children : inode[d].children[k] \in Inodes
  BY <1>2 DEF SameNode
<1>6. Once'
  <2> SUFFICES ASSUME NEW d \in Inodes, NEW k \in DOMAIN inode[d].children
               PROVE  /\ inode[d].children[k] \in InUse \ {Root}
                      /\ inode'[inode[d].children[k]].parent = d
    BY <1>5 DEF Once
  <2> QED BY <1>5 DEF Standing, Once, SameNode
<1>7. Distinct'
  <2> SUFFICES ASSUME NEW d \in Inodes, NEW k \in DOMAIN inode[d].children,
                      NEW l \in DOMAIN inode[d].children, k # l
               PROVE  /\ inode[d].children[k] # inode[d].children[l]
                      /\ inode'[inode[d].children[k]].name # inode'[inode[d].children[l]].name
    BY <1>5 DEF Distinct
  <2> QED BY <1>5 DEF Standing, Distinct, SameNode
<1>8. Empty' BY <1>1, <1>5 DEF Standing, Empty
<1>9. Reached'
  <2>1. PICK n \in Nat : InUse \subseteq Up[n] BY DEF Standing, Reached
  <2>2. inode'[Root].parent = Root BY RootPlace DEF Standing, Booted, SameNode
  <2>3. \A i \in InUse \ {Root} : inode[i].parent \in InUse /\ inode'[i].parent = inode[i].parent
    BY <1>1 DEF Standing, Listed, SameNode
  <2>4. Up[n] \cap InUse \subseteq Up'[n] BY <1>1, <2>2, <2>3, UpKept DEF Standing
  <2>5. InUse \subseteq Up'[n] BY <2>1, <2>4
  <2> QED BY <2>5 DEF Reached
<1> QED BY <1>3, <1>4, <1>6, <1>7, <1>8, <1>9 DEF Standing

LEMMA OpensStands ==
  ASSUME TypeOK, Standing, NEW i \in InUse, Opens(i)
  PROVE  Standing' /\ InUse' = InUse
<1>1. i \in Inodes /\ \A j \in Inodes : SameNode(j) BY DEF InUse, Opens
<1>2. Counted(i)
  <2>1. inode[i].ref = 1 + Cardinality(OpenOf(i)) BY <1>1 DEF Standing, Refs
  <2> QED BY <1>1, <2>1, DescriptorCounts DEF Opens
<1>3. inode'[i].ref # 0
  <2>1. Cardinality(OpenOf(i)') \in Nat BY OpenCountNext
  <2> QED BY <1>2, <2>1 DEF Counted
<1>4. \A j \in Inodes \ {i} : inode'[j].ref = inode[j].ref BY DEF Opens
<1>5. \A j \in Inodes : j \in InUse' <=> j \in InUse
  BY <1>1, <1>3, <1>4, UsedWhen, UsedWhenNext DEF SameNode
<1>6. InUse' = InUse BY <1>5 DEF InUse
<1>7. Refs'
  <2> SUFFICES ASSUME NEW j \in Inodes
               PROVE  IF j \in InUse THEN inode'[j].ref = 1 + Cardinality(OpenOf(j)')
                      ELSE OpenOf(j)' = {}
    BY <1>6 DEF Refs
  <2>1. CASE j = i BY <1>2, <2>1 DEF Counted
  <2>2. CASE j # i BY <1>2, <1>4, <2>2 DEF Counted, Standing, Refs
  <2> QED BY <2>1, <2>2
<1> QED BY <1>1, <1>6, <1>7, TreeUntouched

LEMMA ClosesStands ==
  ASSUME TypeOK, Standing, NEW f \in Fds, Closes(f)
  PROVE  Standing' /\ InUse' = InUse
<1>0. PICK i \in Inodes : fd[f].inode = i BY DEF Closes
<1>1. /\ inode'[i].ref = (inode[i].ref - 1) % Word
      /\ \A j \in Inodes \ {i} : inode'[j].ref = inode[j].ref
      /\ \A j \in Inodes : SameNode(j)
      /\ fd' = [fd EXCEPT ![f] = Closed]
  BY <1>0 DEF Closes, RefSet, SameFields, SameNode
<1> PICK n : n = Cardinality(OpenOf(i)) OBVIOUS
<1>2. /\ Cardinality(OpenOf(i)') = n - 1 /\ n >= 1 /\ OpenOf(i) # {} /\ n \in Nat
      /\ \A j \in Inodes \ {i} : OpenOf(j)' = OpenOf(j)
  BY <1>0, <1>1, OneLessOpen, OpenCount
<1>3. i \in InUse /\ inode[i].ref = 1 + n BY <1>1, <1>2 DEF Standing, Refs
<1>4. n <= MaxOpen
  BY OpenCount, FS_Subset
<1>5. inode'[i].ref = n
  <2>1. inode[i].ref - 1 = n BY <1>2, <1>3
  <2>2. n % Word = n BY <1>2, <1>4, Sizes
  <2> QED BY <1>1, <2>1, <2>2
<1>6. inode'[i].ref # 0 /\ inode'[i].ref = 1 + (n - 1) BY <1>2, <1>5
<1>7. \A j \in Inodes : j \in InUse' <=> j \in InUse
  BY <1>1, <1>3, <1>6, UsedWhen, UsedWhenNext DEF SameNode
<1>8. InUse' = InUse BY <1>7 DEF InUse
<1>9. Refs'
  <2> SUFFICES ASSUME NEW j \in Inodes
               PROVE  IF j \in InUse THEN inode'[j].ref = 1 + Cardinality(OpenOf(j)')
                      ELSE OpenOf(j)' = {}
    BY <1>8 DEF Refs
  <2>1. CASE j = i BY <1>2, <1>3, <1>6, <2>1
  <2>2. CASE j # i BY <1>1, <1>2, <2>2 DEF Standing, Refs
  <2> QED BY <2>1, <2>2
<1> QED BY <1>1, <1>8, <1>9, TreeUntouched

(* fs_read, fs_write and fs_seek only move a descriptor.                   *)
LEMMA MovedStands ==
  ASSUME TypeOK, Standing, \A j \in Inodes : SameNode(j) /\ inode'[j].ref = inode[j].ref,
         NEW f \in Fds, NEW pos, fd' = [fd EXCEPT ![f].pos = pos]
  PROVE  Standing' /\ InUse' = InUse
<1>1. \A g \in Fds : fd'[g].inode = fd[g].inode BY DEF TypeOK
<1>2. \A j \in Inodes : OpenOf(j)' = OpenOf(j) BY <1>1 DEF OpenOf
<1>3. \A j \in Inodes : j \in InUse' <=> j \in InUse
  BY UsedWhen, UsedWhenNext DEF SameNode
<1>4. InUse' = InUse BY <1>3 DEF InUse
<1>5. Refs' BY <1>2, <1>4 DEF Standing, Refs
<1> QED BY <1>4, <1>5, TreeUntouched
LEMMA InsertIs ==
  ASSUME NEW S, NEW s \in Seq(S), NEW e \in S, NEW t, t = <<e>> \o s
  PROVE  /\ 1 \in DOMAIN t /\ t[1] = e
         /\ \A k \in DOMAIN s : k + 1 \in DOMAIN t /\ t[k + 1] = s[k]
         /\ \A k \in DOMAIN t : k # 1 => k - 1 \in DOMAIN s /\ t[k] = s[k - 1]
<1>1. <<e>> \in Seq(S) /\ Len(<<e>>) = 1 /\ <<e>>[1] = e OBVIOUS
<1> PICK o : o = <<e>> OBVIOUS
<1>2. o \in Seq(S) /\ Len(o) = 1 /\ o[1] = e /\ t = o \o s BY <1>1
<1>3. t \in Seq(S) /\ Len(t) = 1 + Len(s) /\ Len(s) \in Nat BY <1>2
<1>4. DOMAIN t = 1 .. Len(s) + 1 /\ DOMAIN s = 1 .. Len(s) BY <1>3
<1>5. 1 \in DOMAIN t /\ t[1] = e BY <1>2, <1>3, <1>4
<1>6. ASSUME NEW k \in DOMAIN t, k # 1 PROVE k - 1 \in DOMAIN s /\ t[k] = s[k - 1]
  <2>1. k - 1 \in 1 .. Len(s) /\ k > Len(o) /\ k - Len(o) = k - 1 BY <1>2, <1>3, <1>4, <1>6
  <2> QED BY <1>2, <1>3, <1>4, <2>1
<1>7. ASSUME NEW k \in DOMAIN s PROVE k + 1 \in DOMAIN t /\ t[k + 1] = s[k]
  <2> PICK n \in Nat : n = Len(s) BY <1>3
  <2>0. k \in 1 .. n BY <1>4, <1>7
  <2>1. k + 1 \in 1 .. n + 1 /\ k + 1 # 1 /\ (k + 1) - 1 = k BY <2>0
  <2> QED BY <1>4, <1>6, <2>1
<1> QED BY <1>5, <1>6, <1>7

LEMMA AddsStands ==
  ASSUME TypeOK, Standing, NEW i \in FreeInodes, NEW d \in InUse, NEW name,
         Adds(i, d, name), NewName(d, name)
  PROVE  Standing' /\ InUse' = InUse \cup {i}
<1>1. i \in Inodes /\ d \in Inodes /\ i # d /\ i \notin InUse /\ InUse \subseteq Inodes
  BY DEF FreeInodes, InUse
<1>2. ASSUME NEW j \in Inodes, j # i
      PROVE  /\ inode'[j].name = inode[j].name /\ inode'[j].type = inode[j].type
             /\ inode'[j].parent = inode[j].parent /\ inode'[j].ref = inode[j].ref
             /\ j # d => inode'[j].children = inode[j].children
  BY <1>2 DEF Adds
<1>3. /\ inode'[i].parent = d /\ inode'[i].children = <<>> /\ inode'[i].name = name
      /\ inode'[d].children = <<i>> \o inode[d].children
  BY <1>1 DEF Adds
<1>4. Counted(i)
  <2>1. OpenOf(i) = {} BY <1>1 DEF Standing, Refs
  <2>2. Cardinality(OpenOf(i)) = 0 BY <2>1, FS_EmptySet
  <2>3. Descriptor(i, 1 + 0) BY DEF Adds
  <2> QED BY <1>1, <2>2, <2>3, DescriptorCounts
<1>5. inode'[i].ref # 0
  <2>1. Cardinality(OpenOf(i)') \in Nat BY OpenCountNext
  <2> QED BY <1>4, <2>1 DEF Counted
<1>6. \A j \in Inodes : j \in InUse' <=> j \in InUse \cup {i}
  BY <1>1, <1>2, <1>5, UsedWhen, UsedWhenNext
<1>7. InUse' = InUse \cup {i} BY <1>1, <1>6 DEF InUse
<1>8. Booted' BY <1>1, <1>2, <1>7 DEF Standing, Booted
<1>9. Refs'
  <2> SUFFICES ASSUME NEW j \in Inodes
               PROVE  IF j \in InUse' THEN inode'[j].ref = 1 + Cardinality(OpenOf(j)')
                      ELSE OpenOf(j)' = {}
    BY DEF Refs
  <2>1. CASE j = i BY <1>4, <1>7, <2>1 DEF Counted
  <2>2. CASE j # i BY <1>2, <1>4, <1>7, <2>2 DEF Counted, Standing, Refs
  <2> QED BY <2>1, <2>2
<1> DEFINE s == inode[d].children
           t == inode'[d].children
<1>10. s \in Seq(Inodes) BY <1>1 DEF TypeOK
<1>11. /\ 1 \in DOMAIN t /\ t[1] = i
       /\ \A k \in DOMAIN s : k + 1 \in DOMAIN t /\ t[k + 1] = s[k]
       /\ \A k \in DOMAIN t : k # 1 => k - 1 \in DOMAIN s /\ t[k] = s[k - 1]
  BY <1>1, <1>3, <1>10, InsertIs
<1>12. \A k \in DOMAIN s : s[k] \in InUse \ {Root} /\ inode[s[k]].parent = d
  BY <1>1 DEF Standing, Once
<1>13. Listed'
  <2> SUFFICES ASSUME NEW j \in InUse' \ {Root}
               PROVE  /\ inode'[j].parent \in InUse' /\ inode'[inode'[j].parent].type = "dir"
                      /\ \E k \in DOMAIN inode'[inode'[j].parent].children :
                           inode'[inode'[j].parent].children[k] = j
    BY DEF Listed
  <2>1. CASE j = i
    <3>1. inode'[d].type = "dir" BY <1>1, <1>2 DEF NewName
    <3> QED BY <1>3, <1>7, <1>11, <2>1, <3>1
  <2>2. CASE j # i
    <3>1. j \in InUse \ {Root} BY <1>7, <2>2
    <3> PICK p : p = inode[j].parent OBVIOUS
    <3>2. PICK k \in DOMAIN inode[p].children : inode[p].children[k] = j
      BY <3>1 DEF Standing, Listed
    <3>3. p \in InUse /\ inode[p].type = "dir" BY <3>1 DEF Standing, Listed
    <3>4. inode'[j].parent = p /\ inode'[p].type = "dir" /\ p \in InUse'
      BY <1>1, <1>2, <1>7, <3>1, <3>3
    <3>5. CASE p = d BY <1>11, <3>2, <3>4, <3>5
    <3>6. CASE p # d
      <4>1. inode'[p].children = inode[p].children BY <1>1, <1>2, <3>3, <3>6
      <4> QED BY <3>2, <3>4, <4>1
    <3> QED BY <3>5, <3>6
  <2> QED BY <2>1, <2>2
<1>14. Once'
  <2> SUFFICES ASSUME NEW q \in Inodes, NEW k \in DOMAIN inode'[q].children
               PROVE  /\ inode'[q].children[k] \in InUse' \ {Root}
                      /\ inode'[inode'[q].children[k]].parent = q
    BY DEF Once
  <2>1. CASE q = d
    <3>1. CASE k = 1
      <4>1. i # Root BY <1>1 DEF Standing, Booted
      <4> QED BY <1>3, <1>7, <1>11, <2>1, <3>1, <4>1
    <3>2. CASE k # 1
      <4>1. k - 1 \in DOMAIN s /\ inode'[q].children[k] = s[k - 1] BY <1>11, <2>1, <3>2
      <4> PICK e : e = s[k - 1] OBVIOUS
      <4>2. e \in InUse \ {Root} /\ inode[e].parent = d BY <1>12, <4>1
      <4> QED BY <1>1, <1>2, <1>7, <2>1, <4>1, <4>2
    <3> QED BY <3>1, <3>2
  <2>2. CASE q = i BY <1>3, <2>2
  <2>3. CASE q # d /\ q # i
    <3>1. inode'[q].children = inode[q].children BY <1>2, <2>3
    <3>2. inode[q].children[k] \in InUse \ {Root} /\ inode[inode[q].children[k]].parent = q
      BY <3>1 DEF Standing, Once
    <3> QED BY <1>1, <1>2, <1>7, <3>1, <3>2
  <2> QED BY <2>1, <2>2, <2>3
<1>15. \A k \in DOMAIN s : inode[s[k]].name # name
  <2>1. inode[d].parent # NULL
    <3>1. NULL \notin Inodes /\ Root \in Inodes BY RootPlace DEF NULL, Inodes
    <3>2. CASE d = Root BY <3>1, <3>2 DEF Standing, Booted
    <3>3. CASE d # Root BY <1>1, <3>1, <3>3 DEF Standing, Listed
    <3> QED BY <3>2, <3>3
  <2>2. FindChild(d, name) = NULL /\ inode[d].type = "dir" BY <2>1 DEF NewName
  <2>3. ASSUME NEW k \in DOMAIN s PROVE s[k] # NULL
    <3>1. s[k] \in Inodes BY <1>1, <1>12
    <3> QED BY <3>1 DEF NULL, Inodes
  <2> QED BY <1>1, <2>2, <2>3, FindChildIs
<1>16. Distinct'
  <2> SUFFICES ASSUME NEW q \in Inodes, NEW k \in DOMAIN inode'[q].children,
                      NEW l \in DOMAIN inode'[q].children, k # l
               PROVE  /\ inode'[q].children[k] # inode'[q].children[l]
                      /\ inode'[inode'[q].children[k]].name # inode'[inode'[q].children[l]].name
    BY DEF Distinct
  <2>1. CASE q = d
    <3>1. ASSUME NEW m \in DOMAIN t, m # 1
          PROVE  /\ m - 1 \in DOMAIN s /\ t[m] = s[m - 1] /\ t[m] # i
                 /\ inode'[t[m]].name = inode[s[m - 1]].name
                 /\ inode[s[m - 1]].name # name
      <4>1. m - 1 \in DOMAIN s /\ t[m] = s[m - 1] BY <1>11, <3>1
      <4>2. t[m] \in Inodes /\ t[m] # i BY <1>1, <1>12, <4>1
      <4> QED BY <1>2, <1>15, <4>1, <4>2
    <3>0. /\ inode'[q].children = t /\ k \in DOMAIN t /\ l \in DOMAIN t
          /\ t[1] = i /\ inode'[t[1]].name = name
      BY <1>3, <1>11, <2>1
    <3>2. CASE k = 1
      <4>1. l # 1 BY <3>2
      <4>2. t[l] # i /\ inode'[t[l]].name # name BY <3>0, <3>1, <4>1
      <4> HIDE DEF t
      <4> QED BY <3>0, <3>2, <4>2
    <3>3. CASE l = 1
      <4>1. k # 1 BY <3>3
      <4>2. t[k] # i /\ inode'[t[k]].name # name BY <3>0, <3>1, <4>1
      <4> HIDE DEF t
      <4> QED BY <3>0, <3>3, <4>2
    <3>4. CASE k # 1 /\ l # 1
      <4>1. k - 1 # l - 1
        <5>1. DOMAIN s \subseteq Nat BY <1>10
        <5>2. k - 1 \in Nat /\ l - 1 \in Nat /\ k \in Int /\ l \in Int
          <6>1. t \in Seq(Inodes)
            <7>1. inode' \in Table BY DEF Adds
            <7> QED BY <1>1, <7>1 DEF Table
          <6>2. k \in Int /\ l \in Int BY <2>1, <6>1
          <6> QED BY <2>1, <3>1, <3>4, <5>1, <6>2
        <5> QED BY <5>2
      <4>2. s[k - 1] # s[l - 1] /\ inode[s[k - 1]].name # inode[s[l - 1]].name
        BY <1>1, <2>1, <3>1, <3>4, <4>1 DEF Standing, Distinct
      <4> QED BY <2>1, <3>1, <3>4, <4>2
    <3> QED BY <3>2, <3>3, <3>4
  <2>2. CASE q = i BY <1>3, <2>2
  <2>3. CASE q # d /\ q # i
    <3>1. inode'[q].children = inode[q].children BY <1>2, <2>3
    <3>2. ASSUME NEW m \in DOMAIN inode[q].children
          PROVE  inode'[inode[q].children[m]].name = inode[inode[q].children[m]].name
      <4>1. inode[q].children[m] \in InUse BY DEF Standing, Once
      <4> QED BY <1>1, <1>2, <4>1
    <3> QED BY <3>1, <3>2 DEF Standing, Distinct
  <2> QED BY <2>1, <2>2, <2>3
<1>17. Empty'
  <2> SUFFICES ASSUME NEW q \in FreeInodes' PROVE inode'[q].children = <<>> BY DEF Empty
  <2>1. q \in Inodes BY DEF FreeInodes
  <2>2. q \notin InUse' BY <2>1, UsedWhenNext
  <2>3. q # i /\ q # d /\ q \in FreeInodes BY <1>7, <2>1, <2>2, UsedWhen
  <2> QED BY <1>2, <2>1, <2>3 DEF Standing, Empty
<1>18. Reached'
  <2>1. PICK n \in Nat : InUse \subseteq Up[n] BY DEF Standing, Reached
  <2>2. InUse \subseteq Up[n + 1]
    <3>1. Up[n] \subseteq Up[n + 1] BY UpGrows DEF Standing
    <3> QED BY <2>1, <3>1
  <2>3. inode'[Root].parent = Root BY <1>8 DEF Booted
  <2>4. \A j \in InUse \ {Root} : inode[j].parent \in InUse /\ inode'[j].parent = inode[j].parent
    BY <1>1, <1>2 DEF Standing, Listed
  <2>5. Up[n] \cap InUse \subseteq Up'[n] /\ Up[n + 1] \cap InUse \subseteq Up'[n + 1]
    <3>1. \A m \in Nat : Up[m] \cap InUse \subseteq Up'[m]
      BY <1>1, <2>3, <2>4, UpKept DEF Standing
    <3>2. n + 1 \in Nat OBVIOUS
    <3> QED BY <3>1, <3>2
  <2>6. d \in Up'[n] BY <2>1, <2>5
  <2>7. i \in Up'[n + 1] BY <1>1, <1>3, <2>6, UpStepsNext
  <2>8. InUse' \subseteq Up'[n + 1] BY <1>7, <2>2, <2>5, <2>7
  <2> QED BY <2>8 DEF Reached
<1> QED BY <1>7, <1>8, <1>9, <1>13, <1>14, <1>16, <1>17, <1>18 DEF Standing
LEMMA RemovesStands ==
  ASSUME TypeOK, Standing, NEW i \in InUse, Removes(i), inode[i].type = "dir",
         inode[i].children = <<>>, OpenOf(i) = {}
  PROVE  Standing' /\ InUse' = InUse \ {i}
<1>1. i \in Inodes /\ InUse \subseteq Inodes BY DEF InUse
<1>2. i \notin {Root, 2, 3}
  <2>1. 2 # Root /\ 3 # Root BY DEF Root
  <2>2. DOMAIN inode[i].children = {} OBVIOUS
  <2>3. i # Root BY <2>1, <2>2 DEF Standing, Booted, Listed
  <2>4. i # 2 BY <2>1, <2>2 DEF Standing, Booted, Listed
  <2>5. i # 3 BY DEF Standing, Booted
  <2> QED BY <2>3, <2>4, <2>5
<1> PICK p : p = inode[i].parent OBVIOUS
<1>3. p \in InUse /\ p \in Inodes /\ p # i
  <2>1. p \in InUse /\ \E k \in DOMAIN inode[p].children : inode[p].children[k] = i
    BY <1>2 DEF Standing, Listed
  <2> QED BY <1>1, <2>1
<1>4. ASSUME NEW j \in Inodes
      PROVE  /\ inode'[j].type = inode[j].type /\ inode'[j].parent = inode[j].parent
             /\ j # i => inode'[j].name = inode[j].name /\ inode'[j].ref = inode[j].ref
             /\ j # p => inode'[j].children = inode[j].children
  BY DEF Removes
<1>5. /\ inode'[i].name = NoName /\ inode'[i].ref = 0 /\ fd' = fd
      /\ Without(inode'[p].children, inode[p].children, i, Inodes)
  BY <1>3 DEF Removes
<1>6. \A j \in Inodes : j \in InUse' <=> j \in InUse \ {i}
  BY <1>4, <1>5, UsedWhen, UsedWhenNext
<1>7. InUse' = InUse \ {i} BY <1>1, <1>6 DEF InUse
<1>8. Booted'
  <2>1. {Root, 2, 3} \subseteq Inodes BY <1>1 DEF Standing, Booted
  <2> QED BY <1>2, <1>4, <1>7, <2>1 DEF Standing, Booted
<1>9. Refs'
  <2> SUFFICES ASSUME NEW j \in Inodes
               PROVE  IF j \in InUse' THEN inode'[j].ref = 1 + Cardinality(OpenOf(j)')
                      ELSE OpenOf(j)' = {}
    BY DEF Refs
  <2>1. OpenOf(j)' = OpenOf(j) BY <1>5 DEF OpenOf
  <2>2. CASE j = i BY <1>7, <2>1, <2>2
  <2>3. CASE j # i BY <1>4, <1>7, <2>1, <2>3 DEF Standing, Refs
  <2> QED BY <2>2, <2>3
<1> DEFINE s == inode[p].children
           r == inode'[p].children
<1>10. /\ \A m \in DOMAIN s : s[m] # i => \E k \in DOMAIN r : r[k] = s[m]
       /\ \A k, l \in DOMAIN r : \E m, n \in DOMAIN s :
            r[k] = s[m] /\ r[l] = s[n] /\ (k # l => m # n)
       /\ \A k \in DOMAIN r : r[k] # i
  <2>1. \A m, n \in DOMAIN s : m # n => s[m] # s[n] BY <1>3 DEF Standing, Distinct
  <2> QED BY <1>5, <2>1 DEF Without
<1>11. Listed'
  <2> SUFFICES ASSUME NEW j \in InUse' \ {Root}
               PROVE  /\ inode'[j].parent \in InUse' /\ inode'[inode'[j].parent].type = "dir"
                      /\ \E k \in DOMAIN inode'[inode'[j].parent].children :
                           inode'[inode'[j].parent].children[k] = j
    BY DEF Listed
  <2>1. j \in InUse \ {Root} /\ j # i BY <1>7
  <2> PICK q : q = inode[j].parent OBVIOUS
  <2>2. PICK m \in DOMAIN inode[q].children : inode[q].children[m] = j
    BY <2>1 DEF Standing, Listed
  <2>3. q \in InUse /\ inode[q].type = "dir" BY <2>1 DEF Standing, Listed
  <2>4. q # i BY <2>2
  <2>5. inode'[j].parent = q /\ inode'[q].type = "dir" /\ q \in InUse'
    BY <1>1, <1>4, <1>7, <2>1, <2>3, <2>4
  <2>6. CASE q = p BY <1>10, <2>1, <2>2, <2>5, <2>6
  <2>7. CASE q # p
    <3>1. inode'[q].children = inode[q].children BY <1>1, <1>4, <2>3, <2>7
    <3> QED BY <2>2, <2>5, <3>1
  <2> QED BY <2>6, <2>7
<1>12. ASSUME NEW q \in Inodes, NEW k \in DOMAIN inode'[q].children
       PROVE  /\ inode'[q].children[k] \in InUse \ {Root, i}
              /\ inode[inode'[q].children[k]].parent = q
  <2>1. CASE q = p
    <3>1. PICK m \in DOMAIN s : r[k] = s[m] BY <1>10, <1>12, <2>1
    <3>2. r[k] # i BY <1>10, <1>12, <2>1
    <3>3. s[m] \in InUse \ {Root} /\ inode[s[m]].parent = p BY <1>3 DEF Standing, Once
    <3> QED BY <2>1, <3>1, <3>2, <3>3
  <2>2. CASE q # p
    <3>1. inode'[q].children = inode[q].children BY <1>4, <2>2
    <3>2. inode[q].children[k] \in InUse \ {Root} /\ inode[inode[q].children[k]].parent = q
      BY <1>12, <3>1 DEF Standing, Once
    <3> QED BY <2>2, <3>1, <3>2
  <2> QED BY <2>1, <2>2
<1>13. Once'
  <2> SUFFICES ASSUME NEW q \in Inodes, NEW k \in DOMAIN inode'[q].children
               PROVE  /\ inode'[q].children[k] \in InUse' \ {Root}
                      /\ inode'[inode'[q].children[k]].parent = q
    BY DEF Once
  <2> QED BY <1>1, <1>4, <1>7, <1>12
<1>14. Distinct'
  <2> SUFFICES ASSUME NEW q \in Inodes, NEW k \in DOMAIN inode'[q].children,
                      NEW l \in DOMAIN inode'[q].children, k # l
               PROVE  /\ inode'[q].children[k] # inode'[q].children[l]
                      /\ inode'[inode'[q].children[k]].name # inode'[inode'[q].children[l]].name
    BY DEF Distinct
  <2>1. \E m, n \in DOMAIN inode[q].children :
          /\ inode'[q].children[k] = inode[q].children[m]
          /\ inode'[q].children[l] = inode[q].children[n] /\ m # n
    <3>1. CASE q = p BY <1>10, <3>1
    <3>2. CASE q # p BY <1>4, <3>2
    <3> QED BY <3>1, <3>2
  <2> PICK a, b : a = inode'[q].children[k] /\ b = inode'[q].children[l] OBVIOUS
  <2>2. a # b /\ inode[a].name # inode[b].name BY <2>1 DEF Standing, Distinct
  <2>3. a \in Inodes /\ b \in Inodes /\ a # i /\ b # i BY <1>1, <1>12
  <2> QED BY <1>4, <2>2, <2>3
<1>15. Empty'
  <2> SUFFICES ASSUME NEW q \in FreeInodes' PROVE inode'[q].children = <<>> BY DEF Empty
  <2>1. q \in Inodes BY DEF FreeInodes
  <2>2. q \notin InUse' BY <2>1, UsedWhenNext
  <2>3. CASE q = i BY <1>1, <1>3, <1>4, <2>3
  <2>4. CASE q # i
    <3>1. q # p /\ q \in FreeInodes BY <1>3, <1>7, <2>1, <2>2, <2>4, UsedWhen
    <3> QED BY <1>4, <2>1, <3>1 DEF Standing, Empty
  <2> QED BY <2>3, <2>4
<1>16. Reached'
  <2>1. PICK n \in Nat : InUse \subseteq Up[n] BY DEF Standing, Reached
  <2>2. inode'[Root].parent = Root BY <1>8 DEF Booted
  <2>3. \A j \in InUse \ {Root} : inode[j].parent \in InUse /\ inode'[j].parent = inode[j].parent
    BY <1>1, <1>4 DEF Standing, Listed
  <2>4. Up[n] \cap InUse \subseteq Up'[n] BY <1>1, <2>2, <2>3, UpKept DEF Standing
  <2>5. InUse' \subseteq Up'[n] BY <1>7, <2>1, <2>4
  <2> QED BY <2>5 DEF Reached
<1> QED BY <1>7, <1>8, <1>9, <1>11, <1>13, <1>14, <1>15, <1>16 DEF Standing

(* The steps by which no open directory is removed.  An inode in use is    *)
(* never unlinked: it has the reference of its name.                       *)
RemovesEmpty(i) ==
  /\ Removes(i) /\ stale' = stale
  /\ inode[i].type = "dir" /\ inode[i].children = <<>> /\ OpenOf(i) = {}

Steady ==
  \/ \E i \in InUse : Opens(i)
  \/ \E i \in FreeInodes, d \in InUse, name \in Names : Adds(i, d, name) /\ NewName(d, name)
  \/ \E i \in InUse : RemovesEmpty(i)
  \/ \E f \in Fds : Closes(f) \/ Moves(f)
  \/ \E f \in Fds, data \in Seq(Nat) : WritesTo(f, data)
  \/ UNCHANGED vars

LEMMA SteadyStands ==
  ASSUME TypeOK, Standing, Steady
  PROVE  Standing'
<1>1. CASE \E i \in InUse : Opens(i) BY <1>1, OpensStands
<1>2. CASE \E i \in FreeInodes, d \in InUse, name \in Names :
             Adds(i, d, name) /\ NewName(d, name)
  BY <1>2, AddsStands
<1>3. CASE \E i \in InUse : RemovesEmpty(i) BY <1>3, RemovesStands DEF RemovesEmpty
<1>4. CASE \E f \in Fds : Closes(f) BY <1>4, ClosesStands
<1>5. CASE \E f \in Fds : Moves(f)
  <2>1. PICK f \in Fds : Moves(f) BY <1>5
  <2>2. PICK pos \in Nat : fd' = [fd EXCEPT ![f].pos = pos] BY <2>1 DEF Moves
  <2>3. \A j \in Inodes : SameNode(j) /\ inode'[j].ref = inode[j].ref
    BY <2>1 DEF Moves, SameNode
  <2> QED BY <2>2, <2>3, MovedStands
<1>6. CASE \E f \in Fds, data \in Seq(Nat) : WritesTo(f, data)
  <2>1. PICK f \in Fds, data \in Seq(Nat) : WritesTo(f, data) BY <1>6
  <2>2. \A j \in Inodes : SameNode(j) /\ inode'[j].ref = inode[j].ref BY <2>1 DEF WritesTo
  <2>3. \E pos : fd' = [fd EXCEPT ![f].pos = pos] BY <2>1 DEF WritesTo
  <2> QED BY <2>2, <2>3, MovedStands
<1>7. CASE UNCHANGED vars
  <2>1. (\A j \in Inodes : SameNode(j)) /\ InUse' = InUse /\ Refs'
    BY <1>7 DEF vars, SameNode, InUse, FreeInodes, Standing, Refs, OpenOf
  <2> QED BY <2>1, TreeUntouched
<1> QED BY <1>1, <1>2, <1>3, <1>4, <1>5, <1>6, <1>7 DEF Steady

(* The calls, on paths that begin at an inode in use.                      *)
LEMMA OpenSteady ==
  ASSUME TypeOK, Standing, NEW begin \in InUse \cup {NULL}, NEW path \in Seq(Names) \ {<<>>},
         NEW mode, Open(begin, path, mode)
  PROVE  Steady
<1>1. begin \in Places /\ NULL \notin Inodes BY DEF InUse, Places, NULL, Inodes
<1>2. CASE Resolve(begin, path) \in Inodes /\ Opens(Resolve(begin, path))
  <2>1. Resolve(begin, path) \in InUse BY <1>1, <1>2, ResolveInUse
  <2> QED BY <1>2, <2>1 DEF Steady
<1>3. CASE \E i \in FreeInodes, d \in Inodes :
             Adds(i, d, Last(path)) /\ NewName(d, Last(path)) /\ d = Resolve(begin, Front(path))
  <2>1. PICK i \in FreeInodes, d \in Inodes :
          Adds(i, d, Last(path)) /\ NewName(d, Last(path)) /\ d = Resolve(begin, Front(path))
    BY <1>3
  <2>2. Front(path) \in Seq(Names) BY <1>1, ResolveSplits
  <2>3. d \in InUse BY <1>1, <2>1, <2>2, ResolveInUse
  <2> QED BY <2>1, <2>3, LastName DEF Steady
<1> QED BY <1>1, <1>2, <1>3, OpenIs

LEMMA MkdirSteady ==
  ASSUME TypeOK, Standing, NEW begin \in InUse \cup {NULL}, NEW path \in Seq(Names) \ {<<>>},
         Mkdir(begin, path)
  PROVE  Steady
<1>1. begin \in Places /\ NULL \notin Inodes BY DEF InUse, Places, NULL, Inodes
<1>2. PICK i \in FreeInodes, d \in Inodes :
        Adds(i, d, Last(path)) /\ NewName(d, Last(path)) /\ d = Resolve(begin, Front(path))
  BY <1>1, MkdirIs
<1>3. Front(path) \in Seq(Names) BY <1>1, ResolveSplits
<1>4. d \in InUse BY <1>1, <1>2, <1>3, ResolveInUse
<1> QED BY <1>2, <1>4, LastName DEF Steady

LEMMA RemovalSteady ==
  ASSUME TypeOK, Standing, NEW begin \in InUse \cup {NULL}, NEW path \in Seq(Names) \ {<<>>},
         Unlink(begin, path) \/ (Rmdir(begin, path) /\ ~stale')
  PROVE  Steady
<1>1. begin \in Places /\ NULL \notin Inodes BY DEF InUse, Places, NULL, Inodes
<1> DEFINE i == Resolve(begin, path)
<1>2. i \in InUse BY <1>1, ResolveInUse DEF Unlink, Rmdir
<1>3. i \in Inodes BY <1>2 DEF InUse
<1>4. CASE Unlink(begin, path)
  <2>1. inode[i].ref = 0 BY <1>4 DEF Unlink, Removable
  <2>2. inode[i].ref = 1 + Cardinality(OpenOf(i)) BY <1>2, <1>3 DEF Standing, Refs
  <2>3. Cardinality(OpenOf(i)) \in Nat BY OpenCount
  <2> HIDE DEF i
  <2> QED BY <2>1, <2>2, <2>3
<1>5. CASE Rmdir(begin, path) /\ ~stale'
  <2>1. /\ inode[i].type = "dir" /\ inode[i].children = <<>> /\ Removed(i)
        /\ stale' = (stale \/ OpenOf(i) # {})
    BY <1>5 DEF Rmdir
  <2> HIDE DEF i
  <2>2. OpenOf(i) = {} /\ stale' = stale
    <3>1. stale \in BOOLEAN BY DEF TypeOK
    <3> PICK opened \in BOOLEAN : opened = (OpenOf(i) # {}) OBVIOUS
    <3>2. stale' = (stale \/ opened) BY <2>1
    <3>3. ~opened /\ stale' = stale BY <1>5, <3>1, <3>2
    <3> QED BY <3>3
  <2>3. Removes(i) BY <1>3, <2>1, RemovedIs
  <2> QED BY <1>2, <2>1, <2>2, <2>3 DEF Steady, RemovesEmpty
<1> QED BY <1>4, <1>5

LEMMA InitStands ==
  ASSUME Init
  PROVE  Standing /\ ~stale
<1> DEFINE Is(j, type, ref, parent, children) ==
             /\ inode[j].type = type /\ inode[j].ref = ref
             /\ inode[j].parent = parent /\ inode[j].children = children
<1>1. {1, 2, 3} \subseteq Inodes BY Sizes DEF Inodes
<1>2. /\ Is(1, "dir", 1, 1, <<2>>) /\ Is(2, "dir", 1, 1, <<3>>) /\ Is(3, "file", 2, 2, <<>>)
  <2>1. inode[1] = Node("/", "dir", 1, Root, <<2>>) /\ inode[2] = Node("etc", "dir", 1, Root, <<3>>)
        /\ inode[3] = Node("passwd", "file", 2, 2, <<>>)
    BY <1>1 DEF Init
  <2> QED BY <2>1 DEF Node, Root
<1>3. \A j \in Inodes \ {1, 2, 3} :
        inode[j].ref = 0 /\ inode[j].name = NoName /\ inode[j].children = <<>>
  <2>1. \A j \in Inodes \ {1, 2, 3} : inode[j] = Blank BY DEF Init
  <2> QED BY <2>1 DEF Blank, Node
<1>4. Root = 1 BY DEF Root
<1>5. \A j \in Inodes : j \in InUse <=> j \in {1, 2, 3}
  BY <1>1, <1>2, <1>3, UsedWhen
<1>6. InUse = {1, 2, 3} BY <1>1, <1>5 DEF InUse
<1>7. <<2>>[1] = 2 /\ DOMAIN <<2>> = {1} /\ <<3>>[1] = 3 /\ DOMAIN <<3>> = {1} /\ DOMAIN <<>> = {}
  OBVIOUS
<1>8. Refs
  <2>1. OpenOf(3) = {0} /\ \A j \in Inodes \ {3} : OpenOf(j) = {}
    BY Sizes DEF Init, OpenOf, Fds, Closed, NULL, Inodes
  <2>2. Cardinality(OpenOf(3)) = 1 BY <2>1, FS_Singleton
  <2>3. Cardinality({}) = 0 BY FS_EmptySet
  <2>4. inode[1].ref = 1 + 0 /\ inode[2].ref = 1 + 0 /\ inode[3].ref = 1 + 1 BY <1>2
  <2> SUFFICES ASSUME NEW j \in Inodes
               PROVE  IF j \in InUse THEN inode[j].ref = 1 + Cardinality(OpenOf(j))
                      ELSE OpenOf(j) = {}
    BY DEF Refs
  <2>5. CASE j = 3 BY <1>6, <2>1, <2>2, <2>4, <2>5
  <2>6. CASE j # 3 BY <1>6, <2>1, <2>3, <2>4, <2>6
  <2> QED BY <2>5, <2>6
<1>9. Booted BY <1>2, <1>4, <1>6 DEF Booted
<1>10. Listed
  <2>1. inode[2].parent = 1 /\ inode[3].parent = 2 /\ inode[1].type = "dir"
        /\ inode[2].type = "dir" /\ inode[1].children = <<2>> /\ inode[2].children = <<3>>
    BY <1>2
  <2> QED BY <1>4, <1>6, <1>7, <2>1 DEF Listed
<1>11. ASSUME NEW d \in Inodes, NEW k \in DOMAIN inode[d].children
       PROVE  \/ d = 1 /\ k = 1 /\ inode[d].children[k] = 2
              \/ d = 2 /\ k = 1 /\ inode[d].children[k] = 3
  <2>1. CASE d = 1 BY <1>2, <1>7, <1>11, <2>1
  <2>2. CASE d = 2 BY <1>2, <1>7, <1>11, <2>2
  <2>3. CASE d \notin {1, 2} BY <1>2, <1>3, <1>7, <1>11, <2>3
  <2> QED BY <2>1, <2>2, <2>3
<1>12. Once
  <2>1. inode[2].parent = 1 /\ inode[3].parent = 2 BY <1>2
  <2> QED BY <1>4, <1>6, <1>11, <2>1 DEF Once
<1>13. Distinct BY <1>11 DEF Distinct
<1>14. Empty
  <2> SUFFICES ASSUME NEW d \in FreeInodes PROVE inode[d].children = <<>> BY DEF Empty
  <2>1. d \in Inodes /\ d \notin InUse BY UsedWhen DEF FreeInodes
  <2> QED BY <1>3, <1>6, <2>1
<1>15. Reached
  <2>1. Up[0] = {1} /\ Up[0 + 1] = {j \in Inodes : inode[j].parent \in Up[0]}
        /\ Up[1 + 1] = {j \in Inodes : inode[j].parent \in Up[1]}
    BY <1>4, UpSteps
  <2>2. inode[1].parent = 1 /\ inode[2].parent = 1 /\ inode[3].parent = 2 BY <1>2
  <2>3. 0 + 1 = 1 /\ 1 + 1 = 2 OBVIOUS
  <2>4. 1 \in Up[1] /\ 2 \in Up[1] BY <1>1, <2>1, <2>2, <2>3
  <2>5. {1, 2, 3} \subseteq Up[2] BY <1>1, <2>1, <2>2, <2>3, <2>4
  <2> QED BY <1>6, <2>5 DEF Reached
<1>16. ~stale BY DEF Init
<1> QED BY <1>8, <1>9, <1>10, <1>12, <1>13, <1>14, <1>15, <1>16 DEF Standing

LEMMA StaleStays ==
  ASSUME NEW begin, NEW path,
         \/ \E mode : Open(begin, path, mode)
         \/ Mkdir(begin, path) \/ Unlink(begin, path) \/ Rmdir(begin, path),
         stale \in BOOLEAN, ~stale'
  PROVE  ~stale
<1>1. CASE Rmdir(begin, path)
  <2> PICK opened \in BOOLEAN : opened = (OpenOf(Resolve(begin, path)) # {}) OBVIOUS
  <2>1. stale' = (stale \/ opened) BY <1>1 DEF Rmdir
  <2> QED BY <2>1
<1>2. CASE stale' = stale BY <1>2
<1> QED BY <1>1, <1>2 DEF Open, Mkdir, Unlink

LEMMA NextSteady ==
  ASSUME TypeOK, ~stale => Standing, [Next]_vars, ~stale'
  PROVE  ~stale /\ Steady
<1>0. Standing => Root \in InUse \cup {NULL} BY DEF Standing, Booted
<1>1. stale \in BOOLEAN BY DEF TypeOK
<1>2. CASE \E path \in Paths, mode \in Modes : Open(Root, path, mode)
  <2>1. PICK path \in Paths, mode \in Modes : Open(Root, path, mode) BY <1>2
  <2>2. ~stale BY <1>1, <2>1, StaleStays
  <2> QED BY <1>0, <2>1, <2>2, PathNames, OpenSteady
<1>3. CASE \E path \in Paths : Mkdir(Root, path)
  <2>1. PICK path \in Paths : Mkdir(Root, path) BY <1>3
  <2>2. ~stale BY <1>1, <2>1, StaleStays
  <2> QED BY <1>0, <2>1, <2>2, PathNames, MkdirSteady
<1>4. CASE \E path \in Paths : Unlink(Root, path) \/ Rmdir(Root, path)
  <2>1. PICK path \in Paths : Unlink(Root, path) \/ Rmdir(Root, path) BY <1>4
  <2>2. ~stale BY <1>1, <2>1, StaleStays
  <2> QED BY <1>0, <2>1, <2>2, PathNames, RemovalSteady
<1>5. CASE \E f \in Fds : Close(f) BY <1>5, CloseIs DEF Closes, Steady
<1>6. CASE \E f \in Fds, data \in Writes : Write(f, data)
  <2>1. PICK f \in Fds, data \in Seq(Nat) : WritesTo(f, data)
    BY <1>6, WriteIs, RamFSAssumption
  <2> QED BY <2>1 DEF WritesTo, Steady
<1>7. CASE \E f \in Fds, data \in Writes : Read(f, Len(data))
  <2>1. PICK f \in Fds, data \in Writes : Read(f, Len(data)) BY <1>7
  <2>2. Len(data) \in Nat
    <3>1. data \in Seq(Nat) BY RamFSAssumption
    <3> QED BY <3>1
  <2> QED BY <2>1, <2>2, ReadIs DEF Moves, Steady
<1>8. CASE \E f \in Fds, offset \in Offsets : Seek(f, offset)
  BY <1>8, SeekIs DEF Moves, Steady
<1>9. CASE UNCHANGED vars BY <1>9 DEF vars, Steady
<1> QED BY <1>2, <1>3, <1>4, <1>5, <1>6, <1>7, <1>8, <1>9 DEF Next

(* As long as no open directory was removed, the inodes in use are a tree  *)
(* whose lists, parents and names fit, and the reference counts are those  *)
(* of the names and the open files, whatever the calls of fs/fs.c are made *)
(* on and wherever they give up.                                           *)
THEOREM TreeStaysSound == Spec => []TreeSound
<1> DEFINE Inv == TypeOK /\ BlocksExclusive /\ (~stale => Standing)
<1>1. Init => Inv BY InitKept, InitStands
<1>2. Inv /\ [Next]_vars => Inv' BY NextChanges, ChangesKept, NextSteady, SteadyStands
<1>3. Inv => TreeSound BY StandingSound DEF TreeSound, RefCounts, Standing, Refs
<1> QED BY <1>1, <1>2, <1>3, PTL DEF Spec
-----------------------------------------------------------------------------
(* The bytes.  A file holds what it is promised to and zeros beyond; those *)
(* matter, since a later write makes what lies before it part of the file. *)
Byte(s, o) == IF o < Len(s) THEN s[o + 1] ELSE 0

Holds(i) == inode[i].size = Len(content[i]) /\ \A o \in Nat : ByteAt(i, o) = Byte(content[i], o)

Owned(b) == b = 0 \/ \E i \in InUse, k \in 0 .. Direct - 1 : inode[i].blocks[k] = b

Held == (\A b \in used : Owned(b)) /\ \A i \in InUse : Holds(i)

LEMMA SameBytes ==
  ASSUME NEW i \in Inodes, inode'[i].blocks = inode[i].blocks,
         inode'[i].size = inode[i].size, content'[i] = content[i],
         \A k \in 0 .. Direct - 1 :
           inode[i].blocks[k] # 0 => storage'[inode[i].blocks[k]] = storage[inode[i].blocks[k]],
         Holds(i)
  PROVE  Holds(i)'
<1>1. ASSUME NEW o \in Nat PROVE ByteAt(i, o)' = ByteAt(i, o)
  <2> PICK k : k = o \div BlockSize OBVIOUS
  <2>1. k \in Nat BY Division, Sizes
  <2>2. k < Direct => k \in 0 .. Direct - 1 BY <2>1, Sizes
  <2> QED BY <2>2 DEF ByteAt
<1>2. Holds(i)' <=> /\ inode'[i].size = Len(content'[i])
                    /\ \A o \in Nat : ByteAt(i, o)' = Byte(content'[i], o)
  BY DEF Holds, Byte
<1> QED BY <1>1, <1>2 DEF Holds

LEMMA NoBytes ==
  ASSUME NEW i \in Inodes, inode'[i].blocks = NoBlocks, inode'[i].size = 0, content'[i] = <<>>
  PROVE  Holds(i)'
<1>1. ASSUME NEW o \in Nat PROVE ByteAt(i, o)' = 0
  <2> PICK k : k = o \div BlockSize OBVIOUS
  <2>1. k \in Nat BY Division, Sizes
  <2>2. k < Direct => k \in 0 .. Direct - 1 BY <2>1, Sizes
  <2>3. k < Direct => NoBlocks[k] = 0 BY <2>2 DEF NoBlocks
  <2> QED BY <2>3 DEF ByteAt
<1>2. Holds(i)' <=> /\ inode'[i].size = Len(content'[i])
                    /\ \A o \in Nat : ByteAt(i, o)' = Byte(content'[i], o)
  BY DEF Holds, Byte
<1>3. Len(<<>>) = 0 /\ \A o \in Nat : Byte(<<>>, o) = 0 BY DEF Byte
<1> QED BY <1>1, <1>2, <1>3

(* A call that changes no file in use but i, which it may empty.           *)
LEMMA EmptiesHeld ==
  ASSUME TypeOK, Held, NEW i \in Inodes, storage' = storage,
         \A j \in Inodes \ {i} : SameData(j) /\ content'[j] = content[j],
         InUse \ {i} \subseteq InUse', InUse' \subseteq InUse \cup {i},
         \/ i \in InUse' /\ used' = used /\ SameData(i) /\ content'[i] = content[i] /\ i \in InUse
         \/ /\ used' = used \ BlocksOf(i) \/ (used' = used /\ i \notin InUse)
            /\ i \in InUse' => inode'[i].blocks = NoBlocks /\ inode'[i].size = 0 /\ content'[i] = <<>>
  PROVE  Held'
<1>1. ASSUME NEW j \in InUse' PROVE Holds(j)'
  <2>1. j \in Inodes BY DEF InUse
  <2>2. CASE SameData(j) /\ content'[j] = content[j] /\ j \in InUse
    <3>1. Holds(j) BY <2>2 DEF Held
    <3> QED BY <2>1, <2>2, <3>1, SameBytes DEF SameData
  <2>3. CASE inode'[j].blocks = NoBlocks /\ inode'[j].size = 0 /\ content'[j] = <<>>
    BY <2>1, <2>3, NoBytes
  <2> QED BY <2>1, <2>2, <2>3
<1>2. ASSUME NEW b \in used', b # 0
      PROVE  \E j \in InUse', k \in 0 .. Direct - 1 : inode'[j].blocks[k] = b
  <2>1. b \in used BY <1>2
  <2>2. PICK j \in InUse, k \in 0 .. Direct - 1 : inode[j].blocks[k] = b
    BY <1>2, <2>1 DEF Held, Owned
  <2>3. j \in Inodes BY DEF InUse
  <2>4. CASE j # i BY <2>2, <2>3, <2>4 DEF SameData
  <2>5. CASE j = i /\ SameData(i) /\ i \in InUse' BY <2>2, <2>5 DEF SameData
  <2>6. CASE j = i /\ used' = used \ BlocksOf(i)
    <3>1. b \in BlocksOf(i) BY <1>2, <2>2, <2>6 DEF BlocksOf
    <3> QED BY <1>2, <2>6, <3>1
  <2> QED BY <2>4, <2>5, <2>6
<1>3. Held' <=> (\A b \in used' : b = 0 \/ \E j \in InUse', k \in 0 .. Direct - 1 :
                                             inode'[j].blocks[k] = b)
                /\ \A j \in InUse' : Holds(j)'
  BY DEF Held, Owned
<1> QED BY <1>1, <1>2, <1>3

LEMMA OpensHeld ==
  ASSUME TypeOK, Held, NEW i \in InUse, Opens(i), InUse' = InUse
  PROVE  Held'
<1>1. i \in Inodes /\ content \in [Inodes -> Seq(Nat)] BY DEF InUse, TypeOK
<1>2. \A j \in Inodes \ {i} : SameData(j) /\ content'[j] = content[j] BY <1>1 DEF Opens
<1>3. CASE SameData(i) /\ used' = used /\ content' = content
  BY <1>1, <1>2, <1>3, EmptiesHeld DEF Opens
<1>4. CASE /\ inode'[i].size = 0 /\ inode'[i].blocks = NoBlocks
           /\ used' = used \ BlocksOf(i) /\ content' = [content EXCEPT ![i] = <<>>]
  <2>1. content'[i] = <<>> BY <1>1, <1>4
  <2> QED BY <1>1, <1>2, <1>4, <2>1, EmptiesHeld DEF Opens
<1> QED BY <1>3, <1>4 DEF Opens

LEMMA AddsHeld ==
  ASSUME TypeOK, Held, NEW i \in FreeInodes, NEW d \in InUse, NEW name, Adds(i, d, name),
         InUse' = InUse \cup {i}
  PROVE  Held'
<1>1. i \in Inodes /\ i \notin InUse /\ content \in [Inodes -> Seq(Nat)]
  BY DEF InUse, FreeInodes, TypeOK
<1>2. \A j \in Inodes \ {i} : SameData(j) /\ content'[j] = content[j] BY <1>1 DEF Adds
<1>3. inode'[i].size = 0 /\ inode'[i].blocks = NoBlocks /\ content'[i] = <<>>
      /\ used' = used /\ storage' = storage
  BY <1>1 DEF Adds
<1> QED BY <1>1, <1>2, <1>3, EmptiesHeld

LEMMA RemovesHeld ==
  ASSUME TypeOK, Held, NEW i \in InUse, Removes(i), InUse' = InUse \ {i}
  PROVE  Held'
<1>1. i \in Inodes BY DEF InUse
<1>2. \A j \in Inodes \ {i} : SameData(j) /\ content'[j] = content[j] BY DEF Removes, SameData
<1>3. used' = used \ BlocksOf(i) /\ storage' = storage BY DEF Removes
<1> QED BY <1>1, <1>2, <1>3, EmptiesHeld

LEMMA SameHeld ==
  ASSUME TypeOK, Held, \A j \in Inodes : SameData(j), InUse' = InUse,
         used' = used, storage' = storage, content' = content
  PROVE  Held'
<1>1. ASSUME NEW j \in InUse PROVE Holds(j)'
  <2>1. j \in Inodes /\ Holds(j) BY DEF InUse, Held
  <2> QED BY <2>1, SameBytes DEF SameData
<1>2. ASSUME NEW b \in used, b # 0
      PROVE  \E j \in InUse, k \in 0 .. Direct - 1 : inode'[j].blocks[k] = b
  <2>1. PICK j \in InUse, k \in 0 .. Direct - 1 : inode[j].blocks[k] = b
    BY <1>2 DEF Held, Owned
  <2>2. SameData(j) BY DEF InUse
  <2> QED BY <2>1, <2>2 DEF SameData
<1> QED BY <1>1, <1>2 DEF Held, Owned

LEMMA ByteAtIs ==
  ASSUME NEW i \in Inodes
  PROVE  /\ \A o \in Nat : ByteAt(i, o) = ByteIn(inode[i].blocks, storage, o)
         /\ \A o \in Nat : ByteAt(i, o)' = ByteIn(inode'[i].blocks, storage', o)
BY DEF ByteAt, ByteIn

(* The bytes written are the bytes promised.                               *)
LEMMA PromiseHolds ==
  ASSUME NEW old \in Seq(Nat), NEW pos \in Nat, NEW data \in Seq(Nat), NEW n \in 0 .. Len(data),
         NEW o \in Nat
  PROVE  Byte(Promised(old, pos, data, n), o) =
           IF o >= pos /\ o < pos + n THEN data[o - pos + 1] ELSE Byte(old, o)
<1> PICK p : p = Promised(old, pos, data, n) OBVIOUS
<1> PICK a \in Nat, m \in Nat : a = Len(old) /\ m = n OBVIOUS
<1>1. /\ Len(p) = IF a >= pos + m THEN a ELSE pos + m
      /\ \A q \in 1 .. Len(p) :
           p[q] = IF q > pos /\ q <= pos + m THEN data[q - pos] ELSE IF q <= a THEN old[q] ELSE 0
  BY PromisedIs
<1>2. (o + 1) - pos = o - pos + 1 /\ o + 1 \in Nat OBVIOUS
<1>3. CASE o >= pos /\ o < pos + m
  <2>1. o + 1 \in 1 .. Len(p) /\ o < Len(p) /\ o + 1 > pos /\ o + 1 <= pos + m BY <1>1, <1>3
  <2>2. p[o + 1] = data[(o + 1) - pos] BY <1>1, <2>1
  <2>3. Byte(p, o) = p[o + 1] BY <2>1 DEF Byte
  <2> QED BY <1>2, <1>3, <2>2, <2>3
<1>4. CASE ~(o >= pos /\ o < pos + m) /\ o < Len(p)
  <2>1. o + 1 \in 1 .. Len(p) /\ ~(o + 1 > pos /\ o + 1 <= pos + m) /\ (o + 1 <= a <=> o < a)
    BY <1>1, <1>4
  <2>2. p[o + 1] = IF o + 1 <= a THEN old[o + 1] ELSE 0 BY <1>1, <2>1
  <2>3. Byte(p, o) = p[o + 1] BY <1>4 DEF Byte
  <2> QED BY <1>4, <2>1, <2>2, <2>3 DEF Byte
<1>5. CASE ~(o >= pos /\ o < pos + m) /\ ~(o < Len(p))
  <2>1. ~(o < a) BY <1>1, <1>5
  <2> QED BY <1>5, <2>1 DEF Byte
<1> QED BY <1>3, <1>4, <1>5

LEMMA WritesToHeld ==
  ASSUME TypeOK, BlocksExclusive, Held, NEW f \in Fds, NEW data \in Seq(Nat), WritesTo(f, data),
         fd[f].inode \in InUse, InUse' = InUse
  PROVE  Held'
<1>0. PICK i \in InUse : fd[f].inode = i OBVIOUS
<1> PICK w, pos, list : w = Written(f, data) /\ pos = fd[f].pos /\ list = inode[i].blocks
  OBVIOUS
<1>1. /\ i \in Inodes /\ pos \in Nat /\ w \in Turns(data)
      /\ inode'[i].blocks = w.blocks
      /\ inode'[i].size = IF inode[i].size >= w.pos THEN inode[i].size ELSE w.pos
      /\ used' = w.used /\ storage' = w.storage
      /\ content' = [content EXCEPT ![i] = Promised(content[i], pos, data, w.done)]
  BY <1>0 DEF WritesTo
<1>2. Allocates(list, w) /\ Stores(data, pos, list, w)
  <2>1. fd[f].inode # NULL BY <1>0, <1>1 DEF NULL, Inodes
  <2> QED BY <1>0, <2>1, WrittenIs
<1>3. content \in [Inodes -> Seq(Nat)] /\ content[i] \in Seq(Nat) BY <1>1 DEF TypeOK
<1>4. \A j \in Inodes \ {i} : SameData(j) /\ content'[j] = content[j]
  BY <1>0, <1>1, <1>3 DEF WritesTo
<1>5. w.done \in 0 .. Len(data) /\ w.pos = pos + w.done BY <1>1, <1>2 DEF Turns, Stores
<1>6. content'[i] = Promised(content[i], pos, data, w.done) BY <1>1, <1>3
<1>7. Holds(i) BY DEF Held
<1>8. Holds(i)'
  <2>1. inode'[i].size = Len(content'[i])
    <3>1. Len(Promised(content[i], pos, data, w.done)) =
            IF Len(content[i]) >= pos + w.done THEN Len(content[i]) ELSE pos + w.done
      BY <1>1, <1>3, <1>5, PromisedIs
    <3> QED BY <1>1, <1>5, <1>6, <1>7, <3>1 DEF Holds
  <2>2. ASSUME NEW o \in Nat PROVE ByteAt(i, o)' = Byte(content'[i], o)
    <3>1. ByteAt(i, o)' = ByteIn(w.blocks, w.storage, o) BY <1>1, ByteAtIs
    <3>2. ByteIn(w.blocks, w.storage, o) =
            IF o >= pos /\ o < w.pos THEN data[o - pos + 1] ELSE ByteIn(list, storage, o)
      BY <1>2 DEF Stores
    <3>3. ByteIn(list, storage, o) = Byte(content[i], o)
      BY <1>1, <1>7, ByteAtIs DEF Holds
    <3>4. Byte(content'[i], o) =
            IF o >= pos /\ o < pos + w.done THEN data[o - pos + 1] ELSE Byte(content[i], o)
      BY <1>1, <1>3, <1>5, <1>6, PromiseHolds
    <3> QED BY <1>5, <3>1, <3>2, <3>3, <3>4
  <2>3. Holds(i)' <=> /\ inode'[i].size = Len(content'[i])
                      /\ \A o \in Nat : ByteAt(i, o)' = Byte(content'[i], o)
    BY DEF Holds, Byte
  <2> QED BY <2>1, <2>2, <2>3
<1>9. ASSUME NEW j \in InUse, j # i PROVE Holds(j)'
  <2>1. j \in Inodes /\ Holds(j) BY DEF InUse, Held
  <2>2. ASSUME NEW k \in 0 .. Direct - 1, inode[j].blocks[k] # 0
        PROVE  storage'[inode[j].blocks[k]] = storage[inode[j].blocks[k]]
    <3> PICK c : c = inode[j].blocks[k] OBVIOUS
    <3>1. c \in used /\ \A l \in 0 .. Direct - 1 : list[l] # c
      BY <1>1, <1>9, <2>1, <2>2 DEF BlocksExclusive
    <3> QED BY <1>1, <1>2, <3>1 DEF Allocates
  <2> QED BY <1>4, <1>9, <2>1, <2>2, SameBytes DEF SameData
<1>10. ASSUME NEW b \in used', b # 0
       PROVE  \E j \in InUse, k \in 0 .. Direct - 1 : inode'[j].blocks[k] = b
  <2>1. b \in used \cup {w.blocks[k] : k \in 0 .. Direct - 1} BY <1>1, <1>2, <1>10 DEF Allocates
  <2>2. CASE b \in {w.blocks[k] : k \in 0 .. Direct - 1} BY <1>1, <2>2
  <2>3. CASE b \in used
    <3>1. PICK j \in InUse, k \in 0 .. Direct - 1 : inode[j].blocks[k] = b
      BY <1>10, <2>3 DEF Held, Owned
    <3>2. CASE j = i
      <4>1. list[k] # 0 /\ w.blocks[k] = list[k] BY <1>2, <1>10, <3>1, <3>2 DEF Allocates
      <4> QED BY <1>1, <3>1, <3>2, <4>1
    <3>3. CASE j # i
      <4>1. j \in Inodes BY DEF InUse
      <4> QED BY <1>4, <3>1, <3>3, <4>1 DEF SameData
    <3> QED BY <3>2, <3>3
  <2> QED BY <2>1, <2>2, <2>3
<1>11. Held' <=> (\A b \in used' : b = 0 \/ \E j \in InUse', k \in 0 .. Direct - 1 :
                                              inode'[j].blocks[k] = b)
                 /\ \A j \in InUse' : Holds(j)'
  BY DEF Held, Owned
<1> QED BY <1>8, <1>9, <1>10, <1>11

LEMMA SteadyHeld ==
  ASSUME TypeOK, BlocksExclusive, Standing, Held, Steady
  PROVE  Held'
<1>1. CASE \E i \in InUse : Opens(i) BY <1>1, OpensStands, OpensHeld
<1>2. CASE \E i \in FreeInodes, d \in InUse, name \in Names :
             Adds(i, d, name) /\ NewName(d, name)
  BY <1>2, AddsStands, AddsHeld
<1>3. CASE \E i \in InUse : RemovesEmpty(i)
  BY <1>3, RemovesStands, RemovesHeld DEF RemovesEmpty
<1>4. CASE \E f \in Fds : Closes(f)
  <2>1. PICK f \in Fds : Closes(f) BY <1>4
  <2>2. InUse' = InUse BY <2>1, ClosesStands
  <2>3. /\ \A j \in Inodes : SameData(j)
        /\ used' = used /\ storage' = storage /\ content' = content
    BY <2>1 DEF Closes, RefSet, SameData
  <2> QED BY <2>2, <2>3, SameHeld
<1>5. CASE UNCHANGED vars \/ \E f \in Fds : Moves(f)
  <2>1. /\ \A j \in Inodes : SameData(j) /\ InUse' = InUse
        /\ used' = used /\ storage' = storage /\ content' = content
    BY <1>5 DEF Moves, vars, SameData, InUse, FreeInodes
  <2>2. InUse' = InUse BY <1>5 DEF Moves, vars, InUse, FreeInodes
  <2> QED BY <2>1, <2>2, SameHeld
<1>6. CASE \E f \in Fds, data \in Seq(Nat) : WritesTo(f, data)
  <2>1. PICK f \in Fds, data \in Seq(Nat) : WritesTo(f, data) BY <1>6
  <2>2. InUse' = InUse
    <3>1. \A j \in Inodes : SameNode(j) /\ inode'[j].ref = inode[j].ref BY <2>1 DEF WritesTo
    <3>2. \E pos : fd' = [fd EXCEPT ![f].pos = pos] BY <2>1 DEF WritesTo
    <3> QED BY <3>1, <3>2, MovedStands
  <2>3. fd[f].inode \in InUse
    <3>1. fd[f].inode \in Inodes BY <2>1 DEF WritesTo
    <3>2. f \in OpenOf(fd[f].inode) BY DEF OpenOf
    <3> QED BY <3>1, <3>2 DEF Standing, Refs
  <2> QED BY <2>1, <2>2, <2>3, WritesToHeld
<1> QED BY <1>1, <1>2, <1>3, <1>4, <1>5, <1>6 DEF Steady

LEMMA InitHeld ==
  ASSUME Init
  PROVE  Held
<1>1. \A i \in Inodes : content[i] = <<>> /\ used = {} BY DEF Init
<1>2. ASSUME NEW i \in Inodes PROVE inode[i].blocks = NoBlocks /\ inode[i].size = 0
  BY DEF Init, Node, Blank
<1>3. ASSUME NEW i \in Inodes PROVE Holds(i)
  <2>1. ASSUME NEW o \in Nat PROVE ByteAt(i, o) = 0
    <3> PICK k : k = o \div BlockSize OBVIOUS
    <3>1. k \in Nat BY Division, Sizes
    <3>2. k < Direct => k \in 0 .. Direct - 1 BY <3>1, Sizes
    <3>3. k < Direct => NoBlocks[k] = 0 BY <3>2 DEF NoBlocks
    <3> QED BY <1>2, <3>3 DEF ByteAt
  <2>2. Len(<<>>) = 0 /\ \A o \in Nat : Byte(<<>>, o) = 0 BY DEF Byte
  <2> QED BY <1>1, <1>2, <2>1, <2>2 DEF Holds
<1>4. InUse \subseteq Inodes /\ used = {} BY DEF InUse, Init
<1> QED BY <1>3, <1>4 DEF Held

LEMMA HeldKeeps ==
  ASSUME TypeOK, Held
  PROVE  ContentsKept
<1>1. used \subseteq {0} \cup UNION {Range(inode[i].blocks) : i \in InUse}
  <2> SUFFICES ASSUME NEW b \in used, b # 0
               PROVE  \E i \in InUse : b \in Range(inode[i].blocks)
    OBVIOUS
  <2>1. PICK i \in InUse, k \in 0 .. Direct - 1 : inode[i].blocks[k] = b BY DEF Held, Owned
  <2>2. DOMAIN inode[i].blocks = 0 .. Direct - 1
    <3>1. i \in Inodes BY DEF InUse
    <3> QED BY <3>1, TableIs DEF Table, BlockLists
  <2> QED BY <2>1, <2>2 DEF Range
<1>2. ASSUME NEW i \in InUse
      PROVE  /\ inode[i].size = Len(content[i])
             /\ \A o \in 0 .. inode[i].size - 1 : ByteAt(i, o) = content[i][o + 1]
  <2>1. Holds(i) /\ i \in Inodes BY DEF Held, InUse
  <2>2. inode[i].size \in Nat /\ inode[i].size = Len(content[i])
    BY <2>1 DEF TypeOK, Holds
  <2> PICK n \in Nat : n = inode[i].size BY <2>2
  <2>3. ASSUME NEW o \in 0 .. n - 1 PROVE ByteAt(i, o) = content[i][o + 1]
    <3>1. o \in Nat /\ o < n OBVIOUS
    <3>2. ByteAt(i, o) = Byte(content[i], o) BY <2>1, <3>1 DEF Holds
    <3> QED BY <2>2, <3>1, <3>2 DEF Byte
  <2> QED BY <2>2, <2>3
<1> QED BY <1>1, <1>2 DEF ContentsKept

(* As long as no open directory was removed, what fs_read finds in a file  *)
(* is what fs_write was given for it and no truncation cut off, with zeros *)
(* where a seek went beyond the end, and every block marked, but block 0,  *)
(* belongs to a file.                                                      *)
THEOREM ContentsStayKept == Spec => []ContentsKept
<1> DEFINE Inv == TypeOK /\ BlocksExclusive /\ (~stale => Standing /\ Held)
<1>1. Init => Inv BY InitKept, InitStands, InitHeld
<1>2. Inv /\ [Next]_vars => Inv'
  BY NextChanges, ChangesKept, NextSteady, SteadyStands, SteadyHeld
<1>3. Inv => ContentsKept BY HeldKeeps DEF ContentsKept
<1> QED BY <1>1, <1>2, <1>3, PTL DEF Spec
=============================================================================
