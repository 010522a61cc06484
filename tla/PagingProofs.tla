---------------------------- MODULE PagingProofs ----------------------------
(***************************************************************************)
(* Proofs that the counts of the frame allocator are right and that what   *)
(* it hands out exists, whatever is mapped and allocated, for every memory *)
(* size and memory map.                                                    *)
(***************************************************************************)
EXTENDS Paging, FiniteSetTheorems, TLAPS

(* The inductive invariant: used_frames counts at least the usable frames  *)
(* that are marked, and no more when the first 4 MB are all usable; a      *)
(* frame that is searched and is not there is marked.                      *)
Counted ==
  /\ total = Cardinality(usable)
  /\ used >= Cardinality(usable \cap bitmap)
  /\ LowMemory \subseteq usable => used = Cardinality(usable \cap bitmap)

Marked ==
  /\ Searched \ usable \subseteq bitmap
  /\ LowMemory \subseteq bitmap

FTypes ==
  /\ bitmap \in SUBSET AllFrames
  /\ usable \in SUBSET AllFrames
  /\ held \in SUBSET AllFrames
  /\ total \in 0 .. MaxFrames
  /\ used \in Int

FInv == FTypes /\ Counted /\ Marked /\ HeldExists

-----------------------------------------------------------------------------
(* Frames of an interval of numbers are finitely many.                     *)
LEMMA FramesFinite ==
  ASSUME NEW S \in SUBSET AllFrames
  PROVE  IsFiniteSet(S) /\ Cardinality(S) \in Nat
<1>1. MaxFrames \in Int BY FramesAssumption
<1>2. IsFiniteSet(AllFrames)
  BY <1>1, FS_Interval DEF AllFrames
<1>3. IsFiniteSet(S)
  BY <1>2, FS_Subset
<1> QED
  BY <1>3, FS_CardinalityType

(* A set without the members of another has as many fewer as they share.   *)
LEMMA SplitCount ==
  ASSUME NEW S \in SUBSET AllFrames, NEW T \in SUBSET AllFrames
  PROVE  Cardinality(S \ T) = Cardinality(S) - Cardinality(S \cap T)
<1>1. IsFiniteSet(S) /\ IsFiniteSet(T) BY FramesFinite
<1> QED
  BY <1>1, FS_Difference

(* A whole number of words of total_frames does not exceed it.             *)
LEMMA SearchedIn ==
  ASSUME total \in Nat
  PROVE  Searched \subseteq 0 .. total - 1
<1>1. WordBits \in Nat \ {0} BY FramesAssumption
<1>2. WordBits * (total \div WordBits) <= total
  BY <1>1
<1>3. total \div WordBits \in Nat
  BY <1>1
<1>4. WordBits * (total \div WordBits) \in Nat
  BY <1>1, <1>3
<1> QED
  BY <1>2, <1>4 DEF Searched

-----------------------------------------------------------------------------
(* pmm_init sets the invariant up.                                         *)
LEMMA SizeInv ==
  ASSUME NEW n \in Sizes, InitSize(n), held = {}
  PROVE  FInv
<1>1. /\ n \in Nat /\ Reserved <= n /\ MaxFrames \in Nat
      /\ Reserved \in 1 .. MaxFrames
  BY FramesAssumption
<1>2. total \in 0 .. MaxFrames /\ Reserved <= total
  BY <1>1 DEF InitSize
<1>3. usable = 0 .. total - 1 /\ bitmap = LowMemory /\ used = Reserved
  BY DEF InitSize
<1>4. FTypes
  BY <1>1, <1>2, <1>3 DEF FTypes, AllFrames, LowMemory
<1>5. Cardinality(usable) = total
  BY <1>2, <1>3, FS_Interval
<1>6. Cardinality(LowMemory) = Reserved
  BY <1>1, FS_Interval DEF LowMemory
<1>7. usable \cap bitmap = LowMemory
  BY <1>1, <1>2, <1>3 DEF LowMemory
<1>8. Counted
  <2>1. used = Cardinality(usable \cap bitmap)
    BY <1>3, <1>6, <1>7
  <2>2. used \in Int
    BY <1>4 DEF FTypes
  <2> QED
    BY <1>5, <2>1, <2>2 DEF Counted
<1>9. Marked
  BY <1>2, <1>3, SearchedIn DEF Marked
<1> QED
  BY <1>4, <1>8, <1>9 DEF FInv, HeldExists

(* pmm_init_from_mmap sets it up: low frames that the map leaves out may   *)
(* be counted as used, those that it has all are.                          *)
LEMMA MapInv ==
  ASSUME NEW map \in Maps, InitMap(map), held = {}
  PROVE  FInv
<1> DEFINE regions == UNION {Region(r) : r \in map}
           counted == {f \in LowMemory : ~Tests(f, AllFrames \ regions)}
<1>1. MaxFrames \in Nat /\ Reserved \in 1 .. MaxFrames
  BY FramesAssumption
<1>2. LowMemory \subseteq AllFrames
  BY <1>1 DEF LowMemory, AllFrames
<1>3. regions \in SUBSET AllFrames
  BY DEF Region
<1>4. /\ usable = regions /\ total = Cardinality(regions)
      /\ bitmap = (AllFrames \ regions) \cup LowMemory
      /\ used = Cardinality(counted)
  BY DEF InitMap
<1>5. Cardinality(AllFrames) = MaxFrames /\ IsFiniteSet(AllFrames)
  BY <1>1, FS_Interval DEF AllFrames
<1>6. total \in 0 .. MaxFrames
  <2>1. Cardinality(regions) <= Cardinality(AllFrames)
    BY <1>3, <1>5, FS_Subset
  <2> QED
    BY <1>3, <1>4, <1>5, <2>1, FramesFinite
<1>7. counted \in SUBSET AllFrames
  BY <1>2
<1>8. FTypes
  BY <1>2, <1>3, <1>4, <1>6, <1>7, FramesFinite DEF FTypes
<1>9. usable \cap bitmap = LowMemory \cap regions
  BY <1>2, <1>3, <1>4
<1>10. LowMemory \cap regions \subseteq counted
  BY DEF Tests
<1>11. Cardinality(LowMemory \cap regions) <= Cardinality(counted)
  BY <1>7, <1>10, FramesFinite, FS_Subset
<1>12. LowMemory \subseteq usable => counted = LowMemory \cap regions
  BY <1>4, <1>10
<1>13. Counted
  BY <1>4, <1>7, <1>9, <1>11, <1>12, FramesFinite DEF Counted
<1>14. Searched \subseteq AllFrames
  BY <1>1, <1>6, SearchedIn DEF AllFrames
<1>15. Marked
  BY <1>4, <1>14 DEF Marked
<1> QED
  BY <1>8, <1>13, <1>15 DEF FInv, HeldExists

-----------------------------------------------------------------------------
(* A frame that is found is one of those there are, and was not marked.    *)
LEMMA FirstIs ==
  ASSUME FInv, NEW map \in SUBSET AllFrames, bitmap \subseteq map,
         NEW f, IsFirst(f, map)
  PROVE  f \in usable \ map /\ f \in AllFrames \ LowMemory
<1>1. f \in Searched /\ f \notin map
  BY DEF IsFirst, Clear
<1> QED
  BY <1>1 DEF FInv, FTypes, Marked

(* Marking and counting a usable frame keeps the counts.                   *)
LEMMA MarkOne ==
  ASSUME NEW S \in SUBSET AllFrames, NEW U \in SUBSET AllFrames,
         NEW f \in U \ S
  PROVE  Cardinality(U \cap (S \cup {f})) = Cardinality(U \cap S) + 1
<1>1. U \cap (S \cup {f}) = (U \cap S) \cup {f} /\ f \notin U \cap S
  OBVIOUS
<1>2. IsFiniteSet(U \cap S)
  BY FramesFinite
<1> QED
  BY <1>1, <1>2, FS_AddElement

(* Clearing and uncounting one does too.                                   *)
LEMMA ClearOne ==
  ASSUME NEW S \in SUBSET AllFrames, NEW U \in SUBSET AllFrames,
         NEW f \in U \cap S
  PROVE  Cardinality(U \cap (S \ {f})) = Cardinality(U \cap S) - 1
<1> DEFINE T == U \cap S
<1>1. U \cap (S \ {f}) = T \ {f} /\ f \in T
  OBVIOUS
<1>2. IsFiniteSet(T)
  BY FramesFinite
<1> HIDE DEF T
<1>3. Cardinality(T \ {f}) = Cardinality(T) - 1
  BY <1>1, <1>2, FS_RemoveElement
<1> QED
  BY <1>1, <1>3 DEF T

(* Taking the first clear frame keeps the invariant, whoever gets it.      *)
LEMMA TakeInv ==
  ASSUME FInv, NEW f, Take(f), held' \in {held, held \cup {f}}
  PROVE  FInv'
<1>1. f \in usable \ bitmap /\ f \in AllFrames \ LowMemory
  BY FirstIs DEF Take, FInv, FTypes
<1>2. /\ bitmap' = bitmap \cup {f} /\ used' = used + 1
      /\ total' = total /\ usable' = usable
  BY DEF Take
<1>3. FTypes'
  BY <1>1, <1>2 DEF FInv, FTypes
<1>4. Cardinality(usable \cap bitmap') = Cardinality(usable \cap bitmap) + 1
  BY <1>1, <1>2, MarkOne DEF FInv, FTypes
<1>5. Cardinality(usable \cap bitmap) \in Nat
  BY FramesFinite DEF FInv, FTypes
<1>6. Counted'
  BY <1>2, <1>4, <1>5 DEF FInv, Counted, FTypes
<1>7. Marked' /\ HeldExists'
  BY <1>1, <1>2 DEF FInv, Marked, HeldExists, Searched
<1> QED
  BY <1>3, <1>6, <1>7 DEF FInv

(* Giving a frame back keeps it, whether frame_test sees the bit or not.   *)
LEMMA FreeInv ==
  ASSUME FInv, NEW f, FreeFrame(f)
  PROVE  FInv'
<1>1. /\ f \in (usable \cap bitmap) \ LowMemory
      /\ held' = held \ {f} /\ total' = total /\ usable' = usable
  BY DEF FreeFrame, FInv, HeldExists
<1>2. CASE Tests(f, bitmap)
  <2>1. bitmap' = bitmap \ {f} /\ used' = used - 1
    BY <1>2 DEF FreeFrame, Release
  <2>2. Cardinality(usable \cap bitmap') = Cardinality(usable \cap bitmap) - 1
    BY <1>1, <2>1, ClearOne DEF FInv, FTypes
  <2>3. Cardinality(usable \cap bitmap) \in Nat
    BY FramesFinite DEF FInv, FTypes
  <2>4. FTypes'
    BY <1>1, <2>1 DEF FInv, FTypes
  <2>5. Counted'
    BY <1>1, <2>1, <2>2, <2>3 DEF FInv, Counted, FTypes
  <2>6. Marked' /\ HeldExists'
    BY <1>1, <2>1 DEF FInv, Marked, HeldExists, Searched
  <2> QED
    BY <2>4, <2>5, <2>6 DEF FInv
<1>3. CASE ~Tests(f, bitmap)
  <2>1. bitmap' = bitmap /\ used' = used
    BY <1>3 DEF FreeFrame, Release
  <2> QED
    BY <1>1, <2>1 DEF FInv, FTypes, Counted, Marked, HeldExists, Searched
<1> QED
  BY <1>2, <1>3

(* paging_init takes two frames.                                           *)
LEMMA PagingInitInv ==
  ASSUME FInv, NEW d, NEW t, PagingInit(d, t)
  PROVE  FInv'
<1>1. d \in usable \ bitmap /\ d \in AllFrames \ LowMemory
  BY FirstIs DEF PagingInit, FInv, FTypes
<1>2. t \in usable \ (bitmap \cup {d}) /\ t \in AllFrames \ LowMemory
  BY <1>1, FirstIs DEF PagingInit, FInv, FTypes
<1>3. /\ bitmap' = (bitmap \cup {d}) \cup {t} /\ used' = used + 2
      /\ total' = total /\ usable' = usable /\ held' = held
  BY DEF PagingInit
<1>4. Cardinality(usable \cap (bitmap \cup {d})) = Cardinality(usable \cap bitmap) + 1
  BY <1>1, MarkOne DEF FInv, FTypes
<1>5. Cardinality(usable \cap bitmap') = Cardinality(usable \cap (bitmap \cup {d})) + 1
  <2>1. bitmap \cup {d} \in SUBSET AllFrames /\ usable \in SUBSET AllFrames
    BY <1>1 DEF FInv, FTypes
  <2> QED
    BY <1>2, <1>3, <2>1, MarkOne
<1>6. Cardinality(usable \cap bitmap) \in Nat
  BY FramesFinite DEF FInv, FTypes
<1>7. FTypes'
  BY <1>1, <1>2, <1>3 DEF FInv, FTypes
<1>8. Counted'
  BY <1>3, <1>4, <1>5, <1>6 DEF FInv, Counted, FTypes
<1>9. Marked' /\ HeldExists'
  BY <1>3 DEF FInv, Marked, HeldExists, Searched
<1> QED
  BY <1>7, <1>8, <1>9 DEF FInv

(* Steps that leave the allocator alone.                                   *)
LEMMA IdleInv ==
  ASSUME FInv, UNCHANGED fvars
  PROVE  FInv'
BY DEF FInv, FTypes, Counted, Marked, HeldExists, Searched, fvars

-----------------------------------------------------------------------------
(* FInv is an inductive invariant of Spec.                                 *)
THEOREM FramesInductive == Spec => []FInv
<1>1. Init => FInv
  BY SizeInv, MapInv DEF Init, FramesInit
<1>2. FInv /\ [Next]_vars => FInv'
  <2> SUFFICES ASSUME FInv, [Next]_vars PROVE FInv'
    OBVIOUS
  <2>1. ASSUME NEW d \in AllFrames, NEW t \in AllFrames, PagingInit(d, t)
        PROVE  FInv'
    BY <2>1, PagingInitInv
  <2>2. ASSUME NEW p \in VPages, NEW f \in PFrames, PagingMap(p, f)
        PROVE  FInv'
    <3>1. held' = held
      BY <2>2 DEF PagingMap
    <3>2. CASE UNCHANGED <<bitmap, total, used, usable>>
      BY <3>1, <3>2, IdleInv DEF fvars
    <3>3. ASSUME NEW n \in AllFrames, NewTable(n)
          PROVE  FInv'
      BY <3>1, <3>2, <3>3, TakeInv DEF NewTable
    <3> QED
      BY <2>2, <3>2, <3>3 DEF PagingMap
  <2>3. ASSUME NEW p \in VPages, PagingUnmap(p) \/ Access(p)
        PROVE  FInv'
    BY <2>3, IdleInv DEF PagingUnmap, Access
  <2>4. ASSUME NEW f \in AllFrames, CallerAllocs(f)
        PROVE  FInv'
    BY <2>4, TakeInv DEF CallerAllocs, AllocFrame
  <2>5. ASSUME NEW f \in AllFrames, CallerFrees(f)
        PROVE  FInv'
    BY <2>5, FreeInv DEF CallerFrees
  <2>6. CASE UNCHANGED vars
    BY <2>6, IdleInv DEF vars
  <2> QED
    BY <2>1, <2>2, <2>3, <2>4, <2>5, <2>6 DEF Next
<1> QED
  BY <1>1, <1>2, PTL DEF Spec

(* What is usable and clear is what the search can find, and what it does  *)
(* not look at.                                                            *)
LEMMA ClearSplits ==
  ASSUME FInv
  PROVE  LET had == Cardinality(Clear(bitmap))
             beyond == Cardinality(usable \ (Searched \cup bitmap))
         IN  had \in Nat /\ beyond \in Nat
               /\ had + beyond = Cardinality(usable \ bitmap)
<1> DEFINE C == Clear(bitmap)
           B == usable \ (Searched \cup bitmap)
<1>1. usable \ bitmap = C \cup B /\ C \cap B = {}
  BY DEF FInv, Marked, Clear
<1>2. C \in SUBSET AllFrames /\ B \in SUBSET AllFrames
  BY <1>1 DEF FInv, FTypes
<1>3. /\ IsFiniteSet(C) /\ Cardinality(C) \in Nat
      /\ IsFiniteSet(B) /\ Cardinality(B) \in Nat
  BY <1>2, FramesFinite
<1> HIDE DEF C, B
<1>4. Cardinality(C \cup B) = Cardinality(C) + Cardinality(B)
  <2>1. Cardinality(C \cup B)
          = Cardinality(C) + Cardinality(B) - Cardinality(C \cap B)
    BY <1>3, FS_Union
  <2>2. C \cap B = {}
    BY <1>1
  <2>3. Cardinality(C \cap B) = 0
    BY <2>2, FS_EmptySet, Zenon
  <2> QED
    BY <1>3, <2>1, <2>3
<1> QED
  BY <1>1, <1>3, <1>4 DEF C, B

(* In memory of one piece the search leaves out less than a word.          *)
LEMMA LastWord ==
  ASSUME FInv, usable = 0 .. total - 1
  PROVE  Cardinality(usable \ (Searched \cup bitmap)) <= total % WordBits
<1> DEFINE B == usable \ (Searched \cup bitmap)
           end == WordBits * (total \div WordBits)
           Rest == end .. total - 1
<1>1. WordBits \in Nat \ {0} /\ total \in Nat
  BY FramesAssumption DEF FInv, FTypes
<1>2. end \in Nat /\ total - end = total % WordBits /\ total % WordBits \in Nat
  BY <1>1
<1>3. B \subseteq Rest
  BY <1>1, <1>2 DEF Searched
<1> HIDE DEF B, end
<1>4. IsFiniteSet(Rest) /\ Cardinality(Rest) = total % WordBits
  <2>1. end \in Int /\ total - 1 \in Int
    BY <1>1, <1>2
  <2>2. /\ IsFiniteSet(Rest)
        /\ Cardinality(Rest) = IF end > total - 1 THEN 0 ELSE (total - 1) - end + 1
    BY <2>1, FS_Interval
  <2>3. PICK left : left = total % WordBits
    OBVIOUS
  <2>4. left \in Nat /\ total - end = left
    BY <1>2, <2>3
  <2>5. (IF end > total - 1 THEN 0 ELSE (total - 1) - end + 1) = left
    BY <1>1, <1>2, <2>4
  <2> QED
    BY <2>2, <2>3, <2>5
<1>5. Cardinality(B) <= Cardinality(Rest)
  BY <1>3, <1>4, FS_Subset
<1> QED
  BY <1>4, <1>5 DEF B

(* What pmm_get_free_frames promises is what the search can find and the   *)
(* usable frames it never looks at, in memory of one piece less than a     *)
(* word of them.                                                           *)
THEOREM FreeCountAlways == Spec => []FreeCount
<1>1. FInv => FreeCount
  <2> SUFFICES ASSUME FInv PROVE FreeCount
    OBVIOUS
  <2> DEFINE had == Cardinality(Clear(bitmap))
             beyond == Cardinality(usable \ (Searched \cup bitmap))
  <2>1. Cardinality(usable \ bitmap)
          = Cardinality(usable) - Cardinality(usable \cap bitmap)
    BY SplitCount DEF FInv, FTypes
  <2>2. /\ Cardinality(usable) \in Nat /\ Cardinality(usable \cap bitmap) \in Nat
        /\ used \in Int
    BY FramesFinite DEF FInv, FTypes
  <2>3. /\ had \in Nat /\ beyond \in Nat
        /\ had + beyond = Cardinality(usable \ bitmap)
    BY ClearSplits
  <2>4. usable = 0 .. total - 1 => beyond <= total % WordBits
    BY LastWord
  <2>5. total \in Nat /\ total % WordBits \in Nat
    BY FramesAssumption DEF FInv, FTypes
  <2> HIDE DEF had, beyond
  <2>6. /\ total - used <= had + beyond
        /\ LowMemory \subseteq usable => total - used = had + beyond
    BY <2>1, <2>2, <2>3 DEF FInv, Counted
  <2>7. usable = 0 .. total - 1 => total - used <= had + (total % WordBits)
    BY <2>2, <2>3, <2>4, <2>5, <2>6
  <2> QED
    BY <2>6, <2>7 DEF FreeCount, had, beyond
<1> QED
  BY <1>1, FramesInductive, PTL

(* Frames that callers have exist, are not of the first 4 MB, and stay     *)
(* marked.                                                                 *)
THEOREM HeldExistsAlways == Spec => []HeldExists
<1>1. FInv => HeldExists
  BY DEF FInv
<1> QED
  BY <1>1, FramesInductive, PTL

(* The bitmap, the counts and what callers have always agree.              *)
THEOREM FramesSoundAlways == Spec => []FramesSound
<1>1. FInv => FramesTypeOK
  BY DEF FInv, FTypes, FramesTypeOK
<1> QED
  BY <1>1, FramesInductive, FreeCountAlways, HeldExistsAlways, PTL DEF FramesSound

-----------------------------------------------------------------------------
(* The tables.  Types of what paging adds.                                 *)
PTypes ==
  /\ dir \in AllFrames \cup {None}
  /\ mem \in [AllFrames -> [Entries -> AllFrames \cup {None}]]
  /\ tlb \in [VPages -> AllFrames \cup {None}]
  /\ promise \in [VPages -> AllFrames \cup {None}]
  /\ orderly \in BOOLEAN

PInv == FInv /\ PTypes /\ TablesOwn

(* The directory index of a page is an index of the directory, and so is   *)
(* its table index.                                                        *)
LEMMA IndexIn ==
  ASSUME NEW p \in VPages
  PROVE  DirIndex(p) \in Entries /\ TableIndex(p) \in Entries
<1>1. PerTable \in Nat \ {0} /\ p \in 0 .. PerTable * PerTable - 1
  BY PagingAssumption DEF Pages
<1>2. p \div PerTable \in Nat /\ p % PerTable \in 0 .. PerTable - 1
  BY <1>1
<1>3. p \div PerTable < PerTable
  BY <1>1
<1> QED
  BY <1>1, <1>2, <1>3 DEF Entries, DirIndex, TableIndex

(* What the i-th identity table has for its j-th page is a frame.          *)
LEMMA Identity ==
  ASSUME NEW i \in 0 .. IdTables - 1, NEW j \in 0 .. PerTable - 1
  PROVE  i * PerTable + j \in AllFrames
<1>1. /\ PerTable \in Nat \ {0} /\ IdTables \in Nat /\ i \in Nat /\ j \in Nat
      /\ i + 1 <= IdTables /\ IdTables * PerTable <= MaxFrames /\ MaxFrames \in Nat
  BY PagingAssumption, FramesAssumption
<1>2. (i + 1) * PerTable <= IdTables * PerTable
  BY <1>1
<1>3. (i + 1) * PerTable = i * PerTable + PerTable /\ i * PerTable \in Nat
  BY <1>1
<1> QED
  BY <1>1, <1>2, <1>3 DEF AllFrames

(* TablesOwn, spelt out.                                                   *)
LEMMA OwnIs ==
  ASSUME dir \in AllFrames, orderly
  PROVE  TablesOwn <=>
    /\ dir \in bitmap \ held
    /\ \A i \in Entries \ Unallocated : mem[dir][i] # None =>
          /\ mem[dir][i] \in bitmap \ held
          /\ mem[dir][i] # dir
          /\ \A j \in Entries \ Unallocated :
                mem[dir][i] = mem[dir][j] => i = j
<1>1. dir # None
  BY PagingAssumption
<1> QED
  BY <1>1 DEF TablesOwn

LEMMA OwnIsNext ==
  ASSUME dir' \in AllFrames, orderly'
  PROVE  TablesOwn' <=>
    /\ dir' \in bitmap' \ held'
    /\ \A i \in Entries \ Unallocated : mem'[dir'][i] # None =>
          /\ mem'[dir'][i] \in bitmap' \ held'
          /\ mem'[dir'][i] # dir'
          /\ \A j \in Entries \ Unallocated :
                mem'[dir'][i] = mem'[dir'][j] => i = j
<1>1. dir' # None
  BY PagingAssumption
<1> QED
  BY <1>1 DEF TablesOwn

(* A page is found at a frame or not at all.                               *)
LEMMA PhysicalIn ==
  ASSUME PTypes, dir # None, NEW p \in VPages
  PROVE  Physical(p) \in AllFrames \cup {None}
<1>1. DirIndex(p) \in Entries /\ TableIndex(p) \in Entries
  BY IndexIn
<1> QED
  BY <1>1 DEF PTypes, Physical, Present, TableOf

(* paging_init: the directory and the first table are two frames.          *)
LEMMA PagingInitOwn ==
  ASSUME PInv, NEW d \in AllFrames, NEW t \in AllFrames, PagingInit(d, t)
  PROVE  PInv'
<1> DEFINE Dir == [i \in Entries |-> IF i < IdTables THEN t + i ELSE None]
           Table(f) == [j \in Entries |-> (f - t) * PerTable + j]
<1>1. FInv'
  BY PagingInitInv DEF PInv
<1>2. /\ IdTables \in 1 .. PerTable /\ PerTable \in Nat \ {0}
      /\ MaxFrames \in Nat
  BY PagingAssumption, FramesAssumption
<1>3. /\ dir' = d /\ orderly' = orderly /\ held' = held /\ held = {}
      /\ bitmap' = bitmap \cup {d, t}
      /\ mem' = [f \in AllFrames |->
                  IF f = d THEN Dir
                  ELSE IF f \in t .. t + IdTables - 1 THEN Table(f) ELSE mem[f]]
  BY DEF PagingInit
<1>4. Dir \in [Entries -> AllFrames \cup {None}]
  BY <1>2 DEF Entries, AllFrames, PagingInit
<1>5. ASSUME NEW f \in t .. t + IdTables - 1
      PROVE  Table(f) \in [Entries -> AllFrames \cup {None}]
  <2>1. t \in Int /\ f - t \in 0 .. IdTables - 1
    BY <1>2 DEF AllFrames
  <2> QED
    BY <2>1, Identity DEF Entries
<1>6. PTypes'
  <2>1. mem' \in [AllFrames -> [Entries -> AllFrames \cup {None}]]
    BY <1>3, <1>4, <1>5 DEF PInv, PTypes
  <2>2. promise' \in [VPages -> AllFrames \cup {None}]
    <3>1. ASSUME NEW p \in VPages, p < IdTables * PerTable
          PROVE  p \in AllFrames
      <4>1. PICK n : n = IdTables * PerTable
        OBVIOUS
      <4>2. n \in Nat /\ n <= MaxFrames
        BY <1>2, <4>1, PagingAssumption
      <4>3. PICK m : m = PerTable * PerTable
        OBVIOUS
      <4>4. m \in Nat
        BY <1>2, <4>3
      <4>5. p \in 0 .. m - 1 /\ p < n
        BY <3>1, <4>1, <4>3, PagingAssumption DEF Pages
      <4> QED
        BY <1>2, <4>2, <4>4, <4>5 DEF AllFrames
    <3> QED
      BY <3>1 DEF PagingInit
  <2> QED
    BY <1>3, <2>1, <2>2 DEF PInv, PTypes, PagingInit
<1>7. t # d /\ t \in Int
  BY <1>2 DEF PagingInit, IsFirst, Clear, AllFrames
<1>8. TablesOwn'
  <2> SUFFICES ASSUME orderly' PROVE TablesOwn'
    BY DEF TablesOwn
  <2>1. mem'[dir'] = Dir
    BY <1>3
  <2>2. ASSUME NEW i \in Entries \ Unallocated, Dir[i] # None
        PROVE  i = 0 /\ Dir[i] = t
    BY <1>2, <1>7, <2>2 DEF Entries, Unallocated
  <2> QED
    BY <1>3, <1>7, <2>1, <2>2, OwnIsNext
<1> QED
  BY <1>1, <1>6, <1>8 DEF PInv

(* An entry of a table that is there changes.                              *)
LEMMA EntryOwn ==
  ASSUME PInv, NEW p \in VPages, NEW x \in AllFrames \cup {None},
         dir # None, Present(p),
         mem' = [mem EXCEPT ![TableOf(p)][TableIndex(p)] = x],
         orderly' = (orderly /\ DirIndex(p) \notin Unallocated),
         Flush(p), promise' = [promise EXCEPT ![p] = x],
         UNCHANGED <<bitmap, held, dir>>
  PROVE  PTypes' /\ TablesOwn'
<1>1. DirIndex(p) \in Entries /\ TableIndex(p) \in Entries
  BY IndexIn
<1>2. dir \in AllFrames
  BY DEF PInv, PTypes
<1>3. PTypes'
  <2>1. mem' \in [AllFrames -> [Entries -> AllFrames \cup {None}]]
    <3>1. TableOf(p) \in AllFrames
      BY <1>1, <1>2 DEF PInv, PTypes, Present, TableOf
    <3> QED
      BY <1>1, <3>1 DEF PInv, PTypes
  <2>2. /\ tlb' \in [VPages -> AllFrames \cup {None}]
        /\ promise' \in [VPages -> AllFrames \cup {None}]
    BY DEF PInv, PTypes, Flush
  <2> QED
    BY <2>1, <2>2 DEF PInv, PTypes
<1>4. ASSUME orderly' PROVE TablesOwn'
  <2>1. orderly /\ DirIndex(p) \in Entries \ Unallocated
    BY <1>1, <1>4
  <2>2. TableOf(p) # dir
    BY <1>2, <2>1, OwnIs DEF PInv, Present, TableOf
  <2>3. mem'[dir'] = mem[dir]
    BY <1>2, <2>2 DEF PInv, PTypes
  <2> QED
    BY <1>2, <1>4, <2>1, <2>3, OwnIs, OwnIsNext DEF PInv
<1> QED
  BY <1>3, <1>4 DEF TablesOwn

(* A new table is a frame that was clear, and so no other table's.         *)
LEMMA LinkOwn ==
  ASSUME PInv, NEW p \in VPages, NEW f \in AllFrames, NEW n \in AllFrames,
         dir # None, ~Present(p),
         NewTable(n), mem' = Link(p, n, f),
         orderly' = (orderly /\ Clear(bitmap) # {}),
         Flush(p), promise' = [promise EXCEPT ![p] = f],
         UNCHANGED <<held, dir>>
  PROVE  PTypes' /\ TablesOwn'
<1>1. DirIndex(p) \in Entries /\ TableIndex(p) \in Entries
  BY IndexIn
<1>2. dir \in AllFrames
  BY DEF PInv, PTypes
<1>3. Blank \in [Entries -> AllFrames \cup {None}] /\ n \in Int
  BY FramesAssumption DEF Blank, AllFrames
<1>4. PTypes'
  <2>1. mem' \in [AllFrames -> [Entries -> AllFrames \cup {None}]]
    BY <1>1, <1>2, <1>3 DEF PInv, PTypes, Link
  <2>2. /\ tlb' \in [VPages -> AllFrames \cup {None}]
        /\ promise' \in [VPages -> AllFrames \cup {None}]
    BY DEF PInv, PTypes, Flush
  <2> QED
    BY <2>1, <2>2 DEF PInv, PTypes
<1>5. ASSUME orderly' PROVE TablesOwn'
  <2>1. orderly /\ Take(n)
    BY <1>5 DEF NewTable
  <2>2. n \notin bitmap /\ bitmap' = bitmap \cup {n}
    BY <2>1 DEF Take, IsFirst, Clear
  <2>3. n # dir /\ dir \in bitmap \ held /\ n \notin held
    BY <1>2, <2>1, <2>2, OwnIs DEF PInv, FInv, HeldExists
  <2>4. mem'[dir'] = [mem[dir] EXCEPT ![DirIndex(p)] = n]
    BY <1>1, <1>2, <1>3, <2>3 DEF PInv, PTypes, Link
  <2>5. mem[dir] \in [Entries -> AllFrames \cup {None}]
    BY <1>2 DEF PInv, PTypes
  <2>6. \A i \in Entries \ Unallocated : mem[dir][i] # None =>
          /\ mem[dir][i] \in bitmap \ held
          /\ mem[dir][i] # dir
          /\ \A j \in Entries \ Unallocated :
                mem[dir][i] = mem[dir][j] => i = j
    BY <1>2, <2>1, OwnIs DEF PInv
  <2>7. ASSUME NEW i \in Entries \ Unallocated, mem'[dir'][i] # None
        PROVE  /\ mem'[dir'][i] \in bitmap' \ held'
               /\ mem'[dir'][i] # dir'
               /\ \A j \in Entries \ Unallocated :
                     mem'[dir'][i] = mem'[dir'][j] => i = j
    <3>1. \A j \in Entries : mem'[dir'][j] = IF j = DirIndex(p) THEN n ELSE mem[dir][j]
      BY <2>4, <2>5
    <3>2. CASE i = DirIndex(p)
      BY <2>2, <2>3, <2>6, <2>7, <3>1, <3>2
    <3>3. CASE i # DirIndex(p)
      BY <2>2, <2>3, <2>6, <2>7, <3>1, <3>3
    <3> QED
      BY <3>2, <3>3
  <2> QED
    BY <1>2, <1>5, <2>2, <2>3, <2>7, OwnIsNext
<1> QED
  BY <1>4, <1>5 DEF TablesOwn

(* A frame given to a caller was clear, so that it is neither the          *)
(* directory nor a table; one that a caller gives back was the caller's.   *)
LEMMA CallerOwn ==
  ASSUME PInv, NEW f \in AllFrames, CallerAllocs(f) \/ CallerFrees(f)
  PROVE  PTypes' /\ TablesOwn'
<1>1. Blank \in [Entries -> AllFrames \cup {None}]
  BY DEF Blank
<1>2. PTypes'
  BY <1>1 DEF PInv, PTypes, CallerAllocs, CallerFrees, pvars
<1>3. ASSUME orderly', dir # None PROVE TablesOwn'
  <2>1. dir' = dir /\ dir \in AllFrames /\ orderly
    BY <1>3 DEF PInv, PTypes, CallerAllocs, CallerFrees, pvars
  <2>2. CASE CallerAllocs(f)
    <3>1. /\ f \notin bitmap /\ bitmap' = bitmap \cup {f}
          /\ held' = held \cup {f}
      BY <2>2 DEF CallerAllocs, AllocFrame, Take, IsFirst, Clear
    <3>2. mem'[dir'] = mem[dir]
      BY <2>1, <2>2, <3>1, OwnIs DEF CallerAllocs, PInv, PTypes
    <3> QED
      BY <1>3, <2>1, <3>1, <3>2, OwnIs, OwnIsNext DEF PInv
  <2>3. CASE CallerFrees(f)
    <3>1. f \in held /\ held' = held \ {f} /\ bitmap' \in {bitmap, bitmap \ {f}}
      BY <2>3 DEF CallerFrees, FreeFrame, Release
    <3>2. mem' = mem
      BY <2>3 DEF CallerFrees, pvars
    <3> QED
      BY <1>3, <2>1, <3>1, <3>2, OwnIs, OwnIsNext DEF PInv
  <2> QED
    BY <2>2, <2>3
<1>4. dir' = dir
  BY DEF CallerAllocs, CallerFrees, pvars
<1> QED
  BY <1>2, <1>3, <1>4 DEF TablesOwn

(* PInv is an inductive invariant of Spec.                                 *)
THEOREM TablesInductive == Spec => []PInv
<1>1. Init => PTypes /\ TablesOwn
  BY DEF Init, PTypes, TablesOwn, Blank
<1>2. FInv /\ FInv' /\ PTypes /\ TablesOwn /\ [Next]_vars => (PTypes /\ TablesOwn)'
  <2> SUFFICES ASSUME PInv, FInv', [Next]_vars PROVE (PTypes /\ TablesOwn)'
    BY DEF PInv
  <2>1. ASSUME NEW d \in AllFrames, NEW t \in AllFrames, PagingInit(d, t)
        PROVE  (PTypes /\ TablesOwn)'
    BY <2>1, PagingInitOwn DEF PInv
  <2>2. ASSUME NEW p \in VPages, NEW f \in PFrames, PagingMap(p, f)
        PROVE  (PTypes /\ TablesOwn)'
    <3>1. f \in AllFrames
      BY PagingAssumption
    <3>2. CASE Present(p)
      BY <2>2, <3>1, <3>2, EntryOwn DEF PagingMap
    <3>3. CASE ~Present(p)
      BY <2>2, <3>1, <3>3, LinkOwn DEF PagingMap
    <3> QED
      BY <3>2, <3>3
  <2>3. ASSUME NEW p \in VPages, PagingUnmap(p)
        PROVE  (PTypes /\ TablesOwn)'
    BY <2>3, EntryOwn DEF PagingUnmap, fvars
  <2>4. ASSUME NEW p \in VPages, Access(p)
        PROVE  (PTypes /\ TablesOwn)'
    <3>1. Physical(p) \in AllFrames \cup {None}
      BY <2>4, PhysicalIn DEF PInv, Access
    <3> QED
      BY <2>4, <3>1 DEF Access, fvars, PInv, PTypes, TablesOwn
  <2>5. ASSUME NEW f \in AllFrames, CallerAllocs(f) \/ CallerFrees(f)
        PROVE  (PTypes /\ TablesOwn)'
    BY <2>5, CallerOwn
  <2>6. CASE UNCHANGED vars
    BY <2>6 DEF vars, fvars, pvars, PInv, PTypes, TablesOwn
  <2> QED
    BY <2>1, <2>2, <2>3, <2>4, <2>5, <2>6 DEF Next
<1> QED
  BY <1>1, <1>2, FramesInductive, PTL DEF Spec, PInv

(* The directory and the tables are apart from each other and from what    *)
(* callers have, and are never handed out.                                 *)
THEOREM TablesOwnAlways == Spec => []TablesOwn
BY TablesInductive, PTL DEF PInv

-----------------------------------------------------------------------------
(* The frames that stay marked.  The directory is never handed out, nor is *)
(* it a table of its own, so that no entry of it is ever replaced.         *)
DirSafe ==
  dir # None =>
    /\ dir \in bitmap \ (held \cup LowMemory)
    /\ \A i \in Entries : mem[dir][i] # dir

DirFrames == IF dir = None THEN {} ELSE {dir} \cup {mem[dir][i] : i \in Entries}

UInv == PInv /\ DirSafe /\ OnlyUnseenLost

(* OnlyUnseenLost holds after a step that marks only what the directory or *)
(* a caller then has, and clears only what a caller had.                   *)
LEMMA UnseenKept ==
  ASSUME OnlyUnseenLost, usable' = usable,
         DirFrames \subseteq DirFrames',
         \A f \in bitmap' \ bitmap : f \in held' \cup DirFrames',
         \A f \in (held \cap bitmap') \ held' : f % WordBits >= BoolBits
  PROVE  OnlyUnseenLost'
BY DEF OnlyUnseenLost, DirFrames

LEMMA PagingInitUnseen ==
  ASSUME UInv, NEW d \in AllFrames, NEW t \in AllFrames, PagingInit(d, t)
  PROVE  DirSafe' /\ OnlyUnseenLost'
<1> DEFINE Dir == [i \in Entries |-> IF i < IdTables THEN t + i ELSE None]
<1>1. /\ IdTables \in 1 .. PerTable /\ PerTable \in Nat \ {0}
      /\ MaxFrames \in Nat /\ None \notin AllFrames
  BY PagingAssumption, FramesAssumption
<1>2. /\ dir = None /\ dir' = d /\ held' = {} /\ held = {} /\ usable' = usable
      /\ bitmap' = bitmap \cup {d, t} /\ mem'[d] = Dir
  BY DEF PagingInit
<1>3. d \in Searched /\ d \notin bitmap /\ d \notin LowMemory
  BY DEF PagingInit, IsFirst, Clear, UInv, PInv, FInv, Marked
<1>4. d < t
  <2>1. t \in Clear(bitmap \cup {d})
    BY DEF PagingInit, IsFirst
  <2>2. t \in Clear(bitmap) /\ t # d
    BY <2>1 DEF Clear
  <2>3. d <= t
    BY <2>2 DEF PagingInit, IsFirst
  <2> QED
    BY <1>1, <2>2, <2>3 DEF AllFrames
<1>5. \A i \in Entries : Dir[i] # d
  BY <1>1, <1>4 DEF Entries, AllFrames
<1>6. DirSafe'
  BY <1>2, <1>3, <1>5 DEF DirSafe
<1>7. d \in DirFrames' /\ t \in DirFrames'
  <2>1. 0 \in Entries /\ Dir[0] = t
    BY <1>1 DEF Entries, AllFrames
  <2>2. dir' # None
    BY <1>1, <1>2
  <2> QED
    BY <1>2, <2>1, <2>2 DEF DirFrames
<1>8. DirFrames \subseteq DirFrames'
  BY <1>2 DEF DirFrames
<1>9. OnlyUnseenLost'
  BY <1>2, <1>7, <1>8, UnseenKept DEF UInv
<1> QED
  BY <1>6, <1>9

(* Writing an entry of a table leaves the directory as it is.              *)
LEMMA EntryUnseen ==
  ASSUME UInv, NEW p \in VPages, NEW x,
         dir # None, Present(p),
         mem' = [mem EXCEPT ![TableOf(p)][TableIndex(p)] = x],
         UNCHANGED <<bitmap, usable, held, dir>>
  PROVE  DirSafe' /\ OnlyUnseenLost'
<1>1. DirIndex(p) \in Entries /\ dir \in AllFrames
  BY IndexIn DEF UInv, PInv, PTypes
<1>2. TableOf(p) # dir
  BY <1>1 DEF UInv, DirSafe, TableOf
<1>3. mem'[dir] = mem[dir]
  BY <1>1, <1>2 DEF UInv, PInv, PTypes
<1>4. DirSafe'
  BY <1>3 DEF UInv, DirSafe
<1>5. DirFrames' = DirFrames
  BY <1>3 DEF DirFrames
<1> QED
  BY <1>4, <1>5, UnseenKept DEF UInv

(* A new table, or the frame at address 0 used as one, is an entry of the  *)
(* directory, and the entries there were remain.                           *)
LEMMA LinkUnseen ==
  ASSUME UInv, NEW p \in VPages, NEW f \in AllFrames, NEW n \in AllFrames,
         dir # None, ~Present(p),
         NewTable(n), mem' = Link(p, n, f),
         UNCHANGED <<held, dir>>
  PROVE  DirSafe' /\ OnlyUnseenLost'
<1>1. DirIndex(p) \in Entries /\ TableIndex(p) \in Entries /\ dir \in AllFrames
  BY IndexIn DEF UInv, PInv, PTypes
<1>2. 0 \in LowMemory
  BY FramesAssumption DEF LowMemory
<1>3. n # dir
  BY <1>2 DEF NewTable, Take, IsFirst, Clear, UInv, DirSafe
<1>4. bitmap' \in {bitmap, bitmap \cup {n}} /\ usable' = usable
  BY DEF NewTable, Take
<1>5. \A j \in Entries : mem'[dir][j] = IF j = DirIndex(p) THEN n ELSE mem[dir][j]
  BY <1>1, <1>3 DEF Link, UInv, PInv, PTypes
<1>6. DirSafe'
  BY <1>3, <1>4, <1>5 DEF UInv, DirSafe
<1>7. DirFrames \cap AllFrames \subseteq DirFrames' /\ n \in DirFrames'
  <2>1. mem[dir][DirIndex(p)] = None /\ None \notin AllFrames
    BY PagingAssumption DEF Present
  <2> QED
    BY <1>1, <1>5, <2>1 DEF DirFrames
<1>8. OnlyUnseenLost'
  <2>1. bitmap' \subseteq AllFrames
    BY <1>4 DEF UInv, PInv, FInv, FTypes
  <2> QED
    BY <1>4, <1>7, <2>1 DEF OnlyUnseenLost, DirFrames, UInv
<1> QED
  BY <1>6, <1>8

(* A caller takes a frame that was clear, which the directory is not, and  *)
(* gives back one it has: when the bit stays, frame_test does not see it.  *)
LEMMA CallerUnseen ==
  ASSUME UInv, NEW f \in AllFrames, CallerAllocs(f) \/ CallerFrees(f)
  PROVE  DirSafe' /\ OnlyUnseenLost'
<1>1. CASE CallerAllocs(f)
  <2>1. /\ f \notin bitmap /\ bitmap' = bitmap \cup {f}
        /\ held' = held \cup {f} /\ usable' = usable /\ dir' = dir
        /\ mem' = [mem EXCEPT ![f] = Blank]
    BY <1>1 DEF CallerAllocs, AllocFrame, Take, IsFirst, Clear
  <2>2. ASSUME dir # None PROVE f # dir /\ mem'[dir] = mem[dir]
    BY <2>1, <2>2 DEF UInv, DirSafe, PInv, PTypes
  <2>3. DirSafe'
    BY <2>1, <2>2 DEF UInv, DirSafe
  <2>4. DirFrames' = DirFrames
    BY <2>1, <2>2 DEF DirFrames
  <2> QED
    BY <2>1, <2>3, <2>4, UnseenKept DEF UInv
<1>2. CASE CallerFrees(f)
  <2>1. /\ f \in held /\ held' = held \ {f} /\ usable' = usable
        /\ dir' = dir /\ mem' = mem
    BY <1>2 DEF CallerFrees, FreeFrame, pvars
  <2>2. \/ bitmap' = bitmap \ {f}
        \/ bitmap' = bitmap /\ ~Tests(f, bitmap)
    BY <1>2 DEF CallerFrees, FreeFrame, Release
  <2>3. f \in bitmap
    BY <2>1 DEF UInv, PInv, FInv, HeldExists
  <2>4. f \in bitmap' => f % WordBits >= BoolBits
    <3>1. f % WordBits \in Int /\ BoolBits \in Int
      BY FramesAssumption DEF AllFrames
    <3> QED
      BY <2>2, <2>3, <3>1 DEF Tests
  <2>5. DirSafe'
    BY <2>1, <2>2 DEF UInv, DirSafe
  <2>6. DirFrames' = DirFrames
    BY <2>1 DEF DirFrames
  <2> QED
    BY <2>1, <2>2, <2>4, <2>5, <2>6, UnseenKept DEF UInv
<1> QED
  BY <1>1, <1>2

(* UInv is an inductive invariant of Spec.                                 *)
THEOREM UnseenInductive == Spec => []UInv
<1>1. Init => DirSafe /\ OnlyUnseenLost
  <2> SUFFICES ASSUME Init PROVE OnlyUnseenLost
    BY DEF Init, DirSafe
  <2>1. usable \cap bitmap \subseteq LowMemory
    BY DEF Init, FramesInit, InitSize, InitMap
  <2> QED
    BY <2>1 DEF OnlyUnseenLost
<1>2. PInv /\ DirSafe /\ OnlyUnseenLost /\ [Next]_vars
        => (DirSafe /\ OnlyUnseenLost)'
  <2> SUFFICES ASSUME UInv, [Next]_vars PROVE (DirSafe /\ OnlyUnseenLost)'
    BY DEF UInv
  <2>1. ASSUME NEW d \in AllFrames, NEW t \in AllFrames, PagingInit(d, t)
        PROVE  (DirSafe /\ OnlyUnseenLost)'
    BY <2>1, PagingInitUnseen
  <2>2. ASSUME NEW p \in VPages, NEW f \in PFrames, PagingMap(p, f)
        PROVE  (DirSafe /\ OnlyUnseenLost)'
    <3>1. f \in AllFrames
      BY PagingAssumption
    <3>2. CASE Present(p)
      BY <2>2, <3>1, <3>2, EntryUnseen DEF PagingMap
    <3>3. CASE ~Present(p)
      BY <2>2, <3>1, <3>3, LinkUnseen DEF PagingMap
    <3> QED
      BY <3>2, <3>3
  <2>3. ASSUME NEW p \in VPages, PagingUnmap(p)
        PROVE  (DirSafe /\ OnlyUnseenLost)'
    BY <2>3, EntryUnseen DEF PagingUnmap, fvars
  <2>4. ASSUME NEW p \in VPages, Access(p)
        PROVE  (DirSafe /\ OnlyUnseenLost)'
    BY <2>4 DEF Access, fvars, UInv, DirSafe, OnlyUnseenLost
  <2>5. ASSUME NEW f \in AllFrames, CallerAllocs(f) \/ CallerFrees(f)
        PROVE  (DirSafe /\ OnlyUnseenLost)'
    BY <2>5, CallerUnseen
  <2>6. CASE UNCHANGED vars
    BY <2>6 DEF vars, fvars, pvars, UInv, DirSafe, OnlyUnseenLost
  <2> QED
    BY <2>1, <2>2, <2>3, <2>4, <2>5, <2>6 DEF Next
<1> QED
  BY <1>1, <1>2, TablesInductive, PTL DEF Spec, UInv

(* Only frames whose bit frame_test does not see stay marked when no one   *)
(* has them, even when the steps are not orderly.                          *)
THEOREM OnlyUnseenLostAlways == Spec => []OnlyUnseenLost
BY UnseenInductive, PTL DEF UInv

-----------------------------------------------------------------------------
(* The translations.  While steps are orderly no entry of the directory is *)
(* a frame that a caller has: an identity table that was not allocated and *)
(* is clear stays so, and its entries too, until its frame is taken.       *)
EntriesUnheld ==
  dir # None /\ orderly => \A i \in Entries : mem[dir][i] \notin held

NoneEarly == dir = None => \A p \in VPages : tlb[p] = None

Good(p) == Physical(p) = promise[p] /\ tlb[p] \in {None, promise[p]}
Keeps == dir # None /\ orderly => \A p \in VPages : Lasts(p) => Good(p)

KInv == UInv /\ EntriesUnheld /\ NoneEarly /\ Keeps

(* A page is its two indices.                                              *)
LEMMA IndexApart ==
  ASSUME NEW p \in VPages, NEW q \in VPages,
         DirIndex(p) = DirIndex(q), TableIndex(p) = TableIndex(q)
  PROVE  p = q
<1>1. PerTable \in Nat \ {0} /\ p \in Nat /\ q \in Nat
  BY PagingAssumption DEF Pages
<1>2. /\ p = PerTable * (p \div PerTable) + (p % PerTable)
      /\ q = PerTable * (q \div PerTable) + (q % PerTable)
  BY <1>1
<1> QED
  BY <1>2 DEF DirIndex, TableIndex

(* The table of a page that lasts: it is not the directory, and it is the  *)
(* table of no page of another entry that is not an identity table.        *)
LEMMA LastingTable ==
  ASSUME KInv, dir # None, orderly, NEW q \in VPages, Lasts(q), Present(q)
  PROVE  /\ TableOf(q) \in AllFrames \ {dir}
         /\ \A p \in VPages :
              DirIndex(p) \notin Unallocated /\ TableOf(p) = TableOf(q)
                => DirIndex(p) = DirIndex(q)
<1>1. /\ \A p \in VPages : DirIndex(p) \in Entries /\ TableIndex(p) \in Entries
      /\ dir \in AllFrames
  BY IndexIn DEF KInv, UInv, PInv, PTypes
<1>2. TableOf(q) \in AllFrames \ {dir}
  BY <1>1 DEF KInv, UInv, DirSafe, PInv, PTypes, Present, TableOf
<1>3. ASSUME NEW p \in VPages, DirIndex(p) \notin Unallocated,
             TableOf(p) = TableOf(q)
      PROVE  DirIndex(p) = DirIndex(q)
  <2>1. TableOf(p) \in bitmap
    BY <1>1, <1>3, OwnIs DEF KInv, UInv, PInv, Present, TableOf
  <2>2. DirIndex(q) \notin Unallocated
    BY <1>3, <2>1 DEF Lasts
  <2> QED
    BY <1>1, <1>3, <2>2, OwnIs DEF KInv, UInv, PInv, Present, TableOf
<1> QED
  BY <1>2, <1>3

(* A page whose table and whose entry in it are as they were is where it   *)
(* was.                                                                    *)
LEMMA SamePlace ==
  ASSUME KInv, dir # None, orderly, UNCHANGED dir, NEW q \in VPages,
         TableOf(q)' = TableOf(q),
         Present(q) => mem'[TableOf(q)][TableIndex(q)] = mem[TableOf(q)][TableIndex(q)]
  PROVE  Physical(q)' = Physical(q)
BY DEF Physical, Present, TableOf

(* Writing an entry moves the one page it is for.                          *)
LEMMA EntryKept ==
  ASSUME KInv, NEW p \in VPages, NEW x \in AllFrames \cup {None},
         dir # None, Present(p),
         mem' = [mem EXCEPT ![TableOf(p)][TableIndex(p)] = x],
         orderly' = (orderly /\ DirIndex(p) \notin Unallocated),
         Flush(p), promise' = [promise EXCEPT ![p] = x],
         UNCHANGED <<bitmap, held, dir>>
  PROVE  EntriesUnheld' /\ NoneEarly' /\ Keeps'
<1>1. /\ \A q \in VPages : DirIndex(q) \in Entries /\ TableIndex(q) \in Entries
      /\ dir \in AllFrames /\ mem \in [AllFrames -> [Entries -> AllFrames \cup {None}]]
      /\ promise \in [VPages -> AllFrames \cup {None}]
      /\ tlb \in [VPages -> AllFrames \cup {None}]
  BY IndexIn DEF KInv, UInv, PInv, PTypes
<1>2. TableOf(p) \in AllFrames \ {dir}
  BY <1>1 DEF KInv, UInv, DirSafe, Present, TableOf
<1>3. mem'[dir] = mem[dir] /\ dir' = dir
  BY <1>1, <1>2
<1>4. EntriesUnheld'
  <2> SUFFICES ASSUME orderly' PROVE \A i \in Entries : mem'[dir'][i] \notin held'
    BY DEF EntriesUnheld
  <2>1. \A i \in Entries : mem[dir][i] \notin held
    BY DEF KInv, EntriesUnheld
  <2> QED
    BY <1>3, <2>1
<1>5. NoneEarly'
  BY <1>3 DEF NoneEarly
<1>6. ASSUME orderly', NEW q \in VPages, Lasts(q)'
      PROVE  Good(q)'
  <2>1. orderly /\ DirIndex(p) \notin Unallocated
    BY <1>6
  <2>2. TableOf(q)' = TableOf(q) /\ Present(q)' = Present(q)
    BY <1>3 DEF TableOf, Present
  <2>3. Lasts(q) /\ Good(q)
    BY <1>6, <2>1, <2>2 DEF Lasts, KInv, Keeps
  <2>4. CASE q = p
    <3>1. mem'[TableOf(p)][TableIndex(p)] = x
      BY <1>1, <1>2
    <3>2. Physical(p)' = x
      BY <1>3, <2>2, <2>4, <3>1 DEF Physical, Present, TableOf
    <3>3. promise'[p] = x /\ tlb'[p] = None
      BY <1>1 DEF Flush
    <3> QED
      BY <2>4, <3>2, <3>3 DEF Good
  <2>5. CASE q # p
    <3>1. ASSUME Present(q)
          PROVE  mem'[TableOf(q)][TableIndex(q)] = mem[TableOf(q)][TableIndex(q)]
      <4>1. /\ TableOf(q) \in AllFrames
            /\ TableOf(p) = TableOf(q) => DirIndex(p) = DirIndex(q)
        BY <2>1, <2>3, <3>1, LastingTable
      <4>2. TableOf(p) = TableOf(q) => TableIndex(p) # TableIndex(q)
        BY <2>5, <4>1, IndexApart
      <4> QED
        BY <1>1, <1>2, <4>1, <4>2
    <3>2. Physical(q)' = Physical(q)
      BY <2>1, <2>2, <3>1, SamePlace
    <3>3. promise'[q] = promise[q] /\ tlb'[q] = tlb[q]
      BY <1>1, <2>5 DEF Flush
    <3> QED
      BY <2>3, <3>2, <3>3 DEF Good
  <2> QED
    BY <2>4, <2>5
<1> QED
  BY <1>4, <1>5, <1>6 DEF Keeps

(* A new table has the one page that is mapped, the others of its range    *)
(* were not mapped; a table that lasts is not the frame it is made in.     *)
LEMMA LinkKept ==
  ASSUME KInv, NEW p \in VPages, NEW f \in AllFrames, NEW n \in AllFrames,
         dir # None, ~Present(p),
         NewTable(n), mem' = Link(p, n, f),
         orderly' = (orderly /\ Clear(bitmap) # {}),
         Flush(p), promise' = [promise EXCEPT ![p] = f],
         UNCHANGED <<held, dir>>
  PROVE  EntriesUnheld' /\ NoneEarly' /\ Keeps'
<1>1. /\ \A q \in VPages : DirIndex(q) \in Entries /\ TableIndex(q) \in Entries
      /\ dir \in AllFrames /\ mem \in [AllFrames -> [Entries -> AllFrames \cup {None}]]
      /\ promise \in [VPages -> AllFrames \cup {None}]
      /\ tlb \in [VPages -> AllFrames \cup {None}]
      /\ None \notin AllFrames
  BY IndexIn, PagingAssumption DEF KInv, UInv, PInv, PTypes
<1>2. NoneEarly' /\ dir' = dir
  BY DEF NoneEarly
<1> SUFFICES ASSUME orderly' PROVE EntriesUnheld' /\ Keeps'
  BY <1>2 DEF EntriesUnheld, Keeps
<1>3. orderly /\ n \notin bitmap /\ bitmap' = bitmap \cup {n}
  BY DEF NewTable, Take, IsFirst, Clear
<1>4. n # dir /\ n \notin held
  BY <1>3 DEF KInv, UInv, DirSafe, PInv, FInv, HeldExists
<1>5. /\ \A i \in Entries : mem'[dir][i] = IF i = DirIndex(p) THEN n ELSE mem[dir][i]
      /\ \A j \in Entries : mem'[n][j] = IF j = TableIndex(p) THEN f ELSE None
      /\ \A t \in AllFrames \ {dir, n} : mem'[t] = mem[t]
  BY <1>1, <1>4 DEF Link, Blank
<1>6. EntriesUnheld'
  BY <1>2, <1>3, <1>4, <1>5 DEF KInv, EntriesUnheld
<1>7. ASSUME NEW q \in VPages, Lasts(q)'
      PROVE  Good(q)'
  <2>1. CASE DirIndex(q) = DirIndex(p)
    <3>1. TableOf(q)' = n /\ Present(q)'
      BY <1>1, <1>2, <1>5, <2>1 DEF TableOf, Present
    <3>2. DirIndex(q) \notin Unallocated
      BY <1>3, <1>7, <3>1 DEF Lasts
    <3>3. Physical(q) = None /\ Good(q)
      BY <1>3, <2>1, <3>2 DEF Physical, Present, Lasts, KInv, Keeps
    <3>4. Physical(q)' = IF TableIndex(q) = TableIndex(p) THEN f ELSE None
      BY <1>1, <1>5, <3>1 DEF Physical
    <3>5. TableIndex(q) = TableIndex(p) <=> q = p
      BY <2>1, IndexApart
    <3>6. /\ q = p => promise'[q] = f /\ tlb'[q] = None
          /\ q # p => promise'[q] = promise[q] /\ tlb'[q] = tlb[q]
      BY <1>1 DEF Flush
    <3> QED
      BY <3>3, <3>4, <3>5, <3>6 DEF Good
  <2>2. CASE DirIndex(q) # DirIndex(p)
    <3>1. TableOf(q)' = TableOf(q) /\ Present(q)' = Present(q)
      BY <1>1, <1>2, <1>5, <2>2 DEF TableOf, Present
    <3>2. Lasts(q) /\ Good(q)
      BY <1>3, <1>7, <3>1 DEF Lasts, KInv, Keeps
    <3>3. ASSUME Present(q)
          PROVE  TableOf(q) \in AllFrames \ {dir, n}
      <4>1. TableOf(q) \in AllFrames \ {dir}
        BY <1>3, <3>2, <3>3, LastingTable
      <4>2. CASE DirIndex(q) \in Unallocated
        BY <1>3, <1>7, <3>1, <4>1, <4>2 DEF Lasts
      <4>3. CASE DirIndex(q) \notin Unallocated
        <5>1. TableOf(q) \in bitmap
          BY <1>1, <1>3, <3>3, <4>3, OwnIs
             DEF KInv, UInv, PInv, Present, TableOf
        <5> QED
          BY <1>3, <4>1, <5>1
      <4> QED
        BY <4>2, <4>3
    <3>4. Physical(q)' = Physical(q)
      BY <1>2, <1>3, <1>5, <3>1, <3>3, SamePlace
    <3>5. promise'[q] = promise[q] /\ tlb'[q] = tlb[q]
      BY <1>1, <2>2 DEF Flush
    <3> QED
      BY <3>2, <3>4, <3>5 DEF Good
  <2> QED
    BY <2>1, <2>2
<1> QED
  BY <1>6, <1>7 DEF Keeps

(* The page at table j, entry k of the identity map is j tables and k.     *)
LEMMA IdentityOf ==
  ASSUME NEW q \in VPages
  PROVE  /\ DirIndex(q) * PerTable + TableIndex(q) = q
         /\ DirIndex(q) < IdTables <=> q < IdTables * PerTable
<1>1. PerTable \in Nat \ {0} /\ IdTables \in Nat /\ q \in Nat
  BY PagingAssumption DEF Pages
<1>2. PICK i : i = DirIndex(q)
  OBVIOUS
<1>3. PICK j : j = TableIndex(q)
  OBVIOUS
<1>4. i \in Nat /\ j \in 0 .. PerTable - 1 /\ q = PerTable * i + j
  BY <1>1, <1>2, <1>3 DEF DirIndex, TableIndex
<1>5. i * PerTable + j = q
  BY <1>1, <1>4
<1>6. ASSUME i < IdTables PROVE q < IdTables * PerTable
  <2>1. (i + 1) * PerTable <= IdTables * PerTable
    BY <1>1, <1>4, <1>6
  <2>2. (i + 1) * PerTable = i * PerTable + PerTable
    BY <1>1, <1>4
  <2>3. PICK a : a = i * PerTable
    OBVIOUS
  <2>4. PICK b : b = IdTables * PerTable
    OBVIOUS
  <2>5. a \in Nat /\ b \in Nat
    BY <1>1, <1>4, <2>3, <2>4
  <2> QED
    BY <1>1, <1>4, <1>5, <2>1, <2>2, <2>3, <2>4, <2>5
<1>7. ASSUME ~(i < IdTables) PROVE ~(q < IdTables * PerTable)
  <2>1. IdTables * PerTable <= i * PerTable
    BY <1>1, <1>4, <1>7
  <2>2. PICK a : a = i * PerTable
    OBVIOUS
  <2>3. PICK b : b = IdTables * PerTable
    OBVIOUS
  <2>4. a \in Nat /\ b \in Nat
    BY <1>1, <1>4, <2>2, <2>3
  <2> QED
    BY <1>1, <1>4, <1>5, <2>1, <2>2, <2>3, <2>4
<1> QED
  BY <1>2, <1>3, <1>5, <1>6, <1>7

(* paging_init maps the pages of its tables to themselves, and no other.   *)
LEMMA PagingInitKept ==
  ASSUME KInv, NEW d \in AllFrames, NEW t \in AllFrames, PagingInit(d, t)
  PROVE  EntriesUnheld' /\ NoneEarly' /\ Keeps'
<1> DEFINE Dir == [i \in Entries |-> IF i < IdTables THEN t + i ELSE None]
           Table(f) == [j \in Entries |-> (f - t) * PerTable + j]
<1>1. /\ IdTables \in 1 .. PerTable /\ PerTable \in Nat \ {0}
      /\ MaxFrames \in Nat /\ None \notin AllFrames
      /\ \A q \in VPages : DirIndex(q) \in Entries /\ TableIndex(q) \in Entries
  BY IndexIn, PagingAssumption, FramesAssumption
<1>2. /\ dir = None /\ dir' = d /\ held' = {} /\ tlb' = tlb
      /\ t + IdTables \in AllFrames /\ bitmap' = bitmap \cup {d, t}
      /\ mem' = [f \in AllFrames |->
                  IF f = d THEN Dir
                  ELSE IF f \in t .. t + IdTables - 1 THEN Table(f) ELSE mem[f]]
      /\ promise' = [q \in VPages |-> IF q < IdTables * PerTable THEN q ELSE None]
  BY DEF PagingInit
<1>3. mem'[d] = Dir /\ dir' # None
  BY <1>1, <1>2
<1>4. EntriesUnheld' /\ NoneEarly'
  BY <1>2, <1>3 DEF EntriesUnheld, NoneEarly
<1>5. t # d
  BY <1>1 DEF PagingInit, IsFirst, Clear, AllFrames
<1>6. ASSUME NEW q \in VPages, Lasts(q)'
      PROVE  Good(q)'
  <2>1. tlb'[q] = None
    BY <1>2 DEF KInv, NoneEarly
  <2>2. CASE DirIndex(q) < IdTables
    <3>1. PICK i \in Nat : i = DirIndex(q)
      BY <1>1 DEF Entries
    <3>2. i \in 0 .. IdTables - 1 /\ i \in Entries
      BY <1>1, <2>2, <3>1
    <3>3. PICK u : u = t + i
      OBVIOUS
    <3>4. u \in AllFrames /\ u \in t .. t + IdTables - 1 /\ u - t = i
      BY <1>1, <1>2, <3>2, <3>3 DEF AllFrames
    <3>5. TableOf(q)' = u /\ Present(q)'
      BY <1>1, <1>2, <1>3, <3>1, <3>2, <3>3, <3>4 DEF TableOf, Present
    <3>6. u # d
      <4>1. CASE i = 0
        BY <1>1, <1>5, <3>3, <4>1 DEF AllFrames
      <4>2. CASE i # 0
        <5>1. i \in Unallocated
          BY <1>1, <3>2, <4>2 DEF Unallocated
        <5> QED
          BY <1>2, <1>6, <3>1, <3>5, <5>1 DEF Lasts
      <4> QED
        BY <4>1, <4>2
    <3>7. mem'[u] = Table(u)
      BY <1>2, <3>4, <3>6
    <3>8. Table(u)[TableIndex(q)] = i * PerTable + TableIndex(q)
      BY <1>1, <3>4
    <3>9. Physical(q)' = q
      BY <3>1, <3>5, <3>7, <3>8, IdentityOf DEF Physical
    <3> QED
      BY <1>2, <2>1, <2>2, <3>9, IdentityOf DEF Good
  <2>3. CASE ~(DirIndex(q) < IdTables)
    <3>1. ~Present(q)'
      BY <1>1, <1>2, <1>3, <2>3 DEF Present
    <3> QED
      BY <1>2, <2>1, <2>3, <3>1, IdentityOf DEF Physical, Good
  <2> QED
    BY <2>2, <2>3
<1> QED
  BY <1>4, <1>6 DEF Keeps

(* A frame that a caller takes or gives back is not an entry, unless the   *)
(* step is not orderly, and a page that lasts is not in it.                *)
LEMMA CallerKept ==
  ASSUME KInv, NEW f \in AllFrames, CallerAllocs(f) \/ CallerFrees(f)
  PROVE  EntriesUnheld' /\ NoneEarly' /\ Keeps'
<1>1. /\ \A q \in VPages : DirIndex(q) \in Entries /\ TableIndex(q) \in Entries
      /\ dir \in AllFrames \cup {None}
      /\ mem \in [AllFrames -> [Entries -> AllFrames \cup {None}]]
  BY IndexIn DEF KInv, UInv, PInv, PTypes
<1>2. dir' = dir /\ tlb' = tlb /\ promise' = promise
  BY DEF CallerAllocs, CallerFrees, pvars
<1>3. NoneEarly'
  BY <1>2 DEF KInv, NoneEarly
<1> SUFFICES ASSUME dir # None, orderly' PROVE EntriesUnheld' /\ Keeps'
  BY <1>2, <1>3 DEF EntriesUnheld, Keeps
<1>4. CASE CallerAllocs(f)
  <2>1. /\ f \notin bitmap /\ bitmap' = bitmap \cup {f} /\ held' = held \cup {f}
        /\ mem' = [mem EXCEPT ![f] = Blank]
        /\ orderly' = (orderly /\ (dir # None => \A i \in Entries : mem[dir][i] # f))
    BY <1>4 DEF CallerAllocs, AllocFrame, Take, IsFirst, Clear
  <2>2. orderly /\ \A i \in Entries : mem[dir][i] # f
    BY <2>1
  <2>3. f # dir /\ mem'[dir] = mem[dir]
    BY <1>1, <2>1 DEF KInv, UInv, DirSafe
  <2>4. EntriesUnheld'
    BY <1>2, <2>1, <2>2, <2>3 DEF KInv, EntriesUnheld
  <2>5. ASSUME NEW q \in VPages, Lasts(q)'
        PROVE  Good(q)'
    <3>1. TableOf(q)' = TableOf(q)
      BY <1>2, <2>3 DEF TableOf
    <3>2. Lasts(q) /\ Good(q)
      BY <2>1, <2>2, <2>5, <3>1 DEF Lasts, KInv, Keeps
    <3>3. TableOf(q) # f
      BY <1>1, <2>2 DEF TableOf
    <3>4. Physical(q)' = Physical(q)
      BY <1>2, <2>1, <2>2, <3>1, <3>3, SamePlace
    <3> QED
      BY <1>2, <3>2, <3>4 DEF Good
  <2> QED
    BY <2>4, <2>5 DEF Keeps
<1>5. CASE CallerFrees(f)
  <2>1. /\ f \in held /\ held' = held \ {f} /\ bitmap' \in {bitmap, bitmap \ {f}}
        /\ mem' = mem /\ orderly' = orderly
    BY <1>5 DEF CallerFrees, FreeFrame, Release, pvars
  <2>2. EntriesUnheld'
    BY <1>2, <2>1 DEF KInv, EntriesUnheld
  <2>3. ASSUME NEW q \in VPages, Lasts(q)'
        PROVE  Good(q)'
    <3>1. TableOf(q)' = TableOf(q)
      BY <1>2, <2>1 DEF TableOf
    <3>2. TableOf(q) \notin held
      BY <1>1, <2>1 DEF KInv, EntriesUnheld, TableOf
    <3>3. Lasts(q) /\ Good(q)
      BY <2>1, <2>3, <3>1, <3>2 DEF Lasts, KInv, Keeps
    <3> QED
      BY <1>2, <2>1, <3>3 DEF Good, Physical, Present, TableOf
  <2> QED
    BY <2>2, <2>3 DEF Keeps
<1> QED
  BY <1>4, <1>5

(* The processor keeps what it finds.                                      *)
LEMMA AccessKept ==
  ASSUME KInv, NEW p \in VPages, Access(p)
  PROVE  EntriesUnheld' /\ NoneEarly' /\ Keeps'
<1>1. /\ dir # None /\ dir' = dir /\ mem' = mem /\ promise' = promise
      /\ orderly' = orderly /\ bitmap' = bitmap /\ held' = held
      /\ tlb' = [tlb EXCEPT ![p] = Physical(p)]
  BY DEF Access, fvars
<1>2. EntriesUnheld' /\ NoneEarly'
  BY <1>1 DEF KInv, EntriesUnheld, NoneEarly
<1>3. ASSUME orderly, NEW q \in VPages, Lasts(q)'
      PROVE  Good(q)'
  <2>1. Lasts(q) /\ Good(q)
    BY <1>1, <1>3 DEF Lasts, TableOf, KInv, Keeps
  <2>2. Physical(q)' = Physical(q) /\ promise'[q] = promise[q]
    BY <1>1 DEF Physical, Present, TableOf
  <2>3. tlb'[q] \in {tlb[q], Physical(q)}
    BY <1>1 DEF KInv, UInv, PInv, PTypes
  <2> QED
    BY <2>1, <2>2, <2>3 DEF Good
<1> QED
  BY <1>1, <1>2, <1>3 DEF Keeps

(* KInv is an inductive invariant of Spec.                                 *)
THEOREM KeepsInductive == Spec => []KInv
<1>1. Init => EntriesUnheld /\ NoneEarly /\ Keeps
  BY DEF Init, EntriesUnheld, NoneEarly, Keeps
<1>2. UInv /\ EntriesUnheld /\ NoneEarly /\ Keeps /\ [Next]_vars
        => (EntriesUnheld /\ NoneEarly /\ Keeps)'
  <2> SUFFICES ASSUME KInv, [Next]_vars PROVE (EntriesUnheld /\ NoneEarly /\ Keeps)'
    BY DEF KInv
  <2>1. ASSUME NEW d \in AllFrames, NEW t \in AllFrames, PagingInit(d, t)
        PROVE  (EntriesUnheld /\ NoneEarly /\ Keeps)'
    BY <2>1, PagingInitKept
  <2>2. ASSUME NEW p \in VPages, NEW f \in PFrames, PagingMap(p, f)
        PROVE  (EntriesUnheld /\ NoneEarly /\ Keeps)'
    <3>1. f \in AllFrames
      BY PagingAssumption
    <3>2. CASE Present(p)
      BY <2>2, <3>1, <3>2, EntryKept DEF PagingMap
    <3>3. CASE ~Present(p)
      BY <2>2, <3>1, <3>3, LinkKept DEF PagingMap
    <3> QED
      BY <3>2, <3>3
  <2>3. ASSUME NEW p \in VPages, PagingUnmap(p)
        PROVE  (EntriesUnheld /\ NoneEarly /\ Keeps)'
    BY <2>3, EntryKept DEF PagingUnmap, fvars
  <2>4. ASSUME NEW p \in VPages, Access(p)
        PROVE  (EntriesUnheld /\ NoneEarly /\ Keeps)'
    BY <2>4, AccessKept
  <2>5. ASSUME NEW f \in AllFrames, CallerAllocs(f) \/ CallerFrees(f)
        PROVE  (EntriesUnheld /\ NoneEarly /\ Keeps)'
    BY <2>5, CallerKept
  <2>6. CASE UNCHANGED vars
    BY <2>6 DEF vars, fvars, pvars, KInv, EntriesUnheld, NoneEarly, Keeps,
                Lasts, Good, Physical, Present, TableOf
  <2> QED
    BY <2>1, <2>2, <2>3, <2>4, <2>5, <2>6 DEF Next
<1> QED
  BY <1>1, <1>2, UnseenInductive, PTL DEF Spec, KInv

(* A page is where it was last put and the processor's translation of it   *)
(* is never stale, as long as steps are orderly and its table is there.    *)
THEOREM TranslationKeptAlways == Spec => []TranslationKept
<1>1. KInv => TranslationKept
  BY DEF KInv, UInv, PInv, FInv, FTypes, PTypes, TypeOK, FramesTypeOK,
         TranslationKept, Keeps, Good
<1> QED
  BY <1>1, KeepsInductive, PTL
=============================================================================
