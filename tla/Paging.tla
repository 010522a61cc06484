------------------------------- MODULE Paging -------------------------------
(***************************************************************************)
(* Paging of mm/memory.c on top of the frame allocator.  A directory and a *)
(* table are frames of PerTable entries; an entry is a frame, or None when *)
(* it is not present.  The processor keeps translations it has used until  *)
(* they are flushed.                                                       *)
(***************************************************************************)
EXTENDS Frames

CONSTANTS PerTable,   \* entries in a table and in the directory, 1024
          IdTables,   \* tables that paging_init writes, 4
          VPages,     \* pages that are mapped and used
          PFrames,    \* frames they are mapped to
          None

Entries == 0 .. PerTable - 1
Pages == 0 .. PerTable * PerTable - 1

(* The identity map covers memory that the bitmap has bits for.            *)
ASSUME PagingAssumption ==
  /\ PerTable \in Nat \ {0}
  /\ IdTables \in 1 .. PerTable
  /\ IdTables * PerTable <= MaxFrames
  /\ VPages \subseteq Pages
  /\ PFrames \subseteq AllFrames
  /\ None \notin AllFrames

VARIABLES dir,      \* page_directory
          mem,      \* the entries that each frame would hold as a table
          tlb,      \* translations that the processor keeps
          promise,  \* what each page was last mapped to (history)
          orderly   \* no page was mapped through a table that was never
                    \* allocated or could not be (history)

pvars == <<dir, mem, tlb, promise, orderly>>
vars == <<fvars, pvars>>

DirIndex(p) == p \div PerTable
TableIndex(p) == p % PerTable
Present(p) == mem[dir][DirIndex(p)] # None
TableOf(p) == mem[dir][DirIndex(p)]

(* paging_get_physical, and what the processor finds *)
Physical(p) == IF Present(p) THEN mem[TableOf(p)][TableIndex(p)] ELSE None

Blank == [i \in Entries |-> None]

Init ==
  /\ FramesInit
  /\ dir = None
  /\ mem = [f \in AllFrames |-> Blank]
  /\ tlb = [p \in VPages |-> None]
  /\ promise = [p \in VPages |-> None]
  /\ orderly = TRUE

-----------------------------------------------------------------------------
(* paging_init, at boot.  The frame after the directory holds the first    *)
(* identity table; the others are written in the frames that follow it,    *)
(* without being allocated.                                                *)
PagingInit(d, t) ==
  /\ dir = None /\ held = {}
  /\ IsFirst(d, bitmap) /\ IsFirst(t, bitmap \cup {d})
  /\ t + IdTables \in AllFrames
  /\ bitmap' = bitmap \cup {d, t}
  /\ used' = used + 2
  /\ dir' = d
  /\ mem' = [f \in AllFrames |->
              IF f = d THEN [i \in Entries |-> IF i < IdTables THEN t + i ELSE None]
              ELSE IF f \in t .. t + IdTables - 1
                THEN [j \in Entries |-> (f - t) * PerTable + j]
              ELSE mem[f]]
  /\ promise' = [p \in VPages |-> IF p < IdTables * PerTable THEN p ELSE None]
  /\ UNCHANGED <<total, usable, held, tlb, orderly>>

(* Tables of the identity map that paging_init did not allocate. *)
Unallocated == 1 .. IdTables - 1

(* Mutant: the processor keeps the translation. *)
FlushNone(p) == UNCHANGED tlb

Flush(p) == tlb' = [tlb EXCEPT ![p] = None]

(* Mutant: the frame is used for the table without being marked. *)
PeekTable(n) == IsFirst(n, bitmap) /\ UNCHANGED <<bitmap, total, used, usable>>

(* The frame for a new table is the first that is clear, or the one at     *)
(* address 0 when pmm_alloc_frame returns NULL.                            *)
NewTable(n) ==
  IF Clear(bitmap) = {}
    THEN n = 0 /\ UNCHANGED <<bitmap, total, used, usable>>
    ELSE Take(n)

Link(p, n, f) ==
  [mem EXCEPT ![n] = Blank, ![dir][DirIndex(p)] = n, ![n][TableIndex(p)] = f]

PagingMap(p, f) ==
  /\ dir # None
  /\ \/ /\ Present(p)
        /\ mem' = [mem EXCEPT ![TableOf(p)][TableIndex(p)] = f]
        /\ orderly' = (orderly /\ DirIndex(p) \notin Unallocated)
        /\ UNCHANGED <<bitmap, total, used, usable>>
     \/ /\ ~Present(p)
        /\ \E n \in AllFrames : NewTable(n) /\ mem' = Link(p, n, f)
        /\ orderly' = (orderly /\ Clear(bitmap) # {})
  /\ Flush(p)
  /\ promise' = [promise EXCEPT ![p] = f]
  /\ UNCHANGED <<held, dir>>

PagingUnmap(p) ==
  /\ dir # None
  /\ Present(p)
  /\ mem' = [mem EXCEPT ![TableOf(p)][TableIndex(p)] = None]
  /\ orderly' = (orderly /\ DirIndex(p) \notin Unallocated)
  /\ Flush(p)
  /\ promise' = [promise EXCEPT ![p] = None]
  /\ UNCHANGED <<fvars, dir>>

(* The processor uses a page, and keeps the translation. *)
Access(p) ==
  /\ dir # None
  /\ tlb[p] = None
  /\ Physical(p) # None
  /\ tlb' = [tlb EXCEPT ![p] = Physical(p)]
  /\ UNCHANGED <<fvars, dir, mem, promise, orderly>>

(* A caller clears the frame it is given, whatever it was used for. *)
CallerAllocs(f) ==
  /\ AllocFrame(f)
  /\ mem' = [mem EXCEPT ![f] = Blank]
  /\ orderly' = (orderly /\ (dir # None => \A i \in Entries : mem[dir][i] # f))
  /\ UNCHANGED <<dir, tlb, promise>>

CallerFrees(f) ==
  /\ FreeFrame(f)
  /\ UNCHANGED pvars

Next ==
  \/ \E d, t \in AllFrames : PagingInit(d, t)
  \/ \E p \in VPages, f \in PFrames : PagingMap(p, f)
  \/ \E p \in VPages : PagingUnmap(p) \/ Access(p)
  \/ \E f \in AllFrames : CallerAllocs(f) \/ CallerFrees(f)

Spec == Init /\ [][Next]_vars

-----------------------------------------------------------------------------
TypeOK ==
  /\ FramesTypeOK
  /\ dir \in AllFrames \cup {None}
  /\ mem \in [AllFrames -> [Entries -> AllFrames \cup {None}]]
  /\ tlb \in [VPages -> AllFrames \cup {None}]
  /\ promise \in [VPages -> AllFrames \cup {None}]
  /\ orderly \in BOOLEAN

(* The directory, the first identity table and the tables that paging_map  *)
(* made are apart from each other and from every frame that a caller has,  *)
(* and can not be handed out.                                              *)
TablesOwn ==
  LET Own == {i \in Entries \ Unallocated : mem[dir][i] # None}
      Tables == {mem[dir][i] : i \in Own}
  IN  dir # None /\ orderly =>
        /\ Tables \cup {dir} \subseteq bitmap \ held
        /\ dir \notin Tables
        /\ \A i, j \in Own : mem[dir][i] = mem[dir][j] => i = j

(* Tables of the identity map stay good until their frame is handed out.   *)
Lasts(p) == DirIndex(p) \in Unallocated => TableOf(p) \notin bitmap

(* A page is where paging_init, paging_map and paging_unmap last put it,   *)
(* whatever else is mapped, allocated and released, and the processor      *)
(* never uses a translation that was replaced or withdrawn.                *)
TranslationKept ==
  /\ TypeOK
  /\ dir # None /\ orderly =>
    \A p \in VPages : Lasts(p) => Physical(p) = promise[p] /\ tlb[p] \in {None, promise[p]}

(* The frames that stay marked although no one has them are the ones whose *)
(* bit frame_test does not see; no other is ever lost.                     *)
OnlyUnseenLost ==
  LET Tables == IF dir = None THEN {} ELSE {dir} \cup {mem[dir][i] : i \in Entries}
  IN  \A f \in (usable \cap bitmap) \ (LowMemory \cup held \cup Tables) :
        f % WordBits >= BoolBits
=============================================================================
