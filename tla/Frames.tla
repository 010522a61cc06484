------------------------------- MODULE Frames -------------------------------
(***************************************************************************)
(* The physical frame allocator of mm/memory.c: a bitmap with a bit set    *)
(* for each frame that must not be handed out, searched word by word, and  *)
(* counts of the frames there are and of those in use.  The bitmap is the  *)
(* set of the frames whose bit is set.  Only the first 4 MB are reserved:  *)
(* the kernel heap, which heap_init puts in the 4 MB behind them, is       *)
(* memory like any other here, so that the first frames handed out are     *)
(* those that the heap lies in.                                            *)
(***************************************************************************)
EXTENDS Integers, FiniteSets

CONSTANTS MaxFrames,  \* MAX_FRAMES, bits in the bitmap
          WordBits,   \* bits in a word of it, 32
          BoolBits,   \* bits in a bool, which is an unsigned char: 8
          Reserved,   \* frames of the first 4 MB, 1024
          Sizes,      \* frames of memory that pmm_init is told of
          Maps        \* memory maps that pmm_init_from_mmap is given: sets of
                      \* usable regions, each a first frame and a length

AllFrames == 0 .. MaxFrames - 1
LowMemory == 0 .. Reserved - 1
Region(r) == {f \in AllFrames : r.base <= f /\ f < r.base + r.len}

(* The memory holds the first 4 MB, and usable regions do not overlap. *)
ASSUME FramesAssumption ==
  /\ MaxFrames \in Nat
  /\ WordBits \in Nat \ {0}
  /\ BoolBits \in 1 .. WordBits
  /\ Reserved \in 1 .. MaxFrames
  /\ \A n \in Sizes : n \in Nat /\ Reserved <= n
  /\ \A map \in Maps : map \subseteq [base : Nat, len : Nat]
  /\ \A map \in Maps : \A r, s \in map : r # s => Region(r) \cap Region(s) = {}

VARIABLES bitmap,   \* frame_bitmap
          total,    \* total_frames
          used,     \* used_frames
          usable,   \* the frames there are, by what the boot was told (history)
          held      \* frames that callers have (history)

fvars == <<bitmap, total, used, usable, held>>

(* frame_test returns the word, masked, as a bool: the bits of a word that *)
(* a bool has no room for read as clear.                                   *)
Tests(f, map) == f \in map /\ f % WordBits < BoolBits

(***************************************************************************)
(* pmm_init and pmm_init_from_mmap                                         *)
(***************************************************************************)
InitSize(n) ==
  /\ total = IF n > MaxFrames THEN MaxFrames ELSE n
  /\ bitmap = LowMemory
  /\ used = Reserved
  /\ usable = 0 .. total - 1

InitMap(map) ==
  LET regions == UNION {Region(r) : r \in map} IN
  /\ total = Cardinality(regions)
  /\ bitmap = (AllFrames \ regions) \cup LowMemory
  /\ used = Cardinality({f \in LowMemory : ~Tests(f, AllFrames \ regions)})
  /\ usable = regions

FramesInit ==
  /\ \/ \E n \in Sizes : InitSize(n)
     \/ \E map \in Maps : InitMap(map)
  /\ held = {}

(***************************************************************************)
(* pmm_alloc_frame: of the words that total_frames fills, the first bit    *)
(* that is clear.                                                          *)
(***************************************************************************)
Searched == 0 .. WordBits * (total \div WordBits) - 1

Clear(map) == Searched \ map
IsFirst(f, map) == f \in Clear(map) /\ \A g \in Clear(map) : f <= g

Take(f) ==
  /\ IsFirst(f, bitmap)
  /\ bitmap' = bitmap \cup {f}
  /\ used' = used + 1
  /\ UNCHANGED <<total, usable>>

AllocFrame(f) ==
  /\ Take(f)
  /\ held' = held \cup {f}

(***************************************************************************)
(* pmm_free_frame of a frame that the caller has                           *)
(***************************************************************************)
(* Mutant: the count is lowered whatever the bit says. *)
ReleaseAlways(f) ==
  /\ bitmap' = IF Tests(f, bitmap) THEN bitmap \ {f} ELSE bitmap
  /\ used' = used - 1

(* Mutant: only the count is changed. *)
ReleaseCount(f) ==
  /\ used' = IF Tests(f, bitmap) THEN used - 1 ELSE used
  /\ UNCHANGED bitmap

Release(f) ==
  IF Tests(f, bitmap)
    THEN bitmap' = bitmap \ {f} /\ used' = used - 1
    ELSE UNCHANGED <<bitmap, used>>

FreeFrame(f) ==
  /\ f \in held
  /\ Release(f)
  /\ held' = held \ {f}
  /\ UNCHANGED <<total, usable>>

FramesNext == \E f \in AllFrames : AllocFrame(f) \/ FreeFrame(f)

FramesSpec == FramesInit /\ [][FramesNext]_fvars

-----------------------------------------------------------------------------
FramesTypeOK ==
  /\ bitmap \subseteq AllFrames
  /\ total \in 0 .. MaxFrames
  /\ used \in Int
  /\ usable \subseteq AllFrames
  /\ held \subseteq AllFrames

(* What pmm_get_free_frames promises is made up of the frames that         *)
(* pmm_alloc_frame can find and of usable ones that it never looks at: it  *)
(* promises no more than both together, and exactly both when the first    *)
(* 4 MB are all memory.  In memory of one piece what it promises and can   *)
(* not be had is the incomplete last word, nothing if there is none;       *)
(* behind a hole it is every frame that total_frames falls short of.       *)
FreeCount ==
  LET had    == Cardinality(Clear(bitmap))
      beyond == Cardinality(usable \ (Searched \cup bitmap))
      free   == total - used
  IN  /\ free <= had + beyond
      /\ LowMemory \subseteq usable => free = had + beyond
      /\ usable = 0 .. total - 1 => free <= had + (total % WordBits)

(* Only memory that exists is handed out, none of it is of the reserved    *)
(* first 4 MB, and a frame that a caller has is marked until the caller    *)
(* gives it back.  (The kernel heap is not reserved: see above.)           *)
HeldExists == held \subseteq (usable \cap bitmap) \ LowMemory

(* The bitmap, the two counts and the frames that callers have agree.      *)
FramesSound == FramesTypeOK /\ FreeCount /\ HeldExists
=============================================================================
