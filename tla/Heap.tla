-------------------------------- MODULE Heap --------------------------------
(***************************************************************************)
(* The kernel heap of mm/memory.c (kmalloc, kmalloc_aligned, krealloc,     *)
(* kfree): a doubly linked list of blocks laid out one after the other in  *)
(* HEAP_START .. HEAP_END-1, searched first-fit, split on allocation and   *)
(* coalesced on release.  The list is modelled pointer by pointer: the     *)
(* search and the two merging loops take one step per iteration.           *)
(***************************************************************************)
EXTENDS Integers, FiniteSetsExt

CONSTANTS HeapStart,   \* HEAP_START
          HeapEnd,     \* HEAP_END
          Word,        \* 2^32: the range of size_t
          Requests,    \* sizes callers ask for
          Alignments   \* alignments callers of kmalloc_aligned ask for

NULL == 0
Hdr == 16              \* sizeof(heap_block_t) on i386
MinRest == 16          \* a split must leave more than this

(* The arena can hold a block, and addresses and sizes fit in a word. *)
ASSUME HeapAssumption ==
  /\ HeapStart \in Nat \ {0}
  /\ HeapEnd \in Nat
  /\ Word \in Nat
  /\ HeapStart + Hdr < HeapEnd
  /\ HeapEnd < Word
  /\ (HeapEnd - HeapStart) % 4 = 0
  /\ Requests \subseteq 1 .. Word - 1
  /\ Alignments \subseteq Nat \ {0}

(* Callers ask for so little that a size rounded up does not wrap: all of  *)
(* the kernel's requests are the sizes of its structures and buffers.      *)
ASSUME RequestsFit ==
  /\ \A n \in Requests : n + 3 < Word
  /\ \A n \in Requests, al \in Alignments : n + al + 7 < Word

VARIABLES heap,      \* the list: address of a block header -> header
          heapUsed,  \* heap_used
          pc,        \* where the call in progress is, "idle" between calls
          cur,       \* the loop variable block of that call
          call,      \* its arguments
          result,    \* what the call just completed returned
          held       \* blocks callers have: first byte -> the address and length they use

vars == <<heap, heapUsed, pc, cur, call, result, held>>

(***************************************************************************)
(* Headers                                                                 *)
(***************************************************************************)
blocks == DOMAIN heap
EndOf(b) == b + Hdr + heap[b].size
BlockOf(p) == p - Hdr
NoCall == [want |-> 0, n |-> 0, align |-> 0, old |-> NULL]

(* Mutant: rounds down. *)
AlignDown(x, a) == LET y == x % Word IN y - (y % a)

(* ALIGN_UP of types.h, for an alignment that is a power of two. *)
AlignUp(x, a) == LET y == (x + a - 1) % Word IN y - (y % a)

(* The test of the search loop, and whether the block is cut in two. *)
Fits(b) == heap[b].free /\ heap[b].size >= call.want
Splits(b) == heap[b].size > call.want + Hdr + MinRest

(* The list after block b is handed out: the tail of a large block becomes *)
(* a free block of its own, linked between b and its successor.            *)
Allocated(b) ==
  LET rest == b + Hdr + call.want IN
  IF Splits(b)
  THEN [a \in blocks \cup {rest} |->
          IF a = rest THEN [size |-> heap[b].size - call.want - Hdr, free |-> TRUE,
                            next |-> heap[b].next, prev |-> b]
          ELSE IF a = b THEN [size |-> call.want, free |-> FALSE,
                              next |-> rest, prev |-> heap[b].prev]
          ELSE IF a = heap[b].next THEN [heap[a] EXCEPT !.prev = rest]
          ELSE heap[a]]
  ELSE [heap EXCEPT ![b].free = FALSE]

(* Mutant: only the blocks after the released one are merged. *)
FreeAfter(b) == b # NULL /\ b > cur /\ heap[b].free

(* The condition of the merging loops. *)
FreeAt(b) == b # NULL /\ heap[b].free

(* Mutant: the block after the one swallowed still points back to it. *)
AbsorbForward(b, c) ==
  [a \in blocks \ {c} |->
     IF a = b THEN [heap[b] EXCEPT !.size = @ + Hdr + heap[c].size,
                                   !.next = heap[c].next]
     ELSE heap[a]]

(* The list after b swallows its successor c. *)
Absorb(b, c) ==
  [a \in blocks \ {c} |->
     IF a = b THEN [heap[b] EXCEPT !.size = @ + Hdr + heap[c].size,
                                   !.next = heap[c].next]
     ELSE IF a = heap[c].next THEN [heap[a] EXCEPT !.prev = b]
     ELSE heap[a]]

(***************************************************************************)
(* heap_init                                                               *)
(***************************************************************************)
Init ==
  /\ heap = [b \in {HeapStart} |->
               [size |-> HeapEnd - HeapStart - Hdr, free |-> TRUE,
                next |-> NULL, prev |-> NULL]]
  /\ heapUsed = 0
  /\ pc = "idle"
  /\ cur = NULL
  /\ call = NoCall
  /\ result = NULL
  /\ held = [p \in {} |-> NULL]

(***************************************************************************)
(* kmalloc: the search starts at heap_head.                                *)
(***************************************************************************)
Search(size, n, align, old) ==
  /\ pc = "idle"
  /\ size # 0
  /\ pc' = "scan"
  /\ cur' = HeapStart
  /\ call' = [want |-> AlignUp(size, 4), n |-> n, align |-> align, old |-> old]
  /\ result' = NULL
  /\ UNCHANGED <<heap, heapUsed, held>>

Kmalloc(n) == Search(n, n, 0, NULL)

(* kmalloc_aligned asks for room to align in and to keep the raw pointer.  *)
KmallocAligned(n, al) == Search((n + al + 4) % Word, n, al, NULL)

(* What the caller is given of a block whose first byte is p. *)
Handed(p) == [at |-> IF call.align = 0 THEN p ELSE AlignUp(p + 4, call.align),
              n |-> call.n]

(* Mutant: the search begins again. *)
ScanRestarts ==
  /\ pc = "scan"
  /\ cur # NULL
  /\ ~Fits(cur)
  /\ cur' = HeapStart
  /\ UNCHANGED <<heap, heapUsed, pc, call, result, held>>

ScanNext ==
  /\ pc = "scan"
  /\ cur # NULL
  /\ ~Fits(cur)
  /\ cur' = heap[cur].next
  /\ UNCHANGED <<heap, heapUsed, pc, call, result, held>>

ScanTake ==
  /\ pc = "scan"
  /\ cur # NULL
  /\ Fits(cur)
  /\ heap' = Allocated(cur)
  /\ heapUsed' = heapUsed + heap'[cur].size
  /\ result' = cur + Hdr
  /\ held' = [p \in DOMAIN held \cup {cur + Hdr} |->
                IF p = cur + Hdr THEN Handed(p) ELSE held[p]]
  /\ cur' = NULL
  /\ IF call.old = NULL
     THEN pc' = "idle" /\ call' = NoCall
     ELSE pc' = "copied" /\ UNCHANGED call

ScanFail ==
  /\ pc = "scan"
  /\ cur = NULL
  /\ pc' = "idle"
  /\ result' = NULL
  /\ call' = NoCall
  /\ UNCHANGED <<heap, heapUsed, cur, held>>

(***************************************************************************)
(* kfree and heap_merge_free                                               *)
(***************************************************************************)
(* Mutant: heap_used is not taken back. *)
ReleaseUncounted(p) ==
  /\ heap' = [heap EXCEPT ![BlockOf(p)].free = TRUE]
  /\ held' = [q \in DOMAIN held \ {p} |-> held[q]]
  /\ cur' = BlockOf(p)
  /\ pc' = "next"
  /\ call' = NoCall
  /\ UNCHANGED heapUsed

Release(p) ==
  /\ heap' = [heap EXCEPT ![BlockOf(p)].free = TRUE]
  /\ heapUsed' = heapUsed - heap[BlockOf(p)].size
  /\ held' = [q \in DOMAIN held \ {p} |-> held[q]]
  /\ cur' = BlockOf(p)
  /\ pc' = "next"
  /\ call' = NoCall

Kfree(p) ==
  /\ pc = "idle"
  /\ Release(p)
  /\ result' = NULL

MergeNext ==
  /\ pc = "next"
  /\ FreeAt(heap[cur].next)
  /\ heap' = Absorb(cur, heap[cur].next)
  /\ UNCHANGED <<heapUsed, pc, cur, call, result, held>>

MergeNextDone ==
  /\ pc = "next"
  /\ ~FreeAt(heap[cur].next)
  /\ pc' = "prev"
  /\ UNCHANGED <<heap, heapUsed, cur, call, result, held>>

MergePrev ==
  /\ pc = "prev"
  /\ FreeAt(heap[cur].prev)
  /\ heap' = Absorb(heap[cur].prev, cur)
  /\ cur' = heap[cur].prev
  /\ UNCHANGED <<heapUsed, pc, call, result, held>>

MergePrevDone ==
  /\ pc = "prev"
  /\ ~FreeAt(heap[cur].prev)
  /\ pc' = "idle"
  /\ cur' = NULL
  /\ UNCHANGED <<heap, heapUsed, call, result, held>>

(***************************************************************************)
(* krealloc: the same block when it is large enough, else a new block, a   *)
(* copy of the old one, and kfree of the old one.  krealloc(NULL, n) is    *)
(* kmalloc(n) and krealloc(p, 0) is kfree(p).                              *)
(***************************************************************************)
KreallocInPlace(p, n) ==
  /\ pc = "idle"
  /\ held[p].at = p
  /\ heap[BlockOf(p)].size >= n
  /\ result' = p
  /\ held' = [held EXCEPT ![p].n = n]
  /\ UNCHANGED <<heap, heapUsed, pc, cur, call>>

KreallocMove(p, n) ==
  /\ held[p].at = p
  /\ heap[BlockOf(p)].size < n
  /\ Search(n, n, 0, p)

KreallocFreeOld ==
  /\ pc = "copied"
  /\ Release(call.old)
  /\ UNCHANGED result

Call ==
  \/ \E n \in Requests : Kmalloc(n)
  \/ \E n \in Requests, al \in Alignments : KmallocAligned(n, al)
  \/ \E p \in DOMAIN held : Kfree(p)
  \/ \E p \in DOMAIN held, n \in Requests : KreallocInPlace(p, n)
  \/ \E p \in DOMAIN held, n \in Requests : KreallocMove(p, n)

Step ==
  \/ ScanNext
  \/ ScanTake
  \/ ScanFail
  \/ KreallocFreeOld
  \/ MergeNext
  \/ MergeNextDone
  \/ MergePrev
  \/ MergePrevDone

Next == Call \/ Step

(* A call that was made runs on: nothing preempts the kernel for good. *)
Spec == Init /\ [][Next]_vars /\ WF_vars(Step)

-----------------------------------------------------------------------------
(* Type invariant. *)
Header == [size : Nat, free : BOOLEAN, next : Nat, prev : Nat]

TypeOK ==
  /\ blocks \subseteq HeapStart .. HeapEnd - 1
  /\ heap \in [blocks -> Header]
  /\ heapUsed \in Int
  /\ pc \in {"idle", "scan", "copied", "next", "prev"}
  /\ cur \in blocks \cup {NULL}
  /\ pc \in {"next", "prev"} => cur # NULL
  /\ call \in [want : Nat, n : Nat, align : Nat, old : Nat]
  /\ call.old # NULL => pc \in {"scan", "copied"} /\ call.old \in DOMAIN held
  /\ pc = "copied" => call.old # NULL
  /\ result \in Nat
  /\ DOMAIN held \subseteq Nat
  /\ held \in [DOMAIN held -> [at : Nat, n : Nat]]

(* Splitting and merging never lose or share a byte: at every moment, also *)
(* between two iterations of the merging loops, each byte of the arena     *)
(* belongs to exactly one block of the list (kmalloc, heap_merge_free).    *)
Tiled ==
  /\ \A b \in blocks : EndOf(b) <= HeapEnd
  /\ \A b, c \in blocks : b < c => EndOf(b) <= c
  /\ \A x \in HeapStart .. HeapEnd - 1 : \E b \in blocks : b <= x /\ x < EndOf(b)

(* The list is the arena in address order, and the next and prev pointers  *)
(* agree: each block's next is the block that begins where it ends, whose  *)
(* prev is that block, so that coalescing joins true neighbours.           *)
Linked ==
  /\ HeapStart \in blocks /\ heap[HeapStart].prev = NULL
  /\ \A b \in blocks :
       IF EndOf(b) = HeapEnd
       THEN heap[b].next = NULL
       ELSE heap[b].next = EndOf(b) /\ EndOf(b) \in blocks /\ heap[EndOf(b)].prev = b

(* Between calls no two neighbours of the list are free: kfree has joined  *)
(* all it could, whatever the order of the releases.                       *)
Coalesced ==
  pc \in {"idle", "scan", "copied"} =>
    \A b \in blocks : heap[b].free => ~FreeAt(heap[b].next)

(* The list of blocks is what its walkers rely on, at every moment, and    *)
(* shows the next search all the room there is.                            *)
ListSound == TypeOK /\ Tiled /\ Linked /\ Coalesced

(* The blocks in use are those that callers hold. *)
InUseIsHeld ==
  /\ \A b \in blocks : ~heap[b].free <=> b + Hdr \in DOMAIN held
  /\ \A p \in DOMAIN held : BlockOf(p) \in blocks

(* A caller's memory stays its own: a pointer that was returned and not    *)
(* freed begins a block that is still in the list, in use and large enough *)
(* for the bytes asked, also at the aligned address of kmalloc_aligned     *)
(* and below it the saved raw pointer; and every block in use has an owner.*)
Owned ==
  /\ InUseIsHeld
  /\ \A p \in DOMAIN held :
       /\ held[p].at = p \/ held[p].at >= p + 4
       /\ held[p].at + held[p].n <= EndOf(BlockOf(p))

(* heap_get_used is the sum of the blocks in use: what kmalloc adds (the   *)
(* size after the split) is what kfree subtracts (before the merge).       *)
Accounted ==
  heapUsed = MapThenSumSet(LAMBDA b : heap[b].size, {b \in blocks : ~heap[b].free})

(* The search takes the lowest block that fits (the "first-fit" of the     *)
(* comment above heap_init), and gives up only when none does.             *)
FirstFit ==
  [][/\ ScanTake => \A b \in blocks : Fits(b) => cur <= b
     /\ ScanFail => \A b \in blocks : ~Fits(b)]_vars

(* Every kmalloc, krealloc and kfree returns: the search and both merging  *)
(* loops come to an end on every list the allocator can build.             *)
CallsReturn == (pc # "idle") ~> (pc = "idle")

(* README.md calls the strategy best-fit. *)
BestFit ==
  [][ScanTake => \A b \in blocks : Fits(b) => heap[cur].size <= heap[b].size]_vars

(* Callers see the Allocator: disjoint grants, and refusals only when no   *)
(* gap between the blocks in use would hold the request.                   *)
A == INSTANCE Allocator WITH
       Lo <- HeapStart, Hi <- HeapEnd, Overhead <- Hdr, Slack <- Hdr + MinRest,
       grants <- [p \in DOMAIN held |-> heap[BlockOf(p)].size],
       asked <- IF pc = "scan" THEN call.want ELSE 0,
       answer <- result

ImplementsAllocator == A!AllocatorSpec
=============================================================================
