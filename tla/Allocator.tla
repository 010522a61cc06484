----------------------------- MODULE Allocator -----------------------------
(***************************************************************************)
(* What a caller of the kernel heap may rely on, without the list of       *)
(* blocks: the memory Lo .. Hi-1 is handed out in disjoint extents, each   *)
(* preceded by Overhead bytes the allocator keeps for itself; an extent is *)
(* at least as long as what was asked and at most Slack bytes longer; and  *)
(* a request is refused only when no gap between the extents that are out  *)
(* would hold it.  The last promise is what coalescing is for.             *)
(***************************************************************************)
EXTENDS Integers

CONSTANTS Lo,        \* first address of the arena
          Hi,        \* one past its last address
          Overhead,  \* bytes kept in front of every extent
          Slack      \* how much longer than the request an extent may be

VARIABLES grants,    \* extents that are out: first byte -> length
          asked,     \* length of the request being served, 0 when there is none
          answer     \* what the last request was given, 0 for nothing

avars == <<grants, asked, answer>>

(* [a, b) is free of every extent that is out and of its overhead. *)
Vacant(a, b) ==
  /\ a >= Lo
  /\ b <= Hi
  /\ \A q \in DOMAIN grants : b <= q - Overhead \/ q + grants[q] <= a

(* The request fits somewhere. *)
Room == \E a \in Lo .. Hi : Vacant(a, a + Overhead + asked)

AllocatorInit ==
  /\ grants = [p \in {} |-> 0]
  /\ asked = 0
  /\ answer = 0

Ask ==
  /\ asked = 0
  /\ asked' \in Nat \ {0}
  /\ answer' = 0
  /\ UNCHANGED grants

Grant ==
  /\ asked # 0
  /\ answer' \in Lo .. Hi
  /\ \E len \in asked .. asked + Slack :
       /\ Vacant(answer' - Overhead, answer' + len)
       /\ grants' = [q \in DOMAIN grants \cup {answer'} |->
                       IF q = answer' THEN len ELSE grants[q]]
  /\ asked' = 0

Refuse ==
  /\ asked # 0
  /\ ~Room
  /\ answer' = 0
  /\ asked' = 0
  /\ UNCHANGED grants

Free ==
  /\ asked = 0
  /\ \E p \in DOMAIN grants : grants' = [q \in DOMAIN grants \ {p} |-> grants[q]]
  /\ answer' \in {0, answer}
  /\ UNCHANGED asked

(* A request that an extent already out is long enough for. *)
Keep ==
  /\ asked = 0
  /\ answer' \in DOMAIN grants
  /\ UNCHANGED <<grants, asked>>

AllocatorNext == Ask \/ Grant \/ Refuse \/ Free \/ Keep

AllocatorSpec == AllocatorInit /\ [][AllocatorNext]_avars
=============================================================================
