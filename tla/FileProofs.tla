------------------------------ MODULE FileProofs ------------------------------
(***************************************************************************)
(* Proofs about those that call fs/fs.c: what cp copies, where the working *)
(* directory is and what tree lists, for every size of the pools.          *)
(***************************************************************************)
EXTENDS FileCommands, Cwd, RamFSProofs

-----------------------------------------------------------------------------
(* Where fs_write ends.  Block 0 is the first of all to be marked, and the *)
(* one that is marked in vain.                                             *)
ZeroFirst(marked) == 0 \in marked \/ marked = {}

(* Nothing more can be written at a position.                              *)
StuckAt(list, marked, pos) ==
  LET k == pos \div BlockSize IN
  k >= Direct \/ (list[k] = 0 /\ Blocks \subseteq marked)

(* Where a turn that gives up leaves the loop.                             *)
GivesUp(w, v) ==
  /\ v.stop /\ v.pos = w.pos /\ v.done = w.done /\ v.blocks = w.blocks
  /\ \/ StuckAt(w.blocks, w.used, w.pos) /\ v.used = w.used
     \/ /\ 0 \notin w.used /\ v.used = w.used \cup {0}
        /\ ~(w.pos \div BlockSize >= Direct) /\ w.blocks[w.pos \div BlockSize] = 0

GoesOn(w, v) ==
  /\ ~v.stop /\ v.done >= w.done + 1
  /\ ~StuckAt(w.blocks, w.used, w.pos)
  /\ (0 \in w.used /\ w.used \subseteq v.used) \/ v.used = w.used

LEMMA ChunkEnds ==
  ASSUME NEW data \in Seq(Nat), NEW w \in Turns(data)
  PROVE  IF w.stop \/ w.done = Len(data) THEN Chunk(data, w) = w
         ELSE GivesUp(w, Chunk(data, w)) \/ GoesOn(w, Chunk(data, w))
<1> DEFINE k == w.pos \div BlockSize
           o == w.pos % BlockSize
           n == Min({BlockSize - o, Len(data) - w.done})
           missing == w.blocks[k] = 0
           b == IF missing THEN FirstFree(w.used) ELSE w.blocks[k]
           before == Cleared(missing, w.storage[b])
           marked == IF missing /\ ~(Blocks \subseteq w.used) THEN w.used \cup {b} ELSE w.used
           store == [q \in 0 .. BlockSize - 1 |->
                       IF q \in o .. o + n - 1 THEN data[w.done + q - o + 1] ELSE before[q]]
           v == [pos |-> w.pos + n, done |-> w.done + n, stop |-> FALSE, used |-> marked,
                 blocks |-> [w.blocks EXCEPT ![k] = b],
                 storage |-> [w.storage EXCEPT ![b] = store]]
<1>1. Chunk(data, w) = IF w.stop \/ w.done = Len(data) THEN w
                       ELSE IF k >= Direct THEN [w EXCEPT !.stop = TRUE]
                       ELSE IF b = 0 THEN [w EXCEPT !.stop = TRUE, !.used = marked]
                       ELSE v
  BY DEF Chunk
<1>2. w.pos \in Nat /\ w.done \in 0 .. Len(data) /\ Len(data) \in Nat /\ w.used \in SUBSET Blocks
      /\ w.blocks \in BlockLists
      /\ w = [pos |-> w.pos, done |-> w.done, stop |-> w.stop, used |-> w.used,
              blocks |-> w.blocks, storage |-> w.storage]
  BY DEF Turns
<1>3. k \in Nat /\ o \in 0 .. BlockSize - 1 BY <1>2, Sizes, Division
<1>4. CASE w.stop \/ w.done = Len(data) BY <1>1, <1>4
<1>5. CASE ~(w.stop \/ w.done = Len(data)) /\ k >= Direct
  <2>1. Chunk(data, w) = [pos |-> w.pos, done |-> w.done, stop |-> TRUE, used |-> w.used,
                          blocks |-> w.blocks, storage |-> w.storage]
    BY <1>1, <1>2, <1>5
  <2>2. GivesUp(w, Chunk(data, w)) BY <1>5, <2>1 DEF GivesUp, StuckAt
  <2> QED BY <1>5, <2>2
<1>6. CASE ~(w.stop \/ w.done = Len(data)) /\ ~(k >= Direct)
  <2>1. k \in 0 .. Direct - 1 BY <1>3, <1>6, Sizes
  <2>2. missing /\ ~(Blocks \subseteq w.used) =>
          b \notin w.used /\ (b # 0 => 0 \in w.used)
    <3> HIDE DEF k
    <3>1. CASE missing /\ ~(Blocks \subseteq w.used)
      <4>1. b \notin w.used BY <1>2, <3>1, FirstFreeIs
      <4>2. ASSUME b # 0 PROVE 0 \in w.used
        <5> SUFFICES ASSUME 0 \notin w.used PROVE FALSE OBVIOUS
        <5> DEFINE T == Blocks \ w.used
        <5>1. T \subseteq Nat /\ 0 \in T BY Sizes DEF Blocks
        <5>2. b = Min(T) BY <3>1 DEF FirstFree
        <5> HIDE DEF T, b
        <5>3. Min(T) \in Nat /\ Min(T) <= 0 BY <5>1, LeastExists
        <5> QED BY <4>2, <5>2, <5>3
      <4> QED BY <4>1, <4>2
    <3> QED BY <3>1
  <2>3. CASE b = 0
    <3>1. Chunk(data, w) = [pos |-> w.pos, done |-> w.done, stop |-> TRUE, used |-> marked,
                            blocks |-> w.blocks, storage |-> w.storage]
      <4>1. Chunk(data, w) = [w EXCEPT !.stop = TRUE, !.used = marked] BY <1>1, <1>6, <2>3
      <4> HIDE DEF marked
      <4> QED BY <1>2, <4>1
    <3>2. missing BY <2>3
    <3>3. CASE Blocks \subseteq w.used
      <4>1. marked = w.used BY <3>3
      <4>2. StuckAt(w.blocks, w.used, w.pos) BY <3>2, <3>3 DEF StuckAt
      <4> HIDE DEF marked, b, k
      <4>3. GivesUp(w, Chunk(data, w)) BY <3>1, <4>1, <4>2 DEF GivesUp
      <4> QED BY <1>6, <4>3
    <3>4. CASE ~(Blocks \subseteq w.used)
      <4>1. 0 \notin w.used /\ marked = w.used \cup {0} BY <2>2, <2>3, <3>2, <3>4
      <4>2. w.blocks[w.pos \div BlockSize] = 0 /\ ~(w.pos \div BlockSize >= Direct) BY <1>6, <3>2
      <4> HIDE DEF marked, b, k
      <4>3. GivesUp(w, Chunk(data, w)) BY <3>1, <4>1, <4>2 DEF GivesUp
      <4> QED BY <1>6, <4>3
    <3> QED BY <3>3, <3>4
  <2>4. CASE b # 0
    <3>1. Chunk(data, w) = v BY <1>1, <1>6, <2>4
    <3>2. n \in Nat /\ n >= 1
      <4>1. w.done # Len(data) /\ BlockSize \in Nat BY <1>6, Sizes
      <4>2. PieceFits(n, BlockSize, o, Len(data), w.done)
        <5> HIDE DEF o
        <5> QED BY <1>2, <1>3, <4>1, Piece
      <4>3. n \in 1 .. BlockSize - o BY <4>2 DEF PieceFits
      <4> HIDE DEF n
      <4> QED BY <4>3
    <3>3. ~StuckAt(w.blocks, w.used, w.pos)
      <4> SUFFICES ASSUME missing, Blocks \subseteq w.used PROVE FALSE
        BY <1>6 DEF StuckAt
      <4>1. b = 0 BY <1>2, FirstFreeIs
      <4> QED BY <2>4, <4>1
    <3>4. (0 \in w.used /\ w.used \subseteq marked) \/ marked = w.used BY <2>2, <2>4
    <3> HIDE DEF k, o, n, b, before, marked, store
    <3>5. v.done = w.done + n /\ v.stop = FALSE /\ v.used = marked OBVIOUS
    <3> HIDE DEF v
    <3>6. v.done >= w.done + 1 BY <1>2, <3>2, <3>5
    <3>7. GoesOn(w, v) BY <3>3, <3>4, <3>5, <3>6 DEF GoesOn
    <3> QED BY <1>6, <3>1, <3>7
  <2> QED BY <2>3, <2>4
<1> QED BY <1>4, <1>5, <1>6

(* fs_write stores all, or stops where nothing more can be written, or     *)
(* where it took block 0 for a failure.                                    *)
StopsShort(w) ==
  \/ StuckAt(w.blocks, w.used, w.pos)
  \/ 0 \notin used /\ w.blocks[w.pos \div BlockSize] = 0

LEMMA BegunType ==
  ASSUME TypeOK, NEW f \in Fds, fd[f].inode # NULL, NEW data \in Seq(Nat)
  PROVE  Begun(f) \in Turns(data)
<1>1. fd[f].inode \in Inodes /\ fd[f].pos \in Nat BY DEF TypeOK
<1>2. inode[fd[f].inode].blocks \in BlockLists /\ storage \in StoreTypes
  BY <1>1, TableIs DEF Table
<1>3. used \in SUBSET Blocks /\ 0 \in 0 .. Len(data) BY DEF TypeOK
<1> QED BY <1>1, <1>2, <1>3 DEF Begun, Turns

LEMMA WrittenEnds ==
  ASSUME TypeOK, NEW f \in Fds, fd[f].inode # NULL, NEW data \in Seq(Nat)
  PROVE  /\ Written(f, data).done = Len(data) \/ StopsShort(Written(f, data))
         /\ ZeroFirst(used) => ZeroFirst(Written(f, data).used)
<1> DEFINE Turn == [j \in Nat |-> {w \in Turns(data) :
             /\ used \subseteq w.used
             /\ ZeroFirst(used) => ZeroFirst(w.used)
             /\ w.done = Len(data) \/ (w.stop /\ StopsShort(w)) \/ (~w.stop /\ w.done >= j)}]
<1>1. Begun(f) \in Turn[0]
  <2>1. Begun(f).done = 0 /\ Begun(f).used = used /\ Begun(f).stop = FALSE BY DEF Begun
  <2>2. Begun(f) \in Turns(data) BY BegunType
  <2>3. Begun(f).done >= 0 BY <2>1
  <2> QED BY <2>1, <2>2, <2>3
<1>2. ASSUME NEW j \in Nat, NEW w \in Turn[j] PROVE Chunk(data, w) \in Turn[j + 1]
  <2> PICK v : v = Chunk(data, w) OBVIOUS
  <2>1. /\ w \in Turns(data) /\ used \subseteq w.used
        /\ ZeroFirst(used) => ZeroFirst(w.used)
        /\ w.done = Len(data) \/ (w.stop /\ StopsShort(w)) \/ (~w.stop /\ w.done >= j)
    OBVIOUS
  <2>2. v \in Turns(data) BY <2>1, ChunkIs
  <2>3. w.done \in Nat /\ v.done \in Nat BY <2>1, <2>2 DEF Turns
  <2>4. /\ used \subseteq v.used
        /\ ZeroFirst(used) => ZeroFirst(v.used)
        /\ v.done = Len(data) \/ (v.stop /\ StopsShort(v)) \/ (~v.stop /\ v.done >= j + 1)
    <3>1. CASE w.stop \/ w.done = Len(data)
      <4>1. v = w BY <2>1, <3>1, ChunkEnds
      <4> QED BY <2>1, <3>1, <4>1
    <3>2. CASE ~(w.stop \/ w.done = Len(data)) /\ GivesUp(w, v)
      <4>1. /\ v.stop /\ v.pos = w.pos /\ v.done = w.done /\ v.blocks = w.blocks
            /\ \/ StuckAt(w.blocks, w.used, w.pos) /\ v.used = w.used
               \/ /\ 0 \notin w.used /\ w.blocks[w.pos \div BlockSize] = 0
                  /\ v.used = w.used \cup {0}
        BY <3>2 DEF GivesUp
      <4>2. used \subseteq v.used BY <2>1, <4>1
      <4>3. ZeroFirst(used) => ZeroFirst(v.used) BY <2>1, <4>1 DEF ZeroFirst
      <4>4. StopsShort(v) BY <2>1, <4>1 DEF StopsShort
      <4> QED BY <4>1, <4>2, <4>3, <4>4
    <3>3. CASE ~(w.stop \/ w.done = Len(data)) /\ GoesOn(w, v)
      <4>1. /\ ~v.stop /\ v.done >= w.done + 1
            /\ (0 \in w.used /\ w.used \subseteq v.used) \/ v.used = w.used
        BY <3>3 DEF GoesOn
      <4>2. ZeroFirst(used) => ZeroFirst(v.used) BY <2>1, <4>1 DEF ZeroFirst
      <4>3. v.done >= j + 1
        <5>1. w.done >= j BY <2>1, <3>3
        <5> QED BY <2>3, <4>1, <5>1
      <4> QED BY <2>1, <4>1, <4>2, <4>3
    <3> QED BY <2>1, <3>1, <3>2, <3>3, ChunkEnds
  <2>5. j + 1 \in Nat OBVIOUS
  <2> QED BY <2>2, <2>4, <2>5
<1>3. Len(data) \in Nat OBVIOUS
<1> HIDE DEF Turn
<1>4. Written(f, data) \in Turn[Len(data)] BY <1>1, <1>2, WriteTurns
<1> PICK w : w = Written(f, data) OBVIOUS
<1>5. w \in Turns(data) BY <1>3, <1>4 DEF Turn
<1>6. ZeroFirst(used) => ZeroFirst(w.used) BY <1>3, <1>4 DEF Turn
<1>7. w.done = Len(data) \/ (w.stop /\ StopsShort(w)) \/ (~w.stop /\ w.done >= Len(data))
  BY <1>3, <1>4 DEF Turn
<1>8. w.done \in 0 .. Len(data) BY <1>5 DEF Turns
<1>9. w.done >= Len(data) => w.done = Len(data) BY <1>3, <1>8
<1>10. w.done = Len(data) \/ StopsShort(w) BY <1>7, <1>9
<1> QED BY <1>6, <1>10

LEMMA StuckWrites ==
  ASSUME TypeOK, NEW f \in Fds, fd[f].inode # NULL, NEW data \in Seq(Nat),
         StuckAt(inode[fd[f].inode].blocks, used, fd[f].pos)
  PROVE  /\ Written(f, data).done = 0 /\ Written(f, data).used = used
         /\ Written(f, data).blocks = inode[fd[f].inode].blocks
         /\ Written(f, data).pos = fd[f].pos
<1> DEFINE Loop == {w \in Turns(data) :
             /\ w.done = 0 /\ w.used = used /\ w.blocks = inode[fd[f].inode].blocks
             /\ w.pos = fd[f].pos}
<1>1. Begun(f) \in Loop
  <2>1. Begun(f) \in Turns(data) BY BegunType
  <2> QED BY <2>1 DEF Begun
<1>2. ASSUME NEW w \in Loop PROVE Chunk(data, w) \in Loop
  <2> PICK v : v = Chunk(data, w) OBVIOUS
  <2>1. /\ w \in Turns(data) /\ StuckAt(w.blocks, w.used, w.pos)
        /\ w.done = 0 /\ w.used = used /\ w.blocks = inode[fd[f].inode].blocks
        /\ w.pos = fd[f].pos
    OBVIOUS
  <2>2. v \in Turns(data) BY <2>1, ChunkIs
  <2>3. CASE v = w BY <2>3
  <2>4. CASE GivesUp(w, v)
    <3>1. ASSUME 0 \notin w.used, ~(w.pos \div BlockSize >= Direct) PROVE FALSE
      <4>1. 0 \in Blocks BY Sizes DEF Blocks
      <4> QED BY <2>1, <3>1, <4>1 DEF StuckAt
    <3>2. v.used = w.used
      <4>1. CASE v.used = w.used BY <4>1
      <4> QED BY <2>1, <2>4, <3>1 DEF GivesUp
    <3> QED BY <2>1, <2>2, <2>4, <3>2 DEF GivesUp
  <2>5. CASE GoesOn(w, v) BY <2>1, <2>5 DEF GoesOn
  <2> QED BY <2>1, <2>3, <2>4, <2>5, ChunkEnds
<1> HIDE DEF Loop
<1>3. Written(f, data) \in Loop BY <1>1, <1>2, WriteInduction
<1> QED BY <1>3 DEF Loop
(* Stuck, nothing is ever written there again; and as long as block 0 is   *)
(* free there is not a byte in the file system but zeros.                  *)
Zeroed(s) == \A o \in 1 .. Len(s) : s[o] = 0

LEMMA OnlyZeros ==
  ASSUME TypeOK, BlocksExclusive, Held, ZeroFirst(used), 0 \notin used, NEW i \in InUse
  PROVE  Zeroed(content[i])
<1>1. i \in Inodes /\ Holds(i) /\ content[i] \in Seq(Nat) BY DEF InUse, Held, TypeOK
<1>2. used = {} BY DEF ZeroFirst
<1>3. \A k \in 0 .. Direct - 1 : inode[i].blocks[k] = 0 BY <1>1, <1>2 DEF BlocksExclusive
<1>4. ASSUME NEW o \in Nat PROVE ByteAt(i, o) = 0
  <2> PICK k : k = o \div BlockSize OBVIOUS
  <2>1. k \in Nat BY Division, Sizes
  <2>2. k < Direct => k \in 0 .. Direct - 1 BY <2>1, Sizes
  <2> QED BY <1>3, <2>2 DEF ByteAt
<1>5. ASSUME NEW o \in 1 .. Len(content[i]) PROVE content[i][o] = 0
  <2> PICK m \in Nat : m = Len(content[i]) BY <1>1
  <2>1. o - 1 \in Nat /\ o - 1 < m /\ (o - 1) + 1 = o OBVIOUS
  <2>2. Byte(content[i], o - 1) = 0 BY <1>1, <1>4, <2>1 DEF Holds
  <2> QED BY <2>1, <2>2 DEF Byte
<1> QED BY <1>5 DEF Zeroed

(* The first block to be marked stays it.                                  *)
LEMMA ZeroStaysFirst ==
  ASSUME TypeOK, ZeroFirst(used), Changes
  PROVE  ZeroFirst(used)'
<1>1. \A i : 0 \notin BlocksOf(i) BY DEF BlocksOf
<1>2. CASE used' = used BY <1>2 DEF ZeroFirst
<1>3. CASE \E i : used' = used \ BlocksOf(i) BY <1>1, <1>3 DEF ZeroFirst
<1>4. CASE \E f \in Fds, data \in Seq(Nat) : fd[f].inode # NULL /\ WritesTo(f, data)
  <2>1. PICK f \in Fds, data \in Seq(Nat) : fd[f].inode # NULL /\ WritesTo(f, data) BY <1>4
  <2>2. used' = Written(f, data).used BY <2>1 DEF WritesTo
  <2>3. ZeroFirst(Written(f, data).used) BY <2>1, WrittenEnds
  <2> QED BY <2>2, <2>3 DEF ZeroFirst
<1> QED BY <1>2, <1>3, <1>4 DEF Changes, Opens, Adds, Removes, Closes, Moves, vars
(* What fs_read copies out: got bytes of a file, none only at its end.     *)
Fetched(next, old, q, got) ==
  /\ q + got <= Len(old) /\ (got = 0 => q = Len(old))
  /\ next = [k \in 1 .. got |-> old[q + k]]

ReadsFrom(f, n, old, pos) ==
  \E got \in Nat : /\ Fetched(BytesRead(f, n), old, pos, got)
                   /\ fd' = [fd EXCEPT ![f].pos = pos + got]

LEMMA ReadGets ==
  ASSUME TypeOK, Held, NEW f \in Fds, NEW i \in InUse, NEW pos \in Nat,
         NEW old \in Seq(Nat), fd[f].inode = i, fd[f].pos = pos, content[i] = old,
         pos <= Len(old), NEW n \in Nat \ {0}, Read(f, n)
  PROVE  ReadsFrom(f, n, old, pos)
<1>1. i \in Inodes /\ Holds(i) /\ content[i] \in Seq(Nat)
  BY DEF InUse, Held, TypeOK
<1> PICK size \in Nat : size = Len(content[i]) BY <1>1
<1>2. inode[i].size = size BY <1>1 DEF Holds
<1> PICK got : got = Max({0, Min({n, inode[i].size - pos})}) OBVIOUS
<1>3. size - pos \in Nat BY <1>1
<1>4. got = IF n <= size - pos THEN n ELSE size - pos
  <2>1. Min({n, size - pos}) = IF n <= size - pos THEN n ELSE size - pos
    BY <1>3, LesserOfTwo
  <2>2. Min({n, size - pos}) \in Nat BY <1>3, <2>1
  <2> PICK least \in Nat : least = Min({n, size - pos}) BY <2>2
  <2>3. Max({0, least}) = IF 0 >= least THEN 0 ELSE least
    <3>1. 0 \in Int /\ least \in Int OBVIOUS
    <3> QED BY <3>1, GreaterOfTwo
  <2> QED BY <1>2, <2>1, <2>3
<1>5. got \in Nat /\ pos + got <= size /\ (got = 0 => pos = size) BY <1>3, <1>4
<1>6. fd' = [fd EXCEPT ![f].pos = pos + got] BY DEF Read
<1>7. BytesRead(f, n) = [k \in 1 .. got |-> ByteAt(i, pos + k - 1)] BY DEF BytesRead
<1>8. ASSUME NEW k \in 1 .. got PROVE ByteAt(i, pos + k - 1) = content[i][pos + k]
  <2> PICK o \in Nat : o = pos + k - 1 OBVIOUS
  <2>1. o < size /\ o + 1 = pos + k BY <1>5
  <2>2. ByteAt(i, o) = Byte(content[i], o) BY <1>1 DEF Holds
  <2> QED BY <2>1, <2>2 DEF Byte
<1>9. BytesRead(f, n) = [k \in 1 .. got |-> content[i][pos + k]] BY <1>7, <1>8
<1> QED BY <1>5, <1>6, <1>9 DEF Fetched, ReadsFrom

(* What fs_open puts into a descriptor, without APPEND.                    *)
LEMMA OpenedIs ==
  ASSUME TypeOK, NEW begin \in Places, NEW path \in Seq(Names) \ {<<>>}, NEW mode,
         Open(begin, path, mode), "APPEND" \notin mode, fd' # fd
  PROVE  /\ Opened \in Fds /\ fd[Opened].inode = NULL
         /\ \E i \in Inodes : /\ fd' = [fd EXCEPT ![Opened] = [inode |-> i, pos |-> 0]]
                              /\ "TRUNC" \in mode => content' = [content EXCEPT ![i] = <<>>]
<1> DEFINE new == Resolve(begin, path) = NULL
           i == IF new THEN Min(FreeInodes) ELSE Resolve(begin, path)
           free == {f \in Fds : fd[f].inode = NULL}
<1>1. MayOpen(begin, path, mode) BY DEF Open
<1>2. i \in Inodes
  <2>1. CASE new
    <3>1. FreeInodes # {} BY <1>1, <2>1 DEF MayOpen, MayCreate
    <3> QED BY <2>1, <3>1, LeastFree
  <2>2. CASE ~new BY <2>2, ResolveType DEF Places
  <2> QED BY <2>1, <2>2
<1>3. free # {} => fd' = [fd EXCEPT ![Min(free)] = [inode |-> i, pos |-> 0]]
  BY DEF Open
<1>4. free = {} => fd' = fd BY DEF Open
<1>5. "TRUNC" \in mode => content' = [content EXCEPT ![i] = <<>>] BY DEF Open
<1> HIDE DEF i
<1>6. free # {} BY <1>4
<1>7. Min(free) \in free
  <2>1. free \subseteq Fds OBVIOUS
  <2> HIDE DEF free
  <2> QED BY <1>6, <2>1, LeastClosed
<1>8. Opened = Min(free) BY DEF Opened
<1> QED BY <1>2, <1>3, <1>5, <1>6, <1>7, <1>8
-----------------------------------------------------------------------------
(* The copy that cp has made so far: what was written is the beginning of  *)
(* the old file, and what is in the buffer is what was read last.          *)
Waiting(st, buf) == IF st = "write" THEN Len(buf) ELSE 0

SoFar(st, old, new, p, q, buf) ==
  /\ Len(new) = p /\ q <= Len(old) /\ p + Waiting(st, buf) <= q
  /\ \A o \in 1 .. p : new[o] = old[o]
  /\ \A k \in 1 .. Waiting(st, buf) : buf[k] = old[q - Waiting(st, buf) + k]
  /\ st = "close" => q = Len(old)

LEMMA FetchedIs ==
  ASSUME NEW old \in Seq(Nat), NEW q \in Nat, NEW got \in Nat, NEW next, Fetched(next, old, q, got)
  PROVE  /\ next \in Seq(Nat) /\ Len(next) = got /\ \A k \in 1 .. got : next[k] = old[q + k]
         /\ q + got <= Len(old) /\ (got = 0 => q = Len(old))
<1>1. q + got <= Len(old) /\ (got = 0 => q = Len(old)) /\ next = [k \in 1 .. got |-> old[q + k]]
  BY DEF Fetched
<1>2. ASSUME NEW k \in 1 .. got PROVE old[q + k] \in Nat
  <2> PICK a \in Nat : a = Len(old) OBVIOUS
  <2>1. q + k \in 1 .. a BY <1>1
  <2> QED BY <2>1
<1>3. next \in Seq(Nat) /\ Len(next) = got BY <1>1, <1>2
<1> QED BY <1>1, <1>3

LEMMA CopyReads ==
  ASSUME NEW old \in Seq(Nat), NEW new \in Seq(Nat), NEW p \in Nat, NEW q \in Nat,
         NEW buf, SoFar("read", old, new, p, q, buf),
         NEW got \in Nat, NEW next, Fetched(next, old, q, got),
         NEW st, st = IF next = <<>> THEN "close" ELSE "write"
  PROVE  SoFar(st, old, new, p, q + got, next) /\ Waiting(st, next) = got
<1>0. /\ next \in Seq(Nat) /\ Len(next) = got /\ \A k \in 1 .. got : next[k] = old[q + k]
      /\ q + got <= Len(old) /\ (got = 0 => q = Len(old))
  BY FetchedIs
<1>1. Waiting("read", buf) = 0 BY DEF Waiting
<1>2. Waiting(st, next) = got /\ (st = "close" => got = 0)
  <2>1. CASE next = <<>> BY <1>0, <2>1 DEF Waiting
  <2>2. CASE next # <<>> BY <1>0, <2>2 DEF Waiting
  <2> QED BY <2>1, <2>2
<1>3. Len(new) = p /\ q <= Len(old) /\ p <= q /\ \A o \in 1 .. p : new[o] = old[o]
  BY <1>1 DEF SoFar
<1>4. \A k \in 1 .. got : next[k] = old[(q + got) - got + k]
  <2>1. (q + got) - got = q OBVIOUS
  <2> QED BY <1>0, <2>1
<1>5. p + got <= q + got /\ (st = "close" => q + got = Len(old)) BY <1>0, <1>2, <1>3
<1> QED BY <1>0, <1>2, <1>3, <1>4, <1>5 DEF SoFar

LEMMA Shifted ==
  ASSUME NEW p \in Nat, NEW n \in Nat, NEW o \in Nat
  PROVE  (p + n) - n + (o - p) = o
OBVIOUS

LEMMA CopyWrites ==
  ASSUME NEW old \in Seq(Nat), NEW new \in Seq(Nat), NEW p \in Nat, NEW q \in Nat,
         NEW buf \in Seq(Nat), SoFar("write", old, new, p, q, buf), NEW d \in 0 .. Len(buf),
         p + Len(buf) = q \/ d = 0 \/ Zeroed(old)
  PROVE  SoFar("read", old, Promised(new, p, buf, d), p + d, q, buf)
<1>0. /\ Len(Promised(new, p, buf, d)) = IF Len(new) >= p + d THEN Len(new) ELSE p + d
      /\ \A o \in 1 .. Len(Promised(new, p, buf, d)) :
           Promised(new, p, buf, d)[o] = IF o > p /\ o <= p + d THEN buf[o - p]
                                         ELSE IF o <= Len(new) THEN new[o] ELSE 0
  <2>1. new \in Seq(Nat) /\ p \in Nat /\ buf \in Seq(Nat) /\ d \in 0 .. Len(buf) OBVIOUS
  <2> QED BY <2>1, PromisedIs
<1> PICK n \in Nat, a \in Nat, m \in Nat : n = Len(buf) /\ a = Len(old) /\ m = d OBVIOUS
<1>1. Waiting("write", buf) = n /\ Waiting("read", buf) = 0 /\ "read" # "close" BY DEF Waiting
<1>2. /\ Len(new) = p /\ q <= a /\ p + n <= q
      /\ \A o \in 1 .. p : new[o] = old[o]
      /\ \A k \in 1 .. n : buf[k] = old[q - n + k]
  BY <1>1 DEF SoFar
<1> PICK s : s = Promised(new, p, buf, d) OBVIOUS
<1>3. /\ Len(s) = IF Len(new) >= p + d THEN Len(new) ELSE p + d
      /\ \A o \in 1 .. Len(s) : s[o] = IF o > p /\ o <= p + d THEN buf[o - p]
                                       ELSE IF o <= Len(new) THEN new[o] ELSE 0
  BY <1>0
<1>4. Len(s) = p + m BY <1>2, <1>3
<1>5. ASSUME NEW o \in 1 .. p + m PROVE s[o] = old[o]
  <2>1. s[o] = IF o > p /\ o <= p + m THEN buf[o - p] ELSE IF o <= p THEN new[o] ELSE 0
    BY <1>2, <1>3, <1>4
  <2>2. CASE o <= p BY <1>2, <2>1, <2>2
  <2>3. CASE o > p
    <3> PICK k \in Nat : k = o - p BY <2>3
    <3>1. k \in 1 .. n /\ o \in 1 .. a BY <1>2, <2>3
    <3>2. s[o] = old[q - n + k]
      <4>1. s[o] = buf[k] BY <2>1, <2>3
      <4> QED BY <1>2, <3>1, <4>1
    <3>3. CASE p + n = q
      <4>1. o \in Nat OBVIOUS
      <4>2. (p + n) - n + (o - p) = o BY <4>1, Shifted
      <4>3. q - n + k = o BY <3>3, <4>2
      <4> QED BY <3>2, <4>3
    <3>4. CASE Zeroed(old)
      <4>1. q - n + k \in 1 .. a BY <1>2, <3>1
      <4> QED BY <3>1, <3>2, <3>4, <4>1 DEF Zeroed
    <3>5. CASE d = 0 BY <2>3, <3>5
    <3> QED BY <3>3, <3>4, <3>5
  <2> QED BY <2>2, <2>3
<1>6. q <= a /\ (p + m) + 0 <= q BY <1>2
<1>7. \A k \in 1 .. 0 : buf[k] = old[q - 0 + k] OBVIOUS
<1> PICK r \in Nat : r = p + m OBVIOUS
<1>8. /\ Len(s) = r /\ q <= Len(old) /\ r + Waiting("read", buf) <= q
      /\ \A o \in 1 .. r : s[o] = old[o]
      /\ \A k \in 1 .. Waiting("read", buf) : buf[k] = old[q - Waiting("read", buf) + k]
      /\ "read" = "close" => q = Len(old)
  <2>1. Len(s) = r /\ q <= Len(old) /\ r + Waiting("read", buf) <= q BY <1>1, <1>4, <1>6
  <2>2. \A o \in 1 .. r : s[o] = old[o] BY <1>5
  <2>3. \A k \in 1 .. Waiting("read", buf) : buf[k] = old[q - Waiting("read", buf) + k]
    BY <1>1, <1>7
  <2> QED BY <1>1, <2>1, <2>2, <2>3
<1>9. SoFar("read", old, s, r, q, buf) BY <1>8 DEF SoFar
<1> QED BY <1>9
-----------------------------------------------------------------------------
(* The calls that commands make, besides those of Next, and what all of    *)
(* them keep.                                                              *)
AnyCall ==
  \/ [Next]_vars
  \/ \E path \in Paths, mode \in SUBSET {"CREAT", "TRUNC"} : Open(Root, path, mode)
  \/ \E f \in Fds : Close(f) \/ (\E data \in Seq(Nat) : Write(f, data))
                    \/ \E n \in Nat : Read(f, n)

Core ==
  TypeOK /\ BlocksExclusive /\ ZeroFirst(used) /\ (~stale => Standing /\ Held)

LEMMA CallsChanges ==
  ASSUME TypeOK, AnyCall
  PROVE  Changes
<1>1. CASE \E path \in Paths, mode \in SUBSET {"CREAT", "TRUNC"} : Open(Root, path, mode)
  BY <1>1, PathNames, RootPlace, OpenChanges
<1>2. CASE \E f \in Fds : Close(f) BY <1>2, CloseIs DEF Changes
<1>3. CASE \E f \in Fds, data \in Seq(Nat) : Write(f, data)
  <2>1. PICK f \in Fds, data \in Seq(Nat) : Write(f, data) BY <1>3
  <2>2. fd[f].inode # NULL BY <2>1 DEF Write
  <2> QED BY <2>1, <2>2, WriteIs DEF Changes
<1>4. CASE \E f \in Fds, n \in Nat : Read(f, n) BY <1>4, ReadIs DEF Changes
<1> QED BY <1>1, <1>2, <1>3, <1>4, NextChanges DEF AnyCall

LEMMA CallsSteady ==
  ASSUME TypeOK, ~stale => Standing, AnyCall, ~stale'
  PROVE  ~stale /\ Steady
<1>1. CASE \E path \in Paths, mode \in SUBSET {"CREAT", "TRUNC"} : Open(Root, path, mode)
  <2>1. PICK path \in Paths, mode \in SUBSET {"CREAT", "TRUNC"} : Open(Root, path, mode)
    BY <1>1
  <2>2. ~stale
    <3>1. stale \in BOOLEAN BY DEF TypeOK
    <3> QED BY <2>1, <3>1, StaleStays
  <2>3. Root \in InUse \cup {NULL} BY <2>2 DEF Standing, Booted
  <2> QED BY <2>1, <2>2, <2>3, PathNames, OpenSteady
<1>2. CASE \E f \in Fds : Close(f) BY <1>2, CloseIs DEF Closes, Steady
<1>3. CASE \E f \in Fds, data \in Seq(Nat) : Write(f, data)
  <2>1. PICK f \in Fds, data \in Seq(Nat) : WritesTo(f, data) BY <1>3, WriteIs
  <2> QED BY <2>1 DEF WritesTo, Steady
<1>4. CASE \E f \in Fds, n \in Nat : Read(f, n) BY <1>4, ReadIs DEF Moves, Steady
<1> QED BY <1>1, <1>2, <1>3, <1>4, NextSteady DEF AnyCall

LEMMA CallsKept ==
  ASSUME Core, AnyCall
  PROVE  Core'
<1>1. TypeOK /\ BlocksExclusive /\ ZeroFirst(used) /\ (~stale => Standing /\ Held) BY DEF Core
<1>2. Changes BY <1>1, CallsChanges
<1>3. TypeOK' /\ BlocksExclusive' /\ ZeroFirst(used)' BY <1>1, <1>2, ChangesKept, ZeroStaysFirst
<1>4. ASSUME ~stale' PROVE Standing' /\ Held'
  BY <1>1, <1>4, CallsSteady, SteadyStands, SteadyHeld
<1> QED BY <1>3, <1>4 DEF Core

Busy == stage \in {"read", "write"} \/ (stage = "close" /\ ends.dst # NoFd)

(* The descriptors of cp: both are open, and they are two.                 *)
Ends ==
  /\ stage \in {Idle, "create", "read", "write", "close", "close2"}
  /\ buffer \in Seq(Nat) /\ short \in BOOLEAN
  /\ ends \in [to : Paths \cup {<<>>}, src : Fds \cup {NoFd}, dst : Fds \cup {NoFd}]
  /\ stage \in {"create", "read", "write", "close"} =>
       ends.src \in Fds /\ fd[ends.src].inode # NULL
  /\ stage = "create" => ends.to \in Paths /\ ends.dst = NoFd /\ fd[ends.src].pos = 0
  /\ Busy => ends.dst \in Fds /\ ends.dst # ends.src /\ fd[ends.dst].inode # NULL
  /\ stage = "close2" => ends.dst \in Fds
  /\ kind = "commands" => ~stale
  /\ stage # Idle => kind = "commands"

(* Where cp stands between the files s and t, at p and q: the copy is what *)
(* was read, or it fell short, and then either nothing can be written any  *)
(* more or there are only zeros to copy.                                   *)
Halfway(st, s, t, p, q, buf, cut) ==
  IF s = t THEN content[t] = <<>> /\ q = 0 /\ st # "write"
  ELSE /\ SoFar(st, content[s], content[t], p, q, buf)
       /\ \/ p + Waiting(st, buf) = q
          \/ cut /\ (StuckAt(inode[t].blocks, used, p) \/ Zeroed(content[s]))

Copies ==
  Busy => Halfway(stage, fd[ends.src].inode, fd[ends.dst].inode,
                  fd[ends.dst].pos, fd[ends.src].pos, buffer, short)

LEMMA SameStrings ==
  ASSUME NEW s \in Seq(Nat), NEW t \in Seq(Nat), Len(s) <= Len(t),
         \A o \in 1 .. Len(s) : s[o] = t[o]
  PROVE  Prefix(s, t) /\ (Len(s) = Len(t) => s = t)
<1> PICK m \in Nat, n \in Nat : m = Len(s) /\ n = Len(t) OBVIOUS
<1>1. SubSeq(t, 1, m) \in Seq(Nat) /\ Len(SubSeq(t, 1, m)) = m
      /\ \A o \in 1 .. m : SubSeq(t, 1, m)[o] = t[o]
  <2>1. 1 \in 1 .. n + 1 /\ m \in 1 - 1 .. n OBVIOUS
  <2>2. IF 1 <= m THEN m - 1 + 1 = m ELSE m = 0 OBVIOUS
  <2> QED BY <2>1, <2>2, SubSeqProperties
<1>2. s = SubSeq(t, 1, m) BY <1>1, SeqEqual
<1>3. m = n => s = t BY SeqEqual
<1> QED BY <1>2, <1>3 DEF Prefix

LEMMA CopiesKept ==
  ASSUME TypeOK, Ends, Copies
  PROVE  CopyKept
<1> SUFFICES ASSUME stage = "close", ends.dst # NoFd
             PROVE  LET old == content[fd[ends.src].inode]
                        new == content[fd[ends.dst].inode] IN
                    /\ Prefix(new, old)
                    /\ short \/ new = old
                    /\ fd[ends.src].inode = fd[ends.dst].inode => new = <<>>
  BY DEF CopyKept
<1> PICK s, t, p, q : /\ s = fd[ends.src].inode /\ t = fd[ends.dst].inode
                      /\ p = fd[ends.dst].pos /\ q = fd[ends.src].pos
  OBVIOUS
<1>1. s \in Inodes /\ t \in Inodes /\ p \in Nat /\ q \in Nat
      /\ Halfway("close", s, t, p, q, buffer, short)
  BY DEF Ends, Copies, Busy, TypeOK
<1>2. content[s] \in Seq(Nat) /\ content[t] \in Seq(Nat) BY <1>1 DEF TypeOK
<1>3. CASE s = t
  <2>1. content[t] = <<>> BY <1>1, <1>3 DEF Halfway
  <2>2. Prefix(content[t], content[t]) BY <1>2, SameStrings
  <2> QED BY <1>3, <2>1, <2>2
<1>4. CASE s # t
  <2>1. /\ SoFar("close", content[s], content[t], p, q, buffer)
        /\ p + Waiting("close", buffer) = q \/ short
    BY <1>1, <1>4 DEF Halfway
  <2>2. Waiting("close", buffer) = 0 BY DEF Waiting
  <2> PICK a \in Nat, b \in Nat : a = Len(content[s]) /\ b = Len(content[t]) BY <1>2
  <2>3. /\ b = p /\ q <= a /\ p + 0 <= q /\ q = a
        /\ \A o \in 1 .. p : content[t][o] = content[s][o]
    BY <2>1, <2>2 DEF SoFar
  <2>4. b <= a /\ (p + 0 = q => b = a) BY <1>1, <2>3
  <2>5. Prefix(content[t], content[s]) /\ (b = a => content[t] = content[s])
    <3> PICK old \in Seq(Nat), new \in Seq(Nat) : old = content[s] /\ new = content[t] BY <1>2
    <3>1. Len(new) <= Len(old) /\ \A o \in 1 .. Len(new) : new[o] = old[o] BY <2>3, <2>4
    <3>2. Prefix(new, old) /\ (Len(new) = Len(old) => new = old) BY <3>1, SameStrings
    <3> QED BY <3>2
  <2> QED BY <1>4, <2>1, <2>2, <2>4, <2>5
<1> QED BY <1>3, <1>4
LEMMA CopiesNext ==
  ASSUME NEW s, NEW t, NEW p, NEW q,
         fd'[ends'.src].inode = s, fd'[ends'.dst].inode = t,
         fd'[ends'.dst].pos = p, fd'[ends'.src].pos = q,
         IF s = t THEN content'[t] = <<>> /\ q = 0 /\ stage' # "write"
         ELSE /\ SoFar(stage', content'[s], content'[t], p, q, buffer')
              /\ \/ p + Waiting(stage', buffer') = q
                 \/ short' /\ (StuckAt(inode'[t].blocks, used', p) \/ Zeroed(content'[s]))
  PROVE  Copies'
BY DEF Copies, Halfway

LEMMA OpenInUse ==
  ASSUME TypeOK, Standing, NEW f \in Fds, fd[f].inode # NULL
  PROVE  fd[f].inode \in InUse
<1>1. fd[f].inode \in Inodes /\ f \in OpenOf(fd[f].inode) BY DEF TypeOK, OpenOf
<1> QED BY <1>1 DEF Standing, Refs

LEMMA StartKeeps ==
  ASSUME Core, Ends, stage = Idle, kind = "commands", kind' = kind, CpStart
  PROVE  Ends' /\ Copies'
<1>1. PICK from, to \in Paths :
        /\ Open(Root, from, {}) /\ fd' # fd
        /\ ends' = [to |-> to, src |-> Opened, dst |-> NoFd]
  BY DEF CpStart
<1>2. TypeOK /\ fd \in [Fds -> [inode : Inodes \cup {NULL}, pos : Nat]] BY DEF Core, TypeOK
<1>3. PICK f \in Fds, i \in Inodes : f = Opened /\ fd' = [fd EXCEPT ![f] = [inode |-> i, pos |-> 0]]
  BY <1>1, <1>2, PathNames, RootPlace, OpenedIs
<1>4. fd'[f] = [inode |-> i, pos |-> 0] /\ i # NULL BY <1>2, <1>3, Sizes DEF Inodes, NULL
<1>5. ends'.src = f /\ ends'.to \in Paths /\ ends'.dst = NoFd
      /\ ends' \in [to : Paths \cup {<<>>}, src : Fds \cup {NoFd}, dst : Fds \cup {NoFd}]
  BY <1>1, <1>3
<1>6. stage' = "create" /\ buffer' = buffer /\ short' = short /\ stale' = stale
  BY <1>1 DEF CpStart, Open
<1>7. Ends' BY <1>4, <1>5, <1>6 DEF Ends, Busy, Idle
<1>8. Copies' BY <1>6 DEF Copies, Busy
<1> QED BY <1>7, <1>8

LEMMA CreateKeeps ==
  ASSUME Core, Ends, kind' = kind, CpCreate
  PROVE  Ends' /\ Copies'
<1>1. TypeOK /\ fd \in [Fds -> [inode : Inodes \cup {NULL}, pos : Nat]]
      /\ content \in [Inodes -> Seq(Nat)]
  BY DEF Core, TypeOK
<1> PICK src, s : src = ends.src /\ s = fd[src].inode OBVIOUS
<1>2. /\ src \in Fds /\ s # NULL /\ fd[src].pos = 0 /\ ends.to \in Paths /\ ends.dst = NoFd
      /\ ends \in [to : Paths \cup {<<>>}, src : Fds \cup {NoFd}, dst : Fds \cup {NoFd}]
      /\ kind = "commands" /\ ~stale /\ buffer \in Seq(Nat) /\ short \in BOOLEAN
  BY DEF Ends, CpCreate, Idle
<1>3. s \in Inodes BY <1>1, <1>2
<1>4. stale' = stale /\ buffer' = buffer /\ short' = short BY DEF CpCreate, Open, vars
<1>5. CASE fd' = fd
  <2>1. stage' = "close" /\ ends' = ends BY <1>5 DEF CpCreate
  <2>2. ~Busy' BY <1>2, <2>1 DEF Busy
  <2>3. Ends' BY <1>2, <1>4, <1>5, <2>1, <2>2 DEF Ends, Idle
  <2> QED BY <2>2, <2>3 DEF Copies
<1>6. CASE fd' # fd
  <2>1. Open(Root, ends.to, {"CREAT", "TRUNC"}) BY <1>6 DEF CpCreate, vars
  <2>2. stage' = "read" /\ ends' = [ends EXCEPT !.dst = Opened] BY <1>6 DEF CpCreate
  <2>3. PICK dst \in Fds, t \in Inodes :
          /\ dst = Opened /\ fd[dst].inode = NULL
          /\ fd' = [fd EXCEPT ![dst] = [inode |-> t, pos |-> 0]]
          /\ content' = [content EXCEPT ![t] = <<>>]
    <3> DEFINE mode == {"CREAT", "TRUNC"}
    <3>1. "TRUNC" \in mode /\ "APPEND" \notin mode OBVIOUS
    <3>2. Open(Root, ends.to, mode) BY <2>1
    <3> HIDE DEF mode
    <3>3. ends.to \in Seq(Names) \ {<<>>} BY <1>2, PathNames
    <3>4. /\ Opened \in Fds /\ fd[Opened].inode = NULL
          /\ \E i \in Inodes : /\ fd' = [fd EXCEPT ![Opened] = [inode |-> i, pos |-> 0]]
                               /\ "TRUNC" \in mode => content' = [content EXCEPT ![i] = <<>>]
      BY <1>1, <1>6, <3>1, <3>2, <3>3, RootPlace, OpenedIs
    <3> QED BY <3>1, <3>4
  <2>4. dst # src BY <1>2, <2>3
  <2>5. fd'[dst] = [inode |-> t, pos |-> 0] /\ fd'[src] = fd[src] /\ t # NULL
    BY <1>1, <1>2, <2>3, <2>4, Sizes DEF Inodes, NULL
  <2>6. ends'.src = src /\ ends'.dst = dst
        /\ ends' \in [to : Paths \cup {<<>>}, src : Fds \cup {NoFd}, dst : Fds \cup {NoFd}]
    BY <1>2, <2>2, <2>3
  <2>7. Ends' BY <1>2, <1>4, <2>2, <2>4, <2>5, <2>6 DEF Ends, Busy, Idle
  <2>8. content'[t] = <<>> /\ (s # t => content'[s] = content[s]) BY <1>1, <1>3, <2>3
  <2>9. Waiting("read", buffer') = 0 BY DEF Waiting
  <2>10. ASSUME s # t PROVE SoFar("read", content'[s], content'[t], 0, 0, buffer')
    <3>1. content'[s] \in Seq(Nat) /\ content'[t] = <<>> BY <1>1, <1>3, <2>8, <2>10
    <3> PICK a \in Nat : a = Len(content'[s]) BY <3>1
    <3>2. 0 <= a /\ Len(<<>>) = 0 OBVIOUS
    <3> QED BY <2>9, <3>1, <3>2 DEF SoFar
  <2>11. fd'[src].inode = s /\ fd'[src].pos = 0 /\ fd'[dst].inode = t /\ fd'[dst].pos = 0
    BY <1>2, <2>5
  <2>12. IF s = t THEN content'[t] = <<>> /\ 0 = 0 /\ stage' # "write"
         ELSE /\ SoFar(stage', content'[s], content'[t], 0, 0, buffer')
              /\ \/ 0 + Waiting(stage', buffer') = 0
                 \/ short' /\ (StuckAt(inode'[t].blocks, used', 0) \/ Zeroed(content'[s]))
    BY <2>2, <2>8, <2>9, <2>10
  <2>13. Copies' BY <2>6, <2>11, <2>12, CopiesNext
  <2> QED BY <2>7, <2>13
<1> QED BY <1>5, <1>6
LEMMA ReadKeeps ==
  ASSUME Core, Ends, Copies, kind' = kind, CpRead
  PROVE  Ends' /\ Copies'
<1>1. TypeOK /\ fd \in [Fds -> [inode : Inodes \cup {NULL}, pos : Nat]]
      /\ content \in [Inodes -> Seq(Nat)]
  BY DEF Core, TypeOK
<1> PICK src, dst : src = ends.src /\ dst = ends.dst OBVIOUS
<1>2. /\ src \in Fds /\ dst \in Fds /\ src # dst /\ fd[src].inode # NULL /\ fd[dst].inode # NULL
      /\ ends \in [to : Paths \cup {<<>>}, src : Fds \cup {NoFd}, dst : Fds \cup {NoFd}]
      /\ kind = "commands" /\ ~stale /\ short \in BOOLEAN
  BY DEF Ends, Busy, CpRead, Idle
<1>3. Standing /\ Held BY <1>2 DEF Core
<1>20. PICK s \in InUse, t \in Inodes, p \in Nat, q \in Nat :
         s = fd[src].inode /\ t = fd[dst].inode /\ p = fd[dst].pos /\ q = fd[src].pos
  BY <1>1, <1>2, <1>3, OpenInUse
<1>4. s \in Inodes /\ content[s] \in Seq(Nat) /\ content[t] \in Seq(Nat) BY <1>1 DEF InUse
<1>21. PICK old \in Seq(Nat), new \in Seq(Nat) : old = content[s] /\ new = content[t] BY <1>4
<1>5. Halfway("read", s, t, p, q, buffer, short) BY <1>20 DEF Copies, Busy, CpRead
<1>6. /\ Read(src, BufSize) /\ buffer' = BytesRead(src, BufSize)
      /\ stage' = IF buffer' = <<>> THEN "close" ELSE "write"
      /\ ends' = ends /\ short' = short /\ BufSize \in Nat \ {0}
      /\ inode' = inode /\ used' = used /\ content' = content /\ stale' = stale
  BY BufSizeAssumption DEF CpRead, Read
<1>7. q <= Len(old)
  <2>1. CASE s = t
    <3>1. content[s] = <<>> /\ q = 0 BY <1>5, <2>1 DEF Halfway
    <3> QED BY <1>21, <3>1
  <2>2. CASE s # t BY <1>5, <1>21, <2>2 DEF Halfway, SoFar
  <2> QED BY <2>1, <2>2
<1>8. ReadsFrom(src, BufSize, old, q)
  <2>1. fd[src].inode = s /\ fd[src].pos = q /\ content[s] = old /\ BufSize \in Nat \ {0}
    BY <1>6, <1>20, <1>21
  <2> QED BY <1>1, <1>2, <1>3, <1>6, <1>7, <2>1, ReadGets
<1>16. PICK got \in Nat : Fetched(BytesRead(src, BufSize), old, q, got)
                          /\ fd' = [fd EXCEPT ![src].pos = q + got]
  BY <1>8 DEF ReadsFrom
<1>17. PICK next : next = buffer' OBVIOUS
<1>9. Fetched(next, old, q, got) BY <1>6, <1>16, <1>17
<1>15. next \in Seq(Nat) /\ Len(next) = got /\ q + got <= Len(old)
  BY <1>9, FetchedIs
<1>10. /\ fd'[src].inode = s /\ fd'[src].pos = q + got /\ fd'[dst] = fd[dst]
       /\ fd'[dst].inode = t /\ fd'[dst].pos = p
  <2>1. PICK r : r = q + got OBVIOUS
  <2> QED BY <1>1, <1>2, <1>16, <1>20, <2>1
<1>11. stage' \in {"close", "write"} BY <1>6
<1>12. Ends' BY <1>2, <1>6, <1>10, <1>11, <1>15, <1>17, <1>20 DEF Ends, Busy, Idle
<1>13. CASE s = t
  <2>1. content[t] = <<>> /\ q = 0 BY <1>5, <1>13 DEF Halfway
  <2>2. got = 0
    <3>1. Len(old) = 0 BY <1>13, <1>21, <2>1
    <3> QED BY <1>15, <2>1, <3>1
  <2>3. next = <<>> BY <1>15, <2>2
  <2>4. stage' # "write" /\ q + got = 0 BY <1>6, <1>17, <2>1, <2>2, <2>3
  <2> QED BY <1>6, <1>10, <1>12, <1>13, <2>1, <2>4, CopiesNext
<1>14. CASE s # t
  <2>1. /\ SoFar("read", old, new, p, q, buffer)
        /\ \/ p + Waiting("read", buffer) = q
           \/ short /\ (StuckAt(inode[t].blocks, used, p) \/ Zeroed(content[s]))
    BY <1>5, <1>14, <1>21 DEF Halfway
  <2>2. SoFar(stage', old, new, p, q + got, next) /\ Waiting(stage', next) = got
    <3>1. stage' = IF next = <<>> THEN "close" ELSE "write" BY <1>6, <1>17
    <3> QED BY <1>9, <2>1, <3>1, CopyReads
  <2>3. Waiting("read", buffer) = 0 BY DEF Waiting
  <2>4. \/ p + Waiting(stage', next) = q + got
        \/ short /\ (StuckAt(inode[t].blocks, used, p) \/ Zeroed(content[s]))
    BY <1>4, <2>1, <2>2, <2>3
  <2> QED BY <1>6, <1>10, <1>12, <1>14, <1>17, <1>21, <2>2, <2>4, CopiesNext
<1> QED BY <1>13, <1>14
LEMMA WriteKeeps ==
  ASSUME Core, Ends, Copies, kind' = kind, CpWrite
  PROVE  Ends' /\ Copies'
<1>1. TypeOK /\ BlocksExclusive /\ ZeroFirst(used) /\ content \in [Inodes -> Seq(Nat)]
      /\ fd \in [Fds -> [inode : Inodes \cup {NULL}, pos : Nat]]
  BY DEF Core, TypeOK
<1>2. PICK src, dst : src = ends.src /\ dst = ends.dst OBVIOUS
<1>3. /\ src \in Fds /\ dst \in Fds /\ src # dst /\ fd[src].inode # NULL /\ fd[dst].inode # NULL
      /\ ends \in [to : Paths \cup {<<>>}, src : Fds \cup {NoFd}, dst : Fds \cup {NoFd}]
      /\ kind = "commands" /\ ~stale /\ short \in BOOLEAN /\ buffer \in Seq(Nat)
  BY <1>2 DEF Ends, Busy, CpWrite, Idle
<1>4. Standing /\ Held BY <1>3 DEF Core
<1>5. PICK s \in InUse, t \in InUse, p \in Nat, q \in Nat :
        s = fd[src].inode /\ t = fd[dst].inode /\ p = fd[dst].pos /\ q = fd[src].pos
  BY <1>1, <1>3, <1>4, OpenInUse
<1>6. s \in Inodes /\ t \in Inodes /\ content[s] \in Seq(Nat) /\ content[t] \in Seq(Nat)
  BY <1>1 DEF InUse
<1>7. PICK old \in Seq(Nat), new \in Seq(Nat) : old = content[s] /\ new = content[t] BY <1>6
<1>8. PICK buf \in Seq(Nat), n \in Nat : buf = buffer /\ n = Len(buf) BY <1>3
<1>9. /\ s # t /\ SoFar("write", old, new, p, q, buf)
      /\ p + n = q \/ (short /\ (StuckAt(inode[t].blocks, used, p) \/ Zeroed(old)))
  <2>1. Halfway("write", s, t, p, q, buf, short) BY <1>2, <1>5, <1>8 DEF Copies, Busy, CpWrite
  <2>2. Waiting("write", buf) = n BY <1>8 DEF Waiting
  <2> QED BY <1>7, <2>1, <2>2 DEF Halfway
<1>10. /\ Write(dst, buf) /\ stage' = "read" /\ ends' = ends /\ buffer' = buf
       /\ short' = (short \/ fd'[dst].pos < p + n)
  BY <1>2, <1>5, <1>8 DEF CpWrite
<1>11. PICK w : w = Written(dst, buf) OBVIOUS
<1>12. /\ w \in Turns(buf) /\ inode'[t].blocks = w.blocks /\ used' = w.used
       /\ fd' = [fd EXCEPT ![dst].pos = w.pos] /\ stale' = stale
       /\ content' = [content EXCEPT ![t] = Promised(new, p, buf, w.done)]
  <2>1. WritesTo(dst, buf) BY <1>1, <1>3, <1>10, WriteIs
  <2> QED BY <1>5, <1>6, <1>7, <1>11, <2>1 DEF WritesTo
<1>13. PICK d \in 0 .. Len(buf) : d = w.done /\ w.pos = p + d
  <2>1. Stores(buf, p, inode[t].blocks, w) BY <1>1, <1>3, <1>5, <1>11, WrittenIs
  <2>2. w.done \in 0 .. Len(buf) BY <1>12 DEF Turns
  <2> QED BY <2>1, <2>2 DEF Stores
<1>14. d \in 0 .. n BY <1>8
<1>15. ASSUME StuckAt(inode[t].blocks, used, p)
       PROVE  d = 0 /\ StuckAt(inode'[t].blocks, used', p)
  <2>1. w.done = 0 /\ w.used = used /\ w.blocks = inode[t].blocks
    BY <1>1, <1>3, <1>5, <1>11, <1>15, StuckWrites
  <2> QED BY <1>12, <1>13, <1>15, <2>1
<1>16. d = n \/ StuckAt(inode'[t].blocks, used', p + d) \/ Zeroed(old)
  <2>1. w.done = Len(buf) \/ StopsShort(w) BY <1>1, <1>3, <1>11, WrittenEnds
  <2>2. CASE w.done = Len(buf) BY <1>8, <1>13, <2>2
  <2>3. CASE StuckAt(w.blocks, w.used, w.pos) BY <1>12, <1>13, <2>3
  <2>4. CASE 0 \notin used BY <1>1, <1>4, <1>7, <2>4, OnlyZeros
  <2> QED BY <2>1, <2>2, <2>3, <2>4 DEF StopsShort
<1>17. SoFar("read", old, Promised(new, p, buf, d), p + d, q, buf)
  <2>1. p + Len(buf) = q \/ d = 0 \/ Zeroed(old) BY <1>8, <1>9, <1>15
  <2> QED BY <1>9, <2>1, CopyWrites
<1>18. /\ content'[s] = old /\ content'[t] = Promised(new, p, buf, d)
       /\ fd'[src] = fd[src] /\ fd'[dst].inode = t /\ fd'[dst].pos = p + d
  <2>1. PICK r : r = p + d OBVIOUS
  <2> QED BY <1>1, <1>3, <1>5, <1>6, <1>7, <1>9, <1>12, <1>13, <2>1
<1>19. Waiting("read", buf) = 0 BY DEF Waiting
<1>20. short' \in BOOLEAN /\ (d # n \/ short => short')
  <2>1. d # n => p + d < p + n BY <1>14
  <2>2. d # n => fd'[dst].pos < p + n BY <1>18, <2>1
  <2>3. PICK less \in BOOLEAN : less = (fd'[dst].pos < p + n)
    <3>1. (fd'[dst].pos < p + n) \in BOOLEAN OBVIOUS
    <3> QED BY <3>1, Zenon
  <2>4. short' = (short \/ less) /\ (d # n => less) BY <1>10, <2>2, <2>3
  <2> QED BY <1>3, <2>4
<1>21. \/ p + d + Waiting("read", buf) = q
       \/ short' /\ (StuckAt(inode'[t].blocks, used', p + d) \/ Zeroed(content'[s]))
  <2>1. CASE p + n = q /\ d = n
    <3>1. p + d + 0 = q BY <2>1
    <3> QED BY <1>19, <3>1
  <2>2. CASE p + n = q /\ d # n BY <1>16, <1>18, <1>20, <2>2
  <2>3. CASE short /\ StuckAt(inode[t].blocks, used, p)
    <3>1. p + d = p BY <1>15, <2>3
    <3> QED BY <1>15, <1>20, <2>3, <3>1
  <2>4. CASE short /\ Zeroed(old) BY <1>18, <1>20, <2>4
  <2> QED BY <1>9, <2>1, <2>2, <2>3, <2>4
<1>22. Ends'
  <2>1. stage' = "read" /\ buffer' \in Seq(Nat) /\ stale' = stale BY <1>10, <1>12
  <2> QED BY <1>2, <1>3, <1>5, <1>10, <1>18, <1>20, <2>1 DEF Ends, Busy, Idle
<1>23. Copies'
  <2>1. /\ fd'[ends'.src].inode = s /\ fd'[ends'.dst].inode = t
        /\ fd'[ends'.dst].pos = p + d /\ fd'[ends'.src].pos = q
    BY <1>2, <1>5, <1>10, <1>18
  <2>2. SoFar(stage', content'[s], content'[t], p + d, q, buffer') BY <1>10, <1>17, <1>18
  <2>3. \/ p + d + Waiting(stage', buffer') = q
        \/ short' /\ (StuckAt(inode'[t].blocks, used', p + d) \/ Zeroed(content'[s]))
    BY <1>10, <1>21
  <2> QED BY <1>9, <2>1, <2>2, <2>3, CopiesNext
<1> QED BY <1>22, <1>23

LEMMA CloseKeeps ==
  ASSUME Ends, kind' = kind, CpClose \/ CpClose2
  PROVE  Ends' /\ Copies'
<1>1. stage' \in {Idle, "close2"} /\ stale' = stale BY DEF CpClose, CpClose2, Close
<1>2. ~Busy' BY <1>1 DEF Busy, Idle
<1>3. kind = "commands" /\ ~stale BY DEF Ends, CpClose, CpClose2, Idle
<1>4. ends \in [to : Paths \cup {<<>>}, src : Fds \cup {NoFd}, dst : Fds \cup {NoFd}]
  BY DEF Ends
<1>5. <<>> \in Seq(Nat) OBVIOUS
<1>6. CASE CpClose
  <2>1. buffer' = <<>> /\ short' = FALSE BY <1>6 DEF CpClose
  <2>2. CASE ends.dst = NoFd
    <3>1. ends' = Nobody /\ stage' = Idle BY <1>6, <2>2 DEF CpClose
    <3>2. ends' \in [to : Paths \cup {<<>>}, src : Fds \cup {NoFd}, dst : Fds \cup {NoFd}]
      BY <3>1 DEF Nobody
    <3> QED BY <1>1, <1>2, <1>3, <1>5, <2>1, <3>1, <3>2 DEF Ends, Copies, Idle
  <2>3. CASE ends.dst # NoFd
    <3>1. ends' = [ends EXCEPT !.src = NoFd] /\ stage' = "close2" BY <1>6, <2>3 DEF CpClose
    <3>2. ends' \in [to : Paths \cup {<<>>}, src : Fds \cup {NoFd}, dst : Fds \cup {NoFd}]
          /\ ends'.dst = ends.dst /\ ends.dst \in Fds
      BY <1>4, <2>3, <3>1
    <3> QED BY <1>1, <1>2, <1>3, <1>5, <2>1, <3>1, <3>2 DEF Ends, Copies, Idle
  <2> QED BY <2>2, <2>3
<1>7. CASE CpClose2
  <2>1. stage' = Idle /\ ends' = Nobody /\ buffer' = buffer /\ short' = short BY <1>7 DEF CpClose2
  <2>2. ends' \in [to : Paths \cup {<<>>}, src : Fds \cup {NoFd}, dst : Fds \cup {NoFd}]
    BY <2>1 DEF Nobody
  <2> QED BY <1>1, <1>2, <1>3, <2>1, <2>2 DEF Ends, Copies, Idle
<1> QED BY <1>6, <1>7

(* While no command is under way.                                          *)
LEMMA CallsKeep ==
  ASSUME Ends, stage = Idle, UNCHANGED comvars, kind' = kind,
         kind = "calls" \/ stale' = stale
  PROVE  Ends' /\ Copies'
BY DEF Ends, Copies, Busy, comvars, Idle

(* Every step of the commands is a call, and keeps what cp relies on.      *)
LEMMA CommandCalls ==
  ASSUME Core, Ends, Copies, [FileNext]_filevars
  PROVE  AnyCall /\ Ends' /\ Copies'
<1>1. CASE UNCHANGED filevars
  <2>1. AnyCall BY <1>1 DEF filevars, AnyCall
  <2>2. Ends' BY <1>1 DEF filevars, comvars, vars, Ends, Busy
  <2>3. Copies'
    <3>1. fd' = fd /\ ends' = ends /\ stage' = stage /\ buffer' = buffer /\ short' = short
          /\ content' = content /\ inode' = inode /\ used' = used
      BY <1>1 DEF filevars, comvars, vars
    <3> QED BY <3>1 DEF Copies, Busy, Halfway
  <2> QED BY <2>1, <2>2, <2>3
<1>2. CASE stage = Idle /\ kind = "calls" /\ Next /\ UNCHANGED comvars /\ kind' = kind
  BY <1>2, CallsKeep DEF AnyCall
<1>3. CASE stage = Idle /\ kind = "commands" /\ Saves /\ UNCHANGED comvars /\ kind' = kind
  <2>1. Next BY <1>3 DEF Saves, Next
  <2>2. stale' = stale BY <1>3, ZenonT(30) DEF Saves, Open, Close, Write, Seek
  <2> QED BY <1>3, <2>1, <2>2, CallsKeep DEF AnyCall
<1>4. CASE stage = Idle /\ kind = "commands" /\ CpStart /\ kind' = kind
  <2>1. PICK from \in Paths : Open(Root, from, {}) BY <1>4 DEF CpStart
  <2>2. AnyCall BY <2>1 DEF AnyCall
  <2> QED BY <1>4, <2>2, StartKeeps
<1>5. CASE CpCreate /\ kind' = kind
  <2>1. ends.to \in Paths BY <1>5 DEF CpCreate, Ends
  <2>2. AnyCall BY <1>5, <2>1 DEF CpCreate, AnyCall
  <2> QED BY <1>5, <2>2, CreateKeeps
<1>6. CASE CpRead /\ kind' = kind
  <2>1. ends.src \in Fds /\ BufSize \in Nat BY <1>6, BufSizeAssumption DEF CpRead, Ends
  <2>2. AnyCall BY <1>6, <2>1 DEF CpRead, AnyCall
  <2> QED BY <1>6, <2>2, ReadKeeps
<1>7. CASE CpWrite /\ kind' = kind
  <2>1. ends.dst \in Fds /\ buffer \in Seq(Nat) BY <1>7 DEF CpWrite, Ends, Busy
  <2>2. AnyCall BY <1>7, <2>1 DEF CpWrite, AnyCall
  <2> QED BY <1>7, <2>2, WriteKeeps
<1>8. CASE (CpClose \/ CpClose2) /\ kind' = kind
  <2>1. \E f \in Fds : Close(f) BY <1>8 DEF CpClose, CpClose2, Ends
  <2>2. AnyCall BY <2>1 DEF AnyCall
  <2> QED BY <1>8, <2>2, CloseKeeps
<1> QED BY <1>1, <1>2, <1>3, <1>4, <1>5, <1>6, <1>7, <1>8 DEF FileNext

(* The commands leave the file system sound, and when cp has read the old  *)
(* file to its end the new one is the old one or a beginning of it, even   *)
(* when descriptors, inodes or blocks run out under it.                    *)
THEOREM CopiesStayKept == FileSpec => [](TreeSound /\ BlocksExclusive /\ ContentsKept /\ CopyKept)
<1> DEFINE Inv == Core /\ Ends /\ Copies
<1>1. FileInit => Inv
  <2> SUFFICES ASSUME FileInit PROVE Inv OBVIOUS
  <2>1. Init BY DEF FileInit
  <2>2. ZeroFirst(used) BY <2>1 DEF Init, ZeroFirst
  <2>3. Core BY <2>1, <2>2, InitKept, InitStands, InitHeld DEF Core
  <2>4. ~stale BY <2>1 DEF Init
  <2>5. ends \in [to : Paths \cup {<<>>}, src : Fds \cup {NoFd}, dst : Fds \cup {NoFd}]
    BY DEF FileInit, Nobody
  <2>6. <<>> \in Seq(Nat) OBVIOUS
  <2>7. Ends BY <2>4, <2>5, <2>6 DEF FileInit, Ends, Busy, Idle
  <2>8. Copies BY DEF FileInit, Copies, Busy, Idle
  <2> QED BY <2>3, <2>7, <2>8
<1>2. Inv /\ [FileNext]_filevars => Inv' BY CommandCalls, CallsKept
<1>3. Inv => TreeSound /\ BlocksExclusive /\ ContentsKept /\ CopyKept
  <2> SUFFICES ASSUME Inv PROVE TreeSound /\ BlocksExclusive /\ ContentsKept /\ CopyKept OBVIOUS
  <2>1. TypeOK /\ BlocksExclusive /\ (~stale => Standing /\ Held) BY DEF Core
  <2>2. TreeSound BY <2>1, StandingSound DEF TreeSound, RefCounts, Standing, Refs
  <2>3. ContentsKept BY <2>1, HeldKeeps DEF ContentsKept
  <2>4. CopyKept BY <2>1, CopiesKept
  <2> QED BY <2>1, <2>2, <2>3, <2>4
<1> QED BY <1>1, <1>2, <1>3, PTL DEF FileSpec

-----------------------------------------------------------------------------
(* The text of a path: characters, and the parts between its slashes.      *)
Chars == STRING \cup {"/", Unknown}

Texts == Seq(Chars)

(* A text that get_path may have made: empty, or from a slash on.          *)
Slashed(text) == text = <<>> \/ text[1] = "/"

Split(text) ==
  FoldLeft(LAMBDA done, c :
             IF c = "/" THEN Append(done, <<>>)
             ELSE [done EXCEPT ![Len(done)] = Append(@, c)], <<>>, text)

NextChar(done, c) ==
  IF c = "/" THEN Append(done, <<>>) ELSE [done EXCEPT ![Len(done)] = Append(@, c)]

Splits(w, text) ==
  /\ w \in [0 .. Len(text) -> Seq(Texts)]
  /\ w[0] = <<>>
  /\ \A k \in 1 .. Len(text) : w[k] = NextChar(w[k - 1], text[k])

LEMMA NextCharType ==
  ASSUME NEW done \in Seq(Texts), NEW c \in Chars
  PROVE  NextChar(done, c) \in Seq(Texts)
<1>1. <<>> \in Texts BY DEF Texts
<1>2. CASE c = "/" BY <1>1, <1>2, AppendProperties DEF NextChar
<1>3. CASE c # "/"
  <2> DEFINE m == Len(done)
  <2>1. NextChar(done, c) = [done EXCEPT ![m] = Append(@, c)] BY <1>3 DEF NextChar
  <2>2. CASE m \in DOMAIN done
    <3>1. done[m] \in Texts BY <2>2
    <3>2. Append(done[m], c) \in Texts BY <3>1 DEF Texts
    <3> QED BY <2>1, <2>2, <3>2
  <2>3. CASE m \notin DOMAIN done
    <3>1. done = <<>> /\ DOMAIN done = {}
      <4>1. m \in Nat /\ DOMAIN done = 1 .. m OBVIOUS
      <4> HIDE DEF m
      <4>2. m = 0 BY <2>3, <4>1
      <4> QED BY <4>1, <4>2 DEF m
    <3> PICK x : x = Append(done[m], c) OBVIOUS
    <3>2. NextChar(done, c) = [done EXCEPT ![m] = x] BY <2>1
    <3>3. [done EXCEPT ![m] = x] = [k \in DOMAIN done |-> done[k]] BY <3>1
    <3>4. [k \in DOMAIN done |-> done[k]] \in Seq(Texts) BY <3>1
    <3> QED BY <3>2, <3>3, <3>4
  <2> QED BY <2>2, <2>3
<1> QED BY <1>2, <1>3

LEMMA SplitIs ==
  ASSUME NEW text \in Texts
  PROVE  \E w : Splits(w, text) /\ Split(text) = w[Len(text)]
<1> DEFINE n == Len(text)
           V == Seq(Texts)
           At(it, s) == IF s = {} THEN <<>> ELSE NextChar(it[s \ {Max(s)}], text[Max(s)])
           G == [vk \in V \X (1 .. n) |-> NextChar(vk[1], text[vk[2]])]
           it == CHOOSE it : it = [s \in SUBSET (1 .. n) |-> At(it, s)]
<1>1. n \in Nat /\ DOMAIN text = 1 .. n /\ \A k \in 1 .. n : text[k] \in Chars BY DEF Texts
<1>2. Split(text) = it[1 .. n]
  BY <1>1 DEF Split, NextChar, FoldLeft, MapThenFoldSet
<1>0. <<>> \in V OBVIOUS
<1>3. it = [s \in SUBSET (1 .. n) |-> At(it, s)]
  <2>1. G \in [V \X (1 .. n) -> V] BY <1>1, NextCharType
  <2>2. PICK f \in [SUBSET (1 .. n) -> V] : FoldsBy(f, n, <<>>, G)
    <3> HIDE DEF G, n, it, V
    <3>1. n \in Nat BY <1>1
    <3> QED BY <1>0, <2>1, <3>1, FoldExists, Zenon
  <2>3. ASSUME NEW s \in SUBSET (1 .. n), s # {}
        PROVE  G[<<f[s \ {Max(s)}], Max(s)>>] = NextChar(f[s \ {Max(s)}], text[Max(s)])
    <3>1. s \subseteq 0 .. n OBVIOUS
    <3>2. Max(s) \in s
      <4> HIDE DEF G, n, V
      <4> QED BY <1>1, <2>3, <3>1, GreatestExists
    <3>3. f[s \ {Max(s)}] \in V
      <4>1. s \ {Max(s)} \in SUBSET (1 .. n) OBVIOUS
      <4> QED BY <4>1
    <3> HIDE DEF V
    <3>4. <<f[s \ {Max(s)}], Max(s)>> \in V \X (1 .. n) BY <3>2, <3>3
    <3> QED BY <3>4
  <2> HIDE DEF G, V
  <2>4. f = [s \in SUBSET (1 .. n) |-> At(f, s)] BY <2>2, <2>3 DEF FoldsBy
  <2> QED BY <2>4
<1> HIDE DEF V
<1> DEFINE w == [k \in 0 .. n |-> it[1 .. k]]
           In == {k \in 0 .. n : w[k] \in V}
<1> HIDE DEF it
<1>4. w[0] = <<>>
  <2>1. 1 .. 0 = {} /\ 1 .. 0 \in SUBSET (1 .. n) OBVIOUS
  <2> QED BY <1>1, <1>3, <2>1
<1>5. ASSUME NEW k \in 1 .. n PROVE w[k] = NextChar(w[k - 1], text[k])
  <2>1. 1 .. k \in SUBSET (1 .. n) /\ 1 .. k # {} /\ 1 .. k \subseteq 0 .. k
    <3>1. k \in Nat /\ k \in 1 .. k /\ k \in 1 .. n BY <1>1
    <3>2. \A j \in 1 .. k : j \in 1 .. n /\ j \in 0 .. k BY <1>1, <3>1
    <3> HIDE DEF w, n
    <3> QED BY <3>1, <3>2
  <2>2. Max(1 .. k) \in 1 .. k /\ \A y \in 1 .. k : Max(1 .. k) >= y
    <3>1. k \in Nat BY <1>1
    <3> HIDE DEF w, n
    <3> QED BY <2>1, <3>1, GreatestExists
  <2>3. Max(1 .. k) = k
    <3>1. Max(1 .. k) >= k BY <2>2
    <3> QED BY <2>2, <3>1
  <2>4. (1 .. k) \ {k} = 1 .. k - 1 BY <1>1
  <2>5. it[1 .. k] = NextChar(it[1 .. k - 1], text[k]) BY <1>3, <2>1, <2>3, <2>4
  <2> QED BY <1>1, <2>5
<1> HIDE DEF w
<1>6. 0 .. n \subseteq In
  <2>1. 0 \in In BY <1>0, <1>1, <1>4
  <2>2. ASSUME NEW k \in 0 .. n - 1, k \in In PROVE k + 1 \in In
    <3>1. k + 1 \in 1 .. n /\ (k + 1) - 1 = k BY <1>1
    <3>2. w[k + 1] = NextChar(w[k], text[k + 1]) BY <1>5, <3>1
    <3>3. text[k + 1] \in Chars BY <1>1, <3>1
    <3>4. NextChar(w[k], text[k + 1]) \in V BY <2>2, <3>3, NextCharType DEF V
    <3> QED BY <3>1, <3>2, <3>4
  <2> HIDE DEF In
  <2> QED BY <1>1, <2>1, <2>2, BoundedInduction
<1>7. w \in [0 .. n -> V] /\ w[n] = it[1 .. n]
  <2>1. \A k \in 0 .. n : w[k] \in V BY <1>6
  <2> QED BY <1>1, <2>1 DEF w
<1> QED BY <1>2, <1>4, <1>5, <1>7 DEF Splits, V

(* A name put in front, with its slash, is a part in front.                *)
LEMMA SplitPrepends ==
  ASSUME NEW name \in Texts, \A k \in DOMAIN name : name[k] # "/",
         NEW rest \in Texts, Slashed(rest)
  PROVE  /\ <<"/">> \o name \o rest \in Texts
         /\ Slashed(<<"/">> \o name \o rest)
         /\ Split(rest) \in Seq(Texts)
         /\ Split(<<"/">> \o name \o rest) = <<name>> \o Split(rest)
<1> PICK m \in Nat, n \in Nat : m = Len(name) /\ n = Len(rest) BY DEF Texts
<1> DEFINE text == <<"/">> \o name \o rest
<1>1. /\ text \in Texts /\ Len(text) = m + 1 + n /\ text[1] = "/"
      /\ \A k \in 1 .. m : text[k + 1] = name[k]
      /\ \A k \in 1 .. n : text[k + (m + 1)] = rest[k]
  <2>9. <<"/">> \in Texts BY DEF Texts, Chars
  <2> PICK s \in Texts : s = <<"/">> BY <2>9
  <2>0. s \in Seq(Chars) /\ Len(s) = 1 /\ s[1] = "/" /\ name \in Seq(Chars) /\ rest \in Seq(Chars)
    BY DEF Texts
  <2> PICK t : t = s \o name OBVIOUS
  <2>1. t \in Seq(Chars) /\ Len(t) = 1 + m BY <2>0
  <2>2. \A k \in 1 .. m : t[k + 1] = name[k] BY <2>0, <2>1
  <2>3. t[1] = "/" BY <2>0, <2>1
  <2>4. text = t \o rest OBVIOUS
  <2> HIDE DEF text
  <2>5. text \in Seq(Chars) /\ Len(text) = m + 1 + n BY <2>0, <2>1, <2>4
  <2>6. \A k \in 1 .. m + 1 : text[k] = t[k] BY <2>0, <2>1, <2>4
  <2>7. \A k \in 1 .. n : text[k + (m + 1)] = rest[k] BY <2>0, <2>1, <2>4
  <2>8. ASSUME NEW k \in 1 .. m PROVE text[k + 1] = name[k]
    <3>1. k + 1 \in 1 .. m + 1 OBVIOUS
    <3> QED BY <2>2, <2>6, <3>1
  <2>10. text[1] = "/" BY <2>3, <2>6
  <2> QED BY <2>5, <2>7, <2>8, <2>10 DEF Texts
<1> HIDE DEF text
<1>2. Slashed(text) BY <1>1 DEF Slashed
<1>3. PICK w : Splits(w, text) /\ Split(text) = w[m + 1 + n]
  <2>1. PICK w : Splits(w, text) /\ Split(text) = w[Len(text)] BY <1>1, SplitIs
  <2> QED BY <1>1, <2>1
<1>4. PICK v : Splits(v, rest) /\ Split(rest) = v[n] BY SplitIs
<1>5. \A k \in 0 .. n : v[k] \in Seq(Texts) BY <1>4 DEF Splits
<1> DEFINE A == {k \in 0 .. m : w[k + 1] = <<SubSeq(name, 1, k)>>}
<1>6. 0 .. m \subseteq A
  <2>1. 0 \in A
    <3>1. 0 \in 0 .. m /\ 1 \in 1 .. Len(text) /\ 1 - 1 = 0 /\ 0 + 1 = 1 BY <1>1
    <3>2. w[1] = NextChar(<<>>, "/") BY <1>1, <1>3, <3>1 DEF Splits
    <3>3. NextChar(<<>>, "/") = <<(<<>>)>> BY DEF NextChar
    <3>4. SubSeq(name, 1, 0) = <<>> BY DEF Texts
    <3> QED BY <3>1, <3>2, <3>3, <3>4
  <2>2. ASSUME NEW k \in 0 .. m - 1, k \in A PROVE k + 1 \in A
    <3>1. /\ k + 1 \in 0 .. m /\ k + 1 \in 1 .. m /\ (k + 1) + 1 \in 1 .. m + 1 + n
          /\ ((k + 1) + 1) - 1 = k + 1
      OBVIOUS
    <3>2. w[(k + 1) + 1] = NextChar(w[k + 1], text[(k + 1) + 1]) BY <1>1, <1>3, <3>1 DEF Splits
    <3>3. text[(k + 1) + 1] = name[k + 1] BY <1>1, <3>1
    <3>4. w[k + 1] = <<SubSeq(name, 1, k)>> BY <2>2
    <3>5. name[k + 1] # "/" /\ name[k + 1] \in Chars
      <4>1. k + 1 \in DOMAIN name BY <3>1 DEF Texts
      <4> QED BY <4>1 DEF Texts
    <3>8. SubSeq(name, 1, k) \in Texts
      <4>1. name \in Seq(Chars) /\ k \in Nat /\ k <= Len(name) BY DEF Texts
      <4> QED BY <4>1, SubSeqProperties DEF Texts
    <3> PICK p \in Texts : p = SubSeq(name, 1, k) BY <3>8
    <3> PICK c \in Chars : c = name[k + 1] BY <3>5
    <3>6. NextChar(<<p>>, c) = <<Append(p, c)>> BY <3>5 DEF NextChar
    <3>7. Append(p, c) = SubSeq(name, 1, k + 1)
      <4>1. name \in Seq(Chars) /\ k \in Nat /\ k + 1 <= m BY <3>1 DEF Texts
      <4>2. /\ Len(p) = k /\ Len(Append(p, c)) = k + 1 /\ Append(p, c) \in Seq(Chars)
            /\ Len(SubSeq(name, 1, k + 1)) = k + 1 /\ SubSeq(name, 1, k + 1) \in Seq(Chars)
        BY <4>1 DEF Texts
      <4>3. \A e \in 1 .. k + 1 : Append(p, c)[e] = SubSeq(name, 1, k + 1)[e]
        BY <4>1, <4>2 DEF Texts
      <4> QED BY <4>2, <4>3
    <3> QED BY <3>1, <3>2, <3>3, <3>4, <3>6, <3>7
  <2> HIDE DEF A
  <2> QED BY <2>1, <2>2, BoundedInduction
<1>7. w[m + 1] = <<name>>
  <2>0. m \in 0 .. m OBVIOUS
  <2>1. m \in A
    <3> HIDE DEF A
    <3> QED BY <1>6, <2>0
  <2>2. SubSeq(name, 1, m) = name BY DEF Texts
  <2> QED BY <2>1, <2>2
<1> DEFINE B == {k \in 0 .. n : w[k + (m + 1)] = <<name>> \o v[k] /\ (k # 0 => Len(v[k]) > 0)}
<1>8. 0 .. n \subseteq B
  <2>1. 0 \in B
    <3>1. v[0] = <<>> /\ 0 + (m + 1) = m + 1 BY <1>4 DEF Splits
    <3>2. <<name>> \o <<>> = <<name>> OBVIOUS
    <3>3. w[0 + (m + 1)] = <<name>> \o v[0] /\ 0 \in 0 .. n BY <1>7, <3>1, <3>2
    <3> QED BY <3>3
  <2>2. ASSUME NEW k \in 0 .. n - 1, k \in B PROVE k + 1 \in B
    <3>1. /\ k + 1 \in 0 .. n /\ k + 1 \in 1 .. n /\ k + 1 + (m + 1) \in 1 .. m + 1 + n
          /\ (k + 1 + (m + 1)) - 1 = k + (m + 1) /\ (k + 1) - 1 = k
      OBVIOUS
    <3>2. w[k + 1 + (m + 1)] = NextChar(w[k + (m + 1)], text[k + 1 + (m + 1)])
      BY <1>1, <1>3, <3>1 DEF Splits
    <3>3. text[k + 1 + (m + 1)] = rest[k + 1] BY <1>1, <3>1
    <3>4. v[k + 1] = NextChar(v[k], rest[k + 1]) BY <1>4, <3>1 DEF Splits
    <3>5. w[k + (m + 1)] = <<name>> \o v[k] /\ (k # 0 => Len(v[k]) > 0) BY <2>2
    <3>6. k = 0 => rest[k + 1] = "/"
      <4>1. k = 0 => rest # <<>> BY DEF Texts
      <4> QED BY <4>1 DEF Slashed
    <3>0. rest[k + 1] \in Chars
      <4>1. k + 1 \in DOMAIN rest BY <3>1 DEF Texts
      <4> QED BY <4>1 DEF Texts
    <3> PICK d \in Seq(Texts), c \in Chars : d = v[k] /\ c = rest[k + 1] BY <1>5, <3>0
    <3>7. CASE c = "/"
      <4>1. NextChar(<<name>> \o d, c) = <<name>> \o NextChar(d, c) /\ Len(NextChar(d, c)) > 0
        BY <3>7 DEF NextChar, Texts
      <4> QED BY <3>1, <3>2, <3>3, <3>4, <3>5, <4>1
    <3>8. CASE c # "/"
      <4> PICK l \in Nat : l = Len(d) /\ l > 0 BY <3>5, <3>6, <3>8
      <4> DEFINE e == [d EXCEPT ![l] = Append(@, c)]
      <4>1. NextChar(d, c) = e BY <3>8 DEF NextChar
      <4>3. e \in Seq(Texts) /\ Len(e) = l
        <5>1. d[l] \in Texts OBVIOUS
        <5>2. Append(d[l], c) \in Texts BY <5>1 DEF Texts
        <5> QED BY <5>2
      <4> DEFINE f == <<name>> \o d
      <4>4. f \in Seq(Texts) /\ Len(f) = l + 1 /\ f[l + 1] = d[l] OBVIOUS
      <4>5. NextChar(f, c) = [f EXCEPT ![l + 1] = Append(d[l], c)] BY <3>8, <4>4 DEF NextChar
      <4>6. NextChar(f, c) = <<name>> \o e
        <5> DEFINE g == [f EXCEPT ![l + 1] = Append(d[l], c)]
                   h == <<name>> \o e
        <5>1. Append(d[l], c) = e[l] /\ e[l] \in Texts BY <4>3
        <5>2. g \in Seq(Texts) /\ Len(g) = l + 1
          <6> HIDE DEF e, f
          <6> QED BY <4>4, <5>1
        <5>3. h \in Seq(Texts) /\ Len(h) = l + 1
          <6> HIDE DEF e
          <6> QED BY <4>3
        <5>4. ASSUME NEW j \in 1 .. l + 1 PROVE g[j] = h[j]
          <6>1. CASE j = 1
            <7>1. f[1] = name OBVIOUS
            <7>2. h[1] = name
              <8> HIDE DEF e
              <8> QED BY <4>3
            <7>3. g[1] = f[1]
              <8> HIDE DEF e, f
              <8> QED BY <4>4
            <7> QED BY <6>1, <7>1, <7>2, <7>3
          <6>2. CASE j # 1
            <7>1. j - 1 \in 1 .. l BY <6>2
            <7>2. f[j] = d[j - 1] BY <6>2, <7>1
            <7>3. h[j] = e[j - 1]
              <8> HIDE DEF e
              <8> QED BY <4>3, <6>2, <7>1
            <7>4. CASE j = l + 1
              <8>1. g[j] = Append(d[l], c) /\ j - 1 = l
                <9>1. j \in DOMAIN f /\ j - 1 = l
                  <10> HIDE DEF e, f
                  <10> QED BY <4>4, <7>4
                <9> PICK x : x = Append(d[l], c) OBVIOUS
                <9>2. g[j] = x
                  <10> HIDE DEF e, f
                  <10> QED BY <7>4, <9>1
                <9> QED BY <9>1, <9>2
              <8> QED BY <5>1, <7>3, <8>1
            <7>5. CASE j # l + 1
              <8>1. g[j] = f[j]
                <9> HIDE DEF e, f
                <9> QED BY <4>4, <7>5
              <8>2. e[j - 1] = d[j - 1] BY <7>1, <7>5
              <8> QED BY <7>2, <7>3, <8>1, <8>2
            <7> QED BY <7>4, <7>5
          <6> QED BY <6>1, <6>2
        <5> HIDE DEF g, h
        <5>5. g = h BY <5>2, <5>3, <5>4, SMTT(30)
        <5> QED BY <4>5, <5>5 DEF g, h
      <4> QED BY <3>1, <3>2, <3>3, <3>4, <3>5, <4>1, <4>3, <4>6
    <3> QED BY <3>7, <3>8
  <2> HIDE DEF B
  <2> QED BY <2>1, <2>2, BoundedInduction
<1>9. Split(text) = <<name>> \o Split(rest)
  <2>0. n \in 0 .. n /\ n + (m + 1) = m + 1 + n OBVIOUS
  <2>1. n \in B
    <3> HIDE DEF B
    <3> QED BY <1>8, <2>0
  <2> QED BY <1>3, <1>4, <2>0, <2>1
<1>10. Split(rest) \in Seq(Texts) BY <1>4, <1>5
<1> QED BY <1>1, <1>2, <1>9, <1>10 DEF text

LEMMA ComponentsAre ==
  ASSUME NEW text
  PROVE  Components(text) = [k \in DOMAIN Split(text) |-> NameOf(Split(text)[k])]
BY DEF Components, Split

Spellings == DOMAIN Spelling

(* The characters of a name say which it is.                               *)
LEMMA NameIs ==
  ASSUME NEW n \in Spellings
  PROVE  /\ NameOf(Spelling[n]) = n
         /\ Spelling[n] \in Texts /\ \A k \in DOMAIN Spelling[n] : Spelling[n][k] # "/"
<1>1. \A m \in DOMAIN Spelling : Spelling[m] = Spelling[n] => m = n
  BY SpellingAssumption DEF Spellings
<1>2. NameOf(Spelling[n]) = n BY <1>1 DEF NameOf, Spellings
<1>3. Spelling[n] \in Seq(STRING \ {"/"}) BY SpellingAssumption DEF Spellings
<1>4. ASSUME NEW k \in DOMAIN Spelling[n] PROVE Spelling[n][k] \in STRING \ {"/"}
  BY <1>3
<1>5. Spelling[n] \in Seq(Chars) BY <1>3, <1>4 DEF Chars
<1> QED BY <1>2, <1>4, <1>5 DEF Texts

LEMMA ComponentsPrepend ==
  ASSUME NEW n \in Spellings, NEW rest \in Texts, Slashed(rest)
  PROVE  /\ <<"/">> \o Spelling[n] \o rest \in Texts
         /\ Slashed(<<"/">> \o Spelling[n] \o rest)
         /\ Components(<<"/">> \o Spelling[n] \o rest) = <<n>> \o Components(rest)
<1> PICK name \in Texts : name = Spelling[n] BY NameIs
<1> PICK text : text = <<"/">> \o Spelling[n] \o rest OBVIOUS
<1>1. /\ text \in Texts /\ Slashed(text) /\ Split(rest) \in Seq(Texts)
      /\ Split(text) = <<name>> \o Split(rest)
  BY NameIs, SplitPrepends
<1>0. <<name>> \o Split(rest) \in Seq(Texts) BY <1>1
<1> PICK s \in Seq(Texts), t \in Seq(Texts) : s = Split(rest) /\ t = Split(text) BY <1>0, <1>1
<1> DEFINE c == [k \in DOMAIN s |-> NameOf(s[k])]
           d == [k \in DOMAIN t |-> NameOf(t[k])]
           N == {NameOf(x) : x \in Texts}
<1>2. Components(rest) = c /\ Components(text) = d BY ComponentsAre
<1>3. t = <<name>> \o s /\ t \in Seq(Texts) /\ Len(t) = Len(s) + 1 BY <1>1
<1>4. c \in Seq(N) /\ d \in Seq(N) /\ Len(c) = Len(s) /\ Len(d) = Len(s) + 1
  <2>1. \A k \in DOMAIN s : c[k] \in N OBVIOUS
  <2>2. \A k \in DOMAIN t : d[k] \in N BY <1>3
  <2> QED BY <1>3, <2>1, <2>2, SMTT(30)
<1>5. n \in N BY NameIs
<1> DEFINE e == <<n>> \o c
<1>6. e \in Seq(N) /\ Len(e) = Len(s) + 1
  <2> HIDE DEF c, N
  <2> QED BY <1>4, <1>5
<1>7. ASSUME NEW k \in 1 .. Len(s) + 1 PROVE d[k] = e[k]
  <2>1. k \in DOMAIN t BY <1>3
  <2>2. CASE k = 1
    <3>1. t[1] = name BY <1>3
    <3>2. e[1] = n
      <4> HIDE DEF c, N
      <4> QED BY <1>4, <1>5
    <3> QED BY <2>1, <2>2, <3>1, <3>2, NameIs
  <2>3. CASE k # 1
    <3>1. k - 1 \in DOMAIN s /\ k - 1 \in 1 .. Len(s) BY <2>3
    <3>2. t[k] = s[k - 1] BY <1>3, <2>3, <3>1
    <3>3. e[k] = c[k - 1]
      <4> HIDE DEF c, N
      <4> QED BY <1>4, <1>5, <2>3, <3>1
    <3> QED BY <2>1, <3>1, <3>2, <3>3
  <2> QED BY <2>2, <2>3
<1> HIDE DEF d, e, c, N
<1>8. d = e BY <1>4, <1>6, <1>7
<1> QED BY <1>1, <1>2, <1>8 DEF e

LEMMA NoComponents ==
  <<>> \in Texts /\ Slashed(<<>>) /\ Components(<<>>) = <<>>
<1>1. <<>> \in Texts /\ Slashed(<<>>) /\ Len(<<>>) = 0 BY DEF Texts, Slashed
<1>2. Split(<<>>) = <<>> BY <1>1, SplitIs DEF Splits
<1> QED BY <1>1, <1>2, ComponentsAre

-----------------------------------------------------------------------------
(* Paths from an inode on, and where ".." and the names lead to.           *)
LEMMA ResolveNothing ==
  ASSUME TypeOK, NEW begin \in Places
  PROVE  Resolve(begin, <<>>) = begin
<1>1. <<>> \in Seq(Names) /\ Len(<<>>) = 0 OBVIOUS
<1>2. PICK w : Walks(w, begin, <<>>) /\ Resolve(begin, <<>>) = w[Len(<<>>)]
  BY <1>1, ResolveWalks
<1> QED BY <1>1, <1>2 DEF Walks

LEMMA ResolveHead ==
  ASSUME TypeOK, NEW begin \in Places, NEW P, NEW c \in P, NEW path \in Seq(P)
  PROVE  Resolve(begin, <<c>> \o path) = Resolve(Lookup(begin, c), path)
<1> PICK n \in Nat : n = Len(path) OBVIOUS
<1> PICK long : long = <<c>> \o path OBVIOUS
<1>1. long \in Seq(P) /\ Len(long) = n + 1 OBVIOUS
<1>2. long[1] = c /\ \A k \in 1 .. n : long[k + 1] = path[k]
  <2>1. DOMAIN path = 1 .. n OBVIOUS
  <2> QED BY <2>1, InsertIs
<1>3. Lookup(begin, c) \in Places BY LookupType
<1>4. PICK w : Walks(w, begin, long) /\ Resolve(begin, long) = w[n + 1] BY <1>1, ResolveWalks
<1>5. PICK v : Walks(v, Lookup(begin, c), path) /\ Resolve(Lookup(begin, c), path) = v[n]
  BY <1>3, ResolveWalks
<1> DEFINE S == {k \in 0 .. n : w[k + 1] = v[k]}
<1>6. 0 .. n \subseteq S
  <2>1. 0 \in S
    <3>1. 1 \in 1 .. Len(long) /\ 0 + 1 = 1 /\ 1 - 1 = 0 BY <1>1
    <3>2. w[1] = Lookup(w[0], long[1]) BY <1>4, <3>1 DEF Walks
    <3> QED BY <1>2, <1>4, <1>5, <3>1, <3>2 DEF Walks
  <2>2. ASSUME NEW k \in 0 .. n - 1, k \in S PROVE k + 1 \in S
    <3>1. /\ k + 1 \in 0 .. n /\ k + 1 \in 1 .. n /\ (k + 1) + 1 \in 1 .. n + 1
          /\ ((k + 1) + 1) - 1 = k + 1 /\ (k + 1) - 1 = k
      OBVIOUS
    <3>2. w[(k + 1) + 1] = Lookup(w[k + 1], long[(k + 1) + 1]) BY <1>1, <1>4, <3>1 DEF Walks
    <3>3. v[k + 1] = Lookup(v[k], path[k + 1]) BY <1>5, <3>1 DEF Walks
    <3> QED BY <1>2, <2>2, <3>1, <3>2, <3>3
  <2> HIDE DEF S
  <2> QED BY <2>1, <2>2, BoundedInduction
<1>7. w[n + 1] = v[n] BY <1>6
<1> QED BY <1>4, <1>5, <1>7

Dots == {NoName, ".", ".."}

(* The inodes that paths lead to.  The others have one of the names that   *)
(* paths use for something else; nothing is ever made in them.             *)
Proper == {i \in InUse : i = Root \/ inode[i].name \notin Dots}

Leaves == \A i \in InUse \ {Root} : inode[i].name \in Dots => inode[i].children = <<>>

Spelt == \A i \in InUse \ {Root} : inode[i].name \in Spellings

Tree == TypeOK /\ Standing /\ Spelt /\ Leaves

(* What an inode in use is to its parent.                                  *)
LEMMA ParentIs ==
  ASSUME Tree, NEW d \in InUse \ {Root}
  PROVE  /\ inode[d].parent \in Proper /\ inode[inode[d].parent].type = "dir"
         /\ inode[inode[d].parent].children # <<>>
         /\ inode[d].name \notin Dots => Lookup(inode[d].parent, inode[d].name) = d
<1> PICK p : p = inode[d].parent OBVIOUS
<1>1. /\ p \in InUse /\ p \in Inodes /\ inode[p].type = "dir"
      /\ \E k \in DOMAIN inode[p].children : inode[p].children[k] = d
  BY DEF Tree, Standing, Listed, InUse
<1>2. inode[p].children # <<>>
  <2>1. DOMAIN <<>> = {} OBVIOUS
  <2> QED BY <1>1, <2>1
<1>3. p \in Proper BY <1>1, <1>2 DEF Tree, Leaves, Proper
<1>4. ASSUME inode[d].name \notin Dots PROVE Lookup(p, inode[d].name) = d
  <2>1. p # NULL BY <1>1, Sizes DEF Inodes, NULL
  <2>2. Lookup(p, inode[d].name) = FindChild(p, inode[d].name)
    BY <1>4, <2>1 DEF Lookup, Dots, NoName
  <2>3. FindChild(p, inode[d].name) = d
    <3>1. PICK k \in DOMAIN inode[p].children : inode[p].children[k] = d BY <1>1
    <3>2. PICK l \in DOMAIN inode[p].children :
            /\ FindChild(p, inode[d].name) = inode[p].children[l]
            /\ inode[inode[p].children[l]].name = inode[d].name
      BY <1>1, <3>1, FindChildIs DEF Tree
    <3>3. k = l BY <1>1, <3>1, <3>2 DEF Tree, Standing, Distinct
    <3> QED BY <3>1, <3>2, <3>3
  <2> QED BY <2>2, <2>3
<1> QED BY <1>1, <1>2, <1>3, <1>4

LEMMA ResolveProper ==
  ASSUME Tree, NEW begin \in Proper \cup {NULL}, NEW P, NEW path \in Seq(P)
  PROVE  Resolve(begin, path) \in Proper \cup {NULL}
<1>0. TypeOK /\ Standing BY DEF Tree
<1>1. Proper \subseteq InUse /\ InUse \subseteq Inodes /\ Proper \cup {NULL} \subseteq Places
  BY DEF Proper, InUse, Places
<1>2. PICK w : Walks(w, begin, path) /\ Resolve(begin, path) = w[Len(path)]
  BY <1>0, <1>1, ResolveWalks
<1>3. ASSUME NEW d \in Proper \cup {NULL}, NEW component
      PROVE  Lookup(d, component) \in Proper \cup {NULL}
  <2>1. CASE d = NULL BY <2>1 DEF Lookup
  <2>2. CASE d # NULL
    <3>1. d \in InUse /\ d \in Inodes BY <1>1, <2>2
    <3>2. inode[d].parent \in Proper
      <4>1. CASE d = Root BY <1>0, <4>1 DEF Standing, Booted, Proper
      <4>2. CASE d # Root BY <3>1, <4>2, ParentIs
      <4> QED BY <4>1, <4>2
    <3>3. component \notin Dots => FindChild(d, component) \in Proper \cup {NULL}
      <4> SUFFICES ASSUME component \notin Dots, FindChild(d, component) # NULL
                   PROVE  FindChild(d, component) \in Proper
        OBVIOUS
      <4>1. PICK k \in DOMAIN inode[d].children :
              /\ FindChild(d, component) = inode[d].children[k]
              /\ inode[inode[d].children[k]].name = component
        BY <1>0, <3>1, FindChildIs
      <4>2. inode[d].children[k] \in InUse BY <1>0, <3>1 DEF Standing, Once
      <4> QED BY <4>1, <4>2 DEF Proper
    <3> QED BY <2>2, <3>2, <3>3 DEF Lookup, Dots, NoName
  <2> QED BY <2>1, <2>2
<1> DEFINE n == Len(path)
           S == {k \in 0 .. n : w[k] \in Proper \cup {NULL}}
<1>4. 0 .. n \subseteq S
  <2>1. n \in Nat /\ 0 \in S BY <1>2 DEF Walks
  <2>2. ASSUME NEW k \in 0 .. n - 1, k \in S PROVE k + 1 \in S
    <3>1. k + 1 \in 1 .. n /\ (k + 1) - 1 = k /\ k + 1 \in 0 .. n BY <2>1
    <3>2. w[k + 1] = Lookup(w[k], path[k + 1]) BY <1>2, <3>1 DEF Walks
    <3>3. w[k + 1] \in Proper \cup {NULL} BY <1>3, <2>2, <3>2
    <3> QED BY <3>1, <3>3
  <2> HIDE DEF S, n
  <2> QED BY <2>1, <2>2, BoundedInduction
<1>5. n \in 0 .. n OBVIOUS
<1> QED BY <1>2, <1>4, <1>5

-----------------------------------------------------------------------------
(* get_path, one name after the other.                                     *)
ClimbOne(done) ==
  IF done.node = Root \/ done.text = Junk THEN done
  ELSE LET name == Spelling[inode[done.node].name] IN
       IF MaxPath - 1 - Len(done.text) - Len(name) < 1
       THEN [done EXCEPT !.text = Junk]
       ELSE [node |-> inode[done.node].parent, text |-> <<"/">> \o name \o done.text]

Climbers == [node : InUse, text : Texts]

Climbed(i) ==
  FoldLeft(LAMBDA done, turn : ClimbOne(done), [node |-> i, text |-> <<>>],
           [n \in 1 .. MaxFiles |-> n])

LEMMA PathTextClimbs ==
  ASSUME NEW i
  PROVE  PathText(i) = IF Climbed(i).text = <<>> THEN <<"/">> ELSE Climbed(i).text
BY DEF PathText, Climbed, ClimbOne

Climbs(w, i) ==
  /\ w \in [0 .. MaxFiles -> Climbers]
  /\ w[0] = [node |-> i, text |-> <<>>]
  /\ \A k \in 1 .. MaxFiles : w[k] = ClimbOne(w[k - 1])

(* The text that a climb has made.                                         *)
TextOf(w) == IF w[MaxFiles].text = <<>> THEN <<"/">> ELSE w[MaxFiles].text

LEMMA ClimbType ==
  ASSUME Tree, NEW done \in Climbers
  PROVE  ClimbOne(done) \in Climbers
<1>1. done.node \in InUse /\ done.text \in Texts BY DEF Climbers
<1>2. Junk \in Texts BY DEF Junk, Texts, Chars
<1>3. CASE done.node = Root \/ done.text = Junk BY <1>3 DEF ClimbOne
<1>4. CASE ~(done.node = Root \/ done.text = Junk)
  <2> DEFINE name == Spelling[inode[done.node].name]
  <2>1. name \in Texts BY <1>1, <1>4, NameIs DEF Tree, Spelt
  <2>2. inode[done.node].parent \in InUse BY <1>1, <1>4, ParentIs DEF Proper
  <2>3. <<"/">> \in Texts BY DEF Texts, Chars
  <2> HIDE DEF name
  <2>4. <<"/">> \o name \o done.text \in Texts BY <1>1, <2>1, <2>3 DEF Texts
  <2>5. [node |-> inode[done.node].parent, text |-> <<"/">> \o name \o done.text] \in Climbers
    BY <2>2, <2>4 DEF Climbers
  <2>6. [done EXCEPT !.text = Junk] \in Climbers BY <1>2 DEF Climbers
  <2> QED BY <1>4, <2>5, <2>6 DEF ClimbOne, name
<1> QED BY <1>3, <1>4

LEMMA PathTextIs ==
  ASSUME Tree, NEW i \in InUse
  PROVE  \E w : Climbs(w, i) /\ PathText(i) = TextOf(w)
<1> DEFINE n == MaxFiles
           base == [node |-> i, text |-> <<>>]
           turns == [k \in 1 .. n |-> k]
           At(it, s) == IF s = {} THEN base ELSE ClimbOne(it[s \ {Max(s)}])
           G == [vk \in Climbers \X (1 .. n) |-> ClimbOne(vk[1])]
           it == CHOOSE it : it = [s \in SUBSET (1 .. n) |-> At(it, s)]
           final == it[1 .. n].text
<1>1. n \in Nat /\ DOMAIN turns = 1 .. n BY Sizes
<1>2. PathText(i) = IF final = <<>> THEN <<"/">> ELSE final
  <2>1. Climbed(i) = it[1 .. n] BY <1>1 DEF Climbed, FoldLeft, MapThenFoldSet
  <2> HIDE DEF it
  <2> QED BY <2>1, PathTextClimbs
<1>0. base \in Climbers
  <2>1. <<>> \in Texts BY DEF Texts
  <2> QED BY <2>1 DEF Climbers
<1> HIDE DEF turns, base
<1>3. it = [s \in SUBSET (1 .. n) |-> At(it, s)]
  <2>1. G \in [Climbers \X (1 .. n) -> Climbers] BY ClimbType
  <2>2. PICK f \in [SUBSET (1 .. n) -> Climbers] : FoldsBy(f, n, base, G)
    <3> HIDE DEF G, n, it
    <3> QED BY <1>0, <1>1, <2>1, FoldExists, Zenon
  <2>3. ASSUME NEW s \in SUBSET (1 .. n), s # {}
        PROVE  G[<<f[s \ {Max(s)}], Max(s)>>] = ClimbOne(f[s \ {Max(s)}])
    <3>1. s \subseteq 0 .. n OBVIOUS
    <3>2. Max(s) \in s
      <4> HIDE DEF G, n
      <4> QED BY <1>1, <2>3, <3>1, GreatestExists
    <3>3. f[s \ {Max(s)}] \in Climbers
      <4>1. s \ {Max(s)} \in SUBSET (1 .. n) OBVIOUS
      <4> QED BY <4>1
    <3>4. <<f[s \ {Max(s)}], Max(s)>> \in Climbers \X (1 .. n) BY <3>2, <3>3
    <3> QED BY <3>4
  <2> HIDE DEF G
  <2>4. f = [s \in SUBSET (1 .. n) |-> At(f, s)] BY <2>2, <2>3 DEF FoldsBy
  <2> QED BY <2>4
<1> DEFINE w == [k \in 0 .. n |-> it[1 .. k]]
           In == {k \in 0 .. n : w[k] \in Climbers}
<1> HIDE DEF it
<1>4. w[0] = base
  <2>1. 1 .. 0 = {} /\ 1 .. 0 \in SUBSET (1 .. n) OBVIOUS
  <2> QED BY <1>1, <1>3, <2>1
<1>5. ASSUME NEW k \in 1 .. n PROVE w[k] = ClimbOne(w[k - 1])
  <2>1. 1 .. k \in SUBSET (1 .. n) /\ 1 .. k # {} /\ 1 .. k \subseteq 0 .. k
    <3>1. k \in Nat /\ k \in 1 .. k /\ k \in 1 .. n BY <1>1
    <3>2. \A j \in 1 .. k : j \in 1 .. n /\ j \in 0 .. k BY <1>1, <3>1
    <3> HIDE DEF w, n
    <3> QED BY <3>1, <3>2
  <2>2. Max(1 .. k) \in 1 .. k /\ \A y \in 1 .. k : Max(1 .. k) >= y
    <3>1. k \in Nat BY <1>1
    <3> HIDE DEF w, n
    <3> QED BY <2>1, <3>1, GreatestExists
  <2>3. Max(1 .. k) = k
    <3>1. Max(1 .. k) >= k BY <2>2
    <3> QED BY <2>2, <3>1
  <2>4. (1 .. k) \ {k} = 1 .. k - 1 BY <1>1
  <2>5. it[1 .. k] = ClimbOne(it[1 .. k - 1]) BY <1>3, <2>1, <2>3, <2>4
  <2> QED BY <1>1, <2>5
<1> HIDE DEF w
<1>6. 0 .. n \subseteq In
  <2>1. 0 \in In BY <1>0, <1>1, <1>4
  <2>2. ASSUME NEW k \in 0 .. n - 1, k \in In PROVE k + 1 \in In
    <3>1. k + 1 \in 1 .. n /\ (k + 1) - 1 = k BY <1>1
    <3>2. w[k + 1] = ClimbOne(w[k]) BY <1>5, <3>1
    <3> QED BY <2>2, <3>1, <3>2, ClimbType
  <2> HIDE DEF In
  <2> QED BY <1>1, <2>1, <2>2, BoundedInduction
<1>7. w \in [0 .. n -> Climbers] /\ w[n] = it[1 .. n]
  <2>1. \A k \in 0 .. n : w[k] \in Climbers BY <1>6
  <2> QED BY <1>1, <2>1 DEF w
<1>8. Climbs(w, i) BY <1>4, <1>5, <1>7 DEF Climbs, base
<1> QED BY <1>2, <1>7, <1>8 DEF TextOf

TextsClimbed == Tree => \A i \in InUse : \E w : Climbs(w, i) /\ PathText(i) = TextOf(w)

LEMMA PathTextIsNext ==
  TextsClimbed'
<1>1. TextsClimbed BY PathTextIs DEF TextsClimbed
<1> QED BY <1>1, PTL

(* The path of an inode stays as long as those above it keep their names   *)
(* and parents.                                                            *)
LEMMA PathTextKept ==
  ASSUME Tree, Tree', NEW S, S \subseteq InUse \cap InUse', NEW i \in S,
         \A j \in S \ {Root} : /\ inode[j].parent \in S /\ inode'[j].parent = inode[j].parent
                               /\ inode'[j].name = inode[j].name
  PROVE  PathText(i)' = PathText(i)
<1>1. PICK w : Climbs(w, i) /\ PathText(i) = TextOf(w) BY PathTextIs
<1>2. PICK v : Climbs(v, i)' /\ PathText(i)' = TextOf(v)
  BY PathTextIsNext DEF TextsClimbed, TextOf
<1>3. ASSUME NEW done \in Climbers, done.node \in S
      PROVE  ClimbOne(done)' = ClimbOne(done) /\ ClimbOne(done).node \in S
  <2>1. done.node = Root \/ (inode'[done.node].parent = inode[done.node].parent
                             /\ inode'[done.node].name = inode[done.node].name
                             /\ inode[done.node].parent \in S)
    BY <1>3
  <2>2. [done EXCEPT !.text = Junk].node = done.node BY DEF Climbers
  <2> QED BY <1>3, <2>1, <2>2 DEF ClimbOne
<1> DEFINE A == {k \in 0 .. MaxFiles : w[k] = v[k] /\ w[k] \in Climbers /\ w[k].node \in S}
<1>4. 0 .. MaxFiles \subseteq A
  <2>1. MaxFiles \in Nat BY Sizes
  <2>2. 0 \in A BY <1>1, <1>2, <2>1 DEF Climbs
  <2>3. ASSUME NEW k \in 0 .. MaxFiles - 1, k \in A PROVE k + 1 \in A
    <3>1. k + 1 \in 1 .. MaxFiles /\ k + 1 \in 0 .. MaxFiles /\ (k + 1) - 1 = k BY <2>1
    <3>2. w[k + 1] = ClimbOne(w[k]) /\ w[k + 1] \in Climbers BY <1>1, <3>1 DEF Climbs
    <3>3. v[k + 1] = ClimbOne(v[k])'
      <4>1. v[k + 1] = ClimbOne(v[(k + 1) - 1])' BY <1>2, <3>1 DEF Climbs
      <4> QED BY <3>1, <4>1
    <3>4. ClimbOne(w[k])' = ClimbOne(w[k]) /\ ClimbOne(w[k]).node \in S
      <4> PICK done \in Climbers : done = w[k] /\ done.node \in S BY <2>3
      <4>1. ClimbOne(done)' = ClimbOne(done) /\ ClimbOne(done).node \in S BY <1>3
      <4> QED BY <4>1
    <3>5. w[k] = v[k] BY <2>3
    <3> QED BY <3>1, <3>2, <3>3, <3>4, <3>5
  <2> HIDE DEF A
  <2> QED BY <2>1, <2>2, <2>3, BoundedInduction
<1>5. w[MaxFiles] = v[MaxFiles] BY <1>4, Sizes
<1> QED BY <1>1, <1>2, <1>5 DEF TextOf

(* A path that fits leads back from the root.                              *)
LEMMA PathTextLeads ==
  ASSUME Tree, NEW i \in Proper, PathText(i) # Junk
  PROVE  /\ PathText(i) \in Texts /\ PathText(i)[1] = "/"
         /\ Resolve(Root, Components(PathText(i))) = i
<1>0. /\ TypeOK /\ Standing /\ i \in InUse /\ i \in Inodes /\ InUse \subseteq Places
      /\ MaxFiles \in Nat
  BY Sizes DEF Tree, Proper, InUse, Places
<1>1. PICK w : Climbs(w, i) /\ PathText(i) = TextOf(w) BY <1>0, PathTextIs
<1>2. \A k \in 0 .. MaxFiles : w[k] \in Climbers BY <1>1 DEF Climbs
<1> DEFINE Leads(done) ==
             /\ done.node \in Proper /\ Slashed(done.text)
             /\ Components(done.text) \in Seq(Spellings)
             /\ Resolve(done.node, Components(done.text)) = i
           A == {k \in 0 .. MaxFiles : w[k].text # Junk => Leads(w[k])}
           B == {k \in 0 .. MaxFiles : w[k].text # Junk => w[k].node \in Up[MaxFiles - k]}
<1>3. 0 .. MaxFiles \subseteq A
  <2>1. 0 \in A
    <3>1. w[0].node = i /\ w[0].text = <<>> BY <1>1 DEF Climbs
    <3>2. Resolve(i, <<>>) = i BY <1>0, ResolveNothing
    <3>3. Leads(w[0])
      <4>1. <<>> \in Seq(Spellings) OBVIOUS
      <4> QED BY <3>1, <3>2, <4>1, NoComponents
    <3> QED BY <1>0, <3>3
  <2>2. ASSUME NEW k \in 0 .. MaxFiles - 1, k \in A PROVE k + 1 \in A
    <3>1. k + 1 \in 1 .. MaxFiles /\ k + 1 \in 0 .. MaxFiles /\ (k + 1) - 1 = k /\ k \in 0 .. MaxFiles
      BY <1>0
    <3>2. w[k + 1] = ClimbOne(w[k]) BY <1>1, <3>1 DEF Climbs
    <3> SUFFICES ASSUME w[k + 1].text # Junk PROVE Leads(w[k + 1]) BY <3>1
    <3> PICK done \in Climbers : done = w[k] BY <1>2, <3>1
    <3>3. CASE done.node = Root \/ done.text = Junk
      <4>1. w[k + 1] = done BY <3>2, <3>3 DEF ClimbOne
      <4> QED BY <2>2, <4>1
    <3>4. CASE ~(done.node = Root \/ done.text = Junk)
      <4>1. Leads(done) BY <2>2, <3>4
      <4>2. done.text \in Texts /\ done.node \in InUse \ {Root} BY <3>4 DEF Climbers
      <4> DEFINE n == inode[done.node].name
                 p == inode[done.node].parent
                 text == <<"/">> \o Spelling[n] \o done.text
      <4>3. n \in Spellings /\ n \notin Dots BY <4>1, <4>2 DEF Tree, Spelt, Proper
      <4>4. w[k + 1] = [node |-> p, text |-> text]
        <5>1. [done EXCEPT !.text = Junk].text = Junk BY DEF Climbers
        <5> QED BY <3>2, <3>4, <5>1 DEF ClimbOne
      <4>5. p \in Proper /\ Lookup(p, n) = done.node BY <4>2, <4>3, ParentIs
      <4> HIDE DEF n, p
      <4>6. /\ text \in Texts /\ Slashed(text)
            /\ Components(text) = <<n>> \o Components(done.text)
        BY <4>1, <4>2, <4>3, ComponentsPrepend
      <4> HIDE DEF text
      <4> PICK path \in Seq(Spellings) : path = Components(done.text) BY <4>1
      <4>7. <<n>> \o path \in Seq(Spellings) BY <4>3
      <4>8. Resolve(p, <<n>> \o path) = Resolve(Lookup(p, n), path)
        <5>1. p \in Places BY <1>0, <4>5 DEF Proper
        <5> QED BY <1>0, <4>3, <5>1, ResolveHead
      <4>9. Resolve(p, Components(text)) = i BY <4>1, <4>5, <4>6, <4>8
      <4>10. w[k + 1].node = p /\ w[k + 1].text = text BY <4>4
      <4>11. Components(text) \in Seq(Spellings) BY <4>6, <4>7
      <4> QED BY <4>5, <4>6, <4>9, <4>10, <4>11
    <3> QED BY <3>3, <3>4
  <2> HIDE DEF A
  <2> QED BY <1>0, <2>1, <2>2, BoundedInduction
<1>4. 0 .. MaxFiles \subseteq B
  <2>1. 0 \in B
    <3>1. w[0].node = i /\ MaxFiles - 0 = MaxFiles /\ 0 \in 0 .. MaxFiles BY <1>0, <1>1 DEF Climbs
    <3>2. i \in Up[MaxFiles] BY <1>0, Levels DEF Standing
    <3> QED BY <3>1, <3>2
  <2>2. ASSUME NEW k \in 0 .. MaxFiles - 1, k \in B PROVE k + 1 \in B
    <3>1. /\ k + 1 \in 1 .. MaxFiles /\ k + 1 \in 0 .. MaxFiles /\ (k + 1) - 1 = k
          /\ k \in 0 .. MaxFiles
          /\ MaxFiles - (k + 1) \in Nat /\ MaxFiles - k = (MaxFiles - (k + 1)) + 1
      BY <1>0
    <3>2. w[k + 1] = ClimbOne(w[k]) BY <1>1, <3>1 DEF Climbs
    <3> SUFFICES ASSUME w[k + 1].text # Junk PROVE w[k + 1].node \in Up[MaxFiles - (k + 1)]
      BY <3>1
    <3> PICK done \in Climbers : done = w[k] BY <1>2, <3>1
    <3>3. CASE done.node = Root
      <4>1. w[k + 1] = done BY <3>2, <3>3 DEF ClimbOne
      <4>2. Root \in Up[MaxFiles - (k + 1)] BY <1>0, <3>1, RootUp DEF Standing
      <4> QED BY <3>3, <4>1, <4>2
    <3>4. CASE done.node # Root
      <4>1. done.text # Junk BY <3>2 DEF ClimbOne
      <4>2. w[k + 1].node = inode[done.node].parent
        <5> DEFINE name == Spelling[inode[done.node].name]
        <5>1. [done EXCEPT !.text = Junk].text = Junk BY DEF Climbers
        <5>2. w[k + 1] = [node |-> inode[done.node].parent,
                          text |-> <<"/">> \o name \o done.text]
          BY <3>2, <3>4, <4>1, <5>1 DEF ClimbOne
        <5> HIDE DEF name
        <5> QED BY <5>2
      <4>3. done.node \in Up[MaxFiles - k] BY <2>2, <4>1
      <4>4. Up[(MaxFiles - (k + 1)) + 1] = {j \in Inodes : inode[j].parent \in Up[MaxFiles - (k + 1)]}
        BY <3>1, UpSteps
      <4> QED BY <3>1, <4>2, <4>3, <4>4
    <3> QED BY <3>3, <3>4
  <2> HIDE DEF B
  <2> QED BY <1>0, <2>1, <2>2, BoundedInduction
<1> PICK done \in Climbers : done = w[MaxFiles] BY <1>0, <1>2
<1>5. done.text # Junk
  <2>1. Junk # <<>> BY DEF Junk
  <2> QED BY <1>1, <2>1 DEF TextOf
<1>6. Leads(done) /\ done.node \in Up[0]
  <2>1. MaxFiles \in A /\ MaxFiles \in B /\ MaxFiles - MaxFiles = 0 BY <1>0, <1>3, <1>4
  <2> QED BY <1>5, <2>1
<1>7. done.node = Root BY <1>6, UpSteps
<1>8. done.text \in Texts BY DEF Climbers
<1>9. CASE done.text # <<>> BY <1>1, <1>6, <1>7, <1>8, <1>9 DEF TextOf, Slashed
<1>10. CASE done.text = <<>>
  <2>1. PathText(i) = <<"/">> BY <1>1, <1>10 DEF TextOf
  <2>2. NoName \in Spellings /\ Spelling[NoName] = <<>>
    BY SpellingAssumption DEF Spellings
  <2>3. <<"/">> = <<"/">> \o Spelling[NoName] \o <<>> BY <2>2
  <2>4. <<"/">> \in Texts /\ Components(<<"/">>) = <<NoName>> \o <<>>
    BY <2>2, <2>3, NoComponents, ComponentsPrepend
  <2>5. Resolve(Root, <<>>) = i BY <1>6, <1>7, <1>10, NoComponents
  <2>6. Lookup(Root, NoName) = Root BY DEF Lookup, NoName, Root, NULL
  <2>7. Resolve(Root, <<NoName>> \o <<>>) = Resolve(Root, <<>>)
    <3>0. <<>> \in Seq(Spellings) OBVIOUS
    <3> PICK path \in Seq(Spellings) : path = <<>> BY <3>0
    <3> PICK c \in Spellings : c = NoName BY <2>2
    <3>1. Resolve(Root, <<c>> \o path) = Resolve(Lookup(Root, c), path)
      BY <1>0, RootPlace, ResolveHead, ZenonT(30)
    <3> QED BY <2>6, <3>1
  <2> QED BY <2>1, <2>4, <2>5, <2>7
<1> QED BY <1>9, <1>10

-----------------------------------------------------------------------------
(* Where the working directory is.  Only the file of fs_init is open while *)
(* directories are made and removed, so that none is removed while open.   *)
OnlyPasswd == \A f \in Fds : fd[f].inode \in {NULL, 3}

CwdText == cwd \in Texts /\ (cwd = Junk \/ cwd[1] = "/") /\ shrunk \in BOOLEAN

HomeFound ==
  home # NULL =>
    /\ home \in Proper /\ inode[home].type = "dir"
    /\ ~shrunk /\ cwd # Junk => cwd = PathText(home)

Settled == BlocksExclusive /\ ~stale /\ OnlyPasswd /\ Tree /\ CwdText /\ HomeFound

CallPaths == {path \in Seq(Names) \ {<<>>} : Range(path) \subseteq Spellings}

LEMMA ComponentsType ==
  ASSUME NEW text \in Texts
  PROVE  Components(text) \in Seq({NameOf(part) : part \in Texts})
<1> PICK s \in Seq(Texts) : s = Split(text)
  <2>1. PICK w : Splits(w, text) /\ Split(text) = w[Len(text)] BY SplitIs
  <2>2. Len(text) \in 0 .. Len(text) BY DEF Texts
  <2> QED BY <2>1, <2>2 DEF Splits
<1> DEFINE c == [k \in DOMAIN s |-> NameOf(s[k])]
<1>1. Components(text) = c BY ComponentsAre
<1>2. \A k \in DOMAIN s : c[k] \in {NameOf(part) : part \in Texts} OBVIOUS
<1>3. DOMAIN s = 1 .. Len(s) /\ Len(s) \in Nat OBVIOUS
<1> QED BY <1>1, <1>2, <1>3

LEMMA RootProper == ASSUME Tree PROVE Root \in Proper
BY DEF Tree, Standing, Booted, Proper

LEMMA BeginsProper ==
  ASSUME Tree, CwdText, NEW begin \in Begins
  PROVE  begin \in Proper \cup {NULL}
<1>1. CASE cwd = Junk
  <2>1. begin = NULL \/ (begin \in InUse /\ inode[begin].name \notin {NoName, "..", "."})
    BY <1>1 DEF Begins, InUse
  <2> QED BY <2>1 DEF Proper, Dots
<1>2. CASE cwd # Junk
  <2>1. begin = Resolve(Root, Components(cwd)) BY <1>2 DEF Begins
  <2>2. Components(cwd) \in Seq({NameOf(part) : part \in Texts}) BY ComponentsType DEF CwdText
  <2> QED BY <2>1, <2>2, RootProper, ResolveProper
<1> QED BY <1>1, <1>2

LEMMA PathsCalled == Paths \cup Relative \subseteq CallPaths
<1>1. \A path \in Paths \cup Relative : path \in Seq(Names) \ {<<>>}
  BY PathsAssumption, CwdAssumption
<1>2. \A path \in Paths \cup Relative : Range(path) \subseteq Spellings
  BY SpellingAssumption DEF Spellings
<1> QED BY <1>1, <1>2 DEF CallPaths

(* What a call that begins somewhere proper leads to.                      *)
LEMMA CallLeads ==
  ASSUME Tree, NEW begin \in Proper \cup {NULL}, NEW path \in CallPaths
  PROVE  /\ begin \in Places /\ path \in Seq(Names) \ {<<>>} /\ NULL \notin Inodes
         /\ Resolve(begin, path) \in Proper \cup {NULL}
         /\ Resolve(begin, Front(path)) \in Proper \cup {NULL}
         /\ Last(path) \in Spellings
<1>1. path \in Seq(Names) \ {<<>>} /\ Range(path) \subseteq Spellings BY DEF CallPaths
<1>2. begin \in Places /\ NULL \notin Inodes BY DEF Proper, InUse, Places, NULL, Inodes
<1>3. Front(path) \in Seq(Names) BY <1>1, <1>2, ResolveSplits DEF Tree
<1>4. Last(path) \in Spellings
  <2>1. Len(path) \in DOMAIN path BY <1>1
  <2>2. path[Len(path)] \in Range(path) BY <2>1 DEF Range
  <2> QED BY <1>1, <2>2 DEF Last
<1>5. path \in Seq(Names) BY <1>1
<1> QED BY <1>1, <1>2, <1>3, <1>4, <1>5, ResolveProper

(* The directory stays what it was when it and those above it do.          *)
LEMMA HomeStays ==
  ASSUME Settled, Tree', NEW S, S \subseteq InUse \cap InUse',
         \A j \in S : /\ inode'[j].name = inode[j].name /\ inode'[j].type = inode[j].type
                      /\ j # Root => inode[j].parent \in S /\ inode'[j].parent = inode[j].parent,
         home' # NULL => home' = home /\ home \in S, cwd' = cwd, shrunk' = shrunk
  PROVE  CwdText' /\ HomeFound'
<1>1. CwdText' BY DEF Settled, CwdText
<1>2. HomeFound'
  <2> SUFFICES ASSUME home' # NULL
               PROVE  /\ home' \in Proper' /\ inode'[home'].type = "dir"
                      /\ ~shrunk /\ cwd # Junk => cwd = PathText(home)'
    BY DEF HomeFound
  <2>1. home' = home /\ home \in S /\ home # NULL OBVIOUS
  <2>2. /\ home \in Proper /\ inode[home].type = "dir"
        /\ ~shrunk /\ cwd # Junk => cwd = PathText(home)
    BY <2>1 DEF Settled, HomeFound
  <2>3. home' \in Proper' /\ inode'[home'].type = "dir" BY <2>1, <2>2 DEF Proper
  <2>4. PathText(home)' = PathText(home)
    <3> PICK i \in S : i = home /\ i = home' BY <2>1
    <3>1. PathText(i)' = PathText(i) BY PathTextKept DEF Settled
    <3>2. PathText(i)' = PathText(home)' OBVIOUS
    <3> QED BY <3>1, <3>2
  <2> QED BY <2>1, <2>2, <2>3, <2>4
<1> QED BY <1>1, <1>2

(* Inodes without a name stay, since no path leads to them.                *)
NamelessStay == \A j \in InUse : inode[j].name = NoName => j \in InUse' /\ inode'[j].name = NoName

LEMMA MkdirSettled ==
  ASSUME Settled, NEW begin \in Proper \cup {NULL}, NEW path \in CallPaths, MkdirCall(begin, path)
  PROVE  Settled' /\ NamelessStay
<1>0. /\ TypeOK /\ Standing /\ BlocksExclusive /\ Mkdir(begin, path) /\ Tree /\ Forget
      /\ begin \in Places /\ path \in Seq(Names) \ {<<>>}
  BY CallLeads DEF Settled, Tree, MkdirCall
<1>1. TypeOK' /\ BlocksExclusive' BY <1>0, MkdirChanges, ChangesKept
<1>2. PICK i \in FreeInodes, d \in Inodes :
        Adds(i, d, Last(path)) /\ NewName(d, Last(path)) /\ d = Resolve(begin, Front(path))
  BY <1>0, MkdirIs
<1>3. d \in Proper /\ d \in InUse /\ Last(path) \in Spellings
  BY <1>0, <1>2, CallLeads DEF Proper
<1>4. Standing' /\ InUse' = InUse \cup {i} BY <1>0, <1>2, <1>3, AddsStands
<1>5. i \in Inodes /\ i \notin InUse /\ InUse \subseteq Inodes BY DEF FreeInodes, InUse
<1>6. ASSUME NEW j \in InUse
      PROVE  /\ inode'[j].name = inode[j].name /\ inode'[j].type = inode[j].type
             /\ inode'[j].parent = inode[j].parent
             /\ j # d => inode'[j].children = inode[j].children
  BY <1>2, <1>5 DEF Adds
<1>7. inode'[i].name = Last(path) /\ inode'[i].children = <<>>
  BY <1>2, <1>3, <1>5 DEF Adds
<1>8. Spelt' /\ Leaves'
  <2>1. Spelt' BY <1>0, <1>3, <1>4, <1>6, <1>7 DEF Spelt, Tree
  <2>2. Leaves' BY <1>0, <1>3, <1>4, <1>6, <1>7 DEF Leaves, Tree, Proper
  <2> QED BY <2>1, <2>2
<1>9. Tree' BY <1>1, <1>4, <1>8 DEF Tree
<1>10. ~stale' /\ OnlyPasswd' BY <1>0 DEF Settled, Mkdir, OnlyPasswd
<1>11. CwdText' /\ HomeFound'
  <2>1. home' # NULL => home' = home /\ home \in InUse
    BY <1>0 DEF Forget, Settled, HomeFound, Proper
  <2>2. cwd' = cwd /\ shrunk' = shrunk BY <1>0 DEF Forget
  <2>3. \A j \in InUse : j # Root => inode[j].parent \in InUse
    BY <1>0 DEF Standing, Listed
  <2>4. InUse \subseteq InUse \cap InUse' BY <1>4
  <2> QED BY <1>6, <1>9, <2>1, <2>2, <2>3, <2>4, HomeStays
<1>12. NamelessStay BY <1>4, <1>6 DEF NamelessStay
<1> QED BY <1>1, <1>9, <1>10, <1>11, <1>12 DEF Settled

LEMMA RmdirSettled ==
  ASSUME Settled, NEW begin \in Proper \cup {NULL}, NEW path \in CallPaths, RmdirCall(begin, path)
  PROVE  Settled' /\ NamelessStay
<1> PICK i : i = Resolve(begin, path) OBVIOUS
<1>0. /\ TypeOK /\ Standing /\ BlocksExclusive /\ Rmdir(begin, path) /\ Tree /\ Forget
      /\ begin \in Places /\ path \in Seq(Names) \ {<<>>} /\ i \in Proper \cup {NULL}
  BY CallLeads DEF Settled, Tree, RmdirCall
<1>1. TypeOK' /\ BlocksExclusive' BY <1>0, RemovalChanges, ChangesKept
<1>2. /\ i # NULL /\ inode[i].type = "dir" /\ inode[i].children = <<>> /\ Removed(i)
      /\ stale' = (stale \/ OpenOf(i) # {})
  BY <1>0 DEF Rmdir
<1>3. i \in Proper /\ i \in InUse /\ i \in Inodes /\ InUse \subseteq Inodes
  BY <1>0, <1>2 DEF Proper, InUse
<1>4. OpenOf(i) = {}
  <2>1. i # 3 BY <1>0, <1>2 DEF Standing, Booted
  <2> QED BY <1>2, <2>1 DEF Settled, OnlyPasswd, OpenOf
<1>5. ~stale'
  <2> PICK opened \in BOOLEAN : opened = (OpenOf(i) # {}) OBVIOUS
  <2>1. stale' = (stale \/ opened) /\ ~opened BY <1>2, <1>4
  <2> QED BY <2>1 DEF Settled
<1>6. Removes(i) BY <1>0, <1>2, <1>3, RemovedIs
<1>7. Standing' /\ InUse' = InUse \ {i} BY <1>0, <1>2, <1>3, <1>4, <1>6, RemovesStands
<1>8. ASSUME NEW j \in InUse \ {i}
      PROVE  /\ inode'[j].name = inode[j].name /\ inode'[j].type = inode[j].type
             /\ inode'[j].parent = inode[j].parent
             /\ j # inode[i].parent => inode'[j].children = inode[j].children
  BY <1>3, <1>6 DEF Removes
<1>9. i # Root
  <2>1. DOMAIN <<>> = {} /\ 2 # Root BY DEF Root
  <2> QED BY <1>0, <1>2, <2>1 DEF Standing, Booted, Listed
<1>10. Spelt' /\ Leaves'
  <2>1. Spelt' BY <1>0, <1>7, <1>8 DEF Spelt, Tree
  <2>2. inode[i].parent \in Proper BY <1>0, <1>3, <1>9, ParentIs
  <2>3. Leaves' BY <1>0, <1>7, <1>8, <2>2 DEF Leaves, Tree, Proper
  <2> QED BY <2>1, <2>3
<1>11. Tree' BY <1>1, <1>7, <1>10 DEF Tree
<1>12. OnlyPasswd' BY <1>6 DEF Settled, OnlyPasswd, Removes
<1>13. CwdText' /\ HomeFound'
  <2>1. home' # NULL => home' = home /\ home \in InUse \ {i}
    <3>1. inode'[i].name = NoName BY <1>6 DEF Removes
    <3> QED BY <1>0, <3>1 DEF Forget, Settled, HomeFound, Proper
  <2>2. cwd' = cwd /\ shrunk' = shrunk BY <1>0 DEF Forget
  <2>3. ASSUME NEW j \in InUse \ {i}, j # Root PROVE inode[j].parent \in InUse \ {i}
    <3>1. inode[j].parent \in Proper /\ inode[inode[j].parent].children # <<>>
      BY <1>0, <2>3, ParentIs
    <3> QED BY <1>2, <3>1 DEF Proper
  <2>4. InUse \ {i} \subseteq InUse \cap InUse' BY <1>7
  <2> QED BY <1>8, <1>11, <2>1, <2>2, <2>3, <2>4, HomeStays
<1>14. NamelessStay BY <1>3, <1>7, <1>8, <1>9 DEF NamelessStay, Proper, Dots
<1> QED BY <1>1, <1>5, <1>11, <1>12, <1>13, <1>14 DEF Settled

LEMMA StaysSettled ==
  ASSUME Settled, UNCHANGED vars
  PROVE  BlocksExclusive' /\ ~stale' /\ OnlyPasswd' /\ Tree' /\ (UNCHANGED cwdvars => Settled')
<1>0. TypeOK /\ Standing /\ BlocksExclusive /\ Tree BY DEF Settled, Tree
<1>1. TypeOK' /\ BlocksExclusive' BY <1>0, ChangesKept DEF Changes
<1>2. Standing' BY <1>0, SteadyStands DEF Steady
<1>3. inode' = inode /\ InUse' = InUse BY DEF vars, InUse, FreeInodes
<1>4. Spelt' /\ Leaves' BY <1>0, <1>3 DEF Tree, Spelt, Leaves
<1>5. Tree' BY <1>1, <1>2, <1>4 DEF Tree
<1>6. ~stale' /\ OnlyPasswd' BY DEF Settled, OnlyPasswd, vars
<1>7. ASSUME UNCHANGED cwdvars PROVE CwdText' /\ HomeFound'
  <2>1. cwd' = cwd /\ shrunk' = shrunk /\ home' = home BY <1>7 DEF cwdvars
  <2>2. \A j \in InUse : j # Root => inode[j].parent \in InUse BY <1>0 DEF Standing, Listed
  <2>3. home' # NULL => home' = home /\ home \in InUse
    BY <2>1 DEF Settled, HomeFound, Proper
  <2>4. InUse \subseteq InUse \cap InUse' BY <1>3
  <2>5. \A j \in InUse : /\ inode'[j].name = inode[j].name /\ inode'[j].type = inode[j].type
                         /\ j # Root => inode[j].parent \in InUse /\ inode'[j].parent = inode[j].parent
    BY <1>3, <2>2
  <2> QED BY <1>5, <2>1, <2>3, <2>4, <2>5, HomeStays
<1> QED BY <1>1, <1>5, <1>6, <1>7 DEF Settled

(* What strncpy makes of the path and the text that it is copied over.     *)
LEMMA CopiedIs ==
  ASSUME NEW new \in Texts, NEW old \in Texts, new # <<>>, new = Junk \/ new[1] = "/"
  PROVE  /\ Copied(new, old) \in Texts /\ (Copied(new, old) = Junk \/ Copied(new, old)[1] = "/")
         /\ old # Junk /\ ~(Len(new) < Len(old)) => Copied(new, old) = new
<1>1. CASE Junk \in {new, old} BY <1>1 DEF Copied
<1>2. CASE Junk \notin {new, old}
  <2>1. Copied(new, old) = new \o SubSeq(old, Len(new) + 1, Len(old)) BY <1>2 DEF Copied
  <2> PICK tail : tail = SubSeq(old, Len(new) + 1, Len(old)) OBVIOUS
  <2>2. tail \in Seq(Chars) /\ (~(Len(new) < Len(old)) => tail = <<>>)
    BY DEF Texts
  <2>3. new \in Seq(Chars) BY DEF Texts
  <2>4. new \o tail \in Seq(Chars) BY <2>2, <2>3
  <2>5. (new \o tail)[1] = new[1] BY <2>2, <2>3
  <2>6. tail = <<>> => new \o tail = new
    <3>1. new \o <<>> = new BY <2>3
    <3> QED BY <3>1
  <2> QED BY <1>2, <2>1, <2>2, <2>4, <2>5, <2>6 DEF Texts
<1> QED BY <1>1, <1>2

LEMMA ChdirSettled ==
  ASSUME Settled, NEW begin \in Proper \cup {NULL}, NEW path \in CallPaths, Chdir(begin, path)
  PROVE  Settled'
<1> PICK i : i = Resolve(begin, path) OBVIOUS
<1>0. Tree /\ CwdText /\ i \in Proper \cup {NULL} BY CallLeads DEF Settled
<1>1. /\ i \in Proper /\ inode[i].type = "dir" /\ home' = i
      /\ cwd' = Copied(PathText(i), cwd)
      /\ shrunk' = (cwd = Junk \/ Len(PathText(i)) < Len(cwd))
      /\ UNCHANGED vars
  BY <1>0 DEF Chdir
<1>2. BlocksExclusive' /\ ~stale' /\ OnlyPasswd' /\ Tree' BY <1>1, StaysSettled
<1> PICK text : text = PathText(i) OBVIOUS
<1>3. text \in Texts /\ text # <<>> /\ (text = Junk \/ text[1] = "/")
  <2>1. Junk \in Texts /\ Junk # <<>> BY DEF Junk, Texts, Chars
  <2>2. CASE text = Junk BY <2>1, <2>2
  <2>3. CASE text # Junk
    <3>1. text \in Texts /\ text[1] = "/" BY <1>0, <1>1, <2>3, PathTextLeads
    <3>2. text # <<>>
      <4>1. i \in InUse BY <1>1 DEF Proper
      <4>2. PICK w : PathText(i) = TextOf(w) BY <1>0, <4>1, PathTextIs
      <4>3. <<"/">> # <<>> OBVIOUS
      <4> QED BY <4>2, <4>3 DEF TextOf
    <3> QED BY <3>1, <3>2
  <2> QED BY <2>2, <2>3
<1>4. cwd \in Texts BY <1>0 DEF CwdText
<1>5. /\ cwd' \in Texts /\ (cwd' = Junk \/ cwd'[1] = "/")
      /\ cwd # Junk /\ ~(Len(text) < Len(cwd)) => cwd' = text
  BY <1>1, <1>3, <1>4, CopiedIs
<1>6. CwdText'
  <2> PICK shorter \in BOOLEAN : shorter = (cwd = Junk \/ Len(text) < Len(cwd)) OBVIOUS
  <2>1. shrunk' = shorter BY <1>1
  <2>2. shrunk' \in BOOLEAN BY <2>1
  <2> QED BY <1>5, <2>2 DEF CwdText
<1>7. HomeFound'
  <2>1. i \in Proper' /\ inode'[i].type = "dir"
    BY <1>1 DEF vars, Proper, InUse, FreeInodes
  <2>2. PathText(i)' = PathText(i)
    <3>1. InUse' = InUse BY <1>1 DEF vars, InUse, FreeInodes
    <3>2. \A j \in InUse \ {Root} :
            /\ inode[j].parent \in InUse /\ inode'[j].parent = inode[j].parent
            /\ inode'[j].name = inode[j].name
      BY <1>0, <1>1 DEF vars, Tree, Standing, Listed
    <3>3. i \in InUse /\ InUse \subseteq InUse \cap InUse' BY <1>1, <3>1 DEF Proper
    <3> QED BY <1>0, <1>2, <3>2, <3>3, PathTextKept
  <2>3. ASSUME ~shrunk' PROVE cwd' = PathText(i)'
    <3>1. cwd # Junk /\ ~(Len(text) < Len(cwd)) BY <1>1, <2>3
    <3> QED BY <1>5, <2>2, <3>1
  <2> SUFFICES ASSUME home' # NULL
               PROVE  /\ home' \in Proper' /\ inode'[home'].type = "dir"
                      /\ ~shrunk' => cwd' = PathText(home)'
    BY DEF HomeFound
  <2>4. PathText(home)' = PathText(i)' BY <1>1
  <2> QED BY <1>1, <2>1, <2>3, <2>4
<1> QED BY <1>2, <1>6, <1>7 DEF Settled

(* All steps on directories.                                               *)
LEMMA DirsSettled ==
  ASSUME Settled,
         \/ Calls(MkdirCall) \/ Calls(RmdirCall) \/ Calls(Chdir) \/ Calls(TreeOpen)
         \/ TreeStep \/ UNCHANGED allvars
  PROVE  Settled'
<1>0. Tree /\ CwdText BY DEF Settled
<1>1. Root \in Proper \cup {NULL} /\ Begins \subseteq Proper \cup {NULL}
  BY <1>0, RootProper, BeginsProper
<1>2. Paths \subseteq CallPaths /\ Relative \subseteq CallPaths BY PathsCalled
<1>3. CASE Calls(MkdirCall)
  <2>1. \E begin \in Proper \cup {NULL}, path \in CallPaths : MkdirCall(begin, path)
    BY <1>1, <1>2, <1>3 DEF Calls
  <2> QED BY <2>1, MkdirSettled
<1>4. CASE Calls(RmdirCall)
  <2>1. \E begin \in Proper \cup {NULL}, path \in CallPaths : RmdirCall(begin, path)
    BY <1>1, <1>2, <1>4 DEF Calls
  <2> QED BY <2>1, RmdirSettled
<1>5. CASE Calls(Chdir)
  <2>1. \E begin \in Proper \cup {NULL}, path \in CallPaths : Chdir(begin, path)
    BY <1>1, <1>2, <1>5 DEF Calls
  <2> QED BY <2>1, ChdirSettled
<1>6. CASE UNCHANGED <<vars, cwdvars>> BY <1>6, StaysSettled
<1>7. Calls(TreeOpen) => UNCHANGED <<vars, cwdvars>> BY DEF Calls, TreeOpen
<1>8. TreeStep => UNCHANGED <<vars, cwdvars>> BY DEF TreeStep
<1>9. UNCHANGED allvars => UNCHANGED <<vars, cwdvars>> BY DEF allvars
<1> QED BY <1>3, <1>4, <1>5, <1>6, <1>7, <1>8, <1>9

CwdInv ==
  /\ TypeOK /\ BlocksExclusive /\ (~stale => Standing) /\ family \in {"files", "dirs"}
  /\ family = "files" => home = Root /\ cwd = <<"/">> /\ walk = <<>> /\ printed = <<>>
  /\ family = "dirs" => Settled

LEMMA CwdInitSettled ==
  ASSUME CwdInit
  PROVE  CwdInv /\ Settled
<1>1. Init /\ cwd = <<"/">> /\ home = Root /\ shrunk = FALSE BY DEF CwdInit
<1>2. TypeOK /\ BlocksExclusive /\ Standing /\ ~stale BY <1>1, InitKept, InitStands
<1>3. InUse \subseteq {1, 2, 3}
  <2>1. \A j \in Inodes \ {1, 2, 3} : inode[j] = Blank BY <1>1 DEF Init
  <2>2. Blank.ref = 0 /\ Blank.name = NoName BY DEF Blank, Node
  <2> QED BY <2>1, <2>2 DEF InUse, FreeInodes
<1>4. inode[2].name = "etc" /\ inode[3].name = "passwd" /\ inode[3].children = <<>>
  <2>1. 2 \in Inodes /\ 3 \in Inodes BY Sizes DEF Inodes
  <2>2. inode[2] = Node("etc", "dir", 1, Root, <<3>>) /\ inode[3] = Node("passwd", "file", 2, 2, <<>>)
    BY <1>1, <2>1 DEF Init
  <2> QED BY <2>2 DEF Node
<1>5. Spelt BY <1>3, <1>4, SpellingAssumption DEF Spelt, Spellings, Root
<1>6. Leaves
  <2>1. "etc" \notin Dots /\ "passwd" \notin Dots BY DEF Dots, NoName
  <2> QED BY <1>3, <1>4, <2>1 DEF Leaves, Root
<1>7. Tree BY <1>2, <1>5, <1>6 DEF Tree
<1>8. OnlyPasswd BY <1>1 DEF Init, OnlyPasswd, Closed
<1>9. CwdText
  <2>1. <<"/">> \in Texts BY DEF Texts, Chars
  <2> QED BY <1>1, <2>1 DEF CwdText
<1>10. HomeFound
  <2>1. Root \in Proper /\ inode[Root].type = "dir" /\ Root \in InUse
    BY <1>2, <1>7, RootProper DEF Standing, Booted
  <2>2. PathText(Root) = <<"/">>
    <3>1. PICK w : Climbs(w, Root) /\ PathText(Root) = TextOf(w) BY <1>7, <2>1, PathTextIs
    <3> DEFINE A == {k \in 0 .. MaxFiles : w[k].node = Root /\ w[k].text = <<>>}
    <3>2. 0 .. MaxFiles \subseteq A
      <4>1. MaxFiles \in Nat BY Sizes
      <4>2. 0 \in A BY <3>1, <4>1 DEF Climbs
      <4>3. ASSUME NEW k \in 0 .. MaxFiles - 1, k \in A PROVE k + 1 \in A
        <5>1. k + 1 \in 1 .. MaxFiles /\ k + 1 \in 0 .. MaxFiles /\ (k + 1) - 1 = k BY <4>1
        <5>2. w[k + 1] = ClimbOne(w[k]) BY <3>1, <5>1 DEF Climbs
        <5>3. w[k + 1] = w[k] BY <4>3, <5>2 DEF ClimbOne
        <5> QED BY <4>3, <5>1, <5>3
      <4> HIDE DEF A
      <4> QED BY <4>1, <4>2, <4>3, BoundedInduction
    <3>3. w[MaxFiles].text = <<>> BY <3>2, Sizes
    <3> QED BY <3>1, <3>3 DEF TextOf
  <2> QED BY <1>1, <2>1, <2>2 DEF HomeFound
<1>11. Settled BY <1>2, <1>7, <1>8, <1>9, <1>10 DEF Settled
<1> QED BY <1>1, <1>2, <1>11 DEF CwdInv, CwdInit

LEMMA CwdStep ==
  ASSUME CwdInv, [CwdNext]_allvars
  PROVE  CwdInv'
<1>1. CASE family = "files" /\ Next /\ UNCHANGED <<cwdvars, walkvars, family>>
  <2>1. TypeOK' /\ BlocksExclusive' BY <1>1, NextChanges, ChangesKept DEF CwdInv
  <2>2. ~stale' => Standing' BY <1>1, NextSteady, SteadyStands DEF CwdInv
  <2> QED BY <1>1, <2>1, <2>2 DEF CwdInv, cwdvars, walkvars
<1>2. CASE /\ family = "dirs" /\ family' = family
           /\ \/ Calls(MkdirCall) \/ Calls(RmdirCall) \/ Calls(Chdir) \/ Calls(TreeOpen)
              \/ TreeStep \/ UNCHANGED allvars
  <2>1. Settled' BY <1>2, DirsSettled DEF CwdInv
  <2> QED BY <1>2, <2>1 DEF CwdInv, Settled, Tree
<1>3. CASE family = "files" /\ UNCHANGED allvars
  <2>1. UNCHANGED vars /\ UNCHANGED <<cwdvars, walkvars, family>> BY <1>3 DEF allvars
  <2>2. TypeOK' /\ BlocksExclusive' BY <2>1, ChangesKept DEF CwdInv, Changes
  <2>3. ~stale' => Standing'
    <3>1. stale' = stale BY <2>1 DEF vars
    <3> QED BY <2>1, <3>1, SteadyStands DEF CwdInv, Steady
  <2> QED BY <1>3, <2>1, <2>2, <2>3 DEF CwdInv, cwdvars, walkvars
<1>4. /\ (Calls(MkdirCall) \/ Calls(RmdirCall) => family' = family)
      /\ (Calls(Chdir) \/ Calls(TreeOpen) \/ TreeStep => family' = family)
      /\ (UNCHANGED allvars => family' = family)
  BY DEF Calls, MkdirCall, RmdirCall, Forget, Chdir, TreeOpen, TreeStep, allvars
<1> QED BY <1>1, <1>2, <1>3, <1>4 DEF CwdNext, CwdInv

(* While directories are made and removed from wherever the callers are,   *)
(* the files stay a tree and no block is shared.                           *)
THEOREM CwdInductive == CwdSpec => []CwdInv
<1>1. CwdInit => CwdInv BY CwdInitSettled
<1> QED BY <1>1, CwdStep, PTL DEF CwdSpec

LEMMA SettledFinds ==
  ASSUME Settled
  PROVE  CwdFound
<1> SUFFICES ASSUME home # NULL, ~shrunk, cwd # Junk PROVE Begins = {home} BY DEF CwdFound
<1>1. Tree /\ home \in Proper /\ cwd = PathText(home) BY DEF Settled, HomeFound
<1>2. Resolve(Root, Components(cwd)) = home BY <1>1, PathTextLeads
<1> QED BY <1>2 DEF Begins

LEMMA RootFinds ==
  ASSUME TypeOK, home = Root, cwd = <<"/">>
  PROVE  CwdFound
<1>1. NoName \in Spellings /\ Spelling[NoName] = <<>> BY SpellingAssumption DEF Spellings
<1>2. Components(<<"/">>) = <<NoName>> \o <<>>
  <2>1. <<"/">> = <<"/">> \o Spelling[NoName] \o <<>> BY <1>1
  <2> QED BY <1>1, <2>1, NoComponents, ComponentsPrepend
<1>3. Lookup(Root, NoName) = Root BY DEF Lookup, NoName, Root, NULL
<1>4. Resolve(Root, <<NoName>> \o <<>>) = Root
  <2>1. <<>> \in Seq(Spellings) OBVIOUS
  <2> PICK path \in Seq(Spellings) : path = <<>> BY <2>1
  <2> PICK c \in Spellings : c = NoName BY <1>1
  <2>2. Resolve(Root, <<c>> \o path) = Resolve(Lookup(Root, c), path) BY RootPlace, ResolveHead
  <2>3. Resolve(Root, <<>>) = Root BY RootPlace, ResolveNothing
  <2> QED BY <1>3, <2>2, <2>3
<1>5. cwd # Junk => Begins = {Root} BY <1>2, <1>4 DEF Begins
<1> QED BY <1>5 DEF CwdFound

(* Relative paths begin in the directory last changed to as long as it is  *)
(* there, whatever was made and removed around it, from wherever (get_path *)
(* and resolve_path agree), unless its path is shorter than the text that  *)
(* it was copied over or longer than the buffer.                           *)
THEOREM CwdFoundAlways == CwdSpec => []CwdFound
<1>1. CwdInv => CwdFound BY SettledFinds, RootFinds DEF CwdInv
<1> QED BY <1>1, CwdInductive, PTL

-----------------------------------------------------------------------------
(* The inodes below one.                                                   *)
Kids(d) == Range(inode[d].children)

OneMore(found) == found \cup UNION {Range(inode[d].children) : d \in found}

Spreads(w, i) ==
  /\ w \in [0 .. MaxFiles -> SUBSET Inodes]
  /\ w[0] = {i}
  /\ \A k \in 1 .. MaxFiles : w[k] = OneMore(w[k - 1])

LEMMA KidsAre ==
  ASSUME TypeOK, NEW d \in Inodes
  PROVE  /\ Kids(d) \subseteq Inodes
         /\ \A c : c \in Kids(d) <=> \E k \in DOMAIN inode[d].children : c = inode[d].children[k]
<1>1. inode[d].children \in Seq(Inodes) BY DEF TypeOK
<1>2. \A k \in DOMAIN inode[d].children : inode[d].children[k] \in Inodes BY <1>1
<1> QED BY <1>2 DEF Kids, Range

LEMMA BelowIs ==
  ASSUME TypeOK, NEW i \in Inodes
  PROVE  \E w : Spreads(w, i) /\ Below(i) = w[MaxFiles]
<1> DEFINE n == MaxFiles
           V == SUBSET Inodes
           turns == [k \in 1 .. n |-> k]
           base == {i}
           At(it, s) == IF s = {} THEN base ELSE OneMore(it[s \ {Max(s)}])
           G == [vk \in V \X (1 .. n) |-> OneMore(vk[1])]
           it == CHOOSE it : it = [s \in SUBSET (1 .. n) |-> At(it, s)]
<1>1. n \in Nat /\ DOMAIN turns = 1 .. n BY Sizes
<1>2. Below(i) = it[1 .. n] BY <1>1 DEF Below, OneMore, FoldLeft, MapThenFoldSet
<1>0. base \in V OBVIOUS
<1>9. ASSUME NEW found \in V PROVE OneMore(found) \in V BY KidsAre DEF OneMore, Kids
<1> HIDE DEF turns, V, base
<1>3. it = [s \in SUBSET (1 .. n) |-> At(it, s)]
  <2>1. G \in [V \X (1 .. n) -> V] BY <1>9
  <2>2. PICK f \in [SUBSET (1 .. n) -> V] : FoldsBy(f, n, base, G)
    <3> HIDE DEF G, n, it
    <3> QED BY <1>0, <1>1, <2>1, FoldExists, Zenon
  <2>3. ASSUME NEW s \in SUBSET (1 .. n), s # {}
        PROVE  G[<<f[s \ {Max(s)}], Max(s)>>] = OneMore(f[s \ {Max(s)}])
    <3>1. s \subseteq 0 .. n OBVIOUS
    <3>2. Max(s) \in s
      <4> HIDE DEF G, n
      <4> QED BY <1>1, <2>3, <3>1, GreatestExists
    <3>3. f[s \ {Max(s)}] \in V
      <4>1. s \ {Max(s)} \in SUBSET (1 .. n) OBVIOUS
      <4> QED BY <4>1
    <3>4. <<f[s \ {Max(s)}], Max(s)>> \in V \X (1 .. n) BY <3>2, <3>3
    <3> QED BY <3>4
  <2> HIDE DEF G
  <2>4. f = [s \in SUBSET (1 .. n) |-> At(f, s)] BY <2>2, <2>3 DEF FoldsBy
  <2> QED BY <2>4
<1> DEFINE w == [k \in 0 .. n |-> it[1 .. k]]
           In == {k \in 0 .. n : w[k] \in V}
<1> HIDE DEF it
<1>4. w[0] = base
  <2>1. 1 .. 0 = {} /\ 1 .. 0 \in SUBSET (1 .. n) OBVIOUS
  <2> QED BY <1>1, <1>3, <2>1
<1>5. ASSUME NEW k \in 1 .. n PROVE w[k] = OneMore(w[k - 1])
  <2>1. 1 .. k \in SUBSET (1 .. n) /\ 1 .. k # {} /\ 1 .. k \subseteq 0 .. k
    <3>1. k \in Nat /\ k \in 1 .. k /\ k \in 1 .. n BY <1>1
    <3>2. \A j \in 1 .. k : j \in 1 .. n /\ j \in 0 .. k BY <1>1, <3>1
    <3> HIDE DEF w, n
    <3> QED BY <3>1, <3>2
  <2>2. Max(1 .. k) \in 1 .. k /\ \A y \in 1 .. k : Max(1 .. k) >= y
    <3>1. k \in Nat BY <1>1
    <3> HIDE DEF w, n
    <3> QED BY <2>1, <3>1, GreatestExists
  <2>3. Max(1 .. k) = k
    <3>1. Max(1 .. k) >= k BY <2>2
    <3> QED BY <2>2, <3>1
  <2>4. (1 .. k) \ {k} = 1 .. k - 1 BY <1>1
  <2>5. it[1 .. k] = OneMore(it[1 .. k - 1]) BY <1>3, <2>1, <2>3, <2>4
  <2> QED BY <1>1, <2>5
<1> HIDE DEF w
<1>6. 0 .. n \subseteq In
  <2>1. 0 \in In BY <1>0, <1>1, <1>4
  <2>2. ASSUME NEW k \in 0 .. n - 1, k \in In PROVE k + 1 \in In
    <3>1. k + 1 \in 1 .. n /\ (k + 1) - 1 = k BY <1>1
    <3>2. w[k + 1] = OneMore(w[k]) BY <1>5, <3>1
    <3> QED BY <1>9, <2>2, <3>1, <3>2
  <2> HIDE DEF In
  <2> QED BY <1>1, <2>1, <2>2, BoundedInduction
<1>7. w \in [0 .. n -> V] /\ w[n] = it[1 .. n]
  <2>1. \A k \in 0 .. n : w[k] \in V BY <1>6
  <2> QED BY <1>1, <2>1 DEF w
<1> QED BY <1>2, <1>4, <1>5, <1>7 DEF Spreads, V, base

(* Sets of inodes that list no others.                                     *)
ClosedDown(C) == \A d \in C \cap Inodes : Kids(d) \subseteq C

LEMMA Spreading ==
  ASSUME TypeOK, NEW found \in SUBSET Inodes
  PROVE  /\ found \subseteq OneMore(found) /\ OneMore(found) \subseteq Inodes
         /\ \A d \in found : Kids(d) \subseteq OneMore(found)
         /\ \A C : ClosedDown(C) /\ found \subseteq C => OneMore(found) \subseteq C
BY KidsAre DEF OneMore, Kids, ClosedDown

(* Below finds the least of those: with each turn it finds more, or is     *)
(* done, and there are MaxFiles only.                                      *)
LEMMA BelowLeast ==
  ASSUME TypeOK, NEW i \in Inodes
  PROVE  /\ Below(i) \subseteq Inodes /\ i \in Below(i) /\ ClosedDown(Below(i))
         /\ \A C : i \in C /\ ClosedDown(C) => Below(i) \subseteq C
<1>1. PICK w : Spreads(w, i) /\ Below(i) = w[MaxFiles] BY BelowIs
<1> DEFINE n == MaxFiles
<1>2. /\ n \in Nat /\ n \in 0 .. n /\ \A k \in 0 .. n : w[k] \in SUBSET Inodes
      /\ \A k \in 0 .. n - 1 : k + 1 \in 0 .. n /\ k \in 0 .. n /\ w[k + 1] = OneMore(w[k])
  <2>1. \A k \in 0 .. n - 1 : k + 1 \in 1 .. n /\ k + 1 \in 0 .. n /\ k \in 0 .. n /\ (k + 1) - 1 = k
    BY Sizes
  <2>2. n \in Nat /\ n \in 0 .. n BY Sizes
  <2> QED BY <1>1, <2>1, <2>2 DEF Spreads
<1> DEFINE In == {k \in 0 .. n : i \in w[k]}
           Least == {k \in 0 .. n : \A C : i \in C /\ ClosedDown(C) => w[k] \subseteq C}
           Grown == {k \in 0 .. n : ClosedDown(w[k]) \/ Cardinality(w[k]) >= k + 1}
<1>3. 0 \in 0 .. n /\ w[0] = {i} BY <1>1, <1>2 DEF Spreads
<1>4. IsFiniteSet(Inodes) /\ Cardinality(Inodes) = n
  <2>1. 1 .. n = Inodes BY DEF Inodes
  <2>2. IsFiniteSet(1 .. n) /\ Cardinality(1 .. n) = IF 1 > n THEN 0 ELSE n - 1 + 1
    BY <1>2, FS_Interval
  <2> QED BY <2>1, <2>2, Sizes
<1>5. ASSUME NEW k \in 0 .. n
      PROVE  IsFiniteSet(w[k]) /\ Cardinality(w[k]) \in Nat /\ Cardinality(w[k]) <= n
  <2>1. w[k] \subseteq Inodes BY <1>2
  <2> HIDE DEF n
  <2> QED BY <1>4, <2>1, FS_Subset, FS_CardinalityType
<1> HIDE DEF n
<1>6. 0 .. n \subseteq In
  <2>1. 0 \in In BY <1>3
  <2>2. ASSUME NEW k \in 0 .. n - 1, k \in In PROVE k + 1 \in In
    BY <1>2, <2>2, Spreading
  <2> HIDE DEF In
  <2> QED BY <1>2, <2>1, <2>2, BoundedInduction
<1>7. 0 .. n \subseteq Least
  <2>1. 0 \in Least BY <1>3
  <2>2. ASSUME NEW k \in 0 .. n - 1, k \in Least PROVE k + 1 \in Least
    BY <1>2, <2>2, Spreading
  <2> HIDE DEF Least
  <2> QED BY <1>2, <2>1, <2>2, BoundedInduction
<1>8. 0 .. n \subseteq Grown
  <2>1. 0 \in Grown
    <3>1. Cardinality(w[0]) # 0 BY <1>3, <1>5, FS_EmptySet
    <3> QED BY <1>3, <1>5, <3>1
  <2>2. ASSUME NEW k \in 0 .. n - 1, k \in Grown PROVE k + 1 \in Grown
    <3>1. w[k + 1] = OneMore(w[k]) /\ k + 1 \in 0 .. n /\ k \in 0 .. n /\ w[k] \subseteq Inodes
      BY <1>2
    <3>2. CASE ClosedDown(w[k])
      <4>1. w[k + 1] = w[k] BY <3>1, <3>2, Spreading
      <4> QED BY <3>1, <3>2, <4>1
    <3>3. CASE ~ClosedDown(w[k])
      <4>1. PICK d \in w[k] : ~(Kids(d) \subseteq w[k]) BY <3>3 DEF ClosedDown
      <4>2. PICK c : c \in Kids(d) /\ c \notin w[k] BY <4>1
      <4>3. w[k] \cup {c} \subseteq w[k + 1] BY <3>1, <4>2, Spreading
      <4>4. Cardinality(w[k] \cup {c}) = Cardinality(w[k]) + 1 BY <1>5, <3>1, <4>2, FS_AddElement
      <4>5. Cardinality(w[k] \cup {c}) <= Cardinality(w[k + 1]) BY <1>5, <3>1, <4>3, FS_Subset
      <4>6. Cardinality(w[k]) >= k + 1 BY <2>2, <3>3
      <4>7. Cardinality(w[k]) \in Nat /\ Cardinality(w[k + 1]) \in Nat BY <1>5, <3>1
      <4>8. Cardinality(w[k + 1]) >= (k + 1) + 1
        <5> PICK a \in Nat, b \in Nat : a = Cardinality(w[k]) /\ b = Cardinality(w[k + 1])
          BY <4>7
        <5>1. a >= k + 1 /\ a + 1 <= b BY <4>4, <4>5, <4>6
        <5> QED BY <5>1
      <4> QED BY <3>1, <4>8
    <3> QED BY <3>2, <3>3
  <2> HIDE DEF Grown
  <2> QED BY <1>2, <2>1, <2>2, BoundedInduction
<1>9. ClosedDown(w[n])
  <2>1. n \in Grown BY <1>2, <1>8
  <2>2. ~(Cardinality(w[n]) >= n + 1)
    <3> PICK a \in Nat : a = Cardinality(w[n]) BY <1>2, <1>5
    <3>1. a <= n BY <1>2, <1>5
    <3> QED BY <1>2, <3>1
  <2> QED BY <2>1, <2>2
<1>10. n \in In /\ n \in Least /\ w[n] \subseteq Inodes BY <1>2, <1>6, <1>7
<1> QED BY <1>1, <1>9, <1>10 DEF n

LEMMA ListedBy ==
  ASSUME TypeOK, Standing, NEW d \in Inodes, NEW c \in Kids(d)
  PROVE  c \in InUse \ {Root} /\ c \in Inodes /\ inode[c].parent = d /\ inode[d].type = "dir"
<1>1. PICK k \in DOMAIN inode[d].children : c = inode[d].children[k] BY KidsAre
<1>2. c \in InUse \ {Root} /\ inode[c].parent = d BY <1>1 DEF Standing, Once
<1> QED BY <1>2 DEF Standing, Listed, InUse

(* Nothing is below what it lists: it is nearer to the root.               *)
LEMMA NotBelowKid ==
  ASSUME TypeOK, Standing, NEW d \in Inodes, NEW c \in Kids(d)
  PROVE  d \notin Below(c)
<1>1. c \in InUse \ {Root} /\ c \in Inodes /\ inode[c].parent = d BY ListedBy
<1>2. d \in InUse BY <1>1 DEF Standing, Listed
<1> DEFINE T == {n \in Nat : d \in Up[n]}
<1>3. T # {} /\ T \subseteq Nat BY <1>2 DEF Standing, Reached
<1>4. PICK m \in T : \A n \in T : m <= n
  <2> HIDE DEF T
  <2> QED BY <1>3, LeastExists
<1>5. m \in Nat /\ d \in Up[m] BY <1>4
<1> DEFINE C == Inodes \ Up[m]
<1>6. ASSUME NEW x \in Inodes \ {Root}, x \in Up[m], inode[x].parent \in Inodes
      PROVE  m # 0 /\ m - 1 \in Nat /\ inode[x].parent \in Up[m - 1] /\ inode[x].parent \in Up[m]
  <2>1. m # 0 BY <1>6, UpSteps
  <2>2. m - 1 \in Nat /\ (m - 1) + 1 = m BY <1>5, <2>1
  <2>3. inode[x].parent \in Up[m - 1] BY <1>6, <2>2, UpSteps
  <2>4. Up[m - 1] \subseteq Up[m] BY <2>2, UpGrows DEF Standing
  <2> QED BY <2>1, <2>2, <2>3, <2>4
<1>7. c \in C
  <2> SUFFICES ASSUME c \in Up[m] PROVE FALSE BY <1>1
  <2>1. m - 1 \in Nat /\ d \in Up[m - 1] BY <1>1, <1>6
  <2>2. m <= m - 1 BY <1>4, <2>1
  <2> QED BY <1>5, <2>2
<1>8. ClosedDown(C)
  <2> SUFFICES ASSUME NEW x \in C, NEW z \in Kids(x), z \notin C PROVE FALSE
    BY DEF ClosedDown
  <2>1. z \in InUse \ {Root} /\ z \in Inodes /\ inode[z].parent = x BY ListedBy
  <2>2. x \in Up[m] BY <1>6, <2>1
  <2> QED BY <2>2
<1>9. Below(c) \subseteq C
  <2> HIDE DEF C
  <2> QED BY <1>1, <1>7, <1>8, BelowLeast
<1> QED BY <1>5, <1>9

LEMMA ParentBelow ==
  ASSUME TypeOK, Standing, NEW d \in Inodes, NEW x \in Below(d), x # d
  PROVE  inode[x].parent \in Below(d) /\ x \in Kids(inode[x].parent)
<1> DEFINE C == {z \in Below(d) : z = d \/ (inode[z].parent \in Below(d) /\ z \in Kids(inode[z].parent))}
<1>1. d \in Below(d) /\ ClosedDown(Below(d)) /\ Below(d) \subseteq Inodes BY BelowLeast
<1>2. d \in C BY <1>1
<1>3. ClosedDown(C) BY <1>1, ListedBy DEF ClosedDown
<1>4. Below(d) \subseteq C
  <2> HIDE DEF C
  <2> QED BY <1>2, <1>3, BelowLeast
<1> QED BY <1>4

LEMMA KidsApart ==
  ASSUME TypeOK, Standing, NEW d \in Inodes, NEW a \in Kids(d), NEW b \in Kids(d), a # b
  PROVE  Below(a) \cap Below(b) = {}
<1>1. a \in Inodes /\ b \in Inodes /\ inode[a].parent = d /\ inode[b].parent = d BY ListedBy
<1>2. d \notin Below(a) /\ d \notin Below(b) BY NotBelowKid
<1> DEFINE C == Below(a) \ Below(b)
<1>3. a \in Below(a) /\ ClosedDown(Below(a)) /\ Below(a) \subseteq Inodes BY <1>1, BelowLeast
<1>4. a \in C BY <1>1, <1>2, <1>3, ParentBelow
<1>5. ClosedDown(C)
  <2> SUFFICES ASSUME NEW x \in C, NEW z \in Kids(x), z \notin C PROVE FALSE
    BY DEF ClosedDown
  <2>1. x \in Inodes /\ z \in Below(a) BY <1>3 DEF ClosedDown
  <2>2. z \in Below(b) /\ inode[z].parent = x BY <2>1, ListedBy
  <2>3. z # b BY <1>1, <1>2, <2>2
  <2>4. x \in Below(b) BY <1>1, <2>2, <2>3, ParentBelow
  <2> QED BY <2>4
<1>6. Below(a) \subseteq C
  <2> HIDE DEF C
  <2> QED BY <1>1, <1>4, <1>5, BelowLeast
<1> QED BY <1>6

LEMMA BelowKids ==
  ASSUME TypeOK, Standing, NEW d \in Inodes
  PROVE  /\ \A c \in Kids(d) : c \in Inodes /\ Below(c) \subseteq Below(d)
         /\ \A x : x \in Below(d) <=> x = d \/ \E c \in Kids(d) : x \in Below(c)
<1> DEFINE C == {d} \cup UNION {Below(c) : c \in Kids(d)}
<1>1. d \in Below(d) /\ ClosedDown(Below(d)) BY BelowLeast
<1>2. ASSUME NEW c \in Kids(d)
      PROVE  c \in Inodes /\ c \in Below(c) /\ ClosedDown(Below(c)) /\ Below(c) \subseteq Below(d)
  <2>1. c \in Inodes BY ListedBy
  <2>2. c \in Below(d) BY <1>1 DEF ClosedDown
  <2> QED BY <1>1, <2>1, <2>2, BelowLeast
<1>3. ClosedDown(C)
  <2> SUFFICES ASSUME NEW x \in C, x \in Inodes, NEW z \in Kids(x) PROVE z \in C
    BY DEF ClosedDown
  <2>1. CASE x = d BY <1>2, <2>1
  <2>2. CASE x # d
    <3>1. PICK c \in Kids(d) : x \in Below(c) BY <2>2
    <3>2. z \in Below(c) BY <1>2, <3>1 DEF ClosedDown
    <3> QED BY <3>2
  <2> QED BY <2>1, <2>2
<1>4. Below(d) \subseteq C
  <2>1. d \in C OBVIOUS
  <2> HIDE DEF C
  <2> QED BY <1>3, <2>1, BelowLeast
<1>5. C \subseteq Below(d) BY <1>1, <1>2
<1>6. Below(d) = C BY <1>4, <1>5
<1>7. \A x : x \in C <=> x = d \/ \E c \in Kids(d) : x \in Below(c) OBVIOUS
<1> HIDE DEF C
<1> QED BY <1>2, <1>6, <1>7

-----------------------------------------------------------------------------
(* The streams of the tree command: what each has passed.                  *)
Streams == [inode : InUse, index : Nat]

ListOf(s) == inode[s.inode].children

PassedBy(s) == {x \in Inodes : \E e \in 1 .. s.index : x \in Below(ListOf(s)[e])}

(* Each stream but the outermost is that of the entry that the one before  *)
(* passed last.                                                            *)
Chain(w) ==
  /\ w \in Seq(Streams)
  /\ \A k \in 1 .. Len(w) : w[k].index <= Len(ListOf(w[k]))
  /\ \A k \in 1 .. Len(w) - 1 :
       w[k].index >= 1 /\ w[k + 1].inode = ListOf(w[k])[w[k].index]

(* What is printed while these streams are open.                           *)
MarkedBy(w, n) ==
  {x \in Inodes :
     \/ \E k \in 1 .. n : x \in PassedBy(w[k]) /\ (k < n => x \notin Below(w[k + 1].inode))
     \/ \E k \in 2 .. n : x = w[k].inode}

Marked(w) == MarkedBy(w, Len(w))

LEMMA EntryIs ==
  ASSUME TypeOK, Standing, NEW s \in Streams, NEW e \in 1 .. Len(ListOf(s))
  PROVE  /\ s.inode \in Inodes /\ s.inode \in InUse /\ s.index \in Nat /\ Len(ListOf(s)) \in Nat
         /\ ListOf(s)[e] \in Kids(s.inode) /\ ListOf(s)[e] \in InUse \ {Root}
         /\ ListOf(s)[e] \in Inodes /\ inode[ListOf(s)[e]].parent = s.inode
         /\ \A f \in 1 .. Len(ListOf(s)) :
              f # e => ListOf(s)[f] # ListOf(s)[e] /\ ListOf(s)[f] \in Kids(s.inode)
<1>1. s.inode \in Inodes /\ s.inode \in InUse /\ s.index \in Nat BY DEF Streams, InUse
<1>2. ListOf(s) \in Seq(Inodes) BY <1>1 DEF TypeOK, ListOf
<1>3. DOMAIN ListOf(s) = 1 .. Len(ListOf(s)) /\ Len(ListOf(s)) \in Nat BY <1>2
<1>4. \A f \in 1 .. Len(ListOf(s)) : ListOf(s)[f] \in Kids(s.inode)
  BY <1>1, <1>3, KidsAre DEF ListOf
<1>5. \A f \in 1 .. Len(ListOf(s)) : f # e => ListOf(s)[f] # ListOf(s)[e]
  BY <1>1, <1>3 DEF Standing, Distinct, ListOf
<1>6. ListOf(s)[e] \in Kids(s.inode) BY <1>4
<1> QED BY <1>1, <1>3, <1>4, <1>5, <1>6, ListedBy

LEMMA ListLength ==
  ASSUME TypeOK, NEW s \in Streams
  PROVE  s.inode \in Inodes /\ s.inode \in InUse /\ s.index \in Nat /\ Len(ListOf(s)) \in Nat
<1>1. s.inode \in Inodes /\ s.inode \in InUse /\ s.index \in Nat BY DEF Streams, InUse
<1>2. ListOf(s) \in Seq(Inodes) BY <1>1 DEF TypeOK, ListOf
<1> QED BY <1>1, <1>2

(* One entry more.                                                         *)
LEMMA PassOne ==
  ASSUME TypeOK, Standing, NEW s \in Streams, s.index < Len(ListOf(s)),
         NEW t \in Streams, t.inode = s.inode, t.index = s.index + 1,
         NEW x, x = ListOf(s)[s.index + 1]
  PROVE  /\ PassedBy(t) = PassedBy(s) \cup Below(x) /\ PassedBy(s) \cap Below(x) = {}
         /\ s.inode \notin Below(x) /\ x \in Below(x) /\ x \in Inodes /\ x \in InUse \ {Root}
         /\ x \in Below(s.inode) /\ Below(x) \subseteq Inodes /\ inode[x].parent = s.inode
<1> PICK m \in Nat, l \in Nat : m = s.index /\ l = Len(ListOf(s)) BY ListLength
<1>1. m < l /\ m + 1 \in 1 .. l /\ t.index = m + 1 /\ x = ListOf(s)[m + 1] OBVIOUS
<1>2. /\ x \in Kids(s.inode) /\ x \in InUse \ {Root} /\ x \in Inodes /\ s.inode \in Inodes
      /\ inode[x].parent = s.inode
  BY <1>1, EntryIs
<1>3. s.inode \notin Below(x) BY <1>2, NotBelowKid
<1>4. x \in Below(x) /\ Below(x) \subseteq Inodes BY <1>2, BelowLeast
<1>5. x \in Below(s.inode) BY <1>2, <1>4, BelowKids
<1>6. ListOf(t) = ListOf(s) BY DEF ListOf
<1>7. PassedBy(t) = PassedBy(s) \cup Below(x)
  <2>1. 1 .. m + 1 = (1 .. m) \cup {m + 1} OBVIOUS
  <2>2. PassedBy(t) = {y \in Inodes : \E e \in 1 .. m + 1 : y \in Below(ListOf(s)[e])}
    BY <1>1, <1>6 DEF PassedBy
  <2>3. PassedBy(s) = {y \in Inodes : \E e \in 1 .. m : y \in Below(ListOf(s)[e])}
    BY DEF PassedBy
  <2> QED BY <1>1, <1>4, <2>1, <2>2, <2>3
<1>8. PassedBy(s) \cap Below(x) = {}
  <2> SUFFICES ASSUME NEW y \in PassedBy(s), y \in Below(x) PROVE FALSE OBVIOUS
  <2>1. PICK e \in 1 .. m : y \in Below(ListOf(s)[e]) BY DEF PassedBy
  <2>2. e \in 1 .. l /\ e # m + 1 BY <1>1
  <2>3. ListOf(s)[e] # x /\ ListOf(s)[e] \in Kids(s.inode)
    BY <1>1, <2>2, EntryIs
  <2> PICK z : z = ListOf(s)[e] OBVIOUS
  <2>4. Below(z) \cap Below(x) = {} BY <1>2, <2>3, KidsApart
  <2> QED BY <2>1, <2>4
<1> QED BY <1>2, <1>3, <1>4, <1>5, <1>7, <1>8

(* All entries.                                                            *)
LEMMA PassAll ==
  ASSUME TypeOK, Standing, NEW s \in Streams, s.index = Len(ListOf(s))
  PROVE  Below(s.inode) = PassedBy(s) \cup {s.inode} /\ s.inode \in Inodes
<1>1. s.inode \in Inodes /\ s.inode \in InUse BY ListLength
<1>2. ListOf(s) \in Seq(Inodes) BY <1>1 DEF TypeOK, ListOf
<1>3. DOMAIN inode[s.inode].children = 1 .. s.index BY <1>2 DEF ListOf
<1>4. \A c : c \in Kids(s.inode) <=> \E e \in 1 .. s.index : c = ListOf(s)[e]
  BY <1>1, <1>3, KidsAre DEF ListOf
<1>5. \A x : x \in Below(s.inode) <=> x = s.inode \/ \E c \in Kids(s.inode) : x \in Below(c)
  BY <1>1, BelowKids
<1>6. Below(s.inode) \subseteq Inodes BY <1>1, BelowLeast
<1>7. \A x : x \in PassedBy(s) <=> x \in Inodes /\ \E c \in Kids(s.inode) : x \in Below(c)
  BY <1>4 DEF PassedBy
<1> QED BY <1>1, <1>5, <1>6, <1>7

(* The inode of the innermost stream is below those of the others.         *)
LEMMA ChainBelow ==
  ASSUME TypeOK, Standing, NEW w, Chain(w), NEW n \in Nat \ {0}, n = Len(w)
  PROVE  \A k \in 1 .. n : w[k] \in Streams /\ w[n].inode \in Below(w[k].inode)
<1> DEFINE S == {m \in 0 .. n - 1 : w[n].inode \in Below(w[n - m].inode)}
<1>1. \A k \in 1 .. n : w[k] \in Streams BY DEF Chain
<1>2. 0 \in S
  <2>1. n \in 1 .. n /\ n - 0 = n /\ 0 \in 0 .. n - 1 OBVIOUS
  <2>2. w[n].inode \in Inodes BY <1>1, <2>1, ListLength
  <2>3. w[n].inode \in Below(w[n].inode) BY <2>2, BelowLeast
  <2> QED BY <2>1, <2>3
<1>3. ASSUME NEW m \in 0 .. (n - 1) - 1, m \in S PROVE m + 1 \in S
  <2> PICK k \in 1 .. n - 1 : k = n - (m + 1) OBVIOUS
  <2>1. n - m = k + 1 /\ k \in 1 .. n /\ m + 1 \in 0 .. n - 1 OBVIOUS
  <2>2. w[k].index >= 1 /\ w[k].index <= Len(ListOf(w[k])) /\ w[k + 1].inode = ListOf(w[k])[w[k].index]
    BY <2>1 DEF Chain
  <2>3. w[k].index \in 1 .. Len(ListOf(w[k]))
    BY <1>1, <2>1, <2>2, ListLength
  <2>4. w[k + 1].inode \in Kids(w[k].inode) /\ w[k].inode \in Inodes
    BY <1>1, <2>1, <2>2, <2>3, EntryIs
  <2>5. Below(w[k + 1].inode) \subseteq Below(w[k].inode) BY <2>4, BelowKids
  <2>6. w[n].inode \in Below(w[k + 1].inode) BY <1>3, <2>1
  <2> QED BY <2>1, <2>5, <2>6
<1>4. 0 .. n - 1 \subseteq S
  <2>1. n - 1 \in Nat OBVIOUS
  <2> HIDE DEF S
  <2> QED BY <1>2, <1>3, <2>1, BoundedInduction
<1>5. ASSUME NEW k \in 1 .. n PROVE w[n].inode \in Below(w[k].inode)
  <2>1. n - k \in 0 .. n - 1 /\ n - (n - k) = k OBVIOUS
  <2>2. n - k \in S BY <1>4, <2>1
  <2> QED BY <2>1, <2>2
<1> QED BY <1>1, <1>5

(* What a turn passes is new.                                              *)
LEMMA EntryNew ==
  ASSUME TypeOK, Standing, NEW w, Chain(w), NEW n \in Nat \ {0}, n = Len(w),
         w[n].index < Len(ListOf(w[n])), NEW x, x = ListOf(w[n])[w[n].index + 1]
  PROVE  x \notin Marked(w) /\ x \in Inodes
<1>1. \A k \in 1 .. n : w[k] \in Streams /\ w[n].inode \in Below(w[k].inode) BY ChainBelow
<1> PICK s \in Streams : s = w[n] BY <1>1
<1> DEFINE t == [inode |-> s.inode, index |-> s.index + 1]
<1>2. t \in Streams /\ t.inode = s.inode /\ t.index = s.index + 1 BY DEF Streams
<1> HIDE DEF t
<1>3. /\ PassedBy(s) \cap Below(x) = {} /\ s.inode \notin Below(x) /\ x \in Below(x)
      /\ x \in Inodes /\ x \in InUse \ {Root} /\ inode[x].parent = s.inode
  BY <1>2, PassOne
<1>4. ASSUME NEW k \in 1 .. n, x \in PassedBy(w[k]), k < n => x \notin Below(w[k + 1].inode)
      PROVE  FALSE
  <2>1. k # n BY <1>3, <1>4
  <2>2. k < n /\ k + 1 \in 1 .. n BY <2>1
  <2>3. s.inode \in Below(w[k + 1].inode) BY <1>1, <2>2
  <2>4. w[k + 1].inode \in Inodes BY <1>1, <2>2, ListLength
  <2>5. x \in Below(w[k + 1].inode)
    <3>1. ClosedDown(Below(w[k + 1].inode)) BY <2>4, BelowLeast
    <3>2. s.inode \in Inodes BY ListLength
    <3>3. x \in Kids(s.inode)
      <4>1. s.index + 1 \in 1 .. Len(ListOf(s)) BY ListLength
      <4> QED BY <4>1, EntryIs
    <3> QED BY <2>3, <3>1, <3>2, <3>3 DEF ClosedDown
  <2> QED BY <1>4, <2>2, <2>5
<1>5. ASSUME NEW k \in 2 .. n, x = w[k].inode PROVE FALSE
  <2>1. s.inode \in Below(w[k].inode) BY <1>1
  <2> QED BY <1>3, <1>5, <2>1
<1>6. x \notin MarkedBy(w, n) BY <1>4, <1>5 DEF MarkedBy
<1> QED BY <1>3, <1>6 DEF Marked

(* A turn that opens a directory, one that does not, one that is done.     *)
Enters(w, v, n, x) ==
  /\ w[n].index < Len(ListOf(w[n])) /\ x = ListOf(w[n])[w[n].index + 1]
  /\ v \in Seq(Streams) /\ Len(v) = n + 1
  /\ \A k \in 1 .. n - 1 : v[k] = w[k]
  /\ v[n].inode = w[n].inode /\ v[n].index = w[n].index + 1
  /\ v[n + 1].inode = x /\ v[n + 1].index = 0

LEMMA OpensMark ==
  ASSUME TypeOK, Standing, NEW w, Chain(w), NEW n \in Nat \ {0}, n = Len(w),
         NEW v, NEW x, Enters(w, v, n, x)
  PROVE  Chain(v) /\ Marked(v) = Marked(w) \cup {x}
<1> USE DEF Enters
<1>1. \A k \in 1 .. n : w[k] \in Streams BY DEF Chain
<1>2. n \in 1 .. n /\ n \in 1 .. n + 1 /\ n + 1 \in 1 .. n + 1 OBVIOUS
<1>3. v[n] \in Streams /\ v[n + 1] \in Streams BY <1>2
<1> PICK s \in Streams, t \in Streams : s = w[n] /\ t = v[n] BY <1>1, <1>2, <1>3
<1>4. /\ PassedBy(t) = PassedBy(s) \cup Below(x) /\ PassedBy(s) \cap Below(x) = {}
      /\ x \in Below(x) /\ x \in Inodes
  BY PassOne
<1>5. PassedBy(v[n + 1]) = {}
  <2>1. 1 .. 0 = {} OBVIOUS
  <2> QED BY <2>1 DEF PassedBy
<1>6. Chain(v)
  <2>1. ASSUME NEW k \in 1 .. n + 1 PROVE v[k].index <= Len(ListOf(v[k]))
    <3>1. CASE k \in 1 .. n - 1 BY <3>1 DEF Chain
    <3>2. CASE k = n
      <4>1. ListOf(t) = ListOf(s) BY DEF ListOf
      <4> PICK m \in Nat, l \in Nat : m = s.index /\ l = Len(ListOf(s)) BY ListLength
      <4>2. m < l /\ t.index = m + 1 OBVIOUS
      <4>3. m + 1 <= l BY <4>2
      <4> QED BY <3>2, <4>1, <4>2, <4>3
    <3>3. CASE k = n + 1 BY <1>3, <3>3, ListLength
    <3> QED BY <3>1, <3>2, <3>3
  <2>2. ASSUME NEW k \in 1 .. n
        PROVE  v[k].index >= 1 /\ v[k + 1].inode = ListOf(v[k])[v[k].index]
    <3>1. CASE k \in 1 .. n - 1
      <4>1. w[k].index >= 1 /\ w[k + 1].inode = ListOf(w[k])[w[k].index] BY <3>1 DEF Chain
      <4>2. v[k + 1].inode = w[k + 1].inode
        <5>1. CASE k + 1 \in 1 .. n - 1 BY <5>1
        <5>2. CASE k + 1 = n BY <5>2
        <5> QED BY <3>1, <5>1, <5>2
      <4> QED BY <3>1, <4>1, <4>2
    <3>2. CASE k = n
      <4>1. ListOf(t) = ListOf(s) BY DEF ListOf
      <4>2. t.index >= 1
        <5> PICK m \in Nat : m = s.index BY ListLength
        <5>1. t.index = m + 1 OBVIOUS
        <5> QED BY <5>1
      <4> QED BY <3>2, <4>1, <4>2
    <3> QED BY <3>1, <3>2
  <2>3. (n + 1) - 1 = n OBVIOUS
  <2> QED BY <2>1, <2>2, <2>3 DEF Chain
<1>7. ASSUME NEW y \in Inodes PROVE y \in MarkedBy(v, n + 1) <=> y \in MarkedBy(w, n) \/ y = x
  <2> DEFINE InV(k) == y \in PassedBy(v[k]) /\ (k < n + 1 => y \notin Below(v[k + 1].inode))
             InW(k) == y \in PassedBy(w[k]) /\ (k < n => y \notin Below(w[k + 1].inode))
  <2>1. ASSUME NEW k \in 1 .. n - 1 PROVE InV(k) <=> InW(k)
    <3>1. k < n /\ k < n + 1 /\ v[k] = w[k] OBVIOUS
    <3>2. v[k + 1].inode = w[k + 1].inode
      <4>1. CASE k + 1 \in 1 .. n - 1 BY <4>1
      <4>2. CASE k + 1 = n BY <4>2
      <4> QED BY <4>1, <4>2
    <3> QED BY <3>1, <3>2
  <2>2. InV(n) <=> InW(n) BY <1>4
  <2>3. ~InV(n + 1) BY <1>5
  <2>4. (\E k \in 1 .. n + 1 : InV(k)) <=> (\E k \in 1 .. n : InW(k))
    <3>1. \A k \in 1 .. n + 1 : k \in 1 .. n - 1 \/ k = n \/ k = n + 1 OBVIOUS
    <3>2. \A k \in 1 .. n : k \in 1 .. n - 1 \/ k = n OBVIOUS
    <3>3. \A k \in 1 .. n - 1 : k \in 1 .. n OBVIOUS
    <3>4. \A k \in 1 .. n : k \in 1 .. n + 1 OBVIOUS
    <3> HIDE DEF InV, InW
    <3> QED BY <1>2, <2>1, <2>2, <2>3, <3>1, <3>2, <3>3, <3>4
  <2>5. (\E k \in 2 .. n + 1 : y = v[k].inode) <=> (\E k \in 2 .. n : y = w[k].inode) \/ y = x
    <3>1. \A k \in 2 .. n + 1 : k \in 2 .. n \/ k = n + 1 OBVIOUS
    <3>2. \A k \in 2 .. n : k \in 2 .. n + 1 /\ (k \in 1 .. n - 1 \/ k = n) OBVIOUS
    <3>3. \A k \in 2 .. n : v[k].inode = w[k].inode BY <3>2
    <3>4. n + 1 \in 2 .. n + 1 OBVIOUS
    <3> QED BY <3>1, <3>2, <3>3, <3>4
  <2>6. y \in MarkedBy(v, n + 1)
        <=> (\E k \in 1 .. n + 1 : InV(k)) \/ \E k \in 2 .. n + 1 : y = v[k].inode
    BY DEF MarkedBy
  <2>7. y \in MarkedBy(w, n) <=> (\E k \in 1 .. n : InW(k)) \/ \E k \in 2 .. n : y = w[k].inode
    BY DEF MarkedBy
  <2> HIDE DEF InV, InW
  <2> QED BY <2>4, <2>5, <2>6, <2>7
<1>8. MarkedBy(v, n + 1) \subseteq Inodes /\ MarkedBy(w, n) \subseteq Inodes BY DEF MarkedBy
<1>10. MarkedBy(v, n + 1) = MarkedBy(w, n) \cup {x} BY <1>4, <1>7, <1>8
<1> QED BY <1>6, <1>10 DEF Marked


Passes(w, v, n, x) ==
  /\ w[n].index < Len(ListOf(w[n])) /\ x = ListOf(w[n])[w[n].index + 1]
  /\ inode[x].children = <<>>
  /\ v \in Seq(Streams) /\ Len(v) = n
  /\ \A k \in 1 .. n - 1 : v[k] = w[k]
  /\ v[n].inode = w[n].inode /\ v[n].index = w[n].index + 1

LEMMA PassesMark ==
  ASSUME TypeOK, Standing, NEW w, Chain(w), NEW n \in Nat \ {0}, n = Len(w),
         NEW v, NEW x, Passes(w, v, n, x)
  PROVE  Chain(v) /\ Marked(v) = Marked(w) \cup {x}
<1> USE DEF Passes
<1>1. \A k \in 1 .. n : w[k] \in Streams BY DEF Chain
<1>2. n \in 1 .. n OBVIOUS
<1>3. v[n] \in Streams BY <1>2
<1> PICK s \in Streams, t \in Streams : s = w[n] /\ t = v[n] BY <1>1, <1>2, <1>3
<1>4. /\ PassedBy(t) = PassedBy(s) \cup Below(x) /\ PassedBy(s) \cap Below(x) = {}
      /\ x \in Below(x) /\ x \in Inodes
  BY PassOne
<1>5. Below(x) = {x}
  <2>1. \A c : c \notin Kids(x)
    <3>1. DOMAIN <<>> = {} OBVIOUS
    <3> QED BY <1>4, <3>1, KidsAre
  <2>2. \A y : y \in Below(x) <=> y = x \/ \E c \in Kids(x) : y \in Below(c)
    BY <1>4, BelowKids
  <2> QED BY <2>1, <2>2
<1>6. \A k \in 1 .. n : v[k].inode = w[k].inode
  <2>1. \A k \in 1 .. n : k \in 1 .. n - 1 \/ k = n OBVIOUS
  <2> QED BY <2>1
<1>7. Chain(v)
  <2>1. ASSUME NEW k \in 1 .. n PROVE v[k].index <= Len(ListOf(v[k]))
    <3>1. CASE k \in 1 .. n - 1 BY <3>1 DEF Chain
    <3>2. CASE k = n
      <4>1. ListOf(t) = ListOf(s) BY DEF ListOf
      <4> PICK m \in Nat, l \in Nat : m = s.index /\ l = Len(ListOf(s)) BY ListLength
      <4>2. m < l /\ t.index = m + 1 OBVIOUS
      <4>3. m + 1 <= l BY <4>2
      <4> QED BY <3>2, <4>1, <4>2, <4>3
    <3> QED BY <3>1, <3>2
  <2>2. ASSUME NEW k \in 1 .. n - 1
        PROVE  v[k].index >= 1 /\ v[k + 1].inode = ListOf(v[k])[v[k].index]
    <3>1. w[k].index >= 1 /\ w[k + 1].inode = ListOf(w[k])[w[k].index] BY DEF Chain
    <3>2. k + 1 \in 1 .. n OBVIOUS
    <3> QED BY <1>6, <3>1, <3>2
  <2> QED BY <2>1, <2>2 DEF Chain
<1>8. ASSUME NEW y \in Inodes PROVE y \in MarkedBy(v, n) <=> y \in MarkedBy(w, n) \/ y = x
  <2> DEFINE InV(k) == y \in PassedBy(v[k]) /\ (k < n => y \notin Below(v[k + 1].inode))
             InW(k) == y \in PassedBy(w[k]) /\ (k < n => y \notin Below(w[k + 1].inode))
  <2>1. ASSUME NEW k \in 1 .. n - 1 PROVE InV(k) <=> InW(k)
    <3>1. v[k] = w[k] /\ k + 1 \in 1 .. n OBVIOUS
    <3> QED BY <1>6, <3>1
  <2>2. InV(n) <=> InW(n) \/ y = x BY <1>4, <1>5
  <2>3. (\E k \in 1 .. n : InV(k)) <=> (\E k \in 1 .. n : InW(k)) \/ y = x
    <3>1. \A k \in 1 .. n : k \in 1 .. n - 1 \/ k = n OBVIOUS
    <3>2. \A k \in 1 .. n - 1 : k \in 1 .. n OBVIOUS
    <3> HIDE DEF InV, InW
    <3> QED BY <1>2, <2>1, <2>2, <3>1, <3>2
  <2>4. (\E k \in 2 .. n : y = v[k].inode) <=> (\E k \in 2 .. n : y = w[k].inode)
    <3>1. \A k \in 2 .. n : k \in 1 .. n OBVIOUS
    <3> QED BY <1>6, <3>1
  <2>5. y \in MarkedBy(v, n) <=> (\E k \in 1 .. n : InV(k)) \/ \E k \in 2 .. n : y = v[k].inode
    BY DEF MarkedBy
  <2>6. y \in MarkedBy(w, n) <=> (\E k \in 1 .. n : InW(k)) \/ \E k \in 2 .. n : y = w[k].inode
    BY DEF MarkedBy
  <2> HIDE DEF InV, InW
  <2> QED BY <2>3, <2>4, <2>5, <2>6
<1>9. MarkedBy(v, n) \subseteq Inodes /\ MarkedBy(w, n) \subseteq Inodes BY DEF MarkedBy
<1>10. MarkedBy(v, n) = MarkedBy(w, n) \cup {x} BY <1>4, <1>8, <1>9
<1> QED BY <1>7, <1>10 DEF Marked


LEMMA ReturnMarks ==
  ASSUME TypeOK, Standing, NEW w, Chain(w), NEW n \in Nat \ {0}, n + 1 = Len(w),
         w[n + 1].index = Len(ListOf(w[n + 1])),
         NEW v \in Seq(Streams), Len(v) = n, \A k \in 1 .. n : v[k] = w[k]
  PROVE  Chain(v) /\ Marked(v) = Marked(w)
<1>1. \A k \in 1 .. n + 1 : w[k] \in Streams BY DEF Chain
<1>2. n \in 1 .. n /\ n \in 1 .. n + 1 /\ n + 1 \in 1 .. n + 1 /\ (n + 1) - 1 = n
      /\ \A k \in 1 .. n : k \in 1 .. n + 1
  OBVIOUS
<1> PICK s \in Streams, t \in Streams : s = w[n] /\ t = w[n + 1] BY <1>1, <1>2
<1>3. s.index >= 1 /\ s.index <= Len(ListOf(s)) /\ t.inode = ListOf(s)[s.index]
  BY <1>2 DEF Chain
<1>4. Below(t.inode) = PassedBy(t) \cup {t.inode} /\ t.inode \in Inodes BY PassAll
<1>5. Below(t.inode) \subseteq PassedBy(s)
  <2>1. s.index \in 1 .. s.index BY <1>3, ListLength
  <2>2. Below(t.inode) \subseteq Inodes BY <1>4, BelowLeast
  <2> QED BY <1>3, <2>1, <2>2 DEF PassedBy
<1>6. Chain(v)
  <2>1. \A k \in 1 .. n : v[k].index <= Len(ListOf(v[k])) BY <1>2 DEF Chain
  <2>2. ASSUME NEW k \in 1 .. n - 1
        PROVE  v[k].index >= 1 /\ v[k + 1].inode = ListOf(v[k])[v[k].index]
    <3>1. k \in 1 .. n /\ k + 1 \in 1 .. n OBVIOUS
    <3>2. w[k].index >= 1 /\ w[k + 1].inode = ListOf(w[k])[w[k].index]
      BY <1>2, <3>1 DEF Chain
    <3> QED BY <3>1, <3>2
  <2> QED BY <2>1, <2>2 DEF Chain
<1>7. ASSUME NEW y \in Inodes PROVE y \in MarkedBy(v, n) <=> y \in MarkedBy(w, n + 1)
  <2> DEFINE InV(k) == y \in PassedBy(v[k]) /\ (k < n => y \notin Below(v[k + 1].inode))
             InW(k) == y \in PassedBy(w[k]) /\ (k < n + 1 => y \notin Below(w[k + 1].inode))
  <2>1. ASSUME NEW k \in 1 .. n - 1 PROVE InV(k) <=> InW(k)
    <3>1. v[k] = w[k] /\ v[k + 1] = w[k + 1] /\ k < n /\ k < n + 1 OBVIOUS
    <3> QED BY <3>1
  <2>2. InV(n) <=> InW(n) \/ InW(n + 1) \/ y = t.inode
    <3>1. InV(n) <=> y \in PassedBy(s) OBVIOUS
    <3>2. InW(n) <=> y \in PassedBy(s) /\ y \notin Below(t.inode) OBVIOUS
    <3>3. InW(n + 1) <=> y \in PassedBy(t) OBVIOUS
    <3> HIDE DEF InV, InW
    <3> QED BY <1>4, <1>5, <3>1, <3>2, <3>3
  <2>3. (\E k \in 1 .. n : InV(k)) <=> (\E k \in 1 .. n + 1 : InW(k)) \/ y = t.inode
    <3>1. \A k \in 1 .. n : k \in 1 .. n - 1 \/ k = n OBVIOUS
    <3>2. \A k \in 1 .. n - 1 : k \in 1 .. n OBVIOUS
    <3>3. \A k \in 1 .. n + 1 : k \in 1 .. n \/ k = n + 1 OBVIOUS
    <3> HIDE DEF InV, InW
    <3> QED BY <1>2, <2>1, <2>2, <3>1, <3>2, <3>3
  <2>4. (\E k \in 2 .. n + 1 : y = w[k].inode) <=> (\E k \in 2 .. n : y = v[k].inode) \/ y = t.inode
    <3>1. \A k \in 2 .. n : k \in 1 .. n /\ k \in 2 .. n + 1 OBVIOUS
    <3>2. \A k \in 2 .. n + 1 : k \in 2 .. n \/ k = n + 1 OBVIOUS
    <3>3. n + 1 \in 2 .. n + 1 OBVIOUS
    <3> QED BY <3>1, <3>2, <3>3
  <2>5. y \in MarkedBy(v, n) <=> (\E k \in 1 .. n : InV(k)) \/ \E k \in 2 .. n : y = v[k].inode
    BY DEF MarkedBy
  <2>6. y \in MarkedBy(w, n + 1)
        <=> (\E k \in 1 .. n + 1 : InW(k)) \/ \E k \in 2 .. n + 1 : y = w[k].inode
    BY DEF MarkedBy
  <2> HIDE DEF InV, InW
  <2> QED BY <2>3, <2>4, <2>5, <2>6
<1>8. MarkedBy(v, n) \subseteq Inodes /\ MarkedBy(w, n + 1) \subseteq Inodes BY DEF MarkedBy
<1>10. MarkedBy(v, n) = MarkedBy(w, n + 1) BY <1>7, <1>8
<1> QED BY <1>6, <1>10 DEF Marked


-----------------------------------------------------------------------------
(* One step of the tree command.                                           *)
AllNamed == \A i \in InUse : inode[i].name # NoName

WalkKept ==
  AllNamed =>
    /\ printed \in Seq(Inodes)
    /\ IsInjective(printed)
    /\ walk # <<>> => Chain(walk) /\ Range(printed) = Marked(walk)

LEMMA PrintsOne ==
  ASSUME NEW p \in Seq(Inodes), IsInjective(p),
         NEW x \in Inodes, x \notin Range(p)
  PROVE  /\ Append(p, x) \in Seq(Inodes) /\ IsInjective(Append(p, x))
         /\ Range(Append(p, x)) = Range(p) \cup {x}
<1> PICK q : q = Append(p, x) OBVIOUS
<1> PICK n \in Nat : n = Len(p) OBVIOUS
<1>1. /\ q \in Seq(Inodes) /\ Len(q) = n + 1 /\ q[n + 1] = x
      /\ \A k \in 1 .. n : q[k] = p[k]
  OBVIOUS
<1>2. DOMAIN p = 1 .. n /\ DOMAIN q = 1 .. n + 1 BY <1>1
<1>3. \A k \in 1 .. n : p[k] # x BY <1>2 DEF Range
<1>4. \A k \in 1 .. n + 1 : k \in 1 .. n \/ k = n + 1 OBVIOUS
<1>5. \A k \in 1 .. n : k \in 1 .. n + 1 OBVIOUS
<1>6. n + 1 \in 1 .. n + 1 OBVIOUS
<1>7. \A a, b \in 1 .. n : p[a] = p[b] => a = b BY <1>2 DEF IsInjective
<1>9. IsInjective(q)
  <2>1. \A a, b \in 1 .. n + 1 : q[a] = q[b] => a = b BY <1>1, <1>3, <1>4, <1>7
  <2> QED BY <1>2, <2>1 DEF IsInjective
<1>8. Range(q) = Range(p) \cup {x} BY <1>1, <1>2, <1>4, <1>5, <1>6 DEF Range
<1> QED BY <1>1, <1>8, <1>9

LEMMA TreeTurn ==
  ASSUME Tree, AllNamed, WalkKept, TreeStep
  PROVE  /\ printed' \in Seq(Inodes)
         /\ IsInjective(printed')
         /\ walk' # <<>> => Chain(walk') /\ Range(printed') = Marked(walk')
<1>0. TypeOK /\ Standing BY DEF Tree
<1>1. /\ printed \in Seq(Inodes)
      /\ IsInjective(printed)
      /\ walk # <<>> /\ Chain(walk) /\ Range(printed) = Marked(walk)
  BY DEF WalkKept, TreeStep
<1>2. walk \in Seq(Streams) BY <1>1 DEF Chain
<1> PICK n \in Nat \ {0} : n = Len(walk) BY <1>1, <1>2
<1>3. n \in 1 .. n /\ DOMAIN walk = 1 .. n BY <1>2
<1> PICK top \in Streams : top = walk[n] BY <1>2, <1>3
<1>4. /\ top.inode \in Inodes /\ top.inode \in InUse /\ top.index \in Nat
      /\ Len(ListOf(top)) \in Nat /\ top.index <= Len(ListOf(top))
  <2>1. top.index <= Len(ListOf(top)) BY <1>1, <1>3 DEF Chain
  <2> QED BY <1>0, <2>1, ListLength
<1>5. Last(walk) = top BY DEF Last
<1>6. CASE top.index >= Len(ListOf(top))
  <2>1. walk' = Front(walk) /\ printed' = printed BY <1>5, <1>6 DEF TreeStep, ListOf
  <2>2. top.index = Len(ListOf(top)) BY <1>4, <1>6
  <2>3. CASE n = 1
    <3>1. walk' = <<>> BY <1>2, <2>1, <2>3 DEF Front
    <3> QED BY <1>1, <2>1, <3>1
  <2>4. CASE n # 1
    <3> PICK m \in Nat \ {0} : n = m + 1 BY <2>4
    <3>1. Front(walk) \in Seq(Streams) /\ Len(Front(walk)) = m
          /\ \A k \in 1 .. m : Front(walk)[k] = walk[k]
      <4>1. Front(walk) = SubSeq(walk, 1, m) BY DEF Front
      <4>2. Len(walk) = m + 1 OBVIOUS
      <4> HIDE DEF Front
      <4> QED BY <1>2, <4>1, <4>2
    <3>2. Chain(Front(walk)) /\ Marked(Front(walk)) = Marked(walk)
      BY <1>0, <1>1, <2>2, <3>1, ReturnMarks
    <3> QED BY <1>1, <2>1, <3>2
  <2> QED BY <2>3, <2>4
<1>7. CASE top.index < Len(ListOf(top))
  <2> PICK x : x = ListOf(top)[top.index + 1] OBVIOUS
  <2>1. x \notin Marked(walk) /\ x \in Inodes BY <1>0, <1>1, <1>7, EntryNew
  <2>2. top.index + 1 \in 1 .. Len(ListOf(top)) BY <1>4, <1>7
  <2>3. x \in InUse \ {Root} /\ inode[x].parent = top.inode BY <1>0, <2>2, EntryIs
  <2>4. ~(top.index >= Len(inode[top.inode].children)) BY <1>4, <1>7 DEF ListOf
  <2> DEFINE seen == [walk EXCEPT ![n].index = @ + 1]
             opens == inode[x].type = "dir" /\ inode[x].name \notin {".", ".."}
  <2>5. /\ printed' = Append(printed, x)
        /\ opens => walk' = Append(seen, [inode |-> Lookup(top.inode, inode[x].name), index |-> 0])
        /\ ~opens => walk' = seen
    BY <1>5, <2>4 DEF TreeStep, EntryAt, ListOf
  <2>6. /\ printed' \in Seq(Inodes) /\ Range(printed') = Range(printed) \cup {x}
        /\ IsInjective(printed')
    <3>1. x \notin Range(printed) BY <1>1, <2>1
    <3>2. /\ Append(printed, x) \in Seq(Inodes) /\ IsInjective(Append(printed, x))
          /\ Range(Append(printed, x)) = Range(printed) \cup {x}
      BY <1>1, <2>1, <3>1, PrintsOne
    <3> QED BY <2>5, <3>2
  <2> DEFINE one == [top EXCEPT !.index = @ + 1]
  <2>7. one \in Streams /\ one.inode = top.inode /\ one.index = top.index + 1
    BY <1>4 DEF Streams
  <2>8. seen = [walk EXCEPT ![n] = one] OBVIOUS
  <2> HIDE DEF one
  <2>9. /\ seen \in Seq(Streams) /\ Len(seen) = n /\ seen[n] = one
        /\ \A k \in 1 .. n - 1 : seen[k] = walk[k]
    <3> HIDE DEF seen
    <3> QED BY <1>2, <1>3, <2>7, <2>8
  <2> HIDE DEF seen, opens
  <2>10. CASE opens
    <3>1. Lookup(top.inode, inode[x].name) = x
      <4>1. inode[x].name \notin Dots BY <2>3, <2>10 DEF AllNamed, Dots, opens
      <4> QED BY <2>3, <4>1, ParentIs
    <3> DEFINE under == [inode |-> x, index |-> 0]
    <3>2. under \in Streams /\ under.inode = x /\ under.index = 0 BY <2>3 DEF Streams
    <3> HIDE DEF under
    <3>3. walk' = Append(seen, under) BY <2>5, <2>10, <3>1 DEF under
    <3> PICK v : v = Append(seen, under) OBVIOUS
    <3>4. /\ v \in Seq(Streams) /\ Len(v) = n + 1 /\ v[n + 1] = under /\ v[n] = one
          /\ \A k \in 1 .. n - 1 : v[k] = walk[k]
      <4>1. \A k \in 1 .. n : v[k] = seen[k] BY <2>9
      <4>2. \A k \in 1 .. n - 1 : k \in 1 .. n OBVIOUS
      <4>3. v \in Seq(Streams) /\ Len(v) = n + 1 /\ v[n + 1] = under BY <2>9, <3>2
      <4> QED BY <1>3, <2>9, <4>1, <4>2, <4>3
    <3>5. Chain(v) /\ Marked(v) = Marked(walk) \cup {x}
      <4>1. /\ v[n].inode = walk[n].inode /\ v[n].index = walk[n].index + 1
            /\ v[n + 1].inode = x /\ v[n + 1].index = 0
            /\ walk[n].index < Len(ListOf(walk[n])) /\ x = ListOf(walk[n])[walk[n].index + 1]
        BY <1>7, <2>7, <3>2, <3>4
      <4>2. v \in Seq(Streams) /\ Len(v) = n + 1 /\ \A k \in 1 .. n - 1 : v[k] = walk[k]
        BY <3>4
      <4>3. Enters(walk, v, n, x) BY <4>1, <4>2 DEF Enters
      <4> QED BY <1>0, <1>1, <4>3, OpensMark
    <3> QED BY <1>1, <2>6, <3>3, <3>5
  <2>11. CASE ~opens
    <3>1. inode[x].children = <<>>
      <4>1. CASE inode[x].type # "dir"
        <5>1. \A c : c \notin Kids(x) BY <1>0, <2>1, <4>1, ListedBy
        <5> PICK s : s = inode[x].children OBVIOUS
        <5>2. s \in Seq(Inodes) BY <1>0, <2>1 DEF TypeOK
        <5>3. ASSUME NEW k \in DOMAIN s PROVE FALSE
          <6> PICK c : c = s[k] OBVIOUS
          <6>1. c \in Kids(x) BY <1>0, <2>1, KidsAre
          <6> QED BY <5>1, <6>1
        <5>4. Len(s) \in Nat /\ DOMAIN s = 1 .. Len(s) BY <5>2
        <5>5. Len(s) = 0
          <6> PICK l \in Nat : l = Len(s) BY <5>4
          <6>1. l # 0 => 1 \in DOMAIN s BY <5>4
          <6> QED BY <5>3, <6>1
        <5>6. s = <<>> BY <5>2, <5>5
        <5> QED BY <5>6
      <4>2. CASE inode[x].name \in {".", ".."} BY <2>3, <4>2 DEF Tree, Leaves, Dots
      <4> QED BY <2>11, <4>1, <4>2 DEF opens
    <3>2. Chain(seen) /\ Marked(seen) = Marked(walk) \cup {x}
      <4>1. /\ seen[n].inode = walk[n].inode /\ seen[n].index = walk[n].index + 1
            /\ walk[n].index < Len(ListOf(walk[n])) /\ x = ListOf(walk[n])[walk[n].index + 1]
        BY <1>7, <2>7, <2>9
      <4>2. seen \in Seq(Streams) /\ Len(seen) = n /\ \A k \in 1 .. n - 1 : seen[k] = walk[k]
        BY <2>9
      <4>3. Passes(walk, seen, n, x) BY <3>1, <4>1, <4>2 DEF Passes
      <4> QED BY <1>0, <1>1, <4>3, PassesMark
    <3> QED BY <1>1, <2>5, <2>6, <2>11, <3>2
  <2> QED BY <2>10, <2>11
<1> QED BY <1>4, <1>6, <1>7

-----------------------------------------------------------------------------
(* The streams while the tree stays as it is.                              *)
LeastBelow ==
  TypeOK =>
    \A i \in Inodes :
      /\ Below(i) \subseteq Inodes /\ i \in Below(i) /\ ClosedDown(Below(i))
      /\ \A C : i \in C /\ ClosedDown(C) => Below(i) \subseteq C

LEMMA BelowLeastNext == LeastBelow'
<1>1. LeastBelow BY BelowLeast DEF LeastBelow
<1> QED BY <1>1, PTL

LEMMA BelowKept ==
  ASSUME TypeOK, TypeOK', inode' = inode
  PROVE  \A i \in Inodes : Below(i)' = Below(i)
<1> SUFFICES ASSUME NEW i \in Inodes PROVE Below(i)' = Below(i) OBVIOUS
<1>1. \A C : ClosedDown(C)' <=> ClosedDown(C) BY DEF ClosedDown, Kids
<1> PICK B : B = Below(i)' OBVIOUS
<1>2. i \in B /\ ClosedDown(B)' /\ \A C : i \in C /\ ClosedDown(C)' => B \subseteq C
  BY BelowLeastNext DEF LeastBelow
<1>3. /\ i \in Below(i) /\ ClosedDown(Below(i))
      /\ \A C : i \in C /\ ClosedDown(C) => Below(i) \subseteq C
  BY BelowLeast
<1>4. B \subseteq Below(i) /\ Below(i) \subseteq B BY <1>1, <1>2, <1>3
<1> QED BY <1>4

LEMMA StreamsKept ==
  ASSUME TypeOK, Standing, TypeOK', inode' = inode, NEW w, w = walk', Chain(w)
  PROVE  Chain(walk)' /\ Marked(walk)' = Marked(w)
<1>1. InUse' = InUse BY DEF InUse, FreeInodes
<1>2. Chain(walk)' BY <1>1 DEF Chain, Streams, ListOf
<1> PICK n \in Nat : n = Len(w) BY DEF Chain
<1>3. ASSUME NEW k \in 1 .. n, NEW e \in 1 .. w[k].index
      PROVE  ListOf(w[k])[e] \in Inodes
  <2>1. w[k] \in Streams /\ w[k].index <= Len(ListOf(w[k])) BY DEF Chain
  <2>2. e \in 1 .. Len(ListOf(w[k])) BY <2>1, ListLength
  <2> QED BY <2>1, <2>2, EntryIs
<1>4. \A k \in 1 .. n : w[k].inode \in Inodes
  <2>1. \A k \in 1 .. n : w[k] \in Streams BY DEF Chain
  <2> QED BY <2>1, ListLength
<1>5. \A i \in Inodes : Below(i)' = Below(i) BY BelowKept
<1>6. \A k \in 1 .. n : PassedBy(w[k])' = PassedBy(w[k])
  BY <1>3, <1>5 DEF PassedBy, ListOf
<1>7. MarkedBy(w, n)' = MarkedBy(w, n)
  <2>1. \A k \in 1 .. n : k < n => k + 1 \in 1 .. n OBVIOUS
  <2>2. \A k \in 1 .. n : k < n => Below(w[k + 1].inode)' = Below(w[k + 1].inode)
    BY <1>4, <1>5, <2>1
  <2> QED BY <1>6, <2>2 DEF MarkedBy
<1>8. Marked(walk)' = MarkedBy(w, n)' BY DEF Marked
<1> QED BY <1>2, <1>7, <1>8 DEF Marked

LEMMA TreeStepKept ==
  ASSUME Tree, Tree', WalkKept, TreeStep
  PROVE  WalkKept'
<1>0. TypeOK /\ TypeOK' /\ Standing /\ inode' = inode BY DEF Tree, TreeStep, vars
<1>1. InUse' = InUse BY <1>0 DEF InUse, FreeInodes
<1> SUFFICES ASSUME AllNamed'
             PROVE  /\ printed' \in Seq(Inodes) /\ IsInjective(printed')
                    /\ walk' # <<>> => Chain(walk)' /\ Range(printed') = Marked(walk)'
  BY DEF WalkKept
<1>2. AllNamed BY <1>0, <1>1 DEF AllNamed
<1>3. /\ printed' \in Seq(Inodes) /\ IsInjective(printed')
      /\ walk' # <<>> => Chain(walk') /\ Range(printed') = Marked(walk')
  BY <1>2, TreeTurn
<1> PICK w : w = walk' OBVIOUS
<1>4. w # <<>> => Chain(walk)' /\ Marked(walk)' = Marked(w) BY <1>0, <1>3, StreamsKept
<1> QED BY <1>3, <1>4

LEMMA TreeOpenKept ==
  ASSUME Tree, Tree', NEW begin \in Proper \cup {NULL}, NEW path \in CallPaths, TreeOpen(begin, path)
  PROVE  WalkKept'
<1> PICK i : i = Resolve(begin, path) OBVIOUS
<1>0. TypeOK /\ TypeOK' /\ Standing /\ inode' = inode BY DEF Tree, TreeOpen, vars
<1>1. i \in InUse /\ walk' = <<[inode |-> i, index |-> 0]>> /\ printed' = <<>>
  BY CallLeads DEF TreeOpen, Proper
<1> DEFINE s == [inode |-> i, index |-> 0]
<1>2. s \in Streams /\ s.index = 0 BY <1>1 DEF Streams
<1> HIDE DEF s
<1> PICK w : w = <<s>> OBVIOUS
<1>3. w \in Seq(Streams) /\ Len(w) = 1 /\ w[1] = s /\ walk' = w BY <1>1, <1>2 DEF s
<1>4. Chain(w)
  <2>1. Len(ListOf(s)) \in Nat BY <1>0, <1>2, ListLength
  <2>2. s.index <= Len(ListOf(s)) BY <1>2, <2>1
  <2> QED BY <1>3, <2>2 DEF Chain
<1>5. MarkedBy(w, 1) = {}
  <2>1. PassedBy(s) = {}
    <3>1. 1 .. 0 = {} OBVIOUS
    <3> QED BY <1>2, <3>1 DEF PassedBy
  <2>2. \A k \in 1 .. 1 : k = 1 OBVIOUS
  <2>3. 2 .. 1 = {} OBVIOUS
  <2> QED BY <1>3, <2>1, <2>2, <2>3 DEF MarkedBy
<1>6. Marked(w) = {} BY <1>3, <1>5 DEF Marked
<1>7. Chain(walk)' /\ Marked(walk)' = Marked(w) BY <1>0, <1>3, <1>4, StreamsKept
<1>8. printed' \in Seq(Inodes) /\ IsInjective(printed') /\ Range(printed') = {}
  <2>1. <<>> \in Seq(Inodes) /\ DOMAIN <<>> = {} OBVIOUS
  <2>2. IsInjective(<<>>) BY <2>1 DEF IsInjective
  <2>3. Range(<<>>) = {} BY <2>1 DEF Range
  <2> QED BY <1>1, <2>1, <2>2, <2>3
<1> QED BY <1>6, <1>7, <1>8 DEF WalkKept

LEMMA WalkStays ==
  ASSUME Tree, Tree', WalkKept, UNCHANGED <<vars, walkvars>>
  PROVE  WalkKept'
<1>0. TypeOK /\ TypeOK' /\ Standing /\ inode' = inode BY DEF Tree, vars
<1>1. InUse' = InUse /\ walk' = walk /\ printed' = printed
  BY <1>0 DEF InUse, FreeInodes, walkvars
<1> SUFFICES ASSUME AllNamed'
             PROVE  /\ printed' \in Seq(Inodes) /\ IsInjective(printed')
                    /\ walk' # <<>> => Chain(walk)' /\ Range(printed') = Marked(walk)'
  BY DEF WalkKept
<1>2. AllNamed BY <1>0, <1>1 DEF AllNamed
<1>3. /\ printed' \in Seq(Inodes) /\ IsInjective(printed')
      /\ walk' # <<>> => Chain(walk) /\ Range(printed') = Marked(walk)
  BY <1>1, <1>2 DEF WalkKept
<1> PICK w : w = walk' /\ w = walk BY <1>1
<1>4. w # <<>> => Chain(walk)' /\ Marked(walk)' = Marked(w) BY <1>0, <1>3, StreamsKept
<1> QED BY <1>3, <1>4

LEMMA WalkDone ==
  ASSUME walk = <<>>, WalkKept, UNCHANGED walkvars, AllNamed' => AllNamed
  PROVE  WalkKept'
<1>1. walk' = <<>> /\ printed' = printed BY DEF walkvars
<1> QED BY <1>1 DEF WalkKept

(* What the walks printed is what TreeListed says.                         *)
LEMMA MarkedListed ==
  ASSUME walk # <<>> => TypeOK /\ Standing, WalkKept, cwd = Junk \/ cwd[1] = "/"
  PROVE  TreeListed
<1> SUFFICES ASSUME AllNamed
             PROVE  /\ Cardinality(Range(printed)) = Len(printed)
                    /\ walk # <<>> =>
                       Range(printed) =
                         (UNION {LET list == inode[walk[k].inode].children
                                     open == IF k < Len(walk) THEN Below(walk[k + 1].inode) ELSE {} IN
                                 (UNION {Below(list[e]) : e \in 1 .. walk[k].index}) \ open
                                 : k \in DOMAIN walk})
                         \cup {walk[k].inode : k \in 2 .. Len(walk)}
  BY DEF TreeListed, AllNamed
<1>1. /\ printed \in Seq(Inodes) /\ IsInjective(printed)
      /\ walk # <<>> => Chain(walk) /\ Range(printed) = Marked(walk)
  BY DEF WalkKept
<1>2. Cardinality(Range(printed)) = Len(printed)
  <2> PICK l \in Nat : l = Len(printed) BY <1>1
  <2>1. DOMAIN printed = 1 .. l BY <1>1
  <2>2. printed \in [1 .. l -> Range(printed)] BY <1>1, <2>1 DEF Range
  <2>3. printed \in Bijection(1 .. l, Range(printed))
    BY <1>1, <2>1, <2>2 DEF Bijection, Injection, Surjection, IsInjective, Range
  <2>4. ExistsBijection(1 .. l, Range(printed)) BY <2>3 DEF ExistsBijection
  <2> QED BY <2>4, FS_CountingElements
<1>3. ASSUME walk # <<>>
      PROVE  Marked(walk) =
               (UNION {LET list == inode[walk[k].inode].children
                           open == IF k < Len(walk) THEN Below(walk[k + 1].inode) ELSE {} IN
                       (UNION {Below(list[e]) : e \in 1 .. walk[k].index}) \ open
                       : k \in DOMAIN walk})
               \cup {walk[k].inode : k \in 2 .. Len(walk)}
  <2>1. Chain(walk) /\ TypeOK /\ Standing BY <1>1, <1>3
  <2> PICK n \in Nat : n = Len(walk) /\ DOMAIN walk = 1 .. n BY <2>1 DEF Chain
  <2>2. \A k \in 1 .. n : walk[k] \in Streams /\ walk[k].index <= Len(ListOf(walk[k]))
    BY <2>1 DEF Chain
  <2>3. \A k \in 1 .. n : walk[k].inode \in Inodes BY <2>1, <2>2, ListLength
  <2>4. ASSUME NEW k \in 1 .. n, NEW e \in 1 .. walk[k].index
        PROVE  Below(ListOf(walk[k])[e]) \subseteq Inodes
    <3>1. e \in 1 .. Len(ListOf(walk[k])) BY <2>1, <2>2, ListLength
    <3>2. ListOf(walk[k])[e] \in Inodes BY <2>1, <2>2, <3>1, EntryIs
    <3> QED BY <2>1, <3>2, BelowLeast
  <2> DEFINE Deeper(k) == IF k < n THEN Below(walk[k + 1].inode) ELSE {}
             Got(k) == (UNION {Below(ListOf(walk[k])[e]) : e \in 1 .. walk[k].index}) \ Deeper(k)
  <2>5. ASSUME NEW k \in 1 .. n, NEW y
        PROVE  y \in Got(k) <=> y \in PassedBy(walk[k]) /\ (k < n => y \notin Below(walk[k + 1].inode))
    BY <2>4 DEF PassedBy
  <2> HIDE DEF Got, Deeper
  <2>6. \A y : y \in MarkedBy(walk, n) <=>
                \/ \E k \in 1 .. n : y \in Got(k)
                \/ \E k \in 2 .. n : y = walk[k].inode
    <3>1. \A k \in 1 .. n : Got(k) \subseteq Inodes BY <2>5 DEF PassedBy
    <3>2. \A k \in 2 .. n : walk[k].inode \in Inodes
      <4>1. \A k \in 2 .. n : k \in 1 .. n OBVIOUS
      <4> QED BY <2>3, <4>1
    <3> QED BY <2>5, <3>1, <3>2 DEF MarkedBy
  <2>7. MarkedBy(walk, n) = (UNION {Got(k) : k \in 1 .. n}) \cup {walk[k].inode : k \in 2 .. n}
    BY <2>6
  <2> QED BY <2>7 DEF Marked, Got, Deeper, ListOf
<1> QED BY <1>1, <1>2, <1>3

LEMMA DirsWalk ==
  ASSUME Settled, Settled', WalkKept,
         \/ /\ walk = <<>>
            /\ Calls(MkdirCall) \/ Calls(RmdirCall) \/ Calls(Chdir) \/ Calls(TreeOpen)
         \/ TreeStep \/ UNCHANGED allvars
  PROVE  WalkKept'
<1>0. Tree /\ Tree' /\ CwdText BY DEF Settled
<1>1. Root \in Proper \cup {NULL} /\ Begins \subseteq Proper \cup {NULL}
  BY <1>0, RootProper, BeginsProper
<1>2. Paths \subseteq CallPaths /\ Relative \subseteq CallPaths BY PathsCalled
<1>3. NamelessStay => (AllNamed' => AllNamed) BY DEF NamelessStay, AllNamed
<1>4. CASE walk = <<>> /\ Calls(MkdirCall)
  <2>1. PICK begin \in Proper \cup {NULL}, path \in CallPaths : MkdirCall(begin, path)
    BY <1>1, <1>2, <1>4 DEF Calls
  <2>2. NamelessStay BY <2>1, MkdirSettled
  <2>3. UNCHANGED walkvars BY <2>1 DEF MkdirCall, Forget
  <2> QED BY <1>3, <1>4, <2>2, <2>3, WalkDone
<1>5. CASE walk = <<>> /\ Calls(RmdirCall)
  <2>1. PICK begin \in Proper \cup {NULL}, path \in CallPaths : RmdirCall(begin, path)
    BY <1>1, <1>2, <1>5 DEF Calls
  <2>2. NamelessStay BY <2>1, RmdirSettled
  <2>3. UNCHANGED walkvars BY <2>1 DEF RmdirCall, Forget
  <2> QED BY <1>3, <1>5, <2>2, <2>3, WalkDone
<1>6. CASE Calls(Chdir)
  <2>1. UNCHANGED <<vars, walkvars>> BY <1>6 DEF Calls, Chdir
  <2> QED BY <1>0, <2>1, WalkStays
<1>7. CASE Calls(TreeOpen)
  <2>1. PICK begin \in Proper \cup {NULL}, path \in CallPaths : TreeOpen(begin, path)
    BY <1>1, <1>2, <1>7 DEF Calls
  <2> QED BY <1>0, <2>1, TreeOpenKept
<1>8. CASE TreeStep BY <1>0, <1>8, TreeStepKept
<1>9. CASE UNCHANGED allvars
  <2>1. UNCHANGED <<vars, walkvars>> BY <1>9 DEF allvars
  <2> QED BY <1>0, <2>1, WalkStays
<1> QED BY <1>4, <1>5, <1>6, <1>7, <1>8, <1>9

LEMMA NothingPrinted == walk = <<>> /\ printed = <<>> => WalkKept
<1>1. <<>> \in Seq(Inodes) /\ DOMAIN <<>> = {} OBVIOUS
<1>2. IsInjective(<<>>) BY <1>1 DEF IsInjective
<1> QED BY <1>1, <1>2 DEF WalkKept

LEMMA NothingPrintedNext == (walk = <<>> /\ printed = <<>> => WalkKept)'
BY NothingPrinted, PTL

(* In a tree whose inodes all have names, the tree command prints each one *)
(* below the working directory once, after its directory, and no other,    *)
(* however deep and wide the tree is (tree_recursive, fs_readdir).         *)
THEOREM TreeListedAlways == CwdSpec => []TreeListed
<1>1. CwdInit => WalkKept BY NothingPrinted DEF CwdInit
<1>2. CwdInv /\ CwdInv' /\ WalkKept /\ [CwdNext]_allvars => WalkKept'
  <2> SUFFICES ASSUME CwdInv, CwdInv', WalkKept, [CwdNext]_allvars PROVE WalkKept'
    OBVIOUS
  <2>1. CASE family' = "files"
    <3>1. walk' = <<>> /\ printed' = <<>> BY <2>1 DEF CwdInv
    <3> QED BY <3>1, NothingPrintedNext
  <2>2. CASE family' = "dirs"
    <3>1. \/ family = "files" /\ Next /\ family' = family
          \/ /\ family = "dirs"
             /\ \/ /\ walk = <<>>
                   /\ Calls(MkdirCall) \/ Calls(RmdirCall) \/ Calls(Chdir) \/ Calls(TreeOpen)
                \/ TreeStep
          \/ UNCHANGED allvars /\ family' = family
      BY DEF CwdNext, allvars
    <3>2. Settled /\ Settled' BY <2>2, <3>1 DEF CwdInv
    <3> QED BY <2>2, <3>1, <3>2, DirsWalk
  <2> QED BY <2>1, <2>2 DEF CwdInv
<1>3. CwdInv /\ WalkKept => TreeListed
  <2> SUFFICES ASSUME CwdInv, WalkKept PROVE TreeListed OBVIOUS
  <2>1. walk # <<>> => TypeOK /\ Standing BY DEF CwdInv, Settled, Tree
  <2>2. cwd = Junk \/ cwd[1] = "/"
    <3>1. family = "files" => cwd[1] = "/" BY DEF CwdInv
    <3> QED BY <3>1 DEF CwdInv, Settled, CwdText
  <2> QED BY <2>1, <2>2, MarkedListed
<1> QED BY <1>1, <1>2, <1>3, CwdInductive, PTL DEF CwdSpec

=============================================================================
