------------------------------- MODULE RamFS -------------------------------
(***************************************************************************)
(* The in-memory file system of fs/fs.c: a pool of inodes linked into a    *)
(* tree, a table of open files, and a pool of blocks.  A path is given as  *)
(* the inode where it begins and the sequence of what stands between its   *)
(* slashes: "/" is <<"">>, "/a/b" is <<"a", "b">> and "/a/" is <<"a", "">>,*)
(* all from the root.  Each call runs to its end before the next one: the  *)
(* kernel has one thread that calls fs.  A call that fails before it       *)
(* changed anything is a stutter.                                          *)
(***************************************************************************)
EXTENDS Integers, FiniteSets, SequencesExt

CONSTANTS MaxFiles,    \* FS_MAX_FILES, inodes in the pool
          MaxOpen,     \* FS_MAX_OPEN
          MaxBlocks,   \* FS_MAX_BLOCKS
          BlockSize,   \* FS_BLOCK_SIZE
          Direct,      \* blocks an inode has room for, 12 in the code
          Word,        \* 2^32: ref_count is a uint32_t
          Names,       \* names of inodes, and what stands in paths
          Paths,       \* paths callers use
          Modes,       \* flags callers open with, subsets of {"CREAT", "TRUNC", "APPEND"}
          Writes,      \* byte strings callers write
          Offsets,     \* offsets callers seek by
          MaxPos       \* bound of the model: callers seek no further

ASSUME RamFSAssumption ==
  /\ {MaxFiles, MaxOpen, MaxBlocks, BlockSize, Direct, Word} \subseteq Nat \ {0}
  /\ MaxFiles >= 3 /\ Word > MaxOpen + 1
  /\ Writes \subseteq Seq(Nat)
  /\ Offsets \subseteq Nat /\ MaxPos \in Nat

ASSUME PathsAssumption ==
  /\ {"", "/", "etc", "passwd"} \subseteq Names
  /\ Paths \subseteq Seq(Names) \ {<<>>}

VARIABLES inode,    \* inode_pool: number -> its fields
          fd,       \* fd_table: number -> inode (0 when not in use) and position
          used,     \* block_used, the set of blocks marked
          storage,  \* block_storage
          content,  \* what each file holds, by the promise of the calls (history)
          stale     \* a directory was removed while it was open (history)

vars == <<inode, fd, used, storage, content, stale>>

NULL == 0
Root == 1
Inodes == 1 .. MaxFiles
Blocks == 0 .. MaxBlocks - 1
Fds == 0 .. MaxOpen - 1
NoName == ""
Zeros == [o \in 0 .. BlockSize - 1 |-> 0]
NoBlocks == [k \in 0 .. Direct - 1 |-> 0]

(* An inode without data *)
Node(name, type, ref, parent, children) ==
  [name |-> name, type |-> type, size |-> 0, ref |-> ref,
   blocks |-> NoBlocks, parent |-> parent, children |-> children]

Blank == Node(NoName, "file", 0, NULL, <<>>)
Closed == [inode |-> NULL, pos |-> 0]

(***************************************************************************)
(* Looking up                                                              *)
(***************************************************************************)
(* The list child, sibling, sibling ... of a directory is the sequence     *)
(* children; find_child returns its first member with the name.            *)
FindChild(d, name) ==
  LET hits == {k \in DOMAIN inode[d].children :
                 inode[inode[d].children[k]].name = name}
  IN IF d = NULL \/ inode[d].type # "dir" \/ hits = {} THEN NULL
     ELSE inode[d].children[Min(hits)]

Lookup(d, component) ==
  IF d = NULL THEN NULL
  ELSE IF component \in {".", ""} THEN d
  ELSE IF component = ".." THEN inode[d].parent
  ELSE FindChild(d, component)

(* resolve_path, from the root or from the working directory *)
Resolve(begin, path) == FoldLeft(Lookup, begin, path)

(* Inodes that alloc_inode may hand out; it takes the first. *)
FreeInodes == {i \in Inodes : inode[i].ref = 0 /\ inode[i].name = NoName}

(* open files of an inode *)
OpenOf(i) == {f \in Fds : fd[f].inode = i}

(* blocks that truncation and removal give back *)
BlocksOf(i) == {inode[i].blocks[k] : k \in 0 .. Direct - 1} \ {0}

(***************************************************************************)
(* fs_init as it is about to make its first fs_write: the root, and one    *)
(* directory and one file of those it creates, which is open.  The rest of *)
(* fs_init calls fs_mkdir, fs_open, fs_write and fs_close like any caller. *)
(***************************************************************************)
Init ==
  /\ inode = [i \in Inodes |->
       IF i = 1 THEN Node("/", "dir", 1, Root, <<2>>)
       ELSE IF i = 2 THEN Node("etc", "dir", 1, Root, <<3>>)
       ELSE IF i = 3 THEN Node("passwd", "file", 2, 2, <<>>)
       ELSE Blank]
  /\ fd = [f \in Fds |-> IF f = 0 THEN [inode |-> 3, pos |-> 0] ELSE Closed]
  /\ used = {}
  /\ storage = [b \in Blocks |-> Zeros]
  /\ content = [i \in Inodes |-> <<>>]
  /\ stale = FALSE

(***************************************************************************)
(* fs_open                                                                 *)
(***************************************************************************)
(* alloc_inode, then add_child at the head of the list *)
Created(i, d, name, type) ==
  LET made == [inode EXCEPT ![i] = Node(name, type, 1, d, <<>>)]
  IN [made EXCEPT ![d].children = <<i>> \o @]

MayCreate(begin, path) ==
  /\ Resolve(begin, path) = NULL
  /\ Resolve(begin, Front(path)) # NULL
  /\ inode[Resolve(begin, Front(path))].type = "dir"
  /\ FreeInodes # {}

MayOpen(begin, path, mode) ==
  Resolve(begin, path) = NULL => "CREAT" \in mode /\ MayCreate(begin, path)

Open(begin, path, mode) ==
  LET new == Resolve(begin, path) = NULL
      i == IF new THEN Min(FreeInodes) ELSE Resolve(begin, path)
      there == IF new THEN Created(i, Resolve(begin, Front(path)), Last(path), "file") ELSE inode
      cut == IF "TRUNC" \in mode
             THEN [there EXCEPT ![i].size = 0, ![i].blocks = NoBlocks] ELSE there
      free == {f \in Fds : fd[f].inode = NULL}
  IN
  /\ MayOpen(begin, path, mode)
  /\ used' = IF "TRUNC" \in mode /\ ~new THEN used \ BlocksOf(i) ELSE used
  /\ content' = IF "TRUNC" \in mode \/ new THEN [content EXCEPT ![i] = <<>>] ELSE content
  /\ IF free = {}
     THEN /\ inode' = cut
          /\ UNCHANGED fd
     ELSE /\ inode' = [cut EXCEPT ![i].ref = (@ + 1) % Word]
          /\ fd' = [fd EXCEPT ![Min(free)] =
                      [inode |-> i, pos |-> IF "APPEND" \in mode THEN cut[i].size ELSE 0]]
  /\ UNCHANGED <<storage, stale>>

Close(f) ==
  /\ fd[f].inode # NULL
  /\ inode' = [inode EXCEPT ![fd[f].inode].ref = (@ - 1) % Word]
  /\ fd' = [fd EXCEPT ![f] = Closed]
  /\ UNCHANGED <<used, storage, content, stale>>

(***************************************************************************)
(* fs_write: block by block, and a short count when there is none left.    *)
(***************************************************************************)
(* Mutant: block_used is not looked at. *)
LastBlock(marked) == MaxBlocks - 1

(* alloc_block: the first block that is not used; block 0 is marked too,   *)
(* but the 0 returned is taken for a failure.                              *)
FirstFree(marked) == IF Blocks \subseteq marked THEN 0 ELSE Min(Blocks \ marked)

(* Mutant: a block taken again keeps its old bytes. *)
NotCleared(new, bytes) == bytes

(* What a block holds before it is written: alloc_block clears it. *)
Cleared(new, bytes) == IF new THEN Zeros ELSE bytes

(* One turn of the loop on the state w of the write, for the next bytes    *)
(* that lie in one block.                                                  *)
Chunk(data, w) ==
  LET k == w.pos \div BlockSize
      o == w.pos % BlockSize
      n == Min({BlockSize - o, Len(data) - w.done})
      missing == w.blocks[k] = 0
      b == IF missing THEN FirstFree(w.used) ELSE w.blocks[k]
      before == Cleared(missing, w.storage[b])
      marked == IF missing /\ ~(Blocks \subseteq w.used) THEN w.used \cup {b} ELSE w.used
  IN
  IF w.stop \/ w.done = Len(data) THEN w
  ELSE IF k >= Direct THEN [w EXCEPT !.stop = TRUE]
  ELSE IF b = 0 THEN [w EXCEPT !.stop = TRUE, !.used = marked]
  ELSE [pos |-> w.pos + n, done |-> w.done + n, stop |-> FALSE, used |-> marked,
        blocks |-> [w.blocks EXCEPT ![k] = b],
        storage |-> [w.storage EXCEPT ![b] =
          [q \in 0 .. BlockSize - 1 |->
             IF q \in o .. o + n - 1 THEN data[w.done + q - o + 1] ELSE before[q]]]]

Written(f, data) ==
  FoldLeft(LAMBDA w, turn : Chunk(data, w),
           [pos |-> fd[f].pos, done |-> 0, stop |-> FALSE, used |-> used,
            blocks |-> inode[fd[f].inode].blocks, storage |-> storage],
           [turn \in 1 .. Len(data) |-> turn])

(* What a file is promised to hold after n bytes of data were written at   *)
(* pos: the bytes, after zeros if pos was beyond the end.                  *)
Promised(old, pos, data, n) ==
  [q \in 1 .. Max({Len(old), pos + n}) |->
     IF q > pos /\ q <= pos + n THEN data[q - pos]
     ELSE IF q <= Len(old) THEN old[q] ELSE 0]

Write(f, data) ==
  /\ fd[f].inode # NULL
  /\ LET i == fd[f].inode
         w == Written(f, data)
     IN
     /\ inode' = [inode EXCEPT ![i].blocks = w.blocks,
                               ![i].size = Max({@, w.pos})]
     /\ fd' = [fd EXCEPT ![f].pos = w.pos]
     /\ used' = w.used
     /\ storage' = w.storage
     /\ content' = [content EXCEPT ![i] = Promised(@, fd[f].pos, data, w.done)]
  /\ UNCHANGED stale

(* fs_read moves the position by what there is to read, up to n. *)
Read(f, n) ==
  /\ fd[f].inode # NULL
  /\ LET left == inode[fd[f].inode].size - fd[f].pos
         got == Max({0, Min({n, left})})
     IN
     /\ fd' = [fd EXCEPT ![f].pos = @ + got]
  /\ UNCHANGED <<inode, used, storage, content, stale>>

(* SEEK_SET, SEEK_CUR and SEEK_END. *)
Seek(f, offset) ==
  /\ fd[f].inode # NULL
  /\ \E base \in {0, fd[f].pos, inode[fd[f].inode].size} :
       /\ base + offset <= MaxPos
       /\ fd' = [fd EXCEPT ![f].pos = base + offset]
  /\ UNCHANGED <<inode, used, storage, content, stale>>

(***************************************************************************)
(* fs_mkdir, fs_unlink, fs_rmdir                                           *)
(***************************************************************************)
Mkdir(begin, path) ==
  /\ LET d == Resolve(begin, Front(path)) IN
     /\ d # NULL /\ inode[d].type = "dir"
     /\ FindChild(d, Last(path)) = NULL
     /\ FreeInodes # {}
     /\ inode' = Created(Min(FreeInodes), d, Last(path), "dir")
     /\ content' = [content EXCEPT ![Min(FreeInodes)] = <<>>]
  /\ UNCHANGED <<fd, used, storage, stale>>

(* remove_child and free_inode: the links of the inode itself are kept. *)
Removed(i) ==
  /\ inode' = [inode EXCEPT
       ![inode[i].parent].children = RemoveFirst(@, i),
       ![i].blocks = NoBlocks, ![i].name = NoName, ![i].ref = 0]
  /\ used' = used \ BlocksOf(i)
  /\ UNCHANGED <<fd, storage, content>>

(* fs_unlink refuses as long as anything refers to the inode. *)
Removable(i) == inode[i].ref = 0

Unlink(begin, path) ==
  LET i == Resolve(begin, path) IN
  /\ i # NULL
  /\ inode[i].type # "dir"
  /\ Removable(i)
  /\ Removed(i)
  /\ UNCHANGED stale

(* Mutant: directories that are not empty, too. *)
RmdirFull(begin, path) ==
  LET i == Resolve(begin, path) IN
  /\ i # NULL
  /\ inode[i].type = "dir"
  /\ Removed(i)
  /\ stale' = (stale \/ OpenOf(i) # {})

Rmdir(begin, path) ==
  LET i == Resolve(begin, path) IN
  /\ i # NULL
  /\ inode[i].type = "dir"
  /\ inode[i].children = <<>>
  /\ Removed(i)
  /\ stale' = (stale \/ OpenOf(i) # {})

Next ==
  \/ \E path \in Paths :
       \/ \E mode \in Modes : Open(Root, path, mode)
       \/ Mkdir(Root, path)
       \/ Unlink(Root, path)
       \/ Rmdir(Root, path)
  \/ \E f \in Fds :
       \/ Close(f)
       \/ \E data \in Writes : Write(f, data) \/ Read(f, Len(data))
       \/ \E offset \in Offsets : Seek(f, offset)

Spec == Init /\ [][Next]_vars

-----------------------------------------------------------------------------
InUse == Inodes \ FreeInodes

(* Type invariant. *)
TypeOK ==
  /\ inode \in [Inodes -> [name : Names, type : {"file", "dir"}, size : Nat,
                          ref : 0 .. Word - 1, blocks : [0 .. Direct - 1 -> Blocks],
                          parent : Inodes \cup {NULL}, children : Seq(Inodes)]]
  /\ fd \in [Fds -> [inode : Inodes \cup {NULL}, pos : Nat]]
  /\ used \subseteq Blocks
  /\ storage \in [Blocks -> [0 .. BlockSize - 1 -> Nat]]
  /\ content \in [Inodes -> Seq(Nat)]
  /\ stale \in BOOLEAN

(* No block belongs to two files or twice to one, and none that belongs to *)
(* a file is up for allocation, whatever is removed while it is open       *)
(* (alloc_block, O_TRUNC in fs_open, free_inode).                          *)
BlocksExclusive ==
  \A i, j \in Inodes : \A k, l \in 0 .. Direct - 1 :
    inode[i].blocks[k] # 0 =>
      /\ inode[i].blocks[k] \in used
      /\ inode[i].blocks[k] = inode[j].blocks[l] => i = j /\ k = l

(* An inode's reference count is one for its name and one for each open    *)
(* file, so that an open file's inode is never handed out again, as long   *)
(* as no open directory was removed.                                       *)
RefCounts ==
  ~stale =>
  \A i \in Inodes :
    IF i \in InUse THEN inode[i].ref = 1 + Cardinality(OpenOf(i)) ELSE OpenOf(i) = {}

(* The inodes from which n steps of ".." lead to the root. *)
Up[n \in Nat] == IF n = 0 THEN {Root} ELSE {i \in Inodes : inode[i].parent \in Up[n - 1]}

Rooted ==
  /\ \A i \in InUse \ {Root} :
       /\ inode[i].parent \in InUse
       /\ inode[inode[i].parent].type = "dir"
       /\ \A d \in Inodes : Range(inode[d].children) \cap {i} # {} => d = inode[i].parent
       /\ i \in Range(inode[inode[i].parent].children)
  /\ InUse \subseteq Up[MaxFiles]
  /\ \A d \in InUse : \A k, l \in DOMAIN inode[d].children :
       LET c == inode[d].children IN
       /\ c[k] \in InUse
       /\ k # l => c[k] # c[l] /\ inode[c[k]].name # inode[c[l]].name

(* The inodes in use are a tree: each but the root is listed once, by its  *)
(* parent, a directory in use from which the root is reached by "..", and  *)
(* no directory lists two entries of one name, even when an fs_open that   *)
(* ran out of descriptors had made its file already; and no inode that is  *)
(* open leaves it.                                                         *)
TreeSound == TypeOK /\ RefCounts /\ (~stale => Rooted)

(* Byte o of the file, as fs_read finds it. *)
ByteAt(i, o) ==
  LET k == o \div BlockSize IN
  IF k < Direct /\ inode[i].blocks[k] # 0
  THEN storage[inode[i].blocks[k]][o % BlockSize] ELSE 0

(* What is read from a file is what was written to it and not cut off:     *)
(* neither another file's writes, through a shared or stale block, nor a   *)
(* write that ran out of blocks half way, nor truncation under another     *)
(* descriptor changes a byte of it; and truncation and removal give back   *)
(* all the blocks that writes took.  Block 0 is the exception, marked once *)
(* and lost.                                                               *)
ContentsKept ==
  ~stale =>
    /\ used \subseteq {0} \cup UNION {Range(inode[i].blocks) : i \in InUse}
    /\ \A i \in InUse :
         /\ inode[i].size = Len(content[i])
         /\ \A o \in 0 .. inode[i].size - 1 : ByteAt(i, o) = content[i][o + 1]

(* fs_write stops short when "too many blocks" are needed or none is free. *)
WritesWhatFits ==
  [][\A f \in Fds, data \in Writes :
       /\ Write(f, data)
       /\ fd[f].pos + Len(data) <= Direct * BlockSize
       /\ Cardinality(Blocks \ used) >= Direct
       => fd'[f].pos = fd[f].pos + Len(data)]_vars
=============================================================================
