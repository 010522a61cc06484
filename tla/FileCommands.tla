----------------------------- MODULE FileCommands -----------------------------
(***************************************************************************)
(* cp of shell/shell.c, as the calls of fs/fs.c that it makes one after    *)
(* the other.  Descriptors that others hold stay open meanwhile, and the   *)
(* pools of descriptors, inodes and blocks may run out at every call.  mv  *)
(* is cp and an fs_unlink, which refuses.                                  *)
(***************************************************************************)
EXTENDS RamFS

CONSTANT BufSize    \* of the buffer that cp copies through

ASSUME BufSizeAssumption == BufSize \in Nat \ {0}

VARIABLES
  stage,   \* the call that the command makes next
  ends,    \* where cp copies to, and its two descriptors
  buffer,  \* what was read and not yet written
  short,   \* a write stored less than it was given (history)
  kind     \* the calls that are made in a behaviour (bound)

comvars == <<stage, ends, buffer, short>>
filevars == <<vars, comvars, kind>>

Idle == "idle"
NoFd == -1
Nobody == [to |-> <<>>, src |-> NoFd, dst |-> NoFd]

(* fs_open returns the first descriptor that is free. *)
Opened == Min({f \in Fds : fd[f].inode = NULL})

(* cp <from> <to> *)
CpStart ==
  /\ \E from, to \in Paths :
       /\ Open(Root, from, {}) /\ fd' # fd
       /\ ends' = [to |-> to, src |-> Opened, dst |-> NoFd]
  /\ stage' = "create"
  /\ UNCHANGED <<buffer, short>>

(* Mutant: an old file is not cut. *)
CpKeeps ==
  /\ stage = "create"
  /\ IF MayOpen(Root, ends.to, {"CREAT"})
     THEN Open(Root, ends.to, {"CREAT"}) ELSE UNCHANGED vars
  /\ IF fd' # fd
     THEN stage' = "read" /\ ends' = [ends EXCEPT !.dst = Opened]
     ELSE stage' = "close" /\ UNCHANGED ends
  /\ UNCHANGED <<buffer, short>>

(* The file is created, or cut, even when no descriptor is left for it. *)
CpCreate ==
  /\ stage = "create"
  /\ IF MayOpen(Root, ends.to, {"CREAT", "TRUNC"})
     THEN Open(Root, ends.to, {"CREAT", "TRUNC"}) ELSE UNCHANGED vars
  /\ IF fd' # fd
     THEN stage' = "read" /\ ends' = [ends EXCEPT !.dst = Opened]
     ELSE stage' = "close" /\ UNCHANGED ends
  /\ UNCHANGED <<buffer, short>>

(* The bytes that fs_read copies out. *)
BytesRead(f, n) ==
  LET i == fd[f].inode
      got == Max({0, Min({n, inode[i].size - fd[f].pos})})
  IN [k \in 1 .. got |-> ByteAt(i, fd[f].pos + k - 1)]

CpRead ==
  /\ stage = "read"
  /\ Read(ends.src, BufSize)
  /\ buffer' = BytesRead(ends.src, BufSize)
  /\ stage' = IF buffer' = <<>> THEN "close" ELSE "write"
  /\ UNCHANGED <<ends, short>>

(* What fs_write returns is not looked at. *)
CpWrite ==
  /\ stage = "write"
  /\ Write(ends.dst, buffer)
  /\ short' = (short \/ fd'[ends.dst].pos < fd[ends.dst].pos + Len(buffer))
  /\ stage' = "read"
  /\ UNCHANGED <<ends, buffer>>

(* Both ends are closed, the source first. *)
CpClose ==
  /\ stage = "close"
  /\ Close(ends.src)
  /\ IF ends.dst = NoFd
     THEN stage' = Idle /\ ends' = Nobody
     ELSE stage' = "close2" /\ ends' = [ends EXCEPT !.src = NoFd]
  /\ buffer' = <<>> /\ short' = FALSE

CpClose2 ==
  /\ stage = "close2"
  /\ Close(ends.dst)
  /\ stage' = Idle /\ ends' = Nobody
  /\ UNCHANGED <<buffer, short>>

FileInit ==
  /\ Init
  /\ stage = Idle /\ ends = Nobody /\ buffer = <<>> /\ short = FALSE
  /\ kind \in {"calls", "commands"}

(* What redirections and other writers do; they seek only in files that    *)
(* are empty (bound).                                                      *)
Saves ==
  \/ \E path \in Paths, mode \in Modes : Open(Root, path, mode)
  \/ \E f \in Fds :
       \/ Close(f)
       \/ \E data \in Writes : Write(f, data)
       \/ \E offset \in Offsets :
            fd[f].inode # NULL /\ inode[fd[f].inode].size = 0 /\ Seek(f, offset)

FileNext ==
  /\ \/ stage = Idle /\ kind = "calls" /\ Next /\ UNCHANGED comvars
     \/ stage = Idle /\ kind = "commands" /\ Saves /\ UNCHANGED comvars
     \/ stage = Idle /\ kind = "commands" /\ CpStart
     \/ CpCreate \/ CpRead \/ CpWrite \/ CpClose \/ CpClose2
  /\ UNCHANGED kind

FileSpec == FileInit /\ [][FileNext]_filevars

-----------------------------------------------------------------------------
Prefix(s, t) == Len(s) <= Len(t) /\ s = SubSeq(t, 1, Len(s))

(* When cp has read all, the new file holds what the old one does, or its  *)
(* beginning if blocks ran out on the way (cp does not look at what        *)
(* fs_write returns), and nothing of what it held before; a file that is   *)
(* copied onto itself is empty.                                            *)
CopyKept ==
  stage = "close" /\ ends.dst # NoFd =>
    LET old == content[fd[ends.src].inode]
        new == content[fd[ends.dst].inode] IN
    /\ Prefix(new, old)
    /\ short \/ new = old
    /\ fd[ends.src].inode = fd[ends.dst].inode => new = <<>>
=============================================================================
