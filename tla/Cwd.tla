---------------------------------- MODULE Cwd ----------------------------------
(***************************************************************************)
(* The working directory of fs/fs.c, which is kept as a text (cwd_path),   *)
(* the paths that begin there, and the walk of the tree command through    *)
(* directory streams.  Texts are sequences of characters, because get_path *)
(* copies a path over the old one without the NUL at its end.              *)
(***************************************************************************)
EXTENDS RamFS

CONSTANTS Spelling,   \* the characters of each name
          MaxPath,    \* FS_MAX_PATH, with the NUL
          Relative    \* paths callers use that begin in the working directory

ASSUME CwdAssumption ==
  /\ MaxPath \in Nat \ {0}
  /\ Relative \subseteq Seq(Names) \ {<<>>}

(* All names that callers use can be told from each other, and have no     *)
(* slash in them; the empty one stands between two slashes.                *)
ASSUME SpellingAssumption ==
  /\ {NoName, "etc", "passwd"} \subseteq DOMAIN Spelling
  /\ \A path \in Paths \cup Relative : Range(path) \subseteq DOMAIN Spelling
  /\ Spelling[NoName] = <<>>
  /\ \A n \in DOMAIN Spelling : Spelling[n] \in Seq(STRING \ {"/"})
  /\ \A m, n \in DOMAIN Spelling : Spelling[m] = Spelling[n] => m = n

VARIABLES cwd,      \* cwd_path up to its NUL
          home,     \* the directory last changed to, NULL once it is removed (history)
          shrunk,   \* its path was shorter than the text it was copied over (history)
          walk,     \* the streams that tree_recursive has open, outermost first
          printed,  \* the inodes that the tree command has printed
          family    \* the calls that are made in a behaviour (bound)

cwdvars == <<cwd, home, shrunk>>
walkvars == <<walk, printed>>
allvars == <<vars, cwdvars, walkvars, family>>

Unknown == "?"
Junk == <<Unknown>>

-----------------------------------------------------------------------------
(* The name that is spelled so, if any call uses it. *)
NameOf(chars) ==
  IF \E n \in DOMAIN Spelling : Spelling[n] = chars
  THEN CHOOSE n \in DOMAIN Spelling : Spelling[n] = chars ELSE Unknown

(* The components of a text that begins with a slash. *)
Components(text) ==
  LET parts == FoldLeft(LAMBDA done, c :
                 IF c = "/" THEN Append(done, <<>>)
                 ELSE [done EXCEPT ![Len(done)] = Append(@, c)], <<>>, text)
  IN [k \in DOMAIN parts |-> NameOf(parts[k])]

(* Where a relative path begins.  With no inode there, ".." is looked up   *)
(* at address 0, where none is found either.  What was cut off, or read    *)
(* from beside the buffer, may name anything that a path can name.         *)
Begins ==
  IF cwd = Junk
  THEN {NULL} \cup {i \in Inodes \ FreeInodes : inode[i].name \notin {NoName, "..", "."}}
  ELSE {Resolve(Root, Components(cwd))}

(* get_path: the names from the inode up to the root, from the end of a    *)
(* buffer of MaxPath towards its beginning; it stops before a name that    *)
(* would reach the first byte.                                             *)
PathText(i) ==
  LET Climb(done, turn) ==
        IF done.node = Root \/ done.text = Junk THEN done
        ELSE LET name == Spelling[inode[done.node].name] IN
             IF MaxPath - 1 - Len(done.text) - Len(name) < 1
             THEN [done EXCEPT !.text = Junk]
             ELSE [node |-> inode[done.node].parent,
                   text |-> <<"/">> \o name \o done.text]
      text == FoldLeft(Climb, [node |-> i, text |-> <<>>], [n \in 1 .. MaxFiles |-> n]).text
  IN IF text = <<>> THEN <<"/">> ELSE text

(* Mutant: the last character is not copied. *)
CutCopied(new, old) ==
  IF new = Junk THEN Junk
  ELSE Front(new) \o SubSeq(old, Len(new), Len(old))

(* strncpy of as many characters as the path has: no NUL. *)
Copied(new, old) ==
  IF Junk \in {new, old} THEN new
  ELSE new \o SubSeq(old, Len(new) + 1, Len(old))

Chdir(begin, path) ==
  LET i == Resolve(begin, path) IN
  /\ i # NULL /\ inode[i].type = "dir"
  /\ cwd' = Copied(PathText(i), cwd)
  /\ home' = i
  /\ shrunk' = (cwd = Junk \/ Len(PathText(i)) < Len(cwd))
  /\ UNCHANGED <<vars, walkvars, family>>

-----------------------------------------------------------------------------
(* fs_opendir, for the tree command *)
TreeOpen(begin, path) ==
  LET i == Resolve(begin, path) IN
  /\ walk = <<>>
  /\ i # NULL /\ inode[i].type = "dir"
  /\ walk' = <<[inode |-> i, index |-> 0]>>
  /\ printed' = <<>>
  /\ UNCHANGED <<vars, cwdvars, family>>

(* Mutant: the second entry is the first again. *)
Again(stream) == Max({stream.index, 1})

(* fs_readdir walks the list anew for each entry. *)
EntryAt(stream) == stream.index + 1

(* One turn of tree_recursive.  The path of a subdirectory is the path so  *)
(* far, a slash and its name: without a name it is the same directory.     *)
(* The streams end at MaxFiles, where the code's stack would end.          *)
TreeStep ==
  LET top == Last(walk)
      list == inode[top.inode].children
      entry == list[EntryAt(top)]
      below == Lookup(top.inode, inode[entry].name)
      seen == [walk EXCEPT ![Len(walk)].index = @ + 1]
  IN
  /\ walk # <<>>
  /\ IF top.index >= Len(list)
     THEN walk' = Front(walk) /\ UNCHANGED printed
     ELSE /\ printed' = Append(printed, entry)
          /\ IF inode[entry].type = "dir" /\ inode[entry].name \notin {".", ".."}
             THEN /\ Len(walk) < MaxFiles
                  /\ walk' = Append(seen, [inode |-> below, index |-> 0])
             ELSE walk' = seen
  /\ UNCHANGED <<vars, cwdvars, family>>

-----------------------------------------------------------------------------
(* Paths begin at the root or in the working directory. *)
Calls(Call(_, _)) ==
  \/ \E path \in Paths : Call(Root, path)
  \/ \E path \in Relative, begin \in Begins : Call(begin, path)

(* A call of fs that changes the tree, and what becomes of the directory   *)
(* that was changed to.                                                    *)
Forget ==
  /\ home' = IF home # NULL /\ inode'[home].name = NoName THEN NULL ELSE home
  /\ UNCHANGED <<cwd, shrunk, walkvars, family>>

MkdirCall(begin, path) == Mkdir(begin, path) /\ Forget
RmdirCall(begin, path) == Rmdir(begin, path) /\ Forget

CwdInit ==
  /\ Init
  /\ cwd = <<"/">> /\ home = Root /\ shrunk = FALSE
  /\ walk = <<>> /\ printed = <<>>
  /\ family \in {"files", "dirs"}

CwdNext ==
  \/ family = "files" /\ Next /\ UNCHANGED <<cwdvars, walkvars, family>>
  \/ /\ family = "dirs"
     /\ \/ /\ walk = <<>>
           /\ \/ Calls(MkdirCall)
              \/ Calls(RmdirCall)
              \/ Calls(Chdir)
              \/ Calls(TreeOpen)
        \/ TreeStep

CwdSpec == CwdInit /\ [][CwdNext]_allvars

-----------------------------------------------------------------------------
(* Relative paths begin in the directory last changed to, as long as it is *)
(* there, however the tree around it changed since, unless its path was    *)
(* shorter than the text before (get_path leaves the tail) or too long.    *)
CwdFound ==
  home # NULL /\ ~shrunk /\ cwd # Junk => Begins = {home}

(* The inodes at or below one, as n steps down the lists find them. *)
Below(i) ==
  FoldLeft(LAMBDA found, n : found \cup UNION {Range(inode[d].children) : d \in found},
           {i}, [n \in 1 .. MaxFiles |-> n])

(* While the tree command walks a tree in which every directory has a      *)
(* name, it prints each inode once, after its directory: those that the    *)
(* streams have passed, with all that is below them, and no other.         *)
TreeListed ==
  /\ cwd = Junk \/ cwd[1] = "/"
  /\ (\A i \in InUse : inode[i].name # NoName) =>
     /\ Cardinality(Range(printed)) = Len(printed)
     /\ walk # <<>> =>
        Range(printed) =
          (UNION {LET list == inode[walk[k].inode].children
                      open == IF k < Len(walk) THEN Below(walk[k + 1].inode) ELSE {} IN
                  (UNION {Below(list[e]) : e \in 1 .. walk[k].index}) \ open
                  : k \in DOMAIN walk})
          \cup {walk[k].inode : k \in 2 .. Len(walk)}
=============================================================================
