----------------------------- MODULE Environment -----------------------------
(***************************************************************************)
(* The environment of shell/shell.c: a table of names and values with room *)
(* for so many characters of each, and the expansion of $NAME in a line.   *)
(* Strings are sequences of characters; that an expanded line is cut where *)
(* its buffer ends is left out.  Nothing takes a name out of the table:    *)
(* env_unset has no caller.                                                *)
(***************************************************************************)
EXTENDS Integers, Sequences, FiniteSets, SequencesExt

CONSTANTS
  MaxEnv,                   \* MAX_ENV
  EnvNameLen, EnvValLen,    \* ENV_NAME_LEN and ENV_VAL_LEN
  NameChars,                \* letters, digits and the underscore
  Names,                    \* names that are given values
  Typed,                    \* texts that are typed: after "NAME=", or for "read"
  Behind                    \* what the memory may hold behind the NUL of a line, up to the next NUL

Dollar == "$"
Open == "{"
Close == "}"
Space == " "
EndMark == ""   \* the NUL that ends a line

ASSUME EnvironmentAssumption ==
  /\ {MaxEnv, EnvNameLen, EnvValLen} \subseteq Nat \ {0}
  /\ NameChars \subseteq STRING \ {Dollar, Open, Close, Space, EndMark}
  /\ Names \subseteq Seq(NameChars) \ {<<>>}
  /\ Typed \subseteq Seq(STRING) /\ Behind \subseteq Seq(STRING)

VARIABLES
  envTable,   \* env_table, by slot; Unused for one that is not in use
  meant       \* what each name was last set to, when there was room (not in the code)

nvenv == <<envTable, meant>>

EnvSlots == 0 .. MaxEnv - 1
Unused == [name |-> <<>>, value |-> <<>>, used |-> FALSE]
NotSet == [set |-> FALSE, value |-> <<>>]

Cut(s, size) == IF Len(s) < size THEN s ELSE SubSeq(s, 1, size - 1)

-----------------------------------------------------------------------------
(* The first slot of some, -1 for none. *)
FirstSlot(S) == IF S = {} THEN -1 ELSE CHOOSE i \in S : \A j \in S : i <= j

Found(name) == FirstSlot({i \in EnvSlots : envTable[i].used /\ envTable[i].name = name})

EnvGet(name) == IF Found(name) = -1 THEN <<>> ELSE envTable[Found(name)].value

Entry(name, value) ==
  [name |-> Cut(name, EnvNameLen), value |-> Cut(value, EnvValLen), used |-> TRUE]

FreeEntry == FirstSlot({i \in EnvSlots : ~envTable[i].used})

(* Mutant: a new entry is made as long as there is room. *)
EnvSetNew(name, value) ==
  IF FreeEntry # -1 THEN envTable' = [envTable EXCEPT ![FreeEntry] = Entry(name, value)]
  ELSE IF Found(name) # -1 THEN envTable' = [envTable EXCEPT ![Found(name)].value = Cut(value, EnvValLen)]
  ELSE UNCHANGED envTable

(* env_set looks for the whole name and keeps what there is room for. *)
EnvSet(name, value) ==
  IF Found(name) # -1 THEN envTable' = [envTable EXCEPT ![Found(name)].value = Cut(value, EnvValLen)]
  ELSE IF FreeEntry # -1 THEN envTable' = [envTable EXCEPT ![FreeEntry] = Entry(name, value)]
  ELSE UNCHANGED envTable

-----------------------------------------------------------------------------
(* How many of the characters from the i-th on are in a set. *)
RunLength(s, i, chars) ==
  CHOOSE n \in 0 .. Len(s) :
    /\ \A j \in i .. i + n - 1 : j <= Len(s) /\ s[j] \in chars
    /\ i + n > Len(s) \/ s[i + n] \notin chars

Least(a, b) == IF a < b THEN a ELSE b

(* One turn of the loop of expand_vars over the memory m: where it goes on *)
(* and what has come out.  Behind ${NAME} one character more is passed     *)
(* over, whatever it is: when it is the NUL, the loop goes on behind the   *)
(* line, where shell_run has NULs but a script or a line of several        *)
(* segments other text.  Of a name in braces that is too long the rest     *)
(* stays.                                                                  *)
ExpandTurn(m, w) ==
  LET i == w.at IN
  IF i > Len(m) \/ m[i] = EndMark THEN w
  ELSE IF m[i] # Dollar \/ i = Len(m) \/ m[i + 1] \in {Space, EndMark}
    THEN [at |-> i + 1, out |-> Append(w.out, m[i])]
  ELSE IF m[i + 1] = Open
    THEN LET n    == Least(RunLength(m, i + 2, ToSet(m) \ {Close, EndMark}), EnvNameLen - 1)
             next == IF i + 2 + n <= Len(m) /\ m[i + 2 + n] = Close THEN i + 3 + n ELSE i + 2 + n
         IN  [at |-> next + 1, out |-> w.out \o EnvGet(SubSeq(m, i + 2, i + 1 + n))]
    ELSE LET n == RunLength(m, i + 1, NameChars)
         IN  [at |-> i + 1 + n, out |-> w.out \o EnvGet(SubSeq(m, i + 1, i + Least(n, EnvNameLen - 1)))]

ExpandOver(m) ==
  LET after[k \in 0 .. Len(m)] == IF k = 0 THEN [at |-> 1, out |-> <<>>] ELSE ExpandTurn(m, after[k - 1])
  IN  after[Len(m)].out

Expand(s, behind) == ExpandOver(s \o <<EndMark>> \o behind)

UpToSpace(s) == SubSeq(s, 1, RunLength(s, 1, ToSet(s) \ {Space}))

(* What a text can become: a line is expanded by shell_handle_line, and    *)
(* each command of it again by shell_execute.                              *)
Expansions(text) == {UpToSpace(Expand(Expand(text, b), c)) : b, c \in Behind}

-----------------------------------------------------------------------------
(* env_init before its first env_set, which is like any other. *)
EnvInit ==
  /\ envTable = [i \in EnvSlots |-> Unused]
  /\ meant = [n \in Names |-> NotSet]

Sets(name, value) ==
  /\ EnvSet(name, value)
  /\ meant' = IF name \in Names /\ (Found(name) # -1 \/ FreeEntry # -1)
              THEN [meant EXCEPT ![name] = [set |-> TRUE, value |-> value]]
              ELSE meant

(* NAME=text, of which shell_execute cuts both parts before it calls. *)
Assign(name, text) ==
  \E given \in Expansions(text) : Sets(Cut(name, EnvNameLen), Cut(given, EnvValLen))

(* cmd_export *)
Export(name, text) == \E given \in Expansions(text) : Sets(name, given)

(* cmd_read: what is typed is taken as it is, and a $ in it is expanded    *)
(* when the variable is used.                                              *)
ReadLine(name, text) == Sets(name, text)

EnvNext ==
  \E name \in Names, text \in Typed : Assign(name, text) \/ Export(name, text) \/ ReadLine(name, text)

EnvSpec == EnvInit /\ [][EnvNext]_nvenv

-----------------------------------------------------------------------------
EnvTypeOK ==
  \A i \in EnvSlots :
    /\ envTable[i].used \in BOOLEAN
    /\ Len(envTable[i].name) < EnvNameLen
    /\ Len(envTable[i].value) < EnvValLen

(* $NAME is what NAME was last given, as much of it as there is room for,  *)
(* however many names there are and whether or not they fit: a name that   *)
(* is too long makes entries that it never finds again, and what stands    *)
(* for it there may be taken for a shorter name that was never set, but    *)
(* never for one that was.  What follows a reference stays as it is,       *)
(* except that one in braces takes the next character with it.             *)
EnvKept ==
  /\ EnvTypeOK
  /\ \A name \in Names :
       Len(name) < EnvNameLen =>
         /\ meant[name].set => EnvGet(name) = Cut(meant[name].value, EnvValLen)
         /\ ~meant[name].set =>
              \/ Found(name) = -1
              \/ \E long \in Names : meant[long].set /\ Len(long) >= EnvNameLen /\ Cut(long, EnvNameLen) = name
         /\ \A b \in Behind :
              /\ Expand(<<Dollar>> \o name \o <<Space, Dollar>>, b) = EnvGet(name) \o <<Space, Dollar>>
              /\ Expand(<<Dollar, Open>> \o name \o <<Close, Space, Dollar>>, b) = EnvGet(name) \o <<Dollar>>
=============================================================================
