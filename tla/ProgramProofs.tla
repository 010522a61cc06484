---------------------------- MODULE ProgramProofs ----------------------------
(***************************************************************************)
(* Proofs about parts of the shell that keep a table of their own: the     *)
(* windows and their widgets, the blocks of the script engine, the at      *)
(* jobs, the lines of the editor, and the names of the environment, for    *)
(* tables of any size; that files which execute one another come to an     *)
(* end; and about two of the games, hangman and the snake.                 *)
(***************************************************************************)
EXTENDS Windows, Engine, AtJobs, Sources, Editor, Environment, Hangman, Snake,
        FiniteSetTheorems, SequenceTheorems, WellFoundedInduction, TLAPS

Widget == [id : 1 .. MaxWidgetId, block : Blocks]

(* What the properties rely on: the numbers that were given out are below  *)
(* the next, and a window that is not on the screen has no widgets, unless *)
(* it was hidden or given one.                                             *)
ListsKept ==
  /\ widgets \in [Slots -> Seq(Widget)]
  /\ DOMAIN madeFor = 1 .. MaxWidgetId
  /\ \A i \in Slots : IsFiniteSet(BlocksOf(i))
  /\ \A i \in Slots : \A w \in Listed(i) : w.id < nextWidgetId

HiddenEmpty == inTurn => \A i \in Slots : ~visible[i] => widgets[i] = <<>>

WinInv == WidgetsOwned /\ ListsKept /\ HiddenEmpty

-----------------------------------------------------------------------------
(* What is on a list with one more element in front.                       *)
LEMMA PrependedSet ==
  ASSUME NEW S, NEW s \in Seq(S), NEW x \in S
  PROVE  /\ <<x>> \o s \in Seq(S) /\ Len(<<x>> \o s) = Len(s) + 1
         /\ ToSet(<<x>> \o s) = {x} \cup ToSet(s)
<1> DEFINE t == <<x>> \o s
<1>1. Len(s) \in Nat /\ t \in Seq(S) /\ Len(t) = Len(s) + 1
  OBVIOUS
<1>2. t[1] = x /\ \A k \in 1 .. Len(s) : t[k + 1] = s[k]
  OBVIOUS
<1>3. DOMAIN t = 1 .. Len(s) + 1 /\ DOMAIN s = 1 .. Len(s)
  BY <1>1
<1> HIDE DEF t
<1>4. ASSUME NEW y \in ToSet(t) PROVE y \in {x} \cup ToSet(s)
  <2>1. PICK k \in 1 .. Len(s) + 1 : y = t[k]
    BY <1>3, <1>4 DEF ToSet
  <2>2. CASE k = 1
    BY <1>2, <2>1, <2>2
  <2>3. CASE k # 1
    <3>1. k - 1 \in 1 .. Len(s) /\ (k - 1) + 1 = k
      BY <1>1, <2>1, <2>3
    <3>2. y = s[k - 1]
      BY <1>2, <2>1, <3>1
    <3> QED
      BY <1>3, <3>1, <3>2 DEF ToSet
  <2> QED
    BY <2>2, <2>3
<1>5. ASSUME NEW y \in {x} \cup ToSet(s) PROVE y \in ToSet(t)
  <2>1. CASE y = x
    BY <1>1, <1>2, <1>3, <2>1 DEF ToSet
  <2>2. CASE y \in ToSet(s)
    <3>1. PICK k \in 1 .. Len(s) : y = s[k]
      BY <1>3, <2>2 DEF ToSet
    <3>2. k + 1 \in 1 .. Len(s) + 1 /\ y = t[k + 1]
      BY <1>1, <1>2, <3>1
    <3> QED
      BY <1>3, <3>2 DEF ToSet
  <2> QED
    BY <1>5, <2>1, <2>2
<1> QED
  BY <1>1, <1>4, <1>5 DEF t

LEMMA EmptyList == ToSet(<<>>) = {}
BY DEF ToSet

(* Sets of windows can be counted.                                         *)
LEMMA SlotsFinite ==
  ASSUME NEW S \in SUBSET Slots
  PROVE  IsFiniteSet(S) /\ Cardinality(S) \in Nat
<1>1. GuiMaxWindows \in Int
  BY WindowsAssumption
<1>2. IsFiniteSet(Slots)
  BY <1>1, FS_Interval DEF Slots
<1>3. IsFiniteSet(S)
  BY <1>2, FS_Subset
<1> QED
  BY <1>3, FS_CardinalityType

(* The types, spelt out.                                                   *)
LEMMA WinTypes ==
  ASSUME WinInv
  PROVE  /\ visible \in [Slots -> BOOLEAN] /\ focused \in [Slots -> BOOLEAN]
         /\ widgets \in [Slots -> Seq(Widget)] /\ focusedWindow \in Slots \cup {-1}
         /\ windowCount \in Int /\ nextWidgetId \in 1 .. MaxWidgetId + 1
         /\ running \in BOOLEAN /\ allocated \in SUBSET Blocks
         /\ uses \in [Slots -> 0 .. MaxUses] /\ inTurn \in BOOLEAN
         /\ DOMAIN madeFor = 1 .. MaxWidgetId
BY DEF WinInv, WidgetsOwned, WindowsTypeOK, ListsKept

LEMMA WinTypesNext ==
  ASSUME visible' \in [Slots -> BOOLEAN], focused' \in [Slots -> BOOLEAN],
         ListsKept', focusedWindow' \in Slots \cup {-1},
         windowCount' \in Int, nextWidgetId' \in 1 .. MaxWidgetId + 1,
         running' \in BOOLEAN, allocated' \in SUBSET Blocks,
         uses' \in [Slots -> 0 .. MaxUses], inTurn' \in BOOLEAN
  PROVE  WindowsTypeOK'
<1>1. \A i \in Slots : widgets'[i] \in Seq([id : 1 .. MaxWidgetId, block : Blocks])
  BY DEF ListsKept, Widget
<1> QED
  BY <1>1 DEF WindowsTypeOK

LEMMA ListedTyped ==
  ASSUME WinInv, NEW i \in Slots, NEW w \in Listed(i)
  PROVE  w \in Widget
<1>1. widgets[i] \in Seq(Widget)
  BY DEF WinInv, ListsKept
<1> QED
  BY <1>1 DEF Listed, ToSet

-----------------------------------------------------------------------------
(* The lists of some windows are emptied, and what was on them is given    *)
(* back or was nothing.                                                    *)
Emptied(C) == widgets' = [i \in Slots |-> IF i \in C THEN <<>> ELSE widgets[i]]

LEMMA EmptiedLists ==
  ASSUME WinInv, NEW C \in SUBSET Slots, Emptied(C), NEW i \in Slots
  PROVE  /\ Listed(i)' = IF i \in C THEN {} ELSE Listed(i)
         /\ BlocksOf(i)' = IF i \in C THEN {} ELSE BlocksOf(i)
         /\ Len(widgets'[i]) = IF i \in C THEN 0 ELSE Len(widgets[i])
         /\ widgets'[i] \in Seq(Widget)
<1>1. CASE i \in C
  <2>1. widgets'[i] = <<>>
    BY <1>1 DEF Emptied
  <2> QED
    BY <1>1, <2>1, EmptyList DEF Listed, BlocksOf
<1>2. CASE i \notin C
  <2>1. widgets'[i] = widgets[i]
    BY <1>2 DEF Emptied
  <2> QED
    BY <1>2, <2>1, WinTypes DEF Listed, BlocksOf
<1> QED
  BY <1>1, <1>2

LEMMA EmptiedKeeps ==
  ASSUME WinInv, NEW C \in SUBSET Slots, Emptied(C),
         \A i \in Slots \ C : BlocksOf(i) \subseteq allocated' /\ uses'[i] = uses[i],
         C = Slots \/ (madeFor' = madeFor /\ nextWidgetId' = nextWidgetId),
         DOMAIN madeFor' = 1 .. MaxWidgetId
  PROVE  NoDangling' /\ HandlesStable' /\ ListsKept'
<1>1. ASSUME NEW i \in Slots
      PROVE  /\ Listed(i)' = IF i \in C THEN {} ELSE Listed(i)
             /\ BlocksOf(i)' = IF i \in C THEN {} ELSE BlocksOf(i)
             /\ Len(widgets'[i]) = IF i \in C THEN 0 ELSE Len(widgets[i])
             /\ widgets'[i] \in Seq(Widget)
  BY EmptiedLists
<1>2. NoDangling'
  <2>1. \A i \in Slots : BlocksOf(i)' \subseteq allocated'
    BY <1>1
  <2>2. \A i, j \in Slots : i # j => BlocksOf(i)' \cap BlocksOf(j)' = {}
    BY <1>1 DEF WinInv, WidgetsOwned, NoDangling
  <2>3. \A i \in Slots : Cardinality(BlocksOf(i)') = Len(widgets'[i])
    BY <1>1, FS_EmptySet DEF WinInv, WidgetsOwned, NoDangling
  <2> QED
    BY <2>1, <2>2, <2>3 DEF NoDangling
<1>3. HandlesStable'
  <2>1. ASSUME NEW i \in Slots, NEW w \in Listed(i)'
        PROVE  madeFor'[w.id] = <<i, uses'[i]>>
    <3>1. i \notin C /\ w \in Listed(i)
      BY <1>1, <2>1
    <3>2. madeFor[w.id] = <<i, uses[i]>>
      BY <3>1 DEF WinInv, WidgetsOwned, HandlesStable
    <3> QED
      BY <3>1, <3>2
  <2>2. ASSUME NEW i \in Slots, NEW j \in Slots,
               NEW v \in Listed(i)', NEW w \in Listed(j)', v.id = w.id
        PROVE  v = w
    <3>1. v \in Listed(i) /\ w \in Listed(j)
      BY <1>1
    <3> QED
      BY <2>2, <3>1 DEF WinInv, WidgetsOwned, HandlesStable
  <2> QED
    BY <2>1, <2>2 DEF HandlesStable
<1>4. ListsKept'
  <2>1. widgets' \in [Slots -> Seq(Widget)]
    BY <1>1 DEF Emptied
  <2>2. \A i \in Slots : IsFiniteSet(BlocksOf(i)')
    BY <1>1, FS_EmptySet DEF WinInv, ListsKept
  <2>3. \A i \in Slots : \A w \in Listed(i)' : w.id < nextWidgetId'
    BY <1>1 DEF WinInv, ListsKept
  <2> QED
    BY <2>1, <2>2, <2>3 DEF ListsKept
<1> QED
  BY <1>2, <1>3, <1>4

(* What the tables agree on, apart from the lists.                         *)
Agree == WindowsTypeOK /\ OneFocus /\ CountVisible /\ NoLeak /\ HiddenEmpty

LEMMA WinParts == Agree /\ NoDangling /\ HandlesStable /\ ListsKept <=> WinInv
BY DEF Agree, WinInv, WidgetsOwned

LEMMA WinPartsNext ==
  Agree' /\ NoDangling' /\ HandlesStable' /\ ListsKept' <=> WinInv'
BY DEF Agree, WinInv, WidgetsOwned

(* gui_init: nothing is on the screen and nothing is listed.               *)
LEMMA GuiInitKeeps ==
  ASSUME WinInv, GuiInit
  PROVE  WinInv'
<1>1. Emptied(Slots)
  BY DEF GuiInit, Cleared, Emptied
<1>2. NoDangling' /\ HandlesStable' /\ ListsKept'
  BY <1>1, EmptiedKeeps DEF GuiInit
<1>3. \A i \in Slots : widgets'[i] = <<>> /\ BlocksOf(i)' = {}
  BY <1>1, EmptiedLists DEF Emptied
<1>4. /\ visible' = [i \in Slots |-> FALSE] /\ focused' = [i \in Slots |-> FALSE]
      /\ focusedWindow' = -1 /\ windowCount' = 0 /\ nextWidgetId' = 1
      /\ ~running /\ running' = TRUE
      /\ allocated' = allocated /\ uses' = uses /\ inTurn' = inTurn
  BY DEF GuiInit, Cleared
<1>5. WindowsTypeOK'
  <2>1. nextWidgetId' \in 1 .. MaxWidgetId + 1
    BY <1>4, WindowsAssumption
  <2> QED
    BY <1>2, <1>4, <2>1, WinTypes, WinTypesNext
<1>6. CountVisible'
  <2>1. {i \in Slots : visible'[i]} = {}
    BY <1>4
  <2> QED
    BY <1>4, <2>1, FS_EmptySet DEF CountVisible
<1>7. NoLeak'
  <2>1. inTurn => allocated = {}
    BY <1>4 DEF WinInv, WidgetsOwned, NoLeak
  <2>2. UNION {BlocksOf(i)' : i \in Slots} = {}
    BY <1>3
  <2> QED
    BY <1>4, <2>1, <2>2 DEF NoLeak
<1>8. OneFocus' /\ HiddenEmpty'
  BY <1>3, <1>4 DEF OneFocus, HiddenEmpty
<1> QED
  BY <1>2, <1>5, <1>6, <1>7, <1>8, WinPartsNext DEF Agree

(* gui_create_window: the slot was not on the screen, and its list was     *)
(* empty unless a window was hidden or given widgets when closed.          *)
LEMMA CreateKeeps ==
  ASSUME WinInv, NEW i \in Slots, GuiCreateWindow(i)
  PROVE  WinInv'
<1>1. /\ running /\ running' = running /\ uses[i] < MaxUses /\ ~visible[i]
      /\ visible' = [visible EXCEPT ![i] = TRUE] /\ focused' = TakeFocus(i)
      /\ widgets' = [widgets EXCEPT ![i] = <<>>] /\ focusedWindow' = i
      /\ windowCount' = windowCount + 1 /\ uses' = [uses EXCEPT ![i] = uses[i] + 1]
      /\ nextWidgetId' = nextWidgetId /\ allocated' = allocated
      /\ madeFor' = madeFor /\ inTurn' = inTurn
  BY DEF GuiCreateWindow, NewList
<1>2. Emptied({i})
  BY <1>1, WinTypes DEF Emptied
<1>3. NoDangling' /\ HandlesStable' /\ ListsKept'
  <2>1. \A j \in Slots \ {i} : BlocksOf(j) \subseteq allocated' /\ uses'[j] = uses[j]
    BY <1>1, WinTypes DEF WinInv, WidgetsOwned, NoDangling
  <2> QED
    BY <1>1, <1>2, <2>1, WinTypes, EmptiedKeeps
<1>4. WindowsTypeOK'
  <2>1. uses' \in [Slots -> 0 .. MaxUses]
    BY <1>1, WinTypes, WindowsAssumption
  <2>2. focused' \in [Slots -> BOOLEAN]
    BY <1>1, WinTypes DEF TakeFocus
  <2> QED
    BY <1>1, <1>3, <2>1, <2>2, WinTypes, WinTypesNext
<1>5. OneFocus'
  <2>1. \A j \in Slots : focused[j] => j = focusedWindow
    BY DEF WinInv, WidgetsOwned, OneFocus
  <2>2. \A j \in Slots : j >= 0
    BY DEF Slots
  <2> QED
    BY <1>1, <2>1, <2>2, WinTypes DEF OneFocus, TakeFocus
<1>6. CountVisible'
  <2>1. {j \in Slots : visible'[j]} = {j \in Slots : visible[j]} \cup {i}
    BY <1>1, WinTypes
  <2>2. IsFiniteSet({j \in Slots : visible[j]})
    BY SlotsFinite
  <2>3. Cardinality({j \in Slots : visible'[j]}) = Cardinality({j \in Slots : visible[j]}) + 1
    BY <1>1, <2>1, <2>2, FS_AddElement
  <2> QED
    BY <1>1, <2>3 DEF WinInv, WidgetsOwned, CountVisible
<1>7. ASSUME inTurn PROVE widgets[i] = <<>> /\ widgets' = widgets
  <2>1. widgets[i] = <<>>
    BY <1>1, <1>7 DEF WinInv, HiddenEmpty
  <2> QED
    BY <1>1, <2>1, WinTypes
<1>8. NoLeak' /\ HiddenEmpty'
  <2>1. inTurn => UNION {BlocksOf(j)' : j \in Slots} = UNION {BlocksOf(j) : j \in Slots}
    BY <1>7 DEF BlocksOf
  <2> QED
    BY <1>1, <1>7, <2>1, WinTypes DEF WinInv, WidgetsOwned, NoLeak, HiddenEmpty
<1> QED
  BY <1>3, <1>4, <1>5, <1>6, <1>8, WinPartsNext DEF Agree

(* Some windows are closed: the blocks that are given back are those on    *)
(* their lists and no others'.                                             *)
LEMMA ShutKeeps ==
  ASSUME WinInv, NEW C \in SUBSET Slots, Shut(C),
         UNCHANGED <<uses, madeFor, nextWidgetId>>
  PROVE  /\ NoDangling' /\ HandlesStable' /\ ListsKept'
         /\ visible' \in [Slots -> BOOLEAN] /\ allocated' \in SUBSET Blocks
         /\ inTurn => allocated' = UNION {BlocksOf(i)' : i \in Slots}
<1>1. Emptied(C)
  BY DEF Shut, Emptied
<1>2. allocated' = allocated \ UNION {BlocksOf(i) : i \in C}
  BY DEF Shut
<1>3. ASSUME NEW i \in Slots \ C PROVE BlocksOf(i) \subseteq allocated'
  <2>1. BlocksOf(i) \subseteq allocated
    BY DEF WinInv, WidgetsOwned, NoDangling
  <2>2. \A j \in C : BlocksOf(i) \cap BlocksOf(j) = {}
    BY DEF WinInv, WidgetsOwned, NoDangling
  <2> QED
    BY <1>2, <2>1, <2>2
<1>4. NoDangling' /\ HandlesStable' /\ ListsKept'
  BY <1>1, <1>3, WinTypes, EmptiedKeeps
<1>5. visible' \in [Slots -> BOOLEAN]
  BY WinTypes DEF Shut
<1>6. allocated' \in SUBSET Blocks
  BY <1>2, WinTypes
<1>7. ASSUME inTurn PROVE allocated' = UNION {BlocksOf(i)' : i \in Slots}
  <2>1. allocated = UNION {BlocksOf(i) : i \in Slots}
    BY <1>7 DEF WinInv, WidgetsOwned, NoLeak
  <2>2. \A i \in Slots : BlocksOf(i)' = IF i \in C THEN {} ELSE BlocksOf(i)
    BY <1>1, EmptiedLists
  <2> QED
    BY <1>2, <1>3, <2>1, <2>2
<1> QED
  BY <1>4, <1>5, <1>6, <1>7

(* gui_close_window of a window that is on the screen makes one less.      *)
LEMMA CloseKeeps ==
  ASSUME WinInv, NEW i \in Slots, GuiCloseWindow(i)
  PROVE  WinInv'
<1>1. /\ running /\ running' = running /\ Shut({i})
      /\ inTurn' = (inTurn /\ visible[i])
      /\ visible' = [j \in Slots |-> visible[j] /\ j \notin {i}]
      /\ widgets' = [j \in Slots |-> IF j \in {i} THEN <<>> ELSE widgets[j]]
      /\ windowCount' = windowCount - Cardinality({i})
      /\ focused' = focused /\ focusedWindow' = focusedWindow
      /\ nextWidgetId' = nextWidgetId /\ uses' = uses /\ madeFor' = madeFor
  BY DEF GuiCloseWindow, Shut
<1>2. /\ NoDangling' /\ HandlesStable' /\ ListsKept'
      /\ visible' \in [Slots -> BOOLEAN] /\ allocated' \in SUBSET Blocks
      /\ inTurn => allocated' = UNION {BlocksOf(j)' : j \in Slots}
  BY <1>1, ShutKeeps
<1>3. Cardinality({i}) = 1
  BY FS_Singleton
<1>4. WindowsTypeOK'
  BY <1>1, <1>2, <1>3, WinTypes, WinTypesNext
<1>5. OneFocus'
  BY <1>1 DEF WinInv, WidgetsOwned, OneFocus
<1>6. CountVisible'
  <2> SUFFICES ASSUME inTurn'
               PROVE  windowCount' = Cardinality({j \in Slots : visible'[j]})
    BY DEF CountVisible
  <2>1. {j \in Slots : visible'[j]} = {j \in Slots : visible[j]} \ {i}
    BY <1>1
  <2>2. IsFiniteSet({j \in Slots : visible[j]})
    BY SlotsFinite
  <2>3. i \in {j \in Slots : visible[j]}
    BY <1>1
  <2>4. Cardinality({j \in Slots : visible'[j]}) = Cardinality({j \in Slots : visible[j]}) - 1
    BY <2>1, <2>2, <2>3, FS_RemoveElement
  <2>5. windowCount = Cardinality({j \in Slots : visible[j]})
    BY <1>1 DEF WinInv, WidgetsOwned, CountVisible
  <2> QED
    BY <1>1, <1>3, <2>4, <2>5
<1>7. NoLeak'
  BY <1>1, <1>2 DEF NoLeak
<1>8. HiddenEmpty'
  BY <1>1 DEF WinInv, HiddenEmpty
<1> QED
  BY <1>2, <1>4, <1>5, <1>6, <1>7, <1>8, WinPartsNext DEF Agree

(* gui_shutdown closes the windows on the screen, and those are all that   *)
(* have widgets.                                                           *)
LEMMA ShutdownKeeps ==
  ASSUME WinInv, GuiShutdown
  PROVE  WinInv'
<1> DEFINE C == {i \in Slots : visible[i]}
<1>1. /\ running' = FALSE /\ Shut(C) /\ inTurn' = inTurn
      /\ visible' = [j \in Slots |-> visible[j] /\ j \notin C]
      /\ widgets' = [j \in Slots |-> IF j \in C THEN <<>> ELSE widgets[j]]
      /\ windowCount' = windowCount - Cardinality(C)
      /\ focused' = focused /\ focusedWindow' = focusedWindow
      /\ nextWidgetId' = nextWidgetId /\ uses' = uses /\ madeFor' = madeFor
  BY DEF GuiShutdown, Shut, history
<1>2. /\ NoDangling' /\ HandlesStable' /\ ListsKept'
      /\ visible' \in [Slots -> BOOLEAN] /\ allocated' \in SUBSET Blocks
      /\ inTurn => allocated' = UNION {BlocksOf(j)' : j \in Slots}
  BY <1>1, ShutKeeps
<1>3. Cardinality(C) \in Nat
  BY SlotsFinite
<1>4. WindowsTypeOK'
  <2>1. windowCount' \in Int
    BY <1>1, <1>3, WinTypes
  <2> HIDE DEF C
  <2> QED
    BY <1>1, <1>2, <2>1, WinTypes, WinTypesNext
<1>5. OneFocus'
  BY <1>1 DEF WinInv, WidgetsOwned, OneFocus
<1>6. CountVisible'
  <2>1. {j \in Slots : visible'[j]} = {}
    BY <1>1
  <2>2. inTurn => windowCount = Cardinality(C)
    BY DEF WinInv, WidgetsOwned, CountVisible
  <2>3. inTurn => windowCount' = 0
    <3> HIDE DEF C
    <3> QED
      BY <1>1, <1>3, <2>2
  <2>4. Cardinality({j \in Slots : visible'[j]}) = 0
    BY <2>1, FS_EmptySet
  <2> QED
    BY <1>1, <2>3, <2>4 DEF CountVisible
<1>7. ASSUME inTurn, NEW j \in Slots PROVE widgets'[j] = <<>> /\ BlocksOf(j)' = {}
  <2>1. widgets'[j] = <<>>
    BY <1>1, <1>7 DEF WinInv, HiddenEmpty
  <2> QED
    BY <2>1, EmptyList DEF BlocksOf
<1>8. NoLeak' /\ HiddenEmpty'
  <2>1. inTurn => allocated' = {}
    BY <1>2, <1>7
  <2> QED
    BY <1>1, <1>2, <1>7, <2>1 DEF NoLeak, HiddenEmpty
<1> QED
  BY <1>2, <1>4, <1>5, <1>6, <1>8, WinPartsNext DEF Agree

(* gui_add_label and the others: the block was free, and so on no list;    *)
(* the number is new.                                                      *)
LEMMA AddKeeps ==
  ASSUME WinInv, NEW i \in Slots, NEW b \in Blocks, GuiAddWidget(i, b)
  PROVE  WinInv'
<1> DEFINE x == [id |-> nextWidgetId, block |-> b]
<1>1. /\ running /\ running' = running /\ nextWidgetId <= MaxWidgetId
      /\ b \notin allocated /\ allocated' = allocated \cup {b}
      /\ widgets' = [widgets EXCEPT ![i] = <<x>> \o widgets[i]]
      /\ nextWidgetId' = nextWidgetId + 1
      /\ madeFor' = [madeFor EXCEPT ![nextWidgetId] = <<i, uses[i]>>]
      /\ inTurn' = (inTurn /\ visible[i])
      /\ visible' = visible /\ focused' = focused /\ focusedWindow' = focusedWindow
      /\ windowCount' = windowCount /\ uses' = uses
  BY DEF GuiAddWidget, WidgetId
<1>2. nextWidgetId \in 1 .. MaxWidgetId /\ MaxWidgetId \in Nat
  BY <1>1, WinTypes, WindowsAssumption
<1>3. x \in Widget /\ x.id = nextWidgetId /\ x.block = b
  BY <1>2 DEF Widget
<1> HIDE DEF x
<1>4. /\ widgets'[i] \in Seq(Widget) /\ Len(widgets'[i]) = Len(widgets[i]) + 1
      /\ ToSet(widgets'[i]) = {x} \cup ToSet(widgets[i])
      /\ \A j \in Slots \ {i} : widgets'[j] = widgets[j]
  BY <1>1, <1>3, WinTypes, PrependedSet
<1>5. /\ Listed(i)' = {x} \cup Listed(i)
      /\ BlocksOf(i)' = BlocksOf(i) \cup {b}
      /\ \A j \in Slots \ {i} : Listed(j)' = Listed(j) /\ BlocksOf(j)' = BlocksOf(j)
  BY <1>3, <1>4 DEF Listed, BlocksOf
<1>6. \A j \in Slots : b \notin BlocksOf(j) /\ BlocksOf(j) \subseteq allocated
  BY <1>1 DEF WinInv, WidgetsOwned, NoDangling
<1>7. \A j \in Slots : IsFiniteSet(BlocksOf(j)) /\ Cardinality(BlocksOf(j)) = Len(widgets[j])
  BY DEF WinInv, WidgetsOwned, NoDangling, ListsKept
<1>8. IsFiniteSet(BlocksOf(i)') /\ Cardinality(BlocksOf(i)') = Len(widgets[i]) + 1
  BY <1>5, <1>6, <1>7, FS_AddElement
<1>9. NoDangling'
  <2>1. \A j \in Slots : BlocksOf(j)' \subseteq allocated'
    BY <1>1, <1>5, <1>6
  <2>2. \A j, k \in Slots : j # k => BlocksOf(j)' \cap BlocksOf(k)' = {}
    BY <1>5, <1>6 DEF WinInv, WidgetsOwned, NoDangling
  <2>3. \A j \in Slots : Cardinality(BlocksOf(j)') = Len(widgets'[j])
    BY <1>4, <1>5, <1>7, <1>8
  <2> QED
    BY <2>1, <2>2, <2>3 DEF NoDangling
<1>10. \A j \in Slots : \A w \in Listed(j) :
         /\ w.id \in 1 .. MaxWidgetId /\ w.id < nextWidgetId
         /\ madeFor[w.id] = <<j, uses[j]>>
  BY ListedTyped DEF Widget, WinInv, WidgetsOwned, HandlesStable, ListsKept
<1>11. HandlesStable'
  <2>1. ASSUME NEW j \in Slots, NEW w \in Listed(j)'
        PROVE  madeFor'[w.id] = <<j, uses'[j]>>
    <3>1. CASE w \in Listed(j)
      <4>1. w.id # nextWidgetId /\ w.id \in 1 .. MaxWidgetId
        BY <1>2, <1>10, <3>1
      <4> QED
        BY <1>1, <1>10, <3>1, <4>1, WinTypes
    <3>2. CASE w = x /\ j = i
      BY <1>1, <1>2, <1>3, <3>2, WinTypes
    <3> QED
      BY <1>5, <2>1, <3>1, <3>2
  <2>2. ASSUME NEW j \in Slots, NEW k \in Slots,
               NEW v \in Listed(j)', NEW w \in Listed(k)', v.id = w.id
        PROVE  v = w
    <3>1. (v = x \/ v \in Listed(j)) /\ (w = x \/ w \in Listed(k))
      BY <1>5
    <3>2. CASE v \in Listed(j) /\ w \in Listed(k)
      BY <2>2, <3>2 DEF WinInv, WidgetsOwned, HandlesStable
    <3>3. CASE v = x /\ w \in Listed(k)
      BY <1>2, <1>3, <1>10, <2>2, <3>3
    <3>4. CASE v \in Listed(j) /\ w = x
      BY <1>2, <1>3, <1>10, <2>2, <3>4
    <3> QED
      BY <3>1, <3>2, <3>3, <3>4
  <2> QED
    BY <2>1, <2>2 DEF HandlesStable
<1>12. ListsKept'
  <2>1. widgets' \in [Slots -> Seq(Widget)]
    BY <1>1, <1>4, WinTypes
  <2>2. DOMAIN madeFor' = 1 .. MaxWidgetId
    BY <1>1, WinTypes
  <2>3. \A j \in Slots : IsFiniteSet(BlocksOf(j)')
    BY <1>5, <1>7, <1>8
  <2>4. \A j \in Slots : \A w \in Listed(j)' : w.id < nextWidgetId'
    <3>1. ASSUME NEW j \in Slots, NEW w \in Listed(j)' PROVE w.id < nextWidgetId'
      <4>1. CASE w = x
        BY <1>1, <1>2, <1>3, <4>1
      <4>2. CASE w \in Listed(j)
        <5>1. w.id \in 1 .. MaxWidgetId /\ w.id < nextWidgetId
          BY <1>10, <4>2
        <5> QED
          BY <1>1, <1>2, <5>1
      <4> QED
        BY <1>5, <3>1, <4>1, <4>2
    <3> QED
      BY <3>1
  <2> QED
    BY <2>1, <2>2, <2>3, <2>4 DEF ListsKept
<1>13. WindowsTypeOK'
  <2>1. nextWidgetId' \in 1 .. MaxWidgetId + 1 /\ inTurn' \in BOOLEAN
    BY <1>1, <1>2, WinTypes
  <2> QED
    BY <1>1, <1>12, <2>1, WinTypes, WinTypesNext
<1>14. OneFocus' /\ CountVisible'
  BY <1>1 DEF WinInv, WidgetsOwned, OneFocus, CountVisible
<1>15. NoLeak'
  <2> SUFFICES ASSUME inTurn' PROVE allocated' = UNION {BlocksOf(j)' : j \in Slots}
    BY <1>1 DEF NoLeak
  <2>1. allocated = UNION {BlocksOf(j) : j \in Slots}
    BY <1>1 DEF WinInv, WidgetsOwned, NoLeak
  <2> QED
    BY <1>1, <1>5, <2>1
<1>16. HiddenEmpty'
  BY <1>1, <1>4 DEF WinInv, HiddenEmpty
<1> QED
  BY <1>9, <1>11, <1>12, <1>13, <1>14, <1>15, <1>16, WinPartsNext DEF Agree

(* Steps that leave the lists alone: the focus changes, or a window is     *)
(* hidden or shown, after which what is said of orderly callers is not.    *)
LEMMA OtherKeeps ==
  ASSUME WinInv,
         \/ \E i \in Slots : GuiFocusWindow(i)
         \/ \E i \in Slots, show \in BOOLEAN : GuiShowWindow(i, show)
         \/ UNCHANGED wvars
  PROVE  WinInv'
<1>1. /\ widgets' = widgets /\ windowCount' = windowCount /\ allocated' = allocated
      /\ nextWidgetId' = nextWidgetId /\ running' = running
      /\ uses' = uses /\ madeFor' = madeFor
  BY DEF GuiFocusWindow, GuiShowWindow, wvars, table, history
<1>2. NoDangling' /\ HandlesStable' /\ ListsKept'
  BY <1>1 DEF WinInv, WidgetsOwned, NoDangling, HandlesStable, ListsKept, BlocksOf, Listed
<1>3. \/ visible' = visible /\ inTurn' = inTurn
      \/ inTurn' = FALSE /\ visible' \in [Slots -> BOOLEAN]
  BY WinTypes DEF GuiFocusWindow, GuiShowWindow, wvars, table, history
<1>4. CountVisible' /\ NoLeak' /\ HiddenEmpty'
  <2>1. CASE inTurn' = FALSE
    BY <2>1 DEF CountVisible, NoLeak, HiddenEmpty
  <2>2. CASE visible' = visible /\ inTurn' = inTurn
    BY <1>1, <2>2 DEF WinInv, WidgetsOwned, CountVisible, NoLeak, HiddenEmpty, BlocksOf
  <2> QED
    BY <1>3, <2>1, <2>2
<1>5. /\ focused' \in [Slots -> BOOLEAN] /\ focusedWindow' \in Slots \cup {-1}
      /\ OneFocus'
  <2>1. \A j \in Slots : j >= 0 /\ (focused[j] => j = focusedWindow)
    BY DEF Slots, WinInv, WidgetsOwned, OneFocus
  <2>2. ASSUME NEW i \in Slots, GuiFocusWindow(i)
        PROVE  focused' \in [Slots -> BOOLEAN] /\ focusedWindow' \in Slots /\ OneFocus'
    BY <2>1, <2>2, WinTypes DEF GuiFocusWindow, OneFocus
  <2>3. CASE focused' = focused /\ focusedWindow' = focusedWindow
    BY <2>1, <2>3, WinTypes DEF OneFocus
  <2> QED
    BY <2>2, <2>3 DEF GuiShowWindow, wvars, table
<1>6. WindowsTypeOK'
  BY <1>1, <1>2, <1>3, <1>5, WinTypes, WinTypesNext
<1> QED
  BY <1>2, <1>4, <1>5, <1>6, WinPartsNext DEF Agree

LEMMA WindowsInitKeeps ==
  ASSUME WindowsInit
  PROVE  WinInv
<1>1. \A i \in Slots : widgets[i] = <<>> /\ Listed(i) = {} /\ BlocksOf(i) = {}
  BY EmptyList DEF WindowsInit, Listed, BlocksOf
<1>2. NoDangling /\ HandlesStable
  <2>1. Len(<<>>) = 0 /\ Cardinality({}) = 0
    BY FS_EmptySet
  <2>2. \A i \in Slots : Cardinality(BlocksOf(i)) = Len(widgets[i])
    BY <1>1, <2>1, Zenon
  <2> QED
    BY <1>1, <2>2 DEF NoDangling, HandlesStable
<1>3. ListsKept
  <2>1. widgets \in [Slots -> Seq(Widget)]
    BY DEF WindowsInit
  <2> QED
    BY <1>1, <2>1, FS_EmptySet DEF WindowsInit, ListsKept
<1>4. WindowsTypeOK
  <2>1. \A i \in Slots : widgets[i] \in Seq([id : 1 .. MaxWidgetId, block : Blocks])
    BY <1>3 DEF ListsKept, Widget
  <2>2. nextWidgetId \in 1 .. MaxWidgetId + 1 /\ uses \in [Slots -> 0 .. MaxUses]
    BY WindowsAssumption DEF WindowsInit
  <2>3. /\ visible \in [Slots -> BOOLEAN] /\ focused \in [Slots -> BOOLEAN]
    BY DEF WindowsInit
  <2>4. running \in BOOLEAN /\ inTurn \in BOOLEAN
    BY Zenon DEF WindowsInit
  <2>5. focusedWindow \in Slots \cup {-1} /\ windowCount \in Int
    BY DEF WindowsInit
  <2>6. allocated \subseteq Blocks
    BY DEF WindowsInit
  <2> QED
    BY <2>1, <2>2, <2>3, <2>4, <2>5, <2>6 DEF WindowsTypeOK
<1>5. OneFocus /\ HiddenEmpty
  BY <1>1 DEF WindowsInit, OneFocus, HiddenEmpty
<1>6. CountVisible /\ NoLeak
  <2>1. {i \in Slots : visible[i]} = {} /\ UNION {BlocksOf(i) : i \in Slots} = {}
    BY <1>1 DEF WindowsInit
  <2> QED
    BY <2>1, FS_EmptySet DEF WindowsInit, CountVisible, NoLeak
<1> QED
  BY <1>2, <1>3, <1>4, <1>5, <1>6, WinParts DEF Agree

(* What applications do to the windows leaves the tables in agreement: the *)
(* focus, the count, the memory taken for widgets and their numbers.       *)
THEOREM WidgetsOwnedAlways == WindowsSpec => []WidgetsOwned
<1>1. WindowsInit => WinInv
  BY WindowsInitKeeps
<1>2. WinInv /\ [WindowsNext]_wvars => WinInv'
  BY GuiInitKeeps, CreateKeeps, CloseKeeps, ShutdownKeeps, AddKeeps, OtherKeeps
     DEF WindowsNext, WindowsCalls
<1>3. WinInv => WidgetsOwned
  BY DEF WinInv
<1> QED
  BY <1>1, <1>2, <1>3, PTL DEF WindowsSpec

-----------------------------------------------------------------------------
(* The script engine.                                                      *)
Kinds == {"if"} \cup Loops
BlockSet == [kind : Kinds, active : BOOLEAN, taken : BOOLEAN, idx : Nat, iter : Items \cup {0}]
FrameSet == [kind : Kinds, live : BOOLEAN, done : BOOLEAN, skip : {"no", "break", "continue"}, left : Int]

EngineTypes ==
  /\ blocks \in Seq(BlockSet) /\ Depth <= MaxBlocks
  /\ skipTarget \in -1 .. MaxBlocks - 1
  /\ skipAct \in {"break", "continue"}
  /\ frames \in Seq(FrameSet)
  /\ orderly \in BOOLEAN /\ astray \in BOOLEAN

SkipsLoop ==
  /\ Skipping => skipTarget < Depth /\ blocks[skipTarget + 1].kind \in Loops
  /\ astray => Skipping

(* A block and the open block of the script that it stands for.  A for has *)
(* a turn exactly if it has items, and counts its turns up to them.        *)
Matched(b, f) ==
  /\ f.kind = b.kind /\ f.live = b.active
  /\ b.kind = "if" => f.done = b.taken
  /\ b.kind = "for" /\ b.iter > 0 => b.active
  /\ b.kind = "for" => b.idx + f.left = b.iter

(* The engine's stack is the script's, and a body that was left is the     *)
(* loop's that is skipped to, from inside ifs alone; the script leaves     *)
(* none while what is skipped was left from a part that does not run.      *)
Mirror ==
  orderly =>
    /\ Len(frames) = Depth
    /\ \A i \in 1 .. Depth : Matched(blocks[i], frames[i])
    /\ \A i \in 1 .. Depth :
         frames[i].skip = IF Skipping /\ ~astray /\ i = skipTarget + 1 THEN skipAct ELSE "no"
    /\ Skipping => \A i \in skipTarget + 2 .. Depth : blocks[i].kind = "if"

EngineInv == EngineTypes /\ SkipsLoop /\ Mirror

(* The two ways in which the top of a stack changes.                       *)
Popped(S, s, t) ==
  t \in Seq(S) /\ Len(t) = Len(s) - 1 /\ \A i \in 1 .. Len(s) - 1 : t[i] = s[i]

Topped(S, s, t, c) ==
  /\ t \in Seq(S) /\ Len(t) = Len(s) /\ t[Len(s)] = c
  /\ \A i \in 1 .. Len(s) - 1 : t[i] = s[i]

LEMMA PopIs ==
  ASSUME NEW S, NEW s \in Seq(S), Len(s) > 0
  PROVE  Popped(S, s, Pop(s))
<1>1. Len(s) \in Nat /\ Len(s) >= 1
  OBVIOUS
<1>2. SubSeq(s, 1, Len(s) - 1) \in Seq(S)
  BY <1>1
<1>3. Len(SubSeq(s, 1, Len(s) - 1)) = Len(s) - 1
  <2>1. 1 \in Int /\ Len(s) - 1 \in Int
    BY <1>1
  <2>2. \A i \in 1 .. Len(s) - 1 : s[i] \in S
    BY <1>1
  <2>3. Len(SubSeq(s, 1, Len(s) - 1)) = IF 1 <= Len(s) - 1 THEN Len(s) - 1 - 1 + 1 ELSE 0
    BY <2>1, <2>2, SubSeqProperties
  <2>4. PICK m : m = Len(SubSeq(s, 1, Len(s) - 1))
    OBVIOUS
  <2>5. PICK n \in Nat : n = Len(s) /\ n >= 1
    BY <1>1
  <2>6. m = n - 1
    BY <2>3, <2>4, <2>5
  <2> QED
    BY <2>4, <2>5, <2>6
<1>4. \A i \in 1 .. Len(s) - 1 : SubSeq(s, 1, Len(s) - 1)[i] = s[i]
  BY <1>1
<1> QED
  BY <1>2, <1>3, <1>4 DEF Pop, Popped

LEMMA TopIsSet ==
  ASSUME NEW S, NEW s \in Seq(S), Len(s) > 0, NEW c \in S
  PROVE  Topped(S, s, Append(Pop(s), c), c)
<1>1. Len(s) \in Nat
  OBVIOUS
<1>2. Popped(S, s, Pop(s))
  BY PopIs
<1>3. PICK t \in Seq(S) : t = Pop(s)
  BY <1>2 DEF Popped
<1>4. Len(t) = Len(s) - 1 /\ \A i \in 1 .. Len(s) - 1 : t[i] = s[i]
  BY <1>2, <1>3 DEF Popped
<1>5. Append(t, c) \in Seq(S) /\ Len(Append(t, c)) = Len(t) + 1
  OBVIOUS
<1>6. Append(t, c)[Len(t) + 1] = c /\ \A i \in 1 .. Len(t) : Append(t, c)[i] = t[i]
  OBVIOUS
<1> QED
  BY <1>1, <1>3, <1>4, <1>5, <1>6 DEF Topped

(* One field of the top is written.                                        *)
LEMMA TopIsWritten ==
  ASSUME NEW S, NEW s \in Seq(S), Len(s) > 0, NEW c \in S
  PROVE  Topped(S, s, [s EXCEPT ![Len(s)] = c], c)
BY DEF Topped

-----------------------------------------------------------------------------
(* The innermost block ends, in the engine and in the script; where the    *)
(* skipped loop ends, so does the skipping.                                *)
LEMMA BothPopped ==
  ASSUME EngineInv, Depth > 0, Popped(BlockSet, blocks, blocks'),
         orderly' \in BOOLEAN, frames' \in Seq(FrameSet),
         orderly' => orderly /\ Popped(FrameSet, frames, frames'),
         skipTarget' = IF Depth - 1 = skipTarget THEN -1 ELSE skipTarget,
         astray' = IF Depth - 1 = skipTarget THEN FALSE ELSE astray,
         UNCHANGED skipAct
  PROVE  EngineInv'
<1>1. /\ Depth \in Nat /\ MaxBlocks \in Nat /\ Depth <= MaxBlocks
      /\ skipTarget \in -1 .. MaxBlocks - 1
      /\ astray \in BOOLEAN /\ (astray => Skipping)
  BY EngineAssumption DEF EngineInv, EngineTypes, SkipsLoop, Depth
<1>2. Depth' = Depth - 1 /\ \A i \in 1 .. Depth - 1 : blocks'[i] = blocks[i]
  BY DEF Popped, Depth
<1>3. astray' \in BOOLEAN /\ (astray' => astray /\ Depth - 1 # skipTarget)
  <2>1. CASE Depth - 1 = skipTarget
    BY <2>1, Zenon
  <2>2. CASE Depth - 1 # skipTarget
    <3>1. astray' = astray
      BY <2>2, Zenon
    <3>2. astray \in BOOLEAN
      BY DEF EngineInv, EngineTypes
    <3>3. astray' \in BOOLEAN
      BY <3>1, <3>2
    <3>4. astray' => astray
      BY <3>1
    <3> QED
      BY <2>2, <3>3, <3>4
  <2> QED
    BY <2>1, <2>2, Zenon
<1>4. EngineTypes'
  <2>1. /\ blocks' \in Seq(BlockSet) /\ Depth' <= MaxBlocks
        /\ skipTarget' \in -1 .. MaxBlocks - 1 /\ skipAct' \in {"break", "continue"}
    BY <1>1, <1>2 DEF EngineInv, EngineTypes, Popped
  <2> QED
    BY <1>3, <2>1 DEF EngineTypes
<1>5. SkipsLoop'
  <2>1. astray' => Skipping'
    BY <1>1, <1>3 DEF Skipping
  <2>2. Skipping' => skipTarget' < Depth' /\ blocks'[skipTarget' + 1].kind \in Loops
    BY <1>1, <1>2 DEF EngineInv, SkipsLoop, Skipping
  <2> QED
    BY <2>1, <2>2 DEF SkipsLoop
<1>6. ASSUME orderly' PROVE Mirror'
  <2>1. /\ Len(frames) = Depth
        /\ \A i \in 1 .. Depth : Matched(blocks[i], frames[i])
        /\ \A i \in 1 .. Depth :
             frames[i].skip = IF Skipping /\ ~astray /\ i = skipTarget + 1 THEN skipAct ELSE "no"
        /\ Skipping => \A i \in skipTarget + 2 .. Depth : blocks[i].kind = "if"
    BY <1>6 DEF EngineInv, Mirror
  <2>2. Len(frames') = Depth' /\ \A i \in 1 .. Depth - 1 : frames'[i] = frames[i]
    BY <1>2, <1>6, <2>1 DEF Popped
  <2>3. ASSUME NEW i \in 1 .. Depth'
        PROVE  /\ Matched(blocks'[i], frames'[i])
               /\ frames'[i].skip
                    = IF Skipping' /\ ~astray' /\ i = skipTarget' + 1 THEN skipAct' ELSE "no"
    <3>1. i \in 1 .. Depth /\ i <= Depth - 1
      BY <1>1, <1>2
    <3>2. blocks'[i] = blocks[i] /\ frames'[i] = frames[i]
      BY <1>1, <1>2, <2>2, <3>1
    <3>3. (Skipping' /\ ~astray' /\ i = skipTarget' + 1)
            <=> (Skipping /\ ~astray /\ i = skipTarget + 1)
      BY <1>1, <3>1 DEF Skipping
    <3> QED
      BY <2>1, <3>1, <3>2, <3>3
  <2>4. Skipping' => \A i \in skipTarget' + 2 .. Depth' : blocks'[i].kind = "if"
    BY <1>1, <1>2, <2>1 DEF Skipping
  <2> QED
    BY <2>2, <2>3, <2>4 DEF Mirror
<1> QED
  BY <1>4, <1>5, <1>6 DEF EngineInv, Mirror

(* The innermost block goes on, in another part or another turn, in the    *)
(* engine and in the script, and nothing is skipped from then on.          *)
LEMMA BothTopped ==
  ASSUME EngineInv, Depth > 0, NEW b \in BlockSet, NEW f \in FrameSet,
         Topped(BlockSet, blocks, blocks', b),
         orderly' \in BOOLEAN, frames' \in Seq(FrameSet),
         orderly' => /\ orderly /\ Topped(FrameSet, frames, frames', f)
                     /\ Matched(b, f) /\ f.skip = "no",
         Skipping => Depth - 1 = skipTarget,
         skipTarget' = -1, astray' = FALSE,
         UNCHANGED skipAct
  PROVE  EngineInv'
<1>1. /\ Depth \in Nat /\ MaxBlocks \in Nat /\ Depth <= MaxBlocks
      /\ skipTarget \in -1 .. MaxBlocks - 1
      /\ astray \in BOOLEAN /\ (astray => Skipping)
  BY EngineAssumption DEF EngineInv, EngineTypes, SkipsLoop, Depth
<1>2. /\ Depth' = Depth /\ blocks'[Depth] = b
      /\ \A i \in 1 .. Depth - 1 : blocks'[i] = blocks[i]
  BY DEF Topped, Depth
<1>3. ~Skipping'
  BY DEF Skipping
<1>4. EngineTypes'
  <2>1. /\ blocks' \in Seq(BlockSet) /\ Depth' <= MaxBlocks
        /\ skipTarget' \in -1 .. MaxBlocks - 1 /\ skipAct' \in {"break", "continue"}
    BY <1>1, <1>2 DEF EngineInv, EngineTypes, Topped
  <2>2. astray' \in BOOLEAN
    BY Zenon
  <2> QED
    BY <2>1, <2>2 DEF EngineTypes
<1>5. ASSUME orderly' PROVE Mirror'
  <2>1. /\ Len(frames) = Depth
        /\ \A i \in 1 .. Depth : Matched(blocks[i], frames[i])
        /\ \A i \in 1 .. Depth :
             frames[i].skip = IF Skipping /\ ~astray /\ i = skipTarget + 1 THEN skipAct ELSE "no"
    BY <1>5 DEF EngineInv, Mirror
  <2>2. /\ Len(frames') = Depth /\ frames'[Depth] = f
        /\ \A i \in 1 .. Depth - 1 : frames'[i] = frames[i]
    BY <1>5, <2>1 DEF Topped
  <2>3. ASSUME NEW i \in 1 .. Depth'
        PROVE  Matched(blocks'[i], frames'[i]) /\ frames'[i].skip = "no"
    <3>1. CASE i = Depth
      BY <1>2, <1>5, <2>2, <3>1
    <3>2. CASE i # Depth
      <4>1. i \in 1 .. Depth - 1 /\ i \in 1 .. Depth
        BY <1>1, <1>2, <3>2
      <4>2. ~(Skipping /\ i = skipTarget + 1)
        BY <1>1, <4>1
      <4> QED
        BY <1>2, <2>1, <2>2, <4>1, <4>2
    <3> QED
      BY <3>1, <3>2
  <2> QED
    BY <1>2, <1>3, <2>2, <2>3 DEF Mirror
<1> QED
  BY <1>3, <1>4, <1>5 DEF EngineInv, Mirror, SkipsLoop

-----------------------------------------------------------------------------
LEMMA TopKnown ==
  ASSUME EngineInv, Depth > 0
  PROVE  /\ Last(blocks) = blocks[Depth] /\ Last(blocks) \in BlockSet
         /\ orderly => /\ Len(frames) = Depth /\ frames # <<>>
                       /\ Last(frames) \in FrameSet
                       /\ Matched(Last(blocks), Last(frames))
                       /\ Last(frames).skip
                            = IF Depth - 1 = skipTarget /\ ~astray THEN skipAct ELSE "no"
<1>1. Depth \in Nat /\ Depth \in 1 .. Depth /\ skipTarget \in Int
      /\ blocks \in Seq(BlockSet) /\ frames \in Seq(FrameSet) /\ Depth = Len(blocks)
  BY EngineAssumption DEF EngineInv, EngineTypes, Depth
<1>2. Last(blocks) = blocks[Depth] /\ Last(blocks) \in BlockSet
  BY <1>1 DEF Last
<1>3. ASSUME orderly
      PROVE  /\ Len(frames) = Depth /\ Matched(blocks[Depth], frames[Depth])
             /\ frames[Depth].skip
                  = IF Skipping /\ ~astray /\ Depth = skipTarget + 1 THEN skipAct ELSE "no"
  BY <1>1, <1>3 DEF EngineInv, Mirror
<1>4. ASSUME orderly
      PROVE  frames # <<>> /\ Last(frames) = frames[Depth] /\ Last(frames) \in FrameSet
  BY <1>1, <1>3, <1>4 DEF Last
<1>5. Skipping /\ ~astray /\ Depth = skipTarget + 1 <=> Depth - 1 = skipTarget /\ ~astray
  BY <1>1 DEF Skipping
<1> QED
  BY <1>2, <1>3, <1>4, <1>5

LEMMA MeansIs ==
  ASSUME NEW f, NEW fine, Means(f, fine),
         orderly /\ fine => f \in Seq(FrameSet)
  PROVE  /\ orderly' \in BOOLEAN /\ frames' \in Seq(FrameSet)
         /\ orderly' => orderly /\ fine /\ frames' = f
<1>1. orderly' \in BOOLEAN
  BY DEF Means
<1>2. orderly' => orderly /\ fine /\ frames' = f
  BY DEF Means
<1>3. frames' = f \/ frames' = <<>>
  BY DEF Means
<1>4. frames' \in Seq(FrameSet)
  <2>1. CASE orderly /\ fine
    BY <2>1 DEF Means
  <2>2. CASE ~(orderly /\ fine)
    BY <2>2 DEF Means
  <2> QED
    BY <2>1, <2>2
<1> QED
  BY <1>1, <1>2, <1>4

(* loop_iterate: the block ends or has another turn.                       *)
Again(b, c) ==
  /\ c.kind = b.kind /\ c.iter = b.iter
  /\ b.kind = "if" => c = b
  /\ b.kind \in {"while", "until"} => c.active
  /\ b.kind = "for" => c.active = b.active /\ b.iter > 0 /\ c.idx = b.idx + 1

LEMMA IterateIs ==
  ASSUME EngineInv, Depth > 0, NEW met \in BOOLEAN
  PROVE  IF Goes(Last(blocks), met)
           THEN \E c \in BlockSet : /\ Topped(BlockSet, blocks, LoopIterate(met), c)
                                    /\ Again(Last(blocks), c)
           ELSE Popped(BlockSet, blocks, LoopIterate(met))
<1>1. blocks \in Seq(BlockSet) /\ Depth = Len(blocks) /\ Len(blocks) > 0
      /\ Last(blocks) = blocks[Depth] /\ Last(blocks) \in BlockSet
  BY TopKnown DEF EngineInv, EngineTypes, Depth
<1>2. CASE ~Goes(Last(blocks), met)
  <2>1. LoopIterate(met) = Pop(blocks)
    BY <1>2 DEF LoopIterate
  <2> QED
    BY <1>1, <1>2, <2>1, PopIs
<1>3. CASE Goes(Last(blocks), met)
  <2>1. PICK b \in BlockSet : b = Last(blocks)
    BY <1>1
  <2>2. b.kind \in {"if", "for", "while", "until"}
    BY DEF BlockSet, Kinds, Loops
  <2>3. CASE b.kind = "for"
    <3>1. PICK c : c = [b EXCEPT !.idx = b.idx + 1]
      OBVIOUS
    <3>2. c \in BlockSet
      BY <3>1 DEF BlockSet
    <3>3. b.idx + 1 < b.iter
      BY <1>3, <2>1, <2>3 DEF Goes
    <3>4. b.iter > 0
      <4>1. b.idx \in Nat /\ b.iter \in Items \cup {0} /\ Items \subseteq Nat
        BY EngineAssumption DEF BlockSet
      <4>2. PICK i \in Nat : i = b.idx
        BY <4>1
      <4>3. PICK n \in Nat : n = b.iter
        BY <4>1
      <4>4. i + 1 < n
        BY <3>3, <4>2, <4>3
      <4> QED
        BY <4>3, <4>4
    <3>5. Again(b, c)
      BY <2>3, <3>1, <3>4 DEF Again, BlockSet
    <3>6. LoopIterate(met) = [blocks EXCEPT ![Len(blocks)] = c]
      BY <1>1, <1>3, <2>1, <2>3, <3>1 DEF LoopIterate
    <3>7. Topped(BlockSet, blocks, LoopIterate(met), c)
      <4>1. Topped(BlockSet, blocks, [blocks EXCEPT ![Len(blocks)] = c], c)
        BY <1>1, <3>2, TopIsWritten
      <4> QED
        BY <3>6, <4>1
    <3> QED
      BY <1>3, <2>1, <3>2, <3>5, <3>7
  <2>4. CASE b.kind = "if"
    <3>1. LoopIterate(met) = blocks
      BY <1>3, <2>1, <2>4 DEF LoopIterate
    <3>2. Topped(BlockSet, blocks, blocks, b)
      BY <1>1, <2>1 DEF Topped
    <3>3. Again(b, b)
      BY <2>4 DEF Again
    <3> QED
      BY <1>3, <2>1, <3>1, <3>2, <3>3
  <2>5. CASE b.kind \in {"while", "until"}
    <3>1. PICK c : c = [b EXCEPT !.active = TRUE]
      OBVIOUS
    <3>2. c \in BlockSet
      BY <3>1 DEF BlockSet
    <3>3. Again(b, c)
      BY <2>5, <3>1 DEF Again, BlockSet
    <3>4. LoopIterate(met) = [blocks EXCEPT ![Len(blocks)] = c]
      BY <1>1, <1>3, <2>1, <2>5, <3>1 DEF LoopIterate
    <3>5. Topped(BlockSet, blocks, LoopIterate(met), c)
      <4>1. Topped(BlockSet, blocks, [blocks EXCEPT ![Len(blocks)] = c], c)
        BY <1>1, <3>2, TopIsWritten
      <4> QED
        BY <3>4, <4>1
    <3> QED
      BY <1>3, <2>1, <3>2, <3>3, <3>5
  <2> QED
    BY <2>2, <2>3, <2>4, <2>5
<1> QED
  BY <1>2, <1>3

LEMMA GoesTyped ==
  ASSUME NEW b \in BlockSet, NEW met \in BOOLEAN
  PROVE  Goes(b, met) \in BOOLEAN
<1>1. b.kind \in {"if", "for", "while", "until"}
  BY DEF BlockSet, Kinds, Loops
<1>2. CASE b.kind = "for"
  <2>1. Goes(b, met) = (b.idx + 1 < b.iter)
    BY <1>2 DEF Goes
  <2>2. (b.idx + 1 < b.iter) \in BOOLEAN
    OBVIOUS
  <2> QED
    BY <2>1, <2>2
<1>3. CASE b.kind = "while"
  BY <1>3 DEF Goes
<1>4. CASE b.kind = "until"
  BY <1>4 DEF Goes
<1>5. CASE b.kind = "if"
  BY <1>5 DEF Goes
<1> QED
  BY <1>1, <1>2, <1>3, <1>4, <1>5

(* The script's loop ends or has another turn with the engine's.           *)
LEMMA MoreMatched ==
  ASSUME NEW b \in BlockSet, NEW f \in FrameSet, b.kind \in Loops, Matched(b, f),
         NEW met \in BOOLEAN
  PROVE  HasMore(f, met) = Goes(b, met)
<1>1. b.kind \in {"for", "while", "until"} /\ f.kind = b.kind
  BY DEF Loops, Matched
<1>2. CASE b.kind = "for"
  <2>1. b.idx + f.left = b.iter
    BY <1>2 DEF Matched
  <2>2. PICK i \in Int : i = b.idx
    BY DEF BlockSet
  <2>3. PICK n \in Int : n = f.left
    BY DEF FrameSet
  <2>4. (n > 1) = (i + 1 < i + n)
    OBVIOUS
  <2>5. HasMore(f, met) = (n > 1) /\ Goes(b, met) = (i + 1 < i + n)
    BY <1>1, <1>2, <2>1, <2>2, <2>3 DEF HasMore, Goes
  <2> QED
    BY <2>4, <2>5
<1>3. CASE b.kind = "while"
  BY <1>1, <1>3 DEF HasMore, Goes
<1>4. CASE b.kind = "until"
  BY <1>1, <1>4 DEF HasMore, Goes
<1> QED
  BY <1>1, <1>2, <1>3, <1>4

LEMMA LaterTurnTyped ==
  ASSUME NEW f \in FrameSet
  PROVE  LaterTurn(f) \in FrameSet
<1>1. PICK n \in Int : n = IF f.kind = "for" THEN f.left - 1 ELSE 0
  BY DEF FrameSet
<1>2. LaterTurn(f) = Frame(f.kind, TRUE, n)
  BY <1>1 DEF LaterTurn
<1> QED
  BY <1>2 DEF Frame, FrameSet

LEMMA TurnEnds ==
  ASSUME EngineInv, Depth > 0, orderly, NEW met
  PROVE  IF Last(frames).skip = "break" \/ ~HasMore(Last(frames), met)
           THEN Popped(FrameSet, frames, EndTurn(met))
           ELSE /\ LaterTurn(Last(frames)) \in FrameSet
                /\ Topped(FrameSet, frames, EndTurn(met), LaterTurn(Last(frames)))
<1>1. frames \in Seq(FrameSet) /\ Len(frames) > 0 /\ Last(frames) \in FrameSet
  BY TopKnown DEF EngineInv, EngineTypes
<1>2. LaterTurn(Last(frames)) \in FrameSet
  BY <1>1, LaterTurnTyped
<1>3. Popped(FrameSet, frames, Pop(frames))
  BY <1>1, PopIs
<1>4. Topped(FrameSet, frames, SetTop(LaterTurn(Last(frames))), LaterTurn(Last(frames)))
  BY <1>1, <1>2, TopIsSet DEF SetTop
<1> QED
  BY <1>2, <1>3, <1>4 DEF EndTurn

LEMMA AgainMatched ==
  ASSUME NEW b \in BlockSet, NEW c \in BlockSet, NEW f \in FrameSet,
         b.kind \in Loops, Matched(b, f), Again(b, c)
  PROVE  Matched(c, LaterTurn(f)) /\ LaterTurn(f).skip = "no"
<1>1. /\ LaterTurn(f).kind = f.kind /\ LaterTurn(f).live = TRUE
      /\ LaterTurn(f).skip = "no"
      /\ f.kind = "for" => LaterTurn(f).left = f.left - 1
  BY DEF LaterTurn, Frame
<1>2. b.kind \in {"for", "while", "until"} /\ b.kind # "if"
  BY DEF Loops
<1>3. c.active = TRUE
  BY <1>2 DEF Again, Matched, BlockSet
<1>4. f.kind = b.kind /\ c.kind = b.kind
  BY DEF Matched, Again
<1>5. c.kind = "for" => c.idx + LaterTurn(f).left = c.iter
  <2> SUFFICES ASSUME c.kind = "for" PROVE c.idx + LaterTurn(f).left = c.iter
    OBVIOUS
  <2>1. c.idx = b.idx + 1 /\ b.idx + f.left = b.iter /\ c.iter = b.iter
    BY <1>4 DEF Again, Matched
  <2>2. PICK i \in Int : i = b.idx
    BY DEF BlockSet
  <2>3. PICK n \in Int : n = f.left
    BY DEF FrameSet
  <2>4. (i + 1) + (n - 1) = i + n
    OBVIOUS
  <2>5. LaterTurn(f).left = n - 1
    BY <1>1, <1>4, <2>3
  <2> QED
    BY <2>1, <2>2, <2>3, <2>4, <2>5
<1> QED
  BY <1>1, <1>2, <1>3, <1>4, <1>5 DEF Matched

-----------------------------------------------------------------------------
(* "done": the innermost block ends or goes on in both.                    *)
LEMMA DoneKeeps ==
  ASSUME EngineInv, NEW met \in BOOLEAN, Done(met)
  PROVE  EngineInv'
<1> DEFINE b == Last(blocks)
           again == Goes(b, met)
           f == LaterTurn(Last(frames))
<1>1. /\ Depth > 0 /\ blocks' = LoopIterate(met) /\ ~Skipping
      /\ skipTarget' = skipTarget /\ skipAct' = skipAct /\ astray' = astray
      /\ Means(EndTurn(met), TopIs(Loops))
  BY DEF Done
<1>2. skipTarget = -1 /\ Depth \in Nat /\ astray = FALSE
  BY <1>1 DEF Skipping, EngineInv, EngineTypes, SkipsLoop, Depth
<1>3. b \in BlockSet /\ again \in BOOLEAN
  BY <1>1, TopKnown, GoesTyped
<1>4. ASSUME orderly, TopIs(Loops)
      PROVE  /\ Last(frames) \in FrameSet /\ Matched(b, Last(frames))
             /\ Last(frames).skip = "no" /\ b.kind \in Loops
             /\ HasMore(Last(frames), met) = again
  <2>1. Last(frames) \in FrameSet /\ Matched(b, Last(frames))
    BY <1>1, <1>4, TopKnown
  <2>2. Last(frames).skip = "no"
    <3>1. Depth - 1 # skipTarget
      BY <1>1, <1>2
    <3> QED
      BY <1>1, <1>4, <3>1, TopKnown
  <2>3. b.kind \in Loops
    BY <1>4, <2>1 DEF Matched, TopIs
  <2>4. HasMore(Last(frames), met) = Goes(b, met)
    BY <1>3, <2>1, <2>3, MoreMatched
  <2> QED
    BY <2>1, <2>2, <2>3, <2>4
<1> HIDE DEF again
<1>5. CASE ~again
  <2>1. Popped(BlockSet, blocks, blocks')
    BY <1>1, <1>5, IterateIs DEF again
  <2>2. orderly /\ TopIs(Loops) => Popped(FrameSet, frames, EndTurn(met))
    BY <1>1, <1>3, <1>4, <1>5, TurnEnds
  <2>3. /\ orderly' \in BOOLEAN /\ frames' \in Seq(FrameSet)
        /\ orderly' => orderly /\ TopIs(Loops) /\ frames' = EndTurn(met)
    <3>1. orderly /\ TopIs(Loops) => EndTurn(met) \in Seq(FrameSet)
      BY <2>2 DEF Popped
    <3> QED
      BY <1>1, <3>1, MeansIs
  <2>4. orderly' => orderly /\ Popped(FrameSet, frames, frames')
    BY <2>2, <2>3
  <2>5. /\ skipTarget' = IF Depth - 1 = skipTarget THEN -1 ELSE skipTarget
        /\ astray' = IF Depth - 1 = skipTarget THEN FALSE ELSE astray
    BY <1>1, <1>2
  <2> QED
    BY <1>1, <2>1, <2>3, <2>4, <2>5, BothPopped
<1>6. CASE again
  <2>1. PICK c \in BlockSet : Topped(BlockSet, blocks, blocks', c) /\ Again(b, c)
    BY <1>1, <1>6, IterateIs DEF again
  <2>2. ASSUME orderly, TopIs(Loops)
        PROVE  /\ f \in FrameSet /\ Topped(FrameSet, frames, EndTurn(met), f)
               /\ Matched(c, f) /\ f.skip = "no"
    <3>1. f \in FrameSet /\ Topped(FrameSet, frames, EndTurn(met), f)
      BY <1>1, <1>3, <1>4, <1>6, <2>2, TurnEnds
    <3> QED
      BY <1>3, <1>4, <2>1, <2>2, <3>1, AgainMatched
  <2>3. /\ orderly' \in BOOLEAN /\ frames' \in Seq(FrameSet)
        /\ orderly' => orderly /\ TopIs(Loops) /\ frames' = EndTurn(met)
    <3>1. orderly /\ TopIs(Loops) => EndTurn(met) \in Seq(FrameSet)
      BY <2>2 DEF Topped
    <3> QED
      BY <1>1, <3>1, MeansIs
  <2>4. PICK g \in FrameSet :
          orderly' => /\ orderly /\ Topped(FrameSet, frames, frames', g)
                      /\ Matched(c, g) /\ g.skip = "no"
    <3>1. CASE orderly'
      BY <2>2, <2>3, <3>1
    <3>2. CASE ~orderly'
      <4>1. Frame("if", TRUE, 0) \in FrameSet
        BY DEF Frame, FrameSet, Kinds
      <4> QED
        BY <3>2, <4>1
    <3> QED
      BY <3>1, <3>2
  <2> QED
    BY <1>1, <1>2, <2>1, <2>3, <2>4, BothTopped
<1> QED
  BY <1>3, <1>5, <1>6

(* "fi" ends the innermost block in both.                                  *)
LEMMA FiKeeps ==
  ASSUME EngineInv, Fi
  PROVE  EngineInv'
<1>1. /\ Depth > 0 /\ blocks' = Pop(blocks) /\ ~Skipping
      /\ skipTarget' = skipTarget /\ skipAct' = skipAct /\ astray' = astray
      /\ Means(Pop(frames), TopIs({"if"}))
  BY DEF Fi
<1>2. /\ skipTarget = -1 /\ astray = FALSE /\ Depth \in Nat /\ Depth = Len(blocks)
      /\ blocks \in Seq(BlockSet) /\ frames \in Seq(FrameSet)
  BY <1>1 DEF Skipping, EngineInv, EngineTypes, SkipsLoop, Depth
<1>3. Popped(BlockSet, blocks, blocks')
  BY <1>1, <1>2, PopIs
<1>4. orderly => Popped(FrameSet, frames, Pop(frames))
  BY <1>1, <1>2, TopKnown, PopIs
<1>5. /\ orderly' \in BOOLEAN /\ frames' \in Seq(FrameSet)
      /\ orderly' => orderly /\ TopIs({"if"}) /\ frames' = Pop(frames)
  <2>1. orderly => Pop(frames) \in Seq(FrameSet)
    BY <1>4 DEF Popped
  <2> QED
    BY <1>1, <2>1, MeansIs
<1>6. /\ skipTarget' = IF Depth - 1 = skipTarget THEN -1 ELSE skipTarget
      /\ astray' = IF Depth - 1 = skipTarget THEN FALSE ELSE astray
  BY <1>1, <1>2
<1> QED
  BY <1>1, <1>3, <1>4, <1>5, <1>6, BothPopped

(* A closing word while segments are skipped: above the loop that is       *)
(* skipped to it ends an if; at the loop it ends it or begins its turn.    *)
LEMMA SkipCloseKeeps ==
  ASSUME EngineInv, NEW kw \in {"fi", "done"}, NEW met \in BOOLEAN,
         SkipClose(kw, met)
  PROVE  EngineInv'
<1> DEFINE b == Last(blocks)
           again == Goes(b, met)
           f == LaterTurn(Last(frames))
           fine == TopIs(Loops) /\ (astray /\ skipAct = "break" => ~HasMore(Last(frames), met))
<1>1. /\ Skipping /\ skipAct' = skipAct /\ skipAct \in {"break", "continue"}
      /\ blocks \in Seq(BlockSet) /\ frames \in Seq(FrameSet) /\ Depth = Len(blocks)
  BY DEF SkipClose, EngineInv, EngineTypes, Depth
<1>2. Depth \in Nat /\ skipTarget \in Nat /\ skipTarget < Depth /\ Depth > 0
  BY <1>1 DEF EngineInv, EngineTypes, SkipsLoop, Skipping, Depth
<1>3. b \in BlockSet /\ again \in BOOLEAN /\ b = blocks[Depth]
  BY <1>2, TopKnown, GoesTyped
<1>4. ASSUME orderly
      PROVE  /\ Len(frames) = Depth /\ frames # <<>> /\ Last(frames) \in FrameSet
             /\ Matched(b, Last(frames))
             /\ Last(frames).skip = IF Depth - 1 = skipTarget /\ ~astray THEN skipAct ELSE "no"
  BY <1>2, <1>4, TopKnown
<1>7. kw = "done" => Means(EndTurn(met), fine)
  BY DEF SkipClose
<1> HIDE DEF again, fine
<1>5. CASE Depth - 1 # skipTarget
  <2>1. blocks' = Pop(blocks) /\ skipTarget' = skipTarget /\ astray' = astray
    BY <1>5 DEF SkipClose
  <2>2. Popped(BlockSet, blocks, blocks')
    BY <1>1, <1>2, <2>1, PopIs
  <2>3. orderly => Popped(FrameSet, frames, Pop(frames))
    BY <1>1, <1>2, <1>4, PopIs
  <2>4. orderly => ~TopIs(Loops)
    <3> SUFFICES ASSUME orderly PROVE ~TopIs(Loops)
      OBVIOUS
    <3>1. Depth \in skipTarget + 2 .. Depth
      BY <1>2, <1>5
    <3>2. b.kind = "if"
      BY <1>1, <1>3, <3>1 DEF EngineInv, Mirror
    <3> QED
      BY <1>4, <3>2 DEF TopIs, Matched, Loops
  <2>5. /\ orderly' \in BOOLEAN /\ frames' \in Seq(FrameSet)
        /\ orderly' => orderly /\ frames' = Pop(frames)
    <3>1. orderly => Pop(frames) \in Seq(FrameSet)
      BY <2>3 DEF Popped
    <3>2. CASE kw = "fi"
      <4>1. Means(Pop(frames), TopIs({"if"}))
        BY <3>2 DEF SkipClose
      <4> QED
        BY <3>1, <4>1, MeansIs
    <3>3. CASE kw = "done"
      <4>1. Means(EndTurn(met), fine) /\ (fine => TopIs(Loops))
        BY <1>7, <3>3 DEF fine
      <4> QED
        BY <2>4, <4>1, MeansIs
    <3> QED
      BY <3>2, <3>3
  <2>6. orderly' => orderly /\ Popped(FrameSet, frames, frames')
    BY <2>3, <2>5
  <2>7. /\ skipTarget' = IF Depth - 1 = skipTarget THEN -1 ELSE skipTarget
        /\ astray' = IF Depth - 1 = skipTarget THEN FALSE ELSE astray
    BY <1>5, <2>1
  <2> QED
    BY <1>1, <1>2, <2>2, <2>5, <2>6, <2>7, BothPopped
<1>6. CASE Depth - 1 = skipTarget
  <2>1. /\ blocks' = IF skipAct = "break" THEN Pop(blocks) ELSE LoopIterate(met)
        /\ skipTarget' = -1 /\ astray' = FALSE
    BY <1>6 DEF SkipClose
  <2>2. b.kind \in Loops
    <3>1. skipTarget + 1 = Depth
      BY <1>2, <1>6
    <3> QED
      BY <1>1, <1>3, <3>1 DEF EngineInv, SkipsLoop
  <2>3. orderly => ~TopIs({"if"})
    BY <1>4, <2>2 DEF TopIs, Matched, Loops
  <2>6. ASSUME orderly PROVE HasMore(Last(frames), met) = again
    BY <1>3, <1>4, <2>2, <2>6, MoreMatched DEF again
  <2>4. CASE skipAct = "break" \/ ~again
    <3>1. Popped(BlockSet, blocks, blocks')
      <4>1. CASE skipAct = "break"
        BY <1>1, <1>2, <2>1, <4>1, PopIs
      <4>2. CASE skipAct # "break"
        BY <1>2, <2>1, <2>4, <4>2, IterateIs DEF again
      <4> QED
        BY <4>1, <4>2
    <3>2. orderly /\ fine => Popped(FrameSet, frames, EndTurn(met))
      <4> SUFFICES ASSUME orderly, fine PROVE Popped(FrameSet, frames, EndTurn(met))
        OBVIOUS
      <4>1. Last(frames).skip = "break" \/ ~HasMore(Last(frames), met)
        <5>1. CASE astray
          BY <2>4, <2>6, <5>1 DEF fine
        <5>2. CASE ~astray
          BY <1>4, <1>6, <2>4, <2>6, <5>2
        <5> QED
          BY <5>1, <5>2
      <4> QED
        BY <1>2, <4>1, TurnEnds
    <3>3. /\ orderly' \in BOOLEAN /\ frames' \in Seq(FrameSet)
          /\ orderly' => orderly /\ fine /\ frames' = EndTurn(met)
      <4>1. orderly /\ fine => EndTurn(met) \in Seq(FrameSet)
        BY <3>2 DEF Popped
      <4>2. CASE kw = "fi"
        <5>1. Means(Pop(frames), TopIs({"if"}))
          BY <4>2 DEF SkipClose
        <5> QED
          BY <2>3, <5>1, MeansIs
      <4>3. CASE kw = "done"
        BY <1>7, <4>1, <4>3, MeansIs
      <4> QED
        BY <4>2, <4>3
    <3>4. orderly' => orderly /\ Popped(FrameSet, frames, frames')
      BY <3>2, <3>3
    <3>5. /\ skipTarget' = IF Depth - 1 = skipTarget THEN -1 ELSE skipTarget
          /\ astray' = IF Depth - 1 = skipTarget THEN FALSE ELSE astray
      BY <1>6, <2>1
    <3> QED
      BY <1>1, <1>2, <3>1, <3>3, <3>4, <3>5, BothPopped
  <2>5. CASE skipAct # "break" /\ again
    <3>1. PICK c \in BlockSet : Topped(BlockSet, blocks, blocks', c) /\ Again(b, c)
      BY <1>2, <2>1, <2>5, IterateIs DEF again
    <3>2. ASSUME orderly
          PROVE  /\ f \in FrameSet /\ Topped(FrameSet, frames, EndTurn(met), f)
                 /\ Matched(c, f) /\ f.skip = "no"
      <4>1. f \in FrameSet /\ Topped(FrameSet, frames, EndTurn(met), f)
        <5>1. ~(Last(frames).skip = "break") /\ HasMore(Last(frames), met)
          BY <1>4, <2>5, <2>6, <3>2
        <5> QED
          BY <1>2, <3>2, <5>1, TurnEnds
      <4> QED
        BY <1>3, <1>4, <2>2, <3>1, <3>2, <4>1, AgainMatched
    <3>3. /\ orderly' \in BOOLEAN /\ frames' \in Seq(FrameSet)
          /\ orderly' => orderly /\ frames' = EndTurn(met)
      <4>1. orderly => EndTurn(met) \in Seq(FrameSet)
        BY <3>2 DEF Topped
      <4>2. CASE kw = "fi"
        <5>1. Means(Pop(frames), TopIs({"if"}))
          BY <4>2 DEF SkipClose
        <5> QED
          BY <2>3, <5>1, MeansIs
      <4>3. CASE kw = "done"
        BY <1>7, <4>1, <4>3, MeansIs
      <4> QED
        BY <4>2, <4>3
    <3>4. PICK g \in FrameSet :
            orderly' => /\ orderly /\ Topped(FrameSet, frames, frames', g)
                        /\ Matched(c, g) /\ g.skip = "no"
      <4>1. CASE orderly'
        BY <3>2, <3>3, <4>1
      <4>2. CASE ~orderly'
        <5>1. Frame("if", TRUE, 0) \in FrameSet
          BY DEF Frame, FrameSet, Kinds
        <5> QED
          BY <4>2, <5>1
      <4> QED
        BY <4>1, <4>2
    <3> QED
      BY <1>1, <1>2, <1>6, <2>1, <3>1, <3>3, <3>4, BothTopped
  <2> QED
    BY <1>3, <2>4, <2>5
<1> QED
  BY <1>5, <1>6

(* else, elif: the innermost if comes to another part in both.             *)
LEMMA PartKeeps ==
  ASSUME EngineInv, ~Skipping, Depth > 0,
         NEW active \in BOOLEAN, NEW taken \in BOOLEAN, NextPart(active, taken),
         NEW fine, NEW live \in BOOLEAN, NEW done \in BOOLEAN,
         Means(SetTop([Last(frames) EXCEPT !.live = live, !.done = done]), fine),
         orderly /\ fine => TopIs({"if"}) /\ live = active /\ done = taken
  PROVE  EngineInv'
<1> DEFINE c == IF Last(blocks).kind # "if" THEN Last(blocks)
                ELSE [Last(blocks) EXCEPT !.active = active, !.taken = taken]
           f == [Last(frames) EXCEPT !.live = live, !.done = done]
<1>1. /\ skipTarget' = skipTarget /\ skipAct' = skipAct /\ astray' = astray
      /\ blocks' = IF Last(blocks).kind # "if" THEN blocks
                   ELSE Append(Pop(blocks),
                          [Last(blocks) EXCEPT !.active = active, !.taken = taken])
  BY DEF NextPart
<1>2. /\ skipTarget = -1 /\ astray = FALSE /\ Depth \in Nat /\ Depth = Len(blocks)
      /\ blocks \in Seq(BlockSet) /\ frames \in Seq(FrameSet)
  BY DEF Skipping, EngineInv, EngineTypes, SkipsLoop, Depth
<1>3. Last(blocks) = blocks[Depth] /\ Last(blocks) \in BlockSet
  BY TopKnown
<1>4. c \in BlockSet
  BY <1>3 DEF BlockSet
<1>5. Topped(BlockSet, blocks, blocks', c)
  <2>1. CASE Last(blocks).kind # "if"
    BY <1>1, <1>2, <1>3, <2>1 DEF Topped
  <2>2. CASE Last(blocks).kind = "if"
    <3>1. blocks' = Append(Pop(blocks), c)
      BY <1>1, <2>2
    <3> HIDE DEF c
    <3> QED
      BY <1>2, <1>4, <3>1, TopIsSet
  <2> QED
    BY <2>1, <2>2
<1>6. ASSUME orderly
      PROVE  /\ Last(frames) \in FrameSet /\ Matched(Last(blocks), Last(frames))
             /\ Last(frames).skip = "no" /\ Len(frames) > 0
  <2>1. Depth - 1 # skipTarget
    BY <1>2
  <2> QED
    BY <1>2, <1>6, <2>1, TopKnown
<1>7. ASSUME orderly
      PROVE  /\ f \in FrameSet /\ f.kind = Last(frames).kind /\ f.skip = "no"
             /\ f.live = live /\ f.done = done
  BY <1>6, <1>7 DEF FrameSet
<1>8. ASSUME orderly
      PROVE  Topped(FrameSet, frames, SetTop(f), f)
  <2> HIDE DEF f
  <2> QED
    BY <1>2, <1>6, <1>7, <1>8, TopIsSet DEF SetTop
<1>9. /\ orderly' \in BOOLEAN /\ frames' \in Seq(FrameSet)
      /\ orderly' => orderly /\ fine /\ frames' = SetTop(f)
  <2>1. orderly => SetTop(f) \in Seq(FrameSet)
    BY <1>8 DEF Topped
  <2> QED
    BY <2>1, MeansIs
<1>10. ASSUME orderly, fine PROVE Matched(c, f)
  <2>1. Last(blocks).kind = "if" /\ Last(frames).kind = "if"
    BY <1>6, <1>10 DEF TopIs, Matched
  <2>2. c.kind = "if" /\ c.active = active /\ c.taken = taken
    BY <1>3, <2>1 DEF BlockSet
  <2> HIDE DEF c, f
  <2> QED
    BY <1>7, <1>10, <2>1, <2>2 DEF Matched
<1>11. PICK g \in FrameSet :
         orderly' => /\ orderly /\ Topped(FrameSet, frames, frames', g)
                     /\ Matched(c, g) /\ g.skip = "no"
  <2> HIDE DEF c, f
  <2>1. CASE orderly'
    BY <1>7, <1>8, <1>9, <1>10, <2>1
  <2>2. CASE ~orderly'
    <3>1. Frame("if", TRUE, 0) \in FrameSet
      BY DEF Frame, FrameSet, Kinds
    <3> QED
      BY <2>2, <3>1
  <2> QED
    BY <2>1, <2>2
<1> HIDE DEF c, f
<1> QED
  BY <1>1, <1>2, <1>4, <1>5, <1>9, <1>11, BothTopped

LEMMA ElseKeeps ==
  ASSUME EngineInv, Else
  PROVE  EngineInv'
<1>1. /\ ~Skipping /\ Depth > 0 /\ NextPart(~Last(blocks).taken, Last(blocks).taken)
      /\ Means(SetTop([Last(frames) EXCEPT !.live = ~Last(frames).done]), TopIs({"if"}))
  BY DEF Else
<1>2. Last(blocks) \in BlockSet
  BY <1>1, TopKnown
<1>3. PICK taken \in BOOLEAN : taken = Last(blocks).taken
  BY <1>2 DEF BlockSet
<1>4. PICK done \in BOOLEAN : orderly => done = Last(frames).done
  BY <1>1, TopKnown DEF FrameSet
<1>5. ASSUME orderly
      PROVE  /\ Last(frames) \in FrameSet /\ Matched(Last(blocks), Last(frames))
             /\ [Last(frames) EXCEPT !.live = ~Last(frames).done]
                  = [Last(frames) EXCEPT !.live = ~done, !.done = done]
  <2>1. Last(frames) \in FrameSet /\ Matched(Last(blocks), Last(frames))
    BY <1>1, <1>5, TopKnown
  <2> QED
    BY <1>4, <1>5, <2>1 DEF FrameSet
<1>6. Means(SetTop([Last(frames) EXCEPT !.live = ~done, !.done = done]), TopIs({"if"}))
  <2>1. CASE orderly
    BY <1>1, <1>5, <2>1
  <2>2. CASE ~orderly
    BY <1>1, <2>2 DEF Means
  <2> QED
    BY <2>1, <2>2
<1>7. orderly /\ TopIs({"if"}) => done = taken
  BY <1>3, <1>4, <1>5 DEF TopIs, Matched
<1>8. NextPart(~taken, taken)
  BY <1>1, <1>3
<1>9. PICK open \in BOOLEAN : open = ~taken
  OBVIOUS
<1>10. PICK live \in BOOLEAN : live = ~done
  OBVIOUS
<1>11. orderly /\ TopIs({"if"}) => TopIs({"if"}) /\ live = open /\ done = taken
  BY <1>7, <1>9, <1>10
<1>12. NextPart(open, taken)
  BY <1>8, <1>9
<1>13. Means(SetTop([Last(frames) EXCEPT !.live = live, !.done = done]), TopIs({"if"}))
  BY <1>6, <1>10
<1> QED
  BY <1>1, <1>11, <1>12, <1>13, PartKeeps

LEMMA ElifKeeps ==
  ASSUME EngineInv, NEW met \in BOOLEAN, Elif(met)
  PROVE  EngineInv'
<1> DEFINE fine == TopIs({"if"}) /\ (frames # <<>> => ~Last(frames).done)
<1>1. /\ ~Skipping /\ Depth > 0
      /\ IF Last(blocks).taken THEN NextPart(Last(blocks).active, TRUE) ELSE NextPart(met, met)
      /\ Means(SetTop([Last(frames) EXCEPT !.live = met, !.done = met]), fine)
  BY DEF Elif
<1>2. Last(blocks) \in BlockSet
  BY <1>1, TopKnown
<1>3. Last(blocks).taken \in BOOLEAN /\ Last(blocks).active \in BOOLEAN
  BY <1>2 DEF BlockSet
<1>4. orderly /\ fine => TopIs({"if"}) /\ ~Last(blocks).taken
  BY <1>1, TopKnown DEF TopIs, Matched
<1>5. CASE Last(blocks).taken
  <2>1. PICK active \in BOOLEAN : active = Last(blocks).active
    BY <1>3
  <2>2. NextPart(active, TRUE)
    BY <1>1, <1>5, <2>1
  <2>3. ~(orderly /\ fine)
    BY <1>4, <1>5
  <2> HIDE DEF fine
  <2> QED
    BY <1>1, <2>2, <2>3, PartKeeps
<1>6. CASE ~Last(blocks).taken
  <2>1. NextPart(met, met)
    BY <1>1, <1>6
  <2> HIDE DEF fine
  <2> QED
    BY <1>1, <1>4, <2>1, PartKeeps
<1> QED
  BY <1>5, <1>6

(* A block begins in both, unless the stack is full.                       *)
LEMMA OpensKeeps ==
  ASSUME EngineInv, NEW kind \in Kinds, NEW met \in BOOLEAN, NEW items \in Items,
         Opens(kind, met, items)
  PROVE  EngineInv'
<1>1. PICK active \in BOOLEAN : active = BeginsActive(kind, met, items)
  <2>1. kind \in {"if", "for", "while", "until"}
    BY DEF Kinds, Loops
  <2>2. (items > 0) \in BOOLEAN /\ (~met) \in BOOLEAN
    OBVIOUS
  <2> QED
    BY <2>1, <2>2 DEF BeginsActive
<1>2. kind = "for" => active = (items > 0)
  BY <1>1 DEF BeginsActive
<1> DEFINE fine == /\ Depth < MaxBlocks
                   /\ kind \in Loops => Runs
                   /\ kind \in {"while", "until"} => active
           b == NewBlock(kind, active, items)
           left == IF kind = "for" THEN items ELSE 0
           f == Frame(kind, active, left)
<1>3. /\ ~Skipping /\ skipTarget' = skipTarget /\ skipAct' = skipAct /\ astray' = astray
      /\ blocks' = IF Depth < MaxBlocks THEN Append(blocks, b) ELSE blocks
      /\ Means(Append(frames, f), fine)
  BY <1>1 DEF Opens
<1>4. /\ skipTarget = -1 /\ astray = FALSE /\ Depth \in Nat /\ MaxBlocks \in Nat /\ Depth <= MaxBlocks
      /\ Depth = Len(blocks)
      /\ blocks \in Seq(BlockSet) /\ frames \in Seq(FrameSet)
  BY <1>3, EngineAssumption DEF Skipping, EngineInv, EngineTypes, SkipsLoop, Depth
<1>5. /\ b.kind = kind /\ b.active = active /\ b.taken = (kind = "if" /\ active)
      /\ b.iter = IF kind = "for" THEN items ELSE 0
      /\ f.kind = kind /\ f.live = active /\ f.done = active /\ f.skip = "no"
      /\ b.idx = 0 /\ f.left = left
  BY DEF NewBlock, Frame
<1>6. b \in BlockSet
  <2>1. (kind = "if" /\ active) \in BOOLEAN
    OBVIOUS
  <2> QED
    BY <2>1 DEF NewBlock, BlockSet
<1>7. f \in FrameSet
  <2>1. left \in Int
    BY EngineAssumption
  <2> HIDE DEF left
  <2> QED
    BY <2>1 DEF Frame, FrameSet
<1>8. Matched(b, f)
  <2>1. kind = "if" => b.taken = active
    BY <1>5
  <2>2. kind = "for" /\ b.iter > 0 => active
    BY <1>2, <1>5
  <2>3. kind = "for" => b.idx + f.left = b.iter
    <3> SUFFICES ASSUME kind = "for" PROVE b.idx + f.left = b.iter
      OBVIOUS
    <3>1. b.idx = 0 /\ f.left = items /\ b.iter = items /\ items \in Nat
      BY <1>5, EngineAssumption
    <3> HIDE DEF b, f
    <3> QED
      BY <3>1
  <2> HIDE DEF b, f
  <2> QED
    BY <1>5, <2>1, <2>2, <2>3 DEF Matched
<1> HIDE DEF b, f
<1>9. /\ orderly' \in BOOLEAN /\ frames' \in Seq(FrameSet)
      /\ orderly' => orderly /\ fine /\ frames' = Append(frames, f)
  <2>1. Append(frames, f) \in Seq(FrameSet)
    BY <1>4, <1>7
  <2> HIDE DEF fine
  <2> QED
    BY <1>3, <2>1, MeansIs
<1>10. EngineTypes'
  <2>3. astray' \in BOOLEAN
    BY <1>3, <1>4, Zenon
  <2>1. CASE Depth < MaxBlocks
    <3>1. blocks' \in Seq(BlockSet) /\ Len(blocks') = Depth + 1
      BY <1>3, <1>4, <1>6, <2>1
    <3> QED
      BY <1>3, <1>4, <1>9, <2>1, <2>3, <3>1 DEF EngineInv, EngineTypes, Depth
  <2>2. CASE ~(Depth < MaxBlocks)
    BY <1>3, <1>4, <1>9, <2>2, <2>3 DEF EngineInv, EngineTypes, Depth
  <2> QED
    BY <2>1, <2>2
<1>11. ~Skipping' /\ ~astray'
  <2>1. ~Skipping'
    BY <1>3, <1>4 DEF Skipping
  <2>2. ~astray'
    BY <1>3, <1>4, Zenon
  <2> QED
    BY <2>1, <2>2
<1>12. ASSUME orderly' PROVE Mirror'
  <2>1. orderly /\ Depth < MaxBlocks /\ frames' = Append(frames, f)
    BY <1>9, <1>12
  <2>2. /\ Len(frames) = Depth
        /\ \A i \in 1 .. Depth : Matched(blocks[i], frames[i])
        /\ \A i \in 1 .. Depth : frames[i].skip = "no"
    BY <1>3, <2>1 DEF EngineInv, Mirror
  <2>3. /\ Depth' = Depth + 1 /\ Len(frames') = Depth + 1
        /\ blocks'[Depth + 1] = b /\ frames'[Depth + 1] = f
        /\ \A i \in 1 .. Depth : blocks'[i] = blocks[i] /\ frames'[i] = frames[i]
    <3>1. blocks' = Append(blocks, b)
      BY <1>3, <2>1
    <3> QED
      BY <1>4, <1>6, <1>7, <2>1, <2>2, <3>1 DEF Depth
  <2>4. ASSUME NEW i \in 1 .. Depth'
        PROVE  Matched(blocks'[i], frames'[i]) /\ frames'[i].skip = "no"
    <3>1. CASE i = Depth + 1
      BY <1>5, <1>8, <2>3, <3>1
    <3>2. CASE i # Depth + 1
      BY <1>4, <2>2, <2>3, <3>2
    <3> QED
      BY <3>1, <3>2
  <2> QED
    BY <1>11, <2>3, <2>4 DEF Mirror
<1> QED
  BY <1>10, <1>11, <1>12 DEF EngineInv, Mirror, SkipsLoop

(* break and continue: the loop is the innermost, and what is inside it    *)
(* are ifs.                                                                *)
LEMMA LeavesKeeps ==
  ASSUME EngineInv, NEW act \in {"break", "continue"}, Leaves(act)
  PROVE  EngineInv'
<1>1. PICK d \in InnerLoop :
        /\ skipTarget' = d - 1 /\ skipAct' = act
        /\ Means(IF Runs THEN [frames EXCEPT ![d].skip = act] ELSE frames, TRUE)
  BY DEF Leaves
<1>2. ~Skipping /\ blocks' = blocks /\ astray' = (orderly /\ ~Runs)
  BY DEF Leaves
<1>3. /\ d \in 1 .. Depth /\ blocks[d].kind \in Loops
      /\ \A e \in d + 1 .. Depth : blocks[e].kind = "if"
  BY <1>1 DEF InnerLoop
<1>4. /\ Depth \in Nat /\ MaxBlocks \in Nat /\ Depth <= MaxBlocks /\ Depth = Len(blocks)
      /\ blocks \in Seq(BlockSet) /\ frames \in Seq(FrameSet)
  BY EngineAssumption DEF EngineInv, EngineTypes, Depth
<1>5. Depth' = Depth
  BY <1>2 DEF Depth
<1>6. d \in Nat /\ skipTarget' \in Nat /\ skipTarget' \in 0 .. Depth - 1 /\ skipTarget' + 1 = d
  BY <1>1, <1>3, <1>4
<1>7. Skipping' /\ SkipsLoop'
  <2>1. skipTarget' >= 0 /\ skipTarget' < Depth'
    BY <1>4, <1>5, <1>6
  <2>2. blocks'[skipTarget' + 1].kind \in Loops
    BY <1>2, <1>3, <1>6
  <2> QED
    BY <2>1, <2>2 DEF Skipping, SkipsLoop
<1>8. ASSUME orderly
      PROVE  /\ Len(frames) = Depth
             /\ \A i \in 1 .. Depth : Matched(blocks[i], frames[i])
             /\ \A i \in 1 .. Depth : frames[i].skip = "no" /\ frames[i] \in FrameSet
  BY <1>2, <1>4, <1>8 DEF EngineInv, Mirror
<1>9. PICK h : h = [frames EXCEPT ![d].skip = act]
  OBVIOUS
<1>10. ASSUME orderly, Runs
       PROVE  /\ h \in Seq(FrameSet) /\ Len(h) = Depth
              /\ \A i \in 1 .. Depth : i # d => h[i] = frames[i]
              /\ h[d].skip = act /\ h[d].kind = frames[d].kind
              /\ h[d].live = frames[d].live /\ h[d].done = frames[d].done
              /\ h[d].left = frames[d].left
  <2>1. PICK c : c = [frames[d] EXCEPT !.skip = act]
    OBVIOUS
  <2>2. frames[d] \in FrameSet
    BY <1>3, <1>8, <1>10
  <2>3. /\ c \in FrameSet /\ c.skip = act /\ c.kind = frames[d].kind
        /\ c.live = frames[d].live /\ c.done = frames[d].done /\ c.left = frames[d].left
    BY <2>1, <2>2 DEF FrameSet
  <2>4. h = [frames EXCEPT ![d] = c]
    BY <1>9, <2>1
  <2> QED
    BY <1>3, <1>4, <1>8, <1>10, <2>3, <2>4
<1>11. PICK g : g = IF Runs THEN h ELSE frames
  OBVIOUS
<1>12. /\ orderly' \in BOOLEAN /\ frames' \in Seq(FrameSet)
       /\ orderly' => orderly /\ frames' = g
  <2>1. Means(g, TRUE)
    BY <1>1, <1>9, <1>11
  <2>2. orderly => g \in Seq(FrameSet)
    BY <1>4, <1>10, <1>11
  <2> QED
    BY <2>1, <2>2, MeansIs
<1>13. astray' \in BOOLEAN
  BY <1>2
<1>14. EngineTypes'
  <2>1. /\ blocks' \in Seq(BlockSet) /\ Depth' <= MaxBlocks
        /\ skipTarget' \in -1 .. MaxBlocks - 1 /\ skipAct' \in {"break", "continue"}
    BY <1>1, <1>2, <1>4, <1>5, <1>6
  <2> QED
    BY <1>12, <1>13, <2>1 DEF EngineTypes
<1>15. ASSUME orderly' PROVE Mirror'
  <2>1. orderly /\ frames' = g /\ (astray' <=> ~Runs)
    BY <1>2, <1>15, <1>12
  <2>2. ASSUME NEW i \in 1 .. Depth
        PROVE  /\ Matched(blocks[i], g[i])
               /\ g[i].skip = IF Runs /\ i = d THEN act ELSE "no"
    <3>1. CASE ~Runs
      <4>1. g = frames
        BY <1>11, <3>1
      <4>2. (IF Runs /\ i = d THEN act ELSE "no") = "no"
        BY <3>1, Zenon
      <4> QED
        BY <1>8, <2>1, <4>1, <4>2
    <3>2. CASE Runs /\ i = d
      <4>1. g = h /\ Matched(blocks[d], frames[d])
        BY <1>3, <1>8, <1>11, <2>1, <3>2
      <4>2. /\ h[d].skip = act /\ h[d].kind = frames[d].kind
            /\ h[d].live = frames[d].live /\ h[d].done = frames[d].done
            /\ h[d].left = frames[d].left
        BY <1>10, <2>1, <3>2
      <4>3. Matched(blocks[d], h[d])
        BY <4>1, <4>2 DEF Matched
      <4> QED
        BY <3>2, <4>1, <4>2, <4>3
    <3>3. CASE Runs /\ i # d
      BY <1>8, <1>10, <1>11, <2>1, <3>3
    <3> QED
      BY <3>1, <3>2, <3>3
  <2>4. Len(g) = Depth
    BY <1>8, <1>10, <1>11, <2>1
  <2>3. \A i \in skipTarget' + 2 .. Depth : blocks[i].kind = "if"
    <3>1. PICK k \in Nat : k = skipTarget'
      BY <1>6
    <3>2. PICK n \in Nat : n = d
      BY <1>6
    <3>3. k + 1 = n
      BY <1>6, <3>1, <3>2
    <3>4. k + 2 = n + 1
      BY <3>3
    <3>5. skipTarget' + 2 = d + 1
      BY <3>1, <3>2, <3>4
    <3> QED
      BY <1>3, <3>5
  <2>5. \A i \in 1 .. Depth' : Matched(blocks'[i], frames'[i])
    BY <1>2, <1>5, <2>1, <2>2
  <2>6. \A i \in 1 .. Depth' :
          frames'[i].skip
            = IF Skipping' /\ ~astray' /\ i = skipTarget' + 1 THEN skipAct' ELSE "no"
    BY <1>1, <1>5, <1>6, <1>7, <2>1, <2>2
  <2>7. Len(frames') = Depth'
    BY <1>5, <2>1, <2>4
  <2>8. Skipping' => \A i \in skipTarget' + 2 .. Depth' : blocks'[i].kind = "if"
    BY <1>2, <1>5, <2>3
  <2> QED
    BY <2>5, <2>6, <2>7, <2>8 DEF Mirror
<1> QED
  BY <1>7, <1>14, <1>15 DEF EngineInv, Mirror

(* What else stands among skipped segments is not looked at.               *)
LEMMA SkipOtherKeeps ==
  ASSUME EngineInv, NEW kw, SkipOther(kw)
  PROVE  EngineInv'
<1>1. /\ blocks' = blocks /\ skipTarget' = skipTarget /\ skipAct' = skipAct
      /\ astray' = astray /\ Means(frames, kw # "opens")
  BY DEF SkipOther
<1>2. /\ orderly' \in BOOLEAN /\ frames' \in Seq(FrameSet)
      /\ orderly' => orderly /\ frames' = frames
  <2>1. frames \in Seq(FrameSet)
    BY DEF EngineInv, EngineTypes
  <2> QED
    BY <1>1, <2>1, MeansIs
<1> QED
  BY <1>1, <1>2 DEF EngineInv, EngineTypes, SkipsLoop, Skipping, Depth, Mirror

(* EngineInv is an inductive invariant of EngineSpec.                      *)
THEOREM EngineInductive == EngineSpec => []EngineInv
<1>1. EngineInit => EngineInv
  <2> SUFFICES ASSUME EngineInit PROVE EngineInv
    OBVIOUS
  <2>1. blocks = <<>> /\ frames = <<>> /\ skipTarget = -1 /\ skipAct = "break"
    BY DEF EngineInit
  <2>2. orderly \in BOOLEAN /\ astray \in BOOLEAN /\ ~astray
    BY Zenon DEF EngineInit
  <2>3. Depth = 0 /\ Len(frames) = 0
    BY <2>1 DEF Depth
  <2>4. EngineTypes
    BY <2>1, <2>2, <2>3, EngineAssumption DEF EngineTypes
  <2>5. SkipsLoop /\ Mirror
    BY <2>1, <2>2, <2>3 DEF SkipsLoop, Skipping, Mirror
  <2> QED
    BY <2>4, <2>5 DEF EngineInv
<1>2. EngineInv /\ [EngineNext]_nvars => EngineInv'
  <2> SUFFICES ASSUME EngineInv, [EngineNext]_nvars PROVE EngineInv'
    OBVIOUS
  <2>1. CASE Fi \/ Else
    BY <2>1, FiKeeps, ElseKeeps
  <2>2. ASSUME NEW met \in BOOLEAN, Done(met) \/ Elif(met)
        PROVE  EngineInv'
    BY <2>2, DoneKeeps, ElifKeeps
  <2>3. ASSUME NEW met \in BOOLEAN, NEW kw \in {"fi", "done"}, SkipClose(kw, met)
        PROVE  EngineInv'
    BY <2>3, SkipCloseKeeps
  <2>4. ASSUME NEW met \in BOOLEAN, NEW kind \in {"if"} \cup Loops, NEW items \in Items,
               Opens(kind, met, items)
        PROVE  EngineInv'
    BY <2>4, OpensKeeps DEF Kinds
  <2>5. ASSUME NEW act \in {"break", "continue"}, Leaves(act)
        PROVE  EngineInv'
    BY <2>5, LeavesKeeps
  <2>6. ASSUME NEW kw, SkipOther(kw)
        PROVE  EngineInv'
    BY <2>6, SkipOtherKeeps
  <2>7. CASE UNCHANGED nvars
    BY <2>7 DEF nvars, EngineInv, EngineTypes, SkipsLoop, Skipping, Depth, Mirror
  <2> QED
    BY <2>1, <2>2, <2>3, <2>4, <2>5, <2>6, <2>7 DEF EngineNext
<1> QED
  BY <1>1, <1>2, PTL DEF EngineSpec

(* A script executes the commands that it should and no others, and what   *)
(* is skipped ends at an open loop.                                        *)
THEOREM ScriptRunsAlways == EngineSpec => []ScriptRuns
<1>1. EngineInv => ScriptRuns
  <2> SUFFICES ASSUME EngineInv PROVE ScriptRuns
    OBVIOUS
  <2>1. \A i \in 1 .. Depth : blocks[i] \in BlockSet
    BY DEF EngineInv, EngineTypes, Depth
  <2>2. EngineTypeOK
    BY <2>1 DEF EngineInv, EngineTypes, EngineTypeOK, BlockSet, Kinds
  <2>3. Skipping => skipTarget < Depth /\ blocks[skipTarget + 1].kind \in Loops
    BY DEF EngineInv, SkipsLoop
  <2>4. ASSUME orderly
        PROVE  /\ Depth = Len(frames)
               /\ IF astray THEN Skipping ELSE (~Skipping /\ BlockActive <=> Runs)
    <3>1. /\ Len(frames) = Depth
          /\ \A i \in 1 .. Depth : Matched(blocks[i], frames[i])
          /\ \A i \in 1 .. Depth :
               frames[i].skip = IF Skipping /\ ~astray /\ i = skipTarget + 1 THEN skipAct ELSE "no"
      BY <2>4 DEF EngineInv, Mirror
    <3>2. CASE ~Skipping
      <4>1. ~astray
        BY <3>2 DEF EngineInv, SkipsLoop
      <4> QED
        BY <3>1, <3>2, <4>1 DEF BlockActive, Runs, Matched
    <3>3. CASE Skipping /\ ~astray
      <4>1. skipTarget + 1 \in 1 .. Depth
        BY <2>3, <3>3 DEF Skipping, EngineInv, EngineTypes, Depth
      <4>2. frames[skipTarget + 1].skip # "no"
        BY <3>1, <3>3, <4>1 DEF EngineInv, EngineTypes
      <4> QED
        BY <3>1, <3>3, <4>1, <4>2 DEF Runs
    <3>4. CASE astray
      BY <3>1, <3>4 DEF EngineInv, SkipsLoop
    <3> QED
      BY <3>1, <3>2, <3>3, <3>4
  <2> QED
    BY <2>2, <2>3, <2>4 DEF ScriptRuns
<1> QED
  BY <1>1, EngineInductive, PTL

-----------------------------------------------------------------------------
(* The at jobs.  A table of jobs and the jobs that were made: each waiting *)
(* job is one that was made, with its time as the field holds it, and      *)
(* waits once.                                                             *)
Job == [used : BOOLEAN, when : 0 .. TickWord - 1, id : Nat, again : BOOLEAN]
MadeJob == [due : Nat, new : BOOLEAN]

TableOk(jobs, md) ==
  /\ jobs \in [JobSlots -> Job]
  /\ \A i \in JobSlots : jobs[i].used =>
       jobs[i].id \in DOMAIN md /\ jobs[i].when = md[jobs[i].id].due % TickWord
  /\ \A i, j \in JobSlots :
       jobs[i].used /\ jobs[j].used /\ jobs[i].id = jobs[j].id => i = j
  /\ \A i \in JobSlots : ~jobs[i].used => ~jobs[i].again

WaitingOf(jobs) == {jobs[i].id : i \in {j \in JobSlots : jobs[j].used}}
PromisesOf(jobs) == {i \in JobSlots : jobs[i].again}

(* The old jobs of the slots that the pass has been to are not due.        *)
LaterThan(jobs, md, k, now) ==
  \A i \in JobSlots : i < k /\ jobs[i].used /\ ~md[jobs[i].id].new => jobs[i].when > now

RanOnce(jobs, md) == [k \in 1 .. MaxJobs |-> IF k \in DOMAIN md \ WaitingOf(jobs) THEN 1 ELSE 0]

Count == Cardinality(Ids)

AtInv ==
  /\ atTicks \in 0 .. MaxTicks /\ atSlot \in 0 .. MaxAtJobs
  /\ atNow \in Nat /\ atNow <= atTicks
  /\ Count \in Nat /\ made \in [1 .. Count -> MadeJob]
  /\ TableOk(atJobs, made)
  /\ Count + Cardinality(PromisesOf(atJobs)) <= MaxJobs
  /\ ended = RanOnce(atJobs, made)
  /\ (\A id \in Ids : made[id].due < TickWord) => ~early
  /\ LaterThan(atJobs, made, atSlot, atNow)

LEMMA AtConstants ==
  /\ MaxAtJobs \in Nat \ {0} /\ TickHz \in Nat \ {0} /\ TickWord \in Nat \ {0}
  /\ Delays \subseteq Nat /\ MaxJobs \in Nat /\ MaxTicks \in Nat
BY AtAssumption

LEMMA JobSlotsFinite ==
  ASSUME NEW S \in SUBSET JobSlots
  PROVE  IsFiniteSet(S) /\ Cardinality(S) \in Nat
<1>1. IsFiniteSet(JobSlots)
  <2>1. 0 \in Int /\ MaxAtJobs - 1 \in Int
    BY AtConstants
  <2> QED
    BY <2>1, FS_Interval DEF JobSlots
<1>2. IsFiniteSet(S)
  BY <1>1, FS_Subset
<1> QED
  BY <1>2, FS_CardinalityType

(* at_add takes a slot that is free.                                       *)
LEMMA FirstJobSlotIs ==
  ASSUME NEW S \in SUBSET JobSlots, S # {}
  PROVE  FirstJobSlot(S) \in S
<1>1. S \subseteq Nat
  BY DEF JobSlots
<1>2. PICK x \in S : \A y \in S : ~(<<y, x>> \in OpToRel(<, Nat))
  BY <1>1, WFMin, NatLessThanWellFounded
<1>3. ASSUME NEW y \in S PROVE x <= y
  <2>1. x \in Nat /\ y \in Nat
    BY <1>1
  <2>2. y < x => <<y, x>> \in OpToRel(<, Nat)
    <3>1. <<y, x>> \in Nat \X Nat /\ <<y, x>>[1] = y /\ <<y, x>>[2] = x
      BY <2>1
    <3> QED
      BY <3>1 DEF OpToRel
  <2>3. ~(<<y, x>> \in OpToRel(<, Nat))
    BY <1>2
  <2>4. ~(y < x)
    BY <2>2, <2>3
  <2> QED
    BY <2>1, <2>4
<1> QED
  BY <1>3 DEF FirstJobSlot

(* What at_add makes: a job with the next number, in a free slot.          *)
NewMade(md, n, d) ==
  [i \in 1 .. n + 1 |-> IF i = n + 1 THEN [due |-> d, new |-> TRUE] ELSE md[i]]

NewJob(n, d, again) ==
  [used |-> TRUE, when |-> d % TickWord, id |-> n + 1, again |-> again]

LEMMA AddIs ==
  ASSUME AtInv, NEW jobs \in [JobSlots -> Job], NEW seconds \in Delays, NEW again,
         AtAdd(jobs, seconds, again)
  PROVE  \/ atJobs' = jobs /\ made' = made
         \/ \E s \in JobSlots, d \in Nat :
              /\ ~jobs[s].used
              /\ atJobs' = [jobs EXCEPT ![s] = NewJob(Count, d, again)]
              /\ made' = NewMade(made, Count, d)
<1>1. CASE FreeJobSlots(jobs) = {}
  BY <1>1 DEF AtAdd
<1>2. CASE FreeJobSlots(jobs) # {}
  <2>1. PICK s \in JobSlots : s = FirstJobSlot(FreeJobSlots(jobs)) /\ ~jobs[s].used
    <3>1. FreeJobSlots(jobs) \in SUBSET JobSlots
      BY DEF FreeJobSlots
    <3>2. FirstJobSlot(FreeJobSlots(jobs)) \in FreeJobSlots(jobs)
      BY <1>2, <3>1, FirstJobSlotIs
    <3> QED
      BY <3>2 DEF FreeJobSlots
  <2>2. PICK d \in Nat : d = atTicks + seconds * TickHz
    <3>1. seconds \in Nat /\ TickHz \in Nat /\ atTicks \in Nat
      BY AtConstants DEF AtInv
    <3>2. seconds * TickHz \in Nat
      BY <3>1
    <3> QED
      BY <3>1, <3>2
  <2>3. Ids \cup {Count + 1} = 1 .. Count + 1
    <3>1. PICK n \in Nat : n = Count
      BY DEF AtInv
    <3>2. Ids = 1 .. n
      BY <3>1 DEF AtInv, Ids
    <3> QED
      BY <3>1, <3>2
  <2>4. atJobs' = [jobs EXCEPT ![s] = NewJob(Count, d, again)]
    BY <1>2, <2>1, <2>2 DEF AtAdd, NewJob, Count
  <2>5. made' = NewMade(made, Count, d)
    <3>1. made' = [i \in Ids \cup {Count + 1} |->
                    IF i = Count + 1 THEN [due |-> d, new |-> TRUE] ELSE made[i]]
      BY <1>2, <2>2 DEF AtAdd, Count
    <3> QED
      BY <2>3, <3>1 DEF NewMade
  <2> QED
    BY <2>1, <2>4, <2>5
<1> QED
  BY <1>1, <1>2

LEMMA AddedTable ==
  ASSUME AtInv, NEW jobs, TableOk(jobs, made),
         NEW s \in JobSlots, ~jobs[s].used, NEW d \in Nat, NEW again \in BOOLEAN,
         atJobs' = [jobs EXCEPT ![s] = NewJob(Count, d, again)],
         made' = NewMade(made, Count, d)
  PROVE  /\ TableOk(atJobs', made') /\ made' \in [1 .. Count + 1 -> MadeJob]
         /\ WaitingOf(atJobs') = WaitingOf(jobs) \cup {Count + 1}
         /\ again => PromisesOf(atJobs') = PromisesOf(jobs) \cup {s}
         /\ ~again => PromisesOf(atJobs') = PromisesOf(jobs)
         /\ s \notin PromisesOf(jobs)
         /\ \A k, now : LaterThan(jobs, made, k, now) => LaterThan(atJobs', made', k, now)
<1>0. PICK n \in Nat : n = Count /\ made \in [1 .. n -> MadeJob]
  BY DEF AtInv
<1>1. jobs \in [JobSlots -> Job]
  BY DEF TableOk
<1>2. PICK c : c = NewJob(n, d, again)
  OBVIOUS
<1>3. /\ c \in Job /\ c.used /\ c.id = n + 1 /\ c.when = d % TickWord /\ c.again = again
  <2>1. d % TickWord \in 0 .. TickWord - 1
    BY AtConstants
  <2> QED
    BY <1>2, <2>1 DEF NewJob, Job
<1>4. /\ atJobs' \in [JobSlots -> Job] /\ atJobs'[s] = c
      /\ \A i \in JobSlots : i # s => atJobs'[i] = jobs[i]
  BY <1>0, <1>1, <1>2, <1>3
<1>5. /\ made' \in [1 .. n + 1 -> MadeJob] /\ made'[n + 1].due = d /\ made'[n + 1].new
      /\ \A k \in 1 .. n : made'[k] = made[k]
  BY <1>0 DEF NewMade, MadeJob
<1>6. \A i \in JobSlots : jobs[i].used =>
        /\ i # s /\ jobs[i].id \in 1 .. n /\ jobs[i].when = made[jobs[i].id].due % TickWord
        /\ jobs[i].id # n + 1
  BY <1>0 DEF TableOk
<1>7. TableOk(atJobs', made')
  <2>1. ASSUME NEW i \in JobSlots, atJobs'[i].used
        PROVE  atJobs'[i].id \in 1 .. n + 1 /\ atJobs'[i].when = made'[atJobs'[i].id].due % TickWord
    <3>1. CASE i = s
      BY <1>3, <1>4, <1>5, <3>1
    <3>2. CASE i # s
      BY <1>4, <1>5, <1>6, <2>1, <3>2
    <3> QED
      BY <3>1, <3>2
  <2>2. ASSUME NEW i \in JobSlots, NEW j \in JobSlots,
               atJobs'[i].used, atJobs'[j].used, atJobs'[i].id = atJobs'[j].id
        PROVE  i = j
    BY <1>3, <1>4, <1>6, <2>2 DEF TableOk
  <2>3. ASSUME NEW i \in JobSlots, ~atJobs'[i].used
        PROVE  ~atJobs'[i].again
    BY <1>3, <1>4, <2>3 DEF TableOk
  <2> QED
    BY <1>4, <1>5, <2>1, <2>2, <2>3 DEF TableOk
<1>8. WaitingOf(atJobs') = WaitingOf(jobs) \cup {n + 1}
  <2>1. ASSUME NEW x \in WaitingOf(atJobs') PROVE x \in WaitingOf(jobs) \cup {n + 1}
    <3>1. PICK i \in JobSlots : atJobs'[i].used /\ x = atJobs'[i].id
      BY <2>1 DEF WaitingOf
    <3> QED
      BY <1>3, <1>4, <3>1 DEF WaitingOf
  <2>2. n + 1 \in WaitingOf(atJobs')
    <3>1. atJobs'[s].used /\ atJobs'[s].id = n + 1
      BY <1>3, <1>4
    <3> QED
      BY <3>1 DEF WaitingOf
  <2>3. ASSUME NEW x \in WaitingOf(jobs) PROVE x \in WaitingOf(atJobs')
    <3>1. PICK i \in JobSlots : jobs[i].used /\ x = jobs[i].id
      BY <2>3 DEF WaitingOf
    <3>2. atJobs'[i].used /\ x = atJobs'[i].id
      BY <1>4, <3>1
    <3> QED
      BY <3>2 DEF WaitingOf
  <2> QED
    BY <2>1, <2>2, <2>3
<1>9. s \notin PromisesOf(jobs)
  BY DEF TableOk, PromisesOf
<1>10. PromisesOf(atJobs') = IF again THEN PromisesOf(jobs) \cup {s} ELSE PromisesOf(jobs)
  BY <1>3, <1>4, <1>9 DEF PromisesOf
<1>11. ASSUME NEW k, NEW now, LaterThan(jobs, made, k, now), NEW i \in JobSlots,
              i < k, atJobs'[i].used, ~made'[atJobs'[i].id].new
       PROVE  atJobs'[i].when > now
  <2>1. i # s
    BY <1>3, <1>4, <1>5, <1>11
  <2> QED
    BY <1>4, <1>5, <1>6, <1>11, <2>1 DEF LaterThan
<1> QED
  BY <1>0, <1>5, <1>7, <1>8, <1>9, <1>10, <1>11 DEF LaterThan

(* at_add to a table that is sound leaves one: it has room in the bound,   *)
(* no job has run by it, and the jobs made before keep their times.        *)
LEMMA Adding ==
  ASSUME AtInv, NEW jobs, TableOk(jobs, made), NEW seconds \in Delays, NEW again \in BOOLEAN,
         AtAdd(jobs, seconds, again),
         Count + Cardinality(PromisesOf(jobs)) + (IF again THEN 2 ELSE 1) <= MaxJobs
  PROVE  /\ Count' \in Nat /\ made' \in [1 .. Count' -> MadeJob]
         /\ TableOk(atJobs', made')
         /\ Count' + Cardinality(PromisesOf(atJobs')) <= MaxJobs
         /\ RanOnce(atJobs', made') = RanOnce(jobs, made)
         /\ \A k, now : LaterThan(jobs, made, k, now) => LaterThan(atJobs', made', k, now)
         /\ \A id \in Ids : id \in Ids' /\ made'[id].due = made[id].due
<1>1. PICK n \in Nat : n = Count /\ made \in [1 .. n -> MadeJob] /\ Ids = 1 .. n
  BY DEF AtInv, Ids
<1>2. PICK p \in Nat : p = Cardinality(PromisesOf(jobs))
  BY JobSlotsFinite DEF PromisesOf
<1>3. n + p + (IF again THEN 2 ELSE 1) <= MaxJobs /\ MaxJobs \in Nat
  BY <1>1, <1>2, AtConstants
<1>4. CASE atJobs' = jobs /\ made' = made
  <2>1. Ids' = Ids /\ Count' = Count
    BY <1>4 DEF Ids, Count
  <2>2. Count' + Cardinality(PromisesOf(atJobs')) <= MaxJobs
    <3>1. n + p <= MaxJobs
      BY <1>3
    <3> QED
      BY <1>1, <1>2, <1>4, <2>1, <3>1
  <2> QED
    BY <1>1, <1>4, <2>1, <2>2
<1>5. ASSUME NEW s \in JobSlots, NEW d \in Nat, ~jobs[s].used,
             atJobs' = [jobs EXCEPT ![s] = NewJob(Count, d, again)],
             made' = NewMade(made, Count, d)
      PROVE  /\ Count' \in Nat /\ made' \in [1 .. Count' -> MadeJob]
             /\ TableOk(atJobs', made')
             /\ Count' + Cardinality(PromisesOf(atJobs')) <= MaxJobs
             /\ RanOnce(atJobs', made') = RanOnce(jobs, made)
             /\ \A k, now : LaterThan(jobs, made, k, now) => LaterThan(atJobs', made', k, now)
             /\ \A id \in Ids : id \in Ids' /\ made'[id].due = made[id].due
  <2>0. /\ TableOk(atJobs', made') /\ made' \in [1 .. Count + 1 -> MadeJob]
        /\ WaitingOf(atJobs') = WaitingOf(jobs) \cup {Count + 1}
        /\ again => PromisesOf(atJobs') = PromisesOf(jobs) \cup {s}
        /\ ~again => PromisesOf(atJobs') = PromisesOf(jobs)
        /\ s \notin PromisesOf(jobs)
        /\ \A k, now : LaterThan(jobs, made, k, now) => LaterThan(atJobs', made', k, now)
    BY <1>5, AddedTable
  <2>1. /\ made' \in [1 .. n + 1 -> MadeJob]
        /\ WaitingOf(atJobs') = WaitingOf(jobs) \cup {n + 1}
    BY <1>1, <2>0
  <2>2. Ids' = 1 .. n + 1
    BY <2>1 DEF Ids
  <2>3. Count' = n + 1
    <3>1. Cardinality(1 .. n + 1) = n + 1
      <4>1. 1 \in Int /\ n + 1 \in Int /\ ~(1 > n + 1) /\ (n + 1) - 1 + 1 = n + 1
        OBVIOUS
      <4> QED
        BY <4>1, FS_Interval
    <3> QED
      BY <2>2, <3>1 DEF Count
  <2>4. Count' + Cardinality(PromisesOf(atJobs')) <= MaxJobs
    <3>1. IsFiniteSet(PromisesOf(jobs))
      BY JobSlotsFinite DEF PromisesOf
    <3>2. CASE again
      <4>1. Cardinality(PromisesOf(atJobs')) = p + 1
        BY <1>2, <2>0, <3>1, <3>2, FS_AddElement
      <4>2. (n + 1) + (p + 1) <= MaxJobs
        BY <1>3, <3>2
      <4> QED
        BY <2>3, <4>1, <4>2
    <3>3. CASE ~again
      <4>1. Cardinality(PromisesOf(atJobs')) = p
        BY <1>2, <2>0, <3>3
      <4>2. (n + 1) + p <= MaxJobs
        BY <1>3, <3>3
      <4> QED
        BY <2>3, <4>1, <4>2
    <3> QED
      BY <3>2, <3>3
  <2>5. (1 .. n + 1) \ WaitingOf(atJobs') = (1 .. n) \ WaitingOf(jobs)
    <3>1. n + 1 \notin WaitingOf(jobs)
      BY <1>1 DEF TableOk, WaitingOf
    <3> QED
      BY <2>1, <3>1
  <2>6. RanOnce(atJobs', made') = RanOnce(jobs, made)
    <3>1. DOMAIN made' = 1 .. n + 1 /\ DOMAIN made = 1 .. n
      BY <1>1, <2>1
    <3> QED
      BY <2>5, <3>1 DEF RanOnce
  <2>7. \A id \in Ids : id \in Ids' /\ made'[id].due = made[id].due
    BY <1>1, <1>5, <2>2 DEF NewMade
  <2> QED
    BY <1>1, <2>0, <2>1, <2>3, <2>4, <2>6, <2>7
<1>6. \/ atJobs' = jobs /\ made' = made
      \/ \E s \in JobSlots, d \in Nat :
           /\ ~jobs[s].used
           /\ atJobs' = [jobs EXCEPT ![s] = NewJob(Count, d, again)]
           /\ made' = NewMade(made, Count, d)
  BY AddIs DEF TableOk
<1> QED
  BY <1>4, <1>5, <1>6

(* The table when a job is taken out of it to be run.                      *)
LEMMA TakenOut ==
  ASSUME AtInv, NEW s \in JobSlots, atJobs[s].used,
         NEW rest, rest = [atJobs EXCEPT ![s] = NoJob]
  PROVE  /\ TableOk(rest, made)
         /\ atJobs[s].id \in Ids /\ atJobs[s].id \in 1 .. MaxJobs
         /\ RanOnce(rest, made) = [ended EXCEPT ![atJobs[s].id] = @ + 1]
         /\ atJobs[s].again => Cardinality(PromisesOf(atJobs)) = Cardinality(PromisesOf(rest)) + 1
         /\ ~atJobs[s].again => PromisesOf(rest) = PromisesOf(atJobs)
         /\ \A now : LaterThan(atJobs, made, s, now) => LaterThan(rest, made, s + 1, now)
<1>1. PICK n \in Nat : n = Count /\ made \in [1 .. n -> MadeJob] /\ Ids = 1 .. n
  BY DEF AtInv, Ids
<1>2. atJobs \in [JobSlots -> Job] /\ TableOk(atJobs, made)
  BY DEF AtInv, TableOk
<1>3. NoJob \in Job /\ ~NoJob.used /\ ~NoJob.again
  <2>1. 0 \in 0 .. TickWord - 1
    BY AtConstants
  <2> QED
    BY <2>1 DEF NoJob, Job
<1>4. /\ rest \in [JobSlots -> Job] /\ rest[s] = NoJob
      /\ \A i \in JobSlots : i # s => rest[i] = atJobs[i]
  BY <1>2, <1>3
<1>5. PICK id : id = atJobs[s].id
  OBVIOUS
<1>6. id \in Ids /\ id \in 1 .. MaxJobs
  <2>1. PICK p \in Nat : p = Cardinality(PromisesOf(atJobs))
    BY JobSlotsFinite DEF PromisesOf
  <2>2. n <= MaxJobs /\ MaxJobs \in Nat
    BY <1>1, <2>1, AtConstants DEF AtInv
  <2>3. id \in 1 .. n
    BY <1>1, <1>2, <1>5 DEF TableOk
  <2> QED
    BY <1>1, <2>2, <2>3
<1>7. TableOk(rest, made)
  <2>1. ASSUME NEW i \in JobSlots, rest[i].used
        PROVE  rest[i].id \in DOMAIN made /\ rest[i].when = made[rest[i].id].due % TickWord
    BY <1>2, <1>3, <1>4, <2>1 DEF TableOk
  <2>2. ASSUME NEW i \in JobSlots, NEW j \in JobSlots,
               rest[i].used, rest[j].used, rest[i].id = rest[j].id
        PROVE  i = j
    BY <1>2, <1>3, <1>4, <2>2 DEF TableOk
  <2>3. ASSUME NEW i \in JobSlots, ~rest[i].used
        PROVE  ~rest[i].again
    BY <1>2, <1>3, <1>4, <2>3 DEF TableOk
  <2> QED
    BY <1>4, <2>1, <2>2, <2>3 DEF TableOk
<1>8. WaitingOf(rest) = WaitingOf(atJobs) \ {id}
  <2>1. ASSUME NEW x \in WaitingOf(rest) PROVE x \in WaitingOf(atJobs) \ {id}
    <3>1. PICK i \in JobSlots : rest[i].used /\ x = rest[i].id
      BY <2>1 DEF WaitingOf
    <3>2. i # s /\ atJobs[i].used /\ x = atJobs[i].id
      BY <1>3, <1>4, <3>1
    <3>3. x # id
      BY <1>2, <1>5, <3>2 DEF TableOk
    <3> QED
      BY <3>2, <3>3 DEF WaitingOf
  <2>2. ASSUME NEW x \in WaitingOf(atJobs) \ {id} PROVE x \in WaitingOf(rest)
    <3>1. PICK i \in JobSlots : atJobs[i].used /\ x = atJobs[i].id
      BY <2>2 DEF WaitingOf
    <3>2. rest[i].used /\ x = rest[i].id
      BY <1>4, <1>5, <2>2, <3>1
    <3> QED
      BY <3>2 DEF WaitingOf
  <2> QED
    BY <2>1, <2>2
<1>9. RanOnce(rest, made) = [ended EXCEPT ![id] = @ + 1]
  <2>1. id \in WaitingOf(atJobs)
    BY <1>5 DEF WaitingOf
  <2>2. ended = [k \in 1 .. MaxJobs |-> IF k \in DOMAIN made \ WaitingOf(atJobs) THEN 1 ELSE 0]
    BY DEF AtInv, RanOnce
  <2>3. id \in DOMAIN made
    BY <1>6 DEF Ids
  <2>4. ASSUME NEW k \in 1 .. MaxJobs
        PROVE  [ended EXCEPT ![id] = @ + 1][k] = RanOnce(rest, made)[k]
    <3>1. RanOnce(rest, made)[k] = IF k \in DOMAIN made \ WaitingOf(rest) THEN 1 ELSE 0
      BY DEF RanOnce
    <3>2. CASE k = id
      <4>1. ended[id] = 0 /\ [ended EXCEPT ![id] = @ + 1][k] = ended[id] + 1
        BY <1>6, <2>1, <2>2, <3>2
      <4>2. RanOnce(rest, made)[k] = 1
        BY <1>8, <2>3, <3>1, <3>2
      <4> QED
        BY <4>1, <4>2
    <3>3. CASE k # id
      BY <1>8, <2>2, <3>1, <3>3
    <3> QED
      BY <3>2, <3>3
  <2> QED
    BY <2>2, <2>4 DEF RanOnce
<1>10. ASSUME atJobs[s].again
       PROVE  Cardinality(PromisesOf(atJobs)) = Cardinality(PromisesOf(rest)) + 1
  <2>1. PromisesOf(rest) = PromisesOf(atJobs) \ {s} /\ s \in PromisesOf(atJobs)
    BY <1>3, <1>4, <1>10 DEF PromisesOf
  <2>2. IsFiniteSet(PromisesOf(atJobs)) /\ Cardinality(PromisesOf(atJobs)) \in Nat
    BY JobSlotsFinite DEF PromisesOf
  <2>3. Cardinality(PromisesOf(rest)) = Cardinality(PromisesOf(atJobs)) - 1
    BY <2>1, <2>2, FS_RemoveElement
  <2> QED
    BY <2>2, <2>3
<1>11. ASSUME ~atJobs[s].again
       PROVE  PromisesOf(rest) = PromisesOf(atJobs)
  BY <1>3, <1>4, <1>11 DEF PromisesOf
<1>12. ASSUME NEW now, LaterThan(atJobs, made, s, now), NEW i \in JobSlots,
              i < s + 1, rest[i].used, ~made[rest[i].id].new
       PROVE  rest[i].when > now
  <2>1. i # s
    BY <1>3, <1>4, <1>12
  <2>2. i < s
    BY <1>12, <2>1 DEF JobSlots
  <2> QED
    BY <1>4, <1>12, <2>1, <2>2 DEF LaterThan
<1> QED
  BY <1>5, <1>6, <1>7, <1>9, <1>10, <1>11, <1>12 DEF LaterThan

LEMMA AtStarts ==
  ASSUME AtInit PROVE AtInv
<1>1. Ids = 1 .. 0 /\ Ids = {}
  BY DEF AtInit, Ids
<1>2. Count = 0
  BY <1>1, FS_EmptySet DEF Count
<1>3. NoJob \in Job /\ ~NoJob.used /\ ~NoJob.again
  <2>1. 0 \in 0 .. TickWord - 1
    BY AtConstants
  <2> QED
    BY <2>1 DEF NoJob, Job
<1>4. TableOk(atJobs, made)
  BY <1>3 DEF AtInit, TableOk
<1>5. made \in [1 .. Count -> MadeJob]
  BY <1>2 DEF AtInit
<1>6. Count + Cardinality(PromisesOf(atJobs)) <= MaxJobs
  <2>1. PromisesOf(atJobs) = {}
    BY <1>3 DEF AtInit, PromisesOf
  <2>2. Cardinality(PromisesOf(atJobs)) = 0
    BY <2>1, FS_EmptySet
  <2> QED
    BY <1>2, <2>2, AtConstants
<1>7. ended = RanOnce(atJobs, made)
  BY DEF AtInit, RanOnce
<1>8. LaterThan(atJobs, made, atSlot, atNow)
  BY <1>3 DEF AtInit, LaterThan
<1>9. atTicks \in 0 .. MaxTicks /\ atSlot \in 0 .. MaxAtJobs /\ atNow \in Nat /\ atNow <= atTicks
  BY AtConstants DEF AtInit
<1>10. ~early
  BY DEF AtInit
<1> QED
  BY <1>2, <1>4, <1>5, <1>6, <1>7, <1>8, <1>9, <1>10 DEF AtInv

LEMMA AtTickKeeps ==
  ASSUME AtInv, AtTick PROVE AtInv'
<1>1. atTicks' \in 0 .. MaxTicks /\ atNow <= atTicks'
  <2>1. PICK t \in Nat : t = atTicks
    BY DEF AtInv
  <2>2. t < MaxTicks /\ atTicks' = t + 1 /\ MaxTicks \in Nat
    BY <2>1, AtConstants DEF AtTick
  <2>3. PICK w \in Nat : w = atNow /\ w <= t
    BY <2>1 DEF AtInv
  <2> QED
    BY <2>2, <2>3
<1>2. Ids' = Ids /\ Count' = Count
  BY DEF AtTick, Ids, Count
<1> QED
  BY <1>1, <1>2 DEF AtInv, AtTick

LEMMA NextTurnKeeps ==
  ASSUME AtInv, NextTurn PROVE AtInv'
<1>1. PICK n \in Nat : n = Count /\ made \in [1 .. n -> MadeJob] /\ Ids = 1 .. n
  BY DEF AtInv, Ids
<1>2. \A i \in 1 .. n : made[i] \in MadeJob
  BY <1>1
<1>3. made' \in [1 .. n -> MadeJob] /\ \A i \in 1 .. n : made'[i].due = made[i].due
  BY <1>1, <1>2 DEF NextTurn, MadeJob
<1>4. Ids' = Ids /\ Count' = Count
  <2>1. Ids' = 1 .. n
    BY <1>3 DEF Ids
  <2> QED
    BY <1>1, <2>1 DEF Count
<1>5. atNow' \in Nat /\ atNow' <= atTicks' /\ atSlot' \in 0 .. MaxAtJobs
  <2>1. PICK t \in Nat : t = atTicks
    BY DEF AtInv
  <2>2. t % TickWord \in Nat /\ t % TickWord <= t
    BY AtConstants
  <2> QED
    BY <2>1, <2>2, AtConstants DEF NextTurn
<1>6. atJobs' = atJobs /\ atTicks' = atTicks /\ ended' = ended /\ early' = early /\ atSlot' = 0
  BY DEF NextTurn
<1>7. TableOk(atJobs', made')
  <2>1. TableOk(atJobs, made)
    BY DEF AtInv
  <2>2. DOMAIN made = 1 .. n /\ DOMAIN made' = 1 .. n
    BY <1>1, <1>3
  <2> QED
    BY <1>3, <1>6, <2>1, <2>2 DEF TableOk
<1>8. ended' = RanOnce(atJobs', made')
  <2>1. DOMAIN made' = DOMAIN made
    BY <1>1, <1>3
  <2> QED
    BY <1>6, <2>1 DEF AtInv, RanOnce
<1>9. LaterThan(atJobs', made', atSlot', atNow')
  BY <1>6 DEF LaterThan, JobSlots
<1>10. (\A id \in Ids' : made'[id].due < TickWord) => ~early'
  BY <1>1, <1>3, <1>4, <1>6 DEF AtInv
<1>11. Count' + Cardinality(PromisesOf(atJobs')) <= MaxJobs
  BY <1>4, <1>6 DEF AtInv
<1> QED
  BY <1>1, <1>3, <1>4, <1>5, <1>6, <1>7, <1>8, <1>9, <1>10, <1>11 DEF AtInv

LEMMA PassOverKeeps ==
  ASSUME AtInv, PassOver PROVE AtInv'
<1>1. Ids' = Ids /\ Count' = Count
  BY DEF PassOver, Ids, Count
<1>2. atSlot \in JobSlots /\ atSlot' = atSlot + 1 /\ atSlot' \in 0 .. MaxAtJobs
  <2>1. PICK s \in Nat : s = atSlot /\ s <= MaxAtJobs /\ s # MaxAtJobs
    BY AtConstants DEF AtInv, PassOver, Reading
  <2> QED
    BY <2>1, AtConstants DEF PassOver, JobSlots
<1>3. LaterThan(atJobs, made, atSlot', atNow)
  <2>1. ASSUME NEW i \in JobSlots, i < atSlot', atJobs[i].used, ~made[atJobs[i].id].new
        PROVE  atJobs[i].when > atNow
    <3>1. CASE i = atSlot
      <4>1. atJobs[i].when \in Nat /\ atNow \in Nat
        BY AtConstants DEF AtInv, TableOk, Job
      <4>2. ~(atNow >= atJobs[i].when)
        BY <2>1, <3>1 DEF PassOver, Due
      <4> QED
        BY <4>1, <4>2
    <3>2. CASE i # atSlot
      <4>1. i < atSlot
        BY <1>2, <2>1, <3>2 DEF JobSlots
      <4> QED
        BY <2>1, <4>1 DEF AtInv, LaterThan
    <3> QED
      BY <3>1, <3>2
  <2> QED
    BY <2>1 DEF LaterThan
<1> QED
  BY <1>1, <1>2, <1>3 DEF AtInv, PassOver

LEMMA CmdAtKeeps ==
  ASSUME AtInv, NEW seconds \in Delays, NEW again \in BOOLEAN, CmdAt(seconds, again)
  PROVE  AtInv'
<1>1. TableOk(atJobs, made)
  BY DEF AtInv
<1>2. AtAdd(atJobs, seconds, again)
  BY DEF CmdAt
<1>3. Count + Cardinality(PromisesOf(atJobs)) + (IF again THEN 2 ELSE 1) <= MaxJobs
  BY DEF CmdAt, Count, Promised, PromisesOf
<1>4. /\ Count' \in Nat /\ made' \in [1 .. Count' -> MadeJob]
      /\ TableOk(atJobs', made')
      /\ Count' + Cardinality(PromisesOf(atJobs')) <= MaxJobs
      /\ RanOnce(atJobs', made') = RanOnce(atJobs, made)
      /\ \A k, now : LaterThan(atJobs, made, k, now) => LaterThan(atJobs', made', k, now)
      /\ \A id \in Ids : id \in Ids' /\ made'[id].due = made[id].due
  BY <1>1, <1>2, <1>3, Adding
<1>5. /\ atTicks' = atTicks /\ atSlot' = atSlot /\ atNow' = atNow
      /\ early' = early /\ ended' = ended
  BY DEF CmdAt
<1>6. (\A id \in Ids' : made'[id].due < TickWord) => ~early'
  BY <1>4, <1>5 DEF AtInv
<1>7. ended' = RanOnce(atJobs', made')
  BY <1>4, <1>5 DEF AtInv
<1>8. LaterThan(atJobs', made', atSlot', atNow')
  BY <1>4, <1>5 DEF AtInv
<1> QED
  BY <1>4, <1>5, <1>6, <1>7, <1>8 DEF AtInv

(* A job that runs was due by the time the pass began, and so by now, as   *)
(* long as its time fits the field.                                        *)
LEMMA RunJobKeeps ==
  ASSUME AtInv, RunJob PROVE AtInv'
<1>1. /\ atSlot \in JobSlots /\ atSlot' = atSlot + 1 /\ atSlot' \in 0 .. MaxAtJobs
      /\ atTicks' = atTicks /\ atNow' = atNow
  <2>1. PICK s \in Nat : s = atSlot /\ s <= MaxAtJobs /\ s # MaxAtJobs
    BY AtConstants DEF AtInv, RunJob, Reading
  <2> QED
    BY <2>1, AtConstants DEF RunJob, JobSlots
<1>2. PICK rest : rest = [atJobs EXCEPT ![atSlot] = NoJob]
  OBVIOUS
<1>3. PICK id : id = atJobs[atSlot].id
  OBVIOUS
<1>4. atJobs[atSlot].used /\ atNow >= atJobs[atSlot].when
  BY DEF RunJob, Due
<1>5. /\ TableOk(rest, made)
      /\ id \in Ids /\ id \in 1 .. MaxJobs
      /\ RanOnce(rest, made) = [ended EXCEPT ![id] = @ + 1]
      /\ atJobs[atSlot].again =>
           Cardinality(PromisesOf(atJobs)) = Cardinality(PromisesOf(rest)) + 1
      /\ ~atJobs[atSlot].again => PromisesOf(rest) = PromisesOf(atJobs)
      /\ \A now : LaterThan(atJobs, made, atSlot, now) => LaterThan(rest, made, atSlot + 1, now)
  BY <1>1, <1>2, <1>3, <1>4, TakenOut
<1>6. /\ ended' = [ended EXCEPT ![id] = @ + 1]
      /\ early' = (early \/ atTicks < made[id].due)
  BY <1>3 DEF RunJob
<1>7. LaterThan(rest, made, atSlot', atNow')
  BY <1>1, <1>5 DEF AtInv
<1>8. (\A k \in Ids : made[k].due < TickWord) => ~early'
  <2>1. SUFFICES ASSUME \A k \in Ids : made[k].due < TickWord
                 PROVE  ~(atTicks < made[id].due)
    BY <1>6 DEF AtInv
  <2>2. PICK d \in Nat : d = made[id].due
    BY <1>5 DEF AtInv, Ids, MadeJob
  <2>3. d < TickWord
    BY <1>5, <2>1, <2>2
  <2>4. atJobs[atSlot].when = d % TickWord
    BY <1>1, <1>3, <1>4, <2>2 DEF AtInv, TableOk
  <2>5. d % TickWord = d
    BY <2>3, AtConstants
  <2>6. PICK w \in Nat, t \in Nat : w = atNow /\ t = atTicks /\ w <= t
    BY DEF AtInv
  <2>7. w >= d
    BY <1>4, <2>4, <2>5, <2>6
  <2> QED
    BY <2>2, <2>6, <2>7
<1>9. CASE ~atJobs[atSlot].again
  <2>1. atJobs' = rest /\ made' = made
    BY <1>2, <1>9 DEF RunJob
  <2>2. Ids' = Ids /\ Count' = Count
    BY <2>1 DEF Ids, Count
  <2>3. Count' + Cardinality(PromisesOf(atJobs')) <= MaxJobs
    BY <1>5, <1>9, <2>1, <2>2 DEF AtInv
  <2> QED
    BY <1>1, <1>5, <1>6, <1>7, <1>8, <2>1, <2>2, <2>3 DEF AtInv
<1>10. CASE atJobs[atSlot].again
  <2>1. PICK seconds \in Delays : AtAdd(rest, seconds, FALSE)
    BY <1>2, <1>10 DEF RunJob
  <2>2. Count + Cardinality(PromisesOf(rest)) + 1 <= MaxJobs
    <3>1. PICK n \in Nat : n = Count
      BY DEF AtInv
    <3>2. PICK p \in Nat : p = Cardinality(PromisesOf(rest))
      BY JobSlotsFinite DEF PromisesOf
    <3>3. n + (p + 1) <= MaxJobs
      BY <1>5, <1>10, <3>1, <3>2 DEF AtInv
    <3>4. n + p + 1 <= MaxJobs
      BY <3>3, AtConstants
    <3> QED
      BY <3>1, <3>2, <3>4
  <2>3. Count + Cardinality(PromisesOf(rest)) + (IF FALSE THEN 2 ELSE 1) <= MaxJobs
    BY <2>2
  <2>4. /\ Count' \in Nat /\ made' \in [1 .. Count' -> MadeJob]
        /\ TableOk(atJobs', made')
        /\ Count' + Cardinality(PromisesOf(atJobs')) <= MaxJobs
        /\ RanOnce(atJobs', made') = RanOnce(rest, made)
        /\ \A k, now : LaterThan(rest, made, k, now) => LaterThan(atJobs', made', k, now)
        /\ \A k \in Ids : k \in Ids' /\ made'[k].due = made[k].due
    BY <1>5, <2>1, <2>3, Adding
  <2>5. (\A k \in Ids' : made'[k].due < TickWord) => ~early'
    BY <1>8, <2>4
  <2>6. LaterThan(atJobs', made', atSlot', atNow')
    BY <1>7, <2>4
  <2> QED
    BY <1>1, <1>5, <1>6, <2>4, <2>5, <2>6 DEF AtInv
<1> QED
  BY <1>9, <1>10

(* The invariant of the at jobs: the table is sound, those that have run   *)
(* are those no longer waiting, there is room for the promised ones, and   *)
(* the slots behind the pass hold nothing old that is due.                 *)
THEOREM AtInductive == AtSpec => []AtInv
<1>1. AtInit => AtInv
  BY AtStarts
<1>2. AtInv /\ [AtNext]_jvars => AtInv'
  <2> SUFFICES ASSUME AtInv, [AtNext]_jvars PROVE AtInv'
    OBVIOUS
  <2>1. CASE AtTick
    BY <2>1, AtTickKeeps
  <2>2. CASE NextTurn
    BY <2>2, NextTurnKeeps
  <2>3. CASE PassOver
    BY <2>3, PassOverKeeps
  <2>4. CASE RunJob
    BY <2>4, RunJobKeeps
  <2>5. ASSUME NEW seconds \in Delays, NEW again \in BOOLEAN, CmdAt(seconds, again)
        PROVE  AtInv'
    BY <2>5, CmdAtKeeps
  <2>6. CASE UNCHANGED jvars
    BY <2>6 DEF jvars, AtInv, Count, Ids
  <2> QED
    BY <2>1, <2>2, <2>3, <2>4, <2>5, <2>6 DEF AtNext
<1> QED
  BY <1>1, <1>2, PTL DEF AtSpec

(* Every job that found room runs once, not before its time as long as the *)
(* time fits its field, and at the first prompt after it.                  *)
THEOREM JobsOnTimeAlways == AtSpec => []JobsOnTime
<1>1. AtInv => JobsOnTime
  <2> SUFFICES ASSUME AtInv PROVE JobsOnTime
    OBVIOUS
  <2>1. PICK n \in Nat : n = Count /\ Ids = 1 .. n
    BY DEF AtInv, Ids
  <2>2. Ids \subseteq 1 .. MaxJobs
    <3>1. PICK p \in Nat : p = Cardinality(PromisesOf(atJobs))
      BY JobSlotsFinite DEF PromisesOf
    <3>2. n + p <= MaxJobs
      BY <2>1, <3>1 DEF AtInv
    <3> QED
      BY <2>1, <3>2, AtConstants
  <2>3. AtTypeOK
    BY <2>2 DEF AtInv, TableOk, Job, AtTypeOK
  <2>4. \A id \in Ids : ended[id] = IF id \in Waiting THEN 0 ELSE 1
    BY <2>2 DEF AtInv, RanOnce, Waiting, WaitingOf, Ids
  <2>5. Reading => \A i \in JobSlots :
          atJobs[i].used /\ ~made[atJobs[i].id].new => atJobs[i].when > atNow
    BY AtConstants DEF AtInv, LaterThan, Reading, JobSlots
  <2> QED
    BY <2>3, <2>4, <2>5 DEF AtInv, JobsOnTime
<1> QED
  BY <1>1, AtInductive, PTL

-----------------------------------------------------------------------------
(* Files of lines that execute each other, for any depth of calls and      *)
(* number of segments.                                                     *)
Script == Seq(LineParts)
CallSet == [now : Script, lines : Seq(Script)]

SourcesInv ==
  /\ scripts \in Seq(CallSet)
  /\ Len(scripts) <= MaxDepth + 1
  /\ contents \in [DOMAIN ScriptLines -> Seq(Script)]

-----------------------------------------------------------------------------
(* A line that is handled has no more segments than there is room for.     *)
LEMMA HandledFits ==
  ASSUME NEW line \in Script, NEW lines \in Seq(Script)
  PROVE  /\ Handled(line, lines) \in CallSet
         /\ Len(Handled(line, lines).now) <= MaxSegments
         /\ Handled(line, lines).lines = lines
<1> DEFINE m == Min({Len(line), MaxSegments})
<1>1. Len(line) \in Nat /\ MaxSegments \in Nat BY WordsAssumption DEF Script
<1>2. \E x \in {Len(line), MaxSegments} : \A y \in {Len(line), MaxSegments} : x =< y
  BY <1>1
<1>3. m \in {Len(line), MaxSegments} /\ \A y \in {Len(line), MaxSegments} : m =< y
  BY <1>2 DEF Min
<1>4. m \in 0 .. Len(line) /\ m <= MaxSegments BY <1>1, <1>3
<1> HIDE DEF m
<1>5. SubSeq(line, 1, m) \in Script /\ Len(SubSeq(line, 1, m)) = m
  BY <1>1, <1>4, SubSeqProperties DEF Script
<1>6. Handled(line, lines) = [now |-> SubSeq(line, 1, m), lines |-> lines]
  BY DEF Handled, Call, m
<1> QED BY <1>4, <1>5, <1>6 DEF CallSet

(* What the top call was made from.                                        *)
LEMMA FrontKeeps ==
  ASSUME NEW s \in Seq(CallSet), s # <<>>
  PROVE  /\ Front(s) \in Seq(CallSet) /\ Len(Front(s)) = Len(s) - 1
         /\ \A e \in 1 .. Len(s) - 1 : Front(s)[e] = s[e]
<1>1. Len(s) \in Nat /\ Len(s) >= 1 BY EmptySeq
<1>2. Front(s) = SubSeq(s, 1, Len(s) - 1) BY DEF Front
<1>3. SubSeq(s, 1, Len(s) - 1) \in Seq(CallSet) BY <1>1
<1>4. Len(SubSeq(s, 1, Len(s) - 1)) = Len(s) - 1
  <2>1. 1 \in Int /\ Len(s) - 1 \in Int BY <1>1
  <2>2. \A i \in 1 .. Len(s) - 1 : s[i] \in CallSet BY <1>1
  <2>3. Len(SubSeq(s, 1, Len(s) - 1)) = IF 1 <= Len(s) - 1 THEN Len(s) - 1 - 1 + 1 ELSE 0
    BY <2>1, <2>2, SubSeqProperties
  <2> QED BY <1>1, <2>3
<1>5. \A e \in 1 .. Len(s) - 1 : SubSeq(s, 1, Len(s) - 1)[e] = s[e] BY <1>1
<1> QED BY <1>2, <1>3, <1>4, <1>5

(* The top call is another, and those that it was made from are the same.  *)
LEMMA TopReplaced ==
  ASSUME NEW s \in Seq(CallSet), s # <<>>, NEW c \in CallSet
  PROVE  /\ Append(Front(s), c) \in Seq(CallSet)
         /\ Len(Append(Front(s), c)) = Len(s)
         /\ Append(Front(s), c)[Len(s)] = c
         /\ \A e \in 1 .. Len(s) - 1 : Append(Front(s), c)[e] = s[e]
<1>1. Len(s) \in Nat /\ Len(s) >= 1 BY EmptySeq
<1>2. /\ Front(s) \in Seq(CallSet) /\ Len(Front(s)) = Len(s) - 1
      /\ \A e \in 1 .. Len(s) - 1 : Front(s)[e] = s[e]
  BY FrontKeeps
<1> QED BY <1>1, <1>2, AppendProperties

(* The top call when its segment is over.                                  *)
LEMMA PassedLess ==
  ASSUME SourcesInv, scripts # <<>>, Top.now # <<>>
  PROVE  /\ Passed \in Seq(CallSet) /\ Len(Passed) = Len(scripts)
         /\ \A e \in 1 .. Len(scripts) - 1 : Passed[e] = scripts[e]
         /\ Passed[Len(scripts)].lines = Top.lines
         /\ Len(Passed[Len(scripts)].now) < Len(Top.now)
<1> DEFINE c == [Top EXCEPT !.now = Tail(@)]
<1>1. scripts \in Seq(CallSet) /\ Len(scripts) \in Nat /\ Len(scripts) >= 1
  BY EmptySeq DEF SourcesInv
<1>2. Top \in CallSet BY <1>1 DEF Top, Last
<1>3. Top.now \in Script /\ Top.lines \in Seq(Script) BY <1>2 DEF CallSet
<1>4. Tail(Top.now) \in Script /\ Len(Tail(Top.now)) = Len(Top.now) - 1 /\ Len(Top.now) \in Nat
  BY <1>3, HeadTailProperties DEF Script
<1>5. c \in CallSet /\ c.now = Tail(Top.now) /\ c.lines = Top.lines BY <1>2, <1>4 DEF CallSet
<1>6. Passed = Append(Front(scripts), c) BY DEF Passed
<1> HIDE DEF c
<1>7. /\ Passed \in Seq(CallSet) /\ Len(Passed) = Len(scripts) /\ Passed[Len(scripts)] = c
      /\ \A e \in 1 .. Len(scripts) - 1 : Passed[e] = scripts[e]
  BY <1>1, <1>5, <1>6, TopReplaced
<1>8. Len(c.now) < Len(Top.now) BY <1>4, <1>5
<1> QED BY <1>5, <1>7, <1>8

-----------------------------------------------------------------------------
LEMMA SourcesInitInv == SourcesInit => SourcesInv
BY SourcesAssumption DEF SourcesInit, SourcesInv, Script

(* What the action property says of a step.                                *)
StepLess ==
  scripts # <<>> =>
    \E d \in 1 .. MaxDepth + 1 :
      Nearer(scripts', scripts, d) /\ \A e \in 1 .. d - 1 : scripts'[e] = scripts[e]

LEMMA SourcesStep ==
  ASSUME SourcesInv, SourcesNext
  PROVE  SourcesInv' /\ StepLess
<1> USE DEF Script
<1>0. MaxDepth \in Nat /\ MaxSegments \in Nat BY SourcesAssumption, WordsAssumption
<1>1. CASE LineTyped
  <2>1. PICK line \in TypedLines : scripts' = <<Handled(line, <<>>)>> BY <1>1 DEF LineTyped
  <2>2. Handled(line, <<>>) \in CallSet
    <3>1. line \in Script /\ <<>> \in Seq(Script) BY SourcesAssumption
    <3> HIDE DEF Script
    <3> QED BY <3>1, HandledFits
  <2>3. scripts' \in Seq(CallSet) /\ Len(scripts') = 1 BY <2>1, <2>2
  <2>4. StepLess BY <1>1 DEF LineTyped, StepLess
  <2> QED BY <1>0, <1>1, <2>3, <2>4 DEF LineTyped, SourcesInv
<1> DEFINE n == Len(scripts)
<1>2. ASSUME scripts # <<>> PROVE n \in 1 .. MaxDepth + 1 /\ scripts[n] = Top /\ scripts \in Seq(CallSet)
  BY <1>0, <1>2, EmptySeq DEF SourcesInv, Top, Last
<1>3. ASSUME scripts # <<>>, Top.now # <<>>, scripts' = Passed,
             contents' \in [DOMAIN ScriptLines -> Seq(Script)]
      PROVE  SourcesInv' /\ StepLess
  <2>1. SourcesInv' BY <1>2, <1>3, PassedLess DEF SourcesInv
  <2>2. /\ Nearer(scripts', scripts, n)
        /\ \A e \in 1 .. n - 1 : scripts'[e] = scripts[e]
    BY <1>2, <1>3, PassedLess DEF Nearer
  <2> QED BY <1>2, <1>3, <2>1, <2>2 DEF StepLess
<1>4. CASE OtherSegment
  BY <1>3, <1>4 DEF OtherSegment, AtSegment, SourcesInv
<1>5. CASE CopyFile
  <2>1. Top \in CallSet BY <1>2, <1>5 DEF CopyFile, AtSegment
  <2>2. Head(Top.now) \in LineParts
    BY <1>5, <2>1, HeadTailProperties DEF CallSet, CopyFile, AtSegment
  <2>3. contents[Head(Top.now).file] \in Seq(Script)
    BY <1>5, <2>2, SourcesAssumption DEF CopyFile, AtSegment, SourcesInv
  <2>4. contents' \in [DOMAIN ScriptLines -> Seq(Script)]
    BY <1>5, <2>3 DEF CopyFile, SourcesInv
  <2> QED BY <1>3, <1>5, <2>4 DEF CopyFile, AtSegment
<1>6. CASE Source
  <2> DEFINE name == Head(Top.now).file
  <2>0. scripts # <<>> /\ Top.now # <<>> BY <1>6 DEF Source, AtSegment
  <2>1. contents' = contents BY <1>6 DEF Source
  <2>2. CASE scripts' = Passed BY <1>3, <2>0, <2>1, <2>2 DEF SourcesInv
  <2>3. CASE /\ Len(scripts) - 1 < MaxDepth /\ name \in DOMAIN contents
             /\ scripts' = Append(Passed, Call(<<>>, contents[name]))
    <3> DEFINE c == Call(<<>>, contents[name])
    <3>1. c \in CallSet BY <2>3 DEF SourcesInv, Call, CallSet
    <3>2. Passed \in Seq(CallSet) /\ Len(Passed) = n BY <2>0, PassedLess
    <3>3. n \in Nat /\ n + 1 <= MaxDepth + 1 BY <1>0, <1>2, <2>0, <2>3
    <3> HIDE DEF c
    <3>4. /\ scripts' \in Seq(CallSet) /\ Len(scripts') = n + 1
          /\ \A e \in 1 .. n : scripts'[e] = Passed[e]
      BY <2>3, <3>1, <3>2, AppendProperties DEF c
    <3>5. SourcesInv' BY <2>1, <3>3, <3>4 DEF SourcesInv
    <3>6. /\ \A e \in 1 .. n - 1 : scripts'[e] = scripts[e]
          /\ scripts'[n] = Passed[n]
          /\ Len(scripts') >= n
      BY <1>2, <2>0, <3>3, <3>4, PassedLess
    <3>7. Nearer(scripts', scripts, n) BY <1>2, <2>0, <3>3, <3>6, PassedLess DEF Nearer
    <3> QED BY <1>2, <2>0, <3>5, <3>6, <3>7 DEF StepLess
  <2> QED BY <1>6, <2>2, <2>3 DEF Source
<1>7. CASE NextLine
  <2> DEFINE c == Handled(Head(Top.lines), Tail(Top.lines))
  <2>0. scripts # <<>> /\ Top.now = <<>> /\ Top.lines # <<>> /\ contents' = contents
        /\ scripts' = Append(Front(scripts), c)
    BY <1>7 DEF NextLine
  <2>1. Top \in CallSet BY <1>2, <2>0
  <2>2. /\ Head(Top.lines) \in Script /\ Tail(Top.lines) \in Seq(Script)
        /\ Len(Tail(Top.lines)) = Len(Top.lines) - 1 /\ Len(Top.lines) \in Nat
    BY <2>0, <2>1, HeadTailProperties DEF CallSet
  <2>3. /\ c \in CallSet /\ Len(c.now) <= MaxSegments /\ c.lines = Tail(Top.lines)
    BY <2>2, HandledFits
  <2> HIDE DEF c
  <2>5. /\ scripts' \in Seq(CallSet) /\ Len(scripts') = n /\ scripts'[n] = c
        /\ \A e \in 1 .. n - 1 : scripts'[e] = scripts[e]
    BY <1>2, <2>0, <2>3, TopReplaced
  <2>6. Nearer(scripts', scripts, n)
    <3>1. Len(c.lines) < Len(Top.lines) BY <2>2, <2>3
    <3> QED BY <1>2, <2>0, <2>5, <3>1 DEF Nearer
  <2>7. SourcesInv' BY <1>2, <2>0, <2>5 DEF SourcesInv
  <2> QED BY <1>2, <2>0, <2>5, <2>6, <2>7 DEF StepLess
<1>8. CASE Return
  <2>0. scripts # <<>> /\ scripts' = Front(scripts) /\ contents' = contents BY <1>8 DEF Return
  <2>1. n \in Nat /\ n >= 1 BY <1>2, <2>0
  <2>2. /\ scripts' \in Seq(CallSet) /\ Len(scripts') = n - 1
        /\ \A e \in 1 .. n - 1 : scripts'[e] = scripts[e]
    BY <1>2, <2>0, FrontKeeps
  <2>3. Nearer(scripts', scripts, n) BY <2>1, <2>2 DEF Nearer
  <2>4. SourcesInv' BY <1>0, <1>2, <2>0, <2>1, <2>2 DEF SourcesInv
  <2> QED BY <1>2, <2>0, <2>2, <2>3, <2>4 DEF StepLess
<1> QED BY <1>1, <1>4, <1>5, <1>6, <1>7, <1>8 DEF SourcesNext

(* The calls are no deeper than the shell allows.                          *)
THEOREM SourcesInductive == SourcesSpec => []SourcesInv
<1>1. SourcesInv /\ [SourcesNext]_sourcevars => SourcesInv'
  BY SourcesStep DEF SourcesInv, sourcevars
<1> QED BY <1>1, SourcesInitInv, PTL DEF SourcesSpec

(* Files that execute and overwrite each other come to an end: every step  *)
(* of shell_script_file and shell_handle_line leaves less to do.           *)
THEOREM ScriptsEndAlways == SourcesSpec => ScriptsEnd
<1>1. SourcesInv /\ [SourcesNext]_sourcevars => [StepLess]_sourcevars
  BY SourcesStep
<1>2. SourcesSpec => [][StepLess]_sourcevars
  BY <1>1, SourcesInductive, PTL DEF SourcesSpec
<1> QED BY <1>2 DEF ScriptsEnd, StepLess

-----------------------------------------------------------------------------
(* The lines of the editor.                                                *)
LEMMA CountUp ==
  ASSUME NEW Good, 0 \in Good, \A n \in Nat : n \in Good => n + 1 \in Good
  PROVE  Nat \subseteq Good
<1> DEFINE Bad == Nat \ Good
<1> SUFFICES ASSUME Bad # {} PROVE FALSE OBVIOUS
<1>1. PICK x \in Bad : \A y \in Bad : ~(<<y, x>> \in OpToRel(<, Nat))
  BY WFMin, NatLessThanWellFounded
<1>2. x \in Nat /\ x # 0 OBVIOUS
<1>3. x - 1 \in Nat /\ (x - 1) + 1 = x BY <1>2
<1>4. x - 1 \notin Good BY <1>1, <1>3
<1>5. <<x - 1, x>> \in Nat \X Nat /\ <<x - 1, x>>[1] = x - 1 /\ <<x - 1, x>>[2] = x BY <1>2, <1>3
<1>6. <<x - 1, x>> \in OpToRel(<, Nat) BY <1>3, <1>5 DEF OpToRel
<1> QED BY <1>1, <1>3, <1>4, <1>6

LEMMA LowestIs ==
  ASSUME NEW T, T \subseteq Nat, T # {}
  PROVE  Lowest(T) \in T /\ \A j \in T : Lowest(T) <= j
<1>1. PICK x \in T : \A y \in T : ~(<<y, x>> \in OpToRel(<, Nat))
  BY WFMin, NatLessThanWellFounded
<1>2. ASSUME NEW y \in T PROVE x <= y
  <2>1. x \in Nat /\ y \in Nat OBVIOUS
  <2>2. y < x => <<y, x>> \in OpToRel(<, Nat)
    <3>1. <<y, x>> \in Nat \X Nat /\ <<y, x>>[1] = y /\ <<y, x>>[2] = x BY <2>1
    <3> QED BY <3>1 DEF OpToRel
  <2>3. ~(<<y, x>> \in OpToRel(<, Nat)) BY <1>1
  <2>4. ~(y < x) BY <2>2, <2>3
  <2> QED BY <2>1, <2>4
<1> QED BY <1>2 DEF Lowest

(* A buffer as cmd_edit has it: its last character is a NUL.               *)
Buffer(b) == b \in [Places -> Chars] /\ b[EditMaxSize - 1] = NUL

LEMMA EditConstants ==
  /\ EditMaxSize \in Nat /\ EditMaxSize >= 2 /\ EditMaxLines \in Nat /\ EditMaxLines >= 2
  /\ Places \subseteq Nat /\ 0 \in Places /\ EditMaxSize - 1 \in Places /\ MaxEdits \in Nat
  /\ NUL \notin Letters /\ NL \notin Letters /\ NUL # NL
BY EditorAssumption DEF Places, NUL, NL

LEMMA StopIs ==
  ASSUME NEW b, Buffer(b), NEW i \in Places
  PROVE  /\ StopFrom(b, i) \in Places /\ StopFrom(b, i) >= i
         /\ b[StopFrom(b, i)] \in {NUL, NL}
         /\ \A j \in i .. StopFrom(b, i) - 1 : b[j] \in Letters
<1> DEFINE T == {j \in Places : j >= i /\ b[j] \in {NUL, NL}}
<1>1. T \subseteq Nat BY EditConstants
<1>2. EditMaxSize - 1 \in T BY EditConstants DEF Buffer, Places
<1>3. Lowest(T) \in T /\ \A j \in T : Lowest(T) <= j BY <1>1, <1>2, LowestIs
<1>4. StopFrom(b, i) = Lowest(T) BY DEF StopFrom
<1>5. ASSUME NEW j \in i .. Lowest(T) - 1 PROVE b[j] \in Letters
  <2>1. j \in Places /\ j < Lowest(T) /\ j >= i BY <1>3, EditConstants DEF Places
  <2>2. j \notin T
    <3> HIDE DEF T
    <3>1. Lowest(T) \in Nat BY <1>1, <1>3
    <3>2. j \in Nat BY <2>1, EditConstants
    <3> QED BY <1>3, <2>1, <3>1, <3>2
  <2>3. b[j] \notin {NUL, NL} BY <2>1, <2>2
  <2> QED BY <2>1, <2>3 DEF Buffer, Chars
<1> QED BY <1>3, <1>4, <1>5

LEMMA NextIs ==
  ASSUME NEW b, Buffer(b), NEW i \in Places
  PROVE  /\ LineEnd(b, i) \in Places
         /\ StopFrom(b, i) <= LineEnd(b, i) /\ LineEnd(b, i) <= StopFrom(b, i) + 1
         /\ \A j \in i .. LineEnd(b, i) - 1 : b[j] # NUL
         /\ b[StopFrom(b, i)] = NL => LineEnd(b, i) = StopFrom(b, i) + 1
<1> DEFINE s == StopFrom(b, i)
<1>1. /\ s \in Places /\ s >= i /\ b[s] \in {NUL, NL}
      /\ \A j \in i .. s - 1 : b[j] \in Letters
  BY StopIs
<1>2. LineEnd(b, i) = IF b[s] = NL THEN s + 1 ELSE s BY DEF LineEnd
<1> HIDE DEF s
<1>3. \A j \in i .. s - 1 : b[j] # NUL BY <1>1, EditConstants
<1>4. CASE b[s] = NL
  <2>1. s # EditMaxSize - 1 BY <1>4, EditConstants DEF Buffer
  <2>2. s + 1 \in Places BY <1>1, <2>1, EditConstants DEF Places
  <2>3. \A j \in i .. (s + 1) - 1 : j = s \/ j \in i .. s - 1 BY <1>1, EditConstants DEF Places
  <2>4. \A j \in i .. (s + 1) - 1 : b[j] # NUL BY <1>3, <1>4, <2>3, EditConstants
  <2>5. s <= s + 1 BY <1>1, EditConstants DEF Places
  <2>6. LineEnd(b, i) = s + 1 BY <1>2, <1>4
  <2>7. \A j \in i .. LineEnd(b, i) - 1 : b[j] # NUL BY <2>4, <2>6
  <2>8. s <= LineEnd(b, i) /\ LineEnd(b, i) <= s + 1 BY <1>1, <2>6, EditConstants DEF Places
  <2> QED BY <2>2, <2>6, <2>7, <2>8 DEF s
<1>5. CASE b[s] # NL
  <2>1. s <= s /\ s <= s + 1 BY <1>1, EditConstants DEF Places
  <2> QED BY <1>1, <1>2, <1>3, <1>5, <2>1 DEF s
<1> QED BY <1>4, <1>5

(* Where the lines begin, as editor_rebuild counts them.                   *)
OneByOne(b, at, m) ==
  /\ at[1] = 0
  /\ \A k \in 1 .. m : at[k + 1] = LineEnd(b, at[k])

Starts(b, at) ==
  /\ at \in [1 .. EditMaxLines -> Places]
  /\ at[1] = 0
  /\ \A k \in 1 .. EditMaxLines - 1 : at[k + 1] = LineEnd(b, at[k])

LEMMA StartsExist ==
  ASSUME NEW b, Buffer(b)
  PROVE  \E at : Starts(b, at) /\ at = [k \in 1 .. EditMaxLines |-> IF k = 1 THEN 0 ELSE LineEnd(b, at[k - 1])]
<1> DEFINE Is(g, n) == g[1] = 0 /\ \A k \in 1 .. n : g[k + 1] = LineEnd(b, g[k])
           Good == {n \in Nat : \E g \in [1 .. n + 1 -> Places] : Is(g, n)}
<1>1. 0 \in Good
  <2>1. [k \in 1 .. 0 + 1 |-> 0] \in [1 .. 0 + 1 -> Places] BY EditConstants
  <2>2. Is([k \in 1 .. 0 + 1 |-> 0], 0) OBVIOUS
  <2> QED BY <2>1, <2>2
<1>2. ASSUME NEW n \in Nat, n \in Good PROVE n + 1 \in Good
  <2>1. PICK g \in [1 .. n + 1 -> Places] : Is(g, n) BY <1>2
  <2> DEFINE h == [k \in 1 .. (n + 1) + 1 |-> IF k <= n + 1 THEN g[k] ELSE LineEnd(b, g[n + 1])]
  <2>2. g[n + 1] \in Places OBVIOUS
  <2>3. LineEnd(b, g[n + 1]) \in Places BY <2>2, NextIs
  <2>4. h \in [1 .. (n + 1) + 1 -> Places] BY <2>3
  <2>5. h[1] = 0 BY <2>1
  <2>6. ASSUME NEW k \in 1 .. n + 1 PROVE h[k + 1] = LineEnd(b, h[k])
    <3>1. CASE k = n + 1 BY <3>1
    <3>2. CASE k \in 1 .. n BY <2>1, <3>2
    <3> QED BY <3>1, <3>2
  <2> HIDE DEF h
  <2> QED BY <2>4, <2>5, <2>6
<1> HIDE DEF Good
<1>3. Nat \subseteq Good BY <1>1, <1>2, CountUp
<1>4. EditMaxLines - 1 \in Nat /\ (EditMaxLines - 1) + 1 = EditMaxLines BY EditConstants
<1>5. PICK g \in [1 .. (EditMaxLines - 1) + 1 -> Places] : Is(g, EditMaxLines - 1)
  BY <1>3, <1>4 DEF Good
<1>6. Starts(b, g) BY <1>4, <1>5 DEF Starts
<1>7. ASSUME NEW k \in 1 .. EditMaxLines
      PROVE  g[k] = IF k = 1 THEN 0 ELSE LineEnd(b, g[k - 1])
  <2>1. CASE k = 1 BY <1>6, <2>1 DEF Starts
  <2>2. CASE k # 1
    <3>1. k - 1 \in 1 .. EditMaxLines - 1 /\ (k - 1) + 1 = k BY <2>2, EditConstants
    <3> QED BY <1>6, <2>2, <3>1 DEF Starts
  <2> QED BY <2>1, <2>2
<1>8. g = [k \in 1 .. EditMaxLines |-> IF k = 1 THEN 0 ELSE LineEnd(b, g[k - 1])]
  BY <1>4, <1>5, <1>7
<1> QED BY <1>6, <1>8

LEMMA StartsSame ==
  ASSUME NEW b, NEW f, NEW g, NEW m \in Nat, OneByOne(b, f, m), OneByOne(b, g, m)
  PROVE  \A k \in 1 .. m + 1 : f[k] = g[k]
<1> DEFINE Good == {n \in Nat : n <= m => f[n + 1] = g[n + 1]}
<1>1. 0 \in Good BY DEF OneByOne
<1>2. ASSUME NEW n \in Nat, n \in Good PROVE n + 1 \in Good
  <2> SUFFICES ASSUME n + 1 <= m PROVE f[(n + 1) + 1] = g[(n + 1) + 1] OBVIOUS
  <2>1. f[n + 1] = g[n + 1] /\ n + 1 \in 1 .. m BY <1>2
  <2> QED BY <2>1 DEF OneByOne
<1> HIDE DEF Good
<1>3. Nat \subseteq Good BY <1>1, <1>2, CountUp
<1> SUFFICES ASSUME NEW k \in 1 .. m + 1 PROVE f[k] = g[k] OBVIOUS
<1>4. k - 1 \in Nat /\ k - 1 <= m /\ (k - 1) + 1 = k OBVIOUS
<1> QED BY <1>3, <1>4 DEF Good

(* How many lines there are.                                               *)
Ends(b, at, n) ==
  /\ n \in 1 .. EditMaxLines - 1
  /\ n = EditMaxLines - 1 \/ b[at[n + 1]] = NUL
  /\ \A k \in 1 .. n - 1 : b[at[k + 1]] # NUL

LEMMA OffsIs ==
  ASSUME NEW b, Buffer(b)
  PROVE  \E at, n : Starts(b, at) /\ Ends(b, at, n) /\ Offs(b) = [k \in 1 .. n |-> at[k]]
<1> DEFINE Table(at) == at = [k \in 1 .. EditMaxLines |-> IF k = 1 THEN 0 ELSE LineEnd(b, at[k - 1])]
           f == CHOOSE at : Table(at)
           T == {k \in 1 .. EditMaxLines - 1 : k = EditMaxLines - 1 \/ b[f[k + 1]] = NUL}
           n == Lowest(T)
<1>1. PICK g : Starts(b, g) /\ Table(g) BY StartsExist
<1>2. Table(f) BY <1>1
<1>3. Offs(b) = [k \in 1 .. n |-> f[k]] BY DEF Offs
<1> HIDE DEF f
<1>4. f[1] = 0 BY <1>2, EditConstants
<1>5. ASSUME NEW k \in 1 .. EditMaxLines - 1 PROVE f[k + 1] = LineEnd(b, f[k])
  <2>1. k + 1 \in 1 .. EditMaxLines /\ k + 1 # 1 /\ (k + 1) - 1 = k BY EditConstants
  <2>2. f[k + 1] = IF k + 1 = 1 THEN 0 ELSE LineEnd(b, f[(k + 1) - 1]) BY <1>2, <2>1
  <2> QED BY <2>1, <2>2
<1>6. \A k \in 1 .. EditMaxLines : f[k] = g[k]
  <2> DEFINE m == EditMaxLines - 1
  <2>1. m \in Nat /\ m + 1 = EditMaxLines BY EditConstants
  <2>2. OneByOne(b, f, m) /\ OneByOne(b, g, m) BY <1>1, <1>4, <1>5 DEF OneByOne, Starts
  <2> HIDE DEF m
  <2>3. \A k \in 1 .. m + 1 : f[k] = g[k] BY <2>1, <2>2, StartsSame
  <2> QED BY <2>1, <2>3
<1>7. f = g BY <1>1, <1>2, <1>6
<1>8. Starts(b, f) BY <1>1, <1>7
<1>9. T \subseteq Nat /\ EditMaxLines - 1 \in T BY EditConstants
<1>10. n \in T /\ \A k \in T : n <= k BY <1>9, LowestIs
<1>11. Ends(b, f, n)
  <2>1. n \in 1 .. EditMaxLines - 1 /\ (n = EditMaxLines - 1 \/ b[f[n + 1]] = NUL) BY <1>10
  <2>2. ASSUME NEW k \in 1 .. n - 1 PROVE b[f[k + 1]] # NUL
    <3>1. k \in 1 .. EditMaxLines - 1 /\ k < n
      <4> HIDE DEF n
      <4> QED BY <2>1, EditConstants
    <3>2. ~(n <= k)
      <4> HIDE DEF n
      <4> QED BY <2>1, <3>1
    <3>3. k \notin T BY <1>10, <3>2
    <3> QED BY <3>1, <3>3
  <2> HIDE DEF n
  <2> QED BY <2>1, <2>2 DEF Ends
<1> QED BY <1>3, <1>8, <1>11

LEMMA StartsClimb ==
  ASSUME NEW b, Buffer(b), NEW at, Starts(b, at)
  PROVE  /\ \A k \in 1 .. EditMaxLines : \A j \in 0 .. at[k] - 1 : b[j] # NUL
         /\ \A k, l \in 1 .. EditMaxLines : k <= l => at[k] <= at[l]
<1> DEFINE Before(i) == \A j \in 0 .. i - 1 : b[j] # NUL
<1>1. ASSUME NEW k \in 1 .. EditMaxLines - 1
      PROVE  /\ k + 1 \in 1 .. EditMaxLines /\ at[k] \in Nat /\ at[k + 1] \in Nat /\ at[k] <= at[k + 1]
             /\ Before(at[k]) => Before(at[k + 1])
  <2>1. k \in 1 .. EditMaxLines /\ k + 1 \in 1 .. EditMaxLines BY EditConstants
  <2>2. at[k] \in Places /\ at[k + 1] \in Places BY <2>1 DEF Starts
  <2>3. at[k] \in Nat /\ at[k + 1] \in Nat BY <2>2, EditConstants
  <2>4. at[k + 1] = LineEnd(b, at[k]) BY DEF Starts
  <2>5. /\ StopFrom(b, at[k]) >= at[k] /\ StopFrom(b, at[k]) \in Nat
        /\ StopFrom(b, at[k]) <= at[k + 1] /\ \A j \in at[k] .. at[k + 1] - 1 : b[j] # NUL
    BY <2>2, <2>4, StopIs, NextIs, EditConstants
  <2>6. at[k] <= at[k + 1]
    <3> DEFINE s == StopFrom(b, at[k])
    <3>1. s \in Nat /\ s >= at[k] /\ s <= at[k + 1] BY <2>5
    <3> HIDE DEF s
    <3> QED BY <2>3, <3>1
  <2>7. Before(at[k]) => Before(at[k + 1])
    <3> SUFFICES ASSUME Before(at[k]), NEW j \in 0 .. at[k + 1] - 1 PROVE b[j] # NUL OBVIOUS
    <3>1. j \in 0 .. at[k] - 1 \/ j \in at[k] .. at[k + 1] - 1 BY <2>3
    <3> QED BY <2>5, <3>1
  <2> QED BY <2>1, <2>3, <2>6, <2>7
<1>2. at[1] = 0 /\ \A k \in 1 .. EditMaxLines : at[k] \in Nat BY EditConstants DEF Starts
<1>3. ASSUME NEW k \in 1 .. EditMaxLines PROVE Before(at[k])
  <2> DEFINE Good == {n \in Nat : n + 1 \in 1 .. EditMaxLines => Before(at[n + 1])}
  <2>1. 0 \in Good BY <1>2
  <2>2. ASSUME NEW n \in Nat, n \in Good PROVE n + 1 \in Good
    <3> SUFFICES ASSUME (n + 1) + 1 \in 1 .. EditMaxLines PROVE Before(at[(n + 1) + 1]) OBVIOUS
    <3>1. n + 1 \in 1 .. EditMaxLines - 1 /\ n + 1 \in 1 .. EditMaxLines BY EditConstants
    <3>2. Before(at[n + 1]) BY <2>2, <3>1
    <3> HIDE DEF Before
    <3> QED BY <1>1, <3>1, <3>2
  <2> HIDE DEF Good
  <2>3. Nat \subseteq Good BY <2>1, <2>2, CountUp
  <2>4. k - 1 \in Nat /\ (k - 1) + 1 = k BY EditConstants
  <2> HIDE DEF Before
  <2> QED BY <2>3, <2>4 DEF Good
<1>4. ASSUME NEW k \in 1 .. EditMaxLines, NEW l \in 1 .. EditMaxLines, k <= l PROVE at[k] <= at[l]
  <2> DEFINE Good == {n \in Nat : k + n \in 1 .. EditMaxLines => at[k] <= at[k + n]}
  <2>1. 0 \in Good
    <3>1. at[k] \in Nat /\ k + 0 = k BY <1>2, EditConstants
    <3> QED BY <3>1
  <2>2. ASSUME NEW n \in Nat, n \in Good PROVE n + 1 \in Good
    <3> SUFFICES ASSUME k + (n + 1) \in 1 .. EditMaxLines PROVE at[k] <= at[k + (n + 1)] OBVIOUS
    <3>1. k + n \in 1 .. EditMaxLines - 1 /\ k + n \in 1 .. EditMaxLines /\ (k + n) + 1 = k + (n + 1)
      BY EditConstants
    <3>2. at[k] <= at[k + n] BY <2>2, <3>1
    <3>3. at[k + n] <= at[k + (n + 1)] BY <1>1, <3>1
    <3>4. at[k] \in Nat /\ at[k + n] \in Nat /\ at[k + (n + 1)] \in Nat BY <1>2, <3>1
    <3> QED BY <3>2, <3>3, <3>4
  <2> HIDE DEF Good
  <2>3. Nat \subseteq Good BY <2>1, <2>2, CountUp
  <2>4. k \in Nat /\ l \in Nat BY EditConstants
  <2>5. l - k \in Nat /\ k + (l - k) = l BY <1>4, <2>4
  <2> QED BY <2>3, <2>5 DEF Good
<1> QED BY <1>3, <1>4

(* What every buffer has, also one whose text gained what nobody typed.    *)
Tabled(b) ==
  /\ Offs(b) \in [1 .. Len(Offs(b)) -> Places]
  /\ Len(Offs(b)) \in 1 .. EditMaxLines - 1
  /\ Total(b) \in Places
  /\ \A k \in 1 .. Len(Offs(b)) :
       Beyond(b, k) \in Places /\ Offs(b)[k] <= Beyond(b, k) /\ Beyond(b, k) <= Total(b)
  /\ \A j \in 0 .. Total(b) - 1 : b[j] # NUL

LEMMA TableIs ==
  ASSUME NEW b, Buffer(b)
  PROVE  Tabled(b)
<1>1. PICK at, n : Starts(b, at) /\ Ends(b, at, n) /\ Offs(b) = [k \in 1 .. n |-> at[k]] BY OffsIs
<1>2. n \in 1 .. EditMaxLines - 1 /\ n \in Nat BY <1>1, EditConstants DEF Ends
<1>3. \A k \in 1 .. EditMaxLines : at[k] \in Places BY <1>1 DEF Starts
<1>4. \A k \in 1 .. n : k \in 1 .. EditMaxLines /\ k + 1 \in 1 .. EditMaxLines BY <1>2, EditConstants
<1>5. [k \in 1 .. n |-> at[k]] \in Seq(Places) /\ Len([k \in 1 .. n |-> at[k]]) = n
  <2>1. \A k \in 1 .. n : at[k] \in Places BY <1>3, <1>4
  <2> QED BY <1>2, <2>1
<1>6. Len(Offs(b)) = n /\ \A k \in 1 .. n : Offs(b)[k] = at[k] BY <1>1, <1>5
<1>7. \A k \in 1 .. n : Beyond(b, k) = at[k + 1]
  <2> SUFFICES ASSUME NEW k \in 1 .. n PROVE Beyond(b, k) = at[k + 1] OBVIOUS
  <2>1. k \in 1 .. EditMaxLines - 1 BY <1>2, EditConstants
  <2>2. at[k + 1] = LineEnd(b, at[k]) BY <1>1, <2>1 DEF Starts
  <2> QED BY <1>6, <2>2 DEF Beyond
<1>8. Total(b) = at[n + 1] BY <1>2, <1>6, <1>7 DEF Total
<1>9. n + 1 \in 1 .. EditMaxLines BY <1>2, <1>4
<1>10. Offs(b) \in [1 .. n -> Places] BY <1>1, <1>3, <1>4
<1>11. ASSUME NEW k \in 1 .. n
       PROVE  at[k + 1] \in Places /\ at[k] <= at[k + 1] /\ at[k + 1] <= at[n + 1]
  <2>1. k \in 1 .. EditMaxLines /\ k + 1 \in 1 .. EditMaxLines /\ k <= k + 1 /\ k + 1 <= n + 1
    BY <1>2, <1>4
  <2> QED BY <1>1, <1>3, <1>9, <2>1, StartsClimb
<1>12. \A j \in 0 .. at[n + 1] - 1 : b[j] # NUL BY <1>1, <1>9, StartsClimb
<1>13. at[n + 1] \in Places BY <1>3, <1>9
<1> QED BY <1>2, <1>6, <1>7, <1>8, <1>10, <1>11, <1>12, <1>13 DEF Tabled

LEMMA LinesTyped ==
  ASSUME NEW b, Buffer(b)
  PROVE  /\ Lines(b) \in Seq(Seq(Letters)) /\ Len(Lines(b)) = Len(Offs(b))
         /\ \A k \in 1 .. Len(Offs(b)) :
              /\ Lines(b)[k] = LineAt(b, k)
              /\ Len(LineAt(b, k)) = StopFrom(b, Offs(b)[k]) - Offs(b)[k]
              /\ \A j \in 1 .. Len(LineAt(b, k)) : LineAt(b, k)[j] = b[Offs(b)[k] + j - 1]
<1>1. Tabled(b) BY TableIs
<1> DEFINE n == Len(Offs(b))
<1>2. ASSUME NEW k \in 1 .. n
      PROVE  /\ LineAt(b, k) \in Seq(Letters)
             /\ Len(LineAt(b, k)) = StopFrom(b, Offs(b)[k]) - Offs(b)[k]
             /\ \A j \in 1 .. Len(LineAt(b, k)) : LineAt(b, k)[j] = b[Offs(b)[k] + j - 1]
  <2>1. PICK i \in Places : i = Offs(b)[k] BY <1>1 DEF Tabled
  <2>2. PICK s \in Places : s = StopFrom(b, i) BY StopIs
  <2>3. s >= i /\ \A j \in i .. s - 1 : b[j] \in Letters BY <2>2, StopIs
  <2>4. i \in Nat /\ s \in Nat /\ s - i \in Nat BY <2>3, EditConstants
  <2>5. \A j \in 1 .. s - i : b[i + j - 1] \in Letters BY <2>3, <2>4
  <2>6. LineAt(b, k) = [j \in 1 .. s - i |-> b[i + j - 1]] BY <2>1, <2>2 DEF LineAt
  <2>7. PICK d \in Nat : d = s - i BY <2>4
  <2>8. LineAt(b, k) = [j \in 1 .. d |-> b[i + j - 1]] /\ \A j \in 1 .. d : b[i + j - 1] \in Letters
    BY <2>5, <2>6, <2>7
  <2>9. LineAt(b, k) \in Seq(Letters) /\ Len(LineAt(b, k)) = d BY <2>7, <2>8
  <2>10. \A j \in 1 .. d : LineAt(b, k)[j] = b[i + j - 1] BY <2>8
  <2> QED BY <2>1, <2>2, <2>7, <2>9, <2>10
<1>3. n \in Nat BY <1>1, EditConstants DEF Tabled
<1>4. Lines(b) = [k \in 1 .. n |-> LineAt(b, k)] BY DEF Lines
<1> HIDE DEF n
<1>5. Lines(b) \in Seq(Seq(Letters)) /\ Len(Lines(b)) = n
  <2>1. \A k \in 1 .. n : LineAt(b, k) \in Seq(Letters) BY <1>2
  <2> QED BY <1>3, <1>4, <2>1
<1>6. \A k \in 1 .. n : Lines(b)[k] = LineAt(b, k) BY <1>4
<1> QED BY <1>2, <1>5, <1>6 DEF n

-----------------------------------------------------------------------------
(* Lines one after the other, each with its newline: line k is at o[k].    *)
(* When the table is full, more may follow.                                *)
Laid(b, t, o, k) ==
  /\ o[k + 1] = o[k] + Len(t[k]) + 1
  /\ b[o[k + 1] - 1] = NL
  /\ \A j \in 1 .. Len(t[k]) : b[o[k] + j - 1] = t[k][j]

Layout(b, t, o) ==
  /\ t \in Seq(Seq(Letters)) /\ Len(t) \in 1 .. EditMaxLines - 1
  /\ o \in [1 .. Len(t) + 1 -> Places] /\ o[1] = 0
  /\ \A k \in 1 .. Len(t) : Laid(b, t, o, k)
  /\ Len(t) = EditMaxLines - 1 \/ b[o[Len(t) + 1]] = NUL

LEMMA LaidStop ==
  ASSUME NEW b, Buffer(b), NEW t, NEW o, Layout(b, t, o), NEW k \in 1 .. Len(t)
  PROVE  /\ o[k] \in Places /\ o[k + 1] \in Places /\ t[k] \in Seq(Letters)
         /\ StopFrom(b, o[k]) = o[k] + Len(t[k]) /\ LineEnd(b, o[k]) = o[k + 1]
         /\ b[o[k]] # NUL
<1>1. PICK n \in Nat : n = Len(t) BY DEF Layout
<1>2. k \in 1 .. n + 1 /\ k + 1 \in 1 .. n + 1 BY <1>1
<1>3. o[k] \in Places /\ o[k + 1] \in Places BY <1>1, <1>2 DEF Layout
<1>4. t[k] \in Seq(Letters) BY <1>1 DEF Layout
<1>5. PICK m \in Nat : m = Len(t[k]) BY <1>4
<1>6. PICK i \in Nat : i = o[k] BY <1>3, EditConstants
<1>7. o[k + 1] = i + m + 1 /\ b[i + m] = NL /\ \A j \in 1 .. m : b[i + j - 1] = t[k][j]
  <2>1. Laid(b, t, o, k) BY DEF Layout
  <2>2. o[k + 1] = i + m + 1 /\ \A j \in 1 .. m : b[i + j - 1] = t[k][j] BY <1>5, <1>6, <2>1 DEF Laid
  <2>3. (i + m + 1) - 1 = i + m OBVIOUS
  <2> QED BY <2>1, <2>2, <2>3 DEF Laid
<1>8. ASSUME NEW j \in 1 .. m PROVE b[i + j - 1] \in Letters
  <2>1. t[k][j] \in Letters BY <1>4, <1>5
  <2>2. b[i + j - 1] = t[k][j] BY <1>7
  <2> QED BY <2>1, <2>2
<1>9. PICK s \in Places : s = StopFrom(b, i) BY <1>3, <1>6, StopIs
<1>10. s >= i /\ b[s] \in {NUL, NL} /\ \A j \in i .. s - 1 : b[j] \in Letters
  BY <1>3, <1>6, <1>9, StopIs
<1>11. s \in Nat BY EditConstants
<1>12. s = i + m
  <2>1. ASSUME s < i + m PROVE FALSE
    <3>1. s - i + 1 \in 1 .. m /\ i + (s - i + 1) - 1 = s BY <1>10, <1>11, <2>1
    <3>2. b[s] \in Letters BY <1>8, <3>1
    <3> QED BY <1>10, <3>2, EditConstants
  <2>2. ASSUME s > i + m PROVE FALSE
    <3>1. i + m \in i .. s - 1 BY <1>11, <2>2
    <3>2. b[i + m] \in Letters BY <1>10, <3>1
    <3> QED BY <1>7, <3>2, EditConstants
  <2> QED BY <1>11, <2>1, <2>2
<1>13. LineEnd(b, i) = s + 1 BY <1>7, <1>9, <1>12 DEF LineEnd
<1>14. b[i] # NUL
  <2>1. CASE m = 0 BY <1>7, <2>1, EditConstants
  <2>2. CASE m # 0
    <3>1. 1 \in 1 .. m /\ i + 1 - 1 = i BY <2>2
    <3>2. b[i] \in Letters BY <1>8, <3>1
    <3> QED BY <3>2, EditConstants
  <2> QED BY <2>1, <2>2
<1> QED BY <1>3, <1>4, <1>5, <1>6, <1>7, <1>9, <1>12, <1>13, <1>14

LEMMA LayoutStarts ==
  ASSUME NEW b, Buffer(b), NEW t, NEW o, Layout(b, t, o), NEW at, Starts(b, at)
  PROVE  \A k \in 1 .. Len(t) + 1 : at[k] = o[k]
<1>1. PICK l \in 1 .. EditMaxLines - 1 : l = Len(t) BY DEF Layout
<1>2. l \in Nat BY EditConstants
<1>3. OneByOne(b, at, l)
  <2>1. \A k \in 1 .. l : k \in 1 .. EditMaxLines - 1 BY <1>2, EditConstants
  <2> QED BY <2>1 DEF Starts, OneByOne
<1>4. OneByOne(b, o, l)
  <2>1. \A k \in 1 .. l : o[k + 1] = LineEnd(b, o[k]) BY <1>1, LaidStop
  <2> QED BY <2>1 DEF OneByOne, Layout
<1> QED BY <1>1, <1>2, <1>3, <1>4, StartsSame

LEMMA LayoutClimb ==
  ASSUME NEW b, Buffer(b), NEW t, NEW o, Layout(b, t, o)
  PROVE  /\ Len(t) \in Nat /\ \A k \in 1 .. Len(t) + 1 : o[k] \in Nat
         /\ \A k, l \in 1 .. Len(t) + 1 : k <= l => o[k] <= o[l]
<1>1. PICK at : Starts(b, at) BY StartsExist
<1>2. PICK n \in 1 .. EditMaxLines - 1 : n = Len(t) BY DEF Layout
<1>3. n \in Nat BY EditConstants
<1>4. \A k \in 1 .. n + 1 : at[k] = o[k] BY <1>1, <1>2, LayoutStarts
<1>5. \A k \in 1 .. n + 1 : k \in 1 .. EditMaxLines BY <1>3, EditConstants
<1>6. \A k \in 1 .. EditMaxLines : at[k] \in Nat BY <1>1, EditConstants DEF Starts
<1>7. \A k, l \in 1 .. EditMaxLines : k <= l => at[k] <= at[l] BY <1>1, StartsClimb
<1> QED BY <1>2, <1>3, <1>4, <1>5, <1>6, <1>7

(* So it is with the buffer's own lines.                                   *)
LEMMA LayoutLines ==
  ASSUME NEW b, Buffer(b), NEW t, NEW o, Layout(b, t, o)
  PROVE  /\ Lines(b) = t /\ Len(Offs(b)) = Len(t) /\ Total(b) = o[Len(t) + 1]
         /\ \A k \in 1 .. Len(t) : Offs(b)[k] = o[k] /\ Beyond(b, k) = o[k + 1]
<1>1. PICK at, n : Starts(b, at) /\ Ends(b, at, n) /\ Offs(b) = [k \in 1 .. n |-> at[k]] BY OffsIs
<1>2. PICK l \in 1 .. EditMaxLines - 1 : l = Len(t) BY DEF Layout
<1>3. l \in Nat /\ n \in Nat /\ n \in 1 .. EditMaxLines - 1 BY <1>1, EditConstants DEF Ends
<1>4. \A k \in 1 .. l + 1 : at[k] = o[k] BY <1>1, <1>2, LayoutStarts
<1>5. n = l
  <2>1. ASSUME n < l PROVE FALSE
    <3>1. n # EditMaxLines - 1 BY <1>3, <2>1, EditConstants
    <3>2. b[at[n + 1]] = NUL BY <1>1, <3>1 DEF Ends
    <3>3. n + 1 \in 1 .. l /\ n + 1 \in 1 .. l + 1 BY <1>3, <2>1
    <3>4. b[o[n + 1]] # NUL BY <1>2, <3>3, LaidStop
    <3> QED BY <1>4, <3>2, <3>3, <3>4
  <2>2. ASSUME n > l PROVE FALSE
    <3>1. l # EditMaxLines - 1 BY <1>3, <2>2, EditConstants
    <3>2. b[o[l + 1]] = NUL BY <1>2, <3>1 DEF Layout
    <3>3. l \in 1 .. n - 1 /\ l + 1 \in 1 .. l + 1 BY <1>3, <2>2
    <3>4. b[at[l + 1]] # NUL BY <1>1, <3>3 DEF Ends
    <3> QED BY <1>4, <3>2, <3>3, <3>4
  <2> QED BY <1>3, <2>1, <2>2
<1>6. Len(Offs(b)) = l /\ \A k \in 1 .. l : Offs(b)[k] = o[k]
  <2>1. \A k \in 1 .. l : k \in 1 .. l + 1 /\ at[k] = o[k] BY <1>3, <1>4
  <2>2. \A k \in 1 .. l : o[k] \in Places BY <1>2, <2>1 DEF Layout
  <2>3. Offs(b) = [k \in 1 .. l |-> o[k]] BY <1>1, <1>5, <2>1
  <2> QED BY <1>3, <2>2, <2>3
<1>7. \A k \in 1 .. l : Beyond(b, k) = o[k + 1] BY <1>2, <1>6, LaidStop DEF Beyond
<1>8. Total(b) = o[l + 1]
  <2>1. l \in 1 .. l BY <1>3
  <2> QED BY <1>6, <1>7, <2>1 DEF Total
<1>9. Lines(b) = t
  <2>1. Lines(b) \in Seq(Seq(Letters)) /\ Len(Lines(b)) = l BY <1>6, LinesTyped
  <2>2. t \in Seq(Seq(Letters)) /\ Len(t) = l BY <1>2 DEF Layout
  <2>3. ASSUME NEW k \in 1 .. l PROVE Lines(b)[k] = t[k]
    <3>1. t[k] \in Seq(Letters) /\ StopFrom(b, o[k]) = o[k] + Len(t[k]) BY <1>2, LaidStop
    <3>2. Lines(b)[k] = LineAt(b, k) BY <1>6, LinesTyped
    <3>3. LineAt(b, k) \in Seq(Letters) BY <2>1, <3>2
    <3>4. PICK i \in Nat : i = o[k] BY <1>2, LaidStop, EditConstants
    <3>5. PICK m \in Nat : m = Len(t[k]) BY <3>1
    <3>6. Len(LineAt(b, k)) = m
      <4>1. Len(LineAt(b, k)) = StopFrom(b, Offs(b)[k]) - Offs(b)[k] BY <1>6, LinesTyped
      <4>2. StopFrom(b, Offs(b)[k]) = i + m /\ Offs(b)[k] = i BY <1>6, <3>1, <3>4, <3>5
      <4>3. (i + m) - i = m OBVIOUS
      <4> QED BY <4>1, <4>2, <4>3
    <3>7. ASSUME NEW j \in 1 .. m PROVE LineAt(b, k)[j] = t[k][j]
      <4>1. LineAt(b, k)[j] = b[Offs(b)[k] + j - 1] BY <1>6, <3>6, LinesTyped
      <4>2. b[o[k] + j - 1] = t[k][j] BY <1>2, <3>5 DEF Layout, Laid
      <4> QED BY <1>6, <4>1, <4>2
    <3> QED BY <3>1, <3>2, <3>3, <3>5, <3>6, <3>7, SeqEqual
  <2> QED BY <2>1, <2>2, <2>3, SeqEqual
<1> QED BY <1>2, <1>6, <1>7, <1>8, <1>9

(* A text that ends in a newline, and fills the buffer up to a NUL.        *)
LEMMA LinesLaid ==
  ASSUME NEW b, Buffer(b), NEW e \in Places, e >= 1, b[e] = NUL, b[e - 1] = NL,
         \A j \in 0 .. e - 1 : b[j] # NUL
  PROVE  \E o : Layout(b, Lines(b), o)
<1>1. PICK at, n : Starts(b, at) /\ Ends(b, at, n) /\ Offs(b) = [k \in 1 .. n |-> at[k]] BY OffsIs
<1>2. n \in 1 .. EditMaxLines - 1 /\ n \in Nat BY <1>1, EditConstants DEF Ends
<1>3. \A k \in 1 .. EditMaxLines : at[k] \in Places BY <1>1 DEF Starts
<1>4. \A k \in 1 .. n + 1 : k \in 1 .. EditMaxLines BY <1>2, EditConstants
<1>5. e \in Nat BY EditConstants
<1>6. ASSUME NEW k \in 1 .. n PROVE at[k] < e
  <2>1. CASE k = 1 BY <1>1, <1>5, <2>1 DEF Starts
  <2>2. CASE k # 1
    <3>1. k - 1 \in 1 .. n - 1 /\ (k - 1) + 1 = k /\ k \in 1 .. EditMaxLines BY <1>2, <1>4, <2>2
    <3>2. b[at[k]] # NUL BY <1>1, <3>1 DEF Ends
    <3>3. \A j \in 0 .. at[k] - 1 : b[j] # NUL BY <1>1, <3>1, StartsClimb
    <3>4. PICK i \in Nat : i = at[k] BY <1>3, <3>1, EditConstants
    <3>5. ~(e < i) BY <1>5, <3>3, <3>4
    <3> QED BY <1>5, <3>2, <3>4, <3>5
  <2> QED BY <2>1, <2>2
<1> DEFINE o == [k \in 1 .. n + 1 |-> at[k]]
           t == Lines(b)
<1>7. Len(Offs(b)) = n /\ \A k \in 1 .. n : Offs(b)[k] = at[k]
  <2>1. \A k \in 1 .. n : at[k] \in Places
    <3>1. \A k \in 1 .. n : k \in 1 .. n + 1 BY <1>2
    <3> QED BY <1>3, <1>4, <3>1
  <2>2. [k \in 1 .. n |-> at[k]] \in Seq(Places) BY <1>2, <2>1
  <2> QED BY <1>1, <1>2, <2>2
<1>8. ASSUME NEW k \in 1 .. n PROVE Laid(b, t, o, k)
  <2>1. k \in 1 .. EditMaxLines - 1 /\ k \in 1 .. EditMaxLines BY <1>2, EditConstants
  <2>2. PICK i \in Places : i = at[k] BY <1>3, <2>1
  <2>3. PICK s \in Places : s = StopFrom(b, i) BY StopIs
  <2>4. s >= i /\ b[s] \in {NUL, NL} /\ \A j \in i .. s - 1 : b[j] \in Letters BY <2>3, StopIs
  <2>5. i \in Nat /\ s \in Nat /\ i < e BY <1>6, <2>2, EditConstants
  <2>6. s <= e - 1
    <3> SUFFICES ASSUME s > e - 1 PROVE FALSE BY <1>5, <2>5
    <3>1. e - 1 \in i .. s - 1 BY <1>5, <2>5
    <3>2. b[e - 1] \in Letters BY <2>4, <3>1
    <3> QED BY <3>2, EditConstants
  <2>7. b[s] = NL
    <3>1. s \in 0 .. e - 1 BY <1>5, <2>5, <2>6
    <3> QED BY <2>4, <3>1
  <2>8. at[k + 1] = s + 1
    <3>1. at[k + 1] = LineEnd(b, at[k]) BY <1>1, <2>1 DEF Starts
    <3> QED BY <2>2, <2>3, <2>7, <3>1 DEF LineEnd
  <2>9. Len(t[k]) = s - i /\ \A j \in 1 .. Len(t[k]) : t[k][j] = b[i + j - 1]
    <3>1. /\ t[k] = LineAt(b, k) /\ Len(LineAt(b, k)) = StopFrom(b, Offs(b)[k]) - Offs(b)[k]
          /\ \A j \in 1 .. Len(LineAt(b, k)) : LineAt(b, k)[j] = b[Offs(b)[k] + j - 1]
      BY <1>7, LinesTyped
    <3>2. Offs(b)[k] = i BY <1>7, <2>2
    <3> QED BY <2>3, <3>1, <3>2
  <2>10. o[k] = i /\ o[k + 1] = s + 1
    <3>1. k \in 1 .. n + 1 /\ k + 1 \in 1 .. n + 1 BY <1>2
    <3> QED BY <2>2, <2>8, <3>1
  <2>11. PICK m \in Nat : m = Len(t[k]) /\ m = s - i BY <2>4, <2>5, <2>9
  <2>12. s + 1 = i + m + 1 /\ (s + 1) - 1 = s BY <2>5, <2>11
  <2> HIDE DEF o, t
  <2> QED BY <2>7, <2>9, <2>10, <2>11, <2>12 DEF Laid
<1>9. t \in Seq(Seq(Letters)) /\ Len(t) = n BY <1>7, LinesTyped
<1>10. o \in [1 .. n + 1 -> Places] BY <1>3, <1>4
<1>11. o[1] = 0 /\ o[n + 1] = at[n + 1]
  <2>1. 1 \in 1 .. n + 1 /\ n + 1 \in 1 .. n + 1 BY <1>2
  <2> QED BY <1>1, <2>1 DEF Starts
<1>12. n = EditMaxLines - 1 \/ b[o[n + 1]] = NUL BY <1>1, <1>11 DEF Ends
<1> HIDE DEF o, t
<1>13. Layout(b, t, o) BY <1>2, <1>8, <1>9, <1>10, <1>11, <1>12 DEF Layout
<1> QED BY <1>13 DEF t

(* Characters that are put into the buffer from its start.                 *)
LEMMA FilledTyped ==
  ASSUME NEW b \in [Places -> Chars], NEW out \in Seq(Letters \cup {NL})
  PROVE  /\ Filled(b, out) \in [Places -> Chars]
         /\ Len(out) < EditMaxSize /\ b[EditMaxSize - 1] = NUL => Buffer(Filled(b, out))
<1> DEFINE C == Letters \cup {NL}
           c == Filled(b, out)
<1>1. PICK n \in Nat : n = Len(out) OBVIOUS
<1>2. c = [i \in Places |-> IF i < n THEN out[i + 1] ELSE IF i = n THEN NUL ELSE b[i]]
  BY <1>1 DEF Filled
<1> HIDE DEF c
<1>3. ASSUME NEW i \in Places PROVE c[i] \in Chars
  <2>1. i \in Nat BY EditConstants
  <2>2. CASE i < n
    <3>1. i + 1 \in 1 .. n BY <2>1, <2>2
    <3>2. out[i + 1] \in C BY <1>1, <3>1
    <3>3. c[i] = out[i + 1] BY <1>2, <2>2
    <3> QED BY <3>2, <3>3 DEF Chars
  <2>3. CASE i = n BY <1>2, <2>3 DEF Chars
  <2>4. CASE ~(i < n) /\ i # n BY <1>2, <2>4
  <2> QED BY <2>2, <2>3, <2>4
<1>4. c \in [Places -> Chars] BY <1>2, <1>3
<1>5. ASSUME n < EditMaxSize, b[EditMaxSize - 1] = NUL PROVE c[EditMaxSize - 1] = NUL
  <2>1. EditMaxSize - 1 \in Places /\ ~(EditMaxSize - 1 < n) BY <1>1, <1>5, EditConstants
  <2> QED BY <1>2, <1>5, <2>1
<1> QED BY <1>1, <1>4, <1>5 DEF Buffer, c

(* What is read of a file ends in a newline.                               *)
LEMMA LoadedIs ==
  ASSUME NEW f \in Seq(Letters \cup {NL})
  PROVE  /\ Loaded(f) \in Seq(Letters \cup {NL}) /\ Len(Loaded(f)) >= 1
         /\ Loaded(f)[Len(Loaded(f))] = NL
<1> DEFINE C == Letters \cup {NL}
           n == IF Len(f) < EditMaxSize THEN Len(f) ELSE EditMaxSize - 1
           read == SubSeq(f, 1, n)
<1>1. n \in Nat /\ n <= Len(f) BY EditConstants
<1>2. read \in Seq(C) /\ Len(read) = n
  <2> HIDE DEF n
  <2>1. \A i \in 1 .. n : f[i] \in C BY <1>1
  <2>2. read = [i \in 1 .. n |-> f[i]] BY <1>1
  <2> HIDE DEF C
  <2> QED BY <1>1, <2>1, <2>2
<1>3. NL \in C OBVIOUS
<1>4. Loaded(f) = IF read = <<>> \/ Last(read) # NL THEN Append(read, NL) ELSE read
  BY DEF Loaded
<1> HIDE DEF n, read, C
<1>5. CASE read = <<>> \/ Last(read) # NL
  <2>1. /\ Append(read, NL) \in Seq(C) /\ Len(Append(read, NL)) = n + 1
        /\ Append(read, NL)[n + 1] = NL
    BY <1>1, <1>2, <1>3
  <2>2. Loaded(f) = Append(read, NL) BY <1>4, <1>5
  <2> QED BY <1>1, <2>1, <2>2 DEF C
<1>6. CASE ~(read = <<>> \/ Last(read) # NL)
  <2>1. Loaded(f) = read /\ read # <<>> /\ Last(read) = NL BY <1>4, <1>6
  <2>2. Len(read) # 0 BY <1>2, <2>1, EmptySeq
  <2> QED BY <1>1, <1>2, <2>1, <2>2 DEF Last, C
<1> QED BY <1>5, <1>6

LEMMA LoadedLaid ==
  ASSUME NEW f \in Seq(Letters \cup {NL}), Len(Loaded(f)) < EditMaxSize
  PROVE  /\ Buffer(Filled(Blank, Loaded(f)))
         /\ \E o : Layout(Filled(Blank, Loaded(f)), Lines(Filled(Blank, Loaded(f))), o)
<1> DEFINE C == Letters \cup {NL}
           whole == Loaded(f)
           b == Filled(Blank, whole)
<1>1. whole \in Seq(C) /\ Len(whole) >= 1 /\ whole[Len(whole)] = NL BY LoadedIs
<1>2. Blank \in [Places -> Chars] /\ Blank[EditMaxSize - 1] = NUL /\ \A i \in Places : Blank[i] = NUL
  BY EditConstants DEF Blank, Chars
<1>3. b = [i \in Places |-> IF i < Len(whole) THEN whole[i + 1] ELSE NUL]
  BY <1>2 DEF Filled
<1>4. Buffer(b)
  <2>1. Len(whole) < EditMaxSize OBVIOUS
  <2> HIDE DEF whole
  <2> QED BY <1>1, <1>2, <2>1, FilledTyped
<1>5. PICK e \in 1 .. EditMaxSize - 1 : e = Len(whole)
  <2>1. Len(whole) \in Nat /\ Len(whole) < EditMaxSize BY <1>1
  <2> QED BY <1>1, <2>1, EditConstants
<1> HIDE DEF whole, b
<1>6. e \in Nat /\ e \in Places /\ e >= 1 BY <1>5, EditConstants DEF Places
<1>7. \A i \in Places : i < e => b[i] \in C
  <2> SUFFICES ASSUME NEW i \in Places, i < e PROVE b[i] \in C OBVIOUS
  <2>1. i + 1 \in 1 .. e BY <1>6, EditConstants
  <2>2. whole[i + 1] \in C
    <3> HIDE DEF C
    <3> QED BY <1>1, <1>5, <2>1
  <2> QED BY <1>3, <1>5, <2>2
<1>8. \A i \in Places : ~(i < e) => b[i] = NUL BY <1>3, <1>5
<1>9. b[e] = NUL BY <1>6, <1>8
<1>10. b[e - 1] = NL
  <2>1. e - 1 \in Places /\ e - 1 < e /\ (e - 1) + 1 = e BY <1>6, EditConstants DEF Places
  <2> QED BY <1>1, <1>3, <1>5, <2>1
<1>11. \A j \in 0 .. e - 1 : b[j] # NUL
  <2> SUFFICES ASSUME NEW j \in 0 .. e - 1 PROVE b[j] # NUL OBVIOUS
  <2>1. j \in Places /\ j < e BY <1>6, EditConstants DEF Places
  <2> QED BY <1>7, <2>1, EditConstants
<1> HIDE DEF C
<1>12. \E o : Layout(b, Lines(b), o) BY <1>4, <1>6, <1>9, <1>10, <1>11, LinesLaid
<1> QED BY <1>4, <1>12 DEF b, whole

-----------------------------------------------------------------------------
(* A line that is carried to another place, d characters on.               *)
Carried(b, c, t, u, o, q, k, j, d) ==
  /\ Laid(b, t, o, k) /\ u[j] = t[k] /\ t[k] \in Seq(Letters)
  /\ o[k] \in Nat /\ o[k + 1] \in Nat /\ d \in Int
  /\ q[j] = o[k] + d /\ q[j + 1] = o[k + 1] + d
  /\ \A i \in o[k] .. o[k + 1] - 1 : c[i + d] = b[i]

LEMMA CarriedLaid ==
  ASSUME NEW b, NEW c, NEW t, NEW u, NEW o, NEW q, NEW k, NEW j, NEW d,
         Carried(b, c, t, u, o, q, k, j, d)
  PROVE  Laid(c, u, q, j)
<1>1. PICK m \in Nat : m = Len(t[k]) /\ m = Len(u[j]) BY DEF Carried
<1>2. PICK a \in Nat : a = o[k] BY DEF Carried
<1>3. PICK z \in Nat : z = o[k + 1] BY DEF Carried
<1>4. PICK e \in Int : e = d BY DEF Carried
<1>5. z = a + m + 1 /\ b[z - 1] = NL /\ \A i \in 1 .. m : b[a + i - 1] = t[k][i]
  BY <1>1, <1>2, <1>3 DEF Carried, Laid
<1>6. q[j] = a + e /\ q[j + 1] = z + e /\ \A i \in a .. z - 1 : c[i + e] = b[i]
  BY <1>2, <1>3, <1>4 DEF Carried
<1>7. c[(z - 1) + e] = NL
  <2>1. z - 1 \in a .. z - 1 BY <1>5
  <2> QED BY <1>5, <1>6, <2>1
<1>8. (z - 1) + e = (z + e) - 1 /\ z + e = (a + e) + m + 1 BY <1>5
<1>9. ASSUME NEW i \in 1 .. m PROVE c[(a + e) + i - 1] = u[j][i]
  <2>1. a + i - 1 \in a .. z - 1 /\ (a + i - 1) + e = (a + e) + i - 1 BY <1>5
  <2>2. c[(a + e) + i - 1] = b[a + i - 1] BY <1>6, <2>1
  <2> QED BY <1>5, <2>2 DEF Carried
<1> QED BY <1>1, <1>6, <1>7, <1>8, <1>9 DEF Laid

(* Room is made for a line, and it is put there.                           *)
MakesRoom(b, c, x, pos, end, n) ==
  /\ \A i \in Places : i < pos \/ i > end + n => c[i] = b[i]
  /\ \A j \in 1 .. n : c[pos + j - 1] = x[j]
  /\ c[pos + n] = NL
  /\ \A i \in pos .. end - 1 : c[i + (n + 1)] = b[i]

InsertPos(b, at) == IF at >= Len(Offs(b)) THEN Total(b) ELSE Offs(b)[at + 1]

LEMMA InsertPosIs ==
  ASSUME NEW b, Tabled(b), NEW at \in Nat
  PROVE  InsertPos(b, at) \in Nat /\ InsertPos(b, at) <= Total(b) /\ Total(b) \in Nat
<1>1. Total(b) \in Nat BY EditConstants DEF Tabled
<1>2. PICK l \in Nat : l = Len(Offs(b))
  <2>1. PICK l \in 1 .. EditMaxLines - 1 : l = Len(Offs(b)) BY DEF Tabled
  <2>2. l \in Nat BY EditConstants
  <2> QED BY <2>1, <2>2
<1>3. CASE at >= l BY <1>1, <1>2, <1>3 DEF InsertPos
<1>4. CASE ~(at >= l)
  <2>1. at + 1 \in 1 .. l BY <1>4
  <2>2. /\ Offs(b)[at + 1] \in Places /\ Beyond(b, at + 1) \in Places
        /\ Offs(b)[at + 1] <= Beyond(b, at + 1) /\ Beyond(b, at + 1) <= Total(b)
    BY <1>2, <2>1 DEF Tabled
  <2>3. InsertPos(b, at) = Offs(b)[at + 1] BY <1>2, <1>4 DEF InsertPos
  <2>4. PICK i, j \in Nat : i = Offs(b)[at + 1] /\ j = Beyond(b, at + 1) BY <2>2, EditConstants
  <2> QED BY <1>1, <2>2, <2>3, <2>4
<1> QED BY <1>3, <1>4

LEMMA InsertedCells ==
  ASSUME NEW b, Buffer(b), NEW x \in Seq(Letters), Room(b, x), NEW at \in Nat
  PROVE  /\ Total(b) + Len(x) + 1 \in Places
         /\ Buffer(Inserted(b, at, x))
         /\ MakesRoom(b, Inserted(b, at, x), x, InsertPos(b, at), Total(b), Len(x))
<1>1. Tabled(b) BY TableIs
<1> DEFINE c == Inserted(b, at, x)
<1>2. PICK n \in Nat : n = Len(x) OBVIOUS
<1>3. PICK end \in Nat : end = Total(b) BY <1>1, InsertPosIs
<1>4. PICK pos \in Nat : pos = InsertPos(b, at) /\ pos <= end BY <1>1, <1>3, InsertPosIs
<1>5. end + n + 1 \in Places
  <2>1. end + n + 1 < EditMaxSize BY <1>2, <1>3 DEF Room
  <2> QED BY <2>1, EditConstants DEF Places
<1>6. c = [i \in Places |-> IF i < pos \/ i > end + n THEN b[i]
                            ELSE IF i < pos + n THEN x[i - pos + 1]
                            ELSE IF i = pos + n THEN NL ELSE b[i - n - 1]]
  BY <1>2, <1>3, <1>4 DEF Inserted, InsertPos
<1> HIDE DEF c
<1>7. \A i \in 0 .. end + n + 1 : i \in Places BY <1>5, EditConstants DEF Places
<1>8. \A i \in Places : i < pos \/ i > end + n => c[i] = b[i] BY <1>6
<1>9. ASSUME NEW j \in 1 .. n PROVE c[pos + j - 1] = x[j]
  <2>1. pos + j - 1 \in 0 .. end + n + 1 /\ ~(pos + j - 1 < pos) /\ ~(pos + j - 1 > end + n)
        /\ pos + j - 1 < pos + n /\ (pos + j - 1) - pos + 1 = j
    BY <1>4
  <2>2. pos + j - 1 \in Places BY <1>7, <2>1
  <2>3. PICK i \in Places : i = pos + j - 1 BY <2>2
  <2> QED BY <1>6, <2>1, <2>3
<1>10. c[pos + n] = NL
  <2>1. pos + n \in 0 .. end + n + 1 /\ ~(pos + n < pos) /\ ~(pos + n > end + n) /\ ~(pos + n < pos + n)
    BY <1>4
  <2>2. pos + n \in Places BY <1>7, <2>1
  <2> QED BY <1>6, <2>1, <2>2
<1>11. ASSUME NEW i \in pos .. end - 1 PROVE c[i + (n + 1)] = b[i]
  <2>1. PICK k \in 0 .. end + n + 1 : k = i + (n + 1) OBVIOUS
  <2>2. ~(k < pos) /\ ~(k > end + n) /\ ~(k < pos + n) /\ k # pos + n /\ k - n - 1 = i BY <2>1
  <2>3. k \in Places BY <1>7, <2>1
  <2>4. c[k] = b[k - n - 1] BY <1>6, <2>2, <2>3
  <2> QED BY <2>1, <2>2, <2>4
<1>12. ASSUME NEW i \in Places PROVE c[i] \in Chars
  <2>1. i \in Nat BY EditConstants
  <2>2. CASE i < pos \/ i > end + n BY <1>8, <2>2 DEF Buffer
  <2>3. CASE ~(i < pos \/ i > end + n) /\ i < pos + n
    <3>1. i - pos + 1 \in 1 .. n BY <2>1, <2>3
    <3>2. x[i - pos + 1] \in Letters BY <1>2, <3>1
    <3>3. c[i] = x[i - pos + 1] BY <1>6, <2>3
    <3> QED BY <3>2, <3>3 DEF Chars
  <2>4. CASE ~(i < pos \/ i > end + n) /\ i = pos + n BY <1>10, <2>4 DEF Chars
  <2>5. CASE ~(i < pos \/ i > end + n) /\ ~(i < pos + n) /\ i # pos + n
    <3>1. i - n - 1 \in 0 .. end + n + 1 BY <2>1, <2>5
    <3>2. i - n - 1 \in Places BY <1>7, <3>1
    <3>3. c[i] = b[i - n - 1] BY <1>6, <2>5
    <3> QED BY <3>2, <3>3 DEF Buffer
  <2> QED BY <2>2, <2>3, <2>4, <2>5
<1>13. Buffer(c)
  <2>1. c \in [Places -> Chars] BY <1>6, <1>12
  <2>2. EditMaxSize - 1 > end + n /\ EditMaxSize - 1 \in Places BY <1>5, EditConstants DEF Places
  <2>3. c[EditMaxSize - 1] = b[EditMaxSize - 1] BY <1>8, <2>2
  <2> QED BY <2>1, <2>3 DEF Buffer
<1>14. MakesRoom(b, c, x, pos, end, n) BY <1>8, <1>9, <1>10, <1>11 DEF MakesRoom
<1> QED BY <1>2, <1>3, <1>4, <1>5, <1>13, <1>14 DEF c

(* A sequence with one more in it.                                         *)
OneIn(t, u, p, x) ==
  /\ Len(u) = Len(t) + 1
  /\ \A j \in 1 .. p - 1 : u[j] = t[j]
  /\ u[p] = x
  /\ \A j \in p .. Len(t) : u[j + 1] = t[j]

LEMMA OneMoreLaid ==
  ASSUME NEW b, Buffer(b), NEW t, NEW o, Layout(b, t, o), NEW p \in 1 .. Len(t) + 1,
         NEW x \in Seq(Letters), NEW u \in Seq(Seq(Letters)), OneIn(t, u, p, x),
         NEW c, MakesRoom(b, c, x, o[p], o[Len(t) + 1], Len(x)),
         Len(t) < EditMaxLines - 1, o[Len(t) + 1] + Len(x) + 1 \in Places,
         b[o[Len(t) + 1] + Len(x) + 1] = NUL
  PROVE  \E q : Layout(c, u, q)
<1>1. PICK l \in Nat : l = Len(t) BY LayoutClimb
<1>2. PICK n \in Nat : n = Len(x) OBVIOUS
<1>3. PICK end \in Nat : end = o[l + 1]
  <2>1. l + 1 \in 1 .. l + 1 BY <1>1
  <2> QED BY <1>1, <2>1, LayoutClimb
<1>4. PICK pos \in Nat : pos = o[p] /\ pos <= end
  <2>1. l + 1 \in 1 .. l + 1 /\ p <= l + 1 BY <1>1
  <2> QED BY <1>1, <1>3, <2>1, LayoutClimb
<1>5. MakesRoom(b, c, x, pos, end, n) BY <1>1, <1>2, <1>3, <1>4
<1>6. end + n + 1 \in Places /\ b[end + n + 1] = NUL BY <1>1, <1>2, <1>3
<1>7. /\ \A k \in 1 .. l + 1 : o[k] \in Nat /\ o[k] \in Places
      /\ \A k, j \in 1 .. l + 1 : k <= j => o[k] <= o[j]
  BY <1>1, LayoutClimb DEF Layout
<1>8. \A k \in 1 .. l : Laid(b, t, o, k) /\ t[k] \in Seq(Letters) BY <1>1 DEF Layout
<1>9. p \in Nat /\ p >= 1 /\ p <= l + 1 BY <1>1
<1> DEFINE q == [j \in 1 .. (l + 1) + 1 |-> IF j <= p THEN o[j] ELSE o[j - 1] + (n + 1)]
<1>10. \A j \in 1 .. (l + 1) + 1 : j <= p => q[j] = o[j] OBVIOUS
<1>11. ASSUME NEW j \in 1 .. l + 1, j >= p PROVE q[j + 1] = o[j] + (n + 1)
  <2>1. j + 1 \in 1 .. (l + 1) + 1 /\ ~(j + 1 <= p) /\ (j + 1) - 1 = j BY <1>9, <1>11
  <2> QED BY <2>1
<1>12. \A j \in 1 .. (l + 1) + 1 : q[j] \in Places
  <2> SUFFICES ASSUME NEW j \in 1 .. (l + 1) + 1 PROVE q[j] \in Places OBVIOUS
  <2>1. CASE j <= p
    <3>1. j \in 1 .. l + 1 BY <1>9, <2>1
    <3> QED BY <1>7, <1>10, <2>1, <3>1
  <2>2. CASE ~(j <= p)
    <3>1. j - 1 \in 1 .. l + 1 /\ j - 1 >= p /\ (j - 1) + 1 = j /\ j - 1 <= l + 1 BY <1>9, <2>2
    <3>2. PICK i \in Nat : i = o[j - 1] BY <1>7, <3>1
    <3>3. q[j] = i + (n + 1) BY <1>11, <3>1, <3>2
    <3>4. i <= end
      <4>1. l + 1 \in 1 .. l + 1 BY <1>1
      <4> QED BY <1>3, <1>7, <3>1, <3>2, <4>1
    <3>5. i + (n + 1) \in Places BY <1>6, <3>4, EditConstants DEF Places
    <3> QED BY <3>3, <3>5
  <2> QED BY <2>1, <2>2
<1>13. q \in [1 .. (l + 1) + 1 -> Places] BY <1>12
<1> HIDE DEF q
<1>14. ASSUME NEW j \in 1 .. l + 1 PROVE Laid(c, u, q, j)
  <2>1. CASE j < p
    <3>1. j \in 1 .. l /\ j \in 1 .. l + 1 /\ j + 1 \in 1 .. l + 1 /\ j \in 1 .. p - 1 /\ j + 1 <= p /\ j <= p
      BY <1>9, <2>1
    <3>2. PICK i, z \in Nat : i = o[j] /\ z = o[j + 1] BY <1>7, <3>1
    <3>3. z <= pos BY <1>4, <1>7, <1>9, <1>1, <3>1, <3>2
    <3>4. q[j] = i + 0 /\ q[j + 1] = z + 0
      <4>1. j + 1 \in 1 .. (l + 1) + 1 /\ j \in 1 .. (l + 1) + 1 BY <3>1
      <4> QED BY <1>10, <3>1, <3>2, <4>1
    <3>5. ASSUME NEW a \in i .. z - 1 PROVE c[a + 0] = b[a]
      <4>1. a < pos /\ a \in Nat /\ a + 0 = a BY <3>3
      <4>2. a \in Places BY <1>4, <1>6, <4>1, EditConstants DEF Places
      <4> QED BY <1>5, <4>1, <4>2 DEF MakesRoom
    <3>6. u[j] = t[j] BY <3>1 DEF OneIn
    <3>7. Carried(b, c, t, u, o, q, j, j, 0) BY <1>8, <3>1, <3>2, <3>4, <3>5, <3>6 DEF Carried
    <3> QED BY <3>7, CarriedLaid
  <2>2. CASE j = p
    <3>1. q[p] = pos /\ q[p + 1] = pos + (n + 1)
      <4>1. p \in 1 .. l + 1 /\ p \in 1 .. (l + 1) + 1 /\ p >= p /\ p <= p BY <1>9
      <4> QED BY <1>4, <1>10, <1>11, <4>1
    <3>2. u[p] = x BY DEF OneIn
    <3>3. c[pos + n] = NL /\ \A i \in 1 .. n : c[pos + i - 1] = x[i] BY <1>5 DEF MakesRoom
    <3>4. pos + (n + 1) = pos + n + 1 /\ (pos + (n + 1)) - 1 = pos + n OBVIOUS
    <3> QED BY <1>2, <2>2, <3>1, <3>2, <3>3, <3>4 DEF Laid
  <2>3. CASE j > p
    <3>1. PICK k \in 1 .. l : k = j - 1 /\ k + 1 = j /\ k >= p /\ k + 1 >= p BY <1>9, <2>3
    <3>2. k \in 1 .. l + 1 /\ k + 1 \in 1 .. l + 1 /\ k \in p .. l BY <3>1
    <3>3. PICK i, z \in Nat : i = o[k] /\ z = o[k + 1] BY <1>7, <3>2
    <3>4. pos <= i /\ z <= end
      <4>1. p \in 1 .. l + 1 /\ l + 1 \in 1 .. l + 1 /\ k + 1 <= l + 1 /\ p <= k BY <1>9, <3>1
      <4> QED BY <1>3, <1>4, <1>7, <3>2, <3>3, <4>1
    <3>5. q[j] = i + (n + 1) /\ q[j + 1] = z + (n + 1) BY <1>11, <3>1, <3>2, <3>3
    <3>6. ASSUME NEW a \in i .. z - 1 PROVE c[a + (n + 1)] = b[a]
      <4>1. a \in pos .. end - 1 BY <3>4
      <4> QED BY <1>5, <4>1 DEF MakesRoom
    <3>7. u[j] = t[k] BY <1>1, <3>1, <3>2 DEF OneIn
    <3>8. n + 1 \in Int OBVIOUS
    <3>9. Carried(b, c, t, u, o, q, k, j, n + 1) BY <1>8, <3>3, <3>5, <3>6, <3>7, <3>8 DEF Carried
    <3> QED BY <3>9, CarriedLaid
  <2> QED BY <1>9, <2>1, <2>2, <2>3
<1>15. q[1] = 0
  <2>1. 1 \in 1 .. (l + 1) + 1 /\ 1 <= p BY <1>9
  <2> QED BY <1>10, <2>1 DEF Layout
<1>16. c[q[(l + 1) + 1]] = NUL
  <2>1. l + 1 \in 1 .. l + 1 /\ l + 1 >= p BY <1>9
  <2>2. q[(l + 1) + 1] = end + n + 1
    <3>1. q[(l + 1) + 1] = end + (n + 1) BY <1>3, <1>11, <2>1
    <3>2. end + (n + 1) = end + n + 1 OBVIOUS
    <3> QED BY <3>1, <3>2
  <2>3. end + n + 1 > end + n OBVIOUS
  <2> QED BY <1>5, <1>6, <2>2, <2>3 DEF MakesRoom
<1>17. Len(u) = l + 1 /\ l + 1 \in 1 .. EditMaxLines - 1
  <2>1. Len(u) = l + 1 BY <1>1 DEF OneIn
  <2>2. l + 1 \in 1 .. EditMaxLines - 1 BY <1>1, EditConstants
  <2> QED BY <2>1, <2>2
<1>18. Layout(c, u, q) BY <1>13, <1>14, <1>15, <1>16, <1>17 DEF Layout
<1> QED BY <1>18

LEMMA InsertAtIs ==
  ASSUME NEW S, NEW s \in Seq(S), NEW p \in 1 .. Len(s) + 1, NEW x \in S
  PROVE  InsertAt(s, p, x) \in Seq(S) /\ OneIn(s, InsertAt(s, p, x), p, x)
<1> DEFINE f == SubSeq(s, 1, p - 1)
           g == SubSeq(s, p, Len(s))
           u == (f \o <<x>>) \o g
<1>1. PICK l \in Nat : l = Len(s) OBVIOUS
<1>2. p \in Int /\ p >= 1 /\ p <= l + 1 BY <1>1
<1>3. f \in Seq(S) /\ Len(f) = p - 1 /\ \A i \in 1 .. p - 1 : f[i] = s[i]
  <2>1. \A i \in 1 .. p - 1 : s[i] \in S BY <1>1, <1>2
  <2>2. 1 \in Int /\ p - 1 \in Int BY <1>2
  <2>3. /\ f \in Seq(S) /\ Len(f) = IF 1 <= p - 1 THEN (p - 1) - 1 + 1 ELSE 0
        /\ \A i \in 1 .. (p - 1) - 1 + 1 : f[i] = s[1 + i - 1]
    BY <2>1, <2>2, SubSeqProperties
  <2>4. (p - 1) - 1 + 1 = p - 1 /\ \A i \in 1 .. p - 1 : 1 + i - 1 = i BY <1>2
  <2> HIDE DEF f
  <2> QED BY <1>2, <2>3, <2>4
<1>4. g \in Seq(S) /\ Len(g) = l - p + 1 /\ \A i \in 1 .. l - p + 1 : g[i] = s[p + i - 1]
  <2>1. \A i \in p .. l : s[i] \in S BY <1>1, <1>2
  <2>2. l \in Int BY <1>1
  <2>3. /\ SubSeq(s, p, l) \in Seq(S) /\ Len(SubSeq(s, p, l)) = IF p <= l THEN l - p + 1 ELSE 0
        /\ \A i \in 1 .. l - p + 1 : SubSeq(s, p, l)[i] = s[p + i - 1]
    BY <1>2, <2>1, <2>2, SubSeqProperties
  <2>4. g = SubSeq(s, p, l) BY <1>1
  <2> HIDE DEF g
  <2> QED BY <1>1, <1>2, <2>3, <2>4
<1>5. InsertAt(s, p, x) = u BY DEF InsertAt
<1> HIDE DEF f, g
<1>6. /\ f \o <<x>> \in Seq(S) /\ Len(f \o <<x>>) = p /\ (f \o <<x>>)[p] = x
      /\ \A i \in 1 .. p - 1 : (f \o <<x>>)[i] = s[i]
  <2>1. <<x>> \in Seq(S) /\ Len(<<x>>) = 1 /\ <<x>>[1] = x OBVIOUS
  <2>2. /\ f \o <<x>> \in Seq(S) /\ Len(f \o <<x>>) = Len(f) + Len(<<x>>)
        /\ \A i \in 1 .. Len(f) + Len(<<x>>) :
             (f \o <<x>>)[i] = IF i <= Len(f) THEN f[i] ELSE <<x>>[i - Len(f)]
    BY <1>3, <2>1, ConcatProperties
  <2>3. (p - 1) + 1 = p /\ p - (p - 1) = 1 /\ ~(p <= p - 1) /\ p \in 1 .. p BY <1>2
  <2>4. \A i \in 1 .. p - 1 : i <= p - 1 /\ i \in 1 .. p BY <1>2
  <2> HIDE DEF u
  <2>5. (f \o <<x>>)[p] = x BY <1>3, <2>1, <2>2, <2>3
  <2> QED BY <1>3, <2>1, <2>2, <2>3, <2>4, <2>5
<1>7. /\ u \in Seq(S) /\ Len(u) = l + 1
      /\ \A i \in 1 .. p : u[i] = (f \o <<x>>)[i]
      /\ \A i \in p + 1 .. l + 1 : u[i] = g[i - p]
  <2> DEFINE v == f \o <<x>>
  <2>1. v \in Seq(S) /\ Len(v) = p BY <1>6
  <2>2. u = v \o g OBVIOUS
  <2> HIDE DEF v, u
  <2>3. /\ v \o g \in Seq(S) /\ Len(v \o g) = Len(v) + Len(g)
        /\ \A i \in 1 .. Len(v) + Len(g) :
             (v \o g)[i] = IF i <= Len(v) THEN v[i] ELSE g[i - Len(v)]
    BY <1>4, <2>1, ConcatProperties
  <2>4. p + (l - p + 1) = l + 1 BY <1>2
  <2>5. \A i \in 1 .. p : i <= p /\ i \in 1 .. l + 1 BY <1>2
  <2>6. \A i \in p + 1 .. l + 1 : ~(i <= p) /\ i \in 1 .. l + 1 BY <1>2
  <2>7. \A i \in 1 .. l + 1 : u[i] = IF i <= p THEN v[i] ELSE g[i - p] BY <1>4, <2>1, <2>2, <2>3, <2>4
  <2>8. u \in Seq(S) /\ Len(u) = l + 1 BY <1>4, <2>1, <2>2, <2>3, <2>4
  <2>9. \A i \in 1 .. p : u[i] = v[i] BY <2>5, <2>7
  <2>10. \A i \in p + 1 .. l + 1 : u[i] = g[i - p] BY <2>6, <2>7
  <2> QED BY <2>8, <2>9, <2>10 DEF v
<1> HIDE DEF u
<1>8. u[p] = x
  <2>1. p \in 1 .. p BY <1>2
  <2> QED BY <1>6, <1>7, <2>1
<1>9. \A i \in 1 .. p - 1 : u[i] = s[i]
  <2>1. \A i \in 1 .. p - 1 : i \in 1 .. p BY <1>2
  <2> QED BY <1>6, <1>7, <2>1
<1>10. ASSUME NEW i \in p .. l PROVE u[i + 1] = s[i]
  <2>1. i + 1 \in p + 1 .. l + 1 /\ (i + 1) - p \in 1 .. l - p + 1 /\ p + ((i + 1) - p) - 1 = i BY <1>2
  <2>2. u[i + 1] = g[(i + 1) - p] BY <1>7, <2>1
  <2> QED BY <1>4, <2>1, <2>2
<1> QED BY <1>1, <1>5, <1>7, <1>8, <1>9, <1>10 DEF OneIn

(* A sequence with one less in it.                                         *)
OneOut(t, u, k) ==
  /\ Len(u) = Len(t) - 1
  /\ \A j \in 1 .. k - 1 : u[j] = t[j]
  /\ \A j \in k .. Len(t) - 1 : u[j] = t[j + 1]

LEMMA RemoveAtIs ==
  ASSUME NEW S, NEW s \in Seq(S), NEW p \in 1 .. Len(s)
  PROVE  RemoveAt(s, p) \in Seq(S) /\ OneOut(s, RemoveAt(s, p), p)
<1> DEFINE f == SubSeq(s, 1, p - 1)
           g == SubSeq(s, p + 1, Len(s))
           u == f \o g
<1>1. PICK l \in Nat : l = Len(s) OBVIOUS
<1>2. p \in Int /\ p >= 1 /\ p <= l BY <1>1
<1>3. f \in Seq(S) /\ Len(f) = p - 1 /\ \A i \in 1 .. p - 1 : f[i] = s[i]
  <2>1. \A i \in 1 .. p - 1 : s[i] \in S BY <1>1, <1>2
  <2>2. 1 \in Int /\ p - 1 \in Int BY <1>2
  <2>3. /\ f \in Seq(S) /\ Len(f) = IF 1 <= p - 1 THEN (p - 1) - 1 + 1 ELSE 0
        /\ \A i \in 1 .. (p - 1) - 1 + 1 : f[i] = s[1 + i - 1]
    BY <2>1, <2>2, SubSeqProperties
  <2>4. (p - 1) - 1 + 1 = p - 1 /\ \A i \in 1 .. p - 1 : 1 + i - 1 = i BY <1>2
  <2> HIDE DEF f
  <2> QED BY <1>2, <2>3, <2>4
<1>4. g \in Seq(S) /\ Len(g) = l - p /\ \A i \in 1 .. l - p : g[i] = s[p + i]
  <2>1. \A i \in p + 1 .. l : s[i] \in S BY <1>1, <1>2
  <2>2. l \in Int /\ p + 1 \in Int BY <1>1, <1>2
  <2>3. /\ SubSeq(s, p + 1, l) \in Seq(S)
        /\ Len(SubSeq(s, p + 1, l)) = IF p + 1 <= l THEN l - (p + 1) + 1 ELSE 0
        /\ \A i \in 1 .. l - (p + 1) + 1 : SubSeq(s, p + 1, l)[i] = s[(p + 1) + i - 1]
    BY <2>1, <2>2, SubSeqProperties
  <2>4. g = SubSeq(s, p + 1, l) BY <1>1
  <2>5. l - (p + 1) + 1 = l - p /\ \A i \in 1 .. l - p : (p + 1) + i - 1 = p + i BY <1>2
  <2> HIDE DEF g
  <2> QED BY <1>1, <1>2, <2>3, <2>4, <2>5
<1>5. RemoveAt(s, p) = u BY DEF RemoveAt
<1> HIDE DEF f, g
<1>6. /\ f \o g \in Seq(S) /\ Len(f \o g) = Len(f) + Len(g)
      /\ \A i \in 1 .. Len(f) + Len(g) : (f \o g)[i] = IF i <= Len(f) THEN f[i] ELSE g[i - Len(f)]
  BY <1>3, <1>4, ConcatProperties
<1>7. (p - 1) + (l - p) = l - 1 BY <1>2
<1>8. u \in Seq(S) /\ Len(u) = l - 1 BY <1>3, <1>4, <1>6, <1>7
<1>9. \A i \in 1 .. l - 1 : u[i] = IF i <= p - 1 THEN f[i] ELSE g[i - (p - 1)]
  BY <1>3, <1>4, <1>6, <1>7
<1> HIDE DEF u
<1>10. ASSUME NEW i \in 1 .. p - 1 PROVE u[i] = s[i]
  <2>1. i \in 1 .. l - 1 /\ i <= p - 1 BY <1>2
  <2> QED BY <1>3, <1>9, <2>1
<1>11. ASSUME NEW i \in p .. l - 1 PROVE u[i] = s[i + 1]
  <2>1. i \in 1 .. l - 1 /\ ~(i <= p - 1) /\ i - (p - 1) \in 1 .. l - p /\ p + (i - (p - 1)) = i + 1
    BY <1>2
  <2>2. u[i] = g[i - (p - 1)] BY <1>9, <2>1
  <2> QED BY <1>4, <2>1, <2>2
<1> QED BY <1>1, <1>5, <1>8, <1>10, <1>11 DEF OneOut

(* What is behind a line moves up to where the line began, and a NUL       *)
(* follows.                                                                *)
Closes(b, c, start, d, total) ==
  /\ \A i \in Places : i < start \/ i > total - d => c[i] = b[i]
  /\ c[total - d] = NUL
  /\ \A i \in start + d .. total - 1 : c[i - d] = b[i]

LEMMA DeletedCells ==
  ASSUME NEW b, Buffer(b), NEW k \in 1 .. Len(Offs(b))
  PROVE  /\ Buffer(Deleted(b, k))
         /\ Len(Offs(b)) = 1 => Deleted(b, k)[0] = NL /\ Deleted(b, k)[1] = NUL
         /\ Len(Offs(b)) # 1 =>
              Closes(b, Deleted(b, k), Offs(b)[k], Beyond(b, k) - Offs(b)[k], Total(b))
<1>1. Tabled(b) BY TableIs
<1>2. PICK start \in Nat : start = Offs(b)[k] BY <1>1, EditConstants DEF Tabled
<1>3. PICK end \in Nat : end = Beyond(b, k) BY <1>1, EditConstants DEF Tabled
<1>4. PICK total \in Places : total = Total(b) BY <1>1 DEF Tabled
<1>5. total \in Nat /\ start <= end /\ end <= total
  BY <1>1, <1>2, <1>3, <1>4, EditConstants DEF Tabled
<1>6. PICK d \in Nat : d = end - start BY <1>5
<1>7. total - d \in Nat /\ total - d <= total /\ start <= total - d BY <1>5, <1>6
<1>8. \A i \in 0 .. total : i \in Places BY <1>4, <1>5, EditConstants DEF Places
<1> DEFINE c == Deleted(b, k)
<1>9. CASE Len(Offs(b)) = 1
  <2>1. c = [b EXCEPT ![0] = NL, ![1] = NUL] BY <1>9 DEF Deleted
  <2> HIDE DEF c
  <2>2. 0 \in Places /\ 1 \in Places /\ 0 # 1 BY EditConstants DEF Places
  <2>3. b \in [Places -> Chars] BY DEF Buffer
  <2>4. c[0] = NL /\ c[1] = NUL BY <2>1, <2>2, <2>3
  <2>5. c \in [Places -> Chars]
    <3>1. NL \in Chars /\ NUL \in Chars BY DEF Chars
    <3> QED BY <2>1, <2>2, <2>3, <3>1
  <2>6. c[EditMaxSize - 1] = NUL
    <3>1. CASE EditMaxSize - 1 = 1 BY <2>4, <3>1
    <3>2. CASE EditMaxSize - 1 # 1
      <4>1. EditMaxSize - 1 # 0 BY EditConstants
      <4>2. c[EditMaxSize - 1] = b[EditMaxSize - 1] BY <2>1, <2>3, <3>2, <4>1, EditConstants
      <4> QED BY <4>2 DEF Buffer
    <3> QED BY <3>1, <3>2
  <2>7. Buffer(c) BY <2>5, <2>6 DEF Buffer
  <2> QED BY <1>9, <2>4, <2>7 DEF c
<1>10. CASE Len(Offs(b)) # 1
  <2>1. c = [i \in Places |-> IF i < start \/ i > total - d THEN b[i]
                             ELSE IF i = total - d THEN NUL ELSE b[i + d]]
    BY <1>2, <1>3, <1>4, <1>6, <1>10 DEF Deleted
  <2> HIDE DEF c
  <2>2. PICK z \in Nat : z = total - d BY <1>7
  <2>3. c = [i \in Places |-> IF i < start \/ i > z THEN b[i] ELSE IF i = z THEN NUL ELSE b[i + d]]
    BY <2>1, <2>2
  <2>4. \A i \in Places : i < start \/ i > z => c[i] = b[i] BY <2>3
  <2>5. c[z] = NUL
    <3>1. z \in Places BY <1>7, <1>8, <2>2
    <3>2. ~(z < start) /\ ~(z > z) BY <1>7, <2>2
    <3> QED BY <2>3, <3>1, <3>2
  <2>6. ASSUME NEW i \in start + d .. total - 1 PROVE c[i - d] = b[i]
    <3>1. PICK j \in 0 .. total : j = i - d /\ j + d = i BY <1>5, <1>6
    <3>2. ~(j < start) /\ ~(j > z) /\ j # z BY <1>5, <1>6, <2>2, <3>1
    <3>3. c[j] = b[j + d] BY <1>8, <2>3, <3>1, <3>2
    <3> QED BY <3>1, <3>3
  <2>7. Closes(b, c, start, d, total) BY <2>2, <2>4, <2>5, <2>6 DEF Closes
  <2>8. ASSUME NEW i \in Places PROVE c[i] \in Chars
    <3>1. i \in Nat BY EditConstants
    <3>2. CASE i < start \/ i > z BY <2>4, <3>2 DEF Buffer
    <3>3. CASE i = z BY <2>5, <3>3 DEF Chars
    <3>4. CASE ~(i < start \/ i > z) /\ i # z
      <4>1. i + d \in 0 .. total BY <2>2, <3>1, <3>4
      <4>2. i + d \in Places BY <1>8, <4>1
      <4>3. c[i] = b[i + d] BY <2>3, <3>4
      <4> QED BY <4>2, <4>3 DEF Buffer
    <3> QED BY <3>2, <3>3, <3>4
  <2>9. c[EditMaxSize - 1] = NUL
    <3>1. CASE z = EditMaxSize - 1 BY <2>5, <3>1
    <3>2. CASE z # EditMaxSize - 1
      <4>1. EditMaxSize - 1 > z BY <1>4, <1>7, <2>2, <3>2, EditConstants DEF Places
      <4>2. c[EditMaxSize - 1] = b[EditMaxSize - 1] BY <2>4, <4>1, EditConstants
      <4> QED BY <4>2 DEF Buffer
    <3> QED BY <3>1, <3>2
  <2>10. Buffer(c) BY <2>3, <2>8, <2>9 DEF Buffer
  <2> QED BY <1>2, <1>3, <1>4, <1>6, <1>10, <2>7, <2>10 DEF c
<1> QED BY <1>9, <1>10

LEMMA OneLessLaid ==
  ASSUME NEW b, Buffer(b), NEW t, NEW o, Layout(b, t, o), NEW k \in 1 .. Len(t), Len(t) # 1,
         NEW u \in Seq(Seq(Letters)), OneOut(t, u, k),
         NEW c, Closes(b, c, o[k], o[k + 1] - o[k], o[Len(t) + 1])
  PROVE  \E q : Layout(c, u, q)
<1>1. PICK l \in Nat : l = Len(t) BY LayoutClimb
<1>2. k \in Nat /\ k >= 1 /\ k <= l /\ l > 1 BY <1>1
<1>3. /\ \A j \in 1 .. l + 1 : o[j] \in Nat /\ o[j] \in Places
      /\ \A i, j \in 1 .. l + 1 : i <= j => o[i] <= o[j]
  BY <1>1, LayoutClimb DEF Layout
<1>4. \A j \in 1 .. l : Laid(b, t, o, j) /\ t[j] \in Seq(Letters) BY <1>1 DEF Layout
<1>5. k \in 1 .. l + 1 /\ k + 1 \in 1 .. l + 1 /\ l + 1 \in 1 .. l + 1 /\ k <= k + 1 /\ k + 1 <= l + 1
  BY <1>2
<1>6. PICK start, total \in Nat : start = o[k] /\ total = o[l + 1] BY <1>3, <1>5
<1>7. PICK d \in Nat : d = o[k + 1] - o[k] /\ o[k + 1] = start + d /\ start + d <= total
  <2>1. PICK e \in Nat : e = o[k + 1] BY <1>3, <1>5
  <2>2. start <= e /\ e <= total BY <1>3, <1>5, <1>6, <2>1
  <2>3. e - start \in Nat /\ start + (e - start) = e BY <2>2
  <2> QED BY <1>6, <2>1, <2>2, <2>3
<1>8. Closes(b, c, start, d, total) BY <1>1, <1>6, <1>7
<1>9. total \in Places BY <1>3, <1>5, <1>6
<1>10. \A i \in 0 .. total : i \in Places BY <1>9, EditConstants DEF Places
<1> DEFINE q == [j \in 1 .. (l - 1) + 1 |-> IF j <= k THEN o[j] ELSE o[j + 1] - d]
<1>11. (l - 1) + 1 = l /\ l - 1 \in Nat BY <1>2
<1>12. \A j \in 1 .. l : j <= k => q[j] = o[j] BY <1>11
<1>13. ASSUME NEW j \in 1 .. l, j >= k PROVE q[j] = o[j + 1] - d
  <2>1. CASE j = k
    <3>1. q[k] = start
      <4>1. k \in 1 .. l /\ k <= k BY <1>2
      <4> QED BY <1>6, <1>12, <4>1
    <3>2. (start + d) - d = start OBVIOUS
    <3> QED BY <1>7, <2>1, <3>1, <3>2
  <2>2. CASE j # k
    <3>1. ~(j <= k) BY <1>2, <1>13, <2>2
    <3> QED BY <1>11, <3>1
  <2> QED BY <2>1, <2>2
<1>14. ASSUME NEW j \in 1 .. l PROVE q[j] \in Places
  <2>1. CASE j <= k
    <3>1. j \in 1 .. l + 1 BY <1>2
    <3> QED BY <1>3, <1>12, <2>1, <3>1
  <2>2. CASE ~(j <= k)
    <3>1. j + 1 \in 1 .. l + 1 /\ k + 1 <= j + 1 /\ j + 1 <= l + 1 /\ j >= k BY <1>2, <2>2
    <3>2. PICK i \in Nat : i = o[j + 1] BY <1>3, <3>1
    <3>3. start + d <= i /\ i <= total BY <1>3, <1>5, <1>6, <1>7, <3>1, <3>2
    <3>4. i - d \in 0 .. total BY <3>3
    <3> QED BY <1>10, <1>13, <3>1, <3>2, <3>4
  <2> QED BY <2>1, <2>2
<1>15. q \in [1 .. (l - 1) + 1 -> Places] BY <1>11, <1>14
<1> HIDE DEF q
<1>16. ASSUME NEW j \in 1 .. l - 1 PROVE Laid(c, u, q, j)
  <2>1. j \in 1 .. l /\ j + 1 \in 1 .. l BY <1>2
  <2>2. CASE j < k
    <3>1. j \in 1 .. k - 1 /\ j <= k /\ j + 1 <= k /\ j \in 1 .. l + 1 /\ j + 1 \in 1 .. l + 1
      BY <1>2, <2>2
    <3>2. PICK i, z \in Nat : i = o[j] /\ z = o[j + 1] BY <1>3, <3>1
    <3>3. z <= start BY <1>3, <1>5, <1>6, <3>1, <3>2
    <3>4. q[j] = i + 0 /\ q[j + 1] = z + 0 BY <1>12, <2>1, <3>1, <3>2
    <3>5. ASSUME NEW a \in i .. z - 1 PROVE c[a + 0] = b[a]
      <4>1. a < start /\ a \in 0 .. total /\ a + 0 = a BY <1>7, <3>3
      <4> QED BY <1>8, <1>10, <4>1 DEF Closes
    <3>6. u[j] = t[j] BY <3>1 DEF OneOut
    <3>7. Carried(b, c, t, u, o, q, j, j, 0) BY <1>4, <2>1, <3>2, <3>4, <3>5, <3>6 DEF Carried
    <3> QED BY <3>7, CarriedLaid
  <2>3. CASE ~(j < k)
    <3>1. PICK m \in 1 .. l : m = j + 1 /\ j \in k .. l - 1 BY <1>2, <2>1, <2>3
    <3>2. m \in 1 .. l + 1 /\ m + 1 \in 1 .. l + 1 /\ k + 1 <= m /\ m + 1 <= l + 1 /\ m >= k
      BY <1>2, <3>1
    <3>3. PICK i, z \in Nat : i = o[m] /\ z = o[m + 1] BY <1>3, <3>2
    <3>4. start + d <= i /\ z <= total BY <1>3, <1>5, <1>6, <1>7, <3>2, <3>3
    <3>5. q[j] = i - d /\ q[j + 1] = z - d BY <1>13, <2>1, <2>3, <3>1, <3>2, <3>3, <1>2
    <3>6. -d \in Int /\ i + (-d) = i - d /\ z + (-d) = z - d OBVIOUS
    <3>7. ASSUME NEW a \in i .. z - 1 PROVE c[a + (-d)] = b[a]
      <4>1. a \in start + d .. total - 1 /\ a + (-d) = a - d BY <3>4
      <4> QED BY <1>8, <4>1 DEF Closes
    <3>8. u[j] = t[m] BY <1>1, <3>1 DEF OneOut
    <3>9. Carried(b, c, t, u, o, q, m, j, -d) BY <1>4, <3>3, <3>5, <3>6, <3>7, <3>8 DEF Carried
    <3> QED BY <3>9, CarriedLaid
  <2> QED BY <2>2, <2>3
<1>17. q[1] = 0
  <2>1. 1 \in 1 .. l /\ 1 <= k BY <1>2
  <2> QED BY <1>12, <2>1 DEF Layout
<1>18. c[q[(l - 1) + 1]] = NUL
  <2>1. l \in 1 .. l /\ l >= k BY <1>2
  <2>2. q[l] = total - d BY <1>6, <1>13, <2>1
  <2> QED BY <1>8, <1>11, <2>2 DEF Closes
<1>19. Len(u) = l - 1 /\ l - 1 \in 1 .. EditMaxLines - 1
  <2>1. l \in 1 .. EditMaxLines - 1 BY <1>1 DEF Layout
  <2> QED BY <1>1, <1>2, <2>1, EditConstants DEF OneOut
<1>20. Layout(c, u, q) BY <1>15, <1>16, <1>17, <1>18, <1>19 DEF Layout
<1> QED BY <1>20

LEMMA EmptyLaid ==
  ASSUME NEW c, c[0] = NL, c[1] = NUL
  PROVE  \E q : Layout(c, << <<>> >>, q)
<1> DEFINE q == [j \in 1 .. 2 |-> j - 1]
           t == << <<>> >>
<1>1. <<>> \in Seq(Letters) /\ Len(<<>>) = 0 BY EmptySeq
<1>2. t \in Seq(Seq(Letters)) /\ Len(t) = 1 /\ t[1] = <<>> BY <1>1
<1>3. q[1] = 0 /\ q[2] = 1 OBVIOUS
<1>4. q \in [1 .. 2 -> Places]
  <2>1. 0 \in Places /\ 1 \in Places BY EditConstants DEF Places
  <2>2. \A j \in 1 .. 2 : j - 1 = 0 \/ j - 1 = 1 OBVIOUS
  <2> QED BY <2>1, <2>2
<1>5. 1 \in 1 .. EditMaxLines - 1 BY EditConstants
<1> HIDE DEF q, t
<1>6. Laid(c, t, q, 1)
  <2>1. 1 + 1 = 2 /\ 1 - 1 = 0 /\ 0 + 0 + 1 = 1 /\ 1 .. 0 = {} OBVIOUS
  <2> QED BY <1>1, <1>2, <1>3, <2>1 DEF Laid
<1>7. \A k \in 1 .. 1 : k = 1 OBVIOUS
<1>8. 1 + 1 = 2 OBVIOUS
<1>9. Layout(c, t, q) BY <1>2, <1>3, <1>4, <1>5, <1>6, <1>7, <1>8 DEF Layout
<1> QED BY <1>9 DEF t

(* What is left of the lines when line k is deleted.                       *)
Rest(t, k) == IF Len(t) = 1 THEN << <<>> >> ELSE RemoveAt(t, k)

LEMMA DeletedLaid ==
  ASSUME NEW b, Buffer(b), NEW t, NEW o, Layout(b, t, o), NEW k \in 1 .. Len(t)
  PROVE  \E q : Layout(Deleted(b, k), Rest(t, k), q)
<1>1. /\ Len(Offs(b)) = Len(t) /\ Total(b) = o[Len(t) + 1]
      /\ Offs(b)[k] = o[k] /\ Beyond(b, k) = o[k + 1]
  BY LayoutLines
<1>2. CASE Len(t) = 1
  <2>1. Deleted(b, k)[0] = NL /\ Deleted(b, k)[1] = NUL BY <1>1, <1>2, DeletedCells
  <2> QED BY <1>2, <2>1, EmptyLaid DEF Rest
<1>3. CASE Len(t) # 1
  <2>1. Closes(b, Deleted(b, k), o[k], o[k + 1] - o[k], o[Len(t) + 1]) BY <1>1, <1>3, DeletedCells
  <2>2. t \in Seq(Seq(Letters)) BY DEF Layout
  <2>3. RemoveAt(t, k) \in Seq(Seq(Letters)) /\ OneOut(t, RemoveAt(t, k), k) BY <2>2, RemoveAtIs
  <2>4. \E q : Layout(Deleted(b, k), RemoveAt(t, k), q) BY <1>3, <2>1, <2>3, OneLessLaid
  <2> QED BY <1>3, <2>4 DEF Rest
<1> QED BY <1>2, <1>3

LEMMA InsertedLaid ==
  ASSUME NEW b, Buffer(b), NEW t, NEW o, Layout(b, t, o), NEW x \in Seq(Letters), NEW at \in Nat,
         Room(b, x), ~Spoils(b, x), NEW p \in 1 .. Len(t) + 1, p = (IF at >= Len(t) THEN Len(t) ELSE at) + 1,
         NEW u \in Seq(Seq(Letters)), OneIn(t, u, p, x)
  PROVE  \E q : Layout(Inserted(b, at, x), u, q)
<1>1. /\ Len(Offs(b)) = Len(t) /\ Total(b) = o[Len(t) + 1]
      /\ \A k \in 1 .. Len(t) : Offs(b)[k] = o[k]
  BY LayoutLines
<1>2. PICK l \in Nat : l = Len(t) BY LayoutClimb
<1>3. InsertPos(b, at) = o[p]
  <2>1. CASE at >= l BY <1>1, <1>2, <2>1 DEF InsertPos
  <2>2. CASE ~(at >= l)
    <3>1. at + 1 \in 1 .. l BY <2>2
    <3>2. p = at + 1 BY <1>2, <2>2
    <3> QED BY <1>1, <1>2, <2>2, <3>1, <3>2 DEF InsertPos
  <2> QED BY <2>1, <2>2
<1> DEFINE c == Inserted(b, at, x)
<1>4. /\ Total(b) + Len(x) + 1 \in Places
      /\ MakesRoom(b, c, x, InsertPos(b, at), Total(b), Len(x))
  BY InsertedCells
<1>5. Len(t) < EditMaxLines - 1 BY <1>1 DEF Room
<1>6. b[Total(b) + Len(x) + 1] = NUL BY DEF Spoils
<1> HIDE DEF c
<1>7. MakesRoom(b, c, x, o[p], o[Len(t) + 1], Len(x)) BY <1>1, <1>3, <1>4
<1>8. o[Len(t) + 1] + Len(x) + 1 \in Places /\ b[o[Len(t) + 1] + Len(x) + 1] = NUL BY <1>1, <1>4, <1>6
<1>9. \E q : Layout(c, u, q) BY <1>5, <1>7, <1>8, OneMoreLaid
<1> QED BY <1>9 DEF c

-----------------------------------------------------------------------------
(* Sequences put together, one after the other.                            *)
Joins(seqs, w) ==
  /\ w[0] = <<>>
  /\ \A i \in 1 .. Len(seqs) : w[i] = w[i - 1] \o seqs[i]

Three(C, r, y, s) == r \in Seq(C) /\ y \in Seq(C) /\ s \in Seq(C)

LEMMA Associative ==
  ASSUME NEW C, NEW r, NEW y, NEW s, Three(C, r, y, s)
  PROVE  (r \o y) \o s = r \o (y \o s)
BY ConcatAssociative DEF Three

LEMMA FlattenSeqIs ==
  ASSUME NEW S, NEW seqs \in Seq(Seq(S))
  PROVE  \E w \in [0 .. Len(seqs) -> Seq(S)] : Joins(seqs, w) /\ FlattenSeq(seqs) = w[Len(seqs)]
<1>1. PICK n \in Nat : n = Len(seqs) OBVIOUS
<1>2. \A i \in 1 .. n : seqs[i] \in Seq(S) BY <1>1
<1> DEFINE Is(w, m) == w[0] = <<>> /\ \A i \in 1 .. m : i <= n => w[i] = w[i - 1] \o seqs[i]
           Good == {m \in Nat : \E w \in [0 .. m -> Seq(S)] : Is(w, m)}
<1>3. 0 \in Good
  <2>1. <<>> \in Seq(S) BY EmptySeq
  <2>2. [i \in 0 .. 0 |-> <<>>] \in [0 .. 0 -> Seq(S)] BY <2>1
  <2>3. Is([i \in 0 .. 0 |-> <<>>], 0) OBVIOUS
  <2> QED BY <2>2, <2>3
<1>4. ASSUME NEW m \in Nat, m \in Good PROVE m + 1 \in Good
  <2>1. PICK w \in [0 .. m -> Seq(S)] : Is(w, m) BY <1>4
  <2> DEFINE v == [i \in 0 .. m + 1 |-> IF i <= m THEN w[i] ELSE IF i <= n THEN w[m] \o seqs[i] ELSE <<>>]
  <2>2. ASSUME NEW i \in 0 .. m + 1 PROVE v[i] \in Seq(S)
    <3>1. CASE i <= m
      <4>1. i \in 0 .. m BY <3>1
      <4> QED BY <3>1, <4>1
    <3>2. CASE ~(i <= m) /\ i <= n
      <4>1. m \in 0 .. m /\ i \in 1 .. n BY <3>2
      <4>2. w[m] \in Seq(S) /\ seqs[i] \in Seq(S) BY <1>2, <4>1
      <4>3. w[m] \o seqs[i] \in Seq(S) BY <4>2, ConcatProperties
      <4> QED BY <3>2, <4>3
    <3>3. CASE ~(i <= m) /\ ~(i <= n) BY <3>3, EmptySeq
    <3> QED BY <3>1, <3>2, <3>3
  <2>3. v \in [0 .. m + 1 -> Seq(S)] BY <2>2
  <2>4. v[0] = <<>> BY <2>1
  <2>5. ASSUME NEW i \in 1 .. m + 1, i <= n PROVE v[i] = v[i - 1] \o seqs[i]
    <3>1. CASE i <= m
      <4>1. i - 1 \in 0 .. m + 1 /\ i - 1 <= m /\ i \in 1 .. m BY <3>1
      <4>2. v[i] = w[i] /\ v[i - 1] = w[i - 1] BY <3>1, <4>1
      <4> HIDE DEF v
      <4> QED BY <2>1, <2>5, <4>1, <4>2
    <3>2. CASE ~(i <= m)
      <4>1. i = m + 1 /\ i - 1 = m /\ m <= m /\ m \in 0 .. m + 1 BY <3>2
      <4>2. v[m] = w[m] BY <4>1
      <4>3. v[i] = w[m] \o seqs[i] BY <2>5, <3>2, SMTT(60)
      <4> HIDE DEF v
      <4> QED BY <4>1, <4>2, <4>3
    <3> QED BY <3>1, <3>2
  <2> HIDE DEF v
  <2>6. Is(v, m + 1) BY <2>4, <2>5
  <2> HIDE DEF Is
  <2> QED BY <2>3, <2>6
<1> HIDE DEF Good
<1>5. Nat \subseteq Good BY <1>3, <1>4, CountUp
<1>6. PICK w \in [0 .. n -> Seq(S)] : Is(w, n) BY <1>1, <1>5 DEF Good
<1>7. Joins(seqs, w)
  <2>1. ASSUME NEW i \in 1 .. n PROVE w[i] = w[i - 1] \o seqs[i]
    <3>1. i <= n OBVIOUS
    <3> QED BY <1>6, <3>1
  <2> QED BY <1>1, <1>6, <2>1 DEF Joins
<1>8. FlattenSeq(seqs) = w[n]
  <2>1. CASE n = 0
    <3>1. <<>> \in Seq(Seq(S)) /\ Len(<<>>) = 0 BY EmptySeq
    <3>2. seqs = <<>>
      <4>1. \A i \in 1 .. Len(seqs) : seqs[i] = <<>>[i] BY <1>1, <2>1
      <4> QED BY <1>1, <2>1, <3>1, <4>1, SeqEqual
    <3> QED BY <1>1, <1>6, <2>1, <3>2 DEF FlattenSeq
  <2>2. CASE n # 0
    <3> DEFINE Step(f) == f = [i \in 1 .. Len(seqs) |-> IF i = 1 THEN seqs[i] ELSE f[i - 1] \o seqs[i]]
               f == CHOOSE g : Step(g)
    <3>1. FlattenSeq(seqs) = f[Len(seqs)] BY <1>1, <2>2 DEF FlattenSeq
    <3> DEFINE g == [i \in 1 .. Len(seqs) |-> w[i]]
    <3>2. ASSUME NEW i \in 1 .. n PROVE g[i] = IF i = 1 THEN seqs[i] ELSE g[i - 1] \o seqs[i]
      <4>1. w[i] = w[i - 1] \o seqs[i] BY <1>1, <1>7 DEF Joins
      <4>2. CASE i = 1
        <5>1. w[i - 1] = <<>> BY <1>6, <4>2
        <5>2. <<>> \o seqs[i] = seqs[i] BY <1>2, ConcatEmptySeq
        <5> QED BY <1>1, <4>1, <4>2, <5>1, <5>2
      <4>3. CASE i # 1
        <5>1. i - 1 \in 1 .. n BY <4>3
        <5> QED BY <1>1, <4>1, <4>3, <5>1
      <4> QED BY <4>2, <4>3
    <3>3. Step(g)
      <4>1. g = [i \in 1 .. n |-> g[i]] BY <1>1
      <4> HIDE DEF g
      <4> QED BY <1>1, <3>2, <4>1
    <3>4. Step(f) BY <3>3
    <3> HIDE DEF f
    <3>5. \A i \in 1 .. n : f[i] = IF i = 1 THEN seqs[i] ELSE f[i - 1] \o seqs[i] BY <1>1, <3>4
    <3> DEFINE Same == {m \in Nat : m + 1 <= n => f[m + 1] = g[m + 1]}
    <3>6. \A i \in 1 .. n : g[i] = w[i] BY <1>1
    <3> HIDE DEF g
    <3>7. 0 \in Same
      <4>1. 1 \in 1 .. n BY <2>2
      <4>2. f[1] = seqs[1] /\ g[1] = seqs[1] BY <3>2, <3>5, <4>1
      <4> QED BY <4>2
    <3>8. ASSUME NEW m \in Nat, m \in Same PROVE m + 1 \in Same
      <4> SUFFICES ASSUME (m + 1) + 1 <= n PROVE f[(m + 1) + 1] = g[(m + 1) + 1] OBVIOUS
      <4>1. (m + 1) + 1 \in 1 .. n /\ (m + 1) + 1 # 1 /\ ((m + 1) + 1) - 1 = m + 1 /\ m + 1 <= n OBVIOUS
      <4>2. f[m + 1] = g[m + 1] BY <3>8, <4>1
      <4>3. f[(m + 1) + 1] = f[m + 1] \o seqs[(m + 1) + 1] BY <3>5, <4>1
      <4>4. g[(m + 1) + 1] = g[m + 1] \o seqs[(m + 1) + 1] BY <3>2, <4>1
      <4> QED BY <4>2, <4>3, <4>4
    <3> HIDE DEF Same
    <3>9. Nat \subseteq Same BY <3>7, <3>8, CountUp
    <3>10. n - 1 \in Nat /\ (n - 1) + 1 = n /\ n \in 1 .. n BY <2>2
    <3>11. f[n] = g[n]
      <4>1. PICK m \in Nat : m + 1 = n /\ m + 1 <= n BY <3>10
      <4>2. m \in Same BY <3>9
      <4>3. f[m + 1] = g[m + 1] BY <4>1, <4>2 DEF Same
      <4> QED BY <4>1, <4>3
    <3> QED BY <1>1, <3>1, <3>6, <3>10, <3>11
  <2> QED BY <2>1, <2>2
<1> QED BY <1>1, <1>6, <1>7, <1>8

(* The "s" command: a place is replaced if the old text begins there and   *)
(* nothing is that was replaced before.                                    *)
LEMMA ReplacementsAre ==
  ASSUME NEW work, NEW n \in Nat, NEW l \in Nat, NEW old, l = Len(old)
  PROVE  /\ Replacements(work, n, old) \in SUBSET (1 .. n)
         /\ AreReplaced(Replacements(work, n, old), work, n, old)
<1> DEFINE Good == {m \in Nat : \E s \in SUBSET (1 .. m) : AreReplaced(s, work, m, old)}
<1>1. 0 \in Good
  <2>1. {} \in SUBSET (1 .. 0) /\ AreReplaced({}, work, 0, old) BY DEF AreReplaced
  <2> QED BY <2>1
<1>2. ASSUME NEW m \in Nat, m \in Good PROVE m + 1 \in Good
  <2>1. PICK s \in SUBSET (1 .. m) : AreReplaced(s, work, m, old) BY <1>2
  <2> DEFINE Fits(i) == Occurs(work, i, old)
             t == IF Fits(m + 1) /\ \A j \in s : j < m + 1 => j + l <= m + 1
                  THEN s \cup {m + 1} ELSE s
  <2>2. t \in SUBSET (1 .. m + 1) OBVIOUS
  <2>3. ASSUME NEW i \in 1 .. m + 1
        PROVE  i \in t <=> Fits(i) /\ \A j \in t : j < i => j + l <= i
    <3> HIDE DEF Fits
    <3>1. \A j \in t : j < m + 1 => j \in s OBVIOUS
    <3>2. s \subseteq t /\ m + 1 \notin s OBVIOUS
    <3>3. \A j \in s : j \in 1 .. m /\ j < m + 1 OBVIOUS
    <3>4. CASE i = m + 1
      <4>1. i \in t <=> Fits(m + 1) /\ \A j \in s : j < m + 1 => j + l <= m + 1 BY <3>2, <3>4
      <4> HIDE DEF t
      <4> QED BY <3>1, <3>2, <3>4, <4>1
    <3>5. CASE i # m + 1
      <4>1. i \in 1 .. m /\ i < m + 1 BY <3>5
      <4>2. i \in t <=> i \in s BY <3>5
      <4>3. i \in s <=> Fits(i) /\ \A j \in s : j < i => j + l <= i
        BY <2>1, <4>1 DEF AreReplaced, Fits
      <4>4. \A j \in t : j < i => j \in s
        <5> SUFFICES ASSUME NEW j \in t, j < i PROVE j \in s OBVIOUS
        <5>1. j \in 1 .. m + 1 BY <2>2
        <5>2. j < m + 1 BY <4>1, <5>1
        <5> QED BY <3>1, <5>2
      <4> HIDE DEF t
      <4> QED BY <3>2, <4>2, <4>3, <4>4
    <3> QED BY <3>4, <3>5
  <2> HIDE DEF t
  <2>4. AreReplaced(t, work, m + 1, old) BY <2>3 DEF AreReplaced, Fits
  <2> QED BY <2>2, <2>4
<1> HIDE DEF Good
<1>3. Nat \subseteq Good BY <1>1, <1>2, CountUp
<1>4. \E s \in SUBSET (1 .. n) : AreReplaced(s, work, n, old) BY <1>3 DEF Good
<1> QED BY <1>4 DEF Replacements

(* What the character at place i becomes.                                  *)
Becomes(chars, places, old, new, i) ==
  IF i \in places THEN new
  ELSE IF \E j \in places : j < i /\ i < j + Len(old) THEN <<>> ELSE <<chars[i]>>

Replaces(chars, places, old, new, w) ==
  /\ w[0] = <<>>
  /\ \A i \in 1 .. Len(chars) : w[i] = w[i - 1] \o Becomes(chars, places, old, new, i)

LEMMA BecomesTyped ==
  ASSUME NEW C, NEW chars \in Seq(C), NEW new \in Seq(C), NEW places, NEW old, NEW i \in 1 .. Len(chars)
  PROVE  Becomes(chars, places, old, new, i) \in Seq(C)
<1>1. chars[i] \in C OBVIOUS
<1>2. <<chars[i]>> \in Seq(C) /\ <<>> \in Seq(C) BY <1>1
<1> QED BY <1>2 DEF Becomes

(* The text as it grows, up to each place.                                 *)
Turns(C, chars, places, old, new, w) ==
  /\ chars \in Seq(C) /\ new \in Seq(C)
  /\ w \in [0 .. Len(chars) -> Seq(C)] /\ Replaces(chars, places, old, new, w)

Given(C, chars, heap, places, old, new) ==
  /\ chars \in Seq(C) /\ new \in Seq(C)
  /\ places = Replacements(chars \o heap, Len(chars), old)

LEMMA ReplacedTurns ==
  ASSUME NEW C, NEW chars, NEW heap, NEW places, NEW old, NEW new, Given(C, chars, heap, places, old, new)
  PROVE  \E w : Turns(C, chars, places, old, new, w) /\ Replaced(chars, heap, old, new) = w[Len(chars)]
<1>0. chars \in Seq(C) /\ new \in Seq(C) /\ places = Replacements(chars \o heap, Len(chars), old)
  BY DEF Given
<1> DEFINE seqs == [i \in 1 .. Len(chars) |-> Becomes(chars, places, old, new, i)]
<1>1. PICK n \in Nat : n = Len(chars) BY <1>0
<1>2. Replaced(chars, heap, old, new) = FlattenSeq(seqs) BY <1>0 DEF Replaced, Becomes
<1>3. \A i \in 1 .. n : Becomes(chars, places, old, new, i) \in Seq(C) BY <1>0, <1>1, BecomesTyped
<1>4. seqs = [i \in 1 .. n |-> Becomes(chars, places, old, new, i)] BY <1>1
<1> HIDE DEF seqs
<1>5. seqs \in Seq(Seq(C)) /\ Len(seqs) = n BY <1>3, <1>4
<1>6. \A i \in 1 .. n : seqs[i] = Becomes(chars, places, old, new, i) BY <1>4
<1>7. PICK w \in [0 .. Len(seqs) -> Seq(C)] : Joins(seqs, w) /\ FlattenSeq(seqs) = w[Len(seqs)]
  BY <1>5, FlattenSeqIs
<1>8. Replaces(chars, places, old, new, w) BY <1>1, <1>5, <1>6, <1>7 DEF Joins, Replaces
<1>9. Turns(C, chars, places, old, new, w)
  <2>1. w \in [0 .. Len(chars) -> Seq(C)] BY <1>1, <1>5, <1>7
  <2> QED BY <1>0, <1>8, <2>1 DEF Turns
<1> QED BY <1>1, <1>2, <1>5, <1>7, <1>9

LEMMA ReplacedTyped ==
  ASSUME NEW C, NEW chars \in Seq(C), NEW heap, NEW old, NEW new \in Seq(C)
  PROVE  Replaced(chars, heap, old, new) \in Seq(C)
<1>1. PICK places : places = Replacements(chars \o heap, Len(chars), old) OBVIOUS
<1>2. Given(C, chars, heap, places, old, new) BY <1>1 DEF Given
<1>3. PICK w : Turns(C, chars, places, old, new, w) /\ Replaced(chars, heap, old, new) = w[Len(chars)]
  BY <1>2, ReplacedTurns
<1>4. PICK n \in Nat : n = Len(chars) OBVIOUS
<1>5. n \in 0 .. n OBVIOUS
<1> QED BY <1>3, <1>4, <1>5 DEF Turns

(* What comes first stays first.                                           *)
Growing(w, n) ==
  \A i, j \in 0 .. n : i <= j =>
    Len(w[i]) <= Len(w[j]) /\ \A x \in 1 .. Len(w[i]) : w[j][x] = w[i][x]

LEMMA ReplacedGrows ==
  ASSUME NEW C, NEW chars \in Seq(C), NEW places, NEW old, NEW new \in Seq(C),
         NEW w \in [0 .. Len(chars) -> Seq(C)], Replaces(chars, places, old, new, w)
  PROVE  Growing(w, Len(chars))
<1> DEFINE Starts2(s, t) == Len(s) <= Len(t) /\ \A x \in 1 .. Len(s) : t[x] = s[x]
<1>1. PICK n \in Nat : n = Len(chars) OBVIOUS
<1>2. ASSUME NEW i \in 1 .. n PROVE Starts2(w[i - 1], w[i])
  <2>1. Becomes(chars, places, old, new, i) \in Seq(C) BY <1>1, BecomesTyped
  <2>2. PICK s \in Seq(C) : s = Becomes(chars, places, old, new, i) BY <2>1
  <2>5. i - 1 \in 0 .. n OBVIOUS
  <2>6. PICK r \in Seq(C) : r = w[i - 1] BY <1>1, <2>5
  <2>7. w[i] = r \o s BY <1>1, <2>2, <2>6 DEF Replaces
  <2>8. /\ Len(r \o s) = Len(r) + Len(s)
        /\ \A x \in 1 .. Len(r) + Len(s) : (r \o s)[x] = IF x <= Len(r) THEN r[x] ELSE s[x - Len(r)]
    BY ConcatProperties
  <2>9. PICK a, e \in Nat : a = Len(r) /\ e = Len(s) OBVIOUS
  <2>10. a <= a + e /\ \A x \in 1 .. a : x \in 1 .. a + e /\ x <= a OBVIOUS
  <2>11. Len(r) <= Len(r \o s) BY <2>8, <2>9, <2>10
  <2>12. \A x \in 1 .. Len(r) : (r \o s)[x] = r[x] BY <2>8, <2>9, <2>10
  <2> QED BY <2>6, <2>7, <2>11, <2>12
<1>3. ASSUME NEW i \in 0 .. n PROVE \A m \in Nat : i + m <= n => Starts2(w[i], w[i + m])
  <2> DEFINE Good == {m \in Nat : i + m <= n => Starts2(w[i], w[i + m])}
  <2>1. 0 \in Good
    <3>1. i + 0 = i /\ Len(w[i]) <= Len(w[i])
      <4>1. PICK a \in Nat : a = Len(w[i]) BY <1>1
      <4> QED BY <4>1
    <3> QED BY <3>1
  <2>2. ASSUME NEW m \in Nat, m \in Good PROVE m + 1 \in Good
    <3> SUFFICES ASSUME i + (m + 1) <= n PROVE Starts2(w[i], w[i + (m + 1)]) OBVIOUS
    <3>1. i + (m + 1) \in 1 .. n /\ (i + (m + 1)) - 1 = i + m /\ i + m <= n /\ i + m \in 0 .. n OBVIOUS
    <3>2. Starts2(w[i], w[i + m]) BY <2>2, <3>1
    <3>3. Starts2(w[i + m], w[i + (m + 1)])
      <4> HIDE DEF Starts2
      <4> QED BY <1>2, <3>1
    <3>4. PICK a, e, f \in Nat : a = Len(w[i]) /\ e = Len(w[i + m]) /\ f = Len(w[i + (m + 1)])
      <4>1. i \in 0 .. n /\ i + (m + 1) \in 0 .. n BY <3>1
      <4>2. w[i] \in Seq(C) /\ w[i + m] \in Seq(C) /\ w[i + (m + 1)] \in Seq(C) BY <1>1, <3>1, <4>1
      <4> QED BY <4>2, LenProperties
    <3>5. a <= f BY <3>2, <3>3, <3>4
    <3>6. \A x \in 1 .. a : x \in 1 .. e BY <3>2, <3>4
    <3>7. \A x \in 1 .. a : w[i + (m + 1)][x] = w[i][x] BY <3>2, <3>3, <3>4, <3>6
    <3> QED BY <3>4, <3>5, <3>7
  <2> HIDE DEF Good
  <2>3. Nat \subseteq Good BY <2>1, <2>2, CountUp
  <2> QED BY <2>3 DEF Good
<1> HIDE DEF Starts2
<1>4. ASSUME NEW i \in 0 .. n, NEW j \in 0 .. n, i <= j PROVE Starts2(w[i], w[j])
  <2>1. j - i \in Nat /\ i + (j - i) = j /\ j <= n BY <1>4
  <2> QED BY <1>3, <2>1
<1> QED BY <1>1, <1>4 DEF Starts2, Growing

LEMMA ReplacesGrow ==
  ASSUME NEW C, NEW chars, NEW places, NEW old, NEW new, NEW w, Turns(C, chars, places, old, new, w)
  PROVE  Growing(w, Len(chars))
BY ReplacedGrows DEF Turns

LEMMA KeptIs ==
  ASSUME NEW b, Buffer(b)
  PROVE  /\ Kept(b) \in Seq(Letters \cup {NL}) /\ Len(Kept(b)) = Total(b)
         /\ Len(Kept(b)) <= EditMaxSize - 1
         /\ \A i \in 1 .. Total(b) : Kept(b)[i] = b[i - 1]
<1>1. Tabled(b) BY TableIs
<1>2. PICK n \in Nat : n = Total(b) BY <1>1, EditConstants DEF Tabled
<1>3. n <= EditMaxSize - 1 BY <1>1, <1>2, EditConstants DEF Tabled, Places
<1>4. \A i \in 1 .. n : b[i - 1] \in Letters \cup {NL}
  <2> SUFFICES ASSUME NEW i \in 1 .. n PROVE b[i - 1] \in Letters \cup {NL} OBVIOUS
  <2>1. i - 1 \in Places /\ i - 1 \in 0 .. n - 1 BY <1>3, EditConstants DEF Places
  <2>2. b[i - 1] # NUL BY <1>1, <1>2, <2>1 DEF Tabled
  <2> QED BY <2>1, <2>2 DEF Buffer, Chars
<1>5. Kept(b) = [i \in 1 .. n |-> b[i - 1]] BY <1>2 DEF Kept
<1> QED BY <1>2, <1>3, <1>4, <1>5


(* A line with its newline, i characters into a text, of m letters.        *)
LineOf(chars, line, i, m) ==
  /\ line \in Seq(Letters) /\ m = Len(line) /\ i + m + 1 <= Len(chars)
  /\ chars[i + m + 1] = NL /\ (i = 0 \/ chars[i] = NL)
  /\ \A x \in 1 .. m : chars[i + x] = line[x]

(* The replacements in the text, and those in the line alone.             *)
Side(chars, heap, places, line, own, old, i, m) ==
  /\ chars \in Seq(Letters \cup {NL}) /\ heap \in Seq(Chars) /\ old \in Seq(Letters) \ {<<>>}
  /\ i \in Nat /\ m \in Nat /\ LineOf(chars, line, i, m)
  /\ places = Replacements(chars \o heap, Len(chars), old)
  /\ own = Replacements(line \o <<>>, Len(line), old)

Alike(chars, places, line, own, old, new, i, m) ==
  /\ \A x \in 1 .. m : Becomes(chars, places, old, new, i + x) = Becomes(line, own, old, new, x)
  /\ Becomes(chars, places, old, new, i + m + 1) = <<NL>>

(* No replacement reaches over a newline, so a line becomes in the text    *)
(* what it becomes alone.                                                  *)
LEMMA LineBecomes ==
  ASSUME NEW chars \in Seq(Letters \cup {NL}), NEW heap \in Seq(Chars), NEW line, NEW i \in Nat, NEW m \in Nat,
         LineOf(chars, line, i, m), NEW old \in Seq(Letters) \ {<<>>}, NEW new,
         NEW places, places = Replacements(chars \o heap, Len(chars), old),
         NEW own, own = Replacements(line \o <<>>, Len(line), old)
  PROVE  Alike(chars, places, line, own, old, new, i, m)
<1> DEFINE work == chars \o heap
<1>1. PICK n \in Nat : n = Len(chars) OBVIOUS
<1>2. PICK l \in Nat : l = Len(old) /\ l >= 1
  <2>1. Len(old) # 0 BY EmptySeq
  <2> QED BY <2>1
<1>3. PICK k \in Nat : k = Len(heap) OBVIOUS
<1>4. Len(work) = n + k /\ \A x \in 1 .. n : work[x] = chars[x]
  <2> DEFINE A == Letters \cup {NL} \cup Chars
  <2>1. chars \in Seq(A) /\ heap \in Seq(A)
    <3>1. \A x \in 1 .. n : chars[x] \in A BY <1>1
    <3>2. \A x \in 1 .. k : heap[x] \in A BY <1>3
    <3>3. chars = [x \in 1 .. n |-> chars[x]] /\ heap = [x \in 1 .. k |-> heap[x]] BY <1>1, <1>3
    <3> HIDE DEF A
    <3>4. [x \in 1 .. n |-> chars[x]] \in Seq(A) BY <3>1
    <3>5. [x \in 1 .. k |-> heap[x]] \in Seq(A) BY <3>2
    <3> QED BY <3>3, <3>4, <3>5
  <2> HIDE DEF A
  <2>2. /\ Len(chars \o heap) = Len(chars) + Len(heap)
        /\ \A x \in 1 .. Len(chars) + Len(heap) :
             (chars \o heap)[x] = IF x <= Len(chars) THEN chars[x] ELSE heap[x - Len(chars)]
    BY <2>1, ConcatProperties
  <2>3. \A x \in 1 .. n : x \in 1 .. n + k /\ x <= n OBVIOUS
  <2> QED BY <1>1, <1>3, <2>2, <2>3
<1>5. line \in Seq(Letters) /\ Len(line) = m /\ line \o <<>> = line BY ConcatEmptySeq DEF LineOf
<1>6. /\ i + m + 1 <= n /\ chars[i + m + 1] = NL /\ (i = 0 \/ chars[i] = NL)
      /\ \A x \in 1 .. m : chars[i + x] = line[x]
  BY <1>1 DEF LineOf
<1>7. /\ places \in SUBSET (1 .. n) /\ AreReplaced(places, work, n, old)
      /\ own \in SUBSET (1 .. m) /\ AreReplaced(own, line, m, old)
  BY <1>1, <1>2, <1>5, ReplacementsAre
<1> HIDE DEF work
<1>8. ASSUME NEW p \in 1 .. n, chars[p] = NL, NEW y \in 1 .. n, y <= p, Occurs(work, y, old) PROVE y + l <= p
  <2> SUFFICES ASSUME ~(y + l <= p) PROVE FALSE OBVIOUS
  <2>1. (p - y) + 1 \in 1 .. l /\ y + ((p - y) + 1) - 1 = p BY <1>8
  <2>2. work[p] = old[(p - y) + 1]
    <3>1. \A j \in 1 .. l : work[y + j - 1] = old[j] BY <1>2, <1>8 DEF Occurs
    <3> QED BY <2>1, <3>1
  <2>3. old[(p - y) + 1] \in Letters BY <1>2, <2>1
  <2> QED BY <1>4, <1>8, <2>2, <2>3, EditConstants
<1>9. \A y \in places : Occurs(work, y, old) BY <1>7 DEF AreReplaced
<1>10. ASSUME NEW x \in 1 .. m PROVE Occurs(work, i + x, old) <=> Occurs(line, x, old)
  <2>1. i + x \in 1 .. n /\ i + m + 1 \in 1 .. n /\ i + x <= i + m + 1 BY <1>6
  <2>2. ASSUME x + l <= m + 1
        PROVE  \A j \in 1 .. l : work[(i + x) + j - 1] = line[x + j - 1]
    <3>1. ASSUME NEW j \in 1 .. l PROVE work[(i + x) + j - 1] = line[x + j - 1]
      <4>1. PICK d \in 1 .. m : d = x + j - 1 /\ i + d = (i + x) + j - 1 /\ i + d \in 1 .. n
        <5>1. x + j - 1 \in 1 .. m BY <2>2
        <5>2. PICK d \in 1 .. m : d = x + j - 1 BY <5>1
        <5>3. i + m + 1 <= n BY <1>6
        <5>4. i + d \in 1 .. n BY <5>3
        <5>5. i + (x + j - 1) = (i + x) + j - 1 OBVIOUS
        <5> QED BY <5>2, <5>4, <5>5
      <4>2. work[i + d] = chars[i + d] /\ chars[i + d] = line[d] BY <1>4, <1>6, <4>1
      <4> QED BY <4>1, <4>2
    <3> QED BY <3>1
  <2>3. ASSUME Occurs(work, i + x, old) PROVE Occurs(line, x, old)
    <3>1. (i + x) + l <= i + m + 1 BY <1>6, <1>8, <2>1, <2>3
    <3>2. x + l <= m + 1 /\ x + l - 1 <= m BY <3>1
    <3>3. \A j \in 1 .. l : work[(i + x) + j - 1] = old[j] BY <1>2, <2>3 DEF Occurs
    <3> QED BY <1>2, <1>5, <2>2, <3>2, <3>3 DEF Occurs
  <2>4. ASSUME Occurs(line, x, old) PROVE Occurs(work, i + x, old)
    <3>1. x + l - 1 <= m /\ \A j \in 1 .. l : line[x + j - 1] = old[j] BY <1>2, <1>5, <2>4 DEF Occurs
    <3>2. x + l <= m + 1 /\ (i + x) + l - 1 <= n + k BY <1>6, <3>1
    <3> QED BY <1>2, <1>4, <2>2, <3>1, <3>2 DEF Occurs
  <2> QED BY <2>3, <2>4
<1>11. \A y \in places : y <= i => y + l <= i
  <2> SUFFICES ASSUME NEW y \in places, y <= i PROVE y + l <= i OBVIOUS
  <2>1. y \in 1 .. n /\ i \in 1 .. n /\ i # 0 BY <1>6, <1>7
  <2> QED BY <1>6, <1>8, <1>9, <2>1
<1> DEFINE Good == {x \in Nat : \A y \in 1 .. x : y <= m => (i + y \in places <=> y \in own)}
<1>12. 0 \in Good OBVIOUS
<1>13. ASSUME NEW x \in Nat, x \in Good PROVE x + 1 \in Good
  <2>1. \A y \in 1 .. x : y <= m => (i + y \in places <=> y \in own) BY <1>13
  <2>2. ASSUME x + 1 <= m PROVE i + (x + 1) \in places <=> x + 1 \in own
    <3>1. x + 1 \in 1 .. m /\ i + (x + 1) \in 1 .. n BY <1>6, <2>2
    <3>2. i + (x + 1) \in places <=>
            Occurs(work, i + (x + 1), old) /\ \A j \in places : j < i + (x + 1) => j + l <= i + (x + 1)
      BY <1>2, <1>7, <3>1 DEF AreReplaced
    <3>3. x + 1 \in own <=> Occurs(line, x + 1, old) /\ \A j \in own : j < x + 1 => j + l <= x + 1
      BY <1>2, <1>7, <3>1 DEF AreReplaced
    <3>4. Occurs(work, i + (x + 1), old) <=> Occurs(line, x + 1, old) BY <1>10, <3>1
    <3>5. ASSUME \A j \in places : j < i + (x + 1) => j + l <= i + (x + 1), NEW j \in own, j < x + 1
          PROVE  j + l <= x + 1
      <4>1. j \in 1 .. x /\ j <= m BY <1>7, <2>2, <3>5
      <4>2. i + j \in places /\ i + j < i + (x + 1) BY <2>1, <4>1
      <4>3. (i + j) + l <= i + (x + 1) BY <3>5, <4>2
      <4> QED BY <4>1, <4>3
    <3>6. ASSUME \A j \in own : j < x + 1 => j + l <= x + 1, NEW j \in places, j < i + (x + 1)
          PROVE  j + l <= i + (x + 1)
      <4>1. j \in 1 .. n BY <1>7
      <4>2. CASE j <= i BY <1>11, <4>1, <4>2
      <4>3. CASE ~(j <= i)
        <5>1. j - i \in 1 .. x /\ i + (j - i) = j /\ j - i <= m /\ j - i < x + 1 BY <2>2, <3>6, <4>1, <4>3
        <5>2. j - i \in own BY <2>1, <5>1
        <5>3. (j - i) + l <= x + 1 BY <3>6, <5>1, <5>2
        <5> QED BY <4>1, <5>3
      <4> QED BY <4>2, <4>3
    <3> QED BY <3>2, <3>3, <3>4, <3>5, <3>6
  <2>3. ASSUME NEW y \in 1 .. x + 1, y <= m PROVE i + y \in places <=> y \in own
    <3>1. y \in 1 .. x \/ y = x + 1 OBVIOUS
    <3> QED BY <2>1, <2>2, <2>3, <3>1
  <2> QED BY <2>3
<1> HIDE DEF Good
<1>14. \A x \in 1 .. m : i + x \in places <=> x \in own
  <2>1. m \in Good BY <1>12, <1>13, CountUp
  <2>2. \A y \in 1 .. m : y <= m OBVIOUS
  <2> QED BY <2>1, <2>2 DEF Good
<1>15. ASSUME NEW x \in 1 .. m
       PROVE  (\E j \in places : j < i + x /\ i + x < j + l) <=> (\E j \in own : j < x /\ x < j + l)
  <2>1. ASSUME NEW j \in places, j < i + x, i + x < j + l PROVE \E y \in own : y < x /\ x < y + l
    <3>1. j \in 1 .. n BY <1>7
    <3>2. ~(j <= i)
      <4> SUFFICES ASSUME j <= i PROVE FALSE OBVIOUS
      <4>1. j + l <= i BY <1>11
      <4> QED BY <2>1, <3>1, <4>1
    <3>3. j - i \in 1 .. m /\ i + (j - i) = j /\ j - i < x /\ x < (j - i) + l BY <2>1, <3>1, <3>2
    <3>4. j - i \in own BY <1>14, <3>3
    <3> QED BY <3>3, <3>4
  <2>2. ASSUME NEW y \in own, y < x, x < y + l PROVE \E j \in places : j < i + x /\ i + x < j + l
    <3>1. y \in 1 .. m BY <1>7
    <3>2. i + y \in places /\ i + y < i + x /\ i + x < (i + y) + l BY <1>14, <2>2, <3>1
    <3> QED BY <3>2
  <2> QED BY <2>1, <2>2
<1>16. ASSUME NEW x \in 1 .. m
       PROVE  Becomes(chars, places, old, new, i + x) = Becomes(line, own, old, new, x)
  <2>1. chars[i + x] = line[x] BY <1>6
  <2>2. i + x \in places <=> x \in own BY <1>14
  <2> QED BY <1>2, <1>15, <2>1, <2>2 DEF Becomes
<1>17. Becomes(chars, places, old, new, i + m + 1) = <<NL>>
  <2>1. PICK z \in 1 .. n : z = i + m + 1 /\ chars[z] = NL BY <1>6
  <2>2. \A y \in places : y <= z => y + l <= z
    <3> SUFFICES ASSUME NEW y \in places, y <= z PROVE y + l <= z OBVIOUS
    <3>1. y \in 1 .. n BY <1>7
    <3> QED BY <1>8, <1>9, <2>1, <3>1
  <2>3. z \notin places BY <1>2, <2>2
  <2>4. ~\E y \in places : y < z /\ z < y + Len(old)
    <3> SUFFICES ASSUME NEW y \in places, y < z, z < y + l PROVE FALSE BY <1>2
    <3>1. y \in 1 .. n BY <1>7
    <3>2. y + l <= z BY <2>2, <3>1
    <3> QED BY <3>1, <3>2
  <2> QED BY <2>1, <2>3, <2>4 DEF Becomes
<1> QED BY <1>16, <1>17 DEF Alike

LEMMA LineReplaced ==
  ASSUME NEW chars, NEW heap, NEW places, NEW line, NEW own, NEW old, NEW i, NEW m, NEW new,
         Side(chars, heap, places, line, own, old, i, m)
  PROVE  Alike(chars, places, line, own, old, new, i, m)
BY LineBecomes DEF Side

(* The lines that the user made by the substitution.                       *)
TextBy(t, old, new) == [k \in 1 .. Len(t) |-> Replaced(t[k], <<>>, old, new)]

LEMMA TextByTyped ==
  ASSUME NEW t \in Seq(Seq(Letters)), NEW old, NEW new \in Seq(Letters)
  PROVE  TextBy(t, old, new) \in Seq(Seq(Letters))
<1>1. PICK l \in Nat : l = Len(t) OBVIOUS
<1>2. \A k \in 1 .. l : Replaced(t[k], <<>>, old, new) \in Seq(Letters)
  <2> SUFFICES ASSUME NEW k \in 1 .. l PROVE Replaced(t[k], <<>>, old, new) \in Seq(Letters) OBVIOUS
  <2>1. t[k] \in Seq(Letters) BY <1>1
  <2> QED BY <2>1, ReplacedTyped
<1>3. [k \in 1 .. l |-> Replaced(t[k], <<>>, old, new)] \in Seq(Seq(Letters)) BY <1>2
<1> QED BY <1>1, <1>3 DEF TextBy

Substitution(heap, old, new) ==
  heap \in Seq(Chars) /\ old \in Seq(Letters) \ {<<>>} /\ new \in Seq(Letters)

LEMMA SubstitutedTyped ==
  ASSUME NEW b, Buffer(b), NEW heap, NEW old, NEW new, Substitution(heap, old, new)
  PROVE  Replaced(Kept(b), heap, old, new) \in Seq(Letters \cup {NL})
<1> DEFINE C == Letters \cup {NL}
<1>1. Kept(b) \in Seq(C) BY KeptIs
<1>2. Letters \subseteq C OBVIOUS
<1> HIDE DEF C
<1>3. new \in Seq(C) BY <1>2 DEF Substitution
<1>4. Replaced(Kept(b), heap, old, new) \in Seq(C) BY <1>1, <1>3, ReplacedTyped
<1> QED BY <1>4 DEF C

LEMMA SubstitutedLaid ==
  ASSUME NEW b, Buffer(b), NEW t, NEW o, Layout(b, t, o),
         NEW heap, NEW old, NEW new, Substitution(heap, old, new),
         Len(Replaced(Kept(b), heap, old, new)) < EditMaxSize
  PROVE  \E q : Layout(Filled(b, Replaced(Kept(b), heap, old, new)), TextBy(t, old, new), q)
<1> DEFINE C == Letters \cup {NL}
           out == Replaced(Kept(b), heap, old, new)
           c == Filled(b, out)
           u == TextBy(t, old, new)
           places == Replacements(Kept(b) \o heap, Len(Kept(b)), old)
<1>1. PICK l \in Nat : l = Len(t) BY LayoutClimb
<1>2. /\ \A k \in 1 .. l + 1 : o[k] \in Nat
      /\ \A i, j \in 1 .. l + 1 : i <= j => o[i] <= o[j]
  BY <1>1, LayoutClimb
<1>3. PICK n \in Nat : n = o[l + 1] /\ n = Total(b)
  <2>1. l + 1 \in 1 .. l + 1 BY <1>1
  <2> QED BY <1>1, <1>2, <2>1, LayoutLines
<1>4. /\ Kept(b) \in Seq(C) /\ Len(Kept(b)) = n
      /\ \A i \in 1 .. n : Kept(b)[i] = b[i - 1]
  BY <1>3, KeptIs
<1>5. Letters \subseteq C OBVIOUS
<1>6. NL \in C OBVIOUS
<1> HIDE DEF C
<1>7. new \in Seq(C) BY <1>5 DEF Substitution
<1>8. PICK w : Turns(C, Kept(b), places, old, new, w) /\ out = w[Len(Kept(b))]
  <2>1. Given(C, Kept(b), heap, places, old, new) BY <1>4, <1>7 DEF Given
  <2> HIDE DEF places
  <2> QED BY <2>1, ReplacedTurns
<1> HIDE DEF out, places
<1>8a. w \in [0 .. n -> Seq(C)] /\ out = w[n] BY <1>4, <1>8 DEF Turns
<1>9. \A i, j \in 0 .. n : i <= j =>
        Len(w[i]) <= Len(w[j]) /\ \A x \in 1 .. Len(w[i]) : w[j][x] = w[i][x]
  <2>1. Growing(w, Len(Kept(b))) BY <1>8, ReplacesGrow
  <2> QED BY <1>4, <2>1 DEF Growing
<1>10. w[0] = <<>> /\ \A i \in 1 .. n : w[i] = w[i - 1] \o Becomes(Kept(b), places, old, new, i)
  BY <1>4, <1>8 DEF Turns, Replaces
<1>11. t \in Seq(Seq(Letters)) BY DEF Layout
<1>12. u \in Seq(Seq(Letters)) /\ Len(u) = l
  <2>1. u \in Seq(Seq(Letters)) BY <1>11, TextByTyped DEF Substitution
  <2>2. u = [k \in 1 .. l |-> Replaced(t[k], <<>>, old, new)] BY <1>1 DEF TextBy
  <2>3. DOMAIN u = 1 .. l BY <2>2
  <2> HIDE DEF u
  <2> QED BY <2>1, <2>3
<1>13. \A k \in 1 .. l : u[k] = Replaced(t[k], <<>>, old, new) BY <1>1 DEF TextBy
<1> HIDE DEF u
(* One line.                                                               *)
<1>14. ASSUME NEW k \in 1 .. l
       PROVE  w[o[k + 1]] = (w[o[k]] \o u[k]) \o <<NL>>
  <2>1. t[k] \in Seq(Letters) /\ Laid(b, t, o, k) BY <1>1 DEF Layout
  <2>2. k \in 1 .. l + 1 /\ k + 1 \in 1 .. l + 1 /\ l + 1 \in 1 .. l + 1 /\ k + 1 <= l + 1 BY <1>1
  <2>3. PICK i, z, m \in Nat : i = o[k] /\ z = o[k + 1] /\ m = Len(t[k]) BY <1>2, <2>1, <2>2
  <2>4. z = i + m + 1 /\ z <= n
    <3>1. z <= n BY <1>2, <1>3, <2>2, <2>3
    <3> QED BY <2>1, <2>3, <3>1 DEF Laid
  <2>5. LineOf(Kept(b), t[k], i, m)
    <3>1. b[z - 1] = NL /\ \A j \in 1 .. m : b[i + j - 1] = t[k][j] BY <2>1, <2>3 DEF Laid
    <3>2. Kept(b)[i + m + 1] = NL
      <4>1. i + m + 1 \in 1 .. n /\ (i + m + 1) - 1 = z - 1 BY <2>4
      <4> QED BY <1>4, <3>1, <4>1
    <3>3. ASSUME NEW x \in 1 .. m PROVE Kept(b)[i + x] = t[k][x]
      <4>1. i + x \in 1 .. n /\ (i + x) - 1 = i + x - 1 BY <2>4
      <4> QED BY <1>4, <3>1, <4>1
    <3>4. i = 0 \/ Kept(b)[i] = NL
      <4>1. CASE k = 1 BY <2>3, <4>1 DEF Layout
      <4>2. CASE k # 1
        <5>1. k - 1 \in 1 .. l /\ (k - 1) + 1 = k BY <4>2
        <5>2. Laid(b, t, o, k - 1) BY <1>1, <5>1 DEF Layout
        <5>3. b[i - 1] = NL BY <2>3, <5>1, <5>2 DEF Laid
        <5>4. i # 0
          <6>1. PICK e \in Nat : e = o[k - 1]
            <7>1. k - 1 \in 1 .. l + 1 BY <5>1
            <7> QED BY <1>2, <7>1
          <6>2. PICK d \in Nat : d = Len(t[k - 1])
            <7>1. t[k - 1] \in Seq(Letters) BY <1>1, <1>11, <5>1
            <7> QED BY <7>1
          <6>3. i = e + d + 1 BY <2>3, <5>1, <5>2, <6>1, <6>2 DEF Laid
          <6> QED BY <6>3
        <5>5. i \in 1 .. n BY <2>4, <5>4
        <5> QED BY <1>4, <5>3, <5>5
      <4> QED BY <4>1, <4>2
    <3>5. i + m + 1 <= Len(Kept(b)) BY <1>4, <2>4
    <3> QED BY <2>1, <2>3, <3>2, <3>3, <3>4, <3>5 DEF LineOf
  <2>6. t[k] \in Seq(C) BY <1>5, <2>1
  <2> DEFINE own == Replacements(t[k] \o <<>>, Len(t[k]), old)
  <2>7. PICK v : Turns(C, t[k], own, old, new, v) /\ Replaced(t[k], <<>>, old, new) = v[Len(t[k])]
    <3>1. Given(C, t[k], <<>>, own, old, new) BY <1>7, <2>6 DEF Given
    <3> HIDE DEF own
    <3> QED BY <3>1, ReplacedTurns
  <2>8. /\ \A x \in 1 .. m : Becomes(Kept(b), places, old, new, i + x) = Becomes(t[k], own, old, new, x)
        /\ Becomes(Kept(b), places, old, new, i + m + 1) = <<NL>>
    <3>1. Kept(b) \in Seq(Letters \cup {NL}) BY KeptIs
    <3>2. Side(Kept(b), heap, places, t[k], own, old, i, m)
      BY <2>3, <2>5, <3>1 DEF Side, Substitution, places
    <3> HIDE DEF own
    <3>3. Alike(Kept(b), places, t[k], own, old, new, i, m) BY <3>2, LineReplaced
    <3> QED BY <3>3 DEF Alike
  <2> HIDE DEF own
  <2>8a. /\ v \in [0 .. m -> Seq(C)] /\ v[0] = <<>> /\ Replaced(t[k], <<>>, old, new) = v[m]
         /\ \A j \in 1 .. m : v[j] = v[j - 1] \o Becomes(t[k], own, old, new, j)
    BY <2>3, <2>7 DEF Turns, Replaces
  <2>9. PICK r \in Seq(C) : r = w[i]
    <3>1. i \in 0 .. n BY <2>4
    <3> QED BY <1>8a, <3>1
  <2> DEFINE Good == {j \in Nat : j <= m => w[i + j] = r \o v[j]}
  <2>10. 0 \in Good
    <3>1. i + 0 = i OBVIOUS
    <3>2. r \o <<>> = r BY ConcatEmptySeq
    <3> QED BY <2>9, <2>8a, <3>1, <3>2
  <2>11. ASSUME NEW j \in Nat, j \in Good PROVE j + 1 \in Good
    <3> SUFFICES ASSUME j + 1 <= m PROVE w[i + (j + 1)] = r \o v[j + 1] OBVIOUS
    <3>1. /\ i + (j + 1) \in 1 .. n /\ (i + (j + 1)) - 1 = i + j /\ j + 1 \in 1 .. m
          /\ (j + 1) - 1 = j /\ j <= m /\ j \in 0 .. m /\ i + (j + 1) - 1 = i + j
      BY <2>4
    <3>2. w[i + j] = r \o v[j] BY <2>11, <3>1
    <3>3. Becomes(Kept(b), places, old, new, i + (j + 1)) = Becomes(t[k], own, old, new, j + 1)
      BY <2>8, <3>1
    <3>4. w[i + (j + 1)] = w[i + j] \o Becomes(Kept(b), places, old, new, i + (j + 1)) BY <1>10, <3>1
    <3>5. v[j + 1] = v[j] \o Becomes(t[k], own, old, new, j + 1) BY <2>8a, <3>1
    <3>6. PICK s \in Seq(C) : s = Becomes(t[k], own, old, new, j + 1)
      <4>1. j + 1 \in 1 .. Len(t[k]) BY <2>3, <3>1
      <4> QED BY <1>7, <2>6, <4>1, BecomesTyped
    <3>7. PICK y \in Seq(C) : y = v[j] BY <2>8a, <3>1
    <3>8. Three(C, r, y, s) BY DEF Three
    <3>5a. (r \o y) \o s = r \o (y \o s) BY <3>8, Associative, SMTT(60)
    <3> QED BY <3>2, <3>3, <3>4, <3>5, <3>6, <3>7, <3>5a
  <2> HIDE DEF Good
  <2>12. Nat \subseteq Good BY <2>10, <2>11, CountUp
  <2>13. w[i + m] = r \o u[k]
    <3>1. m \in Nat /\ m <= m OBVIOUS
    <3>2. w[i + m] = r \o v[m] BY <2>12, <3>1 DEF Good
    <3> QED BY <1>13, <2>8a, <3>2
  <2>14. w[z] = w[i + m] \o <<NL>>
    <3>1. z \in 1 .. n /\ z - 1 = i + m BY <2>4
    <3>2. w[z] = w[z - 1] \o Becomes(Kept(b), places, old, new, z) BY <1>10, <3>1
    <3> QED BY <2>4, <2>8, <3>1, <3>2
  <2> QED BY <2>3, <2>9, <2>13, <2>14
(* Where the lines are now.                                                *)
<1> DEFINE q == [k \in 1 .. l + 1 |-> Len(w[o[k]])]
<1>15. \A k \in 1 .. l + 1 : q[k] = Len(w[o[k]]) OBVIOUS
<1>16. \A k \in 1 .. l + 1 : o[k] \in 0 .. n /\ n \in 0 .. n /\ o[k] <= n
  <2> SUFFICES ASSUME NEW k \in 1 .. l + 1 PROVE o[k] \in 0 .. n /\ n \in 0 .. n /\ o[k] <= n OBVIOUS
  <2>1. l + 1 \in 1 .. l + 1 /\ k <= l + 1 BY <1>1
  <2>2. PICK i \in Nat : i = o[k] BY <1>2
  <2>3. i <= n BY <1>2, <1>3, <2>1, <2>2
  <2> QED BY <2>2, <2>3
<1>17. PICK e \in Nat : e = Len(out) /\ e < EditMaxSize
  <2>1. n \in 0 .. n OBVIOUS
  <2>2. out \in Seq(C) BY <1>8a, <2>1
  <2> QED BY <2>2 DEF out
<1>18. \A k \in 1 .. l + 1 : q[k] \in Nat /\ q[k] <= e
  <2> SUFFICES ASSUME NEW k \in 1 .. l + 1 PROVE q[k] \in Nat /\ q[k] <= e OBVIOUS
  <2>1. PICK s \in Seq(C) : s = w[o[k]] BY <1>8a, <1>16
  <2>2. Len(s) \in Nat BY <2>1
  <2>3. Len(s) <= Len(w[n]) BY <1>9, <1>16, <2>1
  <2> QED BY <1>8a, <1>15, <1>17, <2>1, <2>2, <2>3
<1>19. q \in [1 .. l + 1 -> Places]
  <2>1. \A k \in 1 .. l + 1 : q[k] \in Places BY <1>17, <1>18, EditConstants DEF Places
  <2> QED BY <2>1
<1> HIDE DEF q
<1>20. c = [i \in Places |-> IF i < e THEN out[i + 1] ELSE IF i = e THEN NUL ELSE b[i]]
  BY <1>17 DEF Filled
<1> HIDE DEF c
<1>21. \A i \in 0 .. e - 1 : c[i] = out[i + 1]
  <2> SUFFICES ASSUME NEW i \in 0 .. e - 1 PROVE c[i] = out[i + 1] OBVIOUS
  <2>1. i \in Places /\ i < e BY <1>17, EditConstants DEF Places
  <2> QED BY <1>20, <2>1
<1>22. c[e] = NUL
  <2>1. e \in Places /\ ~(e < e) BY <1>17, EditConstants DEF Places
  <2> QED BY <1>20, <2>1
<1>23. ASSUME NEW k \in 1 .. l PROVE Laid(c, u, q, k)
  <2>1. k \in 1 .. l + 1 /\ k + 1 \in 1 .. l + 1 BY <1>1
  <2>2. PICK r \in Seq(C) : r = w[o[k]] BY <1>8a, <1>16, <2>1
  <2>3. PICK s \in Seq(C) : s = u[k]
    <3>1. u[k] \in Seq(Letters) BY <1>12
    <3> QED BY <1>5, <3>1
  <2>4. w[o[k + 1]] = (r \o s) \o <<NL>> BY <1>14, <2>2, <2>3
  <2>5. PICK a, m \in Nat : a = Len(r) /\ m = Len(s) OBVIOUS
  <2>6. PICK f \in Seq(C) : f = r \o s /\ Len(f) = a + m /\ \A x \in 1 .. m : f[a + x] = s[x]
    <3>1. /\ r \o s \in Seq(C) /\ Len(r \o s) = Len(r) + Len(s)
          /\ \A x \in 1 .. Len(r) + Len(s) : (r \o s)[x] = IF x <= Len(r) THEN r[x] ELSE s[x - Len(r)]
      BY ConcatProperties
    <3>2. \A x \in 1 .. m : a + x \in 1 .. a + m /\ ~(a + x <= a) /\ (a + x) - a = x OBVIOUS
    <3>3. \A x \in 1 .. m : (r \o s)[a + x] = s[x] BY <2>5, <3>1, <3>2
    <3> QED BY <2>5, <3>1, <3>3
  <2>7. PICK g \in Seq(C) : g = f \o <<NL>> /\ Len(g) = a + m + 1 /\ g[a + m + 1] = NL
                           /\ \A x \in 1 .. m : g[a + x] = s[x]
    <3>1. NL \in C BY DEF C
    <3>2. <<NL>> \in Seq(C) /\ Len(<<NL>>) = 1 /\ <<NL>>[1] = NL BY <3>1
    <3>3. /\ f \o <<NL>> \in Seq(C) /\ Len(f \o <<NL>>) = Len(f) + Len(<<NL>>)
          /\ \A x \in 1 .. Len(f) + Len(<<NL>>) :
               (f \o <<NL>>)[x] = IF x <= Len(f) THEN f[x] ELSE <<NL>>[x - Len(f)]
      BY <3>2, ConcatProperties
    <3>4. PICK y \in Nat : y = a + m OBVIOUS
    <3>5. y + 1 \in 1 .. y + 1 /\ ~(y + 1 <= y) /\ (y + 1) - y = 1 OBVIOUS
    <3>5a. Len(f) = y BY <2>6, <3>4
    <3>6. (f \o <<NL>>)[y + 1] = <<NL>>[1]
      <4>1. (f \o <<NL>>)[y + 1] = IF y + 1 <= y THEN f[y + 1] ELSE <<NL>>[(y + 1) - y]
        BY <3>2, <3>3, <3>5, <3>5a
      <4> QED BY <3>5, <4>1
    <3>7. \A x \in 1 .. m : a + x \in 1 .. y + 1 /\ a + x <= y BY <3>4
    <3>8. \A x \in 1 .. m : (f \o <<NL>>)[a + x] = f[a + x] BY <2>6, <3>2, <3>3, <3>4, <3>7
    <3> QED BY <2>6, <3>2, <3>3, <3>4, <3>6, <3>8, ZenonT(60)
  <2>8. g = w[o[k + 1]] BY <2>4, <2>6, <2>7
  <2>9. q[k] = a /\ q[k + 1] = a + m + 1 BY <1>15, <2>1, <2>2, <2>5, <2>7, <2>8
  <2>10. a + m + 1 <= e BY <1>18, <2>1, <2>9
  <2>11. \A x \in 1 .. a + m + 1 : out[x] = g[x] BY <1>8a, <1>9, <1>16, <2>1, <2>7, <2>8, SMTT(60)
  <2>12. \A x \in 1 .. a + m + 1 : c[x - 1] = g[x]
    <3> SUFFICES ASSUME NEW x \in 1 .. a + m + 1 PROVE c[x - 1] = g[x] OBVIOUS
    <3>1. x - 1 \in 0 .. e - 1 /\ (x - 1) + 1 = x BY <2>10
    <3> QED BY <1>21, <2>11, <3>1
  <2>13. c[(a + m + 1) - 1] = NL
    <3>1. a + m + 1 \in 1 .. a + m + 1 OBVIOUS
    <3> QED BY <2>7, <2>12, <3>1
  <2>14. \A j \in 1 .. m : c[a + j - 1] = s[j]
    <3> SUFFICES ASSUME NEW j \in 1 .. m PROVE c[a + j - 1] = s[j] OBVIOUS
    <3>1. a + j \in 1 .. a + m + 1 OBVIOUS
    <3>2. c[(a + j) - 1] = g[a + j] BY <2>12, <3>1
    <3>3. g[a + j] = s[j] BY <2>7
    <3>4. (a + j) - 1 = a + j - 1 OBVIOUS
    <3> HIDE DEF out
    <3> QED BY <3>2, <3>3, <3>4
  <2> QED BY <2>3, <2>5, <2>9, <2>13, <2>14 DEF Laid
<1>24. q[1] = 0
  <2>1. 1 \in 1 .. l + 1 /\ o[1] = 0 BY <1>1 DEF Layout
  <2> QED BY <1>10, <1>15, <2>1, EmptySeq
<1>25. c[q[l + 1]] = NUL
  <2>1. l + 1 \in 1 .. l + 1 BY <1>1
  <2> QED BY <1>3, <1>8a, <1>15, <1>17, <1>22, <2>1
<1>26. l \in 1 .. EditMaxLines - 1 BY <1>1 DEF Layout
<1>27. Layout(c, u, q) BY <1>12, <1>19, <1>23, <1>24, <1>25, <1>26 DEF Layout
<1> QED BY <1>27 DEF c, u, out


-----------------------------------------------------------------------------
(* The lines as the user made them are where the buffer has them.          *)
Drawn(b, t) == \E o : Layout(b, t, o)

TextIn(t, at, x) == IF at >= Len(t) THEN Append(t, x) ELSE InsertAt(t, at + 1, x)
TextOut(t, k) == IF k <= Len(t) THEN Rest(t, k) ELSE t
TextFor(t, k, x) == IF k <= Len(t) THEN ReplaceAt(t, k, x) ELSE t

LEMMA AppendIs ==
  ASSUME NEW S, NEW s \in Seq(S), NEW x \in S
  PROVE  Append(s, x) \in Seq(S) /\ OneIn(s, Append(s, x), Len(s) + 1, x)
<1>1. PICK l \in Nat : l = Len(s) OBVIOUS
<1>2. /\ Append(s, x) \in Seq(S) /\ Len(Append(s, x)) = l + 1
      /\ \A i \in 1 .. l : Append(s, x)[i] = s[i]
      /\ Append(s, x)[l + 1] = x
  BY <1>1, AppendProperties
<1> DEFINE u == Append(s, x)
<1> HIDE DEF u
<1>3. Len(u) = l + 1 /\ (\A i \in 1 .. l : u[i] = s[i]) /\ u[l + 1] = x BY <1>2 DEF u
<1>4. \A j \in 1 .. (l + 1) - 1 : u[j] = s[j] BY <1>3
<1>5. \A j \in l + 1 .. l : u[j + 1] = s[j] OBVIOUS
<1>6. OneIn(s, u, l + 1, x) BY <1>1, <1>3, <1>4, <1>5 DEF OneIn
<1> QED BY <1>1, <1>2, <1>6 DEF u

LEMMA TextInIs ==
  ASSUME NEW S, NEW t \in Seq(S), NEW at \in Nat, NEW x \in S
  PROVE  /\ TextIn(t, at, x) \in Seq(S)
         /\ (IF at >= Len(t) THEN Len(t) ELSE at) + 1 \in 1 .. Len(t) + 1
         /\ OneIn(t, TextIn(t, at, x), (IF at >= Len(t) THEN Len(t) ELSE at) + 1, x)
<1>1. PICK l \in Nat : l = Len(t) OBVIOUS
<1>2. CASE at >= l
  <2>1. l + 1 \in 1 .. l + 1 OBVIOUS
  <2>2. Append(t, x) \in Seq(S) /\ OneIn(t, Append(t, x), Len(t) + 1, x) BY AppendIs
  <2> QED BY <1>1, <1>2, <2>1, <2>2 DEF TextIn
<1>3. CASE ~(at >= l)
  <2>1. at + 1 \in 1 .. Len(t) + 1 BY <1>1, <1>3
  <2>2. InsertAt(t, at + 1, x) \in Seq(S) /\ OneIn(t, InsertAt(t, at + 1, x), at + 1, x)
    BY <2>1, InsertAtIs
  <2> QED BY <1>1, <1>3, <2>1, <2>2 DEF TextIn
<1> QED BY <1>2, <1>3

LEMMA RestIs ==
  ASSUME NEW t \in Seq(Seq(Letters)), NEW k \in 1 .. Len(t)
  PROVE  Rest(t, k) \in Seq(Seq(Letters))
<1>1. RemoveAt(t, k) \in Seq(Seq(Letters)) BY RemoveAtIs
<1>2. <<>> \in Seq(Letters) OBVIOUS
<1>3. << <<>> >> \in Seq(Seq(Letters)) BY <1>2
<1> QED BY <1>1, <1>3 DEF Rest

LEMMA ReplaceAtIs ==
  ASSUME NEW t \in Seq(Seq(Letters)), NEW k \in 1 .. Len(t), NEW x \in Seq(Letters)
  PROVE  /\ ReplaceAt(t, k, x) \in Seq(Seq(Letters))
         /\ OneIn(RemoveAt(t, k), ReplaceAt(t, k, x), k, x)
<1>1. PICK l \in Nat : l = Len(t) OBVIOUS
<1> DEFINE u == [t EXCEPT ![k] = x]
           r == RemoveAt(t, k)
<1>2. u \in Seq(Seq(Letters)) /\ Len(u) = l /\ u[k] = x /\ \A j \in 1 .. l : j # k => u[j] = t[j]
  BY <1>1, ExceptSeq
<1>3. r \in Seq(Seq(Letters)) /\ OneOut(t, r, k) BY RemoveAtIs
<1>4. k \in Int /\ 1 <= k /\ k <= l BY <1>1
<1> HIDE DEF u, r
<1>5. /\ Len(r) = l - 1 /\ \A j \in 1 .. k - 1 : r[j] = t[j]
      /\ \A j \in k .. l - 1 : r[j] = t[j + 1]
  BY <1>1, <1>3 DEF OneOut
<1>6. Len(u) = (l - 1) + 1 BY <1>2, <1>4
<1>7. ASSUME NEW j \in 1 .. k - 1 PROVE u[j] = r[j]
  <2>1. j \in 1 .. l /\ j # k BY <1>4
  <2> QED BY <1>2, <1>5, <2>1
<1>8. ASSUME NEW j \in k .. l - 1 PROVE u[j + 1] = r[j]
  <2>1. j + 1 \in 1 .. l /\ j + 1 # k BY <1>4
  <2> QED BY <1>2, <1>5, <2>1
<1>9. OneIn(r, u, k, x) BY <1>2, <1>5, <1>6, <1>7, <1>8 DEF OneIn
<1> QED BY <1>2, <1>9 DEF u, r, ReplaceAt

(* An insertion.                                                           *)
LEMMA InsertDrawn ==
  ASSUME NEW b, Buffer(b), NEW t \in Seq(Seq(Letters)), NEW x \in Seq(Letters), NEW at \in Nat, Room(b, x)
  PROVE  /\ Buffer(Inserted(b, at, x)) /\ TextIn(t, at, x) \in Seq(Seq(Letters))
         /\ Drawn(b, t) /\ ~Spoils(b, x) => Drawn(Inserted(b, at, x), TextIn(t, at, x))
<1>1. Buffer(Inserted(b, at, x)) BY InsertedCells
<1>2. /\ TextIn(t, at, x) \in Seq(Seq(Letters))
      /\ (IF at >= Len(t) THEN Len(t) ELSE at) + 1 \in 1 .. Len(t) + 1
      /\ OneIn(t, TextIn(t, at, x), (IF at >= Len(t) THEN Len(t) ELSE at) + 1, x)
  BY TextInIs
<1>3. ASSUME Drawn(b, t), ~Spoils(b, x) PROVE Drawn(Inserted(b, at, x), TextIn(t, at, x))
  <2>1. PICK o : Layout(b, t, o) BY <1>3 DEF Drawn
  <2> DEFINE p == (IF at >= Len(t) THEN Len(t) ELSE at) + 1
             u == TextIn(t, at, x)
  <2>2. u \in Seq(Seq(Letters)) /\ p \in 1 .. Len(t) + 1 /\ OneIn(t, u, p, x) BY <1>2
  <2>3. p = (IF at >= Len(t) THEN Len(t) ELSE at) + 1 OBVIOUS
  <2> HIDE DEF p, u
  <2>4. \E q : Layout(Inserted(b, at, x), u, q) BY <1>3, <2>1, <2>2, <2>3, InsertedLaid
  <2> QED BY <2>4 DEF Drawn, u
<1> QED BY <1>1, <1>2, <1>3

(* A deletion.                                                             *)
LEMMA DeleteDrawn ==
  ASSUME NEW b, Buffer(b), NEW t \in Seq(Seq(Letters)), NEW k \in 1 .. Len(Offs(b))
  PROVE  /\ Buffer(Deleted(b, k)) /\ TextOut(t, k) \in Seq(Seq(Letters))
         /\ Drawn(b, t) => Drawn(Deleted(b, k), TextOut(t, k)) /\ k \in 1 .. Len(t)
                           /\ Len(t) = Len(Offs(b))
<1>1. Buffer(Deleted(b, k)) BY DeletedCells
<1>2. TextOut(t, k) \in Seq(Seq(Letters))
  <2>1. PICK l \in Nat : l = Len(t) OBVIOUS
  <2>2. k \in Nat /\ k >= 1
    <3>1. PICK n \in 1 .. EditMaxLines - 1 : n = Len(Offs(b)) BY TableIs DEF Tabled
    <3> QED BY <3>1, EditConstants
  <2>3. CASE k <= l
    <3>1. k \in 1 .. Len(t) BY <2>1, <2>2, <2>3
    <3> QED BY <2>1, <2>3, <3>1, RestIs DEF TextOut
  <2>4. CASE ~(k <= l) BY <2>1, <2>4 DEF TextOut
  <2> QED BY <2>3, <2>4
<1>3. ASSUME Drawn(b, t)
      PROVE  Drawn(Deleted(b, k), TextOut(t, k)) /\ k \in 1 .. Len(t) /\ Len(t) = Len(Offs(b))
  <2>1. PICK o : Layout(b, t, o) BY <1>3 DEF Drawn
  <2>2. Len(Offs(b)) = Len(t) BY <2>1, LayoutLines
  <2>3. k \in 1 .. Len(t) BY <2>2
  <2>4. \E q : Layout(Deleted(b, k), Rest(t, k), q) BY <2>1, <2>3, DeletedLaid
  <2>5. TextOut(t, k) = Rest(t, k) BY <2>3 DEF TextOut
  <2> QED BY <2>2, <2>3, <2>4, <2>5 DEF Drawn
<1> QED BY <1>1, <1>2, <1>3

(* A deletion and an insertion in its place.                               *)
LEMMA ReplaceDrawn ==
  ASSUME NEW b, Buffer(b), NEW t \in Seq(Seq(Letters)), NEW k \in 1 .. Len(Offs(b)),
         NEW x \in Seq(Letters), Room(Deleted(b, k), x)
  PROVE  /\ Buffer(Inserted(Deleted(b, k), k - 1, x)) /\ TextFor(t, k, x) \in Seq(Seq(Letters))
         /\ Drawn(b, t) /\ Len(Offs(b)) # 1 /\ ~Spoils(Deleted(b, k), x) =>
              Drawn(Inserted(Deleted(b, k), k - 1, x), TextFor(t, k, x))
<1> DEFINE cut == Deleted(b, k)
<1>1. /\ Buffer(cut)
      /\ Drawn(b, t) => Drawn(cut, TextOut(t, k)) /\ k \in 1 .. Len(t) /\ Len(t) = Len(Offs(b))
  BY DeleteDrawn
<1>2. Room(cut, x) OBVIOUS
<1>3. k \in Nat /\ k - 1 \in Nat
  <2>1. PICK n \in 1 .. EditMaxLines - 1 : n = Len(Offs(b)) BY TableIs DEF Tabled
  <2> QED BY <2>1, EditConstants
<1> HIDE DEF cut
<1>4. Buffer(Inserted(cut, k - 1, x)) BY <1>1, <1>2, <1>3, InsertedCells
<1>5. TextFor(t, k, x) \in Seq(Seq(Letters))
  <2>1. PICK l \in Nat : l = Len(t) OBVIOUS
  <2>2. CASE k <= l
    <3>1. k \in 1 .. Len(t) BY <1>3, <2>1, <2>2
    <3> QED BY <2>1, <2>2, <3>1, ReplaceAtIs DEF TextFor
  <2>3. CASE ~(k <= l) BY <2>1, <2>3 DEF TextFor
  <2> QED BY <2>2, <2>3
<1>6. ASSUME Drawn(b, t), Len(Offs(b)) # 1, ~Spoils(cut, x)
      PROVE  Drawn(Inserted(cut, k - 1, x), TextFor(t, k, x))
  <2>1. k \in 1 .. Len(t) /\ Len(t) # 1 BY <1>1, <1>6
  <2> DEFINE r == RemoveAt(t, k)
             u == ReplaceAt(t, k, x)
  <2>2. r \in Seq(Seq(Letters)) /\ Len(r) = Len(t) - 1 BY <2>1, RemoveAtIs DEF OneOut
  <2>3. u \in Seq(Seq(Letters)) /\ OneIn(r, u, k, x) BY <2>1, ReplaceAtIs
  <2>4. TextOut(t, k) = r /\ TextFor(t, k, x) = u BY <2>1 DEF TextOut, TextFor, Rest
  <2> HIDE DEF r, u
  <2>5. PICK o : Layout(cut, r, o) BY <1>1, <1>6, <2>4 DEF Drawn
  <2>6. PICK l \in Nat : l = Len(t) OBVIOUS
  <2>7. PICK m \in Nat : m = Len(r) BY <2>2
  <2>8. m = l - 1 BY <2>2, <2>6, <2>7
  <2>9. k \in 1 .. m + 1 /\ k = (IF k - 1 >= m THEN m ELSE k - 1) + 1 BY <2>1, <2>6, <2>8
  <2>10. k \in 1 .. Len(r) + 1 /\ k = (IF k - 1 >= Len(r) THEN Len(r) ELSE k - 1) + 1 BY <2>7, <2>9
  <2>11. \E q : Layout(Inserted(cut, k - 1, x), u, q)
    BY <1>1, <1>2, <1>3, <1>6, <2>3, <2>5, <2>10, InsertedLaid
  <2> QED BY <2>4, <2>11 DEF Drawn
<1> QED BY <1>4, <1>5, <1>6 DEF cut

(* A substitution.                                                         *)
LEMMA SubstituteDrawn ==
  ASSUME NEW b, Buffer(b), NEW t \in Seq(Seq(Letters)),
         NEW heap, NEW old, NEW new, Substitution(heap, old, new),
         NEW c, c = Filled(b, Replaced(Kept(b), heap, old, new))
  PROVE  /\ c \in [Places -> Chars] /\ TextBy(t, old, new) \in Seq(Seq(Letters))
         /\ Len(Replaced(Kept(b), heap, old, new)) < EditMaxSize =>
              Buffer(c) /\ (Drawn(b, t) => Drawn(c, TextBy(t, old, new)))
<1> DEFINE out == Replaced(Kept(b), heap, old, new)
<1>1. out \in Seq(Letters \cup {NL}) BY SubstitutedTyped
<1>2. b \in [Places -> Chars] /\ b[EditMaxSize - 1] = NUL BY DEF Buffer
<1>3. c \in [Places -> Chars] /\ (Len(out) < EditMaxSize => Buffer(c))
  <2> HIDE DEF out
  <2>1. c = Filled(b, out) BY DEF out
  <2> QED BY <1>1, <1>2, <2>1, FilledTyped
<1>4. TextBy(t, old, new) \in Seq(Seq(Letters)) BY TextByTyped DEF Substitution
<1>5. ASSUME Len(out) < EditMaxSize, Drawn(b, t) PROVE Drawn(c, TextBy(t, old, new))
  <2>1. PICK o : Layout(b, t, o) BY <1>5 DEF Drawn
  <2>2. \E q : Layout(Filled(b, out), TextBy(t, old, new), q) BY <1>5, <2>1, SubstitutedLaid
  <2> QED BY <2>2 DEF Drawn
<1> QED BY <1>3, <1>4, <1>5

(* An insertion and a deletion write no further than the buffer goes.      *)
LEMMA RoomFits ==
  ASSUME NEW b, Buffer(b), NEW x \in Seq(Letters), Room(b, x)
  PROVE  Total(b) + Len(x) \in Nat /\ Total(b) + Len(x) < EditMaxSize
<1>1. PICK n \in Nat : n = Len(x) OBVIOUS
<1>2. PICK end \in Nat : end = Total(b) BY TableIs, EditConstants DEF Tabled
<1>3. end + n + 1 < EditMaxSize BY <1>1, <1>2 DEF Room
<1> QED BY <1>1, <1>2, <1>3, EditConstants

LEMMA DeletedTopFits ==
  ASSUME NEW b, Buffer(b), NEW k \in 1 .. Len(Offs(b))
  PROVE  DeletedTop(b, k) \in Nat /\ DeletedTop(b, k) < EditMaxSize
<1>1. Tabled(b) BY TableIs
<1>2. PICK n \in 1 .. EditMaxLines - 1 : n = Len(Offs(b))
  <2>1. Len(Offs(b)) \in 1 .. EditMaxLines - 1 BY <1>1 DEF Tabled
  <2> QED BY <2>1
<1>3. k \in 1 .. n /\ k \in Nat BY <1>2, EditConstants
<1>4. PICK start, end, total \in Nat : start = Offs(b)[k] /\ end = Beyond(b, k) /\ total = Total(b)
  BY <1>1, <1>2, <1>3, EditConstants DEF Tabled
<1>5. start <= end /\ end <= total /\ total < EditMaxSize
  <2>1. start <= end /\ end <= total BY <1>1, <1>2, <1>3, <1>4 DEF Tabled
  <2>2. total \in Places BY <1>1, <1>4 DEF Tabled
  <2> QED BY <2>1, <2>2, EditConstants DEF Places
<1>6. DeletedTop(b, k) = IF n = 1 THEN 1 ELSE total - (end - start) BY <1>2, <1>4 DEF DeletedTop
<1>7. total - (end - start) \in Nat /\ total - (end - start) < EditMaxSize BY <1>5, EditConstants
<1>8. 1 \in Nat /\ 1 < EditMaxSize BY EditConstants
<1> QED BY <1>6, <1>7, <1>8

(* The editor as it always is.                                             *)
EditorInv ==
  /\ EditorTypeOK
  /\ overrun \notin {"insert", "delete"}
  /\ overrun = "no" => Buffer(buf)
  /\ editing /\ ~spoilt /\ overrun = "no" => Drawn(buf, text)

LEMMA BlankIs == Buffer(Blank)
BY EditConstants DEF Buffer, Blank, Chars

LEMMA EditorInitInv == EditorInit => EditorInv
<1> SUFFICES ASSUME EditorInit PROVE EditorInv OBVIOUS
<1>1. Buffer(buf) BY BlankIs DEF EditorInit
<1>2. file \in Seq(Letters \cup {NL}) BY EditorAssumption DEF EditorInit
<1>3. text \in Seq(Seq(Letters)) BY DEF EditorInit
<1>4. edits \in 0 .. MaxEdits BY EditConstants DEF EditorInit
<1>5. {editing, dirty, spoilt} \subseteq BOOLEAN /\ ~editing /\ overrun = "no" BY DEF EditorInit
<1> QED BY <1>1, <1>2, <1>3, <1>4, <1>5 DEF EditorInv, EditorTypeOK, Buffer

(* A change keeps it when the new text is a text, it writes behind the     *)
(* buffer only if it is a substitution, and the text is drawn if the one   *)
(* before was and nothing is spoilt.                                       *)
LEMMA ChangeKeeps ==
  ASSUME EditorInv, overrun = "no", NEW b, NEW t, NEW s \in BOOLEAN, Change(b, t, s),
         NEW top \in Nat, NEW command \in {"insert", "delete", "substitute"}, Writes(top, command),
         b \in [Places -> Chars], t \in Seq(Seq(Letters)),
         top < EditMaxSize \/ command = "substitute",
         top < EditMaxSize => Buffer(b) /\ (Drawn(buf, text) /\ ~s => Drawn(b, t))
  PROVE  EditorInv'
<1>1. EditorTypeOK BY DEF EditorInv
<1>2. /\ editing /\ edits < MaxEdits /\ edits' = edits + 1 /\ buf' = b /\ dirty' = TRUE /\ text' = t
      /\ spoilt' = (spoilt \/ s) /\ editing' = editing /\ file' = file
  BY DEF Change
<1>3. edits' \in 0 .. MaxEdits BY <1>1, <1>2, EditConstants DEF EditorTypeOK
<1>4. editing' \in BOOLEAN /\ dirty' \in BOOLEAN BY <1>1, <1>2 DEF EditorTypeOK
<1>5. spoilt' \in BOOLEAN
  <2>1. spoilt \in BOOLEAN BY <1>1 DEF EditorTypeOK
  <2> QED BY <1>2, <2>1
<1>6. /\ overrun' \in {"no", "substitute"}
      /\ overrun' = "no" => top < EditMaxSize
  <2>1. overrun' = IF top >= EditMaxSize THEN command ELSE "no" BY DEF Writes
  <2>2. CASE top < EditMaxSize
    <3>1. ~(top >= EditMaxSize) BY <2>2, EditConstants
    <3> QED BY <2>1, <2>2, <3>1
  <2>3. CASE ~(top < EditMaxSize)
    <3>1. top >= EditMaxSize /\ command = "substitute" BY <2>3, EditConstants
    <3> QED BY <2>1, <3>1
  <2> QED BY <2>2, <2>3
<1>7. EditorTypeOK'
  <2>1. file' \in Seq(Letters \cup {NL}) BY <1>1, <1>2 DEF EditorTypeOK
  <2>2. text' \in Seq(Seq(Letters)) BY <1>2
  <2> QED BY <1>2, <1>3, <1>4, <1>5, <1>6, <2>1, <2>2 DEF EditorTypeOK
<1>8. (overrun = "no" => Buffer(buf))' BY <1>2, <1>6 DEF Buffer, Places
<1>9. (editing /\ ~spoilt /\ overrun = "no" => Drawn(buf, text))'
  <2> SUFFICES ASSUME ~(spoilt'), overrun' = "no" PROVE Drawn(buf, text)' OBVIOUS
  <2>1. ~spoilt /\ ~s BY <1>2
  <2>2. Drawn(buf, text) BY <1>2, <2>1 DEF EditorInv
  <2>3. Drawn(b, t) BY <1>6, <2>1, <2>2
  <2> QED BY <1>2, <2>3 DEF Drawn, Layout, Laid, Places
<1> QED BY <1>6, <1>7, <1>8, <1>9 DEF EditorInv

LEMMA InsertKeeps ==
  ASSUME EditorInv, overrun = "no", NEW at \in Nat, NEW x \in Seq(Letters), Insert(at, x)
  PROVE  EditorInv'
<1>1. Buffer(buf) /\ text \in Seq(Seq(Letters)) BY DEF EditorInv, EditorTypeOK
<1>2. /\ Room(buf, x) /\ Change(Inserted(buf, at, x), TextIn(text, at, x), Spoils(buf, x))
      /\ Writes(Total(buf) + Len(x), "insert")
  BY DEF Insert, TextIn
<1>3. /\ Buffer(Inserted(buf, at, x)) /\ TextIn(text, at, x) \in Seq(Seq(Letters))
      /\ Drawn(buf, text) /\ ~Spoils(buf, x) => Drawn(Inserted(buf, at, x), TextIn(text, at, x))
  BY <1>1, <1>2, InsertDrawn
<1>4. Spoils(buf, x) \in BOOLEAN BY DEF Spoils
<1>5. Total(buf) + Len(x) \in Nat /\ Total(buf) + Len(x) < EditMaxSize BY <1>1, <1>2, RoomFits
<1>6. Inserted(buf, at, x) \in [Places -> Chars] BY <1>3 DEF Buffer
<1> QED BY <1>2, <1>3, <1>4, <1>5, <1>6, ChangeKeeps

LEMMA EditDeleteKeeps ==
  ASSUME EditorInv, overrun = "no", NEW ln \in 1 .. EditMaxLines, EditDelete(ln)
  PROVE  EditorInv'
<1>1. Buffer(buf) /\ text \in Seq(Seq(Letters)) BY DEF EditorInv, EditorTypeOK
<1>2. /\ Change(Deleted(buf, ln), TextOut(text, ln), FALSE) /\ Writes(DeletedTop(buf, ln), "delete")
  BY DEF EditDelete, TextOut, Without, Rest
<1>3. ln \in 1 .. Len(Offs(buf))
  <2>1. PICK n \in 1 .. EditMaxLines - 1 : n = Len(Offs(buf)) BY <1>1, TableIs DEF Tabled
  <2> QED BY <2>1, EditConstants DEF EditDelete
<1>4. /\ Buffer(Deleted(buf, ln)) /\ TextOut(text, ln) \in Seq(Seq(Letters))
      /\ Drawn(buf, text) => Drawn(Deleted(buf, ln), TextOut(text, ln))
  BY <1>1, <1>3, DeleteDrawn
<1>5. DeletedTop(buf, ln) \in Nat /\ DeletedTop(buf, ln) < EditMaxSize BY <1>1, <1>3, DeletedTopFits
<1>6. Deleted(buf, ln) \in [Places -> Chars] BY <1>4 DEF Buffer
<1> QED BY <1>2, <1>4, <1>5, <1>6, ChangeKeeps

LEMMA EditReplaceKeeps ==
  ASSUME EditorInv, overrun = "no", NEW ln \in 1 .. EditMaxLines, NEW x \in Seq(Letters), EditReplace(ln, x)
  PROVE  EditorInv'
<1>1. Buffer(buf) /\ text \in Seq(Seq(Letters)) BY DEF EditorInv, EditorTypeOK
<1>2. ln \in 1 .. Len(Offs(buf))
  <2>1. PICK n \in 1 .. EditMaxLines - 1 : n = Len(Offs(buf)) BY <1>1, TableIs DEF Tabled
  <2> QED BY <2>1, EditConstants DEF EditReplace
<1> DEFINE cut == Deleted(buf, ln)
<1>3. CASE Room(cut, x)
  <2>1. /\ Change(Inserted(cut, ln - 1, x), TextFor(text, ln, x), Len(Offs(buf)) = 1 \/ Spoils(cut, x))
        /\ Writes(Total(cut) + Len(x), "insert")
    BY <1>3 DEF EditReplace, TextFor
  <2>2. /\ Buffer(Inserted(cut, ln - 1, x)) /\ TextFor(text, ln, x) \in Seq(Seq(Letters))
        /\ Drawn(buf, text) /\ Len(Offs(buf)) # 1 /\ ~Spoils(cut, x) =>
             Drawn(Inserted(cut, ln - 1, x), TextFor(text, ln, x))
    BY <1>1, <1>2, <1>3, ReplaceDrawn
  <2>3. Buffer(cut) BY <1>1, <1>2, DeleteDrawn
  <2> DEFINE s == Len(Offs(buf)) = 1 \/ Spoils(cut, x)
             c == Inserted(cut, ln - 1, x)
             top == Total(cut) + Len(x)
  <2>4. s \in BOOLEAN OBVIOUS
  <2>5. Drawn(buf, text) /\ ~s => Drawn(c, TextFor(text, ln, x)) BY <2>2
  <2>6. Change(c, TextFor(text, ln, x), s) /\ Writes(top, "insert") BY <2>1
  <2>7. c \in [Places -> Chars] /\ Buffer(c) BY <2>2 DEF Buffer
  <2>8. top \in Nat /\ top < EditMaxSize
    <3> HIDE DEF cut
    <3> QED BY <1>3, <2>3, RoomFits
  <2> HIDE DEF s, c, top, cut
  <2> QED BY <2>2, <2>4, <2>5, <2>6, <2>7, <2>8, ChangeKeeps
<1>4. CASE ~Room(cut, x)
  <2>1. Change(cut, TextOut(text, ln), FALSE) /\ Writes(DeletedTop(buf, ln), "delete")
    BY <1>4 DEF EditReplace, TextOut, Without, Rest
  <2>2. /\ Buffer(cut) /\ TextOut(text, ln) \in Seq(Seq(Letters))
        /\ Drawn(buf, text) => Drawn(cut, TextOut(text, ln))
    BY <1>1, <1>2, DeleteDrawn
  <2>3. DeletedTop(buf, ln) \in Nat /\ DeletedTop(buf, ln) < EditMaxSize BY <1>1, <1>2, DeletedTopFits
  <2>4. cut \in [Places -> Chars] BY <2>2 DEF Buffer
  <2> HIDE DEF cut
  <2> QED BY <2>1, <2>2, <2>3, <2>4, ChangeKeeps
<1> QED BY <1>3, <1>4

LEMMA EditSubstituteKeeps ==
  ASSUME EditorInv, overrun = "no", NEW old \in Olds, NEW new \in Texts, EditSubstitute(old, new)
  PROVE  EditorInv'
<1>1. Buffer(buf) /\ text \in Seq(Seq(Letters)) BY DEF EditorInv, EditorTypeOK
<1>2. old \in Seq(Letters) \ {<<>>} /\ new \in Seq(Letters) BY EditorAssumption
<1>3. PICK heap \in [1 .. Len(old) - 1 -> Chars] :
        /\ Change(Filled(buf, Replaced(Kept(buf), heap, old, new)), TextBy(text, old, new), FALSE)
        /\ Writes(Len(Replaced(Kept(buf), heap, old, new)), "substitute")
  BY DEF EditSubstitute, TextBy
<1>4. Substitution(heap, old, new)
  <2>1. PICK n \in Nat : n = Len(old) - 1
    <3>1. Len(old) # 0 BY <1>2, EmptySeq
    <3>2. Len(old) \in Nat BY <1>2
    <3>3. Len(old) - 1 \in Nat BY <3>1, <3>2
    <3> QED BY <3>3
  <2>2. heap \in Seq(Chars) BY <2>1
  <2> QED BY <1>2, <2>2 DEF Substitution
<1> DEFINE out == Replaced(Kept(buf), heap, old, new)
           c == Filled(buf, out)
           u == TextBy(text, old, new)
           top == Len(out)
<1>5. /\ c \in [Places -> Chars] /\ top \in Nat /\ u \in Seq(Seq(Letters))
      /\ top < EditMaxSize => Buffer(c) /\ (Drawn(buf, text) => Drawn(c, u))
  <2>1. out \in Seq(Letters \cup {NL}) BY <1>1, <1>4, SubstitutedTyped
  <2>2. top \in Nat
    <3> HIDE DEF out
    <3> QED BY <2>1
  <2> QED BY <1>1, <1>4, <2>2, SubstituteDrawn
<1>6. Change(c, u, FALSE) /\ Writes(top, "substitute") BY <1>3
<1> HIDE DEF c, u, top, out
<1> QED BY <1>5, <1>6, ChangeKeeps

LEMMA EditOpenKeeps ==
  ASSUME EditorInv, EditOpen
  PROVE  EditorInv'
<1>1. EditorTypeOK /\ overrun \notin {"insert", "delete"} BY DEF EditorInv
<1> DEFINE whole == Loaded(file)
           b == Filled(Blank, whole)
<1>2. /\ editing' = TRUE /\ buf' = b /\ dirty' = FALSE /\ text' = IF overrun' = "no" THEN Lines(b) ELSE <<>>
      /\ spoilt' = FALSE /\ file' = file /\ edits' = edits
      /\ overrun' = IF overrun = "no" /\ Len(whole) >= EditMaxSize THEN "open" ELSE overrun
  BY DEF EditOpen, Writes
<1>3. file \in Seq(Letters \cup {NL}) BY <1>1 DEF EditorTypeOK
<1>4. whole \in Seq(Letters \cup {NL}) /\ Len(whole) \in Nat
  <2>1. Loaded(file) \in Seq(Letters \cup {NL}) BY <1>3, LoadedIs
  <2> QED BY <2>1
<1>5. Len(whole) < EditMaxSize => Buffer(b) /\ Drawn(b, Lines(b)) BY <1>3, LoadedLaid DEF Drawn
<1>6. b \in [Places -> Chars]
  <2> HIDE DEF whole
  <2>1. Blank \in [Places -> Chars] BY BlankIs DEF Buffer
  <2> QED BY <1>4, <2>1, FilledTyped
<1> HIDE DEF whole, b
<1>7. /\ overrun' \in {"no", "open", "insert", "delete", "substitute"} \ {"insert", "delete"}
      /\ overrun' = "no" => Len(whole) < EditMaxSize
  <2>1. overrun \in {"no", "open", "insert", "delete", "substitute"} BY <1>1 DEF EditorTypeOK
  <2>2. Len(whole) >= EditMaxSize \/ Len(whole) < EditMaxSize BY <1>4, EditConstants
  <2> QED BY <1>1, <1>2, <2>1, <2>2
<1>8. text' \in Seq(Seq(Letters))
  <2>1. CASE overrun' = "no"
    <3>1. Drawn(b, Lines(b)) BY <1>5, <1>7, <2>1
    <3>2. Lines(b) \in Seq(Seq(Letters)) BY <3>1 DEF Drawn, Layout
    <3> QED BY <1>2, <2>1, <3>2
  <2>2. CASE overrun' # "no" BY <1>2, <2>2
  <2> QED BY <2>1, <2>2
<1>9. EditorTypeOK'
  <2>1. file' \in Seq(Letters \cup {NL}) /\ edits' \in 0 .. MaxEdits BY <1>1, <1>2 DEF EditorTypeOK
  <2> QED BY <1>2, <1>6, <1>7, <1>8, <2>1 DEF EditorTypeOK
<1>10. (overrun = "no" => Buffer(buf))' BY <1>2, <1>5, <1>7 DEF Buffer, Places
<1>11. ASSUME overrun' = "no" PROVE Drawn(buf, text)'
  <2>1. PICK c, t : c = b /\ t = Lines(b) OBVIOUS
  <2>2. Drawn(c, t) /\ buf' = c /\ text' = t BY <1>2, <1>5, <1>7, <1>11, <2>1
  <2>3. PICK o : Layout(c, t, o) BY <2>2 DEF Drawn
  <2>4. Layout(buf, text, o)' BY <2>2, <2>3 DEF Layout, Laid, Places
  <2> QED BY <2>4 DEF Drawn
<1> QED BY <1>7, <1>9, <1>10, <1>11 DEF EditorInv

LEMMA LeaveKeeps ==
  ASSUME EditorInv, Leave, dirty' \in BOOLEAN, spoilt' = spoilt, overrun' = overrun, edits' = edits,
         file' \in Seq(Letters \cup {NL})
  PROVE  EditorInv'
<1>1. EditorTypeOK BY DEF EditorInv
<1>2. editing' = FALSE /\ buf' = Blank /\ text' = <<>> BY DEF Leave
<1>3. Buffer(Blank) BY BlankIs
<1>4. EditorTypeOK'
  <2>1. buf' \in [Places -> Chars] BY <1>2, <1>3 DEF Buffer
  <2>2. spoilt' \in BOOLEAN /\ edits' \in 0 .. MaxEdits BY <1>1 DEF EditorTypeOK
  <2>3. overrun' \in {"no", "open", "insert", "delete", "substitute"} BY <1>1 DEF EditorTypeOK
  <2>4. text' \in Seq(Seq(Letters)) BY <1>2
  <2> QED BY <1>2, <2>1, <2>2, <2>3, <2>4 DEF EditorTypeOK
<1>5. Buffer(buf)' BY <1>2, <1>3 DEF Buffer, Places
<1> QED BY <1>2, <1>4, <1>5 DEF EditorInv

LEMMA EditWriteKeeps ==
  ASSUME EditorInv, overrun = "no", NEW quit \in BOOLEAN, NEW opens \in BOOLEAN, EditWrite(quit, opens)
  PROVE  EditorInv'
<1>1. EditorTypeOK /\ Buffer(buf) BY DEF EditorInv
<1>2. file' \in Seq(Letters \cup {NL}) /\ dirty' \in BOOLEAN
  <2>1. CASE opens
    <3>1. file' = Kept(buf) /\ dirty' = FALSE BY <2>1 DEF EditWrite
    <3>2. Kept(buf) \in Seq(Letters \cup {NL}) BY <1>1, KeptIs
    <3> QED BY <3>1, <3>2
  <2>2. CASE ~opens
    <3>1. file' = file /\ dirty' = dirty BY <2>2 DEF EditWrite
    <3> QED BY <1>1, <3>1 DEF EditorTypeOK
  <2> QED BY <2>1, <2>2
<1>3. spoilt' = spoilt /\ overrun' = overrun /\ edits' = edits BY DEF EditWrite
<1>4. CASE quit \/ ~opens
  <2>1. Leave BY <1>4 DEF EditWrite
  <2> QED BY <1>2, <1>3, <2>1, LeaveKeeps
<1>5. CASE ~(quit \/ ~opens)
  <2>1. editing' = editing /\ buf' = buf /\ text' = text BY <1>5 DEF EditWrite
  <2>2. EditorTypeOK' BY <1>1, <1>2, <1>3, <2>1 DEF EditorTypeOK
  <2>3. Buffer(buf)' BY <1>1, <2>1 DEF Buffer, Places
  <2>4. (editing /\ ~spoilt /\ overrun = "no" => Drawn(buf, text))'
    BY <1>3, <2>1 DEF EditorInv, Drawn, Layout, Laid, Places
  <2>5. (overrun \notin {"insert", "delete"})' BY <1>3 DEF EditorInv
  <2> QED BY <2>2, <2>3, <2>4, <2>5 DEF EditorInv
<1> QED BY <1>4, <1>5

LEMMA EditorStepKeeps == EditorInv /\ [EditorNext]_evars => EditorInv'
<1> SUFFICES ASSUME EditorInv, [EditorNext]_evars PROVE EditorInv' OBVIOUS
<1>1. CASE EditOpen BY <1>1, EditOpenKeeps
<1>2. ASSUME overrun = "no" PROVE \E n \in Nat : n >= 1 /\ n = Len(Offs(buf))
  <2>1. PICK n \in 1 .. EditMaxLines - 1 : n = Len(Offs(buf)) BY <1>2, TableIs DEF Tabled, EditorInv
  <2> QED BY <2>1, EditConstants
<1>3. ASSUME overrun = "no", NEW x \in Texts, EditAppend(x) PROVE EditorInv'
  <2>1. x \in Seq(Letters) BY EditorAssumption
  <2>2. PICK n \in Nat : n >= 1 /\ n = Len(Offs(buf)) BY <1>2, <1>3
  <2>3. Insert(n, x) BY <1>3, <2>2 DEF EditAppend
  <2> QED BY <1>3, <2>1, <2>3, InsertKeeps
<1>4. ASSUME overrun = "no", NEW x \in Texts, NEW ln \in 1 .. EditMaxLines, EditInsert(ln, x) PROVE EditorInv'
  <2>1. x \in Seq(Letters) BY EditorAssumption
  <2>2. PICK n \in Nat : n >= 1 /\ n = Len(Offs(buf)) BY <1>2, <1>4
  <2>3. PICK at \in Nat : at = (IF ln > n THEN n ELSE ln) - 1
    <3>1. ln \in Nat /\ ln >= 1 BY EditConstants
    <3>2. (IF ln > n THEN n ELSE ln) - 1 \in Nat BY <2>2, <3>1
    <3> QED BY <3>2
  <2>4. Insert(at, x) BY <1>4, <2>2, <2>3 DEF EditInsert
  <2> QED BY <1>4, <2>1, <2>4, InsertKeeps
<1>5. ASSUME overrun = "no", NEW x \in Texts, NEW ln \in 1 .. EditMaxLines, EditReplace(ln, x) PROVE EditorInv'
  <2>1. x \in Seq(Letters) BY EditorAssumption
  <2> QED BY <1>5, <2>1, EditReplaceKeeps
<1>6. ASSUME overrun = "no", NEW ln \in 1 .. EditMaxLines, EditDelete(ln) PROVE EditorInv'
  BY <1>6, EditDeleteKeeps
<1>7. ASSUME overrun = "no", NEW old \in Olds, NEW new \in Texts, EditSubstitute(old, new) PROVE EditorInv'
  BY <1>7, EditSubstituteKeeps
<1>8. ASSUME overrun = "no", NEW quit \in BOOLEAN, NEW opens \in BOOLEAN, EditWrite(quit, opens) PROVE EditorInv'
  BY <1>8, EditWriteKeeps
<1>9. CASE EditQuit
  <2>1. Leave /\ dirty' = dirty /\ file' = file /\ spoilt' = spoilt /\ overrun' = overrun /\ edits' = edits
    BY <1>9 DEF EditQuit
  <2>2. dirty \in BOOLEAN /\ file \in Seq(Letters \cup {NL}) BY DEF EditorInv, EditorTypeOK
  <2> QED BY <2>1, <2>2, LeaveKeeps
<1>10. CASE UNCHANGED evars
  <2>1. /\ editing' = editing /\ buf' = buf /\ dirty' = dirty /\ file' = file /\ text' = text
        /\ spoilt' = spoilt /\ overrun' = overrun /\ edits' = edits
    BY <1>10 DEF evars
  <2> QED BY <2>1 DEF EditorInv, EditorTypeOK, Buffer, Drawn, Layout, Laid, Places
<1> QED BY <1>1, <1>3, <1>4, <1>5, <1>6, <1>7, <1>8, <1>9, <1>10 DEF EditorNext, EditCommands

(* Until a file or a substitution has written behind it, the buffer of the *)
(* editor ends in a NUL, and unless the text has been spoilt the lines as  *)
(* the user made them lie one behind the other in it; insertions and       *)
(* deletions never write behind it (cmd_edit).                             *)
THEOREM EditorInductive == EditorSpec => []EditorInv
<1>1. EditorInit => EditorInv BY EditorInitInv
<1>2. EditorInv /\ [EditorNext]_evars => EditorInv' BY EditorStepKeeps
<1> QED BY <1>1, <1>2, PTL DEF EditorSpec

(* Only a file that fills the buffer, or a substitution, ever writes       *)
(* behind it; until then, and unless the text has been spoilt, the lines   *)
(* on the screen of the editor are those the user made, whatever was       *)
(* inserted, replaced, deleted and substituted (editor_rebuild,            *)
(* editor_insert, editor_delete, cmd_edit).                                *)
THEOREM EditsKeptAlways == EditorSpec => []EditsKept
<1>1. EditorInv => EditsKept
  <2> SUFFICES ASSUME EditorInv PROVE EditsKept OBVIOUS
  <2>1. EditorTypeOK /\ overrun \notin {"insert", "delete"} BY DEF EditorInv
  <2>2. ASSUME editing, ~spoilt, overrun = "no" PROVE Lines(buf) = text
    <3>1. Buffer(buf) /\ Drawn(buf, text) BY <2>2 DEF EditorInv
    <3>2. PICK o : Layout(buf, text, o) BY <3>1 DEF Drawn
    <3> QED BY <3>1, <3>2, LayoutLines
  <2> QED BY <2>1, <2>2 DEF EditsKept
<1> QED BY <1>1, EditorInductive, PTL
-----------------------------------------------------------------------------
(* Names and their values.                                                 *)
LEMMA EnvConstants ==
  /\ MaxEnv \in Nat /\ MaxEnv >= 1 /\ EnvNameLen \in Nat /\ EnvNameLen >= 1 /\ EnvValLen \in Nat /\ EnvValLen >= 1
  /\ NameChars \subseteq STRING /\ {Dollar, Open, Close, Space, EndMark} \cap NameChars = {}
  /\ Names \subseteq Seq(NameChars) \ {<<>>} /\ Typed \subseteq Seq(STRING) /\ Behind \subseteq Seq(STRING)
<1>1. {MaxEnv, EnvNameLen, EnvValLen} \subseteq Nat \ {0} BY EnvironmentAssumption
<1>2. /\ MaxEnv \in Nat /\ MaxEnv >= 1 /\ EnvNameLen \in Nat /\ EnvNameLen >= 1 /\ EnvValLen \in Nat /\ EnvValLen >= 1
  BY <1>1
<1>3. NameChars \subseteq STRING \ {Dollar, Open, Close, Space, EndMark} BY EnvironmentAssumption
<1>4. NameChars \subseteq STRING /\ {Dollar, Open, Close, Space, EndMark} \cap NameChars = {} BY <1>3
<1>5. Names \subseteq Seq(NameChars) \ {<<>>} /\ Typed \subseteq Seq(STRING) /\ Behind \subseteq Seq(STRING)
  BY EnvironmentAssumption
<1> QED BY <1>2, <1>4, <1>5

LEMMA SmallestOf ==
  ASSUME NEW T, T \subseteq Nat, T # {}
  PROVE  \E x \in T : \A y \in T : x <= y
<1>1. PICK x \in T : \A y \in T : ~(<<y, x>> \in OpToRel(<, Nat))
  BY WFMin, NatLessThanWellFounded
<1>2. ASSUME NEW y \in T PROVE x <= y
  <2>1. x \in Nat /\ y \in Nat OBVIOUS
  <2>2. y < x => <<y, x>> \in OpToRel(<, Nat)
    <3>1. <<y, x>> \in Nat \X Nat /\ <<y, x>>[1] = y /\ <<y, x>>[2] = x BY <2>1
    <3> QED BY <3>1 DEF OpToRel
  <2>3. ~(<<y, x>> \in OpToRel(<, Nat)) BY <1>1
  <2>4. ~(y < x) BY <2>2, <2>3
  <2> QED BY <2>1, <2>4
<1> QED BY <1>2

LEMMA FirstSlotIs ==
  ASSUME NEW S, S \subseteq EnvSlots
  PROVE  /\ S = {} => FirstSlot(S) = -1
         /\ S # {} => FirstSlot(S) \in S /\ \A j \in S : FirstSlot(S) <= j
         /\ FirstSlot(S) \in EnvSlots \cup {-1}
         /\ -1 \notin EnvSlots
<1>1. S \subseteq Nat /\ -1 \notin EnvSlots BY EnvConstants DEF EnvSlots
<1>2. ASSUME S # {} PROVE FirstSlot(S) \in S /\ \A j \in S : FirstSlot(S) <= j
  <2>1. \E i \in S : \A j \in S : i <= j BY <1>1, <1>2, SmallestOf
  <2> QED BY <1>2, <2>1 DEF FirstSlot
<1> QED BY <1>1, <1>2 DEF FirstSlot

LEMMA FrontIs ==
  ASSUME NEW S, NEW s \in Seq(S), NEW n \in Nat, n <= Len(s)
  PROVE  SubSeq(s, 1, n) \in Seq(S) /\ Len(SubSeq(s, 1, n)) = n
OBVIOUS

LEMMA CutIs ==
  ASSUME NEW S, NEW s \in Seq(S), NEW size \in Nat, size >= 1
  PROVE  /\ Cut(s, size) \in Seq(S) /\ Len(Cut(s, size)) < size
         /\ Len(s) < size => Cut(s, size) = s
<1>1. CASE Len(s) < size BY <1>1 DEF Cut
<1>2. CASE ~(Len(s) < size)
  <2>1. PICK z \in Nat : z = size - 1 OBVIOUS
  <2>2. z <= Len(s) BY <1>2, <2>1
  <2>3. SubSeq(s, 1, z) \in Seq(S) /\ Len(SubSeq(s, 1, z)) = z BY <2>2, FrontIs
  <2>4. Cut(s, size) = SubSeq(s, 1, z) BY <1>2, <2>1 DEF Cut
  <2> QED BY <1>2, <2>1, <2>3, <2>4
<1> QED BY <1>1, <1>2

(* The table, and what it has for a name.                                  *)
EnvEntry == [name : Seq(STRING), value : Seq(STRING), used : BOOLEAN]

FoundIn(t, name) == FirstSlot({i \in EnvSlots : t[i].used /\ t[i].name = name})
GetIn(t, name) == IF FoundIn(t, name) = -1 THEN <<>> ELSE t[FoundIn(t, name)].value

LEMMA LooksUp ==
  ASSUME NEW name
  PROVE  Found(name) = FoundIn(envTable, name) /\ EnvGet(name) = GetIn(envTable, name)
BY DEF Found, EnvGet, FoundIn, GetIn

LEMMA FoundIs ==
  ASSUME NEW t, NEW name
  PROVE  /\ FoundIn(t, name) \in EnvSlots \cup {-1} /\ -1 \notin EnvSlots
         /\ FoundIn(t, name) = -1 => \A i \in EnvSlots : ~(t[i].used /\ t[i].name = name)
         /\ FoundIn(t, name) # -1 => /\ FoundIn(t, name) \in EnvSlots
                                     /\ t[FoundIn(t, name)].used /\ t[FoundIn(t, name)].name = name
                                     /\ \A j \in EnvSlots : t[j].used /\ t[j].name = name => FoundIn(t, name) <= j
<1> DEFINE S == {i \in EnvSlots : t[i].used /\ t[i].name = name}
<1>1. S \subseteq EnvSlots OBVIOUS
<1>2. FoundIn(t, name) = FirstSlot(S) BY DEF FoundIn
<1>3. /\ S = {} => FirstSlot(S) = -1
      /\ S # {} => FirstSlot(S) \in S /\ \A j \in S : FirstSlot(S) <= j
      /\ FirstSlot(S) \in EnvSlots \cup {-1} /\ -1 \notin EnvSlots
  <2> HIDE DEF S
  <2> QED BY <1>1, FirstSlotIs
<1>4. FirstSlot(S) = -1 => S = {} BY <1>3
<1> QED BY <1>2, <1>3, <1>4

NoneBefore(t, name, i) == \A j \in EnvSlots : j < i => ~(t[j].used /\ t[j].name = name)

LEMMA FoundAt ==
  ASSUME NEW t, NEW name, NEW i \in EnvSlots, t[i].used, t[i].name = name, NoneBefore(t, name, i)
  PROVE  FoundIn(t, name) = i
<1>1. FoundIn(t, name) # -1 BY FoundIs
<1>2. /\ FoundIn(t, name) \in EnvSlots /\ t[FoundIn(t, name)].used /\ t[FoundIn(t, name)].name = name
      /\ FoundIn(t, name) <= i
  BY <1>1, FoundIs
<1>3. ~(FoundIn(t, name) < i) BY <1>2 DEF NoneBefore
<1>4. EnvSlots \subseteq Int BY EnvConstants DEF EnvSlots
<1>5. \A f \in Int : f <= i /\ ~(f < i) => f = i BY <1>4
<1> QED BY <1>2, <1>3, <1>4, <1>5

LEMMA NotFound ==
  ASSUME NEW t, NEW name, \A j \in EnvSlots : ~(t[j].used /\ t[j].name = name)
  PROVE  FoundIn(t, name) = -1
BY FoundIs

LEMMA GetTyped ==
  ASSUME NEW t \in [EnvSlots -> EnvEntry], NEW name
  PROVE  GetIn(t, name) \in Seq(STRING)
<1>1. CASE FoundIn(t, name) = -1 BY <1>1 DEF GetIn
<1>2. CASE FoundIn(t, name) # -1
  <2>1. FoundIn(t, name) \in EnvSlots BY <1>2, FoundIs
  <2>2. t[FoundIn(t, name)] \in EnvEntry BY <2>1
  <2>3. t[FoundIn(t, name)].value \in Seq(STRING) BY <2>2 DEF EnvEntry
  <2> QED BY <1>2, <2>3 DEF GetIn
<1> QED BY <1>1, <1>2

-----------------------------------------------------------------------------
(* Runs of characters.                                                     *)
RunsTo(s, i, chars, n) ==
  /\ \A j \in i .. i + n - 1 : j <= Len(s) /\ s[j] \in chars
  /\ i + n > Len(s) \/ s[i + n] \notin chars

LEMMA RunIs ==
  ASSUME NEW s, Len(s) \in Nat, NEW i \in Nat \ {0}, NEW chars
  PROVE  RunLength(s, i, chars) \in 0 .. Len(s) /\ RunsTo(s, i, chars, RunLength(s, i, chars))
<1> PICK z \in Nat : z = Len(s) OBVIOUS
<1> DEFINE T == {n \in 0 .. z : i + n > z \/ s[i + n] \notin chars}
<1>1. z \in T /\ T \subseteq Nat
  <2>1. i + z > z OBVIOUS
  <2> QED BY <2>1
<1>2. \E x \in T : \A y \in T : x <= y
  <2> HIDE DEF T
  <2> QED BY <1>1, SmallestOf
<1>3. PICK n \in T : \A y \in T : n <= y BY <1>2
<1>4. n \in Nat /\ n \in 0 .. z BY <1>1
<1>5. ASSUME NEW j \in i .. i + n - 1 PROVE j <= Len(s) /\ s[j] \in chars
  <2>1. PICK y \in Nat : j = i + y /\ y < n
    <3>1. j - i \in Nat /\ j = i + (j - i) /\ j - i < n BY <1>4
    <3> QED BY <3>1
  <2>2. y \in 0 .. z /\ ~(n <= y) BY <1>4, <2>1
  <2>3. y \notin T BY <1>3, <2>2
  <2> QED BY <2>1, <2>2, <2>3
<1>6. RunsTo(s, i, chars, n) BY <1>3, <1>4, <1>5 DEF RunsTo
<1>7. \E m \in 0 .. Len(s) : RunsTo(s, i, chars, m) BY <1>4, <1>6
<1> QED BY <1>7 DEF RunLength, RunsTo

LEMMA RunOnly ==
  ASSUME NEW s, Len(s) \in Nat, NEW i \in Nat \ {0}, NEW chars, NEW n \in 0 .. Len(s), RunsTo(s, i, chars, n)
  PROVE  RunLength(s, i, chars) = n
<1> PICK m : m = RunLength(s, i, chars) OBVIOUS
<1>1. m \in Nat /\ n \in Nat /\ RunsTo(s, i, chars, m) BY RunIs
<1>2. ~(m < n)
  <2> SUFFICES ASSUME m < n PROVE FALSE OBVIOUS
  <2>1. i + m \in i .. i + n - 1 BY <1>1
  <2>2. i + m <= Len(s) /\ s[i + m] \in chars BY <2>1 DEF RunsTo
  <2> QED BY <1>1, <2>2 DEF RunsTo
<1>3. ~(n < m)
  <2> SUFFICES ASSUME n < m PROVE FALSE OBVIOUS
  <2>1. i + n \in i .. i + m - 1 BY <1>1
  <2>2. i + n <= Len(s) /\ s[i + n] \in chars BY <1>1, <2>1 DEF RunsTo
  <2> QED BY <1>1, <2>2 DEF RunsTo
<1> QED BY <1>1, <1>2, <1>3

-----------------------------------------------------------------------------
(* What expand_vars makes of a line.                                       *)
ExpandTurns(s, g, n) ==
  /\ g[0] = [at |-> 1, out |-> <<>>]
  /\ \A k \in 1 .. n : g[k] = ExpandTurn(s, g[k - 1])

AllTurns(s, m, g) == g = [k \in 0 .. m |-> IF k = 0 THEN [at |-> 1, out |-> <<>>] ELSE ExpandTurn(s, g[k - 1])]

LEMMA TurnsExist ==
  ASSUME NEW s, NEW m \in Nat
  PROVE  \E g : AllTurns(s, m, g)
<1> DEFINE Good == {n \in Nat : \E g : ExpandTurns(s, g, n)}
<1>1. 0 \in Good
  <2>1. ExpandTurns(s, [k \in {0} |-> [at |-> 1, out |-> <<>>]], 0) BY DEF ExpandTurns
  <2> QED BY <2>1
<1>2. ASSUME NEW n \in Nat, n \in Good PROVE n + 1 \in Good
  <2>1. PICK g : ExpandTurns(s, g, n) BY <1>2
  <2> DEFINE h == [k \in 0 .. n + 1 |-> IF k <= n THEN g[k] ELSE ExpandTurn(s, g[n])]
  <2>2. h[0] = [at |-> 1, out |-> <<>>] BY <2>1 DEF ExpandTurns
  <2>3. ASSUME NEW k \in 1 .. n + 1 PROVE h[k] = ExpandTurn(s, h[k - 1])
    <3>1. k \in 0 .. n + 1 /\ k - 1 \in 0 .. n + 1 /\ k - 1 <= n OBVIOUS
    <3>2. h[k - 1] = g[k - 1] BY <3>1
    <3>3. CASE k = n + 1
      <4>1. h[k] = ExpandTurn(s, g[n]) /\ k - 1 = n BY <3>1, <3>3
      <4> QED BY <3>2, <3>3, <4>1
    <3>4. CASE k # n + 1
      <4>1. k \in 1 .. n /\ h[k] = g[k] BY <3>1, <3>4
      <4> QED BY <2>1, <3>2, <4>1 DEF ExpandTurns
    <3> QED BY <3>3, <3>4
  <2> HIDE DEF h
  <2>4. ExpandTurns(s, h, n + 1) BY <2>2, <2>3 DEF ExpandTurns
  <2> QED BY <2>4
<1> HIDE DEF Good
<1>3. Nat \subseteq Good BY <1>1, <1>2, CountUp
<1>4. PICK f : ExpandTurns(s, f, m) BY <1>3 DEF Good
<1> DEFINE g == [k \in 0 .. m |-> f[k]]
<1>5. ASSUME NEW k \in 0 .. m PROVE f[k] = IF k = 0 THEN [at |-> 1, out |-> <<>>] ELSE ExpandTurn(s, g[k - 1])
  <2>1. CASE k = 0 BY <1>4, <2>1 DEF ExpandTurns
  <2>2. CASE k # 0
    <3>1. k \in 1 .. m /\ k - 1 \in 0 .. m BY <2>2
    <3>2. g[k - 1] = f[k - 1] BY <3>1
    <3> QED BY <1>4, <2>2, <3>1, <3>2 DEF ExpandTurns
  <2> QED BY <2>1, <2>2
<1>6. g = [k \in 0 .. m |-> IF k = 0 THEN [at |-> 1, out |-> <<>>] ELSE ExpandTurn(s, g[k - 1])] BY <1>5
<1> HIDE DEF g
<1> QED BY <1>6 DEF AllTurns

LEMMA ExpandIs ==
  ASSUME NEW s, Len(s) \in Nat
  PROVE  \E g : ExpandTurns(s, g, Len(s)) /\ ExpandOver(s) = g[Len(s)].out
<1> PICK m \in Nat : m = Len(s) OBVIOUS
<1> DEFINE f == CHOOSE g : AllTurns(s, m, g)
<1>1. \E g : AllTurns(s, m, g) BY TurnsExist
<1>2. f = [k \in 0 .. m |-> IF k = 0 THEN [at |-> 1, out |-> <<>>] ELSE ExpandTurn(s, f[k - 1])] BY <1>1 DEF AllTurns
<1>3. ExpandOver(s) = f[m].out BY DEF ExpandOver, AllTurns
<1> HIDE DEF f
<1>4. f[0] = [at |-> 1, out |-> <<>>] BY <1>2
<1>5. ASSUME NEW k \in 1 .. m PROVE f[k] = ExpandTurn(s, f[k - 1]) BY <1>2
<1>6. ExpandTurns(s, f, m) BY <1>4, <1>5 DEF ExpandTurns
<1> QED BY <1>3, <1>6

(* A turn over one character, over a name, over one in braces, and at the  *)
(* end of the line.                                                        *)
LEMMA PlainTurn ==
  ASSUME NEW s, Len(s) \in Nat, NEW w, w.at \in Nat, w.at <= Len(s), s[w.at] # EndMark,
         s[w.at] # Dollar \/ w.at = Len(s) \/ s[w.at + 1] \in {Space, EndMark}
  PROVE  ExpandTurn(s, w) = [at |-> w.at + 1, out |-> Append(w.out, s[w.at])]
<1>1. ~(w.at > Len(s) \/ s[w.at] = EndMark) OBVIOUS
<1> QED BY <1>1 DEF ExpandTurn

LEMMA NameTurn ==
  ASSUME NEW s, Len(s) \in Nat, NEW w, w.at \in Nat, w.at < Len(s), s[w.at] = Dollar,
         s[w.at + 1] \notin {Space, EndMark, Open},
         NEW n \in Nat, RunLength(s, w.at + 1, NameChars) = n, n < EnvNameLen
  PROVE  ExpandTurn(s, w) = [at |-> w.at + 1 + n, out |-> w.out \o EnvGet(SubSeq(s, w.at + 1, w.at + n))]
<1>1. Least(n, EnvNameLen - 1) = n BY EnvConstants DEF Least
<1> PICK i \in Nat : i = w.at OBVIOUS
<1> PICK z \in Nat : z = Len(s) OBVIOUS
<1>a. s[i] # EndMark BY DEF Dollar, EndMark
<1>b. ~(i > z) /\ i # z OBVIOUS
<1>2. ~(w.at > Len(s) \/ s[w.at] = EndMark) /\ w.at # Len(s) BY <1>a, <1>b
<1>3. ~(s[w.at] # Dollar \/ w.at = Len(s) \/ s[w.at + 1] \in {Space, EndMark}) /\ s[w.at + 1] # Open BY <1>2
<1> QED BY <1>1, <1>2, <1>3 DEF ExpandTurn

LEMMA BraceTurn ==
  ASSUME NEW s, Len(s) \in Nat, NEW w, w.at \in Nat, s[w.at] = Dollar, s[w.at + 1] = Open,
         NEW n \in Nat, RunLength(s, w.at + 2, ToSet(s) \ {Close, EndMark}) = n, n < EnvNameLen,
         w.at + 2 + n <= Len(s), s[w.at + 2 + n] = Close
  PROVE  ExpandTurn(s, w) = [at |-> w.at + 4 + n, out |-> w.out \o EnvGet(SubSeq(s, w.at + 2, w.at + 1 + n))]
<1>1. Least(n, EnvNameLen - 1) = n BY EnvConstants DEF Least
<1> PICK i \in Nat : i = w.at OBVIOUS
<1> PICK z \in Nat : z = Len(s) OBVIOUS
<1>a. s[i] # EndMark BY DEF Dollar, EndMark
<1>b. ~(i > z) /\ i # z OBVIOUS
<1>2. ~(w.at > Len(s) \/ s[w.at] = EndMark) /\ w.at # Len(s) BY <1>a, <1>b
<1>3. ~(s[w.at] # Dollar \/ w.at = Len(s) \/ s[w.at + 1] \in {Space, EndMark}) BY <1>2 DEF Open, Space, EndMark
<1>4. (w.at + 3 + n) + 1 = w.at + 4 + n OBVIOUS
<1>5. ExpandTurn(s, w) = LET nn == Least(RunLength(s, w.at + 2, ToSet(s) \ {Close, EndMark}), EnvNameLen - 1)
                             next == IF w.at + 2 + nn <= Len(s) /\ s[w.at + 2 + nn] = Close
                                     THEN w.at + 3 + nn ELSE w.at + 2 + nn
                         IN  [at |-> next + 1, out |-> w.out \o EnvGet(SubSeq(s, w.at + 2, w.at + 1 + nn))]
  BY <1>2, <1>3 DEF ExpandTurn
<1> QED BY <1>1, <1>4, <1>5

EndsAfter(s, g, z, j) ==
  /\ z \in Nat /\ j \in Nat /\ j <= z
  /\ ExpandTurns(s, g, z)
  /\ s[g[j].at] = EndMark

LEMMA EndTurns ==
  ASSUME NEW s, NEW g, NEW zz, NEW jj, EndsAfter(s, g, zz, jj)
  PROVE  g[zz].out = g[jj].out
<1> PICK z \in Nat : z = zz BY DEF EndsAfter
<1> PICK j \in Nat : j = jj BY DEF EndsAfter
<1>0. j <= z /\ ExpandTurns(s, g, z) /\ s[g[j].at] = EndMark BY DEF EndsAfter
<1> DEFINE Good == {k \in Nat : j + k <= z => g[j + k] = g[j]}
<1>1. 0 \in Good
  <2>1. j + 0 = j OBVIOUS
  <2> QED BY <2>1
<1>2. ASSUME NEW k \in Nat, k \in Good PROVE k + 1 \in Good
  <2> SUFFICES ASSUME j + (k + 1) <= z PROVE g[j + (k + 1)] = g[j] OBVIOUS
  <2>1. g[j + k] = g[j] BY <1>2
  <2>2. j + (k + 1) \in 1 .. z /\ (j + (k + 1)) - 1 = j + k BY <1>0
  <2>3. g[j + (k + 1)] = ExpandTurn(s, g[j + k]) BY <1>0, <2>2 DEF ExpandTurns
  <2>4. ExpandTurn(s, g[j]) = g[j] BY <1>0 DEF ExpandTurn
  <2> QED BY <2>1, <2>3, <2>4
<1> HIDE DEF Good
<1>3. Nat \subseteq Good BY <1>1, <1>2, CountUp
<1>4. z - j \in Nat /\ j + (z - j) = z BY <1>0
<1>5. z - j \in Good BY <1>3, <1>4
<1> QED BY <1>4, <1>5 DEF Good

LEMMA TurnTyped ==
  ASSUME envTable \in [EnvSlots -> EnvEntry], NEW s \in Seq(STRING \cup {EndMark}), NEW w, w.at \in Nat \ {0}, w.out \in Seq(STRING)
  PROVE  ExpandTurn(s, w).at \in Nat \ {0} /\ ExpandTurn(s, w).out \in Seq(STRING)
<1> PICK i \in Nat \ {0} : i = w.at OBVIOUS
<1> PICK z \in Nat : z = Len(s) OBVIOUS
<1> DEFINE End == i > z \/ s[i] = EndMark
<1> DEFINE Plain == s[i] # Dollar \/ i = z \/ s[i + 1] \in {Space, EndMark}
<1>1. \A name : EnvGet(name) \in Seq(STRING) BY LooksUp, GetTyped
<1>2. \A name : w.out \o EnvGet(name) \in Seq(STRING) BY <1>1
<1>3. CASE End
  <2>1. ExpandTurn(s, w) = w BY <1>3 DEF ExpandTurn
  <2> QED BY <2>1
<1>4. CASE ~End /\ Plain
  <2>1. ExpandTurn(s, w) = [at |-> i + 1, out |-> Append(w.out, s[i])] BY <1>4, PlainTurn
  <2>2. s[i] \in STRING BY <1>4
  <2>3. Append(w.out, s[i]) \in Seq(STRING) BY <2>2
  <2> QED BY <2>1, <2>3
<1>5. CASE ~End /\ ~Plain /\ s[i + 1] = Open
  <2> PICK r : r = RunLength(s, i + 2, ToSet(s) \ {Close, EndMark}) OBVIOUS
  <2>1. r \in Nat
    <3>1. i + 2 \in Nat \ {0} OBVIOUS
    <3> QED BY <3>1, RunIs
  <2> PICK n : n = Least(r, EnvNameLen - 1) OBVIOUS
  <2>2. n \in Nat
    <3>1. EnvNameLen - 1 \in Nat BY EnvConstants
    <3> QED BY <2>1, <3>1 DEF Least
  <2> PICK e : e = IF i + 2 + n <= z /\ s[i + 2 + n] = Close THEN i + 3 + n ELSE i + 2 + n OBVIOUS
  <2>3. e \in Nat
    <3>1. i + 3 + n \in Nat /\ i + 2 + n \in Nat BY <2>2
    <3> QED BY <3>1
  <2> PICK name : name = SubSeq(s, i + 2, i + 1 + n) OBVIOUS
  <2>5. ExpandTurn(s, w) = [at |-> e + 1, out |-> w.out \o EnvGet(name)]
    <3>1. ExpandTurn(s, w) = LET nn == Least(RunLength(s, i + 2, ToSet(s) \ {Close, EndMark}), EnvNameLen - 1)
                                 next == IF i + 2 + nn <= Len(s) /\ s[i + 2 + nn] = Close THEN i + 3 + nn ELSE i + 2 + nn
                             IN  [at |-> next + 1, out |-> w.out \o EnvGet(SubSeq(s, i + 2, i + 1 + nn))]
      BY <1>5 DEF ExpandTurn
    <3> QED BY <3>1
  <2> QED BY <1>2, <2>3, <2>5
<1>6. CASE ~End /\ ~Plain /\ s[i + 1] # Open
  <2> PICK n : n = RunLength(s, i + 1, NameChars) OBVIOUS
  <2>1. n \in Nat
    <3>1. i + 1 \in Nat \ {0} OBVIOUS
    <3> QED BY <3>1, RunIs
  <2> PICK name : name = SubSeq(s, i + 1, i + Least(n, EnvNameLen - 1)) OBVIOUS
  <2>3. ExpandTurn(s, w) = [at |-> i + 1 + n, out |-> w.out \o EnvGet(name)] BY <1>6 DEF ExpandTurn
  <2> QED BY <1>2, <2>1, <2>3
<1> QED BY <1>3, <1>4, <1>5, <1>6

LEMMA SeqWider ==
  ASSUME NEW S, NEW T, S \subseteq T, NEW s \in Seq(S)
  PROVE  s \in Seq(T)
<1>1. PICK n \in Nat : n = Len(s) /\ DOMAIN s = 1 .. n OBVIOUS
<1>2. \A k \in 1 .. n : s[k] \in T BY <1>1
<1>3. s = [k \in 1 .. n |-> s[k]] BY <1>1
<1>4. [k \in 1 .. n |-> s[k]] \in Seq(T) BY <1>2
<1> QED BY <1>3, <1>4

LEMMA NameTyped ==
  ASSUME NEW name \in Names
  PROVE  name \in Seq(STRING)
<1>1. name \in Seq(NameChars) /\ NameChars \subseteq STRING BY EnvConstants
<1> QED BY <1>1, SeqWider

(* The characters of a line, its end, and the marks.                       *)
LineChars == STRING \cup {EndMark, Dollar, Open, Close, Space}

LEMMA ExpandTyped ==
  ASSUME envTable \in [EnvSlots -> EnvEntry], NEW line \in Seq(STRING), NEW behind \in Seq(STRING)
  PROVE  Expand(line, behind) \in Seq(STRING)
<1> DEFINE S == STRING \cup {EndMark}
<1> PICK s \in Seq(S) : s = line \o <<EndMark>> \o behind
  <2>1. EndMark \in S /\ STRING \subseteq S OBVIOUS
  <2> HIDE DEF S
  <2>2. line \in Seq(S) /\ behind \in Seq(S) BY <2>1, SeqWider
  <2>3. <<EndMark>> \in Seq(S) BY <2>1
  <2>4. line \o <<EndMark>> \in Seq(S) BY <2>2, <2>3
  <2>5. line \o <<EndMark>> \o behind \in Seq(S) BY <2>2, <2>4
  <2> QED BY <2>5
<1> PICK z \in Nat : z = Len(s) OBVIOUS
<1>1. PICK g : ExpandTurns(s, g, z) /\ Expand(line, behind) = g[z].out BY ExpandIs DEF Expand
<1> DEFINE Good == {n \in Nat : n <= z => g[n].at \in Nat \ {0} /\ g[n].out \in Seq(STRING)}
<1>2. 0 \in Good
  <2>1. g[0].at = 1 /\ g[0].out = <<>> BY <1>1 DEF ExpandTurns
  <2>2. g[0].at \in Nat \ {0} /\ g[0].out \in Seq(STRING) BY <2>1
  <2> QED BY <2>2
<1>3. ASSUME NEW n \in Nat, n \in Good PROVE n + 1 \in Good
  <2> SUFFICES ASSUME n + 1 <= z PROVE g[n + 1].at \in Nat \ {0} /\ g[n + 1].out \in Seq(STRING) OBVIOUS
  <2>1. g[n].at \in Nat \ {0} /\ g[n].out \in Seq(STRING) BY <1>3
  <2>2. n + 1 \in 1 .. z /\ (n + 1) - 1 = n OBVIOUS
  <2>3. g[n + 1] = ExpandTurn(s, g[n]) BY <1>1, <2>2 DEF ExpandTurns
  <2> QED BY <2>1, <2>3, TurnTyped
<1> HIDE DEF Good
<1>4. Nat \subseteq Good BY <1>2, <1>3, CountUp
<1> QED BY <1>1, <1>4 DEF Good

(* The places of what is put together.                                     *)
LEMMA Joined ==
  ASSUME NEW S, NEW s \in Seq(S), NEW t \in Seq(S)
  PROVE  /\ s \o t \in Seq(S) /\ Len(s \o t) = Len(s) + Len(t)
         /\ \A k \in 1 .. Len(s) : (s \o t)[k] = s[k]
         /\ \A k \in 1 .. Len(t) : (s \o t)[Len(s) + k] = t[k]
OBVIOUS

(* A name behind so many characters, where a run of its characters begins. *)
NameIn(s, at, name) ==
  /\ at + Len(name) < Len(s)
  /\ \A k \in 1 .. Len(name) : s[at + k] = name[k]

RunOf(s, at, name, chars) ==
  /\ at \in Nat /\ name \in Names /\ s \in Seq(LineChars) /\ NameIn(s, at, name)
  /\ NameChars \cap ToSet(s) \subseteq chars /\ s[at + Len(name) + 1] \notin chars

(* A part of a text, place by place.                                       *)
LEMMA SliceIs ==
  ASSUME NEW S, NEW s \in Seq(S), NEW at \in Nat, NEW n \in Nat, at + n <= Len(s)
  PROVE  SubSeq(s, at + 1, at + n) = [k \in 1 .. n |-> s[at + k]]
<1>1. SubSeq(s, at + 1, at + n) = [k \in 1 .. (at + n) - (at + 1) + 1 |-> s[at + 1 + k - 1]]
  OBVIOUS
<1>2. (at + n) - (at + 1) + 1 = n /\ \A k \in 1 .. n : at + 1 + k - 1 = at + k OBVIOUS
<1> QED BY <1>1, <1>2

LEMMA NameRun ==
  ASSUME NEW s, NEW aa, NEW name, NEW chars, RunOf(s, aa, name, chars)
  PROVE  RunLength(s, aa + 1, chars) = Len(name) /\ SubSeq(s, aa + 1, aa + Len(name)) = name
<1> PICK at \in Nat : at = aa BY DEF RunOf
<1>0. /\ name \in Names /\ s \in Seq(LineChars) /\ NameIn(s, at, name)
      /\ NameChars \cap ToSet(s) \subseteq chars /\ s[at + Len(name) + 1] \notin chars
  BY DEF RunOf
<1>1. name \in Seq(NameChars) BY <1>0, EnvConstants
<1> PICK n \in Nat : n = Len(name) /\ DOMAIN name = 1 .. n BY <1>1
<1> PICK z \in Nat : z = Len(s) /\ DOMAIN s = 1 .. z BY <1>0
<1>2. at + n < z /\ \A k \in 1 .. n : s[at + k] = name[k] BY <1>0 DEF NameIn
<1>3. ASSUME NEW j \in at + 1 .. at + 1 + n - 1 PROVE j <= Len(s) /\ s[j] \in chars
  <2>1. PICK k \in 1 .. n : j = at + k
    <3>1. j - at \in 1 .. n /\ j = at + (j - at) OBVIOUS
    <3> QED BY <3>1
  <2>2. j \in 1 .. z BY <1>2, <2>1
  <2>3. s[j] \in NameChars BY <1>1, <1>2, <2>1
  <2>4. s[j] \in ToSet(s) BY <2>2 DEF ToSet
  <2> QED BY <1>0, <2>2, <2>3, <2>4
<1>4. RunsTo(s, at + 1, chars, n)
  <2>1. (at + 1) + n = at + n + 1 OBVIOUS
  <2> QED BY <1>0, <1>3, <2>1 DEF RunsTo
<1>5. n \in 0 .. Len(s) /\ at + 1 \in Nat \ {0} BY <1>2
<1>6. RunLength(s, at + 1, chars) = n BY <1>4, <1>0, <1>5, RunOnly
<1>7. SubSeq(s, at + 1, at + n) = name
  <2>1. at + n <= Len(s) BY <1>2
  <2>2. SubSeq(s, at + 1, at + n) = [k \in 1 .. n |-> s[at + k]] BY <1>0, <2>1, SliceIs
  <2>3. name = [k \in 1 .. n |-> name[k]] BY <1>1
  <2> QED BY <1>2, <2>2, <2>3
<1> QED BY <1>6, <1>7

(* A reference to a name, with a blank and a dollar behind it.             *)
LEMMA ReferenceIs ==
  ASSUME NEW name \in Names, Len(name) < EnvNameLen, EnvGet(name) \in Seq(STRING), NEW b \in Seq(STRING)
  PROVE  Expand(<<Dollar>> \o name \o <<Space, Dollar>>, b) = EnvGet(name) \o <<Space, Dollar>>
<1> PICK s : s = <<Dollar>> \o name \o <<Space, Dollar>> \o <<EndMark>> \o b OBVIOUS
<1>1. name \in Seq(LineChars) /\ b \in Seq(LineChars) /\ name \in Seq(NameChars) /\ name # <<>>
  <2>1. STRING \subseteq LineChars BY DEF LineChars
  <2> QED BY <2>1, NameTyped, SeqWider, EnvConstants
<1> PICK n \in Nat : n = Len(name) BY <1>1
<1> PICK z \in Nat : z = n + 4 + Len(b) OBVIOUS
<1>2. n >= 1 BY <1>1
<1>3. /\ s \in Seq(LineChars) /\ Len(s) = z /\ z >= n + 4
      /\ s[1] = Dollar /\ s[n + 2] = Space /\ s[n + 3] = Dollar /\ s[n + 4] = EndMark
      /\ NameIn(s, 1, name)
  <2> PICK s1 : s1 = <<Dollar>> \o name OBVIOUS
  <2>1. <<Dollar>> \in Seq(LineChars) BY DEF LineChars
  <2>2. /\ s1 \in Seq(LineChars) /\ Len(s1) = n + 1 /\ s1[1] = Dollar
        /\ \A k \in 1 .. n : s1[1 + k] = name[k]
    BY <1>1, <2>1
  <2> PICK s2 : s2 = s1 \o <<Space, Dollar>> OBVIOUS
  <2>3. <<Space, Dollar>> \in Seq(LineChars) BY DEF LineChars
  <2>4. /\ s2 \in Seq(LineChars) /\ Len(s2) = n + 3 /\ s2[n + 2] = Space /\ s2[n + 3] = Dollar
        /\ \A k \in 1 .. n + 1 : s2[k] = s1[k]
    BY <2>2, <2>3
  <2> PICK s3 : s3 = s2 \o <<EndMark>> OBVIOUS
  <2>5. <<EndMark>> \in Seq(LineChars) BY DEF LineChars
  <2>6. /\ s3 \in Seq(LineChars) /\ Len(s3) = n + 4 /\ s3[n + 4] = EndMark
        /\ \A k \in 1 .. n + 3 : s3[k] = s2[k]
    BY <2>4, <2>5
  <2>7. s = s3 \o b OBVIOUS
  <2>8. /\ s \in Seq(LineChars) /\ Len(s) = z /\ \A k \in 1 .. n + 4 : s[k] = s3[k] BY <1>1, <2>6, <2>7, Joined
  <2>9. s[1] = Dollar /\ s[n + 2] = Space /\ s[n + 3] = Dollar /\ s[n + 4] = EndMark
    <3>1. 1 \in 1 .. n + 1 /\ 1 \in 1 .. n + 3 /\ 1 \in 1 .. n + 4 OBVIOUS
    <3>2. n + 2 \in 1 .. n + 3 /\ n + 2 \in 1 .. n + 4 /\ n + 3 \in 1 .. n + 3 /\ n + 3 \in 1 .. n + 4 /\ n + 4 \in 1 .. n + 4
      OBVIOUS
    <3> QED BY <2>2, <2>4, <2>6, <2>8, <3>1, <3>2
  <2>10. NameIn(s, 1, name)
    <3>1. ASSUME NEW k \in 1 .. n PROVE s[1 + k] = name[k]
      <4>1. 1 + k \in 1 .. n + 1 /\ 1 + k \in 1 .. n + 3 /\ 1 + k \in 1 .. n + 4 OBVIOUS
      <4> QED BY <2>2, <2>4, <2>6, <2>8, <4>1
    <3> QED BY <2>8, <3>1 DEF NameIn
  <2> QED BY <2>8, <2>9, <2>10
<1>4. RunLength(s, 2, NameChars) = n /\ SubSeq(s, 2, 1 + n) = name
  <2>1. s[1 + Len(name) + 1] \notin NameChars
    <3>1. 1 + Len(name) + 1 = n + 2 OBVIOUS
    <3> QED BY <1>3, <3>1, EnvConstants
  <2>2. NameChars \cap ToSet(s) \subseteq NameChars OBVIOUS
  <2>3. RunOf(s, 1, name, NameChars) BY <1>3, <2>1, <2>2 DEF RunOf
  <2>4. RunLength(s, 1 + 1, NameChars) = Len(name) /\ SubSeq(s, 1 + 1, 1 + Len(name)) = name
    BY <2>3, NameRun
  <2> QED BY <2>4
<1>5. PICK g : ExpandTurns(s, g, z) /\ Expand(<<Dollar>> \o name \o <<Space, Dollar>>, b) = g[z].out
  BY <1>3, ExpandIs DEF Expand
<1>6. g[0].at = 1 /\ g[0].out = <<>> BY <1>5 DEF ExpandTurns
<1>7. \A k \in 1 .. z : g[k] = ExpandTurn(s, g[k - 1]) BY <1>5 DEF ExpandTurns
<1> PICK v \in Seq(STRING) : v = EnvGet(name) OBVIOUS
<1>8. g[1].at = n + 2 /\ g[1].out = v
  <2>1. s[2] \notin {Space, EndMark, Open}
    <3>1. s[1 + 1] = name[1] /\ 1 + 1 = 2 /\ name[1] \in NameChars BY <1>1, <1>2, <1>3 DEF NameIn
    <3> QED BY <3>1, EnvConstants
  <2>2. g[0].at + 1 = 2 /\ g[0].at + n = 1 + n /\ g[0].at < Len(s) /\ Len(s) \in Nat /\ g[0].at \in Nat BY <1>3, <1>6
  <2>3. ExpandTurn(s, g[0]) = [at |-> g[0].at + 1 + n, out |-> g[0].out \o EnvGet(SubSeq(s, g[0].at + 1, g[0].at + n))]
    <3>1. s[g[0].at] = Dollar /\ s[g[0].at + 1] \notin {Space, EndMark, Open} BY <1>3, <1>6, <2>1
    <3>2. RunLength(s, g[0].at + 1, NameChars) = n BY <1>4, <1>6
    <3> QED BY <2>2, <3>1, <3>2, NameTurn
  <2>4. g[1] = ExpandTurn(s, g[0])
    <3>1. 1 \in 1 .. z /\ 1 - 1 = 0 BY <1>3
    <3> QED BY <1>7, <3>1
  <2>5. <<>> \o v = v OBVIOUS
  <2>6. SubSeq(s, g[0].at + 1, g[0].at + n) = name /\ g[0].at + 1 + n = n + 2
    <3>1. g[0].at + 1 + n = n + 2 BY <1>6
    <3> QED BY <1>4, <2>2, <3>1
  <2>7. g[1] = [at |-> n + 2, out |-> <<>> \o v] BY <1>6, <2>3, <2>4, <2>6
  <2> QED BY <2>5, <2>7
<1>9. g[2].at = n + 3 /\ g[2].out = Append(v, Space)
  <2>1. g[1].at \in Nat /\ g[1].at <= Len(s) /\ Len(s) \in Nat BY <1>3, <1>8
  <2>2. s[g[1].at] # Dollar /\ s[g[1].at] # EndMark BY <1>3, <1>8 DEF Space, Dollar, EndMark
  <2>3. ExpandTurn(s, g[1]) = [at |-> g[1].at + 1, out |-> Append(g[1].out, s[g[1].at])] BY <2>1, <2>2, PlainTurn
  <2>4. g[2] = ExpandTurn(s, g[1])
    <3>1. 2 \in 1 .. z /\ 2 - 1 = 1 BY <1>3
    <3> QED BY <1>7, <3>1
  <2>5. g[2] = [at |-> g[1].at + 1, out |-> Append(g[1].out, s[g[1].at])] BY <2>3, <2>4
  <2>6. (n + 2) + 1 = n + 3 /\ s[n + 2] = Space BY <1>3
  <2> QED BY <1>8, <2>5, <2>6
<1>10. g[3].at = n + 4 /\ g[3].out = Append(Append(v, Space), Dollar)
  <2>1. g[2].at \in Nat /\ g[2].at <= Len(s) /\ Len(s) \in Nat BY <1>3, <1>9
  <2>2. s[g[2].at] # EndMark /\ s[g[2].at + 1] \in {Space, EndMark}
    <3>1. (n + 3) + 1 = n + 4 OBVIOUS
    <3> QED BY <1>3, <1>9, <3>1 DEF Dollar, EndMark
  <2>3. ExpandTurn(s, g[2]) = [at |-> g[2].at + 1, out |-> Append(g[2].out, s[g[2].at])] BY <2>1, <2>2, PlainTurn
  <2>4. g[3] = ExpandTurn(s, g[2])
    <3>1. 3 \in 1 .. z /\ 3 - 1 = 2 BY <1>3
    <3> QED BY <1>7, <3>1
  <2>5. g[3] = [at |-> g[2].at + 1, out |-> Append(g[2].out, s[g[2].at])] BY <2>3, <2>4
  <2>6. (n + 3) + 1 = n + 4 /\ s[n + 3] = Dollar BY <1>3
  <2> QED BY <1>9, <2>5, <2>6
<1>11. g[z].out = g[3].out
  <2>1. EndsAfter(s, g, z, 3) BY <1>3, <1>10, <1>5 DEF EndsAfter
  <2> QED BY <2>1, EndTurns
<1>12. v \o <<Space, Dollar>> = Append(Append(v, Space), Dollar) OBVIOUS
<1> QED BY <1>5, <1>10, <1>11, <1>12

(* A reference in braces, with the same behind it: the blank is lost.      *)
LEMMA BracesIs ==
  ASSUME NEW name \in Names, Len(name) < EnvNameLen, EnvGet(name) \in Seq(STRING), NEW b \in Seq(STRING)
  PROVE  Expand(<<Dollar, Open>> \o name \o <<Close, Space, Dollar>>, b) = EnvGet(name) \o <<Dollar>>
<1> PICK s : s = <<Dollar, Open>> \o name \o <<Close, Space, Dollar>> \o <<EndMark>> \o b OBVIOUS
<1>1. name \in Seq(LineChars) /\ b \in Seq(LineChars) /\ name \in Seq(NameChars)
  <2>1. STRING \subseteq LineChars BY DEF LineChars
  <2> QED BY <2>1, NameTyped, SeqWider, EnvConstants
<1> PICK n \in Nat : n = Len(name) BY <1>1
<1> PICK z \in Nat : z = n + 6 + Len(b) OBVIOUS
<1>2. /\ s \in Seq(LineChars) /\ Len(s) = z /\ z >= n + 6 /\ s[1] = Dollar /\ s[2] = Open
      /\ s[n + 3] = Close /\ s[n + 5] = Dollar /\ s[n + 6] = EndMark
      /\ NameIn(s, 2, name)
  <2> PICK s1 : s1 = <<Dollar, Open>> \o name OBVIOUS
  <2>1. <<Dollar, Open>> \in Seq(LineChars) BY DEF LineChars
  <2>2. /\ s1 \in Seq(LineChars) /\ Len(s1) = n + 2 /\ s1[1] = Dollar /\ s1[2] = Open
        /\ \A k \in 1 .. n : s1[2 + k] = name[k]
    BY <1>1, <2>1
  <2> PICK s2 : s2 = s1 \o <<Close, Space, Dollar>> OBVIOUS
  <2>3. <<Close, Space, Dollar>> \in Seq(LineChars) BY DEF LineChars
  <2>4. /\ s2 \in Seq(LineChars) /\ Len(s2) = n + 5 /\ s2[n + 3] = Close /\ s2[n + 5] = Dollar
        /\ \A k \in 1 .. n + 2 : s2[k] = s1[k]
    BY <2>2, <2>3
  <2> PICK s3 : s3 = s2 \o <<EndMark>> OBVIOUS
  <2>5. <<EndMark>> \in Seq(LineChars) BY DEF LineChars
  <2>6. /\ s3 \in Seq(LineChars) /\ Len(s3) = n + 6 /\ s3[n + 6] = EndMark
        /\ \A k \in 1 .. n + 5 : s3[k] = s2[k]
    BY <2>4, <2>5
  <2>7. s = s3 \o b OBVIOUS
  <2>8. s \in Seq(LineChars) /\ Len(s) = z /\ \A k \in 1 .. n + 6 : s[k] = s3[k] BY <1>1, <2>6, <2>7, Joined
  <2>9. s[1] = Dollar /\ s[2] = Open /\ s[n + 3] = Close /\ s[n + 5] = Dollar /\ s[n + 6] = EndMark
    <3>1. 1 \in 1 .. n + 2 /\ 1 \in 1 .. n + 5 /\ 1 \in 1 .. n + 6 OBVIOUS
    <3>2. 2 \in 1 .. n + 2 /\ 2 \in 1 .. n + 5 /\ 2 \in 1 .. n + 6 OBVIOUS
    <3>3. n + 3 \in 1 .. n + 5 /\ n + 3 \in 1 .. n + 6 /\ n + 5 \in 1 .. n + 5 /\ n + 5 \in 1 .. n + 6 /\ n + 6 \in 1 .. n + 6
      OBVIOUS
    <3> QED BY <2>2, <2>4, <2>6, <2>8, <3>1, <3>2, <3>3
  <2>10. NameIn(s, 2, name)
    <3>1. ASSUME NEW k \in 1 .. n PROVE s[2 + k] = name[k]
      <4>1. 2 + k \in 1 .. n + 2 /\ 2 + k \in 1 .. n + 5 /\ 2 + k \in 1 .. n + 6 OBVIOUS
      <4> QED BY <2>2, <2>4, <2>6, <2>8, <4>1
    <3> QED BY <2>8, <3>1 DEF NameIn
  <2> QED BY <2>8, <2>9, <2>10
<1>3. RunLength(s, 3, ToSet(s) \ {Close, EndMark}) = n /\ SubSeq(s, 3, 2 + n) = name
  <2> PICK chars : chars = ToSet(s) \ {Close, EndMark} OBVIOUS
  <2>1. s[2 + Len(name) + 1] \notin chars
    <3>1. 2 + Len(name) + 1 = n + 3 OBVIOUS
    <3> QED BY <1>2, <3>1
  <2>2. NameChars \cap ToSet(s) \subseteq chars BY EnvConstants
  <2>3. RunOf(s, 2, name, chars) BY <1>2, <2>1, <2>2 DEF RunOf
  <2>4. RunLength(s, 2 + 1, chars) = Len(name) /\ SubSeq(s, 2 + 1, 2 + Len(name)) = name
    BY <2>3, NameRun
  <2> QED BY <2>4
<1>4. PICK g : ExpandTurns(s, g, z) /\ Expand(<<Dollar, Open>> \o name \o <<Close, Space, Dollar>>, b) = g[z].out
  BY <1>2, ExpandIs DEF Expand
<1>5. g[0].at = 1 /\ g[0].out = <<>> BY <1>4 DEF ExpandTurns
<1>6. \A k \in 1 .. z : g[k] = ExpandTurn(s, g[k - 1]) BY <1>4 DEF ExpandTurns
<1> PICK v \in Seq(STRING) : v = EnvGet(name) OBVIOUS
<1>7. g[1].at = n + 5 /\ g[1].out = v
  <2>1. /\ g[0].at + 1 = 2 /\ g[0].at + 2 = 3 /\ g[0].at + 1 + n = 2 + n /\ g[0].at + 2 + n = n + 3
        /\ g[0].at + 4 + n = n + 5 /\ Len(s) \in Nat /\ g[0].at \in Nat /\ n + 3 <= Len(s)
    BY <1>2, <1>5
  <2>2. ExpandTurn(s, g[0]) = [at |-> g[0].at + 4 + n, out |-> g[0].out \o EnvGet(SubSeq(s, g[0].at + 2, g[0].at + 1 + n))]
    <3>1. s[g[0].at] = Dollar /\ s[g[0].at + 1] = Open /\ s[g[0].at + 2 + n] = Close /\ g[0].at + 2 + n <= Len(s)
      BY <1>2, <1>5, <2>1
    <3>2. RunLength(s, g[0].at + 2, ToSet(s) \ {Close, EndMark}) = n BY <1>3, <2>1
    <3>3. Len(s) \in Nat /\ g[0].at \in Nat /\ n \in Nat /\ n < EnvNameLen BY <2>1
    <3> QED BY <3>1, <3>2, <3>3, BraceTurn, ZenonT(60)
  <2>3. g[1] = ExpandTurn(s, g[0])
    <3>1. 1 \in 1 .. z /\ 1 - 1 = 0 BY <1>2
    <3> QED BY <1>6, <3>1
  <2>4. <<>> \o v = v OBVIOUS
  <2>5. SubSeq(s, g[0].at + 2, g[0].at + 1 + n) = name BY <1>3, <2>1
  <2>6. g[1] = [at |-> n + 5, out |-> <<>> \o v] BY <1>5, <2>1, <2>2, <2>3, <2>5
  <2> QED BY <2>4, <2>6
<1>8. g[2].at = n + 6 /\ g[2].out = Append(v, Dollar)
  <2>1. g[1].at \in Nat /\ g[1].at <= Len(s) /\ Len(s) \in Nat BY <1>2, <1>7
  <2>2. s[g[1].at] # EndMark /\ s[g[1].at + 1] \in {Space, EndMark}
    <3>1. (n + 5) + 1 = n + 6 OBVIOUS
    <3> QED BY <1>2, <1>7, <3>1 DEF Dollar, EndMark
  <2>3. ExpandTurn(s, g[1]) = [at |-> g[1].at + 1, out |-> Append(g[1].out, s[g[1].at])] BY <2>1, <2>2, PlainTurn
  <2>4. g[2] = ExpandTurn(s, g[1])
    <3>1. 2 \in 1 .. z /\ 2 - 1 = 1 BY <1>2
    <3> QED BY <1>6, <3>1
  <2> QED BY <1>2, <1>7, <2>3, <2>4
<1>9. g[z].out = g[2].out
  <2>1. EndsAfter(s, g, z, 2) BY <1>2, <1>8, <1>4 DEF EndsAfter
  <2> QED BY <2>1, EndTurns
<1>10. v \o <<Dollar>> = Append(v, Dollar) OBVIOUS
<1> QED BY <1>4, <1>8, <1>9, <1>10

-----------------------------------------------------------------------------
(* What the table has.  The entries come first and the free slots after    *)
(* them, so that a new entry never hides one that there was.               *)
TableInv ==
  /\ envTable \in [EnvSlots -> EnvEntry]
  /\ \A i \in EnvSlots : Len(envTable[i].name) < EnvNameLen /\ Len(envTable[i].value) < EnvValLen
  /\ \A i, j \in EnvSlots : j < i /\ envTable[i].used => envTable[j].used

Short(name) == Len(name) < EnvNameLen

StandsFor(t, m, name) ==
  /\ m[name].set => FoundIn(t, name) # -1 /\ GetIn(t, name) = Cut(m[name].value, EnvValLen)
  /\ ~m[name].set =>
       \/ FoundIn(t, name) = -1
       \/ \E long \in Names : m[long].set /\ ~Short(long) /\ Cut(long, EnvNameLen) = name

EnvInv ==
  /\ TableInv
  /\ meant \in [Names -> [set : BOOLEAN, value : Seq(STRING)]]
  /\ \A name \in Names : Short(name) => StandsFor(envTable, meant, name)

(* A value that is put in the place of one.                                *)
LEMMA SetsFound ==
  ASSUME EnvInv, NEW name \in Seq(STRING), NEW value \in Seq(STRING), Sets(name, value), Found(name) # -1
  PROVE  EnvInv'
<1> PICK t \in [EnvSlots -> EnvEntry] : t = envTable BY DEF EnvInv, TableInv
<1> PICK i : i = FoundIn(t, name) OBVIOUS
<1>1. i \in EnvSlots /\ t[i].used /\ t[i].name = name BY LooksUp, FoundIs
<1> PICK v : v = Cut(value, EnvValLen) OBVIOUS
<1>2. v \in Seq(STRING) /\ Len(v) < EnvValLen BY CutIs, EnvConstants
<1> PICK u : u = [t EXCEPT ![i].value = v] OBVIOUS
<1>3. envTable' = u BY LooksUp DEF Sets, EnvSet
<1>4. u \in [EnvSlots -> EnvEntry]
  <2>1. t[i] \in EnvEntry BY <1>1
  <2>2. [t[i] EXCEPT !.value = v] \in EnvEntry BY <1>2, <2>1 DEF EnvEntry
  <2> QED BY <1>1, <2>2
<1>5. \A j \in EnvSlots : u[j].name = t[j].name /\ u[j].used = t[j].used
  <2> SUFFICES ASSUME NEW j \in EnvSlots PROVE u[j].name = t[j].name /\ u[j].used = t[j].used OBVIOUS
  <2>1. t[j] \in EnvEntry OBVIOUS
  <2>2. u[j] = IF j = i THEN [t[j] EXCEPT !.value = v] ELSE t[j] OBVIOUS
  <2> QED BY <2>1, <2>2 DEF EnvEntry
<1>6. \A j \in EnvSlots : u[j].value = IF j = i THEN v ELSE t[j].value
  <2> SUFFICES ASSUME NEW j \in EnvSlots PROVE u[j].value = IF j = i THEN v ELSE t[j].value OBVIOUS
  <2>1. t[j] \in EnvEntry OBVIOUS
  <2>2. u[j] = IF j = i THEN [t[j] EXCEPT !.value = v] ELSE t[j] OBVIOUS
  <2> QED BY <2>1, <2>2 DEF EnvEntry
<1>7. TableInv'
  <2>1. \A j \in EnvSlots : Len(u[j].name) < EnvNameLen /\ Len(u[j].value) < EnvValLen
    BY <1>2, <1>5, <1>6 DEF EnvInv, TableInv
  <2>2. \A j, k \in EnvSlots : k < j /\ u[j].used => u[k].used BY <1>5 DEF EnvInv, TableInv
  <2> QED BY <1>3, <1>4, <2>1, <2>2 DEF TableInv
<1>8. \A n : FoundIn(u, n) = FoundIn(t, n)
  <2> SUFFICES ASSUME NEW n PROVE FoundIn(u, n) = FoundIn(t, n) OBVIOUS
  <2>1. {j \in EnvSlots : u[j].used /\ u[j].name = n} = {j \in EnvSlots : t[j].used /\ t[j].name = n} BY <1>5
  <2> QED BY <2>1 DEF FoundIn
<1>9. GetIn(u, name) = v
  <2>1. FoundIn(u, name) = i /\ i # -1 BY <1>1, <1>8, FoundIs
  <2> QED BY <1>1, <1>6, <2>1 DEF GetIn
<1>10. ASSUME NEW n, n # name PROVE GetIn(u, n) = GetIn(t, n)
  <2>1. CASE FoundIn(t, n) = -1 BY <1>8, <2>1 DEF GetIn
  <2>2. CASE FoundIn(t, n) # -1
    <3>1. FoundIn(t, n) \in EnvSlots /\ t[FoundIn(t, n)].name = n BY <2>2, FoundIs
    <3>2. FoundIn(t, n) # i BY <1>1, <1>10, <3>1
    <3>3. u[FoundIn(t, n)].value = t[FoundIn(t, n)].value BY <1>6, <3>1, <3>2
    <3> QED BY <1>8, <2>2, <3>3 DEF GetIn
  <2> QED BY <2>1, <2>2
<1> PICK m \in [Names -> [set : BOOLEAN, value : Seq(STRING)]] : m = meant BY DEF EnvInv
<1> PICK w : w = meant' OBVIOUS
<1>11. w = IF name \in Names THEN [m EXCEPT ![name] = [set |-> TRUE, value |-> value]] ELSE m BY DEF Sets
<1>12. w \in [Names -> [set : BOOLEAN, value : Seq(STRING)]] BY <1>11
<1>13. \A n \in Names : n # name => w[n] = m[n] BY <1>11
<1>14. name \in Names => w[name].set /\ w[name].value = value BY <1>11
<1>15. \A n \in Names : m[n].set => w[n].set BY <1>13, <1>14
<1>16. ASSUME NEW n \in Names, Short(n) PROVE StandsFor(u, w, n)
  <2>1. StandsFor(t, m, n) BY <1>16 DEF EnvInv
  <2>2. CASE n = name
    <3>1. w[n].set /\ w[n].value = value BY <1>14, <2>2
    <3>2. FoundIn(u, n) # -1
      <4>1. FoundIn(u, n) = i BY <1>8, <2>2
      <4>2. -1 \notin EnvSlots BY FoundIs
      <4> QED BY <1>1, <4>1, <4>2
    <3> QED BY <1>9, <2>2, <3>1, <3>2 DEF StandsFor
  <2>3. CASE n # name
    <3>1. w[n] = m[n] /\ FoundIn(u, n) = FoundIn(t, n) /\ GetIn(u, n) = GetIn(t, n) BY <1>8, <1>10, <1>13, <2>3
    <3> QED BY <1>15, <2>1, <3>1 DEF StandsFor
  <2> QED BY <2>2, <2>3
<1> QED BY <1>3, <1>7, <1>12, <1>16 DEF EnvInv, Short

(* A new entry.                                                            *)
LEMMA SetsNew ==
  ASSUME EnvInv, NEW name \in Seq(STRING), NEW value \in Seq(STRING), Sets(name, value), name \in Names \/ Short(name),
         Found(name) = -1, FreeEntry # -1
  PROVE  EnvInv'
<1> PICK t \in [EnvSlots -> EnvEntry] : t = envTable BY DEF EnvInv, TableInv
<1> PICK f : f = FreeEntry OBVIOUS
<1>1. f \in EnvSlots /\ ~t[f].used /\ \A j \in EnvSlots : ~t[j].used => f <= j
  <2> DEFINE S == {j \in EnvSlots : ~t[j].used}
  <2>1. f = FirstSlot(S) BY DEF FreeEntry
  <2>2. S \subseteq EnvSlots OBVIOUS
  <2>3. f \in S /\ \A j \in S : f <= j
    <3> HIDE DEF S
    <3> QED BY <2>1, <2>2, FirstSlotIs
  <2> QED BY <2>3
<1>2. EnvSlots \subseteq Int BY EnvConstants DEF EnvSlots
<1>3. \A j \in EnvSlots : t[j].used <=> j < f
  <2> SUFFICES ASSUME NEW j \in EnvSlots PROVE t[j].used <=> j < f OBVIOUS
  <2>1. f \in Int /\ j \in Int BY <1>1, <1>2
  <2>2. t[j].used => ~(f < j) BY <1>1 DEF EnvInv, TableInv
  <2>3. t[j].used => j # f BY <1>1
  <2>4. ~t[j].used => ~(j < f) BY <1>1, <2>1
  <2>5. ~(f < j) /\ j # f => j < f BY <2>1
  <2> QED BY <2>2, <2>3, <2>4, <2>5
<1> PICK v : v = Cut(value, EnvValLen) OBVIOUS
<1> PICK c : c = Cut(name, EnvNameLen) OBVIOUS
<1>4. /\ v \in Seq(STRING) /\ Len(v) < EnvValLen /\ c \in Seq(STRING) /\ Len(c) < EnvNameLen
      /\ (Short(name) => c = name)
  BY CutIs, EnvConstants DEF Short
<1> PICK e \in EnvEntry : e = [name |-> c, value |-> v, used |-> TRUE] BY <1>4 DEF EnvEntry
<1>5. e.name = c /\ e.value = v /\ e.used OBVIOUS
<1> PICK u : u = [t EXCEPT ![f] = e] OBVIOUS
<1>6. envTable' = u BY DEF Sets, EnvSet, Entry
<1>7. u \in [EnvSlots -> EnvEntry] BY <1>1
<1>8. u[f] = e /\ \A j \in EnvSlots : j # f => u[j] = t[j] BY <1>1
<1>9. TableInv'
  <2>1. \A j \in EnvSlots : Len(u[j].name) < EnvNameLen /\ Len(u[j].value) < EnvValLen
    BY <1>4, <1>5, <1>8 DEF EnvInv, TableInv
  <2>2. ASSUME NEW j \in EnvSlots, NEW k \in EnvSlots, k < j, u[j].used PROVE u[k].used
    <3>1. f \in Int /\ j \in Int /\ k \in Int BY <1>1, <1>2
    <3>2. CASE k = f BY <1>5, <1>8, <3>2
    <3>3. CASE k # f
      <4>1. j = f \/ j < f BY <1>3, <1>8, <2>2
      <4>2. k < f BY <2>2, <3>1, <4>1
      <4> QED BY <1>3, <1>8, <3>3, <4>2
    <3> QED BY <3>2, <3>3
  <2> QED BY <1>6, <1>7, <2>1, <2>2 DEF TableInv
<1>10. ASSUME NEW n, FoundIn(t, n) # -1 PROVE FoundIn(u, n) = FoundIn(t, n) /\ GetIn(u, n) = GetIn(t, n)
  <2> PICK i : i = FoundIn(t, n) OBVIOUS
  <2>1. i \in EnvSlots /\ t[i].used /\ t[i].name = n /\ \A j \in EnvSlots : t[j].used /\ t[j].name = n => i <= j
    BY <1>10, FoundIs
  <2>2. i # f /\ u[i] = t[i] BY <1>1, <1>8, <2>1
  <2>3. ASSUME NEW j \in EnvSlots, j < i PROVE ~(u[j].used /\ u[j].name = n)
    <3>1. f \in Int /\ i \in Int /\ j \in Int BY <1>1, <1>2, <2>1
    <3>2. i < f BY <1>3, <2>1
    <3>3. j # f BY <2>3, <3>1, <3>2
    <3>4. ~(i <= j) BY <2>3, <3>1
    <3> QED BY <1>8, <2>1, <3>3, <3>4
  <2>4. FoundIn(u, n) = i
    <3>1. i \in EnvSlots /\ u[i].used /\ u[i].name = n BY <2>1, <2>2
    <3>2. NoneBefore(u, n, i) BY <2>3 DEF NoneBefore
    <3> QED BY <3>1, <3>2, FoundAt
  <2> QED BY <1>10, <2>2, <2>4 DEF GetIn
<1>11. ASSUME NEW n, FoundIn(t, n) = -1, n # c PROVE FoundIn(u, n) = -1
  <2>1. \A j \in EnvSlots : ~(t[j].used /\ t[j].name = n) BY <1>11, FoundIs
  <2>2. \A j \in EnvSlots : ~(u[j].used /\ u[j].name = n) BY <1>5, <1>8, <1>11, <2>1
  <2> QED BY <2>2, NotFound
<1>12. FoundIn(t, c) = -1 => FoundIn(u, c) = f /\ GetIn(u, c) = v
  <2> SUFFICES ASSUME FoundIn(t, c) = -1 PROVE FoundIn(u, c) = f /\ GetIn(u, c) = v OBVIOUS
  <2>1. \A j \in EnvSlots : ~(t[j].used /\ t[j].name = c) BY FoundIs
  <2>2. \A j \in EnvSlots : j < f => ~(u[j].used /\ u[j].name = c)
    <3> SUFFICES ASSUME NEW j \in EnvSlots, j < f PROVE ~(u[j].used /\ u[j].name = c) OBVIOUS
    <3>1. j # f BY <1>1, <1>2
    <3> QED BY <1>8, <2>1, <3>1
  <2>3. FoundIn(u, c) = f
    <3>1. f \in EnvSlots /\ u[f].used /\ u[f].name = c BY <1>1, <1>5, <1>8
    <3>2. NoneBefore(u, c, f) BY <2>2 DEF NoneBefore
    <3> QED BY <3>1, <3>2, FoundAt
  <2>4. f # -1 BY <1>1, FoundIs
  <2> QED BY <1>5, <1>8, <2>3, <2>4 DEF GetIn
<1> PICK m \in [Names -> [set : BOOLEAN, value : Seq(STRING)]] : m = meant BY DEF EnvInv
<1> PICK w : w = meant' OBVIOUS
<1>13. w = IF name \in Names THEN [m EXCEPT ![name] = [set |-> TRUE, value |-> value]] ELSE m BY DEF Sets
<1>14. w \in [Names -> [set : BOOLEAN, value : Seq(STRING)]] BY <1>13
<1>15. \A n \in Names : n # name => w[n] = m[n] BY <1>13
<1>16. name \in Names => w[name].set /\ w[name].value = value BY <1>13
<1>17. \A n \in Names : m[n].set => w[n].set BY <1>15, <1>16
<1>18. FoundIn(t, name) = -1 BY LooksUp
<1>19. ASSUME NEW n \in Names, Short(n) PROVE StandsFor(u, w, n)
  <2>1. StandsFor(t, m, n) BY <1>19 DEF EnvInv
  <2>2. CASE n = name
    <3>1. c = n BY <1>4, <1>19, <2>2
    <3>2. w[n].set /\ w[n].value = value BY <1>16, <2>2
    <3>3. FoundIn(u, n) = f /\ GetIn(u, n) = v BY <1>12, <1>18, <2>2, <3>1
    <3>4. f # -1 BY <1>1, FoundIs
    <3> QED BY <3>2, <3>3, <3>4 DEF StandsFor
  <2>3. CASE n # name
    <3>1. w[n] = m[n] BY <1>15, <2>3
    <3>2. CASE FoundIn(t, n) # -1
      <4>1. FoundIn(u, n) = FoundIn(t, n) /\ GetIn(u, n) = GetIn(t, n) BY <1>10, <3>2
      <4> QED BY <1>17, <2>1, <3>1, <4>1 DEF StandsFor
    <3>3. CASE FoundIn(t, n) = -1
      <4>1. ~m[n].set BY <2>1, <3>3 DEF StandsFor
      <4>2. CASE n # c
        <5>1. FoundIn(u, n) = -1 BY <1>11, <3>3, <4>2
        <5> QED BY <3>1, <4>1, <5>1 DEF StandsFor
      <4>3. CASE n = c
        <5>1. ~Short(name) BY <1>4, <2>3, <4>3
        <5>2. name \in Names /\ w[name].set BY <1>16, <5>1
        <5> QED BY <3>1, <4>1, <4>3, <5>1, <5>2 DEF StandsFor
      <4> QED BY <4>2, <4>3
    <3> QED BY <3>2, <3>3
  <2> QED BY <2>2, <2>3
<1> QED BY <1>6, <1>9, <1>14, <1>19 DEF EnvInv, Short

LEMMA EnvStays ==
  ASSUME EnvInv, UNCHANGED <<envTable, meant>>
  PROVE  EnvInv'
BY DEF EnvInv, TableInv, StandsFor, Short, FoundIn, GetIn

LEMMA SetsKeeps ==
  ASSUME EnvInv, NEW name \in Seq(STRING), NEW value \in Seq(STRING), Sets(name, value), name \in Names \/ Short(name)
  PROVE  EnvInv'
<1>1. CASE Found(name) # -1 BY <1>1, SetsFound
<1>2. CASE Found(name) = -1 /\ FreeEntry # -1 BY <1>2, SetsNew
<1>3. CASE Found(name) = -1 /\ FreeEntry = -1
  <2>1. UNCHANGED <<envTable, meant>> BY <1>3 DEF Sets, EnvSet
  <2> QED BY <2>1, EnvStays
<1> QED BY <1>1, <1>2, <1>3

(* What is assigned is made of the line.                                   *)
LEMMA GivenTyped ==
  ASSUME EnvInv, NEW typed \in Typed
  PROVE  typed \in Seq(STRING) /\ \A given \in Expansions(typed) : given \in Seq(STRING)
<1>1. typed \in Seq(STRING) BY EnvConstants
<1>2. envTable \in [EnvSlots -> EnvEntry] BY DEF EnvInv, TableInv
<1>3. ASSUME NEW b \in Behind, NEW c \in Behind PROVE UpToSpace(Expand(Expand(typed, b), c)) \in Seq(STRING)
  <2>1. b \in Seq(STRING) /\ c \in Seq(STRING) BY EnvConstants
  <2>2. Expand(typed, b) \in Seq(STRING) BY <1>1, <1>2, <2>1, ExpandTyped
  <2>3. Expand(Expand(typed, b), c) \in Seq(STRING) BY <1>2, <2>1, <2>2, ExpandTyped
  <2> PICK s \in Seq(STRING) : s = Expand(Expand(typed, b), c) BY <2>3
  <2> PICK n : n = RunLength(s, 1, ToSet(s) \ {Space}) OBVIOUS
  <2>4. n \in 0 .. Len(s)
    <3>1. Len(s) \in Nat /\ 1 \in Nat \ {0} OBVIOUS
    <3> QED BY <3>1, RunIs
  <2>5. SubSeq(s, 1, n) \in Seq(STRING)
    <3>1. PICK z \in Nat : z = n /\ z <= Len(s) BY <2>4
    <3>2. SubSeq(s, 1, z) \in Seq(STRING) BY <3>1, FrontIs
    <3> QED BY <3>1, <3>2
  <2> QED BY <2>5 DEF UpToSpace
<1> QED BY <1>1, <1>3 DEF Expansions

LEMMA EnvStarts ==
  ASSUME EnvInit
  PROVE  EnvInv
<1>1. Unused \in EnvEntry BY DEF Unused, EnvEntry
<1>2. envTable \in [EnvSlots -> EnvEntry] BY <1>1 DEF EnvInit
<1>3. \A i \in EnvSlots : envTable[i].name = <<>> /\ envTable[i].value = <<>> /\ ~envTable[i].used
  BY DEF EnvInit, Unused
<1>4. TableInv BY <1>2, <1>3, EnvConstants DEF TableInv
<1>5. meant \in [Names -> [set : BOOLEAN, value : Seq(STRING)]] BY DEF EnvInit, NotSet
<1>6. ASSUME NEW name \in Names PROVE StandsFor(envTable, meant, name)
  <2>1. FoundIn(envTable, name) = -1 BY <1>3, NotFound
  <2>2. ~meant[name].set BY DEF EnvInit, NotSet
  <2> QED BY <2>1, <2>2 DEF StandsFor
<1> QED BY <1>4, <1>5, <1>6 DEF EnvInv

(* For every table, room for names and values, and texts: the entries of   *)
(* the table come first, and what env_get finds for a name that fits is    *)
(* what that name was last given, or, if it was given nothing, nothing or  *)
(* what a longer name left there.                                          *)
THEOREM EnvInductive == EnvSpec => []EnvInv
<1>1. EnvInit => EnvInv BY EnvStarts
<1>2. EnvInv /\ [EnvNext]_nvenv => EnvInv'
  <2> SUFFICES ASSUME EnvInv, [EnvNext]_nvenv PROVE EnvInv' OBVIOUS
  <2>1. ASSUME NEW name \in Names, NEW typed \in Typed, Assign(name, typed) \/ Export(name, typed) \/ ReadLine(name, typed)
        PROVE  EnvInv'
    <3>1. name \in Seq(STRING) BY NameTyped
    <3>2. typed \in Seq(STRING) /\ \A given \in Expansions(typed) : given \in Seq(STRING) BY GivenTyped
    <3>3. Cut(name, EnvNameLen) \in Seq(STRING) /\ Short(Cut(name, EnvNameLen)) BY <3>1, CutIs, EnvConstants DEF Short
    <3>4. CASE Assign(name, typed)
      <4>1. PICK given \in Expansions(typed) : Sets(Cut(name, EnvNameLen), Cut(given, EnvValLen)) BY <3>4 DEF Assign
      <4>2. Cut(given, EnvValLen) \in Seq(STRING) BY <3>2, CutIs, EnvConstants
      <4> QED BY <3>3, <4>1, <4>2, SetsKeeps
    <3>5. CASE Export(name, typed)
      <4>1. PICK given \in Expansions(typed) : Sets(name, given) BY <3>5 DEF Export
      <4> QED BY <3>1, <3>2, <4>1, SetsKeeps
    <3>6. CASE ReadLine(name, typed) BY <3>1, <3>2, <3>6, SetsKeeps DEF ReadLine
    <3> QED BY <2>1, <3>4, <3>5, <3>6
  <2>2. CASE UNCHANGED nvenv BY <2>2, EnvStays DEF nvenv
  <2> QED BY <2>1, <2>2 DEF EnvNext
<1> QED BY <1>1, <1>2, PTL DEF EnvSpec

(* $NAME is what NAME was last given, as much of it as there is room for,  *)
(* and a reference leaves what follows it as it is, but for the one        *)
(* character that a reference in braces takes with it.                     *)
THEOREM EnvKeptAlways == EnvSpec => []EnvKept
<1>1. ASSUME EnvInv PROVE EnvKept
  <2>1. envTable \in [EnvSlots -> EnvEntry] BY <1>1 DEF EnvInv, TableInv
  <2>2. EnvTypeOK
    <3>1. \A i \in EnvSlots : envTable[i] \in EnvEntry BY <2>1
    <3>2. \A i \in EnvSlots : envTable[i].used \in BOOLEAN BY <3>1 DEF EnvEntry
    <3> QED BY <1>1, <3>2 DEF EnvTypeOK, EnvInv, TableInv
  <2>3. ASSUME NEW name \in Names, Len(name) < EnvNameLen
        PROVE  /\ meant[name].set => EnvGet(name) = Cut(meant[name].value, EnvValLen)
               /\ ~meant[name].set =>
                    \/ Found(name) = -1
                    \/ \E long \in Names : meant[long].set /\ Len(long) >= EnvNameLen /\ Cut(long, EnvNameLen) = name
               /\ \A b \in Behind :
                    /\ Expand(<<Dollar>> \o name \o <<Space, Dollar>>, b) = EnvGet(name) \o <<Space, Dollar>>
                    /\ Expand(<<Dollar, Open>> \o name \o <<Close, Space, Dollar>>, b) = EnvGet(name) \o <<Dollar>>
    <3>1. StandsFor(envTable, meant, name) BY <1>1, <2>3 DEF EnvInv, Short
    <3>2. Found(name) = FoundIn(envTable, name) /\ EnvGet(name) = GetIn(envTable, name) BY LooksUp
    <3>3. EnvGet(name) \in Seq(STRING) BY <2>1, <3>2, GetTyped
    <3>4. ASSUME NEW b \in Behind
          PROVE  /\ Expand(<<Dollar>> \o name \o <<Space, Dollar>>, b) = EnvGet(name) \o <<Space, Dollar>>
                 /\ Expand(<<Dollar, Open>> \o name \o <<Close, Space, Dollar>>, b) = EnvGet(name) \o <<Dollar>>
      <4>1. b \in Seq(STRING) BY EnvConstants
      <4> QED BY <2>3, <3>3, <4>1, ReferenceIs, BracesIs
    <3>5. \A long \in Names : ~Short(long) => Len(long) >= EnvNameLen
      <4>1. \A long \in Names : Len(long) \in Nat BY EnvConstants
      <4> QED BY <4>1, EnvConstants DEF Short
    <3> QED BY <3>1, <3>2, <3>4, <3>5 DEF StandsFor
  <2> QED BY <2>2, <2>3 DEF EnvKept
<1> QED BY <1>1, EnvInductive, PTL

-----------------------------------------------------------------------------
(* What Hangman's fairness rests on: only so many letters were guessed.    *)
HangInv == HangmanFair /\ IsFiniteSet(guessed)

(* A word's letters are all guessed when no place of it is hidden.         *)
LEMMA WholeWord ==
  ASSUME HangmanAssumption, NEW w \in Seq(Alphabet), NEW g,
         NEW s, s = [i \in 1 .. Len(w) |-> IF w[i] \in g THEN w[i] ELSE Hidden]
  PROVE  Hidden \in ToSet(s) <=> ~(ToSet(w) \subseteq g)
<1>1. Len(w) \in Nat /\ DOMAIN w = 1 .. Len(w)
  OBVIOUS
<1> DEFINE Seen(i) == IF w[i] \in g THEN w[i] ELSE Hidden
<1>2. DOMAIN s = 1 .. Len(w) /\ \A i \in 1 .. Len(w) : s[i] = Seen(i)
  BY Zenon
<1>3. \A i \in 1 .. Len(w) : w[i] \in Alphabet
  OBVIOUS
<1>4. Hidden \notin Alphabet
  BY DEF HangmanAssumption
<1>5. \A i \in 1 .. Len(w) : s[i] = Hidden <=> w[i] \notin g
  BY <1>2, <1>3, <1>4
<1>6. Hidden \in ToSet(s) <=> \E i \in 1 .. Len(w) : s[i] = Hidden
  BY <1>2 DEF ToSet
<1>7. ToSet(w) \subseteq g <=> \A i \in 1 .. Len(w) : w[i] \in g
  BY <1>1 DEF ToSet
<1> QED
  BY <1>5, <1>6, <1>7

(* A game that begins shows nothing of its word.                           *)
LEMMA NewWordFair ==
  ASSUME HangmanAssumption, NewWord
  PROVE  HangInv'
<1>1. PICK w \in Words : word' = w /\ shown' = [i \in 1 .. Len(w) |-> Hidden]
  BY DEF NewWord
<1>2. w \in Seq(Alphabet) /\ w # <<>> /\ Len(w) \in Nat /\ Len(w) > 0 /\ w[1] \in ToSet(w)
  <2>1. w \in Seq(Alphabet) /\ w # <<>>
    BY DEF HangmanAssumption
  <2>2. Len(w) \in Nat /\ Len(w) > 0 /\ DOMAIN w = 1 .. Len(w)
    BY <2>1
  <2> QED
    BY <2>1, <2>2 DEF ToSet
<1>3. hang' = "yes" /\ guessed' = {} /\ wrong' = 0
  BY DEF NewWord
<1>4. HangTypeOK'
  <2>1. shown' \in Seq(Alphabet \cup {Hidden})
    BY <1>1, <1>2
  <2> QED
    BY <1>1, <1>3, <2>1 DEF HangTypeOK, HangmanAssumption
<1>5. shown' = [i \in 1 .. Len(word') |-> IF word'[i] \in guessed' THEN word'[i] ELSE Hidden]
  BY <1>1, <1>3
<1>6. IsFiniteSet(guessed') /\ Cardinality(guessed' \ ToSet(word')) = 0
  <2>1. guessed' \ ToSet(word') = {}
    BY <1>3
  <2> QED
    BY <1>3, <2>1, FS_EmptySet
<1>7. ~(ToSet(word') \subseteq guessed')
  BY <1>1, <1>2, <1>3
<1>8. wrong' # MaxWrong
  BY <1>3 DEF HangmanAssumption
<1> QED
  BY <1>3, <1>4, <1>5, <1>6, <1>7, <1>8 DEF HangInv, HangmanFair

(* Before and between games nothing is shown, guessed or wrong.            *)
LEMMA NoGameFair ==
  ASSUME HangmanAssumption,
         hang = "no" /\ word = <<>> /\ shown = <<>> /\ guessed = {} /\ wrong = 0
  PROVE  HangInv
<1>1. HangTypeOK
  BY DEF HangTypeOK, HangmanAssumption
<1>2. shown = [i \in 1 .. Len(word) |-> IF word[i] \in guessed THEN word[i] ELSE Hidden]
  OBVIOUS
<1>3. IsFiniteSet(guessed) /\ Cardinality(guessed \ ToSet(word)) = 0
  <2>1. guessed \ ToSet(word) = {}
    OBVIOUS
  <2> QED
    BY <2>1, FS_EmptySet
<1>4. wrong # MaxWrong
  BY DEF HangmanAssumption
<1> QED
  BY <1>1, <1>2, <1>3, <1>4 DEF HangInv, HangmanFair

(* A letter that was not guessed before shows all its places, or costs one *)
(* of the tries that are left.                                             *)
LEMMA GuessFair ==
  ASSUME HangmanAssumption, HangInv, NEW c \in Alphabet, Guess(c)
  PROVE  HangInv'
<1>1. /\ hang = "yes" /\ c \notin guessed /\ guessed' = guessed \cup {c} /\ word' = word
      /\ shown' = [i \in 1 .. Len(word) |-> IF word[i] = c THEN c ELSE shown[i]]
  BY DEF Guess, NewGuess
<1>2. /\ HangTypeOK /\ IsFiniteSet(guessed)
      /\ shown = [i \in 1 .. Len(word) |-> IF word[i] \in guessed THEN word[i] ELSE Hidden]
      /\ wrong = Cardinality(guessed \ ToSet(word))
      /\ ~(ToSet(word) \subseteq guessed)
      /\ wrong # MaxWrong
  BY <1>1 DEF HangInv, HangmanFair
<1>3. word \in Seq(Alphabet) /\ Len(word) \in Nat
  BY <1>2 DEF HangTypeOK, HangmanAssumption
<1>4. wrong \in Nat /\ wrong < MaxWrong /\ MaxWrong \in Nat
  BY <1>2 DEF HangTypeOK, HangmanAssumption
<1>5. shown' = [i \in 1 .. Len(word') |-> IF word'[i] \in guessed' THEN word'[i] ELSE Hidden]
  <2>1. \A i \in 1 .. Len(word) :
          (IF word[i] = c THEN c ELSE shown[i]) = IF word[i] \in guessed \cup {c} THEN word[i] ELSE Hidden
    BY <1>2
  <2> QED
    BY <1>1, <2>1
<1>6. shown' \in Seq(Alphabet \cup {Hidden})
  <2>1. \A i \in 1 .. Len(word) : word[i] \in Alphabet
    BY <1>3
  <2>2. shown' \in [1 .. Len(word) -> Alphabet \cup {Hidden}]
    BY <1>1, <1>5, <2>1
  <2> QED
    BY <1>3, <2>2
<1>7. IsFiniteSet(guessed') /\ IsFiniteSet(guessed \ ToSet(word))
  BY <1>1, <1>2, FS_AddElement, FS_Subset
<1>8. Hidden \in ToSet(shown') <=> ~(ToSet(word') \subseteq guessed')
  <2>1. shown' = [i \in 1 .. Len(word) |-> IF word[i] \in guessed' THEN word[i] ELSE Hidden]
    BY <1>1, <1>5
  <2>2. Hidden \in ToSet(shown') <=> ~(ToSet(word) \subseteq guessed')
    BY <1>3, <2>1, WholeWord
  <2> QED
    BY <1>1, <2>2
<1>9. CASE c \in ToSet(word)
  <2>1. wrong' = wrong /\ hang' = IF Hidden \in ToSet(shown') THEN "yes" ELSE "won"
    BY <1>9 DEF Guess
  <2>2. guessed' \ ToSet(word') = guessed \ ToSet(word)
    BY <1>1, <1>9
  <2>3. HangTypeOK'
    BY <1>1, <1>2, <1>6, <2>1 DEF HangTypeOK
  <2>4. hang' = "won" <=> hang' # "no" /\ ToSet(word') \subseteq guessed'
    BY <1>8, <2>1
  <2>5. hang' = "hanged" <=> wrong' = MaxWrong
    BY <1>2, <2>1
  <2>6. wrong' = Cardinality(guessed' \ ToSet(word'))
    BY <1>2, <2>1, <2>2
  <2> QED
    BY <1>5, <1>7, <2>3, <2>4, <2>5, <2>6 DEF HangInv, HangmanFair
<1>10. CASE c \notin ToSet(word)
  <2>1. wrong' = wrong + 1 /\ hang' = IF wrong' >= MaxWrong THEN "hanged" ELSE "yes"
    BY <1>10 DEF Guess
  <2>2. guessed' \ ToSet(word') = (guessed \ ToSet(word)) \cup {c} /\ c \notin guessed \ ToSet(word)
    BY <1>1, <1>10
  <2>3. wrong' = Cardinality(guessed' \ ToSet(word'))
    BY <1>2, <1>7, <2>1, <2>2, FS_AddElement
  <2>4. HangTypeOK'
    BY <1>1, <1>2, <1>4, <1>6, <2>1 DEF HangTypeOK
  <2>5. hang' # "won" /\ ~(ToSet(word') \subseteq guessed')
    BY <1>1, <1>2, <1>10, <2>1
  <2>6. hang' = "hanged" <=> wrong' = MaxWrong
    BY <1>4, <2>1
  <2> QED
    BY <1>5, <1>7, <2>3, <2>4, <2>5, <2>6 DEF HangInv, HangmanFair
<1> QED
  BY <1>9, <1>10

(* Hangman's invariant holds in every state.                               *)
THEOREM HangInductive == HangSpec => []HangInv
<1> USE HangmanAssumption
<1>1. HangInit => HangInv
  BY NoGameFair DEF HangInit
<1>2. HangInv /\ [HangNext]_hvars => HangInv'
  <2> SUFFICES ASSUME HangInv, [HangNext]_hvars PROVE HangInv'
    OBVIOUS
  <2>1. CASE HangStart \/ HangAgain
    BY <2>1, NewWordFair DEF HangStart, HangAgain
  <2>2. CASE HangQuit
    <3>1. hang' = "no" /\ word' = <<>> /\ shown' = <<>> /\ guessed' = {} /\ wrong' = 0
      BY <2>2 DEF HangQuit
    <3>2. HangTypeOK'
      BY <3>1 DEF HangTypeOK, HangmanAssumption
    <3>3. shown' = [i \in 1 .. Len(word') |-> IF word'[i] \in guessed' THEN word'[i] ELSE Hidden]
      BY <3>1
    <3>4. guessed' \ ToSet(word') = {}
      BY <3>1
    <3>5. IsFiniteSet(guessed') /\ Cardinality(guessed' \ ToSet(word')) = 0
      BY <3>1, <3>4, FS_EmptySet
    <3>6. wrong' # MaxWrong
      BY <3>1 DEF HangmanAssumption
    <3> QED
      BY <3>1, <3>2, <3>3, <3>5, <3>6 DEF HangInv, HangmanFair
  <2>3. ASSUME NEW c \in Alphabet, Guess(c) PROVE HangInv'
    BY <2>3, GuessFair
  <2>4. CASE UNCHANGED hvars
    <3>1. hang' = hang /\ word' = word /\ shown' = shown /\ guessed' = guessed /\ wrong' = wrong
      BY <2>4 DEF hvars
    <3> QED
      BY <3>1 DEF HangInv, HangmanFair, HangTypeOK
  <2> QED
    BY <2>1, <2>2, <2>3, <2>4 DEF HangNext, HangKeys
<1> QED
  BY <1>1, <1>2, PTL DEF HangSpec

(* Whatever letters are typed, in words of any length, the user sees those *)
(* that were guessed and pays once for each wrong one, and the game ends   *)
(* when the word is whole or the tries are used up (cmd_hangman).          *)
THEOREM HangmanFairAlways == HangSpec => []HangmanFair
<1>1. HangInv => HangmanFair
  BY DEF HangInv
<1> QED
  BY <1>1, HangInductive, PTL

-----------------------------------------------------------------------------
(* What the snake's shape rests on: a meal is what made the last place     *)
(* fresh, and each one counts ten.                                         *)
Meals == \E k \in Nat : snakeScore = 10 * k
SnakeInv == SnakeWhole /\ Meals /\ (fresh => len > StartLen)

Headings == {Up, Right, Down, Left}

(* What SnakeWhole says of a snake on the field, part by part.             *)
NowhereTwice == \A i, j \in BodyPlaces : trail[i] = trail[j] => i = j
InOnePiece == \A i \in BodyPlaces \ {0} : \E d \in Headings : trail[i - 1] = Ahead(trail[i], d)
AsLongAsFed == len = Lesser(StartLen + snakeScore \div 10, MaxLen)
DrawnButGaps == drawn = Body \ gaps

LEMMA SnakeParts ==
  SnakeWhole <=> /\ SnakeTypeOK /\ over # "nothing"
                 /\ (crawling => NowhereTwice /\ InOnePiece /\ AsLongAsFed /\ DrawnButGaps)
BY DEF SnakeWhole, NowhereTwice, InOnePiece, AsLongAsFed, DrawnButGaps, Headings

LEMMA SnakeSizes ==
  ASSUME SnakeAssumption
  PROVE  /\ SnakeW \in Nat \ {0} /\ SnakeH \in Nat \ {0} /\ StartLen \in Nat \ {0}
         /\ MaxLen \in Nat \ {0} /\ MaxScore \in Nat
         /\ StartLen < MaxLen /\ StartLen <= SnakeW \div 2 + 1
         /\ SnakeW \div 2 \in 0 .. SnakeW - 1 /\ SnakeH \div 2 \in 0 .. SnakeH - 1
<1>1. /\ SnakeW \in Nat \ {0} /\ SnakeH \in Nat \ {0} /\ StartLen \in Nat \ {0}
      /\ MaxLen \in Nat \ {0} /\ MaxScore \in Nat
      /\ StartLen < MaxLen /\ StartLen <= SnakeW \div 2 + 1
  BY DEF SnakeAssumption
<1>2. \A n \in Nat \ {0} : n \div 2 \in 0 .. n - 1
  OBVIOUS
<1> QED
  BY <1>1, <1>2

(* A snake that is put on the field lies in a row, over whatever snake was *)
(* there before.                                                           *)
LEMMA SnakeStartWhole ==
  ASSUME SnakeAssumption, SnakeTypeOK, SnakeStart
  PROVE  SnakeInv'
<1>1. /\ crawling' = TRUE /\ dir' = Right /\ len' = StartLen /\ food' \in Field
      /\ snakeScore' = 0 /\ fresh' = FALSE /\ drawn' = {} /\ gaps' = Body' /\ over' = "no"
  BY DEF SnakeStart
<1>2. trail' = [i \in 0 .. MaxLen - 1 |->
                 IF i < StartLen THEN <<SnakeW \div 2 - i, SnakeH \div 2>> ELSE trail[i]]
  BY DEF SnakeStart, SnakeTypeOK
<1>3. \A i \in 0 .. StartLen - 1 :
        /\ i \in 0 .. MaxLen - 1 /\ trail'[i] = <<SnakeW \div 2 - i, SnakeH \div 2>>
        /\ trail'[i] \in Field
  <2> SUFFICES ASSUME NEW i \in 0 .. StartLen - 1
               PROVE  /\ i \in 0 .. MaxLen - 1 /\ trail'[i] = <<SnakeW \div 2 - i, SnakeH \div 2>>
                      /\ trail'[i] \in Field
    OBVIOUS
  <2>1. i \in 0 .. MaxLen - 1 /\ i < StartLen
    BY SnakeSizes
  <2>2. trail'[i] = <<SnakeW \div 2 - i, SnakeH \div 2>>
    BY <1>2, <2>1
  <2>3. SnakeW \div 2 - i \in 0 .. SnakeW - 1 /\ SnakeH \div 2 \in 0 .. SnakeH - 1
    BY SnakeSizes
  <2> QED
    BY <2>1, <2>2, <2>3 DEF Field
<1>4. trail' \in [0 .. MaxLen - 1 -> Field]
  <2>1. \A i \in 0 .. MaxLen - 1 : trail'[i] \in Field
    <3> SUFFICES ASSUME NEW i \in 0 .. MaxLen - 1 PROVE trail'[i] \in Field
      OBVIOUS
    <3>1. CASE i < StartLen
      <4>1. i \in 0 .. StartLen - 1
        BY <3>1, SnakeSizes
      <4> QED
        BY <1>3, <4>1
    <3>2. CASE ~(i < StartLen)
      BY <1>2, <3>2 DEF SnakeTypeOK
    <3> QED
      BY <3>1, <3>2
  <2> QED
    BY <1>2, <2>1
<1>5. BodyPlaces' = 0 .. StartLen - 1
  BY <1>1 DEF BodyPlaces
<1>6. SnakeTypeOK'
  <2>1. len' \in StartLen .. MaxLen /\ snakeScore' \in 0 .. MaxScore
    BY <1>1, SnakeSizes
  <2>2. gaps' \subseteq Field
    BY <1>1, <1>3, <1>5 DEF Body
  <2> QED
    BY <1>1, <1>4, <2>1, <2>2 DEF SnakeTypeOK
<1>7. NowhereTwice'
  <2> SUFFICES ASSUME NEW i \in 0 .. StartLen - 1, NEW j \in 0 .. StartLen - 1, trail'[i] = trail'[j]
               PROVE  i = j
    BY <1>5 DEF NowhereTwice
  <2>1. SnakeW \div 2 - i = SnakeW \div 2 - j
    BY <1>3
  <2> QED
    BY <2>1, SnakeSizes
<1>8. InOnePiece'
  <2> SUFFICES ASSUME NEW i \in (0 .. StartLen - 1) \ {0}
               PROVE  \E d \in Headings : trail'[i - 1] = Ahead(trail'[i], d)
    BY <1>5 DEF InOnePiece, Ahead, Headings, Up, Right, Down, Left
  <2>1. i - 1 \in 0 .. StartLen - 1
    BY SnakeSizes
  <2>2. trail'[i - 1] = <<SnakeW \div 2 - (i - 1), SnakeH \div 2>>
    BY <1>3, <2>1
  <2>3. trail'[i] = <<SnakeW \div 2 - i, SnakeH \div 2>>
    BY <1>3
  <2>4. SnakeW \div 2 - (i - 1) = (SnakeW \div 2 - i) + 1
    BY SnakeSizes
  <2>5. Ahead(trail'[i], Right) = <<trail'[i][1] + 1, trail'[i][2]>>
    BY DEF Ahead, Up, Right, Down, Left
  <2>6. trail'[i - 1] = Ahead(trail'[i], Right)
    BY <2>2, <2>3, <2>4, <2>5
  <2> QED
    BY <2>6 DEF Headings
<1>9. AsLongAsFed'
  <2>1. 0 \div 10 = 0
    OBVIOUS
  <2> QED
    BY <1>1, <2>1, SnakeSizes DEF AsLongAsFed, Lesser
<1>10. DrawnButGaps'
  BY <1>1 DEF DrawnButGaps
<1>11. Meals'
  <2>1. snakeScore' = 10 * 0
    BY <1>1
  <2> QED
    BY <2>1 DEF Meals
<1>12. SnakeWhole'
  BY <1>1, <1>6, <1>7, <1>8, <1>9, <1>10 DEF SnakeWhole, NowhereTwice, InOnePiece, AsLongAsFed, DrawnButGaps, Headings
<1> QED
  BY <1>1, <1>11, <1>12 DEF SnakeInv

(* A tick: every place but the first takes the cell before it, and the     *)
(* head goes where nothing of the snake is.                                *)
LEMMA CrawlWhole ==
  ASSUME SnakeAssumption, SnakeInv, Crawl
  PROVE  SnakeInv'
<1> DEFINE next == Ahead(trail[0], dir)
           eats == next = food
           meal == IF eats THEN {food'} ELSE {}
           wiped == IF fresh THEN {trail[len - 1]} ELSE {}
<1>1. /\ crawling /\ ~Hits(next) /\ snakeScore + 10 <= MaxScore
      /\ trail' = Shifted(next)
      /\ drawn' = ((drawn \ {trail[len - 1]}) \cup {next}) \ meal
      /\ gaps' = (((gaps \cup wiped) \ {next}) \cup meal) \cap Body'
      /\ len' = IF eats /\ len < MaxLen THEN len + 1 ELSE len
      /\ fresh' = (len' > len)
      /\ snakeScore' = IF eats THEN snakeScore + 10 ELSE snakeScore
      /\ food' \in Field /\ crawling' = crawling /\ dir' = dir /\ over' = over
  BY DEF Crawl, SnakeInv, SnakeWhole, SnakeTypeOK
<1>2. SnakeTypeOK /\ over # "nothing" /\ NowhereTwice /\ InOnePiece /\ AsLongAsFed /\ DrawnButGaps
  BY <1>1, SnakeParts DEF SnakeInv
<1>3. /\ len \in Nat /\ len >= StartLen /\ len <= MaxLen /\ StartLen >= 1 /\ StartLen \in Nat
      /\ MaxLen \in Nat /\ len >= 1 /\ snakeScore \in Nat
  BY <1>2, SnakeSizes DEF SnakeTypeOK
<1>4. next \in Field /\ \A i \in 0 .. len - 1 : trail[i] # next
  BY <1>1 DEF Hits
<1>5. DOMAIN trail = 0 .. MaxLen - 1 /\ \A i \in 0 .. MaxLen - 1 : trail[i] \in Field
  BY <1>2 DEF SnakeTypeOK
<1>6. trail' = [i \in 0 .. MaxLen - 1 |-> IF i = 0 THEN next ELSE IF i < len THEN trail[i - 1] ELSE trail[i]]
  BY <1>1, <1>5 DEF Shifted
<1> HIDE DEF next, meal, wiped
<1>7. trail'[0] = next /\ \A i \in 1 .. len - 1 : trail'[i] = trail[i - 1]
  <2>1. 0 \in 0 .. MaxLen - 1 /\ \A i \in 1 .. len - 1 : i \in 0 .. MaxLen - 1 /\ i # 0 /\ i < len
    BY <1>3
  <2> QED
    BY <1>6, <2>1
<1>8. BodyPlaces' = 0 .. len - 1 /\ (fresh' => len' > StartLen)
  <2>1. CASE eats /\ len < MaxLen
    <3>1. len' = len + 1
      BY <1>1, <2>1
    <3>2. len' > len /\ len' - 2 = len - 1 /\ len' > StartLen
      BY <1>3, <3>1
    <3>3. fresh'
      BY <1>1, <3>2, Zenon
    <3> QED
      BY <3>2, <3>3 DEF BodyPlaces
  <2>2. CASE ~(eats /\ len < MaxLen)
    <3>1. len' = len
      BY <1>1, <2>2
    <3>2. ~(len' > len)
      BY <1>3, <3>1
    <3>3. ~fresh'
      BY <1>1, <3>2, Zenon
    <3> QED
      BY <3>1, <3>3 DEF BodyPlaces
  <2> QED
    BY <2>1, <2>2
<1>9. \A i \in 0 .. len - 2 : i \in BodyPlaces
  BY <1>3 DEF BodyPlaces
<1>10. len' \in Nat /\ len' \in StartLen .. MaxLen
  BY <1>1, <1>3
<1>11. SnakeTypeOK'
  <2>1. trail' \in [0 .. MaxLen - 1 -> Field]
    <3>1. \A i \in 0 .. MaxLen - 1 : trail'[i] \in Field
      <4> SUFFICES ASSUME NEW i \in 0 .. MaxLen - 1 PROVE trail'[i] \in Field
        OBVIOUS
      <4>1. CASE i = 0
        BY <1>4, <1>7, <4>1
      <4>2. CASE i # 0 /\ i < len
        <5>1. i - 1 \in 0 .. MaxLen - 1
          BY <1>3, <4>2
        <5>2. trail'[i] = trail[i - 1]
          BY <1>6, <4>2
        <5> QED
          BY <1>5, <5>1, <5>2
      <4>3. CASE i # 0 /\ ~(i < len)
        BY <1>5, <1>6, <4>3
      <4> QED
        BY <4>1, <4>2, <4>3
    <3> QED
      BY <1>6, <3>1
  <2>2. drawn' \subseteq Field /\ gaps' \subseteq Field
    <3>1. drawn' \subseteq Field
      BY <1>1, <1>2, <1>4 DEF SnakeTypeOK
    <3>2. 0 .. len - 1 \subseteq 0 .. MaxLen - 1
      BY <1>3
    <3>3. Body' \subseteq Field
      BY <1>8, <2>1, <3>2 DEF Body
    <3> QED
      BY <1>1, <3>1, <3>3
  <2>3. snakeScore' \in 0 .. MaxScore
    BY <1>1, <1>3, SnakeSizes
  <2>4. crawling' \in BOOLEAN /\ fresh' \in BOOLEAN
    BY <1>1, <1>2 DEF SnakeTypeOK
  <2>5. dir' \in {Up, Right, Down, Left}
    BY <1>1, <1>2 DEF SnakeTypeOK
  <2>6. over' \in {"no", "quit", "wall", "itself", "stale", "nothing"}
    BY <1>1, <1>2 DEF SnakeTypeOK
  <2> QED
    BY <1>1, <1>10, <2>1, <2>2, <2>3, <2>4, <2>5, <2>6 DEF SnakeTypeOK
<1>12. NowhereTwice'
  <2> SUFFICES ASSUME NEW i \in 0 .. len - 1, NEW j \in 0 .. len - 1, trail'[i] = trail'[j]
               PROVE  i = j
    BY <1>8 DEF NowhereTwice
  <2>1. \A k \in 0 .. len - 1 : k # 0 => k \in 1 .. len - 1 /\ k - 1 \in 0 .. len - 1 /\ k - 1 \in 0 .. len - 2
    BY <1>3
  <2>2. CASE i = 0 \/ j = 0
    <3>1. CASE i # 0
      BY <1>4, <1>7, <2>1, <2>2, <3>1
    <3>2. CASE j # 0
      BY <1>4, <1>7, <2>1, <2>2, <3>2
    <3> QED
      BY <3>1, <3>2
  <2>3. CASE i # 0 /\ j # 0
    <3>1. trail[i - 1] = trail[j - 1] /\ i - 1 \in BodyPlaces /\ j - 1 \in BodyPlaces
      BY <1>7, <1>9, <2>1, <2>3
    <3>2. i - 1 = j - 1
      BY <1>2, <3>1 DEF NowhereTwice
    <3> QED
      BY <3>2
  <2> QED
    BY <2>2, <2>3
<1>13. InOnePiece'
  <2> SUFFICES ASSUME NEW i \in (0 .. len - 1) \ {0}
               PROVE  \E d \in Headings : trail'[i - 1] = Ahead(trail'[i], d)
    BY <1>8 DEF InOnePiece, Ahead, Headings, Up, Right, Down, Left
  <2>1. i \in 1 .. len - 1 /\ trail'[i] = trail[i - 1]
    BY <1>3, <1>7
  <2>2. CASE i = 1
    <3>1. trail'[i - 1] = Ahead(trail'[i], dir)
      BY <1>7, <2>1, <2>2 DEF next
    <3>2. dir \in Headings
      BY <1>2 DEF SnakeTypeOK, Headings
    <3> QED
      BY <3>1, <3>2
  <2>3. CASE i # 1
    <3>1. i - 1 \in 1 .. len - 1 /\ i - 1 \in 0 .. len - 2 /\ i - 1 # 0
      BY <1>3, <2>1, <2>3
    <3>2. trail'[i - 1] = trail[(i - 1) - 1]
      BY <1>7, <3>1
    <3>3. i - 1 \in BodyPlaces \ {0}
      BY <1>9, <3>1
    <3>4. \E d \in Headings : trail[(i - 1) - 1] = Ahead(trail[i - 1], d)
      BY <1>2, <3>3 DEF InOnePiece
    <3> QED
      BY <2>1, <3>2, <3>4
  <2> QED
    BY <2>2, <2>3
<1>14. PICK k \in Nat : snakeScore = 10 * k
  BY DEF SnakeInv, Meals
<1>15. Meals'
  <2>1. snakeScore' = 10 * k \/ snakeScore' = 10 * (k + 1)
    BY <1>1, <1>14
  <2>2. k \in Nat /\ k + 1 \in Nat
    OBVIOUS
  <2> QED
    BY <2>1, <2>2 DEF Meals
<1>16. AsLongAsFed'
  <2>1. (10 * k) \div 10 = k /\ (10 * (k + 1)) \div 10 = k + 1
    OBVIOUS
  <2>2. len = IF StartLen + k < MaxLen THEN StartLen + k ELSE MaxLen
    BY <1>2, <1>14, <2>1 DEF AsLongAsFed, Lesser
  <2>3. CASE eats
    <3>1. snakeScore' \div 10 = k + 1
      <4>1. snakeScore' = 10 * (k + 1)
        BY <1>1, <1>14, <2>3
      <4> QED
        BY <2>1, <4>1
    <3>2. len' = IF StartLen + (k + 1) < MaxLen THEN StartLen + (k + 1) ELSE MaxLen
      BY <1>1, <1>3, <2>2, <2>3
    <3> QED
      BY <3>1, <3>2, SnakeSizes DEF AsLongAsFed, Lesser
  <2>4. CASE ~eats
    <3>1. snakeScore' \div 10 = k /\ len' = len
      BY <1>1, <1>14, <2>1, <2>4
    <3> QED
      BY <2>2, <3>1 DEF AsLongAsFed, Lesser
  <2> QED
    BY <2>3, <2>4
<1>17. DrawnButGaps'
  <2> DEFINE tail == trail[len - 1]
  <2>1. \A cell : cell \in Body' <=> cell = next \/ \E i \in 0 .. len - 2 : cell = trail[i]
    <3>1. \A i \in 0 .. len - 2 : i + 1 \in 1 .. len - 1 /\ (i + 1) - 1 = i /\ i + 1 \in 0 .. len - 1
      BY <1>3
    <3>2. \A i \in 1 .. len - 1 : i - 1 \in 0 .. len - 2
      BY <1>3
    <3>3. \A i \in 0 .. len - 1 : i = 0 \/ i \in 1 .. len - 1
      BY <1>3
    <3>4. 0 \in 0 .. len - 1
      BY <1>3
    <3>5. Body' = {trail'[i] : i \in 0 .. len - 1}
      BY <1>8 DEF Body
    <3> HIDE DEF eats
    <3>6. \A i \in 0 .. len - 2 : trail'[i + 1] = trail[i]
      BY <1>7, <3>1
    <3>7. \A i \in 0 .. len - 1 : trail'[i] = next \/ \E m \in 0 .. len - 2 : trail'[i] = trail[m]
      BY <1>7, <3>2, <3>3
    <3>8. ASSUME NEW cell, cell \in Body'
          PROVE  cell = next \/ \E i \in 0 .. len - 2 : cell = trail[i]
      BY <3>5, <3>7, <3>8
    <3>9. ASSUME NEW cell, cell = next \/ \E i \in 0 .. len - 2 : cell = trail[i]
          PROVE  cell \in Body'
      BY <1>7, <3>1, <3>4, <3>5, <3>6, <3>9
    <3> QED
      BY <3>8, <3>9
  <2>2. \A i \in 0 .. len - 2 : trail[i] # next
    BY <1>3, <1>4
  <2>3. \A cell : cell \in Body /\ cell # tail => \E i \in 0 .. len - 2 : cell = trail[i]
    <3>1. \A i \in BodyPlaces : i \in 0 .. len - 2 \/ i = len - 1
      BY <1>3 DEF BodyPlaces
    <3> QED
      BY <3>1 DEF Body
  <2>4. \A i \in 0 .. len - 2 : trail[i] \in Body /\ (trail[i] = tail => fresh)
    <3>1. ASSUME NEW i \in 0 .. len - 2, ~fresh PROVE trail[i] # tail
      <4>1. BodyPlaces = 0 .. len - 1
        BY <3>1 DEF BodyPlaces
      <4>2. i \in 0 .. len - 1 /\ len - 1 \in 0 .. len - 1 /\ i # len - 1
        BY <1>3
      <4> QED
        BY <1>2, <4>1, <4>2 DEF NowhereTwice
    <3> QED
      BY <1>9, <3>1 DEF Body
  <2>5. \A cell : cell \in wiped <=> fresh /\ cell = tail
    BY DEF wiped
  <2>6. drawn = Body \ gaps
    BY <1>2 DEF DrawnButGaps
  <2>7. \A cell : cell \in drawn' <=> /\ (cell \in Body /\ cell \notin gaps /\ cell # tail) \/ cell = next
                                     /\ cell \notin meal
    BY <1>1, <2>6
  <2>8. \A cell : cell \in gaps' <=> /\ cell \in Body'
                                    /\ \/ (cell \in gaps \/ cell \in wiped) /\ cell # next
                                       \/ cell \in meal
    BY <1>1
  <2> HIDE DEF tail, eats
  <2>9. ASSUME NEW cell PROVE cell \in drawn' <=> cell \in Body' /\ cell \notin gaps'
    <3>1. CASE cell = next
      BY <2>1, <2>7, <2>8, <3>1
    <3>2. CASE cell # next
      <4>1. cell \in Body' <=> \E i \in 0 .. len - 2 : cell = trail[i]
        BY <2>1, <3>2
      <4>2. cell \in Body' => cell \in Body /\ (cell = tail => cell \in wiped)
        BY <2>4, <2>5, <4>1
      <4>3. cell \in Body /\ cell # tail => cell \in Body'
        BY <2>3, <4>1
      <4> QED
        BY <2>5, <2>7, <2>8, <3>2, <4>2, <4>3
    <3> QED
      BY <3>1, <3>2
  <2>10. \A cell : cell \in drawn' <=> cell \in Body' \ gaps'
    BY <2>9
  <2> QED
    BY <2>10 DEF DrawnButGaps
<1>18. SnakeWhole'
  BY <1>1, <1>2, <1>11, <1>12, <1>13, <1>16, <1>17 DEF SnakeWhole, NowhereTwice, InOnePiece, AsLongAsFed, DrawnButGaps, Headings
<1> QED
  BY <1>8, <1>15, <1>18 DEF SnakeInv

(* Between runs of the game only the cells are left.                       *)
LEMMA SnakeEndWhole ==
  ASSUME SnakeAssumption, SnakeTypeOK, NEW why \in {"quit", "wall", "itself", "stale"},
         SnakeEnd(why)
  PROVE  SnakeInv'
<1>1. /\ crawling' = FALSE /\ dir' = Right /\ len' = StartLen /\ food' = <<0, 0>>
      /\ snakeScore' = 0 /\ fresh' = FALSE /\ drawn' = {} /\ trail' = trail
      /\ gaps' = {} /\ over' = why
  BY DEF SnakeEnd
<1>2. food' \in Field
  <2>1. 0 \in 0 .. SnakeW - 1 /\ 0 \in 0 .. SnakeH - 1
    BY SnakeSizes
  <2> QED
    BY <1>1, <2>1 DEF Field
<1>3. len' \in StartLen .. MaxLen /\ snakeScore' \in 0 .. MaxScore
  BY <1>1, SnakeSizes
<1>4. SnakeTypeOK'
  BY <1>1, <1>2, <1>3 DEF SnakeTypeOK
<1>5. Meals'
  <2>1. snakeScore' = 10 * 0
    BY <1>1
  <2> QED
    BY <2>1 DEF Meals
<1> QED
  BY <1>1, <1>4, <1>5 DEF SnakeInv, SnakeWhole

(* What a tick comes upon is a wall, the snake or the place that is not of *)
(* this snake.                                                             *)
LEMMA ObstacleKnown ==
  ASSUME len \in Nat, NEW cell, Hits(cell)
  PROVE  Obstacle(cell) \in {"quit", "wall", "itself", "stale"}
<1>1. CASE cell \notin Field
  BY <1>1 DEF Obstacle
<1>2. CASE cell \in Field
  <2>1. PICK i \in 0 .. len - 1 : trail[i] = cell
    BY <1>2 DEF Hits
  <2>2. i \in BodyPlaces \/ (fresh /\ i = len - 1)
    <3>1. CASE ~fresh
      BY <3>1 DEF BodyPlaces
    <3>2. CASE fresh
      <4>1. BodyPlaces = 0 .. len - 2
        BY <3>2 DEF BodyPlaces
      <4>2. i = len - 1 \/ i \in 0 .. len - 2
        OBVIOUS
      <4> QED
        BY <3>2, <4>1, <4>2
    <3> QED
      BY <3>1, <3>2
  <2>3. cell \in Body \/ (fresh /\ cell = trail[len - 1])
    BY <2>1, <2>2 DEF Body
  <2> QED
    BY <1>2, <2>3 DEF Obstacle
<1> QED
  BY <1>1, <1>2

(* The snake's invariant holds in every state.                             *)
THEOREM SnakeInductive == SnakeSpec => []SnakeInv
<1> USE SnakeAssumption
<1>1. SnakeInit => SnakeInv
  <2> SUFFICES ASSUME SnakeInit PROVE SnakeInv
    OBVIOUS
  <2>1. <<0, 0>> \in Field
    <3>1. 0 \in 0 .. SnakeW - 1 /\ 0 \in 0 .. SnakeH - 1
      BY SnakeSizes
    <3> QED
      BY <3>1 DEF Field
  <2>2. len \in StartLen .. MaxLen /\ snakeScore \in 0 .. MaxScore
    BY SnakeSizes DEF SnakeInit
  <2>3. SnakeTypeOK
    <3>1. /\ crawling = FALSE /\ fresh = FALSE /\ dir = Right /\ food = <<0, 0>> /\ drawn = {}
          /\ gaps = {} /\ over = "no"
          /\ trail = [i \in 0 .. MaxLen - 1 |-> <<0, 0>>]
      BY DEF SnakeInit
    <3>2. trail \in [0 .. MaxLen - 1 -> Field]
      BY <2>1, <3>1
    <3> QED
      BY <2>1, <2>2, <3>1, <3>2 DEF SnakeTypeOK
  <2>4. Meals
    <3>1. snakeScore = 10 * 0
      BY DEF SnakeInit
    <3> QED
      BY <3>1 DEF Meals
  <2> QED
    BY <2>3, <2>4 DEF SnakeInit, SnakeInv, SnakeWhole
<1>2. SnakeInv /\ [SnakeNext]_svars => SnakeInv'
  <2> SUFFICES ASSUME SnakeInv, [SnakeNext]_svars PROVE SnakeInv'
    OBVIOUS
  <2>1. CASE SnakeStart
    BY <2>1, SnakeStartWhole DEF SnakeInv, SnakeWhole
  <2>2. CASE Crawl
    BY <2>2, CrawlWhole
  <2>3. CASE SnakeQuits
    BY <2>3, SnakeEndWhole DEF SnakeQuits, SnakeInv, SnakeWhole
  <2>6. CASE SnakeDies
    <3>1. PICK next : Hits(next) /\ SnakeEnd(Obstacle(next))
      BY <2>6 DEF SnakeDies
    <3>2. PICK why : why = Obstacle(next)
      OBVIOUS
    <3>3. why \in {"quit", "wall", "itself", "stale"} /\ SnakeEnd(why)
      <4>1. len \in Nat
        BY SnakeSizes DEF SnakeInv, SnakeWhole, SnakeTypeOK
      <4> QED
        BY <3>1, <3>2, <4>1, ObstacleKnown
    <3> QED
      BY <3>3, SnakeEndWhole DEF SnakeInv, SnakeWhole
  <2>4. ASSUME NEW d \in {Up, Right, Down, Left}, Turn(d) PROVE SnakeInv'
    <3>1. /\ crawling' = crawling /\ len' = len /\ trail' = trail /\ food' = food
          /\ snakeScore' = snakeScore /\ fresh' = fresh /\ drawn' = drawn /\ dir' = d
          /\ gaps' = gaps /\ over' = over
      BY <2>4 DEF Turn
    <3>2. SnakeTypeOK'
      BY <3>1 DEF SnakeInv, SnakeWhole, SnakeTypeOK
    <3>3. BodyPlaces' = BodyPlaces /\ Body' = Body
      BY <3>1 DEF BodyPlaces, Body
    <3>4. SnakeWhole'
      BY <3>1, <3>2, <3>3 DEF SnakeInv, SnakeWhole, Ahead, Up, Right, Down, Left
    <3> QED
      BY <3>1, <3>4 DEF SnakeInv, Meals
  <2>5. CASE UNCHANGED svars
    <3>1. /\ crawling' = crawling /\ len' = len /\ trail' = trail /\ food' = food
          /\ snakeScore' = snakeScore /\ fresh' = fresh /\ drawn' = drawn /\ dir' = dir
          /\ gaps' = gaps /\ over' = over
      BY <2>5 DEF svars
    <3>2. SnakeTypeOK'
      BY <3>1 DEF SnakeInv, SnakeWhole, SnakeTypeOK
    <3>3. BodyPlaces' = BodyPlaces /\ Body' = Body
      BY <3>1 DEF BodyPlaces, Body
    <3>4. SnakeWhole'
      BY <3>1, <3>2, <3>3 DEF SnakeInv, SnakeWhole, Ahead, Up, Right, Down, Left
    <3> QED
      BY <3>1, <3>4 DEF SnakeInv, Meals
  <2> QED
    BY <2>1, <2>2, <2>3, <2>4, <2>5, <2>6 DEF SnakeNext, SnakeKeys
<1> QED
  BY <1>1, <1>2, PTL DEF SnakeSpec

(* On a field of any size, for any keys between ticks and any run over the *)
(* cells of an older snake: a snake is in one piece, nowhere twice and as  *)
(* long as its meals make it, the screen shows it but for the gaps that    *)
(* SnakeWhole names, and its game ends at "q", a wall, the snake itself or *)
(* the one cell of an older snake (cmd_snake).                             *)
THEOREM SnakeWholeAlways == SnakeSpec => []SnakeWhole
<1>1. SnakeInv => SnakeWhole
  BY DEF SnakeInv
<1> QED
  BY <1>1, SnakeInductive, PTL
=============================================================================
