------------------------------ MODULE Windows ------------------------------
(***************************************************************************)
(* The window table and the widgets of gui/gui.c.  A widget is its number  *)
(* and the block of the kernel heap it was made in; blocks are used again  *)
(* once they are freed.  The lists of widgets are sequences, newest first. *)
(* The functions are called by applications while gui_run is running.      *)
(***************************************************************************)
EXTENDS Integers, Sequences, SequencesExt

CONSTANTS GuiMaxWindows,  \* GUI_MAX_WINDOWS
          Blocks,         \* blocks that the heap has room for
          MaxWidgetId,    \* bound on the numbers given out
          MaxUses         \* bound on the windows that are made, and below which
                          \* closing them twice may lower their count

ASSUME WindowsAssumption ==
  /\ GuiMaxWindows \in Nat /\ MaxWidgetId \in Nat /\ MaxUses \in Nat

VARIABLES visible, focused, widgets,  \* fields of windows
          focusedWindow,              \* focused_window, -1 for none
          windowCount,                \* window_count
          nextWidgetId,               \* next_widget_id
          running,                    \* gui_run is in its loop
          allocated,                  \* blocks of the heap that are in use
          uses,                       \* windows made so far in each slot (history)
          madeFor,                    \* slot and use that each widget was added to (history)
          inTurn                     \* no window was hidden, closed twice, or
                                      \* given a widget when closed (history)

table == <<visible, focused, widgets>>
history == <<uses, madeFor, inTurn>>
wvars == <<table, focusedWindow, windowCount, nextWidgetId, running, allocated, history>>

Slots == 0 .. GuiMaxWindows - 1
NotMade == <<>>

Cleared ==
  /\ visible' = [i \in Slots |-> FALSE]
  /\ focused' = [i \in Slots |-> FALSE]
  /\ widgets' = [i \in Slots |-> <<>>]
  /\ focusedWindow' = -1
  /\ windowCount' = 0
  /\ nextWidgetId' = 1

WindowsInit ==
  /\ visible = [i \in Slots |-> FALSE]
  /\ focused = [i \in Slots |-> FALSE]
  /\ widgets = [i \in Slots |-> <<>>]
  /\ focusedWindow = -1
  /\ windowCount = 0
  /\ nextWidgetId = 1
  /\ running = FALSE
  /\ allocated = {}
  /\ uses = [i \in Slots |-> 0]
  /\ madeFor = [id \in 1 .. MaxWidgetId |-> NotMade]
  /\ inTurn = TRUE

(* gui_init, as gui_run begins *)
GuiInit ==
  /\ ~running
  /\ running' = TRUE
  /\ Cleared
  /\ madeFor' = [id \in 1 .. MaxWidgetId |-> NotMade]
  /\ UNCHANGED <<allocated, uses, inTurn>>

-----------------------------------------------------------------------------
(* Mutant: the window that had the focus keeps it. *)
TakeFocusOnly(i) == [focused EXCEPT ![i] = TRUE]

(* The new window is given the focus and then the one before loses it,     *)
(* also when both are the same slot.                                       *)
TakeFocus(i) ==
  IF focusedWindow >= 0
    THEN [focused EXCEPT ![i] = TRUE, ![focusedWindow] = FALSE]
    ELSE [focused EXCEPT ![i] = TRUE]

NewList(i) == [widgets EXCEPT ![i] = <<>>]

GuiCreateWindow(i) ==
  /\ running
  /\ uses[i] < MaxUses
  /\ ~visible[i] /\ \A j \in 0 .. i - 1 : visible[j]
  /\ visible' = [visible EXCEPT ![i] = TRUE]
  /\ focused' = TakeFocus(i)
  /\ widgets' = NewList(i)
  /\ focusedWindow' = i
  /\ windowCount' = windowCount + 1
  /\ uses' = [uses EXCEPT ![i] = @ + 1]
  /\ UNCHANGED <<nextWidgetId, running, allocated, madeFor, inTurn>>

BlocksOf(i) == {w.block : w \in ToSet(widgets[i])}

(* Mutant: the list keeps pointing to widgets that are freed. *)
ShutListed(closing) ==
  /\ allocated' = allocated \ UNION {BlocksOf(i) : i \in closing}
  /\ visible' = [i \in Slots |-> visible[i] /\ i \notin closing]
  /\ windowCount' = windowCount - Cardinality(closing)
  /\ UNCHANGED widgets

(* gui_close_window of each of some windows *)
Shut(closing) ==
  /\ allocated' = allocated \ UNION {BlocksOf(i) : i \in closing}
  /\ visible' = [i \in Slots |-> visible[i] /\ i \notin closing]
  /\ widgets' = [i \in Slots |-> IF i \in closing THEN <<>> ELSE widgets[i]]
  /\ windowCount' = windowCount - Cardinality(closing)

GuiCloseWindow(i) ==
  /\ running
  /\ uses[i] > 0 /\ windowCount > -MaxUses
  /\ Shut({i})
  /\ inTurn' = (inTurn /\ visible[i])
  /\ UNCHANGED <<focused, focusedWindow, nextWidgetId, running, uses, madeFor>>

GuiFocusWindow(i) ==
  /\ running
  /\ focused' = IF focusedWindow >= 0
                  THEN [focused EXCEPT ![focusedWindow] = FALSE, ![i] = TRUE]
                  ELSE [focused EXCEPT ![i] = TRUE]
  /\ focusedWindow' = i
  /\ UNCHANGED <<visible, widgets, windowCount, nextWidgetId, running, allocated, history>>

GuiShowWindow(i, show) ==
  /\ running
  /\ visible[i] # show
  /\ visible' = [visible EXCEPT ![i] = show]
  /\ inTurn' = FALSE
  /\ UNCHANGED <<focused, widgets, focusedWindow, windowCount, nextWidgetId,
                 running, allocated, uses, madeFor>>

WidgetId == nextWidgetId

(* gui_add_label and the others, which allocate the same structure and     *)
(* differ in its contents; without memory they change nothing.             *)
GuiAddWidget(i, b) ==
  /\ running
  /\ nextWidgetId <= MaxWidgetId
  /\ b \notin allocated
  /\ allocated' = allocated \cup {b}
  /\ widgets' = [widgets EXCEPT ![i] = <<[id |-> WidgetId, block |-> b]>> \o @]
  /\ nextWidgetId' = nextWidgetId + 1
  /\ madeFor' = [madeFor EXCEPT ![nextWidgetId] = <<i, uses[i]>>]
  /\ inTurn' = (inTurn /\ visible[i])
  /\ UNCHANGED <<visible, focused, focusedWindow, windowCount, running, uses>>

(* gui_shutdown, when Escape ends gui_run *)
GuiShutdown ==
  /\ running
  /\ running' = FALSE
  /\ Shut({i \in Slots : visible[i]})
  /\ UNCHANGED <<focused, focusedWindow, nextWidgetId, history>>

WindowsCalls ==
  \/ GuiShutdown
  \/ \E i \in Slots :
       \/ GuiCreateWindow(i) \/ GuiCloseWindow(i) \/ GuiFocusWindow(i)
       \/ \E show \in BOOLEAN : GuiShowWindow(i, show)
       \/ \E b \in Blocks : GuiAddWidget(i, b)

WindowsNext == GuiInit \/ WindowsCalls

WindowsSpec == WindowsInit /\ [][WindowsNext]_wvars

-----------------------------------------------------------------------------
Listed(i) == ToSet(widgets[i])

WindowsTypeOK ==
  /\ visible \in [Slots -> BOOLEAN]
  /\ focused \in [Slots -> BOOLEAN]
  /\ \A i \in Slots : widgets[i] \in Seq([id : 1 .. MaxWidgetId, block : Blocks])
  /\ focusedWindow \in Slots \cup {-1}
  /\ windowCount \in Int
  /\ nextWidgetId \in 1 .. MaxWidgetId + 1
  /\ running \in BOOLEAN
  /\ allocated \subseteq Blocks
  /\ uses \in [Slots -> 0 .. MaxUses]
  /\ inTurn \in BOOLEAN

(* At most one window is drawn with the focus, and it is the one that      *)
(* focused_window names.                                                   *)
OneFocus == \A i \in Slots : focused[i] => i = focusedWindow

(* window_count is the number of windows on the screen, when windows are   *)
(* closed once and not hidden.                                             *)
CountVisible == inTurn => windowCount = Cardinality({i \in Slots : visible[i]})

(* Whatever applications do, no list holds a widget that was freed, and no *)
(* block of memory is in two places.                                       *)
NoDangling ==
  /\ \A i \in Slots : BlocksOf(i) \subseteq allocated
  /\ \A i, j \in Slots : i # j => BlocksOf(i) \cap BlocksOf(j) = {}
  /\ \A i \in Slots : Cardinality(BlocksOf(i)) = Len(widgets[i])

(* Every widget can be reached from the window it belongs to until it is   *)
(* freed, and gui_run leaves none behind, when windows are closed once,    *)
(* not hidden, and given widgets only while open.                          *)
NoLeak ==
  inTurn =>
    /\ allocated = UNION {BlocksOf(i) : i \in Slots}
    /\ ~running => allocated = {}

(* The number of a widget finds, through gui_get_widget, that widget or    *)
(* nothing: never one of a later window in the same slot.                  *)
HandlesStable ==
  /\ \A i \in Slots : \A w \in Listed(i) : madeFor[w.id] = <<i, uses[i]>>
  /\ \A i, j \in Slots : \A v \in Listed(i), w \in Listed(j) :
       v.id = w.id => v = w

(* What a run of gui_run leaves in the tables agrees, the focus, the count *)
(* and the memory taken for widgets; that memory is never shared between   *)
(* windows nor reached after it was freed, and the widgets' numbers find   *)
(* nothing of an older window.                                             *)
WidgetsOwned ==
  WindowsTypeOK /\ OneFocus /\ CountVisible /\ NoLeak /\ NoDangling /\ HandlesStable
=============================================================================
