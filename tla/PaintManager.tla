---------------------------- MODULE PaintManager ----------------------------
(***************************************************************************)
(* CPaintManagerUI of duilib and one list of the window: which controls    *)
(* the manager points at, and how the rows a refresh removes are           *)
(* destroyed.                                                              *)
(*                                                                         *)
(* RemoveAll only hands the rows to AddDelayedCleanup; the message         *)
(* WM_APP + 1, posted once until it is handled, destroys them.  duilib     *)
(* has no lock: it is meant for the window's thread, and the thread of     *)
(* OnSwitchAdapter calls RemoveAll all the same (ui.cpp:473).  With        *)
(* SwitchThread the steps of the threads interleave; without it every      *)
(* call comes from the window's thread.  A step on one of the unlocked     *)
(* arrays is atomic here, although the code does not make it so.           *)
(*                                                                         *)
(* After a successful switch the buttons are enabled while the refresh it  *)
(* started still works (ui.cpp:480), and operations overlap.  They are     *)
(* followed until one empties, fills or goes through the list while        *)
(* another thread is inside RemoveAll: what two of them make of the same   *)
(* m_items is not defined, and the model ends there (met).                 *)
(*                                                                         *)
(* The mouse is over a label of a row, over Button or outside the window;  *)
(* Button stands for the operation buttons and, as a thing to hover over,  *)
(* for every other control that is no row.  Where a row lies is left open  *)
(* but for what MouseMove says; painting, scrolling, timers, native child  *)
(* windows and asynchronous notifications (the program asks for none) are  *)
(* left out.                                                               *)
(***************************************************************************)
EXTENDS Naturals, FiniteSets

CONSTANTS
    Row,            \* CListContainerElementUI objects, by address
    Label,          \* the labels of a row
    Button,         \* an operation button
    None,           \* nullptr
    Worker,         \* operations that may be under way at once, with their threads
    SwitchThread    \* whether OnSwitchAdapter's thread may refresh the list

ASSUME PaintManagerAssumption ==
    /\ SwitchThread \in BOOLEAN
    /\ None # Button
    /\ {None, Button} \cap (Row \X Label) = {}

VARIABLES
    alive,          \* rows that exist
    items,          \* m_items of the list
    cleanup,        \* m_aDelayedCleanup
    posted,         \* m_bAsyncNotifyPosted
    queued,         \* messages WM_APP + 1 in the window's queue
    upc,            \* where the handler of WM_APP + 1 is
    hover, click, key, focus,   \* m_pEventHover, .._Click, .._Key, m_pFocus
    captured,       \* m_bMouseCapture
    pushed,         \* UISTATE_CAPTURED of Button
    leaveNeeded,    \* rows in m_aNeedMouseLeaveNeeded
    enabled,        \* whether the operation buttons are
    pc,             \* how far each operation is
    todo,           \* items RemoveAll of a switch's thread has yet to visit
    orphaned,       \* history: a row of leaveNeeded has been destroyed
    met             \* history: the list was touched during another thread's RemoveAll

rows == <<alive, items, cleanup>>
async == <<posted, queued, upc>>
mouse == <<hover, click, captured, pushed, leaveNeeded, orphaned>>
keyboard == <<key, focus>>
operation == <<enabled, pc, todo, met>>
vars == <<rows, async, mouse, keyboard, operation>>

RemovingAll == {"walk", "post", "set", "empty"}     \* the thread is in RemoveAll
Place == {"idle", "switch", "spawned", "fill", "enable"} \cup RemovingAll

At(w, p) == pc[w] = p
Goto(w, p) == pc' = [pc EXCEPT ![w] = p]

\* A thread of an operation is in the middle of RemoveAll.
Removing == \E w \in Worker : pc[w] \in RemovingAll

\* The list is touched, perhaps in the middle of another thread's RemoveAll.
Touch == met' = Removing

LabelsOf(r) == {r} \X Label
Control == {Button} \cup (Row \X Label)

\* The rows (one or none) that control c is a label of: its events end there.
RowOf(c) == {r \in Row : c \in LabelsOf(r)}

Init ==
    /\ alive = {} /\ items = {} /\ cleanup = {}
    /\ posted = FALSE /\ queued = 0 /\ upc = "loop"
    /\ hover = None /\ click = None /\ key = None /\ focus = None
    /\ captured = FALSE /\ pushed = FALSE
    /\ leaveNeeded = {} /\ orphaned = FALSE
    /\ enabled = TRUE /\ pc = [w \in Worker |-> "idle"] /\ todo = {} /\ met = FALSE

-----------------------------------------------------------------------------
(* The list, called on the window's thread.                                *)

\* Mutant of AddDelayedCleanup: the flag is set and nothing is posted.
AddDelayedCleanupUnposted(rs) ==
    /\ cleanup' = cleanup \cup rs
    /\ posted' = (posted \/ rs # {})
    /\ UNCHANGED queued

\* AddDelayedCleanup for each of rs, with PostAsyncNotify.
AddDelayedCleanup(rs) ==
    /\ cleanup' = cleanup \cup rs
    /\ IF rs # {} /\ ~posted
         THEN queued' = queued + 1 /\ posted' = TRUE
         ELSE UNCHANGED <<queued, posted>>

\* Mutant of RemoveAll: m_items is not emptied.
RemoveAllKeepsItems ==
    /\ AddDelayedCleanup(items)
    /\ UNCHANGED items

RemoveAll ==
    /\ AddDelayedCleanup(items)
    /\ items' = {}

\* OnClick for an operation button: a refresh starts with RemoveAll, the switch
\* with its thread.  The buttons are disabled, which clears their state.
Activate ==
    /\ \E w \in Worker :
         /\ At(w, "idle")
         /\ \/ RemoveAll /\ Touch /\ Goto(w, "fill")
            \/ /\ SwitchThread
               /\ Goto(w, "switch")
               /\ UNCHANGED <<items, cleanup, queued, posted, met>>
    /\ enabled' = FALSE
    /\ UNCHANGED <<alive, upc, todo>>

NoActivate == UNCHANGED <<rows, async, operation>>

\* The function a refresh posts: new rows, at addresses that are free, and the
\* enabling.  A refresh that a switch has started may end before the switch does.
Fill(w) ==
    /\ upc = "loop"
    /\ \/ At(w, "fill") /\ Goto(w, "idle")
       \/ At(w, "spawned") /\ Goto(w, "enable")
    /\ \E new \in SUBSET (Row \ alive) :
         /\ alive' = alive \cup new
         /\ items' = items \cup new
    /\ Touch
    /\ enabled' = TRUE
    /\ UNCHANGED <<cleanup, async, mouse, keyboard, todo>>

-----------------------------------------------------------------------------
(* WM_APP + 1.                                                             *)

\* Mutant of AppMessage: the flag is not reset.
AppMessageKeepsFlag ==
    /\ upc = "loop" /\ queued > 0
    /\ queued' = queued - 1
    /\ upc' = "clean"
    /\ UNCHANGED <<rows, posted, mouse, keyboard, operation>>

AppMessage ==
    /\ upc = "loop" /\ queued > 0
    /\ queued' = queued - 1
    /\ posted' = FALSE
    /\ upc' = "clean"
    /\ UNCHANGED <<rows, mouse, keyboard, operation>>

\* ReapObjects for the labels of a row: a pointer to one of them is cleared.
Reap(p, r) == IF p \in LabelsOf(r) THEN None ELSE p

\* Mutant of Delete: the control pressed is forgotten by ReapObjects.
DeleteKeepsClick ==
    /\ upc = "clean"
    /\ \E r \in cleanup \cap alive :
         /\ alive' = alive \ {r}
         /\ hover' = Reap(hover, r)
         /\ key' = Reap(key, r) /\ focus' = Reap(focus, r)
         /\ orphaned' = (orphaned \/ r \in leaveNeeded)
    /\ UNCHANGED <<items, cleanup, async, click, captured, pushed, leaveNeeded, operation>>

\* Delete of one row, which destroys its labels first.  m_aNeedMouseLeaveNeeded
\* is not looked at.
Delete ==
    /\ upc = "clean"
    /\ \E r \in cleanup \cap alive :
         /\ alive' = alive \ {r}
         /\ hover' = Reap(hover, r) /\ click' = Reap(click, r)
         /\ key' = Reap(key, r) /\ focus' = Reap(focus, r)
         /\ orphaned' = (orphaned \/ r \in leaveNeeded)
    /\ UNCHANGED <<items, cleanup, async, captured, pushed, leaveNeeded, operation>>

\* Mutant of Deleted: the loop ends one row early.
DeletedAllButOne ==
    /\ upc = "clean" /\ Cardinality(cleanup \cap alive) <= 1
    /\ upc' = "empty"
    /\ UNCHANGED <<rows, posted, queued, mouse, keyboard, operation>>

Deleted ==
    /\ upc = "clean" /\ cleanup \cap alive = {}
    /\ upc' = "empty"
    /\ UNCHANGED <<rows, posted, queued, mouse, keyboard, operation>>

\* Mutant of EmptyCleanup: the handler does not come back to the loop.
EmptyCleanupAstray ==
    /\ upc = "empty"
    /\ cleanup' = {}
    /\ upc' = "posted"
    /\ UNCHANGED <<alive, items, posted, queued, mouse, keyboard, operation>>

EmptyCleanup ==
    /\ upc = "empty"
    /\ cleanup' = {}
    /\ upc' = "loop"
    /\ UNCHANGED <<alive, items, posted, queued, mouse, keyboard, operation>>

-----------------------------------------------------------------------------
(* Mouse and keyboard, taken only when no posted message waits.            *)

Input == upc = "loop" /\ queued = 0

\* FindControl(pt) walks the items of the list.
Hit == {Button} \cup (items \X Label)

\* SetFocus(c): a disabled control takes the focus away and does not get it.
SetFocus(c) == focus' = IF c = Button /\ ~enabled /\ focus # Button THEN None ELSE c

\* The rows whose rectangle may hold the point pt is hit at.  The hit test is
\* clipped to the list, a row's own test is not: beyond the list the row that its
\* edge cuts off may still hold the point.  The rows of the list do not overlap; a
\* row no longer in it keeps an old rectangle.
Holding(pt) ==
    {held \in SUBSET Row :
        IF pt = Button THEN \A r, q \in held \cap items : r = q
                       ELSE held \cap items = RowOf(pt)}

\* Mutant of MouseMove: rows that wait for a leave are not told of it.
MouseMoveTellsNone(pt) ==
    /\ Input /\ ~captured
    /\ pt # hover
    /\ hover' = pt
    /\ \E held \in Holding(pt) : leaveNeeded' = leaveNeeded \cup (RowOf(hover) \cap held)
    /\ UNCHANGED <<rows, async, click, captured, pushed, orphaned, keyboard, operation>>

\* WM_MOUSEMOVE (WM_MOUSELEAVE sends one with the point (-1, -1) and pt = None)
\* while nothing has captured the mouse.  A row told of a leave asks for another
\* one while the point is inside its rectangle.  Nobody is told when the mouse
\* comes from nowhere.
MouseMove(pt) ==
    /\ Input /\ ~captured
    /\ pt # hover \/ pt = Button
    /\ hover' = pt
    /\ IF hover = None
         THEN UNCHANGED leaveNeeded
         ELSE \E held \in Holding(pt) :
                leaveNeeded' = (leaveNeeded \cup RowOf(hover)) \cap held
    /\ UNCHANGED <<rows, async, click, captured, pushed, orphaned, keyboard, operation>>

LButtonDown(c) ==
    /\ Input
    /\ click' = c
    /\ SetFocus(c)
    /\ captured' = TRUE
    /\ pushed' = (pushed \/ (c = Button /\ enabled))
    /\ UNCHANGED <<rows, async, hover, leaveNeeded, orphaned, key, operation>>

LButtonDblClk(c) ==
    /\ Input
    /\ click' = c
    /\ captured' = TRUE
    /\ pushed' = (pushed \/ (c = Button /\ enabled))
    /\ UNCHANGED <<rows, async, hover, leaveNeeded, orphaned, keyboard, operation>>

\* The control pressed gets the event after m_pEventClick is cleared; Button is
\* activated if the mouse is still over it.
LButtonUp ==
    /\ Input
    /\ click # None
    /\ captured' = FALSE
    /\ click' = None
    /\ IF click = Button
         THEN /\ pushed' = FALSE
              /\ \/ pushed /\ enabled /\ Activate
                 \/ NoActivate
         ELSE UNCHANGED pushed /\ NoActivate
    /\ UNCHANGED <<hover, leaveNeeded, orphaned, keyboard>>

RButtonDown(c) ==
    /\ Input
    /\ SetFocus(c)
    /\ click' = c
    /\ UNCHANGED <<rows, async, hover, captured, pushed, leaveNeeded, orphaned, key, operation>>

ContextMenu ==
    /\ Input /\ ~captured
    /\ click # None
    /\ click' = None
    /\ UNCHANGED <<rows, async, hover, captured, pushed, leaveNeeded, orphaned, keyboard,
                   operation>>

\* VK_TAB: the rows are no tab stops.
Tab ==
    /\ Input /\ enabled
    /\ focus' = Button
    /\ UNCHANGED <<rows, async, mouse, key, operation>>

\* The space bar or Return activates a focused button; any other key, or a key
\* for a label, only moves m_pEventKey.
KeyDown ==
    /\ Input
    /\ focus # None
    /\ key' = focus
    /\ \/ focus = Button /\ enabled /\ Activate /\ pushed' = FALSE
       \/ NoActivate /\ UNCHANGED pushed
    /\ UNCHANGED <<hover, click, captured, leaveNeeded, orphaned, focus>>

KeyUp ==
    /\ Input
    /\ key # None
    /\ key' = None
    /\ UNCHANGED <<rows, async, mouse, focus, operation>>

-----------------------------------------------------------------------------
(* The thread of OnSwitchAdapter: on_switch_dns, then RemoveAll of the list *)
(* statement by statement, without leaving its own thread.                 *)

SwitchSucceeds(w) ==
    /\ At(w, "switch")
    /\ Goto(w, "walk") /\ todo' = items
    /\ Touch
    /\ UNCHANGED <<rows, async, mouse, keyboard, enabled>>

SwitchFails(w) ==
    /\ At(w, "switch")
    /\ Goto(w, "idle")
    /\ enabled' = TRUE
    /\ UNCHANGED <<rows, async, mouse, keyboard, todo, met>>

\* Mutant of Walk: the flag is not looked at.
WalkPosts(w) ==
    /\ At(w, "walk")
    /\ \E r \in todo :
         /\ cleanup' = cleanup \cup {r}
         /\ todo' = todo \ {r}
    /\ Goto(w, "post")
    /\ UNCHANGED <<alive, items, async, mouse, keyboard, enabled, met>>

\* AddDelayedCleanup of the next item, up to the test in PostAsyncNotify.
Walk(w) ==
    /\ At(w, "walk")
    /\ \E r \in todo :
         /\ cleanup' = cleanup \cup {r}
         /\ todo' = todo \ {r}
    /\ Goto(w, IF posted THEN "walk" ELSE "post")
    /\ UNCHANGED <<alive, items, async, mouse, keyboard, enabled, met>>

PostMessage(w) ==
    /\ At(w, "post")
    /\ queued' = queued + 1
    /\ Goto(w, "set")
    /\ UNCHANGED <<rows, posted, upc, mouse, keyboard, enabled, todo, met>>

SetPosted(w) ==
    /\ At(w, "set")
    /\ posted' = TRUE
    /\ Goto(w, "walk")
    /\ UNCHANGED <<rows, queued, upc, mouse, keyboard, enabled, todo, met>>

Walked(w) ==
    /\ At(w, "walk") /\ todo = {}
    /\ Goto(w, "empty")
    /\ UNCHANGED <<rows, async, mouse, keyboard, enabled, todo, met>>

\* Mutant of EmptyItems: m_items is not emptied.
EmptyItemsKeepsThem(w) ==
    /\ At(w, "empty")
    /\ Goto(w, "spawned")
    /\ enabled' = FALSE /\ pushed' = FALSE
    /\ UNCHANGED <<rows, async, hover, click, captured, leaveNeeded, orphaned, keyboard,
                   todo, met>>

\* The last statement of RemoveAll; OnFreshenAdapterInfo then disables the buttons
\* and starts the refresh.
EmptyItems(w) ==
    /\ At(w, "empty")
    /\ items' = {}
    /\ Goto(w, "spawned")
    /\ enabled' = FALSE /\ pushed' = FALSE
    /\ UNCHANGED <<alive, cleanup, async, hover, click, captured, leaveNeeded, orphaned,
                   keyboard, todo, met>>

\* The switch enables the buttons, whether the refresh it has started is over or not.
SwitchEnables(w) ==
    /\ \/ At(w, "spawned") /\ Goto(w, "fill")
       \/ At(w, "enable") /\ Goto(w, "idle")
    /\ enabled' = TRUE
    /\ UNCHANGED <<rows, async, mouse, keyboard, todo, met>>

-----------------------------------------------------------------------------
InputEvent ==
    \/ \E pt \in Hit \cup {None} : MouseMove(pt)
    \/ \E c \in Hit : LButtonDown(c) \/ LButtonDblClk(c) \/ RButtonDown(c)
    \/ LButtonUp \/ ContextMenu \/ Tab \/ KeyDown \/ KeyUp

Cleaning == AppMessage \/ Delete \/ Deleted \/ EmptyCleanup

Switching(w) ==
    \/ SwitchSucceeds(w) \/ SwitchFails(w)
    \/ Walk(w) \/ PostMessage(w) \/ SetPosted(w) \/ Walked(w) \/ EmptyItems(w)
    \/ SwitchEnables(w)

\* Two threads in the list at once are not followed any further.
Next ==
    /\ ~met
    /\ InputEvent \/ Cleaning \/ \E w \in Worker : Switching(w) \/ Fill(w)

\* The loop handles its posted messages.
Spec == Init /\ [][Next]_vars /\ WF_vars(~met /\ Cleaning)

-----------------------------------------------------------------------------
(* Type correctness of the variables of CPaintManagerUI and the list.      *)
TypeOK ==
    /\ alive \in SUBSET Row /\ items \in SUBSET Row /\ cleanup \in SUBSET Row
    /\ posted \in BOOLEAN /\ queued \in Nat /\ upc \in {"loop", "clean", "empty"}
    /\ {hover, click, key, focus} \subseteq Control \cup {None}
    /\ captured \in BOOLEAN /\ pushed \in BOOLEAN /\ orphaned \in BOOLEAN
    /\ leaveNeeded \in SUBSET Row /\ todo \in SUBSET Row
    /\ enabled \in BOOLEAN /\ pc \in [Worker -> Place] /\ met \in BOOLEAN

(* The four pointers through which the manager delivers events point at    *)
(* controls that exist: ReapObjects, called by the destructor of every     *)
(* control, leaves none of them behind (UIManager.cpp:1633).               *)
PointersAlive == \A r \in Row \ alive : {hover, click, key, focus} \cap LabelsOf(r) = {}

(* "We'll delay the cleanup" (UIManager.cpp:1590): a row is destroyed only *)
(* when the list has let go of it, and the list never holds a row that is  *)
(* gone.                                                                   *)
ItemsAlive == items \subseteq alive

(* What the thread of OnSwitchAdapter does to the list in RemoveAll is over *)
(* when its RemoveAll returns: from then on the list holds live rows       *)
(* again, beside any other operation - until one of them touches the list  *)
(* during such a RemoveAll (UIContainer.cpp:147, ui.cpp:473).              *)
ItemsAliveAfterRemoveAll == ~met /\ ~Removing => items \subseteq alive

(* PostAsyncNotify has no two messages under way, not even when its test,  *)
(* its PostMessage and its assignment are run by another thread around the *)
(* handler that resets the flag - as long as no two threads are in it      *)
(* (UIManager.cpp:2840).  Two RemoveAlls at once may post two.             *)
OneCleanupMessage == ~met => queued <= 1

(* No row is lost: one that exists is in the list, or waits for WM_APP + 1 *)
(* to destroy it (UIContainer.cpp:147).                                    *)
NoRowLost == alive \subseteq items \cup cleanup

(* Rows that wait to be destroyed have their message: m_bAsyncNotifyPosted *)
(* tells the truth about the queue (UIManager.cpp:2840).                   *)
CleanupQueued ==
    /\ posted => queued > 0
    /\ cleanup # {} => queued > 0 \/ upc # "loop"

(* As long as no waiting row has been destroyed, a row of the list waits   *)
(* for the mouse to leave it only while the mouse hovers over it, or - one *)
(* row, the one the edge of the list cuts off - over another control: the  *)
(* MOUSELEAVE of what is left reaches the rows that wait and takes them    *)
(* out of m_aNeedMouseLeaveNeeded (UIList.cpp:2860, UIManager.cpp:1254).   *)
LeaveNeededHovered ==
    ~orphaned =>
        /\ hover # Button => leaveNeeded \cap items \subseteq RowOf(hover)
        /\ \A r, q \in leaveNeeded \cap items : r = q

(* A row handed to AddDelayedCleanup is destroyed in the end               *)
(* (UIManager.cpp:2067, 785).                                              *)
RemovedIsDestroyed == \A r \in Row : r \in cleanup ~> r \notin alive
=============================================================================
