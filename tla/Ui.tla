-------------------------------- MODULE Ui --------------------------------
(***************************************************************************)
(* Class ui: the window's thread, the queue of functions posted to it      *)
(* (post_call, WM_TASK_MSG), and the detached threads that run the jobs.   *)
(*                                                                         *)
(* The four operation buttons are the program's only mutual exclusion: an  *)
(* operation posts EnableUserOperation(false) before it starts its thread  *)
(* and EnableUserOperation(true) when it is through.  The state the        *)
(* threads share is the two lists of the professional view, with the maps  *)
(* from list items to data and the pointers to the last selected items.    *)
(*                                                                         *)
(* What Windows and duilib do is modelled from how src/ uses them: posted  *)
(* messages come in order and before input; while the user drags the       *)
(* window its modal loop dispatches WM_TASK_MSG straight to the window     *)
(* procedure, past ui::MessageHandler, which is a message filter of the    *)
(* program's own loop only.                                                *)
(***************************************************************************)
EXTENDS Naturals, Sequences, FiniteSets

CONSTANTS
    Worker,     \* threads that may exist at once (bound of the model)
    Item,       \* list items, by address (bound of the model)
    NoItem,     \* nullptr, and selection index -1
    NoKind      \* kind of a thread slot in no use

ASSUME ItemAssumption == NoItem \notin Item

ListKind == {"adapter", "dns"}
JobKind == {"init", "auto", "switch"} \cup ListKind
ASSUME KindAssumption == NoKind \notin JobKind

VARIABLES
    status,     \* of the window thread: running, dragging, quitting, gone
    enabled,    \* the four operation buttons
    queue,      \* posted functions
    kind, pc,   \* per thread: its job and where it is
    list,       \* items of m_p_adapter_info_list and m_p_dns_info_list
    map,        \* keys of m_map_adapter_item_index and m_map_dns_item_ip
    sel,        \* item at GetCurSel()
    last,       \* m_p_last_selected_adapter_item and .._dns_item
    switched,   \* history: some on_switch_dns has succeeded
    lost,       \* history: a message that leads to enabling was dropped
    initfailed  \* history: on_initialize failed

lists == <<list, map, sel, last>>
threads == <<kind, pc>>
history == <<switched, lost, initfailed>>
vars == <<status, enabled, queue, threads, lists, history>>

\* Functions posted to the window: EnableUserOperation(true) and (false), the
\* one that posts the former ("ready"), and those that fill a list.
Message == {"enable", "disable", "ready"} \cup ListKind
Enabling == Message \ {"disable"}

\* Where a thread is.  The steps after "work" are OnFreshenAdapterInfo run by
\* the thread of OnSwitchAdapter, statement by statement.
Place == {"off", "work", "clear_last", "clear_list", "clear_map",
          "post_disable", "spawn", "post_enable"}

Active == {w \in Worker : pc[w] # "off"}

\* Threads that may still start another one.
Spawner == {w \in Active : kind[w] = "switch" /\ pc[w] # "post_enable"}

Room(k) == Cardinality(Active) + Cardinality(Spawner) + k <= Cardinality(Worker)

-----------------------------------------------------------------------------
\* InitWindow: the buttons are drawn enabled, disabling them is posted, and
\* the first thread runs on_initialize.
Init ==
    /\ status = "running"
    /\ enabled = TRUE
    /\ queue = <<"disable">>
    /\ \E w \in Worker :
         /\ kind = [v \in Worker |-> IF v = w THEN "init" ELSE NoKind]
         /\ pc = [v \in Worker |-> IF v = w THEN "work" ELSE "off"]
    /\ list = [k \in ListKind |-> {}]
    /\ map = [k \in ListKind |-> {}]
    /\ sel = [k \in ListKind |-> NoItem]
    /\ last = [k \in ListKind |-> NoItem]
    /\ switched = FALSE /\ lost = FALSE /\ initfailed = FALSE

post_call(m) == queue' = Append(queue, m)

\* std::thread(...).detach()
Spawn(k) ==
    \E w \in Worker \ Active :
        /\ kind' = [kind EXCEPT ![w] = k]
        /\ pc' = [pc EXCEPT ![w] = "work"]

-----------------------------------------------------------------------------
(* The window thread: posted functions.                                    *)

Pumping == status \in {"running", "quitting"} /\ queue # <<>>

SetEnabled ==
    /\ Pumping
    /\ Head(queue) \in {"enable", "disable"}
    /\ enabled' = (Head(queue) = "enable")
    /\ queue' = Tail(queue)
    /\ UNCHANGED <<status, threads, lists, history>>

Ready ==
    /\ Pumping
    /\ Head(queue) = "ready"
    /\ queue' = Append(Tail(queue), "enable")
    /\ UNCHANGED <<status, enabled, threads, lists, history>>

\* The function that on_freshen_adapter_info's or on_freshen_dns_info's result
\* comes back with: one new item per row, in the list and in the map.
FillList(k) ==
    /\ Pumping
    /\ Head(queue) = k
    /\ \E new \in SUBSET (Item \ list[k]) :
         /\ list' = [list EXCEPT ![k] = @ \cup new]
         /\ map' = [map EXCEPT ![k] = @ \cup new]
    /\ queue' = Append(Tail(queue), "enable")
    /\ UNCHANGED <<status, enabled, threads, sel, last, history>>

(* The modal loop of a drag takes posted messages and runs none of them.   *)
DropMessage ==
    /\ status = "dragging" /\ queue # <<>>
    /\ queue' = Tail(queue)
    /\ lost' = (lost \/ Head(queue) \in Enabling)
    /\ UNCHANGED <<status, enabled, threads, lists, switched, initfailed>>

-----------------------------------------------------------------------------
(* The window thread: input, taken only when no posted message waits.      *)

Input == status = "running" /\ queue = <<>>
Button == Input /\ enabled

StartDrag ==
    /\ Input
    /\ status' = "dragging"
    /\ UNCHANGED <<enabled, queue, threads, lists, history>>

EndDrag ==
    /\ status = "dragging"
    /\ status' = "running"
    /\ UNCHANGED <<enabled, queue, threads, lists, history>>

\* OnItemClick, then the element's own Select(): an item the map does not know
\* becomes the selection too.
OnItemClick(k, i) ==
    /\ Input
    /\ i \in list[k]
    /\ last' = IF i \in map[k] THEN [last EXCEPT ![k] = i] ELSE last
    /\ sel' = [sel EXCEPT ![k] = i]
    /\ UNCHANGED <<status, enabled, queue, threads, list, map, history>>

\* The list's own keys move the selection without OnItemClick.
KeySelect(k, i) ==
    /\ Input
    /\ i \in list[k]
    /\ sel' = [sel EXCEPT ![k] = i]
    /\ UNCHANGED <<status, enabled, queue, threads, list, map, last, history>>

\* Mutant of OnAutoDone: the buttons are not disabled.
OnAutoDoneUngated ==
    /\ Button /\ Room(1)
    /\ Spawn("auto")
    /\ UNCHANGED <<status, enabled, queue, lists, history>>

OnAutoDone ==
    /\ Button /\ Room(1)
    /\ post_call("disable")
    /\ Spawn("auto")
    /\ UNCHANGED <<status, enabled, lists, history>>

\* Mutant of OnFreshen: the pointer to the last selected item is not reset.
OnFreshenKeepsLast(k) ==
    /\ Button /\ Room(1)
    /\ list' = [list EXCEPT ![k] = {}]
    /\ sel' = [sel EXCEPT ![k] = NoItem]
    /\ map' = [map EXCEPT ![k] = {}]
    /\ post_call("disable")
    /\ Spawn(k)
    /\ UNCHANGED <<status, enabled, last, history>>

\* OnFreshenAdapterInfo and OnFreshenDNSInfo on the window thread.
OnFreshen(k) ==
    /\ Button /\ Room(1)
    /\ last' = [last EXCEPT ![k] = NoItem]
    /\ list' = [list EXCEPT ![k] = {}]
    /\ sel' = [sel EXCEPT ![k] = NoItem]
    /\ map' = [map EXCEPT ![k] = {}]
    /\ post_call("disable")
    /\ Spawn(k)
    /\ UNCHANGED <<status, enabled, history>>

\* Early returns (nothing selected, item not found) change nothing.
OnSwitchAdapter ==
    /\ Button /\ Room(2)
    /\ \A k \in ListKind : sel[k] # NoItem /\ sel[k] \in map[k]
    /\ post_call("disable")
    /\ Spawn("switch")
    /\ UNCHANGED <<status, enabled, lists, history>>

\* The exit button: Close, OnClose, OnDestroy, PostQuitMessage.
Exit ==
    /\ Input
    /\ status' = "quitting"
    /\ UNCHANGED <<enabled, queue, threads, lists, history>>

\* WM_QUIT ends the loop; the process ends, and with it every thread.
MessageLoopEnds ==
    /\ status = "quitting" /\ queue = <<>>
    /\ status' = "gone"
    /\ UNCHANGED <<enabled, queue, threads, lists, history>>

-----------------------------------------------------------------------------
(* The detached threads.                                                   *)

\* Mutant of At: any thread may run the code of any job.
AtAnyKind(w, k, p) == status # "gone" /\ pc[w] = p

At(w, k, p) == status # "gone" /\ kind[w] = k /\ pc[w] = p

Goto(w, p) == pc' = [pc EXCEPT ![w] = p] /\ UNCHANGED kind

\* The detached thread returns; its slot is free for another one.
ThreadEnds(w) ==
    /\ pc' = [pc EXCEPT ![w] = "off"]
    /\ kind' = [kind EXCEPT ![w] = NoKind]

InitEnds(w) ==
    /\ At(w, "init", "work")
    /\ \/ post_call("ready") /\ UNCHANGED initfailed
       \/ initfailed' = TRUE /\ UNCHANGED queue
    /\ ThreadEnds(w)
    /\ UNCHANGED <<status, enabled, lists, switched, lost>>

AutoEnds(w) ==
    /\ At(w, "auto", "work")
    /\ post_call("enable")
    /\ ThreadEnds(w)
    /\ UNCHANGED <<status, enabled, lists, history>>

\* Mutant of FreshenEnds: the early return after a failed query enables nothing.
FreshenEndsSilently(w, k) ==
    /\ At(w, k, "work")
    /\ post_call(k) \/ UNCHANGED queue
    /\ ThreadEnds(w)
    /\ UNCHANGED <<status, enabled, lists, history>>

\* A failed query enables the buttons, a good one posts its rows.
FreshenEnds(w, k) ==
    /\ At(w, k, "work")
    /\ \E m \in {"enable", k} : post_call(m)
    /\ ThreadEnds(w)
    /\ UNCHANGED <<status, enabled, lists, history>>

\* Mutant of SwitchFails: the failure branch enables nothing.
SwitchFailsSilently(w) ==
    /\ At(w, "switch", "work")
    /\ ThreadEnds(w)
    /\ UNCHANGED <<status, enabled, queue, lists, history>>

SwitchFails(w) ==
    /\ At(w, "switch", "work")
    /\ post_call("enable")
    /\ ThreadEnds(w)
    /\ UNCHANGED <<status, enabled, lists, history>>

\* Mutant of SwitchSucceeds: the list is not refreshed.
SwitchSucceedsUnseen(w) ==
    /\ At(w, "switch", "work")
    /\ switched' = TRUE
    /\ Goto(w, "post_enable")
    /\ UNCHANGED <<status, enabled, queue, lists, lost, initfailed>>

\* On success the thread itself runs OnFreshenAdapterInfo ...
SwitchSucceeds(w) ==
    /\ At(w, "switch", "work")
    /\ switched' = TRUE
    /\ Goto(w, "clear_last")
    /\ UNCHANGED <<status, enabled, queue, lists, lost, initfailed>>

ClearLast(w) ==
    /\ At(w, "switch", "clear_last")
    /\ last' = [last EXCEPT !["adapter"] = NoItem]
    /\ Goto(w, "clear_list")
    /\ UNCHANGED <<status, enabled, queue, list, map, sel, history>>

ClearList(w) ==
    /\ At(w, "switch", "clear_list")
    /\ list' = [list EXCEPT !["adapter"] = {}]
    /\ sel' = [sel EXCEPT !["adapter"] = NoItem]
    /\ Goto(w, "clear_map")
    /\ UNCHANGED <<status, enabled, queue, map, last, history>>

ClearMap(w) ==
    /\ At(w, "switch", "clear_map")
    /\ map' = [map EXCEPT !["adapter"] = {}]
    /\ Goto(w, "post_disable")
    /\ UNCHANGED <<status, enabled, queue, list, sel, last, history>>

PostDisable(w) ==
    /\ At(w, "switch", "post_disable")
    /\ post_call("disable")
    /\ Goto(w, "spawn")
    /\ UNCHANGED <<status, enabled, lists, history>>

SpawnFreshen(w) ==
    /\ At(w, "switch", "spawn")
    /\ \E v \in Worker \ Active :
         /\ kind' = [kind EXCEPT ![v] = "adapter"]
         /\ pc' = [pc EXCEPT ![v] = "work", ![w] = "post_enable"]
    /\ UNCHANGED <<status, enabled, queue, lists, history>>

\* ... and then enables the buttons while the new thread still works.
SwitchEnds(w) ==
    /\ At(w, "switch", "post_enable")
    /\ post_call("enable")
    /\ ThreadEnds(w)
    /\ UNCHANGED <<status, enabled, lists, history>>

-----------------------------------------------------------------------------
Pump == SetEnabled \/ Ready \/ (\E k \in ListKind : FillList(k)) \/ DropMessage

User ==
    \/ StartDrag \/ EndDrag
    \/ \E k \in ListKind, i \in Item : OnItemClick(k, i) \/ KeySelect(k, i)
    \/ OnAutoDone \/ (\E k \in ListKind : OnFreshen(k)) \/ OnSwitchAdapter
    \/ Exit

Thread(w) ==
    \/ InitEnds(w) \/ AutoEnds(w) \/ (\E k \in ListKind : FreshenEnds(w, k))
    \/ SwitchFails(w) \/ SwitchSucceeds(w)
    \/ ClearLast(w) \/ ClearList(w) \/ ClearMap(w)
    \/ PostDisable(w) \/ SpawnFreshen(w) \/ SwitchEnds(w)

Next == Pump \/ MessageLoopEnds \/ User \/ \E w \in Worker : Thread(w)

\* The window thread keeps taking messages and every job returns (but see
\* PingsOverlap); the user need not do anything, nor ever end a drag.
Spec ==
    /\ Init /\ [][Next]_vars
    /\ WF_vars(Pump) /\ WF_vars(MessageLoopEnds)
    /\ \A w \in Worker : WF_vars(Thread(w))

-----------------------------------------------------------------------------
(* Properties.                                                             *)

\* Every variable keeps its type (the members of class ui and the queue).
TypeOK ==
    /\ status \in {"running", "dragging", "quitting", "gone"}
    /\ enabled \in BOOLEAN
    /\ queue \in Seq(Message)
    /\ kind \in [Worker -> JobKind \cup {NoKind}]
    /\ pc \in [Worker -> Place]
    /\ \A w \in Worker : pc[w] \notin {"off", "work"} => kind[w] = "switch"
    /\ \A w \in Worker : pc[w] # "off" => kind[w] # NoKind
    /\ list \in [ListKind -> SUBSET Item]
    /\ map \in [ListKind -> SUBSET Item]
    /\ sel \in [ListKind -> Item \cup {NoItem}]
    /\ last \in [ListKind -> Item \cup {NoItem}]
    /\ switched \in BOOLEAN /\ lost \in BOOLEAN /\ initfailed \in BOOLEAN

\* The buttons exclude a second operation, from the click to the end of its
\* thread, as long as no OnSwitchAdapter has succeeded: neither the delay of the
\* posted EnableUserOperation(false) nor messages lost in a drag let one in.
OneOperation ==
    ~ switched =>
        /\ \A v, w \in Active : v = w
        /\ Button => Active = {}

\* Whatever threads ran together: when all are through and nothing is posted,
\* the buttons are enabled - unless initialisation failed, or a drag swallowed a
\* message that would have enabled them.
QuietMeansEnabled ==
    Active = {} /\ queue = <<>> /\ ~ lost /\ ~ initfailed => enabled

Live(k) ==
    /\ map[k] = list[k]
    /\ sel[k] \in list[k] \cup {NoItem}
    /\ last[k] \in list[k] \cup {NoItem}

\* m_p_last_selected_*_item never points to a destroyed item, and the map knows
\* exactly the items of the list: always for the DNS list; for the adapter list
\* until OnSwitchAdapter's thread empties it.
SelectionIsLive == Live("dns") /\ (switched \/ Live("adapter"))

\* Two jobs that ping run at once: one of them may wait for an answer without a
\* limit (DnsPing's Endless), and need not return.
PingsOverlap ==
    \E w, v \in Active : w # v /\ {kind[w], kind[v]} \subseteq {"auto", "dns"}

\* Disabled buttons are enabled again, also by threads that overlap, as long as no
\* two of them ping at once, and unless the window closes, initialisation fails or
\* a drag loses the message (or lasts).
ButtonsComeBack ==
    [](~ PingsOverlap) =>
        (~ enabled ~> enabled \/ status # "running" \/ lost \/ initfailed)

-----------------------------------------------------------------------------
\* OnSwitchAdapter asserts that the selected adapter item is in the map.
AssertAdapterKnown ==
    Button /\ sel["adapter"] # NoItem /\ sel["dns"] # NoItem
        => sel["adapter"] \in map["adapter"]
=============================================================================
