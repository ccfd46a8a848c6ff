----------------------------- MODULE UiProofs -----------------------------
(***************************************************************************)
(* Safety of Ui for any number of threads and list items.                  *)
(***************************************************************************)
EXTENDS Ui, SequenceTheorems, TLAPS

(***************************************************************************)
(* Type correctness: one step per group of actions with the same effect on *)
(* the queue.                                                              *)
(***************************************************************************)

\* Starting a thread (std::thread(...).detach()) keeps the types of the threads.
LEMMA SpawnType ==
    ASSUME kind \in [Worker -> JobKind \cup {NoKind}], pc \in [Worker -> Place],
           \A w \in Worker : pc[w] \notin {"off", "work"} => kind[w] = "switch",
           \A w \in Worker : pc[w] # "off" => kind[w] # NoKind,
           NEW k \in JobKind, Spawn(k)
    PROVE  /\ kind' \in [Worker -> JobKind \cup {NoKind}]
           /\ pc' \in [Worker -> Place]
           /\ \A w \in Worker : pc'[w] \notin {"off", "work"} => kind'[w] = "switch"
           /\ \A w \in Worker : pc'[w] # "off" => kind'[w] # NoKind
<1>1. PICK v \in Worker : /\ pc[v] = "off"
                          /\ kind' = [kind EXCEPT ![v] = k]
                          /\ pc' = [pc EXCEPT ![v] = "work"]
  BY DEF Spawn, Active
<1>2. k # NoKind
  BY KindAssumption
<1>3. kind' \in [Worker -> JobKind \cup {NoKind}] /\ pc' \in [Worker -> Place]
  BY <1>1 DEF Place
<1> QED BY <1>1, <1>2, <1>3

\* Appending a posted function keeps the queue a sequence of functions.
LEMMA PostType == ASSUME queue \in Seq(Message), NEW m \in Message, post_call(m)
                  PROVE  queue' \in Seq(Message)
  BY DEF post_call

\* The window starts with every variable in its type.
LEMMA InitType == Init => TypeOK
<1> SUFFICES ASSUME Init PROVE TypeOK
  OBVIOUS
<1>1. PICK w \in Worker :
        /\ kind = [v \in Worker |-> IF v = w THEN "init" ELSE NoKind]
        /\ pc = [v \in Worker |-> IF v = w THEN "work" ELSE "off"]
  BY DEF Init
<1>2. "init" \in JobKind /\ "init" # NoKind
  BY KindAssumption DEF JobKind
<1>3. /\ kind \in [Worker -> JobKind \cup {NoKind}]
      /\ pc \in [Worker -> Place]
      /\ \A v \in Worker : pc[v] \notin {"off", "work"} => kind[v] = "switch"
      /\ \A v \in Worker : pc[v] # "off" => kind[v] # NoKind
  BY <1>1, <1>2 DEF Place
<1>4. queue \in Seq(Message)
  BY DEF Init, Message
<1> QED BY <1>3, <1>4 DEF Init, TypeOK

\* Each action keeps the types.
LEMMA TypeStep == TypeOK /\ [Next]_vars => TypeOK'
<1> SUFFICES ASSUME TypeOK, [Next]_vars
             PROVE  TypeOK'
  OBVIOUS
<1> USE DEF TypeOK
<1>1. CASE UNCHANGED vars
  BY <1>1 DEF vars, threads, lists, history
<1>2. CASE Pump \/ MessageLoopEnds
  <2>1. CASE SetEnabled
    BY <2>1 DEF SetEnabled, Pumping, threads, lists, history
  <2>2. CASE Ready
    BY <2>2 DEF Ready, Pumping, Message, threads, lists, history
  <2>3. ASSUME NEW k \in ListKind, FillList(k) PROVE TypeOK'
    BY <2>3 DEF FillList, Pumping, Message, threads, history
  <2>4. CASE DropMessage
    BY <2>4 DEF DropMessage, threads, lists
  <2>5. CASE MessageLoopEnds
    BY <2>5 DEF MessageLoopEnds, threads, lists, history
  <2> QED BY <1>2, <2>1, <2>2, <2>3, <2>4, <2>5 DEF Pump
<1>3. CASE User
  <2>1. CASE StartDrag \/ EndDrag \/ Exit
    BY <2>1 DEF StartDrag, EndDrag, Exit, threads, lists, history
  <2>2. ASSUME NEW k \in ListKind, NEW i \in Item, OnItemClick(k, i) \/ KeySelect(k, i)
        PROVE  TypeOK'
    BY <2>2 DEF OnItemClick, KeySelect, threads, history
  <2>3. CASE OnAutoDone
    <3>1. queue' \in Seq(Message)
      BY <2>3, PostType DEF OnAutoDone, Message
    <3> QED BY <2>3, <3>1, SpawnType DEF OnAutoDone, JobKind, lists, history
  <2>4. ASSUME NEW k \in ListKind, OnFreshen(k) PROVE TypeOK'
    <3>1. queue' \in Seq(Message)
      BY <2>4, PostType DEF OnFreshen, Message
    <3>2. k \in JobKind
      BY DEF JobKind
    <3> QED BY <2>4, <3>1, <3>2, SpawnType DEF OnFreshen, history
  <2>5. CASE OnSwitchAdapter
    <3>1. queue' \in Seq(Message)
      BY <2>5, PostType DEF OnSwitchAdapter, Message
    <3> QED BY <2>5, <3>1, SpawnType DEF OnSwitchAdapter, JobKind, lists, history
  <2> QED BY <1>3, <2>1, <2>2, <2>3, <2>4, <2>5 DEF User
<1>4. ASSUME NEW w \in Worker, Thread(w) PROVE TypeOK'
  <2> USE DEF At, Goto, ThreadEnds, post_call, Message, Place, threads, lists, history
  <2>1. CASE InitEnds(w)
    <3>1. queue' \in Seq(Message)
      <4>1. CASE post_call("ready")
        BY <4>1
      <4>2. CASE UNCHANGED queue
        BY <4>2
      <4> QED BY <2>1, <4>1, <4>2 DEF InitEnds
    <3>2. initfailed' \in BOOLEAN
      BY <2>1 DEF InitEnds
    <3> QED BY <2>1, <3>1, <3>2 DEF InitEnds
  <2>2. CASE AutoEnds(w)
    BY <2>2 DEF AutoEnds
  <2>3. ASSUME NEW k \in ListKind, FreshenEnds(w, k) PROVE TypeOK'
    BY <2>3 DEF FreshenEnds
  <2>4. CASE SwitchFails(w)
    BY <2>4 DEF SwitchFails
  <2>5. CASE SwitchSucceeds(w)
    BY <2>5 DEF SwitchSucceeds
  <2>6. CASE ClearLast(w) \/ ClearList(w) \/ ClearMap(w)
    BY <2>6 DEF ClearLast, ClearList, ClearMap, ListKind
  <2>7. CASE PostDisable(w)
    BY <2>7 DEF PostDisable
  <2>9. CASE SwitchEnds(w)
    BY <2>9 DEF SwitchEnds
  <2>8. CASE SpawnFreshen(w)
    <3>1. PICK v \in Worker : /\ pc[v] = "off"
                              /\ kind' = [kind EXCEPT ![v] = "adapter"]
                              /\ pc' = [pc EXCEPT ![v] = "work", ![w] = "post_enable"]
      BY <2>8 DEF SpawnFreshen, Active
    <3>2. kind[w] = "switch" /\ pc[w] = "spawn" /\ v # w
      BY <2>8, <3>1 DEF SpawnFreshen
    <3>3. "adapter" \in JobKind /\ "adapter" # NoKind
      BY KindAssumption DEF JobKind, ListKind
    <3> HIDE DEF At, Goto, ThreadEnds
    <3>4. kind' \in [Worker -> JobKind \cup {NoKind}] /\ pc' \in [Worker -> Place]
      BY <3>1, <3>3
    <3>5. ASSUME NEW u \in Worker
          PROVE  /\ pc'[u] \notin {"off", "work"} => kind'[u] = "switch"
                 /\ pc'[u] # "off" => kind'[u] # NoKind
      BY <3>1, <3>2, <3>3
    <3> QED BY <2>8, <3>4, <3>5 DEF SpawnFreshen
  <2> QED BY <1>4, <2>1, <2>2, <2>3, <2>4, <2>5, <2>6, <2>7, <2>8, <2>9 DEF Thread
<1> QED BY <1>1, <1>2, <1>3, <1>4 DEF Next

\* Every action of the window and of the threads keeps every variable's type.
THEOREM TypeCorrect == Spec => []TypeOK
  BY InitType, TypeStep, PTL DEF Spec

(***************************************************************************)
(* The buttons as a lock.  Gate is inductive: the operation's own posted   *)
(* "disable" is all that can wait while its thread runs, and a drag cannot *)
(* begin before it is processed.                                           *)
(***************************************************************************)
Gate ==
    ~ switched =>
        /\ \A w \in Worker : pc[w] \in {"off", "work"}
        /\ \A v, w \in Worker : pc[v] # "off" /\ pc[w] # "off" => v = w
        /\ (\E w \in Worker : pc[w] # "off") =>
              \/ queue = <<"disable">> /\ status # "dragging"
              \/ queue = <<>> /\ ~ enabled

\* Whatever is posted last when every thread is through leads to enabling.
Quiet ==
    (\A w \in Worker : pc[w] = "off") /\ ~ lost /\ ~ initfailed =>
        IF queue = <<>> THEN enabled ELSE queue[Len(queue)] # "disable"

\* The last posted function after one more is posted.
LEMMA LastOfAppend ==
    ASSUME NEW q \in Seq(Message), NEW m \in Message
    PROVE  Append(q, m) # <<>> /\ Append(q, m)[Len(Append(q, m))] = m
  BY AppendProperties

\* Taking the first of several posted functions leaves the last one last.
LEMMA LastOfTail ==
    ASSUME NEW q \in Seq(Message), q # <<>>
    PROVE  /\ Tail(q) \in Seq(Message)
           /\ IF Tail(q) = <<>> THEN Head(q) = q[Len(q)]
                               ELSE Tail(q)[Len(Tail(q))] = q[Len(q)]
<1>1. Tail(q) \in Seq(Message) /\ Len(Tail(q)) = Len(q) - 1 /\ Len(q) \in Nat \ {0}
  BY HeadTailProperties, EmptySeq
<1>2. CASE Tail(q) = <<>>
  <2>0. Len(<<>>) = 0
    BY EmptySeq
  <2>3. Len(Tail(q)) = 0
    BY <1>2, <2>0
  <2>4. \A n \in Nat : n - 1 = 0 => n = 1
    OBVIOUS
  <2>1. Len(q) = 1
    BY <1>1, <2>3, <2>4
  <2>2. Head(q) = q[1]
    OBVIOUS
  <2> QED BY <1>1, <1>2, <2>1, <2>2
<1>3. CASE Tail(q) # <<>>
  <2>1. Len(Tail(q)) \in 1 .. Len(Tail(q))
    BY <1>1, <1>3, EmptySeq
  <2>2. Tail(q)[Len(Tail(q))] = q[Len(Tail(q)) + 1]
    BY <2>1, HeadTailProperties
  <2> QED BY <1>1, <1>3, <2>2
<1> QED BY <1>2, <1>3

\* The gate is kept by every action of the window and of the threads.
LEMMA GateStep == TypeOK /\ Gate /\ [Next]_vars => Gate'
<1> SUFFICES ASSUME TypeOK, Gate, [Next]_vars, ~ switched'
             PROVE  Gate'
  BY DEF Gate
<1> USE DEF TypeOK
<1>0. CASE switched
  <2>1. switched'
    BY <1>0 DEF Next, vars, Pump, User, Thread, SetEnabled, Ready, FillList, DropMessage,
       MessageLoopEnds, StartDrag, EndDrag, OnItemClick, KeySelect, OnAutoDone, OnFreshen,
       OnSwitchAdapter, Exit, InitEnds, AutoEnds, FreshenEnds, SwitchFails, SwitchSucceeds,
       ClearLast, ClearList, ClearMap, PostDisable, SpawnFreshen, SwitchEnds, history
  <2> QED BY <2>1
<1>1. CASE ~ switched /\ UNCHANGED vars
  BY <1>1 DEF vars, threads, lists, history, Gate
<1>2. CASE ~ switched /\ (Pump \/ MessageLoopEnds)
  <2> USE DEF Gate, threads
  <2>1. CASE SetEnabled
    BY <1>2, <2>1 DEF SetEnabled, Pumping
  <2>2. CASE Ready
    BY <1>2, <2>2 DEF Ready, Pumping
  <2>3. ASSUME NEW k \in ListKind, FillList(k) PROVE Gate'
    BY <1>2, <2>3 DEF FillList, Pumping, ListKind
  <2>4. CASE DropMessage
    BY <1>2, <2>4 DEF DropMessage
  <2>5. CASE MessageLoopEnds
    BY <1>2, <2>5 DEF MessageLoopEnds
  <2> QED BY <1>2, <2>1, <2>2, <2>3, <2>4, <2>5 DEF Pump
<1>3. CASE ~ switched /\ User
  <2> USE DEF Gate
  <2>1. CASE StartDrag \/ Exit
    <3>1. queue = <<>> /\ UNCHANGED <<enabled, queue, pc>>
      BY <2>1 DEF StartDrag, Exit, Input, threads
    <3>3. <<>> # <<"disable">>
      OBVIOUS
    <3>2. UNCHANGED switched
      BY <2>1 DEF StartDrag, Exit, history
    <3> QED BY <1>3, <3>1, <3>2, <3>3
  <2>7. CASE EndDrag
    BY <1>3, <2>7 DEF EndDrag, threads
  <2>2. ASSUME NEW k \in ListKind, NEW i \in Item, OnItemClick(k, i) \/ KeySelect(k, i)
        PROVE  Gate'
    BY <1>3, <2>2 DEF OnItemClick, KeySelect, threads
  <2>3. ASSUME NEW k \in JobKind, Button, post_call("disable"), Spawn(k), UNCHANGED status
        PROVE  Gate'
    <3>1. status # "dragging" /\ queue' = <<"disable">>
      BY <2>3 DEF Button, Input, post_call
    <3>2. \A w \in Worker : pc[w] = "off"
      BY <1>3, <2>3 DEF Button, Input
    <3>3. PICK v \in Worker : pc' = [pc EXCEPT ![v] = "work"]
      BY <2>3 DEF Spawn
    <3> QED BY <2>3, <3>1, <3>2, <3>3
  <2>4. CASE OnAutoDone
    BY <2>3, <2>4 DEF OnAutoDone, JobKind
  <2>5. ASSUME NEW k \in ListKind, OnFreshen(k) PROVE Gate'
    BY <2>3, <2>5 DEF OnFreshen, JobKind
  <2>6. CASE OnSwitchAdapter
    BY <2>3, <2>6 DEF OnSwitchAdapter, JobKind
  <2> QED BY <1>3, <2>1, <2>2, <2>4, <2>5, <2>6, <2>7 DEF User
<1>4. ASSUME ~ switched, NEW w \in Worker, Thread(w) PROVE Gate'
  <2>1. pc[w] = "work" /\ pc' = [pc EXCEPT ![w] = "off"]
    BY <1>4 DEF Gate, Thread, At, Goto, ThreadEnds, InitEnds, AutoEnds, FreshenEnds, SwitchFails,
       SwitchSucceeds, ClearLast, ClearList, ClearMap, PostDisable, SpawnFreshen, SwitchEnds
  <2> QED BY <1>4, <2>1 DEF Gate
<1> QED BY <1>0, <1>1, <1>2, <1>3, <1>4 DEF Next

(***************************************************************************)
(* Every operation ends by posting something that leads to enabling.       *)
(***************************************************************************)
\* Quiet (the last function posted enables, or the buttons are enabled) survives
\* every action of the window and of the threads.
LEMMA QuietStep == TypeOK /\ Quiet /\ [Next]_vars => Quiet'
<1> SUFFICES ASSUME TypeOK, Quiet, [Next]_vars,
                    \A w \in Worker : pc'[w] = "off", ~ lost', ~ initfailed'
             PROVE  IF queue' = <<>> THEN enabled' ELSE queue'[Len(queue')] # "disable"
  BY DEF Quiet
<1> USE DEF TypeOK
\* A step that leaves threads, queue and history alone.
<1>1. ASSUME UNCHANGED <<pc, queue, enabled, lost, initfailed>>
      PROVE  IF queue' = <<>> THEN enabled' ELSE queue'[Len(queue')] # "disable"
  BY <1>1 DEF Quiet
\* A step that posts something that enables.
<1>2. ASSUME NEW q \in Seq(Message), NEW m \in Enabling, queue' = Append(q, m)
      PROVE  IF queue' = <<>> THEN enabled' ELSE queue'[Len(queue')] # "disable"
  BY <1>2, LastOfAppend DEF Enabling
<1>3. CASE UNCHANGED vars
  BY <1>1, <1>3 DEF vars, threads, history
<1>4. CASE Pump
  <2>1. CASE SetEnabled
    <3>1. /\ queue # <<>> /\ queue' = Tail(queue)
          /\ Head(queue) \in {"enable", "disable"} /\ enabled' = (Head(queue) = "enable")
          /\ UNCHANGED <<pc, lost, initfailed>>
      BY <2>1 DEF SetEnabled, Pumping, threads, history
    <3>2. queue[Len(queue)] # "disable"
      BY <3>1 DEF Quiet
    <3>3. CASE Tail(queue) = <<>>
      BY <3>1, <3>2, <3>3, LastOfTail
    <3>4. CASE Tail(queue) # <<>>
      BY <3>1, <3>2, <3>4, LastOfTail
    <3> QED BY <3>3, <3>4
  <2>2. CASE Ready
    <3>1. Tail(queue) \in Seq(Message) /\ queue' = Append(Tail(queue), "enable")
      BY <2>2, LastOfTail DEF Ready, Pumping
    <3> QED BY <1>2, <3>1 DEF Enabling, Message
  <2>3. ASSUME NEW k \in ListKind, FillList(k)
        PROVE  IF queue' = <<>> THEN enabled' ELSE queue'[Len(queue')] # "disable"
    <3>1. Tail(queue) \in Seq(Message) /\ queue' = Append(Tail(queue), "enable")
      BY <2>3, LastOfTail DEF FillList, Pumping
    <3> QED BY <1>2, <3>1 DEF Enabling, Message
  <2>4. CASE DropMessage
    <3>1. /\ queue # <<>> /\ queue' = Tail(queue)
          /\ lost' = (lost \/ Head(queue) \in Enabling)
          /\ UNCHANGED <<pc, enabled, initfailed>>
      BY <2>4 DEF DropMessage, threads
    <3>2. ~ lost /\ Head(queue) \notin Enabling
      BY <3>1
    <3>3. Head(queue) = "disable"
      BY <3>1, <3>2, HeadTailProperties DEF Enabling
    <3>4. queue[Len(queue)] # "disable"
      BY <3>1, <3>2 DEF Quiet
    <3>5. Tail(queue) # <<>> /\ Tail(queue)[Len(Tail(queue))] = queue[Len(queue)]
      BY <3>1, <3>3, <3>4, LastOfTail
    <3> QED BY <3>1, <3>4, <3>5
  <2> QED BY <1>4, <2>1, <2>2, <2>3, <2>4 DEF Pump
<1>5. CASE MessageLoopEnds
  BY <1>1, <1>5 DEF MessageLoopEnds, threads, history
<1>6. CASE User
  \* An operation that starts leaves a thread running.
  <2>1. ASSUME NEW k \in JobKind, Spawn(k) PROVE FALSE
    BY <2>1 DEF Spawn, Active
  <2>2. CASE StartDrag \/ EndDrag \/ Exit
    BY <1>1, <2>2 DEF StartDrag, EndDrag, Exit, threads, history
  <2>3. ASSUME NEW k \in ListKind, NEW i \in Item, OnItemClick(k, i) \/ KeySelect(k, i)
        PROVE  UNCHANGED <<pc, queue, enabled, lost, initfailed>>
    BY <2>3 DEF OnItemClick, KeySelect, threads, history
  <2>4. CASE OnAutoDone \/ OnSwitchAdapter \/ (\E k \in ListKind : OnFreshen(k))
    BY <2>1, <2>4 DEF OnAutoDone, OnSwitchAdapter, OnFreshen, JobKind
  <2> QED BY <1>1, <1>6, <2>2, <2>3, <2>4 DEF User
<1>7. ASSUME NEW w \in Worker, Thread(w)
      PROVE  IF queue' = <<>> THEN enabled' ELSE queue'[Len(queue')] # "disable"
  <2>1. CASE InitEnds(w)
    BY <1>2, <2>1 DEF InitEnds, post_call, Enabling, Message
  <2>2. CASE AutoEnds(w) \/ SwitchFails(w) \/ SwitchEnds(w)
    BY <1>2, <2>2 DEF AutoEnds, SwitchFails, SwitchEnds, post_call, Enabling, Message
  <2>3. ASSUME NEW k \in ListKind, FreshenEnds(w, k)
        PROVE  \E m \in Enabling : queue' = Append(queue, m)
    BY <2>3 DEF FreshenEnds, post_call, Enabling, Message, ListKind
  <2>4. CASE SwitchSucceeds(w) \/ ClearLast(w) \/ ClearList(w) \/ ClearMap(w) \/ PostDisable(w)
    BY <2>4 DEF SwitchSucceeds, ClearLast, ClearList, ClearMap, PostDisable, Goto
  <2>5. CASE SpawnFreshen(w)
    BY <2>5 DEF SpawnFreshen, At
  <2> QED BY <1>2, <1>7, <2>1, <2>2, <2>3, <2>4, <2>5 DEF Thread
<1> QED BY <1>3, <1>4, <1>5, <1>6, <1>7 DEF Next

(***************************************************************************)
(* The lists, their maps and the last selected items.  Gate supplies that  *)
(* no thread is inside OnFreshenAdapterInfo before a switch has succeeded. *)
(***************************************************************************)
\* No action leaves a dangling selection or an item the map does not know, unless
\* it is the switch thread's clearing of the adapter list.
LEMMA LiveStep == TypeOK /\ Gate /\ SelectionIsLive /\ [Next]_vars => SelectionIsLive'
<1> SUFFICES ASSUME TypeOK, Gate, SelectionIsLive, [Next]_vars
             PROVE  SelectionIsLive'
  OBVIOUS
<1> USE DEF TypeOK, SelectionIsLive, Live
<1>1. ASSUME UNCHANGED lists, switched => switched' PROVE SelectionIsLive'
  BY <1>1 DEF lists
<1>2. CASE UNCHANGED vars
  BY <1>1, <1>2 DEF vars, history
<1>3. CASE Pump \/ MessageLoopEnds
  <2>1. CASE SetEnabled \/ Ready \/ DropMessage \/ MessageLoopEnds
    BY <1>1, <2>1 DEF SetEnabled, Ready, DropMessage, MessageLoopEnds, history
  <2>2. ASSUME NEW k \in ListKind, FillList(k) PROVE SelectionIsLive'
    <3>1. UNCHANGED <<switched, sel, last>>
      BY <2>2 DEF FillList, history
    <3>2. PICK new \in SUBSET Item :
            /\ list' = [list EXCEPT ![k] = @ \cup new]
            /\ map' = [map EXCEPT ![k] = @ \cup new]
      BY <2>2 DEF FillList
    <3>3. ASSUME NEW j \in ListKind, Live(j) PROVE Live(j)'
      BY <3>1, <3>2, <3>3
    <3> HIDE DEF Live
    <3> QED BY <3>1, <3>3 DEF ListKind
  <2> QED BY <1>3, <2>1, <2>2 DEF Pump
<1>4. CASE User
  <2>1. CASE StartDrag \/ EndDrag \/ Exit \/ OnAutoDone \/ OnSwitchAdapter
    BY <1>1, <2>1 DEF StartDrag, EndDrag, Exit, OnAutoDone, OnSwitchAdapter, history
  <2>2. ASSUME NEW k \in ListKind, NEW i \in Item, OnItemClick(k, i) PROVE SelectionIsLive'
    BY <2>2 DEF OnItemClick, history, ListKind
  <2>3. ASSUME NEW k \in ListKind, NEW i \in Item, KeySelect(k, i) PROVE SelectionIsLive'
    BY <2>3 DEF KeySelect, history, ListKind
  <2>4. ASSUME NEW k \in ListKind, OnFreshen(k) PROVE SelectionIsLive'
    BY <2>4 DEF OnFreshen, history, ListKind
  <2> QED BY <1>4, <2>1, <2>2, <2>3, <2>4 DEF User
<1>5. ASSUME NEW w \in Worker, Thread(w) PROVE SelectionIsLive'
  <2>1. CASE InitEnds(w) \/ AutoEnds(w) \/ (\E k \in ListKind : FreshenEnds(w, k))
              \/ SwitchFails(w) \/ SwitchSucceeds(w) \/ PostDisable(w)
              \/ SpawnFreshen(w) \/ SwitchEnds(w)
    <3>1. UNCHANGED lists
      BY <2>1 DEF InitEnds, AutoEnds, FreshenEnds, SwitchFails, SwitchSucceeds,
         PostDisable, SpawnFreshen, SwitchEnds
    <3>2. switched => switched'
      BY <2>1 DEF InitEnds, AutoEnds, FreshenEnds, SwitchFails, SwitchSucceeds,
         PostDisable, SpawnFreshen, SwitchEnds, history
    <3> QED BY <1>1, <3>1, <3>2
  <2>2. CASE ClearLast(w) \/ ClearList(w) \/ ClearMap(w)
    <3>1. switched /\ switched'
      BY <2>2 DEF Gate, ClearLast, ClearList, ClearMap, At, history
    <3>2. /\ list'["dns"] = list["dns"] /\ map'["dns"] = map["dns"]
          /\ sel'["dns"] = sel["dns"] /\ last'["dns"] = last["dns"]
      BY <2>2 DEF ClearLast, ClearList, ClearMap, ListKind
    <3> QED BY <3>1, <3>2
  <2> QED BY <1>5, <2>1, <2>2 DEF Thread
<1> QED BY <1>2, <1>3, <1>4, <1>5 DEF Next

(***************************************************************************)
(* The theorems.                                                           *)
(***************************************************************************)
IInv == TypeOK /\ Gate /\ Quiet /\ SelectionIsLive

\* The window starts with its first thread running and empty lists.
LEMMA InitIInv == Init => Gate /\ Quiet /\ SelectionIsLive
<1> SUFFICES ASSUME Init PROVE Gate /\ Quiet /\ SelectionIsLive
  OBVIOUS
<1>1. PICK w \in Worker : pc = [v \in Worker |-> IF v = w THEN "work" ELSE "off"]
  BY DEF Init
<1>2. Gate
  BY <1>1 DEF Gate, Init
<1>3. Quiet
  BY <1>1 DEF Quiet
<1>4. SelectionIsLive
  BY DEF SelectionIsLive, Live, Init, ListKind
<1> QED BY <1>2, <1>3, <1>4

\* The conjunction of the invariants above is inductive.
LEMMA IInvStep == IInv /\ [Next]_vars => IInv'
  BY TypeStep, GateStep, QuietStep, LiveStep DEF IInv

LEMMA Inductive == Spec => []IInv
<1>1. Init => IInv
  BY InitType, InitIInv DEF IInv
<1> QED BY <1>1, IInvStep, PTL DEF Spec

\* Until OnSwitchAdapter has once succeeded, the four buttons admit one
\* operation at a time, for any number of threads and in spite of drags.
THEOREM ButtonsExclude == Spec => []OneOperation
<1>1. IInv => OneOperation
  <2> SUFFICES ASSUME IInv, ~ switched
               PROVE  (\A v, w \in Active : v = w) /\ (Button => Active = {})
    BY DEF OneOperation
  <2>1. <<>> # <<"disable">>
    OBVIOUS
  <2> QED BY <2>1 DEF IInv, Gate, Active, Button, Input
<1> QED BY <1>1, Inductive, PTL

\* When every thread is through and the queue is empty the buttons are enabled,
\* unless initialisation failed or a drag dropped an enabling message.
THEOREM ButtonsRecover == Spec => []QuietMeansEnabled
<1>1. IInv => QuietMeansEnabled
  BY DEF IInv, Quiet, QuietMeansEnabled, Active
<1> QED BY <1>1, Inductive, PTL

\* No dangling selection in the DNS list, and none in the adapter list before
\* OnSwitchAdapter's thread empties it behind the window's back.
THEOREM SelectionsLive == Spec => []SelectionIsLive
<1>1. IInv => SelectionIsLive
  BY DEF IInv
<1> QED BY <1>1, Inductive, PTL
=============================================================================
