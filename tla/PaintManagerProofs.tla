------------------------- MODULE PaintManagerProofs -------------------------
(***************************************************************************)
(* Proofs about PaintManager, for any rows and labels.  What RemoveAll on  *)
(* the thread of OnSwitchAdapter leaves sound is proved with that thread,  *)
(* the rest for a program whose calls all come from the window's thread.   *)
(***************************************************************************)
EXTENDS PaintManager, TLAPS

(* An operation button is left alone or activated.                         *)
Activating == Activate \/ NoActivate

(* What a step of input does to the list, its rows and the operation.      *)
LEMMA InputOnList ==
  ASSUME InputEvent
  PROVE  /\ Input
         /\ (enabled /\ Activate) \/ NoActivate
  BY DEF InputEvent, MouseMove, LButtonDown, LButtonDblClk, LButtonUp, RButtonDown,
         ContextMenu, Tab, KeyDown, KeyUp, NoActivate, rows, async, operation, mouse, keyboard

-----------------------------------------------------------------------------
(* Every pointer, flag and array of the manager keeps its type             *)
(* (UIManager.cpp:770-1471), with or without the other thread.             *)
THEOREM TypeCorrect == Spec => []TypeOK
<1>1. Init => TypeOK
  <2> SUFFICES ASSUME Init PROVE TypeOK
    OBVIOUS
  <2>1. {hover, click, key, focus} \subseteq Control \cup {None}
    BY DEF Init
  <2> QED
    BY <2>1 DEF Init, TypeOK, Place
<1>2. TypeOK /\ [Next]_vars => TypeOK'
  <2> SUFFICES ASSUME TypeOK, [Next]_vars PROVE TypeOK'
    OBVIOUS
  <2> USE DEF TypeOK
  <2>a. ASSUME Activating, Input
        PROVE  /\ items' \in SUBSET Row /\ cleanup' \in SUBSET Row /\ todo' \in SUBSET Row
               /\ alive' \in SUBSET Row
               /\ posted' \in BOOLEAN /\ queued' \in Nat
               /\ enabled' \in BOOLEAN /\ pc' \in [Worker -> Place] /\ met' \in BOOLEAN
               /\ upc' \in {"loop", "clean", "empty"}
    <3>1. ASSUME NEW w \in Worker, RemoveAll, Touch, Goto(w, "fill"), enabled' = FALSE,
                 UNCHANGED <<alive, upc, todo>>
          PROVE  /\ items' \in SUBSET Row /\ cleanup' \in SUBSET Row /\ todo' \in SUBSET Row
                 /\ alive' \in SUBSET Row
                 /\ posted' \in BOOLEAN /\ queued' \in Nat
                 /\ enabled' \in BOOLEAN /\ pc' \in [Worker -> Place] /\ met' \in BOOLEAN
                 /\ upc' \in {"loop", "clean", "empty"}
      <4>1. queued' = queued \/ queued' = queued + 1
        BY <3>1 DEF RemoveAll, AddDelayedCleanup
      <4>2. posted' = posted \/ posted' = TRUE
        BY <3>1 DEF RemoveAll, AddDelayedCleanup
      <4>3. items' \in SUBSET Row /\ cleanup' \in SUBSET Row
        BY <3>1 DEF RemoveAll, AddDelayedCleanup
      <4>4. queued' \in Nat /\ pc' \in [Worker -> Place]
        BY <3>1, <4>1 DEF Goto, Place
      <4>5. posted' \in BOOLEAN
        BY <4>2
      <4>6. met' \in BOOLEAN
        BY <3>1 DEF Touch, Removing
      <4> QED
        BY <3>1, <4>3, <4>4, <4>5, <4>6
    <3>2. ASSUME NEW w \in Worker, Goto(w, "switch"), enabled' = FALSE,
                 UNCHANGED <<items, cleanup, queued, posted, met, alive, upc, todo>>
          PROVE  pc' \in [Worker -> Place]
      BY <3>2 DEF Goto, Place
    <3>3. CASE NoActivate
      BY <3>3 DEF NoActivate, rows, async, operation
    <3> QED
      BY <2>a, <3>1, <3>2, <3>3 DEF Activating, Activate
  <2>b. Hit \subseteq Control
    BY DEF Hit, Control
  <2>1. ASSUME NEW pt \in Hit \cup {None}, MouseMove(pt) PROVE TypeOK'
    BY <2>1, <2>b DEF MouseMove, RowOf, rows, async, keyboard, operation
  <2>2. ASSUME NEW c \in Hit, LButtonDown(c) \/ LButtonDblClk(c) \/ RButtonDown(c) PROVE TypeOK'
    BY <2>2, <2>b DEF LButtonDown, LButtonDblClk, RButtonDown, SetFocus,
                      rows, async, keyboard, operation
  <2>3. CASE LButtonUp
    BY <2>3, <2>a DEF LButtonUp, Activating, keyboard
  <2>4. CASE ContextMenu
    BY <2>4 DEF ContextMenu, rows, async, keyboard, operation
  <2>5. CASE Tab
    BY <2>5 DEF Tab, Control, rows, async, mouse, operation
  <2>6. CASE KeyDown
    BY <2>6, <2>a DEF KeyDown, Activating
  <2>7. CASE KeyUp
    BY <2>7 DEF KeyUp, rows, async, mouse, operation
  <2>8. CASE Cleaning
    <3>1. CASE AppMessage
      <4>1. queued' \in Nat /\ upc' \in {"loop", "clean", "empty"}
        BY <3>1 DEF AppMessage
      <4>2. posted' \in BOOLEAN
        BY <3>1 DEF AppMessage
      <4> QED
        BY <3>1, <4>1, <4>2 DEF AppMessage, rows, mouse, keyboard, operation
    <3>2. CASE Delete
      <4>1. PICK r \in cleanup \cap alive :
              /\ alive' = alive \ {r}
              /\ hover' = Reap(hover, r) /\ click' = Reap(click, r)
              /\ key' = Reap(key, r) /\ focus' = Reap(focus, r)
              /\ orphaned' = (orphaned \/ r \in leaveNeeded)
        BY <3>2 DEF Delete
      <4>2. {hover', click', key', focus'} \subseteq Control \cup {None}
        BY <4>1 DEF Reap
      <4>3. orphaned' \in BOOLEAN
        BY <4>1
      <4> QED
        BY <3>2, <4>1, <4>2, <4>3 DEF Delete, async, operation
    <3>3. CASE Deleted \/ EmptyCleanup
      BY <3>3 DEF Deleted, EmptyCleanup, rows, mouse, keyboard, operation
    <3> QED
      BY <2>8, <3>1, <3>2, <3>3 DEF Cleaning
  <2>9. ASSUME NEW w \in Worker, Switching(w) PROVE TypeOK'
    <3>a. ASSUME NEW q \in Place, Goto(w, q) PROVE pc' \in [Worker -> Place]
      BY <3>a DEF Goto
    <3>b. \A q \in {"idle", "walk", "post", "set", "empty", "spawned", "fill"} : q \in Place
      BY DEF Place, RemovingAll
    <3>1. pc' \in [Worker -> Place]
      BY <2>9, <3>a, <3>b DEF Switching, SwitchSucceeds, SwitchFails, Walk, PostMessage,
                              SetPosted, Walked, EmptyItems, SwitchEnables
    <3>2. CASE SwitchSucceeds(w)
      BY <3>1, <3>2 DEF SwitchSucceeds, Touch, Removing, rows, async, mouse, keyboard
    <3>3. CASE SwitchFails(w) \/ Walked(w) \/ SwitchEnables(w)
      BY <3>1, <3>3 DEF SwitchFails, Walked, SwitchEnables, rows, async, mouse, keyboard
    <3>4. CASE Walk(w)
      <4>1. cleanup' \in SUBSET Row /\ todo' \in SUBSET Row
        BY <3>4 DEF Walk
      <4> QED
        BY <3>1, <3>4, <4>1 DEF Walk, async, mouse, keyboard
    <3>5. CASE PostMessage(w)
      BY <3>1, <3>5 DEF PostMessage, rows, mouse, keyboard
    <3>6. CASE SetPosted(w)
      BY <3>1, <3>6 DEF SetPosted, rows, mouse, keyboard
    <3>7. CASE EmptyItems(w)
      BY <3>1, <3>7 DEF EmptyItems, async, keyboard
    <3> QED
      BY <2>9, <3>2, <3>3, <3>4, <3>5, <3>6, <3>7 DEF Switching
  <2>10. ASSUME NEW w \in Worker, Fill(w) PROVE TypeOK'
    <3>1. pc' \in [Worker -> Place]
      BY <2>10 DEF Fill, Goto, Place
    <3> QED
      BY <2>10, <3>1 DEF Fill, Touch, Removing, async, mouse, keyboard
  <2>11. CASE UNCHANGED vars
    BY <2>11 DEF vars, rows, async, mouse, keyboard, operation
  <2> QED
    BY <2>1, <2>2, <2>3, <2>4, <2>5, <2>6, <2>7, <2>8, <2>9, <2>10, <2>11
       DEF Next, InputEvent
<1> QED
  BY <1>1, <1>2, PTL DEF Spec

-----------------------------------------------------------------------------
(* The list and its message, whichever thread calls RemoveAll, until two    *)
(* are in it: what is left to visit exists and is not yet to be destroyed;  *)
(* outside RemoveAll no row of the list is; a row to be destroyed exists    *)
(* until the handler runs.                                                  *)
ListInv ==
    /\ \A v, w \in Worker : pc[v] \in RemovingAll /\ pc[w] \in RemovingAll => v = w
    /\ ~Removing => items \subseteq alive /\ items \cap cleanup = {}
    /\ todo \subseteq alive /\ todo \cap cleanup = {}
    /\ todo # {} => \E w \in Worker : pc[w] \in {"walk", "post", "set"}
    /\ upc = "loop" => cleanup \subseteq alive

(* While the thread is between its PostMessage and its assignment the flag  *)
(* may still be FALSE; between its test and its PostMessage nothing posts.  *)
MessageInv ==
    /\ queued <= 1
    /\ \A w \in Worker : pc[w] = "post" => queued = 0
    /\ queued > 0 /\ (\A w \in Worker : pc[w] # "set") => posted

Unmet == ~met => ListInv /\ MessageInv

(* Nothing is left to visit when no thread is in RemoveAll.                 *)
LEMMA NothingLeft == ASSUME ListInv, ~Removing PROVE todo = {}
  BY DEF ListInv, Removing, RemovingAll

(* Steps that leave the places of the threads alone.                        *)
LEMMA PlacesKept ==
  ASSUME ListInv, UNCHANGED <<pc, todo>>
  PROVE  /\ \A v, w \in Worker : pc'[v] \in RemovingAll /\ pc'[w] \in RemovingAll => v = w
         /\ Removing' <=> Removing
         /\ todo' # {} => \E w \in Worker : pc'[w] \in {"walk", "post", "set"}
  BY DEF ListInv, Removing

(* Steps of a thread that is not in RemoveAll and does not enter it.        *)
LEMMA OutsideRemoveAll ==
  ASSUME TypeOK, ListInv, NEW w \in Worker, NEW q \in Place \ RemovingAll,
         pc[w] \notin RemovingAll, Goto(w, q), UNCHANGED todo
  PROVE  /\ \A v, u \in Worker : pc'[v] \in RemovingAll /\ pc'[u] \in RemovingAll => v = u
         /\ Removing' <=> Removing
         /\ todo' # {} => \E v \in Worker : pc'[v] \in {"walk", "post", "set"}
         /\ \A v \in Worker : pc'[v] \in RemovingAll => pc'[v] = pc[v]
         /\ \A v \in Worker : pc[v] \in RemovingAll => pc'[v] = pc[v]
<1>1. \A v \in Worker : pc'[v] = IF v = w THEN q ELSE pc[v]
  BY DEF TypeOK, Goto
<1>2. \A v \in Worker : pc[v] \in RemovingAll => pc'[v] = pc[v]
  BY <1>1
<1>3. \A v \in Worker : pc'[v] \in RemovingAll => pc'[v] = pc[v]
  BY <1>1
<1>4. {"walk", "post", "set"} \subseteq RemovingAll
  BY DEF RemovingAll
<1> QED
  BY <1>2, <1>3, <1>4 DEF ListInv, Removing

LEMMA ListStep ==
  ASSUME TypeOK, ListInv, [Next]_vars, ~met'
  PROVE  ListInv'
<1> USE DEF TypeOK
<1>a. \A q \in {"idle", "switch", "spawned", "fill", "enable"} : q \in Place \ RemovingAll
  BY DEF Place, RemovingAll
<1>b. {"walk", "post", "set"} \subseteq RemovingAll /\ "empty" \in RemovingAll
  BY DEF RemovingAll
<1>1. CASE InputEvent
  <2>1. CASE enabled /\ Activate
    <3>1. PICK w \in Worker :
            /\ At(w, "idle")
            /\ \/ RemoveAll /\ Touch /\ Goto(w, "fill")
               \/ Goto(w, "switch") /\ UNCHANGED <<items, cleanup>>
      BY <2>1 DEF Activate
    <3>2. UNCHANGED <<alive, upc, todo>> /\ upc = "loop" /\ pc[w] \notin RemovingAll
      BY <1>1, <2>1, <3>1, <1>a, InputOnList DEF Activate, Input, At
    <3>3. CASE RemoveAll /\ Touch /\ Goto(w, "fill")
      <4>1. ~Removing /\ items' = {} /\ cleanup' = cleanup \cup items
        BY <3>3 DEF Touch, RemoveAll, AddDelayedCleanup
      <4> QED
        BY <1>a, <3>2, <3>3, <4>1, OutsideRemoveAll, NothingLeft DEF ListInv
    <3>4. CASE Goto(w, "switch") /\ UNCHANGED <<items, cleanup>>
      BY <1>a, <3>2, <3>4, OutsideRemoveAll DEF ListInv
    <3> QED
      BY <3>1, <3>3, <3>4
  <2>2. CASE NoActivate
    <3>1. UNCHANGED <<alive, items, cleanup, upc, pc, todo>>
      BY <2>2 DEF NoActivate, rows, async, operation
    <3> QED
      BY <3>1, PlacesKept DEF ListInv
  <2> QED
    BY <1>1, <2>1, <2>2, InputOnList
<1>2. CASE AppMessage \/ Deleted
  <2>1. UNCHANGED <<alive, items, cleanup, pc, todo>> /\ upc' # "loop"
    BY <1>2 DEF AppMessage, Deleted, rows, operation
  <2> QED
    BY <2>1, PlacesKept DEF ListInv
<1>3. CASE Delete
  <2>1. PICK r \in cleanup \cap alive : alive' = alive \ {r}
    BY <1>3 DEF Delete
  <2>2. UNCHANGED <<items, cleanup, upc, pc, todo>> /\ upc # "loop"
    BY <1>3 DEF Delete, async, operation
  <2> QED
    BY <2>1, <2>2, PlacesKept DEF ListInv
<1>4. CASE EmptyCleanup
  <2>1. UNCHANGED <<alive, items, pc, todo>> /\ cleanup' = {}
    BY <1>4 DEF EmptyCleanup, operation
  <2> QED
    BY <2>1, PlacesKept DEF ListInv
<1>5. ASSUME NEW w \in Worker, SwitchSucceeds(w) PROVE ListInv'
  <2>1. /\ ~Removing /\ todo' = items /\ Goto(w, "walk")
        /\ UNCHANGED <<alive, items, cleanup, upc>>
    BY <1>5 DEF SwitchSucceeds, Touch, rows, async
  <2>2. /\ pc'[w] = "walk"
        /\ \A v \in Worker \ {w} : pc'[v] \notin RemovingAll
    BY <2>1 DEF Goto, Removing
  <2>3. Removing'
    BY <1>b, <2>2 DEF Removing
  <2> QED
    BY <2>1, <2>2, <2>3 DEF ListInv
<1>6. ASSUME NEW w \in Worker, SwitchFails(w) \/ SwitchEnables(w) PROVE ListInv'
  <2>1. UNCHANGED <<alive, items, cleanup, upc, todo>>
    BY <1>6 DEF SwitchFails, SwitchEnables, rows, async
  <2>2. PICK q \in {"idle", "switch", "spawned", "fill", "enable"} :
          Goto(w, q) /\ pc[w] \notin RemovingAll
    BY <1>6, <1>a DEF SwitchFails, SwitchEnables, At
  <2> QED
    BY <1>a, <2>1, <2>2, OutsideRemoveAll DEF ListInv
<1>7. ASSUME NEW w \in Worker,
             Walk(w) \/ PostMessage(w) \/ SetPosted(w) \/ Walked(w) \/ EmptyItems(w)
      PROVE  ListInv'
  <2>1. PICK q \in {"walk", "post", "set", "empty", "spawned"} :
          /\ Goto(w, q)
          /\ q = "empty" => todo = {} /\ todo' = {}
          /\ q = "spawned" => pc[w] = "empty" /\ items' = {} /\ todo' = todo
    BY <1>7 DEF Walk, PostMessage, SetPosted, Walked, EmptyItems, At
  <2>2. pc[w] \in RemovingAll /\ \A v \in Worker \ {w} : pc[v] \notin RemovingAll
    BY <1>7, <1>b DEF Walk, PostMessage, SetPosted, Walked, EmptyItems, At, ListInv
  <2>3. \A v \in Worker : pc'[v] = IF v = w THEN q ELSE pc[v]
    BY <2>1 DEF Goto
  <2>4. UNCHANGED <<alive, upc>>
    BY <1>7 DEF Walk, PostMessage, SetPosted, Walked, EmptyItems, rows, async
  <2>5. CASE q = "spawned"
    <3>a. EmptyItems(w)
      <4>1. pc'[w] = "spawned"
        BY <2>3, <2>5
      <4>2. ASSUME NEW p \in {"walk", "post", "set", "empty"} PROVE ~Goto(w, p)
        BY <4>1 DEF Goto
      <4> QED
        BY <1>7, <4>2 DEF Walk, PostMessage, SetPosted, Walked
    <3>1. UNCHANGED cleanup /\ items' = {} /\ todo' = todo
      BY <3>a DEF EmptyItems
    <3>2. todo = {}
      BY <1>b, <2>1, <2>2, <2>5 DEF ListInv
    <3> QED
      BY <1>a, <2>2, <2>3, <2>4, <2>5, <3>1, <3>2 DEF ListInv
  <2>6. CASE q # "spawned"
    <3>1. pc'[w] = q /\ q \in RemovingAll /\ Removing'
      BY <1>b, <2>3, <2>6 DEF Removing
    <3>2. \/ \E r \in todo : cleanup' = cleanup \cup {r} /\ todo' = todo \ {r}
          \/ UNCHANGED <<cleanup, todo>>
      BY <1>7, <2>1, <2>3, <2>6 DEF Walk, PostMessage, SetPosted, Walked, EmptyItems, rows
    <3>3. todo' # {} => q \in {"walk", "post", "set"}
      BY <2>1, <2>6
    <3>4. /\ todo' \subseteq alive /\ todo' \cap cleanup' = {}
          /\ upc = "loop" => cleanup' \subseteq alive
      BY <3>2 DEF ListInv
    <3> QED
      BY <2>2, <2>3, <2>4, <3>1, <3>3, <3>4 DEF ListInv
  <2> QED
    BY <2>5, <2>6
<1>8. ASSUME NEW w \in Worker, Fill(w) PROVE ListInv'
  <2>1. PICK new \in SUBSET (Row \ alive) : alive' = alive \cup new /\ items' = items \cup new
    BY <1>8 DEF Fill
  <2>2. /\ ~Removing /\ upc = "loop" /\ UNCHANGED <<cleanup, upc, todo>>
    BY <1>8 DEF Fill, Touch, async
  <2>3. PICK q \in {"idle", "switch", "spawned", "fill", "enable"} :
          Goto(w, q) /\ pc[w] \notin RemovingAll
    BY <1>8, <1>a DEF Fill, At
  <2> QED
    BY <1>a, <2>1, <2>2, <2>3, OutsideRemoveAll DEF ListInv
<1>9. CASE UNCHANGED vars
  <2>1. UNCHANGED <<alive, items, cleanup, upc, pc, todo>>
    BY <1>9 DEF vars, rows, async, operation
  <2> QED
    BY <2>1, PlacesKept DEF ListInv
<1> QED
  BY <1>1, <1>2, <1>3, <1>4, <1>5, <1>6, <1>7, <1>8, <1>9 DEF Next, Cleaning, Switching

LEMMA MessageStep ==
  ASSUME TypeOK, ListInv, MessageInv, [Next]_vars, ~met'
  PROVE  MessageInv'
<1> USE DEF TypeOK
<1>a. \A q \in {"idle", "switch", "spawned", "fill", "enable"} : q \in Place \ RemovingAll
  BY DEF Place, RemovingAll
<1>b. {"walk", "post", "set"} \subseteq RemovingAll /\ "empty" \in RemovingAll
  BY DEF RemovingAll
<1>1. CASE InputEvent
  <2>1. CASE enabled /\ Activate
    <3>1. PICK w \in Worker :
            /\ At(w, "idle")
            /\ \/ RemoveAll /\ Touch /\ Goto(w, "fill")
               \/ Goto(w, "switch") /\ UNCHANGED <<queued, posted>>
      BY <2>1 DEF Activate
    <3>2. queued = 0 /\ pc[w] \notin RemovingAll
      BY <1>1, <1>a, <3>1, InputOnList DEF Input, At
    <3>3. CASE RemoveAll /\ Touch /\ Goto(w, "fill")
      <4>1. \A v \in Worker : pc'[v] # "post"
        <5>1. \A v \in Worker : pc[v] \notin RemovingAll
          BY <3>3 DEF Touch, Removing
        <5>2. \A v \in Worker : pc'[v] = pc[v] \/ pc'[v] = "fill"
          BY <3>3 DEF Goto
        <5> QED
          BY <1>b, <5>1, <5>2
      <4>2. \/ queued' = 1 /\ posted' = TRUE
            \/ queued' = 0
        BY <3>2, <3>3 DEF RemoveAll, AddDelayedCleanup
      <4> QED
        BY <4>1, <4>2 DEF MessageInv
    <3>4. CASE Goto(w, "switch") /\ UNCHANGED <<queued, posted>>
      BY <3>2, <3>4 DEF MessageInv
    <3> QED
      BY <3>1, <3>3, <3>4
  <2>2. CASE NoActivate
    BY <2>2 DEF MessageInv, NoActivate, async, operation
  <2> QED
    BY <1>1, <2>1, <2>2, InputOnList
<1>2. CASE Cleaning
  BY <1>2 DEF MessageInv, Cleaning, AppMessage, Delete, Deleted, EmptyCleanup, async, operation
<1>3. ASSUME NEW w \in Worker,
             SwitchSucceeds(w) \/ SwitchFails(w) \/ SwitchEnables(w) \/ Fill(w)
      PROVE  MessageInv'
  <2>1. UNCHANGED <<queued, posted>>
    BY <1>3 DEF SwitchSucceeds, SwitchFails, SwitchEnables, Fill, async
  <2>2. PICK q \in {"idle", "spawned", "fill", "enable", "walk"} :
          Goto(w, q) /\ pc[w] \notin RemovingAll
    BY <1>3, <1>a DEF SwitchSucceeds, SwitchFails, SwitchEnables, Fill, At
  <2>3. \A v \in Worker : \A p \in {"post", "set"} : pc'[v] = p <=> pc[v] = p
    <3>1. \A v \in Worker : pc'[v] = IF v = w THEN q ELSE pc[v]
      BY <2>2 DEF Goto
    <3>2. pc[w] # "post" /\ pc[w] # "set" /\ q # "post" /\ q # "set"
      BY <1>b, <2>2
    <3> QED
      BY <3>1, <3>2
  <2>4. queued' <= 1
    BY <2>1 DEF MessageInv
  <2>5. ASSUME NEW v \in Worker, pc'[v] = "post" PROVE queued' = 0
    <3>1. pc[v] = "post"
      BY <2>3, <2>5
    <3> QED
      BY <2>1, <3>1 DEF MessageInv
  <2>6. ASSUME queued' > 0, \A v \in Worker : pc'[v] # "set" PROVE posted'
    <3>1. queued > 0 /\ \A v \in Worker : pc[v] # "set"
      BY <2>1, <2>3, <2>6
    <3>2. posted
      BY <3>1 DEF MessageInv
    <3> QED
      BY <2>1, <3>2
  <2> QED
    BY <2>4, <2>5, <2>6 DEF MessageInv
<1>4. ASSUME NEW w \in Worker, Walk(w) \/ Walked(w) \/ EmptyItems(w) PROVE MessageInv'
  <2>1. UNCHANGED <<queued, posted>> /\ pc[w] \in {"walk", "empty"}
    BY <1>4 DEF Walk, Walked, EmptyItems, At, async
  <2>2. \A v \in Worker \ {w} : pc[v] \notin RemovingAll
    BY <1>b, <2>1 DEF ListInv
  <2>3. PICK q \in {"walk", "post", "empty", "spawned"} :
          Goto(w, q) /\ (q = "post" => ~posted)
    BY <1>4 DEF Walk, Walked, EmptyItems
  <2>4. \A v \in Worker : pc'[v] = IF v = w THEN q ELSE pc[v]
    BY <2>3 DEF Goto
  <2>5. \A v \in Worker : pc[v] # "set"
    BY <1>b, <2>1, <2>2
  <2>6. \A v \in Worker : pc'[v] = "post" => ~posted
    BY <1>b, <2>2, <2>3, <2>4
  <2> QED
    BY <2>1, <2>5, <2>6 DEF MessageInv
<1>5. ASSUME NEW w \in Worker, PostMessage(w) PROVE MessageInv'
  <2>1. /\ pc[w] = "post" /\ queued = 0 /\ queued' = queued + 1 /\ Goto(w, "set")
    BY <1>5 DEF PostMessage, At, MessageInv
  <2>2. \A v \in Worker \ {w} : pc[v] \notin RemovingAll
    BY <1>b, <2>1 DEF ListInv
  <2>3. pc'[w] = "set" /\ \A v \in Worker : pc'[v] # "post"
    BY <1>b, <2>1, <2>2 DEF Goto
  <2> QED
    BY <2>1, <2>3 DEF MessageInv
<1>6. ASSUME NEW w \in Worker, SetPosted(w) PROVE MessageInv'
  <2>1. /\ posted' = TRUE /\ queued' = queued /\ Goto(w, "walk")
    BY <1>6 DEF SetPosted
  <2>2. \A v \in Worker : pc'[v] = "post" => pc[v] = "post"
    BY <2>1 DEF Goto
  <2> QED
    BY <2>1, <2>2 DEF MessageInv
<1>7. CASE UNCHANGED vars
  BY <1>7 DEF MessageInv, vars, async, operation
<1> QED
  BY <1>1, <1>2, <1>3, <1>4, <1>5, <1>6, <1>7 DEF Next, Switching

LEMMA Lists == Spec => [](TypeOK /\ Unmet)
<1>1. Init => Unmet
  BY DEF Init, Unmet, ListInv, MessageInv, Removing, RemovingAll
<1>2. TypeOK /\ Unmet /\ [Next]_vars => Unmet'
  <2> SUFFICES ASSUME TypeOK, Unmet, [Next]_vars, ~met' PROVE ListInv' /\ MessageInv'
    BY DEF Unmet
  <2>1. ~met
    BY DEF Next, vars, operation
  <2> QED
    BY <2>1, ListStep, MessageStep DEF Unmet
<1> QED
  BY <1>1, <1>2, TypeCorrect, PTL DEF Spec

(* When RemoveAll of a switch thread has returned the list holds live rows *)
(* again, whatever the window's thread and other operations did meanwhile, *)
(* short of touching the list (ui.cpp:473, UIContainer.cpp:147).           *)
THEOREM RemoveAllHeals == Spec => []ItemsAliveAfterRemoveAll
<1>1. Unmet => ItemsAliveAfterRemoveAll
  BY DEF Unmet, ListInv, ItemsAliveAfterRemoveAll
<1> QED
  BY <1>1, Lists, PTL

(* As long as no two threads are in RemoveAll, PostAsyncNotify has no two  *)
(* messages in the queue, although its test and its assignment may be far  *)
(* apart, and operations overlap (UIManager.cpp:2840, ui.cpp:480).         *)
THEOREM OneMessage == Spec => []OneCleanupMessage
<1>1. Unmet => OneCleanupMessage
  BY DEF Unmet, MessageInv, OneCleanupMessage
<1> QED
  BY <1>1, Lists, PTL

-----------------------------------------------------------------------------
(* From here on every call comes from the window's thread.                 *)

(* The rows: the list and the array of AddDelayedCleanup share none, every *)
(* row is in one of them, and the handler is through with the array when   *)
(* it empties it.                                                          *)
RowsInv ==
    /\ \A w \in Worker : pc[w] \in {"idle", "fill"}
    /\ ~met
    /\ alive \subseteq items \cup cleanup
    /\ upc = "empty" => cleanup \cap alive = {}
    /\ posted => queued > 0
    /\ cleanup # {} => queued > 0 \/ upc # "loop"

(* The pointers and the rows that wait for the mouse to leave them.        *)
PointersInv ==
    /\ PointersAlive
    /\ ~orphaned => leaveNeeded \subseteq alive
    /\ LeaveNeededHovered

LEMMA RowsStep ==
  ASSUME ~SwitchThread, TypeOK, ListInv, RowsInv, [Next]_vars
  PROVE  RowsInv'
<1> USE DEF TypeOK, RowsInv
<1>1. CASE InputEvent
  <2>1. CASE enabled /\ Activate
    <3>1. /\ queued = 0 /\ upc = "loop" /\ cleanup = {} /\ posted = FALSE
      BY <1>1, InputOnList DEF Input
    <3>2. PICK w \in Worker : RemoveAll /\ Touch /\ Goto(w, "fill")
      BY <2>1 DEF Activate
    <3>3. /\ cleanup' = items /\ items' = {} /\ alive' = alive /\ upc' = upc
          /\ IF items # {} THEN queued' = 1 ELSE posted' = posted
      BY <2>1, <3>1, <3>2 DEF Activate, RemoveAll, AddDelayedCleanup
    <3>4. (\A v \in Worker : pc'[v] \in {"idle", "fill"}) /\ ~met'
      BY <3>2 DEF Goto, Touch, Removing, RemovingAll
    <3> QED
      BY <3>1, <3>3, <3>4
  <2>2. CASE NoActivate
    BY <2>2 DEF NoActivate, rows, async, operation
  <2> QED
    BY <1>1, <2>1, <2>2, InputOnList
<1>2. CASE AppMessage
  BY <1>2 DEF AppMessage, rows, operation
<1>3. CASE Delete
  <2>1. PICK r \in cleanup \cap alive : alive' = alive \ {r}
    BY <1>3 DEF Delete
  <2> QED
    BY <1>3, <2>1 DEF Delete, async, operation
<1>4. CASE Deleted
  BY <1>4 DEF Deleted, rows, operation
<1>5. CASE EmptyCleanup
  BY <1>5 DEF EmptyCleanup, operation
<1>6. ASSUME NEW w \in Worker, Switching(w) PROVE FALSE
  BY <1>6 DEF Switching, SwitchSucceeds, SwitchFails, Walk, PostMessage, SetPosted, Walked,
              EmptyItems, SwitchEnables, At
<1>7. ASSUME NEW w \in Worker, Fill(w) PROVE RowsInv'
  <2>1. PICK new \in SUBSET (Row \ alive) : alive' = alive \cup new /\ items' = items \cup new
    BY <1>7 DEF Fill
  <2>2. Goto(w, "idle") /\ ~met' /\ upc = "loop" /\ UNCHANGED <<cleanup, posted, queued, upc>>
    BY <1>7 DEF Fill, At, Touch, Removing, RemovingAll, async
  <2>3. \A v \in Worker : pc'[v] \in {"idle", "fill"}
    BY <2>2 DEF Goto
  <2> QED
    BY <2>1, <2>2, <2>3
<1>8. CASE UNCHANGED vars
  BY <1>8 DEF vars, rows, async, operation
<1> QED
  BY <1>1, <1>2, <1>3, <1>4, <1>5, <1>6, <1>7, <1>8 DEF Next, Cleaning

(* nullptr and Button belong to no row.                                    *)
LEMMA NoRow == RowOf(None) = {} /\ RowOf(Button) = {}
  BY PaintManagerAssumption DEF RowOf, LabelsOf

(* The mouse only hits controls of rows that exist.                        *)
LEMMA HitAlive ==
  ASSUME ListInv, RowsInv, NEW c \in Hit \cup {None}, NEW r \in Row, c \in LabelsOf(r)
  PROVE  r \in items /\ r \in alive
  BY PaintManagerAssumption DEF ListInv, RowsInv, Removing, RemovingAll, Hit, LabelsOf

(* A row that is hit is the only one its label belongs to.                 *)
LEMMA OneRow ==
  ASSUME NEW c, NEW r \in Row, c \in LabelsOf(r)
  PROVE  RowOf(c) = {r}
  BY DEF RowOf, LabelsOf

LEMMA PointersStep ==
  ASSUME ~SwitchThread, TypeOK, ListInv, RowsInv, PointersInv, [Next]_vars
  PROVE  PointersInv'
<1> USE DEF TypeOK, PointersInv, PointersAlive, LeaveNeededHovered
<1>a. ASSUME Activate \/ NoActivate
      PROVE  alive' = alive /\ items' \subseteq items
  BY <1>a DEF Activate, NoActivate, RemoveAll, rows
<1>1. ASSUME NEW pt \in Hit \cup {None}, MouseMove(pt) PROVE PointersInv'
  <2>1. hover' = pt /\ UNCHANGED <<alive, items, click, key, focus, orphaned>>
    BY <1>1 DEF MouseMove, rows, keyboard
  <2>2. PointersAlive'
    BY <2>1, <1>1, HitAlive
  <2>3. CASE hover = None
    <3>1. leaveNeeded' = leaveNeeded
      BY <1>1, <2>3 DEF MouseMove
    <3>2. ~orphaned => leaveNeeded \cap items = {}
      BY <2>3, NoRow, PaintManagerAssumption
    <3> QED
      BY <2>1, <2>2, <3>1, <3>2
  <2>4. CASE hover # None
    <3>1. PICK held \in Holding(pt) : leaveNeeded' = (leaveNeeded \cup RowOf(hover)) \cap held
      BY <1>1, <2>4 DEF MouseMove
    <3>2. RowOf(hover) \subseteq alive
      BY DEF RowOf
    <3>3. \A r, q \in RowOf(pt) : r = q
      BY OneRow DEF RowOf
    <3>4. IF pt = Button THEN \A r, q \in held \cap items : r = q
                         ELSE held \cap items = RowOf(pt)
      BY DEF Holding
    <3>5. /\ pt # Button => leaveNeeded' \cap items \subseteq RowOf(pt)
          /\ \A r, q \in leaveNeeded' \cap items : r = q
      BY <3>1, <3>3, <3>4
    <3> QED
      BY <2>1, <2>2, <3>1, <3>2, <3>5
  <2> QED
    BY <2>3, <2>4
<1>2. ASSUME NEW c \in Hit, LButtonDown(c) \/ LButtonDblClk(c) \/ RButtonDown(c)
      PROVE  PointersInv'
  <2>1. /\ click' = c /\ focus' \in {focus, c, None}
        /\ UNCHANGED <<alive, items, hover, key, leaveNeeded, orphaned>>
    BY <1>2 DEF LButtonDown, LButtonDblClk, RButtonDown, SetFocus, rows, keyboard
  <2>2. \A r \in Row \ alive : {c, None} \cap LabelsOf(r) = {}
    BY HitAlive, NoRow DEF RowOf
  <2> QED
    BY <2>1, <2>2
<1>3. CASE LButtonUp
  <2>1. click' = None /\ UNCHANGED <<hover, key, focus, leaveNeeded, orphaned>>
    BY <1>3 DEF LButtonUp, keyboard
  <2>2. alive' = alive /\ items' \subseteq items
    BY <1>3, <1>a DEF LButtonUp
  <2> QED
    BY <2>1, <2>2, NoRow DEF RowOf
<1>4. CASE ContextMenu
  BY <1>4, NoRow DEF ContextMenu, RowOf, rows, keyboard
<1>5. CASE Tab
  BY <1>5, NoRow DEF Tab, RowOf, rows, mouse
<1>6. CASE KeyDown
  <2>1. key' = focus /\ UNCHANGED <<hover, click, focus, leaveNeeded, orphaned>>
    BY <1>6 DEF KeyDown
  <2>2. alive' = alive /\ items' \subseteq items
    BY <1>6, <1>a DEF KeyDown
  <2> QED
    BY <2>1, <2>2
<1>7. CASE KeyUp
  BY <1>7, NoRow DEF KeyUp, RowOf, rows, mouse
<1>8. CASE AppMessage \/ Deleted \/ EmptyCleanup
  BY <1>8 DEF AppMessage, Deleted, EmptyCleanup, rows, mouse, keyboard
<1>9. CASE Delete
  <2>1. PICK r \in cleanup \cap alive :
          /\ alive' = alive \ {r}
          /\ hover' = Reap(hover, r) /\ click' = Reap(click, r)
          /\ key' = Reap(key, r) /\ focus' = Reap(focus, r)
          /\ orphaned' = (orphaned \/ r \in leaveNeeded)
    BY <1>9 DEF Delete
  <2>2. UNCHANGED <<items, leaveNeeded>>
    BY <1>9 DEF Delete
  <2>3. PointersAlive'
    BY <2>1, NoRow DEF Reap, RowOf
  <2>4. r \notin items
    BY DEF ListInv, RowsInv, Removing, RemovingAll
  <2>5. CASE hover \in LabelsOf(r)
    <3>1. RowOf(hover) = {r} /\ RowOf(hover') = {}
      BY <2>1, <2>5, OneRow, NoRow DEF Reap
    <3> QED
      BY <2>1, <2>2, <2>3, <2>4, <2>5, <3>1, NoRow
  <2>6. CASE hover \notin LabelsOf(r)
    BY <2>1, <2>2, <2>3, <2>6 DEF Reap
  <2> QED
    BY <2>5, <2>6
<1>10. ASSUME NEW w \in Worker, Switching(w) PROVE FALSE
  BY <1>10 DEF RowsInv, Switching, SwitchSucceeds, SwitchFails, Walk, PostMessage, SetPosted,
               Walked, EmptyItems, SwitchEnables, At
<1>11. ASSUME NEW w \in Worker, Fill(w) PROVE PointersInv'
  <2>1. PICK new \in SUBSET (Row \ alive) : alive' = alive \cup new /\ items' = items \cup new
    BY <1>11 DEF Fill
  <2> QED
    BY <1>11, <2>1 DEF Fill, mouse, keyboard
<1>12. CASE UNCHANGED vars
  BY <1>12 DEF vars, rows, mouse, keyboard
<1> QED
  BY <1>1, <1>2, <1>3, <1>4, <1>5, <1>6, <1>7, <1>8, <1>9, <1>10, <1>11, <1>12
     DEF Next, InputEvent, Cleaning

LEMMA WindowsOwn == ~SwitchThread /\ Spec => [](ListInv /\ RowsInv /\ PointersInv)
<1> SUFFICES ASSUME ~SwitchThread PROVE Spec => [](ListInv /\ RowsInv /\ PointersInv)
  OBVIOUS
<1>1. Init => RowsInv /\ PointersInv
  <2> SUFFICES ASSUME Init PROVE RowsInv /\ PointersInv
    OBVIOUS
  <2>1. RowsInv
    BY DEF Init, RowsInv
  <2>2. PointersAlive
    BY NoRow DEF Init, PointersAlive, RowOf
  <2> QED
    BY <2>1, <2>2 DEF Init, PointersInv, LeaveNeededHovered
<1>2. TypeOK /\ Unmet /\ RowsInv /\ PointersInv /\ [Next]_vars => (RowsInv /\ PointersInv)'
  BY RowsStep, PointersStep DEF Unmet, RowsInv
<1>3. RowsInv /\ Unmet => ListInv
  BY DEF RowsInv, Unmet
<1> QED
  BY <1>1, <1>2, <1>3, Lists, PTL DEF Spec

(* The four pointers of the manager never point at a control that is gone,  *)
(* whatever is clicked, typed and refreshed (UIManager.cpp:1633).           *)
THEOREM PointersStayAlive == ~SwitchThread /\ Spec => []PointersAlive
<1>1. PointersInv => PointersAlive
  BY DEF PointersInv, PointersAlive
<1> QED
  BY <1>1, WindowsOwn, PTL

(* A row is destroyed only after the list has let go of it: the delayed     *)
(* cleanup does what it is for on the window's thread (UIManager.cpp:1590). *)
THEOREM ItemsStayAlive == ~SwitchThread /\ Spec => []ItemsAlive
<1>1. ListInv /\ RowsInv => ItemsAlive
  BY DEF ListInv, RowsInv, ItemsAlive, Removing, RemovingAll
<1> QED
  BY <1>1, WindowsOwn, PTL

(* Every row that exists is in the list or waits to be destroyed            *)
(* (UIContainer.cpp:147).                                                   *)
THEOREM RowsAreKept == ~SwitchThread /\ Spec => []NoRowLost
<1>1. RowsInv => NoRowLost
  BY DEF RowsInv, NoRowLost
<1> QED
  BY <1>1, WindowsOwn, PTL

(* The flag of PostAsyncNotify is TRUE only with a message in the queue,    *)
(* and rows that wait have theirs (UIManager.cpp:2840).                     *)
THEOREM CleanupHasMessage == ~SwitchThread /\ Spec => []CleanupQueued
<1>1. RowsInv => CleanupQueued
  BY DEF RowsInv, CleanupQueued
<1> QED
  BY <1>1, WindowsOwn, PTL

(* While no waiting row has been destroyed, no row of the list waits for    *)
(* the mouse to leave it but the one under the mouse, or a single one while *)
(* the mouse is over another control (UIList.cpp:2862, UIContainer.cpp:750, *)
(* UIManager.cpp:1254).                                                     *)
THEOREM OnlyHoveredWaits == ~SwitchThread /\ Spec => []LeaveNeededHovered
<1>1. PointersInv => LeaveNeededHovered
  BY DEF PointersInv, LeaveNeededHovered
<1> QED
  BY <1>1, WindowsOwn, PTL
=============================================================================
