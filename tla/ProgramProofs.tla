--------------------------- MODULE ProgramProofs ---------------------------
(***************************************************************************)
(* The program for any number of threads, items, adapters and addresses:   *)
(* its jobs run in turn (the lock that Ui's buttons are makes the threads' *)
(* jobs, seen from the machine, a run of DnsJob), its data keep their      *)
(* types, and the adapter list it shows is true.                           *)
(***************************************************************************)
EXTENDS Program, UiProofs, FiniteSetTheorems

Outcomes == {"none", "running", "success", "failure"}
Requests == (Adapter \X Dns) \cup {NoRequest}

\* The threads whose job may change the machine.
AtJob(w) == pc[w] = "work" /\ kind[w] \in {"auto", "switch"}

WorkType ==
    /\ work \in [Worker -> [job : {"none", "auto", "manual"}, request : Requests,
                            fell : BOOLEAN, outcome : Outcomes]]
    /\ runner \in Worker

\* As long as the buttons are a lock, only the job begun last can be running, and
\* it runs in the thread that was started for it.
InTurn ==
    ~ switched =>
        /\ \A w \in Worker : AtJob(w) =>
             /\ w = runner
             /\ work[w].job = IF kind[w] = "auto" THEN "auto" ELSE "manual"
             /\ kind[w] = "switch" => work[w].request \in Adapter \X Dns
        /\ work[runner].outcome = "running" => AtJob(runner)

ProgramInv == IInv /\ WorkType /\ InTurn

\* Nothing but ButtonsExclude is needed of Ui: no thread runs at a click, and a
\* running one is where it was started.
LEMMA ClickIsAlone == ASSUME IInv, ~ switched, Button PROVE \A w \in Worker : pc[w] = "off"
<1>1. <<>> # <<"disable">>
  OBVIOUS
<1> QED BY <1>1 DEF IInv, Gate, Button, Input

\* The thread a click starts is the one that is new at work.
LEMMA StartedIsNew ==
    ASSUME IInv, ~ switched, Button, NEW k \in JobKind, Spawn(k)
    PROVE  /\ Started \in Worker
           /\ pc' = [pc EXCEPT ![Started] = "work"]
           /\ kind' = [kind EXCEPT ![Started] = k]
           /\ \A w \in Worker : pc'[w] # "off" => w = Started
<1>1. \A w \in Worker : pc[w] = "off"
  BY ClickIsAlone
<1>2. PICK v \in Worker \ Active :
        kind' = [kind EXCEPT ![v] = k] /\ pc' = [pc EXCEPT ![v] = "work"]
  BY DEF Spawn
<1>3. pc \in [Worker -> Place]
  BY DEF IInv, TypeOK
<1>4. pc'[v] = "work" /\ \A w \in Worker : w # v => pc'[w] = "off"
  BY <1>1, <1>2, <1>3
<1>5. Started \in Worker \ Active /\ pc'[Started] = "work"
  BY <1>2, <1>4 DEF Started
<1>6. Started = v
  BY <1>4, <1>5
<1> QED BY <1>2, <1>4, <1>6

\* A step of a job keeps the records of the jobs, also when jobs overlap.
LEMMA WorkTypeStep ==
    ASSUME WorkType, TypeOK,
           ClickAuto \/ ClickSwitch
           \/ \E w \in Worker :
                Fallback(w) \/ JobFails(w) \/ AutoSucceeds(w) \/ ManualSucceeds(w)
    PROVE  WorkType'
<1>1. ASSUME NEW k \in JobKind, Spawn(k) PROVE Started \in Worker
  <2>1. PICK v \in Worker \ Active : pc' = [pc EXCEPT ![v] = "work"]
    BY <1>1 DEF Spawn
  <2>2. pc'[v] = "work"
    BY <2>1 DEF TypeOK
  <2> QED BY <2>2 DEF Started
<1>2. CASE ClickAuto
  <2>1. Started \in Worker
    BY <1>1, <1>2 DEF ClickAuto, OnAutoDone, JobKind
  <2> HIDE DEF Started
  <2> QED BY <1>2, <2>1 DEF ClickAuto, Begin, WorkType, Work, Requests, Outcomes
<1>3. CASE ClickSwitch
  <2>1. Started \in Worker
    BY <1>1, <1>3 DEF ClickSwitch, OnSwitchAdapter, JobKind
  <2>2. PICK a \in Adapter, ip \in Dns : Begin("manual", <<a, ip>>)
    BY <1>3 DEF ClickSwitch
  <2> HIDE DEF Started
  <2> QED BY <2>1, <2>2 DEF Begin, WorkType, Work, Requests, Outcomes
<1>4. ASSUME NEW w \in Worker,
             Fallback(w) \/ JobFails(w) \/ AutoSucceeds(w) \/ ManualSucceeds(w)
      PROVE  WorkType'
  <2>1. /\ runner' = runner
        /\ \/ work' = [work EXCEPT ![w].fell = TRUE]
           \/ work' = [work EXCEPT ![w].outcome = "failure"]
           \/ work' = [work EXCEPT ![w].outcome = "success"]
    BY <1>4 DEF Fallback, JobFails, AutoSucceeds, ManualSucceeds
  <2>2. CASE work' = [work EXCEPT ![w].fell = TRUE]
    BY <2>1, <2>2 DEF WorkType
  <2>3. CASE work' = [work EXCEPT ![w].outcome = "failure"]
    BY <2>1, <2>3 DEF WorkType, Outcomes
  <2>4. CASE work' = [work EXCEPT ![w].outcome = "success"]
    BY <2>1, <2>4 DEF WorkType, Outcomes
  <2> QED BY <2>1, <2>2, <2>3, <2>4
<1> QED BY <1>2, <1>3, <1>4

\* A click on the optimisation or on the switch begins a job of DnsJob.
LEMMA BeginMaps ==
    ASSUME ProgramInv, ~ switched', ClickAuto \/ ClickSwitch
    PROVE  Job!Next /\ WorkType' /\ InTurn'
<1>1. ~ switched /\ Button
  BY DEF ClickAuto, ClickSwitch, OnAutoDone, OnSwitchAdapter, history
<1>2. \A w \in Worker : pc[w] = "off"
  BY <1>1, ClickIsAlone DEF ProgramInv
<1>3. work[runner].outcome # "running"
  BY <1>1, <1>2 DEF ProgramInv, WorkType, InTurn, AtJob
<1>4. CASE ClickAuto
  <2>1. /\ Started \in Worker
        /\ pc' = [pc EXCEPT ![Started] = "work"]
        /\ kind' = [kind EXCEPT ![Started] = "auto"]
        /\ \A w \in Worker : pc'[w] # "off" => w = Started
    BY <1>1, <1>4, StartedIsNew DEF ClickAuto, OnAutoDone, JobKind, ProgramInv
  <2>2. /\ work' = [work EXCEPT ![Started] = Work("auto", NoRequest, "running")]
        /\ runner' = Started /\ adapters' = adapters
    BY <1>4 DEF ClickAuto, Begin
  <2> HIDE DEF Started
  <2>3. work'[runner'] = Work("auto", NoRequest, "running")
    BY <2>1, <2>2 DEF ProgramInv, WorkType
  <2>4. Job!BeginAuto
    BY <1>3, <2>2, <2>3 DEF Job!BeginAuto, Work
  <2>5. WorkType'
    BY <1>4, WorkTypeStep DEF ProgramInv, IInv
  <2>6. pc'[Started] = "work" /\ kind'[Started] = "auto"
    BY <2>1 DEF ProgramInv, IInv, TypeOK
  <2>7. InTurn'
    BY <2>1, <2>2, <2>3, <2>6 DEF InTurn, AtJob, Work
  <2> QED BY <2>4, <2>5, <2>7 DEF Job!Next
<1>5. CASE ClickSwitch
  <2>1. /\ Started \in Worker
        /\ pc' = [pc EXCEPT ![Started] = "work"]
        /\ kind' = [kind EXCEPT ![Started] = "switch"]
        /\ \A w \in Worker : pc'[w] # "off" => w = Started
    BY <1>1, <1>5, StartedIsNew DEF ClickSwitch, OnSwitchAdapter, JobKind, ProgramInv
  <2>2. PICK a \in Adapter, ip \in Dns : Begin("manual", <<a, ip>>)
    BY <1>5 DEF ClickSwitch
  <2>3. /\ work' = [work EXCEPT ![Started] = Work("manual", <<a, ip>>, "running")]
        /\ runner' = Started /\ adapters' = adapters
    BY <2>2 DEF Begin
  <2> HIDE DEF Started
  <2>4. work'[runner'] = Work("manual", <<a, ip>>, "running")
    BY <2>1, <2>3 DEF ProgramInv, WorkType
  <2>5. Job!BeginManual(a, ip)
    BY <1>3, <2>3, <2>4 DEF Job!BeginManual, Work
  <2>6. WorkType'
    BY <1>5, WorkTypeStep DEF ProgramInv, IInv
  <2>7. pc'[Started] = "work" /\ kind'[Started] = "switch"
    BY <2>1 DEF ProgramInv, IInv, TypeOK
  <2>8. InTurn'
    BY <2>1, <2>3, <2>4, <2>7 DEF InTurn, AtJob, Work
  <2> QED BY <2>5, <2>6, <2>8 DEF Job!Next
<1> QED BY <1>4, <1>5

\* A thread inside its job is the runner, and DnsJob sees what it does.
LEMMA InsideMaps ==
    ASSUME ProgramInv, ~ switched', NEW w \in Worker,
           Fallback(w) \/ JobFails(w) \/ AutoSucceeds(w) \/ ManualSucceeds(w)
    PROVE  Job!Next /\ WorkType' /\ InTurn'
<1> USE DEF ProgramInv, WorkType
<1>1. /\ UNCHANGED <<vars, runner>>
      /\ work[w].outcome = "running" /\ AtJob(w)
  BY DEF Fallback, JobFails, AutoSucceeds, ManualSucceeds, Running, At, AtJob
<1>2. UNCHANGED <<switched, pc, kind>>
  BY <1>1 DEF vars, history, threads
<1>3. /\ w = runner
      /\ work[w].job = IF kind[w] = "auto" THEN "auto" ELSE "manual"
      /\ kind[w] = "switch" => work[w].request \in Adapter \X Dns
  BY <1>1, <1>2 DEF InTurn
<1>4. CASE Fallback(w)
  <2>1. work' = [work EXCEPT ![w].fell = TRUE] /\ kind[w] = "auto" /\ ~ work[w].fell
    BY <1>4 DEF Fallback, Running, At
  <2>2. Job!Fallback
    BY <1>1, <1>3, <1>4, <2>1 DEF Fallback, Job!Fallback
  <2>3. WorkType'
    BY <1>4, WorkTypeStep DEF IInv
  <2>4. InTurn'
    BY <1>1, <1>2, <1>3, <2>1 DEF InTurn, AtJob
  <2> QED BY <2>2, <2>3, <2>4 DEF Job!Next
<1>5. CASE JobFails(w)
  <2>1. work' = [work EXCEPT ![w].outcome = "failure"] /\ adapters' = adapters
    BY <1>5 DEF JobFails
  <2>2. Job!Fail
    BY <1>1, <1>3, <2>1 DEF Job!Fail
  <2>3. WorkType'
    BY <1>5, WorkTypeStep DEF IInv
  <2>4. InTurn'
    BY <1>1, <1>2, <1>3, <2>1 DEF InTurn, AtJob
  <2> QED BY <2>2, <2>3, <2>4 DEF Job!Next, Job!End
<1>6. CASE AutoSucceeds(w) \/ ManualSucceeds(w)
  <2>1. work' = [work EXCEPT ![w].outcome = "success"]
    BY <1>6 DEF AutoSucceeds, ManualSucceeds
  <2>2. PICK a \in Adapter, d1 \in Dns, d2 \in Dns :
          /\ work[w].job = "manual" => work[w].request = <<a, d1>>
          /\ Job!Set(a, d1, d2)
    <3>1. CASE AutoSucceeds(w)
      <4>1. work[w].job = "auto"
        BY <1>3, <3>1 DEF AutoSucceeds, Running, At
      <4> QED BY <3>1, <4>1 DEF AutoSucceeds
    <3>2. CASE ManualSucceeds(w)
      <4>1. work[w].request \in Adapter \X Dns
        BY <1>3, <3>2 DEF ManualSucceeds, Running, At
      <4>2. PICK a \in Adapter, ip \in Dns : work[w].request = <<a, ip>>
        BY <4>1
      <4> QED BY <3>2, <4>2 DEF ManualSucceeds
    <3> QED BY <1>6, <3>1, <3>2
  <2>3. Job!Succeed
    BY <1>1, <1>3, <2>1, <2>2 DEF Job!Succeed
  <2>4. WorkType'
    BY <1>6, WorkTypeStep DEF IInv
  <2>5. InTurn'
    BY <1>1, <1>2, <1>3, <2>1 DEF InTurn, AtJob
  <2> QED BY <2>3, <2>4, <2>5 DEF Job!Next, Job!End
<1> QED BY <1>4, <1>5, <1>6

\* Where nothing of the jobs and the machine changes, DnsJob sees nothing, and the
\* turn is kept if no thread enters a job and the runner leaves it only ended.
LEMMA OutsideMaps ==
    ASSUME WorkType, InTurn, UNCHANGED <<adapters, work, runner>>,
           ~ switched' =>
             /\ ~ switched
             /\ \A w \in Worker : AtJob(w)' => AtJob(w) /\ kind'[w] = kind[w]
             /\ work[runner].outcome = "running" /\ AtJob(runner) => AtJob(runner)'
    PROVE  UNCHANGED Job!jobVars /\ WorkType' /\ InTurn'
<1>1. UNCHANGED Job!jobVars
  BY DEF Job!jobVars
<1>2. WorkType'
  BY DEF WorkType
<1>3. InTurn'
  BY DEF InTurn, AtJob, WorkType
<1> QED BY <1>1, <1>2, <1>3

\* A thread that only leaves its work, or starts none, disturbs no turn.
LEMMA ThreadLeaves ==
    ASSUME TypeOK, NEW w \in Worker, ThreadEnds(w), ~ AtJob(w) \/ work[w].outcome # "running",
           WorkType, runner' = runner
    PROVE  /\ \A v \in Worker : AtJob(v)' => AtJob(v) /\ kind'[v] = kind[v]
           /\ work[runner].outcome = "running" /\ AtJob(runner) => AtJob(runner)'
<1>1. /\ pc \in [Worker -> Place] /\ kind \in [Worker -> JobKind \cup {NoKind}]
      /\ runner \in Worker
  BY DEF TypeOK, WorkType
<1>2. /\ kind' = [kind EXCEPT ![w] = NoKind]
      /\ pc' = [pc EXCEPT ![w] = "off"]
  BY DEF ThreadEnds
<1>3. \A v \in Worker : /\ pc'[v] = IF v = w THEN "off" ELSE pc[v]
                        /\ v # w => kind'[v] = kind[v]
  BY <1>1, <1>2
<1> QED BY <1>1, <1>2, <1>3 DEF AtJob

\* Everything else: the machine and the jobs are left alone.
LEMMA ElsewhereMaps ==
    ASSUME ProgramInv,
           \/ FillAdapters \/ FillDns \/ Drop \/ ClickFreshen \/ Elsewhere
           \/ \E w \in Worker :
                \/ JobEnds(w) \/ AdaptersRead(w) \/ SwitchClears(w)
                \/ \E a \in Adapter : ReadAdapter(w, a)
    PROVE  UNCHANGED Job!jobVars /\ WorkType' /\ InTurn'
<1> DEFINE Safe ==
      ~ switched' =>
        /\ ~ switched
        /\ \A w \in Worker : AtJob(w)' => AtJob(w) /\ kind'[w] = kind[w]
        /\ work[runner].outcome = "running" /\ AtJob(runner) => AtJob(runner)'
<1>1. WorkType /\ InTurn /\ TypeOK
  BY DEF ProgramInv, IInv
<1>2. UNCHANGED <<adapters, work, runner>>
  BY DEF FillAdapters, FillDns, Drop, ClickFreshen, Elsewhere, JobEnds, AdaptersRead,
         SwitchClears, ReadAdapter, data
<1>3. Safe
  <2>1. CASE FillAdapters \/ FillDns \/ Drop
    <3>1. UNCHANGED <<pc, kind, switched>>
      BY <2>1 DEF FillAdapters, FillDns, Drop, FillList, DropMessage, threads, history
    <3> QED BY <1>2, <3>1 DEF AtJob
  <2>2. CASE ClickFreshen
    <3>1. PICK k \in ListKind : OnFreshen(k)
      BY <2>2 DEF ClickFreshen
    <3>2. SUFFICES ASSUME ~ switched'
                   PROVE  /\ ~ switched
                          /\ \A w \in Worker : AtJob(w)' => AtJob(w) /\ kind'[w] = kind[w]
                          /\ work[runner].outcome = "running" /\ AtJob(runner)
                                => AtJob(runner)'
      OBVIOUS
    <3>3. ~ switched /\ Button /\ k \in JobKind /\ Spawn(k)
      BY <3>1, <3>2 DEF OnFreshen, history, JobKind
    <3>4. \A w \in Worker : pc[w] = "off"
      BY <3>3, ClickIsAlone DEF ProgramInv
    <3>5. ~ AtJob(runner)
      BY <1>1, <3>4 DEF AtJob, WorkType
    <3>6. ASSUME NEW w \in Worker PROVE ~ AtJob(w)'
      <4>1. /\ Started \in Worker
            /\ kind' = [kind EXCEPT ![Started] = k]
            /\ pc'[w] # "off" => w = Started
        BY <3>3, StartedIsNew DEF ProgramInv
      <4>2. pc'[w] # "off" => kind'[w] = k
        BY <1>1, <4>1 DEF TypeOK
      <4> QED BY <4>2 DEF AtJob, ListKind
    <3> QED BY <3>3, <3>5, <3>6
  <2>3. CASE Elsewhere
    <3>1. CASE \/ SetEnabled \/ Ready \/ MessageLoopEnds \/ StartDrag \/ EndDrag \/ Exit
               \/ \E k \in ListKind, i \in Item : OnItemClick(k, i) \/ KeySelect(k, i)
      <4>1. UNCHANGED <<pc, kind, switched>>
        BY <3>1 DEF SetEnabled, Ready, MessageLoopEnds, StartDrag, EndDrag, Exit,
                    OnItemClick, KeySelect, threads, history
      <4> QED BY <1>2, <4>1 DEF AtJob
    <3>2. ASSUME NEW w \in Worker, InitEnds(w) \/ FreshenEnds(w, "dns") PROVE Safe
      <4>1. ThreadEnds(w) /\ switched' = switched /\ ~ AtJob(w)
        BY <3>2 DEF InitEnds, FreshenEnds, At, AtJob, history
      <4> QED BY <1>1, <1>2, <4>1, ThreadLeaves
    <3>3. ASSUME NEW w \in Worker,
                 \/ ClearLast(w) \/ ClearMap(w)
                 \/ PostDisable(w) \/ SpawnFreshen(w) \/ SwitchEnds(w)
          PROVE  Safe
      <4>1. pc[w] \notin {"off", "work"} /\ switched' = switched
        BY <3>3 DEF ClearLast, ClearMap, PostDisable, SpawnFreshen, SwitchEnds, At, history
      <4>2. switched
        BY <4>1 DEF ProgramInv, IInv, Gate
      <4> QED BY <4>1, <4>2
    <3> QED BY <2>3, <3>1, <3>2, <3>3 DEF Elsewhere
  <2>4. ASSUME NEW w \in Worker, JobEnds(w) PROVE Safe
    <3>1. CASE SwitchSucceeds(w)
      BY <3>1 DEF SwitchSucceeds
    <3>2. CASE \/ AutoEnds(w) /\ work[w].outcome # "running"
               \/ SwitchFails(w) /\ work[w].outcome = "failure"
      <4>1. ThreadEnds(w) /\ switched' = switched /\ work[w].outcome # "running"
        BY <3>2 DEF AutoEnds, SwitchFails, history
      <4> QED BY <1>1, <1>2, <4>1, ThreadLeaves
    <3> QED BY <2>4, <3>1, <3>2 DEF JobEnds
  <2>5. ASSUME NEW w \in Worker, AdaptersRead(w) PROVE Safe
    <3>1. ThreadEnds(w) /\ switched' = switched /\ ~ AtJob(w)
      BY <2>5 DEF AdaptersRead, FreshenEnds, At, AtJob, history
    <3> QED BY <1>1, <1>2, <3>1, ThreadLeaves
  <2>6. ASSUME NEW w \in Worker, SwitchClears(w) PROVE Safe
    <3>1. pc[w] \notin {"off", "work"} /\ switched' = switched
      BY <2>6 DEF SwitchClears, ClearList, At, history
    <3>2. switched
      BY <3>1 DEF ProgramInv, IInv, Gate
    <3> QED BY <3>1, <3>2
  <2>7. ASSUME NEW w \in Worker, NEW a \in Adapter, ReadAdapter(w, a) PROVE Safe
    <3>1. UNCHANGED <<pc, kind, switched>>
      BY <2>7 DEF ReadAdapter, vars, threads, history
    <3> QED BY <1>2, <3>1 DEF AtJob
  <2> QED BY <2>1, <2>2, <2>3, <2>4, <2>5, <2>6, <2>7
<1> HIDE DEF Safe
<1> QED BY <1>1, <1>2, <1>3, OutsideMaps DEF Safe

\* Every step of the program is one of Ui, or leaves Ui alone.
LEMMA StepsOfUi == [ProgramNext]_<<vars, data>> => [Next]_vars
<1> SUFFICES ASSUME ProgramNext \/ UNCHANGED <<vars, data>>, ~ UNCHANGED vars PROVE Next
  OBVIOUS
<1> USE DEF Next
<1>1. CASE FillAdapters \/ FillDns \/ Drop
  BY <1>1 DEF FillAdapters, FillDns, Drop, Pump, ListKind
<1>2. CASE ClickAuto \/ ClickSwitch \/ ClickFreshen
  BY <1>2 DEF ClickAuto, ClickSwitch, ClickFreshen, User
<1>3. ASSUME NEW w \in Worker, JobEnds(w) \/ AdaptersRead(w) \/ SwitchClears(w) PROVE Next
  BY <1>3 DEF JobEnds, AdaptersRead, SwitchClears, Thread, ListKind
<1>4. CASE Elsewhere
  BY <1>4 DEF Elsewhere, Pump, User, Thread, ListKind
<1>5. ASSUME NEW w \in Worker,
             \/ Fallback(w) \/ JobFails(w) \/ AutoSucceeds(w) \/ ManualSucceeds(w)
             \/ \E a \in Adapter : ReadAdapter(w, a)
      PROVE  UNCHANGED vars
  BY <1>5 DEF Fallback, JobFails, AutoSucceeds, ManualSucceeds, ReadAdapter, vars
<1> QED BY <1>1, <1>2, <1>3, <1>4, <1>5 DEF ProgramNext, Steps

\* The composition adds data to the window and its threads and no step of their
\* own: what Ui's theorems say of the buttons and lists (ui.cpp:292-482) holds in it.
THEOREM ProgramIsUi == ProgramSpec => Init /\ [][Next]_vars
<1>1. ProgramInit => Init
  BY DEF ProgramInit
<1> QED
  BY <1>1, StepsOfUi, PTL DEF ProgramSpec

(***************************************************************************)
(* The machine of a program whose buttons are a lock sees one job of       *)
(* dns_selector after the other.                                           *)
(***************************************************************************)

\* No job has begun.
LEMMA TurnStarts == ProgramInit => ProgramInv /\ Job!Init
<1> SUFFICES ASSUME ProgramInit PROVE ProgramInv /\ Job!Init
  OBVIOUS
<1>1. IInv
  BY InitType, InitIInv DEF IInv, ProgramInit
<1>2. WorkType
  BY DEF ProgramInit, WorkType, Work, Requests, Outcomes
<1>3. work[runner] = Work("none", NoRequest, "none")
  BY DEF ProgramInit
<1>4. InTurn
  <2>1. \A w \in Worker : pc[w] # "off" => kind[w] = "init"
    BY DEF ProgramInit, Init
  <2> QED BY <1>3, <2>1 DEF InTurn, AtJob, Work
<1>5. Job!Init
  BY <1>3 DEF ProgramInit, Job!Init, Work
<1> QED BY <1>1, <1>2, <1>4, <1>5 DEF ProgramInv

\* Every step is one of DnsJob, none, or comes after a switch has succeeded.
LEMMA TurnStep ==
    ProgramInv /\ [ProgramNext]_<<vars, data>>
        => ProgramInv' /\ [switched' \/ Job!Next]_(Job!jobVars)
<1> SUFFICES ASSUME ProgramInv, [ProgramNext]_<<vars, data>>
             PROVE  ProgramInv' /\ [switched' \/ Job!Next]_(Job!jobVars)
  OBVIOUS
<1>1. IInv'
  BY StepsOfUi, IInvStep DEF ProgramInv
<1>2. CASE UNCHANGED <<vars, data>>
  <2>1. UNCHANGED <<adapters, work, runner, pc, kind, switched>>
    BY <1>2 DEF vars, data, threads, history
  <2>2. WorkType' /\ InTurn' /\ UNCHANGED Job!jobVars
    BY <2>1 DEF ProgramInv, WorkType, InTurn, AtJob, Job!jobVars
  <2> QED BY <1>1, <2>2 DEF ProgramInv
<1>3. CASE ProgramNext
  <2>1. CASE ClickAuto \/ ClickSwitch
        \/ \E w \in Worker :
             Fallback(w) \/ JobFails(w) \/ AutoSucceeds(w) \/ ManualSucceeds(w)
    <3>1. CASE ~ switched'
      BY <1>1, <2>1, <3>1, BeginMaps, InsideMaps DEF ProgramInv
    <3>2. CASE switched'
      <4>1. WorkType'
        BY <2>1, WorkTypeStep DEF ProgramInv, IInv
      <4>2. InTurn'
        BY <3>2 DEF InTurn
      <4> QED BY <1>1, <3>2, <4>1, <4>2 DEF ProgramInv
    <3> QED BY <3>1, <3>2
  <2>2. CASE \/ FillAdapters \/ FillDns \/ Drop \/ ClickFreshen \/ Elsewhere
             \/ \E w \in Worker :
                  \/ JobEnds(w) \/ AdaptersRead(w) \/ SwitchClears(w)
                  \/ \E a \in Adapter : ReadAdapter(w, a)
    BY <1>1, <2>2, ElsewhereMaps DEF ProgramInv
  <2> QED BY <1>3, <2>1, <2>2 DEF ProgramNext, Steps
<1> QED BY <1>2, <1>3

\* No two jobs run at once before a switch has succeeded, at any time.
LEMMA ProgramInductive == ProgramSpec => []ProgramInv
  BY TurnStarts, TurnStep, PTL DEF ProgramSpec

\* Until a switch has succeeded the program runs the jobs of dns_selector one after
\* the other (ui.cpp:292-482): the machine sees a run of DnsJob.
THEOREM ProgramRunsJobsInTurn == ProgramSpec => JobsInTurn
  BY TurnStarts, TurnStep, PTL DEF ProgramSpec, JobsInTurn

(***************************************************************************)
(* Counting the functions in the queue that bring rows.                    *)
(***************************************************************************)
\* Where the queue holds a function that fills the adapter list.
Fills(q) == {n \in DOMAIN q : q[n] = "adapter"}

\* One more posted function is one more for the list, or none.
LEMMA CountAppend ==
    ASSUME NEW q \in Seq(Message), NEW m \in Message
    PROVE  /\ Cardinality(Fills(q)) \in Nat
           /\ Cardinality(Fills(Append(q, m))) =
                Cardinality(Fills(q)) + (IF m = "adapter" THEN 1 ELSE 0)
<1>1. /\ Len(q) \in Nat /\ DOMAIN q = 1 .. Len(q)
      /\ DOMAIN Append(q, m) = 1 .. Len(q) + 1
      /\ \A n \in 1 .. Len(q) : Append(q, m)[n] = q[n]
      /\ Append(q, m)[Len(q) + 1] = m
  BY LenProperties, AppendProperties
<1>2. IsFiniteSet(Fills(q))
  <2>1. IsFiniteSet(1 .. Len(q)) /\ Fills(q) \in SUBSET (1 .. Len(q))
    BY <1>1, FS_Interval DEF Fills
  <2> QED BY <2>1, FS_Subset
<1>3. CASE m = "adapter"
  <2>1. Fills(Append(q, m)) = Fills(q) \cup {Len(q) + 1} /\ Len(q) + 1 \notin Fills(q)
    BY <1>1, <1>3 DEF Fills
  <2> QED BY <1>2, <1>3, <2>1, FS_AddElement, FS_CardinalityType
<1>4. CASE m # "adapter"
  <2>1. Fills(Append(q, m)) = Fills(q)
    BY <1>1, <1>4 DEF Fills
  <2>2. Cardinality(Fills(q)) \in Nat
    BY <1>2, FS_CardinalityType
  <2> QED BY <1>4, <2>1, <2>2
<1> QED BY <1>3, <1>4

\* The first posted function is one of them, or not.
LEMMA CountTail ==
    ASSUME NEW q \in Seq(Message), q # <<>>
    PROVE  Cardinality(Fills(q)) =
             Cardinality(Fills(Tail(q))) + (IF Head(q) = "adapter" THEN 1 ELSE 0)
<1> DEFINE Later == Fills(q) \ {1}
           shift == [n \in Fills(Tail(q)) |-> n + 1]
<1>1. /\ Len(q) \in Nat \ {0} /\ DOMAIN q = 1 .. Len(q)
      /\ DOMAIN Tail(q) = 1 .. Len(q) - 1
      /\ \A n \in 1 .. Len(q) - 1 : Tail(q)[n] = q[n + 1]
      /\ Head(q) = q[1]
  BY LenProperties, HeadTailProperties, EmptySeq
<1>2. IsFiniteSet(Fills(q)) /\ IsFiniteSet(Fills(Tail(q)))
  <2>1. IsFiniteSet(1 .. Len(q)) /\ IsFiniteSet(1 .. Len(q) - 1)
    BY <1>1, FS_Interval
  <2>2. Fills(q) \in SUBSET (1 .. Len(q)) /\ Fills(Tail(q)) \in SUBSET (1 .. Len(q) - 1)
    BY <1>1 DEF Fills
  <2> QED BY <2>1, <2>2, FS_Subset
<1>3. shift \in Bijection(Fills(Tail(q)), Later)
  <2>1. shift \in [Fills(Tail(q)) -> Later]
    BY <1>1 DEF Fills
  <2>2. \A a, b \in Fills(Tail(q)) : shift[a] = shift[b] => a = b
    BY <1>1 DEF Fills
  <2>3. ASSUME NEW t \in Later PROVE \E a \in Fills(Tail(q)) : shift[a] = t
    <3>1. t - 1 \in Fills(Tail(q)) /\ t = (t - 1) + 1
      BY <1>1 DEF Fills
    <3> QED BY <3>1
  <2> HIDE DEF shift, Later
  <2> QED BY <2>1, <2>2, <2>3 DEF Bijection, Injection, Surjection, IsInjective
<1>4. Cardinality(Later) = Cardinality(Fills(Tail(q)))
  <2> HIDE DEF shift, Later
  <2> QED BY <1>2, <1>3, FS_Bijection DEF ExistsBijection
<1>5. /\ Cardinality(Later) =
           IF 1 \in Fills(q) THEN Cardinality(Fills(q)) - 1 ELSE Cardinality(Fills(q))
      /\ Cardinality(Fills(q)) \in Nat
  BY <1>2, FS_RemoveElement, FS_CardinalityType
<1>6. 1 \in Fills(q) <=> Head(q) = "adapter"
  BY <1>1 DEF Fills
<1> QED BY <1>4, <1>5, <1>6

(***************************************************************************)
(* Types of the data.  The rows of a refresh are a function on the         *)
(* adapters, and there is one in posted for every "adapter" in the queue.  *)
(***************************************************************************)
ItemsShow ==
    /\ DOMAIN shows = list["adapter"]
    /\ \A i \in list["adapter"] : shows[i][1] \in Adapter

RowsTravel ==
    /\ posted \in Seq(Range(posted))
    /\ Len(posted) = Cardinality(Fills(queue))
    /\ \A n \in DOMAIN posted : DOMAIN posted[n] \subseteq Adapter

ReadsAdapters ==
    /\ read = [w \in Worker |-> read[w]]
    /\ \A w \in Worker : DOMAIN read[w] \subseteq Adapter
    /\ behind \subseteq Adapter

JobFits(w) == AtJob(w) => work[w].job = IF kind[w] = "auto" THEN "auto" ELSE "manual"

JobsFit == \A w \in Worker : JobFits(w)

DataInv == ItemsShow /\ RowsTravel /\ ReadsAdapters /\ JobsFit

\* A sequence is one over its own elements.
LEMMA OwnElements ==
    ASSUME NEW S, NEW s \in Seq(S)
    PROVE  s \in Seq(Range(s))
<1>1. s \in [1 .. Len(s) -> S] /\ Len(s) \in Nat /\ DOMAIN s = 1 .. Len(s)
  BY LenProperties
<1>2. s \in [1 .. Len(s) -> Range(s)]
  BY <1>1 DEF Range
<1> QED BY <1>1, <1>2

\* The sequence of rows, one longer.
LEMMA PostRows ==
    ASSUME posted \in Seq(Range(posted)),
           NEW rows, posted' = Append(posted, rows)
    PROVE  /\ posted' \in Seq(Range(posted'))
           /\ Len(posted') = Len(posted) + 1
           /\ \A n \in DOMAIN posted' :
                posted'[n] = rows \/ \E m \in DOMAIN posted : posted'[n] = posted[m]
<1> DEFINE S == Range(posted) \cup {rows}
<1>1. posted \in Seq(S) /\ rows \in S
  <2>1. posted \in [1 .. Len(posted) -> Range(posted)] /\ Len(posted) \in Nat
    BY LenProperties
  <2>2. posted \in [1 .. Len(posted) -> S]
    BY <2>1
  <2> QED BY <2>1, <2>2
<1> HIDE DEF S
<1>2. /\ posted' \in Seq(S)
      /\ Len(posted') = Len(posted) + 1
      /\ \A n \in 1 .. Len(posted) : posted'[n] = posted[n]
      /\ posted'[Len(posted) + 1] = rows
  BY <1>1, AppendProperties
<1>3. /\ posted' \in [1 .. Len(posted') -> S] /\ Len(posted') \in Nat
      /\ DOMAIN posted = 1 .. Len(posted) /\ Len(posted) \in Nat
  BY <1>1, <1>2, LenProperties
<1>4. posted' \in Seq(Range(posted'))
  BY <1>2, OwnElements
<1> QED BY <1>2, <1>3, <1>4

\* The sequence of rows, without its first.
LEMMA TakeRows ==
    ASSUME posted \in Seq(Range(posted)),
           posted # <<>>, posted' = Tail(posted)
    PROVE  /\ posted' \in Seq(Range(posted'))
           /\ Len(posted') = Len(posted) - 1
           /\ 1 \in DOMAIN posted /\ Head(posted) = posted[1]
           /\ \A n \in DOMAIN posted' : \E m \in DOMAIN posted : posted'[n] = posted[m]
<1>1. /\ posted' \in Seq(Range(posted))
      /\ Len(posted') = Len(posted) - 1
      /\ \A n \in 1 .. Len(posted') : posted'[n] = posted[n + 1]
      /\ Len(posted) \in Nat \ {0}
  BY HeadTailProperties, EmptySeq
<1>2. /\ posted' \in [1 .. Len(posted') -> Range(posted)]
      /\ DOMAIN posted = 1 .. Len(posted)
  BY <1>1, LenProperties
<1>4. posted' \in Seq(Range(posted'))
  BY <1>1, OwnElements
<1>5. 1 \in DOMAIN posted /\ Head(posted) = posted[1]
  BY <1>1, <1>2
<1>6. ASSUME NEW n \in DOMAIN posted' PROVE \E m \in DOMAIN posted : posted'[n] = posted[m]
  <2>1. n \in 1 .. Len(posted') /\ n + 1 \in DOMAIN posted
    BY <1>1, <1>2
  <2> QED BY <1>1, <2>1
<1> QED BY <1>1, <1>4, <1>5, <1>6

\* A step that posts something else, or nothing, moves no rows.
LEMMA TravelPast ==
    ASSUME RowsTravel, queue \in Seq(Message), posted' = posted,
           \/ queue' = queue
           \/ \E m \in Message \ {"adapter"} : queue' = Append(queue, m)
    PROVE  RowsTravel'
<1>1. Cardinality(Fills(queue')) = Cardinality(Fills(queue))
  <2>1. CASE queue' = queue
    BY <2>1
  <2>2. ASSUME NEW m \in Message \ {"adapter"}, queue' = Append(queue, m)
        PROVE  Cardinality(Fills(queue')) = Cardinality(Fills(queue))
    BY <2>2, CountAppend
  <2> QED BY <2>1, <2>2
<1> QED BY <1>1 DEF RowsTravel, Fills

\* The window thread takes a function, with its rows if it has some, and may post
\* another that has none.
LEMMA TravelOn ==
    ASSUME RowsTravel, queue \in Seq(Message), queue # <<>>,
           posted' = IF Head(queue) = "adapter" THEN Tail(posted) ELSE posted,
           \/ queue' = Tail(queue)
           \/ \E m \in Message \ {"adapter"} : queue' = Append(Tail(queue), m)
    PROVE  /\ RowsTravel'
           /\ Head(queue) = "adapter" =>
                /\ posted # <<>> /\ 1 \in DOMAIN posted /\ Head(posted) = posted[1]
                /\ DOMAIN Head(posted) \subseteq Adapter
           /\ \A n \in DOMAIN posted' : \E m \in DOMAIN posted : posted'[n] = posted[m]
<1>1. Tail(queue) \in Seq(Message)
  BY HeadTailProperties
<1>2. Cardinality(Fills(queue')) = Cardinality(Fills(Tail(queue)))
  <2>1. ASSUME NEW m \in Message \ {"adapter"}, queue' = Append(Tail(queue), m)
        PROVE  Cardinality(Fills(queue')) = Cardinality(Fills(Tail(queue)))
    <3>1. \A q \in Seq(Message) : Cardinality(Fills(Append(q, m))) = Cardinality(Fills(q))
      BY CountAppend
    <3> QED BY <1>1, <2>1, <3>1
  <2>2. CASE queue' = Tail(queue)
    BY <2>2
  <2> QED BY <2>1, <2>2
<1>3. /\ Cardinality(Fills(queue)) =
           Cardinality(Fills(Tail(queue))) + (IF Head(queue) = "adapter" THEN 1 ELSE 0)
      /\ Cardinality(Fills(Tail(queue))) \in Nat
  BY <1>1, CountTail, CountAppend DEF Message
<1>4. CASE Head(queue) = "adapter"
  <2>1. posted # <<>>
    BY <1>3, <1>4, EmptySeq DEF RowsTravel
  <2>2. posted \in Seq(Range(posted)) /\ posted' = Tail(posted)
    BY <1>4 DEF RowsTravel
  <2>3. /\ posted' \in Seq(Range(posted'))
        /\ Len(posted') = Len(posted) - 1
        /\ 1 \in DOMAIN posted /\ Head(posted) = posted[1]
        /\ \A n \in DOMAIN posted' : \E m \in DOMAIN posted : posted'[n] = posted[m]
    BY <2>1, <2>2, TakeRows
  <2>4. /\ DOMAIN Head(posted) \subseteq Adapter
        /\ \A n \in DOMAIN posted' : DOMAIN posted'[n] \subseteq Adapter
    BY <2>3 DEF RowsTravel
  <2>5. Len(posted') = Cardinality(Fills(queue'))
    BY <1>2, <1>3, <1>4, <2>3 DEF RowsTravel
  <2>6. RowsTravel'
    BY <2>3, <2>4, <2>5 DEF RowsTravel
  <2> QED BY <2>1, <2>3, <2>4, <2>6
<1>5. CASE Head(queue) # "adapter"
  BY <1>2, <1>3, <1>5 DEF RowsTravel
<1> QED BY <1>4, <1>5

(***************************************************************************)
(* The data keep their types, also when operations overlap.                *)
(***************************************************************************)
\* The steps that leave the adapter list alone.
KeepsList ==
    \/ FillDns \/ Drop \/ ClickAuto \/ ClickSwitch \/ Elsewhere
    \/ \E w \in Worker :
         \/ Fallback(w) \/ JobFails(w) \/ AutoSucceeds(w) \/ ManualSucceeds(w)
         \/ JobEnds(w) \/ AdaptersRead(w)
         \/ \E a \in Adapter : ReadAdapter(w, a)

\* They show nothing else either.
LEMMA ListKept == ASSUME TypeOK, KeepsList
                  PROVE  list'["adapter"] = list["adapter"] /\ shows' = shows
<1>1. CASE FillDns
  BY <1>1 DEF FillDns, FillList, data, TypeOK, ListKind
<1>2. CASE Drop \/ ClickAuto \/ ClickSwitch
  BY <1>2 DEF Drop, DropMessage, ClickAuto, ClickSwitch, OnAutoDone, OnSwitchAdapter, Begin, lists
<1>3. CASE Elsewhere
  BY <1>3 DEF Elsewhere, SetEnabled, Ready, MessageLoopEnds, StartDrag, EndDrag, Exit,
              OnItemClick, KeySelect, InitEnds, FreshenEnds, ClearLast, ClearMap,
              PostDisable, SpawnFreshen, SwitchEnds, lists, data
<1>4. ASSUME NEW w \in Worker,
             \/ Fallback(w) \/ JobFails(w) \/ AutoSucceeds(w) \/ ManualSucceeds(w)
             \/ JobEnds(w) \/ AdaptersRead(w)
             \/ \E a \in Adapter : ReadAdapter(w, a)
      PROVE  list' = list /\ shows' = shows
  BY <1>4 DEF Fallback, JobFails, AutoSucceeds, ManualSucceeds, JobEnds, AutoEnds, SwitchFails,
              SwitchSucceeds, AdaptersRead, FreshenEnds, ReadAdapter, vars, lists, data
<1> QED BY <1>1, <1>2, <1>3, <1>4 DEF KeepsList

\* Clearing the list, by the window thread or by a switch, shows nothing more.
LEMMA ListCleared ==
    ASSUME TypeOK, ItemsShow, ClickFreshen \/ \E w \in Worker : SwitchClears(w)
    PROVE  /\ list'["adapter"] \in {list["adapter"], {}}
           /\ shows' = [i \in list'["adapter"] |-> shows[i]]
           /\ ItemsShow'
<1>1. /\ list'["adapter"] \in {list["adapter"], {}}
      /\ shows' = [i \in list'["adapter"] |-> shows[i]]
  BY DEF ClickFreshen, OnFreshen, SwitchClears, ClearList, Shown, TypeOK, ListKind
<1>2. CASE list'["adapter"] = list["adapter"]
  BY <1>1, <1>2 DEF ItemsShow
<1>3. CASE list'["adapter"] = {}
  BY <1>1, <1>3 DEF ItemsShow
<1> QED BY <1>1, <1>2, <1>3

\* Filling it adds an item per adapter of the query, with the row that travelled for it.
LEMMA ListFilled ==
    ASSUME TypeOK, ItemsShow, RowsTravel, FillAdapters
    PROVE  /\ ItemsShow'
           /\ RowsTravel'
           /\ posted # <<>> /\ posted' = Tail(posted) /\ 1 \in DOMAIN posted
           /\ DOMAIN posted[1] \subseteq Adapter
           /\ \E new \in SUBSET Item : \E of \in Bijection(new, DOMAIN posted[1]) :
                /\ list'["adapter"] = list["adapter"] \cup new
                /\ new \cap list["adapter"] = {}
                /\ \A i \in new : shows'[i] = <<of[i], posted[1][of[i]]>>
<1>1. /\ queue \in Seq(Message) /\ queue # <<>> /\ Head(queue) = "adapter"
      /\ queue' = Append(Tail(queue), "enable")
      /\ posted' = Tail(posted)
  BY DEF TypeOK, FillAdapters, FillList, Pumping
<1>2. /\ RowsTravel'
      /\ posted # <<>> /\ 1 \in DOMAIN posted
      /\ Head(posted) = posted[1] /\ DOMAIN posted[1] \subseteq Adapter
  <2>1. "enable" \in Message \ {"adapter"}
    BY DEF Message
  <2> QED BY <1>1, <2>1, TravelOn
<1>3. PICK new \in SUBSET (Item \ list["adapter"]) : list' = [list EXCEPT !["adapter"] = @ \cup new]
  BY DEF FillAdapters, FillList
<1>4. list'["adapter"] = list["adapter"] \cup new /\ list'["adapter"] \ list["adapter"] = new
  BY <1>3 DEF TypeOK, ListKind
<1>5. PICK of \in Bijection(new, DOMAIN posted[1]) :
        /\ DOMAIN shows' = list'["adapter"]
        /\ \A i \in list'["adapter"] :
             shows'[i] = IF i \in new THEN <<of[i], posted[1][of[i]]>> ELSE shows[i]
  <2>1. PICK f \in Bijection(list'["adapter"] \ list["adapter"], DOMAIN Head(posted)) :
          shows' = [i \in list'["adapter"] |->
                      IF i \in list'["adapter"] \ list["adapter"]
                      THEN <<f[i], Head(posted)[f[i]]>> ELSE shows[i]]
    BY DEF FillAdapters
  <2>2. f \in Bijection(new, DOMAIN posted[1])
    BY <1>2, <1>4, <2>1
  <2>3. /\ DOMAIN shows' = list'["adapter"]
        /\ \A i \in list'["adapter"] :
             shows'[i] = IF i \in new THEN <<f[i], posted[1][f[i]]>> ELSE shows[i]
    BY <1>2, <1>4, <2>1
  <2> QED BY <2>2, <2>3
<1>6. of \in [new -> DOMAIN posted[1]]
  BY DEF Bijection, Injection
<1>7. ItemsShow'
  <2>1. DOMAIN shows' = list'["adapter"]
    BY <1>5
  <2>2. ASSUME NEW i \in list'["adapter"] PROVE shows'[i][1] \in Adapter
    <3>1. CASE i \in new
      <4>1. shows'[i] = <<of[i], posted[1][of[i]]>>
        BY <1>5, <3>1
      <4>2. of[i] \in Adapter
        BY <1>2, <1>6, <3>1
      <4> QED BY <4>1, <4>2
    <3>2. CASE i \notin new
      BY <1>4, <1>5, <3>2 DEF ItemsShow
    <3> QED BY <3>1, <3>2
  <2> QED BY <2>1, <2>2 DEF ItemsShow
<1>8. \A i \in new : shows'[i] = <<of[i], posted[1][of[i]]>>
  BY <1>4, <1>5
<1>9. new \in SUBSET Item /\ new \cap list["adapter"] = {}
  OBVIOUS
<1> QED BY <1>1, <1>2, <1>4, <1>7, <1>8, <1>9

\* Every item of the adapter list keeps showing a row.
LEMMA ItemsShowStep == ASSUME TypeOK, ItemsShow, RowsTravel, Steps PROVE ItemsShow'
<1>1. CASE KeepsList
  BY <1>1, ListKept DEF ItemsShow
<1>2. CASE FillAdapters
  BY <1>2, ListFilled
<1>3. CASE ClickFreshen \/ \E w \in Worker : SwitchClears(w)
  BY <1>3, ListCleared
<1> QED BY <1>1, <1>2, <1>3 DEF Steps, KeepsList

\* The window thread's own functions.
LEMMA PumpTravels ==
    ASSUME TypeOK, RowsTravel,
           \/ FillDns \/ Drop
           \/ SetEnabled /\ UNCHANGED data
           \/ Ready /\ UNCHANGED data
    PROVE  /\ RowsTravel'
           /\ \A n \in DOMAIN posted' : \E m \in DOMAIN posted : posted'[n] = posted[m]
<1>1. queue \in Seq(Message) /\ "enable" \in Message \ {"adapter"}
  BY DEF TypeOK, Message
<1>2. CASE FillDns \/ (SetEnabled /\ UNCHANGED data) \/ (Ready /\ UNCHANGED data)
  <2>1. /\ queue # <<>> /\ Head(queue) # "adapter" /\ posted' = posted
        /\ queue' = Tail(queue) \/ queue' = Append(Tail(queue), "enable")
    BY <1>2 DEF FillDns, FillList, SetEnabled, Ready, Pumping, data
  <2> QED BY <1>1, <2>1, TravelOn
<1>3. CASE Drop
  <2>1. /\ queue # <<>> /\ queue' = Tail(queue)
        /\ posted' = IF Head(queue) = "adapter" THEN Tail(posted) ELSE posted
    BY <1>3 DEF Drop, DropMessage
  <2> QED BY <1>1, <2>1, TravelOn
<1> QED BY <1>2, <1>3

\* A refresh that has read adapters, or failed.
LEMMA RowsLeave ==
    ASSUME TypeOK, RowsTravel, ReadsAdapters, NEW w \in Worker, AdaptersRead(w)
    PROVE  /\ RowsTravel'
           /\ \/ posted' = posted
              \/ /\ posted' = Append(posted, read[w])
                 /\ Len(posted') = Len(posted) + 1
                 /\ \A n \in DOMAIN posted' :
                      posted'[n] = read[w] \/ \E m \in DOMAIN posted : posted'[n] = posted[m]
<1>1. queue \in Seq(Message) /\ "enable" \in Message \ {"adapter"} /\ "adapter" \in Message
  BY DEF TypeOK, Message, ListKind
<1>2. CASE queue' = Append(queue, "enable") /\ UNCHANGED posted
  BY <1>1, <1>2, TravelPast
<1>3. CASE /\ queue' = Append(queue, "adapter")
           /\ posted' = Append(posted, read[w])
  <2>1. /\ Cardinality(Fills(queue)) \in Nat
        /\ Cardinality(Fills(queue')) = Cardinality(Fills(queue)) + 1
    BY <1>1, <1>3, CountAppend
  <2>2. /\ posted' \in Seq(Range(posted'))
        /\ Len(posted') = Len(posted) + 1
        /\ \A n \in DOMAIN posted' :
             posted'[n] = read[w] \/ \E m \in DOMAIN posted : posted'[n] = posted[m]
    BY <1>3, PostRows DEF RowsTravel
  <2>3. \A n \in DOMAIN posted' : DOMAIN posted'[n] \subseteq Adapter
    BY <1>3, <2>2 DEF RowsTravel, ReadsAdapters
  <2> QED BY <1>3, <2>1, <2>2, <2>3 DEF RowsTravel
<1> QED BY <1>2, <1>3 DEF AdaptersRead

\* The rest of the program posts no rows and takes none.
KeepsRows ==
    \/ ClickAuto \/ ClickSwitch \/ ClickFreshen
    \/ Elsewhere /\ ~ SetEnabled /\ ~ Ready
    \/ \E w \in Worker :
         \/ Fallback(w) \/ JobFails(w) \/ AutoSucceeds(w) \/ ManualSucceeds(w)
         \/ JobEnds(w) \/ SwitchClears(w)
         \/ \E a \in Adapter : ReadAdapter(w, a)

\* So the rows stay with their functions.
LEMMA RowsKept == ASSUME TypeOK, RowsTravel, KeepsRows
                  PROVE  RowsTravel' /\ posted' = posted
<1>1. posted' = posted
  BY DEF KeepsRows, ClickAuto, ClickSwitch, ClickFreshen, Begin, Elsewhere, Fallback, JobFails,
         AutoSucceeds, ManualSucceeds, JobEnds, SwitchClears, ReadAdapter, data
<1>2. /\ queue \in Seq(Message)
      /\ {"enable", "disable", "ready", "dns"} \subseteq Message \ {"adapter"}
  BY DEF TypeOK, Message, ListKind
<1>3. \/ queue' = queue
      \/ \E m \in {"enable", "disable", "ready", "dns"} : queue' = Append(queue, m)
  <2>1. CASE ClickAuto \/ ClickSwitch \/ ClickFreshen
    BY <2>1 DEF ClickAuto, ClickSwitch, ClickFreshen, OnAutoDone, OnSwitchAdapter, OnFreshen,
                post_call
  <2>2. CASE Elsewhere /\ ~ SetEnabled /\ ~ Ready
    <3>1. CASE MessageLoopEnds \/ StartDrag \/ EndDrag \/ Exit
               \/ \E k \in ListKind, i \in Item : OnItemClick(k, i) \/ KeySelect(k, i)
      BY <3>1 DEF MessageLoopEnds, StartDrag, EndDrag, Exit, OnItemClick, KeySelect
    <3>2. ASSUME NEW w \in Worker, InitEnds(w) \/ FreshenEnds(w, "dns")
                   \/ ClearLast(w) \/ ClearMap(w)
                   \/ PostDisable(w) \/ SpawnFreshen(w) \/ SwitchEnds(w)
          PROVE  \/ queue' = queue
                 \/ \E m \in {"enable", "disable", "ready", "dns"} : queue' = Append(queue, m)
      BY <3>2 DEF InitEnds, FreshenEnds, ClearLast, ClearMap, PostDisable, SpawnFreshen,
                  SwitchEnds, post_call
    <3> QED BY <2>2, <3>1, <3>2 DEF Elsewhere
  <2>3. ASSUME NEW w \in Worker,
               \/ Fallback(w) \/ JobFails(w) \/ AutoSucceeds(w) \/ ManualSucceeds(w)
               \/ JobEnds(w) \/ SwitchClears(w)
               \/ \E a \in Adapter : ReadAdapter(w, a)
        PROVE  queue' = queue \/ queue' = Append(queue, "enable")
    BY <2>3 DEF Fallback, JobFails, AutoSucceeds, ManualSucceeds, JobEnds, AutoEnds, SwitchFails,
                SwitchSucceeds, SwitchClears, ClearList, ReadAdapter, vars, post_call
  <2> QED BY <2>1, <2>2, <2>3 DEF KeepsRows
<1> QED BY <1>1, <1>2, <1>3, TravelPast

\* Rows and the functions they travel with stay together.
LEMMA RowsTravelStep ==
    ASSUME TypeOK, ItemsShow, RowsTravel, ReadsAdapters, Steps
    PROVE  RowsTravel'
<1>1. CASE FillAdapters
  BY <1>1, ListFilled
<1>2. CASE \/ FillDns \/ Drop
           \/ SetEnabled /\ UNCHANGED data
           \/ Ready /\ UNCHANGED data
  BY <1>2, PumpTravels
<1>3. CASE \E w \in Worker : AdaptersRead(w)
  BY <1>3, RowsLeave
<1>4. CASE KeepsRows
  BY <1>4, RowsKept
<1> QED BY <1>1, <1>2, <1>3, <1>4 DEF Steps, KeepsRows, Elsewhere

\* The rows a refresh has read are the adapters', and so are those left behind.
LEMMA ReadsStep == ASSUME ReadsAdapters, Steps PROVE ReadsAdapters'
<1> USE DEF ReadsAdapters
<1>1. CASE \E w \in Worker : \E a \in Adapter : ReadAdapter(w, a)
  <2>1. PICK w \in Worker, a \in Adapter : ReadAdapter(w, a)
    BY <1>1
  <2>2. /\ read' = [v \in Worker |-> IF v = w THEN read'[w] ELSE read[v]]
        /\ DOMAIN read'[w] = DOMAIN read[w] \cup {a}
        /\ behind' = behind \ {a}
    BY <2>1 DEF ReadAdapter
  <2>3. \A v \in Worker : DOMAIN read'[v] \subseteq Adapter
    BY <2>2
  <2>4. read' = [v \in Worker |-> read'[v]]
    BY <2>2
  <2> QED BY <2>2, <2>3, <2>4
<1>2. CASE \E w \in Worker : AdaptersRead(w)
  <2>1. PICK w \in Worker : AdaptersRead(w)
    BY <1>2
  <2>2. /\ read' = [read EXCEPT ![w] = Nothing] /\ behind' = behind
        /\ DOMAIN Nothing = {}
    BY <2>1 DEF AdaptersRead, Nothing
  <2> HIDE DEF Nothing
  <2>3. \A v \in Worker : read'[v] = IF v = w THEN Nothing ELSE read[v]
    BY <2>2
  <2>4. read' = [v \in Worker |-> read'[v]]
    BY <2>2
  <2> QED BY <2>2, <2>3, <2>4
<1>3. CASE \E w \in Worker : Fallback(w) \/ AutoSucceeds(w)
  <2>1. read' = read /\ behind' = behind \cup Changed /\ Changed \subseteq Adapter
    BY <1>3 DEF Fallback, AutoSucceeds, Changed
  <2> QED BY <2>1
<1>4. CASE \/ FillAdapters \/ FillDns \/ Drop \/ ClickAuto \/ ClickSwitch \/ ClickFreshen
           \/ Elsewhere
           \/ \E w \in Worker : JobFails(w) \/ ManualSucceeds(w) \/ JobEnds(w) \/ SwitchClears(w)
  <2>1. read' = read /\ behind' = behind
    BY <1>4 DEF FillAdapters, FillDns, Drop, ClickAuto, ClickSwitch, ClickFreshen, Begin,
                Elsewhere, JobFails, ManualSucceeds, JobEnds, SwitchClears, data
  <2> QED BY <2>1
<1> QED BY <1>1, <1>2, <1>3, <1>4 DEF Steps

\* The new thread at work is the one the click started, whatever else runs.
LEMMA StartedIs ==
    ASSUME TypeOK, NEW k \in JobKind, Spawn(k)
    PROVE  /\ Started \in Worker \ Active
           /\ pc' = [pc EXCEPT ![Started] = "work"]
           /\ kind' = [kind EXCEPT ![Started] = k]
<1>1. PICK v \in Worker \ Active :
        kind' = [kind EXCEPT ![v] = k] /\ pc' = [pc EXCEPT ![v] = "work"]
  BY DEF Spawn
<1>2. pc'[v] = "work" /\ \A w \in Worker \ Active : pc'[w] = "work" => w = v
  BY <1>1 DEF TypeOK, Active
<1>3. Started = v
  BY <1>2 DEF Started
<1> QED BY <1>1, <1>3

\* Only the clicks on the optimisation and on the switch put a thread to a job.
LEMMA JobsKept ==
    ASSUME TypeOK, Steps, ~ ClickAuto, ~ ClickSwitch
    PROVE  \A w \in Worker : AtJob(w)' => AtJob(w) /\ kind'[w] = kind[w]
<1>1. pc \in [Worker -> Place] /\ kind \in [Worker -> JobKind \cup {NoKind}]
  BY DEF TypeOK
\* Threads that return or go on, and new ones, are at no job.
<1>2. ASSUME NEW w \in Worker, ThreadEnds(w) \/ \E p \in Place \ {"work"} : Goto(w, p)
      PROVE  \A v \in Worker : AtJob(v)' => AtJob(v) /\ kind'[v] = kind[v]
  <2>1. \A v \in Worker : IF v = w THEN pc'[v] # "work"
                                   ELSE pc'[v] = pc[v] /\ kind'[v] = kind[v]
    BY <1>1, <1>2 DEF ThreadEnds, Goto
  <2> QED BY <2>1 DEF AtJob
<1>3. CASE \/ FillAdapters \/ FillDns \/ Drop
           \/ \E w \in Worker :
                \/ Fallback(w) \/ JobFails(w) \/ AutoSucceeds(w) \/ ManualSucceeds(w)
                \/ \E a \in Adapter : ReadAdapter(w, a)
  <2>1. UNCHANGED threads
    BY <1>3 DEF FillAdapters, FillDns, Drop, FillList, DropMessage, Fallback, JobFails,
                AutoSucceeds, ManualSucceeds, ReadAdapter, vars
  <2> QED BY <2>1 DEF threads, AtJob
<1>4. CASE ClickFreshen
  <2>1. PICK k \in ListKind : Spawn(k)
    BY <1>4 DEF ClickFreshen, OnFreshen
  <2>2. /\ Started \in Worker
        /\ pc' = [pc EXCEPT ![Started] = "work"]
        /\ kind' = [kind EXCEPT ![Started] = k]
    BY <2>1, StartedIs DEF JobKind
  <2> HIDE DEF Started
  <2>3. \A v \in Worker : IF v = Started THEN kind'[v] = k
                                         ELSE pc'[v] = pc[v] /\ kind'[v] = kind[v]
    BY <1>1, <2>2
  <2> QED BY <2>3 DEF AtJob, ListKind
<1>5. ASSUME NEW w \in Worker, JobEnds(w) \/ AdaptersRead(w) \/ SwitchClears(w)
      PROVE  ThreadEnds(w) \/ \E p \in Place \ {"work"} : Goto(w, p)
  BY <1>5 DEF JobEnds, AutoEnds, SwitchFails, SwitchSucceeds, AdaptersRead, FreshenEnds,
              SwitchClears, ClearList, Place
<1>6. CASE Elsewhere
  <2>1. CASE \/ SetEnabled \/ Ready \/ MessageLoopEnds \/ StartDrag \/ EndDrag \/ Exit
             \/ \E k \in ListKind, i \in Item : OnItemClick(k, i) \/ KeySelect(k, i)
    <3>1. UNCHANGED threads
      BY <2>1 DEF SetEnabled, Ready, MessageLoopEnds, StartDrag, EndDrag, Exit, OnItemClick,
                  KeySelect
    <3> QED BY <3>1 DEF threads, AtJob
  <2>2. ASSUME NEW w \in Worker, InitEnds(w) \/ FreshenEnds(w, "dns") \/ ClearLast(w)
                 \/ ClearMap(w) \/ PostDisable(w) \/ SwitchEnds(w)
        PROVE  ThreadEnds(w) \/ \E p \in Place \ {"work"} : Goto(w, p)
    BY <2>2 DEF InitEnds, FreshenEnds, ClearLast, ClearMap, PostDisable, SwitchEnds, Place
  <2>3. ASSUME NEW w \in Worker, SpawnFreshen(w)
        PROVE  \A v \in Worker : AtJob(v)' => AtJob(v) /\ kind'[v] = kind[v]
    <3>1. PICK u \in Worker :
            /\ kind' = [kind EXCEPT ![u] = "adapter"]
            /\ pc' = [pc EXCEPT ![u] = "work", ![w] = "post_enable"]
      BY <2>3 DEF SpawnFreshen
    <3>2. \A v \in Worker : \/ v = u /\ kind'[v] = "adapter"
                            \/ v = w /\ pc'[v] = "post_enable"
                            \/ pc'[v] = pc[v] /\ kind'[v] = kind[v]
      BY <1>1, <3>1
    <3> QED BY <3>2 DEF AtJob
  <2> QED BY <1>2, <1>6, <2>1, <2>2, <2>3 DEF Elsewhere
<1> QED BY <1>2, <1>3, <1>4, <1>5, <1>6 DEF Steps

\* A thread at a job has that job, also when jobs overlap.
LEMMA JobsFitStep == ASSUME TypeOK, WorkType, JobsFit, Steps PROVE JobsFit'
<1>1. pc \in [Worker -> Place] /\ kind \in [Worker -> JobKind \cup {NoKind}]
  BY DEF TypeOK
<1>2. ASSUME NEW k \in {"auto", "switch"}, NEW j, NEW request, Spawn(k), Begin(j, request),
             j = IF k = "auto" THEN "auto" ELSE "manual"
      PROVE  JobsFit'
  <2>1. /\ Started \in Worker
        /\ pc' = [pc EXCEPT ![Started] = "work"]
        /\ kind' = [kind EXCEPT ![Started] = k]
        /\ work' = [work EXCEPT ![Started] = Work(j, request, "running")]
    BY <1>2, StartedIs DEF Begin, JobKind
  <2> HIDE DEF Started
  <2>2. kind'[Started] = k /\ work'[Started].job = j
    BY <1>1, <2>1 DEF WorkType, Work
  <2>3. \A v \in Worker \ {Started} : pc'[v] = pc[v] /\ kind'[v] = kind[v] /\ work'[v] = work[v]
    BY <1>1, <2>1 DEF WorkType
  <2> QED BY <1>2, <2>2, <2>3 DEF JobsFit, JobFits, AtJob
<1>3. CASE ClickAuto
  BY <1>2, <1>3 DEF ClickAuto, OnAutoDone
<1>4. CASE ClickSwitch
  BY <1>2, <1>4 DEF ClickSwitch, OnSwitchAdapter
<1>5. CASE ~ ClickAuto /\ ~ ClickSwitch
  <2>1. \A v \in Worker : work'[v].job = work[v].job
    <3>1. CASE \E w \in Worker :
                 Fallback(w) \/ JobFails(w) \/ AutoSucceeds(w) \/ ManualSucceeds(w)
      BY <3>1 DEF Fallback, JobFails, AutoSucceeds, ManualSucceeds, WorkType
    <3>2. CASE \/ FillAdapters \/ FillDns \/ Drop \/ ClickFreshen \/ Elsewhere
               \/ \E w \in Worker :
                    \/ JobEnds(w) \/ AdaptersRead(w) \/ SwitchClears(w)
                    \/ \E a \in Adapter : ReadAdapter(w, a)
      <4>1. work' = work
        BY <3>2 DEF FillAdapters, FillDns, Drop, ClickFreshen, Elsewhere, JobEnds, AdaptersRead,
                    SwitchClears, ReadAdapter, data
      <4> QED BY <4>1
    <3> QED BY <1>5, <3>1, <3>2 DEF Steps
  <2> QED BY <1>5, <2>1, JobsKept DEF JobsFit, JobFits
<1> QED BY <1>3, <1>4, <1>5

\* All of it holds at the start and is kept.
LEMMA DataInductive == ProgramSpec => [](ProgramInv /\ DataInv)
<1>1. ProgramInit => DataInv
  <2> SUFFICES ASSUME ProgramInit PROVE DataInv
    OBVIOUS
  <2>1. queue = <<"disable">> /\ list["adapter"] = {} /\ posted = <<>> /\ behind = {}
        /\ \A w \in Worker : pc[w] # "off" => kind[w] = "init"
    BY DEF ProgramInit, Init, ListKind
  <2>2. ItemsShow
    BY <2>1 DEF ItemsShow, ProgramInit, Nothing
  <2>3. RowsTravel
    <3>1. Fills(queue) = {} /\ Cardinality({}) = 0 /\ DOMAIN posted = {}
      BY <2>1, FS_EmptySet DEF Fills
    <3>2. posted \in Seq(Range(posted)) /\ Len(posted) = 0
      BY <2>1, EmptySeq
    <3> QED BY <3>1, <3>2 DEF RowsTravel
  <2>4. ReadsAdapters
    BY <2>1 DEF ReadsAdapters, ProgramInit, Nothing
  <2>5. JobsFit
    BY <2>1 DEF JobsFit, JobFits, AtJob
  <2> QED BY <2>2, <2>3, <2>4, <2>5 DEF DataInv
<1>2. ProgramInv /\ DataInv /\ [ProgramNext]_<<vars, data>> => DataInv'
  <2> SUFFICES ASSUME ProgramInv, DataInv, [ProgramNext]_<<vars, data>> PROVE DataInv'
    OBVIOUS
  <2>1. CASE UNCHANGED <<vars, data>>
    BY <2>1 DEF vars, data, threads, lists, DataInv, ItemsShow, RowsTravel, Fills, ReadsAdapters,
                JobsFit, JobFits, AtJob
  <2>2. CASE Steps
    BY <2>2, ItemsShowStep, RowsTravelStep, ReadsStep, JobsFitStep DEF DataInv, ProgramInv, IInv
  <2> QED BY <2>1, <2>2 DEF ProgramNext
<1> QED BY <1>1, <1>2, ProgramInductive, PTL DEF ProgramSpec

\* Every variable keeps its type, in every run of the window, its threads and their
\* data (ui.cpp:292-482): each item shows a row, each row travels with its function,
\* each thread at a job has its own.
THEOREM ProgramTypesAreRight == ProgramSpec => []ProgramTypeOK
<1>1. ProgramInv /\ DataInv => ProgramTypeOK
  BY DEF ProgramInv, IInv, DataInv, ItemsShow, RowsTravel, Fills, ReadsAdapters, JobsFit, JobFits,
         AtJob, ProgramTypeOK
<1> QED BY <1>1, DataInductive, PTL

(***************************************************************************)
(* The list is true.  Up to the first overlap a refresh works alone, or    *)
(* beside the switch that started it and only has to enable the buttons;   *)
(* from the moment the list is cleared until rows arrive it stays empty,   *)
(* and what has been read cannot become stale, for no job runs meanwhile.  *)
(***************************************************************************)
SwitchAt(w, places) == kind[w] = "switch" /\ pc[w] \in places

Reads(w) == kind[w] = "adapter" /\ pc[w] = "work"

\* Two threads are a switch that is through and its refresh.
Alone ==
    \A v, w \in Worker : pc[v] # "off" /\ pc[w] # "off" =>
        \/ v = w
        \/ SwitchAt(v, {"post_enable"}) /\ Reads(w)
        \/ SwitchAt(w, {"post_enable"}) /\ Reads(v)

\* One function with rows at most, and then no thread but such a switch.
Travelling ==
    /\ Len(posted) <= 1
    /\ posted # <<>> => \A w \in Worker : pc[w] # "off" => SwitchAt(w, {"post_enable"})

\* Rows are read for, and travel to, an empty list.
Emptied ==
    (\/ posted # <<>>
     \/ \E w \in Worker : Reads(w) \/ SwitchAt(w, {"clear_map", "post_disable", "spawn"}))
    => list["adapter"] = {}

IsTrue(a, row) == a \notin behind => row = Columns(adapters[a])

RowsTrue ==
    /\ \A n \in DOMAIN posted : \A a \in DOMAIN posted[n] : IsTrue(a, posted[n][a])
    /\ \A w \in Worker : \A a \in DOMAIN read[w] : Reads(w) /\ IsTrue(a, read[w][a])

EachOnce ==
    \A i, j \in list["adapter"] : shows[i][1] = shows[j][1] => i = j

\* A switch by hand has changed an adapter and is about to clear the list.
Doomed ==
    \E w \in Worker :
        \/ SwitchAt(w, {"work"}) /\ work[w].outcome = "success"
        \/ SwitchAt(w, {"clear_last", "clear_list"})

ShownTrue ==
    ~ Doomed => \A i \in list["adapter"] : IsTrue(shows[i][1], shows[i][2])

ListParts == Alone /\ Travelling /\ Emptied /\ RowsTrue /\ EachOnce /\ ShownTrue

ListInv == ~ overlapped => ListParts

\* A step that touches none of this keeps it.
LEMMA ListUntouched ==
    ASSUME ListParts, UNCHANGED <<kind, pc, posted, read, shows, adapters, behind, work>>,
           list'["adapter"] = list["adapter"]
    PROVE  ListParts'
<1>1. Alone' /\ Travelling' /\ Emptied'
  BY DEF ListParts, Alone, Travelling, Emptied, SwitchAt, Reads
<1>2. RowsTrue' /\ EachOnce'
  BY DEF ListParts, RowsTrue, EachOnce, IsTrue, Columns, Reads
<1>3. ShownTrue'
  BY DEF ListParts, ShownTrue, Doomed, SwitchAt, IsTrue, Columns
<1> QED BY <1>1, <1>2, <1>3 DEF ListParts

\* A thread that is no refresh and has more to do than enable is alone, and no
\* rows are about.
LEMMA LoneThread ==
    ASSUME ListParts, NEW w \in Worker, pc[w] # "off",
           ~ SwitchAt(w, {"post_enable"}), ~ Reads(w)
    PROVE  /\ \A v \in Worker : v # w => pc[v] = "off"
           /\ \A v \in Worker : ~ Reads(v) /\ DOMAIN read[v] = {}
           /\ posted = <<>> /\ DOMAIN posted = {}
<1>1. \A v \in Worker : v # w => pc[v] = "off"
  BY DEF ListParts, Alone
<1>2. \A v \in Worker : ~ Reads(v)
  BY <1>1 DEF Reads
<1>3. \A v \in Worker : DOMAIN read[v] = {}
  BY <1>2 DEF ListParts, RowsTrue
<1>4. posted = <<>>
  BY DEF ListParts, Travelling
<1> QED BY <1>1, <1>2, <1>3, <1>4

\* A thread that posted no rows returns.
LEMMA ListThreadEnds ==
    ASSUME TypeOK, ListParts, NEW w \in Worker, ThreadEnds(w),
           UNCHANGED <<posted, read, shows, adapters, behind, work>>,
           list'["adapter"] = list["adapter"],
           ~ Reads(w), ~ SwitchAt(w, {"clear_last", "clear_list"}),
           ~ (SwitchAt(w, {"work"}) /\ work[w].outcome = "success")
    PROVE  ListParts'
<1>1. /\ pc'[w] = "off"
      /\ \A v \in Worker \ {w} : pc'[v] = pc[v] /\ kind'[v] = kind[v]
  BY DEF TypeOK, ThreadEnds
<1>2. Alone' /\ Travelling' /\ Emptied'
  BY <1>1 DEF ListParts, Alone, Travelling, Emptied, SwitchAt, Reads
<1>3. RowsTrue' /\ EachOnce'
  BY <1>1 DEF ListParts, RowsTrue, EachOnce, IsTrue, Columns, Reads
<1>4. Doomed => Doomed'
  BY <1>1 DEF Doomed, SwitchAt
<1>5. ShownTrue'
  BY <1>4 DEF ListParts, ShownTrue, IsTrue, Columns
<1> QED BY <1>2, <1>3, <1>5 DEF ListParts

\* The switch's own way through OnFreshenAdapterInfo.
LEMMA ListSwitchGoes ==
    ASSUME TypeOK, ListParts, NEW w \in Worker, NEW p \in Place, Goto(w, p),
           pc[w] # "off", kind[w] = "switch", pc[w] # "post_enable",
           UNCHANGED <<posted, read, adapters, behind, work>>,
           \/ list'["adapter"] = {} /\ p \notin {"off", "work", "clear_last", "clear_list"}
           \/ /\ list'["adapter"] = list["adapter"] /\ shows' = shows
              /\ \/ p \in {"clear_last", "clear_list"}
                 \/ pc[w] \in {"clear_map", "post_disable", "spawn"}
    PROVE  ListParts'
<1>1. /\ \A v \in Worker : v # w => pc[v] = "off"
      /\ \A v \in Worker : DOMAIN read[v] = {}
      /\ posted = <<>> /\ DOMAIN posted = {}
  BY LoneThread DEF SwitchAt, Reads
<1>2. /\ pc'[w] = p /\ kind'[w] = "switch"
      /\ \A v \in Worker : v # w => pc'[v] = "off"
  BY <1>1 DEF TypeOK, Goto
<1>3. Alone'
  BY <1>2 DEF Alone
<1>4. CASE list'["adapter"] = {}
  <2>1. posted' = <<>> /\ \A v \in Worker : DOMAIN read'[v] = {}
    BY <1>1
  <2>2. Travelling' /\ Emptied' /\ RowsTrue' /\ EachOnce' /\ ShownTrue'
    BY <1>1, <1>4, <2>1, EmptySeq DEF Travelling, Emptied, RowsTrue, EachOnce, ShownTrue
  <2> QED BY <1>3, <2>2 DEF ListParts
<1>5. CASE /\ list'["adapter"] = list["adapter"] /\ shows' = shows
           /\ p \in {"clear_last", "clear_list"}
  <2>1. Doomed'
    BY <1>2, <1>5 DEF Doomed, SwitchAt
  <2>2. Travelling' /\ RowsTrue'
    BY <1>1, EmptySeq DEF Travelling, RowsTrue
  <2>3. Emptied'
    BY <1>1, <1>2, <1>5 DEF Emptied, SwitchAt, Reads
  <2>4. EachOnce'
    BY <1>5 DEF ListParts, EachOnce
  <2> QED BY <1>3, <2>1, <2>2, <2>3, <2>4 DEF ListParts, ShownTrue
<1>6. CASE /\ list'["adapter"] = list["adapter"]
           /\ pc[w] \in {"clear_map", "post_disable", "spawn"}
  <2>1. list'["adapter"] = {}
    BY <1>6 DEF ListParts, Emptied, SwitchAt
  <2> QED BY <1>4, <2>1
<1> QED BY <1>4, <1>5, <1>6

\* It starts the refresh for the list it has cleared.
LEMMA ListSwitchSpawns ==
    ASSUME TypeOK, ListParts, NEW w \in Worker, SpawnFreshen(w), UNCHANGED data
    PROVE  ListParts'
<1>1. PICK u \in Worker :
        /\ pc[u] = "off"
        /\ kind' = [kind EXCEPT ![u] = "adapter"]
        /\ pc' = [pc EXCEPT ![u] = "work", ![w] = "post_enable"]
  BY DEF SpawnFreshen, Active
<1>2. pc[w] = "spawn" /\ kind[w] = "switch" /\ u # w /\ list' = list
  BY <1>1 DEF SpawnFreshen, At, lists
<1>3. /\ \A v \in Worker : v # w => pc[v] = "off"
      /\ \A v \in Worker : DOMAIN read[v] = {}
      /\ posted = <<>> /\ DOMAIN posted = {}
  BY <1>2, LoneThread DEF SwitchAt, Reads
<1>4. list["adapter"] = {}
  BY <1>2 DEF ListParts, Emptied, SwitchAt
<1>5. \A v \in Worker : pc'[v] = IF v = w THEN "post_enable" ELSE IF v = u THEN "work" ELSE "off"
  BY <1>1, <1>2, <1>3 DEF TypeOK
<1>6. kind'[w] = "switch" /\ kind'[u] = "adapter"
  BY <1>1, <1>2 DEF TypeOK
<1>7. Alone'
  BY <1>5, <1>6 DEF Alone, SwitchAt, Reads
<1>8. posted' = <<>> /\ (\A v \in Worker : DOMAIN read'[v] = {}) /\ list'["adapter"] = {}
  BY <1>2, <1>3, <1>4 DEF data
<1>9. Travelling' /\ Emptied' /\ RowsTrue' /\ EachOnce' /\ ShownTrue'
  BY <1>3, <1>8, EmptySeq DEF Travelling, Emptied, RowsTrue, EachOnce, ShownTrue
<1> QED BY <1>7, <1>9 DEF ListParts

\* An operation starts when no thread runs and nothing is posted.
LEMMA ListStarts ==
    ASSUME TypeOK, WorkType, RowsTravel, ListParts, ~ overlapped,
           ClickAuto \/ ClickSwitch \/ ClickFreshen
    PROVE  ~ overlapped' => ListParts'
<1> SUFFICES ASSUME ~ overlapped' PROVE ListParts'
  OBVIOUS
<1>1. /\ \A w \in Worker : pc[w] = "off"
      /\ queue = <<>> /\ Button
      /\ UNCHANGED <<adapters, read, posted, behind>>
  BY DEF ClickAuto, ClickSwitch, ClickFreshen, Begin, Overlaps, Active, OnAutoDone,
         OnSwitchAdapter, OnFreshen, Button, Input
<1>2. posted = <<>> /\ DOMAIN posted = {}
  <2>1. Fills(queue) = {}
    BY <1>1 DEF Fills
  <2>2. Len(posted) = 0
    BY <2>1, FS_EmptySet DEF RowsTravel
  <2>3. posted = <<>>
    BY <2>2, EmptySeq DEF RowsTravel
  <2> QED BY <2>3
<1>3. \A v \in Worker : DOMAIN read[v] = {}
  BY <1>1 DEF ListParts, RowsTrue, Reads
<1>4. PICK k \in JobKind :
        /\ Spawn(k)
        /\ \/ k \in {"auto", "switch"} /\ work'[Started].outcome # "success"
           \/ k \in ListKind
        /\ \/ list'["adapter"] = list["adapter"] /\ k # "adapter"
           \/ list'["adapter"] = {}
        /\ \A i \in list'["adapter"] : shows'[i] = shows[i]
  <2>1. ASSUME NEW k \in {"auto", "switch"}, NEW j, NEW request, Spawn(k), Begin(j, request),
               UNCHANGED lists
        PROVE  /\ k \in JobKind /\ k # "adapter" /\ work'[Started].outcome # "success"
               /\ list'["adapter"] = list["adapter"] /\ shows' = shows
    <3>1. Started \in Worker /\ k \in JobKind
      BY <2>1, StartedIs DEF JobKind
    <3> HIDE DEF Started
    <3>2. work'[Started] = Work(j, request, "running")
      BY <2>1, <3>1 DEF Begin, WorkType
    <3> QED BY <2>1, <3>1, <3>2 DEF Begin, Work, lists
  <2>2. CASE ClickAuto
    <3>1. Spawn("auto") /\ Begin("auto", NoRequest) /\ UNCHANGED lists
      BY <2>2 DEF ClickAuto, OnAutoDone
    <3> QED BY <2>1, <3>1
  <2>3. CASE ClickSwitch
    <3>1. Spawn("switch") /\ UNCHANGED lists /\ \E request : Begin("manual", request)
      BY <2>3 DEF ClickSwitch, OnSwitchAdapter
    <3> QED BY <2>1, <3>1
  <2>4. CASE ClickFreshen
    <3>1. PICK k \in ListKind : OnFreshen(k)
      BY <2>4 DEF ClickFreshen
    <3>2. /\ k \in JobKind /\ Spawn(k)
          /\ list' = [list EXCEPT ![k] = {}]
          /\ shows' = [i \in list'["adapter"] |-> shows[i]]
      BY <2>4, <3>1 DEF ClickFreshen, OnFreshen, Shown, JobKind
    <3>3. IF k = "adapter" THEN list'["adapter"] = {} ELSE list'["adapter"] = list["adapter"]
      BY <3>2 DEF TypeOK, ListKind
    <3> QED BY <3>2, <3>3
  <2> QED BY <2>2, <2>3, <2>4
<1>5. /\ Started \in Worker
      /\ pc' = [pc EXCEPT ![Started] = "work"]
      /\ kind' = [kind EXCEPT ![Started] = k]
  BY <1>4, StartedIs
<1> HIDE DEF Started
<1>6. /\ kind'[Started] = k /\ pc'[Started] = "work"
      /\ \A v \in Worker : v # Started => pc'[v] = "off"
  BY <1>1, <1>5 DEF TypeOK
<1>7. Alone'
  BY <1>6 DEF Alone
<1>8. posted' = <<>> /\ \A v \in Worker : DOMAIN read'[v] = {}
  BY <1>1, <1>2, <1>3
<1>9. Travelling' /\ RowsTrue'
  BY <1>2, <1>8, EmptySeq DEF Travelling, RowsTrue
<1>10. Emptied'
  <2>1. k = "adapter" => list'["adapter"] = {}
    BY <1>4
  <2> QED BY <1>6, <1>8, <2>1 DEF Emptied, Reads, SwitchAt
<1>11. EachOnce'
  BY <1>4 DEF ListParts, EachOnce
<1>12. ShownTrue'
  <2>1. ~ Doomed
    BY <1>1 DEF Doomed, SwitchAt
  <2>2. \A i \in list'["adapter"] : i \in list["adapter"]
    BY <1>4
  <2> QED BY <1>1, <1>4, <2>1, <2>2 DEF ListParts, ShownTrue, IsTrue, Columns
<1> QED BY <1>7, <1>9, <1>10, <1>11, <1>12 DEF ListParts

\* A job changes the machine: the automatic one leaves the adapter's row behind,
\* the one by hand goes on to clear the list.
LEMMA ListJobWorks ==
    ASSUME TypeOK, WorkType, ItemsShow, ListParts, NEW w \in Worker,
           Fallback(w) \/ JobFails(w) \/ AutoSucceeds(w) \/ ManualSucceeds(w)
    PROVE  ListParts'
<1>1. /\ UNCHANGED <<vars, read, posted, shows>>
      /\ pc[w] = "work" /\ kind[w] \in {"auto", "switch"} /\ work[w].outcome = "running"
  BY DEF Fallback, JobFails, AutoSucceeds, ManualSucceeds, Running, At
<1>2. UNCHANGED <<kind, pc, list>>
  BY <1>1 DEF vars, threads, lists
<1>3. /\ \A v \in Worker : v # w => pc[v] = "off"
      /\ \A v \in Worker : DOMAIN read[v] = {}
      /\ posted = <<>> /\ DOMAIN posted = {}
  BY <1>1, LoneThread DEF SwitchAt, Reads
<1>4. Alone' /\ Travelling' /\ Emptied' /\ EachOnce'
  BY <1>1, <1>2 DEF ListParts, Alone, Travelling, Emptied, EachOnce, SwitchAt, Reads
<1>5. RowsTrue'
  BY <1>1, <1>3 DEF RowsTrue
<1>6. ~ Doomed
  BY <1>1, <1>3 DEF Doomed, SwitchAt
<1>7. CASE Fallback(w) \/ AutoSucceeds(w)
  <2>1. behind' = behind \cup Changed
    BY <1>7 DEF Fallback, AutoSucceeds
  <2>2. ASSUME NEW i \in list["adapter"] PROVE IsTrue(shows[i][1], shows[i][2])'
    <3>1. shows[i][1] \in Adapter /\ IsTrue(shows[i][1], shows[i][2])
      BY <1>6 DEF ListParts, ShownTrue, ItemsShow
    <3> QED BY <1>1, <2>1, <3>1 DEF IsTrue, Columns, Changed
  <2> QED BY <1>1, <1>2, <1>4, <1>5, <2>2 DEF ListParts, ShownTrue
<1>8. CASE JobFails(w)
  <2>1. UNCHANGED <<adapters, behind>>
    BY <1>8 DEF JobFails
  <2>2. ShownTrue'
    BY <1>1, <1>2, <1>6, <2>1 DEF ListParts, ShownTrue, IsTrue, Columns
  <2> QED BY <1>4, <1>5, <2>2 DEF ListParts
<1>9. CASE ManualSucceeds(w)
  <2>1. work'[w].outcome = "success" /\ kind[w] = "switch"
    BY <1>9 DEF ManualSucceeds, WorkType, Running, At
  <2>2. Doomed'
    BY <1>1, <1>2, <2>1 DEF Doomed, SwitchAt
  <2> QED BY <1>4, <1>5, <2>2 DEF ListParts, ShownTrue
<1> QED BY <1>7, <1>8, <1>9

\* A refresh reads an adapter.
LEMMA ListReads ==
    ASSUME TypeOK, ReadsAdapters, ListParts,
           NEW w \in Worker, NEW a \in Adapter, ReadAdapter(w, a)
    PROVE  ListParts'
<1>1. /\ UNCHANGED <<vars, adapters, work, posted, shows>>
      /\ Reads(w)
      /\ behind' = behind \ {a}
  BY DEF ReadAdapter, At, Reads
<1>2. UNCHANGED <<kind, pc, list>>
  BY <1>1 DEF vars, threads, lists
<1>3. posted = <<>> /\ DOMAIN posted = {} /\ list["adapter"] = {}
  <2>1. ~ SwitchAt(w, {"post_enable"}) /\ pc[w] # "off"
    BY <1>1 DEF Reads, SwitchAt
  <2>2. posted = <<>>
    BY <2>1 DEF ListParts, Travelling
  <2> QED BY <1>1, <2>2 DEF ListParts, Emptied
<1>4. /\ \A v \in Worker : v # w => read'[v] = read[v]
      /\ read'[w] = [b \in DOMAIN read[w] \cup {a} |->
                       IF b = a THEN Columns(adapters[a]) ELSE read[w][b]]
  BY DEF ReadAdapter, ReadsAdapters
<1>5. ASSUME NEW v \in Worker, NEW b \in DOMAIN read'[v]
      PROVE  Reads(v)' /\ IsTrue(b, read[v][b])'
  <2>1. CASE v = w
    <3>1. CASE b = a
      BY <1>1, <1>2, <1>4, <2>1, <3>1 DEF IsTrue, Reads, Columns
    <3>2. CASE b # a
      <4>1. b \in DOMAIN read[w] /\ read'[w][b] = read[w][b]
        BY <1>4, <1>5, <2>1, <3>2
      <4>2. IsTrue(b, read[w][b])
        BY <4>1 DEF ListParts, RowsTrue
      <4> QED BY <1>1, <1>2, <2>1, <3>2, <4>1, <4>2 DEF IsTrue, Reads, Columns
    <3> QED BY <3>1, <3>2
  <2>2. CASE v # w
    <3>1. b \in DOMAIN read[v] /\ read'[v][b] = read[v][b]
      BY <1>4, <1>5, <2>2
    <3>2. Reads(v) /\ IsTrue(b, read[v][b])
      BY <3>1 DEF ListParts, RowsTrue
    \* There is no other refresh.
    <3>3. FALSE
      BY <1>1, <2>2, <3>2 DEF ListParts, Alone, Reads, SwitchAt
    <3> QED BY <3>3
  <2> QED BY <2>1, <2>2
<1>6. RowsTrue'
  BY <1>1, <1>3, <1>5 DEF RowsTrue
<1>7. Alone' /\ Travelling' /\ Emptied' /\ EachOnce'
  BY <1>1, <1>2, <1>3 DEF ListParts, Alone, Travelling, Emptied, EachOnce, SwitchAt, Reads
<1>8. ShownTrue'
  BY <1>2, <1>3 DEF ShownTrue
<1> QED BY <1>6, <1>7, <1>8 DEF ListParts

\* A refresh posts what it has read, and its thread returns.
LEMMA ListRowsLeave ==
    ASSUME TypeOK, ReadsAdapters, RowsTravel, ListParts, NEW w \in Worker, AdaptersRead(w)
    PROVE  ListParts'
<1>1. /\ Reads(w) /\ ThreadEnds(w)
      /\ UNCHANGED <<adapters, work, shows, behind, list>>
      /\ read' = [read EXCEPT ![w] = Nothing]
  BY DEF AdaptersRead, FreshenEnds, At, Reads, lists
<1>2. posted = <<>> /\ DOMAIN posted = {} /\ Len(posted) = 0 /\ list["adapter"] = {}
  <2>1. ~ SwitchAt(w, {"post_enable"}) /\ pc[w] # "off"
    BY <1>1 DEF Reads, SwitchAt
  <2>2. posted = <<>>
    BY <2>1 DEF ListParts, Travelling
  <2> QED BY <1>1, <2>2, EmptySeq DEF ListParts, Emptied
<1>3. /\ pc'[w] = "off"
      /\ \A v \in Worker \ {w} : pc'[v] = pc[v] /\ kind'[v] = kind[v]
  BY <1>1 DEF TypeOK, ThreadEnds
<1>4. \A v \in Worker \ {w} : pc[v] # "off" => SwitchAt(v, {"post_enable"})
  BY <1>1 DEF ListParts, Alone, Reads, SwitchAt
<1>5. \A v \in Worker : DOMAIN read'[v] = {}
  <2>1. \A v \in Worker : v # w => ~ Reads(v) /\ read'[v] = read[v]
    BY <1>1, <1>4 DEF Reads, SwitchAt, ReadsAdapters
  <2>2. read'[w] = Nothing /\ DOMAIN Nothing = {}
    BY <1>1 DEF ReadsAdapters, Nothing
  <2>3. \A v \in Worker : v # w => DOMAIN read[v] = {}
    BY <2>1 DEF ListParts, RowsTrue
  <2> HIDE DEF Nothing
  <2> QED BY <2>1, <2>2, <2>3
<1>6. \A v \in Worker : pc'[v] # "off" => SwitchAt(v, {"post_enable"})'
  BY <1>3, <1>4 DEF SwitchAt
<1>7. Alone'
  BY <1>1, <1>3, <1>4 DEF ListParts, Alone, SwitchAt, Reads
<1>8. Travelling'
  <2>1. posted' = posted \/ Len(posted') = Len(posted) + 1
    BY RowsLeave
  <2>2. Len(posted') <= 1
    <3>1. Len(posted') \in {Len(posted), Len(posted) + 1} /\ Len(posted) = 0
      BY <1>2, <2>1
    <3>2. \A m, n : n = 0 /\ m \in {n, n + 1} => m <= 1
      OBVIOUS
    <3> QED BY <3>1, <3>2
  <2> QED BY <1>6, <2>2 DEF Travelling
<1>9. RowsTrue'
  <2>1. ASSUME NEW n \in DOMAIN posted', NEW a \in DOMAIN posted'[n]
        PROVE  IsTrue(a, posted[n][a])'
    <3>1. posted'[n] = read[w]
      BY <1>2, RowsLeave
    <3>2. IsTrue(a, read[w][a])
      BY <2>1, <3>1 DEF ListParts, RowsTrue
    <3> QED BY <1>1, <3>1, <3>2 DEF IsTrue, Columns
  <2> QED BY <1>5, <2>1 DEF RowsTrue
<1>10. Emptied' /\ EachOnce' /\ ShownTrue'
  BY <1>1, <1>2 DEF Emptied, EachOnce, ShownTrue
<1> QED BY <1>7, <1>8, <1>9, <1>10 DEF ListParts

\* The window drops a function, with its rows.
LEMMA ListDrops ==
    ASSUME TypeOK, RowsTravel, ListParts, Drop
    PROVE  ListParts'
<1>1. UNCHANGED <<kind, pc, list, adapters, work, read, shows, behind>>
  BY DEF Drop, DropMessage, threads, lists
<1>2. \A n \in DOMAIN posted' : \E m \in DOMAIN posted : posted'[n] = posted[m]
  BY PumpTravels
<1>3. (posted' # <<>> => posted # <<>>) /\ Len(posted') <= 1
  <2>1. queue \in Seq(Message) /\ queue # <<>> /\ queue' = Tail(queue)
        /\ posted' = IF Head(queue) = "adapter" THEN Tail(posted) ELSE posted
    BY DEF TypeOK, Drop, DropMessage
  <2>2. CASE Head(queue) = "adapter"
    <3>1. posted # <<>> /\ posted' = Tail(posted)
      BY <2>1, <2>2, TravelOn
    <3>2. Len(posted') = Len(posted) - 1 /\ Len(posted) \in Nat
      BY <3>1, TakeRows, LenProperties DEF RowsTravel
    <3> QED BY <3>1, <3>2 DEF ListParts, Travelling
  <2>3. CASE Head(queue) # "adapter"
    BY <2>1, <2>3 DEF ListParts, Travelling
  <2> QED BY <2>2, <2>3
<1>4. Alone' /\ Travelling' /\ Emptied'
  BY <1>1, <1>3 DEF ListParts, Alone, Travelling, Emptied, SwitchAt, Reads
<1>5. RowsTrue'
  <2>1. ASSUME NEW n \in DOMAIN posted', NEW a \in DOMAIN posted'[n]
        PROVE  IsTrue(a, posted[n][a])'
    <3>1. PICK m \in DOMAIN posted : posted'[n] = posted[m]
      BY <1>2
    <3>2. IsTrue(a, posted[m][a])
      BY <2>1, <3>1 DEF ListParts, RowsTrue
    <3> QED BY <1>1, <3>1, <3>2 DEF IsTrue, Columns
  <2>2. \A v \in Worker : \A a \in DOMAIN read'[v] : Reads(v)' /\ IsTrue(a, read[v][a])'
    BY <1>1 DEF ListParts, RowsTrue, Reads, IsTrue, Columns
  <2> QED BY <2>1, <2>2 DEF RowsTrue
<1>6. EachOnce' /\ ShownTrue'
  BY <1>1 DEF ListParts, EachOnce, ShownTrue, Doomed, SwitchAt, IsTrue, Columns
<1> QED BY <1>4, <1>5, <1>6 DEF ListParts

\* The rows arrive.
LEMMA ListFills ==
    ASSUME TypeOK, ItemsShow, RowsTravel, ListParts, FillAdapters
    PROVE  ListParts'
<1>1. UNCHANGED <<kind, pc, adapters, read, behind>>
  BY DEF FillAdapters, FillList, threads
<1>2. /\ posted # <<>> /\ posted' = Tail(posted) /\ 1 \in DOMAIN posted
      /\ DOMAIN posted[1] \subseteq Adapter
      /\ \E new \in SUBSET Item : \E of \in Bijection(new, DOMAIN posted[1]) :
           /\ list'["adapter"] = list["adapter"] \cup new
           /\ \A i \in new : shows'[i] = <<of[i], posted[1][of[i]]>>
  BY ListFilled
<1>3. list["adapter"] = {} /\ \A v \in Worker : pc[v] # "off" => SwitchAt(v, {"post_enable"})
  BY <1>2 DEF ListParts, Emptied, Travelling
<1>4. PICK new \in SUBSET Item : \E of \in Bijection(new, DOMAIN posted[1]) :
           /\ list'["adapter"] = new
           /\ \A i \in new : shows'[i] = <<of[i], posted[1][of[i]]>>
  BY <1>2, <1>3
<1>5. PICK of \in Bijection(new, DOMAIN posted[1]) :
           /\ list'["adapter"] = new
           /\ \A i \in new : shows'[i] = <<of[i], posted[1][of[i]]>>
  BY <1>4
<1>6. /\ of \in [new -> DOMAIN posted[1]]
      /\ \A i, j \in new : of[i] = of[j] => i = j
  BY DEF Bijection, Injection, IsInjective
<1>7. posted' = <<>> /\ DOMAIN posted' = {}
  <2>1. Len(posted') = Len(posted) - 1 /\ Len(posted) \in Nat /\ posted' \in Seq(Range(posted'))
    BY <1>2, TakeRows, LenProperties DEF RowsTravel
  <2>2. Len(posted') \in Nat /\ Len(posted') = 0
    BY <2>1, LenProperties DEF ListParts, Travelling
  <2>3. posted' = <<>>
    BY <2>1, <2>2, EmptySeq
  <2> QED BY <2>3
<1>8. \A v \in Worker : ~ Reads(v) /\ ~ SwitchAt(v, {"clear_map", "post_disable", "spawn"})
  BY <1>3 DEF Reads, SwitchAt
<1>9. Alone' /\ Travelling' /\ Emptied'
  BY <1>1, <1>7, <1>8, EmptySeq DEF ListParts, Alone, Travelling, Emptied, Reads, SwitchAt
<1>10. RowsTrue'
  BY <1>1, <1>7, <1>8 DEF ListParts, RowsTrue
<1>11. EachOnce'
  <2>1. \A j \in new : shows'[j][1] = of[j]
    BY <1>5
  <2> QED BY <1>5, <1>6, <2>1 DEF EachOnce
<1>12. ShownTrue'
  <2>1. ASSUME NEW i \in new PROVE IsTrue(shows[i][1], shows[i][2])'
    <3>1. shows'[i][1] = of[i] /\ shows'[i][2] = posted[1][of[i]] /\ of[i] \in DOMAIN posted[1]
      BY <1>5, <1>6
    <3>2. IsTrue(of[i], posted[1][of[i]])
      BY <1>2, <3>1 DEF ListParts, RowsTrue
    <3> QED BY <1>1, <3>1, <3>2 DEF IsTrue, Columns
  <2> QED BY <1>5, <2>1 DEF ShownTrue
<1> QED BY <1>9, <1>10, <1>11, <1>12 DEF ListParts

\* The threads' other ways: a job is over, or the switch goes on.
LEMMA ListThreads ==
    ASSUME TypeOK, ItemsShow, ListParts, NEW w \in Worker,
           \/ JobEnds(w) \/ SwitchClears(w)
           \/ UNCHANGED data /\ (\/ InitEnds(w) \/ FreshenEnds(w, "dns") \/ ClearLast(w)
                                 \/ ClearMap(w) \/ PostDisable(w) \/ SwitchEnds(w))
    PROVE  ListParts'
<1>1. CASE \/ AutoEnds(w) /\ UNCHANGED data
           \/ SwitchFails(w) /\ work[w].outcome = "failure" /\ UNCHANGED data
           \/ UNCHANGED data /\ (InitEnds(w) \/ FreshenEnds(w, "dns") \/ SwitchEnds(w))
  <2>1. /\ ThreadEnds(w)
        /\ UNCHANGED <<posted, read, shows, adapters, behind, work, list>>
        /\ ~ Reads(w) /\ ~ SwitchAt(w, {"clear_last", "clear_list"})
        /\ ~ (SwitchAt(w, {"work"}) /\ work[w].outcome = "success")
    BY <1>1 DEF AutoEnds, SwitchFails, InitEnds, FreshenEnds, SwitchEnds, At, Reads, SwitchAt,
                data, lists
  <2> QED BY <2>1, ListThreadEnds
<1>2. CASE SwitchClears(w)
  <2>1. /\ Goto(w, "clear_map") /\ pc[w] = "clear_list" /\ kind[w] = "switch"
        /\ UNCHANGED <<posted, read, adapters, behind, work>>
        /\ list'["adapter"] = {}
    BY <1>2 DEF SwitchClears, ClearList, At, TypeOK, ListKind
  <2> QED BY <2>1, ListSwitchGoes DEF Place
<1>3. CASE SwitchSucceeds(w) /\ UNCHANGED data
  <2>1. /\ Goto(w, "clear_last") /\ pc[w] = "work" /\ kind[w] = "switch"
        /\ UNCHANGED <<posted, read, adapters, behind, work, shows, list>>
    BY <1>3 DEF SwitchSucceeds, At, data, lists
  <2> QED BY <2>1, ListSwitchGoes DEF Place
<1>4. CASE UNCHANGED data /\ (ClearLast(w) \/ ClearMap(w) \/ PostDisable(w))
  <2>1. PICK p \in Place :
          /\ Goto(w, p) /\ kind[w] = "switch"
          /\ \/ pc[w] = "clear_last" /\ p = "clear_list"
             \/ pc[w] \in {"clear_map", "post_disable", "spawn"}
    BY <1>4 DEF ClearLast, ClearMap, PostDisable, At, Place
  <2>2. UNCHANGED <<posted, read, adapters, behind, work, shows, list>>
    BY <1>4 DEF ClearLast, ClearMap, PostDisable, data, lists
  <2> QED BY <2>1, <2>2, ListSwitchGoes
<1> QED BY <1>1, <1>2, <1>3, <1>4 DEF JobEnds

\* Every step up to the first overlap keeps the list true.
LEMMA ListStep ==
    ASSUME TypeOK, WorkType, DataInv, ListParts, ~ overlapped, Steps
    PROVE  ~ overlapped' => ListParts'
<1> USE DEF DataInv
<1>1. CASE FillAdapters
  BY <1>1, ListFills
<1>2. CASE Drop
  BY <1>2, ListDrops
<1>3. CASE ClickAuto \/ ClickSwitch \/ ClickFreshen
  BY <1>3, ListStarts
<1>4. ASSUME NEW w \in Worker,
             Fallback(w) \/ JobFails(w) \/ AutoSucceeds(w) \/ ManualSucceeds(w)
      PROVE  ListParts'
  BY <1>4, ListJobWorks
<1>5. ASSUME NEW w \in Worker, AdaptersRead(w) PROVE ListParts'
  BY <1>5, ListRowsLeave
<1>6. ASSUME NEW w \in Worker, NEW a \in Adapter, ReadAdapter(w, a) PROVE ListParts'
  BY <1>6, ListReads
<1>7. ASSUME NEW w \in Worker, JobEnds(w) \/ SwitchClears(w) PROVE ListParts'
  BY <1>7, ListThreads
<1>8. CASE FillDns
  <2>1. UNCHANGED <<kind, pc, posted, read, shows, adapters, behind, work>>
    BY <1>8 DEF FillDns, FillList, data, threads
  <2>2. list'["adapter"] = list["adapter"]
    BY <1>8, ListKept DEF KeepsList
  <2> QED BY <2>1, <2>2, ListUntouched
<1>9. CASE Elsewhere
  <2>1. CASE \/ SetEnabled \/ Ready \/ MessageLoopEnds \/ StartDrag \/ EndDrag \/ Exit
             \/ \E k \in ListKind, i \in Item : OnItemClick(k, i) \/ KeySelect(k, i)
    <3>1. UNCHANGED threads
      BY <2>1 DEF SetEnabled, Ready, MessageLoopEnds, StartDrag, EndDrag, Exit, OnItemClick,
                  KeySelect
    <3>2. UNCHANGED <<kind, pc, posted, read, shows, adapters, behind, work>>
      BY <1>9, <3>1 DEF Elsewhere, data, threads
    <3>3. list'["adapter"] = list["adapter"]
      BY <1>9, ListKept DEF KeepsList
    <3> QED BY <3>2, <3>3, ListUntouched
  <2>2. UNCHANGED data
    BY <1>9 DEF Elsewhere
  <2>3. ASSUME NEW w \in Worker,
               \/ InitEnds(w) \/ FreshenEnds(w, "dns") \/ ClearLast(w)
               \/ ClearMap(w) \/ PostDisable(w) \/ SwitchEnds(w)
        PROVE  ListParts'
    BY <2>2, <2>3, ListThreads
  <2>4. ASSUME NEW w \in Worker, SpawnFreshen(w) PROVE ListParts'
    BY <2>2, <2>4, ListSwitchSpawns
  <2> QED BY <1>9, <2>1, <2>3, <2>4 DEF Elsewhere
<1> QED BY <1>1, <1>2, <1>3, <1>4, <1>5, <1>6, <1>7, <1>8, <1>9 DEF Steps

\* The list is true at the start and stays so.
LEMMA ListInductive == ProgramSpec => []ListInv
<1>1. ProgramInit => ListInv
  <2> SUFFICES ASSUME ProgramInit PROVE ListParts
    BY DEF ListInv
  <2>1. PICK w \in Worker : /\ kind = [v \in Worker |-> IF v = w THEN "init" ELSE NoKind]
                            /\ pc = [v \in Worker |-> IF v = w THEN "work" ELSE "off"]
    BY DEF ProgramInit, Init
  <2>2. Alone
    BY <2>1 DEF Alone
  <2>3. /\ posted = <<>> /\ DOMAIN posted = {} /\ list["adapter"] = {}
        /\ \A v \in Worker : DOMAIN read[v] = {}
    BY DEF ProgramInit, Init, Nothing, ListKind
  <2>4. Travelling /\ Emptied /\ RowsTrue /\ EachOnce /\ ShownTrue
    BY <2>3, EmptySeq DEF Travelling, Emptied, RowsTrue, EachOnce, ShownTrue
  <2> QED BY <2>2, <2>4 DEF ListParts
<1>2. ProgramInv /\ DataInv /\ ListInv /\ [ProgramNext]_<<vars, data>> => ListInv'
  <2> SUFFICES ASSUME ProgramInv, DataInv, ListInv, [ProgramNext]_<<vars, data>>, ~ overlapped'
               PROVE  ListParts'
    BY DEF ListInv
  <2>1. CASE UNCHANGED <<vars, data>>
    <3>1. /\ UNCHANGED <<kind, pc, posted, read, shows, adapters, behind, work>>
          /\ list' = list /\ overlapped' = overlapped
      BY <2>1 DEF vars, data, threads, lists
    <3> QED BY <3>1, ListUntouched DEF ListInv
  <2>2. CASE ProgramNext
    BY <2>2, ListStep DEF ProgramNext, ListInv, ProgramInv, IInv
  <2> QED BY <2>1, <2>2
<1> QED BY <1>1, <1>2, DataInductive, PTL DEF ProgramSpec

\* When nothing runs and nothing is posted, the list has no adapter twice and shows
\* each as the machine has it, unless an automatic job left it behind
\* (ui.cpp:292-482): for any number of threads, items and adapters, whatever part of
\* the adapters a query delivers, up to the first operation started beside another
\* thread.
THEOREM ShownIsTrue == ProgramSpec => []ListIsTrue
<1>1. ListInv => ListIsTrue
  <2> SUFFICES ASSUME ListInv, Active = {}, ~ overlapped, NEW i \in list["adapter"]
               PROVE  /\ \A j \in list["adapter"] : shows[i][1] = shows[j][1] => i = j
                      /\ shows[i][1] \notin behind =>
                           shows[i][2] = Columns(adapters[shows[i][1]])
    BY DEF ListIsTrue
  <2>1. ListParts /\ ~ Doomed
    BY DEF ListInv, Doomed, SwitchAt, Active
  <2>2. IsTrue(shows[i][1], shows[i][2])
    BY <2>1 DEF ListParts, ShownTrue
  <2> QED BY <2>1, <2>2 DEF ListParts, EachOnce, IsTrue
<1> QED BY <1>1, ListInductive, PTL
=============================================================================
