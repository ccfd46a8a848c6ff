------------------------------ MODULE Program ------------------------------
(***************************************************************************)
(* The window (Ui), the jobs its threads run (each as DnsJob promises it), *)
(* and the machine whose adapters they read and change.                    *)
(*                                                                         *)
(* Ui says when a thread may run and what it posts; here every step of Ui  *)
(* gets its data: the adapter and address a switch was asked for, the rows *)
(* a refresh has read so far, the rows that travel in a posted function,   *)
(* and the row every item of the adapter list shows.                       *)
(***************************************************************************)
EXTENDS Ui, Functions

CONSTANTS
    Adapter, InitInfos, Dns, DEFAULT_DNS_1, DEFAULT_DNS_2, NoRequest,
    automatic   \* shown for an adapter with DHCP

VARIABLES
    adapters,   \* the machine: DNS configuration per adapter
    work,       \* per thread: its job, what it was asked for, how far it is
    read,       \* per thread: rows on_freshen_adapter_info has read
    posted,     \* rows of the "adapter" functions in queue, in their order
    shows,      \* <<adapter, row>> of each item of the adapter list
    runner,     \* history: thread of the last job that may change the machine
    overlapped, \* history: an operation was started while a thread ran
    behind      \* history: adapters an automatic job changed since they were read

data == <<adapters, work, read, posted, shows, runner, overlapped, behind>>

Job == INSTANCE DnsJob WITH
    Asked <- Dns, job <- work[runner].job, request <- work[runner].request,
    fell <- work[runner].fell, outcome <- work[runner].outcome

Work(job, request, outcome) ==
    [job |-> job, request |-> request, fell |-> FALSE, outcome |-> outcome]

Nothing == [a \in {} |-> a]

-----------------------------------------------------------------------------
ProgramInit ==
    /\ Init
    /\ adapters \in [Adapter -> InitInfos]
    /\ work = [w \in Worker |-> Work("none", NoRequest, "none")]
    /\ read = [w \in Worker |-> Nothing]
    /\ posted = <<>>
    /\ shows = Nothing
    /\ runner \in Worker
    /\ overlapped = FALSE
    /\ behind = {}

\* Items removed from the list are gone.
Shown == shows' = [i \in list'["adapter"] |-> shows[i]]

(* The window thread.                                                      *)

\* One new item per row that came with the function.
FillAdapters ==
    /\ FillList("adapter")
    /\ LET new == list'["adapter"] \ list["adapter"]
           rows == Head(posted) IN
       \E of \in Bijection(new, DOMAIN rows) :
          shows' = [i \in list'["adapter"] |->
                      IF i \in new THEN <<of[i], rows[of[i]]>> ELSE shows[i]]
    /\ posted' = Tail(posted)
    /\ UNCHANGED <<adapters, work, read, runner, overlapped, behind>>

FillDns ==
    /\ FillList("dns")
    /\ UNCHANGED data

\* Mutant of Drop: the rows of the dropped function are left to the next one.
DropFunctionOnly ==
    /\ DropMessage
    /\ UNCHANGED data

Drop ==
    /\ DropMessage
    /\ posted' = IF Head(queue) = "adapter" THEN Tail(posted) ELSE posted
    /\ UNCHANGED <<adapters, work, read, shows, runner, overlapped, behind>>

\* The thread that has been started.
Started == CHOOSE w \in Worker \ Active : pc'[w] = "work"

Overlaps == overlapped' = (overlapped \/ Active # {})

Begin(job, request) ==
    /\ work' = [work EXCEPT ![Started] = Work(job, request, "running")]
    /\ runner' = Started
    /\ Overlaps
    /\ UNCHANGED <<adapters, read, posted, shows, behind>>

ClickAuto ==
    /\ OnAutoDone
    /\ Begin("auto", NoRequest)

\* The adapter is the one the selected item stands for, the address that of the
\* selected DNS item.
ClickSwitch ==
    /\ OnSwitchAdapter
    /\ \E a \in Adapter, ip \in Dns :
         /\ shows[sel["adapter"]][1] = a
         /\ Begin("manual", <<a, ip>>)

ClickFreshen ==
    /\ \E k \in ListKind : OnFreshen(k)
    /\ Shown /\ Overlaps
    /\ UNCHANGED <<adapters, work, read, posted, runner, behind>>

-----------------------------------------------------------------------------
(* The threads.                                                            *)

Running(w, k) == At(w, k, "work") /\ work[w].outcome = "running"

Changed == {a \in Adapter : adapters'[a] # adapters[a]}

Fallback(w) ==
    /\ Running(w, "auto") /\ ~ work[w].fell
    /\ \E a \in Adapter : Job!Set(a, DEFAULT_DNS_1, DEFAULT_DNS_2)
    /\ work' = [work EXCEPT ![w].fell = TRUE]
    /\ behind' = behind \cup Changed
    /\ UNCHANGED <<vars, read, posted, shows, runner, overlapped>>

JobFails(w) ==
    /\ Running(w, "auto") \/ Running(w, "switch")
    /\ work' = [work EXCEPT ![w].outcome = "failure"]
    /\ UNCHANGED <<vars, adapters, read, posted, shows, runner, overlapped, behind>>

AutoSucceeds(w) ==
    /\ Running(w, "auto")
    /\ \E a \in Adapter, d1 \in Dns, d2 \in Dns : Job!Set(a, d1, d2)
    /\ work' = [work EXCEPT ![w].outcome = "success"]
    /\ behind' = behind \cup Changed
    /\ UNCHANGED <<vars, read, posted, shows, runner, overlapped>>

ManualSucceeds(w) ==
    /\ Running(w, "switch")
    /\ \E d2 \in Dns : Job!Set(work[w].request[1], work[w].request[2], d2)
    /\ work' = [work EXCEPT ![w].outcome = "success"]
    /\ UNCHANGED <<vars, read, posted, shows, runner, overlapped, behind>>

JobEnds(w) ==
    /\ \/ AutoEnds(w) /\ work[w].outcome # "running"
       \/ SwitchFails(w) /\ work[w].outcome = "failure"
       \/ SwitchSucceeds(w) /\ work[w].outcome = "success"
    /\ UNCHANGED data

\* The columns on_freshen_adapter_info makes of an adapter's configuration.
Columns(info) ==
    IF info.dhcp THEN <<automatic, automatic>> ELSE <<info.dns_1, info.dns_2>>

\* get_adapter_list reads the adapters one after the other.
ReadAdapter(w, a) ==
    /\ At(w, "adapter", "work") /\ a \notin DOMAIN read[w]
    /\ read' = [read EXCEPT ![w] =
                  [b \in DOMAIN @ \cup {a} |-> IF b = a THEN Columns(adapters[a]) ELSE @[b]]]
    /\ behind' = behind \ {a}
    /\ UNCHANGED <<vars, adapters, work, posted, shows, runner, overlapped>>

\* A query that stops early (Next has failed, or an adapter has left) is a success
\* with the adapters read so far; one that fails posts the enabling alone.
AdaptersRead(w) ==
    /\ FreshenEnds(w, "adapter")
    /\ \/ queue' = Append(queue, "enable") /\ UNCHANGED posted
       \/ queue' = Append(queue, "adapter") /\ posted' = Append(posted, read[w])
    /\ read' = [read EXCEPT ![w] = Nothing]
    /\ UNCHANGED <<adapters, work, shows, runner, overlapped, behind>>

SwitchClears(w) ==
    /\ ClearList(w) /\ Shown
    /\ UNCHANGED <<adapters, work, read, posted, runner, overlapped, behind>>

\* Steps of Ui that touch none of this.
Elsewhere ==
    /\ \/ SetEnabled \/ Ready \/ MessageLoopEnds
       \/ StartDrag \/ EndDrag \/ Exit
       \/ \E k \in ListKind, i \in Item : OnItemClick(k, i) \/ KeySelect(k, i)
       \/ \E w \in Worker :
            \/ InitEnds(w) \/ FreshenEnds(w, "dns")
            \/ ClearLast(w) \/ ClearMap(w)
            \/ PostDisable(w) \/ SpawnFreshen(w) \/ SwitchEnds(w)
    /\ UNCHANGED data

Steps ==
    \/ FillAdapters \/ FillDns \/ Drop
    \/ ClickAuto \/ ClickSwitch \/ ClickFreshen
    \/ \E w \in Worker :
         \/ Fallback(w) \/ JobFails(w) \/ AutoSucceeds(w) \/ ManualSucceeds(w)
         \/ JobEnds(w) \/ AdaptersRead(w) \/ SwitchClears(w)
         \/ \E a \in Adapter : ReadAdapter(w, a)
    \/ Elsewhere

\* Followed up to the first operation that starts beside another thread, which is
\* as far as the properties below speak; what threads and messages do from there
\* is Ui's.
ProgramNext == ~ overlapped /\ Steps

ProgramSpec == ProgramInit /\ [][ProgramNext]_<<vars, data>>

-----------------------------------------------------------------------------
(* Properties.                                                             *)

\* Every variable keeps its type; the rows of a query travel with the function that
\* shows them, none without, and every item of the adapter list shows one.
ProgramTypeOK ==
    /\ TypeOK
    /\ DOMAIN shows = list["adapter"]
    /\ \A i \in list["adapter"] : shows[i][1] \in Adapter
    /\ Len(posted) = Cardinality({n \in DOMAIN queue : queue[n] = "adapter"})
    /\ \A n \in DOMAIN posted : DOMAIN posted[n] \subseteq Adapter
    /\ \A w \in Worker :
         /\ DOMAIN read[w] \subseteq Adapter
         /\ pc[w] = "work" /\ kind[w] = "auto" => work[w].job = "auto"
         /\ pc[w] = "work" /\ kind[w] = "switch" => work[w].job = "manual"
    /\ behind \subseteq Adapter

\* dns_selector never runs two jobs at once, which it could not stand: seen from
\* the machine the program is one DnsJob after the other, a manual one for the
\* adapter and address its click selected - until an OnSwitchAdapter has succeeded.
JobsInTurn == Job!Init /\ [][switched' \/ Job!Next]_(Job!jobVars)

\* When no thread runs and nothing is posted, the adapter list has no adapter twice,
\* and shows the addresses the machine has (or "automatic") for each - whatever was
\* switched by hand, lost in a drag, failed, or left out by a query that stopped
\* early.  Only OnAutoDone leaves the list behind, and only an operation started
\* beside another thread can do worse.  (That every adapter is in the list is not
\* true of the code: see AdaptersRead.)
ListIsTrue ==
    Active = {} /\ queue = <<>> /\ ~ overlapped =>
        \A i \in list["adapter"] :
           /\ \A j \in list["adapter"] : shows[i][1] = shows[j][1] => i = j
           /\ shows[i][1] \notin behind => shows[i][2] = Columns(adapters[shows[i][1]])
=============================================================================
