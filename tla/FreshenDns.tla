----------------------------- MODULE FreshenDns -----------------------------
(***************************************************************************)
(* dns_selector::on_freshen_dns_info: fetch the list once, ping every      *)
(* address of every view, and hand the rows to the window sorted by time.  *)
(* It runs in a thread of its own; the other threads of IpFetcher are jobs *)
(* that fetch the list at the same time.                                   *)
(***************************************************************************)
EXTENDS IpFetcher

CONSTANTS
    Freshener,      \* the thread that runs on_freshen_dns_info
    Times,          \* times a ping may report, those of calls nobody answered included
    time_out        \* 9999999

ASSUME FreshenerAssumption == Freshener \in Thread
ASSUME TimesAssumption == time_out \in Nat /\ Times \subseteq Nat

VARIABLES
    pc,         \* where on_freshen_dns_info is
    view,       \* the view it is in
    lost,       \* how far time_out has been counted up in this view
    vec,        \* vec_tp_ping_t_ms_info: what has been measured
    rows        \* res_data._vec_ip_dns_info

freshVars == <<pc, view, lost, vec, rows>>
vars == <<fetchVars, freshVars>>

\* What a row shows: a time, or that the ping timed out.
Shown(ms) == <<ms>>
TimedOut == <<>>
NoView == <<"none", 0>>

map == map_dns_info[Freshener]
Pairs(m) == UNION {{v} \X (DOMAIN m[v]) : v \in DOMAIN m}
Measured == {<<e.view, e.vip>> : e \in vec}
Left(v) == {q[2] : q \in {r \in Pairs(map) \ Measured : r[1] = v}}

Init ==
    /\ FetchInit
    /\ pc = "off" /\ view = NoView /\ lost = 0
    /\ vec = {} /\ rows = <<>>

on_freshen_dns_info ==
    /\ pc = "off"
    /\ fetch(Freshener)
    /\ pc' = "fetching"
    /\ UNCHANGED <<view, lost, vec, rows>>

Fetching == \E t \in Thread : FetchStep(t) /\ UNCHANGED freshVars

\* Mutant of Fetched: the result of the fetch is not looked at.
FetchedUnchecked ==
    /\ pc = "fetching" /\ fpc[Freshener] = "done"
    /\ pc' = "pinging"
    /\ UNCHANGED <<fetchVars, view, lost, vec, rows>>

Fetched ==
    /\ pc = "fetching" /\ fpc[Freshener] = "done"
    /\ pc' = IF res[Freshener] = success THEN "pinging" ELSE "sort"
    /\ UNCHANGED <<fetchVars, view, lost, vec, rows>>

\* The next view, in the map's unspecified order; time_out starts over.
NextView ==
    /\ pc = "pinging"
    /\ Left(view) = {}
    /\ \E v \in DOMAIN map : Left(v) # {} /\ view' = v
    /\ lost' = 0
    /\ UNCHANGED <<fetchVars, pc, vec, rows>>

Entry(v, p, ms, shown) ==
    [view |-> v, vip |-> p, uptime |-> map[v][p], t_ms |-> ms, ping |-> shown]

\* Mutant of Ping: a lost ping keeps the time of a fast one.
PingLostAsZero ==
    /\ pc = "pinging"
    /\ \E p \in Left(view) :
         \/ \E ms \in Times : vec' = vec \cup {Entry(view, p, ms, Shown(ms))} /\ UNCHANGED lost
         \/ vec' = vec \cup {Entry(view, p, 0, TimedOut)} /\ lost' = lost + 1
    /\ UNCHANGED <<fetchVars, pc, view, rows>>

Ping ==
    /\ pc = "pinging"
    /\ \E p \in Left(view) :
         \/ \E ms \in Times : vec' = vec \cup {Entry(view, p, ms, Shown(ms))} /\ UNCHANGED lost
         \/ /\ vec' = vec \cup {Entry(view, p, time_out + lost, TimedOut)}
            /\ lost' = lost + 1
    /\ UNCHANGED <<fetchVars, pc, view, rows>>

PingedAll ==
    /\ pc = "pinging"
    /\ Pairs(map) = Measured
    /\ pc' = "sort"
    /\ UNCHANGED <<fetchVars, view, lost, vec, rows>>

Row(e) == [vip |-> e.vip, uptime |-> e.uptime, ping |-> e.ping]

\* std::sort is not stable: any order of equal times.  Reached on failure too.
Sort ==
    /\ pc = "sort"
    /\ \E s \in SetToSeqs(vec) :
         /\ \A i, j \in DOMAIN s : i < j => s[i].t_ms <= s[j].t_ms
         /\ rows' = [i \in DOMAIN s |-> Row(s[i])]
    /\ pc' = "done"
    /\ UNCHANGED <<fetchVars, view, lost, vec>>

\* The rows go to the window.
Returns ==
    /\ pc = "done" /\ Leave(Freshener)
    /\ pc' = "off"
    /\ view' = NoView /\ lost' = 0 /\ vec' = {} /\ rows' = <<>>

\* Another thread's job fetches the list, and leaves with what it got.
OtherJob(t) ==
    /\ t # Freshener
    /\ fetch(t) \/ Leave(t)
    /\ UNCHANGED freshVars

Step == Fetching \/ Fetched \/ NextView \/ Ping \/ PingedAll \/ Sort \/ Returns

Next == on_freshen_dns_info \/ Step \/ \E t \in Thread : OtherJob(t)

Spec == Init /\ [][Next]_vars

-----------------------------------------------------------------------------
(* Properties.                                                             *)

\* Every variable keeps its type; a measurement is of a pair of the map.
TypeOK ==
    /\ FetchTypeOK
    /\ pc \in {"off", "fetching", "pinging", "sort", "done"}
    /\ view \in Keys \cup {NoView}
    /\ lost \in Nat
    /\ \A e \in vec : <<e.view, e.vip>> \in Pairs(map)

\* The window gets each address of each view once, with its uptime and what its
\* ping gave, answered ones in ascending order.  A lost one is below every answered
\* one but those that report the number of a lost one or more, which only a ping that
\* asked nobody can do (0/0 of Interface.cpp:32, DnsPing's Garbage).
ListShown ==
    pc = "done" /\ res[Freshener] = success =>
        /\ Len(rows) = Cardinality(Pairs(map))
        /\ \A v \in DOMAIN map : \A p \in DOMAIN map[v] :
              \E i \in DOMAIN rows : rows[i].vip = p /\ rows[i].uptime = map[v][p]
        /\ \A i, j \in DOMAIN rows : i < j /\ rows[j].ping # TimedOut =>
              IF rows[i].ping = TimedOut THEN rows[j].ping[1] >= time_out
              ELSE rows[i].ping[1] <= rows[j].ping[1]

\* A failed fetch, even one that threw with half of the answer in the map, shows
\* no row at all.
FailureShowsNothing == pc = "done" /\ res[Freshener] # success => rows = <<>>

\* What on_freshen_dns_info hands to the window: the list, if it has one, else
\* nothing (dns_selector.cpp:320-382).
RowsAreTheList == ListShown /\ FailureShowsNothing
=============================================================================
