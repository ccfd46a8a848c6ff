-------------------------- MODULE FreshenDnsProofs --------------------------
(***************************************************************************)
(* Fetching the list of servers and showing it, for any answers and any    *)
(* number of threads: the types; the map of a fetch, which is exact if no  *)
(* other one raced it; the rows the window gets, which are that map; and   *)
(* what a failed fetch leaves behind: nothing in the map of a request that *)
(* may be repeated, and nothing in the window.                             *)
(***************************************************************************)
EXTENDS FreshenDns, FiniteSetTheorems, SequenceTheorems, TLAPS

\* The part of the type of fetch's variables that the proofs need.
FetchTypes ==
    /\ fpc \in [Thread -> Places]
    /\ res \in [Thread -> Results]
    /\ DOMAIN map_dns_info = Thread
    /\ map_dns_info = [t \in Thread |-> map_dns_info[t]]

\* The map is filled from the first view on, and by then the one result that lets
\* the caller repeat the request is out of reach.
NotYetFilled ==
    \A t \in Thread :
        fpc[t] \in {"idle", "request"} \/ (fpc[t] = "done" /\ res[t] = http_fail)
            => map_dns_info[t] = Empty

FetchInv == FetchTypes /\ NotYetFilled

\* HeadError reports one of fetch's results, and never that of a failed request.
LEMMA HeadErrorType == \A r : HeadError(r) \in Results \ {http_fail}
  BY DEF HeadError, Results, success, http_fail, parse_fail, no_status,
         not_success, no_data

\* A return from inside the walk over the answer keeps the invariant.
LEMMA ReturnKeeps ==
    ASSUME FetchInv, NEW t \in Thread, NEW r \in Results, Return(t, r),
           r = http_fail => map_dns_info[t] = Empty
    PROVE  FetchInv'
<1>1. FetchTypes'
  BY DEF FetchInv, FetchTypes, Return, Places
<1>2. NotYetFilled'
  BY DEF FetchInv, FetchTypes, NotYetFilled, Return
<1> QED BY <1>1, <1>2 DEF FetchInv

\* One round over a view keeps the invariant.
LEMMA ItemsKeep ==
    ASSUME FetchInv, NEW t \in Thread, fpc[t] \in {"view", "nameless"},
           NEW name, NEW item, Items(t, name, item)
    PROVE  FetchInv'
<1>1. CASE Return(t, parse_fail)
  <2>1. parse_fail \in Results /\ parse_fail # http_fail
    BY DEF Results, parse_fail, http_fail
  <2> QED BY <1>1, <2>1, ReturnKeeps
<1>2. CASE /\ fpc' = [fpc EXCEPT ![t] = "view"]
           /\ UNCHANGED <<map_dns_info, res>>
  BY <1>2 DEF FetchInv, FetchTypes, NotYetFilled, Places
<1>3. CASE /\ Insert(t, name, item)
           /\ fpc' = [fpc EXCEPT ![t] = "view"]
           /\ res' = res
  <2> DEFINE new == Inserted(map_dns_info[t], name, MapVipUptime(item.info))
  <2>1. map_dns_info' = [map_dns_info EXCEPT ![t] = new]
    BY <1>3 DEF Insert
  <2> HIDE DEF new
  <2> QED BY <1>3, <2>1 DEF FetchInv, FetchTypes, NotYetFilled, Places
<1> QED BY <1>1, <1>2, <1>3 DEF Items

\* Every step of a fetch keeps the invariant.
LEMMA FetchStepKeeps ==
    ASSUME FetchInv, NEW t \in Thread, FetchStep(t)
    PROVE  FetchInv'
<1>1. CASE RequestFails(t)
  <2>1. PICK r \in {http_fail, parse_fail} : Return(t, r)
    BY <1>1 DEF RequestFails
  <2>2. map_dns_info[t] = Empty
    BY <1>1 DEF RequestFails, FetchInv, NotYetFilled
  <2>3. r \in Results
    BY DEF Results
  <2> QED BY <2>1, <2>2, <2>3, ReturnKeeps
<1>2. CASE RequestAnswered(t)
  <2>1. PICK r \in Answer(t) :
          /\ res' = [res EXCEPT ![t] = HeadError(r)]
          /\ fpc' = [fpc EXCEPT ![t] = IF HeadError(r) = success THEN "view" ELSE "done"]
    BY <1>2 DEF RequestAnswered
  <2>2. UNCHANGED map_dns_info
    BY <1>2 DEF RequestAnswered
  <2>3. HeadError(r) \in Results /\ HeadError(r) # http_fail
    BY HeadErrorType
  <2> HIDE DEF success
  <2> QED BY <2>1, <2>2, <2>3 DEF FetchInv, FetchTypes, NotYetFilled, Places
<1>3. CASE ParsedAll(t)
  <2>1. success \in Results /\ success # http_fail
    BY DEF Results, success, http_fail
  <2> QED BY <1>3, <2>1, ReturnKeeps DEF ParsedAll
<1>4. CASE BadName(t)
  <2>1. parse_fail \in Results /\ parse_fail # http_fail
    BY DEF Results, parse_fail, http_fail
  <2> QED BY <1>4, <2>1, ReturnKeeps DEF BadName
<1>5. CASE NamedView(t)
  BY <1>5, ItemsKeep DEF NamedView, More
<1>6. CASE LoadSuffix(t)
  BY <1>6 DEF LoadSuffix, More, FetchInv, FetchTypes, NotYetFilled, Places
<1>7. CASE StoreSuffix(t)
  BY <1>7 DEF StoreSuffix, FetchInv, FetchTypes, NotYetFilled, Places
<1>8. CASE NamelessView(t)
  BY <1>8, ItemsKeep DEF NamelessView
<1> QED BY <1>1, <1>2, <1>3, <1>4, <1>5, <1>6, <1>7, <1>8 DEF FetchStep

\* A new call, and the end of one, keep the invariant.
LEMMA CallKeeps ==
    ASSUME FetchInv, NEW t \in Thread, fetch(t) \/ Leave(t)
    PROVE  FetchInv'
<1>1. CASE fetch(t)
  BY <1>1 DEF fetch, FetchInv, FetchTypes, NotYetFilled, Places
<1>2. CASE Leave(t)
  <2>1. success \in Results
    BY DEF Results
  <2> QED BY <1>2, <2>1 DEF Leave, FetchInv, FetchTypes, NotYetFilled, Places
<1> QED BY <1>1, <1>2

\* Every step of the program is one of fetch, or leaves fetch alone.
LEMMA NextKeepsFetch ==
    ASSUME FetchInv, [Next]_vars
    PROVE  FetchInv'
<1>1. CASE UNCHANGED fetchVars
  BY <1>1 DEF fetchVars, FetchInv, FetchTypes, NotYetFilled
<1>2. CASE on_freshen_dns_info
  BY <1>2, CallKeeps, FreshenerAssumption DEF on_freshen_dns_info
<1>3. CASE Fetching
  BY <1>3, FetchStepKeeps DEF Fetching
<1>4. CASE Returns
  BY <1>4, CallKeeps, FreshenerAssumption DEF Returns
<1>5. ASSUME NEW t \in Thread, OtherJob(t) PROVE FetchInv'
  BY <1>5, CallKeeps DEF OtherJob
<1>6. CASE Fetched \/ NextView \/ Ping \/ PingedAll \/ Sort
  BY <1>1, <1>6 DEF Fetched, NextView, Ping, PingedAll, Sort, fetchVars
<1>7. CASE UNCHANGED vars
  BY <1>1, <1>7 DEF vars
<1> QED BY <1>2, <1>3, <1>4, <1>5, <1>6, <1>7 DEF Next, Step

LEMMA InitFetch == Init => FetchInv
  BY DEF Init, FetchInit, FetchInv, FetchTypes, NotYetFilled, Places, Results,
         success, http_fail

(***************************************************************************)
(* ip_fetcher::fetch may be called again with the same map after a request *)
(* that got no answer, as auto_select_dns does: the map is still empty.    *)
(***************************************************************************)
THEOREM RetriesStartEmpty == Spec => []RetryStartsEmpty
<1>1. FetchInv /\ [Next]_vars => FetchInv'
  BY NextKeepsFetch
<1>2. FetchInv => RetryStartsEmpty
  BY DEF FetchInv, NotYetFilled, RetryStartsEmpty
<1> QED BY InitFetch, <1>1, <1>2, PTL DEF Spec

-----------------------------------------------------------------------------
(* on_freshen_dns_info.                                                    *)

\* Nothing is measured before the fetch has succeeded, and its result stands until
\* on_freshen_dns_info returns.
FreshInv ==
    /\ pc \in {"off", "fetching", "pinging", "sort", "done"}
    /\ pc \in {"off", "fetching"} => vec = {}
    /\ pc \in {"pinging", "sort", "done"} => fpc[Freshener] = "done"
    /\ pc = "pinging" => res[Freshener] = success
    /\ pc = "sort" /\ res[Freshener] # success => vec = {}
    /\ pc = "done" /\ res[Freshener] # success => rows = <<>>

\* Only the sequence <<>> orders the empty set.
LEMMA NoSequenceOfNothing == \A s \in SetToSeqs({}) : DOMAIN s = {}
<1>1. Cardinality({}) = 0
  BY FS_EmptySet
<1> QED BY <1>1 DEF SetToSeqs

\* A thread whose fetch is done takes no step of fetch.
LEMMA DoneStays ==
    ASSUME FetchTypes, NEW t \in Thread, FetchStep(t), NEW u \in Thread, fpc[u] = "done"
    PROVE  fpc'[u] = "done" /\ res'[u] = res[u]
<1>1. fpc[t] \in {"request", "view", "store", "nameless"}
  BY DEF FetchStep, RequestFails, RequestAnswered, ParsedAll, BadName, NamedView,
         LoadSuffix, StoreSuffix, NamelessView, More
<1>2. t # u
  BY <1>1
<1>3. /\ \E p : fpc' = [fpc EXCEPT ![t] = p]
      /\ res' = res \/ \E r : res' = [res EXCEPT ![t] = r]
  BY DEF FetchStep, RequestFails, RequestAnswered, ParsedAll, BadName, NamedView,
         LoadSuffix, StoreSuffix, NamelessView, Items, Return
<1> QED BY <1>2, <1>3 DEF FetchTypes

LEMMA FreshNext ==
    ASSUME FetchInv, FreshInv, [Next]_vars
    PROVE  FreshInv'
<1> USE FreshenerAssumption
<1>1. CASE on_freshen_dns_info
  BY <1>1 DEF on_freshen_dns_info, FreshInv
<1>2. CASE Fetching
  <2>1. PICK t \in Thread : FetchStep(t)
    BY <1>2 DEF Fetching
  <2>2. UNCHANGED freshVars
    BY <1>2 DEF Fetching
  <2>3. CASE pc \in {"off", "fetching"}
    BY <2>2, <2>3 DEF FreshInv, freshVars
  <2>4. CASE pc \in {"pinging", "sort", "done"}
    BY <2>1, <2>2, <2>4, DoneStays DEF FreshInv, FetchInv, freshVars
  <2> QED BY <2>3, <2>4 DEF FreshInv
<1>3. CASE Fetched
  BY <1>3 DEF Fetched, FreshInv, fetchVars
<1>4. CASE NextView \/ Ping
  BY <1>4 DEF NextView, Ping, FreshInv, fetchVars
<1>5. CASE PingedAll
  BY <1>5 DEF PingedAll, FreshInv, fetchVars
<1>6. CASE Sort
  <2>1. pc = "sort" /\ pc' = "done" /\ UNCHANGED fetchVars
    BY <1>6 DEF Sort
  <2>2. PICK s \in SetToSeqs(vec) : rows' = [i \in DOMAIN s |-> Row(s[i])]
    BY <1>6 DEF Sort
  <2>3. vec = {} => rows' = <<>>
    BY <2>2, NoSequenceOfNothing
  <2> QED BY <2>1, <2>3 DEF FreshInv, fetchVars
<1>7. CASE Returns
  BY <1>7 DEF Returns, FreshInv
<1>8. ASSUME NEW t \in Thread, OtherJob(t) PROVE FreshInv'
  <2>1. fpc'[Freshener] = fpc[Freshener] /\ res'[Freshener] = res[Freshener]
    BY <1>8 DEF OtherJob, fetch, Leave, FetchInv, FetchTypes
  <2>2. UNCHANGED freshVars
    BY <1>8 DEF OtherJob
  <2> QED BY <2>1, <2>2 DEF FreshInv, freshVars
<1>9. CASE UNCHANGED vars
  BY <1>9 DEF vars, fetchVars, freshVars, FreshInv
<1> QED BY <1>1, <1>2, <1>3, <1>4, <1>5, <1>6, <1>7, <1>8, <1>9 DEF Next, Step

(***************************************************************************)
(* The window of a failed refresh gets no rows, not even those of an       *)
(* answer that was parsed half way.                                        *)
(***************************************************************************)
THEOREM FailuresShowNothing == Spec => []FailureShowsNothing
<1>1. Init => FetchInv /\ FreshInv
  BY InitFetch DEF Init, FreshInv
<1>2. FetchInv /\ FreshInv /\ [Next]_vars => (FetchInv /\ FreshInv)'
  BY NextKeepsFetch, FreshNext
<1>3. FreshInv => FailureShowsNothing
  BY DEF FreshInv, FailureShowsNothing
<1> QED BY <1>1, <1>2, <1>3, PTL DEF Spec

-----------------------------------------------------------------------------
(* The rows.                                                               *)

\* A sequence of SetToSeqs holds every element of its set, and each once.
LEMMA SeqsAreListings ==
    ASSUME NEW S, IsFiniteSet(S), NEW s \in SetToSeqs(S)
    PROVE  /\ Cardinality(S) \in Nat /\ DOMAIN s = 1 .. Cardinality(S)
           /\ \A i \in DOMAIN s : s[i] \in S
           /\ \A e \in S : \E i \in DOMAIN s : s[i] = e
<1> DEFINE D == 1 .. Cardinality(S)
<1>1. s \in [D -> S] /\ \A i, j \in D : i # j => s[i] # s[j]
  BY DEF SetToSeqs
<1>2. Cardinality(S) \in Nat
  BY FS_CardinalityType
<1>3. Cardinality(D) = Cardinality(S)
  <2> DEFINE c == Cardinality(S)
  <2>1. Cardinality(1 .. c) = IF 1 > c THEN 0 ELSE c - 1 + 1
    BY <1>2, FS_Interval, SMT
  <2>2. c \in Nat
    BY <1>2
  <2> HIDE DEF c
  <2>3. Cardinality(1 .. c) = c
    BY <2>1, <2>2
  <2> QED BY <2>3 DEF c
<1>4. s \in Injection(D, S)
  BY <1>1 DEF Injection, IsInjective
<1>5. s \in Surjection(D, S)
  BY <1>3, <1>4, FS_Injection
<1> QED BY <1>1, <1>2, <1>5 DEF Surjection

\* A function on 1 .. n is a sequence of length n.
LEMMA LengthOfFunction ==
    ASSUME NEW n \in Nat, NEW s, DOMAIN s = 1 .. n, s = [i \in DOMAIN s |-> s[i]]
    PROVE  Len(s) = n
<1> DEFINE R == {s[i] : i \in 1 .. n}
<1>1. s \in [1 .. n -> R]
  OBVIOUS
<1>2. s \in Seq(R)
  BY <1>1, SeqDef
<1> QED BY <1>1, <1>2

Answered(e) == e.t_ms \in Times /\ e.ping = Shown(e.t_ms)
Lost(e) == e.t_ms \in Nat /\ e.t_ms >= time_out /\ e.ping = TimedOut

\* What has been measured: an entry for each pair, once, with the pair's uptime and
\* a time that is shown exactly if the ping was answered.
MeasuredInv ==
    /\ IsFiniteSet(vec)
    /\ \A e \in vec :
         /\ <<e.view, e.vip>> \in Pairs(map) /\ e.uptime = map[e.view][e.vip]
         /\ Answered(e) \/ Lost(e)
    /\ \A d, e \in vec : d.view = e.view /\ d.vip = e.vip => d = e
    /\ lost \in Nat
    /\ pc \in {"sort", "done"} /\ res[Freshener] = success => Pairs(map) = Measured

RowsInv == FetchInv /\ FreshInv /\ MeasuredInv /\ ListShown

\* A thread whose fetch is done keeps its map.
LEMMA MapStays ==
    ASSUME FetchTypes, NEW t \in Thread, FetchStep(t), NEW u \in Thread, fpc[u] = "done"
    PROVE  map_dns_info'[u] = map_dns_info[u]
<1>1. fpc[t] \in {"request", "view", "store", "nameless"}
  BY DEF FetchStep, RequestFails, RequestAnswered, ParsedAll, BadName, NamedView,
         LoadSuffix, StoreSuffix, NamelessView, More
<1>2. t # u
  BY <1>1
<1>3. map_dns_info' = map_dns_info \/ \E m : map_dns_info' = [map_dns_info EXCEPT ![t] = m]
  BY DEF FetchStep, RequestFails, RequestAnswered, ParsedAll, BadName, NamedView,
         LoadSuffix, StoreSuffix, NamelessView, Items, Return, Insert
<1> QED BY <1>2, <1>3 DEF FetchTypes

\* An address left in a view is one of the map's pairs not measured so far.
LEMMA LeftOver ==
    ASSUME NEW v, NEW p \in Left(v)
    PROVE  <<v, p>> \in Pairs(map) /\ <<v, p>> \notin Measured
<1>1. PICK q \in Pairs(map) \ Measured : q[1] = v /\ q[2] = p
  BY DEF Left
<1>2. q = <<q[1], q[2]>>
  BY DEF Pairs
<1> QED BY <1>1, <1>2

\* A ping adds the entry of one pair.
LEMMA PingMeasures ==
    ASSUME MeasuredInv, Ping
    PROVE  MeasuredInv'
<1>1. PICK p \in Left(view) :
         \/ \E ms \in Times : vec' = vec \cup {Entry(view, p, ms, Shown(ms))} /\ UNCHANGED lost
         \/ /\ vec' = vec \cup {Entry(view, p, time_out + lost, TimedOut)}
            /\ lost' = lost + 1
  BY DEF Ping
<1>2. <<view, p>> \in Pairs(map) /\ <<view, p>> \notin Measured
  BY LeftOver
<1>3. PICK e : /\ vec' = vec \cup {e} /\ e.view = view /\ e.vip = p
               /\ e.uptime = map[view][p] /\ (Answered(e) \/ Lost(e))
               /\ lost' \in Nat
  <2>1. ASSUME NEW ms \in Times, vec' = vec \cup {Entry(view, p, ms, Shown(ms))},
               lost' = lost
        PROVE  \E e : /\ vec' = vec \cup {e} /\ e.view = view /\ e.vip = p
                      /\ e.uptime = map[view][p] /\ (Answered(e) \/ Lost(e))
                      /\ lost' \in Nat
    <3> DEFINE new == Entry(view, p, ms, Shown(ms))
    <3>1. new.view = view /\ new.vip = p /\ new.uptime = map[view][p] /\ Answered(new)
      BY DEF Entry, Answered
    <3>2. vec' = vec \cup {new} /\ lost' \in Nat
      BY <2>1 DEF MeasuredInv
    <3> HIDE DEF new
    <3> QED BY <3>1, <3>2
  <2>2. ASSUME vec' = vec \cup {Entry(view, p, time_out + lost, TimedOut)},
               lost' = lost + 1
        PROVE  \E e : /\ vec' = vec \cup {e} /\ e.view = view /\ e.vip = p
                      /\ e.uptime = map[view][p] /\ (Answered(e) \/ Lost(e))
                      /\ lost' \in Nat
    <3> DEFINE new == Entry(view, p, time_out + lost, TimedOut)
    <3>1. lost \in Nat
      BY DEF MeasuredInv
    <3>2. time_out + lost \in Nat /\ time_out + lost >= time_out /\ lost + 1 \in Nat
      BY <3>1, TimesAssumption
    <3>3. new.view = view /\ new.vip = p /\ new.uptime = map[view][p] /\ Lost(new)
      BY <3>2 DEF Entry, Lost
    <3>4. vec' = vec \cup {new} /\ lost' \in Nat
      BY <2>2, <3>2
    <3> HIDE DEF new
    <3> QED BY <3>3, <3>4
  <2> QED BY <1>1, <2>1, <2>2
<1>4. map' = map /\ pc = "pinging" /\ pc' = "pinging"
  BY DEF Ping, map, fetchVars
<1>5. IsFiniteSet(vec')
  BY <1>3, FS_AddElement DEF MeasuredInv
<1>6. \A d \in vec : ~ (d.view = view /\ d.vip = p)
  BY <1>2 DEF Measured
<1> QED BY <1>2, <1>3, <1>4, <1>5, <1>6 DEF MeasuredInv, Answered, Lost

\* Sorted and stripped of its times, what was measured is the list of the window.
LEMMA SortShowsList ==
    ASSUME MeasuredInv, Sort, res[Freshener] = success
    PROVE  ListShown'
<1>1. PICK s \in SetToSeqs(vec) :
          /\ \A i, j \in DOMAIN s : i < j => s[i].t_ms <= s[j].t_ms
          /\ rows' = [i \in DOMAIN s |-> Row(s[i])]
  BY DEF Sort
<1>2. /\ Cardinality(vec) \in Nat /\ DOMAIN s = 1 .. Cardinality(vec)
      /\ \A i \in DOMAIN s : s[i] \in vec
      /\ \A e \in vec : \E i \in DOMAIN s : s[i] = e
  BY SeqsAreListings DEF MeasuredInv
<1>3. map' = map /\ Pairs(map) = Measured
  BY DEF Sort, map, fetchVars, MeasuredInv
<1>4. Len(rows') = Cardinality(Pairs(map))
  <2>1. Len(rows') = Cardinality(vec)
    BY <1>1, <1>2, LengthOfFunction
  <2> DEFINE f == [e \in vec |-> <<e.view, e.vip>>]
  <2>2. f \in Surjection(vec, Measured)
    BY DEF Surjection, Measured
  <2>3. f \in Injection(vec, Measured)
    BY <2>2 DEF Surjection, Injection, IsInjective, MeasuredInv
  <2>4. Cardinality(Measured) = Cardinality(vec)
    BY <2>2, <2>3, FS_Surjection DEF MeasuredInv
  <2> QED BY <1>3, <2>1, <2>4
<1>5. ASSUME NEW v \in DOMAIN map, NEW p \in DOMAIN map[v]
      PROVE  \E i \in DOMAIN rows' : rows'[i].vip = p /\ rows'[i].uptime = map[v][p]
  <2>1. <<v, p>> \in Pairs(map)
    BY DEF Pairs
  <2>2. PICK e \in vec : e.view = v /\ e.vip = p
    BY <1>3, <2>1 DEF Measured
  <2>3. PICK i \in DOMAIN s : s[i] = e
    BY <1>2
  <2> QED BY <1>1, <2>2, <2>3 DEF Row, MeasuredInv
<1>6. ASSUME NEW i \in DOMAIN rows', NEW j \in DOMAIN rows', i < j, rows'[j].ping # TimedOut
      PROVE  IF rows'[i].ping = TimedOut THEN rows'[j].ping[1] >= time_out
             ELSE rows'[i].ping[1] <= rows'[j].ping[1]
  <2>1. /\ s[i] \in vec /\ s[j] \in vec /\ s[i].t_ms <= s[j].t_ms
        /\ rows'[i].ping = s[i].ping /\ rows'[j].ping = s[j].ping
    BY <1>1, <1>2, <1>6 DEF Row
  <2>2. Answered(s[j])
    BY <1>6, <2>1 DEF MeasuredInv, Lost
  <2>3. rows'[j].ping[1] = s[j].t_ms
    BY <2>1, <2>2 DEF Answered, Shown
  <2>4. CASE Answered(s[i])
    <3>1. rows'[i].ping # TimedOut /\ rows'[i].ping[1] = s[i].t_ms
      BY <2>1, <2>4 DEF Answered, Shown, TimedOut
    <3> QED BY <2>1, <2>3, <3>1
  <2>5. CASE Lost(s[i])
    <3>1. s[j].t_ms \in Nat /\ s[i].t_ms \in Nat /\ time_out \in Nat
      BY <2>2, <2>5, TimesAssumption DEF Answered, Lost
    <3>2. rows'[i].ping = TimedOut /\ s[j].t_ms >= time_out
      BY <2>1, <2>5, <3>1 DEF Lost
    <3> QED BY <2>3, <3>2
  <2> QED BY <2>1, <2>4, <2>5 DEF MeasuredInv
<1> QED BY <1>3, <1>4, <1>5, <1>6 DEF ListShown

LEMMA RowsNext ==
    ASSUME RowsInv, FreshInv', [Next]_vars
    PROVE  MeasuredInv' /\ ListShown'
<1> USE FreshenerAssumption DEF RowsInv
<1>1. CASE Ping
  <2>1. pc' = "pinging"
    BY <1>1 DEF Ping
  <2> QED BY <1>1, <2>1, PingMeasures DEF ListShown
<1>2. CASE Sort
  <2>1. /\ pc = "sort" /\ pc' = "done" /\ UNCHANGED <<vec, lost>>
        /\ map' = map /\ res' = res
    BY <1>2 DEF Sort, map, fetchVars
  <2>2. MeasuredInv'
    BY <2>1 DEF MeasuredInv, Measured, Answered, Lost
  <2>3. ListShown'
    <3>1. CASE res[Freshener] = success
      BY <1>2, <3>1, SortShowsList
    <3>2. CASE res[Freshener] # success
      BY <2>1, <3>2 DEF ListShown
    <3> QED BY <3>1, <3>2
  <2> QED BY <2>2, <2>3
<1>3. CASE Returns
  BY <1>3, FS_EmptySet DEF Returns, MeasuredInv, ListShown
<1>4. CASE on_freshen_dns_info \/ Fetched \/ NextView \/ PingedAll
  <2>1. /\ UNCHANGED vec /\ map' = map /\ lost' \in {0, lost} /\ pc' # "done"
        /\ pc' = "sort" /\ res'[Freshener] = success => Pairs(map) = Measured
    BY <1>4 DEF on_freshen_dns_info, Fetched, NextView, PingedAll, fetch, fetchVars, map
  <2> QED BY <2>1 DEF MeasuredInv, ListShown, Measured, Answered, Lost
<1>5. CASE Fetching \/ (\E t \in Thread : OtherJob(t)) \/ UNCHANGED vars
  <2>1. UNCHANGED freshVars
    BY <1>5 DEF Fetching, OtherJob, vars
  <2>2. CASE pc \in {"off", "fetching"}
    <3>1. vec' = {} /\ pc' = pc /\ lost' = lost
      BY <2>1, <2>2 DEF FreshInv, freshVars
    <3> QED BY <2>2, <3>1, FS_EmptySet DEF MeasuredInv, ListShown
  <2>3. CASE pc \in {"pinging", "sort", "done"}
    <3>1. fpc[Freshener] = "done"
      BY <2>3 DEF FreshInv
    <3>2. map' = map /\ res'[Freshener] = res[Freshener]
      <4>1. CASE Fetching
        BY <3>1, <4>1, MapStays, DoneStays DEF Fetching, FetchInv, map
      <4>2. ASSUME NEW t \in Thread, OtherJob(t)
            PROVE  map' = map /\ res'[Freshener] = res[Freshener]
        BY <4>2 DEF OtherJob, fetch, Leave, FetchInv, FetchTypes, map
      <4>3. CASE UNCHANGED vars
        BY <4>3 DEF vars, fetchVars, map
      <4> QED BY <1>5, <4>1, <4>2, <4>3
    <3> QED BY <2>1, <3>2
            DEF freshVars, MeasuredInv, ListShown, Measured, Answered, Lost
  <2> QED BY <2>2, <2>3 DEF FreshInv
<1> QED BY <1>1, <1>2, <1>3, <1>4, <1>5 DEF Next, Step

(***************************************************************************)
(* For any list, any number of views and addresses and any times a ping    *)
(* may report: after a refresh the window shows each address of each view  *)
(* once, with its uptime, the answered ones fastest first and a lost one   *)
(* above none but those that report the number of a lost one or more.      *)
(***************************************************************************)
THEOREM RowsShowTheList == Spec => []RowsAreTheList
<1>1. Init => RowsInv
  BY InitFetch, FS_EmptySet
     DEF Init, RowsInv, FreshInv, MeasuredInv, ListShown
<1>2. RowsInv /\ [Next]_vars => RowsInv'
  BY NextKeepsFetch, FreshNext, RowsNext DEF RowsInv
<1>3. RowsInv => RowsAreTheList
  BY DEF RowsInv, FreshInv, RowsAreTheList, FailureShowsNothing
<1> QED BY <1>1, <1>2, <1>3, PTL DEF Spec

-----------------------------------------------------------------------------
(* map_vip_uptime: what the loop over the items of a view comes to.        *)

\* The least and the greatest of a set of positions.
LEMMA LeastExists ==
    ASSUME NEW S \in SUBSET Nat, S # {}
    PROVE  \E i \in S : \A j \in S : i <= j
<1> DEFINE R == OpToRel(<, Nat)
<1>1. PICK i \in S : \A j \in S : ~ (<<j, i>> \in R)
  BY NatLessThanWellFounded, WFMin
<1>2. \A j \in S : ~ (j < i)
  BY <1>1 DEF OpToRel
<1> QED BY <1>2

LEMMA GreatestExists ==
    ASSUME NEW n \in Nat, NEW S \in SUBSET (1 .. n), S # {}
    PROVE  Max(S) \in S /\ \A j \in S : j <= Max(S)
<1> DEFINE T == {n - i : i \in S}
<1>1. T \in SUBSET Nat /\ T # {}
  <2>1. \A i \in S : n - i \in Nat
    BY SMT
  <2> QED BY <2>1
<1>2. PICK m \in T : \A k \in T : m <= k
  <2> HIDE DEF T
  <2> QED BY <1>1, LeastExists
<1>3. PICK i \in S : m = n - i
  BY <1>2
<1>4. \A j \in S : n - i <= n - j
  BY <1>2, <1>3
<1>5. \A j \in S : i >= j
  BY <1>4, SMT
<1>6. \E x \in S : \A y \in S : x >= y
  BY <1>5
<1>7. Max(S) \in S /\ \A y \in S : Max(S) >= y
  BY <1>6 DEF Max
<1> QED BY <1>7, SMT

\* What a view's items come to, up to a set of positions: the addresses named, each
\* with the uptime beside its first mention.
Named(info, s) == {info[k].vip : k \in s} \ {null}
IsFirst(info, s, p, k) == k \in s /\ info[k].vip = p /\ \A j \in s : info[j].vip = p => k <= j
First(info, s, p) == CHOOSE k \in s : IsFirst(info, s, p, k)
Mentions(info, s) == [p \in Named(info, s) |-> UptimeOf(info[First(info, s, p)])]

\* Every address named has a first mention.
LEMMA FirstIsFirst ==
    ASSUME NEW info, NEW n \in Nat, NEW s \in SUBSET (1 .. n), NEW p \in Named(info, s)
    PROVE  /\ IsFirst(info, s, p, First(info, s, p))
           /\ \A k : IsFirst(info, s, p, k) => k = First(info, s, p)
<1> DEFINE S == {k \in s : info[k].vip = p}
<1>1. S # {} /\ S \in SUBSET Nat
  <2>1. PICK k \in s : info[k].vip = p
    BY DEF Named
  <2>2. k \in S
    BY <2>1
  <2>3. \A i \in S : i \in Nat
    OBVIOUS
  <2> HIDE DEF S
  <2> QED BY <2>2, <2>3
<1>2. PICK k \in S : \A j \in S : k <= j
  <2> HIDE DEF S
  <2> QED BY <1>1, LeastExists
<1>3. \E i \in s : IsFirst(info, s, p, i)
  BY <1>2 DEF IsFirst
<1>4. IsFirst(info, s, p, First(info, s, p))
  BY <1>3 DEF First
<1>5. \A i, j : IsFirst(info, s, p, i) /\ IsFirst(info, s, p, j) => i = j
  <2> SUFFICES ASSUME NEW i, NEW j, IsFirst(info, s, p, i), IsFirst(info, s, p, j)
               PROVE  i = j
    OBVIOUS
  <2>1. i \in Nat /\ j \in Nat /\ i <= j /\ j <= i
    BY DEF IsFirst
  <2> QED BY <2>1
<1> QED BY <1>4, <1>5

\* The item at the greatest position is added last.
LEMMA MentionsGrow ==
    ASSUME NEW info, NEW n \in Nat, NEW s \in SUBSET (1 .. n), NEW i \in s,
           \A j \in s : j <= i
    PROVE  Mentions(info, s) = AddItem(Mentions(info, s \ {i}), info[i])
<1> DEFINE r == s \ {i}
<1>1. \A p \in Named(info, r) : p \in Named(info, s) /\ First(info, s, p) = First(info, r, p)
  <2> SUFFICES ASSUME NEW p \in Named(info, r)
               PROVE  p \in Named(info, s) /\ First(info, s, p) = First(info, r, p)
    OBVIOUS
  <2>1. p \in Named(info, s)
    BY DEF Named
  <2>2. r \in SUBSET (1 .. n)
    OBVIOUS
  <2>3. IsFirst(info, r, p, First(info, r, p))
    <3> HIDE DEF r
    <3> QED BY <2>2, FirstIsFirst
  <2>4. IsFirst(info, s, p, First(info, r, p))
    BY <2>3 DEF IsFirst
  <2> QED BY <2>1, <2>4, FirstIsFirst
<1>2. CASE info[i].vip = null
  <2>1. Named(info, s) = Named(info, r)
    BY <1>2 DEF Named
  <2> QED BY <1>1, <1>2, <2>1 DEF Mentions, AddItem
<1>3. CASE info[i].vip # null
  <2> DEFINE p == info[i].vip
  <2>1. Named(info, s) = Named(info, r) \cup {p}
    BY <1>3 DEF Named
  <2>2. p \notin Named(info, r) => First(info, s, p) = i
    <3> SUFFICES ASSUME p \notin Named(info, r) PROVE First(info, s, p) = i
      OBVIOUS
    <3>1. \A j \in r : info[j].vip # p
      BY <1>3 DEF Named
    <3>2. IsFirst(info, s, p, i)
      BY <3>1 DEF IsFirst
    <3>3. p \in Named(info, s)
      BY <2>1
    <3> QED BY <3>2, <3>3, FirstIsFirst
  <2> DEFINE m == Mentions(info, r)
  <2>3. AddItem(m, info[i]) = Inserted(m, p, UptimeOf(info[i]))
    BY <1>3 DEF AddItem
  <2>4. DOMAIN m = Named(info, r) /\ \A q \in Named(info, r) : m[q] = UptimeOf(info[First(info, r, q)])
    BY DEF Mentions
  <2>5. Inserted(m, p, UptimeOf(info[i])) = [q \in Named(info, s) |-> UptimeOf(info[First(info, s, q)])]
    <3> HIDE DEF m, r
    <3> QED BY <1>1, <2>1, <2>2, <2>4 DEF Inserted
  <2> QED BY <2>3, <2>5 DEF Mentions
<1> QED BY <1>2, <1>3

\* FoldLeft goes back over the items from the last one.
LEMMA FoldIsRecursive ==
    ASSUME NEW info
    PROVE  MapVipUptime(info) =
             (CHOOSE iter : iter = [s \in SUBSET DOMAIN info |->
                 IF s = {} THEN Empty
                 ELSE LET i == Max(s) IN AddItem(iter[s \ {i}], info[i])])[DOMAIN info]
  BY DEF MapVipUptime, FoldLeft, MapThenFoldSet

\* The recursion has a solution, and any solution is Mentions on every prefix.
LEMMA MapIsMentions ==
    ASSUME NEW info, NEW n \in Nat, DOMAIN info = 1 .. n
    PROVE  MapVipUptime(info) = Mentions(info, 1 .. n)
<1> DEFINE D == 1 .. n
           Added(iter, s) == IF s = {} THEN Empty
                            ELSE LET i == Max(s) IN AddItem(iter[s \ {i}], info[i])
           Solves(iter) == iter = [s \in SUBSET D |-> Added(iter, s)]
           G == [s \in SUBSET D |-> Mentions(info, s)]
           F == CHOOSE iter : Solves(iter)
<1>1. Mentions(info, {}) = Empty
  BY DEF Mentions, Named, Empty
<1>2. Solves(G)
  <2>1. ASSUME NEW s \in SUBSET D PROVE Mentions(info, s) = Added(G, s)
    <3>1. CASE s = {}
      BY <1>1, <3>1
    <3>2. CASE s # {}
      <4>1. Max(s) \in s /\ \A j \in s : j <= Max(s)
        BY <3>2, GreatestExists
      <4>2. Mentions(info, s) = AddItem(Mentions(info, s \ {Max(s)}), info[Max(s)])
        BY <4>1, MentionsGrow
      <4>3. G[s \ {Max(s)}] = Mentions(info, s \ {Max(s)})
        OBVIOUS
      <4> QED BY <3>2, <4>2, <4>3
    <3> QED BY <3>1, <3>2
  <2> HIDE DEF Added
  <2> QED BY <2>1
<1>3. Solves(F)
  <2> HIDE DEF Solves, G
  <2> QED BY <1>2
<1>4. \A s \in SUBSET D : F[s] = Added(F, s)
  <2> HIDE DEF F, Added
  <2> QED BY <1>3
<1> HIDE DEF F, G
<1> DEFINE Wrong == {k \in 0 .. n : F[1 .. k] # Mentions(info, 1 .. k)}
<1>5. Wrong = {}
  <2> SUFFICES ASSUME Wrong # {} PROVE FALSE
    OBVIOUS
  <2>1. PICK k \in Wrong : \A j \in Wrong : k <= j
    <3>1. Wrong \in SUBSET Nat
      OBVIOUS
    <3> HIDE DEF Wrong
    <3> QED BY <3>1, LeastExists
  <2>2. CASE k = 0
    <3>1. 1 .. k = {}
      BY <2>2
    <3>2. F[{}] = Empty
      <4>1. {} \in SUBSET D
        OBVIOUS
      <4> QED BY <1>4, <4>1
    <3>3. F[1 .. k] # Mentions(info, 1 .. k)
      BY <2>1
    <3> QED BY <1>1, <3>1, <3>2, <3>3
  <2>3. CASE k # 0
    <3>1. k \in 1 .. n /\ k - 1 \in 0 .. n /\ k - 1 \notin Wrong
      BY <2>1, <2>3
    <3>2. F[1 .. k - 1] = Mentions(info, 1 .. k - 1)
      BY <3>1
    <3>3. (1 .. k) \ {k} = 1 .. k - 1 /\ 1 .. k \in SUBSET D /\ k \in 1 .. k
      BY <3>1
    <3>4. Max(1 .. k) = k
      <4>1. Max(1 .. k) \in 1 .. k /\ \A j \in 1 .. k : j <= Max(1 .. k)
        BY <3>3, GreatestExists
      <4> QED BY <3>1, <3>3, <4>1
    <3>5. F[1 .. k] = AddItem(F[1 .. k - 1], info[k])
      BY <1>4, <3>3, <3>4
    <3>6. Mentions(info, 1 .. k) = AddItem(Mentions(info, 1 .. k - 1), info[k])
      <4>1. \A j \in 1 .. k : j <= k
        BY <3>1
      <4> QED BY <3>3, <4>1, MentionsGrow
    <3> QED BY <2>1, <3>2, <3>5, <3>6
  <2> QED BY <2>2, <2>3
<1>6. F[D] = Mentions(info, D)
  <2>1. n \notin Wrong /\ n \in 0 .. n
    BY <1>5
  <2> QED BY <2>1
<1>7. MapVipUptime(info) = F[D]
  BY FoldIsRecursive DEF F
<1> QED BY <1>6, <1>7

\* The loop over the items of a view that are all readable.
LEMMA MapOfView ==
    ASSUME NEW item, item.info \in Seq(Item), ~ Unreadable(item)
    PROVE  /\ Holds(MapVipUptime(item.info), item)
           /\ DOMAIN MapVipUptime(item.info) \subseteq Vip
           /\ \A p \in DOMAIN MapVipUptime(item.info) :
                MapVipUptime(item.info)[p] \in Uptime \cup {NoUptime}
<1> DEFINE info == item.info
           n == Len(info)
           m == MapVipUptime(info)
<1>1. n \in Nat /\ DOMAIN info = 1 .. n /\ \A k \in 1 .. n : info[k] \in Item
  OBVIOUS
<1>2. m = Mentions(info, 1 .. n)
  BY <1>1, MapIsMentions
<1>3. DOMAIN m = Named(info, 1 .. n)
  BY <1>2 DEF Mentions
<1>4. \A k \in 1 .. n : ~ Throws(info[k])
  BY <1>1 DEF Unreadable
<1>5. ASSUME NEW p \in Named(info, 1 .. n)
      PROVE  \E k \in 1 .. n : /\ IsFirst(info, 1 .. n, p, k)
                               /\ m[p] = UptimeOf(info[k])
  <2>1. IsFirst(info, 1 .. n, p, First(info, 1 .. n, p))
    BY <1>1, FirstIsFirst
  <2>2. m[p] = UptimeOf(info[First(info, 1 .. n, p)])
    BY <1>2 DEF Mentions
  <2> QED BY <2>1, <2>2 DEF IsFirst
<1> HIDE DEF m, n
<1>6. ASSUME NEW p \in DOMAIN m
      PROVE  Says(item, p, m[p]) /\ p \in Vip /\ m[p] \in Uptime \cup {NoUptime}
  <2>1. PICK k \in 1 .. n : IsFirst(info, 1 .. n, p, k) /\ m[p] = UptimeOf(info[k])
    BY <1>3, <1>5, <1>6
  <2>2. info[k].vip = p /\ p # null /\ \A j \in 1 .. k - 1 : info[j].vip # p
    <3>1. info[k].vip = p /\ p # null
      BY <1>3, <1>6, <2>1 DEF IsFirst, Named
    <3>2. \A j \in 1 .. k - 1 : j \in 1 .. n /\ ~ (k <= j)
      BY <1>1, <2>1
    <3> QED BY <2>1, <3>1, <3>2 DEF IsFirst
  <2>3. info[k] \in Item /\ ~ Throws(info[k])
    BY <1>1, <1>4
  <2>4. p \in Vip /\ UptimeOf(info[k]) \in Uptime \cup {NoUptime}
    BY <2>2, <2>3 DEF Item, Throws, UptimeOf
  <2> QED BY <1>1, <2>1, <2>2, <2>4 DEF Says
<1>7. DOMAIN m = {info[k].vip : k \in DOMAIN info} \ {null}
  BY <1>1, <1>3 DEF Named
<1> QED BY <1>6, <1>7 DEF Holds, m

-----------------------------------------------------------------------------
(* Types.                                                                  *)

\* A view_item as the walk over the answer meets it.
Object == ViewItem(Seq(Item))

\* A map from names to maps from addresses to uptimes.
MapOK(m) ==
    /\ DOMAIN m \subseteq Keys
    /\ \A v \in DOMAIN m :
         /\ DOMAIN m[v] \subseteq Vip
         /\ \A p \in DOMAIN m[v] : m[v][p] \in Uptime \cup {NoUptime}

Walking(t) == fpc[t] \in {"view", "store", "nameless"}
Parsed(t) == fpc[t] = "done" /\ res[t] = success

\* Once the head of an answer is found right, its data is an array of objects.
DataOK(t) ==
    /\ resp[t].data \in Seq(Object) /\ Len(resp[t].data) < UINT
    /\ at[t] \in 1 .. Len(resp[t].data) + 1

FetchTypeInv ==
    /\ FetchInv /\ FetchTypeOK
    /\ DOMAIN resp = Thread /\ DOMAIN raced = Thread
    /\ \A t \in Thread : Walking(t) \/ Parsed(t) => DataOK(t)
    /\ \A t \in Thread : fpc[t] \in {"store", "nameless"} => at[t] <= Len(resp[t].data)
    /\ \A t \in Thread : Parsed(t) => at[t] = Len(resp[t].data) + 1

LEMMA NextSuffix == ASSUME NEW s \in 0 .. UINT - 1
                    PROVE  (s + 1) % UINT = IF s + 1 = UINT THEN 0 ELSE s + 1
<1> DEFINE q == (s + 1) \div UINT
           r == (s + 1) % UINT
<1>1. q \in Int /\ r \in 0 .. UINT - 1 /\ s + 1 = UINT * q + r
  BY UintAssumption, SMT
<1>2. q >= 0
  <2>1. q <= -1 => UINT * q <= -UINT
    BY <1>1, UintAssumption, SMT
  <2> HIDE DEF q, r
  <2> QED BY <1>1, <2>1, UintAssumption, SMT
<1>3. q <= 1
  <2>1. q >= 2 => UINT * q >= UINT + UINT
    BY <1>1, UintAssumption, SMT
  <2> HIDE DEF q, r
  <2> QED BY <1>1, <2>1, UintAssumption, SMT
<1>4. q = 0 \/ q = 1
  <2> HIDE DEF q, r
  <2> QED BY <1>1, <1>2, <1>3
<1>5. r = s + 1 \/ r = s + 1 - UINT
  <2> HIDE DEF q, r
  <2>1. UINT * 0 = 0 /\ UINT * 1 = UINT
    BY UintAssumption, SMT
  <2> QED BY <1>1, <1>4, <2>1, UintAssumption, SMT
<1> HIDE DEF r
<1>6. r = IF s + 1 = UINT THEN 0 ELSE s + 1
  BY <1>1, <1>5, UintAssumption, SMT
<1> QED BY <1>6 DEF r

\* The head of an answer is right only if its data is an array.
LEMMA HeadChecksData ==
    ASSUME NEW t \in Thread, NEW r \in Answer(t), HeadError(r) = success
    PROVE  r.data \in Seq(Object) /\ Len(r.data) < UINT
<1>1. r.data \notin {null, bad}
  <2>1. r.data = null => HeadError(r) \in {no_status, parse_fail, not_success, no_data}
    BY DEF HeadError
  <2>2. ASSUME r.data = bad
        PROVE  HeadError(r) \in {no_status, parse_fail, not_success, no_data}
    <3>1. CASE r.status \notin {null, bad, "success"}
      BY <3>1 DEF HeadError
    <3>2. CASE r.status = null
      BY <3>2 DEF HeadError
    <3>3. CASE r.status = bad
      BY <3>3 DEF HeadError
    <3>4. CASE r.status = "success" /\ r.status \notin {null, bad}
      <4>1. CASE r.data = null
        BY <3>4, <4>1 DEF HeadError
      <4>2. CASE r.data # null
        BY <2>2, <3>4, <4>2 DEF HeadError
      <4> QED BY <4>1, <4>2
    <3> QED BY <3>1, <3>2, <3>3, <3>4
  <2> QED BY <2>1, <2>2 DEF success, no_status, parse_fail, not_success, no_data
<1> QED BY <1>1, AnswerAssumption DEF Object

LEMMA ViewAt ==
    ASSUME FetchTypeInv, NEW t \in Thread, More(t) \/ fpc[t] = "nameless"
    PROVE  /\ at[t] \in DOMAIN resp[t].data /\ View(t) \in Object
           /\ at[t] + 1 \in 1 .. Len(resp[t].data) + 1
<1>1. DataOK(t) /\ at[t] <= Len(resp[t].data)
  BY DEF FetchTypeInv, Walking, More
<1> QED BY <1>1 DEF DataOK, View

\* unordered_map::insert of one view.
LEMMA InsertedOK ==
    ASSUME NEW m, MapOK(m), NEW name \in Keys, NEW item \in Object,
           item.info \notin {null, bad}, ~ Unreadable(item)
    PROVE  MapOK(Inserted(m, name, MapVipUptime(item.info)))
<1>1. item.info \in Seq(Item)
  BY DEF Object, ViewItem
<1> DEFINE new == MapVipUptime(item.info)
<1>2. /\ DOMAIN new \subseteq Vip
      /\ \A p \in DOMAIN new : new[p] \in Uptime \cup {NoUptime}
  BY <1>1, MapOfView
<1> HIDE DEF new
<1>3. MapOK(Inserted(m, name, new))
  BY <1>2 DEF MapOK, Inserted
<1> QED BY <1>3 DEF new

\* A step of one thread that leaves the other threads' places alone.
Others(t) ==
    \A u \in Thread \ {t} :
        /\ fpc'[u] = fpc[u] /\ resp'[u] = resp[u] /\ at'[u] = at[u]
        /\ res'[u] = res[u] /\ map_dns_info'[u] = map_dns_info[u]

LEMMA StepLeavesOthers ==
    ASSUME FetchTypeInv, NEW t \in Thread, FetchStep(t) \/ fetch(t) \/ Leave(t)
    PROVE  Others(t)
<1>1. /\ \E x : fpc' = [fpc EXCEPT ![t] = x]
      /\ resp' = resp \/ \E x : resp' = [resp EXCEPT ![t] = x]
      /\ at' = at \/ \E x : at' = [at EXCEPT ![t] = x]
      /\ res' = res \/ \E x : res' = [res EXCEPT ![t] = x]
      /\ map_dns_info' = map_dns_info \/ \E x : map_dns_info' = [map_dns_info EXCEPT ![t] = x]
  BY DEF FetchStep, RequestFails, RequestAnswered, ParsedAll, BadName, NamedView,
         LoadSuffix, StoreSuffix, NamelessView, Items, Return, Insert, fetch, Leave
<1>2. /\ DOMAIN fpc = Thread /\ DOMAIN resp = Thread /\ DOMAIN at = Thread
      /\ DOMAIN res = Thread /\ DOMAIN map_dns_info = Thread
  BY DEF FetchTypeInv, FetchTypeOK, FetchInv, FetchTypes
<1> QED BY <1>1, <1>2 DEF Others

\* One round over the items of a view, under a name that is a key.
LEMMA ItemsTyped ==
    ASSUME FetchTypeInv, NEW t \in Thread, More(t) \/ fpc[t] = "nameless",
           NEW name \in Keys, Items(t, name, View(t))
    PROVE  /\ fpc'[t] \in Places /\ res'[t] \in Results /\ at'[t] \in Nat
           /\ UNCHANGED <<resp, reg, s_suffix, raced>>
           /\ MapOK(map_dns_info'[t])
           /\ \/ fpc'[t] = "view" /\ DataOK(t)'
              \/ fpc'[t] = "done" /\ res'[t] # success
<1> USE DEF FetchTypeInv, FetchTypeOK, FetchInv, FetchTypes
<1>1. /\ at[t] \in DOMAIN resp[t].data /\ View(t) \in Object
      /\ at[t] + 1 \in 1 .. Len(resp[t].data) + 1
  BY ViewAt
<1>2. DataOK(t) /\ MapOK(map_dns_info[t])
  BY DEF Walking, More, MapOK
<1>3. CASE Return(t, parse_fail)
  <2>1. parse_fail \in Results /\ parse_fail # success
    BY DEF Results, parse_fail, success
  <2> QED BY <1>2, <1>3, <2>1 DEF Return, Places
<1>4. CASE /\ fpc' = [fpc EXCEPT ![t] = "view"]
           /\ at' = [at EXCEPT ![t] = @ + 1]
           /\ UNCHANGED <<resp, reg, map_dns_info, res, s_suffix, raced>>
  BY <1>1, <1>2, <1>4 DEF DataOK, Places
<1>5. CASE /\ View(t).info # null /\ ~ Unreadable(View(t))
           /\ Insert(t, name, View(t))
           /\ fpc' = [fpc EXCEPT ![t] = "view"]
           /\ at' = [at EXCEPT ![t] = @ + 1]
           /\ UNCHANGED <<resp, reg, res, s_suffix, raced>>
  <2>1. View(t).info # bad
    BY <1>5 DEF Unreadable
  <2> DEFINE new == Inserted(map_dns_info[t], name, MapVipUptime(View(t).info))
  <2>2. MapOK(new)
    BY <1>1, <1>2, <1>5, <2>1, InsertedOK
  <2>3. map_dns_info'[t] = new
    BY <1>5 DEF Insert
  <2> HIDE DEF new
  <2> QED BY <1>1, <1>2, <1>5, <2>2, <2>3 DEF DataOK, Places
<1> QED BY <1>3, <1>4, <1>5 DEF Items

\* What a step of fetch makes of its own thread's variables and the counter.
OwnTyped(t) ==
    /\ fpc'[t] \in Places /\ res'[t] \in Results /\ at'[t] \in Nat
    /\ reg'[t] \in 0 .. UINT - 1 /\ s_suffix' \in 0 .. UINT - 1
    /\ MapOK(map_dns_info'[t])
    /\ (fpc'[t] \in {"view", "store", "nameless"} \/ (fpc'[t] = "done" /\ res'[t] = success))
         => DataOK(t)'
    /\ fpc'[t] \in {"store", "nameless"} => at'[t] <= Len(resp'[t].data)
    /\ fpc'[t] = "done" /\ res'[t] = success => at'[t] = Len(resp'[t].data) + 1

LEMMA StepTyped ==
    ASSUME FetchTypeInv, NEW t \in Thread, FetchStep(t) \/ fetch(t) \/ Leave(t)
    PROVE  OwnTyped(t)
<1> USE DEF FetchTypeInv, FetchTypeOK, FetchInv, FetchTypes
<1>1. MapOK(map_dns_info[t])
  BY DEF MapOK
<1>2. CASE fetch(t)
  BY <1>1, <1>2 DEF fetch, OwnTyped, Places
<1>3. CASE Leave(t)
  <2>1. MapOK(Empty)
    BY DEF MapOK, Empty
  <2>2. success \in Results /\ 0 \in 0 .. UINT - 1
    BY UintAssumption DEF Results
  <2> QED BY <1>3, <2>1, <2>2 DEF Leave, OwnTyped, Places
<1>4. CASE RequestFails(t)
  <2>1. PICK r \in {http_fail, parse_fail} : Return(t, r)
    BY <1>4 DEF RequestFails
  <2>2. r \in Results /\ r # success
    BY DEF Results, http_fail, parse_fail, success
  <2> QED BY <1>1, <2>1, <2>2 DEF Return, OwnTyped, Places
<1>5. CASE RequestAnswered(t)
  <2>1. PICK r \in Answer(t) :
         /\ resp' = [resp EXCEPT ![t] = r]
         /\ res' = [res EXCEPT ![t] = HeadError(r)]
         /\ fpc' = [fpc EXCEPT ![t] = IF HeadError(r) = success THEN "view" ELSE "done"]
    BY <1>5 DEF RequestAnswered
  <2>2. at' = [at EXCEPT ![t] = 1] /\ UNCHANGED <<reg, map_dns_info, s_suffix, raced>>
    BY <1>5 DEF RequestAnswered
  <2>3. HeadError(r) \in Results
    BY HeadErrorType
  <2>4. CASE HeadError(r) = success
    <3>1. r.data \in Seq(Object) /\ Len(r.data) < UINT
      BY <2>4, HeadChecksData
    <3>2. 1 \in 1 .. Len(r.data) + 1
      BY <3>1
    <3> QED BY <1>1, <2>1, <2>2, <2>3, <2>4, <3>1, <3>2 DEF OwnTyped, DataOK, Places
  <2>5. CASE HeadError(r) # success
    BY <1>1, <2>1, <2>2, <2>3, <2>5 DEF OwnTyped, Places
  <2> QED BY <2>4, <2>5
<1>6. CASE ParsedAll(t)
  <2>1. DataOK(t) /\ at[t] = Len(resp[t].data) + 1
    <3>1. DataOK(t) /\ at[t] > Len(resp[t].data)
      BY <1>6 DEF ParsedAll, Walking
    <3>2. Len(resp[t].data) \in Nat /\ at[t] \in 1 .. Len(resp[t].data) + 1
      BY <3>1 DEF DataOK
    <3> QED BY <3>1, <3>2
  <2>2. success \in Results
    BY DEF Results
  <2> QED BY <1>1, <1>6, <2>1, <2>2 DEF ParsedAll, Return, OwnTyped, Places, DataOK
<1>7. CASE BadName(t)
  <2>1. parse_fail \in Results /\ parse_fail # success
    BY DEF Results, parse_fail, success
  <2> QED BY <1>1, <1>7, <2>1 DEF BadName, Return, OwnTyped, Places
<1>8. CASE NamedView(t)
  <2>1. More(t) /\ View(t).view_name \in Keys /\ Items(t, View(t).view_name, View(t))
    BY <1>8 DEF NamedView, Keys
  <2> QED BY <2>1, ItemsTyped DEF OwnTyped
<1>9. CASE LoadSuffix(t)
  <2>1. (s_suffix + 1) % UINT \in 0 .. UINT - 1
    BY UintAssumption, SMT
  <2>2. DataOK(t) /\ at[t] <= Len(resp[t].data)
    BY <1>9 DEF LoadSuffix, More, Walking
  <2> QED BY <1>1, <1>9, <2>1, <2>2 DEF LoadSuffix, OwnTyped, Places, DataOK
<1>10. CASE StoreSuffix(t)
  <2>1. DataOK(t) /\ at[t] <= Len(resp[t].data)
    BY <1>10 DEF StoreSuffix, Walking
  <2> QED BY <1>1, <1>10, <2>1 DEF StoreSuffix, OwnTyped, Places, DataOK
<1>11. CASE NamelessView(t)
  <2>1. PICK k \in {reg[t], s_suffix} : Items(t, unknow(k), View(t))
    BY <1>11 DEF NamelessView
  <2>2. unknow(k) \in Keys
    BY DEF Keys, Generated
  <2> HIDE DEF Keys
  <2> QED BY <1>11, <2>1, <2>2, ItemsTyped DEF OwnTyped, NamelessView
<1> QED BY <1>2, <1>3, <1>4, <1>5, <1>6, <1>7, <1>8, <1>9, <1>10, <1>11 DEF FetchStep

LEMMA RacedType ==
    ASSUME FetchTypeInv, NEW t \in Thread, FetchStep(t) \/ fetch(t) \/ Leave(t)
    PROVE  /\ raced' \in [Thread -> BOOLEAN] /\ DOMAIN resp' = Thread
           /\ at' \in [Thread -> Nat] /\ reg' \in [Thread -> 0 .. UINT - 1]
<1> USE DEF FetchTypeInv, FetchTypeOK
<1>1. raced' = raced \/ StoreSuffix(t) \/ raced' = [raced EXCEPT ![t] = FALSE]
  BY DEF FetchStep, RequestFails, RequestAnswered, ParsedAll, BadName, NamedView,
         LoadSuffix, NamelessView, Items, Return, fetch, Leave
<1>2. raced' \in [Thread -> BOOLEAN]
  BY <1>1 DEF StoreSuffix
<1>3. /\ resp' = resp \/ \E x : resp' = [resp EXCEPT ![t] = x]
      /\ at' = at \/ \E x : at' = [at EXCEPT ![t] = x]
      /\ reg' = reg \/ \E x : reg' = [reg EXCEPT ![t] = x]
  BY DEF FetchStep, RequestFails, RequestAnswered, ParsedAll, BadName, NamedView,
         LoadSuffix, StoreSuffix, NamelessView, Items, Return, Insert, fetch, Leave
<1>4. at'[t] \in Nat /\ reg'[t] \in 0 .. UINT - 1
  BY StepTyped DEF OwnTyped
<1>5. DOMAIN resp' = Thread
  BY <1>3
<1>6. at' \in [Thread -> Nat]
  BY <1>3, <1>4
<1>7. reg' \in [Thread -> 0 .. UINT - 1]
  BY <1>3, <1>4
<1> QED BY <1>2, <1>5, <1>6, <1>7

LEMMA StepKeepsTypes ==
    ASSUME FetchTypeInv, NEW t \in Thread, FetchStep(t) \/ fetch(t) \/ Leave(t)
    PROVE  FetchTypeInv'
<1>1. FetchInv'
  BY FetchStepKeeps, CallKeeps DEF FetchTypeInv
<1>2. OwnTyped(t) /\ Others(t)
  BY StepTyped, StepLeavesOthers
<1>3. FetchTypeOK'
  <2>1. \A u \in Thread : MapOK(map_dns_info'[u])
    BY <1>2 DEF OwnTyped, Others, FetchTypeInv, FetchTypeOK, MapOK
  <2>2. s_suffix' \in 0 .. UINT - 1
    BY <1>2 DEF OwnTyped
  <2> QED BY <1>1, <2>1, <2>2, RacedType DEF FetchTypeOK, FetchInv, FetchTypes, MapOK
<1>4. ASSUME NEW u \in Thread
      PROVE  /\ (Walking(u) \/ Parsed(u))' => DataOK(u)'
             /\ fpc'[u] \in {"store", "nameless"} => at'[u] <= Len(resp'[u].data)
             /\ Parsed(u)' => at'[u] = Len(resp'[u].data) + 1
  <2>1. CASE u = t
    BY <1>2, <2>1 DEF OwnTyped, Walking, Parsed, DataOK
  <2>2. CASE u # t
    BY <1>2, <2>2 DEF Others, Walking, Parsed, DataOK, FetchTypeInv
  <2> QED BY <2>1, <2>2
<1> QED BY <1>1, <1>3, <1>4, RacedType DEF FetchTypeInv

LEMMA InitFetchTypes == Init => FetchTypeInv
<1> SUFFICES ASSUME Init PROVE FetchTypeInv
  OBVIOUS
<1>1. FetchInv
  BY InitFetch
<1>2. FetchTypeOK
  <2>1. 0 \in 0 .. UINT - 1 /\ success \in Results
    BY UintAssumption DEF Results
  <2>2. DOMAIN Empty = {}
    BY DEF Empty
  <2> QED BY <2>1, <2>2 DEF Init, FetchInit, FetchTypeOK, Places
<1> QED BY <1>1, <1>2 DEF Init, FetchInit, FetchTypeInv, Walking, Parsed

\* Every step is one of a thread in fetch, or leaves fetch alone.
LEMMA FetchOrNot ==
    ASSUME [Next]_vars
    PROVE  \/ UNCHANGED fetchVars
           \/ \E t \in Thread : FetchStep(t) \/ fetch(t) \/ Leave(t)
BY FreshenerAssumption DEF Next, Step, vars, on_freshen_dns_info, Fetching, Fetched, NextView,
     Ping, PingedAll, Sort, Returns, OtherJob

LEMMA NextKeepsTypes ==
    ASSUME FetchTypeInv, [Next]_vars
    PROVE  FetchTypeInv'
<1>1. CASE UNCHANGED fetchVars
  BY <1>1 DEF fetchVars, FetchTypeInv, FetchTypeOK, FetchInv, FetchTypes, NotYetFilled,
              Walking, Parsed, DataOK
<1> QED BY <1>1, FetchOrNot, StepKeepsTypes

ViewInv == view \in Keys \cup {NoView}

(***************************************************************************)
(* Every variable keeps its type, for any answers: views are kept under a  *)
(* name of the service or a generated one, and maps hold strings, because  *)
(* every null was replaced and every ill-typed member threw.               *)
(***************************************************************************)
THEOREM TypesAreRight == Spec => []TypeOK
<1>1. Init => FetchTypeInv /\ RowsInv /\ ViewInv
  BY InitFetch, InitFetchTypes, FS_EmptySet
     DEF Init, RowsInv, FreshInv, MeasuredInv, ListShown, ViewInv
<1>2. FetchTypeInv /\ RowsInv /\ ViewInv /\ [Next]_vars => (FetchTypeInv /\ RowsInv /\ ViewInv)'
  <2> SUFFICES ASSUME FetchTypeInv, RowsInv, ViewInv, [Next]_vars
               PROVE  FetchTypeInv' /\ RowsInv' /\ ViewInv'
    OBVIOUS
  <2>1. FetchTypeInv' /\ RowsInv'
    BY NextKeepsTypes, NextKeepsFetch, FreshNext, RowsNext DEF RowsInv
  <2>2. view' \in (DOMAIN map) \cup {view, NoView}
    BY DEF Next, Step, vars, freshVars, on_freshen_dns_info, Fetching, Fetched, NextView,
           Ping, PingedAll, Sort, Returns, OtherJob
  <2>3. DOMAIN map \subseteq Keys
    BY FreshenerAssumption DEF FetchTypeInv, FetchTypeOK, map
  <2> QED BY <2>1, <2>2, <2>3 DEF ViewInv
<1>3. FetchTypeInv /\ RowsInv /\ ViewInv => TypeOK
  BY DEF FetchTypeInv, RowsInv, FreshInv, MeasuredInv, ViewInv, TypeOK
<1> QED BY <1>1, <1>2, <1>3, PTL DEF Spec

-----------------------------------------------------------------------------
(* The list.                                                               *)

\* The suffix that was given out d increments before s.
Back(s, d) == IF s >= d THEN s - d ELSE s + UINT - d

LEMMA BackSteps ==
    ASSUME NEW s \in 0 .. UINT - 1, NEW d \in 0 .. UINT - 1
    PROVE  /\ Back(s, d) \in 0 .. UINT - 1
           /\ d # 0 => Back(s, d) # s
           /\ d = 0 => Back(s, d) = s
           /\ Back((s + 1) % UINT, d + 1) = Back(s, d)
<1>1. (s + 1) % UINT = IF s + 1 = UINT THEN 0 ELSE s + 1
  BY NextSuffix
<1>2. UINT \in Nat
  BY UintAssumption
<1>3. Back(s, d) \in 0 .. UINT - 1 /\ (d # 0 => Back(s, d) # s) /\ (d = 0 => Back(s, d) = s)
  BY <1>2 DEF Back
<1>4. Back(IF s + 1 = UINT THEN 0 ELSE s + 1, d + 1) = Back(s, d)
  BY <1>2 DEF Back
<1> QED BY <1>1, <1>3, <1>4

\* The views of an answer that count, before position n.
Counted(data, n) == {k \in DOMAIN data : k < n /\ Counts(data, k)}

\* Every counted view has a key of its own in the map: its name or, for want of
\* one, a generated one out of S.
Walk(data, n, m, S) ==
    \E key \in [Counted(data, n) -> Keys] :
        /\ \A j, k \in Counted(data, n) : key[j] = key[k] => j = k
        /\ DOMAIN m = {key[k] : k \in Counted(data, n)}
        /\ \A k \in Counted(data, n) :
             /\ Holds(m[key[k]], data[k])
             /\ IF data[k].view_name = null THEN key[k] \in S
                                            ELSE key[k] = data[k].view_name

NoClash(data) == \A k \in DOMAIN data : data[k].view_name \notin Generated

LEMMA WalkStarts ==
    ASSUME NEW data \in Seq(Object), NEW S
    PROVE  Walk(data, 1, Empty, S)
<1>1. Counted(data, 1) = {}
  BY DEF Counted
<1>2. DOMAIN Empty = {}
  BY DEF Empty
<1> DEFINE key == [k \in Counted(data, 1) |-> unknow(0)]
<1>3. key \in [Counted(data, 1) -> Keys]
  BY <1>1
<1> HIDE DEF key
<1> QED BY <1>1, <1>2, <1>3 DEF Walk

LEMMA WalkWidens ==
    ASSUME NEW data, NEW n, NEW m, NEW S, NEW T, Walk(data, n, m, S), S \subseteq T
    PROVE  Walk(data, n, m, T)
BY DEF Walk

\* A view without items, or one whose name was taken, adds nothing.
LEMMA WalkPasses ==
    ASSUME NEW data \in Seq(Object), NEW n \in DOMAIN data, NEW m, NEW S, Walk(data, n, m, S),
           ~ Counts(data, n), NEW w, DOMAIN w = DOMAIN m, \A k \in DOMAIN m : w[k] = m[k]
    PROVE  Walk(data, n + 1, w, S)
<1>1. Counted(data, n + 1) = Counted(data, n)
  BY DEF Counted
<1> DEFINE C == Counted(data, n)
<1>2. PICK key \in [C -> Keys] :
        /\ \A j, k \in C : key[j] = key[k] => j = k
        /\ DOMAIN m = {key[k] : k \in C}
        /\ \A k \in C :
             /\ Holds(m[key[k]], data[k])
             /\ IF data[k].view_name = null THEN key[k] \in S ELSE key[k] = data[k].view_name
  BY DEF Walk
<1>3. \A k \in C : w[key[k]] = m[key[k]]
  BY <1>2
<1> HIDE DEF C
<1>4. \A k \in C :
        /\ Holds(w[key[k]], data[k])
        /\ IF data[k].view_name = null THEN key[k] \in S ELSE key[k] = data[k].view_name
  BY <1>2, <1>3
<1>5. Walk(data, n, w, S)
  BY <1>2, <1>4 DEF Walk, C
<1> QED BY <1>1, <1>5 DEF Walk

\* A counted view under a new key.
LEMMA WalkAdds ==
    ASSUME NEW data \in Seq(Object), NEW n \in DOMAIN data, NEW m, NEW S, Walk(data, n, m, S),
           Counts(data, n), NEW name \in Keys, name \notin DOMAIN m,
           NEW new, Holds(new, data[n]), NEW T, S \subseteq T,
           IF data[n].view_name = null THEN name \in T ELSE name = data[n].view_name
    PROVE  Walk(data, n + 1, Inserted(m, name, new), T)
<1> DEFINE C == Counted(data, n)
           D == Counted(data, n + 1)
           w == Inserted(m, name, new)
<1>1. PICK key \in [C -> Keys] :
        /\ \A j, k \in C : key[j] = key[k] => j = k
        /\ DOMAIN m = {key[k] : k \in C}
        /\ \A k \in C :
             /\ Holds(m[key[k]], data[k])
             /\ IF data[k].view_name = null THEN key[k] \in S ELSE key[k] = data[k].view_name
  BY DEF Walk
<1>2. D = C \cup {n} /\ n \notin C
  BY DEF Counted
<1>3. DOMAIN w = (DOMAIN m) \cup {name} /\ w[name] = new /\ \A k \in DOMAIN m : w[k] = m[k]
  BY DEF Inserted
<1> DEFINE all == [k \in D |-> IF k = n THEN name ELSE key[k]]
<1> HIDE DEF C, D, w
<1>4. all \in [D -> Keys]
  BY <1>2
<1>5. \A j, k \in D : all[j] = all[k] => j = k
  BY <1>1, <1>2
<1>6. DOMAIN w = {all[k] : k \in D}
  BY <1>1, <1>2, <1>3
<1>7. \A k \in D : /\ Holds(w[all[k]], data[k])
                   /\ IF data[k].view_name = null THEN all[k] \in T
                                                  ELSE all[k] = data[k].view_name
  BY <1>1, <1>2, <1>3
<1> HIDE DEF all
<1> QED BY <1>4, <1>5, <1>6, <1>7 DEF Walk, D, w

LEMMA WalkNamed ==
    ASSUME NEW data \in Seq(Object), NEW n \in DOMAIN data, NEW m, NEW S, Walk(data, n, m, S),
           NoClash(data), S \subseteq Generated, data[n].view_name \in Name,
           data[n].info # null, ~ Unreadable(data[n])
    PROVE  Walk(data, n + 1,
                Inserted(m, data[n].view_name, MapVipUptime(data[n].info)), S)
<1> DEFINE name == data[n].view_name
           new == MapVipUptime(data[n].info)
           w == Inserted(m, name, new)
<1>1. data[n] \in Object /\ n \in Listed(data) /\ Listed(data) \in SUBSET Nat
  BY DEF Listed
<1>2. data[n].info # bad
  BY DEF Unreadable
<1>3. Holds(new, data[n])
  <2>1. data[n].info \in Seq(Item)
    BY <1>1, <1>2 DEF Object, ViewItem
  <2> QED BY <2>1, MapOfView
<1>4. name # null /\ name \in Keys /\ name \notin Generated
  BY NullAssumption DEF Keys, NoClash
<1> DEFINE C == Counted(data, n)
<1>5. PICK key \in [C -> Keys] :
        /\ DOMAIN m = {key[k] : k \in C}
        /\ \A k \in C : IF data[k].view_name = null THEN key[k] \in S
                                                    ELSE key[k] = data[k].view_name
  BY DEF Walk
<1> HIDE DEF new
<1>6. CASE Counts(data, n)
  <2>1. name \notin DOMAIN m
    <3> SUFFICES ASSUME NEW k \in C, key[k] = name PROVE FALSE
      BY <1>5
    <3>1. data[k].view_name = name
      BY <1>4, <1>5
    <3>2. k \in Listed(data) /\ k < n
      BY DEF Counted, Counts
    <3> QED BY <1>4, <1>6, <3>1, <3>2 DEF Counts
  <2> QED BY <1>3, <1>4, <1>6, <2>1, WalkAdds DEF new
<1>7. CASE ~ Counts(data, n)
  <2> DEFINE Same == {j \in Listed(data) : data[j].view_name = name}
  <2>1. PICK i \in Same : \A j \in Same : i <= j
    <3>1. n \in Same /\ Same \in SUBSET Nat
      BY <1>1
    <3> HIDE DEF Same
    <3> QED BY <3>1, LeastExists
  <2>2. i < n
    <3>1. PICK j \in Listed(data) : j < n /\ data[j].view_name = name
      BY <1>1, <1>7 DEF Counts
    <3>2. j \in Same
      BY <3>1
    <3> QED BY <1>1, <2>1, <3>1, <3>2
  <2>3. Counts(data, i)
    <3>1. \A j \in Listed(data) : j < i => data[j].view_name # data[i].view_name
      BY <1>1, <2>1
    <3> QED BY <2>1, <3>1 DEF Counts
  <2>4. i \in C
    BY <2>1, <2>2, <2>3 DEF Counted, Listed
  <2>5. key[i] = name
    BY <1>4, <1>5, <2>1, <2>4
  <2>6. name \in DOMAIN m
    BY <1>5, <2>4, <2>5
  <2>7. DOMAIN w = DOMAIN m /\ \A k \in DOMAIN m : w[k] = m[k]
    BY <2>6 DEF Inserted
  <2> HIDE DEF w
  <2>8. Walk(data, n + 1, w, S)
    BY <1>7, <2>7, WalkPasses
  <2> QED BY <2>8 DEF w, new
<1> QED BY <1>6, <1>7

LEMMA WalkNameless ==
    ASSUME NEW data \in Seq(Object), NEW n \in DOMAIN data, NEW m, NEW S, Walk(data, n, m, S),
           NoClash(data), S \subseteq Generated, data[n].view_name = null,
           data[n].info # null, ~ Unreadable(data[n]),
           NEW u \in Generated, u \notin S, NEW T, S \subseteq T, u \in T
    PROVE  Walk(data, n + 1, Inserted(m, u, MapVipUptime(data[n].info)), T)
<1> DEFINE new == MapVipUptime(data[n].info)
<1>1. data[n] \in Object /\ n \in Listed(data)
  BY DEF Listed
<1>2. data[n].info # bad
  BY DEF Unreadable
<1>3. Holds(new, data[n])
  <2>1. data[n].info \in Seq(Item)
    BY <1>1, <1>2 DEF Object, ViewItem
  <2> QED BY <2>1, MapOfView
<1>4. Counts(data, n)
  BY <1>1 DEF Counts
<1>5. u \notin DOMAIN m
  <2> DEFINE C == Counted(data, n)
  <2>1. PICK key \in [C -> Keys] :
          /\ DOMAIN m = {key[k] : k \in C}
          /\ \A k \in C : IF data[k].view_name = null THEN key[k] \in S
                                                      ELSE key[k] = data[k].view_name
    BY DEF Walk
  <2>2. \A k \in C : key[k] # u
    BY <2>1 DEF NoClash, Counted
  <2> QED BY <2>1, <2>2
<1> HIDE DEF new
<1>6. u \in Keys
  BY DEF Keys
<1> QED BY <1>3, <1>4, <1>5, <1>6, WalkAdds DEF new

\* The generated names a thread no other one raced can have used: those of the last
\* increments of the counter, fewer than there are numbers.
GivenOut(lo, hi) == {unknow(Back(s_suffix, d)) : d \in lo .. hi}

Used(t) ==
    IF fpc[t] = "done" THEN Generated
    ELSE IF fpc[t] = "nameless" THEN GivenOut(1, at[t] - 1) ELSE GivenOut(0, at[t] - 2)

Undisturbed(t) == (Walking(t) \/ Parsed(t)) /\ ~ raced[t] /\ NoClash(resp[t].data)

SuffixInv ==
    \A t \in Thread :
        /\ fpc[t] \in {"store", "nameless"} => View(t).view_name = null
        /\ fpc[t] = "store" /\ ~ raced[t] => reg[t] = (s_suffix + 1) % UINT
        /\ fpc[t] = "nameless" /\ ~ raced[t] => reg[t] = s_suffix

WalkInv ==
    \A t \in Thread :
        Undisturbed(t) => Walk(resp[t].data, at[t], map_dns_info[t], Used(t))

ExactInv == FetchTypeInv /\ SuffixInv /\ WalkInv

LEMMA UsedIsGenerated ==
    ASSUME FetchTypeInv, NEW t \in Thread, DataOK(t)
    PROVE  Used(t) \subseteq Generated
<1>1. at[t] \in 1 .. UINT /\ s_suffix \in 0 .. UINT - 1
  BY UintAssumption DEF DataOK, FetchTypeInv, FetchTypeOK
<1>2. \A d \in 0 .. UINT - 1 : unknow(Back(s_suffix, d)) \in Generated
  BY <1>1, BackSteps DEF Generated
<1>3. \A d \in 1 .. at[t] - 1 : d \in 0 .. UINT - 1
  BY <1>1, UintAssumption
<1>4. \A d \in 0 .. at[t] - 2 : d \in 0 .. UINT - 1
  BY <1>1, UintAssumption
<1> QED BY <1>2, <1>3, <1>4 DEF Used, GivenOut

\* What a step leaves of another thread's walk; a stored counter makes it a raced one.
LEMMA OthersWalkOn ==
    ASSUME ExactInv, NEW t \in Thread, FetchStep(t) \/ fetch(t) \/ Leave(t),
           NEW u \in Thread, u # t
    PROVE  /\ Undisturbed(u)' => Walk(resp'[u].data, at'[u], map_dns_info'[u], Used(u)')
           /\ fpc'[u] \in {"store", "nameless"} => View(u)'.view_name = null
           /\ fpc'[u] = "store" /\ ~ raced'[u] => reg'[u] = (s_suffix' + 1) % UINT
           /\ fpc'[u] = "nameless" /\ ~ raced'[u] => reg'[u] = s_suffix'
<1>1. /\ fpc'[u] = fpc[u] /\ resp'[u] = resp[u] /\ at'[u] = at[u]
      /\ res'[u] = res[u] /\ map_dns_info'[u] = map_dns_info[u]
  BY StepLeavesOthers DEF ExactInv, Others
<1>2. reg'[u] = reg[u]
  <2>1. reg' = reg \/ \E x : reg' = [reg EXCEPT ![t] = x]
    BY DEF FetchStep, RequestFails, RequestAnswered, ParsedAll, BadName, NamedView,
           LoadSuffix, StoreSuffix, NamelessView, Items, Return, fetch, Leave
  <2> QED BY <2>1 DEF ExactInv, FetchTypeInv, FetchTypeOK
<1>3. CASE StoreSuffix(t)
  <2>1. raced'[u] = (raced[u] \/ fpc[u] \notin {"idle", "done"})
    BY <1>3 DEF StoreSuffix
  <2>2. Undisturbed(u)' => Undisturbed(u) /\ fpc[u] = "done"
    BY <1>1, <2>1 DEF Undisturbed, Walking, Parsed
  <2>3. fpc[u] = "done" => Used(u)' = Used(u)
    BY <1>1 DEF Used
  <2> QED BY <1>1, <2>1, <2>2, <2>3 DEF ExactInv, WalkInv, SuffixInv, View
<1>4. CASE ~ StoreSuffix(t)
  <2>1. s_suffix' = s_suffix /\ raced'[u] = raced[u]
    <3>1. s_suffix' = s_suffix /\ (raced' = raced \/ raced' = [raced EXCEPT ![t] = FALSE])
      BY <1>4 DEF FetchStep, RequestFails, RequestAnswered, ParsedAll, BadName, NamedView,
             LoadSuffix, NamelessView, Items, Return, fetch, Leave
    <3> QED BY <3>1 DEF ExactInv, FetchTypeInv
  <2>2. Undisturbed(u)' => Undisturbed(u)
    BY <1>1, <2>1 DEF Undisturbed, Walking, Parsed
  <2>3. Used(u)' = Used(u)
    BY <1>1, <2>1 DEF Used, GivenOut
  <2> QED BY <1>1, <1>2, <2>1, <2>2, <2>3 DEF ExactInv, WalkInv, SuffixInv, View
<1> QED BY <1>3, <1>4

\* One round over the items of a view, by whatever key.
LEMMA RoundWalks ==
    ASSUME ExactInv, NEW t \in Thread, More(t) \/ fpc[t] = "nameless",
           NEW name, Items(t, name, View(t)), Undisturbed(t)',
           \/ fpc[t] = "view" /\ name \in Name /\ name = View(t).view_name
           \/ fpc[t] = "nameless" /\ name = unknow(s_suffix)
    PROVE  Walk(resp'[t].data, at'[t], map_dns_info'[t], Used(t)')
<1> DEFINE data == resp[t].data
           n == at[t]
           m == map_dns_info[t]
           S == Used(t)
           T == GivenOut(0, n - 1)
<1>1. /\ n \in DOMAIN data /\ View(t) = data[n] /\ data[n] \in Object
      /\ data \in Seq(Object) /\ n \in 1 .. Len(data) /\ Len(data) < UINT
      /\ DataOK(t)
  <2>1. DataOK(t)
    BY DEF ExactInv, FetchTypeInv, Walking, More
  <2> QED BY <2>1, ViewAt DEF ExactInv, DataOK, View
<1>2. ~ Return(t, parse_fail)
  <2>1. parse_fail # success
    BY DEF parse_fail, success
  <2> QED BY <2>1 DEF Return, Undisturbed, Walking, Parsed, ExactInv, FetchTypeInv, FetchInv,
                      FetchTypes
<1>3. /\ fpc'[t] = "view" /\ at'[t] = n + 1 /\ resp' = resp /\ raced' = raced
      /\ s_suffix' = s_suffix
  BY <1>2 DEF Items, ExactInv, FetchTypeInv, FetchTypeOK, FetchInv, FetchTypes
<1>4. Walk(data, n, m, S) /\ NoClash(data)
  BY <1>3 DEF ExactInv, WalkInv, Undisturbed, Walking, More
<1>5. Used(t)' = T
  <2>1. at'[t] - 2 = n - 1
    BY <1>1, <1>3
  <2> QED BY <1>3, <2>1 DEF Used, GivenOut
<1>6. S \subseteq T /\ S \subseteq Generated
  <2>1. S \subseteq Generated
    BY <1>1, UsedIsGenerated DEF ExactInv
  <2>2. 1 .. n - 1 \subseteq 0 .. n - 1 /\ 0 .. n - 2 \subseteq 0 .. n - 1
    BY <1>1
  <2>3. fpc[t] # "done"
    BY DEF More
  <2> QED BY <2>1, <2>2, <2>3 DEF Used, GivenOut
<1>7. CASE View(t).info = null
  <2>1. map_dns_info' = map_dns_info
    BY <1>2, <1>7 DEF Items
  <2>2. ~ Counts(data, n)
    BY <1>1, <1>7 DEF Counts, Listed
  <2> HIDE DEF S, T
  <2>3. Walk(data, n + 1, m, S)
    BY <1>1, <1>4, <2>2, WalkPasses
  <2>4. Walk(data, n + 1, m, T)
    BY <1>6, <2>3, WalkWidens
  <2> QED BY <1>3, <1>5, <2>1, <2>4
<1>8. CASE View(t).info # null
  <2>1. /\ ~ Unreadable(data[n]) /\ data[n].info # null
        /\ map_dns_info'[t] = Inserted(m, name, MapVipUptime(data[n].info))
    BY <1>1, <1>2, <1>8 DEF Items, Insert, ExactInv, FetchTypeInv, FetchInv, FetchTypes
  <2> DEFINE w == Inserted(m, name, MapVipUptime(data[n].info))
  <2>2. CASE fpc[t] = "view" /\ name \in Name /\ name = View(t).view_name
    <3>1. name = data[n].view_name /\ data[n].view_name \in Name
      BY <1>1, <2>2
    <3> HIDE DEF S, T
    <3>2. Walk(data, n + 1, w, S)
      BY <1>1, <1>4, <1>6, <2>1, <3>1, WalkNamed
    <3> HIDE DEF w
    <3>3. Walk(data, n + 1, w, T)
      BY <1>6, <3>2, WalkWidens
    <3> QED BY <1>3, <1>5, <2>1, <3>3 DEF w
  <2>3. CASE fpc[t] = "nameless" /\ name = unknow(s_suffix)
    <3>1. s_suffix \in 0 .. UINT - 1 /\ data[n].view_name = null
      BY <1>1, <2>3 DEF ExactInv, FetchTypeInv, FetchTypeOK, SuffixInv
    <3>2. name \in Generated
      BY <2>3, <3>1 DEF Generated
    <3>3. name \notin S
      <4>1. \A d \in 1 .. n - 1 : d \in 0 .. UINT - 1 /\ d # 0
        BY <1>1, UintAssumption
      <4>2. \A d \in 1 .. n - 1 : Back(s_suffix, d) # s_suffix
        BY <3>1, <4>1, BackSteps
      <4> QED BY <2>3, <4>2 DEF Used, GivenOut, unknow
    <3>4. name \in T
      <4>1. 0 \in 0 .. UINT - 1 /\ 0 \in 0 .. n - 1
        BY <1>1, UintAssumption
      <4>2. Back(s_suffix, 0) = s_suffix
        BY <3>1, <4>1, BackSteps
      <4> QED BY <2>3, <4>1, <4>2 DEF GivenOut
    <3> HIDE DEF S, T
    <3>5. Walk(data, n + 1, w, T)
      BY <1>1, <1>4, <1>6, <2>1, <3>1, <3>2, <3>3, <3>4, WalkNameless
    <3> QED BY <1>3, <1>5, <2>1, <3>5
  <2> QED BY <2>2, <2>3
<1> QED BY <1>7, <1>8

LEMMA OwnWalk ==
    ASSUME ExactInv, NEW t \in Thread, FetchStep(t) \/ fetch(t) \/ Leave(t)
    PROVE  /\ Undisturbed(t)' => Walk(resp'[t].data, at'[t], map_dns_info'[t], Used(t)')
           /\ fpc'[t] \in {"store", "nameless"} => View(t)'.view_name = null
           /\ fpc'[t] = "store" /\ ~ raced'[t] => reg'[t] = (s_suffix' + 1) % UINT
           /\ fpc'[t] = "nameless" /\ ~ raced'[t] => reg'[t] = s_suffix'
<1> USE DEF ExactInv, FetchTypeInv, FetchTypeOK, FetchInv, FetchTypes
<1>1. CASE fetch(t) \/ Leave(t)
  <2>1. fpc'[t] \in {"request", "idle"}
    BY <1>1 DEF fetch, Leave
  <2> QED BY <2>1 DEF Undisturbed, Walking, Parsed
<1>2. CASE RequestFails(t) \/ BadName(t)
  <2>1. fpc'[t] = "done" /\ res'[t] # success
    BY <1>2 DEF RequestFails, BadName, Return, http_fail, parse_fail, success
  <2> QED BY <2>1 DEF Undisturbed, Walking, Parsed
<1>3. CASE RequestAnswered(t)
  <2>1. PICK r \in Answer(t) :
         /\ resp' = [resp EXCEPT ![t] = r]
         /\ res' = [res EXCEPT ![t] = HeadError(r)]
         /\ fpc' = [fpc EXCEPT ![t] = IF HeadError(r) = success THEN "view" ELSE "done"]
    BY <1>3 DEF RequestAnswered
  <2>2. at' = [at EXCEPT ![t] = 1] /\ UNCHANGED <<reg, map_dns_info, s_suffix, raced>>
    BY <1>3 DEF RequestAnswered
  <2>3. fpc'[t] \in {"view", "done"}
    BY <2>1
  <2>4. ASSUME Undisturbed(t)'
        PROVE  Walk(resp'[t].data, at'[t], map_dns_info'[t], Used(t)')
    <3>1. HeadError(r) = success
      BY <2>1, <2>4 DEF Undisturbed, Walking, Parsed
    <3>2. r.data \in Seq(Object)
      BY <3>1, HeadChecksData
    <3>3. map_dns_info'[t] = Empty
      BY <1>3, <2>2 DEF RequestAnswered, NotYetFilled
    <3>4. Walk(r.data, 1, Empty, Used(t)')
      BY <3>2, WalkStarts
    <3> QED BY <2>1, <2>2, <3>3, <3>4
  <2> QED BY <2>3, <2>4
<1>4. CASE ParsedAll(t)
  <2>1. /\ fpc[t] = "view" /\ fpc'[t] = "done" /\ UNCHANGED <<resp, at, map_dns_info, raced>>
    BY <1>4 DEF ParsedAll, Return
  <2>2. Undisturbed(t)' => Undisturbed(t)
    BY <2>1 DEF Undisturbed, Walking
  <2>3. Used(t) \subseteq Generated
    BY <2>1, UsedIsGenerated DEF Walking
  <2>4. Used(t)' = Generated
    BY <2>1 DEF Used, Generated
  <2> QED BY <2>1, <2>2, <2>3, <2>4, WalkWidens DEF WalkInv
<1>5. CASE NamedView(t)
  <2>1. /\ More(t) /\ View(t).view_name \in Name /\ Items(t, View(t).view_name, View(t))
        /\ fpc[t] = "view"
    BY <1>5 DEF NamedView, More
  <2>2. fpc'[t] \in {"view", "done"}
    BY <2>1 DEF Items, Return
  <2> QED BY <2>1, <2>2, RoundWalks
<1>6. CASE LoadSuffix(t)
  <2>1. /\ fpc[t] = "view" /\ fpc'[t] = "store" /\ View(t).view_name = null
        /\ reg'[t] = (s_suffix + 1) % UINT
        /\ UNCHANGED <<resp, at, map_dns_info, res, s_suffix, raced>>
    BY <1>6 DEF LoadSuffix, More
  <2>2. Undisturbed(t)' => Undisturbed(t)
    BY <2>1 DEF Undisturbed, Walking
  <2>3. Used(t)' = Used(t)
    BY <2>1 DEF Used, GivenOut
  <2> QED BY <2>1, <2>2, <2>3 DEF WalkInv, View
<1>7. CASE StoreSuffix(t)
  <2>1. /\ fpc[t] = "store" /\ fpc'[t] = "nameless" /\ s_suffix' = reg[t]
        /\ raced'[t] = raced[t] /\ UNCHANGED <<resp, at, reg, map_dns_info, res>>
    BY <1>7 DEF StoreSuffix
  <2>2. DataOK(t)
    BY <2>1 DEF Walking
  <2>3. ASSUME Undisturbed(t)'
        PROVE  Walk(resp'[t].data, at'[t], map_dns_info'[t], Used(t)')
    <3>1. Undisturbed(t) /\ s_suffix' = (s_suffix + 1) % UINT
      BY <2>1, <2>3 DEF Undisturbed, Walking, SuffixInv
    <3>2. ASSUME NEW d \in 0 .. at[t] - 2
          PROVE  unknow(Back(s_suffix, d)) \in Used(t)'
      <4>1. d \in 0 .. UINT - 1 /\ d + 1 \in 1 .. at[t] - 1
        BY <2>2, UintAssumption DEF DataOK
      <4>2. Back(s_suffix, d) = Back(s_suffix', d + 1)
        BY <3>1, <4>1, BackSteps
      <4>3. Used(t)' = {unknow(Back(s_suffix', e)) : e \in 1 .. at[t] - 1}
        BY <2>1 DEF Used, GivenOut
      <4> QED BY <4>1, <4>2, <4>3
    <3>3. Used(t) \subseteq Used(t)'
      <4>1. Used(t) = {unknow(Back(s_suffix, d)) : d \in 0 .. at[t] - 2}
        BY <2>1 DEF Used, GivenOut
      <4> QED BY <3>2, <4>1
    <3> QED BY <2>1, <3>1, <3>3, WalkWidens DEF WalkInv
  <2> QED BY <2>1, <2>3 DEF SuffixInv, View
<1>8. CASE NamelessView(t)
  <2>1. PICK k \in {reg[t], s_suffix} : Items(t, unknow(k), View(t))
    BY <1>8 DEF NamelessView
  <2>2. fpc[t] = "nameless" /\ fpc'[t] \in {"view", "done"} /\ raced' = raced
    BY <1>8, <2>1 DEF NamelessView, Items, Return
  <2>3. Undisturbed(t)' => k = s_suffix
    BY <2>2 DEF Undisturbed, SuffixInv
  <2> QED BY <2>1, <2>2, <2>3, RoundWalks
<1> QED BY <1>1, <1>2, <1>3, <1>4, <1>5, <1>6, <1>7, <1>8 DEF FetchStep

LEMMA NextKeepsWalks ==
    ASSUME ExactInv, [Next]_vars
    PROVE  ExactInv'
<1>1. FetchTypeInv'
  BY NextKeepsTypes DEF ExactInv
<1>2. CASE UNCHANGED fetchVars
  BY <1>1, <1>2 DEF fetchVars, ExactInv, SuffixInv, WalkInv, Undisturbed, Walking, Parsed,
                    Used, GivenOut, View
<1>3. ASSUME NEW t \in Thread, FetchStep(t) \/ fetch(t) \/ Leave(t)
      PROVE  SuffixInv' /\ WalkInv'
  BY <1>3, OwnWalk, OthersWalkOn DEF SuffixInv, WalkInv
<1> QED BY <1>1, <1>2, <1>3, FetchOrNot DEF ExactInv

\* At the end of the answer every view has been passed.
LEMMA WalkIsExact == ExactInv => ListIsExact
<1> SUFFICES ASSUME ExactInv, NEW t \in Thread, fpc[t] = "done", res[t] = success, ~ raced[t],
                    NoClash(resp[t].data)
             PROVE  LET data == resp[t].data
                        map_ == map_dns_info[t]
                        counted == {k \in DOMAIN data : Counts(data, k)} IN
                    /\ Cardinality(DOMAIN map_) = Cardinality(counted)
                    /\ \A k \in counted :
                         IF data[k].view_name # null
                         THEN /\ data[k].view_name \in DOMAIN map_
                              /\ Holds(map_[data[k].view_name], data[k])
                         ELSE \E v \in DOMAIN map_ \cap Generated : Holds(map_[v], data[k])
  BY DEF ListIsExact, NoClash
<1> DEFINE data == resp[t].data
           m == map_dns_info[t]
           counted == {k \in DOMAIN data : Counts(data, k)}
<1>1. data \in Seq(Object) /\ at[t] = Len(data) + 1
  BY DEF ExactInv, FetchTypeInv, Parsed, DataOK
<1>2. Counted(data, at[t]) = counted
  BY <1>1 DEF Counted
<1>3. Walk(data, at[t], m, Generated)
  BY DEF ExactInv, WalkInv, Undisturbed, Parsed, Used
<1>4. PICK key \in [counted -> Keys] :
        /\ \A j, k \in counted : key[j] = key[k] => j = k
        /\ DOMAIN m = {key[k] : k \in counted}
        /\ \A k \in counted :
             /\ Holds(m[key[k]], data[k])
             /\ IF data[k].view_name = null THEN key[k] \in Generated
                                            ELSE key[k] = data[k].view_name
  BY <1>2, <1>3 DEF Walk
<1>5. IsFiniteSet(counted)
  <2>1. counted \in SUBSET (1 .. Len(data)) /\ Len(data) \in Nat
    BY <1>1
  <2>2. IsFiniteSet(1 .. Len(data))
    BY <2>1, FS_Interval
  <2> HIDE DEF counted
  <2> QED BY <2>1, <2>2, FS_Subset
<1>6. Cardinality(DOMAIN m) = Cardinality(counted)
  <2> HIDE DEF counted
  <2>1. key \in Surjection(counted, DOMAIN m)
    BY <1>4 DEF Surjection
  <2>2. key \in Injection(counted, DOMAIN m)
    BY <1>4, <2>1 DEF Surjection, Injection, IsInjective
  <2> QED BY <1>5, <2>1, <2>2, FS_Surjection
<1> QED BY <1>4, <1>6

(***************************************************************************)
(* parse_respond, for any answer of the service, any number of views and   *)
(* any other jobs: unless another thread stored the shared counter in      *)
(* between, the list has one entry for every view with items, the first of *)
(* a name, with exactly its addresses and the uptimes beside their first   *)
(* mention, and nameless views are kept apart.                             *)
(***************************************************************************)
THEOREM ListStaysExact == Spec => []ListIsExact
<1>1. Init => ExactInv
  BY InitFetchTypes
     DEF Init, FetchInit, ExactInv, SuffixInv, WalkInv, Undisturbed, Walking, Parsed
<1>2. ExactInv /\ [Next]_vars => ExactInv'
  BY NextKeepsWalks
<1> QED BY <1>1, <1>2, WalkIsExact, PTL DEF Spec
=============================================================================
