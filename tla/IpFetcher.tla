----------------------------- MODULE IpFetcher -----------------------------
(***************************************************************************)
(* ip_fetcher::fetch and parse_respond: one request to the DNS list        *)
(* service, and the walk over its JSON answer that fills a map from view   *)
(* names to maps from addresses to uptimes.                                *)
(*                                                                         *)
(* Several threads may be in here at once.  All they share is the counter  *)
(* behind the names of nameless views, a plain static variable: its        *)
(* increment is a load and a store, and another thread's may come between. *)
(*                                                                         *)
(* A JSON value is kept as far as the code tells values apart: null, a     *)
(* value of the type asked for, or bad (any other type, on which           *)
(* as_string, as_array and operator[] throw).  A null where an object is   *)
(* expected turns into an empty object: all its members are null.          *)
(***************************************************************************)
EXTENDS Naturals, Sequences, FiniteSets, SequencesExt

CONSTANTS
    Thread,
    Name,       \* view names the service uses
    Vip, Uptime,
    null, bad,
    Answer(_),  \* JSON objects the service may answer each thread with
    UINT        \* 2^32, the values of an unsigned int

\* L"unknow" with a number appended.
unknow(k) == <<"unknow", k>>
NoUptime == "unknow"

Item == [vip : Vip \cup {null, bad}, uptime : Uptime \cup {null, bad}]
ViewItem(Info) == [view_name : Name \cup {null, bad}, info : Info \cup {null, bad}]

ASSUME UintAssumption == UINT \in Nat /\ UINT > 1
ASSUME NullAssumption == null \notin Name

\* Data is no array, or an array of objects; the views of one answer, which is kept
\* in memory, are fewer than the numbers for nameless ones.
ASSUME AnswerAssumption ==
    \A t \in Thread : \A r \in Answer(t) :
        r.data \in {null, bad} \/ (r.data \in Seq(ViewItem(Seq(Item))) /\ Len(r.data) < UINT)

VARIABLES
    fpc,            \* where a thread is in fetch
    resp,           \* the answer it works on
    at,             \* position of view_item in resp's data
    reg,            \* the processor's copy of the counter, and the name made of it
    map_dns_info,   \* the caller's map
    res,            \* result of fetch
    s_suffix,       \* the static counter
    raced           \* history: another thread has stored the counter meanwhile

fetchVars == <<fpc, resp, at, reg, map_dns_info, res, s_suffix, raced>>

success        == "result_success"
http_fail      == "result_network_interface_http_request_fail"
parse_fail     == "result_network_interface_respond_parse_fail"
no_status      == "result_network_interface_respond_status_not_exist"
not_success    == "result_network_interface_respond_status_not_success"
no_data        == "result_network_interface_respond_data_not_exist"

NoAnswer == [status |-> null, data |-> <<>>]
Empty == <<>>

-----------------------------------------------------------------------------
(* Pure parts.                                                             *)

\* Mutant of Throws: an uptime that is no string is taken as it is.
ThrowsOnVip(item) == item.vip = bad

\* as_string throws: a member is there and is no string.
Throws(item) == item.vip = bad \/ (item.vip # null /\ item.uptime = bad)

\* unordered_map::insert never replaces.
Inserted(m, key, value) ==
    [k \in (DOMAIN m) \cup {key} |-> IF k \in DOMAIN m THEN m[k] ELSE value]

UptimeOf(item) == IF item.uptime = null THEN NoUptime ELSE item.uptime

\* Mutant of AddItem: operator[] instead of insert, the last one wins.
AddItemReplaces(m, item) ==
    IF item.vip = null THEN m
    ELSE [p \in (DOMAIN m) \cup {item.vip} |-> IF p = item.vip THEN UptimeOf(item) ELSE m[p]]

AddItem(m, item) ==
    IF item.vip = null THEN m ELSE Inserted(m, item.vip, UptimeOf(item))

\* map_vip_uptime, once all items of info have been added.
MapVipUptime(info) == FoldLeft(AddItem, Empty, info)

\* The checks of parse_respond before it looks at a view.
HeadError(r) ==
    CASE r.status = null -> no_status
      [] r.status = bad  -> parse_fail
      [] r.status # null /\ r.status # bad /\ r.status # "success" -> not_success
      [] r.status = "success" /\ r.data = null -> no_data
      [] r.status = "success" /\ r.data = bad  -> parse_fail
      [] OTHER -> success

-----------------------------------------------------------------------------
FetchInit ==
    /\ fpc = [t \in Thread |-> "idle"]
    /\ resp = [t \in Thread |-> NoAnswer]
    /\ at = [t \in Thread |-> 0]
    /\ reg = [t \in Thread |-> 0]
    /\ map_dns_info = [t \in Thread |-> Empty]
    /\ res = [t \in Thread |-> success]
    /\ s_suffix = 0
    /\ raced = [t \in Thread |-> FALSE]

\* fetch is called, with an empty map.
fetch(t) ==
    /\ fpc[t] = "idle"
    /\ fpc' = [fpc EXCEPT ![t] = "request"]
    /\ UNCHANGED <<resp, at, reg, map_dns_info, res, s_suffix, raced>>

\* Mutant of Return: every failure is reported as one the caller may repeat.
ReturnRetriably(t, r) ==
    /\ fpc' = [fpc EXCEPT ![t] = "done"]
    /\ res' = [res EXCEPT ![t] = IF r = success THEN success ELSE http_fail]
    /\ UNCHANGED <<resp, at, reg, map_dns_info, s_suffix, raced>>

Return(t, r) ==
    /\ fpc' = [fpc EXCEPT ![t] = "done"]
    /\ res' = [res EXCEPT ![t] = r]
    /\ UNCHANGED <<resp, at, reg, map_dns_info, s_suffix, raced>>

\* No connection; a status other than 200, or no body: the value is null; a body
\* that cannot be read or is no JSON.
RequestFails(t) ==
    /\ fpc[t] = "request"
    /\ \E r \in {http_fail, parse_fail} : Return(t, r)

RequestAnswered(t) ==
    /\ fpc[t] = "request"
    /\ \E r \in Answer(t) :
         /\ resp' = [resp EXCEPT ![t] = r]
         /\ res' = [res EXCEPT ![t] = HeadError(r)]
         /\ fpc' = [fpc EXCEPT ![t] = IF HeadError(r) = success THEN "view" ELSE "done"]
    /\ at' = [at EXCEPT ![t] = 1]
    /\ UNCHANGED <<reg, map_dns_info, s_suffix, raced>>

ParsedAll(t) ==
    /\ fpc[t] = "view" /\ at[t] > Len(resp[t].data)
    /\ Return(t, success)

View(t) == resp[t].data[at[t]]

Insert(t, name, view) ==
    map_dns_info' = [map_dns_info EXCEPT ![t] = Inserted(@, name, MapVipUptime(view.info))]

\* as_array or one of the items' as_string throws.
Unreadable(view) ==
    IF view.info = bad THEN TRUE ELSE \E k \in DOMAIN view.info : Throws(view.info[k])

\* One round of the loop over the views once the view's name is known: skip the
\* view, throw, or insert it and go on.
Items(t, name, view) ==
    \/ /\ view.info = null
       /\ fpc' = [fpc EXCEPT ![t] = "view"]
       /\ at' = [at EXCEPT ![t] = @ + 1]
       /\ UNCHANGED <<resp, reg, map_dns_info, res, s_suffix, raced>>
    \/ /\ view.info # null
       /\ Unreadable(view)
       /\ Return(t, parse_fail)
    \/ /\ view.info # null /\ ~ Unreadable(view)
       /\ Insert(t, name, view)
       /\ fpc' = [fpc EXCEPT ![t] = "view"]
       /\ at' = [at EXCEPT ![t] = @ + 1]
       /\ UNCHANGED <<resp, reg, res, s_suffix, raced>>

More(t) == fpc[t] = "view" /\ at[t] <= Len(resp[t].data)

BadName(t) == More(t) /\ View(t).view_name = bad /\ Return(t, parse_fail)

NamedView(t) ==
    /\ More(t) /\ View(t).view_name \in Name
    /\ Items(t, View(t).view_name, View(t))

(* ++s_suffix for a view without a name.                                   *)
LoadSuffix(t) ==
    /\ More(t) /\ View(t).view_name = null
    /\ fpc' = [fpc EXCEPT ![t] = "store"]
    /\ reg' = [reg EXCEPT ![t] = (s_suffix + 1) % UINT]
    /\ UNCHANGED <<resp, at, map_dns_info, res, s_suffix, raced>>

StoreSuffix(t) ==
    /\ fpc[t] = "store"
    /\ fpc' = [fpc EXCEPT ![t] = "nameless"]
    /\ s_suffix' = reg[t]
    /\ raced' = [u \in Thread |-> raced[u] \/ (u # t /\ fpc[u] \notin {"idle", "done"})]
    /\ UNCHANGED <<resp, at, reg, map_dns_info, res>>

\* The name is made of the incremented value, or of what another thread has
\* stored in the meantime.
NamelessView(t) ==
    /\ fpc[t] = "nameless"
    /\ \E k \in {reg[t], s_suffix} : Items(t, unknow(k), View(t))

FetchStep(t) ==
    \/ RequestFails(t) \/ RequestAnswered(t) \/ ParsedAll(t)
    \/ BadName(t) \/ NamedView(t)
    \/ LoadSuffix(t) \/ StoreSuffix(t) \/ NamelessView(t)

\* The caller is through with the result: the map and fetch's locals are gone.
Leave(t) ==
    /\ fpc[t] = "done"
    /\ fpc' = [fpc EXCEPT ![t] = "idle"]
    /\ resp' = [resp EXCEPT ![t] = NoAnswer]
    /\ at' = [at EXCEPT ![t] = 0]
    /\ reg' = [reg EXCEPT ![t] = 0]
    /\ map_dns_info' = [map_dns_info EXCEPT ![t] = Empty]
    /\ res' = [res EXCEPT ![t] = success]
    /\ raced' = [raced EXCEPT ![t] = FALSE]
    /\ UNCHANGED s_suffix

-----------------------------------------------------------------------------
(* Properties.                                                             *)

Places == {"idle", "request", "view", "store", "nameless", "done"}

Results == {success, http_fail, parse_fail, no_status, not_success, no_data}

Generated == {unknow(k) : k \in 0 .. UINT - 1}
Keys == Name \cup Generated

\* Every variable keeps its type; the map has strings only.
FetchTypeOK ==
    /\ fpc \in [Thread -> Places]
    /\ at \in [Thread -> Nat]
    /\ reg \in [Thread -> 0 .. UINT - 1]
    /\ s_suffix \in 0 .. UINT - 1
    /\ res \in [Thread -> Results]
    /\ raced \in [Thread -> BOOLEAN]
    /\ \A t \in Thread :
         /\ DOMAIN map_dns_info[t] \subseteq Keys
         /\ \A v \in DOMAIN map_dns_info[t] :
              /\ DOMAIN map_dns_info[t][v] \subseteq Vip
              /\ \A p \in DOMAIN map_dns_info[t][v] :
                   map_dns_info[t][v][p] \in Uptime \cup {NoUptime}

\* What a view's items say about an address: the uptime beside its first mention.
Says(view, p, u) ==
    \E k \in DOMAIN view.info :
        /\ view.info[k].vip = p
        /\ u = UptimeOf(view.info[k])
        /\ \A j \in 1 .. k - 1 : view.info[j].vip # p

Holds(m, view) ==
    /\ DOMAIN m = {view.info[k].vip : k \in DOMAIN view.info} \ {null}
    /\ \A p \in DOMAIN m : Says(view, p, m[p])

Listed(data) == {k \in DOMAIN data : data[k].info # null}

\* The first listed view of its name, or a view without a name.
Counts(data, k) ==
    /\ k \in Listed(data)
    /\ data[k].view_name # null =>
         \A j \in Listed(data) : j < k => data[j].view_name # data[k].view_name

\* A list fetched by a thread no other one raced is complete and exact: one entry
\* per view with items, of a name's views the first, and all nameless views kept
\* apart - unless the service itself uses a name like "unknow1".
ListIsExact ==
    \A t \in Thread :
        LET data == resp[t].data
            map == map_dns_info[t]
            counted == {k \in DOMAIN data : Counts(data, k)} IN
        fpc[t] = "done" /\ res[t] = success /\ ~ raced[t]
            /\ (\A k \in DOMAIN data : data[k].view_name \notin Generated)
        => /\ Cardinality(DOMAIN map) = Cardinality(counted)
           /\ \A k \in counted :
                IF data[k].view_name # null
                THEN /\ data[k].view_name \in DOMAIN map
                     /\ Holds(map[data[k].view_name], data[k])
                ELSE \E v \in DOMAIN map \cap Generated : Holds(map[v], data[k])

\* auto_select_dns repeats a request that ended with http_fail and hands over the
\* same map: nothing of a half-parsed answer may be in it.
RetryStartsEmpty ==
    \A t \in Thread : fpc[t] = "done" /\ res[t] = http_fail => map_dns_info[t] = Empty
=============================================================================
