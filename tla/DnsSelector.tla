---------------------------- MODULE DnsSelector ----------------------------
(***************************************************************************)
(* The jobs of class dns_selector that change the DNS servers of a network *)
(* adapter: auto_select_dns (the one-click optimisation) and on_switch_dns *)
(* (the user's own choice in the professional view).  One job runs at a    *)
(* time; the program may be asked for any number of jobs one after another.*)
(*                                                                         *)
(* One action is one stretch of code up to and including one external call *)
(* (HTTP request, ping, WMI query, WMI method).  The HTTP service, the     *)
(* pinged servers and WMI are the environment: each call may end in every  *)
(* way the code tells apart.                                               *)
(***************************************************************************)
EXTENDS Naturals, FiniteSets

CONSTANTS
    Adapter,        \* network adapters WMI may report
    NoAdapter,      \* "no adapter chosen yet"
    InitInfos,      \* what an adapter may be configured to at start-up
    View,           \* view names of the DNS list service
    Vip,            \* server addresses in the service's answers, empty ones included
    Dns,            \* every (non-empty) DNS address
    NoDns,          \* the empty string, "no address"
    DEFAULT_DNS_1,
    DEFAULT_DNS_2,
    Times,          \* times a ping may report, those of calls nobody answered included
    time_out,       \* 9999999, what auto_select_dns records for a lost ping
    PING_TIMEOUT,   \* 0xFFFFFFFF
    NET_WORK_INTERFACE_REQUEST_MAX_TIME

DnsField == Dns \cup {NoDns}

\* adapter_info: what get_adapter_list reports of one adapter.  The search order
\* is read from its front, so there is no second server without a first.
AdapterInfo ==
    {info \in [dhcp : BOOLEAN, dns_1 : DnsField, dns_2 : DnsField] :
       info.dns_1 = NoDns => info.dns_2 = NoDns}

ASSUME AdapterAssumption == NoAdapter \notin Adapter
ASSUME DnsAssumption ==
    /\ NoDns \notin Dns
    /\ Vip \subseteq DnsField
    /\ {DEFAULT_DNS_1, DEFAULT_DNS_2} \subseteq Dns
    /\ DEFAULT_DNS_1 # DEFAULT_DNS_2
ASSUME InfosAssumption == InitInfos \subseteq AdapterInfo
ASSUME TimeAssumption ==
    /\ Times \subseteq Nat
    /\ time_out \in Nat /\ PING_TIMEOUT \in Nat
    /\ \A t \in Times : t <= PING_TIMEOUT
    /\ time_out < PING_TIMEOUT
ASSUME MaxTimeAssumption == NET_WORK_INTERFACE_REQUEST_MAX_TIME \in Nat \ {0}

VARIABLES
    adapters,       \* the machine: current DNS configuration per adapter
    job,            \* which job runs, or ran last
    pc,             \* where that job is
    res,            \* its variable res: the last result
    n,              \* failed requests of the DNS list so far
    map_dns_info,   \* <<view, vip>> pairs of the fetched list
    ping_t_ms,      \* recorded time of every pair pinged so far
    dns_1, dns_2,   \* str_pre_switch_dns_1 and str_pre_switch_dns_2
    target,         \* the adapter to switch
    orig,           \* history: adapters when the job began
    fallback        \* history: adapter switched to the public DNS, if any

machine == <<adapters, orig, fallback>>
fetched == <<n, map_dns_info, ping_t_ms>>
chosen  == <<dns_1, dns_2, target>>
vars == <<machine, job, pc, res, fetched, chosen>>

-----------------------------------------------------------------------------
(* Results.                                                                *)

success      == "result_success"
http_fail    == "result_network_interface_http_request_fail"
no_dns       == "result_no_valid_dns_for_switching"
no_adapter   == "result_no_valid_adapter_for_switching"
ip_invalid   == "result_dns_ip_invalid"

\* fetch_dns_info's other failures: they end the job at once.
RespondErrors == {"result_network_interface_respond_parse_fail",
                  "result_network_interface_respond_status_not_exist",
                  "result_network_interface_respond_status_not_success",
                  "result_network_interface_respond_data_not_exist"}

AdapterListErrors == {"result_wmi_initialize_fail", "result_enum_adapter_fail",
                      "result_getiftalbe_malloc_fail", "result_getiftalbe_fail"}

SwitchErrors == {"result_wmi_initialize_fail", "result_switch_dns_ip_fail"}

Results == {success, http_fail, no_dns, no_adapter, ip_invalid}
             \cup RespondErrors \cup AdapterListErrors \cup SwitchErrors

Pair == View \X Vip
NoTimes == [p \in {} |-> 0]
VipOf(p) == p[2]

-----------------------------------------------------------------------------
(* Pure parts of the jobs.                                                 *)

\* Mutant of Fastest: the comparison of the sort turned round.
SlowestFirst(S, t) == {p \in S : \A q \in S : t[p] >= t[q]}

\* The pairs that can stand first after std::sort on the recorded times; the
\* sort is not stable, so any pair with the least time can.
Fastest(S, t) == {p \in S : \A q \in S : t[p] <= t[q]}

\* Replacing one adapter's search order, as SetDNSServerSearchOrder does.
Assign(as, a, d1, d2) == [as EXCEPT ![a].dns_1 = d1, ![a].dns_2 = d2]

\* Mutant of Backup: the first public server without comparing it.
BackupUnchecked(info, d1) ==
    IF info.dhcp THEN DEFAULT_DNS_1
    ELSE IF info.dns_1 # d1 THEN info.dns_1
    ELSE IF info.dns_2 # d1 THEN info.dns_2
    ELSE NoDns

\* Mutant of Backup: the adapter's second server is not considered.
BackupFirstOnly(info, d1) ==
    IF info.dhcp /\ d1 # DEFAULT_DNS_1 THEN DEFAULT_DNS_1
    ELSE IF info.dhcp /\ d1 # DEFAULT_DNS_2 THEN DEFAULT_DNS_2
    ELSE IF info.dns_1 # d1 THEN info.dns_1
    ELSE NoDns

\* The backup server when only one server was measured (dns_2 still empty).
Backup(info, d1) ==
    IF info.dhcp /\ d1 # DEFAULT_DNS_1 THEN DEFAULT_DNS_1
    ELSE IF info.dhcp /\ d1 # DEFAULT_DNS_2 THEN DEFAULT_DNS_2
    ELSE IF info.dns_1 # d1 THEN info.dns_1
    ELSE IF info.dns_2 # d1 THEN info.dns_2
    ELSE NoDns

\* Mutant of ManualBackup: the adapter's first server is not compared with str_ip.
ManualBackupUnchecked(info, str_ip) ==
    IF info.dns_1 = NoDns THEN str_ip ELSE info.dns_1

\* on_switch_dns: the second server that goes with the user's str_ip.
ManualBackup(info, str_ip) ==
    IF info.dns_1 = NoDns THEN str_ip
    ELSE IF info.dns_1 # str_ip THEN info.dns_1
    ELSE IF info.dns_2 # NoDns THEN info.dns_2
    ELSE str_ip

-----------------------------------------------------------------------------
Init ==
    /\ adapters \in [Adapter -> InitInfos]
    /\ orig = adapters
    /\ fallback = NoAdapter
    /\ job = "none" /\ pc = "idle" /\ res = success
    /\ n = 0 /\ map_dns_info = {} /\ ping_t_ms = NoTimes
    /\ dns_1 = NoDns /\ dns_2 = NoDns /\ target = NoAdapter

\* The job returns: its local list and measurements are gone.
Return(r) ==
    /\ pc' = "idle"
    /\ res' = r
    /\ map_dns_info' = {} /\ ping_t_ms' = NoTimes

on_auto_done ==
    /\ pc = "idle"
    /\ job' = "auto" /\ pc' = "fetch" /\ res' = success
    /\ n' = 0 /\ map_dns_info' = {} /\ ping_t_ms' = NoTimes
    /\ dns_1' = NoDns /\ dns_2' = NoDns /\ target' = NoAdapter
    /\ orig' = adapters /\ fallback' = NoAdapter
    /\ UNCHANGED adapters

(* fetch_dns_info in the retry loop.  A request that got no usable HTTP    *)
(* answer leaves the list empty and is repeated.                           *)
FetchSucceeds ==
    /\ pc \in {"fetch", "fallback_fetch"}
    /\ \E m \in SUBSET Pair : map_dns_info' = m
    /\ pc' = "ping" /\ res' = success
    /\ UNCHANGED <<machine, job, n, ping_t_ms, chosen>>

\* Mutant of FetchHttpFails: one request too many.
FetchHttpFailsOnceMore ==
    /\ pc = "fetch"
    /\ n' = n + 1
    /\ pc' = IF n = NET_WORK_INTERFACE_REQUEST_MAX_TIME
             THEN "fallback_list" ELSE "fetch"
    /\ res' = http_fail
    /\ map_dns_info' = {}
    /\ UNCHANGED <<machine, job, ping_t_ms, chosen>>

FetchHttpFails ==
    /\ pc = "fetch"
    /\ n' = n + 1
    /\ pc' = IF n' = NET_WORK_INTERFACE_REQUEST_MAX_TIME
             THEN "fallback_list" ELSE "fetch"
    /\ res' = http_fail
    /\ map_dns_info' = {}
    /\ UNCHANGED <<machine, job, ping_t_ms, chosen>>

FetchGivesUp ==
    /\ \/ pc = "fetch" /\ \E r \in RespondErrors : Return(r)
       \/ pc = "fallback_fetch" /\ \E r \in RespondErrors \cup {http_fail} : Return(r)
    /\ UNCHANGED <<machine, job, n, chosen>>

(* The list service is out of reach: put the busiest adapter on the public *)
(* servers and ask once more.                                              *)
FallbackListFails ==
    /\ pc = "fallback_list"
    /\ \E r \in AdapterListErrors \cup {no_adapter} : Return(r)
    /\ UNCHANGED <<machine, job, n, chosen>>

FallbackList ==
    /\ pc = "fallback_list"
    /\ target' \in Adapter
    /\ pc' = "fallback_switch" /\ res' = success
    /\ UNCHANGED <<machine, job, fetched, dns_1, dns_2>>

\* Mutant of switch_adapter_dns: a failure reported after the change was made.
SwitchFailsLate(a, d1, d2) ==
    IF NoDns \in {d1, d2}
    THEN res' = ip_invalid /\ UNCHANGED adapters
    ELSE /\ res' \in SwitchErrors \cup {success}
         /\ adapters' \in {adapters, Assign(adapters, a, d1, d2)}

\* wmi_interface::switch_adapter_dns.  Success is what ExecMethod returns; the
\* method's own ReturnValue is not read, so a refused change counts as success.
switch_adapter_dns(a, d1, d2) ==
    IF NoDns \in {d1, d2}
    THEN res' = ip_invalid /\ UNCHANGED adapters
    ELSE \/ res' \in SwitchErrors /\ UNCHANGED adapters
         \/ res' = success /\ adapters' \in {adapters, Assign(adapters, a, d1, d2)}

\* Mutant of FallbackSwitch: after the switch all requests are tried again.
FallbackStartsOver ==
    /\ pc = "fallback_switch"
    /\ switch_adapter_dns(target, DEFAULT_DNS_1, DEFAULT_DNS_2)
    /\ pc' = IF res' = success THEN "fetch" ELSE "idle"
    /\ n' = 0
    /\ fallback' = IF res' = success THEN target ELSE fallback
    /\ UNCHANGED <<orig, job, map_dns_info, ping_t_ms, chosen>>

FallbackSwitch ==
    /\ pc = "fallback_switch"
    /\ switch_adapter_dns(target, DEFAULT_DNS_1, DEFAULT_DNS_2)
    /\ pc' = IF res' = success THEN "fallback_fetch" ELSE "idle"
    /\ fallback' = IF res' = success THEN target ELSE fallback
    /\ UNCHANGED <<orig, job, fetched, chosen>>

(* One ping per pair of the list, in the map's unspecified order.          *)
Ping ==
    /\ pc = "ping"
    /\ \E p \in map_dns_info \ DOMAIN ping_t_ms, t \in Times \cup {time_out} :
         ping_t_ms' = [q \in DOMAIN ping_t_ms \cup {p} |->
                         IF q = p THEN t ELSE ping_t_ms[q]]
    /\ UNCHANGED <<machine, job, pc, res, n, map_dns_info, chosen>>

NoValidDns ==
    \/ map_dns_info = {}
    \/ \E p \in Fastest(map_dns_info, ping_t_ms) : ping_t_ms[p] = PING_TIMEOUT

(* Sort and pick the two fastest.                                          *)
Select ==
    /\ pc = "ping"
    /\ DOMAIN ping_t_ms = map_dns_info
    /\ ~ NoValidDns
    /\ \E p \in Fastest(map_dns_info, ping_t_ms) :
         LET rest == map_dns_info \ {p} IN
         /\ dns_1' = VipOf(p)
         /\ \/ /\ rest = {}
               /\ dns_2' = NoDns
            \/ \E q \in Fastest(rest, ping_t_ms) :
                 dns_2' = IF ping_t_ms[q] = PING_TIMEOUT THEN NoDns ELSE VipOf(q)
    /\ pc' = "list" /\ res' = success
    /\ UNCHANGED <<machine, job, fetched, target>>

SelectNone ==
    /\ pc = "ping"
    /\ DOMAIN ping_t_ms = map_dns_info
    /\ NoValidDns
    /\ Return(no_dns)
    /\ UNCHANGED <<machine, job, n, chosen>>

(* The second adapter query.  Its order may differ from the first one's:   *)
(* the sort key is the traffic counted since.                              *)
ListFails ==
    /\ pc = "list"
    /\ \E r \in AdapterListErrors \cup {no_adapter} : Return(r)
    /\ UNCHANGED <<machine, job, n, chosen>>

List ==
    /\ pc = "list"
    /\ \E a \in Adapter :
         /\ target' = a
         /\ dns_2' = IF dns_2 = NoDns THEN Backup(adapters[a], dns_1) ELSE dns_2
    /\ pc' = "switch" /\ res' = success
    /\ UNCHANGED <<machine, job, fetched, dns_1>>

Switch ==
    /\ pc = "switch"
    /\ switch_adapter_dns(target, dns_1, dns_2)
    /\ pc' = "idle"
    /\ map_dns_info' = {} /\ ping_t_ms' = NoTimes
    /\ UNCHANGED <<orig, fallback, job, n, chosen>>

-----------------------------------------------------------------------------
(* on_switch_dns(adapter_id, str_ip).                                      *)
on_switch_dns(a, str_ip) ==
    /\ pc = "idle"
    /\ job' = "manual" /\ pc' = "manual_list" /\ res' = success
    /\ n' = 0 /\ map_dns_info' = {} /\ ping_t_ms' = NoTimes
    /\ target' = a /\ dns_1' = str_ip /\ dns_2' = str_ip
    /\ orig' = adapters /\ fallback' = NoAdapter
    /\ UNCHANGED adapters

\* Mutant of ManualList: an id that is not listed any more falls back to the
\* first adapter of the list, as auto_select_dns does.
ManualListFirst ==
    /\ pc = "manual_list"
    /\ target' \in Adapter
    /\ dns_2' \in {dns_2, ManualBackup(adapters[target'], dns_1)}
    /\ pc' = "switch"
    /\ UNCHANGED <<machine, job, res, fetched, dns_1>>

\* The adapter query only improves dns_2: a failed query, or a list without
\* the adapter, leaves dns_2 = str_ip and the switch goes on.
ManualList ==
    /\ pc = "manual_list"
    /\ dns_2' \in {dns_2, ManualBackup(adapters[target], dns_1)}
    /\ pc' = "switch"
    /\ UNCHANGED <<machine, job, res, fetched, dns_1, target>>

Start ==
    \/ on_auto_done
    \/ \E a \in Adapter, ip \in Vip : on_switch_dns(a, ip)

Step ==
    \/ FetchSucceeds \/ FetchHttpFails \/ FetchGivesUp
    \/ FallbackListFails \/ FallbackList \/ FallbackSwitch
    \/ Ping \/ Select \/ SelectNone
    \/ ListFails \/ List \/ Switch
    \/ ManualList

Next == Start \/ Step

\* Every external call of a job returns: HTTP requests carry time limits, so do
\* pings no other job's overlap (DnsPing's EndlessOnlyByOverlap; the jobs of this
\* module run one at a time), and WMI calls complete or fail.  Nothing obliges the
\* user to start one.
Spec == Init /\ [][Next]_vars /\ WF_vars(Step)
-----------------------------------------------------------------------------
(* Properties.                                                             *)

ControlStates == {"idle", "fetch", "fallback_list", "fallback_switch",
                  "fallback_fetch", "ping", "list", "switch", "manual_list"}

\* Every variable keeps its type; measurements are only of pairs of the
\* fetched list (the locals of auto_select_dns and on_switch_dns).
TypeOK ==
    /\ adapters \in [Adapter -> AdapterInfo]
    /\ orig \in [Adapter -> AdapterInfo]
    /\ fallback \in Adapter \cup {NoAdapter}
    /\ job \in {"none", "auto", "manual"}
    /\ pc \in ControlStates
    /\ res \in Results
    /\ n \in 0..NET_WORK_INTERFACE_REQUEST_MAX_TIME
    /\ map_dns_info \subseteq Pair
    /\ DOMAIN ping_t_ms \subseteq map_dns_info
    /\ ping_t_ms \in [DOMAIN ping_t_ms -> Times \cup {time_out}]
    /\ dns_1 \in DnsField /\ dns_2 \in DnsField
    /\ target \in Adapter \cup {NoAdapter}

\* What the machine may look like before the job's own, final switch.
BeforeSwitch ==
    {orig} \cup (IF fallback = NoAdapter THEN {}
                 ELSE {Assign(orig, fallback, DEFAULT_DNS_1, DEFAULT_DNS_2)})

Finished == pc = "idle" /\ job # "none"

\* A job that fails (any early return of auto_select_dns or on_switch_dns)
\* leaves every adapter as it found it, except the one adapter it may have put
\* on the public servers, and that only after every request of the list failed.
\* A job that succeeds changes no more than its target, to the servers it chose.
JobEffect ==
    /\ fallback # NoAdapter => job = "auto" /\ n = NET_WORK_INTERFACE_REQUEST_MAX_TIME
    /\ ~ (Finished /\ res = success) => adapters \in BeforeSwitch
    /\ Finished /\ res = success =>
         \E before \in BeforeSwitch :
            adapters \in {before, Assign(before, target, dns_1, dns_2)}

\* auto_select_dns never leaves out a server that answered faster than one of
\* the two it is about to set, over all views of the list and all lost pings.  A
\* second place without an address goes to a backup that nobody measured.
BestTwoChosen ==
    job = "auto" /\ pc \in {"list", "switch"} =>
        \A p \in map_dns_info :
           VipOf(p) \notin {dns_1, dns_2, NoDns} /\ ping_t_ms[p] # PING_TIMEOUT =>
              \E q, r \in map_dns_info :
                 /\ q # r
                 /\ VipOf(q) = dns_1 /\ ping_t_ms[q] <= ping_t_ms[p]
                 /\ VipOf(r) \in {dns_2, NoDns} /\ ping_t_ms[r] <= ping_t_ms[p]

\* auto_select_dns sets one address twice only when the list itself names that
\* address in two views: every way of finding a backup avoids the first server.
BackupIsAnotherServer ==
    job = "auto" /\ pc = "switch" /\ dns_1 = dns_2 /\ dns_1 # NoDns =>
        \E p, q \in map_dns_info : p # q /\ VipOf(p) = dns_1 /\ VipOf(q) = dns_1

\* A pair that cannot give the second server: nothing checks the list's addresses.
Unusable(p) == VipOf(p) = NoDns \/ ping_t_ms[p] = PING_TIMEOUT

\* How an empty address reaches wmi's switch_adapter_dns: as first server when the
\* user or the list named it; as second in a manual job only together with the
\* first, in an automatic one only if the list held one pair or an unusable one and
\* the adapter is a static one without another server of its own.
EmptyOnlyWithoutAlternative ==
    pc = "switch" =>
        /\ dns_1 = NoDns => job = "manual" \/ \E p \in map_dns_info : VipOf(p) = NoDns
        /\ dns_2 = NoDns /\ job = "manual" => dns_1 = NoDns
        /\ dns_2 = NoDns /\ job = "auto" =>
             /\ \E p \in map_dns_info : map_dns_info = {p} \/ Unusable(p)
             /\ ~ adapters[target].dhcp
             /\ {adapters[target].dns_1, adapters[target].dns_2} \subseteq {NoDns, dns_1}

Applied ==
    /\ Finished /\ res = success
    /\ adapters[target].dns_1 = dns_1 /\ adapters[target].dns_2 = dns_2

\* Asking again for the first server a job has just set: on_switch_dns keeps the
\* second one.  auto_select_dns, when it finds no second server itself, keeps it too
\* but for two cases: an automatic adapter gets a public server in its place, and a
\* pair of equal servers leaves nothing to put there (the switch then fails).  What
\* it puts there stays: the choice settles instead of oscillating.
RepeatSettles ==
    Applied =>
        LET info  == adapters[target]
            again == Backup(info, dns_1)
        IN
        /\ ManualBackup(info, dns_1) = dns_2
        /\ again # dns_2 =>
              \/ info.dhcp /\ again \in {DEFAULT_DNS_1, DEFAULT_DNS_2}
              \/ ~ info.dhcp /\ dns_1 = dns_2 /\ again = NoDns
        /\ again # NoDns => Backup([info EXCEPT !.dns_2 = again], dns_1) = again

\* What a job promises (DnsJob), read off the variables of this specification.
Outcome ==
    IF job = "none" THEN "none"
    ELSE IF pc # "idle" THEN "running"
    ELSE IF res = success THEN "success" ELSE "failure"

Request == IF job = "manual" THEN <<target, dns_1>> ELSE <<>>

Job == INSTANCE DnsJob WITH
    NoRequest <- <<>>,
    Asked <- Vip,
    request <- Request,
    fell <- fallback # NoAdapter,
    outcome <- Outcome

\* auto_select_dns and on_switch_dns keep the promise of a job, its end included:
\* whatever fails, is repeated or is refused, the machine changes at most once
\* before the end, only in an automatic job and only to the public servers, and
\* once at the end, in a manual job only where the user asked.
KeepsPromise == Job!Spec

\* Retries, fallback and measuring come to an end: a job returns.
JobReturns == pc # "idle" ~> pc = "idle"

-----------------------------------------------------------------------------
(* What the program's own text says and the code does not keep.            *)

\* wmi.cpp asserts that both addresses are non-empty when a switch begins.
AssertDnsNotEmpty == pc = "switch" => NoDns \notin {dns_1, dns_2}

\* "No DNS to switch to" is the result when the fastest server timed out, so
\* auto_select_dns goes on only if some server answered.
GoesOnOnlyWithAnswer ==
    job = "auto" /\ pc = "list" => \E p \in map_dns_info : ping_t_ms[p] # time_out
=============================================================================
