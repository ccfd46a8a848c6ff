---------------------------- MODULE DnsSwitcher ----------------------------
(***************************************************************************)
(* dns_switcher and what it is built on: wmi_interface, with the COM       *)
(* objects it takes and gives back on every path, and performance_counter, *)
(* with the interface table that may change between its two queries.       *)
(*                                                                         *)
(* One call of get_adapter_list or switch_adapter_dns runs at a time; all  *)
(* it keeps is local, so calls of several threads meet on the machine only.*)
(* One action is one call into COM or Windows with what the code does next;*)
(* every such call may fail.  Meanwhile adapters come and go and traffic   *)
(* flows.                                                                  *)
(***************************************************************************)
EXTENDS Integers, Sequences, FiniteSets, SequencesExt

CONSTANTS
    Adapter,            \* rows of Win32_NetworkAdapterConfiguration
    IPEnabled,          \* those whose IPEnabled is not false
    index,              \* Index of each, its key
    interface_index,    \* InterfaceIndex of each, the key of the MIB table
    Address, NoDns,     \* DNS addresses, and the empty string
    InitServers,        \* what an adapter may be configured to at start-up
    WORD,               \* 2^16
    COUNTER,            \* 2^32, the values of dwInOctets
    ROWS                \* rows of the MIB table that belong to no adapter

ASSUME AdapterAssumption ==
    /\ IsFiniteSet(Adapter) /\ IPEnabled \subseteq Adapter
    /\ index \in [Adapter -> Nat] /\ interface_index \in [Adapter -> Nat]
    /\ \A a, b \in Adapter : a # b =>
         index[a] # index[b] /\ interface_index[a] # interface_index[b]
ASSUME AddressAssumption ==
    /\ NoDns \notin Address
    /\ InitServers \subseteq (Address \cup {NoDns}) \X (Address \cup {NoDns})
ASSUME WidthAssumption == WORD \in Nat \ {0} /\ COUNTER \in Nat \ {0} /\ ROWS \in Nat

VARIABLES
    present,    \* the machine: adapters plugged in
    servers,    \* the machine: the two DNS addresses of each adapter
    octets,     \* the machine: bytes received, per adapter
    call,       \* "none", "list" or "switch"
    pc, res,    \* where the call is, and its result
    held,       \* references taken less references given back, per pointer
    ptr,        \* pointer variables that are not null
    seen,       \* adapters the enumerator has returned
    vec_wmi,    \* vec_wmi_adapter_info
    dwSize,     \* rows the allocated table has room for
    vec,        \* the list returned
    target,     \* adapter behind pclsObj, or behind the id of switch_adapter_dns
    dns,        \* the addresses it was called with
    initfailed, \* history: initliaze_wmi of this call failed
    partial,    \* history: the enumeration or an item failed
    stayed,     \* history: adapters present all through this call
    shown,      \* history: counter values of each adapter during this call
    before      \* history: servers when the call began

machine == <<present, servers, octets>>
pointers == <<held, ptr>>
listing == <<seen, vec_wmi, dwSize, vec>>
arguments == <<call, target, dns>>
watched == <<stayed, shown, before>>
history == <<initfailed, partial, watched>>
vars == <<machine, pc, res, pointers, listing, arguments, history>>

success     == "result_success"
init_fail   == "result_wmi_initialize_fail"
enum_fail   == "result_enum_adapter_fail"
ip_invalid  == "result_dns_ip_invalid"
switch_fail == "result_switch_dns_ip_fail"
malloc_fail == "result_getiftalbe_malloc_fail"
table_fail  == "result_getiftalbe_fail"

NoAdapter == "none"

\* "com" counts CoInitializeEx, "table" is the buffer of GetIfTable.
MethodObjects == {"pClsObj", "pInParamsDefinition", "pClassInstance", "pOutParams"}
Ref == {"com", "pLoc", "pSvc", "pEnumerator", "pclsObj", "table"} \cup MethodObjects
NoRef == "none"

\* The calls into COM: what each takes, what it is made on, what comes next.
Call(takes, on, next) == [takes |-> takes, on |-> on, next |-> next]

InitCalls ==
    [CoInitializeEx       |-> Call("com", {}, "CoInitializeSecurity"),
     CoInitializeSecurity |-> Call(NoRef, {"com"}, "CoCreateInstance"),
     CoCreateInstance     |-> Call("pLoc", {"com"}, "ConnectServer"),
     ConnectServer        |-> Call("pSvc", {"pLoc"}, "CoSetProxyBlanket"),
     CoSetProxyBlanket    |-> Call(NoRef, {"pSvc"}, "initialized")]

MethodCalls ==
    [GetObject     |-> Call("pClsObj", {"pSvc"}, "GetMethod"),
     GetMethod     |-> Call("pInParamsDefinition", {"pClsObj"}, "SpawnInstance"),
     SpawnInstance |-> Call("pClassInstance", {"pInParamsDefinition"}, "Put"),
     Put           |-> Call(NoRef, {"pClassInstance"}, "ExecMethod")]

-----------------------------------------------------------------------------
(* Pure parts.                                                             *)

MAKELONG(a, b) == (a % WORD) + WORD * (b % WORD)
LOWORD(l) == l % WORD
id(a) == MAKELONG(index[a], interface_index[a])

Received(counters, i) == {c[2] : c \in {d \in counters : d[1] = i}}

\* Mutant of Row: without a row in the table the counter keeps a constructor's -1.
RowUnset(info, counters) ==
    LET found == Received(counters, interface_index[info.of]) IN
    [of |-> info.of, id |-> id(info.of), servers |-> info.servers,
     recv |-> IF found = {} THEN -1 ELSE CHOOSE r \in found : TRUE]

\* adapter_info of one wmi_adapter_info; no row in the table means no traffic.
Row(info, counters) ==
    LET found == Received(counters, interface_index[info.of]) IN
    [of |-> info.of, id |-> id(info.of), servers |-> info.servers,
     recv |-> IF found = {} THEN 0 ELSE CHOOSE r \in found : TRUE]

\* Mutant of BusierFirst: by bytes sent, say, or any other order.
NoOrder(s) == TRUE

\* The comparison of dns_switcher::get_adapter_list.
BusierFirst(s) == \A i, j \in DOMAIN s : i < j => s[i].recv >= s[j].recv

-----------------------------------------------------------------------------
Nothing == [r \in Ref |-> 0]

Init ==
    /\ present = Adapter
    /\ servers \in [Adapter -> InitServers]
    /\ octets = [a \in Adapter |-> 0]
    /\ call = "none" /\ pc = "idle" /\ res = success
    /\ held = Nothing /\ ptr = {}
    /\ seen = {} /\ vec_wmi = {} /\ dwSize = 0 /\ vec = <<>>
    /\ target = NoAdapter /\ dns = <<NoDns, NoDns>>
    /\ initfailed = FALSE /\ partial = FALSE
    /\ stayed = {} /\ shown = [a \in Adapter |-> {}] /\ before = servers

Take(r) ==
    /\ held' = IF r = NoRef THEN held ELSE [held EXCEPT ![r] = @ + 1]
    /\ ptr' = IF r = NoRef THEN ptr ELSE ptr \cup {r}

GiveBack(S) == held' = [r \in Ref |-> IF r \in S THEN held[r] - 1 ELSE held[r]]

get_adapter_list ==
    /\ pc = "idle"
    /\ call' = "list" /\ pc' = "CoInitializeEx" /\ res' = success
    /\ stayed' = present
    /\ shown' = [a \in Adapter |-> {octets[a]}]
    /\ UNCHANGED <<machine, pointers, listing, target, dns, initfailed, partial, before>>

\* switch_adapter_dns with an id of some earlier list; wmi_interface's refuses an
\* empty address before it does anything.
switch_adapter_dns(a, d) ==
    /\ pc = "idle"
    /\ call' = "switch" /\ target' = a /\ dns' = d
    /\ IF NoDns \in {d[1], d[2]}
       THEN pc' = "returned" /\ res' = ip_invalid
       ELSE pc' = "CoInitializeEx" /\ res' = success
    /\ before' = servers
    /\ UNCHANGED <<machine, pointers, listing, initfailed, partial, stayed, shown>>

\* The caller has its result; the locals are gone.
Return ==
    /\ pc = "returned"
    /\ call' = "none" /\ pc' = "idle" /\ res' = success
    /\ held' = Nothing /\ ptr' = {}
    /\ seen' = {} /\ vec_wmi' = {} /\ dwSize' = 0 /\ vec' = <<>>
    /\ target' = NoAdapter /\ dns' = <<NoDns, NoDns>>
    /\ initfailed' = FALSE /\ partial' = FALSE
    /\ stayed' = {} /\ shown' = [a \in Adapter |-> {}] /\ before' = servers
    /\ UNCHANGED machine

-----------------------------------------------------------------------------
(* initliaze_wmi and uninitialize_wmi.                                     *)

InitCall ==
    /\ pc \in DOMAIN InitCalls
    /\ LET c == InitCalls[pc] IN
         /\ Take(c.takes)
         /\ pc' = IF c.next # "initialized" THEN c.next
                  ELSE IF call = "list" THEN "ExecQuery" ELSE "GetObject"
    /\ UNCHANGED <<machine, res, listing, arguments, history>>

\* Whatever failed, what there is is released and COM uninitialised, and the
\* pointers keep their values.
InitFails ==
    /\ pc \in DOMAIN InitCalls
    /\ GiveBack({"com"} \cup (ptr \cap {"pLoc", "pSvc"}))
    /\ pc' = "uninitialize" /\ res' = init_fail
    /\ initfailed' = TRUE
    /\ UNCHANGED <<machine, ptr, listing, arguments, partial, watched>>

\* After a failed initialisation too.
uninitialize_wmi ==
    /\ pc = "uninitialize"
    /\ GiveBack({"com"} \cup (ptr \cap {"pLoc", "pSvc"}))
    /\ pc' = IF call = "list" /\ res = success THEN "GetIfTable_1" ELSE "returned"
    /\ UNCHANGED <<machine, res, ptr, listing, arguments, history>>

-----------------------------------------------------------------------------
(* wmi_interface::get_adapter_list.                                        *)

ExecQuery ==
    /\ pc = "ExecQuery"
    /\ Take("pEnumerator")
    /\ pc' = "Next"
    /\ UNCHANGED <<machine, res, listing, arguments, history>>

ExecQueryFails ==
    /\ pc = "ExecQuery"
    /\ pc' = "uninitialize" /\ res' = enum_fail
    /\ UNCHANGED <<machine, pointers, listing, arguments, history>>

NextItem ==
    /\ pc = "Next"
    /\ \E a \in present \ seen : seen' = seen \cup {a} /\ target' = a
    /\ Take("pclsObj")
    /\ pc' = "Get"
    /\ UNCHANGED <<machine, res, vec_wmi, dwSize, vec, call, dns, history>>

\* Mutant of NextEnds: the enumerator is forgotten.
NextEndsHeld ==
    /\ pc = "Next"
    /\ \/ present \subseteq seen /\ UNCHANGED partial
       \/ partial' = TRUE
    /\ pc' = "uninitialize" /\ res' = success
    /\ UNCHANGED <<machine, pointers, listing, arguments, initfailed, watched>>

\* No more objects, or Next failed: the two end the loop alike.
NextEnds ==
    /\ pc = "Next"
    /\ \/ present \subseteq seen /\ UNCHANGED partial
       \/ partial' = TRUE
    /\ GiveBack({"pEnumerator"})
    /\ pc' = "uninitialize" /\ res' = success
    /\ UNCHANGED <<machine, ptr, listing, arguments, initfailed, watched>>

\* Mutant of Push: adapters without IP are listed as well.
PushAny ==
    /\ pc = "Get"
    /\ vec_wmi' = vec_wmi \cup {[of |-> target, servers |-> servers[target]]}
    /\ UNCHANGED partial

Push ==
    /\ pc = "Get" /\ target \in IPEnabled
    /\ vec_wmi' = vec_wmi \cup {[of |-> target, servers |-> servers[target]]}
    /\ UNCHANGED partial

Skip ==
    /\ pc = "Get"
    /\ partial' = (partial \/ target \in IPEnabled)
    /\ UNCHANGED vec_wmi

\* The properties of one object: it is listed, or left out because it has no IP
\* or some property could not be read.
GetItem ==
    /\ Push \/ Skip
    /\ GiveBack({"pclsObj"})
    /\ pc' = "Next" /\ target' = NoAdapter
    /\ UNCHANGED <<machine, res, ptr, seen, dwSize, vec, call, dns, initfailed, watched>>

-----------------------------------------------------------------------------
(* performance_counter::get_adapter_performance, then the rest of          *)
(* dns_switcher::get_adapter_list.                                         *)

Rows == ROWS + Cardinality(present)
Counters == {<<interface_index[a], octets[a]>> : a \in present}

MallocFails ==
    /\ pc = "GetIfTable_1"
    /\ pc' = "returned" /\ res' = malloc_fail
    /\ UNCHANGED <<machine, pointers, listing, arguments, history>>

\* A buffer for one row; if that is too small, one as large as it says.  Any
\* other error is left to the second query.
GetIfTable_1 ==
    /\ pc = "GetIfTable_1"
    /\ Take("table")
    /\ dwSize' \in {1, IF Rows > 1 THEN Rows ELSE 1}
    /\ pc' = "GetIfTable_2"
    /\ UNCHANGED <<machine, res, seen, vec_wmi, vec, arguments, history>>

GetIfTable_2Fails ==
    /\ pc = "GetIfTable_2"
    /\ GiveBack({"table"})
    /\ pc' = "returned" /\ res' = table_fail
    /\ UNCHANGED <<machine, ptr, listing, arguments, history>>

\* Mutant of GetIfTable_2: a table that has grown is read as far as it fits.
GetIfTable_2Truncated ==
    /\ pc = "GetIfTable_2"
    /\ \E part \in {C \in SUBSET Counters : Cardinality(C) + ROWS <= dwSize} :
         vec' \in {s \in SetToSeqs({Row(i, part) : i \in vec_wmi}) : BusierFirst(s)}
    /\ pc' = "returned" /\ res' = success
    /\ UNCHANGED <<machine, pointers, seen, vec_wmi, dwSize, arguments, history>>

\* The table still fits: adapters are joined with their traffic and sorted.  The
\* table itself is not freed on this path.
GetIfTable_2 ==
    /\ pc = "GetIfTable_2" /\ Rows <= dwSize
    /\ vec' \in {s \in SetToSeqs({Row(i, Counters) : i \in vec_wmi}) : BusierFirst(s)}
    /\ pc' = "returned" /\ res' = success
    /\ UNCHANGED <<machine, pointers, seen, vec_wmi, dwSize, arguments, history>>

-----------------------------------------------------------------------------
(* wmi_interface::switch_adapter_dns.                                      *)

MethodCall ==
    /\ pc \in DOMAIN MethodCalls
    /\ Take(MethodCalls[pc].takes)
    /\ pc' = MethodCalls[pc].next
    /\ UNCHANGED <<machine, res, listing, arguments, history>>

ReleaseMethodObjects(S) ==
    /\ GiveBack(S \cap MethodObjects)
    /\ pc' = "uninitialize"

MethodFails ==
    /\ pc \in DOMAIN MethodCalls \cup {"ExecMethod"}
    /\ ReleaseMethodObjects(ptr)
    /\ res' = switch_fail
    /\ UNCHANGED <<machine, ptr, listing, arguments, history>>

\* Mutant of Addressed: the wrong half of the id.
AddressedByHigh(l) == {a \in present : index[a] = l \div WORD}

\* Win32_NetworkAdapterConfiguration.index=<low word of the id>
Addressed(l) == {a \in present : index[a] = LOWORD(l)}

\* ExecMethod succeeds; the method itself may have refused.  pOutParams is taken
\* and given back here.
ExecMethod ==
    /\ pc = "ExecMethod"
    /\ \E a \in Addressed(id(target)) :
         servers' \in {servers, [servers EXCEPT ![a] = dns]}
    /\ ReleaseMethodObjects(ptr)
    /\ res' = success
    /\ UNCHANGED <<present, octets, ptr, listing, arguments, history>>

-----------------------------------------------------------------------------
(* The machine.                                                            *)

Traffic(a) ==
    /\ a \in present
    /\ octets' = [octets EXCEPT ![a] = (@ + 1) % COUNTER]
    /\ shown' = [shown EXCEPT ![a] = IF call # "list" THEN {} ELSE @ \cup {octets'[a]}]
    /\ UNCHANGED <<present, servers, pc, res, pointers, listing, arguments,
                   initfailed, partial, stayed, before>>

Unplug(a) ==
    /\ a \in present
    /\ present' = present \ {a}
    /\ stayed' = stayed \ {a}
    /\ UNCHANGED <<servers, octets, pc, res, pointers, listing, arguments,
                   initfailed, partial, shown, before>>

\* An adapter comes back with its counters at zero.
Plug(a) ==
    /\ a \notin present
    /\ present' = present \cup {a}
    /\ octets' = [octets EXCEPT ![a] = 0]
    /\ shown' = [shown EXCEPT ![a] = IF call # "list" THEN {} ELSE @ \cup {0}]
    /\ UNCHANGED <<servers, pc, res, pointers, listing, arguments,
                   initfailed, partial, stayed, before>>

Code ==
    \/ Return \/ InitCall \/ InitFails \/ uninitialize_wmi
    \/ ExecQuery \/ ExecQueryFails \/ NextItem \/ GetItem \/ NextEnds
    \/ MallocFails \/ GetIfTable_1 \/ GetIfTable_2Fails \/ GetIfTable_2
    \/ MethodCall \/ MethodFails \/ ExecMethod

Machine == \E a \in Adapter : Traffic(a) \/ Unplug(a) \/ Plug(a)

Next ==
    \/ get_adapter_list
    \/ \E a \in Adapter, d \in Address \X (Address \cup {NoDns}) : switch_adapter_dns(a, d)
    \/ Code \/ Machine

Spec == Init /\ [][Next]_vars

-----------------------------------------------------------------------------
(* Properties.                                                             *)

Places ==
    DOMAIN InitCalls \cup DOMAIN MethodCalls \cup
    {"idle", "returned", "uninitialize", "ExecQuery", "Next", "Get",
     "GetIfTable_1", "GetIfTable_2", "ExecMethod"}

Results == {success, init_fail, enum_fail, ip_invalid, switch_fail, malloc_fail, table_fail}

\* Every variable keeps its type; a listed counter is a 32 bit one.
TypeOK ==
    /\ present \subseteq Adapter /\ stayed \subseteq present
    /\ servers \in [Adapter -> InitServers \cup (Address \X Address)]
    /\ octets \in [Adapter -> 0 .. COUNTER - 1]
    /\ call \in {"none", "list", "switch"} /\ pc \in Places /\ res \in Results
    /\ held \in [Ref -> -2 .. 1] /\ ptr \subseteq Ref
    /\ seen \subseteq Adapter
    /\ \A i \in vec_wmi : i.of \in seen
    /\ dwSize \in Nat
    /\ \A i \in DOMAIN vec : vec[i].recv \in 0 .. COUNTER - 1
    /\ target \in Adapter \cup {NoAdapter}

\* What the call at pc is made on.
On ==
    CASE pc \in DOMAIN InitCalls -> InitCalls[pc].on
      [] pc \in DOMAIN MethodCalls -> MethodCalls[pc].on
      [] pc = "ExecQuery" -> {"pSvc"}
      [] pc = "Next" -> {"pSvc", "pEnumerator"}
      [] pc = "Get" -> {"pEnumerator", "pclsObj"}
      [] pc = "ExecMethod" -> {"pSvc", "pClassInstance"}
      [] OTHER -> {}

\* wmi_interface calls nothing it does not hold, on any path through its nested
\* loops and early exits; a call that got past initliaze_wmi has given back all it
\* took, once.  After a failed initliaze_wmi everything is given back a second
\* time, and only then.  Of GetIfTable's buffer a successful list loses one.
ReferencesInOrder ==
    /\ \A r \in On : held[r] = 1
    /\ pc = "returned" /\ ~ initfailed =>
         \A r \in Ref : held[r] = IF r = "table" /\ call = "list" /\ res = success
                                  THEN 1 ELSE 0
    /\ (\E r \in Ref : held[r] < 0) => initfailed

Listed == pc = "returned" /\ call = "list" /\ res = success
Of(i) == vec[i].of

\* The list has every adapter with IP that was there all the time exactly once,
\* unless a failure that the result does not show cut the enumeration short.
ListComplete ==
    Listed =>
        /\ \A i, j \in DOMAIN vec : Of(i) = Of(j) => i = j
        /\ \A i \in DOMAIN vec : Of(i) \in IPEnabled
        /\ ~ partial => \A a \in stayed \cap IPEnabled : \E i \in DOMAIN vec : Of(i) = a

\* The traffic beside an adapter was its own at some moment of the call, however
\* adapters come and go between enumeration, size query and table.
TrafficIsOwn ==
    Listed => \A i \in DOMAIN vec :
        vec[i].recv \in shown[Of(i)] \cup (IF Of(i) \in stayed THEN {} ELSE {0})

\* No adapter stands behind one whose counter was lower throughout the call: the
\* first of the list, which auto_select_dns switches, is a busiest one.
BusiestFirst ==
    Listed => \A i, j \in DOMAIN vec : i < j /\ {Of(i), Of(j)} \subseteq stayed =>
        \E m \in shown[Of(i)], n \in shown[Of(j)] : m >= n

\* What dns_selector builds on: a switch that reports a failure has changed
\* nothing; one that reports success has set both addresses, of the adapter the
\* id came from, or nothing (WMI's method refused) - as long as the index fits in
\* a word.  A larger index reaches the adapter whose index is its low word.
SwitchContract ==
    pc = "returned" /\ call = "switch" =>
        IF res # success THEN servers = before
        ELSE \E a \in Adapter :
               /\ servers \in {before, [before EXCEPT ![a] = dns]}
               /\ index[a] = index[target] % WORD
               /\ index[target] < WORD => a = target
=============================================================================
