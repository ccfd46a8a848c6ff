------------------------- MODULE DnsSwitcherProofs -------------------------
(***************************************************************************)
(* DnsSwitcher for any adapters, indexes and widths: what a switch leaves  *)
(* behind, that references to COM objects are given back, and what stands  *)
(* in the list get_adapter_list returns.                                   *)
(***************************************************************************)
EXTENDS DnsSwitcher, FiniteSetTheorems, TLAPS

(***************************************************************************)
(* The id of an adapter and the word switch_adapter_dns takes out of it.   *)
(***************************************************************************)

LEMMA SmallMultiple ==
    ASSUME NEW w \in Nat \ {0}, NEW d \in Int, w * d < w, -w < w * d
    PROVE  d = 0
<1>1. d >= 1 => w * d >= w
  BY SMT
<1>2. d <= -1 => w * d <= -w
  BY SMT
<1> QED BY <1>1, <1>2, SMT

LEMMA RemainderOfSum ==
    ASSUME NEW w \in Nat \ {0}, NEW x \in 0 .. w - 1, NEW k \in Nat
    PROVE  (x + w * k) % w = x
<1> DEFINE s == x + w * k
           q == s \div w
           r == s % w
<1>1. s \in Nat
  BY SMT
<1>2. q \in Int /\ r \in 0 .. w - 1 /\ s = w * q + r
  BY <1>1, SMT
<1>3. w * (q - k) = x - r
  BY <1>2, SMT
<1>4. q - k = 0
  <2>1. w * (q - k) < w /\ -w < w * (q - k)
    BY <1>2, <1>3, SMT
  <2>2. q - k \in Int
    BY <1>2, SMT
  <2> HIDE DEF q
  <2> QED BY <2>1, <2>2, SmallMultiple
<1>5. x - r = 0
  BY <1>3, <1>4, SMT
<1> QED BY <1>2, <1>5, SMT

\* LOWORD(MAKELONG(a, b)) is a, as far as a fits in a word.
LEMMA LowWordOfLong ==
    ASSUME NEW a \in Nat, NEW b \in Nat
    PROVE  LOWORD(MAKELONG(a, b)) = a % WORD
<1>1. a % WORD \in 0 .. WORD - 1 /\ b % WORD \in Nat
  BY WidthAssumption, SMT
<1> QED BY <1>1, WidthAssumption, RemainderOfSum DEF LOWORD, MAKELONG

\* switch_adapter_dns reaches an adapter whose index has the low word of the one
\* asked for, and the one asked for if that fits in a word.
LEMMA AddressedIndex ==
    ASSUME NEW t \in Adapter, NEW a \in Addressed(id(t)), present \subseteq Adapter
    PROVE  /\ a \in Adapter
           /\ index[a] = index[t] % WORD
           /\ index[t] < WORD => a = t
<1>1. a \in Adapter /\ index[t] \in Nat /\ interface_index[t] \in Nat
  BY AdapterAssumption DEF Addressed
<1>2. index[a] = index[t] % WORD
  BY <1>1, LowWordOfLong DEF Addressed, id
<1>3. index[t] < WORD => index[t] % WORD = index[t]
  BY <1>1, WidthAssumption, SMT
<1> QED BY <1>1, <1>2, <1>3, AdapterAssumption

-----------------------------------------------------------------------------
(* The effect of a switch.                                                 *)

\* Where only a list, and only a switch, can be.
ListPlaces == {"ExecQuery", "Next", "Get", "GetIfTable_1", "GetIfTable_2"}
SwitchPlaces == {"GetObject", "GetMethod", "SpawnInstance", "Put", "ExecMethod"}

CallInv ==
    /\ present \subseteq Adapter
    /\ pc \in DOMAIN InitCalls => call \in {"list", "switch"}
    /\ pc \in ListPlaces => call = "list"
    /\ pc \in SwitchPlaces => call = "switch"
    /\ call = "switch" => target \in Adapter

\* The addresses of the adapter behind the id were set, or WMI refused.
Done ==
    \E a \in Adapter :
        /\ servers \in {before, [before EXCEPT ![a] = dns]}
        /\ index[a] = index[target] % WORD
        /\ index[target] < WORD => a = target

\* Until ExecMethod has succeeded nothing is changed, and no failure comes later.
EffectInv ==
    call = "switch" =>
        /\ pc \notin {"uninitialize", "returned"} => servers = before
        /\ res # success => servers = before
        /\ pc \in {"uninitialize", "returned"} /\ res = success => Done

ContractInv == CallInv /\ EffectInv

\* The names of the calls, and what comes after each.
LEMMA CallNames ==
    /\ DOMAIN InitCalls = {"CoInitializeEx", "CoInitializeSecurity", "CoCreateInstance",
                           "ConnectServer", "CoSetProxyBlanket"}
    /\ DOMAIN MethodCalls = {"GetObject", "GetMethod", "SpawnInstance", "Put"}
    /\ \A c \in DOMAIN InitCalls :
         InitCalls[c].next \in (DOMAIN InitCalls) \cup {"initialized"}
    /\ \A c \in DOMAIN MethodCalls :
         MethodCalls[c].next \in (DOMAIN MethodCalls) \cup {"ExecMethod"}
  BY DEF InitCalls, MethodCalls, Call

LEMMA InitContract == Init => ContractInv
  BY CallNames DEF Init, ContractInv, CallInv, EffectInv, ListPlaces, SwitchPlaces

LEMMA NextContract ==
    ASSUME ContractInv, [Next]_vars
    PROVE  ContractInv'
<1> USE CallNames DEF ContractInv, CallInv, EffectInv, ListPlaces, SwitchPlaces,
                      machine, pointers, listing, arguments, history, watched
<1>1. CASE get_adapter_list
  BY <1>1 DEF get_adapter_list
<1>2. ASSUME NEW a \in Adapter, NEW d, switch_adapter_dns(a, d)
      PROVE  ContractInv'
  BY <1>2 DEF switch_adapter_dns, success, ip_invalid
<1>3. CASE Return
  BY <1>3 DEF Return
<1>4. CASE InitCall
  <2>1. PICK next \in (DOMAIN InitCalls) \cup {"initialized"} :
          /\ next = InitCalls[pc].next
          /\ pc' = IF next # "initialized" THEN next
                   ELSE IF call = "list" THEN "ExecQuery" ELSE "GetObject"
    BY <1>4 DEF InitCall
  <2>2. call \in {"list", "switch"}
    BY <1>4 DEF InitCall
  <2> QED BY <1>4, <2>1, <2>2 DEF InitCall
<1>5. CASE InitFails
  BY <1>5 DEF InitFails, success, init_fail
<1>6. CASE uninitialize_wmi
  BY <1>6 DEF uninitialize_wmi, Done
<1>7. CASE ExecQuery \/ ExecQueryFails \/ NextItem \/ NextEnds
  BY <1>7 DEF ExecQuery, ExecQueryFails, NextItem, NextEnds
<1>8. CASE GetItem
  BY <1>8 DEF GetItem, Push, Skip
<1>9. CASE MallocFails \/ GetIfTable_1 \/ GetIfTable_2Fails \/ GetIfTable_2
  BY <1>9 DEF MallocFails, GetIfTable_1, GetIfTable_2Fails, GetIfTable_2
<1>10. CASE MethodCall
  BY <1>10 DEF MethodCall
<1>11. CASE MethodFails
  BY <1>11 DEF MethodFails, ReleaseMethodObjects, success, switch_fail
<1>12. CASE ExecMethod
  <2>1. PICK a \in Addressed(id(target)) :
          servers' \in {servers, [servers EXCEPT ![a] = dns]}
    BY <1>12 DEF ExecMethod
  <2>2. call = "switch" /\ pc = "ExecMethod" /\ target \in Adapter
    BY <1>12 DEF ExecMethod
  <2>3. /\ a \in Adapter
        /\ index[a] = index[target] % WORD
        /\ index[target] < WORD => a = target
    BY <2>2, AddressedIndex
  <2>4. UNCHANGED <<call, target, dns, before, present>>
    BY <1>12 DEF ExecMethod
  <2>5. Done'
    BY <2>1, <2>2, <2>3, <2>4 DEF Done
  <2>6. pc' = "uninitialize" /\ res' = success
    BY <1>12 DEF ExecMethod, ReleaseMethodObjects
  <2> QED BY <2>2, <2>4, <2>5, <2>6
<1>13. ASSUME NEW a \in Adapter, Traffic(a) \/ Unplug(a) \/ Plug(a)
       PROVE  ContractInv'
  BY <1>13 DEF Traffic, Unplug, Plug, Done
<1>14. CASE UNCHANGED vars
  BY <1>14 DEF vars, Done
<1> QED BY <1>1, <1>2, <1>3, <1>4, <1>5, <1>6, <1>7, <1>8, <1>9, <1>10, <1>11, <1>12,
           <1>13, <1>14 DEF Next, Code, Machine

(***************************************************************************)
(* What dns_selector builds on, for every width of the id: a switch that   *)
(* fails has changed nothing, one that succeeds its own adapter or none -  *)
(* or the one its index is cut down to.                                    *)
(***************************************************************************)
THEOREM SwitchKeepsContract == Spec => []SwitchContract
<1>1. ContractInv => SwitchContract
  BY DEF ContractInv, EffectInv, Done, SwitchContract
<1>2. ContractInv /\ [Next]_vars => ContractInv'
  BY NextContract
<1> QED BY InitContract, <1>1, <1>2, PTL DEF Spec

-----------------------------------------------------------------------------
(* References.                                                             *)

Base == {"com", "pLoc", "pSvc"}

Holds(S) == held = [r \in Ref |-> IF r \in S THEN 1 ELSE 0]
Exactly(S) == Holds(S) /\ ptr = S

\* What is held at each point of a call that got past initliaze_wmi, or is in it,
\* and the pointers that tell the clean-up what to release.
HeldInv ==
    /\ pc \in {"idle", "CoInitializeEx"} => Exactly({})
    /\ pc \in {"CoInitializeSecurity", "CoCreateInstance"} => Exactly({"com"})
    /\ pc = "ConnectServer" => Exactly({"com", "pLoc"})
    /\ pc \in {"CoSetProxyBlanket", "ExecQuery", "GetObject"} => Exactly(Base)
    /\ pc = "Next" => Holds(Base \cup {"pEnumerator"}) /\ Base \subseteq ptr
    /\ pc = "Get" => Holds(Base \cup {"pEnumerator", "pclsObj"}) /\ Base \subseteq ptr
    /\ pc = "GetMethod" => Exactly(Base \cup {"pClsObj"})
    /\ pc = "SpawnInstance" => Exactly(Base \cup {"pClsObj", "pInParamsDefinition"})
    /\ pc \in {"Put", "ExecMethod"} =>
         Exactly(Base \cup {"pClsObj", "pInParamsDefinition", "pClassInstance"})
    /\ pc = "uninitialize" => Holds(Base) /\ Base \subseteq ptr
    /\ pc = "GetIfTable_1" => Holds({})
    /\ pc = "GetIfTable_2" => Holds({"table"})
    /\ pc = "returned" =>
         Holds(IF call = "list" /\ res = success THEN {"table"} ELSE {})

RefInv ==
    /\ CallInv
    /\ pc \in Places
    /\ initfailed => pc \in {"uninitialize", "returned"} /\ res # success
    /\ ~ initfailed => HeldInv

\* The tables of calls, row by row.
LEMMA InitTable ==
    /\ InitCalls["CoInitializeEx"] =
         [takes |-> "com", on |-> {}, next |-> "CoInitializeSecurity"]
    /\ InitCalls["CoInitializeSecurity"] =
         [takes |-> NoRef, on |-> {"com"}, next |-> "CoCreateInstance"]
    /\ InitCalls["CoCreateInstance"] =
         [takes |-> "pLoc", on |-> {"com"}, next |-> "ConnectServer"]
    /\ InitCalls["ConnectServer"] =
         [takes |-> "pSvc", on |-> {"pLoc"}, next |-> "CoSetProxyBlanket"]
    /\ InitCalls["CoSetProxyBlanket"] =
         [takes |-> NoRef, on |-> {"pSvc"}, next |-> "initialized"]
  BY DEF InitCalls, Call

LEMMA MethodTable ==
    /\ MethodCalls["GetObject"] =
         [takes |-> "pClsObj", on |-> {"pSvc"}, next |-> "GetMethod"]
    /\ MethodCalls["GetMethod"] =
         [takes |-> "pInParamsDefinition", on |-> {"pClsObj"}, next |-> "SpawnInstance"]
    /\ MethodCalls["SpawnInstance"] =
         [takes |-> "pClassInstance", on |-> {"pInParamsDefinition"}, next |-> "Put"]
    /\ MethodCalls["Put"] =
         [takes |-> NoRef, on |-> {"pClassInstance"}, next |-> "ExecMethod"]
  BY DEF MethodCalls, Call

\* Taking and giving back, on the set that is held.
LEMMA TakeNothing == ASSUME NEW S, Exactly(S), Take(NoRef) PROVE Exactly(S)'
  BY DEF Exactly, Holds, Take

LEMMA TakeOne ==
    ASSUME NEW S, NEW r \in Ref, r \notin S, Exactly(S), Take(r)
    PROVE  Exactly(S \cup {r})'
<1>1. r # NoRef
  BY DEF Ref, NoRef, MethodObjects
<1> QED BY <1>1 DEF Exactly, Holds, Take

LEMMA GiveBackSome ==
    ASSUME NEW S, NEW T \in SUBSET S, Holds(S), GiveBack(T)
    PROVE  Holds(S \ T)'
  BY DEF Holds, GiveBack

\* One call of initliaze_wmi takes what the next one is made on.
LEMMA InitCallKeeps ==
    ASSUME RefInv, InitCall
    PROVE  ~ initfailed /\ ~ initfailed' /\ HeldInv' /\ pc' \in Places
<1> USE InitTable, CallNames DEF RefInv
<1>1. /\ ~ initfailed /\ initfailed' = initfailed /\ HeldInv
      /\ Take(InitCalls[pc].takes)
      /\ pc' = IF InitCalls[pc].next # "initialized" THEN InitCalls[pc].next
               ELSE IF call = "list" THEN "ExecQuery" ELSE "GetObject"
  BY DEF InitCall, history
<1>2. CASE pc = "CoInitializeEx"
  <2>1. Exactly({}) /\ Take("com") /\ pc' = "CoInitializeSecurity"
    BY <1>1, <1>2 DEF HeldInv
  <2>2. Exactly({} \cup {"com"})'
    BY <2>1, TakeOne DEF Ref
  <2>3. {} \cup {"com"} = {"com"}
    OBVIOUS
  <2> QED BY <1>1, <2>1, <2>2, <2>3 DEF HeldInv, Places
<1>3. CASE pc = "CoInitializeSecurity"
  <2>1. Exactly({"com"})' /\ pc' = "CoCreateInstance"
    BY <1>1, <1>3, TakeNothing DEF HeldInv
  <2> QED BY <1>1, <2>1 DEF HeldInv, Places
<1>4. CASE pc = "CoCreateInstance"
  <2>1. Exactly({"com"}) /\ Take("pLoc") /\ pc' = "ConnectServer"
    BY <1>1, <1>4 DEF HeldInv
  <2>2. Exactly({"com"} \cup {"pLoc"})'
    BY <2>1, TakeOne DEF Ref
  <2>3. {"com"} \cup {"pLoc"} = {"com", "pLoc"}
    OBVIOUS
  <2> QED BY <1>1, <2>1, <2>2, <2>3 DEF HeldInv, Places
<1>5. CASE pc = "ConnectServer"
  <2>1. Exactly({"com", "pLoc"}) /\ Take("pSvc") /\ pc' = "CoSetProxyBlanket"
    BY <1>1, <1>5 DEF HeldInv
  <2>2. Exactly({"com", "pLoc"} \cup {"pSvc"})'
    BY <2>1, TakeOne DEF Ref
  <2>3. {"com", "pLoc"} \cup {"pSvc"} = Base
    BY DEF Base
  <2> QED BY <1>1, <2>1, <2>2, <2>3 DEF HeldInv, Places
<1>6. CASE pc = "CoSetProxyBlanket"
  <2>1. Exactly(Base)' /\ pc' \in {"ExecQuery", "GetObject"}
    BY <1>1, <1>6, TakeNothing DEF HeldInv
  <2> QED BY <1>1, <2>1 DEF HeldInv, Places
<1> QED BY <1>2, <1>3, <1>4, <1>5, <1>6 DEF InitCall

\* The same for the calls of switch_adapter_dns.
LEMMA MethodCallKeeps ==
    ASSUME RefInv, MethodCall
    PROVE  ~ initfailed /\ ~ initfailed' /\ HeldInv' /\ pc' \in Places
<1> USE MethodTable, CallNames DEF RefInv
<1>1. /\ ~ initfailed /\ initfailed' = initfailed /\ HeldInv
      /\ Take(MethodCalls[pc].takes) /\ pc' = MethodCalls[pc].next
  BY DEF MethodCall, history
<1>2. CASE pc = "GetObject"
  <2>1. Exactly(Base) /\ Take("pClsObj") /\ pc' = "GetMethod"
    BY <1>1, <1>2 DEF HeldInv
  <2>2. Exactly(Base \cup {"pClsObj"})'
    BY <2>1, TakeOne DEF Ref, MethodObjects, Base
  <2> QED BY <1>1, <2>1, <2>2 DEF HeldInv, Places
<1>3. CASE pc = "GetMethod"
  <2>1. /\ Exactly(Base \cup {"pClsObj"}) /\ Take("pInParamsDefinition")
        /\ pc' = "SpawnInstance"
    BY <1>1, <1>3 DEF HeldInv
  <2>2. Exactly((Base \cup {"pClsObj"}) \cup {"pInParamsDefinition"})'
    BY <2>1, TakeOne DEF Ref, MethodObjects, Base
  <2>3. (Base \cup {"pClsObj"}) \cup {"pInParamsDefinition"}
          = Base \cup {"pClsObj", "pInParamsDefinition"}
    OBVIOUS
  <2> QED BY <1>1, <2>1, <2>2, <2>3 DEF HeldInv, Places
<1>4. CASE pc = "SpawnInstance"
  <2>1. /\ Exactly(Base \cup {"pClsObj", "pInParamsDefinition"})
        /\ Take("pClassInstance") /\ pc' = "Put"
    BY <1>1, <1>4 DEF HeldInv
  <2>2. Exactly((Base \cup {"pClsObj", "pInParamsDefinition"}) \cup {"pClassInstance"})'
    BY <2>1, TakeOne DEF Ref, MethodObjects, Base
  <2>3. (Base \cup {"pClsObj", "pInParamsDefinition"}) \cup {"pClassInstance"}
          = Base \cup {"pClsObj", "pInParamsDefinition", "pClassInstance"}
    OBVIOUS
  <2> QED BY <1>1, <2>1, <2>2, <2>3 DEF HeldInv, Places
<1>5. CASE pc = "Put"
  <2>1. /\ Exactly(Base \cup {"pClsObj", "pInParamsDefinition", "pClassInstance"})'
        /\ pc' = "ExecMethod"
    BY <1>1, <1>5, TakeNothing DEF HeldInv
  <2> QED BY <1>1, <2>1 DEF HeldInv, Places
<1> QED BY <1>2, <1>3, <1>4, <1>5 DEF MethodCall

\* The clean-up of switch_adapter_dns releases what its pointers say it holds.
LEMMA ReleaseKeeps ==
    ASSUME RefInv, pc \in SwitchPlaces, ReleaseMethodObjects(ptr)
    PROVE  Holds(Base)' /\ Base \subseteq ptr
<1>1. PICK S \in SUBSET MethodObjects : Exactly(Base \cup S)
  <2>1. ~ initfailed
    BY DEF RefInv, SwitchPlaces
  <2>2. CASE pc = "GetObject"
    <3>1. Base = Base \cup {}
      OBVIOUS
    <3>2. Exactly(Base)
      BY <2>1, <2>2 DEF RefInv, HeldInv
    <3> QED BY <3>1, <3>2
  <2>3. CASE pc # "GetObject"
    BY <2>1, <2>3 DEF RefInv, HeldInv, SwitchPlaces, MethodObjects
  <2> QED BY <2>2, <2>3
<1>2. ptr = Base \cup S /\ ptr \cap MethodObjects = S
  BY <1>1 DEF Exactly, Base, MethodObjects
<1>3. Holds((Base \cup S) \ S)'
  BY <1>1, <1>2, GiveBackSome DEF Exactly, ReleaseMethodObjects
<1>4. (Base \cup S) \ S = Base
  BY DEF Base, MethodObjects
<1> QED BY <1>2, <1>3, <1>4

LEMMA InitReferences == Init => RefInv
<1> SUFFICES ASSUME Init PROVE RefInv
  OBVIOUS
<1>1. CallInv
  BY InitContract DEF ContractInv
<1>2. Exactly({})
  BY DEF Init, Nothing, Exactly, Holds
<1> QED BY <1>1, <1>2 DEF Init, RefInv, HeldInv, Places

\* uninitialize_wmi, after an initialisation that did not fail.
LEMMA UninitializeKeeps ==
    ASSUME RefInv, uninitialize_wmi, ~ initfailed
    PROVE  HeldInv'
<1>1. Holds(Base) /\ ptr \cap {"pLoc", "pSvc"} = {"pLoc", "pSvc"}
  BY DEF uninitialize_wmi, RefInv, HeldInv, Base
<1>2. GiveBack(Base)
  <2>1. {"com"} \cup {"pLoc", "pSvc"} = Base
    BY DEF Base
  <2> QED BY <1>1, <2>1 DEF uninitialize_wmi
<1>3. Holds({})'
  <2>1. Base \ Base = {} /\ Base \in SUBSET Base
    OBVIOUS
  <2> QED BY <1>1, <1>2, <2>1, GiveBackSome
<1>4. /\ pc' = IF call = "list" /\ res = success THEN "GetIfTable_1" ELSE "returned"
      /\ call' = call /\ res' = res
  BY DEF uninitialize_wmi, arguments
<1>5. CASE call = "list" /\ res = success
  BY <1>3, <1>4, <1>5 DEF HeldInv
<1>6. CASE ~ (call = "list" /\ res = success)
  <2>1. (IF call = "list" /\ res = success THEN {"table"} ELSE {})' = {}
    BY <1>4, <1>6
  <2> QED BY <1>3, <1>4, <1>6, <2>1 DEF HeldInv
<1> QED BY <1>5, <1>6

\* The walk over the enumeration.
LEMMA EnumerationKeeps ==
    ASSUME RefInv, ExecQuery \/ NextItem \/ GetItem \/ NextEnds
    PROVE  HeldInv' /\ pc' \in Places /\ initfailed' = initfailed
<1> USE DEF RefInv, Places, history
<1>1. ~ initfailed /\ HeldInv
  <2>1. pc \in {"ExecQuery", "Next", "Get"}
    BY DEF ExecQuery, NextItem, GetItem, Push, Skip, NextEnds
  <2> QED BY <2>1
<1>2. CASE ExecQuery
  <2>1. Exactly(Base) /\ Take("pEnumerator") /\ pc' = "Next"
    BY <1>1, <1>2 DEF ExecQuery, HeldInv
  <2>2. Exactly(Base \cup {"pEnumerator"})'
    BY <2>1, TakeOne DEF Ref, Base
  <2> QED BY <1>2, <2>1, <2>2 DEF ExecQuery, HeldInv, Exactly
<1>3. CASE NextItem
  <2>1. /\ Holds(Base \cup {"pEnumerator"}) /\ Base \subseteq ptr
        /\ Take("pclsObj") /\ pc' = "Get" /\ initfailed' = initfailed
    BY <1>1, <1>3 DEF NextItem, HeldInv
  <2>2. held' = [held EXCEPT !["pclsObj"] = @ + 1] /\ ptr' = ptr \cup {"pclsObj"}
    BY <2>1 DEF Take, NoRef
  <2>3. Holds(Base \cup {"pEnumerator", "pclsObj"})'
    BY <2>1, <2>2 DEF Holds, Base
  <2> QED BY <2>1, <2>2, <2>3 DEF HeldInv
<1>4. CASE GetItem
  <2>1. /\ Holds(Base \cup {"pEnumerator", "pclsObj"}) /\ Base \subseteq ptr
        /\ GiveBack({"pclsObj"}) /\ pc' = "Next" /\ UNCHANGED <<ptr, initfailed>>
    BY <1>1, <1>4 DEF GetItem, Push, Skip, HeldInv
  <2>2. Holds(Base \cup {"pEnumerator"})'
    BY <2>1 DEF Holds, GiveBack, Ref, Base
  <2> QED BY <2>1, <2>2 DEF HeldInv
<1>5. CASE NextEnds
  <2>1. /\ Holds(Base \cup {"pEnumerator"}) /\ Base \subseteq ptr
        /\ GiveBack({"pEnumerator"}) /\ pc' = "uninitialize" /\ UNCHANGED <<ptr, initfailed>>
    BY <1>1, <1>5 DEF NextEnds, HeldInv
  <2>2. Holds(Base)'
    BY <2>1 DEF Holds, GiveBack, Ref, Base
  <2> QED BY <2>1, <2>2 DEF HeldInv
<1> QED BY <1>2, <1>3, <1>4, <1>5

\* performance_counter's buffer.
LEMMA TableKeeps ==
    ASSUME RefInv, MallocFails \/ GetIfTable_1 \/ GetIfTable_2Fails \/ GetIfTable_2
    PROVE  HeldInv' /\ pc' \in Places /\ initfailed' = initfailed
<1> USE DEF Places
<1>1. /\ ~ initfailed /\ HeldInv /\ call = "list"
      /\ initfailed' = initfailed /\ call' = call
  <2>1. pc \in {"GetIfTable_1", "GetIfTable_2"}
    BY DEF MallocFails, GetIfTable_1, GetIfTable_2Fails, GetIfTable_2
  <2>2. initfailed' = initfailed /\ call' = call
    BY DEF MallocFails, GetIfTable_1, GetIfTable_2Fails, GetIfTable_2, history, arguments
  <2> QED BY <2>1, <2>2 DEF RefInv, CallInv, ListPlaces
<1>2. CASE MallocFails
  <2>1. Holds({}) /\ held' = held /\ pc' = "returned" /\ res' # success
    BY <1>1, <1>2 DEF MallocFails, HeldInv, pointers, malloc_fail, success
  <2> QED BY <1>1, <2>1 DEF HeldInv, Holds
<1>3. CASE GetIfTable_1
  <2>1. Holds({}) /\ Take("table") /\ pc' = "GetIfTable_2"
    BY <1>1, <1>3 DEF GetIfTable_1, HeldInv
  <2>2. held' = [held EXCEPT !["table"] = @ + 1]
    BY <2>1 DEF Take, NoRef
  <2>3. Holds({"table"})'
    BY <2>1, <2>2 DEF Holds
  <2> QED BY <1>1, <2>1, <2>3 DEF HeldInv
<1>4. CASE GetIfTable_2Fails
  <2>1. /\ Holds({"table"}) /\ GiveBack({"table"})
        /\ pc' = "returned" /\ res' # success
    BY <1>1, <1>4 DEF GetIfTable_2Fails, HeldInv, table_fail, success
  <2>2. Holds({})'
    BY <2>1 DEF Holds, GiveBack
  <2> QED BY <1>1, <2>1, <2>2 DEF HeldInv
<1>5. CASE GetIfTable_2
  <2>1. Holds({"table"}) /\ held' = held /\ pc' = "returned" /\ res' = success
    BY <1>1, <1>5 DEF GetIfTable_2, HeldInv, pointers
  <2> QED BY <1>1, <2>1 DEF HeldInv, Holds
<1> QED BY <1>2, <1>3, <1>4, <1>5

LEMMA NextReferences ==
    ASSUME RefInv, CallInv', [Next]_vars
    PROVE  RefInv'
<1> USE DEF RefInv
<1>1. CASE get_adapter_list
  <2>1. ~ initfailed /\ Exactly({})
    BY <1>1 DEF get_adapter_list, HeldInv
  <2>2. UNCHANGED <<held, ptr, initfailed>> /\ pc' = "CoInitializeEx"
    BY <1>1 DEF get_adapter_list, pointers
  <2> QED BY <2>1, <2>2 DEF HeldInv, Exactly, Holds, Places, InitCalls
<1>2. ASSUME NEW a \in Adapter, NEW d, switch_adapter_dns(a, d)
      PROVE  RefInv'
  <2>1. ~ initfailed /\ Exactly({})
    BY <1>2 DEF switch_adapter_dns, HeldInv
  <2>2. /\ UNCHANGED <<held, ptr, initfailed>> /\ call' = "switch"
        /\ pc' \in {"returned", "CoInitializeEx"}
    BY <1>2 DEF switch_adapter_dns, pointers
  <2> QED BY <2>1, <2>2 DEF HeldInv, Exactly, Holds, Places, InitCalls
<1>3. CASE Return
  BY <1>3 DEF Return, HeldInv, Exactly, Holds, Nothing, Places
<1>4. CASE InitCall
  BY <1>4, InitCallKeeps
<1>5. CASE InitFails
  BY <1>5 DEF InitFails, Places, init_fail, success
<1>6. CASE uninitialize_wmi
  <2>1. pc' \in Places /\ UNCHANGED <<initfailed, res>>
    BY <1>6 DEF uninitialize_wmi, Places, history
  <2>2. initfailed => pc' = "returned"
    BY <1>6 DEF uninitialize_wmi
  <2> QED BY <1>6, <2>1, <2>2, UninitializeKeeps
<1>7. CASE ExecQuery \/ NextItem \/ GetItem \/ NextEnds
  <2>1. ~ initfailed
    <3>1. pc \in {"ExecQuery", "Next", "Get"}
      BY <1>7 DEF ExecQuery, NextItem, GetItem, Push, Skip, NextEnds
    <3> QED BY <3>1
  <2> QED BY <1>7, <2>1, EnumerationKeeps
<1>8. CASE ExecQueryFails
  BY <1>8 DEF ExecQueryFails, HeldInv, Exactly, Holds, Places, pointers, history
<1>9. CASE MallocFails \/ GetIfTable_1 \/ GetIfTable_2Fails \/ GetIfTable_2
  <2>1. ~ initfailed
    <3>1. pc \in {"GetIfTable_1", "GetIfTable_2"}
      BY <1>9 DEF MallocFails, GetIfTable_1, GetIfTable_2Fails, GetIfTable_2
    <3> QED BY <3>1
  <2> QED BY <1>9, <2>1, TableKeeps
<1>10. CASE MethodCall
  BY <1>10, MethodCallKeeps
<1>11. CASE MethodFails \/ ExecMethod
  <2>1. /\ pc \in SwitchPlaces /\ ReleaseMethodObjects(ptr)
        /\ UNCHANGED <<ptr, initfailed>>
    BY <1>11, CallNames DEF MethodFails, ExecMethod, SwitchPlaces, history
  <2>2. Holds(Base)' /\ Base \subseteq ptr'
    BY <2>1, ReleaseKeeps
  <2>3. pc' = "uninitialize" /\ ~ initfailed
    BY <2>1 DEF ReleaseMethodObjects, SwitchPlaces
  <2> QED BY <2>1, <2>2, <2>3 DEF HeldInv, Places
<1>12. CASE Machine \/ UNCHANGED vars
  <2>1. UNCHANGED <<pc, held, ptr, initfailed, call, res>>
    BY <1>12 DEF Machine, Traffic, Unplug, Plug, vars, pointers, arguments, history
  <2> QED BY <2>1 DEF HeldInv, Exactly, Holds
<1> QED BY <1>1, <1>2, <1>3, <1>4, <1>5, <1>6, <1>7, <1>8, <1>9, <1>10, <1>11, <1>12
        DEF Next, Code

\* What is held where a call is made, and on return.
LEMMA HeldIsEnough == RefInv => ReferencesInOrder
<1> SUFFICES ASSUME RefInv PROVE ReferencesInOrder
  OBVIOUS
<1>1. \A r \in On : held[r] = 1
  <2>1. CASE initfailed
    <3>1. On = {}
      BY <2>1, CallNames DEF RefInv, On
    <3> QED BY <3>1
  <2>2. CASE ~ initfailed
    <3> USE <2>2 DEF RefInv, HeldInv, Exactly, Holds, Ref, MethodObjects, Base
    <3>1. CASE pc \in DOMAIN InitCalls
      <4>1. On = InitCalls[pc].on
        BY <3>1, CallNames DEF On
      <4> QED BY <3>1, <4>1, CallNames, InitTable
    <3>2. CASE pc \in DOMAIN MethodCalls
      <4>1. On = MethodCalls[pc].on
        BY <3>2, CallNames DEF On
      <4> QED BY <3>2, <4>1, CallNames, MethodTable
    <3>3. CASE pc \in {"ExecQuery", "Next", "Get", "ExecMethod"}
      BY <3>3, CallNames DEF On
    <3>4. CASE pc \in {"idle", "returned", "uninitialize", "GetIfTable_1", "GetIfTable_2"}
      <4>1. On = {}
        BY <3>4, CallNames DEF On
      <4> QED BY <4>1
    <3> QED BY <3>1, <3>2, <3>3, <3>4 DEF Places
  <2> QED BY <2>1, <2>2
<1>2. pc = "returned" /\ ~ initfailed =>
        \A r \in Ref : held[r] = IF r = "table" /\ call = "list" /\ res = success
                                 THEN 1 ELSE 0
  BY DEF RefInv, HeldInv, Holds
<1>3. (\E r \in Ref : held[r] < 0) => initfailed
  BY DEF RefInv, HeldInv, Exactly, Holds, Places, InitCalls, MethodCalls
<1> QED BY <1>1, <1>2, <1>3 DEF ReferencesInOrder

(***************************************************************************)
(* wmi_interface makes no call on an object it does not hold and gives     *)
(* back what it took, whatever fails - except on and after a failed        *)
(* initliaze_wmi, and except GetIfTable's buffer.                          *)
(***************************************************************************)
THEOREM ReferencesStayInOrder == Spec => []ReferencesInOrder
<1>1. Init => ContractInv /\ RefInv
  BY InitContract, InitReferences
<1>2. ContractInv /\ RefInv /\ [Next]_vars => (ContractInv /\ RefInv)'
  <2> SUFFICES ASSUME ContractInv, RefInv, [Next]_vars PROVE ContractInv' /\ RefInv'
    OBVIOUS
  <2>1. ContractInv'
    BY NextContract
  <2>2. CallInv'
    BY <2>1 DEF ContractInv
  <2> QED BY <2>1, <2>2, NextReferences
<1> QED BY <1>1, <1>2, HeldIsEnough, PTL DEF Spec

-----------------------------------------------------------------------------
(* The list.                                                               *)

\* A sequence of SetToSeqs holds every element of its set, and each once.
LEMMA SeqsAreListings ==
    ASSUME NEW S, IsFiniteSet(S), NEW s \in SetToSeqs(S)
    PROVE  /\ \A i \in DOMAIN s : s[i] \in S
           /\ \A i, j \in DOMAIN s : s[i] = s[j] => i = j
           /\ \A x \in S : \E i \in DOMAIN s : s[i] = x
<1> DEFINE D == 1 .. Cardinality(S)
<1>1. s \in [D -> S] /\ \A i, j \in D : i # j => s[i] # s[j]
  BY DEF SetToSeqs
<1>2. Cardinality(S) \in Nat
  BY FS_CardinalityType
<1>3. Cardinality(D) = Cardinality(S)
  <2> DEFINE c == Cardinality(S)
  <2>1. Cardinality(1 .. c) = IF 1 > c THEN 0 ELSE c - 1 + 1
    BY <1>2, FS_Interval, SMT
  <2>2. c \in Nat
    BY <1>2
  <2> HIDE DEF c
  <2>3. Cardinality(1 .. c) = c
    BY <2>1, <2>2
  <2> QED BY <2>3 DEF c
<1>4. s \in Injection(D, S)
  BY <1>1 DEF Injection, IsInjective
<1>5. s \in Surjection(D, S)
  BY <1>3, <1>4, FS_Injection
<1> QED BY <1>1, <1>5 DEF Surjection

\* The rows made of the enumerated adapters are as many as those, at most.
LEMMA RowsAreFinite ==
    ASSUME IsFiniteSet(vec_wmi), NEW counters
    PROVE  IsFiniteSet({Row(i, counters) : i \in vec_wmi})
<1> DEFINE f == [i \in vec_wmi |-> Row(i, counters)]
           T == {Row(i, counters) : i \in vec_wmi}
<1>1. f \in Surjection(vec_wmi, T)
  BY DEF Surjection
<1> QED BY <1>1, FS_Surjection

\* The number of rows is one, and what the table counts for an adapter is its own.
LEMMA RowCountType == ASSUME present \subseteq Adapter PROVE Rows \in Nat
<1>1. IsFiniteSet(present)
  BY AdapterAssumption, FS_Subset
<1> QED BY <1>1, FS_CardinalityType, WidthAssumption DEF Rows

LEMMA OwnCounter ==
    ASSUME present \subseteq Adapter, NEW a \in Adapter
    PROVE  Received(Counters, interface_index[a]) = IF a \in present THEN {octets[a]} ELSE {}
<1>1. \A b \in present : interface_index[b] = interface_index[a] => b = a
  BY AdapterAssumption
<1>2. ASSUME NEW c \in Counters, c[1] = interface_index[a]
      PROVE  a \in present /\ c[2] = octets[a]
  <2>1. PICK b \in present : c = <<interface_index[b], octets[b]>>
    BY DEF Counters
  <2> QED BY <1>1, <1>2, <2>1
<1>3. ASSUME a \in present
      PROVE  octets[a] \in Received(Counters, interface_index[a])
  <2> DEFINE c == <<interface_index[a], octets[a]>>
  <2>1. c \in Counters /\ c[1] = interface_index[a] /\ c[2] = octets[a]
    BY <1>3 DEF Counters
  <2> QED BY <2>1 DEF Received
<1>4. \A r \in Received(Counters, interface_index[a]) : a \in present /\ r = octets[a]
  BY <1>2 DEF Received
<1> QED BY <1>3, <1>4

LEMMA RowOfAdapter ==
    ASSUME present \subseteq Adapter, NEW info, info.of \in Adapter
    PROVE  /\ Row(info, Counters).of = info.of
           /\ Row(info, Counters).recv
                = IF info.of \in present THEN octets[info.of] ELSE 0
<1>1. Received(Counters, interface_index[info.of])
        = IF info.of \in present THEN {octets[info.of]} ELSE {}
  BY OwnCounter
<1> QED BY <1>1 DEF Row

\* The machine under a call: while a list is made, what its adapters count now is
\* among the values its caller may see.
MachineInv ==
    /\ present \subseteq Adapter /\ stayed \subseteq present /\ seen \subseteq Adapter
    /\ octets \in [Adapter -> 0 .. COUNTER - 1]
    /\ shown \in [Adapter -> SUBSET (0 .. COUNTER - 1)]
    /\ call = "list" => \A a \in present : octets[a] \in shown[a]

\* The enumeration: one wmi_adapter_info for every adapter with IP it has passed,
\* and every adapter that stayed passed, unless something failed on the way.
EnumInv ==
    /\ IsFiniteSet(vec_wmi)
    /\ \A i \in vec_wmi : i.of \in seen \cap IPEnabled
    /\ \A i, j \in vec_wmi : i.of = j.of => i = j
    /\ pc = "Get" => target \in seen /\ \A i \in vec_wmi : i.of # target
    /\ ~ partial => \A a \in seen \cap IPEnabled :
         (pc = "Get" /\ a = target) \/ \E i \in vec_wmi : i.of = a
    /\ (\/ pc = "uninitialize" /\ call = "list" /\ res = success
        \/ pc \in {"GetIfTable_1", "GetIfTable_2"})
       => (partial \/ stayed \subseteq seen)

InOrder == \A i, j \in DOMAIN vec : i < j => vec[i].recv >= vec[j].recv

\* The list returned, until its caller has it.
ReturnedInv == Listed => ListComplete /\ TrafficIsOwn /\ InOrder

ListInv == ContractInv /\ MachineInv /\ EnumInv /\ ReturnedInv

LEMMA InitList == Init => ListInv
<1> SUFFICES ASSUME Init PROVE ListInv
  OBVIOUS
<1>1. ContractInv
  BY InitContract
<1>2. MachineInv
  BY WidthAssumption DEF Init, MachineInv
<1>3. EnumInv /\ ReturnedInv
  BY FS_EmptySet DEF Init, EnumInv, ReturnedInv, Listed
<1> QED BY <1>1, <1>2, <1>3 DEF ListInv

\* What the counters show, through traffic, unplugging and plugging in.
LEMMA MachineKeeps ==
    ASSUME MachineInv, [Next]_vars
    PROVE  MachineInv'
<1> USE DEF MachineInv, machine, pointers, listing, arguments, history, watched
<1>1. CASE get_adapter_list
  BY <1>1 DEF get_adapter_list
<1>2. ASSUME NEW a \in Adapter, NEW d, switch_adapter_dns(a, d)
      PROVE  MachineInv'
  BY <1>2 DEF switch_adapter_dns
<1>3. CASE Return
  BY <1>3 DEF Return
<1>4. CASE NextItem
  BY <1>4 DEF NextItem
<1>5. CASE Code /\ ~ Return /\ ~ NextItem
  <2>1. UNCHANGED <<present, octets, stayed, shown, seen, call>>
    BY <1>5 DEF Code, InitCall, InitFails, uninitialize_wmi, ExecQuery, ExecQueryFails,
                GetItem, NextEnds, MallocFails, GetIfTable_1, GetIfTable_2Fails,
                GetIfTable_2, MethodCall, MethodFails, ExecMethod
  <2> QED BY <2>1
<1>6. ASSUME NEW a \in Adapter, Traffic(a)
      PROVE  MachineInv'
  <2>1. (octets[a] + 1) % COUNTER \in 0 .. COUNTER - 1
    BY WidthAssumption, SMT
  <2>2. octets'[a] = (octets[a] + 1) % COUNTER
    BY <1>6 DEF Traffic
  <2> QED BY <1>6, <2>1, <2>2 DEF Traffic
<1>7. ASSUME NEW a \in Adapter, Unplug(a)
      PROVE  MachineInv'
  BY <1>7 DEF Unplug
<1>8. ASSUME NEW a \in Adapter, Plug(a)
      PROVE  MachineInv'
  <2>1. 0 \in 0 .. COUNTER - 1
    BY WidthAssumption, SMT
  <2> QED BY <1>8, <2>1 DEF Plug
<1>9. CASE UNCHANGED vars
  BY <1>9 DEF vars
<1> QED BY <1>1, <1>2, <1>3, <1>4, <1>5, <1>6, <1>7, <1>8, <1>9 DEF Next, Machine

\* The steps of the enumeration itself.
LEMMA EnumerationGrows ==
    ASSUME CallInv, MachineInv, EnumInv, NextItem \/ GetItem \/ NextEnds
    PROVE  EnumInv'
<1> USE DEF EnumInv, CallInv, ListPlaces, listing, arguments, history, watched
<1>1. CASE NextItem
  <2>1. PICK a \in present \ seen : seen' = seen \cup {a} /\ target' = a
    BY <1>1 DEF NextItem
  <2>2. /\ pc = "Next" /\ pc' = "Get" /\ call = "list"
        /\ UNCHANGED <<vec_wmi, partial, stayed, res, call>>
    BY <1>1 DEF NextItem
  <2> QED BY <2>1, <2>2
<1>2. CASE GetItem
  <2>1. pc = "Get" /\ pc' = "Next" /\ UNCHANGED <<seen, stayed, res, call>>
    BY <1>2 DEF GetItem, Push, Skip
  <2>2. CASE Push
    <3> DEFINE info == [of |-> target, servers |-> servers[target]]
    <3>1. /\ target \in IPEnabled /\ vec_wmi' = vec_wmi \cup {info} /\ partial' = partial
          /\ info.of = target
      BY <2>2 DEF Push
    <3>2. IsFiniteSet(vec_wmi \cup {info})
      BY FS_AddElement
    <3> HIDE DEF info
    <3> QED BY <2>1, <3>1, <3>2
  <2>3. CASE Skip
    BY <2>1, <2>3 DEF Skip
  <2> QED BY <1>2, <2>2, <2>3 DEF GetItem
<1>3. CASE NextEnds
  <2>1. /\ pc = "Next" /\ pc' = "uninitialize" /\ UNCHANGED <<vec_wmi, seen, stayed, call>>
        /\ partial' \/ (partial' = partial /\ present \subseteq seen)
        /\ partial => partial'
    BY <1>3 DEF NextEnds
  <2>2. stayed \subseteq present
    BY DEF MachineInv
  <2> QED BY <2>1, <2>2
<1> QED BY <1>1, <1>2, <1>3

LEMMA EnumKeeps ==
    ASSUME CallInv, MachineInv, EnumInv, [Next]_vars
    PROVE  EnumInv'
<1> USE CallNames DEF machine, pointers, listing, arguments, history, watched
<1>1. CASE get_adapter_list
  BY <1>1 DEF get_adapter_list, EnumInv
<1>2. ASSUME NEW a \in Adapter, NEW d, switch_adapter_dns(a, d)
      PROVE  EnumInv'
  BY <1>2 DEF switch_adapter_dns, EnumInv
<1>3. CASE Return
  BY <1>3, FS_EmptySet DEF Return, EnumInv
<1>4. CASE InitCall
  <2>1. PICK next \in (DOMAIN InitCalls) \cup {"initialized"} : next = InitCalls[pc].next
    BY <1>4 DEF InitCall
  <2>2. /\ pc \in DOMAIN InitCalls
        /\ pc' \notin {"Get", "uninitialize", "GetIfTable_1", "GetIfTable_2"}
        /\ UNCHANGED <<vec_wmi, seen, partial, stayed>>
    BY <1>4, <2>1 DEF InitCall
  <2> QED BY <2>2 DEF EnumInv
<1>5. CASE InitFails
  <2>1. /\ pc \in DOMAIN InitCalls /\ pc' = "uninitialize" /\ res' # success
        /\ UNCHANGED <<vec_wmi, seen, partial, stayed>>
    BY <1>5 DEF InitFails, init_fail, success
  <2> QED BY <2>1 DEF EnumInv
<1>6. CASE uninitialize_wmi
  BY <1>6 DEF uninitialize_wmi, EnumInv
<1>7. CASE ExecQuery
  BY <1>7 DEF ExecQuery, EnumInv
<1>8. CASE ExecQueryFails
  BY <1>8 DEF ExecQueryFails, EnumInv, enum_fail, success
<1>9. CASE NextItem \/ GetItem \/ NextEnds
  BY <1>9, EnumerationGrows
<1>10. CASE MallocFails \/ GetIfTable_1 \/ GetIfTable_2Fails \/ GetIfTable_2
  BY <1>10 DEF MallocFails, GetIfTable_1, GetIfTable_2Fails, GetIfTable_2, EnumInv
<1>11. CASE MethodCall
  BY <1>11 DEF MethodCall, EnumInv
<1>12. CASE MethodFails \/ ExecMethod
  <2>1. /\ call = "switch" /\ pc' = "uninitialize" /\ pc # "Get"
        /\ UNCHANGED <<vec_wmi, seen, partial, stayed, call>>
    BY <1>12 DEF MethodFails, ExecMethod, ReleaseMethodObjects, CallInv, SwitchPlaces
  <2> QED BY <2>1 DEF EnumInv
<1>13. ASSUME NEW a \in Adapter, Traffic(a) \/ Unplug(a) \/ Plug(a)
       PROVE  EnumInv'
  <2>1. UNCHANGED <<pc, vec_wmi, seen, target, partial, call, res>> /\ stayed' \subseteq stayed
    BY <1>13 DEF Traffic, Unplug, Plug
  <2> QED BY <2>1 DEF EnumInv
<1>14. CASE UNCHANGED vars
  BY <1>14 DEF vars, EnumInv
<1> QED BY <1>1, <1>2, <1>3, <1>4, <1>5, <1>6, <1>7, <1>8, <1>9, <1>10, <1>11, <1>12,
           <1>13, <1>14 DEF Next, Code, Machine

\* The join of the enumerated adapters with the table, sorted.
LEMMA JoinIsRight ==
    ASSUME CallInv, MachineInv, EnumInv, GetIfTable_2
    PROVE  ReturnedInv'
<1> DEFINE S == {Row(i, Counters) : i \in vec_wmi}
<1>1. vec' \in SetToSeqs(S) /\ BusierFirst(vec')
  BY DEF GetIfTable_2
<1>2. IsFiniteSet(S)
  BY RowsAreFinite DEF EnumInv
<1>3. /\ \A i \in DOMAIN vec' : vec'[i] \in S
      /\ \A i, j \in DOMAIN vec' : vec'[i] = vec'[j] => i = j
      /\ \A r \in S : \E i \in DOMAIN vec' : vec'[i] = r
  <2> HIDE DEF S
  <2> QED BY <1>1, <1>2, SeqsAreListings
<1>4. /\ pc = "GetIfTable_2" /\ call = "list"
      /\ UNCHANGED <<present, octets, stayed, shown, partial, seen, call>>
  BY DEF GetIfTable_2, CallInv, ListPlaces, machine, arguments, history, watched
<1>5. ASSUME NEW i \in DOMAIN vec'
      PROVE  /\ vec'[i].of \in IPEnabled
             /\ vec'[i].recv \in shown[vec'[i].of]
                                 \cup (IF vec'[i].of \in stayed THEN {} ELSE {0})
  <2>1. PICK info \in vec_wmi : vec'[i] = Row(info, Counters)
    BY <1>3
  <2>2. info.of \in IPEnabled /\ info.of \in Adapter
    BY AdapterAssumption DEF EnumInv
  <2>3. /\ vec'[i].of = info.of
        /\ vec'[i].recv = IF info.of \in present THEN octets[info.of] ELSE 0
    BY <2>1, <2>2, RowOfAdapter DEF MachineInv
  <2> QED BY <1>4, <2>2, <2>3 DEF MachineInv
<1>6. ASSUME NEW i \in DOMAIN vec', NEW j \in DOMAIN vec', vec'[i].of = vec'[j].of
      PROVE  i = j
  <2>1. PICK p \in vec_wmi : vec'[i] = Row(p, Counters)
    BY <1>3
  <2>2. PICK q \in vec_wmi : vec'[j] = Row(q, Counters)
    BY <1>3
  <2>3. p.of \in Adapter /\ q.of \in Adapter
    BY AdapterAssumption DEF EnumInv
  <2>4. p.of = q.of
    BY <1>6, <2>1, <2>2, <2>3, RowOfAdapter DEF MachineInv
  <2>5. p = q
    BY <2>4 DEF EnumInv
  <2> QED BY <1>3, <2>1, <2>2, <2>5
<1>7. ASSUME ~ partial, NEW a \in stayed \cap IPEnabled
      PROVE  \E i \in DOMAIN vec' : vec'[i].of = a
  <2>1. a \in seen
    BY <1>4, <1>7 DEF EnumInv
  <2>2. PICK info \in vec_wmi : info.of = a
    BY <1>4, <1>7, <2>1 DEF EnumInv
  <2>3. PICK i \in DOMAIN vec' : vec'[i] = Row(info, Counters)
    BY <1>3
  <2>4. a \in Adapter
    BY AdapterAssumption
  <2> QED BY <2>2, <2>3, <2>4, RowOfAdapter DEF MachineInv
<1>8. InOrder'
  BY <1>1 DEF BusierFirst, InOrder
<1> HIDE DEF S
<1>9. ListComplete'
  BY <1>4, <1>5, <1>6, <1>7 DEF ListComplete, Of
<1>10. TrafficIsOwn'
  BY <1>4, <1>5 DEF TrafficIsOwn, Of
<1> QED BY <1>8, <1>9, <1>10 DEF ReturnedInv

\* While its caller has not looked, adapters come and go and count on.
LEMMA ReturnedKeeps ==
    ASSUME ListInv, [Next]_vars
    PROVE  ReturnedInv'
<1> USE CallNames DEF ListInv, ContractInv, machine, pointers, listing, arguments, history, watched
<1>1. CASE GetIfTable_2
  BY <1>1, JoinIsRight
<1>2. CASE UNCHANGED vars
  BY <1>2 DEF vars, ReturnedInv, Listed, ListComplete, TrafficIsOwn, InOrder, Of
<1>3. ASSUME NEW a \in Adapter, Traffic(a) \/ Unplug(a) \/ Plug(a)
      PROVE  ReturnedInv'
  <2>1. /\ UNCHANGED <<pc, call, res, vec, partial>> /\ stayed' \subseteq stayed
        /\ call = "list" => \A b \in Adapter : shown[b] \subseteq shown'[b]
    BY <1>3 DEF Traffic, Unplug, Plug, MachineInv
  <2>2. IPEnabled \subseteq Adapter
    BY AdapterAssumption
  <2>3. Listed' => Listed /\ ListComplete /\ TrafficIsOwn /\ InOrder
    BY <2>1 DEF Listed, ReturnedInv
  <2>4. Listed' => \A i \in DOMAIN vec : Of(i) \in Adapter
    BY <2>2, <2>3 DEF ListComplete
  <2>5. ListComplete' /\ (Listed' => InOrder')
    <3>1. Listed' => InOrder'
      BY <2>1, <2>3 DEF InOrder
    <3>2. ListComplete'
      BY <2>1, <2>3 DEF ListComplete, Of
    <3> QED BY <3>1, <3>2
  <2>6. TrafficIsOwn'
    BY <2>1, <2>3, <2>4 DEF TrafficIsOwn, Of, Listed
  <2> QED BY <2>5, <2>6 DEF ReturnedInv
<1>4. CASE ~ GetIfTable_2 /\ ~ Machine /\ Next
  <2>1. ~ Listed'
    BY <1>4 DEF Next, Code, Return, get_adapter_list, switch_adapter_dns, InitCall, InitFails,
                uninitialize_wmi, ExecQuery, ExecQueryFails, NextItem, GetItem, NextEnds,
                MallocFails, GetIfTable_1, GetIfTable_2Fails, MethodCall, MethodFails,
                ExecMethod, ReleaseMethodObjects, Listed, success, malloc_fail, table_fail
  <2> QED BY <2>1 DEF ReturnedInv
<1> QED BY <1>1, <1>2, <1>3, <1>4 DEF Machine

LEMMA ListInvHolds == Spec => []ListInv
<1>1. ListInv /\ [Next]_vars => ListInv'
  <2> SUFFICES ASSUME ListInv, [Next]_vars PROVE ListInv'
    OBVIOUS
  <2>1. MachineInv' /\ EnumInv' /\ ReturnedInv'
    BY MachineKeeps, EnumKeeps, ReturnedKeeps DEF ListInv, ContractInv
  <2>2. ContractInv'
    BY NextContract DEF ListInv
  <2> QED BY <2>1, <2>2 DEF ListInv
<1> QED BY InitList, <1>1, PTL DEF Spec

\* An in-order list of counters that were each shown has no adapter behind one
\* whose counter was lower all along.
LEMMA OrderShows == ListInv => BusiestFirst
<1> SUFFICES ASSUME ListInv, Listed, NEW i \in DOMAIN vec, NEW j \in DOMAIN vec,
                    i < j, {Of(i), Of(j)} \subseteq stayed
             PROVE  \E m \in shown[Of(i)], n \in shown[Of(j)] : m >= n
  BY DEF BusiestFirst
<1>1. vec[i].recv \in shown[Of(i)] /\ vec[j].recv \in shown[Of(j)]
  BY DEF ListInv, ReturnedInv, TrafficIsOwn
<1>2. vec[i].recv >= vec[j].recv
  BY DEF ListInv, ReturnedInv, InOrder
<1> QED BY <1>1, <1>2

(***************************************************************************)
(* However adapters come and go between enumeration, size query and table, *)
(* and wherever Next or a property fails: get_adapter_list returns no      *)
(* adapter twice, none without IP and, unless the enumeration was cut      *)
(* short, every one that was there all the time.                           *)
(***************************************************************************)
THEOREM ListStaysComplete == Spec => []ListComplete
<1>1. ListInv => ListComplete
  BY DEF ListInv, ReturnedInv, ListComplete
<1> QED BY ListInvHolds, <1>1, PTL

(***************************************************************************)
(* The traffic listed with an adapter is its own: the join by interface    *)
(* index never takes another's row, and 0 stands for a missing one only.   *)
(***************************************************************************)
THEOREM TrafficStaysOwn == Spec => []TrafficIsOwn
<1>1. ListInv => TrafficIsOwn
  BY DEF ListInv, ReturnedInv, TrafficIsOwn
<1> QED BY ListInvHolds, <1>1, PTL

(***************************************************************************)
(* The first of the list, which auto_select_dns switches, is a busiest     *)
(* adapter, for any counters and any traffic while the list is made.       *)
(***************************************************************************)
THEOREM BusiestStaysFirst == Spec => []BusiestFirst
BY ListInvHolds, OrderShows, PTL

-----------------------------------------------------------------------------
(* Types.                                                                  *)

\* A switch that got past the check for empty addresses carries two.
TypeInv ==
    /\ RefInv /\ TypeOK
    /\ call = "switch" /\ pc \notin {"returned", "idle"} => dns \in Address \X Address
    /\ initfailed /\ pc = "uninitialize" => held \in [Ref -> -1 .. 1]

LEMMA HeldTypes == RefInv /\ ~ initfailed => held \in [Ref -> 0 .. 1]
<1> SUFFICES ASSUME RefInv, ~ initfailed PROVE held \in [Ref -> 0 .. 1]
  OBVIOUS
<1>1. ASSUME NEW S, Holds(S) PROVE held \in [Ref -> 0 .. 1]
  BY <1>1 DEF Holds
<1>2. \E S : Holds(S)
  BY CallNames DEF RefInv, HeldInv, Exactly, Places
<1> QED BY <1>1, <1>2

LEMMA GiveBackLowers ==
    ASSUME NEW lo \in Int, held \in [Ref -> lo .. 1], NEW S, GiveBack(S)
    PROVE  held' \in [Ref -> lo - 1 .. 1]
<1>1. \A r \in Ref : held[r] \in lo - 1 .. 1 /\ held[r] - 1 \in lo - 1 .. 1
  BY SMT
<1> QED BY <1>1 DEF GiveBack

LEMMA InitTypes == Init => TypeInv
<1> SUFFICES ASSUME Init PROVE TypeInv
  OBVIOUS
<1>1. RefInv
  BY InitReferences
<1>2. held \in [Ref -> -2 .. 1]
  <2>1. 0 \in -2 .. 1
    BY SMT
  <2> QED BY <2>1 DEF Init, Nothing
<1>3. 0 \in 0 .. COUNTER - 1
  BY WidthAssumption, SMT
<1> QED BY <1>1, <1>2, <1>3 DEF Init, TypeInv, TypeOK, Places, Results

\* held, on a path through initliaze_wmi that failed too.
LEMMA HeldTypesKeep ==
    ASSUME TypeInv, RefInv', [Next]_vars
    PROVE  /\ held' \in [Ref -> -2 .. 1]
           /\ initfailed' /\ pc' = "uninitialize" => held' \in [Ref -> -1 .. 1]
<1>1. CASE ~ initfailed'
  <2>1. (RefInv /\ ~ initfailed => held \in [Ref -> 0 .. 1])'
    BY HeldTypes, PTL
  <2>2. held' \in [Ref -> 0 .. 1]
    BY <1>1, <2>1
  <2> QED BY <1>1, <2>2
<1>2. CASE InitFails
  <2>1. ~ initfailed /\ (\E S : GiveBack(S)) /\ pc' = "uninitialize"
    BY <1>2, CallNames DEF InitFails, TypeInv, RefInv
  <2>2. held \in [Ref -> 0 .. 1]
    BY <2>1, HeldTypes DEF TypeInv
  <2>3. held' \in [Ref -> 0 - 1 .. 1]
    BY <2>1, <2>2, GiveBackLowers
  <2> QED BY <2>3
<1>3. CASE uninitialize_wmi /\ initfailed
  <2>1. held \in [Ref -> -1 .. 1] /\ (\E S : GiveBack(S)) /\ pc' # "uninitialize"
    BY <1>3 DEF uninitialize_wmi, TypeInv
  <2>2. held' \in [Ref -> -1 - 1 .. 1]
    BY <2>1, GiveBackLowers
  <2> QED BY <2>1, <2>2
<1>4. CASE initfailed' /\ ~ InitFails /\ ~ (uninitialize_wmi /\ initfailed)
  <2>1. UNCHANGED initfailed \/ Return
    BY <1>4 DEF Next, Code, Machine, get_adapter_list, switch_adapter_dns, InitCall,
         uninitialize_wmi, ExecQuery, ExecQueryFails, NextItem, GetItem, NextEnds, MallocFails,
         GetIfTable_1, GetIfTable_2Fails, GetIfTable_2, MethodCall, MethodFails, ExecMethod,
         Traffic, Unplug, Plug, vars, history
  <2>2. initfailed /\ pc \in {"uninitialize", "returned"}
    BY <1>4, <2>1 DEF Return, TypeInv, RefInv
  <2>3. Machine \/ UNCHANGED vars
    <3>1. ~ get_adapter_list /\ \A a, d : ~ switch_adapter_dns(a, d)
      BY <2>2 DEF get_adapter_list, switch_adapter_dns
    <3>2. ~ Return /\ ~ InitFails /\ ~ uninitialize_wmi
      BY <1>4, <2>2 DEF Return
    <3>3. ~ InitCall /\ ~ MethodCall /\ ~ MethodFails /\ ~ ExecMethod
      BY <2>2, CallNames DEF InitCall, MethodCall, MethodFails, ExecMethod
    <3>4. ~ ExecQuery /\ ~ ExecQueryFails /\ ~ NextItem /\ ~ GetItem /\ ~ NextEnds
      BY <2>2 DEF ExecQuery, ExecQueryFails, NextItem, GetItem, Push, Skip, NextEnds
    <3>5. ~ MallocFails /\ ~ GetIfTable_1 /\ ~ GetIfTable_2Fails /\ ~ GetIfTable_2
      BY <2>2 DEF MallocFails, GetIfTable_1, GetIfTable_2Fails, GetIfTable_2
    <3> QED BY <3>1, <3>2, <3>3, <3>4, <3>5 DEF Next, Code
  <2>4. UNCHANGED <<held, pc>>
    BY <2>3 DEF Machine, Traffic, Unplug, Plug, vars, pointers
  <2> QED BY <2>2, <2>4 DEF TypeInv, TypeOK
<1> QED BY <1>1, <1>2, <1>3, <1>4

\* The rows of a joined table carry counters of 32 bits.
LEMMA JoinedTypes ==
    ASSUME CallInv, MachineInv, EnumInv, GetIfTable_2
    PROVE  \A i \in DOMAIN vec' : vec'[i].recv \in 0 .. COUNTER - 1
<1> DEFINE S == {Row(i, Counters) : i \in vec_wmi}
<1>1. vec' \in SetToSeqs(S)
  BY DEF GetIfTable_2
<1>2. IsFiniteSet(S)
  BY RowsAreFinite DEF EnumInv
<1>3. \A i \in DOMAIN vec' : vec'[i] \in S
  <2> HIDE DEF S
  <2> QED BY <1>1, <1>2, SeqsAreListings
<1>4. ASSUME NEW info \in vec_wmi
      PROVE  Row(info, Counters).recv \in 0 .. COUNTER - 1
  <2>1. info.of \in Adapter
    BY AdapterAssumption DEF EnumInv
  <2>2. 0 \in 0 .. COUNTER - 1
    BY WidthAssumption, SMT
  <2> QED BY <2>1, <2>2, RowOfAdapter DEF MachineInv
<1> QED BY <1>3, <1>4

\* The pointers and the addresses, the list's parts, and the rest.
LEMMA PointerTypes ==
    ASSUME TypeInv, [Next]_vars
    PROVE  ptr' \subseteq Ref
<1>1. ASSUME NEW r \in Ref \cup {NoRef}, Take(r) PROVE ptr' \subseteq Ref
  BY <1>1 DEF Take, TypeInv, TypeOK
<1>2. CASE InitCall
  <2>1. InitCalls[pc].takes \in Ref \cup {NoRef}
    BY <1>2, CallNames, InitTable DEF InitCall, Ref
  <2> QED BY <1>1, <1>2, <2>1 DEF InitCall
<1>3. CASE MethodCall
  <2>1. MethodCalls[pc].takes \in Ref \cup {NoRef}
    BY <1>3, CallNames, MethodTable DEF MethodCall, Ref, MethodObjects
  <2> QED BY <1>1, <1>3, <2>1 DEF MethodCall
<1>4. CASE ExecQuery \/ NextItem \/ GetIfTable_1
  <2>1. \E r \in {"pEnumerator", "pclsObj", "table"} : Take(r)
    BY <1>4 DEF ExecQuery, NextItem, GetIfTable_1
  <2> QED BY <1>1, <2>1 DEF Ref
<1>5. CASE Return
  BY <1>5 DEF Return
<1>6. CASE [Next]_vars /\ ~ InitCall /\ ~ MethodCall /\ ~ Return
           /\ ~ (ExecQuery \/ NextItem \/ GetIfTable_1)
  <2>1. UNCHANGED ptr
    BY <1>6 DEF Next, Code, Machine, get_adapter_list, switch_adapter_dns, InitFails,
         uninitialize_wmi, ExecQueryFails, GetItem, NextEnds, MallocFails, GetIfTable_2Fails,
         GetIfTable_2, MethodFails, ExecMethod, Traffic, Unplug, Plug, vars, pointers
  <2> QED BY <2>1 DEF TypeInv, TypeOK
<1> QED BY <1>2, <1>3, <1>4, <1>5, <1>6

LEMMA ServerTypes ==
    ASSUME TypeInv, [Next]_vars
    PROVE  /\ servers' \in [Adapter -> InitServers \cup (Address \X Address)]
           /\ call' = "switch" /\ pc' \notin {"returned", "idle"} =>
                dns' \in Address \X Address
<1> USE DEF TypeInv, TypeOK
<1>1. ASSUME NEW a \in Adapter, NEW d \in Address \X (Address \cup {NoDns}),
             switch_adapter_dns(a, d)
      PROVE  /\ servers' = servers
             /\ pc' \notin {"returned", "idle"} => dns' \in Address \X Address
  BY <1>1 DEF switch_adapter_dns, machine
<1>2. CASE ExecMethod
  <2>1. PICK a \in Addressed(id(target)) :
          servers' \in {servers, [servers EXCEPT ![a] = dns]}
    BY <1>2 DEF ExecMethod
  <2>2. call = "switch" /\ pc = "ExecMethod" /\ dns' = dns
    BY <1>2 DEF ExecMethod, RefInv, CallInv, SwitchPlaces, arguments
  <2> QED BY <2>1, <2>2
<1>3. CASE Return
  BY <1>3 DEF Return, machine
<1>4. CASE get_adapter_list
  BY <1>4 DEF get_adapter_list, machine
<1>5. CASE Code /\ ~ Return /\ ~ ExecMethod
  <2>1. /\ UNCHANGED <<servers, call, dns>>
        /\ pc' \notin {"returned", "idle"} => pc \notin {"returned", "idle"}
    BY <1>5, CallNames DEF Code, InitCall, InitFails, uninitialize_wmi, ExecQuery,
         ExecQueryFails, NextItem, GetItem, Push, Skip, NextEnds, MallocFails, GetIfTable_1,
         GetIfTable_2Fails, GetIfTable_2, MethodCall, MethodFails, machine, arguments
  <2> QED BY <2>1
<1>6. CASE Machine \/ UNCHANGED vars
  <2>1. UNCHANGED <<servers, call, pc, dns>>
    BY <1>6 DEF Machine, Traffic, Unplug, Plug, vars, machine, arguments
  <2> QED BY <2>1
<1> QED BY <1>1, <1>2, <1>3, <1>4, <1>5, <1>6 DEF Next

LEMMA ListTypes ==
    ASSUME TypeInv, ListInv, ListInv', [Next]_vars
    PROVE  /\ dwSize' \in Nat
           /\ \A i \in DOMAIN vec' : vec'[i].recv \in 0 .. COUNTER - 1
           /\ \A i \in vec_wmi' : i.of \in seen'
<1> USE DEF TypeInv, TypeOK, ListInv, ContractInv
<1>1. CASE GetIfTable_1
  <2>1. Rows \in Nat
    BY RowCountType DEF MachineInv
  <2> QED BY <1>1, <2>1 DEF GetIfTable_1, EnumInv
<1>2. CASE GetIfTable_2
  BY <1>2, JoinedTypes DEF GetIfTable_2, EnumInv
<1>3. CASE Return
  BY <1>3 DEF Return
<1>4. CASE [Next]_vars /\ ~ GetIfTable_1 /\ ~ GetIfTable_2 /\ ~ Return
  <2>1. UNCHANGED <<dwSize, vec>>
    BY <1>4 DEF Next, Code, Machine, get_adapter_list, switch_adapter_dns, InitCall, InitFails,
         uninitialize_wmi, ExecQuery, ExecQueryFails, NextItem, GetItem, NextEnds, MallocFails,
         GetIfTable_2Fails, MethodCall, MethodFails, ExecMethod, Traffic, Unplug, Plug, vars,
         listing
  <2> QED BY <2>1 DEF EnumInv
<1> QED BY <1>1, <1>2, <1>3, <1>4

LEMMA CallTypes ==
    ASSUME TypeInv, [Next]_vars
    PROVE  /\ call' \in {"none", "list", "switch"} /\ res' \in Results
           /\ target' \in Adapter \cup {NoAdapter}
<1> USE DEF TypeInv, TypeOK, Results, arguments
<1>1. CASE get_adapter_list
  BY <1>1 DEF get_adapter_list
<1>2. ASSUME NEW a \in Adapter, NEW d, switch_adapter_dns(a, d)
      PROVE  /\ call' \in {"none", "list", "switch"} /\ res' \in Results
             /\ target' \in Adapter \cup {NoAdapter}
  BY <1>2 DEF switch_adapter_dns
<1>3. CASE Return \/ InitCall \/ InitFails \/ uninitialize_wmi
  BY <1>3 DEF Return, InitCall, InitFails, uninitialize_wmi
<1>4. CASE ExecQuery \/ ExecQueryFails \/ NextItem \/ GetItem \/ NextEnds
  BY <1>4 DEF ExecQuery, ExecQueryFails, NextItem, GetItem, NextEnds
<1>5. CASE MallocFails \/ GetIfTable_1 \/ GetIfTable_2Fails \/ GetIfTable_2
  BY <1>5 DEF MallocFails, GetIfTable_1, GetIfTable_2Fails, GetIfTable_2
<1>6. CASE MethodCall \/ MethodFails \/ ExecMethod
  BY <1>6 DEF MethodCall, MethodFails, ExecMethod
<1>7. CASE Machine \/ UNCHANGED vars
  BY <1>7 DEF Machine, Traffic, Unplug, Plug, vars
<1> QED BY <1>1, <1>2, <1>3, <1>4, <1>5, <1>6, <1>7 DEF Next, Code

(***************************************************************************)
(* Every variable keeps its type, for any adapters and widths; that no     *)
(* pointer is given back more than twice is part of it, and needs the      *)
(* account of references above.                                            *)
(***************************************************************************)
THEOREM TypesAreRight == Spec => []TypeOK
<1>1. Init => ListInv /\ TypeInv
  BY InitList, InitTypes
<1>2. ListInv /\ TypeInv /\ [Next]_vars => (ListInv /\ TypeInv)'
  <2> SUFFICES ASSUME ListInv, TypeInv, [Next]_vars PROVE ListInv' /\ TypeInv'
    OBVIOUS
  <2>1. ListInv'
    <3>1. MachineInv' /\ EnumInv' /\ ReturnedInv'
      BY MachineKeeps, EnumKeeps, ReturnedKeeps DEF ListInv, ContractInv
    <3>2. ContractInv'
      BY NextContract DEF ListInv
    <3> QED BY <3>1, <3>2 DEF ListInv
  <2>2. RefInv'
    BY <2>1, NextReferences DEF TypeInv, ListInv, ContractInv
  <2>3. TypeOK'
    <3>1. MachineInv' /\ pc' \in Places
      BY <2>1, <2>2 DEF ListInv, RefInv
    <3> QED BY <2>1, <2>2, <3>1, HeldTypesKeep, PointerTypes, ServerTypes, ListTypes, CallTypes
            DEF TypeOK, MachineInv
  <2> QED BY <2>1, <2>2, <2>3, HeldTypesKeep, ServerTypes DEF TypeInv
<1>3. TypeInv => TypeOK
  BY DEF TypeInv
<1> QED BY <1>1, <1>2, <1>3, PTL DEF Spec
=============================================================================
