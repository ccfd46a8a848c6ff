------------------------- MODULE DnsSelectorProofs -------------------------
(***************************************************************************)
(* Safety of DnsSelector for any set of adapters, views and addresses, any *)
(* times and any number of retries.                                        *)
(***************************************************************************)
EXTENDS DnsSelector, TLAPS

(***************************************************************************)
(* The pure parts.                                                         *)
(***************************************************************************)

\* A backup found is never the first server, and none is found only for a static
\* adapter without another server of its own.
LEMMA BackupFacts ==
    ASSUME NEW info \in AdapterInfo, NEW d \in DnsField
    PROVE  /\ Backup(info, d) \in DnsField
           /\ Backup(info, d) = d => d = NoDns
           /\ Backup(info, d) = NoDns =>
                ~ info.dhcp /\ {info.dns_1, info.dns_2} \subseteq {NoDns, d}
<1>1. /\ DEFAULT_DNS_1 \in Dns /\ DEFAULT_DNS_2 \in Dns
      /\ DEFAULT_DNS_1 # DEFAULT_DNS_2
      /\ DEFAULT_DNS_1 # NoDns /\ DEFAULT_DNS_2 # NoDns
  BY DnsAssumption
<1>2. /\ info.dhcp \in BOOLEAN /\ info.dns_1 \in DnsField /\ info.dns_2 \in DnsField
      /\ info.dns_1 = NoDns => info.dns_2 = NoDns
  BY DEF AdapterInfo
<1>3. CASE info.dhcp
  <2>1. Backup(info, d) \in {DEFAULT_DNS_1, DEFAULT_DNS_2} /\ Backup(info, d) # d
    BY <1>1, <1>3 DEF Backup
  <2> QED
    BY <1>1, <2>1 DEF DnsField
<1>4. CASE ~ info.dhcp
  <2>1. Backup(info, d) = IF info.dns_1 # d THEN info.dns_1
                          ELSE IF info.dns_2 # d THEN info.dns_2 ELSE NoDns
    BY <1>4 DEF Backup
  <2>2. Backup(info, d) \in DnsField /\ (Backup(info, d) = d => d = NoDns)
    BY <1>2, <2>1 DEF DnsField
  <2>3. Backup(info, d) = NoDns => {info.dns_1, info.dns_2} \subseteq {NoDns, d}
    BY <1>2, <2>1
  <2> QED
    BY <1>4, <2>2, <2>3
<1> QED
  BY <1>2, <1>3, <1>4

\* on_switch_dns finds an empty second server only for an empty first one.
LEMMA ManualBackupFacts ==
    ASSUME NEW info \in AdapterInfo, NEW d \in DnsField
    PROVE  /\ ManualBackup(info, d) \in DnsField
           /\ ManualBackup(info, d) = NoDns => d = NoDns
  BY DnsAssumption DEF ManualBackup, AdapterInfo, DnsField

\* What is chosen once a pair of servers is in place: the manual choice is the same,
\* the automatic one too but for an automatic adapter or a pair of equal servers,
\* and what the automatic one puts there it chooses again.
LEMMA RepeatFacts ==
    ASSUME NEW info \in AdapterInfo, info.dns_1 \in Dns, info.dns_2 \in Dns
    PROVE  LET again == Backup(info, info.dns_1) IN
           /\ ManualBackup(info, info.dns_1) = info.dns_2
           /\ again # info.dns_2 =>
                 \/ info.dhcp /\ again \in {DEFAULT_DNS_1, DEFAULT_DNS_2}
                 \/ ~ info.dhcp /\ info.dns_1 = info.dns_2 /\ again = NoDns
           /\ again # NoDns => Backup([info EXCEPT !.dns_2 = again], info.dns_1) = again
<1> DEFINE again == Backup(info, info.dns_1)
           after == [info EXCEPT !.dns_2 = again]
<1>1. /\ info.dns_1 # NoDns /\ info.dns_2 # NoDns /\ info.dhcp \in BOOLEAN
      /\ DEFAULT_DNS_1 # DEFAULT_DNS_2
  BY DnsAssumption DEF AdapterInfo
<1>2. after.dhcp = info.dhcp /\ after.dns_1 = info.dns_1 /\ after.dns_2 = again
  BY DEF AdapterInfo
<1>3. ManualBackup(info, info.dns_1) = info.dns_2
  BY <1>1 DEF ManualBackup
<1>4. CASE info.dhcp
  <2>1. again \in {DEFAULT_DNS_1, DEFAULT_DNS_2}
    BY <1>1, <1>4 DEF Backup
  <2>2. Backup(after, info.dns_1) = again
    BY <1>1, <1>2, <1>4 DEF Backup
  <2> QED
    BY <1>3, <1>4, <2>1, <2>2
<1>5. CASE ~ info.dhcp
  <2>1. again = IF info.dns_2 # info.dns_1 THEN info.dns_2 ELSE NoDns
    BY <1>5 DEF Backup
  <2>2. Backup(after, info.dns_1) = IF again # info.dns_1 THEN again ELSE NoDns
    BY <1>2, <1>5 DEF Backup
  <2> QED
    BY <1>1, <1>3, <1>5, <2>1, <2>2
<1> QED
  BY <1>1, <1>4, <1>5

\* Setting one adapter's servers keeps the configuration well formed.
LEMMA AssignType ==
    ASSUME NEW as \in [Adapter -> AdapterInfo], NEW a \in Adapter,
           NEW d \in Dns, NEW e \in Dns
    PROVE  Assign(as, a, d, e) \in [Adapter -> AdapterInfo]
  BY DnsAssumption DEF Assign, AdapterInfo, DnsField

\* What one call of wmi_interface::switch_adapter_dns can do.
LEMMA SwitchEffect ==
    ASSUME adapters \in [Adapter -> AdapterInfo], NEW a \in Adapter,
           NEW d \in DnsField, NEW e \in DnsField, switch_adapter_dns(a, d, e)
    PROVE  /\ res' \in Results
           /\ adapters' \in [Adapter -> AdapterInfo]
           /\ adapters' \in {adapters, Assign(adapters, a, d, e)}
           /\ res' # success => adapters' = adapters
           /\ res' = success => d \in Dns /\ e \in Dns
  BY AssignType DEF switch_adapter_dns, Results, SwitchErrors, ip_invalid, success, DnsField

(***************************************************************************)
(* Where a job is says which job it is, how often the list was asked for,  *)
(* and what has been chosen.                                               *)
(***************************************************************************)
Control ==
    /\ pc = "fetch" => job = "auto" /\ n < NET_WORK_INTERFACE_REQUEST_MAX_TIME
    /\ pc \in {"fallback_list", "fallback_switch", "fallback_fetch"} =>
         job = "auto" /\ n = NET_WORK_INTERFACE_REQUEST_MAX_TIME
    /\ pc \in {"fetch", "fallback_list", "fallback_switch", "manual_list"} =>
         fallback = NoAdapter
    /\ pc \in {"fetch", "fallback_list", "fallback_switch", "fallback_fetch"} =>
         DOMAIN ping_t_ms = {}
    /\ fallback # NoAdapter => job = "auto" /\ n = NET_WORK_INTERFACE_REQUEST_MAX_TIME
    /\ pc \in {"fallback_switch", "switch", "manual_list"} => target \in Adapter
    /\ pc \in {"ping", "list"} => job = "auto"
    /\ pc = "manual_list" => job = "manual"
    /\ job = "none" => pc = "idle"
    /\ job = "manual" /\ pc # "idle" => (dns_2 = NoDns => dns_1 = NoDns)
    /\ Finished /\ res = success => target \in Adapter /\ dns_1 \in Dns /\ dns_2 \in Dns

\* Every job starts from a well-formed machine with nothing fetched or chosen.
LEMMA ControlInit == Init => TypeOK /\ Control
  BY InfosAssumption, MaxTimeAssumption, AdapterAssumption
     DEF Init, TypeOK, Control, Finished, ControlStates, Results, success, NoTimes, DnsField

\* A return leaves no list and no measurements behind.
LEMMA ReturnType ==
    ASSUME NEW r \in Results, Return(r), TypeOK
    PROVE  /\ pc' = "idle" /\ res' \in Results /\ res' = r
           /\ map_dns_info' \subseteq Pair /\ DOMAIN ping_t_ms' \subseteq map_dns_info'
           /\ ping_t_ms' \in [DOMAIN ping_t_ms' -> Times \cup {time_out}]
  BY DEF Return, NoTimes, TypeOK


\* Every step of a job keeps types and control: one case per action.
LEMMA ControlStep == TypeOK /\ Control /\ [Next]_vars => (TypeOK /\ Control)'
<1> SUFFICES ASSUME TypeOK, Control, [Next]_vars
             PROVE  (TypeOK /\ Control)'
  OBVIOUS
<1> USE DEF ControlStates, Finished
<1>1. CASE on_auto_done
  BY <1>1, MaxTimeAssumption
     DEF on_auto_done, TypeOK, Control, NoTimes, Results, success, DnsField
<1>2. ASSUME NEW a \in Adapter, NEW ip \in Vip, on_switch_dns(a, ip)
      PROVE  (TypeOK /\ Control)'
  BY <1>2, MaxTimeAssumption, AdapterAssumption, DnsAssumption
     DEF on_switch_dns, TypeOK, Control, NoTimes, Results, success, DnsField
<1>3. CASE FetchSucceeds
  <2>1. map_dns_info' \subseteq Pair
    BY <1>3 DEF FetchSucceeds
  <2> QED
    BY <1>3, <2>1 DEF FetchSucceeds, TypeOK, Control, machine, chosen, Results, success
<1>4. CASE FetchHttpFails
  <2>1. \A k, m \in Nat : k < m => /\ k + 1 \in 0..m
                                    /\ k + 1 # m => k + 1 < m
    OBVIOUS
  <2>2. /\ n \in Nat /\ NET_WORK_INTERFACE_REQUEST_MAX_TIME \in Nat
        /\ n < NET_WORK_INTERFACE_REQUEST_MAX_TIME
    BY <1>4, MaxTimeAssumption DEF FetchHttpFails, TypeOK, Control
  <2>3. /\ n' \in 0..NET_WORK_INTERFACE_REQUEST_MAX_TIME
        /\ n' # NET_WORK_INTERFACE_REQUEST_MAX_TIME =>
             n' < NET_WORK_INTERFACE_REQUEST_MAX_TIME
    BY <1>4, <2>1, <2>2 DEF FetchHttpFails
  <2> QED
    BY <1>4, <2>3
       DEF FetchHttpFails, TypeOK, Control, machine, chosen, Results, http_fail
<1>5. CASE FetchGivesUp
  <2>1. PICK r \in RespondErrors \cup {http_fail} : Return(r)
    BY <1>5 DEF FetchGivesUp
  <2>2. r \in Results /\ r # success
    BY DEF Results, RespondErrors, http_fail, success
  <2> QED
    BY <1>5, <2>1, <2>2, ReturnType DEF FetchGivesUp, TypeOK, Control, machine, chosen
<1>6. CASE FallbackListFails
  <2>1. PICK r \in AdapterListErrors \cup {no_adapter} : Return(r)
    BY <1>6 DEF FallbackListFails
  <2>2. r \in Results /\ r # success
    BY DEF Results, AdapterListErrors, no_adapter, success
  <2> QED
    BY <1>6, <2>1, <2>2, ReturnType DEF FallbackListFails, TypeOK, Control, machine, chosen
<1>7. CASE FallbackList
  BY <1>7 DEF FallbackList, TypeOK, Control, machine, fetched, Results, success
<1>8. CASE FallbackSwitch
  <2>1. target \in Adapter /\ pc = "fallback_switch"
    BY <1>8 DEF FallbackSwitch, Control
  <2>2. /\ res' \in Results
        /\ adapters' \in [Adapter -> AdapterInfo]
    BY <1>8, <2>1, SwitchEffect, DnsAssumption DEF FallbackSwitch, TypeOK, DnsField
  <2> QED
    BY <1>8, <2>1, <2>2 DEF FallbackSwitch, TypeOK, Control, fetched, chosen
<1>9. CASE Ping
  <2>1. PICK p \in map_dns_info \ DOMAIN ping_t_ms, t \in Times \cup {time_out} :
          ping_t_ms' = [q \in DOMAIN ping_t_ms \cup {p} |->
                          IF q = p THEN t ELSE ping_t_ms[q]]
    BY <1>9 DEF Ping
  <2>2. /\ DOMAIN ping_t_ms' \subseteq map_dns_info
        /\ ping_t_ms' \in [DOMAIN ping_t_ms' -> Times \cup {time_out}]
    BY <2>1 DEF TypeOK
  <2> QED
    BY <1>9, <2>2 DEF Ping, TypeOK, Control, machine, chosen
<1>10. CASE Select
  <2>1. dns_1' \in DnsField /\ dns_2' \in DnsField
    <3>1. PICK p \in map_dns_info :
            /\ dns_1' = VipOf(p)
            /\ \/ dns_2' = NoDns
               \/ \E q \in map_dns_info :
                    dns_2' = IF ping_t_ms[q] = PING_TIMEOUT THEN NoDns ELSE VipOf(q)
      BY <1>10 DEF Select, Fastest
    <3>2. \A q \in map_dns_info : VipOf(q) \in DnsField
      BY DnsAssumption DEF TypeOK, Pair, VipOf
    <3> QED
      BY <3>1, <3>2 DEF DnsField
  <2> QED
    BY <1>10, <2>1
       DEF Select, TypeOK, Control, machine, fetched, Results, success, DnsField
<1>11. CASE SelectNone
  <2>1. no_dns \in Results /\ no_dns # success
    BY DEF Results, no_dns, success
  <2> QED
    BY <1>11, <2>1, ReturnType DEF SelectNone, TypeOK, Control, machine, chosen
<1>12. CASE ListFails
  <2>1. PICK r \in AdapterListErrors \cup {no_adapter} : Return(r)
    BY <1>12 DEF ListFails
  <2>2. r \in Results /\ r # success
    BY DEF Results, AdapterListErrors, no_adapter, success
  <2> QED
    BY <1>12, <2>1, <2>2, ReturnType DEF ListFails, TypeOK, Control, machine, chosen
<1>13. CASE List
  <2>1. dns_1 \in DnsField
    BY DEF TypeOK
  <2> QED
    BY <1>13, <2>1, BackupFacts DEF List, TypeOK, Control, machine, fetched, Results, success
<1>14. CASE Switch
  <2>1. target \in Adapter /\ pc = "switch"
    BY <1>14 DEF Switch, Control
  <2>2. /\ res' \in Results
        /\ adapters' \in [Adapter -> AdapterInfo]
        /\ res' = success => dns_1 \in Dns /\ dns_2 \in Dns
    BY <1>14, <2>1, SwitchEffect DEF Switch, TypeOK
  <2> QED
    BY <1>14, <2>1, <2>2 DEF Switch, TypeOK, Control, chosen, NoTimes
<1>15. CASE ManualList
  <2>1. dns_1 \in DnsField /\ dns_2 \in DnsField /\ target \in Adapter
    BY <1>15 DEF ManualList, Control, TypeOK
  <2>2. dns_2' \in DnsField /\ (dns_2' = NoDns => dns_1 = NoDns)
    BY <1>15, <2>1, ManualBackupFacts DEF ManualList, TypeOK, Control
  <2> QED
    BY <1>15, <2>1, <2>2 DEF ManualList, TypeOK, Control, machine, fetched, DnsField
<1>16. CASE UNCHANGED vars
  BY <1>16 DEF vars, TypeOK, Control, machine, fetched, chosen
<1> QED
  BY <1>1, <1>2, <1>3, <1>4, <1>5, <1>6, <1>7, <1>8, <1>9, <1>10, <1>11, <1>12,
     <1>13, <1>14, <1>15, <1>16 DEF Next, Start, Step

\* Every variable of a job keeps its type; in particular no more requests of the
\* DNS list are counted than auto_select_dns allows.
THEOREM TypeCorrect == Spec => []TypeOK
  BY ControlInit, ControlStep, PTL DEF Spec

\* Types and control hold throughout.
LEMMA ControlAlways == Spec => [](TypeOK /\ Control)
  BY ControlInit, ControlStep, PTL DEF Spec

(***************************************************************************)
(* What a job does to the machine.                                         *)
(***************************************************************************)

\* The job's step is not a switch: it changes no adapter, and unless it returns
\* with an error the job goes on.
LEMMA OtherSteps ==
    ASSUME TypeOK, Control, Step, ~ FallbackSwitch, ~ Switch
    PROVE  /\ pc # "idle"
           /\ UNCHANGED machine
           /\ pc' = "idle" => res' # success
<1>1. CASE FetchSucceeds \/ FetchHttpFails \/ FallbackList \/ Ping \/ Select \/ List
           \/ ManualList
  BY <1>1 DEF FetchSucceeds, FetchHttpFails, FallbackList, Ping, Select, List, ManualList
<1>2. CASE FetchGivesUp \/ FallbackListFails \/ ListFails \/ SelectNone
  <2>1. \A r \in RespondErrors \cup AdapterListErrors \cup {http_fail, no_adapter, no_dns} :
          r # success
    BY DEF RespondErrors, AdapterListErrors, http_fail, no_adapter, no_dns, success
  <2>2. \E r \in RespondErrors \cup AdapterListErrors \cup {http_fail, no_adapter, no_dns} :
          Return(r)
    BY <1>2 DEF FetchGivesUp, FallbackListFails, ListFails, SelectNone
  <2> QED
    BY <1>2, <2>1, <2>2
       DEF FetchGivesUp, FallbackListFails, ListFails, SelectNone, Return
<1> QED
  BY <1>1, <1>2 DEF Step

\* JobEffect survives every step: only the two switches touch an adapter.
LEMMA EffectStep ==
    TypeOK /\ Control /\ JobEffect /\ [Next]_vars => JobEffect'
<1> SUFFICES ASSUME TypeOK, Control, JobEffect, [Next]_vars
             PROVE  JobEffect'
  OBVIOUS
<1>0. TypeOK' /\ Control'
  BY ControlStep
<1>1. CASE Start
  <2>1. adapters' = orig' /\ fallback' = NoAdapter /\ pc' # "idle"
    BY <1>1 DEF Start, on_auto_done, on_switch_dns
  <2> QED
    BY <2>1 DEF JobEffect, BeforeSwitch, Finished
<1>2. CASE FallbackSwitch
  <2>1. /\ pc = "fallback_switch" /\ fallback = NoAdapter /\ target \in Adapter
        /\ job = "auto" /\ n = NET_WORK_INTERFACE_REQUEST_MAX_TIME
    BY <1>2 DEF FallbackSwitch, Control
  <2>2. adapters = orig
    BY <2>1 DEF JobEffect, BeforeSwitch, Finished
  <2>3. /\ adapters' \in {adapters, Assign(adapters, target, DEFAULT_DNS_1, DEFAULT_DNS_2)}
        /\ res' # success => adapters' = adapters
    BY <1>2, <2>1, SwitchEffect, DnsAssumption DEF FallbackSwitch, TypeOK, DnsField
  <2>4. CASE res' = success
    <3>1. pc' # "idle" /\ fallback' # NoAdapter /\ fallback' = target /\ orig' = orig
      BY <1>2, <2>1, <2>4, AdapterAssumption DEF FallbackSwitch
    <3>2. adapters' \in BeforeSwitch'
      BY <2>2, <2>3, <3>1 DEF BeforeSwitch
    <3> QED
      BY <1>0, <3>1, <3>2 DEF JobEffect, Finished, Control
  <2>5. CASE res' # success
    <3>1. fallback' = NoAdapter /\ orig' = orig
      BY <1>2, <2>1, <2>5 DEF FallbackSwitch
    <3> QED
      BY <2>2, <2>3, <2>5, <3>1 DEF JobEffect, BeforeSwitch, Finished
  <2> QED
    BY <2>4, <2>5
<1>3. CASE Switch
  <2>1. pc = "switch" /\ target \in Adapter
    BY <1>3 DEF Switch, Control
  <2>2. adapters \in BeforeSwitch
    BY <2>1 DEF JobEffect, Finished
  <2>3. /\ adapters' \in {adapters, Assign(adapters, target, dns_1, dns_2)}
        /\ res' # success => adapters' = adapters
    BY <1>3, <2>1, SwitchEffect DEF Switch, TypeOK
  <2>4. BeforeSwitch' = BeforeSwitch /\ target' = target /\ dns_1' = dns_1 /\ dns_2' = dns_2
    BY <1>3 DEF Switch, BeforeSwitch, chosen
  <2>5. fallback' # NoAdapter => job' = "auto" /\ n' = NET_WORK_INTERFACE_REQUEST_MAX_TIME
    BY <1>0 DEF Control
  <2>6. Assign(adapters, target, dns_1, dns_2) = Assign(adapters, target', dns_1', dns_2')
    BY <2>4
  <2> QED
    <3>1. Finished'
      BY <1>3, <2>1 DEF Switch, Finished, Control
    <3>2. res' # success => adapters' \in BeforeSwitch'
      BY <2>2, <2>3, <2>4
    <3>3. \E before \in BeforeSwitch' :
             adapters' \in {before, Assign(before, target', dns_1', dns_2')}
      BY <2>2, <2>3, <2>4, <2>6
    <3> QED
      BY <2>5, <3>1, <3>2, <3>3 DEF JobEffect
<1>4. CASE Step /\ ~ FallbackSwitch /\ ~ Switch
  <2>1. /\ pc # "idle" /\ UNCHANGED machine
        /\ ~ (Finished' /\ res' = success)
    BY <1>4, OtherSteps DEF Finished
  <2>2. adapters \in BeforeSwitch
    BY <2>1 DEF JobEffect, Finished
  <2>3. adapters' \in BeforeSwitch'
    BY <2>1, <2>2 DEF BeforeSwitch, machine
  <2> QED
    BY <1>0, <2>1, <2>3 DEF JobEffect, Control
<1>5. CASE UNCHANGED vars
  BY <1>5 DEF vars, machine, fetched, chosen, JobEffect, BeforeSwitch, Finished
<1> QED
  BY <1>1, <1>2, <1>3, <1>4, <1>5 DEF Next

\* A failed job leaves every adapter as it found it, except the one it put on the
\* public servers after every request failed; a successful one changes only its
\* target (the early returns of auto_select_dns and on_switch_dns).
THEOREM EffectOfJobs == Spec => []JobEffect
<1>1. Init => JobEffect
  BY AdapterAssumption DEF Init, JobEffect, BeforeSwitch, Finished
<1> QED
  BY <1>1, ControlInit, ControlStep, EffectStep, PTL DEF Spec

(***************************************************************************)
(* Which servers a job chooses.                                            *)
(***************************************************************************)

\* Measured: the two servers come from the measured list.  They differ unless the
\* list names one address twice, and the second is still missing only when the
\* list holds one pair or an unusable one and, past the adapter query, no backup exists.
Measured ==
    job = "auto" /\ pc \in {"list", "switch"} =>
        /\ dns_1 = NoDns => \E p \in map_dns_info : VipOf(p) = NoDns
        /\ dns_1 = dns_2 /\ dns_1 # NoDns =>
             \E p, q \in map_dns_info : p # q /\ VipOf(p) = dns_1 /\ VipOf(q) = dns_1
        /\ dns_2 = NoDns => \E p \in map_dns_info : map_dns_info = {p} \/ Unusable(p)
        /\ pc = "switch" /\ dns_2 = NoDns =>
             /\ ~ adapters[target].dhcp
             /\ {adapters[target].dns_1, adapters[target].dns_2} \subseteq {NoDns, dns_1}

Chosen == Measured /\ BestTwoChosen

\* The two fastest pairs of the measured list establish Chosen.
LEMMA SelectChosen == ASSUME TypeOK, Select PROVE Chosen'
<1>1. PICK p \in Fastest(map_dns_info, ping_t_ms) :
        /\ dns_1' = VipOf(p)
        /\ \/ map_dns_info \ {p} = {} /\ dns_2' = NoDns
           \/ \E q \in Fastest(map_dns_info \ {p}, ping_t_ms) :
                dns_2' = IF ping_t_ms[q] = PING_TIMEOUT THEN NoDns ELSE VipOf(q)
  BY DEF Select
<1>2. p \in map_dns_info /\ \A r \in map_dns_info : ping_t_ms[p] <= ping_t_ms[r]
  BY DEF Fastest
<1>3. map_dns_info' = map_dns_info /\ ping_t_ms' = ping_t_ms /\ pc' = "list"
  BY DEF Select, fetched
<1>4. CASE map_dns_info \ {p} = {} /\ dns_2' = NoDns
  <2>1. map_dns_info = {p}
    BY <1>2, <1>4
  <2>2. Measured'
    BY <1>1, <1>2, <1>3, <1>4, <2>1 DEF Measured
  <2>3. BestTwoChosen'
    BY <1>1, <1>3, <2>1 DEF BestTwoChosen
  <2> QED
    BY <2>2, <2>3 DEF Chosen
<1>5. CASE \E q \in Fastest(map_dns_info \ {p}, ping_t_ms) :
             dns_2' = IF ping_t_ms[q] = PING_TIMEOUT THEN NoDns ELSE VipOf(q)
  <2>1. PICK q \in Fastest(map_dns_info \ {p}, ping_t_ms) :
               dns_2' = IF ping_t_ms[q] = PING_TIMEOUT THEN NoDns ELSE VipOf(q)
    BY <1>5
  <2>2. /\ q \in map_dns_info /\ q # p
        /\ \A r \in map_dns_info : r # p => ping_t_ms[q] <= ping_t_ms[r]
    BY DEF Fastest
  <2>3. CASE dns_2' = VipOf(q)
    <3>1. dns_2' = NoDns => Unusable(q)'
      BY <1>3, <2>3 DEF Unusable
    <3>2. Measured'
      BY <1>1, <1>2, <1>3, <2>2, <2>3, <3>1 DEF Measured
    <3>3. BestTwoChosen'
      BY <1>1, <1>2, <1>3, <2>2, <2>3 DEF BestTwoChosen
    <3> QED
      BY <3>2, <3>3 DEF Chosen
  <2>4. CASE dns_2' = NoDns /\ ping_t_ms[q] = PING_TIMEOUT
    <3>1. Unusable(q)'
      BY <1>3, <2>4 DEF Unusable
    <3>2. Measured'
      BY <1>1, <1>2, <1>3, <2>2, <2>4, <3>1 DEF Measured
    <3>3. \A r \in map_dns_info : r # p => ping_t_ms[r] = PING_TIMEOUT
      <4>1. \A t \in Times \cup {time_out} :
              t \in Nat /\ (PING_TIMEOUT <= t => t = PING_TIMEOUT)
        BY TimeAssumption
      <4>2. \A r \in map_dns_info : ping_t_ms[r] \in Times \cup {time_out}
        BY DEF Select, TypeOK
      <4> QED
        BY <2>2, <2>4, <4>1, <4>2
    <3>4. BestTwoChosen'
      BY <1>1, <1>3, <3>3 DEF BestTwoChosen
    <3> QED
      BY <3>2, <3>4 DEF Chosen
  <2> QED
    BY <2>1, <2>3, <2>4
<1> QED
  BY <1>1, <1>4, <1>5

\* The adapter query fills in a missing second server and changes nothing else.
LEMMA ListChosen == ASSUME TypeOK, Chosen, List, job = "auto" PROVE Chosen'
<1>1. PICK a \in Adapter :
        /\ target' = a
        /\ dns_2' = IF dns_2 = NoDns THEN Backup(adapters[a], dns_1) ELSE dns_2
  BY DEF List
<1>2. /\ pc = "list" /\ pc' = "switch" /\ job' = job /\ adapters' = adapters
      /\ map_dns_info' = map_dns_info /\ ping_t_ms' = ping_t_ms /\ dns_1' = dns_1
  BY DEF List, machine, fetched
<1>3. CASE dns_2 # NoDns
  <2>1. dns_2' = dns_2
    BY <1>1, <1>3
  <2> QED
    BY <1>2, <1>3, <2>1 DEF Chosen, Measured, BestTwoChosen
<1>4. CASE dns_2 = NoDns
  <2>1. PICK p \in map_dns_info : map_dns_info = {p} \/ Unusable(p)
    BY <1>2, <1>4 DEF Chosen, Measured
  <2>2. dns_1 \in DnsField /\ adapters[a] \in AdapterInfo
    BY DEF TypeOK
  <2>3. /\ dns_2' = dns_1 => dns_1 = NoDns
        /\ dns_2' = NoDns => /\ ~ adapters[a].dhcp
                             /\ {adapters[a].dns_1, adapters[a].dns_2} \subseteq {NoDns, dns_1}
    BY <1>1, <1>4, <2>2, BackupFacts
  <2>4. Measured'
    <3>1. (map_dns_info = {p} \/ Unusable(p))'
      BY <1>2, <2>1 DEF Unusable
    <3> QED
      BY <1>1, <1>2, <2>1, <2>3, <3>1 DEF Chosen, Measured
  <2>5. BestTwoChosen'
    BY <1>2, <1>4 DEF Chosen, BestTwoChosen
  <2> QED
    BY <2>4, <2>5 DEF Chosen
<1> QED
  BY <1>3, <1>4

\* Chosen survives every step: Select establishes it, List completes it.
LEMMA ChosenStep == TypeOK /\ Control /\ Chosen /\ [Next]_vars => Chosen'
<1> SUFFICES ASSUME TypeOK, Control, Chosen, [Next]_vars
             PROVE  Chosen'
  OBVIOUS
<1>1. CASE Select
  BY <1>1, SelectChosen
<1>2. CASE List
  <2>1. job = "auto"
    BY <1>2 DEF List, Control
  <2> QED
    BY <1>2, <2>1, ListChosen
<1>3. CASE ManualList
  BY <1>3 DEF ManualList, Control, Chosen, Measured, BestTwoChosen
<1>4. CASE Start
  BY <1>4 DEF Start, on_auto_done, on_switch_dns, Chosen, Measured, BestTwoChosen
<1>5. CASE FallbackSwitch
  BY <1>5 DEF FallbackSwitch, Chosen, Measured, BestTwoChosen
<1>6. CASE Step /\ ~ Select /\ ~ List /\ ~ ManualList /\ ~ FallbackSwitch
  <2>1. pc' \notin {"list", "switch"}
    BY <1>6 DEF Step, FetchSucceeds, FetchHttpFails, FetchGivesUp, FallbackListFails,
                FallbackList, Ping, SelectNone, ListFails, Switch, Return
  <2> QED
    BY <2>1 DEF Chosen, Measured, BestTwoChosen
<1>7. CASE UNCHANGED vars
  BY <1>7 DEF vars, machine, fetched, chosen, Chosen, Measured, BestTwoChosen, Unusable
<1> QED
  BY <1>1, <1>2, <1>3, <1>4, <1>5, <1>6, <1>7 DEF Next

\* What holds of the chosen servers in every state.
LEMMA ChosenAlways == Spec => [](TypeOK /\ Control /\ Chosen)
<1>1. Init => Chosen
  BY DEF Init, Chosen, Measured, BestTwoChosen
<1> QED
  BY <1>1, ControlInit, ControlStep, ChosenStep, PTL DEF Spec

\* auto_select_dns never leaves out a server that answered faster than one of the
\* two it is about to set.
THEOREM TwoFastest == Spec => []BestTwoChosen
<1>1. Chosen => BestTwoChosen
  BY DEF Chosen
<1> QED
  BY <1>1, ChosenAlways, PTL

\* auto_select_dns sets one address twice only when the list names it twice.
THEOREM BackupDiffers == Spec => []BackupIsAnotherServer
<1>1. Chosen => BackupIsAnotherServer
  BY DEF Chosen, Measured, BackupIsAnotherServer
<1> QED
  BY <1>1, ChosenAlways, PTL

\* An empty address reaches switch_adapter_dns only when the user or the list named
\* it, or when auto_select_dns found no usable second server and the adapter is a
\* static one without another of its own.
THEOREM EmptyBackup == Spec => []EmptyOnlyWithoutAlternative
<1>1. TypeOK /\ Control /\ Chosen => EmptyOnlyWithoutAlternative
  <2> SUFFICES ASSUME TypeOK, Control, Chosen, pc = "switch"
               PROVE  EmptyOnlyWithoutAlternative
    BY DEF EmptyOnlyWithoutAlternative
  <2>1. job \in {"auto", "manual"}
    BY DEF TypeOK, Control
  <2>2. CASE job = "manual"
    BY <2>2 DEF Control, EmptyOnlyWithoutAlternative
  <2>3. CASE job = "auto"
    BY <2>3 DEF Chosen, Measured, EmptyOnlyWithoutAlternative
  <2> QED
    BY <2>1, <2>2, <2>3
<1> QED
  BY <1>1, ChosenAlways, PTL

\* Asking again for the server just set keeps its backup, except that the one-click
\* job gives an automatic adapter a public one and finds none in a pair of equal
\* servers; neither job's choice oscillates over a sequence of jobs.
THEOREM RepeatStable == Spec => []RepeatSettles
<1>1. TypeOK /\ Control => RepeatSettles
  <2> SUFFICES ASSUME TypeOK, Control, Applied
               PROVE  RepeatSettles
    BY DEF RepeatSettles
  <2>1. target \in Adapter /\ dns_1 \in Dns /\ dns_2 \in Dns
    BY DEF Applied, Control
  <2>2. /\ adapters[target] \in AdapterInfo
        /\ adapters[target].dns_1 = dns_1 /\ adapters[target].dns_2 = dns_2
    BY <2>1 DEF TypeOK, Applied
  <2> QED
    BY <2>1, <2>2, RepeatFacts DEF RepeatSettles
<1> QED
  BY <1>1, ChosenAlways, PTL
=============================================================================
