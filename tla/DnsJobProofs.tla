---------------------------- MODULE DnsJobProofs ----------------------------
(***************************************************************************)
(* DnsSelector implements the safety part of DnsJob, for any adapters,     *)
(* addresses and number of retries: its initial states are DnsJob's, and   *)
(* each of its steps is a step of DnsJob or changes nothing DnsJob sees.   *)
(***************************************************************************)
EXTENDS DnsSelectorProofs

\* A job begins from any state in which none runs.
LEMMA BeginMaps ==
    ASSUME TypeOK, Start
    PROVE  Job!Next
<1>1. CASE on_auto_done
  <2>1. Job!BeginAuto
    BY <1>1, AdapterAssumption
       DEF on_auto_done, Job!BeginAuto, Outcome, Request, success
  <2> QED
    BY <2>1 DEF Job!Next
<1>2. ASSUME NEW a \in Adapter, NEW ip \in Vip, on_switch_dns(a, ip)
      PROVE  Job!Next
  <2>1. Job!BeginManual(a, ip)
    BY <1>2, AdapterAssumption
       DEF on_switch_dns, Job!BeginManual, Outcome, Request, success
  <2> QED
    BY <2>1 DEF Job!Next
<1> QED
  BY <1>1, <1>2 DEF Start

\* The early returns of a job are its failures.
LEMMA ReturnMaps ==
    ASSUME TypeOK, Control, pc # "idle", job' = job, UNCHANGED chosen,
           UNCHANGED machine, pc' = "idle", res' # success
    PROVE  Job!Fail
  BY DEF Job!Fail, Control, Outcome, Request, chosen, machine

\* A step inside a job that leaves the machine alone is invisible.
LEMMA InsideMaps ==
    ASSUME TypeOK, Control, pc # "idle", pc' # "idle", UNCHANGED machine,
           job' = job, job = "manual" => UNCHANGED <<target, dns_1>>
    PROVE  UNCHANGED Job!jobVars
  BY DEF Job!jobVars, Control, Outcome, Request, machine

\* The fallback is used once, and only by an automatic job.
LEMMA FallbackMaps ==
    ASSUME TypeOK, Control, FallbackSwitch
    PROVE  Job!Next
<1>1. /\ pc = "fallback_switch" /\ job = "auto" /\ fallback = NoAdapter
      /\ target \in Adapter /\ job' = job
      /\ UNCHANGED chosen
  BY DEF FallbackSwitch, Control
<1>2. /\ adapters' \in {adapters, Assign(adapters, target, DEFAULT_DNS_1, DEFAULT_DNS_2)}
      /\ res' # success => adapters' = adapters
  <2>1. switch_adapter_dns(target, DEFAULT_DNS_1, DEFAULT_DNS_2)
    BY DEF FallbackSwitch
  <2> QED
    BY <1>1, <2>1, SwitchEffect, DnsAssumption DEF TypeOK, DnsField
<1>3. CASE res' = success
  <2>1. pc' = "fallback_fetch" /\ fallback' = target
    BY <1>3 DEF FallbackSwitch
  <2>2. Job!Set(target, DEFAULT_DNS_1, DEFAULT_DNS_2)
    BY <1>2 DEF Job!Set, Assign
  <2>3. Job!Fallback
    BY <1>1, <2>1, <2>2, AdapterAssumption
       DEF Job!Fallback, Outcome, Request, chosen
  <2> QED
    BY <2>3 DEF Job!Next
<1>4. CASE res' # success
  <2>1. pc' = "idle" /\ fallback' = fallback
    BY <1>4 DEF FallbackSwitch
  <2>2. Job!Fail
    BY <1>1, <1>2, <1>4, <2>1 DEF Job!Fail, Outcome, Request, chosen
  <2> QED
    BY <2>2 DEF Job!Next, Job!End
<1> QED
  BY <1>3, <1>4

\* The final switch is the end of a job; a manual job's is where the user asked.
LEMMA SwitchMaps ==
    ASSUME TypeOK, Control, Switch
    PROVE  Job!Next
<1>1. /\ pc = "switch" /\ pc' = "idle" /\ target \in Adapter
      /\ job # "none" /\ job' = job /\ fallback' = fallback
      /\ UNCHANGED chosen
  BY DEF Switch, Control
<1>2. /\ adapters' \in {adapters, Assign(adapters, target, dns_1, dns_2)}
      /\ res' # success => adapters' = adapters
      /\ res' = success => dns_1 \in Dns /\ dns_2 \in Dns
  <2>1. switch_adapter_dns(target, dns_1, dns_2)
    BY DEF Switch
  <2> QED
    BY <1>1, <2>1, SwitchEffect DEF TypeOK
<1>3. CASE res' = success
  <2>1. Job!Set(target, dns_1, dns_2)
    BY <1>2 DEF Job!Set, Assign
  <2>2. Job!Succeed
    BY <1>1, <1>2, <1>3, <2>1 DEF Job!Succeed, Outcome, Request, chosen
  <2> QED
    BY <2>2 DEF Job!Next, Job!End
<1>4. CASE res' # success
  <2>1. Job!Fail
    BY <1>1, <1>2, <1>4 DEF Job!Fail, Outcome, Request, chosen
  <2> QED
    BY <2>1 DEF Job!Next, Job!End
<1> QED
  BY <1>3, <1>4

\* Every step of DnsSelector is one of DnsJob, or none.
LEMMA StepMaps ==
    ASSUME TypeOK, Control, [Next]_vars
    PROVE  [Job!Next]_Job!jobVars
<1> USE DEF machine, fetched, chosen
<1>1. CASE Start
  BY <1>1, BeginMaps
<1>2. CASE FetchSucceeds \/ FetchHttpFails \/ FallbackList \/ Ping \/ Select
           \/ List \/ ManualList
  <2>1. /\ pc # "idle" /\ pc' # "idle" /\ UNCHANGED machine /\ job' = job
        /\ job = "manual" => UNCHANGED <<target, dns_1>>
    BY <1>2 DEF FetchSucceeds, FetchHttpFails, FallbackList, Ping, Select, List,
                ManualList, Control
  <2> QED
    BY <2>1, InsideMaps
<1>3. CASE FetchGivesUp \/ FallbackListFails \/ SelectNone \/ ListFails
  <2>1. pc # "idle" /\ UNCHANGED machine /\ job' = job /\ UNCHANGED chosen
    BY <1>3 DEF FetchGivesUp, FallbackListFails, SelectNone, ListFails
  <2>2. pc' = "idle" /\ res' # success
    BY <1>3 DEF FetchGivesUp, FallbackListFails, SelectNone, ListFails, Return,
                RespondErrors, AdapterListErrors, http_fail, no_adapter, no_dns, success
  <2> QED
    BY <2>1, <2>2, ReturnMaps DEF Job!Next, Job!End
<1>4. CASE FallbackSwitch
  BY <1>4, FallbackMaps
<1>5. CASE Switch
  BY <1>5, SwitchMaps
<1>6. CASE UNCHANGED vars
  BY <1>6 DEF vars, Job!jobVars, Outcome, Request
<1> QED
  BY <1>1, <1>2, <1>3, <1>4, <1>5, <1>6 DEF Next, Step

\* auto_select_dns and on_switch_dns, with every retry, fallback and failure,
\* change the machine as DnsJob allows and in no other way.
THEOREM ImplementsJob == Spec => Job!Safety
<1>1. Init => Job!Init
  BY DEF Init, Job!Init, Outcome, Request
<1>2. TypeOK /\ Control /\ [Next]_vars => [Job!Next]_Job!jobVars
  BY StepMaps
<1> QED
  BY <1>1, <1>2, ControlAlways, PTL DEF Spec, Job!Safety
=============================================================================
