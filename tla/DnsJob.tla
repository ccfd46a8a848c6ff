------------------------------- MODULE DnsJob -------------------------------
(***************************************************************************)
(* What one of dns_selector's jobs promises to the machine, whoever runs   *)
(* it and however it gets there: an automatic job (auto_select_dns) may    *)
(* put one adapter on the public servers, once; a manual job               *)
(* (on_switch_dns) touches only the adapter it was asked for; every job    *)
(* ends, and its end is the only other moment the machine can change.      *)
(* Nothing of a job is undone: a failure may leave the fallback behind.    *)
(***************************************************************************)
EXTENDS Naturals

CONSTANTS
    Adapter, InitInfos, Dns, DEFAULT_DNS_1, DEFAULT_DNS_2,
    Asked,          \* addresses the user may ask for; one outside Dns cannot be set
    NoRequest       \* no request of the user's

VARIABLES
    adapters,   \* DNS configuration per adapter
    job,        \* "none", "auto" or "manual"
    request,    \* <<adapter, address>> of a manual job
    fell,       \* the fallback has been used
    outcome     \* "none" before the first job, "running", "success", "failure"

jobVars == <<adapters, job, request, fell, outcome>>

\* What one accepted call of switch_adapter_dns may leave: WMI may still
\* refuse the change in the method's own return value.
Set(a, d1, d2) ==
    adapters' \in {adapters, [adapters EXCEPT ![a].dns_1 = d1, ![a].dns_2 = d2]}

Init ==
    /\ adapters \in [Adapter -> InitInfos]
    /\ job = "none" /\ request = NoRequest
    /\ fell = FALSE /\ outcome = "none"

BeginAuto ==
    /\ outcome # "running"
    /\ job' = "auto" /\ request' = NoRequest
    /\ fell' = FALSE /\ outcome' = "running"
    /\ UNCHANGED adapters

BeginManual(a, ip) ==
    /\ outcome # "running"
    /\ job' = "manual" /\ request' = <<a, ip>>
    /\ fell' = FALSE /\ outcome' = "running"
    /\ UNCHANGED adapters

Fallback ==
    /\ outcome = "running" /\ job = "auto" /\ ~ fell
    /\ \E a \in Adapter : Set(a, DEFAULT_DNS_1, DEFAULT_DNS_2)
    /\ fell' = TRUE
    /\ UNCHANGED <<job, request, outcome>>

Fail ==
    /\ outcome = "running"
    /\ outcome' = "failure"
    /\ UNCHANGED <<adapters, job, request, fell>>

Succeed ==
    /\ outcome = "running"
    /\ \E a \in Adapter, d1 \in Dns, d2 \in Dns :
         /\ job = "manual" => request = <<a, d1>>
         /\ Set(a, d1, d2)
    /\ outcome' = "success"
    /\ UNCHANGED <<job, request, fell>>

End == Fail \/ Succeed

Next ==
    \/ BeginAuto \/ (\E a \in Adapter, ip \in Asked : BeginManual(a, ip))
    \/ Fallback \/ End

Safety == Init /\ [][Next]_jobVars

Spec == Safety /\ WF_jobVars(End)
=============================================================================
