----------------------------- MODULE MCProgram -----------------------------
(* Instance of Program for TLC.                                             *)
EXTENDS Program, TLC

CONSTANTS x, p1, p2

Static == [dhcp |-> FALSE, dns_1 |-> "", dns_2 |-> ""]
Infos == {Static}
Addresses == {x}

\* States that differ in nothing a later step or a property reads are one: the
\* pointers for the colours, two history variables of Ui, and what the job of a
\* thread that has ended was.
Ended(w) == pc[w] = "off" /\ w # runner
View ==
    <<status, enabled, queue, list, map, sel, switched, kind, pc,
      adapters, read, posted, shows, runner, overlapped, behind,
      [w \in Worker |-> IF Ended(w) THEN Work("none", NoRequest, "none") ELSE work[w]]>>

Symmetry == Permutations(Worker) \cup Permutations(Item) \cup Permutations(Adapter)
=============================================================================
