--------------------------- MODULE MCDnsSwitcher ---------------------------
(* Instance of DnsSwitcher for TLC: two adapters with IP and one without.  The *)
(* index of wan needs more than a word, and its low word is the index of lan;  *)
(* the interface indexes are the other way round.                              *)
EXTENDS DnsSwitcher

CONSTANTS lan, wan, tap, x

Adapters == {lan, wan, tap}
WithIP   == {lan, wan}
Indexes  == [i \in Adapters |-> CASE i = lan -> 1 [] i = wan -> 5 [] i = tap -> 2]
IfIndexes == [i \in Adapters |-> CASE i = lan -> 2 [] i = wan -> 1 [] i = tap -> 3]
Addresses == {x}
Automatic == {<<NoDns, NoDns>>}
=============================================================================
