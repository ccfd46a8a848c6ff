----------------------------- MODULE MCDnsPing -----------------------------
(* Instance of DnsPing for TLC: the scale of the counters and of the        *)
(* timeouts is reduced, -w being the least timeout as in the program.       *)
EXTENDS DnsPing

TwoWaits == {1, 3}
SomeGarbage == {0, 7}
=============================================================================
