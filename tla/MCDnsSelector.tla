-------------------------- MODULE MCDnsSelector --------------------------
(* Instance of DnsSelector for TLC: small sets of adapters, views and        *)
(* addresses.  One address of the list is also the first public server, so  *)
(* that the backup rules meet both of their cases; the empty address is one  *)
(* the service may list and the user then ask for.                          *)
EXTENDS DnsSelector

CONSTANTS a1, a2, v1, v2, x, o, d1, d2

OneAdapter  == {a1}
TwoAdapters == {a1, a2}
OneView     == {v1}
TwoViews    == {v1, v2}
VipsXD      == {x, d1}
VipsXDNo    == {x, d1, NoDns}
AllDns      == {x, o, d1, d2}
OneTime     == {1}

\* What the counters of a ping that nobody answered may give: any number.
OneAndAny   == {1, 99}

Info(d, p, q) == [dhcp |-> d, dns_1 |-> p, dns_2 |-> q]

\* Static without DNS, with one, with two; automatic with one.
SomeInfos == {Info(FALSE, NoDns, NoDns), Info(FALSE, x, NoDns),
              Info(FALSE, o, x), Info(TRUE, o, NoDns)}
=============================================================================
