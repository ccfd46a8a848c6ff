---------------------------- MODULE MCFreshenDns ----------------------------
(* Instance of FreshenDns for TLC: the thread that freshens may get any answer *)
(* of up to two views of up to two items; a second thread, answers that name   *)
(* no view.                                                                    *)
EXTENDS FreshenDns

CONSTANTS t1, t2, x, y

BothThreads == {t1, t2}
Vips        == {x, y}
UpTimes     == {"1h", "2h"}
NameA       == <<"name", 1>>
Names       == {NameA, unknow(1)}

\* An answer's time, and what the counters of a ping that asked nobody may give.
SomeTimes   == {1, 10}

I(p, u) == [vip |-> p, uptime |-> u]

\* No items, one of each kind, the same address twice, and a later bad one.
Infos == {<<>>, <<I(null, "1h"), I(y, null)>>, <<I(x, "1h"), I(x, "2h")>>,
          <<I(x, "1h"), I(y, "2h")>>, <<I(x, "1h"), I(y, bad)>>}

Views == {[view_name |-> v, info |-> i] : v \in {NameA, null}, i \in Infos \cup {null, bad}}
           \cup {[view_name |-> unknow(1), info |-> <<I(y, "1h")>>],
                 [view_name |-> bad, info |-> null]}

Good(data) == [status |-> "success", data |-> data]
Nameless == [view_name |-> null, info |-> <<I(x, "1h")>>]

\* Pairs of views: the same name twice, two nameless ones, one to be skipped or
\* thrown on before or after a good one.
PairViews ==
    {[view_name |-> NameA, info |-> i] : i \in {<<I(x, "1h")>>, <<I(x, "2h"), I(y, null)>>, null}}
      \cup {[view_name |-> null, info |-> i] : i \in {<<I(x, "1h")>>, <<I(x, "1h"), I(bad, "1h")>>, null}}

AnyAnswer ==
    {Good(d) : d \in {<<>>, null, bad} \cup {<<v>> : v \in Views}
                       \cup {<<v, w>> : v \in PairViews, w \in PairViews}}
      \cup {[status |-> s, data |-> <<>>] : s \in {null, bad, "error"}}

NamelessAnswer == {Good(<<Nameless>>)}

Answers(t) == IF t = t1 THEN AnyAnswer ELSE NamelessAnswer
=============================================================================
