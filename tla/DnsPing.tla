------------------------------ MODULE DnsPing ------------------------------
(***************************************************************************)
(* dns_ping::ping, DNSPingInterface::Ping and the part of DNSPing that     *)
(* they run: a fixed number of DNS requests to one server, statistics in   *)
(* the global ConfigurationParameter, and the mean round trip time.        *)
(*                                                                         *)
(* Several threads may call Ping; nothing orders them but the callers.     *)
(* The timeout of the calls is one of the things they share: a socket      *)
(* opened while another call has it cleared waits without a limit.  The    *)
(* history variable overlap records that two calls were inside at once.    *)
(* Times are whole milliseconds.                                           *)
(***************************************************************************)
EXTENDS Integers, FiniteSets

CONSTANTS
    Thread,
    Count,              \* requests asked for by -n: 3 (1 in a debug build)
    DefaultCount,       \* DEFAULT_SEND_TIMES
    WaitingTime,        \* -w 500
    DEFAULT_TIME_OUT,   \* 2000, until -w is read
    TIME_OUT_MIN,       \* 500, the least -w accepts
    Wait,               \* waiting times a receive may end with
    Garbage,            \* what 0.0/0.0 may become as an unsigned int
    StatMax             \* UINT16_MAX, the limit of the uncounted mode

ASSUME CountAssumption == Count \in Nat \ {0} /\ DefaultCount \in Nat \ {0}
ASSUME WaitAssumption == Wait \subseteq Nat \ {0}
ASSUME TimeoutAssumption ==
    /\ DEFAULT_TIME_OUT \in Nat \ {0} /\ TIME_OUT_MIN \in Nat \ {0}
    /\ WaitingTime \in Nat /\ WaitingTime >= TIME_OUT_MIN
ASSUME GarbageAssumption == Garbage \subseteq Nat /\ StatMax \in Nat

VARIABLES
    Statistics_Send, Statistics_RealSend,       \* ConfigurationParameter
    Statistics_RecvNum, Statistics_TotalTime,
    SocketTimeout,
    LowerThanWin8,      \* the system is older than Windows 8; never changes
    pc, index, result,  \* per thread: place, loop counter, waiting time
    endless,            \* per thread: its socket was opened with a timeout of 0
    counted,            \* per thread: FALSE in the loop without a count
    ok, t_ms,           \* per thread: what Ping returned
    own,                \* history, per call: requests, answers and their range,
                        \* and how many of these failed validation;
                        \* kept while no two calls have overlapped
    overlap             \* history: two calls were inside at once

statistics == <<Statistics_Send, Statistics_RealSend, Statistics_RecvNum, Statistics_TotalTime>>
timeout == <<SocketTimeout, LowerThanWin8>>
global == <<statistics, timeout>>
local == <<index, result, counted, endless>>
returned == <<ok, t_ms>>
vars == <<global, pc, local, returned, own, overlap>>

NoAnswers == [sent |-> 0, got |-> 0, min |-> 0, max |-> 0, wrong |-> 0]

Init ==
    /\ Statistics_Send = 0 /\ Statistics_RealSend = 0
    /\ Statistics_RecvNum = 0 /\ Statistics_TotalTime = 0
    /\ SocketTimeout = 0 /\ LowerThanWin8 \in BOOLEAN
    /\ pc = [t \in Thread |-> "idle"]
    /\ index = [t \in Thread |-> 0]
    /\ result = [t \in Thread |-> 0]
    /\ counted = [t \in Thread |-> TRUE]
    /\ endless = [t \in Thread |-> FALSE]
    /\ ok = [t \in Thread |-> FALSE]
    /\ t_ms = [t \in Thread |-> 0]
    /\ own = [t \in Thread |-> NoAnswers]
    /\ overlap = FALSE

Own(t, r) == own' = IF overlap THEN own ELSE [own EXCEPT ![t] = r]

Goto(t, p) == pc' = [pc EXCEPT ![t] = p]
At(t, p) == pc[t] = p

Ping(t) ==
    /\ At(t, "idle") /\ Goto(t, "clear")
    /\ ok' = [ok EXCEPT ![t] = FALSE]
    /\ t_ms' = [t_ms EXCEPT ![t] = 0]
    /\ overlap' = (overlap \/ \E u \in Thread \ {t} : pc[u] # "idle")
    /\ own' = IF overlap' THEN [u \in Thread |-> NoAnswers]
              ELSE [own EXCEPT ![t] = NoAnswers]
    /\ UNCHANGED <<global, local>>

\* Mutant of ClearTable: the total time survives from the previous call.
ClearTableKeepsTime(t) ==
    /\ At(t, "clear") /\ Goto(t, "defaults")
    /\ Statistics_Send' = 0 /\ Statistics_RealSend' = 0
    /\ Statistics_RecvNum' = 0 /\ SocketTimeout' = 0
    /\ UNCHANGED <<Statistics_TotalTime, LowerThanWin8, local, returned, own, overlap>>

(* ConfigurationInitialization: memset of the whole table, then the        *)
(* defaults, then Winsock.                                                 *)
ClearTable(t) ==
    /\ At(t, "clear") /\ Goto(t, "defaults")
    /\ Statistics_Send' = 0 /\ Statistics_RealSend' = 0
    /\ Statistics_RecvNum' = 0 /\ Statistics_TotalTime' = 0
    /\ SocketTimeout' = 0
    /\ UNCHANGED <<LowerThanWin8, local, returned, own, overlap>>

SetDefaults(t) ==
    /\ At(t, "defaults")
    /\ Statistics_Send' = DefaultCount
    /\ SocketTimeout' = DEFAULT_TIME_OUT
    /\ \E next \in {"count", "report"} : Goto(t, next)
    /\ UNCHANGED <<Statistics_RealSend, Statistics_RecvNum, Statistics_TotalTime,
                   LowerThanWin8, local, returned, own, overlap>>

(* ReadCommands: -n, then -w, then the target; a bad target, found there   *)
(* or by the checks that follow, ends dnsping_main.                        *)
ReadCount(t) ==
    /\ At(t, "count") /\ Goto(t, "wait")
    /\ Statistics_Send' = Count
    /\ UNCHANGED <<Statistics_RealSend, Statistics_RecvNum, Statistics_TotalTime,
                   timeout, local, returned, own, overlap>>

ReadWait(t) ==
    /\ At(t, "wait")
    /\ SocketTimeout' = WaitingTime
    /\ \E next \in {"check", "report"} : Goto(t, next)
    /\ UNCHANGED <<statistics, LowerThanWin8, local, returned, own, overlap>>

(* Before Windows 8, where a receive takes some 500 ms longer than it is   *)
(* told to, the timeout is shortened.                                      *)
\* The comparison is unsigned, and a negative int a large number to it.
OverMinimum == SocketTimeout > TIME_OUT_MIN \/ SocketTimeout < 0

\* Mutant of CheckTimeout: the timeout is shortened on every Windows.
CheckTimeoutEverywhere(t) ==
    /\ At(t, "check")
    /\ Goto(t, IF OverMinimum THEN "subtract"
               ELSE IF SocketTimeout = TIME_OUT_MIN THEN "one" ELSE "mode")
    /\ UNCHANGED <<global, local, returned, own, overlap>>

\* Mutant of CheckTimeout: the least timeout is not treated apart.
CheckTimeoutAtLeast(t) ==
    /\ At(t, "check")
    /\ Goto(t, IF ~ LowerThanWin8 THEN "mode"
               ELSE IF OverMinimum \/ SocketTimeout = TIME_OUT_MIN THEN "subtract"
               ELSE "mode")
    /\ UNCHANGED <<global, local, returned, own, overlap>>

CheckTimeout(t) ==
    /\ At(t, "check")
    /\ Goto(t, IF ~ LowerThanWin8 THEN "mode"
               ELSE IF OverMinimum THEN "subtract"
               ELSE IF SocketTimeout = TIME_OUT_MIN THEN "one" ELSE "mode")
    /\ UNCHANGED <<global, local, returned, own, overlap>>

ShortenTimeout(t) ==
    /\ pc[t] \in {"subtract", "one"} /\ Goto(t, "mode")
    /\ SocketTimeout' = IF pc[t] = "one" THEN 1 ELSE SocketTimeout - TIME_OUT_MIN
    /\ UNCHANGED <<statistics, LowerThanWin8, local, returned, own, overlap>>

ChooseMode(t) ==
    /\ At(t, "mode") /\ Goto(t, "loop")
    /\ counted' = [counted EXCEPT ![t] = Statistics_Send # 0]
    /\ index' = [index EXCEPT ![t] = 0]
    /\ UNCHANGED <<global, result, endless, returned, own, overlap>>

More(t) == IF counted[t] THEN index[t] < Statistics_Send
           ELSE Statistics_RealSend <= StatMax

\* Mutant of Request: only the counted loop counts its requests.
RequestUncounted(t) ==
    /\ At(t, "loop") /\ More(t) /\ Goto(t, "open")
    /\ Statistics_RealSend' = IF counted[t] THEN Statistics_RealSend + 1
                              ELSE Statistics_RealSend
    /\ index' = IF counted[t] THEN [index EXCEPT ![t] = @ + 1] ELSE index
    /\ Own(t, [own[t] EXCEPT !.sent = @ + 1])
    /\ result' = [result EXCEPT ![t] = 0]
    /\ UNCHANGED <<Statistics_Send, Statistics_RecvNum, Statistics_TotalTime,
                   timeout, counted, endless, returned, overlap>>

\* Every request has a SendProcess, and a waiting time, of its own.
Request(t) ==
    /\ At(t, "loop") /\ More(t) /\ Goto(t, "open")
    /\ Statistics_RealSend' = Statistics_RealSend + 1
    /\ index' = IF counted[t] THEN [index EXCEPT ![t] = @ + 1] ELSE index
    /\ Own(t, [own[t] EXCEPT !.sent = @ + 1])
    /\ result' = [result EXCEPT ![t] = 0]
    /\ UNCHANGED <<Statistics_Send, Statistics_RecvNum, Statistics_TotalTime,
                   timeout, counted, endless, returned, overlap>>

LoopEnds(t) ==
    /\ At(t, "loop") /\ ~ More(t) /\ Goto(t, "report")
    /\ UNCHANGED <<global, local, returned, own, overlap>>

(* SendProcess.                                                            *)
\* A socket, with the timeout the table holds now; 0 is no limit to Winsock.
OpenSocket(t) ==
    /\ At(t, "open") /\ Goto(t, "recv")
    /\ endless' = [endless EXCEPT ![t] = SocketTimeout = 0]
    /\ UNCHANGED <<global, index, result, counted, returned, own, overlap>>

Receiving(t) == pc[t] \in {"recv", "rewait"}

CloseSocket(t) == endless' = [endless EXCEPT ![t] = FALSE]

\* No socket, no route, no clock: dnsping_main gives up.
SendFails(t) ==
    /\ At(t, "open") \/ Receiving(t)
    /\ Goto(t, "report")
    /\ CloseSocket(t)
    /\ UNCHANGED <<global, index, result, counted, returned, own, overlap>>

\* The receive fails - an error, or its timeout -, or too little came.
NoAnswer(t) ==
    /\ Receiving(t) /\ Goto(t, "loop")
    /\ CloseSocket(t)
    /\ UNCHANGED <<global, index, result, counted, returned, own, overlap>>

\* A call's own tally o with one answer more.
Tallied(o, time, wrong) ==
    [sent |-> o.sent, got |-> o.got + 1,
     min |-> IF o.got = 0 \/ time < o.min THEN time ELSE o.min,
     max |-> IF time > o.max THEN time ELSE o.max,
     wrong |-> o.wrong + wrong]

\* Mutant of CountAnswer: the two clock readings swapped.
CountAnswerBackwards(t, time, wrong) ==
    /\ Statistics_TotalTime' = Statistics_TotalTime - time
    /\ Statistics_RecvNum' = Statistics_RecvNum + 1
    /\ Own(t, [own[t] EXCEPT !.got = @ + 1])

\* Statistics of one answer; own keeps what a call would count for itself.
CountAnswer(t, time, wrong) ==
    /\ Statistics_TotalTime' = Statistics_TotalTime + time
    /\ Statistics_RecvNum' = Statistics_RecvNum + 1
    /\ Own(t, Tallied(own[t], time, wrong))

RightAnswer(t) ==
    /\ Receiving(t) /\ Goto(t, "loop")
    /\ \E time \in Wait :
         /\ pc[t] = "rewait" => time >= result[t]
         /\ CountAnswer(t, time, 0)
    /\ CloseSocket(t)
    /\ UNCHANGED <<Statistics_Send, Statistics_RealSend, timeout,
                   index, result, counted, returned, overlap>>

\* Mutant of WrongAnswer: the clock starts anew with every wait.
WrongAnswerRestartsClock(t) ==
    /\ Receiving(t) /\ Goto(t, "wrong")
    /\ \E time \in Wait : result' = [result EXCEPT ![t] = time]
    /\ UNCHANGED <<global, index, counted, endless, returned, own, overlap>>

\* A packet that fails validation is waited past, until the timeout.
WrongAnswer(t) ==
    /\ Receiving(t) /\ Goto(t, "wrong")
    /\ \E time \in Wait :
         /\ pc[t] = "rewait" => time > result[t]
         /\ result' = [result EXCEPT ![t] = time]
    /\ UNCHANGED <<global, index, counted, endless, returned, own, overlap>>

\* The waiting time is compared with what the table holds at that moment.
WaitAgain(t) ==
    /\ At(t, "wrong") /\ result[t] < SocketTimeout
    /\ Goto(t, "rewait")
    /\ UNCHANGED <<global, local, returned, own, overlap>>

\* Mutant of WaitedOut: one wrong packet is waited past, no more.
WaitedOutAtOnce(t) ==
    /\ At(t, "wrong")
    /\ Goto(t, "loop")
    /\ CountAnswer(t, result[t], 1)
    /\ CloseSocket(t)
    /\ UNCHANGED <<Statistics_Send, Statistics_RealSend, timeout,
                   index, result, counted, returned, overlap>>

\* The wait ends with that packet still in hand: it is counted like an answer.
WaitedOut(t) ==
    /\ At(t, "wrong") /\ result[t] >= SocketTimeout
    /\ Goto(t, "loop")
    /\ CountAnswer(t, result[t], 1)
    /\ CloseSocket(t)
    /\ UNCHANGED <<Statistics_Send, Statistics_RealSend, timeout,
                   index, result, counted, returned, overlap>>

(* Interface.cpp, after dnsping_main, whose own result is not looked at.   *)
\* The difference is unsigned: it is positive unless both are equal.  The
\* call's locals are gone.
Report(t) ==
    /\ At(t, "report") /\ Goto(t, "idle")
    /\ ok' = [ok EXCEPT ![t] = Statistics_RealSend = Statistics_RecvNum]
    /\ IF Statistics_RecvNum = 0
       THEN \E g \in Garbage : t_ms' = [t_ms EXCEPT ![t] = g]
       ELSE t_ms' = [t_ms EXCEPT ![t] = Statistics_TotalTime \div Statistics_RecvNum]
    /\ index' = [index EXCEPT ![t] = 0] /\ result' = [result EXCEPT ![t] = 0]
    /\ counted' = [counted EXCEPT ![t] = TRUE]
    /\ UNCHANGED <<global, endless, own, overlap>>

Step(t) ==
    \/ ClearTable(t) \/ SetDefaults(t) \/ ReadCount(t) \/ ReadWait(t)
    \/ CheckTimeout(t) \/ ShortenTimeout(t) \/ ChooseMode(t)
    \/ Request(t) \/ LoopEnds(t)
    \/ OpenSocket(t) \/ SendFails(t) \/ NoAnswer(t) \/ RightAnswer(t)
    \/ WrongAnswer(t) \/ WaitAgain(t) \/ WaitedOut(t)
    \/ Report(t)

Next == \E t \in Thread : Ping(t) \/ Step(t)

\* A receive on a socket without a limit: it ends only if something arrives.
Endless(t) == Receiving(t) /\ endless[t]

\* A call in progress goes on, its sockets having timeouts; but nothing obliges a
\* receive on a socket that has none.
Spec == Init /\ [][Next]_vars /\ \A t \in Thread : WF_vars(Step(t) /\ ~ Endless(t))

-----------------------------------------------------------------------------
(* Properties.                                                             *)

Place == {"idle", "clear", "defaults", "count", "wait", "check", "subtract", "one",
          "mode", "loop", "open", "recv", "wrong", "rewait", "report"}

Tally == [sent : Nat, got : Nat, min : Nat, max : Nat, wrong : Nat]

\* The statistics and the locals of a call keep their types.
TypeOK ==
    /\ Statistics_Send \in Nat /\ Statistics_RealSend \in Nat
    /\ Statistics_RecvNum \in Nat /\ Statistics_TotalTime \in Nat
    /\ SocketTimeout \in Int /\ LowerThanWin8 \in BOOLEAN
    /\ pc \in [Thread -> Place]
    /\ index \in [Thread -> Nat] /\ result \in [Thread -> Nat]
    /\ counted \in [Thread -> BOOLEAN] /\ endless \in [Thread -> BOOLEAN] /\ ok \in [Thread -> BOOLEAN]
    /\ t_ms \in [Thread -> Nat]
    /\ own \in [Thread -> Tally]
    /\ overlap \in BOOLEAN

\* A call alone that reports success and sent anything had every one of its
\* requests answered, and the time it reports lies between its fastest and its
\* slowest answer: no statistic of an earlier or a failed call leaks in.
MeanOfOwnAnswers ==
    \A t \in Thread : ~ overlap /\ pc[t] = "idle" /\ ok[t] /\ own[t].sent > 0 =>
        /\ own[t].sent = Count /\ own[t].got = Count
        /\ own[t].min <= t_ms[t] /\ t_ms[t] <= own[t].max

\* From Windows 8 on a wrong packet never makes a server look fast: each one that
\* SendProcess ends up counting (Process.cpp:430) enters the mean with a whole -w at
\* least.  Before, the 500 ms asked for have become 1 ms (Main.cpp:118) and it may.
WrongAnswersCost ==
    \A t \in Thread :
        ~ LowerThanWin8 /\ ~ overlap /\ pc[t] = "idle" /\ ok[t] /\ own[t].sent > 0 =>
            t_ms[t] >= (own[t].wrong * WaitingTime) \div own[t].got

\* On no Windows does a call that runs alone wait without a limit: shortening the
\* timeout never leaves the 0 that Winsock takes for "no timeout" (Main.cpp:115-118).
EndlessOnlyByOverlap == \A t \in Thread : Endless(t) => overlap

\* Whatever other calls did to the shared table in between - clearing it, turning a
\* loop into the one without a count ("-t"), taking the timeout away - a call returns
\* once no other call goes on, however its requests are answered, unless it waits on
\* a socket it opened while the timeout was 0.
PingReturns ==
    \A t \in Thread :
        <>[](\A u \in Thread \ {t} : pc[u] = "idle" \/ Endless(u))
            => (pc[t] # "idle" ~> (pc[t] = "idle" \/ Endless(t)))

=============================================================================
