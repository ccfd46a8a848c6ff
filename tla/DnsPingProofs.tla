--------------------------- MODULE DnsPingProofs ---------------------------
(***************************************************************************)
(* Theorems about DnsPing, for any number of callers, requests, waiting    *)
(* times and any timeout: types, and what a call alone reports.            *)
(***************************************************************************)
EXTENDS DnsPing, TLAPS

-----------------------------------------------------------------------------
(* Arithmetic of the mean.                                                 *)

LEMMA MulMono ==
    ASSUME NEW a \in Nat, NEW b \in Nat, NEW c \in Nat, a <= b
    PROVE  a * c <= b * c
BY SMT

LEMMA MulSuc ==
    ASSUME NEW a \in Nat, NEW c \in Nat
    PROVE  a * (c + 1) = a * c + a /\ a * c \in Nat
BY SMT

LEMMA DivBounds ==
    ASSUME NEW a \in Nat, NEW d \in Nat \ {0}
    PROVE  /\ a \div d \in Nat
           /\ d * (a \div d) <= a
           /\ a < d * ((a \div d) + 1)
BY SMT

LEMMA MeanAtLeast ==
    ASSUME NEW total \in Nat, NEW n \in Nat \ {0}, NEW low \in Nat,
           low * n <= total
    PROVE  low <= total \div n
BY DivBounds, SMT

LEMMA MeanAtMost ==
    ASSUME NEW total \in Nat, NEW n \in Nat \ {0}, NEW high \in Nat,
           total <= high * n
    PROVE  total \div n <= high
BY DivBounds, SMT

LEMMA DivMono ==
    ASSUME NEW a \in Nat, NEW b \in Nat, NEW n \in Nat \ {0}, a <= b
    PROVE  a \div n <= b \div n
BY DivBounds, SMT

-----------------------------------------------------------------------------
(* Types.                                                                  *)

LEMMA CountType ==
    ASSUME NEW t \in Thread, NEW time \in Nat, NEW wrong \in Nat,
           TypeOK, CountAnswer(t, time, wrong)
    PROVE  /\ Statistics_TotalTime' \in Nat /\ Statistics_RecvNum' \in Nat
           /\ own' \in [Thread -> Tally]
<1>1. own[t] \in Tally
  BY DEF TypeOK
<1>2. Tallied(own[t], time, wrong) \in Tally
  BY <1>1 DEF Tallied, Tally
<1>3. own' = IF overlap THEN own ELSE [own EXCEPT ![t] = Tallied(own[t], time, wrong)]
  BY DEF CountAnswer, Own
<1>4. own' \in [Thread -> Tally]
  BY <1>2, <1>3 DEF TypeOK
<1> QED
  BY <1>4 DEF CountAnswer, TypeOK

LEMMA TypeInit == Init => TypeOK
<1>1. NoAnswers \in Tally
  BY DEF NoAnswers, Tally
<1>2. ASSUME NEW none \in Tally
      PROVE  [t \in Thread |-> none] \in [Thread -> Tally]
  OBVIOUS
<1>3. Init => own \in [Thread -> Tally]
  BY <1>1, <1>2 DEF Init
<1> QED
  <2> SUFFICES ASSUME Init PROVE TypeOK
    OBVIOUS
  <2>1. pc \in [Thread -> Place]
    BY DEF Init, Place
  <2>2. index \in [Thread -> Nat] /\ result \in [Thread -> Nat] /\ t_ms \in [Thread -> Nat]
    BY DEF Init
  <2>3. counted \in [Thread -> BOOLEAN] /\ ok \in [Thread -> BOOLEAN] /\ overlap \in BOOLEAN
    BY DEF Init
  <2> QED
    BY <1>3, <2>1, <2>2, <2>3 DEF Init, TypeOK

LEMMA TypeStep == TypeOK /\ [Next]_vars => TypeOK'
<1>1. CASE UNCHANGED vars
  BY <1>1 DEF vars, global, statistics, timeout, local, returned, TypeOK
<1>2. ASSUME TypeOK, NEW t \in Thread, Ping(t) \/ Step(t)
      PROVE  TypeOK'
  <2> USE <1>2 DEF global, statistics, timeout, local, returned, Goto, At, Place,
                   Receiving, CloseSocket
  <2>1. CASE Ping(t)
    <3>1. NoAnswers \in Tally
      BY DEF NoAnswers, Tally
    <3> QED
      BY <2>1, <3>1 DEF Ping, TypeOK, Own
  <2>2. CASE ClearTable(t)
    BY <2>2 DEF ClearTable, TypeOK
  <2>3. CASE SetDefaults(t)
    BY <2>3, CountAssumption, TimeoutAssumption DEF SetDefaults, TypeOK
  <2>4. CASE ReadCount(t) \/ ReadWait(t) \/ CheckTimeout(t) \/ ShortenTimeout(t)
    <3>1. CASE ReadCount(t)
      BY <3>1, CountAssumption DEF ReadCount, TypeOK
    <3>2. CASE ReadWait(t)
      BY <3>2, TimeoutAssumption DEF ReadWait, TypeOK
    <3>3. CASE CheckTimeout(t)
      BY <3>3 DEF CheckTimeout, TypeOK
    <3>4. CASE ShortenTimeout(t)
      BY <3>4, TimeoutAssumption DEF ShortenTimeout, TypeOK
    <3> QED
      BY <2>4, <3>1, <3>2, <3>3, <3>4
  <2>5. CASE ChooseMode(t)
    BY <2>5 DEF ChooseMode, TypeOK
  <2>6. CASE Request(t)
    <3>1. [own[t] EXCEPT !.sent = @ + 1] \in Tally
      BY DEF TypeOK, Tally
    <3> QED
      BY <2>6, <3>1 DEF Request, TypeOK, Own
  <2>7. CASE LoopEnds(t) \/ OpenSocket(t) \/ SendFails(t) \/ NoAnswer(t) \/ WaitAgain(t)
    BY <2>7 DEF LoopEnds, OpenSocket, SendFails, NoAnswer, WaitAgain, TypeOK
  <2>8. CASE RightAnswer(t)
    <3>1. PICK time \in Wait : CountAnswer(t, time, 0)
      BY <2>8 DEF RightAnswer
    <3> QED
      BY <2>8, <3>1, CountType, WaitAssumption DEF RightAnswer, TypeOK
  <2>9. CASE WrongAnswer(t)
    BY <2>9, WaitAssumption DEF WrongAnswer, TypeOK
  <2>10. CASE WaitedOut(t)
    <3>1. result[t] \in Nat
      BY DEF TypeOK
    <3> QED
      BY <2>10, <3>1, CountType DEF WaitedOut, TypeOK
  <2>11. CASE Report(t)
    <3>1. t_ms' \in [Thread -> Nat]
      <4>1. CASE Statistics_RecvNum = 0
        BY <2>11, <4>1, GarbageAssumption DEF Report, TypeOK
      <4>2. CASE Statistics_RecvNum # 0
        <5>1. Statistics_TotalTime \div Statistics_RecvNum \in Nat
          BY <4>2, DivBounds DEF TypeOK
        <5> QED
          BY <2>11, <4>2, <5>1 DEF Report, TypeOK
      <4> QED
        BY <4>1, <4>2
    <3> QED
      BY <2>11, <3>1 DEF Report, TypeOK
  <2> QED
    BY <2>1, <2>2, <2>3, <2>4, <2>5, <2>6, <2>7, <2>8, <2>9, <2>10, <2>11 DEF Step
<1> QED
  BY <1>1, <1>2 DEF Next

\* The statistics and every caller's locals keep their types, whatever calls
\* overlap: no counter is ever taken below zero (Main.cpp:250, Process.cpp:552).
THEOREM TypeCorrect == Spec => []TypeOK
BY TypeInit, TypeStep, PTL DEF Spec

-----------------------------------------------------------------------------
(* What holds of the statistics while no two calls have overlapped.        *)

Waiting == {"open", "recv", "wrong", "rewait"}
Reading == {"defaults", "count", "wait", "check", "subtract", "one", "mode"}
Cleared == Reading \cup Waiting \cup {"loop", "report"}

\* The shared statistics are those of the call.
Sums(t) ==
    /\ Statistics_RealSend = own[t].sent
    /\ Statistics_RecvNum = own[t].got
    /\ own[t].wrong <= own[t].got /\ own[t].got <= own[t].sent
    /\ own[t].min * own[t].got <= Statistics_TotalTime
    /\ Statistics_TotalTime <= own[t].max * own[t].got
    /\ ~ LowerThanWin8 => own[t].wrong * WaitingTime <= Statistics_TotalTime

\* How far the call is.
Progress(t) ==
    /\ pc[t] = "clear" => own[t] = NoAnswers
    /\ pc[t] \in Reading => own[t].sent = 0
    /\ pc[t] \in {"wait", "check", "subtract", "one", "mode"} => Statistics_Send = Count
    /\ pc[t] \in Waiting \cup {"loop"} =>
         /\ counted[t] /\ Statistics_Send = Count
         /\ index[t] = own[t].sent /\ own[t].sent <= Count
    /\ pc[t] \in Waiting => own[t].got < own[t].sent
    /\ pc[t] = "report" =>
         own[t].sent = 0 \/ own[t].got < own[t].sent \/ own[t].sent = Count

\* The timeout is the call's own, shortened before Windows 8, and never 0.
Timed(t) ==
    /\ pc[t] \in {"check", "subtract", "one"} => SocketTimeout = WaitingTime
    /\ pc[t] = "subtract" => LowerThanWin8 /\ SocketTimeout > TIME_OUT_MIN
    /\ pc[t] = "one" => LowerThanWin8
    /\ pc[t] \in Waiting \cup {"mode", "loop"} =>
         /\ SocketTimeout # 0
         /\ ~ LowerThanWin8 => SocketTimeout = WaitingTime
    /\ pc[t] \in {"recv", "wrong", "rewait"} => ~ endless[t]

\* What the call has reported.
Told(t) ==
    pc[t] = "idle" /\ ok[t] /\ own[t].sent > 0 =>
        /\ own[t].sent = Count /\ own[t].got = Count
        /\ own[t].min <= t_ms[t] /\ t_ms[t] <= own[t].max
        /\ ~ LowerThanWin8 => t_ms[t] >= (own[t].wrong * WaitingTime) \div own[t].got

Mine(t) == (pc[t] \in Cleared => Sums(t)) /\ Progress(t) /\ Timed(t) /\ Told(t)

Alone ==
    ~ overlap =>
        /\ \A t, u \in Thread : pc[t] # "idle" /\ pc[u] # "idle" => t = u
        /\ \A t \in Thread : Mine(t)

LEMMA AloneInit == Init => Alone
BY DEF Init, Alone, Mine, Progress, Timed, Told, Cleared, Reading, Waiting, NoAnswers

\* One answer more.
LEMMA CountSums ==
    ASSUME NEW t \in Thread, NEW time \in Nat, NEW wrong \in {0, 1},
           TypeOK, Sums(t), own[t].got < own[t].sent, ~ overlap,
           wrong = 1 /\ ~ LowerThanWin8 => time >= WaitingTime,
           CountAnswer(t, time, wrong), UNCHANGED <<Statistics_RealSend, LowerThanWin8>>
    PROVE  Sums(t)' /\ own'[t].sent = own[t].sent
<1> DEFINE o == own[t]
           p == own'[t]
           total == Statistics_TotalTime
<1>1. /\ o.sent \in Nat /\ o.got \in Nat /\ o.min \in Nat /\ o.max \in Nat
      /\ o.wrong \in Nat /\ total \in Nat
  BY DEF TypeOK, Tally
<1>2. /\ Statistics_TotalTime' = total + time
      /\ Statistics_RecvNum' = o.got + 1
      /\ p.got = o.got + 1 /\ p.sent = o.sent /\ p.wrong = o.wrong + wrong
      /\ p.min = IF o.got = 0 \/ time < o.min THEN time ELSE o.min
      /\ p.max = IF time > o.max THEN time ELSE o.max
  <2>1. p = Tallied(o, time, wrong)
    BY DEF CountAnswer, Own, TypeOK
  <2>2. o \in Tally
    BY DEF TypeOK
  <2>3. /\ Statistics_TotalTime' = total + time
        /\ Statistics_RecvNum' = o.got + 1
    BY DEF CountAnswer, Sums
  <2> HIDE DEF o, p, total
  <2> QED
    BY <2>1, <2>2, <2>3 DEF Tallied, Tally
<1>3. p.min * (o.got + 1) <= total + time
  <2>1. p.min \in Nat /\ p.min <= time
    BY <1>1, <1>2
  <2>2. p.min * o.got <= total
    <3>1. CASE o.got = 0
      BY <3>1, <2>1, <1>1
    <3>2. CASE o.got # 0
      <4>1. p.min <= o.min
        BY <3>2, <1>1, <1>2
      <4>2. p.min * o.got <= o.min * o.got
        BY <4>1, <2>1, <1>1, MulMono
      <4> QED
        BY <4>2, <2>1, <1>1, MulSuc DEF Sums
    <3> QED
      BY <3>1, <3>2
  <2>3. p.min * (o.got + 1) = p.min * o.got + p.min /\ p.min * o.got \in Nat
    BY <2>1, <1>1, MulSuc
  <2> HIDE DEF p, o, total
  <2> QED
    BY <2>1, <2>2, <2>3, <1>1
<1>4. total + time <= p.max * (o.got + 1)
  <2>1. p.max \in Nat /\ time <= p.max /\ o.max <= p.max
    BY <1>1, <1>2
  <2>2. o.max * o.got <= p.max * o.got
    BY <2>1, <1>1, MulMono
  <2>3. p.max * (o.got + 1) = p.max * o.got + p.max /\ p.max * o.got \in Nat
    BY <2>1, <1>1, MulSuc
  <2>4. total <= o.max * o.got /\ o.max * o.got \in Nat
    BY <1>1, MulSuc DEF Sums
  <2> HIDE DEF p, o, total
  <2> QED
    BY <2>1, <2>2, <2>3, <2>4, <1>1
<1>5. ASSUME ~ LowerThanWin8 PROVE p.wrong * WaitingTime <= total + time
  <2>1. o.wrong * WaitingTime <= total
    BY <1>5 DEF Sums
  <2>2. CASE wrong = 0
    BY <2>1, <2>2, <1>1, <1>2, MulSuc, TimeoutAssumption
  <2>3. CASE wrong = 1
    <3>1. (o.wrong + 1) * WaitingTime = o.wrong * WaitingTime + WaitingTime
      BY <1>1, TimeoutAssumption, SMT
    <3>2. o.wrong * WaitingTime \in Nat
      BY <1>1, TimeoutAssumption, MulSuc
    <3>3. p.wrong * WaitingTime = o.wrong * WaitingTime + WaitingTime
      BY <3>1, <2>3, <1>2
    <3> HIDE DEF p, o, total
    <3> QED
      BY <3>2, <3>3, <2>1, <2>3, <1>1, <1>5, TimeoutAssumption
  <2> QED
    BY <2>2, <2>3
<1>6. p.wrong <= p.got /\ p.got <= p.sent
  <2>1. wrong <= 1 /\ wrong \in Nat /\ o.wrong <= o.got /\ o.got < o.sent
    BY DEF Sums
  <2> HIDE DEF o, p
  <2> QED
    BY <1>1, <1>2, <2>1
<1>7. Statistics_RealSend' = p.sent /\ Statistics_RecvNum' = p.got
  BY <1>2 DEF Sums
<1> QED
  BY <1>2, <1>3, <1>4, <1>5, <1>6, <1>7 DEF Sums

\* The verdict of Ping, from the sums.
LEMMA ReportTold ==
    ASSUME NEW t \in Thread, TypeOK, ~ overlap, Sums(t), Progress(t), Report(t)
    PROVE  Told(t)'
<1> SUFFICES ASSUME ok'[t], own[t].sent > 0
             PROVE  /\ own[t].sent = Count /\ own[t].got = Count
                    /\ own[t].min <= t_ms'[t] /\ t_ms'[t] <= own[t].max
                    /\ ~ LowerThanWin8 =>
                         t_ms'[t] >= (own[t].wrong * WaitingTime) \div own[t].got
  BY DEF Told, Report, global, timeout
<1>1. /\ own[t].sent \in Nat /\ own[t].got \in Nat /\ own[t].min \in Nat
      /\ own[t].max \in Nat /\ own[t].wrong \in Nat
      /\ Statistics_TotalTime \in Nat
  BY DEF TypeOK, Tally
<1>2. own[t].sent = own[t].got
  BY DEF Report, Sums, TypeOK
<1>3. own[t].sent = Count /\ own[t].got = Count
  BY <1>1, <1>2 DEF Progress, Report, At
<1>4. t_ms'[t] = Statistics_TotalTime \div own[t].got /\ own[t].got \in Nat \ {0}
  BY <1>1, <1>2 DEF Report, Sums, TypeOK
<1>5. own[t].min <= t_ms'[t]
  BY <1>1, <1>4, MeanAtLeast DEF Sums
<1>6. t_ms'[t] <= own[t].max
  BY <1>1, <1>4, MeanAtMost DEF Sums
<1>7. own[t].wrong * WaitingTime \in Nat
  BY <1>1, TimeoutAssumption, MulSuc
<1>8. ~ LowerThanWin8 => (own[t].wrong * WaitingTime) \div own[t].got
        <= Statistics_TotalTime \div own[t].got
  BY <1>1, <1>4, <1>7, DivMono DEF Sums
<1>9. /\ (own[t].wrong * WaitingTime) \div own[t].got \in Nat
      /\ Statistics_TotalTime \div own[t].got \in Nat
  BY <1>1, <1>4, <1>7, DivBounds
<1> QED
  BY <1>3, <1>4, <1>5, <1>6, <1>8, <1>9

\* A step of one call, while all others are idle, is a matter of that call alone.
LEMMA Focus ==
    ASSUME NEW t \in Thread, TypeOK, Alone, ~ overlap, ~ overlap',
           \A u \in Thread \ {t} :
               pc[u] = "idle" /\ pc'[u] = "idle" /\ own'[u] = own[u]
               /\ ok'[u] = ok[u] /\ t_ms'[u] = t_ms[u],
           UNCHANGED LowerThanWin8, Mine(t)'
    PROVE  Alone'
<1>1. ASSUME NEW u \in Thread PROVE Mine(u)'
  <2>1. CASE u = t
    BY <2>1
  <2>2. CASE u # t
    <3>1. Told(u)
      BY DEF Alone, Mine
    <3> QED
      BY <2>2, <3>1 DEF Mine, Progress, Timed, Told, Cleared, Reading, Waiting, timeout
  <2> QED
    BY <2>1, <2>2
<1> QED
  BY <1>1 DEF Alone

LEMMA AloneStep == TypeOK /\ TypeOK' /\ Alone /\ [Next]_vars => Alone'
<1>1. CASE UNCHANGED vars
  BY <1>1 DEF vars, global, statistics, timeout, local, returned,
              Alone, Mine, Sums, Progress, Timed, Told
<1>2. ASSUME TypeOK, TypeOK', Alone, ~ overlap', NEW t \in Thread, Ping(t) \/ Step(t)
      PROVE  Alone'
  <2>1. /\ ~ overlap
        /\ Ping(t) => \A u \in Thread \ {t} : pc[u] = "idle"
        /\ Step(t) => pc[t] # "idle"
    <3>1. Ping(t) => ~ overlap /\ \A u \in Thread \ {t} : pc[u] = "idle"
      BY <1>2 DEF Ping
    <3>2. Step(t) => ~ overlap /\ pc[t] # "idle"
      BY <1>2 DEF Step, ClearTable, SetDefaults, ReadCount, ReadWait, CheckTimeout,
                  ShortenTimeout, ChooseMode, Request, LoopEnds, OpenSocket, SendFails,
                  NoAnswer, RightAnswer, WrongAnswer, WaitAgain, WaitedOut, Report, At,
                  Receiving
    <3> QED
      BY <1>2, <3>1, <3>2
  <2>2. \A u \in Thread \ {t} : pc[u] = "idle"
    BY <1>2, <2>1 DEF Alone
  <2>3. ASSUME NEW u \in Thread \ {t}
        PROVE  pc'[u] = pc[u] /\ own'[u] = own[u] /\ ok'[u] = ok[u] /\ t_ms'[u] = t_ms[u]
    BY <1>2 DEF TypeOK, Ping, Step, ClearTable, SetDefaults, ReadCount, ReadWait,
                CheckTimeout, ShortenTimeout, ChooseMode, Request, LoopEnds, OpenSocket,
                SendFails, NoAnswer, RightAnswer, WrongAnswer, WaitAgain, WaitedOut,
                Report, CountAnswer, Own, Goto, returned
  <2>4. (pc[t] \in Cleared => Sums(t)) /\ Progress(t) /\ Mine(t)
    BY <1>2, <2>1 DEF Alone, Mine
  <2>5. own[t] \in Tally /\ own'[t] \in Tally
    BY <1>2 DEF TypeOK
  <2>6. Mine(t)'
    <3> USE <1>2, <2>1, <2>4, <2>5 DEF Mine, Goto, At, Cleared, Reading, Waiting,
            global, statistics, timeout, local, returned, Receiving, CloseSocket
    <3>1. CASE Ping(t)
      BY <3>1 DEF Ping, TypeOK, Progress, Timed, Told, Own
    <3>2. CASE ClearTable(t)
      <4>1. Sums(t)'
        BY <3>2, TimeoutAssumption DEF ClearTable, Sums, Progress, NoAnswers, TypeOK
      <4> QED
        BY <3>2, <4>1 DEF ClearTable, TypeOK, Progress, Timed, Told, NoAnswers
    <3>3. CASE SetDefaults(t)
      BY <3>3 DEF SetDefaults, TypeOK, Sums, Progress, Timed, Told
    <3>4. CASE ReadCount(t)
      BY <3>4 DEF ReadCount, TypeOK, Sums, Progress, Timed, Told
    <3>5. CASE ReadWait(t)
      BY <3>5, TimeoutAssumption DEF ReadWait, TypeOK, Sums, Progress, Timed, Told
    <3>6. CASE CheckTimeout(t)
      <4>1. Sums(t)'
        BY <3>6 DEF CheckTimeout, Sums
      <4>2. /\ pc'[t] \in {"subtract", "one", "mode"}
            /\ pc'[t] = "subtract" => LowerThanWin8 /\ OverMinimum
            /\ pc'[t] = "one" => LowerThanWin8
            /\ own'[t] = own[t] /\ SocketTimeout = WaitingTime
            /\ Statistics_Send = Count
        BY <3>6 DEF CheckTimeout, TypeOK, Progress, Timed
      <4>3. OverMinimum => SocketTimeout > TIME_OUT_MIN
        BY <4>2, TimeoutAssumption DEF OverMinimum
      <4>4. Timed(t)'
        BY <3>6, <4>2, <4>3, TimeoutAssumption DEF CheckTimeout, Timed
      <4> QED
        BY <3>6, <4>1, <4>2, <4>4 DEF CheckTimeout, Progress, Told
    <3>7. CASE ShortenTimeout(t)
      <4>1. SocketTimeout' \in Int /\ SocketTimeout' # 0 /\ LowerThanWin8
        BY <3>7, TimeoutAssumption DEF ShortenTimeout, Timed, TypeOK
      <4> QED
        BY <3>7, <4>1 DEF ShortenTimeout, TypeOK, Sums, Progress, Timed, Told
    <3>8. CASE ChooseMode(t)
      <4>1. Sums(t)'
        BY <3>8 DEF ChooseMode, Sums
      <4>2. Statistics_Send = Count /\ own[t].sent = 0
        BY <3>8 DEF ChooseMode, Progress
      <4>3. counted'[t] = (Statistics_Send # 0)
        BY <3>8 DEF ChooseMode, TypeOK
      <4>4. counted'[t]
        BY <4>2, <4>3, CountAssumption
      <4>5. /\ pc'[t] = "loop" /\ Statistics_Send' = Count
            /\ index'[t] = own'[t].sent /\ own'[t].sent <= Count
        BY <3>8, <4>2, CountAssumption DEF ChooseMode, TypeOK
      <4>6. Progress(t)'
        BY <4>4, <4>5 DEF Progress
      <4>7. Told(t)'
        BY <4>5 DEF Told
      <4>8. Timed(t)'
        BY <3>8, <4>5 DEF ChooseMode, Timed
      <4> QED
        BY <4>1, <4>6, <4>7, <4>8
    <3>9. CASE Request(t)
      <4>1. /\ own'[t].sent = own[t].sent + 1
            /\ own'[t].got = own[t].got /\ own'[t].min = own[t].min
            /\ own'[t].max = own[t].max /\ own'[t].wrong = own[t].wrong
        BY <3>9 DEF Request, Own, TypeOK, Tally
      <4>2. Sums(t)'
        BY <3>9, <4>1 DEF Request, Sums, Tally
      <4>3. /\ counted'[t] /\ Statistics_Send' = Count
            /\ index'[t] = own'[t].sent /\ own'[t].sent <= Count
            /\ own'[t].got < own'[t].sent
        BY <3>9, <4>1, CountAssumption DEF Request, More, Progress, Sums, TypeOK, Tally
      <4> QED
        BY <3>9, <4>2, <4>3 DEF Request, TypeOK, Progress, Timed, Told
    <3>10. CASE LoopEnds(t)
      <4>1. Sums(t)'
        BY <3>10 DEF LoopEnds, Sums
      <4>2. own[t].sent = Count
        <5>1. ~ (index[t] < Statistics_Send)
          BY <3>10 DEF LoopEnds, More, Progress
        <5>2. Statistics_Send = Count /\ index[t] = own[t].sent /\ own[t].sent <= Count
          BY <3>10 DEF LoopEnds, Progress
        <5>3. own[t].sent \in Nat
          BY DEF Tally
        <5> QED
          BY <5>1, <5>2, <5>3, CountAssumption
      <4>3. pc'[t] = "report" /\ own'[t].sent = Count
        BY <3>10, <4>2 DEF LoopEnds, TypeOK
      <4> QED
        BY <4>1, <4>3 DEF Progress, Timed, Told
    <3>11. CASE OpenSocket(t)
      BY <3>11 DEF OpenSocket, TypeOK, Sums, Progress, Timed, Told
    <3>12. CASE SendFails(t)
      BY <3>12 DEF SendFails, TypeOK, Sums, Progress, Timed, Told
    <3>13. CASE NoAnswer(t) \/ WaitAgain(t)
      BY <3>13 DEF NoAnswer, WaitAgain, TypeOK, Sums, Progress, Timed, Told
    <3>14. CASE RightAnswer(t)
      <4>1. PICK time \in Wait : CountAnswer(t, time, 0)
        BY <3>14 DEF RightAnswer
      <4>2. Sums(t)' /\ own'[t].sent = own[t].sent
        BY <3>14, <4>1, CountSums, WaitAssumption DEF RightAnswer, Progress
      <4>3. /\ pc'[t] = "loop" /\ counted'[t] /\ Statistics_Send' = Count
            /\ index'[t] = own'[t].sent /\ own'[t].sent <= Count
        BY <3>14, <4>2 DEF RightAnswer, TypeOK, Progress
      <4>4. Progress(t)'
        BY <4>3 DEF Progress
      <4>5. Told(t)'
        BY <4>3 DEF Told
      <4>6. Timed(t)'
        BY <3>14, <4>3 DEF RightAnswer, Timed
      <4> QED
        BY <4>2, <4>4, <4>5, <4>6
    <3>15. CASE WrongAnswer(t)
      BY <3>15 DEF WrongAnswer, TypeOK, Sums, Progress, Timed, Told
    <3>16. CASE WaitedOut(t)
      <4>1. result[t] \in Nat
        BY DEF TypeOK
      <4>2. Sums(t)' /\ own'[t].sent = own[t].sent
        <5>1. CountAnswer(t, result[t], 1)
          BY <3>16 DEF WaitedOut
        <5>2. ~ LowerThanWin8 => result[t] >= WaitingTime
          BY <3>16 DEF WaitedOut, Timed
        <5>3. Sums(t) /\ own[t].got < own[t].sent
          BY <3>16 DEF WaitedOut, Progress
        <5>4. UNCHANGED <<Statistics_RealSend, LowerThanWin8>>
          BY <3>16 DEF WaitedOut
        <5> QED
          BY <4>1, <5>1, <5>2, <5>3, <5>4, CountSums
      <4>3. /\ pc'[t] = "loop" /\ counted'[t] /\ Statistics_Send' = Count
            /\ index'[t] = own'[t].sent /\ own'[t].sent <= Count
        BY <3>16, <4>2 DEF WaitedOut, TypeOK, Progress
      <4>4. Progress(t)'
        BY <4>3 DEF Progress
      <4>5. Told(t)'
        BY <4>3 DEF Told
      <4>6. Timed(t)'
        BY <3>16, <4>3 DEF WaitedOut, Timed
      <4> QED
        BY <4>2, <4>4, <4>5, <4>6
    <3>17. CASE Report(t)
      <4>1. Told(t)'
        BY <3>17, ReportTold DEF Report
      <4> QED
        BY <3>17, <4>1 DEF Report, TypeOK, Progress, Timed
    <3> QED
      BY <3>1, <3>2, <3>3, <3>4, <3>8, <3>9, <3>10, <3>12, <3>13, <3>14, <3>15, <3>16, <3>17,
         <3>5, <3>6, <3>7, <3>11 DEF Step
  <2>7. UNCHANGED LowerThanWin8
    BY <1>2 DEF Ping, Step, ClearTable, SetDefaults, ReadCount, ReadWait, CheckTimeout,
                ShortenTimeout, ChooseMode, Request, LoopEnds, OpenSocket, SendFails,
                NoAnswer, RightAnswer, WrongAnswer, WaitAgain, WaitedOut, Report,
                global, timeout
  <2> QED
    BY <1>2, <2>1, <2>2, <2>3, <2>6, <2>7, Focus
<1>3. CASE overlap'
  BY <1>3 DEF Alone
<1> QED
  BY <1>1, <1>2, <1>3 DEF Next

LEMMA AloneAlways == Spec => [](TypeOK /\ Alone)
<1>1. TypeOK /\ Alone /\ [Next]_vars => (TypeOK /\ Alone)'
  BY TypeStep, AloneStep
<1> QED
  BY TypeInit, AloneInit, <1>1, PTL DEF Spec

LEMMA AloneTold == Alone => MeanOfOwnAnswers /\ WrongAnswersCost /\ EndlessOnlyByOverlap
BY DEF Alone, Mine, Told, Timed, MeanOfOwnAnswers, WrongAnswersCost,
       EndlessOnlyByOverlap, Endless, Receiving

\* A call no other call overlapped, that reports success, had every request
\* answered and reports a time between its fastest and its slowest answer
\* (Interface.cpp:27-35), for any number of requests and any waiting times.
THEOREM MeanIsOwn == Spec => []MeanOfOwnAnswers
BY AloneAlways, AloneTold, PTL

\* From Windows 8 on, every wrong packet such a call counted weighs a whole -w in
\* the time it reports (Process.cpp:430), whatever the other constants.
THEOREM WrongPacketsCost == Spec => []WrongAnswersCost
BY AloneAlways, AloneTold, PTL

\* On every Windows, a call no other call overlapped never waits on a socket without
\* a limit (Main.cpp:105-118, Process.cpp:94), for any -w the program accepts.
THEOREM AloneNeverEndless == Spec => []EndlessOnlyByOverlap
BY AloneAlways, AloneTold, PTL
=============================================================================
