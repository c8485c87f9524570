-------------------------- MODULE WorkerHealthProofs ------------------------
(***************************************************************************)
(* Theorems about WorkerHealth, for any poll interval, batch size and      *)
(* durations.                                                              *)
(*                                                                         *)
(* A loop that is stuck in one place has not beaten since it got there     *)
(* (BeatBefore), so its probe fails in time.  A loop that is not stuck is, *)
(* in each place, at most as far from its last beat as the way there takes *)
(* (OnTime): a sleep, a query, the rows before this one, a query.          *)
(***************************************************************************)
EXTENDS WorkerHealth, TLAPS

\* The heart has not beaten since the loop began its present wait.
BeatBefore ==
  /\ timer <= age
  /\ phase = "off" <=> ~started
  /\ delay # "none" => phase \in Iteration
  /\ phase = "row" => left > 0

\* How long the loop takes to publish n rows, at most.
Rows(n) == n * RowTime

\* The age of the last beat when the loop got where it is, at most.
Reached ==
  [p \in Phase |-> IF p = "fetch" THEN Poll
                   ELSE IF p = "row" THEN Poll + QueryTime + Rows(BatchSize - left)
                   ELSE IF p = "commit" THEN Poll + QueryTime + Rows(BatchSize)
                   ELSE 0]

\* A loop that is not stuck is never later than its way there takes.
OnTime == delay = "none" => timer <= Limit[phase] /\ age <= Reached[phase] + timer

Inv == TypeOK /\ BeatBefore /\ OnTime

-----------------------------------------------------------------------------

\* The time the rows take grows row by row.
LEMMA RowsGrow ==
  ASSUME NEW n \in Nat, NEW k \in Nat, n <= k
  PROVE  Rows(n) \in Nat /\ Rows(n + 1) = Rows(n) + RowTime /\ Rows(n) <= Rows(k)
<1>1. RowTime \in Nat
  BY HealthAssumption
<1>2. n * RowTime \in Nat /\ (n + 1) * RowTime = n * RowTime + RowTime
  BY <1>1
<1>3. (k - n) * RowTime >= 0 /\ (k - n) * RowTime = k * RowTime - n * RowTime
  BY <1>1
<1>4. n * RowTime <= k * RowTime
  BY <1>1, <1>3
<1> QED BY <1>2, <1>4 DEF Rows

\* The age of a beat is a natural number of seconds that stops at the window.
LEMMA OlderBounds ==
  ASSUME NEW a \in 0..StaleAfter
  PROVE  Older(a) \in 0..StaleAfter /\ Older(a) <= a + 1
BY HealthAssumption DEF Older, StaleAfter

\* The limits and the ages at which the loop gets to its places.
LEMMA Times ==
  /\ Limit["fetch"] = QueryTime /\ Limit["row"] = RowTime /\ Limit["commit"] = QueryTime
  /\ Limit["sleep"] = Poll
  /\ Reached["off"] = 0 /\ Reached["sleep"] = 0 /\ Reached["fetch"] = Poll
  /\ Reached["row"] = Poll + QueryTime + Rows(BatchSize - left)
  /\ Reached["commit"] = Poll + QueryTime + Rows(BatchSize)
BY DEF Limit, Reached, Phase

\* The same, after a step.
LEMMA TimesNext ==
  /\ Reached["off"]' = 0 /\ Reached["sleep"]' = 0 /\ Reached["fetch"]' = Poll
  /\ Reached["row"]' = Poll + QueryTime + Rows(BatchSize - left')
  /\ Reached["commit"]' = Poll + QueryTime + Rows(BatchSize)
BY DEF Reached, Phase, Rows

-----------------------------------------------------------------------------

\* Types and order of the two ages, in each step.
LEMMA BeatStep == Inv /\ [Next]_vars => TypeOK' /\ BeatBefore'
<1> SUFFICES ASSUME TypeOK, BeatBefore, [Next]_vars PROVE TypeOK' /\ BeatBefore'
  BY DEF Inv
<1> USE HealthAssumption DEF TypeOK, BeatBefore, Phase, Iteration
<1>0. StaleAfter \in Nat
  BY DEF StaleAfter
<1>1. CASE Start
  BY <1>0, <1>1 DEF Start, Await
<1>2. ASSUME NEW n \in 0..BatchSize, Fetch(n) PROVE TypeOK' /\ BeatBefore'
  BY <1>0, <1>2 DEF Fetch, Await
<1>3. CASE Row
  BY <1>0, <1>3 DEF Row, Await
<1>4. CASE Commit \/ Fail
  <2>1. phase \in Iteration /\ \E atOnce \in BOOLEAN : EndIteration(atOnce)
    BY <1>4 DEF Commit, Fail
  <2>2. /\ phase' \in {"fetch", "sleep"} /\ timer' = 0 /\ age' = 0 /\ left' = 0
        /\ full' \in BOOLEAN /\ delay' = "none" /\ started' = started
    BY <2>1 DEF EndIteration, Await
  <2>3. started
    BY <2>1
  <2>4. TypeOK'
    BY <1>0, <2>2
  <2>5. BeatBefore'
    BY <2>2, <2>3
  <2> QED BY <2>4, <2>5
<1>5. CASE Wake
  <2>1. /\ phase = "sleep" /\ phase' = "fetch" /\ timer' = 0
        /\ UNCHANGED <<started, age, left, full, delay>>
    BY <1>5 DEF Wake, Await
  <2>2. TypeOK'
    BY <1>0, <2>1
  <2>3. BeatBefore'
    BY <1>0, <2>1
  <2> QED BY <2>2, <2>3
<1>6. CASE Hang \/ Resume
  BY <1>0, <1>6 DEF Hang, Resume
<1>7. CASE Crash
  <2>1. /\ phase' = "off" /\ timer' = 0 /\ age' = 0 /\ left' = 0 /\ delay' = "none"
        /\ started' = FALSE
    BY <1>7 DEF Crash, Await
  <2>2. started' \in BOOLEAN /\ full' \in BOOLEAN
    BY <1>7 DEF Crash
  <2>3. TypeOK'
    BY <1>0, <2>1, <2>2
  <2>4. BeatBefore'
    BY <2>1
  <2> QED BY <2>3, <2>4
<1>8. CASE Tick
  BY <1>0, <1>8 DEF Tick, Older
<1>9. CASE UNCHANGED vars
  BY <1>9 DEF vars
<1> QED BY <1>1, <1>2, <1>3, <1>4, <1>5, <1>6, <1>7, <1>8, <1>9 DEF Next, Loop

\* A loop that is not stuck keeps to its times.
LEMMA OnTimeStep == Inv /\ [Next]_vars => OnTime'
<1> SUFFICES ASSUME Inv, [Next]_vars, delay' = "none"
             PROVE  timer' <= Limit[phase'] /\ age' <= Reached[phase]' + timer'
  BY DEF OnTime
<1> DEFINE Goal == timer' <= Limit[phase'] /\ age' <= Reached[phase]' + timer'
<1>a. /\ Poll \in Nat /\ QueryTime \in Nat /\ RowTime \in Nat /\ BatchSize \in Nat
      /\ StaleAfter \in Nat
  BY HealthAssumption DEF StaleAfter
<1>b. /\ age \in 0..StaleAfter /\ timer \in 0..StaleAfter /\ left \in 0..BatchSize
      /\ phase = "row" => left > 0
  BY DEF Inv, TypeOK, BeatBefore
<1>c. delay = "none" => timer <= Limit[phase] /\ age <= Reached[phase] + timer
  BY DEF Inv, OnTime
<1>d. Rows(0) = 0 /\ Rows(BatchSize) \in Nat
  BY <1>a, RowsGrow DEF Rows
\* The loop has just beaten, or is off.
<1>1. ASSUME NEW p \in {"off", "fetch", "sleep"}, phase' = p, age' = 0, timer' = 0 PROVE Goal
  BY <1>1, <1>a, Times, TimesNext DEF Limit, Phase
<1>2. ASSUME NEW n \in 0..BatchSize, Fetch(n) PROVE Goal
  <2>1. /\ delay = "none" /\ age <= Poll + QueryTime /\ age' = age /\ timer' = 0
        /\ left' = n /\ phase' = IF n = 0 THEN "commit" ELSE "row"
    BY <1>2, <1>a, <1>b, <1>c, Times DEF Fetch, Await
  <2>2. BatchSize - n \in Nat /\ Rows(BatchSize - n) \in Nat
    BY <1>a, RowsGrow
  <2> QED BY <1>a, <1>b, <1>d, <2>1, <2>2, Times, TimesNext
<1>3. CASE Row
  <2>1. /\ delay = "none" /\ timer <= RowTime /\ age' = age /\ timer' = 0
        /\ left' = left - 1 /\ left > 0 /\ phase' = IF left = 1 THEN "commit" ELSE "row"
        /\ age <= Poll + QueryTime + Rows(BatchSize - left) + timer
    BY <1>3, <1>b, <1>c, Times DEF Row, Await
  <2>2. /\ BatchSize - left \in Nat /\ BatchSize - left' = (BatchSize - left) + 1
        /\ left = 1 => BatchSize = (BatchSize - left) + 1
    BY <1>a, <1>b, <2>1
  <2>3. /\ Rows(BatchSize - left) \in Nat
        /\ Rows((BatchSize - left) + 1) = Rows(BatchSize - left) + RowTime
    BY <2>2, RowsGrow
  <2>4. age <= Poll + QueryTime + Rows((BatchSize - left) + 1)
    BY <1>a, <1>b, <2>1, <2>3
  <2>5. CASE left = 1
    BY <1>a, <1>b, <2>1, <2>2, <2>3, <2>4, <2>5, Times, TimesNext
  <2>6. CASE left # 1
    BY <1>a, <1>b, <2>1, <2>2, <2>3, <2>4, <2>6, Times, TimesNext
  <2> QED BY <2>5, <2>6
<1>4. CASE Commit \/ Fail
  <2>1. phase' \in {"fetch", "sleep"} /\ age' = 0 /\ timer' = 0
    BY <1>4 DEF Commit, Fail, EndIteration, Await
  <2> QED BY <1>1, <2>1
<1>5. CASE Wake
  <2>1. /\ delay = "none" /\ age <= Poll /\ age' = age /\ timer' = 0 /\ phase' = "fetch"
    BY <1>5, <1>a, <1>b, <1>c, Times DEF Wake, Await
  <2> QED BY <1>a, <1>b, <2>1, Times, TimesNext
<1>6. CASE Start \/ Crash
  BY <1>1, <1>6 DEF Start, Crash, Await
<1>7. CASE Hang \/ Resume
  BY <1>7 DEF Hang, Resume
<1>8. CASE Tick
  <2>1. /\ delay = "none" /\ timer < Limit[phase] /\ phase' = phase /\ left' = left
        /\ timer' = Older(timer) /\ age' = Older(age)
    BY <1>8 DEF Tick
  <2>2. Reached[phase]' = Reached[phase]
    BY <2>1 DEF Reached, Rows
  <2>3. Limit[phase] \in Nat /\ Reached[phase] \in Nat
    <3>1. phase \in Phase /\ BatchSize - left \in Nat
      BY <1>a, <1>b DEF Inv, TypeOK
    <3>2. Rows(BatchSize - left) \in Nat
      BY <3>1, RowsGrow
    <3> QED BY <1>a, <1>d, <3>1, <3>2 DEF Limit, Reached
  <2>4. /\ timer' \in Nat /\ timer' <= timer + 1 /\ age' \in Nat /\ age' <= age + 1
        /\ timer < StaleAfter => timer' = timer + 1
        /\ age < StaleAfter => age' = age + 1
        /\ timer' <= StaleAfter /\ age' <= StaleAfter
    BY <1>a, <1>b, <2>1 DEF Older
  <2>5. timer' <= Limit[phase]
    BY <1>b, <2>1, <2>3, <2>4
  <2>6. age' <= Reached[phase] + timer'
    <3>1. CASE timer < StaleAfter
      BY <1>b, <1>c, <2>1, <2>3, <2>4, <3>1
    <3>2. CASE timer >= StaleAfter
      <4>1. timer' = StaleAfter
        BY <1>a, <1>b, <2>1, <3>2 DEF Older
      <4> QED BY <1>a, <2>3, <2>4, <4>1
    <3> QED BY <1>a, <1>b, <3>1, <3>2
  <2> QED BY <2>1, <2>2, <2>5, <2>6
<1>9. CASE UNCHANGED vars
  <2>1. phase' = phase /\ left' = left /\ age' = age /\ timer' = timer /\ delay' = delay
    BY <1>9 DEF vars
  <2> QED BY <1>c, <2>1 DEF Reached, Rows
<1> HIDE DEF Goal
<1>10. Goal
  BY <1>2, <1>3, <1>4, <1>5, <1>6, <1>7, <1>8, <1>9 DEF Next, Loop, Goal
<1> QED BY <1>10 DEF Goal

\* The invariant holds in every reachable state.
LEMMA Invariance == Spec => []Inv
<1>1. Init => Inv
  <2> SUFFICES ASSUME Init PROVE Inv
    OBVIOUS
  <2>1. TypeOK /\ BeatBefore
    <3>1. started \in BOOLEAN /\ full \in BOOLEAN
      BY DEF Init
    <3>2. TypeOK
      BY <3>1, HealthAssumption DEF Init, TypeOK, Phase, StaleAfter
    <3>3. BeatBefore
      BY DEF Init, BeatBefore
    <3> QED BY <3>2, <3>3
  <2>2. OnTime
    <3>1. phase = "off" /\ timer = 0 /\ age = 0 /\ Limit["off"] = QueryTime
      BY DEF Init, Limit, Phase
    <3> QED BY <3>1, HealthAssumption, Times DEF OnTime
  <2> QED BY <2>1, <2>2 DEF Inv
<1>2. Inv /\ [Next]_vars => Inv'
  BY BeatStep, OnTimeStep DEF Inv
<1> QED BY <1>1, <1>2, PTL DEF Spec

\* Types of the loop's places and ages.
THEOREM TypeCorrect == Spec => []TypeOK
<1>1. Inv => TypeOK
  BY DEF Inv
<1> QED BY <1>1, Invariance, PTL

\* GET /health answers 503 for a dispatcher whose loop has been in one await
\* for the staleness window, wherever it is stuck.
THEOREM StuckLoopIsReported == Spec => []StuckLoopFailsProbe
<1>1. ASSUME Inv PROVE StuckLoopFailsProbe
  <2> SUFFICES ASSUME timer >= StaleAfter PROVE Probe # 200
    BY DEF StuckLoopFailsProbe
  <2>1. age >= StaleAfter /\ age \in Int /\ StaleAfter \in Int
    BY <1>1, HealthAssumption DEF Inv, TypeOK, BeatBefore, StaleAfter
  <2> QED BY <2>1 DEF Probe, Healthy
<1> QED BY <1>1, Invariance, PTL

\* GET /health answers 200 for a dispatcher whose loop works, if its longest
\* cycle fits into the staleness window.
THEOREM WorkingLoopIsHealthy == Spec => []NoFalseAlarm
<1>1. ASSUME Inv PROVE NoFalseAlarm
  <2> SUFFICES ASSUME Tuned, started, delay = "none" PROVE Probe = 200
    BY DEF NoFalseAlarm
  <2>1. /\ Poll \in Nat /\ QueryTime \in Nat /\ RowTime \in Nat /\ BatchSize \in Nat
        /\ StaleAfter \in Nat
    BY HealthAssumption DEF StaleAfter
  <2>2. /\ phase \in Iteration \cup {"sleep"} /\ age \in Nat /\ timer \in Nat
        /\ timer <= Limit[phase] /\ age <= Reached[phase] + timer
        /\ left \in 0..BatchSize
        /\ phase = "row" => left > 0
    BY <1>1 DEF Inv, TypeOK, BeatBefore, OnTime, Phase, Iteration
  <2>3. Rows(BatchSize) \in Nat /\ Poll + (QueryTime + QueryTime) + Rows(BatchSize) < StaleAfter
    BY <2>1, RowsGrow DEF Tuned, Rows
  <2>4. CASE phase = "row"
    <3>1. BatchSize - left \in Nat /\ (BatchSize - left) + 1 \in Nat
          /\ (BatchSize - left) + 1 <= BatchSize
      BY <2>1, <2>2, <2>4
    <3>2. /\ Rows((BatchSize - left) + 1) = Rows(BatchSize - left) + RowTime
          /\ Rows((BatchSize - left) + 1) <= Rows(BatchSize) /\ Rows(BatchSize - left) \in Nat
      BY <2>1, <3>1, RowsGrow
    <3>3. timer <= RowTime /\ age <= Poll + QueryTime + Rows(BatchSize - left) + timer
      BY <2>2, <2>4, Times
    <3>4. age < StaleAfter
      BY <2>1, <2>2, <2>3, <3>2, <3>3
    <3> QED BY <3>4 DEF Probe, Healthy
  <2>5. CASE phase # "row"
    <3>1. age < StaleAfter
      BY <2>1, <2>2, <2>3, <2>5, Times DEF Iteration
    <3> QED BY <3>1 DEF Probe, Healthy
  <2> QED BY <2>4, <2>5
<1> QED BY <1>1, Invariance, PTL
=============================================================================
