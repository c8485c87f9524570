---------------------------- MODULE WorkerHealth ----------------------------
(***************************************************************************)
(* The health probe of the outbox dispatcher.  GET /health compares the    *)
(* time since the last heartbeat with ten poll intervals; the loop beats   *)
(* once per iteration, whatever became of it, and an iteration takes as    *)
(* long as its queries and its row-by-row publishing take.                 *)
(*                                                                         *)
(* Time is in seconds.  No clock is kept, only two ages, which stop at     *)
(* StaleAfter, beyond which nothing depends on them.                       *)
(***************************************************************************)
EXTENDS Integers

CONSTANTS Poll,       \* OUTBOX_POLL_INTERVAL_SECONDS
          BatchSize,  \* OUTBOX_BATCH_SIZE
          QueryTime,  \* longest SELECT, and longest COMMIT, that is not stuck
          RowTime     \* longest publishing and marking of a row that is not stuck

ASSUME HealthAssumption ==
  Poll \in Nat /\ BatchSize \in Nat \ {0} /\ QueryTime \in Nat /\ RowTime \in Nat

StaleAfter == 10 * Poll

VARIABLES started,  \* HealthState.started
          age,      \* time since last_heartbeat
          phase,    \* where the loop is
          left,     \* rows of the batch still to publish
          full,     \* whether the batch has BatchSize rows
          timer,    \* time since the loop got there
          delay     \* whether an await of this iteration is, or was, stuck

vars == <<started, age, phase, left, full, timer, delay>>

\* What the loop awaits: the SELECT, the rows one by one, the COMMIT, and
\* the poll interval.  "off": the process is not there, or not yet started.
Phase == {"off", "fetch", "row", "commit", "sleep"}

Iteration == {"fetch", "row", "commit"}

Limit == [p \in Phase |-> IF p = "sleep" THEN Poll
                          ELSE IF p = "row" THEN RowTime ELSE QueryTime]

Init ==
  /\ started = FALSE
  /\ age = 0
  /\ phase = "off"
  /\ left = 0
  /\ full = FALSE
  /\ timer = 0
  /\ delay = "none"

-----------------------------------------------------------------------------

\* HealthState.is_healthy, for a worker without a liveness check.
Healthy == started /\ age < StaleAfter

\* What GET /health answers.
Probe == IF Healthy THEN 200 ELSE 503

Older(a) == IF a < StaleAfter THEN a + 1 ELSE a

\* The loop awaits its next operation.
Await(p) == phase' = p /\ timer' = 0

\* The loop task is created and mark_started called; the task runs later.
Start ==
  /\ phase = "off"
  /\ Await("fetch")
  /\ started' = TRUE
  /\ age' = 0
  /\ UNCHANGED <<left, full, delay>>

\* fetch_pending returns n rows.
Fetch(n) ==
  /\ phase = "fetch" /\ delay # "stuck"
  /\ Await(IF n = 0 THEN "commit" ELSE "row")
  /\ left' = n
  /\ full' = (n = BatchSize)
  /\ UNCHANGED <<started, age, delay>>

\* Mutant of Row: the end of the batch is not noticed.
RowForever ==
  /\ phase = "row" /\ delay # "stuck"
  /\ left' = left - 1
  /\ Await("row")
  /\ UNCHANGED <<started, age, full, delay>>

\* A row is published and marked, or its failure is recorded.
Row ==
  /\ phase = "row" /\ delay # "stuck"
  /\ left' = left - 1
  /\ Await(IF left = 1 THEN "commit" ELSE "row")
  /\ UNCHANGED <<started, age, full, delay>>

\* Mutant of EndIteration: the heart beats before a sleep only.
EndIterationBeatThenSleep(atOnce) ==
  /\ Await(IF atOnce THEN "fetch" ELSE "sleep")
  /\ age' = IF atOnce THEN age ELSE 0
  /\ left' = 0
  /\ full' = FALSE
  /\ delay' = "none"
  /\ UNCHANGED started

\* heartbeat, after which the loop sleeps unless it goes on at once.
EndIteration(atOnce) ==
  /\ Await(IF atOnce THEN "fetch" ELSE "sleep")
  /\ age' = 0
  /\ left' = 0
  /\ full' = FALSE
  /\ delay' = "none"
  /\ UNCHANGED started

Commit ==
  /\ phase = "commit" /\ delay # "stuck"
  /\ EndIteration(full)

\* Mutant of Fail: the handler of an error goes on with the next iteration.
FailWithoutBeat ==
  /\ phase \in Iteration
  /\ Await("sleep")
  /\ left' = 0
  /\ full' = FALSE
  /\ delay' = "none"
  /\ UNCHANGED <<started, age>>

\* An exception ends the iteration, a stuck await included (a timeout, a
\* connection reset): processed = 0, and the heart beats all the same.
Fail ==
  /\ phase \in Iteration
  /\ EndIteration(FALSE)

\* asyncio.sleep returns.
Wake ==
  /\ phase = "sleep"
  /\ timer = Poll
  /\ Await("fetch")
  /\ UNCHANGED <<started, age, left, full, delay>>

\* An await does not return: a broker that confirms nothing, a lock.
Hang ==
  /\ phase \in Iteration /\ delay = "none"
  /\ delay' = "stuck"
  /\ UNCHANGED <<started, age, phase, left, full, timer>>

\* It may return after all, and the iteration goes on, late.
Resume ==
  /\ delay = "stuck"
  /\ delay' = "late"
  /\ UNCHANGED <<started, age, phase, left, full, timer>>

\* The process dies; the next one has a HealthState of its own.
Crash ==
  /\ phase # "off"
  /\ Await("off")
  /\ started' = FALSE
  /\ age' = 0
  /\ left' = 0
  /\ full' = FALSE
  /\ delay' = "none"

\* Mutant of Tick: a background task keeps the heart beating.
TickBeating ==
  /\ phase # "off"
  /\ delay = "stuck" \/ timer < Limit[phase]
  /\ timer' = Older(timer)
  /\ age' = 0
  /\ UNCHANGED <<started, phase, left, full, delay>>

\* A second passes.  An await that is not stuck ends within its limit.
Tick ==
  /\ phase # "off"
  /\ delay = "stuck" \/ timer < Limit[phase]
  /\ timer' = Older(timer)
  /\ age' = Older(age)
  /\ UNCHANGED <<started, phase, left, full, delay>>

Loop == (\E n \in 0..BatchSize : Fetch(n)) \/ Row \/ Commit \/ Fail \/ Wake

Next == Start \/ Loop \/ Hang \/ Resume \/ Crash \/ Tick

Spec == Init /\ [][Next]_vars

\* The event loop resumes the task when its await is done, and time passes;
\* that a stuck await ends is not assumed.
Fairness ==
  /\ WF_vars((\E n \in 0..BatchSize : Fetch(n)) \/ Row \/ Commit \/ Wake)
  /\ WF_vars(Tick)

FairSpec == Spec /\ Fairness

-----------------------------------------------------------------------------

TypeOK ==
  /\ started \in BOOLEAN
  /\ age \in 0..StaleAfter
  /\ phase \in Phase
  /\ left \in 0..BatchSize
  /\ full \in BOOLEAN
  /\ timer \in 0..StaleAfter
  /\ delay \in {"none", "stuck", "late"}

\* README.md:45: a stuck loop fails its probe, at the latest when it has been
\* stuck for the staleness window.
StuckLoopFailsProbe ==
  phase \in Iteration /\ timer >= StaleAfter => Probe # 200

\* The window leaves room for a sleep and the longest iteration.  That the
\* defaults do (1 s, 100 rows) takes rows of less than 90 ms.
Tuned == Poll + 2 * QueryTime + BatchSize * RowTime < StaleAfter

\* A loop that works, be it slowly or with nothing but failures, does not
\* fail its probe: the window outlasts a sleep and a full batch.
NoFalseAlarm ==
  Tuned /\ started /\ delay = "none" => Probe = 200

\* A worker that its probe reported is healthy again, by itself, some time
\* after the stuck await has returned, unless its process dies.
RecoversByItself ==
  Tuned => (delay = "late" ~> Probe = 200 \/ ~started)
=============================================================================
