--------------------------- MODULE GatedExecution ---------------------------
(***************************************************************************)
(* What Executor.execute promises about the executions it lets through,    *)
(* whatever their legs do: the breaker and the replay protection around an *)
(* execution that takes some time and ends well or badly.                  *)
(*                                                                         *)
(* One execution runs at a time: the bot holds its tick lock across the    *)
(* call (arb_bot.service.ts 358-379).  Executor implements this module.    *)
(***************************************************************************)
EXTENDS Recovery

CONSTANTS
  MaxExecutions,  \* bound: executions that get past the gate
  MaxTime         \* bound: the clock stops here

VARIABLES
  started,   \* executions let through so far; the last one's number
  running,   \* the execution under way, or None
  failLog,   \* history: every failed execution and when it ended
  runs       \* history: every finished execution with its signal

gateVars == <<now, failures, trippedAt, executed, started, running, failLog, runs>>

Running == [signal : Signals, began : Nat]
Run == [signal : Signals, began : Nat, ended : Nat]

\* The gate's variables have their types; the logs stay finite.
GateTypeOK ==
  /\ RecoveryTypeOK
  /\ started \in Nat
  /\ running \in Running \cup {None}
  /\ failLog \in SUBSET Failure
  /\ IsFiniteSet(failLog)
  /\ runs \in SUBSET Run

GateInit ==
  /\ RecoveryInit
  /\ started = 0
  /\ running = None
  /\ failLog = {}
  /\ runs = {}

-----------------------------------------------------------------------------
Idle == running = None

\* execute() that gets past the breaker and is refused by a later check: a
\* duplicate id, an invalid or expired signal, or too little inventory.
\* (Refused by an open breaker, it changes nothing.)
Refuse ==
  /\ Idle
  /\ IsOpenAnswersFalse
  /\ executed' = Remembered
  /\ UNCHANGED <<now, started, running, failLog, runs>>

\* Executor.isCircuitBreakerOpen(), which the bot calls before it executes.
PollBreaker ==
  /\ Idle
  /\ IsOpenAnswersFalse
  /\ UNCHANGED <<now, executed, started, running, failLog, runs>>

\* execute() passes every check and starts its first leg.
Start(s) ==
  /\ Idle
  /\ started < MaxExecutions
  /\ IsOpenAnswersFalse
  /\ ~IsDuplicate(s)
  /\ executed' = Remembered
  /\ started' = started + 1
  /\ running' = [signal |-> s, began |-> now]
  /\ UNCHANGED <<now, failLog, runs>>

\* The end of execute(): the id is remembered, a failure is counted.  A
\* success counts nothing (recordSuccess is empty).
Finish(failed) ==
  /\ running # None
  /\ MarkExecuted(running.signal)
  /\ running' = None
  /\ runs' = runs \cup {[signal |-> running.signal, began |-> running.began, ended |-> now]}
  /\ IF failed
       THEN /\ RecordFailure(started)
            /\ failLog' = failLog \cup {[exec |-> started, at |-> now]}
       ELSE UNCHANGED <<failures, trippedAt, failLog>>
  /\ UNCHANGED <<now, started>>

Tick ==
  /\ now < MaxTime
  /\ now' = now + 1
  /\ UNCHANGED <<failures, trippedAt, executed, started, running, failLog, runs>>

GateNext ==
  \/ Refuse
  \/ PollBreaker
  \/ \E s \in Signals : Start(s)
  \/ \E failed \in BOOLEAN : Finish(failed)
  \/ Tick

GatedSpec == GateInit /\ [][GateNext]_gateVars

-----------------------------------------------------------------------------
(* Properties *)

\* The breaker bounds the rate of failure: over any WindowMs no more than
\* FailureThreshold executions end in failure, across trips and resets too
\* (CircuitBreaker, recovery.service.ts 10-77, with execute's gate).
FailureRateBounded == Cardinality(Pruned(failLog)) <= FailureThreshold

\* The breaker does not trip without cause: a tripped breaker has seen
\* FailureThreshold failures within the window before it tripped.
TripJustified ==
  trippedAt # None =>
    Cardinality({f \in failLog : f.at > trippedAt - WindowMs /\ f.at <= trippedAt})
      >= FailureThreshold

\* A signal that was executed is not executed again before TtlMs have passed
\* since that execution ended (ReplayProtection, recovery.service.ts 79-109).
NoReplayWithinTtl ==
  /\ \A a, b \in runs :
       a.signal = b.signal /\ a # b => b.began - a.ended >= TtlMs \/ a.began - b.ended >= TtlMs
  /\ running # None =>
       \A a \in runs : a.signal = running.signal => running.began - a.ended >= TtlMs
=============================================================================
