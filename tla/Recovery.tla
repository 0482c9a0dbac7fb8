------------------------------ MODULE Recovery ------------------------------
(***************************************************************************)
(* The two safety devices the executor consults before it trades:          *)
(* CircuitBreaker and ReplayProtection of executor/recovery.               *)
(*                                                                         *)
(* Neither runs on its own.  Every method is a call the executor (or the   *)
(* bot) makes, so a method is an action fragment here: it constrains the   *)
(* primed variables of the device, and the modules that extend this one    *)
(* build whole steps from the fragments.                                   *)
(*                                                                         *)
(* Time is `now', what Date.now() returns, counted in an arbitrary unit.   *)
(* An entry of the breaker's array of failure times carries the number of  *)
(* the execution that failed: two failures in one millisecond are two      *)
(* entries of the array and must stay two members of the set.              *)
(***************************************************************************)
EXTENDS Integers, FiniteSets

CONSTANTS
  FailureThreshold,  \* failures within the window that trip the breaker
  WindowMs,          \* the rolling window
  CooldownMs,        \* how long a tripped breaker stays open
  TtlMs,             \* how long an executed signal is remembered
  Signals,           \* signal ids
  None               \* null

\* The defaults are 3 failures, 300 s, 600 s and 60 s.  What the theorems use
\* of them is that the breaker stays open at least as long as its window.
ASSUME RecoveryAssumption ==
  /\ FailureThreshold \in Nat \ {0}
  /\ WindowMs \in Nat \ {0}
  /\ CooldownMs \in Nat
  /\ CooldownMs >= WindowMs
  /\ TtlMs \in Nat
  /\ None \notin Int

VARIABLES
  now,        \* Date.now()
  failures,   \* CircuitBreaker.failures
  trippedAt,  \* CircuitBreaker.trippedAt
  executed    \* ReplayProtection.executed; None for an id the map lacks

breakerVars == <<failures, trippedAt>>

Failure == [exec : Nat, at : Nat]

RecoveryTypeOK ==
  /\ now \in Nat
  /\ failures \in SUBSET Failure
  /\ IsFiniteSet(failures)
  /\ trippedAt \in Nat \cup {None}
  /\ executed \in [Signals -> Nat \cup {None}]

RecoveryInit ==
  /\ now = 0
  /\ failures = {}
  /\ trippedAt = None
  /\ executed = [s \in Signals |-> None]

-----------------------------------------------------------------------------
(* CircuitBreaker *)

\* A prune that keeps every failure ever recorded.
PrunedNever(fs) == fs

\* pruneWindow: the failures younger than the window.
Pruned(fs) == {f \in fs : f.at > now - WindowMs}

\* The answer of isOpen: it stays open up to and including the millisecond
\* in which the cooldown ends.
IsOpen == /\ trippedAt # None
          /\ now - trippedAt <= CooldownMs

\* A call of isOpen that answers false: a tripped breaker is reset by the
\* call itself.  A call that answers true changes nothing.
IsOpenAnswersFalse ==
  /\ ~IsOpen
  /\ trippedAt' = None
  /\ failures' = IF trippedAt = None THEN failures ELSE {}

\* A recordFailure that counts one failure too many before it trips.
RecordFailureLate(e) ==
  LET kept == Pruned(failures \cup {[exec |-> e, at |-> now]}) IN
  /\ failures' = kept
  /\ trippedAt' = IF Cardinality(kept) > FailureThreshold THEN now ELSE trippedAt

\* recordFailure: push, prune, trip at the threshold.
RecordFailure(e) ==
  LET kept == Pruned(failures \cup {[exec |-> e, at |-> now]}) IN
  /\ failures' = kept
  /\ trippedAt' = IF Cardinality(kept) >= FailureThreshold THEN now ELSE trippedAt

-----------------------------------------------------------------------------
(* ReplayProtection *)

\* A cleanup that forgets an id one millisecond before its time.
RememberedShort ==
  [s \in Signals |->
     IF executed[s] # None /\ executed[s] <= now + 1 - TtlMs THEN None ELSE executed[s]]

\* cleanup: an id is forgotten once TtlMs have passed since its execution.
Remembered ==
  [s \in Signals |->
     IF executed[s] # None /\ executed[s] <= now - TtlMs THEN None ELSE executed[s]]

\* The answer of isDuplicate; the call leaves executed = Remembered.
IsDuplicate(s) == Remembered[s] # None

\* A markExecuted that stores the cutoff instead of the time.
MarkExecutedCutoff(s) == executed' = [executed EXCEPT ![s] = now - TtlMs]

MarkExecuted(s) == executed' = [executed EXCEPT ![s] = now]
=============================================================================
