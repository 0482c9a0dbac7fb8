------------------------ MODULE GatedExecutionProofs ------------------------
(***************************************************************************)
(* Proofs about GatedExecution: typing, the bound on the failure rate, the *)
(* cause of every trip and the absence of replays, for every threshold,    *)
(* window, cooldown no shorter than the window, TTL and set of signals.    *)
(***************************************************************************)
EXTENDS GatedExecution, RecoveryProofs

\* While the breaker is closed, its array misses no recent failure and is
\* still below the threshold; an execution runs only while it is closed.
ClosedInv ==
  /\ running # None => trippedAt = None
  /\ failures \subseteq failLog
  /\ trippedAt = None =>
       /\ Pruned(failLog) \subseteq failures
       /\ Cardinality(failures) < FailureThreshold

\* While it is open, the failures that tripped it are the last ones and no
\* more than the threshold.
OpenInv ==
  trippedAt # None =>
    /\ \A f \in failLog : f.at <= trippedAt
    /\ trippedAt <= now
    /\ Cardinality(Pruned(failLog)) <= FailureThreshold

\* No failure or execution lies in the future.
PastInv ==
  /\ \A f \in failLog : f.at <= now
  /\ \A r \in runs : r.ended <= now
  /\ running # None => running.began <= now

RateInv == GateTypeOK /\ ClosedInv /\ OpenInv /\ PastInv /\ TripJustified

\* The map holds the latest end of every signal, until it is old enough.
ReplayInv ==
  \A r \in runs :
    \/ now - r.ended >= TtlMs
    \/ executed[r.signal] # None /\ executed[r.signal] >= r.ended

-----------------------------------------------------------------------------
(* Typing *)

\* What every step leaves well typed: the breaker's array, the map of
\* executed signals and the logs.
THEOREM GateTypeCorrect == GatedSpec => []GateTypeOK
<1>1. GateInit => GateTypeOK
  BY FS_EmptySet, RecoveryAssumption
     DEF GateInit, RecoveryInit, GateTypeOK, RecoveryTypeOK
<1>2. GateTypeOK /\ [GateNext]_gateVars => GateTypeOK'
  <2> SUFFICES ASSUME GateTypeOK, [GateNext]_gateVars
               PROVE  GateTypeOK'
    OBVIOUS
  <2> USE DEF GateTypeOK, RecoveryTypeOK
  <2>r. Remembered \in [Signals -> Nat \cup {None}]
    BY RememberedType
  <2>c. ASSUME IsOpenAnswersFalse
        PROVE  /\ trippedAt' \in Nat \cup {None}
               /\ failures' \in SUBSET Failure
               /\ IsFiniteSet(failures')
    BY <2>c, IsOpenType
  <2>1. CASE Refuse
    BY <2>1, <2>r, <2>c DEF Refuse
  <2>2. CASE PollBreaker
    BY <2>2, <2>c DEF PollBreaker
  <2>3. ASSUME NEW s \in Signals, Start(s)
        PROVE  GateTypeOK'
    BY <2>3, <2>r, <2>c DEF Start, Running
  <2>4. ASSUME NEW failed \in BOOLEAN, Finish(failed)
        PROVE  GateTypeOK'
    <3> DEFINE new == [exec |-> started, at |-> now]
    <3>1. /\ executed' \in [Signals -> Nat \cup {None}]
          /\ runs' \in SUBSET Run
          /\ running' = None
          /\ started' \in Nat
          /\ now' \in Nat
      BY <2>4 DEF Finish, MarkExecuted, Running, Run
    <3>2. CASE failed
      <4>1. /\ RecordFailure(started)
            /\ failLog' = failLog \cup {new}
        BY <2>4, <3>2 DEF Finish
      <4>2. /\ new \in Failure
            /\ IsFiniteSet(failLog \cup {new})
        BY OneMore DEF Failure
      <4> QED
        BY <3>1, <4>1, <4>2, RecordFailureType
    <3>3. CASE ~failed
      BY <2>4, <3>1, <3>3 DEF Finish
    <3> QED
      BY <3>2, <3>3
  <2>5. CASE Tick
    BY <2>5 DEF Tick
  <2>6. CASE UNCHANGED gateVars
    BY <2>6 DEF gateVars
  <2> QED
    BY <2>1, <2>2, <2>3, <2>4, <2>5, <2>6 DEF GateNext
<1> QED
  BY <1>1, <1>2, PTL DEF GatedSpec

-----------------------------------------------------------------------------
(* The rate of failure *)

\* RateInv is inductive.
LEMMA RateStep == RateInv /\ GateTypeOK' /\ [GateNext]_gateVars => RateInv'
<1> SUFFICES ASSUME RateInv, GateTypeOK', [GateNext]_gateVars
             PROVE  ClosedInv' /\ OpenInv' /\ PastInv' /\ TripJustified'
  BY DEF RateInv
<1> USE RecoveryAssumption
    DEF RateInv, GateTypeOK, RecoveryTypeOK, Failure, Running, Run
<1>a. ASSUME IsOpenAnswersFalse, now' = now, failLog' = failLog
      PROVE  /\ trippedAt' = None
             /\ failures' \subseteq failLog
             /\ Pruned(failLog)' \subseteq failures'
             /\ Cardinality(failures') < FailureThreshold
  <2>1. CASE trippedAt = None
    BY <1>a, <2>1 DEF IsOpenAnswersFalse, ClosedInv, Pruned
  <2>2. CASE trippedAt # None
    <3>1. now - trippedAt > CooldownMs /\ trippedAt \in Nat
      BY <1>a, <2>2 DEF IsOpenAnswersFalse, IsOpen
    <3>2. \A f \in failLog : f.at <= trippedAt
      BY <2>2 DEF OpenInv
    <3>3. Pruned(failLog)' = {}
      <4>1. \A f \in failLog : f.at \in Nat
        OBVIOUS
      <4>2. \A f \in failLog : ~(f.at > now - WindowMs)
        BY <3>1, <3>2, <4>1
      <4> QED
        BY <1>a, <4>2 DEF Pruned
    <3>4. failures' = {} /\ trippedAt' = None
      BY <1>a, <2>2 DEF IsOpenAnswersFalse
    <3> QED
      BY <3>3, <3>4, FS_EmptySet
  <2> QED
    BY <2>1, <2>2
<1>1. CASE Refuse
  BY <1>1, <1>a DEF Refuse, Idle, ClosedInv, OpenInv, PastInv, TripJustified
<1>2. CASE PollBreaker
  BY <1>2, <1>a DEF PollBreaker, Idle, ClosedInv, OpenInv, PastInv, TripJustified
<1>3. ASSUME NEW s \in Signals, Start(s)
      PROVE  ClosedInv' /\ OpenInv' /\ PastInv' /\ TripJustified'
  BY <1>3, <1>a DEF Start, Idle, ClosedInv, OpenInv, PastInv, TripJustified
<1>4. ASSUME NEW failed \in BOOLEAN, Finish(failed)
      PROVE  ClosedInv' /\ OpenInv' /\ PastInv' /\ TripJustified'
  <2>1. /\ trippedAt = None
        /\ running' = None
        /\ now' = now
        /\ \A r \in runs' : r.ended <= now
    BY <1>4 DEF Finish, ClosedInv, PastInv
  <2>2. CASE ~failed
    BY <1>4, <2>1, <2>2 DEF Finish, ClosedInv, OpenInv, PastInv, TripJustified, Pruned
  <2>3. CASE failed
    <3> DEFINE new == [exec |-> started, at |-> now]
               kept == Pruned(failures \cup {new})
    <3>1. /\ failures' = kept
          /\ failLog' = failLog \cup {new}
          /\ trippedAt' = IF Cardinality(kept) >= FailureThreshold THEN now ELSE None
      BY <1>4, <2>1, <2>3 DEF Finish, RecordFailure
    <3>2. /\ Cardinality(failures) < FailureThreshold
          /\ Pruned(failLog) \subseteq failures
          /\ failures \subseteq failLog
      BY <2>1 DEF ClosedInv
    <3>3. kept \subseteq failLog'
      BY <3>1, <3>2, PrunedSubset
    <3>4. Pruned(failLog') \subseteq kept
      BY <3>1, <3>2 DEF Pruned
    <3>5. /\ IsFiniteSet(kept)
          /\ Cardinality(kept) \in Nat
          /\ Cardinality(kept) <= FailureThreshold
      <4>1. /\ IsFiniteSet(failures \cup {new})
            /\ Cardinality(failures) \in Nat
            /\ Cardinality(failures \cup {new}) \in Nat
            /\ Cardinality(failures \cup {new}) <= Cardinality(failures) + 1
        BY OneMore
      <4>2. /\ IsFiniteSet(kept)
            /\ Cardinality(kept) \in Nat
            /\ Cardinality(kept) <= Cardinality(failures \cup {new})
        BY <4>1, PrunedCardinality
      <4> QED
        BY <3>2, <4>1, <4>2
    <3>6. /\ Cardinality(Pruned(failLog')) <= FailureThreshold
          /\ Pruned(failLog)' = Pruned(failLog')
      <4>1. /\ Cardinality(Pruned(failLog')) \in Nat
            /\ Cardinality(Pruned(failLog')) <= Cardinality(kept)
        BY <3>4, <3>5, SmallerSet
      <4>2. Pruned(failLog)' = Pruned(failLog')
        BY <2>1 DEF Pruned
      <4> QED
        BY <3>5, <4>1, <4>2
    <3>7. \A f \in failLog' : f.at <= now
      BY <3>1 DEF PastInv
    <3>8. ClosedInv'
      BY <2>1, <3>1, <3>3, <3>4, <3>5, <3>6 DEF ClosedInv
    <3>9. OpenInv'
      BY <2>1, <3>1, <3>6, <3>7 DEF OpenInv
    <3>10. PastInv'
      BY <2>1, <3>7 DEF PastInv
    <3>11. TripJustified'
      <4> SUFFICES ASSUME trippedAt' # None
                   PROVE  Cardinality({f \in failLog' : /\ f.at > now - WindowMs
                                                        /\ f.at <= now}) >= FailureThreshold
        BY <3>1 DEF TripJustified
      <4> DEFINE seen == {f \in failLog' : f.at > now - WindowMs /\ f.at <= now}
      <4>1. Cardinality(kept) >= FailureThreshold
        BY <3>1
      <4>2. kept \subseteq seen
        BY <3>3, <3>7 DEF Pruned
      <4>3. IsFiniteSet(seen)
        BY SmallerSet, IsFiniteSet(failLog'), seen \subseteq failLog'
      <4>4. /\ Cardinality(seen) \in Nat
            /\ Cardinality(kept) <= Cardinality(seen)
        BY <4>2, <4>3, SmallerSet
      <4> QED
        BY <3>5, <4>1, <4>4
    <3> QED
      BY <3>8, <3>9, <3>10, <3>11
  <2> QED
    BY <2>2, <2>3
<1>5. CASE Tick
  <2>1. /\ now' = now + 1
        /\ UNCHANGED <<failures, trippedAt, running, failLog, runs>>
    BY <1>5 DEF Tick
  <2>2. Pruned(failLog)' \subseteq Pruned(failLog)
    BY <2>1 DEF Pruned
  <2>3. /\ Cardinality(Pruned(failLog)') \in Nat
        /\ Cardinality(Pruned(failLog)) \in Nat
        /\ Cardinality(Pruned(failLog)') <= Cardinality(Pruned(failLog))
    BY <2>2, PrunedCardinality, SmallerSet
  <2>4. ClosedInv'
    BY <2>1, <2>2 DEF ClosedInv
  <2>5. OpenInv'
    BY <2>1, <2>3 DEF OpenInv
  <2>6. PastInv' /\ TripJustified'
    BY <2>1 DEF PastInv, TripJustified
  <2> QED
    BY <2>4, <2>5, <2>6
<1>6. CASE UNCHANGED gateVars
  BY <1>6 DEF gateVars, ClosedInv, OpenInv, PastInv, TripJustified, Pruned
<1> QED
  BY <1>1, <1>2, <1>3, <1>4, <1>5, <1>6 DEF GateNext

\* RateInv holds in every reachable state.
LEMMA RateInvariant == GatedSpec => []RateInv
<1>1. GateInit => RateInv
  <2> SUFFICES ASSUME GateInit PROVE RateInv
    OBVIOUS
  <2>1. GateTypeOK
    BY FS_EmptySet, RecoveryAssumption
       DEF GateInit, RecoveryInit, GateTypeOK, RecoveryTypeOK
  <2>2. Cardinality({}) = 0
    BY FS_EmptySet
  <2>3. Pruned(failLog) = {}
    BY DEF GateInit, Pruned
  <2> QED
    BY <2>1, <2>2, <2>3, RecoveryAssumption
       DEF GateInit, RecoveryInit, RateInv, ClosedInv, OpenInv, PastInv, TripJustified
<1>2. RateInv /\ GateTypeOK' /\ [GateNext]_gateVars => RateInv'
  BY RateStep
<1> QED
  BY <1>1, <1>2, GateTypeCorrect, PTL DEF GatedSpec

\* The circuit breaker bounds the failed executions of any window by its
\* threshold (recovery.service.ts 32-55, engine.service.ts 91-93 and 129-133).
THEOREM FailureRate == GatedSpec => []FailureRateBounded
<1>1. RateInv => FailureRateBounded
  <2> SUFFICES ASSUME RateInv PROVE FailureRateBounded
    OBVIOUS
  <2>1. /\ Cardinality(Pruned(failLog)) \in Nat
        /\ IsFiniteSet(failLog)
        /\ FailureThreshold \in Nat
    BY PrunedCardinality, RecoveryAssumption DEF RateInv, GateTypeOK
  <2>2. CASE trippedAt = None
    <3>1. Pruned(failLog) \subseteq failures /\ IsFiniteSet(failures)
      BY <2>2 DEF RateInv, ClosedInv, GateTypeOK, RecoveryTypeOK
    <3>2. /\ Cardinality(failures) \in Nat
          /\ Cardinality(Pruned(failLog)) <= Cardinality(failures)
      BY <3>1, SmallerSet
    <3> QED
      BY <2>1, <2>2, <3>2 DEF RateInv, ClosedInv, FailureRateBounded
  <2>3. CASE trippedAt # None
    BY <2>3 DEF RateInv, OpenInv, FailureRateBounded
  <2> QED
    BY <2>2, <2>3
<1> QED
  BY <1>1, RateInvariant, PTL

\* A tripped breaker has FailureThreshold failures of one window behind it
\* (recovery.service.ts 32-39).
THEOREM TripsAreJustified == GatedSpec => []TripJustified
<1>1. RateInv => TripJustified
  BY DEF RateInv
<1> QED
  BY <1>1, RateInvariant, PTL

-----------------------------------------------------------------------------
(* Replays *)

\* ReplayInv and NoReplayWithinTtl are inductive together.
LEMMA ReplayStep ==
  GateTypeOK /\ PastInv /\ ReplayInv /\ NoReplayWithinTtl /\ [GateNext]_gateVars
    => ReplayInv' /\ NoReplayWithinTtl'
<1> SUFFICES ASSUME GateTypeOK, PastInv, ReplayInv, NoReplayWithinTtl, [GateNext]_gateVars
             PROVE  ReplayInv' /\ NoReplayWithinTtl'
  OBVIOUS
<1> USE RecoveryAssumption DEF GateTypeOK, RecoveryTypeOK, Running, Run
<1>r. ASSUME executed' = Remembered, runs' = runs, now' = now
      PROVE  ReplayInv'
  BY <1>r DEF ReplayInv, Remembered
<1>1. CASE Refuse
  BY <1>1, <1>r DEF Refuse, NoReplayWithinTtl
<1>2. CASE PollBreaker
  BY <1>2 DEF PollBreaker, ReplayInv, NoReplayWithinTtl
<1>3. ASSUME NEW s \in Signals, Start(s)
      PROVE  ReplayInv' /\ NoReplayWithinTtl'
  <2>1. ASSUME NEW a \in runs, a.signal = s
        PROVE  now - a.ended >= TtlMs
    <3>1. Remembered[s] = None
      BY <1>3 DEF Start, IsDuplicate
    <3>2. \/ executed[s] = None
          \/ executed[s] \in Nat /\ executed[s] <= now - TtlMs
      BY <3>1 DEF Remembered
    <3> QED
      BY <2>1, <3>2 DEF ReplayInv
  <2>2. NoReplayWithinTtl'
    BY <1>3, <2>1 DEF Start, NoReplayWithinTtl
  <2> QED
    BY <1>3, <1>r, <2>2 DEF Start
<1>4. ASSUME NEW failed \in BOOLEAN, Finish(failed)
      PROVE  ReplayInv' /\ NoReplayWithinTtl'
  <2> DEFINE last == [signal |-> running.signal, began |-> running.began, ended |-> now]
  <2>1. /\ running \in Running
        /\ running # None
        /\ executed' = [executed EXCEPT ![running.signal] = now]
        /\ running' = None
        /\ runs' = runs \cup {last}
        /\ now' = now
    BY <1>4 DEF Finish, MarkExecuted
  <2>2. ReplayInv'
    <3> SUFFICES ASSUME NEW r \in runs'
                 PROVE  \/ now - r.ended >= TtlMs
                        \/ executed'[r.signal] # None /\ executed'[r.signal] >= r.ended
      BY <2>1 DEF ReplayInv
    <3>1. /\ r.signal \in Signals
          /\ r.ended \in Nat
          /\ r.ended <= now
      BY <2>1 DEF PastInv
    <3>2. CASE r.signal = running.signal
      <4>1. executed'[r.signal] = now /\ now # None
        BY <2>1, <3>1, <3>2
      <4> QED
        BY <3>1, <4>1
    <3>3. CASE r.signal # running.signal
      <4>1. r \in runs /\ executed'[r.signal] = executed[r.signal]
        BY <2>1, <3>1, <3>3
      <4> QED
        BY <2>1, <4>1 DEF ReplayInv
    <3> QED
      BY <3>2, <3>3
  <2>3. NoReplayWithinTtl'
    <3> SUFFICES ASSUME NEW a \in runs', NEW b \in runs', a.signal = b.signal, a # b
                 PROVE  b.began - a.ended >= TtlMs \/ a.began - b.ended >= TtlMs
      BY <2>1 DEF NoReplayWithinTtl
    <3>1. CASE a \in runs /\ b \in runs
      BY <3>1 DEF NoReplayWithinTtl
    <3>2. CASE a \in runs /\ b = last
      BY <2>1, <3>2 DEF NoReplayWithinTtl
    <3>3. CASE a = last /\ b \in runs
      BY <2>1, <3>3 DEF NoReplayWithinTtl
    <3> QED
      BY <2>1, <3>1, <3>2, <3>3
  <2> QED
    BY <2>2, <2>3
<1>5. CASE Tick
  BY <1>5 DEF Tick, ReplayInv, NoReplayWithinTtl
<1>6. CASE UNCHANGED gateVars
  BY <1>6 DEF gateVars, ReplayInv, NoReplayWithinTtl
<1> QED
  BY <1>1, <1>2, <1>3, <1>4, <1>5, <1>6 DEF GateNext

\* No signal is executed again within TtlMs of the end of its last execution,
\* although the id is stored only after the legs (engine.service.ts 123-127):
\* executions do not overlap (recovery.service.ts 83-109).
THEOREM NoReplay == GatedSpec => []NoReplayWithinTtl
<1>1. GateInit => ReplayInv /\ NoReplayWithinTtl
  BY DEF GateInit, ReplayInv, NoReplayWithinTtl
<1>2. GateTypeOK /\ PastInv /\ ReplayInv /\ NoReplayWithinTtl /\ [GateNext]_gateVars
        => ReplayInv' /\ NoReplayWithinTtl'
  BY ReplayStep
<1>3. RateInv => PastInv
  BY DEF RateInv
<1> QED
  BY <1>1, <1>2, <1>3, RateInvariant, GateTypeCorrect, PTL DEF GatedSpec
=============================================================================
