---------------------------- MODULE ArbBotProofs ----------------------------
(***************************************************************************)
(* Proofs about ArbBot, for every value of the limits and every number of  *)
(* ticks that updates may try to start, and, at the end, about Rebalancer, *)
(* whose plans the bot's command asks for.                                 *)
(***************************************************************************)
EXTENDS ArbBot, Rebalancer, SumTheorems, SequenceTheorems

\* A window of the hour after one more stamp.
LEMMA StampedType ==
  ASSUME NEW stamps \in SUBSET Stamp, IsFiniteSet(stamps), now \in Nat
  PROVE  /\ Stamped(stamps) \in SUBSET Stamp
         /\ IsFiniteSet(Stamped(stamps))
<1> DEFINE x == [n |-> Cardinality(stamps) + 1, at |-> now]
<1>1. Cardinality(stamps) \in Nat
  BY FS_CardinalityType
<1>2. x \in Stamp
  BY <1>1 DEF Stamp
<1>3. Stamped(stamps) = stamps \cup {x}
  BY DEF Stamped
<1>4. IsFiniteSet(stamps \cup {x})
  BY FS_AddElement
<1> QED
  BY <1>2, <1>3, <1>4

LEMMA RecordTradeType ==
  ASSUME BotTypeOK, NEW pnl \in Int, RecordTrade(pnl)
  PROVE  /\ dailyPnl' \in Int
         /\ currentCapital' \in Int
         /\ peakCapital' \in Int
         /\ consecutiveLosses' \in Nat
         /\ tradeTimestamps' \in SUBSET Stamp /\ IsFiniteSet(tradeTimestamps')
<1>1. tradeTimestamps' \in SUBSET Stamp /\ IsFiniteSet(tradeTimestamps')
  BY StampedType DEF RecordTrade, BotTypeOK, RiskTypeOK
<1> QED
  BY <1>1 DEF RecordTrade, BotTypeOK, RiskTypeOK

LEMMA RecordErrorType ==
  ASSUME BotTypeOK, RecordError
  PROVE  errorTimestamps' \in SUBSET Stamp /\ IsFiniteSet(errorTimestamps')
BY StampedType DEF RecordError, BotTypeOK, RiskTypeOK

LEMMA ReleaseType ==
  ASSUME BotTypeOK, NEW t \in Ticks, Release(t)
  PROVE  tickState' \in BotStates /\ ticks' \in [Ticks -> TickType]
BY DEF Release, BotTypeOK, BotStates, TickType, TickSteps, NoTick

LEMMA KillReadType ==
  ASSUME BotTypeOK
  PROVE  KillRead \in [active : BOOLEAN, checkedAt : Int]
BY DEF KillRead, BotTypeOK, RiskTypeOK

\* The bot's variables keep their types.
THEOREM BotTypeCorrect == Spec => []BotTypeOK
<1>1. Init => BotTypeOK
  <2> SUFFICES ASSUME Init PROVE BotTypeOK
    OBVIOUS
  <2>0. RiskInit
    BY DEF Init
  <2>1. RiskTypeOK
    <3>1. IsFiniteSet({})
      BY FS_EmptySet
    <3>2. tradeTimestamps = {} /\ errorTimestamps = {}
      BY <2>0 DEF RiskInit
    <3>3. triggered \in BOOLEAN
      BY <2>0 DEF RiskInit
    <3>4. now = 0 /\ dailyPnl = 0 /\ currentCapital = 0 /\ peakCapital = 0 /\ consecutiveLosses = 0
      BY <2>0 DEF RiskInit
    <3> QED
      BY <3>1, <3>2, <3>3, <3>4 DEF RiskTypeOK
  <2>2. ticks \in [Ticks -> TickType]
    BY DEF Init, TickType, TickSteps, NoTick
  <2>3. killCache \in [active : BOOLEAN, checkedAt : Int]
    <3>1. -CacheMs \in Int
      BY BotAssumption
    <3>2. killCache = [active |-> FALSE, checkedAt |-> -CacheMs]
      BY DEF Init
    <3> QED
      BY <3>1, <3>2
  <2>4. /\ run \in RunStates /\ tickState \in BotStates /\ killedAt = None /\ resetting = None
        /\ day = 0 /\ lastResetDay = 0 /\ failedPnl = 0
        /\ stopping \in BOOLEAN /\ gaveUp \in BOOLEAN /\ stopSending \in BOOLEAN
        /\ dryRun \in BOOLEAN
    BY DEF Init, RunStates, BotStates
  <2> QED
    BY <2>1, <2>2, <2>3, <2>4 DEF BotTypeOK
<1>2. BotTypeOK /\ [Next]_vars => BotTypeOK'
  <2> SUFFICES ASSUME BotTypeOK, [Next]_vars
               PROVE  BotTypeOK'
    OBVIOUS
  <2> USE DEF riskVars, autoKillVars, stopVars, tickVars, killVars, dayVars
  <2>1. CASE ConnectWs
    BY <2>1, BotAssumption DEF ConnectWs, SetInitialCapital, BotTypeOK, RiskTypeOK, RunStates
  <2>2. CASE Announced \/ StreamGivesUp
    BY <2>2 DEF Announced, StreamGivesUp, BotTypeOK, RiskTypeOK, RunStates
  <2>3. CASE StopSent
    BY <2>3 DEF StopSent, BotTypeOK, RiskTypeOK, RunStates
  <2>4. CASE TelegramStop \/ Interrupt
    BY <2>4 DEF TelegramStop, Interrupt, RequestStop, BotTypeOK, RiskTypeOK
  <2>5. CASE Dies
    BY <2>5 DEF Dies, BotTypeOK, RiskTypeOK, RunStates
  <2>6. CASE DepthKilled \/ DepthAutoKilled \/ DepthBusy
    BY <2>6, KillReadType
       DEF DepthKilled, DepthAutoKilled, DepthBusy, GatesPass, Depth, RequestStop, BotTypeOK,
           RiskTypeOK
  <2>7. ASSUME NEW t \in Ticks, TickBegins(t)
        PROVE  BotTypeOK'
    <3>1. ticks' \in [Ticks -> TickType] /\ tickState' \in BotStates
      BY <2>7 DEF TickBegins, Late, BotTypeOK, BotStates, TickType, TickSteps, NoTick
    <3> QED
      BY <2>7, <3>1, KillReadType DEF TickBegins, GatesPass, Depth, BotTypeOK, RiskTypeOK
  <2>8. ASSUME NEW t \in Ticks, TickGivesUp(t) \/ PeekGivesUp(t) \/ TickEnds(t) \/ Mismatch(t)
        PROVE  BotTypeOK'
    <3>1. ticks' \in [Ticks -> TickType] /\ tickState' \in BotStates
      BY <2>8, ReleaseType DEF TickGivesUp, PeekGivesUp, TickEnds, Mismatch
    <3> QED
      BY <2>8, <3>1
         DEF TickGivesUp, PeekGivesUp, TickEnds, Mismatch, RequestStop, BotTypeOK, RiskTypeOK
  <2>9. ASSUME NEW t \in Ticks, TickThrows(t)
        PROVE  BotTypeOK'
    <3>1. ticks' \in [Ticks -> TickType] /\ tickState' \in BotStates
      BY <2>9, ReleaseType DEF TickThrows
    <3> QED
      BY <2>9, <3>1, RecordErrorType DEF TickThrows, RecordError, BotTypeOK, RiskTypeOK
  <2>10. ASSUME NEW t \in Ticks, NEW s \in Signals, DryRun(t, s)
         PROVE  BotTypeOK'
    <3>1. ticks' \in [Ticks -> TickType] /\ tickState' \in BotStates
      BY <2>10, ReleaseType DEF DryRun
    <3>2. s.net \in Int
      BY BotAssumption
    <3>3. /\ dailyPnl' \in Int /\ currentCapital' \in Int /\ peakCapital' \in Int
          /\ consecutiveLosses' \in Nat
          /\ tradeTimestamps' \in SUBSET Stamp /\ IsFiniteSet(tradeTimestamps')
      BY <2>10, <3>2, RecordTradeType DEF DryRun
    <3> QED
      BY <2>10, <3>1, <3>3 DEF DryRun, BotTypeOK, RiskTypeOK
  <2>11. ASSUME NEW t \in Ticks, NEW s \in Signals, TickChecked(t, s) \/ StartExecution(t, s)
         PROVE  BotTypeOK'
    <3>1. CASE TickChecked(t, s)
      <4>1. ticks' \in [Ticks -> TickType] /\ tickState' \in BotStates
        BY <3>1 DEF TickChecked, BotTypeOK, BotStates, TickType, TickSteps
      <4> QED
        BY <3>1, <4>1 DEF TickChecked, BotTypeOK, RiskTypeOK
    <3>2. CASE StartExecution(t, s)
      <4>1. ticks' \in [Ticks -> TickType]
        BY <3>2 DEF StartExecution, BotTypeOK, TickType, TickSteps
      <4> QED
        BY <3>2, <4>1 DEF StartExecution, BotTypeOK, RiskTypeOK
    <3> QED
      BY <2>11, <3>1, <3>2
  <2>12. ASSUME NEW t \in Ticks, NEW pnl \in Results, ExecutionDone(t, pnl)
         PROVE  BotTypeOK'
    <3>1. ticks' \in [Ticks -> TickType]
      BY <2>12 DEF ExecutionDone, BotTypeOK, TickType, TickSteps
    <3>2. pnl \in Int
      BY BotAssumption
    <3> QED
      BY <2>12, <3>1, <3>2, RecordTradeType DEF ExecutionDone, BotTypeOK, RiskTypeOK
  <2>13. ASSUME NEW t \in Ticks, NEW pnl \in FailedResults, ExecutionFailed(t, pnl)
         PROVE  BotTypeOK'
    <3>1. ticks' \in [Ticks -> TickType]
      BY <2>13 DEF ExecutionFailed, BotTypeOK, TickType, TickSteps
    <3>2. pnl \in Int
      BY BotAssumption
    <3> QED
      BY <2>13, <3>1, <3>2 DEF ExecutionFailed, BotTypeOK, RiskTypeOK
  <2>14. CASE ResetBegins \/ ResetEnds
    BY <2>14 DEF ResetBegins, ResetEnds, ResetDaily, BotTypeOK, RiskTypeOK
  <2>15. CASE TouchKillFile \/ Midnight \/ Clock
    BY <2>15 DEF TouchKillFile, Midnight, Clock, BotTypeOK, RiskTypeOK
  <2>16. CASE UNCHANGED vars
    BY <2>16 DEF vars, BotTypeOK, RiskTypeOK
  <2> QED
    BY <2>1, <2>2, <2>3, <2>4, <2>5, <2>6, <2>7, <2>8, <2>9, <2>10, <2>11, <2>12, <2>13, <2>14,
       <2>15, <2>16
       DEF Next, DepthUpdate, TickStep
<1> QED
  BY <1>1, <1>2, PTL DEF Spec
-----------------------------------------------------------------------------
(* The lock *)

\* A tick goes on.
Moves(t) ==
  /\ ticks[t].pc # "none"
  /\ ticks'[t].pc # "none"
  /\ ticks'[t].late = ticks[t].late
  /\ \A u \in Ticks : u # t => ticks'[u] = ticks[u]
  /\ tickState' \in {tickState, "EXECUTING"}

\* What a step can do to the ticks.
LEMMA TickCases ==
  ASSUME BotTypeOK, [Next]_vars
  PROVE  \/ UNCHANGED tickVars
         \/ \E t \in Ticks : TickBegins(t)
         \/ \E t \in Ticks : ticks[t].pc # "none" /\ Release(t)
         \/ \E t \in Ticks : Moves(t)
<1>1. CASE ConnectWs \/ Announced \/ StreamGivesUp \/ StopSent \/ TelegramStop \/ Interrupt \/ Dies
  BY <1>1 DEF ConnectWs, Announced, StreamGivesUp, StopSent, TelegramStop, Interrupt, Dies
<1>2. CASE DepthKilled \/ DepthAutoKilled \/ DepthBusy
  BY <1>2 DEF DepthKilled, DepthAutoKilled, DepthBusy
<1>3. CASE ResetBegins \/ ResetEnds \/ TouchKillFile \/ Midnight \/ Clock
  BY <1>3 DEF ResetBegins, ResetEnds, TouchKillFile, Midnight, Clock
<1>4. ASSUME NEW t \in Ticks,
             TickGivesUp(t) \/ PeekGivesUp(t) \/ TickEnds(t) \/ Mismatch(t) \/ TickThrows(t)
      PROVE  ticks[t].pc # "none" /\ Release(t)
  BY <1>4 DEF TickGivesUp, PeekGivesUp, TickEnds, Mismatch, TickThrows
<1>5. ASSUME NEW t \in Ticks, NEW s \in Signals, DryRun(t, s)
      PROVE  ticks[t].pc # "none" /\ Release(t)
  BY <1>5 DEF DryRun
<1>6. ASSUME NEW t \in Ticks, NEW s \in Signals, TickChecked(t, s)
      PROVE  Moves(t)
  BY <1>6 DEF TickChecked, Moves, BotTypeOK, TickType
<1>7. ASSUME NEW t \in Ticks, NEW s \in Signals, StartExecution(t, s)
      PROVE  Moves(t)
  BY <1>7 DEF StartExecution, Moves, BotTypeOK, TickType
<1>8. ASSUME NEW t \in Ticks, NEW pnl \in Results, ExecutionDone(t, pnl)
      PROVE  Moves(t)
  BY <1>8 DEF ExecutionDone, Moves, BotTypeOK, TickType
<1>9. ASSUME NEW t \in Ticks, NEW pnl \in FailedResults, ExecutionFailed(t, pnl)
      PROVE  Moves(t)
  BY <1>9 DEF ExecutionFailed, Moves, BotTypeOK, TickType
<1>10. CASE UNCHANGED vars
  BY <1>10 DEF vars
<1> QED
  BY <1>1, <1>2, <1>3, <1>4, <1>5, <1>6, <1>7, <1>8, <1>9, <1>10 DEF Next, DepthUpdate, TickStep

\* The lock: a tick begins only in IDLE, and the state is IDLE only when no
\* tick is under way (tick 354-380 of arb_bot.service.ts).
THEOREM Exclusive == Spec => []TickIsExclusive
<1>1. Init => TickIsExclusive
  BY DEF Init, TickIsExclusive, NoTick
<1>2. BotTypeOK /\ TickIsExclusive /\ [Next]_vars => TickIsExclusive'
  <2> SUFFICES ASSUME BotTypeOK, TickIsExclusive, [Next]_vars
               PROVE  TickIsExclusive'
    OBVIOUS
  <2>1. CASE UNCHANGED tickVars
    BY <2>1 DEF tickVars, TickIsExclusive
  <2>2. ASSUME NEW t \in Ticks, TickBegins(t)
        PROVE  TickIsExclusive'
    <3>1. /\ tickState = "IDLE" /\ tickState' = "GENERATING"
          /\ ticks'[t].pc = "generating"
          /\ \A u \in Ticks : u # t => ticks'[u] = ticks[u]
      BY <2>2 DEF TickBegins, BotTypeOK
    <3> QED
      BY <3>1 DEF TickIsExclusive
  <2>3. ASSUME NEW t \in Ticks, ticks[t].pc # "none", Release(t)
        PROVE  TickIsExclusive'
    <3>1. /\ tickState' = "IDLE"
          /\ ticks'[t].pc = "none"
          /\ \A u \in Ticks : u # t => ticks'[u] = ticks[u]
      BY <2>3 DEF Release, BotTypeOK, NoTick
    <3> QED
      BY <2>3, <3>1 DEF TickIsExclusive
  <2>4. ASSUME NEW t \in Ticks, Moves(t)
        PROVE  TickIsExclusive'
    BY <2>4 DEF Moves, TickIsExclusive
  <2> QED
    BY <2>1, <2>2, <2>3, <2>4, TickCases
<1> QED
  BY <1>1, <1>2, BotTypeCorrect, PTL DEF Spec

\* The clock never goes back.
LEMMA TimePasses ==
  ASSUME BotTypeOK, [Next]_vars
  PROVE  now' \in Nat /\ now <= now'
<1>1. now \in Nat
  BY DEF BotTypeOK, RiskTypeOK
<1>2. CASE Clock
  BY <1>1, <1>2 DEF Clock
<1>3. CASE UNCHANGED now
  BY <1>1, <1>3
<1>4. ConnectWs \/ Announced \/ StreamGivesUp \/ StopSent \/ TelegramStop \/ Interrupt \/ Dies
        => UNCHANGED now
  BY DEF ConnectWs, Announced, StreamGivesUp, StopSent, TelegramStop, Interrupt, Dies
<1>5. DepthUpdate => UNCHANGED now
  BY DEF DepthUpdate, DepthKilled, DepthAutoKilled, DepthBusy, TickBegins, GatesPass
<1>6. ASSUME NEW t \in Ticks
      PROVE  TickStep(t) => UNCHANGED now
  BY DEF TickStep, TickGivesUp, DryRun, TickChecked, StartExecution, PeekGivesUp, TickThrows,
         ExecutionDone, ExecutionFailed, TickEnds, Mismatch
<1>7. ResetBegins \/ ResetEnds \/ TouchKillFile \/ Midnight => UNCHANGED now
  BY DEF ResetBegins, ResetEnds, TouchKillFile, Midnight
<1>8. UNCHANGED vars => UNCHANGED now
  BY DEF vars
<1> QED
  BY <1>2, <1>3, <1>4, <1>5, <1>6, <1>7, <1>8 DEF Next

-----------------------------------------------------------------------------
(* The kill switch file *)

\* What the cache says is not older than it claims.
KillInv ==
  /\ killCache.checkedAt <= now
  /\ killedAt # None => killedAt <= now
  /\ killedAt # None /\ ~killCache.active => killCache.checkedAt <= killedAt

\* Reading the cache, which is renewed at its age.
LEMMA KillReads ==
  LET expired == now - killCache.checkedAt >= CacheMs IN
  /\ expired => KillRead.checkedAt = now
  /\ expired => (KillRead.active <=> killedAt # None)
  /\ ~expired => KillRead = killCache
BY DEF KillRead

LEMMA KillInvInductive == BotTypeOK /\ KillInv /\ [Next]_vars => KillInv'
<1> SUFFICES ASSUME BotTypeOK, KillInv, [Next]_vars
             PROVE  KillInv'
  OBVIOUS
<1>t. /\ now \in Nat /\ CacheMs \in Nat /\ None \notin Nat
      /\ killCache \in [active : BOOLEAN, checkedAt : Int]
      /\ killedAt \in Nat \cup {None}
  BY BotAssumption DEF BotTypeOK, RiskTypeOK
<1>1. CASE UNCHANGED killVars /\ UNCHANGED now
  BY <1>1 DEF KillInv, killVars
<1>2. CASE Depth /\ UNCHANGED <<now, killedAt>>
  <2>1. killCache' = KillRead /\ killedAt' = killedAt /\ now' = now
    BY <1>2 DEF Depth
  <2>2. CASE now - killCache.checkedAt >= CacheMs
    <3>1. killCache'.checkedAt = now /\ (killCache'.active <=> killedAt # None)
      BY <2>1, <2>2, KillReads
    <3> QED
      BY <2>1, <3>1, <1>t DEF KillInv
  <2>3. CASE ~(now - killCache.checkedAt >= CacheMs)
    BY <2>1, <2>3, KillReads DEF KillInv
  <2> QED
    BY <2>2, <2>3
<1>3. CASE TouchKillFile
  BY <1>3, <1>t DEF KillInv, TouchKillFile
<1>4. CASE Clock
  BY <1>4, <1>t DEF KillInv, Clock, killVars
<1>5. ConnectWs \/ Announced \/ StreamGivesUp \/ StopSent \/ TelegramStop \/ Interrupt \/ Dies
        => UNCHANGED killVars /\ UNCHANGED now
  BY DEF ConnectWs, Announced, StreamGivesUp, StopSent, TelegramStop, Interrupt, Dies
<1>6. ASSUME NEW t \in Ticks
      PROVE  /\ TickBegins(t) => Depth /\ UNCHANGED <<now, killedAt>>
             /\ TickStep(t) => UNCHANGED killVars /\ UNCHANGED now
  BY DEF TickBegins, GatesPass, TickStep, TickGivesUp, DryRun, TickChecked, StartExecution,
         PeekGivesUp, TickThrows, ExecutionDone, ExecutionFailed, TickEnds, Mismatch
<1>7. DepthKilled \/ DepthAutoKilled \/ DepthBusy => Depth /\ UNCHANGED <<now, killedAt>>
  BY DEF DepthKilled, DepthAutoKilled, DepthBusy, GatesPass
<1>8. ResetBegins \/ ResetEnds \/ Midnight => UNCHANGED killVars /\ UNCHANGED now
  BY DEF ResetBegins, ResetEnds, Midnight
<1>9. CASE UNCHANGED vars
  BY <1>1, <1>9 DEF vars
<1> QED
  BY <1>1, <1>2, <1>3, <1>4, <1>5, <1>6, <1>7, <1>8, <1>9 DEF Next, DepthUpdate

\* No tick begins once the file is as old as the cache may be.
THEOREM KillHolds == Spec => []NoTickAfterKill
<1>1. Init => KillInv /\ NoTickAfterKill
  BY BotAssumption DEF Init, RiskInit, KillInv, NoTickAfterKill, NoTick
<1>2. BotTypeOK /\ KillInv /\ NoTickAfterKill /\ [Next]_vars => NoTickAfterKill'
  <2> SUFFICES ASSUME BotTypeOK, KillInv, NoTickAfterKill, [Next]_vars
               PROVE  NoTickAfterKill'
    OBVIOUS
  <2>1. CASE UNCHANGED tickVars
    BY <2>1 DEF tickVars, NoTickAfterKill
  <2>2. ASSUME NEW t \in Ticks, TickBegins(t)
        PROVE  NoTickAfterKill'
    <3>1. ~Late
      <4>1. ~KillRead.active
        BY <2>2 DEF TickBegins, GatesPass
      <4>2. /\ now \in Nat /\ CacheMs \in Nat /\ None \notin Nat
            /\ killCache \in [active : BOOLEAN, checkedAt : Int]
            /\ killedAt \in Nat \cup {None}
        BY BotAssumption DEF BotTypeOK, RiskTypeOK
      <4>3. CASE now - killCache.checkedAt >= CacheMs
        BY <4>1, <4>3, KillReads DEF Late
      <4>4. CASE ~(now - killCache.checkedAt >= CacheMs)
        <5>1. killedAt # None => killCache.checkedAt <= killedAt
          BY <4>1, <4>4, KillReads DEF KillInv
        <5> QED
          BY <4>2, <4>4, <5>1 DEF Late
      <4> QED
        BY <4>3, <4>4
    <3>2. /\ ticks'[t].late = Late
          /\ \A u \in Ticks : u # t => ticks'[u] = ticks[u]
      BY <2>2 DEF TickBegins, BotTypeOK
    <3> QED
      BY <3>1, <3>2 DEF NoTickAfterKill
  <2>3. ASSUME NEW t \in Ticks, Release(t)
        PROVE  NoTickAfterKill'
    BY <2>3 DEF Release, NoTick, NoTickAfterKill, BotTypeOK
  <2>4. ASSUME NEW t \in Ticks, Moves(t)
        PROVE  NoTickAfterKill'
    BY <2>4 DEF Moves, NoTickAfterKill
  <2> QED
    BY <2>1, <2>2, <2>3, <2>4, TickCases
<1> QED
  BY <1>1, <1>2, KillInvInductive, BotTypeCorrect, PTL DEF Spec

-----------------------------------------------------------------------------
(* The rolling hour *)

\* Stamps are not of the future.
Past(stamps) == \A x \in stamps : x.at <= now

LEMMA WithinHourFinite ==
  ASSUME NEW stamps, IsFiniteSet(stamps)
  PROVE  /\ IsFiniteSet(WithinHour(stamps))
         /\ Cardinality(WithinHour(stamps)) \in Nat
<1>1. WithinHour(stamps) \subseteq stamps
  BY DEF WithinHour
<1>2. IsFiniteSet(WithinHour(stamps))
  BY <1>1, FS_Subset
<1> QED
  BY <1>2, FS_CardinalityType

\* One more stamp, when the last hour has less than max, leaves every hour with
\* max at most.
LEMMA OneMoreStamp ==
  ASSUME NEW stamps \in SUBSET Stamp, IsFiniteSet(stamps), now \in Nat, Past(stamps),
         NEW max \in Nat, Cardinality(WithinHour(stamps)) < max,
         \A x \in stamps : Cardinality(HourUpTo(x, stamps)) <= max
  PROVE  /\ Past(Stamped(stamps))
         /\ \A x \in Stamped(stamps) : Cardinality(HourUpTo(x, Stamped(stamps))) <= max
<1> DEFINE new == [n |-> Cardinality(stamps) + 1, at |-> now]
           last == WithinHour(stamps) \cup {new}
<1>h. HourMs \in Nat \ {0}
  BY RiskAssumption
<1>s. Stamped(stamps) = stamps \cup {new} /\ new.at = now
  BY DEF Stamped
<1>t. \A x \in stamps : x.at \in Nat
  BY DEF Stamp
<1>1. Past(Stamped(stamps))
  BY <1>s DEF Past
<1>2. IsFiniteSet(last) /\ Cardinality(last) <= max
  <2>1. IsFiniteSet(WithinHour(stamps)) /\ Cardinality(WithinHour(stamps)) \in Nat
    BY WithinHourFinite
  <2>2. /\ IsFiniteSet(last)
        /\ Cardinality(last) \in {Cardinality(WithinHour(stamps)),
                                  Cardinality(WithinHour(stamps)) + 1}
    BY <2>1, FS_AddElement
  <2> QED
    BY <2>1, <2>2
<1>3. ASSUME NEW x \in Stamped(stamps)
      PROVE  Cardinality(HourUpTo(x, Stamped(stamps))) <= max
  <2>1. CASE x.at = now
    <3>1. HourUpTo(x, Stamped(stamps)) \subseteq last
      BY <2>1, <1>s, <1>t, <1>h DEF HourUpTo, WithinHour
    <3>2. /\ Cardinality(HourUpTo(x, Stamped(stamps))) <= Cardinality(last)
          /\ IsFiniteSet(HourUpTo(x, Stamped(stamps)))
      BY <3>1, <1>2, FS_Subset
    <3>3. /\ Cardinality(HourUpTo(x, Stamped(stamps))) \in Nat
          /\ Cardinality(last) \in Nat
      BY <3>2, <1>2, FS_CardinalityType
    <3> QED
      BY <3>2, <3>3, <1>2
  <2>2. CASE x.at # now
    <3>1. x \in stamps /\ x.at < now
      BY <2>2, <1>s, <1>t DEF Past
    <3>2. HourUpTo(x, Stamped(stamps)) = HourUpTo(x, stamps)
      BY <3>1, <1>s, <1>t DEF HourUpTo
    <3> QED
      BY <3>1, <3>2
  <2> QED
    BY <2>1, <2>2
<1> QED
  BY <1>1, <1>3

\* As time passes, the last hour loses stamps.
LEMMA HourShrinks ==
  ASSUME NEW stamps \in SUBSET Stamp, IsFiniteSet(stamps), now \in Nat, now' \in Nat,
         now <= now'
  PROVE  /\ Cardinality({x \in stamps : x.at > now' - HourMs}) \in Nat
         /\ Cardinality({x \in stamps : x.at > now' - HourMs})
              <= Cardinality(WithinHour(stamps))
         /\ Cardinality(WithinHour(stamps)) \in Nat
<1> DEFINE later == {x \in stamps : x.at > now' - HourMs}
<1>1. \A x \in stamps : x.at \in Nat
  BY DEF Stamp
<1>2. later \subseteq WithinHour(stamps)
  BY <1>1, RiskAssumption DEF WithinHour
<1>3. IsFiniteSet(WithinHour(stamps)) /\ Cardinality(WithinHour(stamps)) \in Nat
  BY WithinHourFinite
<1>4. IsFiniteSet(later) /\ Cardinality(later) <= Cardinality(WithinHour(stamps))
  BY <1>2, <1>3, FS_Subset
<1> QED
  BY <1>3, <1>4, FS_CardinalityType

-----------------------------------------------------------------------------
(* What the checks establish, and a trade may use up *)

Solvent ==
  /\ dailyPnl > -MaxDailyLoss
  /\ dailyPnl > -AbsMaxDailyLoss
  /\ (peakCapital - currentCapital) * 10000 <= MaxDrawdownBps * peakCapital
  /\ consecutiveLosses < ConsecutiveLossLimit

Quota ==
  \A limit \in {MaxTradesPerHour, AbsMaxTradesPerHour} :
    Cardinality(WithinHour(tradeTimestamps)) < limit

CapInv == peakCapital >= 0 /\ currentCapital <= peakCapital

\* Integer division rounds down.
LEMMA DivisionBelow ==
  ASSUME NEW a \in Nat, NEW p \in Nat \ {0}, NEW b \in Nat, a \div p < b
  PROVE  a <= b * p
<1> DEFINE q == a \div p
<1>1. q \in Nat /\ a = p * q + (a % p) /\ a % p < p /\ a % p \in Nat
  OBVIOUS
<1>2. q + 1 <= b
  BY <1>1
<1>3. (b - (q + 1)) * p >= 0
  BY <1>1, <1>2
<1>4. (b - (q + 1)) * p = b * p - p * q - p
  BY <1>1
<1> HIDE DEF q
<1> QED
  BY <1>1, <1>3, <1>4

LEMMA ChecksSuffice ==
  ASSUME BotTypeOK, CapInv, NEW s \in Signals, RunRiskChecks(s)
  PROVE  Solvent /\ Quota
<1>t. /\ peakCapital \in Int /\ currentCapital \in Int /\ MaxDrawdownBps \in Nat
  BY RiskAssumption DEF BotTypeOK, RiskTypeOK
<1>1. (peakCapital - currentCapital) * 10000 <= MaxDrawdownBps * peakCapital
  <2>1. CASE peakCapital > 0
    <3>1. ((peakCapital - currentCapital) * 10000) \div peakCapital < MaxDrawdownBps
      BY <2>1 DEF RunRiskChecks, CheckPreTrade, DrawdownBelow
    <3>2. (peakCapital - currentCapital) * 10000 \in Nat /\ peakCapital \in Nat \ {0}
      BY <2>1, <1>t DEF CapInv
    <3> QED
      BY <3>1, <3>2, <1>t, DivisionBelow
  <2>2. CASE ~(peakCapital > 0)
    <3>1. currentCapital >= AbsMinCapital /\ AbsMinCapital \in Nat
      BY RiskAssumption DEF RunRiskChecks, AbsoluteSafetyCheck
    <3>2. peakCapital = 0 /\ currentCapital = 0
      BY <2>2, <3>1, <1>t DEF CapInv
    <3> QED
      BY <3>2, <1>t
  <2> QED
    BY <2>1, <2>2
<1>2. Quota
  BY DEF RunRiskChecks, CheckPreTrade, AbsoluteSafetyCheck, Quota
<1>3. /\ dailyPnl > -MaxDailyLoss /\ dailyPnl > -AbsMaxDailyLoss
      /\ consecutiveLosses < ConsecutiveLossLimit
  BY DEF RunRiskChecks, CheckPreTrade, AbsoluteSafetyCheck
<1> QED
  BY <1>1, <1>2, <1>3 DEF Solvent

-----------------------------------------------------------------------------
(* The limits of the RiskManager *)

Checked(t) == ticks[t].pc \in {"peeking", "executing"}

\* A step that books a trade.
Books(t, pnl) ==
  /\ pnl \in Int
  /\ pnl >= -WorstLoss
  /\ RecordTrade(pnl)
  /\ UNCHANGED now
  /\ ticks[t].pc # "none"
  /\ ~Checked(t)'
  /\ \A u \in Ticks : u # t => ticks'[u] = ticks[u]

\* What a step can do to the books of the RiskManager.
LEMMA RiskCases ==
  ASSUME BotTypeOK, CapInv, [Next]_vars
  PROVE  \/ UNCHANGED riskVars
         \/ SetInitialCapital(InitialCapital) /\ UNCHANGED <<now, tickVars>>
         \/ ResetDaily /\ UNCHANGED <<now, tickVars>>
         \/ \E t \in Ticks, pnl \in Int :
              Books(t, pnl) /\ (Checked(t) \/ (Solvent /\ Quota))
<1>1. CASE ConnectWs
  BY <1>1 DEF ConnectWs
<1>2. CASE Announced \/ StreamGivesUp \/ StopSent \/ TelegramStop \/ Interrupt \/ Dies
  BY <1>2 DEF Announced, StreamGivesUp, StopSent, TelegramStop, Interrupt, Dies
<1>3. CASE DepthKilled \/ DepthAutoKilled \/ DepthBusy \/ \E t \in Ticks : TickBegins(t)
  BY <1>3 DEF DepthKilled, DepthAutoKilled, DepthBusy, TickBegins, GatesPass
<1>4. CASE ResetEnds
  BY <1>4 DEF ResetEnds
<1>5. CASE ResetBegins \/ TouchKillFile \/ Midnight \/ Clock
  BY <1>5 DEF ResetBegins, TouchKillFile, Midnight, Clock
<1>6. ASSUME NEW t \in Ticks,
             TickGivesUp(t) \/ PeekGivesUp(t) \/ TickEnds(t) \/ Mismatch(t) \/ TickThrows(t)
      PROVE  UNCHANGED riskVars
  BY <1>6 DEF TickGivesUp, PeekGivesUp, TickEnds, Mismatch, TickThrows
<1>7. ASSUME NEW t \in Ticks, NEW s \in Signals, TickChecked(t, s) \/ StartExecution(t, s)
      PROVE  UNCHANGED riskVars
  BY <1>7 DEF TickChecked, StartExecution
<1>8. ASSUME NEW t \in Ticks, NEW pnl \in FailedResults, ExecutionFailed(t, pnl)
      PROVE  UNCHANGED riskVars
  BY <1>8 DEF ExecutionFailed
<1>9. ASSUME NEW t \in Ticks, NEW s \in Signals, DryRun(t, s)
      PROVE  s.net \in Int /\ Books(t, s.net) /\ Solvent /\ Quota
  <2>1. s.net \in Int /\ s.net >= -WorstLoss
    BY BotAssumption
  <2>2. Solvent /\ Quota
    BY <1>9, ChecksSuffice DEF DryRun
  <2>3. /\ ticks[t].pc # "none"
        /\ ~Checked(t)'
        /\ \A u \in Ticks : u # t => ticks'[u] = ticks[u]
    BY <1>9 DEF DryRun, Release, NoTick, Checked, BotTypeOK
  <2> QED
    BY <1>9, <2>1, <2>2, <2>3 DEF DryRun, Books
<1>10. ASSUME NEW t \in Ticks, NEW pnl \in Results, ExecutionDone(t, pnl)
       PROVE  pnl \in Int /\ Books(t, pnl) /\ Checked(t)
  <2>1. pnl \in Int /\ pnl >= -WorstLoss
    BY BotAssumption
  <2>2. /\ ticks[t].pc = "executing"
        /\ ticks'[t].pc = "verifying"
        /\ \A u \in Ticks : u # t => ticks'[u] = ticks[u]
    BY <1>10 DEF ExecutionDone, BotTypeOK, TickType
  <2> QED
    BY <1>10, <2>1, <2>2 DEF ExecutionDone, Books, Checked
<1>11. CASE UNCHANGED vars
  BY <1>11 DEF vars
<1> QED
  BY <1>1, <1>2, <1>3, <1>4, <1>5, <1>6, <1>7, <1>8, <1>9, <1>10, <1>11
     DEF Next, DepthUpdate, TickStep

\* A tick gets past the checks only by passing them.
LEMMA CheckedCases ==
  ASSUME BotTypeOK, CapInv, [Next]_vars, NEW t \in Ticks, Checked(t)'
  PROVE  Checked(t) \/ (Solvent /\ Quota /\ UNCHANGED <<now, riskVars>>)
<1>1. CASE UNCHANGED tickVars
  BY <1>1 DEF tickVars, Checked
<1>2. CASE \E u \in Ticks : TickBegins(u)
  BY <1>2 DEF TickBegins, Checked, BotTypeOK
<1>3. CASE \E u \in Ticks : Release(u)
  BY <1>3 DEF Release, Checked, NoTick, BotTypeOK
<1>4. ASSUME NEW u \in Ticks, NEW s \in Signals, TickChecked(u, s)
      PROVE  Solvent /\ Quota /\ UNCHANGED <<now, riskVars>>
  BY <1>4, ChecksSuffice DEF TickChecked
<1>5. ASSUME NEW u \in Ticks, NEW s \in Signals, StartExecution(u, s)
      PROVE  Checked(t)
  BY <1>5 DEF StartExecution, Checked, BotTypeOK
<1>6. ASSUME NEW u \in Ticks, NEW pnl \in Int, ExecutionDone(u, pnl) \/ ExecutionFailed(u, pnl)
      PROVE  Checked(t)
  <2>1. ticks'[u].pc \in {"verifying", "resyncing"}
    <3>1. CASE ExecutionDone(u, pnl)
      BY <3>1 DEF ExecutionDone, BotTypeOK, TickType
    <3>2. CASE ExecutionFailed(u, pnl)
      BY <3>2 DEF ExecutionFailed, BotTypeOK, TickType
    <3> QED
      BY <1>6, <3>1, <3>2
  <2>2. u # t => ticks'[t] = ticks[t]
    BY <1>6 DEF ExecutionDone, ExecutionFailed, BotTypeOK
  <2> QED
    BY <2>1, <2>2 DEF Checked
<1>7. ConnectWs \/ Announced \/ StreamGivesUp \/ StopSent \/ TelegramStop \/ Interrupt \/ Dies
      \/ UNCHANGED vars
        => UNCHANGED tickVars
  BY DEF ConnectWs, Announced, StreamGivesUp, StopSent, TelegramStop, Interrupt, Dies, vars
<1>8. (\/ DepthKilled \/ DepthAutoKilled \/ DepthBusy \/ ResetBegins \/ ResetEnds
       \/ TouchKillFile \/ Midnight \/ Clock)
        => UNCHANGED tickVars
  BY DEF DepthKilled, DepthAutoKilled, DepthBusy, ResetBegins, ResetEnds, TouchKillFile,
         Midnight, Clock
<1>9. ASSUME NEW u \in Ticks
      PROVE  /\ TickGivesUp(u) \/ PeekGivesUp(u) \/ TickThrows(u) \/ TickEnds(u) \/ Mismatch(u)
                  => Release(u)
             /\ \A s \in Signals : DryRun(u, s) => Release(u)
  BY DEF TickGivesUp, PeekGivesUp, TickThrows, TickEnds, Mismatch, DryRun
<1>10. Results \subseteq Int /\ FailedResults \subseteq Int
  BY BotAssumption
<1>11. ASSUME NEW u \in Ticks, TickStep(u)
       PROVE  Checked(t) \/ (Solvent /\ Quota /\ UNCHANGED <<now, riskVars>>)
  <2>1. CASE \E s \in Signals : DryRun(u, s) \/ TickChecked(u, s) \/ StartExecution(u, s)
    BY <1>3, <1>4, <1>5, <1>9, <2>1
  <2>2. CASE \/ \E pnl \in Results : ExecutionDone(u, pnl)
             \/ \E pnl \in FailedResults : ExecutionFailed(u, pnl)
    BY <1>6, <1>10, <2>2
  <2>3. CASE TickGivesUp(u) \/ PeekGivesUp(u) \/ TickThrows(u) \/ TickEnds(u) \/ Mismatch(u)
    BY <1>3, <1>9, <2>3
  <2> QED
    BY <1>11, <2>1, <2>2, <2>3 DEF TickStep
<1>12. CASE DepthUpdate
  BY <1>1, <1>2, <1>8, <1>12 DEF DepthUpdate
<1>13. CASE \E u \in Ticks : TickStep(u)
  BY <1>11, <1>13
<1>14. CASE \/ ConnectWs \/ Announced \/ StreamGivesUp \/ StopSent \/ TelegramStop \/ Interrupt
            \/ Dies
            \/ UNCHANGED vars
  BY <1>1, <1>7, <1>14
<1>15. CASE ResetBegins \/ ResetEnds \/ TouchKillFile \/ Midnight \/ Clock
  BY <1>1, <1>8, <1>15
<1> QED
  BY <1>12, <1>13, <1>14, <1>15 DEF Next

\* What the books keep, the limits among it.
RiskInv ==
  /\ CapInv
  /\ DailyLossBounded
  /\ DrawdownBounded
  /\ LossStreakBounded
  /\ (\E t \in Ticks : Checked(t)) => Solvent

LEMMA BooksKeepLimits ==
  ASSUME BotTypeOK, CapInv, Solvent, NEW t \in Ticks, NEW pnl \in Int, Books(t, pnl)
  PROVE  /\ CapInv'
         /\ DailyLossBounded'
         /\ DrawdownBounded'
         /\ LossStreakBounded'
<1>t. /\ dailyPnl \in Int /\ currentCapital \in Int /\ peakCapital \in Int
      /\ consecutiveLosses \in Nat
      /\ WorstLoss \in Nat /\ MaxDrawdownBps \in Nat /\ MaxDailyLoss \in Nat
      /\ AbsMaxDailyLoss \in Nat /\ ConsecutiveLossLimit \in Nat \ {0}
  BY RiskAssumption, BotAssumption DEF BotTypeOK, RiskTypeOK
<1>1. /\ dailyPnl' = dailyPnl + pnl
      /\ currentCapital' = currentCapital + pnl
      /\ peakCapital' = IF currentCapital' > peakCapital THEN currentCapital' ELSE peakCapital
      /\ consecutiveLosses' = IF pnl < 0 THEN consecutiveLosses + 1 ELSE 0
      /\ pnl >= -WorstLoss
  BY DEF Books, RecordTrade
<1>2. CapInv'
  BY <1>1, <1>t DEF CapInv
<1>3. DailyLossBounded'
  BY <1>1, <1>t DEF DailyLossBounded, Solvent
<1>4. DrawdownBounded'
  <2>1. CASE currentCapital' > peakCapital
    <3>1. peakCapital' = currentCapital' /\ currentCapital' \in Nat
      BY <2>1, <1>1, <1>t DEF CapInv
    <3>2. \A x, y \in Nat : x * y \in Nat
      OBVIOUS
    <3>3. MaxDrawdownBps * peakCapital' \in Nat
      BY <3>1, <3>2, <1>t
    <3>4. (peakCapital' - currentCapital') * 10000 = 0
      <4>1. PICK v \in Nat : peakCapital' = v /\ currentCapital' = v
        BY <3>1
      <4>2. (v - v) * 10000 = 0
        OBVIOUS
      <4> QED
        BY <4>1, <4>2, SMTT(30)
    <3>5. \A p, w \in Nat : 0 <= p + 10000 * w
      OBVIOUS
    <3>6. 0 <= MaxDrawdownBps * peakCapital' + 10000 * WorstLoss
      BY <3>3, <3>5, <1>t
    <3> QED
      BY <3>4, <3>6 DEF DrawdownBounded
  <2>2. CASE ~(currentCapital' > peakCapital)
    <3>1. peakCapital' = peakCapital
      BY <2>2, <1>1
    <3>2. (peakCapital - currentCapital') * 10000
            <= (peakCapital - currentCapital) * 10000 + 10000 * WorstLoss
      BY <1>1, <1>t
    <3>3. MaxDrawdownBps * peakCapital \in Int
      BY <1>t
    <3> QED
      BY <3>1, <3>2, <3>3, <1>1, <1>t DEF DrawdownBounded, Solvent
  <2> QED
    BY <2>1, <2>2
<1>5. LossStreakBounded'
  BY <1>1, <1>t DEF LossStreakBounded, Solvent
<1> QED
  BY <1>2, <1>3, <1>4, <1>5

LEMMA RiskInvInductive == BotTypeOK /\ TickIsExclusive /\ RiskInv /\ [Next]_vars => RiskInv'
<1> SUFFICES ASSUME BotTypeOK, TickIsExclusive, RiskInv, [Next]_vars
             PROVE  RiskInv'
  OBVIOUS
<1>c. CapInv
  BY DEF RiskInv
<1>t. /\ WorstLoss \in Nat /\ MaxDrawdownBps \in Nat /\ MaxDailyLoss \in Nat \ {0}
      /\ AbsMaxDailyLoss \in Nat \ {0} /\ ConsecutiveLossLimit \in Nat \ {0}
      /\ InitialCapital \in Nat /\ peakCapital \in Int /\ currentCapital \in Int
  BY RiskAssumption, BotAssumption DEF BotTypeOK, RiskTypeOK
<1>s. ASSUME NEW t \in Ticks, Checked(t)'
      PROVE  Solvent
  BY <1>c, <1>s, CheckedCases DEF RiskInv
<1>1. CASE UNCHANGED riskVars
  <2>1. /\ CapInv' /\ DailyLossBounded' /\ DrawdownBounded' /\ LossStreakBounded'
        /\ Solvent => Solvent'
    BY <1>1 DEF RiskInv, riskVars, CapInv, DailyLossBounded, DrawdownBounded,
                LossStreakBounded, Solvent
  <2> QED
    BY <2>1, <1>s DEF RiskInv
<1>2. CASE SetInitialCapital(InitialCapital)
  <2>1. /\ currentCapital' = InitialCapital /\ peakCapital' = InitialCapital
        /\ dailyPnl' = dailyPnl /\ consecutiveLosses' = consecutiveLosses
    BY <1>2 DEF SetInitialCapital
  <2>2. MaxDrawdownBps * InitialCapital \in Nat
    BY <1>t
  <2>3. /\ CapInv' /\ DailyLossBounded' /\ DrawdownBounded' /\ LossStreakBounded'
        /\ Solvent => Solvent'
    BY <2>1, <2>2, <1>t
       DEF RiskInv, CapInv, DailyLossBounded, DrawdownBounded, LossStreakBounded, Solvent
  <2> QED
    BY <2>3, <1>s DEF RiskInv
<1>3. CASE ResetDaily
  <2>1. /\ currentCapital' = currentCapital /\ peakCapital' = peakCapital
        /\ dailyPnl' = 0 /\ consecutiveLosses' = 0
    BY <1>3 DEF ResetDaily
  <2>2. /\ CapInv' /\ DailyLossBounded' /\ DrawdownBounded' /\ LossStreakBounded'
        /\ Solvent => Solvent'
    BY <2>1, <1>t
       DEF RiskInv, CapInv, DailyLossBounded, DrawdownBounded, LossStreakBounded, Solvent
  <2> QED
    BY <2>2, <1>s DEF RiskInv
<1>4. ASSUME NEW t \in Ticks, NEW pnl \in Int,
             Books(t, pnl), Checked(t) \/ (Solvent /\ Quota)
      PROVE  RiskInv'
  <2>1. Solvent
    BY <1>4 DEF RiskInv
  <2>2. \A u \in Ticks : ~Checked(u)'
    BY <1>4 DEF Books, Checked, TickIsExclusive
  <2> QED
    BY <1>4, <1>c, <2>1, <2>2, BooksKeepLimits DEF RiskInv
<1> QED
  BY <1>1, <1>2, <1>3, <1>4, <1>c, RiskCases

LEMMA RiskInvHolds == Spec => []RiskInv
<1>1. Init => RiskInv
  <2> SUFFICES ASSUME Init PROVE RiskInv
    OBVIOUS
  <2>1. /\ dailyPnl = 0 /\ currentCapital = 0 /\ peakCapital = 0 /\ consecutiveLosses = 0
        /\ \A t \in Ticks : ~Checked(t)
    BY DEF Init, RiskInit, Checked, NoTick
  <2>2. /\ WorstLoss \in Nat /\ MaxDrawdownBps \in Nat /\ MaxDailyLoss \in Nat \ {0}
        /\ AbsMaxDailyLoss \in Nat \ {0} /\ ConsecutiveLossLimit \in Nat
    BY RiskAssumption, BotAssumption
  <2> QED
    BY <2>1, <2>2
       DEF RiskInv, CapInv, DailyLossBounded, DrawdownBounded, LossStreakBounded
<1> QED
  BY <1>1, RiskInvInductive, BotTypeCorrect, Exclusive, PTL DEF Spec

\* The loss booked since a reset passes the daily limit by one trade at most
\* (runRiskChecks 460-489 of arb_bot.service.ts).
THEOREM DailyLoss == Spec => []DailyLossBounded
BY RiskInvHolds, PTL DEF RiskInv

\* The capital stays within the drawdown limit of its peak, but for one trade
\* (checkPreTrade 54-63 of risk.service.ts).
THEOREM Drawdown == Spec => []DrawdownBounded
BY RiskInvHolds, PTL DEF RiskInv

\* No more losses follow each other than the limit allows (checkPreTrade 65-70
\* and recordTrade 88-92 of risk.service.ts).
THEOREM LossStreak == Spec => []LossStreakBounded
BY RiskInvHolds, PTL DEF RiskInv

-----------------------------------------------------------------------------
(* The limits of the hour *)

QuotaInv ==
  /\ Past(tradeTimestamps)
  /\ HourlyTradesBounded
  /\ (\E t \in Ticks : Checked(t)) => Quota

LEMMA QuotaInvInductive ==
  BotTypeOK /\ TickIsExclusive /\ RiskInv /\ QuotaInv /\ [Next]_vars => QuotaInv'
<1> SUFFICES ASSUME BotTypeOK, TickIsExclusive, RiskInv, QuotaInv, [Next]_vars
             PROVE  QuotaInv'
  OBVIOUS
<1>c. CapInv
  BY DEF RiskInv
<1>t. /\ tradeTimestamps \in SUBSET Stamp /\ IsFiniteSet(tradeTimestamps)
      /\ now \in Nat /\ now' \in Nat /\ now <= now'
      /\ \A limit \in {MaxTradesPerHour, AbsMaxTradesPerHour} : limit \in Nat
  <2>1. now' \in Nat /\ now <= now'
    BY TimePasses
  <2> QED
    BY <2>1, RiskAssumption DEF BotTypeOK, RiskTypeOK
<1>s. ASSUME NEW t \in Ticks, Checked(t)'
      PROVE  Quota
  BY <1>c, <1>s, CheckedCases DEF QuotaInv
<1>1. CASE UNCHANGED tradeTimestamps
  <2>1. Past(tradeTimestamps)' /\ HourlyTradesBounded'
    BY <1>1, <1>t DEF QuotaInv, Past, HourlyTradesBounded, HourUpTo, Stamp
  <2>2. Quota => Quota'
    BY <1>1, <1>t, HourShrinks DEF Quota, WithinHour
  <2> QED
    BY <2>1, <2>2, <1>s DEF QuotaInv
<1>2. ASSUME NEW t \in Ticks, NEW pnl \in Int,
             Books(t, pnl), Checked(t) \/ (Solvent /\ Quota)
      PROVE  QuotaInv'
  <2>1. Quota
    BY <1>2 DEF QuotaInv
  <2>2. \A u \in Ticks : ~Checked(u)'
    BY <1>2 DEF Books, Checked, TickIsExclusive
  <2>3. now' = now /\ tradeTimestamps' = Stamped(tradeTimestamps)
    BY <1>2 DEF Books, RecordTrade
  <2>4. ASSUME NEW limit \in {MaxTradesPerHour, AbsMaxTradesPerHour}
        PROVE  /\ Past(Stamped(tradeTimestamps))
               /\ \A x \in Stamped(tradeTimestamps) :
                    Cardinality(HourUpTo(x, Stamped(tradeTimestamps))) <= limit
    BY <1>t, <2>1, OneMoreStamp DEF Quota, QuotaInv, HourlyTradesBounded
  <2>5. Past(tradeTimestamps)' /\ HourlyTradesBounded'
    BY <2>3, <2>4 DEF Past, HourlyTradesBounded, HourUpTo
  <2> QED
    BY <2>2, <2>5 DEF QuotaInv
<1> QED
  BY <1>1, <1>2, <1>c, RiskCases DEF riskVars, SetInitialCapital, ResetDaily

\* No hour sees more trades than a limit, wherever it starts (pruneTradeWindow
\* 129-136 and checkPreTrade 72-75 of risk.service.ts).
THEOREM HourlyTrades == Spec => []HourlyTradesBounded
<1>1. Init => QuotaInv
  BY DEF Init, RiskInit, QuotaInv, Past, HourlyTradesBounded, Checked, NoTick
<1> QED
  BY <1>1, QuotaInvInductive, BotTypeCorrect, Exclusive, RiskInvHolds, PTL DEF Spec, QuotaInv

-----------------------------------------------------------------------------
(* Errors of executions *)

Calm == Cardinality(WithinHour(errorTimestamps)) < MaxErrorsPerHour + 1

ErrorInv ==
  /\ Past(errorTimestamps)
  /\ ErrorRateBounded
  /\ (\E t \in Ticks : ticks[t].pc # "none") => Calm

\* What a step can do to the errors, and to the ticks they depend on.
LEMMA ErrorCases ==
  ASSUME BotTypeOK, [Next]_vars
  PROVE  \/ UNCHANGED errorTimestamps
         \/ \E t \in Ticks : TickThrows(t)
<1>1. ConnectWs \/ Announced \/ StreamGivesUp \/ StopSent \/ TelegramStop \/ Interrupt \/ Dies
        => UNCHANGED errorTimestamps
  BY DEF ConnectWs, Announced, StreamGivesUp, StopSent, TelegramStop, Interrupt, Dies, autoKillVars
<1>2. DepthUpdate => UNCHANGED errorTimestamps
  BY DEF DepthUpdate, DepthKilled, DepthAutoKilled, DepthBusy, TickBegins, GatesPass,
         autoKillVars
<1>3. ASSUME NEW t \in Ticks
      PROVE  TickStep(t) => UNCHANGED errorTimestamps \/ TickThrows(t)
  BY DEF TickStep, TickGivesUp, DryRun, TickChecked, StartExecution, PeekGivesUp,
         ExecutionDone, ExecutionFailed, TickEnds, Mismatch, autoKillVars
<1>4. ResetBegins \/ ResetEnds \/ TouchKillFile \/ Midnight \/ Clock
        => UNCHANGED errorTimestamps
  BY DEF ResetBegins, ResetEnds, TouchKillFile, Midnight, Clock, autoKillVars
<1>5. UNCHANGED vars => UNCHANGED errorTimestamps
  BY DEF vars, autoKillVars
<1> QED
  BY <1>1, <1>2, <1>3, <1>4, <1>5 DEF Next

\* A tick is under way only if it was, or if it has just passed the gates.
LEMMA BegunCases ==
  ASSUME BotTypeOK, [Next]_vars, NEW t \in Ticks, ticks'[t].pc # "none"
  PROVE  ticks[t].pc # "none" \/ Calm
<1>1. CASE UNCHANGED tickVars
  BY <1>1 DEF tickVars
<1>2. ASSUME NEW u \in Ticks, TickBegins(u)
      PROVE  Calm
  <2>1. ~(Cardinality(WithinHour(errorTimestamps)) > MaxErrorsPerHour)
    BY <1>2 DEF TickBegins, GatesPass, AutoKills
  <2>2. Cardinality(WithinHour(errorTimestamps)) \in Nat /\ MaxErrorsPerHour \in Nat
    BY WithinHourFinite, RiskAssumption DEF BotTypeOK, RiskTypeOK
  <2> QED
    BY <2>1, <2>2 DEF Calm
<1>3. ASSUME NEW u \in Ticks, Release(u)
      PROVE  ticks[t].pc # "none"
  BY <1>3 DEF Release, NoTick, BotTypeOK
<1>4. ASSUME NEW u \in Ticks, Moves(u)
      PROVE  ticks[t].pc # "none"
  BY <1>4 DEF Moves
<1> QED
  BY <1>1, <1>2, <1>3, <1>4, TickCases

LEMMA ErrorInvInductive == BotTypeOK /\ TickIsExclusive /\ ErrorInv /\ [Next]_vars => ErrorInv'
<1> SUFFICES ASSUME BotTypeOK, TickIsExclusive, ErrorInv, [Next]_vars
             PROVE  ErrorInv'
  OBVIOUS
<1>t. /\ errorTimestamps \in SUBSET Stamp /\ IsFiniteSet(errorTimestamps)
      /\ now \in Nat /\ now' \in Nat /\ now <= now'
      /\ MaxErrorsPerHour \in Nat
  <2>1. now' \in Nat /\ now <= now'
    BY TimePasses
  <2> QED
    BY <2>1, RiskAssumption DEF BotTypeOK, RiskTypeOK
<1>1. CASE UNCHANGED errorTimestamps
  <2>1. Past(errorTimestamps)' /\ ErrorRateBounded'
    <3>1. Past(errorTimestamps)'
      BY <1>1, <1>t DEF ErrorInv, Past, Stamp
    <3>2. ErrorRateBounded'
      BY <1>1 DEF ErrorInv, ErrorRateBounded, HourUpTo
    <3> QED
      BY <3>1, <3>2
  <2>2. Calm => Calm'
    <3>1. /\ Cardinality(WithinHour(errorTimestamps)') <= Cardinality(WithinHour(errorTimestamps))
          /\ Cardinality(WithinHour(errorTimestamps)') \in Nat
          /\ Cardinality(WithinHour(errorTimestamps)) \in Nat
      BY <1>1, <1>t, HourShrinks DEF WithinHour
    <3> QED
      BY <3>1, <1>t DEF Calm
  <2>3. (\E t \in Ticks : ticks[t].pc # "none")' => Calm
    BY BegunCases DEF ErrorInv
  <2> QED
    BY <2>1, <2>2, <2>3 DEF ErrorInv
<1>2. ASSUME NEW t \in Ticks, TickThrows(t)
      PROVE  ErrorInv'
  <2>1. Calm
    BY <1>2 DEF TickThrows, ErrorInv
  <2>2. \A u \in Ticks : ticks'[u].pc = "none"
    BY <1>2 DEF TickThrows, Release, NoTick, TickIsExclusive, BotTypeOK
  <2>3. now' = now /\ errorTimestamps' = Stamped(errorTimestamps)
    BY <1>2 DEF TickThrows, RecordError
  <2>4. /\ Past(Stamped(errorTimestamps))
        /\ \A x \in Stamped(errorTimestamps) :
             Cardinality(HourUpTo(x, Stamped(errorTimestamps))) <= MaxErrorsPerHour + 1
    <3>1. MaxErrorsPerHour + 1 \in Nat
      BY <1>t
    <3> QED
      BY <1>t, <2>1, <3>1, OneMoreStamp DEF Calm, ErrorInv, ErrorRateBounded
  <2>5. Past(errorTimestamps)' /\ ErrorRateBounded'
    BY <2>3, <2>4 DEF Past, ErrorRateBounded, HourUpTo
  <2> QED
    BY <2>2, <2>5 DEF ErrorInv
<1> QED
  BY <1>1, <1>2, ErrorCases

\* No hour sees more errors of executions than one above the limit
\* (AutoKillSwitch.check 49-73 of kill.switch.ts).
THEOREM ErrorRate == Spec => []ErrorRateBounded
<1>1. Init => ErrorInv
  BY DEF Init, RiskInit, ErrorInv, Past, ErrorRateBounded, NoTick
<1> QED
  BY <1>1, ErrorInvInductive, BotTypeCorrect, Exclusive, PTL DEF Spec, ErrorInv

-----------------------------------------------------------------------------
(* The planner that the command /rebalance asks: Rebalancer. *)

\* What is assumed of it: the asset has an entry in withdrawalFees, and there
\* are venues with balances.
PlanAssumption ==
  /\ MinWithdrawal \in Nat \ {0} /\ MinOperating \in Nat
  /\ \A h \in Holdings : /\ IsFiniteSet(DOMAIN h) /\ DOMAIN h # {}
                         /\ h \in [DOMAIN h -> [free : Nat, locked : Nat]]

\* What a venue holds above an equal share.
Excess(v) == Amounts(holding)[v] - Target(holding)

\* A transfer that keeps the rules of plan(): at least the least withdrawal, the
\* sender keeps what it operates with, neither venue passes an equal share.
KeepsRules(p) ==
  /\ p.amount >= MinWithdrawal
  /\ holding[p.from].free - p.amount >= MinOperating
  /\ p.amount <= Excess(p.from)
  /\ p.amount <= -Excess(p.to)

\* Each transfer planned keeps the rules (53-55 and 85-119 of rebalancer.service.ts).
PlansKeepRules == pc = "matching" => \A p \in plans : KeepsRules(p)

\* A lap that is not the last passes a sender, or lowers what is left of it (85-119).
LapShrinks ==
  (pc = "matching" /\ pc' = "matching") =>
    \/ Len(surpluses') < Len(surpluses)
    \/ /\ Len(surpluses') = Len(surpluses)
       /\ surpluses[1].amount \in Nat /\ surpluses'[1].amount \in Nat
       /\ surpluses'[1].amount < surpluses[1].amount

\* What is left of the lists was in them: no more than the venues' excess or need.
Venues == DOMAIN holding
Within(V, most) == {e \in [venue : V, amount : Nat \ {0}] : e.amount <= most[e.venue]}
Senders == Within(Venues, [v \in Venues |-> Excess(v)])
Receivers == Within(Venues, [v \in Venues |-> -Excess(v)])

PlanInv ==
  /\ holding \in Holdings
  /\ pc \in {"idle", "matching"}
  /\ pc = "matching" =>
       /\ surpluses \in Seq(Senders) /\ deficits \in Seq(Receivers)
       /\ \A p \in plans : KeepsRules(p)

\* The lesser of two numbers.
LEMMA LesserIs ==
  ASSUME NEW x \in Int, NEW y \in Int
  PROVE  Min({x, y}) = IF x <= y THEN x ELSE y
<1> DEFINE m == IF x <= y THEN x ELSE y
<1>1. m \in {x, y} /\ \A z \in {x, y} : m <= z
  OBVIOUS
<1>2. \A k \in {x, y} : (\A z \in {x, y} : k <= z) => k = m
  OBVIOUS
<1> HIDE DEF m
<1>3. Min({x, y}) = m
  BY <1>1, <1>2 DEF Min
<1>. QED  BY <1>3 DEF m

\* An equal share is a number.
LEMMA TargetType ==
  ASSUME PlanAssumption, holding \in Holdings
  PROVE  /\ IsFiniteSet(Venues)
         /\ Amounts(holding) \in [Venues -> Nat]
         /\ Target(holding) \in Int
<1>1. /\ IsFiniteSet(Venues) /\ Venues # {}
      /\ holding \in [Venues -> [free : Nat, locked : Nat]]
  BY DEF PlanAssumption, Venues
<1>2. Amounts(holding) \in [Venues -> Nat]
  BY <1>1 DEF Amounts, Venues
<1>3. TotalOf(Amounts(holding)) \in Nat
  BY <1>1, <1>2, SumNat DEF TotalOf
<1>4. Cardinality(Venues) \in Nat /\ Cardinality(Venues) # 0
  BY <1>1, FS_CardinalityType, FS_EmptySet
<1>5. ASSUME NEW a \in Int, NEW n \in Nat, n # 0
      PROVE  (2 * a + n) \div (2 * n) \in Int
  <2>1. 2 * a + n \in Int /\ 2 * n \in Nat /\ 2 * n # 0
    BY <1>5
  <2>2. ASSUME NEW b \in Int, NEW m \in Nat, m # 0
        PROVE  b \div m \in Int
    BY <2>2
  <2>. QED  BY <2>1, <2>2
<1>6. Target(holding) \in Int
  BY <1>3, <1>4, <1>5 DEF Target, Venues
<1>. QED  BY <1>1, <1>2, <1>6

\* The entries of a list are the positive ones.
LEMMA MostFirstIs ==
  ASSUME NEW S, IsFiniteSet(S), NEW delta \in [S -> Int], NEW list \in MostFirst(delta)
  PROVE  list \in Seq(Within(S, delta))
<1> DEFINE P == {v \in S : delta[v] > 0}
           entry == [v \in P |-> [venue |-> v, amount |-> delta[v]]]
           entries == {[venue |-> v, amount |-> delta[v]] : v \in P}
           E == Within(S, delta)
<1>1. DOMAIN delta = S
  OBVIOUS
<1>2. IsFiniteSet(P)
  BY FS_Subset
<1>3. entry \in Surjection(P, entries)
  BY DEF Surjection
<1>4. IsFiniteSet(entries)
  <2> HIDE DEF entry, entries, P
  <2>. QED  BY <1>2, <1>3, FS_Surjection
<1>5. entries \subseteq E
  BY DEF Within
<1>6. list \in [1..Cardinality(entries) -> entries]
  BY <1>1 DEF MostFirst
<1>7. Cardinality(entries) \in Nat
  BY <1>4, FS_CardinalityType
<1> DEFINE n == Cardinality(entries)
<1> HIDE DEF entries, E, n
<1>8. list \in [1..n -> E] /\ n \in Nat
  BY <1>5, <1>6, <1>7 DEF n
<1>9. list \in Seq(E)
  BY <1>8, SeqDef
<1>. QED  BY <1>9 DEF E

LEMMA PlanBegins ==
  ASSUME PlanAssumption, PlanInv, Plan
  PROVE  PlanInv'
<1>1. /\ IsFiniteSet(Venues) /\ Amounts(holding) \in [Venues -> Nat] /\ Target(holding) \in Int
  BY TargetType DEF PlanInv
<1> DEFINE over == [v \in Venues |-> Excess(v)]
           under == [v \in Venues |-> -Excess(v)]
<1>2. over \in [Venues -> Int] /\ under \in [Venues -> Int]
  BY <1>1 DEF Excess
<1>3. /\ over = [v \in DOMAIN holding |-> Amounts(holding)[v] - Target(holding)]
      /\ under = [v \in DOMAIN holding |-> Target(holding) - Amounts(holding)[v]]
  <2>1. \A v \in Venues : -Excess(v) = Target(holding) - Amounts(holding)[v]
    BY <1>1 DEF Excess
  <2>. QED  BY <2>1 DEF Excess, Venues
<1>4. surpluses' \in MostFirst(over) /\ deficits' \in MostFirst(under)
  BY <1>3 DEF Plan
<1>5. Senders = Within(Venues, over) /\ Receivers = Within(Venues, under)
  BY DEF Senders, Receivers
<1> HIDE DEF over, under
<1>6. surpluses' \in Seq(Senders)
  BY <1>1, <1>2, <1>4, <1>5, MostFirstIs
<1>7. deficits' \in Seq(Receivers)
  BY <1>1, <1>2, <1>4, <1>5, MostFirstIs
<1>8. Senders' = Senders /\ Receivers' = Receivers
  BY DEF Plan, Senders, Receivers, Venues, Excess
<1>. QED  BY <1>6, <1>7, <1>8 DEF Plan, PlanInv

\* The amount of a lap.
LEMMA TrimmedIs ==
  ASSUME PlanAssumption, PlanInv, Matching
  PROVE  /\ Head(surpluses) \in Senders /\ Head(deficits) \in Receivers
         /\ Head(surpluses) = surpluses[1] /\ Head(deficits) = deficits[1]
         /\ Trimmed \in Int
         /\ Trimmed <= Head(surpluses).amount /\ Trimmed <= Head(deficits).amount
         /\ holding[Head(surpluses).venue].free \in Nat
         /\ holding[Head(surpluses).venue].free - Trimmed >= MinOperating
<1>1. surpluses \in Seq(Senders) /\ deficits \in Seq(Receivers)
  BY DEF PlanInv, Matching
<1>2. /\ Head(surpluses) \in Senders /\ Head(deficits) \in Receivers
      /\ Head(surpluses) = surpluses[1] /\ Head(deficits) = deficits[1]
  BY <1>1 DEF Matching
<1>3. /\ Head(surpluses).amount \in Int /\ Head(deficits).amount \in Int
      /\ Head(surpluses).venue \in Venues
  BY <1>2 DEF Senders, Receivers, Within
<1>4. holding[Head(surpluses).venue].free \in Nat /\ MinOperating \in Nat
  BY <1>3 DEF PlanAssumption, PlanInv, Venues
<1>5. Spare \in Int
  BY <1>4 DEF Spare
<1>6. /\ Wanted \in Int
      /\ Wanted <= Head(surpluses).amount /\ Wanted <= Head(deficits).amount
  BY <1>3, LesserIs DEF Wanted
<1>7. Trimmed \in Int /\ Trimmed <= Wanted /\ Trimmed <= Spare
  BY <1>5, <1>6, LesserIs DEF Trimmed
<1>8. holding[Head(surpluses).venue].free - Trimmed >= MinOperating
  BY <1>4, <1>7 DEF Spare
<1>. QED  BY <1>2, <1>3, <1>4, <1>6, <1>7, <1>8

\* Consuming keeps the entries, each with no more than before.
LEMMA ConsumedIs ==
  ASSUME NEW V, NEW most \in [V -> Int], NEW list \in Seq(Within(V, most)),
         list # <<>>, NEW a \in Nat \ {0}
  PROVE  /\ Consumed(list, a) \in Seq(Within(V, most))
         /\ \/ Len(Consumed(list, a)) < Len(list)
            \/ /\ Len(Consumed(list, a)) = Len(list)
               /\ list[1].amount \in Nat /\ Consumed(list, a)[1].amount \in Nat
               /\ Consumed(list, a)[1].amount < list[1].amount
<1>1. list[1] \in Within(V, most) /\ Len(list) \in Nat \ {0}
  OBVIOUS
<1>2. CASE list[1].amount <= a
  <2>1. Consumed(list, a) = Tail(list)
    BY <1>2 DEF Consumed
  <2>2. Tail(list) \in Seq(Within(V, most)) /\ Len(Tail(list)) < Len(list)
    BY <1>1
  <2>. QED  BY <2>1, <2>2
<1>3. CASE ~(list[1].amount <= a)
  <2> DEFINE e == [list[1] EXCEPT !.amount = list[1].amount - a]
             old == list[1].amount
             limit == most[list[1].venue]
  <2>1. Consumed(list, a) = [list EXCEPT ![1] = e]
    BY <1>3 DEF Consumed
  <2>2. /\ list[1] \in [venue : V, amount : Nat \ {0}]
        /\ old \in Nat /\ limit \in Int /\ old <= limit /\ ~(old <= a)
    BY <1>1, <1>3 DEF Within
  <2>3. e = [venue |-> list[1].venue, amount |-> old - a]
    BY <2>2
  <2>4. old - a \in Nat \ {0} /\ old - a < old /\ old - a <= limit
    <3> HIDE DEF old, limit
    <3>. QED  BY <2>2
  <2>5. e \in Within(V, most) /\ e.amount = old - a
    BY <2>2, <2>3, <2>4 DEF Within
  <2> HIDE DEF e
  <2>6. /\ [list EXCEPT ![1] = e] \in Seq(Within(V, most))
        /\ Len([list EXCEPT ![1] = e]) = Len(list)
        /\ [list EXCEPT ![1] = e][1] = e
    BY <1>1, <2>5
  <2>. QED  BY <2>1, <2>2, <2>4, <2>5, <2>6
<1>. QED  BY <1>2, <1>3

LEMMA TransferKeeps ==
  ASSUME PlanAssumption, PlanInv, Transfer
  PROVE  PlanInv' /\ LapShrinks
<1>1. Matching /\ ~TooSmall
  BY DEF Transfer
<1>2. /\ Head(surpluses) \in Senders /\ Head(deficits) \in Receivers
      /\ Trimmed \in Int
      /\ Trimmed <= Head(surpluses).amount /\ Trimmed <= Head(deficits).amount
      /\ holding[Head(surpluses).venue].free - Trimmed >= MinOperating
  BY <1>1, TrimmedIs
<1>3. MinWithdrawal \in Nat \ {0} /\ Trimmed >= MinWithdrawal /\ Trimmed \in Nat \ {0}
  BY <1>1, <1>2 DEF TooSmall, PlanAssumption
<1>4. Amounts(holding) \in [Venues -> Nat] /\ Target(holding) \in Int
  BY TargetType DEF PlanInv
<1> DEFINE over == [v \in Venues |-> Excess(v)]
           under == [v \in Venues |-> -Excess(v)]
<1>5. over \in [Venues -> Int] /\ under \in [Venues -> Int]
  BY <1>4 DEF Excess
<1>6. Senders = Within(Venues, over) /\ Receivers = Within(Venues, under)
  BY DEF Senders, Receivers
<1> HIDE DEF over, under
<1>7. surpluses \in Seq(Senders) /\ deficits \in Seq(Receivers)
      /\ surpluses # <<>> /\ deficits # <<>>
  BY <1>1 DEF PlanInv, Matching
<1>8. /\ Consumed(surpluses, Trimmed) \in Seq(Senders)
      /\ \/ Len(Consumed(surpluses, Trimmed)) < Len(surpluses)
         \/ /\ Len(Consumed(surpluses, Trimmed)) = Len(surpluses)
            /\ surpluses[1].amount \in Nat /\ Consumed(surpluses, Trimmed)[1].amount \in Nat
            /\ Consumed(surpluses, Trimmed)[1].amount < surpluses[1].amount
  BY <1>3, <1>5, <1>6, <1>7, ConsumedIs
<1>9. Consumed(deficits, Trimmed) \in Seq(Receivers)
  BY <1>3, <1>5, <1>6, <1>7, ConsumedIs
<1>10. LapShrinks
  BY <1>8 DEF LapShrinks, Transfer
<1>11. Senders' = Senders /\ Receivers' = Receivers
  BY DEF Transfer, Senders, Receivers, Venues, Excess
<1> DEFINE p == [from |-> Head(surpluses).venue, to |-> Head(deficits).venue, amount |-> Trimmed]
<1>12. KeepsRules(p)
  <2>1. /\ Excess(Head(surpluses).venue) \in Int /\ Excess(Head(deficits).venue) \in Int
        /\ Head(surpluses).amount \in Int /\ Head(deficits).amount \in Int
    BY <1>2, <1>4 DEF Senders, Receivers, Within, Excess
  <2>2. /\ Head(surpluses).amount <= Excess(Head(surpluses).venue)
        /\ Head(deficits).amount <= -Excess(Head(deficits).venue)
    BY <1>2 DEF Senders, Receivers, Within
  <2>. QED  BY <1>2, <1>3, <2>1, <2>2 DEF KeepsRules
<1>13. plans' = plans \cup {p} /\ \A q \in plans : KeepsRules(q)
  BY <1>1 DEF Transfer, PlanInv, Matching
<1>14. \A q \in plans' : KeepsRules(q)
  <2> HIDE DEF p
  <2>. QED  BY <1>12, <1>13
<1>15. holding' = holding /\ pc' = pc /\ \A q : KeepsRules(q)' <=> KeepsRules(q)
  BY DEF Transfer, KeepsRules, Excess
<1>. QED  BY <1>8, <1>9, <1>10, <1>11, <1>14, <1>15 DEF PlanInv, Transfer

LEMMA PassKeeps ==
  ASSUME PlanAssumption, PlanInv, PassSender
  PROVE  PlanInv' /\ LapShrinks
<1>1. surpluses \in Seq(Senders) /\ surpluses # <<>>
  BY DEF PassSender, Matching, PlanInv
<1>2. Tail(surpluses) \in Seq(Senders) /\ Len(Tail(surpluses)) < Len(surpluses)
  BY <1>1
<1>3. Senders' = Senders /\ Receivers' = Receivers
  BY DEF PassSender, Senders, Receivers, Venues, Excess
<1>4. holding' = holding /\ \A q : KeepsRules(q)' <=> KeepsRules(q)
  BY DEF PassSender, KeepsRules, Excess
<1>. QED  BY <1>2, <1>3, <1>4 DEF PlanInv, LapShrinks, PassSender

LEMMA PlanInvInductive ==
  ASSUME PlanAssumption
  PROVE  /\ PlanInit => PlanInv
         /\ PlanInv /\ [PlanNext]_planVars => PlanInv'
         /\ PlanInv /\ [PlanNext]_planVars => [LapShrinks]_planVars
<1>1. PlanInit => PlanInv
  BY DEF PlanInit, PlanInv
<1>2. ASSUME PlanInv, [PlanNext]_planVars
      PROVE  PlanInv' /\ [LapShrinks]_planVars
  <2>1. CASE Plan
    <3>1. pc = "idle"
      BY <2>1 DEF Plan
    <3>. QED  BY <1>2, <2>1, <3>1, PlanBegins DEF LapShrinks
  <2>2. CASE PassSender
    BY <1>2, <2>2, PassKeeps
  <2>3. CASE Transfer
    BY <1>2, <2>3, TransferKeeps
  <2>4. CASE Return
    BY <1>2, <2>4 DEF Return, PlanInv, LapShrinks
  <2>5. CASE BalancesChange
    BY <1>2, <2>5 DEF BalancesChange, PlanInv, LapShrinks
  <2>6. CASE UNCHANGED planVars
    <3>1. /\ Senders' = Senders /\ Receivers' = Receivers
          /\ \A q : KeepsRules(q)' <=> KeepsRules(q)
      BY <2>6 DEF planVars, Senders, Receivers, Venues, Excess, KeepsRules
    <3>. QED  BY <1>2, <2>6, <3>1 DEF planVars, PlanInv
  <2>. QED  BY <1>2, <2>1, <2>2, <2>3, <2>4, <2>5, <2>6 DEF PlanNext
<1>. QED  BY <1>1, <1>2

\* Every transfer the planner proposes keeps its rules, for any number of venues
\* and whatever is locked (49-119 of rebalancer.service.ts).
THEOREM PlansAreValid == PlanAssumption /\ PlanSpec => []PlansKeepRules
<1> SUFFICES ASSUME PlanAssumption
             PROVE  PlanSpec => []PlansKeepRules
  OBVIOUS
<1>1. PlanInit => PlanInv
  BY PlanInvInductive
<1>2. PlanInv /\ [PlanNext]_planVars => PlanInv'
  BY PlanInvInductive
<1>3. PlanInv => PlansKeepRules
  BY DEF PlanInv, PlansKeepRules
<1>. QED  BY <1>1, <1>2, <1>3, PTL DEF PlanSpec

\* No lap of the loop repeats the one before: planning cannot go on for ever for
\* an asset that has an entry in withdrawalFees (85-119 of rebalancer.service.ts).
THEOREM LapsShrink == PlanAssumption /\ PlanSpec => [][LapShrinks]_planVars
<1> SUFFICES ASSUME PlanAssumption
             PROVE  PlanSpec => [][LapShrinks]_planVars
  OBVIOUS
<1>1. PlanInit => PlanInv
  BY PlanInvInductive
<1>2. PlanInv /\ [PlanNext]_planVars => PlanInv'
  BY PlanInvInductive
<1>3. PlanInv /\ [PlanNext]_planVars => [LapShrinks]_planVars
  BY PlanInvInductive
<1>. QED  BY <1>1, <1>2, <1>3, PTL DEF PlanSpec
=============================================================================
