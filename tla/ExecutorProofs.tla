--------------------------- MODULE ExecutorProofs ---------------------------
(***************************************************************************)
(* Proofs about Executor: typing, the bound on the exposure of an          *)
(* execution, the accounts of a done one, and that Executor implements     *)
(* Arbitrage: every step of the executor, its timers and its venues is a   *)
(* step of the abstract trades, or none.  For any sizes, step, fill ratio  *)
(* and swap error, any number of executions, and legs that settle whenever *)
(* they like.                                                              *)
(***************************************************************************)
EXTENDS Executor, RecoveryProofs, SumTheorems

\* A leg was called at this venue, on this side, for this size.
CalledAs(leg, venue, side, size) ==
  /\ leg.phase # "none"
  /\ leg.venue = venue
  /\ leg.side = side
  /\ leg.size = size

\* A fill comes from a venue and is what the venue can make of the order.
FillOK(leg) ==
  /\ leg.filled # 0 => leg.phase = "settled"
  /\ leg.venue = "cex" => leg.filled <= leg.size
  /\ leg.venue = "dex" /\ leg.side = "sell" => leg.filled \in {0, leg.size}
  /\ leg.venue = "dex" /\ leg.side = "buy" /\ leg.filled # 0 =>
       leg.size - MaxSlip <= leg.filled /\ leg.filled <= leg.size + MaxSlip

\* Nothing is sent in simulation mode.
Simulated(leg) == config.simulationMode => leg.phase \notin {"live", "settled"}

LegsInv(e) == \A k \in LegNames : FillOK(legs[e][k]) /\ Simulated(legs[e][k])

\* The context of an execution says which of its legs have been called.
IdleInv(e) ==
  ctx[e].state = "IDLE" =>
    legs[e]["leg1"] = NoLeg /\ legs[e]["leg2"] = NoLeg /\ legs[e]["unwind"] = NoLeg

Leg1Inv(e) ==
  ctx[e].state # "IDLE" =>
    /\ ctx[e].direction \in Directions
    /\ ctx[e].signal \in Signals
    /\ ctx[e].size \in Sizes
    /\ CalledAs(legs[e]["leg1"], Leg1Venue, SideAt(Leg1Venue, ctx[e].direction), ctx[e].size)

Leg2Inv(e) ==
  /\ ctx[e].state = "LEG1_PENDING" => legs[e]["leg2"] = NoLeg
  /\ ctx[e].state \in {"LEG2_PENDING", "UNWINDING", "DONE"} => legs[e]["leg2"] # NoLeg
  /\ legs[e]["leg2"] # NoLeg =>
       /\ ctx[e].state \in {"LEG2_PENDING", "UNWINDING", "DONE", "FAILED"}
       /\ CalledAs(legs[e]["leg2"], Leg2Venue, SideAt(Leg2Venue, ctx[e].direction),
                   ctx[e].leg1FillSize)
       /\ ctx[e].leg1FillSize = Reported(legs[e]["leg1"])
       /\ ~config.simulationMode =>
            legs[e]["leg1"].phase = "settled" /\ legs[e]["leg1"].filled > 0

UnwindInv(e) ==
  /\ ctx[e].state = "UNWINDING" => legs[e]["unwind"] # NoLeg
  /\ legs[e]["unwind"] # NoLeg =>
       /\ ctx[e].state \in {"UNWINDING", "FAILED"}
       /\ legs[e]["leg2"] # NoLeg
       /\ CalledAs(legs[e]["unwind"], Leg1Venue,
                   Opposite(SideAt(Leg1Venue, ctx[e].direction)), ctx[e].leg1FillSize)

DoneInv(e) ==
  ctx[e].state = "DONE" /\ ~config.simulationMode =>
    /\ legs[e]["leg2"].phase = "settled"
    /\ legs[e]["leg2"].filled > 0
    /\ ctx[e].leg2FillSize = Reported(legs[e]["leg2"])

\* Executions start one after the other; only the last can be pending.
OrderInv(e) ==
  /\ ctx[e].state = "IDLE" <=> e > started
  /\ ctx[e].state \in Pending => e = started

ExecInv(e) ==
  /\ LegsInv(e) /\ IdleInv(e) /\ Leg1Inv(e) /\ Leg2Inv(e)
  /\ UnwindInv(e) /\ DoneInv(e) /\ OrderInv(e)

IInv == TypeOK /\ \A e \in Executions : ExecInv(e)

-----------------------------------------------------------------------------
(* Amounts *)

\* roundQuantity rounds down to an amount that is no order of its own.
LEMMA RoundedDown ==
  ASSUME NEW size \in Nat
  PROVE  RoundQuantity(size) \in Nat /\ RoundQuantity(size) <= size
<1> DEFINE q == size \div StepSize
           r == size % StepSize
<1>1. StepSize \in Nat /\ StepSize > 0
  BY ExecutorAssumption
<1>2. q \in Nat /\ r \in 0..(StepSize - 1) /\ size = StepSize * q + r
  BY <1>1
<1>3. StepSize * q \in Nat /\ q * StepSize = StepSize * q
  BY <1>1, <1>2
<1> QED
  BY <1>2, <1>3 DEF RoundQuantity

\* What a venue can make of a leg's order.
LEMMA FillBounds ==
  ASSUME NEW leg \in Leg, NEW f \in Fills(leg)
  PROVE  /\ f \in Nat
         /\ leg.venue = "cex" => f <= leg.size
         /\ leg.venue = "dex" /\ leg.side = "sell" => f \in {0, leg.size}
         /\ leg.venue = "dex" /\ leg.side = "buy" /\ f # 0 =>
              leg.size - MaxSlip <= f /\ f <= leg.size + MaxSlip
<1> DEFINE order == OrderSize(leg.venue, leg.size)
<1>1. leg.size \in Nat /\ MaxSlip \in Nat
  BY ExecutorAssumption DEF Leg
<1>2. order \in Nat /\ order <= leg.size
  BY <1>1, RoundedDown DEF OrderSize
<1>3. leg.venue # "cex" => order = leg.size
  BY DEF OrderSize
<1> HIDE DEF order
<1>4. CASE leg.venue = "cex"
  BY <1>1, <1>2, <1>4 DEF Fills, order
<1>5. CASE leg.venue # "cex" /\ leg.side = "sell"
  BY <1>1, <1>2, <1>3, <1>5 DEF Fills, order
<1>6. CASE leg.venue # "cex" /\ leg.side # "sell"
  <2>1. f \in {0} \cup {g \in (order - MaxSlip)..(order + MaxSlip) : g >= 0}
    BY <1>6 DEF Fills, order
  <2> QED
    BY <1>1, <1>2, <1>3, <1>6, <2>1
<1> QED
  BY <1>4, <1>5, <1>6

\* What a leg reports is an amount.
LEMMA ReportedType ==
  ASSUME NEW leg \in Leg
  PROVE  Reported(leg) \in Nat
BY DEF Reported, Leg

-----------------------------------------------------------------------------
(* Typing *)

LegsType == [Executions -> [LegNames -> Leg]]

\* A call is a leg; so is one that has been closed off.
LEMMA CalledType ==
  ASSUME NEW venue \in Venues, NEW side \in {"buy", "sell"}, NEW size \in Nat
  PROVE  Called(venue, side, size) \in Leg
BY DEF Called, Leg, Phases

LEMMA SideType ==
  ASSUME NEW venue, NEW direction
  PROVE  /\ SideAt(venue, direction) \in {"buy", "sell"}
         /\ Opposite(SideAt(venue, direction)) \in {"buy", "sell"}
         /\ Leg1Venue \in Venues
         /\ Leg2Venue \in Venues
BY DEF SideAt, Opposite, Leg1Venue, Leg2Venue, Venues

LEMMA EndedType ==
  ASSUME TypeOK, NEW e \in Executions, NEW k \in LegNames
  PROVE  Ended(e, k) \in LegsType
<1>1. legs[e][k] \in Leg
  BY DEF TypeOK
<1>2. [legs[e][k] EXCEPT !.phase = "unsent"] \in Leg
  BY <1>1 DEF Leg, Phases
<1> QED
  BY <1>1, <1>2 DEF Ended, TypeOK, LegsType

\* The end of an execution keeps the types of what it writes.
LEMMA FinishType ==
  ASSUME TypeOK, NEW e \in Executions, NEW failed \in BOOLEAN, Finish(e, failed)
  PROVE  RecoveryTypeOK' /\ config' \in Modes /\ started' \in 0..MaxExecutions
<1>1. e \in Nat
  BY ExecutorAssumption DEF Executions
<1>2. /\ now' \in Nat
      /\ executed' \in [Signals -> Nat \cup {None}]
      /\ config' \in Modes
      /\ started' \in 0..MaxExecutions
  BY DEF Finish, MarkExecuted, TypeOK, RecoveryTypeOK
<1>3. CASE failed
  BY <1>1, <1>2, <1>3, RecordFailureType DEF Finish, TypeOK, RecoveryTypeOK
<1>4. CASE ~failed
  BY <1>2, <1>4 DEF Finish, TypeOK, RecoveryTypeOK, breakerVars
<1> QED
  BY <1>3, <1>4

\* A context whose state alone changes is a context still.
LEMMA StateType ==
  ASSUME TypeOK, NEW e \in Executions, NEW x \in States, ctx' = [ctx EXCEPT ![e].state = x]
  PROVE  ctx' \in [Executions -> Context]
<1>1. ctx \in [Executions -> Context] /\ ctx[e] \in Context
  BY DEF TypeOK
<1>2. [ctx[e] EXCEPT !.state = x] \in Context
  BY <1>1 DEF Context
<1> QED
  BY <1>1, <1>2

\* The end of an execution as FAILED keeps every type but that of legs.
LEMMA FailType ==
  ASSUME TypeOK, NEW e \in Executions, Fail(e), legs' \in LegsType
  PROVE  TypeOK'
<1>1. RecoveryTypeOK' /\ config' \in Modes /\ started' \in 0..MaxExecutions
  BY FinishType DEF Fail
<1>2. ctx' \in [Executions -> Context]
  BY StateType DEF Fail, States
<1>3. inventory' \in [Venues -> Int]
  BY DEF Fail, TypeOK
<1> QED
  BY <1>1, <1>2, <1>3 DEF TypeOK, LegsType

\* The start of an unwind keeps the types.
LEMMA UnwindType ==
  ASSUME TypeOK, NEW e \in Executions, NEW before \in LegsType, UnwindAfter(e, before)
  PROVE  TypeOK'
<1>1. ctx' \in [Executions -> Context]
  BY StateType DEF UnwindAfter, States, Pending
<1>2. ctx[e].leg1FillSize \in Nat
  BY DEF TypeOK, Context
<1>3. Called(Leg1Venue, Opposite(SideAt(Leg1Venue, ctx[e].direction)), ctx[e].leg1FillSize) \in Leg
  BY <1>2, SideType, CalledType
<1>4. legs' \in LegsType
  BY <1>3 DEF UnwindAfter, LegsType, LegNames
<1> QED
  BY <1>1, <1>4 DEF UnwindAfter, TypeOK, RecoveryTypeOK, LegsType, recoveryVars, historyVars

\* An execution that starts takes the next number.
LEMMA ExecuteFrame ==
  ASSUME TypeOK, NEW s \in Signals, NEW d \in Directions, NEW z \in Sizes, Execute(s, d, z)
  PROVE  /\ started + 1 \in Executions
         /\ started' = started + 1
         /\ started' \in 0..MaxExecutions
         /\ config' = config
         /\ z \in Nat
<1>1. started \in Nat /\ MaxExecutions \in Nat
  BY ExecutorAssumption DEF TypeOK
<1>2. started < MaxExecutions
  BY DEF Execute
<1>3. started' = started + 1 /\ config' = config
  BY DEF Execute
<1>4. z \in Nat
  BY ExecutorAssumption
<1> QED
  BY <1>1, <1>2, <1>3, <1>4 DEF Executions

\* The executor's variables keep their types (engine.service.ts 88-252).
THEOREM TypeCorrect == Spec => []TypeOK
<1>1. Init => TypeOK
  BY FS_EmptySet, RecoveryAssumption, ExecutorAssumption
     DEF Init, RecoveryInit, TypeOK, RecoveryTypeOK, Context, IdleContext, States, Leg,
         NoLeg, Phases
<1>2. TypeOK /\ [Next]_vars => TypeOK'
  <2> SUFFICES ASSUME TypeOK, [Next]_vars
               PROVE  TypeOK'
    OBVIOUS
  <2>l. legs \in LegsType
    BY DEF TypeOK, LegsType
  <2>r. Remembered \in [Signals -> Nat \cup {None}]
    BY RememberedType DEF TypeOK, RecoveryTypeOK
  <2>c. ASSUME IsOpenAnswersFalse
        PROVE  /\ trippedAt' \in Nat \cup {None}
               /\ failures' \in SUBSET Failure
               /\ IsFiniteSet(failures')
    BY <2>c, IsOpenType DEF TypeOK
  <2>1. CASE Refuse
    BY <2>1, <2>r, <2>c DEF Refuse, TypeOK, RecoveryTypeOK
  <2>2. CASE PollBreaker
    BY <2>2, <2>c DEF PollBreaker, TypeOK, RecoveryTypeOK
  <2>3. ASSUME NEW s \in Signals, NEW d \in Directions, NEW z \in Sizes, Execute(s, d, z)
        PROVE  TypeOK'
    <3> DEFINE e == started + 1
               new == [IdleContext EXCEPT !.state = "LEG1_PENDING", !.signal = s,
                         !.direction = d, !.size = z, !.startedAt = now]
    <3>1. e \in Executions /\ started' \in 0..MaxExecutions /\ z \in Nat
      BY <2>3, ExecuteFrame
    <3>2. new \in Context
      BY <3>1 DEF IdleContext, Context, States, Pending, TypeOK, RecoveryTypeOK
    <3>3. ctx' \in [Executions -> Context]
      BY <2>3, <3>2 DEF Execute, TypeOK
    <3>4. Called(Leg1Venue, SideAt(Leg1Venue, d), z) \in Leg
      BY <3>1, SideType, CalledType
    <3>5. legs' \in LegsType
      BY <2>3, <2>l, <3>4 DEF Execute, LegsType
    <3> QED
      BY <2>3, <2>r, <2>c, <3>1, <3>3, <3>5 DEF Execute, TypeOK, RecoveryTypeOK, LegsType
  <2>4. ASSUME NEW e \in Executions, NEW k \in LegNames, Send(e, k)
        PROVE  TypeOK'
    <3>0. legs[e][k] \in Leg
      BY <2>l DEF LegsType
    <3>1. [legs[e][k] EXCEPT !.phase = "live"] \in Leg
      BY <3>0 DEF Leg, Phases
    <3>2. legs' \in LegsType
      BY <2>4, <2>l, <3>1 DEF Send, LegsType
    <3> QED
      BY <2>4, <3>2 DEF Send, TypeOK, RecoveryTypeOK, LegsType, recoveryVars, historyVars
  <2>5. ASSUME NEW e \in Executions, NEW k \in LegNames, Settle(e, k)
        PROVE  TypeOK'
    <3>1. PICK f \in Fills(legs[e][k]) :
            legs' = [legs EXCEPT ![e][k] = [@ EXCEPT !.phase = "settled", !.filled = f]]
      BY <2>5 DEF Settle
    <3>2. legs[e][k] \in Leg /\ f \in Nat
      BY <2>l, FillBounds DEF LegsType
    <3>3. [legs[e][k] EXCEPT !.phase = "settled", !.filled = f] \in Leg
      BY <3>2 DEF Leg, Phases
    <3>4. legs' \in LegsType
      BY <2>l, <3>1, <3>3 DEF LegsType
    <3> QED
      BY <2>5, <3>4 DEF Settle, TypeOK, RecoveryTypeOK, LegsType, recoveryVars, historyVars
  <2>6. ASSUME NEW e \in Executions, ExecutorStep(e)
        PROVE  TypeOK'
    <3>l1. Ended(e, "leg1") \in LegsType /\ Ended(e, "leg2") \in LegsType
             /\ Ended(e, "unwind") \in LegsType
      BY EndedType DEF LegNames
    <3>1. CASE Leg1Fails(e)
      BY <3>1, <3>l1, FailType DEF Leg1Fails
    <3>2. CASE Leg1TimesOut(e)
      BY <3>2, <2>l, FailType DEF Leg1TimesOut
    <3>3. CASE Leg1TooSmall(e)
      BY <3>3, <3>l1, FailType DEF Leg1TooSmall
    <3>4. CASE Leg1Succeeds(e)
      <4> DEFINE size == Reported(legs[e]["leg1"])
      <4>1. size \in Nat
        BY <2>l, ReportedType DEF LegsType, LegNames
      <4> HIDE DEF size
      <4> DEFINE new == [ctx[e] EXCEPT !.state = "LEG2_PENDING", !.leg1FillSize = size]
      <4>c. ctx[e] \in Context
        BY DEF TypeOK
      <4>n. new \in Context
        BY <4>c, <4>1 DEF Context, States, Pending
      <4>2. ctx' \in [Executions -> Context]
        BY <3>4, <4>n DEF Leg1Succeeds, size, TypeOK
      <4>3. Called(Leg2Venue, SideAt(Leg2Venue, ctx[e].direction), size) \in Leg
        BY <4>1, SideType, CalledType
      <4>4. legs' \in LegsType
        BY <3>4, <3>l1, <4>3 DEF Leg1Succeeds, size, LegsType, LegNames
      <4> QED
        BY <3>4, <4>2, <4>4
           DEF Leg1Succeeds, TypeOK, RecoveryTypeOK, LegsType, recoveryVars, historyVars
    <3>5. CASE Leg2Succeeds(e)
      <4> DEFINE size == Reported(legs[e]["leg2"])
      <4>1. size \in Nat
        BY <2>l, ReportedType DEF LegsType, LegNames
      <4> HIDE DEF size
      <4> DEFINE new == [ctx[e] EXCEPT !.state = "DONE", !.leg2FillSize = size]
      <4>c. ctx[e] \in Context
        BY DEF TypeOK
      <4>n. new \in Context
        BY <4>c, <4>1 DEF Context, States
      <4>2. ctx' \in [Executions -> Context]
        BY <3>5, <4>n DEF Leg2Succeeds, size, TypeOK
      <4>3. \A v \in Venues :
               Signed(v, ctx[e].direction,
                      IF v = Leg1Venue THEN ctx[e].leg1FillSize ELSE size) \in Int
        BY <4>c, <4>1 DEF Signed, Context
      <4>4. inventory' \in [Venues -> Int]
        BY <3>5, <4>3 DEF Leg2Succeeds, size, RecordTrades, TypeOK
      <4>5. legs' \in LegsType
        BY <3>5, <3>l1 DEF Leg2Succeeds
      <4>6. RecoveryTypeOK' /\ config' \in Modes /\ started' \in 0..MaxExecutions
        BY <3>5, FinishType DEF Leg2Succeeds
      <4> QED
        BY <4>2, <4>4, <4>5, <4>6 DEF TypeOK, LegsType
    <3>6. CASE Leg2Fails(e)
      BY <3>6, <3>l1, UnwindType DEF Leg2Fails
    <3>7. CASE Leg2TimesOut(e)
      BY <3>7, <2>l, UnwindType DEF Leg2TimesOut
    <3>8. CASE UnwindEnds(e)
      BY <3>8, <3>l1, FailType DEF UnwindEnds
    <3> QED
      BY <2>6, <3>1, <3>2, <3>3, <3>4, <3>5, <3>6, <3>7, <3>8 DEF ExecutorStep
  <2>7. CASE Tick
    BY <2>7 DEF Tick, TypeOK, RecoveryTypeOK, breakerVars, historyVars
  <2>8. CASE UNCHANGED vars
    BY <2>8 DEF vars, TypeOK, RecoveryTypeOK
  <2> QED
    BY <2>1, <2>2, <2>3, <2>4, <2>5, <2>6, <2>7, <2>8 DEF Next
<1> QED
  BY <1>1, <1>2, PTL DEF Spec

-----------------------------------------------------------------------------
(* What a step does to the execution it is about, and to the others *)

SameOthers(e) ==
  /\ config' = config
  /\ started' = started
  /\ \A f \in Executions : f # e => ctx'[f] = ctx[f] /\ legs'[f] = legs[f]

\* The request of a leg never changes; its phase and its fill do.
SameRequest(new, old) ==
  /\ new.venue = old.venue
  /\ new.side = old.side
  /\ new.size = old.size

\* Only the state of a context changes.
OnlyState(e, state) ==
  /\ ctx'[e].state = state
  /\ ctx'[e].signal = ctx[e].signal
  /\ ctx'[e].direction = ctx[e].direction
  /\ ctx'[e].size = ctx[e].size
  /\ ctx'[e].leg1FillSize = ctx[e].leg1FillSize
  /\ ctx'[e].leg2FillSize = ctx[e].leg2FillSize

\* An execution nothing happens to keeps its invariant.
LEMMA Untouched ==
  ASSUME NEW e \in Executions, ExecInv(e), config' = config, started' = started,
         ctx'[e] = ctx[e], legs'[e] = legs[e]
  PROVE  ExecInv(e)'
BY DEF ExecInv, LegsInv, IdleInv, Leg1Inv, Leg2Inv, UnwindInv, DoneInv, OrderInv, FillOK,
       Simulated, CalledAs, SideAt, Opposite, Leg1Venue, Leg2Venue, Reported

\* A step of one execution is judged by that execution alone.
LEMMA OneExecution ==
  ASSUME \A f \in Executions : ExecInv(f), NEW e \in Executions, SameOthers(e), ExecInv(e)'
  PROVE  (\A f \in Executions : ExecInv(f))'
<1> SUFFICES ASSUME NEW f \in Executions
             PROVE  ExecInv(f)'
  OBVIOUS
<1>1. CASE f = e
  BY <1>1
<1>2. CASE f # e
  BY <1>2, Untouched DEF SameOthers
<1> QED
  BY <1>1, <1>2

\* Closing off a call changes at most its phase, from calling to unsent.
LEMMA EndedLegs ==
  ASSUME TypeOK, NEW e \in Executions, NEW k \in LegNames
  PROVE  /\ \A f \in Executions : f # e => Ended(e, k)[f] = legs[f]
         /\ \A j \in LegNames : j # k => Ended(e, k)[e][j] = legs[e][j]
         /\ SameRequest(Ended(e, k)[e][k], legs[e][k])
         /\ Ended(e, k)[e][k].filled = legs[e][k].filled
         /\ Ended(e, k)[e][k].phase =
              IF legs[e][k].phase = "calling" THEN "unsent" ELSE legs[e][k].phase
<1>1. legs[e][k] \in Leg
  BY DEF TypeOK
<1> QED
  BY <1>1 DEF Ended, TypeOK, SameRequest, Leg

LEMMA FailFrame ==
  ASSUME TypeOK, NEW e \in Executions, Fail(e)
  PROVE  /\ config' = config
         /\ started' = started
         /\ \A f \in Executions : f # e => ctx'[f] = ctx[f]
         /\ OnlyState(e, "FAILED")
<1>1. ctx[e] \in Context
  BY DEF TypeOK
<1> QED
  BY <1>1 DEF Fail, Finish, TypeOK, Context, OnlyState

\* An unwind is called for what leg 1 filled, beside legs it leaves alone.
LEMMA UnwindFrame ==
  ASSUME TypeOK, NEW e \in Executions, NEW before \in LegsType, UnwindAfter(e, before)
  PROVE  /\ config' = config
         /\ started' = started
         /\ \A f \in Executions : f # e => ctx'[f] = ctx[f] /\ legs'[f] = before[f]
         /\ OnlyState(e, "UNWINDING")
         /\ legs'[e]["leg1"] = before[e]["leg1"]
         /\ legs'[e]["leg2"] = before[e]["leg2"]
         /\ legs'[e]["unwind"] =
              Called(Leg1Venue, Opposite(SideAt(Leg1Venue, ctx[e].direction)),
                     ctx[e].leg1FillSize)
<1>1. ctx[e] \in Context
  BY DEF TypeOK
<1>2. {"leg1", "leg2", "unwind"} = LegNames
  BY DEF LegNames
<1> QED
  BY <1>1, <1>2 DEF UnwindAfter, TypeOK, Context, OnlyState, LegsType

-----------------------------------------------------------------------------
(* The steps of an execution that call, settle and end its legs *)

LEMMA ExecuteKeeps ==
  ASSUME IInv, NEW s \in Signals, NEW d \in Directions, NEW z \in Sizes, Execute(s, d, z),
         NEW e \in Nat, e = started + 1
  PROVE  (\A f \in Executions : ExecInv(f))'
<1>1. /\ e \in Executions
      /\ started' = e
      /\ config' = config
      /\ \A f \in Executions : f # e => ctx'[f] = ctx[f] /\ legs'[f] = legs[f]
      /\ \A f \in Executions : ctx[f].state \notin Pending
      /\ z \in Nat
  <2>1. e \in Executions /\ started' = e /\ config' = config /\ z \in Nat
    BY ExecuteFrame DEF IInv
  <2>2. ctx \in [Executions -> Context] /\ legs \in [Executions -> [LegNames -> Leg]]
    BY DEF IInv, TypeOK
  <2>3. \A f \in Executions : f # e => ctx'[f] = ctx[f] /\ legs'[f] = legs[f]
    BY <2>1, <2>2 DEF Execute
  <2> QED
    BY <2>1, <2>3 DEF Execute, Idle
<1>2. /\ ctx'[e].state = "LEG1_PENDING"
      /\ ctx'[e].signal = s
      /\ ctx'[e].direction = d
      /\ ctx'[e].size = z
      /\ legs'[e]["leg1"] = Called(Leg1Venue, SideAt(Leg1Venue, d), z)
      /\ legs'[e]["leg2"] = legs[e]["leg2"]
      /\ legs'[e]["unwind"] = legs[e]["unwind"]
  BY <1>1 DEF Execute, IInv, TypeOK, IdleContext, LegNames
<1>3. /\ legs[e]["leg2"] = NoLeg
      /\ legs[e]["unwind"] = NoLeg
  BY <1>1, ExecutorAssumption
     DEF IInv, ExecInv, OrderInv, IdleInv, Executions, TypeOK
<1>4. ExecInv(e)'
  <2>1. LegsInv(e)'
    BY <1>1, <1>2, <1>3 DEF LegsInv, LegNames, FillOK, Simulated, Called, NoLeg
  <2>2. Leg1Inv(e)'
    BY <1>1, <1>2
       DEF Leg1Inv, CalledAs, Called, Leg1Venue, SideAt
  <2>3. IdleInv(e)' /\ Leg2Inv(e)' /\ UnwindInv(e)' /\ DoneInv(e)'
    BY <1>2, <1>3 DEF IdleInv, Leg2Inv, UnwindInv, DoneInv
  <2>4. OrderInv(e)'
    BY <1>1, <1>2, ExecutorAssumption DEF OrderInv, IInv, TypeOK
  <2> QED
    BY <2>1, <2>2, <2>3, <2>4 DEF ExecInv
<1>5. ASSUME NEW f \in Executions, f # e
      PROVE  ExecInv(f)'
  <2>1. ctx'[f] = ctx[f] /\ legs'[f] = legs[f] /\ ExecInv(f)
    BY <1>1, <1>5 DEF IInv
  <2>2. /\ LegsInv(f)' /\ IdleInv(f)' /\ Leg1Inv(f)' /\ Leg2Inv(f)'
        /\ UnwindInv(f)' /\ DoneInv(f)'
    BY <1>1, <2>1
       DEF ExecInv, LegsInv, IdleInv, Leg1Inv, Leg2Inv, UnwindInv, DoneInv, FillOK, Simulated,
           CalledAs, SideAt, Opposite, Leg1Venue, Leg2Venue, Reported
  <2>3. OrderInv(f)'
    BY <1>1, <1>5, <2>1, ExecutorAssumption
       DEF ExecInv, OrderInv, Executions, IInv, TypeOK
  <2> QED
    BY <2>2, <2>3 DEF ExecInv
<1> QED
  BY <1>1, <1>4, <1>5

\* A call that is sent or settles: only its phase and its fill change, it is
\* not one of NoLeg, and the execution is not in simulation mode.
LEMMA VenueKeeps ==
  ASSUME IInv, NEW e \in Executions, NEW k \in LegNames, Send(e, k) \/ Settle(e, k)
  PROVE  (\A f \in Executions : ExecInv(f))'
<1> DEFINE old == legs[e][k]
<1>t. TypeOK /\ ExecInv(e) /\ old \in Leg
  BY DEF IInv, TypeOK
<1>1. /\ ctx' = ctx /\ config' = config /\ started' = started
      /\ \A f \in Executions : f # e => legs'[f] = legs[f]
      /\ \A j \in LegNames : j # k => legs'[e][j] = legs[e][j]
      /\ SameRequest(legs'[e][k], old)
      /\ old.phase \in {"calling", "live"}
      /\ legs'[e][k].phase \in {"live", "settled"}
      /\ legs'[e][k].phase = "live" => legs'[e][k].filled = old.filled
      /\ ~config.simulationMode
  <2>1. CASE Send(e, k)
    BY <2>1, <1>t DEF Send, historyVars, recoveryVars, TypeOK, SameRequest, Leg
  <2>2. CASE Settle(e, k)
    <3>1. PICK f \in Fills(old) :
            legs' = [legs EXCEPT ![e][k] = [@ EXCEPT !.phase = "settled", !.filled = f]]
      BY <2>2 DEF Settle
    <3>2. old.phase = "live" /\ Simulated(old)
      BY <2>2, <1>t DEF Settle, ExecInv, LegsInv
    <3> QED
      BY <2>2, <3>1, <3>2, <1>t
         DEF Settle, historyVars, recoveryVars, TypeOK, SameRequest, Leg, Simulated
  <2> QED
    BY <2>1, <2>2
<1>2. FillOK(legs[e][k])'
  <2>1. CASE Send(e, k)
    <3>1. old.phase = "calling" /\ FillOK(old)
      BY <2>1, <1>t DEF Send, ExecInv, LegsInv
    <3>2. old.filled = 0 /\ legs'[e][k].filled = 0 /\ old.size \in Nat
      BY <2>1, <3>1, <1>t DEF Send, FillOK, TypeOK, Leg
    <3> QED
      BY <1>1, <3>2 DEF FillOK, SameRequest
  <2>2. CASE Settle(e, k)
    <3>1. PICK f \in Fills(old) :
            legs' = [legs EXCEPT ![e][k] = [@ EXCEPT !.phase = "settled", !.filled = f]]
      BY <2>2 DEF Settle
    <3>2. legs'[e][k].phase = "settled" /\ legs'[e][k].filled = f
      BY <3>1, <1>t DEF TypeOK, Leg
    <3> QED
      BY <1>1, <1>t, <3>2, FillBounds DEF FillOK, SameRequest
  <2> QED
    BY <2>1, <2>2
<1> HIDE DEF old
<1>3. LegsInv(e)'
  <2> SUFFICES ASSUME NEW j \in LegNames
               PROVE  FillOK(legs[e][j])' /\ Simulated(legs[e][j])'
    BY DEF LegsInv
  <2>1. CASE j = k
    BY <2>1, <1>1, <1>2 DEF Simulated
  <2>2. CASE j # k
    <3>1. FillOK(legs[e][j]) /\ Simulated(legs[e][j]) /\ legs'[e][j] = legs[e][j]
      BY <2>2, <1>1, <1>t DEF ExecInv, LegsInv
    <3> QED
      BY <3>1, <1>1 DEF FillOK, Simulated
  <2> QED
    BY <2>1, <2>2
<1>4. ASSUME NEW j \in LegNames
      PROVE  /\ SameRequest(legs'[e][j], legs[e][j])
             /\ legs[e][j].phase # "none" <=> legs'[e][j].phase # "none"
             /\ legs[e][j] = NoLeg => legs'[e][j] = NoLeg
             /\ legs[e][j].phase = "settled" => legs'[e][j] = legs[e][j]
  BY <1>1 DEF SameRequest, NoLeg, old
<1>5. {"leg1", "leg2", "unwind"} = LegNames
  BY DEF LegNames
<1>6. IdleInv(e)' /\ Leg1Inv(e)' /\ OrderInv(e)'
  BY <1>t, <1>1, <1>4, <1>5
     DEF ExecInv, IdleInv, Leg1Inv, OrderInv, CalledAs, SameRequest, SideAt, Leg1Venue
<1>7. Leg2Inv(e)'
  <2>1. /\ legs'[e]["leg2"] # NoLeg => legs[e]["leg2"] # NoLeg
        /\ legs[e]["leg2"] # NoLeg =>
             legs[e]["leg2"].phase # "none" /\ legs'[e]["leg2"] # NoLeg
    BY <1>t, <1>4, <1>5 DEF ExecInv, Leg2Inv, CalledAs, NoLeg
  <2>2. legs[e]["leg2"] # NoLeg => legs'[e]["leg1"] = legs[e]["leg1"]
    BY <1>t, <1>1, <1>4, <1>5 DEF ExecInv, Leg2Inv
  <2>3. SameRequest(legs'[e]["leg2"], legs[e]["leg2"])
    BY <1>4, <1>5
  <2> QED
    BY <1>t, <1>1, <1>4, <1>5, <2>1, <2>2, <2>3
       DEF ExecInv, Leg2Inv, CalledAs, SameRequest, SideAt, Leg2Venue, Reported, NoLeg
<1>8. UnwindInv(e)'
  <2>1. /\ legs[e]["unwind"] # NoLeg =>
             legs'[e]["unwind"].phase # "none" /\ legs'[e]["unwind"] # NoLeg
        /\ legs[e]["leg2"] # NoLeg =>
             legs[e]["leg2"].phase # "none" /\ legs'[e]["leg2"] # NoLeg
    BY <1>t, <1>4, <1>5 DEF ExecInv, UnwindInv, Leg2Inv, CalledAs, NoLeg
  <2>2. SameRequest(legs'[e]["unwind"], legs[e]["unwind"])
        /\ (legs[e]["unwind"] = NoLeg => legs'[e]["unwind"] = NoLeg)
    BY <1>4, <1>5
  <2> QED
    BY <1>t, <1>1, <2>1, <2>2
       DEF ExecInv, UnwindInv, CalledAs, SameRequest, SideAt, Opposite, Leg1Venue, NoLeg
<1>9. DoneInv(e)'
  BY <1>t, <1>1, <1>4, <1>5 DEF ExecInv, DoneInv, Reported, SameRequest
<1> QED
  BY <1>1, <1>3, <1>6, <1>7, <1>8, <1>9, OneExecution DEF ExecInv, IInv, SameOthers

-----------------------------------------------------------------------------
(* The steps of execute() *)

\* Leg 1 ends without success, or the timer wins: execute() returns FAILED.
LEMMA Leg1EndKeeps ==
  ASSUME IInv, NEW e \in Executions, Leg1Fails(e) \/ Leg1TimesOut(e) \/ Leg1TooSmall(e)
  PROVE  (\A f \in Executions : ExecInv(f))'
<1>t. /\ TypeOK /\ ExecInv(e)
      /\ ctx[e].state = "LEG1_PENDING" /\ Fail(e)
      /\ {"leg1", "leg2", "unwind"} = LegNames
  BY DEF IInv, Leg1Fails, Leg1TimesOut, Leg1TooSmall, LegNames
<1>1. legs' = legs \/ legs' = Ended(e, "leg1")
  BY DEF Leg1Fails, Leg1TimesOut, Leg1TooSmall
<1>2. /\ \A f \in Executions : f # e => legs'[f] = legs[f]
      /\ legs'[e]["leg2"] = legs[e]["leg2"]
      /\ legs'[e]["unwind"] = legs[e]["unwind"]
      /\ SameRequest(legs'[e]["leg1"], legs[e]["leg1"])
      /\ legs'[e]["leg1"].filled = legs[e]["leg1"].filled
      /\ legs'[e]["leg1"].phase = legs[e]["leg1"].phase
           \/ (legs'[e]["leg1"].phase = "unsent" /\ legs[e]["leg1"].phase = "calling")
  <2>1. CASE legs' = legs
    BY <2>1 DEF SameRequest
  <2>2. CASE legs' = Ended(e, "leg1")
    BY <2>2, <1>t, EndedLegs
  <2> QED
    BY <1>1, <2>1, <2>2
<1>3. SameOthers(e) /\ OnlyState(e, "FAILED")
  BY <1>t, <1>2, FailFrame DEF SameOthers
<1>4. legs[e]["leg2"] = NoLeg /\ legs[e]["unwind"] = NoLeg
  BY <1>t DEF ExecInv, Leg2Inv, UnwindInv
<1>5. LegsInv(e)'
  BY <1>t, <1>2, <1>3
     DEF ExecInv, LegsInv, FillOK, Simulated, SameRequest, SameOthers, LegNames
<1>6. Leg1Inv(e)'
  BY <1>t, <1>2, <1>3
     DEF ExecInv, Leg1Inv, CalledAs, SameRequest, SameOthers, OnlyState, SideAt, Leg1Venue
<1>7. IdleInv(e)' /\ Leg2Inv(e)' /\ UnwindInv(e)' /\ DoneInv(e)'
  BY <1>2, <1>3, <1>4 DEF IdleInv, Leg2Inv, UnwindInv, DoneInv, OnlyState
<1>8. OrderInv(e)'
  BY <1>t, <1>3 DEF ExecInv, OrderInv, SameOthers, OnlyState, Pending
<1> QED
  BY <1>3, <1>5, <1>6, <1>7, <1>8, OneExecution DEF ExecInv, IInv

\* Leg 1 succeeds and leg 2 is called for what it reports.
LEMMA Leg1SucceedsKeeps ==
  ASSUME IInv, NEW e \in Executions, Leg1Succeeds(e)
  PROVE  (\A f \in Executions : ExecInv(f))'
<1> DEFINE size == Reported(legs[e]["leg1"])
<1>t. /\ TypeOK /\ ExecInv(e)
      /\ ctx[e].state = "LEG1_PENDING"
      /\ {"leg1", "leg2", "unwind"} = LegNames
      /\ legs[e]["leg1"] \in Leg /\ ctx[e] \in Context
  BY DEF IInv, TypeOK, Leg1Succeeds, LegNames
<1>s. size \in Nat
  BY <1>t, ReportedType
<1>1. /\ SameOthers(e)
      /\ ctx'[e].state = "LEG2_PENDING"
      /\ ctx'[e].signal = ctx[e].signal
      /\ ctx'[e].direction = ctx[e].direction
      /\ ctx'[e].size = ctx[e].size
      /\ ctx'[e].leg1FillSize = size
  BY <1>t, EndedLegs DEF Leg1Succeeds, SameOthers, TypeOK, Context, historyVars, recoveryVars
<1>2. /\ legs'[e]["leg1"] = Ended(e, "leg1")[e]["leg1"]
      /\ legs'[e]["leg2"] = Called(Leg2Venue, SideAt(Leg2Venue, ctx[e].direction), size)
      /\ legs'[e]["unwind"] = legs[e]["unwind"]
  BY <1>t, EndedLegs, EndedType DEF Leg1Succeeds, LegsType
<1>3. /\ SameRequest(legs'[e]["leg1"], legs[e]["leg1"])
      /\ legs'[e]["leg1"].filled = legs[e]["leg1"].filled
      /\ legs'[e]["leg1"].phase =
           IF legs[e]["leg1"].phase = "calling" THEN "unsent" ELSE legs[e]["leg1"].phase
  BY <1>2, <1>t, EndedLegs
<1>4. legs[e]["unwind"] = NoLeg /\ legs[e]["leg2"] = NoLeg
  BY <1>t DEF ExecInv, Leg2Inv, UnwindInv
<1>5. ~config.simulationMode => legs[e]["leg1"].phase = "settled" /\ legs[e]["leg1"].filled > 0
  BY DEF Leg1Succeeds, Succeeds
<1>6. LegsInv(e)'
  <2>1. FillOK(legs[e]["leg1"])' /\ Simulated(legs[e]["leg1"])'
    BY <1>t, <1>1, <1>3
       DEF ExecInv, LegsInv, FillOK, Simulated, SameRequest, SameOthers, LegNames
  <2>2. FillOK(legs[e]["leg2"])' /\ Simulated(legs[e]["leg2"])'
    BY <1>2, <1>s DEF FillOK, Simulated, Called
  <2>3. FillOK(legs[e]["unwind"])' /\ Simulated(legs[e]["unwind"])'
    BY <1>t, <1>1, <1>2 DEF ExecInv, LegsInv, FillOK, Simulated, SameOthers, LegNames
  <2> QED
    BY <2>1, <2>2, <2>3 DEF LegsInv, LegNames
<1>7. Leg1Inv(e)'
  BY <1>t, <1>1, <1>3
     DEF ExecInv, Leg1Inv, CalledAs, SameRequest, SameOthers, SideAt, Leg1Venue
<1>8. Leg2Inv(e)'
  <2>1. Reported(legs[e]["leg1"])' = size
    BY <1>1, <1>3 DEF Reported, SameRequest, SameOthers
  <2>2. CalledAs(legs[e]["leg2"], Leg2Venue, SideAt(Leg2Venue, ctx[e].direction),
                 ctx[e].leg1FillSize)'
    BY <1>1, <1>2 DEF CalledAs, Called, SideAt, Leg2Venue, SameOthers
  <2> QED
    BY <1>1, <1>3, <1>5, <2>1, <2>2 DEF Leg2Inv, CalledAs, NoLeg, SameOthers
<1>9. IdleInv(e)' /\ UnwindInv(e)' /\ DoneInv(e)' /\ OrderInv(e)'
  BY <1>t, <1>1, <1>2, <1>4
     DEF ExecInv, IdleInv, UnwindInv, DoneInv, OrderInv, SameOthers, Pending
<1> QED
  BY <1>1, <1>6, <1>7, <1>8, <1>9, OneExecution DEF ExecInv, IInv

\* Leg 2 succeeds: DONE.
LEMMA Leg2SucceedsKeeps ==
  ASSUME IInv, NEW e \in Executions, Leg2Succeeds(e)
  PROVE  (\A f \in Executions : ExecInv(f))'
<1> DEFINE size == Reported(legs[e]["leg2"])
<1>t. /\ TypeOK /\ ExecInv(e)
      /\ ctx[e].state = "LEG2_PENDING"
      /\ {"leg1", "leg2", "unwind"} = LegNames
      /\ legs[e]["leg2"] \in Leg /\ ctx[e] \in Context
      /\ legs' = Ended(e, "leg2")
  BY DEF IInv, TypeOK, Leg2Succeeds, LegNames
<1>1. /\ SameOthers(e)
      /\ ctx'[e].state = "DONE"
      /\ ctx'[e].signal = ctx[e].signal
      /\ ctx'[e].direction = ctx[e].direction
      /\ ctx'[e].size = ctx[e].size
      /\ ctx'[e].leg1FillSize = ctx[e].leg1FillSize
      /\ ctx'[e].leg2FillSize = size
  BY <1>t, EndedLegs DEF Leg2Succeeds, Finish, SameOthers, TypeOK, Context
<1>2. /\ legs'[e]["leg1"] = legs[e]["leg1"]
      /\ legs'[e]["unwind"] = legs[e]["unwind"]
      /\ SameRequest(legs'[e]["leg2"], legs[e]["leg2"])
      /\ legs'[e]["leg2"].filled = legs[e]["leg2"].filled
      /\ legs'[e]["leg2"].phase =
           IF legs[e]["leg2"].phase = "calling" THEN "unsent" ELSE legs[e]["leg2"].phase
  BY <1>t, EndedLegs
<1>3. legs[e]["unwind"] = NoLeg /\ legs[e]["leg2"] # NoLeg
  BY <1>t DEF ExecInv, Leg2Inv, UnwindInv
<1>4. ~config.simulationMode => legs[e]["leg2"].phase = "settled" /\ legs[e]["leg2"].filled > 0
  BY DEF Leg2Succeeds, Succeeds
<1>5. LegsInv(e)'
  <2>1. FillOK(legs[e]["leg2"])' /\ Simulated(legs[e]["leg2"])'
    BY <1>t, <1>1, <1>2
       DEF ExecInv, LegsInv, FillOK, Simulated, SameRequest, SameOthers, LegNames
  <2>2. \A j \in LegNames : j # "leg2" => FillOK(legs[e][j])' /\ Simulated(legs[e][j])'
    BY <1>t, <1>1, <1>2 DEF ExecInv, LegsInv, FillOK, Simulated, SameOthers, LegNames
  <2> QED
    BY <2>1, <2>2 DEF LegsInv
<1>6. IdleInv(e)' /\ Leg1Inv(e)'
  BY <1>t, <1>1, <1>2 DEF ExecInv, IdleInv, Leg1Inv, CalledAs, SameOthers, SideAt, Leg1Venue
<1>7. Leg2Inv(e)'
  <2>1. CalledAs(legs[e]["leg2"], Leg2Venue, SideAt(Leg2Venue, ctx[e].direction),
                 ctx[e].leg1FillSize)'
    BY <1>t, <1>1, <1>2, <1>3
       DEF ExecInv, Leg2Inv, CalledAs, SameRequest, SideAt, Leg2Venue, SameOthers
  <2> QED
    BY <1>t, <1>1, <1>2, <1>3, <2>1
       DEF ExecInv, Leg2Inv, CalledAs, NoLeg, SameOthers, Reported
<1>8. DoneInv(e)'
  BY <1>1, <1>2, <1>4 DEF DoneInv, Reported, SameRequest, SameOthers
<1>9. UnwindInv(e)' /\ OrderInv(e)'
  BY <1>t, <1>1, <1>2, <1>3 DEF ExecInv, UnwindInv, OrderInv, SameOthers, Pending
<1> QED
  BY <1>1, <1>5, <1>6, <1>7, <1>8, <1>9, OneExecution DEF ExecInv, IInv

\* Leg 2 fails or the timer wins: the unwind is called.
LEMMA Leg2EndKeeps ==
  ASSUME IInv, NEW e \in Executions, Leg2Fails(e) \/ Leg2TimesOut(e)
  PROVE  (\A f \in Executions : ExecInv(f))'
<1>t. /\ TypeOK /\ ExecInv(e)
      /\ ctx[e].state = "LEG2_PENDING"
      /\ {"leg1", "leg2", "unwind"} = LegNames
      /\ legs \in LegsType /\ Ended(e, "leg2") \in LegsType
      /\ ctx[e].leg1FillSize \in Nat
  BY EndedType DEF IInv, TypeOK, Context, LegsType, Leg2Fails, Leg2TimesOut, LegNames
<1>p. PICK before \in {legs, Ended(e, "leg2")} : UnwindAfter(e, before)
  BY DEF Leg2Fails, Leg2TimesOut
<1>b. /\ before \in LegsType
      /\ \A f \in Executions : f # e => before[f] = legs[f]
      /\ before[e]["leg1"] = legs[e]["leg1"]
      /\ SameRequest(before[e]["leg2"], legs[e]["leg2"])
      /\ before[e]["leg2"].filled = legs[e]["leg2"].filled
      /\ before[e]["leg2"].phase = legs[e]["leg2"].phase
           \/ (before[e]["leg2"].phase = "unsent" /\ legs[e]["leg2"].phase = "calling")
  <2>1. CASE before = legs
    BY <2>1, <1>t DEF SameRequest
  <2>2. CASE before = Ended(e, "leg2")
    BY <2>2, <1>t, EndedLegs
  <2> QED
    BY <2>1, <2>2
<1>1. /\ SameOthers(e)
      /\ OnlyState(e, "UNWINDING")
      /\ legs'[e]["leg1"] = legs[e]["leg1"]
      /\ legs'[e]["leg2"] = before[e]["leg2"]
      /\ legs'[e]["unwind"] =
           Called(Leg1Venue, Opposite(SideAt(Leg1Venue, ctx[e].direction)), ctx[e].leg1FillSize)
  BY <1>t, <1>p, <1>b, UnwindFrame DEF SameOthers
<1>2. legs[e]["leg2"] # NoLeg /\ legs[e]["leg2"].phase # "none"
  BY <1>t DEF ExecInv, Leg2Inv, CalledAs
<1>3. legs'[e]["leg2"] # NoLeg /\ legs'[e]["leg2"].phase # "none"
  BY <1>1, <1>2, <1>b DEF NoLeg
<1>5. LegsInv(e)'
  <2>1. FillOK(legs[e]["leg1"])' /\ Simulated(legs[e]["leg1"])'
    BY <1>t, <1>1 DEF ExecInv, LegsInv, FillOK, Simulated, SameOthers, LegNames
  <2>2. FillOK(legs[e]["leg2"])' /\ Simulated(legs[e]["leg2"])'
    BY <1>t, <1>b, <1>1
       DEF ExecInv, LegsInv, FillOK, Simulated, SameRequest, SameOthers, LegNames
  <2>3. FillOK(legs[e]["unwind"])' /\ Simulated(legs[e]["unwind"])'
    BY <1>1, <1>t DEF FillOK, Simulated, Called
  <2> QED
    BY <2>1, <2>2, <2>3 DEF LegsInv, LegNames
<1>6. IdleInv(e)' /\ Leg1Inv(e)' /\ DoneInv(e)'
  BY <1>t, <1>1
     DEF ExecInv, IdleInv, Leg1Inv, DoneInv, CalledAs, SameOthers, OnlyState, SideAt, Leg1Venue
<1>7. Leg2Inv(e)'
  <2>1. CalledAs(legs[e]["leg2"], Leg2Venue, SideAt(Leg2Venue, ctx[e].direction),
                 ctx[e].leg1FillSize)'
    BY <1>t, <1>b, <1>1, <1>2, <1>3
       DEF ExecInv, Leg2Inv, CalledAs, SameRequest, SideAt, Leg2Venue, SameOthers, OnlyState
  <2> QED
    BY <1>t, <1>1, <1>2, <1>3, <2>1 DEF ExecInv, Leg2Inv, SameOthers, OnlyState, Reported
<1>8. UnwindInv(e)'
  <2>1. CalledAs(legs[e]["unwind"], Leg1Venue,
                 Opposite(SideAt(Leg1Venue, ctx[e].direction)), ctx[e].leg1FillSize)'
    BY <1>1 DEF CalledAs, Called, SideAt, Opposite, Leg1Venue, SameOthers, OnlyState
  <2> QED
    BY <1>1, <1>3, <2>1 DEF UnwindInv, OnlyState, CalledAs, NoLeg
<1>9. OrderInv(e)'
  BY <1>t, <1>1 DEF ExecInv, OrderInv, SameOthers, OnlyState, Pending
<1> QED
  BY <1>1, <1>5, <1>6, <1>7, <1>8, <1>9, OneExecution DEF ExecInv, IInv

\* The unwind returns or throws: FAILED.
LEMMA UnwindEndKeeps ==
  ASSUME IInv, NEW e \in Executions, UnwindEnds(e)
  PROVE  (\A f \in Executions : ExecInv(f))'
<1>t. /\ TypeOK /\ ExecInv(e)
      /\ ctx[e].state = "UNWINDING" /\ Fail(e)
      /\ {"leg1", "leg2", "unwind"} = LegNames
      /\ legs' = Ended(e, "unwind")
  BY DEF IInv, UnwindEnds, LegNames
<1>1. /\ SameOthers(e)
      /\ OnlyState(e, "FAILED")
      /\ legs'[e]["leg1"] = legs[e]["leg1"]
      /\ legs'[e]["leg2"] = legs[e]["leg2"]
      /\ SameRequest(legs'[e]["unwind"], legs[e]["unwind"])
      /\ legs'[e]["unwind"].filled = legs[e]["unwind"].filled
      /\ legs'[e]["unwind"].phase =
           IF legs[e]["unwind"].phase = "calling" THEN "unsent" ELSE legs[e]["unwind"].phase
  BY <1>t, FailFrame, EndedLegs DEF SameOthers
<1>2. LegsInv(e)'
  <2>1. FillOK(legs[e]["unwind"])' /\ Simulated(legs[e]["unwind"])'
    BY <1>t, <1>1
       DEF ExecInv, LegsInv, FillOK, Simulated, SameRequest, SameOthers, LegNames
  <2>2. \A j \in LegNames : j # "unwind" => FillOK(legs[e][j])' /\ Simulated(legs[e][j])'
    BY <1>t, <1>1 DEF ExecInv, LegsInv, FillOK, Simulated, SameOthers, LegNames
  <2> QED
    BY <2>1, <2>2 DEF LegsInv
<1>3. IdleInv(e)' /\ Leg1Inv(e)' /\ DoneInv(e)' /\ OrderInv(e)'
  BY <1>t, <1>1
     DEF ExecInv, IdleInv, Leg1Inv, DoneInv, OrderInv, CalledAs, SameOthers, OnlyState,
         SideAt, Leg1Venue, Pending
<1>4. Leg2Inv(e)'
  BY <1>t, <1>1
     DEF ExecInv, Leg2Inv, CalledAs, SameOthers, OnlyState, SideAt, Leg2Venue, Reported
<1>5. UnwindInv(e)'
  <2>1. legs[e]["unwind"] # NoLeg /\ legs[e]["leg2"] # NoLeg
    BY <1>t DEF ExecInv, UnwindInv
  <2>2. CalledAs(legs[e]["unwind"], Leg1Venue,
                 Opposite(SideAt(Leg1Venue, ctx[e].direction)), ctx[e].leg1FillSize)'
    BY <1>t, <1>1, <2>1
       DEF ExecInv, UnwindInv, CalledAs, SameRequest, SideAt, Opposite, Leg1Venue, SameOthers,
           OnlyState
  <2> QED
    BY <1>1, <2>1, <2>2 DEF UnwindInv, OnlyState
<1> QED
  BY <1>1, <1>2, <1>3, <1>4, <1>5, OneExecution DEF ExecInv, IInv

-----------------------------------------------------------------------------
\* IInv holds in every reachable state.
LEMMA IInvariant == Spec => []IInv
<1>1. Init => IInv
  <2> SUFFICES ASSUME Init
               PROVE  TypeOK /\ \A e \in Executions : ExecInv(e)
    BY DEF IInv
  <2>1. TypeOK
    BY FS_EmptySet, RecoveryAssumption, ExecutorAssumption
       DEF Init, RecoveryInit, TypeOK, RecoveryTypeOK, Context, IdleContext, States, Leg,
           NoLeg, Phases
  <2>2. ASSUME NEW e \in Executions
        PROVE  ExecInv(e)
    <3>1. ctx[e].state = "IDLE" /\ \A k \in LegNames : legs[e][k] = NoLeg
      BY DEF Init, IdleContext
    <3>2. e \in Nat /\ e > started
      BY ExecutorAssumption DEF Init, Executions
    <3> QED
      BY <3>1, <3>2
         DEF ExecInv, LegsInv, IdleInv, Leg1Inv, Leg2Inv, UnwindInv, DoneInv, OrderInv,
             FillOK, Simulated, NoLeg, LegNames, Pending
  <2> QED
    BY <2>1, <2>2
<1>2. IInv /\ TypeOK' /\ [Next]_vars => IInv'
  <2> SUFFICES ASSUME IInv, [Next]_vars
               PROVE  (\A f \in Executions : ExecInv(f))'
    BY DEF IInv
  <2>0. ASSUME ctx' = ctx, legs' = legs, config' = config, started' = started
        PROVE  (\A f \in Executions : ExecInv(f))'
    BY <2>0, Untouched DEF IInv
  <2>1. CASE Refuse \/ PollBreaker \/ Tick
    BY <2>1, <2>0 DEF Refuse, PollBreaker, Tick
  <2>2. ASSUME NEW s \in Signals, NEW d \in Directions, NEW z \in Sizes, Execute(s, d, z)
        PROVE  (\A f \in Executions : ExecInv(f))'
    <3>1. started \in Nat
      BY ExecutorAssumption DEF IInv, TypeOK
    <3> QED
      BY <2>2, <3>1, ExecuteKeeps
  <2>3. ASSUME NEW e \in Executions, NEW k \in LegNames, Send(e, k) \/ Settle(e, k)
        PROVE  (\A f \in Executions : ExecInv(f))'
    BY <2>3, VenueKeeps
  <2>4. ASSUME NEW e \in Executions, ExecutorStep(e)
        PROVE  (\A f \in Executions : ExecInv(f))'
    BY <2>4, Leg1EndKeeps, Leg1SucceedsKeeps, Leg2SucceedsKeeps, Leg2EndKeeps, UnwindEndKeeps
       DEF ExecutorStep
  <2>5. CASE UNCHANGED vars
    BY <2>5, <2>0 DEF vars
  <2> QED
    BY <2>1, <2>2, <2>3, <2>4, <2>5 DEF Next
<1> QED
  BY <1>1, <1>2, TypeCorrect, PTL DEF Spec

-----------------------------------------------------------------------------
(* The safety properties *)

\* The amounts of an execution whose second leg has been called, outside
\* simulation mode: leg 1 filled, leg 2 and the unwind reverse it.
LEMMA LegAmounts ==
  ASSUME IInv, NEW e \in Executions, legs[e]["leg2"] # NoLeg, ~config.simulationMode
  PROVE  LET c == ctx[e]
             f1 == legs[e]["leg1"].filled
             f2 == legs[e]["leg2"].filled
             fu == legs[e]["unwind"].filled
             side1 == legs[e]["leg1"].side
         IN /\ c.size \in Nat /\ c.leg1FillSize \in Nat /\ MaxSlip \in Nat
            /\ f1 \in Nat /\ f2 \in Nat /\ fu \in Nat
            /\ side1 \in {"buy", "sell"}
            /\ legs[e]["leg2"].side = Opposite(side1)
            /\ fu # 0 => legs[e]["unwind"].side = Opposite(side1)
            /\ legs[e]["leg2"].size = c.leg1FillSize
            /\ ~config.useFlashbots =>
                 /\ f1 = c.leg1FillSize /\ f1 <= c.size
                 /\ fu <= f1
                 /\ side1 = "buy" => f2 \in {0, f1}
                 /\ f2 # 0 => f1 - MaxSlip <= f2 /\ f2 <= f1 + MaxSlip
            /\ config.useFlashbots =>
                 /\ c.leg1FillSize = c.size
                 /\ f1 - MaxSlip <= c.size /\ c.size <= f1 + MaxSlip
                 /\ side1 = "sell" => f1 = c.size
                 /\ f2 <= c.size
                 /\ fu <= c.size + MaxSlip
                 /\ side1 = "buy" => fu <= c.size
<1> DEFINE l1 == legs[e]["leg1"]
           l2 == legs[e]["leg2"]
           u == legs[e]["unwind"]
           c == ctx[e]
<1>t. /\ TypeOK /\ ExecInv(e)
      /\ l1 \in Leg /\ l2 \in Leg /\ u \in Leg /\ c \in Context
      /\ MaxSlip \in Nat
      /\ config.useFlashbots \in BOOLEAN
  BY ExecutorAssumption DEF IInv, TypeOK, LegNames
<1>1. /\ FillOK(l1) /\ FillOK(l2) /\ FillOK(u)
      /\ c.state # "IDLE"
      /\ CalledAs(l1, Leg1Venue, SideAt(Leg1Venue, c.direction), c.size)
      /\ CalledAs(l2, Leg2Venue, SideAt(Leg2Venue, c.direction), c.leg1FillSize)
      /\ c.leg1FillSize = Reported(l1)
      /\ l1.filled > 0
  BY <1>t DEF ExecInv, LegsInv, Leg1Inv, Leg2Inv, LegNames
<1>2. \/ u = NoLeg
      \/ CalledAs(u, Leg1Venue, Opposite(SideAt(Leg1Venue, c.direction)), c.leg1FillSize)
  BY <1>t DEF ExecInv, UnwindInv
<1>3. /\ SideAt(Leg2Venue, c.direction) = Opposite(SideAt(Leg1Venue, c.direction))
      /\ SideAt(Leg1Venue, c.direction) \in {"buy", "sell"}
  BY DEF SideAt, Leg1Venue, Leg2Venue, Opposite
<1>4. /\ l1.filled \in Nat /\ l2.filled \in Nat /\ u.filled \in Nat
      /\ c.size \in Nat /\ c.leg1FillSize \in Nat
  BY <1>t DEF Leg, Context
<1>5. u.filled # 0 => u.side = Opposite(l1.side)
  BY <1>1, <1>2 DEF CalledAs, NoLeg
<1> HIDE DEF l1, l2, u, c
<1>6. CASE ~config.useFlashbots
  <2>1. Leg1Venue = "cex" /\ Leg2Venue = "dex"
    BY <1>6 DEF Leg1Venue, Leg2Venue
  <2>2. l1.filled = c.leg1FillSize /\ l1.filled <= c.size
    BY <2>1, <1>1, <1>t DEF Reported, CalledAs, FillOK
  <2>3. u.filled <= l1.filled
    BY <2>1, <2>2, <1>1, <1>2, <1>4 DEF CalledAs, FillOK, NoLeg
  <2>4. l1.side = "buy" => l2.filled \in {0, l1.filled}
    BY <2>1, <2>2, <1>1, <1>3 DEF CalledAs, FillOK, Opposite
  <2>5. l2.filled # 0 => l1.filled - MaxSlip <= l2.filled /\ l2.filled <= l1.filled + MaxSlip
    BY <2>1, <2>2, <1>1, <1>3, <1>4, <1>t DEF CalledAs, FillOK, Opposite
  <2> QED
    BY <1>1, <1>3, <1>4, <1>5, <1>6, <1>t, <2>2, <2>3, <2>4, <2>5 DEF CalledAs, l1, l2, u, c
<1>7. CASE config.useFlashbots
  <2>1. Leg1Venue = "dex" /\ Leg2Venue = "cex"
    BY <1>7 DEF Leg1Venue, Leg2Venue
  <2>2. c.leg1FillSize = c.size
    BY <2>1, <1>1 DEF Reported, CalledAs
  <2>3. /\ l1.filled - MaxSlip <= c.size /\ c.size <= l1.filled + MaxSlip
        /\ l1.side = "sell" => l1.filled = c.size
    BY <2>1, <1>1, <1>3, <1>4, <1>t DEF CalledAs, FillOK
  <2>4. l2.filled <= c.size
    BY <2>1, <2>2, <1>1 DEF CalledAs, FillOK
  <2>5. u.filled <= c.size + MaxSlip /\ (l1.side = "buy" => u.filled <= c.size)
    <3>1. CASE u = NoLeg
      BY <3>1, <1>4, <1>t DEF NoLeg
    <3>2. CASE CalledAs(u, Leg1Venue, Opposite(SideAt(Leg1Venue, c.direction)), c.leg1FillSize)
      BY <3>2, <2>1, <2>2, <1>1, <1>3, <1>4, <1>t DEF CalledAs, FillOK, Opposite
    <3> QED
      BY <3>1, <3>2, <1>2
  <2> QED
    BY <1>1, <1>3, <1>4, <1>5, <1>7, <1>t, <2>2, <2>3, <2>4, <2>5 DEF CalledAs, l1, l2, u, c
<1> QED
  BY <1>6, <1>7, <1>t

\* In simulation mode nothing trades.
LEMMA SimulatedAmounts ==
  ASSUME IInv, NEW e \in Executions, config.simulationMode
  PROVE  \A k \in LegNames : legs[e][k].filled = 0
BY DEF IInv, ExecInv, LegsInv, FillOK, Simulated

LEMMA ExposureInv ==
  ASSUME IInv, NEW e \in Executions
  PROVE  /\ Exposure(e) \in Int
         /\ ctx[e].size \in Nat
         /\ Within(Exposure(e), ctx[e].size + MaxSlip)
<1>s. ctx[e].size \in Nat /\ MaxSlip \in Nat
  BY ExecutorAssumption DEF IInv, TypeOK, Context
<1>l. \A k \in LegNames : legs[e][k] \in Leg
  BY DEF IInv, TypeOK
<1>t. /\ \A k \in LegNames : legs[e][k].filled \in Nat
      /\ {"leg1", "leg2", "unwind"} = LegNames
      /\ ctx[e].size \in Nat /\ MaxSlip \in Nat
  BY <1>s, <1>l DEF Leg, LegNames
<1>1. CASE config.simulationMode
  <2>1. \A k \in LegNames : legs[e][k].filled = 0
    BY <1>1, SimulatedAmounts
  <2>2. \A k \in LegNames : Moved(legs[e][k]) = 0
    BY <2>1 DEF Moved
  <2>3. Exposure(e) = 0
    BY <2>2, <1>t DEF Exposure
  <2> QED
    BY <2>3, <1>t DEF Within
<1>2. CASE ~config.simulationMode /\ legs[e]["leg2"] = NoLeg
  <2>1. legs[e]["unwind"] = NoLeg
    BY <1>2 DEF IInv, ExecInv, UnwindInv
  <2>2. legs[e]["leg1"].filled <= ctx[e].size + MaxSlip
    <3>1. /\ FillOK(legs[e]["leg1"]) /\ IdleInv(e) /\ Leg1Inv(e)
          /\ SideAt(Leg1Venue, ctx[e].direction) \in {"buy", "sell"}
          /\ Leg1Venue \in Venues
      BY <1>t, SideType DEF IInv, ExecInv, LegsInv
    <3>2. CASE ctx[e].state = "IDLE"
      BY <3>1, <3>2, <1>t DEF IdleInv, NoLeg
    <3>3. CASE ctx[e].state # "IDLE"
      BY <3>1, <3>3, <1>t DEF Leg1Inv, CalledAs, FillOK, Venues
    <3> QED
      BY <3>2, <3>3
  <2> QED
    BY <1>2, <1>t, <2>1, <2>2 DEF Within, Exposure, Moved, NoLeg
<1>3. CASE ~config.simulationMode /\ legs[e]["leg2"] # NoLeg
  <2> DEFINE f1 == legs[e]["leg1"].filled
             f2 == legs[e]["leg2"].filled
             fu == legs[e]["unwind"].filled
  <2>1. \/ Exposure(e) = f1 - f2 - fu /\ legs[e]["leg1"].side = "buy"
        \/ Exposure(e) = f2 + fu - f1 /\ legs[e]["leg1"].side = "sell"
    BY <1>3, <1>t, LegAmounts DEF Exposure, Moved, Opposite
  <2>2. CASE ~config.useFlashbots
    BY <2>1, <2>2, <1>3, <1>t, LegAmounts DEF Within
  <2>3. CASE config.useFlashbots
    BY <2>1, <2>3, <1>3, <1>t, LegAmounts DEF Within
  <2> QED
    BY <2>2, <2>3
<1> QED
  BY <1>1, <1>2, <1>3

\* However late the legs and the unwind of an execution settle, it never
\* holds more than its size and the error of a swap unhedged, for any size,
\* step, fill ratio and swap error (engine.service.ts 139-253 and 429-520).
THEOREM ExposureIsBounded == Spec => []ExposureBounded
<1>1. IInv => ExposureBounded
  BY ExposureInv DEF ExposureBounded
<1> QED
  BY <1>1, IInvariant, PTL

\* A DONE execution has both legs settled and no unwind, and is hedged up to
\* what its context shows and the error of a swap.
THEOREM DoneAccounted == Spec => []DoneIsAccounted
<1>1. IInv => DoneIsAccounted
  <2> SUFFICES ASSUME IInv, NEW e \in Executions,
                      ctx[e].state = "DONE", ~config.simulationMode
               PROVE  /\ \A k \in {"leg1", "leg2"} : legs[e][k].phase = "settled"
                      /\ legs[e]["unwind"] = NoLeg
                      /\ Within(Exposure(e), MaxSlip + ctx[e].leg1FillSize - ctx[e].leg2FillSize)
                      /\ ~config.useFlashbots => ctx[e].leg1FillSize = ctx[e].leg2FillSize
    BY DEF DoneIsAccounted
  <2>1. /\ legs[e]["leg2"] # NoLeg
        /\ legs[e]["leg1"].phase = "settled"
        /\ legs[e]["leg2"].phase = "settled"
        /\ legs[e]["leg2"].filled > 0
        /\ legs[e]["unwind"] = NoLeg
        /\ ctx[e].leg2FillSize = Reported(legs[e]["leg2"])
        /\ CalledAs(legs[e]["leg2"], Leg2Venue, SideAt(Leg2Venue, ctx[e].direction),
                    ctx[e].leg1FillSize)
    BY DEF IInv, ExecInv, Leg2Inv, UnwindInv, DoneInv
  <2> DEFINE f1 == legs[e]["leg1"].filled
             f2 == legs[e]["leg2"].filled
  <2>2. \/ Exposure(e) = f1 - f2 /\ legs[e]["leg1"].side = "buy"
        \/ Exposure(e) = f2 - f1 /\ legs[e]["leg1"].side = "sell"
    BY <2>1, LegAmounts DEF Exposure, Moved, Opposite, NoLeg
  <2>3. CASE ~config.useFlashbots
    <3>1. ctx[e].leg2FillSize = ctx[e].leg1FillSize
      BY <2>1, <2>3, LegAmounts DEF Reported, CalledAs, Leg2Venue
    <3>2. f2 # 0
      BY <2>1
    <3> QED
      BY <2>1, <2>2, <2>3, <3>1, <3>2, LegAmounts DEF Within
  <2>4. CASE config.useFlashbots
    <3>1. ctx[e].leg2FillSize = f2
      BY <2>1, <2>4 DEF Reported, CalledAs, Leg2Venue
    <3> QED
      BY <2>1, <2>2, <2>4, <3>1, LegAmounts DEF Within
  <2> QED
    BY <2>3, <2>4
<1> QED
  BY <1>1, IInvariant, PTL

-----------------------------------------------------------------------------
(* Executor implements Arbitrage *)

\* A step that moves no base: no leg has a new fill.
Quiet ==
  \A f \in Executions, k \in LegNames :
    /\ legs'[f][k].filled = legs[f][k].filled
    /\ legs[f][k].filled # 0 => legs'[f][k].side = legs[f][k].side

LEMMA QuietExposure ==
  ASSUME TypeOK, Quiet
  PROVE  \A f \in Executions : Exposure(f)' = Exposure(f)
<1> SUFFICES ASSUME NEW f \in Executions
             PROVE  Exposure(f)' = Exposure(f)
  OBVIOUS
<1>1. ASSUME NEW k \in LegNames
      PROVE  Moved(legs[f][k])' = Moved(legs[f][k])
  <2>1. /\ legs[f][k].filled \in Nat
        /\ legs'[f][k].filled = legs[f][k].filled
        /\ legs[f][k].filled # 0 => legs'[f][k].side = legs[f][k].side
    BY DEF TypeOK, Leg, Quiet
  <2> QED
    BY <2>1 DEF Moved
<1> QED
  BY <1>1 DEF Exposure, LegNames

-----------------------------------------------------------------------------
(* Which steps are quiet, and what they do to the outcome *)

\* A quiet step that changes the outcome of one execution at most.
Outcomes(e, new) ==
  /\ Quiet
  /\ \A f \in Executions : f # e => ctx'[f] = ctx[f]
  /\ Outcome(ctx'[e].state) = new

LEMMA ExecuteOutcome ==
  ASSUME IInv, NEW s \in Signals, NEW d \in Directions, NEW z \in Sizes, Execute(s, d, z),
         NEW e \in Nat, e = started + 1
  PROVE  /\ e \in Executions
         /\ ctx[e].state = "IDLE"
         /\ \A f \in Executions : ctx[f].state \notin Pending
         /\ Outcomes(e, "open")
<1>0. e \in Executions
  BY ExecuteFrame DEF IInv
<1>1. /\ e \in Executions
      /\ TypeOK /\ ExecInv(e)
  BY <1>0 DEF IInv
<1>2. ctx[e].state = "IDLE"
  BY <1>1, ExecutorAssumption DEF ExecInv, OrderInv, TypeOK
<1>3. /\ \A f \in Executions : ctx[f].state \notin Pending
      /\ \A f \in Executions : f # e => ctx'[f] = ctx[f]
      /\ ctx'[e].state = "LEG1_PENDING"
  BY <1>1 DEF Execute, Idle, TypeOK, IdleContext
<1>4. Quiet
  <2> SUFFICES ASSUME NEW f \in Executions, NEW k \in LegNames
               PROVE  /\ legs'[f][k].filled = legs[f][k].filled
                      /\ legs[f][k].filled # 0 => legs'[f][k].side = legs[f][k].side
    BY DEF Quiet
  <2>1. CASE f = e /\ k = "leg1"
    <3>1. legs[e]["leg1"].filled = 0
      BY <1>1, <1>2 DEF ExecInv, IdleInv, NoLeg
    <3>2. legs'[e]["leg1"].filled = 0
      BY <1>1 DEF Execute, TypeOK, Called, LegNames
    <3> QED
      BY <2>1, <3>1, <3>2
  <2>2. CASE ~(f = e /\ k = "leg1")
    BY <2>2, <1>1 DEF Execute, TypeOK
  <2> QED
    BY <2>1, <2>2
<1> QED
  BY <1>1, <1>2, <1>3, <1>4 DEF Outcomes, Outcome, Pending

LEMMA SendQuiet ==
  ASSUME IInv, NEW e \in Executions, NEW k \in LegNames, Send(e, k)
  PROVE  Quiet /\ ctx' = ctx
<1>1. legs \in [Executions -> [LegNames -> Leg]] /\ legs[e][k] \in Leg
  BY DEF IInv, TypeOK
<1> QED
  BY <1>1 DEF Send, Quiet, Leg, historyVars, recoveryVars

LEMMA EndedQuiet ==
  ASSUME TypeOK, NEW e \in Executions, NEW k \in LegNames, legs' \in {legs, Ended(e, k)}
  PROVE  Quiet
<1> SUFFICES ASSUME legs' = Ended(e, k), NEW f \in Executions, NEW j \in LegNames
             PROVE  /\ legs'[f][j].filled = legs[f][j].filled
                    /\ legs'[f][j].side = legs[f][j].side
  BY DEF Quiet
<1>1. CASE f = e /\ j = k
  BY <1>1, EndedLegs DEF SameRequest
<1>2. CASE f = e /\ j # k
  BY <1>2, EndedLegs
<1>3. CASE f # e
  BY <1>3, EndedLegs
<1> QED
  BY <1>1, <1>2, <1>3

LEMMA FailOutcome ==
  ASSUME IInv, NEW e \in Executions, Leg1Fails(e) \/ Leg1TimesOut(e) \/ Leg1TooSmall(e)
                                       \/ UnwindEnds(e)
  PROVE  ctx[e].state \in Pending /\ Outcomes(e, "failed")
<1>1. /\ TypeOK /\ Fail(e)
      /\ ctx[e].state \in Pending
  BY DEF IInv, Leg1Fails, Leg1TimesOut, Leg1TooSmall, UnwindEnds, Pending
<1>2. Quiet
  <2>1. legs' \in {legs, Ended(e, "leg1")} \/ legs' \in {legs, Ended(e, "unwind")}
    BY DEF Leg1Fails, Leg1TimesOut, Leg1TooSmall, UnwindEnds
  <2> QED
    BY <1>1, <2>1, EndedQuiet DEF LegNames
<1> QED
  BY <1>1, <1>2, FailFrame DEF Outcomes, Outcome, OnlyState, Pending

LEMMA Leg2SucceedsOutcome ==
  ASSUME IInv, NEW e \in Executions, Leg2Succeeds(e)
  PROVE  ctx[e].state \in Pending /\ Outcomes(e, "done")
<1>1. /\ TypeOK /\ ctx[e] \in Context
      /\ ctx[e].state \in Pending
      /\ legs' = Ended(e, "leg2")
      /\ ctx'[e].state = "DONE"
      /\ \A f \in Executions : f # e => ctx'[f] = ctx[f]
  BY DEF IInv, TypeOK, Context, Leg2Succeeds, Pending
<1> QED
  BY <1>1, EndedQuiet DEF Outcomes, Outcome, Pending, LegNames

\* Calling leg 2 or the unwind leaves the execution open.
LEMMA CallOutcome ==
  ASSUME IInv, NEW e \in Executions, Leg1Succeeds(e) \/ Leg2Fails(e) \/ Leg2TimesOut(e)
  PROVE  ctx[e].state \in Pending /\ Outcomes(e, "open")
<1>1. /\ TypeOK /\ ctx[e] \in Context /\ ExecInv(e)
      /\ ctx[e].state \in Pending
      /\ {"leg1", "leg2", "unwind"} = LegNames
  BY DEF IInv, TypeOK, Leg1Succeeds, Leg2Fails, Leg2TimesOut, Pending, LegNames
<1>2. /\ ctx'[e].state \in Pending
      /\ \A f \in Executions : f # e => ctx'[f] = ctx[f]
  <2>0. ctx \in [Executions -> Context]
    BY <1>1 DEF TypeOK
  <2>1. CASE Leg1Succeeds(e)
    BY <2>0, <2>1 DEF Leg1Succeeds, Context, Pending
  <2>2. CASE Leg2Fails(e) \/ Leg2TimesOut(e)
    <3>1. ctx' = [ctx EXCEPT ![e].state = "UNWINDING"]
      BY <2>2 DEF Leg2Fails, Leg2TimesOut, UnwindAfter
    <3> QED
      BY <2>0, <3>1 DEF Context, Pending
  <2> QED
    BY <2>1, <2>2
<1>3. PICK k \in {"leg2", "unwind"}, before \in {legs, Ended(e, "leg1"), Ended(e, "leg2")} :
        /\ legs[e][k] = NoLeg
        /\ \E venue, side, size : legs' = [before EXCEPT ![e][k] = Called(venue, side, size)]
  <2>1. CASE Leg1Succeeds(e)
    BY <2>1, <1>1 DEF Leg1Succeeds, ExecInv, Leg2Inv
  <2>2. CASE Leg2Fails(e) \/ Leg2TimesOut(e)
    <3>1. legs[e]["unwind"] = NoLeg
      BY <2>2, <1>1 DEF Leg2Fails, Leg2TimesOut, ExecInv, UnwindInv
    <3>2. PICK before \in {legs, Ended(e, "leg2")} : UnwindAfter(e, before)
      BY <2>2 DEF Leg2Fails, Leg2TimesOut
    <3> QED
      BY <3>1, <3>2 DEF UnwindAfter
  <2> QED
    BY <2>1, <2>2
<1>4. before \in LegsType
  BY <1>1, EndedType DEF TypeOK, LegsType
<1>5. ASSUME NEW f \in Executions, NEW j \in LegNames
      PROVE  /\ before[f][j].filled = legs[f][j].filled
             /\ before[f][j].side = legs[f][j].side
  <2>1. CASE before = legs
    BY <2>1
  <2>2. ASSUME NEW i \in LegNames, before = Ended(e, i)
        PROVE  /\ before[f][j].filled = legs[f][j].filled
               /\ before[f][j].side = legs[f][j].side
    <3>1. CASE f = e /\ j = i
      BY <2>2, <3>1, <1>1, EndedLegs DEF SameRequest
    <3>2. CASE f = e /\ j # i
      BY <2>2, <3>2, <1>1, EndedLegs
    <3>3. CASE f # e
      BY <2>2, <3>3, <1>1, EndedLegs
    <3> QED
      BY <3>1, <3>2, <3>3
  <2> QED
    BY <2>1, <2>2, <1>1
<1>6. Quiet
  <2> SUFFICES ASSUME NEW f \in Executions, NEW j \in LegNames
               PROVE  /\ legs'[f][j].filled = legs[f][j].filled
                      /\ legs[f][j].filled # 0 => legs'[f][j].side = legs[f][j].side
    BY DEF Quiet
  <2>1. CASE f = e /\ j = k
    <3>1. legs'[e][k].filled = 0
      BY <1>1, <1>3, <1>4 DEF Called, LegsType
    <3>2. legs[e][k].filled = 0
      BY <1>3 DEF NoLeg
    <3> QED
      BY <2>1, <3>1, <3>2
  <2>2. CASE ~(f = e /\ j = k)
    <3>1. legs'[f][j] = before[f][j]
      BY <2>2, <1>1, <1>3, <1>4 DEF LegsType
    <3> QED
      BY <3>1, <1>5
  <2> QED
    BY <2>1, <2>2
<1> QED
  BY <1>1, <1>2, <1>6 DEF Outcomes, Outcome

\* A leg that settles belongs to an execution that is open or FAILED.
LEMMA SettleOutcome ==
  ASSUME IInv, NEW e \in Executions, NEW k \in LegNames, Settle(e, k)
  PROVE  /\ ctx' = ctx
         /\ Outcome(ctx[e].state) \in {"open", "failed"}
         /\ \A f \in Executions : f # e => Exposure(f)' = Exposure(f)
<1>1. TypeOK /\ ExecInv(e) /\ legs[e][k].phase = "live" /\ ~config.simulationMode
  BY DEF IInv, Settle, ExecInv, LegsInv, Simulated
<1>2. ctx[e].state # "IDLE"
  BY <1>1 DEF ExecInv, IdleInv, NoLeg, LegNames
<1>3. ctx[e].state # "DONE"
  <2> SUFFICES ASSUME ctx[e].state = "DONE" PROVE FALSE
    OBVIOUS
  <2>1. /\ legs[e]["leg1"].phase = "settled"
        /\ legs[e]["leg2"].phase = "settled"
        /\ legs[e]["unwind"] = NoLeg
    BY <1>1 DEF ExecInv, Leg2Inv, UnwindInv, DoneInv
  <2> QED
    BY <1>1, <2>1 DEF NoLeg, LegNames
<1>4. ctx[e].state \in States
  BY <1>1 DEF TypeOK, Context
<1>5. \A f \in Executions : f # e => legs'[f] = legs[f]
  BY <1>1 DEF Settle, TypeOK
<1> QED
  BY <1>2, <1>3, <1>4, <1>5
     DEF Settle, Outcome, States, Pending, Exposure, Moved, historyVars, recoveryVars

-----------------------------------------------------------------------------
(* The refinement *)

outcomes == [e \in Executions |-> Outcome(ctx[e].state)]
exposures == [e \in Executions |-> Exposure(e)]

\* A quiet step that leaves every outcome alone is a stutter of Arbitrage.
LEMMA QuietStutters ==
  ASSUME TypeOK, Quiet, \A f \in Executions : Outcome(ctx[f].state)' = Outcome(ctx[f].state)
  PROVE  outcomes' = outcomes /\ exposures' = exposures
BY QuietExposure DEF outcomes, exposures

\* A quiet step that moves one outcome.
LEMMA QuietMoves ==
  ASSUME TypeOK, NEW e \in Executions, NEW new, Outcomes(e, new)
  PROVE  outcomes' = [outcomes EXCEPT ![e] = new] /\ exposures' = exposures
<1>1. \A f \in Executions : f # e => Outcome(ctx[f].state)' = Outcome(ctx[f].state)
  BY DEF Outcomes, Outcome, Pending
<1>2. Outcome(ctx[e].state)' = new
  BY DEF Outcomes, Outcome, Pending
<1> QED
  BY <1>1, <1>2, QuietExposure DEF Outcomes, outcomes, exposures

\* The exposure theorem's invariant as an implication, to be primed.
WithinSize ==
  \A f \in Executions : /\ Exposure(f) \in Int
                        /\ ctx[f].size \in Nat
                        /\ Within(Exposure(f), ctx[f].size + MaxSlip)

LEMMA IInvWithinSize == IInv => WithinSize
BY ExposureInv DEF WithinSize

LEMMA ArbitrageStep ==
  ASSUME IInv, IInv', [Next]_vars
  PROVE  [Arb!Next]_(Arb!arbVars)
<1> USE DEF Arb!arbVars
<1>o. outcomes = [e \in Executions |-> Outcome(ctx[e].state)]
        /\ exposures = [e \in Executions |-> Exposure(e)]
  BY DEF outcomes, exposures
<1>t. TypeOK
  BY DEF IInv
<1>s. ASSUME outcomes' = outcomes, exposures' = exposures
      PROVE  UNCHANGED Arb!arbVars
  BY <1>s DEF outcomes, exposures
<1>0. ASSUME ctx' = ctx, legs' = legs
      PROVE  UNCHANGED Arb!arbVars
  BY <1>0 DEF Exposure, Moved, Outcome, Pending
<1>1. CASE Refuse \/ PollBreaker \/ Tick
  BY <1>1, <1>0 DEF Refuse, PollBreaker, Tick
<1>2. ASSUME NEW s \in Signals, NEW d \in Directions, NEW z \in Sizes, Execute(s, d, z)
      PROVE  Arb!Next
  <2>1. PICK e \in Nat : e = started + 1
    BY <1>t, ExecutorAssumption DEF TypeOK
  <2>2. /\ e \in Executions
        /\ ctx[e].state = "IDLE"
        /\ \A f \in Executions : ctx[f].state \notin Pending
        /\ Outcomes(e, "open")
    BY <1>2, <2>1, ExecuteOutcome
  <2>3. outcomes' = [outcomes EXCEPT ![e] = "open"] /\ exposures' = exposures
    BY <2>2, <1>t, QuietMoves
  <2>4. outcomes[e] = "none" /\ \A f \in Executions : outcomes[f] # "open"
    BY <2>2 DEF outcomes, Outcome, Pending
  <2>5. Arb!Open(e)
    BY <2>2, <2>3, <2>4 DEF Arb!Open, outcomes, exposures
  <2> QED
    BY <2>2, <2>5 DEF Arb!Next
<1>3. ASSUME NEW e \in Executions, NEW k \in LegNames, Send(e, k)
      PROVE  UNCHANGED Arb!arbVars
  <2>1. Quiet /\ ctx' = ctx
    BY <1>3, SendQuiet
  <2>2. \A f \in Executions : Outcome(ctx[f].state)' = Outcome(ctx[f].state)
    BY <2>1 DEF Outcome, Pending
  <2> QED
    BY <2>1, <2>2, <1>t, <1>s, QuietStutters
<1>4. ASSUME NEW e \in Executions, NEW k \in LegNames, Settle(e, k)
      PROVE  Arb!Next
  <2>1. /\ ctx' = ctx
        /\ Outcome(ctx[e].state) \in {"open", "failed"}
        /\ \A f \in Executions : f # e => Exposure(f)' = Exposure(f)
    BY <1>4, SettleOutcome
  <2>2. Exposure(e)' \in (-MaxExposure)..MaxExposure
    <3>1. /\ Exposure(e)' \in Int
          /\ ctx'[e].size \in Nat
          /\ Within(Exposure(e)', ctx'[e].size + MaxSlip)
      <4>1. (IInv => WithinSize)'
        BY IInvWithinSize, PTL
      <4> QED
        BY <4>1 DEF WithinSize, Within
    <3>2. ctx[e].size \in Sizes
      BY <2>1 DEF IInv, ExecInv, Leg1Inv, Outcome, Pending
    <3>3. \A z \in Sizes : z \in Nat /\ z + MaxSlip <= MaxExposure
      BY ExecutorAssumption
    <3>4. MaxSlip \in Nat /\ MaxExposure \in Nat
      BY ExecutorAssumption
    <3>5. ctx[e].size \in Nat /\ ctx[e].size + MaxSlip <= MaxExposure
      BY <3>2, <3>3
    <3> QED
      BY <2>1, <3>1, <3>4, <3>5 DEF Within
  <2>3. exposures' = [exposures EXCEPT ![e] = Exposure(e)']
    BY <2>1 DEF exposures
  <2>4. outcomes' = outcomes /\ outcomes[e] \in {"open", "failed"}
    BY <2>1 DEF outcomes, Outcome, Pending
  <2>5. Arb!Trade(e)
    BY <2>2, <2>3, <2>4 DEF Arb!Trade, Arb!Bounded, outcomes, exposures
  <2> QED
    BY <2>5 DEF Arb!Next
<1>5. ASSUME NEW e \in Executions, ExecutorStep(e)
      PROVE  [Arb!Next]_(Arb!arbVars)
  <2>1. ASSUME NEW o \in {"done", "failed"}, ctx[e].state \in Pending, Outcomes(e, o)
        PROVE  Arb!Next
    <3>1. outcomes' = [outcomes EXCEPT ![e] = o] /\ exposures' = exposures
      BY <2>1, <1>t, QuietMoves
    <3>2. outcomes[e] = "open"
      BY <2>1 DEF outcomes, Outcome
    <3>3. Arb!Close(e)
      BY <3>1, <3>2 DEF Arb!Close, outcomes, exposures
    <3> QED
      BY <3>3 DEF Arb!Next
  <2>2. CASE Leg1Fails(e) \/ Leg1TimesOut(e) \/ Leg1TooSmall(e) \/ UnwindEnds(e)
    BY <2>1, <2>2, FailOutcome
  <2>3. CASE Leg2Succeeds(e)
    BY <2>1, <2>3, Leg2SucceedsOutcome
  <2>4. CASE Leg1Succeeds(e) \/ Leg2Fails(e) \/ Leg2TimesOut(e)
    <3>1. ctx[e].state \in Pending /\ Outcomes(e, "open")
      BY <2>4, CallOutcome
    <3>2. outcomes' = [outcomes EXCEPT ![e] = "open"] /\ exposures' = exposures
      BY <3>1, <1>t, QuietMoves
    <3>3. outcomes[e] = "open"
      BY <3>1 DEF outcomes, Outcome
    <3> QED
      BY <3>2, <3>3, <1>s DEF outcomes
  <2> QED
    BY <1>5, <2>2, <2>3, <2>4 DEF ExecutorStep
<1>6. CASE UNCHANGED vars
  BY <1>6, <1>0 DEF vars
<1> QED
  BY <1>1, <1>2, <1>3, <1>4, <1>5, <1>6 DEF Next

\* The executor implements Arbitrage (engine.service.ts 88-520): executions
\* are opened one at a time, end once, never hold more than MaxExposure, and
\* a done one trades no more.
THEOREM ImplementsArbitrage == Spec => ArbitrageSpec
<1>1. Init => Arb!Init
  <2> SUFFICES ASSUME Init PROVE Arb!Init
    OBVIOUS
  <2>1. \A e \in Executions : ctx[e].state = "IDLE" /\ Exposure(e) = 0
    BY DEF Init, IdleContext, NoLeg, Exposure, Moved, LegNames
  <2> QED
    BY <2>1 DEF Arb!Init, Outcome, Pending
<1>2. IInv /\ IInv' /\ [Next]_vars => [Arb!Next]_(Arb!arbVars)
  BY ArbitrageStep
<1> QED
  BY <1>1, <1>2, IInvariant, PTL DEF Spec, ArbitrageSpec, Arb!Spec

-----------------------------------------------------------------------------
(* The executor implements GatedExecution *)

\* At most one execution is pending, and it is the running one of the gate.
LEMMA RunningIsPending ==
  ASSUME IInv, NEW e \in Executions, ctx[e].state \in Pending
  PROVE  /\ RunningNow = [signal |-> ctx[e].signal, began |-> ctx[e].startedAt]
         /\ RunningNow # None
         /\ e = started
         /\ \A f \in Executions : ctx[f].state \in Pending => f = e
<1>1. \A f \in Executions : ctx[f].state \in Pending => f = started
  BY DEF IInv, ExecInv, OrderInv
<1>2. PendingExecution = e /\ ~Idle
  BY <1>1 DEF PendingExecution, Idle
<1>3. ctx[e].signal \in Signals /\ ctx[e].startedAt \in Nat
  BY DEF IInv, ExecInv, Leg1Inv, TypeOK, Context, Pending
<1>4. None \notin [signal : Signals, began : Nat]
  BY ExecutorAssumption
<1> QED
  BY <1>1, <1>2, <1>3, <1>4 DEF RunningNow

\* The same as an implication, to be primed.
RunningInv ==
  \A e \in Executions : ctx[e].state \in Pending =>
    /\ RunningNow = [signal |-> ctx[e].signal, began |-> ctx[e].startedAt]
    /\ RunningNow # None

LEMMA IInvRunning == IInv => RunningInv
BY RunningIsPending DEF RunningInv

\* A step that leaves the contexts' states, signals and start times alone,
\* or changes the state of the pending one to another pending state.
LEMMA RunningSame ==
  ASSUME IInv, IInv',
         \A f \in Executions : /\ ctx[f].state \in Pending <=> ctx'[f].state \in Pending
                               /\ ctx'[f].signal = ctx[f].signal
                               /\ ctx'[f].startedAt = ctx[f].startedAt
  PROVE  RunningNow' = RunningNow
<1>1. CASE Idle
  BY <1>1 DEF RunningNow, Idle
<1>2. CASE ~Idle
  <2>1. PICK e \in Executions : ctx[e].state \in Pending
    BY <1>2 DEF Idle
  <2>2. RunningNow' = [signal |-> ctx'[e].signal, began |-> ctx'[e].startedAt]
    <3>1. (IInv => RunningInv)'
      BY IInvRunning, PTL
    <3> QED
      BY <2>1, <3>1 DEF RunningInv, Pending
  <2> QED
    BY <2>1, <2>2, RunningIsPending
<1> QED
  BY <1>1, <1>2

\* The end of an execution is the end of the gate's.
LEMMA GateFinish ==
  ASSUME IInv, NEW e \in Executions, NEW failed \in BOOLEAN, Finish(e, failed),
         ctx[e].state \in Pending, ctx'[e].state \in {"DONE", "FAILED"},
         \A f \in Executions : f # e => ctx'[f] = ctx[f]
  PROVE  Gate!Finish(failed)
<1>1. /\ RunningNow = [signal |-> ctx[e].signal, began |-> ctx[e].startedAt]
      /\ RunningNow # None
      /\ e = started
      /\ \A f \in Executions : ctx[f].state \in Pending => f = e
  BY RunningIsPending
<1>2. \A f \in Executions : ctx'[f].state \notin Pending
  BY <1>1 DEF Pending
<1>3. RunningNow' = None
  BY <1>2 DEF RunningNow, Idle, Pending
<1>4. ASSUME RecordFailure(e)
      PROVE  Gate!RecordFailure(started)
  <2> DEFINE kept == Pruned(failures \cup {[exec |-> e, at |-> now]})
             gateKept == Gate!Pruned(failures \cup {[exec |-> started, at |-> now]})
  <2>1. kept = gateKept
    BY <1>1 DEF Pruned, Gate!Pruned
  <2>2. /\ failures' = kept
        /\ trippedAt' = IF Cardinality(kept) >= FailureThreshold THEN now ELSE trippedAt
    BY <1>4 DEF RecordFailure
  <2> HIDE DEF kept
  <2>c. Gate!Cardinality(gateKept) = Cardinality(gateKept)
    BY DEF Gate!Cardinality, Cardinality
  <2>3. /\ failures' = gateKept
        /\ trippedAt' = IF Gate!Cardinality(gateKept) >= FailureThreshold
                           THEN now ELSE trippedAt
    BY <2>1, <2>2, <2>c
  <2> QED
    BY <2>3 DEF Gate!RecordFailure
<1>5. MarkExecuted(ctx[e].signal) <=> Gate!MarkExecuted(RunningNow.signal)
  BY <1>1 DEF MarkExecuted, Gate!MarkExecuted
<1> QED
  BY <1>1, <1>3, <1>4, <1>5 DEF Finish, Gate!Finish, breakerVars

LEMMA GateStep ==
  ASSUME IInv, IInv', [Next]_vars
  PROVE  [Gate!GateNext]_(Gate!gateVars)
<1> USE DEF Gate!gateVars
<1>t. TypeOK
  BY DEF IInv
<1>0. ASSUME ctx' = ctx
      PROVE  RunningNow' = RunningNow
  BY <1>0 DEF RunningNow, PendingExecution, Idle, Pending
<1>i. Idle <=> RunningNow = None
  <2>1. CASE Idle
    BY <2>1 DEF RunningNow
  <2>2. CASE ~Idle
    BY <2>2, RunningIsPending DEF Idle
  <2> QED
    BY <2>1, <2>2
<1>d. /\ IsOpenAnswersFalse => Gate!IsOpenAnswersFalse
      /\ Remembered = Gate!Remembered
      /\ Gate!Idle <=> RunningNow = None
  BY DEF IsOpenAnswersFalse, IsOpen, Gate!IsOpenAnswersFalse, Gate!IsOpen, Remembered,
         Gate!Remembered, Gate!Idle
<1>1. CASE Refuse
  BY <1>1, <1>0, <1>i, <1>d DEF Refuse, Gate!GateNext, Gate!Refuse, historyVars
<1>2. CASE PollBreaker
  BY <1>2, <1>0, <1>i, <1>d DEF PollBreaker, Gate!GateNext, Gate!PollBreaker, historyVars
<1>3. ASSUME NEW s \in Signals, NEW d \in Directions, NEW z \in Sizes, Execute(s, d, z)
      PROVE  Gate!GateNext
  <2>1. PICK e \in Nat : e = started + 1
    BY <1>t, ExecutorAssumption DEF TypeOK
  <2>2. e \in Executions
    BY <1>3, <2>1, ExecuteOutcome
  <2>3. /\ ctx'[e].state \in Pending
        /\ ctx'[e].signal = s
        /\ ctx'[e].startedAt = now
    BY <1>3, <1>t, <2>1, <2>2 DEF Execute, TypeOK, IdleContext, Pending
  <2>4. RunningNow' = [signal |-> s, began |-> now]
    <3>1. (IInv => RunningInv)'
      BY IInvRunning, PTL
    <3> QED
      BY <2>2, <2>3, <3>1 DEF RunningInv, Pending
  <2>5. ~Gate!IsDuplicate(s)
    BY <1>3, <1>d DEF Execute, IsDuplicate, Gate!IsDuplicate
  <2>6. Gate!Start(s)
    BY <1>3, <1>i, <1>d, <2>4, <2>5 DEF Execute, Gate!Start, historyVars
  <2> QED
    BY <2>6 DEF Gate!GateNext
<1>4. ASSUME NEW e \in Executions, NEW k \in LegNames, Send(e, k) \/ Settle(e, k)
      PROVE  UNCHANGED Gate!gateVars
  BY <1>4, <1>0 DEF Send, Settle, recoveryVars, historyVars
<1>5. ASSUME NEW e \in Executions, ExecutorStep(e)
      PROVE  [Gate!GateNext]_(Gate!gateVars)
  <2>1. CASE Leg1Fails(e) \/ Leg1TimesOut(e) \/ Leg1TooSmall(e) \/ UnwindEnds(e)
    <3>1. Fail(e) /\ ctx[e].state \in Pending
      BY <2>1 DEF Leg1Fails, Leg1TimesOut, Leg1TooSmall, UnwindEnds, Pending
    <3>2. Gate!Finish(TRUE)
      BY <3>1, <1>t, FailFrame, GateFinish DEF Fail, OnlyState
    <3> QED
      BY <3>2 DEF Gate!GateNext
  <2>2. CASE Leg2Succeeds(e)
    <3>1. /\ Finish(e, FALSE)
          /\ ctx[e].state \in Pending
          /\ ctx'[e].state = "DONE"
          /\ \A f \in Executions : f # e => ctx'[f] = ctx[f]
      BY <2>2, <1>t DEF Leg2Succeeds, TypeOK, Context, Pending
    <3>2. Gate!Finish(FALSE)
      BY <3>1, GateFinish
    <3> QED
      BY <3>2 DEF Gate!GateNext
  <2>3. CASE Leg1Succeeds(e) \/ Leg2Fails(e) \/ Leg2TimesOut(e)
    <3>1. ctx[e] \in Context
      BY <1>t DEF TypeOK
    <3>2. \A f \in Executions : /\ ctx[f].state \in Pending <=> ctx'[f].state \in Pending
                                /\ ctx'[f].signal = ctx[f].signal
                                /\ ctx'[f].startedAt = ctx[f].startedAt
      <4>1. /\ \A f \in Executions : f # e => ctx'[f] = ctx[f]
            /\ ctx[e].state \in Pending
            /\ ctx'[e].state \in Pending
            /\ ctx'[e].signal = ctx[e].signal
            /\ ctx'[e].startedAt = ctx[e].startedAt
        <5>1. CASE Leg1Succeeds(e)
          BY <5>1, <1>t DEF Leg1Succeeds, TypeOK, Context, Pending
        <5>2. CASE Leg2Fails(e) \/ Leg2TimesOut(e)
          <6>1. /\ ctx' = [ctx EXCEPT ![e].state = "UNWINDING"]
                /\ ctx[e].state = "LEG2_PENDING"
            BY <5>2 DEF Leg2Fails, Leg2TimesOut, UnwindAfter
          <6> QED
            BY <6>1, <1>t DEF TypeOK, Context, Pending
        <5> QED
          BY <2>3, <5>1, <5>2
      <4> QED
        BY <4>1
    <3>3. RunningNow' = RunningNow
      BY <3>2, RunningSame
    <3> QED
      BY <2>3, <3>3
         DEF Leg1Succeeds, Leg2Fails, Leg2TimesOut, UnwindAfter, recoveryVars, historyVars
  <2> QED
    BY <1>5, <2>1, <2>2, <2>3 DEF ExecutorStep
<1>6. CASE Tick
  BY <1>6, <1>0 DEF Tick, Gate!GateNext, Gate!Tick, breakerVars, historyVars
<1>7. CASE UNCHANGED vars
  BY <1>7, <1>0 DEF vars
<1> QED
  BY <1>1, <1>2, <1>3, <1>4, <1>5, <1>6, <1>7 DEF Next

\* The executor implements GatedExecution (engine.service.ts 88-137): through
\* whatever its legs do, executions do not overlap, every failed one reaches
\* the breaker and every finished one the replay protection.
THEOREM ImplementsGate == Spec => GateSpec
<1>1. Init => Gate!GateInit
  <2> SUFFICES ASSUME Init PROVE Gate!GateInit
    OBVIOUS
  <2>1. Idle
    BY DEF Init, Idle, IdleContext, Pending
  <2> QED
    BY <2>1 DEF Init, RecoveryInit, Gate!GateInit, Gate!RecoveryInit, RunningNow
<1>2. IInv /\ IInv' /\ [Next]_vars => [Gate!GateNext]_(Gate!gateVars)
  BY GateStep
<1> QED
  BY <1>1, <1>2, IInvariant, PTL DEF Spec, GateSpec, Gate!GatedSpec

-----------------------------------------------------------------------------
(* The tracker follows the executions that are DONE *)

\* What the legs of an execution moved at a venue.
MovedOf(e, v) ==
  MovedBy(legs[e]["leg1"], v) + MovedBy(legs[e]["leg2"], v) + MovedBy(legs[e]["unwind"], v)

LEMMA MovedOfType ==
  ASSUME TypeOK, NEW e \in Executions, NEW v
  PROVE  MovedOf(e, v) \in Int
<1>1. \A k \in LegNames : legs[e][k].filled \in Nat
  BY DEF TypeOK, Leg
<1>2. \A k \in LegNames : MovedBy(legs[e][k], v) \in Int
  BY <1>1 DEF MovedBy, Moved
<1>. QED  BY <1>2 DEF MovedOf, LegNames

\* The sums that MovedAt takes.
LEMMA MovedAtSums ==
  ASSUME TypeOK, NEW v
  PROVE  /\ IsFiniteSet(DoneExecutions) /\ DoneExecutions \in SUBSET Executions
         /\ [e \in DoneExecutions |-> MovedOf(e, v)] \in [DoneExecutions -> Int]
         /\ MovedAt(v) = SumFunction([e \in DoneExecutions |-> MovedOf(e, v)])
         /\ MovedAt(v) \in Int
         /\ Cardinality(DoneExecutions) \in Nat
<1>1. IsFiniteSet(Executions)
  BY FS_Interval, ExecutorAssumption DEF Executions
<1>2. IsFiniteSet(DoneExecutions) /\ DoneExecutions \in SUBSET Executions
  BY <1>1, FS_Subset DEF DoneExecutions
<1>3. [e \in DoneExecutions |-> MovedOf(e, v)] \in [DoneExecutions -> Int]
  BY <1>2, MovedOfType
<1>4. MovedAt(v) = SumFunction([e \in DoneExecutions |-> MovedOf(e, v)])
  BY DEF MovedAt, MovedOf
<1>. QED  BY <1>2, <1>3, <1>4, SumType, FS_CardinalityType

\* A step of the executor is about an execution that is pending, and changes
\* no other.
LEMMA OtherLegs ==
  ASSUME TypeOK, NEW e \in Executions, ExecutorStep(e)
  PROVE  /\ ctx[e].state \in Pending
         /\ \A f \in Executions : f # e => legs'[f] = legs[f]
<1>1. ctx[e].state \in Pending
  BY DEF ExecutorStep, Leg1Fails, Leg1TimesOut, Leg1TooSmall, Leg1Succeeds, Leg2Succeeds,
         Leg2Fails, Leg2TimesOut, UnwindEnds, Pending
<1>2. SUFFICES ASSUME NEW f \in Executions, f # e
               PROVE  legs'[f] = legs[f]
  BY <1>1
<1>3. \A k \in LegNames : Ended(e, k)[f] = legs[f]
  BY <1>2, EndedLegs
<1>4. \A k \in LegNames : Ended(e, k) \in LegsType
  BY EndedType
<1>5. CASE Leg1Fails(e) \/ Leg1TimesOut(e) \/ Leg1TooSmall(e) \/ Leg2Succeeds(e) \/ UnwindEnds(e)
  BY <1>3, <1>5
     DEF Leg1Fails, Leg1TimesOut, Leg1TooSmall, Leg2Succeeds, UnwindEnds, LegNames
<1>6. CASE Leg1Succeeds(e)
  BY <1>2, <1>3, <1>4, <1>6 DEF Leg1Succeeds, LegNames, LegsType
<1>7. CASE Leg2Fails(e)
  BY <1>2, <1>3, <1>4, <1>7 DEF Leg2Fails, UnwindAfter, LegNames, LegsType
<1>8. CASE Leg2TimesOut(e)
  BY <1>2, <1>8 DEF Leg2TimesOut, UnwindAfter, TypeOK
<1>. QED  BY <1>5, <1>6, <1>7, <1>8 DEF ExecutorStep

\* The legs of an execution that is DONE are over.
LEMMA DoneLegsStay ==
  ASSUME IInv, [Next]_vars, ~config.simulationMode, NEW e \in DoneExecutions
  PROVE  legs'[e] = legs[e]
<1>1. TypeOK /\ e \in Executions /\ ctx[e].state = "DONE"
  BY DEF IInv, DoneExecutions
<1>2. /\ legs[e]["leg1"].phase = "settled"
      /\ legs[e]["leg2"].phase = "settled"
      /\ legs[e]["unwind"].phase = "none"
  BY <1>1 DEF IInv, ExecInv, Leg2Inv, UnwindInv, DoneInv, NoLeg
<1>3. ASSUME NEW s \in Signals, NEW d \in Directions, NEW z \in Sizes, Execute(s, d, z)
      PROVE  legs'[e] = legs[e]
  <2>1. started + 1 \in Executions /\ started + 1 \in Nat
    BY <1>1, <1>3, ExecuteFrame, ExecutorAssumption DEF TypeOK
  <2>2. ctx[started + 1].state = "IDLE"
    BY <1>3, <2>1, ExecuteOutcome
  <2>. QED  BY <1>1, <1>3, <2>2 DEF Execute, TypeOK
<1>4. ASSUME NEW f \in Executions, NEW k \in LegNames, Send(f, k) \/ Settle(f, k)
      PROVE  legs'[e] = legs[e]
  <2>1. legs[f][k].phase \in {"calling", "live"}
    BY <1>4 DEF Send, Settle
  <2>2. f # e
    BY <1>2, <2>1 DEF LegNames
  <2>. QED  BY <1>1, <1>4, <2>2 DEF Send, Settle, TypeOK
<1>5. ASSUME NEW f \in Executions, ExecutorStep(f)
      PROVE  legs'[e] = legs[e]
  BY <1>1, <1>5, OtherLegs DEF Pending
<1>6. CASE Refuse \/ PollBreaker \/ Tick \/ UNCHANGED vars
  BY <1>6 DEF Refuse, PollBreaker, Tick, vars
<1>. QED  BY <1>3, <1>4, <1>5, <1>6 DEF Next

\* Only the success of a second leg adds an execution, and books it.
LEMMA OthersBookNothing ==
  ASSUME IInv, [Next]_vars, \A e \in Executions : ~Leg2Succeeds(e)
  PROVE  DoneExecutions' = DoneExecutions /\ inventory' = inventory /\ config' = config
<1> DEFINE Same == DoneExecutions' = DoneExecutions /\ inventory' = inventory
                   /\ config' = config
<1>1. ASSUME NEW e \in Executions, NEW new \in {"open", "failed"}, Outcomes(e, new),
             ctx[e].state # "DONE"
      PROVE  DoneExecutions' = DoneExecutions
  <2>1. ctx'[e].state # "DONE"
    BY <1>1 DEF Outcomes, Outcome, Pending
  <2>. QED  BY <1>1, <2>1 DEF Outcomes, DoneExecutions
<1>2. ASSUME NEW s \in Signals, NEW d \in Directions, NEW z \in Sizes, Execute(s, d, z)
      PROVE  Same
  <2>1. started + 1 \in Nat
    BY ExecutorAssumption DEF IInv, TypeOK
  <2>2. /\ started + 1 \in Executions
        /\ ctx[started + 1].state = "IDLE"
        /\ Outcomes(started + 1, "open")
    BY <1>2, <2>1, ExecuteOutcome
  <2>. QED  BY <1>1, <1>2, <2>2 DEF Execute
<1>3. ASSUME NEW e \in Executions, NEW k \in LegNames, Send(e, k) \/ Settle(e, k)
      PROVE  Same
  BY <1>3 DEF Send, Settle, DoneExecutions
<1>4. ASSUME NEW e \in Executions, ExecutorStep(e)
      PROVE  Same
  <2>1. CASE Leg1Fails(e) \/ Leg1TimesOut(e) \/ Leg1TooSmall(e) \/ UnwindEnds(e)
    <3>1. ctx[e].state \in Pending /\ Outcomes(e, "failed")
      BY <2>1, FailOutcome
    <3>. QED
      BY <1>1, <2>1, <3>1
         DEF Leg1Fails, Leg1TimesOut, Leg1TooSmall, UnwindEnds, Fail, Finish, Pending
  <2>2. CASE Leg1Succeeds(e) \/ Leg2Fails(e) \/ Leg2TimesOut(e)
    <3>1. ctx[e].state \in Pending /\ Outcomes(e, "open")
      BY <2>2, CallOutcome
    <3>. QED
      BY <1>1, <2>2, <3>1 DEF Leg1Succeeds, Leg2Fails, Leg2TimesOut, UnwindAfter, Pending
  <2>. QED  BY <1>4, <2>1, <2>2 DEF ExecutorStep
<1>5. CASE Refuse \/ PollBreaker \/ Tick \/ UNCHANGED vars
  BY <1>5 DEF Refuse, PollBreaker, Tick, vars, DoneExecutions
<1>. QED  BY <1>2, <1>3, <1>4, <1>5 DEF Next

\* What recordTrades books of an execution is what its legs moved, up to the
\* error of the swap.
Booking(e, v) ==
  Signed(v, ctx[e].direction,
         IF v = Leg1Venue THEN ctx[e].leg1FillSize ELSE Reported(legs[e]["leg2"]))

LEMMA BookingIsMoved ==
  ASSUME IInv, NEW e \in Executions, Leg2Succeeds(e), ~config.simulationMode
  PROVE  /\ legs' = legs
         /\ Booking(e, "cex") = MovedOf(e, "cex")
         /\ Booking(e, "dex") \in Int
         /\ Within(Booking(e, "dex") - MovedOf(e, "dex"), MaxSlip)
<1> DEFINE one == legs[e]["leg1"]
           two == legs[e]["leg2"]
           c == ctx[e]
<1>1. /\ TypeOK /\ ExecInv(e) /\ c.state = "LEG2_PENDING"
      /\ two.phase = "settled" /\ two.filled > 0
      /\ legs' = Ended(e, "leg2")
  BY DEF IInv, Leg2Succeeds, Succeeds
<1>2. legs' = legs
  BY <1>1 DEF Ended
<1>3. one \in Leg /\ two \in Leg /\ c \in Context /\ MaxSlip \in Nat
  BY <1>1, ExecutorAssumption DEF TypeOK, LegNames
<1>4. legs[e]["unwind"] = NoLeg
  BY <1>1 DEF ExecInv, UnwindInv
<1>5. /\ CalledAs(one, Leg1Venue, SideAt(Leg1Venue, c.direction), c.size)
      /\ CalledAs(two, Leg2Venue, SideAt(Leg2Venue, c.direction), c.leg1FillSize)
      /\ c.leg1FillSize = Reported(one)
      /\ one.filled > 0
      /\ FillOK(one) /\ FillOK(two)
  BY <1>1 DEF ExecInv, Leg1Inv, Leg2Inv, LegsInv, LegNames
<1>6. ASSUME NEW v \in Venues
      PROVE  MovedBy(NoLeg, v) = 0
  <2>1. NoLeg.filled = 0
    BY DEF NoLeg
  <2>2. Moved(NoLeg) = 0
    <3>1. \A x \in Int : x <= 0 /\ x >= 0 => -x = 0
      OBVIOUS
    <3>2. Moved(NoLeg) \in {NoLeg.filled, -NoLeg.filled}
      BY DEF Moved
    <3>. QED  BY <2>1, <3>1, <3>2
  <2>. QED  BY <2>2 DEF MovedBy
<1>7. /\ Leg1Venue \in Venues /\ Leg2Venue \in Venues /\ Leg1Venue # Leg2Venue
      /\ Venues = {"cex", "dex"}
  BY DEF Leg1Venue, Leg2Venue, Venues
<1>8. ASSUME NEW leg \in {one, two}
      PROVE  /\ leg.venue = "cex" =>
                  Signed("cex", c.direction, Reported(leg)) = MovedBy(leg, "cex")
             /\ leg.venue = "dex" =>
                  /\ Signed("dex", c.direction, Reported(leg)) \in Int
                  /\ Within(Signed("dex", c.direction, Reported(leg)) - MovedBy(leg, "dex"),
                            MaxSlip)
  <2>1. /\ leg \in Leg /\ leg.filled > 0 /\ FillOK(leg)
        /\ leg.side = SideAt(leg.venue, c.direction)
    BY <1>1, <1>3, <1>5 DEF CalledAs
  <2>2. leg.filled \in Nat /\ leg.size \in Nat
    BY <2>1 DEF Leg
  <2>3. leg.venue = "cex" => Reported(leg) = leg.filled
    BY DEF Reported
  <2>4. leg.venue = "dex" => Reported(leg) = leg.size
    BY DEF Reported
  <2>5. leg.venue = "cex" => Signed("cex", c.direction, Reported(leg)) = MovedBy(leg, "cex")
    BY <2>1, <2>3 DEF Signed, MovedBy, Moved
  <2>6. leg.venue = "dex" /\ leg.side = "sell" => leg.filled = leg.size
    BY <2>1, <2>2 DEF FillOK
  <2>7. leg.venue = "dex" =>
          /\ Signed("dex", c.direction, Reported(leg)) \in Int
          /\ Within(Signed("dex", c.direction, Reported(leg)) - MovedBy(leg, "dex"), MaxSlip)
    <3> SUFFICES ASSUME leg.venue = "dex"
                 PROVE  /\ Signed("dex", c.direction, leg.size) \in Int
                        /\ Within(Signed("dex", c.direction, leg.size) - Moved(leg), MaxSlip)
      BY <2>4 DEF MovedBy
    <3>1. CASE leg.side = "buy"
      BY <1>3, <2>1, <2>2, <3>1 DEF Signed, Moved, FillOK, Within
    <3>2. CASE leg.side # "buy"
      <4>1. leg.side = "sell"
        BY <2>1, <3>2 DEF SideAt
      <4>. QED  BY <1>3, <2>1, <2>2, <2>6, <3>2, <4>1 DEF Signed, Moved, Within
    <3>. QED  BY <3>1, <3>2
  <2>. QED  BY <2>5, <2>7
<1>9. ASSUME NEW v \in Venues
      PROVE  \E leg \in {one, two} :
               /\ leg.venue = v
               /\ MovedOf(e, v) = MovedBy(leg, v)
               /\ Booking(e, v) = Signed(v, c.direction, Reported(leg))
  <2>1. \A k \in LegNames : legs[e][k].filled \in Nat
    BY <1>1 DEF TypeOK, Leg
  <2>2. MovedBy(one, v) \in Int /\ MovedBy(two, v) \in Int
    BY <2>1 DEF MovedBy, Moved, LegNames
  <2>3. CASE v = Leg1Venue
    <3>1. one.venue = v /\ two.venue # v
      BY <1>5, <1>7, <2>3 DEF CalledAs
    <3>2. MovedBy(two, v) = 0
      BY <3>1 DEF MovedBy
    <3>. QED  BY <1>4, <1>5, <1>6, <2>2, <2>3, <3>1, <3>2 DEF MovedOf, Booking
  <2>4. CASE v # Leg1Venue
    <3>1. two.venue = v /\ one.venue # v
      BY <1>5, <1>7, <2>4 DEF CalledAs
    <3>2. MovedBy(one, v) = 0
      BY <3>1 DEF MovedBy
    <3>. QED  BY <1>4, <1>6, <2>2, <2>4, <3>1, <3>2 DEF MovedOf, Booking
  <2>. QED  BY <2>3, <2>4
<1>. QED  BY <1>2, <1>7, <1>8, <1>9

\* The tracker's balances are what the legs of all executions that are DONE
\* moved, none left out and none booked twice, exactly at the exchange and up
\* to the error of a swap each in the wallet (recordTrades 522-580).
THEOREM InventoryFollows == Spec => []InventoryFollowsDone
<1>1. Init => InventoryFollowsDone
  <2> SUFFICES ASSUME Init
               PROVE  InventoryFollowsDone
    OBVIOUS
  <2>1. DoneExecutions = {} /\ inventory["cex"] = 0 /\ inventory["dex"] = 0
    BY DEF Init, DoneExecutions, IdleContext, Venues
  <2>2. \A v : MovedAt(v) = 0
    <3> SUFFICES ASSUME NEW v
                 PROVE  MovedAt(v) = 0
      OBVIOUS
    <3>1. [e \in {} |-> MovedOf(e, v)] \in [{} -> Int]
      OBVIOUS
    <3>2. MovedAt(v) = SumFunction([e \in {} |-> MovedOf(e, v)])
      BY <2>1 DEF MovedAt, MovedOf
    <3>. QED  BY <3>1, <3>2, SumOfNothing
  <2>3. Cardinality(DoneExecutions) = 0
    BY <2>1, FS_EmptySet
  <2>. QED  BY <2>1, <2>2, <2>3, ExecutorAssumption DEF InventoryFollowsDone, Within
<1>2. IInv /\ IInv' /\ InventoryFollowsDone /\ [Next]_vars => InventoryFollowsDone'
  <2> SUFFICES ASSUME IInv, IInv', InventoryFollowsDone, [Next]_vars, ~config'.simulationMode
               PROVE  /\ inventory'["cex"] = MovedAt("cex")'
                      /\ Within(inventory'["dex"] - MovedAt("dex")',
                                MaxSlip * Cardinality(DoneExecutions'))
    BY DEF InventoryFollowsDone
  <2>1. TypeOK /\ TypeOK' /\ MaxSlip \in Nat
    BY ExecutorAssumption DEF IInv
  <2>2. CASE \A e \in Executions : ~Leg2Succeeds(e)
    <3>1. DoneExecutions' = DoneExecutions /\ inventory' = inventory /\ config' = config
      BY <2>2, OthersBookNothing
    <3>2. ASSUME NEW v
          PROVE  MovedAt(v)' = MovedAt(v)
      <4>1. \A e \in DoneExecutions : legs'[e] = legs[e]
        BY <3>1, DoneLegsStay
      <4>. QED  BY <3>1, <4>1 DEF MovedAt, MovedBy, Moved
    <3>. QED  BY <3>1, <3>2 DEF InventoryFollowsDone
  <2>3. ASSUME NEW e \in Executions, Leg2Succeeds(e)
        PROVE  /\ inventory'["cex"] = MovedAt("cex")'
               /\ Within(inventory'["dex"] - MovedAt("dex")',
                         MaxSlip * Cardinality(DoneExecutions'))
    <3>1. config' = config
      BY <2>3 DEF Leg2Succeeds, Finish
    <3>2. /\ legs' = legs
          /\ Booking(e, "cex") = MovedOf(e, "cex")
          /\ Booking(e, "dex") \in Int
          /\ Within(Booking(e, "dex") - MovedOf(e, "dex"), MaxSlip)
      BY <2>3, <3>1, BookingIsMoved
    <3>3. e \notin DoneExecutions /\ DoneExecutions' = DoneExecutions \cup {e}
      BY <2>1, <2>3 DEF Leg2Succeeds, DoneExecutions, TypeOK
    <3>4. \A v \in Venues : inventory'[v] = inventory[v] + Booking(e, v)
      BY <2>3 DEF Leg2Succeeds, RecordTrades, Booking
    <3>5. ASSUME NEW v
          PROVE  MovedAt(v)' = MovedOf(e, v) + MovedAt(v)
      <4> DEFINE S == DoneExecutions
                 old == [f \in S |-> MovedOf(f, v)]
                 new == [f \in S \cup {e} |-> MovedOf(f, v)]
      <4>1. IsFiniteSet(S) /\ old \in [S -> Int] /\ MovedAt(v) = SumFunction(old)
        BY <2>1, MovedAtSums
      <4>2. MovedAt(v)' = SumFunction(new)
        BY <3>2, <3>3 DEF MovedAt, MovedOf, MovedBy, Moved
      <4>3. new \in [S \cup {e} -> Int]
        BY <2>1, MovedOfType DEF DoneExecutions
      <4>4. new[e] = MovedOf(e, v) /\ \A f \in S : new[f] = old[f]
        OBVIOUS
      <4> HIDE DEF S, old, new
      <4>5. SumFunction(new) = new[e] + SumFunction(old)
        BY <3>3, <4>1, <4>3, <4>4, SumWithTerm DEF S
      <4>. QED  BY <4>1, <4>2, <4>4, <4>5
    <3>6. Cardinality(DoneExecutions') = Cardinality(DoneExecutions) + 1
      BY <2>1, <3>3, MovedAtSums, FS_AddElement
    <3>7. /\ MovedAt("cex") \in Int /\ MovedAt("dex") \in Int
          /\ MovedOf(e, "cex") \in Int /\ MovedOf(e, "dex") \in Int
          /\ inventory["cex"] \in Int /\ inventory["dex"] \in Int
          /\ Cardinality(DoneExecutions) \in Nat
      BY <2>1, MovedAtSums, MovedOfType DEF TypeOK, Venues
    <3>8. MaxSlip * (Cardinality(DoneExecutions) + 1)
            = MaxSlip * Cardinality(DoneExecutions) + MaxSlip
      BY <2>1, <3>7
    <3>9. /\ inventory["cex"] = MovedAt("cex")
          /\ Within(inventory["dex"] - MovedAt("dex"), MaxSlip * Cardinality(DoneExecutions))
      BY <3>1 DEF InventoryFollowsDone
    <3>10. inventory'["cex"] = MovedAt("cex")'
      BY <3>2, <3>4, <3>5, <3>7, <3>9 DEF Venues
    <3>11. Within(inventory'["dex"] - MovedAt("dex")', MaxSlip * Cardinality(DoneExecutions'))
      <4> DEFINE n == MaxSlip * Cardinality(DoneExecutions)
                 i == inventory["dex"]
                 m == MovedAt("dex")
                 b == Booking(e, "dex")
                 o == MovedOf(e, "dex")
      <4>1. n \in Int /\ i \in Int /\ m \in Int /\ b \in Int /\ o \in Int
        BY <2>1, <3>2, <3>7
      <4>2. Within(i - m, n) /\ Within(b - o, MaxSlip)
        BY <3>2, <3>9
      <4>3. inventory'["dex"] = i + b /\ MovedAt("dex")' = o + m
        BY <3>4, <3>5 DEF Venues
      <4>4. MaxSlip * Cardinality(DoneExecutions') = n + MaxSlip
        BY <3>6, <3>8
      <4> HIDE DEF n, i, m, b, o
      <4>5. Within((i + b) - (o + m), n + MaxSlip)
        BY <2>1, <4>1, <4>2 DEF Within
      <4>. QED  BY <4>3, <4>4, <4>5
    <3>. QED  BY <3>10, <3>11
  <2>. QED  BY <2>2, <2>3
<1>. QED  BY <1>1, <1>2, IInvariant, PTL DEF Spec
=============================================================================
