------------------------------ MODULE Executor ------------------------------
(***************************************************************************)
(* The executor of two-legged arbitrage trades (executor/engine): pre-     *)
(* flight checks, a leg on the exchange (cex) and a leg on the chain       *)
(* (dex), in either order, and the unwind of the first leg.                *)
(*                                                                         *)
(* A leg is an asynchronous call that withTimeout races against a timer.   *)
(* Losing the race does not cancel it: the call runs on, its order reaches *)
(* the venue and fills although the executor has moved on.  So every leg   *)
(* of every execution has a life of its own here (legs), beside the        *)
(* context of the execution that started it (ctx).                         *)
(*                                                                         *)
(* Amounts are base amounts in lots.  Prices, fees and PnL are left out.   *)
(* Between two awaits nothing else runs, so a handler is one action from   *)
(* the answer it awaited to the next call; the states VALIDATING and       *)
(* LEG1_FILLED are entered and left inside one and never seen.             *)
(***************************************************************************)
EXTENDS Recovery, Functions

CONSTANTS
  MaxExecutions,  \* bound: executions that get past the pre-flight checks
  MaxTime,        \* bound: the clock stops here
  Modes,          \* executor configurations to start from
  Sizes,          \* signal sizes
  StepSize,       \* LOT_SIZE step of the exchange
  MinFillBps,     \* minFillRatio, scaled by 10000 as the code does
  MaxSlip,        \* a swap returns the base it is asked for up to this error
  MaxExposure     \* base an execution may hold unhedged

ASSUME ExecutorAssumption ==
  /\ MaxExecutions \in Nat
  /\ MaxTime \in Nat
  /\ Modes \subseteq [useFlashbots : BOOLEAN, simulationMode : BOOLEAN]
  /\ Sizes \subseteq Nat \ {0}
  /\ StepSize \in Nat \ {0}
  /\ MinFillBps \in 0..10000
  /\ MaxSlip \in Nat
  /\ MaxExposure \in Nat
  /\ \A z \in Sizes : z + MaxSlip <= MaxExposure
  /\ None \notin [signal : Signals, began : Nat]

VARIABLES
  config,     \* useFlashbots and simulationMode; fixed by the constructor
  started,    \* executions begun so far
  ctx,        \* ExecutionContext of each execution
  legs,       \* the three calls an execution can make, and what became of them
  inventory,  \* free base of each venue in InventoryTracker, from its start value
  failLog,    \* history: failed executions (see GatedExecution)
  runs        \* history: finished executions (see GatedExecution)

vars == <<now, failures, trippedAt, executed, config, started, ctx, legs,
          inventory, failLog, runs>>
recoveryVars == <<now, failures, trippedAt, executed>>
historyVars == <<failLog, runs>>

Executions == 1..MaxExecutions
LegNames == {"leg1", "leg2", "unwind"}
Venues == {"cex", "dex"}
Directions == {"BUY_CEX_SELL_DEX", "BUY_DEX_SELL_CEX"}
Pending == {"LEG1_PENDING", "LEG2_PENDING", "UNWINDING"}
States == Pending \cup {"IDLE", "DONE", "FAILED"}

\* A leg: not called; called, but nothing is sent yet; its order or transaction
\* is at the venue; the venue has executed it; the call ended with nothing sent.
Phases == {"none", "calling", "live", "settled", "unsent"}

Context == [state : States, signal : Signals \cup {None}, direction : Directions \cup {None},
            size : Nat, leg1FillSize : Nat, leg2FillSize : Nat, startedAt : Nat]
Leg == [phase : Phases, venue : Venues \cup {None}, side : {"buy", "sell", None},
        size : Nat, filled : Nat]

IdleContext == [state |-> "IDLE", signal |-> None, direction |-> None, size |-> 0,
                leg1FillSize |-> 0, leg2FillSize |-> 0, startedAt |-> 0]
NoLeg == [phase |-> "none", venue |-> None, side |-> None, size |-> 0, filled |-> 0]

\* Types of the executor's variables.
TypeOK ==
  /\ RecoveryTypeOK
  /\ config \in Modes
  /\ started \in 0..MaxExecutions
  /\ ctx \in [Executions -> Context]
  /\ legs \in [Executions -> [LegNames -> Leg]]
  /\ inventory \in [Venues -> Int]

Init ==
  /\ RecoveryInit
  /\ config \in Modes
  /\ started = 0
  /\ ctx = [e \in Executions |-> IdleContext]
  /\ legs = [e \in Executions |-> [k \in LegNames |-> NoLeg]]
  /\ inventory = [v \in Venues |-> 0]
  /\ failLog = {}
  /\ runs = {}

-----------------------------------------------------------------------------
(* What a leg asks its venue for *)

\* An unwind that repeats the side of the leg it should reverse.
OppositeSame(side) == side

Opposite(side) == IF side = "buy" THEN "sell" ELSE "buy"

\* The side of the base trade a direction makes at a venue.
SideAt(venue, direction) ==
  IF (venue = "cex") = (direction = "BUY_CEX_SELL_DEX") THEN "buy" ELSE "sell"

Leg1Venue == IF config.useFlashbots THEN "dex" ELSE "cex"
Leg2Venue == IF config.useFlashbots THEN "cex" ELSE "dex"

\* roundQuantity: down to a multiple of the step.
RoundQuantity(size) == (size \div StepSize) * StepSize

\* What reaches the venue: the exchange is asked for whole steps.
OrderSize(venue, size) == IF venue = "cex" THEN RoundQuantity(size) ELSE size

\* What a venue can make of an order.  The exchange fills any number of steps
\* of it; a swap reverts, or sells exactly its input, or buys what its input
\* is worth, which slippage and price moves keep within MaxSlip of the size.
Fills(leg) ==
  LET order == OrderSize(leg.venue, leg.size) IN
  IF leg.venue = "cex"
    THEN {f \in 0..order : f % StepSize = 0}
    ELSE IF leg.side = "sell" THEN {0, order}
    ELSE {0} \cup {f \in (order - MaxSlip)..(order + MaxSlip) : f >= 0}

Called(venue, side, size) ==
  [phase |-> "calling", venue |-> venue, side |-> side, size |-> size, filled |-> 0]

\* LegResult.filled of a leg that succeeded: the exchange reports its fill,
\* the swap leg reports the size it was asked for.
Reported(leg) ==
  IF leg.venue = "cex" /\ ~config.simulationMode THEN leg.filled ELSE leg.size

-----------------------------------------------------------------------------
(* execute(): the pre-flight checks *)

Idle == \A e \in Executions : ctx[e].state \notin Pending

\* A call that passes the breaker and is refused by a later check: the id is
\* a duplicate, the signal is not valid (any more), or the tracker shows too
\* little inventory.  Refused by an open breaker, a call changes nothing.
Refuse ==
  /\ Idle
  /\ IsOpenAnswersFalse
  /\ \E s \in Signals, valid \in BOOLEAN, stocked \in BOOLEAN :
       IsDuplicate(s) \/ ~valid \/ ~stocked
  /\ executed' = Remembered
  /\ UNCHANGED <<now, config, started, ctx, legs, inventory, historyVars>>

\* isCircuitBreakerOpen(), which the bot asks before it calls execute.
PollBreaker ==
  /\ Idle
  /\ IsOpenAnswersFalse
  /\ UNCHANGED <<now, executed, config, started, ctx, legs, inventory, historyVars>>

\* An execute that forgets to ask the replay protection.
ExecuteUnchecked(s, d, z) ==
  LET e == started + 1 IN
  /\ Idle
  /\ started < MaxExecutions
  /\ IsOpenAnswersFalse
  /\ executed' = Remembered
  /\ started' = e
  /\ ctx' = [ctx EXCEPT ![e] = [IdleContext EXCEPT !.state = "LEG1_PENDING",
                !.signal = s, !.direction = d, !.size = z, !.startedAt = now]]
  /\ legs' = [legs EXCEPT ![e]["leg1"] = Called(Leg1Venue, SideAt(Leg1Venue, d), z)]
  /\ UNCHANGED <<now, config, inventory, historyVars>>

\* A call that passes every check calls its first leg.
Execute(s, d, z) ==
  LET e == started + 1 IN
  /\ Idle
  /\ started < MaxExecutions
  /\ IsOpenAnswersFalse
  /\ ~IsDuplicate(s)
  /\ executed' = Remembered
  /\ started' = e
  /\ ctx' = [ctx EXCEPT ![e] = [IdleContext EXCEPT !.state = "LEG1_PENDING",
                !.signal = s, !.direction = d, !.size = z, !.startedAt = now]]
  /\ legs' = [legs EXCEPT ![e]["leg1"] = Called(Leg1Venue, SideAt(Leg1Venue, d), z)]
  /\ UNCHANGED <<now, config, inventory, historyVars>>

-----------------------------------------------------------------------------
(* The venues: a leg called by an execution that may be long over *)

\* createLimitIocOrder, createMarketOrder or sendAndWait gets the order out.
\* An order rounded to nothing is never sent.
Send(e, k) ==
  /\ ~config.simulationMode
  /\ legs[e][k].phase = "calling"
  /\ OrderSize(legs[e][k].venue, legs[e][k].size) > 0
  /\ legs' = [legs EXCEPT ![e][k].phase = "live"]
  /\ UNCHANGED <<recoveryVars, config, started, ctx, inventory, historyVars>>

\* The exchange matches the order, or the swap is mined.
Settle(e, k) ==
  /\ legs[e][k].phase = "live"
  /\ \E f \in Fills(legs[e][k]) :
       legs' = [legs EXCEPT ![e][k] = [@ EXCEPT !.phase = "settled", !.filled = f]]
  /\ UNCHANGED <<recoveryVars, config, started, ctx, inventory, historyVars>>

-----------------------------------------------------------------------------
(* How an awaited call ends *)

\* The call returns success: what it did at the venue is known.
Succeeds(e, k) ==
  IF config.simulationMode
    THEN legs[e][k].phase = "calling"
    ELSE legs[e][k].phase = "settled" /\ legs[e][k].filled > 0

\* A call that ended can send nothing any more.
Ended(e, k) ==
  IF legs[e][k].phase = "calling"
    THEN [legs EXCEPT ![e][k].phase = "unsent"]
    ELSE legs

\* The end of execute(): markExecuted, then recordFailure unless DONE.
Finish(e, failed) ==
  /\ MarkExecuted(ctx[e].signal)
  /\ runs' = runs \cup {[signal |-> ctx[e].signal, began |-> ctx[e].startedAt, ended |-> now]}
  /\ IF failed
       THEN /\ RecordFailure(e)
            /\ failLog' = failLog \cup {[exec |-> e, at |-> now]}
       ELSE UNCHANGED <<breakerVars, failLog>>
  /\ UNCHANGED <<now, config, started>>

Fail(e) ==
  /\ ctx' = [ctx EXCEPT ![e].state = "FAILED"]
  /\ UNCHANGED inventory
  /\ Finish(e, TRUE)

-----------------------------------------------------------------------------
(* executeCexFirst and executeDexFirst *)

\* The first leg is known to have failed: rejected, reverted, not sent, or its
\* answer is an error although the venue may have executed it.  No unwind.
Leg1Fails(e) ==
  /\ ctx[e].state = "LEG1_PENDING"
  /\ ~config.simulationMode
  /\ legs' = Ended(e, "leg1")
  /\ Fail(e)

\* The timer wins.  No unwind; the leg runs on.
Leg1TimesOut(e) ==
  /\ ctx[e].state = "LEG1_PENDING"
  /\ UNCHANGED legs
  /\ Fail(e)

\* executeCexFirst only: a fill below minFillRatio ends the execution.
BelowMinFill(e) ==
  /\ ~config.useFlashbots
  /\ (Reported(legs[e]["leg1"]) * 10000) \div ctx[e].size < MinFillBps

Leg1TooSmall(e) ==
  /\ ctx[e].state = "LEG1_PENDING"
  /\ Succeeds(e, "leg1")
  /\ BelowMinFill(e)
  /\ legs' = Ended(e, "leg1")
  /\ Fail(e)

\* A second leg called with the size of the signal instead of the fill.
Leg1SucceedsFull(e) ==
  /\ ctx[e].state = "LEG1_PENDING"
  /\ Succeeds(e, "leg1")
  /\ ~BelowMinFill(e)
  /\ ctx' = [ctx EXCEPT ![e] = [@ EXCEPT !.state = "LEG2_PENDING",
                                         !.leg1FillSize = Reported(legs[e]["leg1"])]]
  /\ legs' = [Ended(e, "leg1") EXCEPT
                ![e]["leg2"] = Called(Leg2Venue, SideAt(Leg2Venue, ctx[e].direction), ctx[e].size)]
  /\ UNCHANGED <<recoveryVars, config, started, inventory, historyVars>>

\* The first leg fills; the second is called with the size it reports.
Leg1Succeeds(e) ==
  LET size == Reported(legs[e]["leg1"]) IN
  /\ ctx[e].state = "LEG1_PENDING"
  /\ Succeeds(e, "leg1")
  /\ ~BelowMinFill(e)
  /\ ctx' = [ctx EXCEPT ![e] = [@ EXCEPT !.state = "LEG2_PENDING", !.leg1FillSize = size]]
  /\ legs' = [Ended(e, "leg1") EXCEPT
                ![e]["leg2"] = Called(Leg2Venue, SideAt(Leg2Venue, ctx[e].direction), size)]
  /\ UNCHANGED <<recoveryVars, config, started, inventory, historyVars>>

\* What a trade adds to the base held at its venue.
Signed(venue, direction, size) == IF SideAt(venue, direction) = "buy" THEN size ELSE -size

\* A recordTrades that books the first leg's size at both venues.
RecordTradesLeg1(e, size2) ==
  inventory' = [v \in Venues |->
                  inventory[v] + Signed(v, ctx[e].direction, ctx[e].leg1FillSize)]

\* recordTrades: both legs go to the tracker with the sizes they reported.
RecordTrades(e, size2) ==
  inventory' = [v \in Venues |->
                  inventory[v] + Signed(v, ctx[e].direction,
                                        IF v = Leg1Venue THEN ctx[e].leg1FillSize ELSE size2)]

\* The second leg fills, in whatever part: the trade is done and booked.
Leg2Succeeds(e) ==
  LET size == Reported(legs[e]["leg2"]) IN
  /\ ctx[e].state = "LEG2_PENDING"
  /\ Succeeds(e, "leg2")
  /\ ctx' = [ctx EXCEPT ![e] = [@ EXCEPT !.state = "DONE", !.leg2FillSize = size]]
  /\ legs' = Ended(e, "leg2")
  /\ RecordTrades(e, size)
  /\ Finish(e, FALSE)

\* unwind: the opposite of the first leg, at its venue, for its fill.
UnwindAfter(e, before) ==
  LET side == SideAt(Leg1Venue, ctx[e].direction) IN
  /\ ctx' = [ctx EXCEPT ![e].state = "UNWINDING"]
  /\ legs' = [before EXCEPT
                ![e]["unwind"] = Called(Leg1Venue, Opposite(side), ctx[e].leg1FillSize)]
  /\ UNCHANGED <<recoveryVars, config, started, inventory, historyVars>>

\* The second leg is known to have failed, or failed after it was sent.
Leg2Fails(e) ==
  /\ ctx[e].state = "LEG2_PENDING"
  /\ ~config.simulationMode
  /\ UnwindAfter(e, Ended(e, "leg2"))

\* A second leg awaited without a timer.
Leg2NeverTimesOut(e) == FALSE

\* A second leg taken for done when the timer wins.
Leg2TimesOutDone(e) ==
  /\ ctx[e].state = "LEG2_PENDING"
  /\ ctx' = [ctx EXCEPT ![e].state = "DONE"]
  /\ UNCHANGED <<legs, inventory>>
  /\ Finish(e, FALSE)

\* The timer wins; the second leg runs on beside its unwind.
Leg2TimesOut(e) ==
  /\ ctx[e].state = "LEG2_PENDING"
  /\ UnwindAfter(e, legs)

\* unwind returns or throws, at once if there is nothing to send; an error is
\* logged and swallowed.  Either way the execution ends as FAILED.
UnwindEnds(e) ==
  /\ ctx[e].state = "UNWINDING"
  /\ legs' = Ended(e, "unwind")
  /\ Fail(e)

Tick ==
  /\ now < MaxTime
  /\ now' = now + 1
  /\ UNCHANGED <<breakerVars, executed, config, started, ctx, legs, inventory, historyVars>>

-----------------------------------------------------------------------------
ExecutorStep(e) ==
  \/ Leg1Fails(e)
  \/ Leg1TimesOut(e)
  \/ Leg1TooSmall(e)
  \/ Leg1Succeeds(e)
  \/ Leg2Succeeds(e)
  \/ Leg2Fails(e)
  \/ Leg2TimesOut(e)
  \/ UnwindEnds(e)

Next ==
  \/ Refuse
  \/ PollBreaker
  \/ \E s \in Signals, d \in Directions, z \in Sizes : Execute(s, d, z)
  \/ \E e \in Executions, k \in LegNames : Send(e, k) \/ Settle(e, k)
  \/ \E e \in Executions : ExecutorStep(e)
  \/ Tick

Spec == Init /\ [][Next]_vars

\* The timers of withTimeout fire, and the awaited unwind returns or throws:
\* the exchange client and waitForReceipt have timeouts of their own.  Nothing
\* is assumed of the venues.
Fairness ==
  \A e \in Executions :
    /\ WF_vars(Leg1TimesOut(e))
    /\ WF_vars(Leg2TimesOut(e))
    /\ WF_vars(UnwindEnds(e))

FairSpec == Spec /\ Fairness

-----------------------------------------------------------------------------
(* Properties *)

\* Base bought less base sold by a leg, and by an execution.
Moved(leg) == IF leg.side = "buy" THEN leg.filled ELSE -leg.filled
Exposure(e) == Moved(legs[e]["leg1"]) + Moved(legs[e]["leg2"]) + Moved(legs[e]["unwind"])

Within(x, bound) == -bound <= x /\ x <= bound

\* However the timers, lost answers and late fills fall, an execution never
\* holds more base unhedged than one signal size and the error of a swap: an
\* unwind that meets a late second leg doubles nothing up (unwind 429-459 and
\* withTimeout 601-613 of engine.service.ts).
ExposureBounded == \A e \in Executions : Within(Exposure(e), ctx[e].size + MaxSlip)

\* A DONE execution has no call outstanding and no unwind, and is hedged up to
\* the error of a swap and the difference its context shows: none when the
\* exchange goes first, what the exchange did not fill when the swap does.
DoneIsAccounted ==
  \A e \in Executions : ctx[e].state = "DONE" /\ ~config.simulationMode =>
    /\ \A k \in {"leg1", "leg2"} : legs[e][k].phase = "settled"
    /\ legs[e]["unwind"] = NoLeg
    /\ Within(Exposure(e), MaxSlip + ctx[e].leg1FillSize - ctx[e].leg2FillSize)
    /\ ~config.useFlashbots => ctx[e].leg1FillSize = ctx[e].leg2FillSize

\* The tracker books the executions that are DONE, all of them and once: its
\* balances are what their legs moved at each venue, exactly at the exchange
\* and up to the error of their swaps in the wallet (recordTrades 522-580).
DoneExecutions == {e \in Executions : ctx[e].state = "DONE"}
MovedBy(leg, v) == IF leg.venue = v THEN Moved(leg) ELSE 0
MovedAt(v) ==
  SumFunction([e \in DoneExecutions |->
    MovedBy(legs[e]["leg1"], v) + MovedBy(legs[e]["leg2"], v) + MovedBy(legs[e]["unwind"], v)])
InventoryFollowsDone ==
  ~config.simulationMode =>
    /\ inventory["cex"] = MovedAt("cex")
    /\ Within(inventory["dex"] - MovedAt("dex"), MaxSlip * Cardinality(DoneExecutions))

\* Every execution that starts comes to an end, whatever the venues answer.
EveryExecutionEnds ==
  \A e \in Executions :
    ctx[e].state \in Pending ~> ctx[e].state \in {"DONE", "FAILED"}

\* The executor keeps what the gate promises (GatedExecution): in particular
\* its bound on the rate of failures and its freedom from replays.
PendingExecution == CHOOSE e \in Executions : ctx[e].state \in Pending
RunningNow == IF Idle THEN None
              ELSE [signal |-> ctx[PendingExecution].signal,
                    began |-> ctx[PendingExecution].startedAt]
Gate == INSTANCE GatedExecution WITH running <- RunningNow
GateSpec == Gate!GatedSpec

\* The executor keeps what Arbitrage promises of its trades.
Outcome(state) ==
  IF state \in Pending THEN "open"
  ELSE IF state = "IDLE" THEN "none"
  ELSE IF state = "DONE" THEN "done" ELSE "failed"
Arb == INSTANCE Arbitrage WITH
  Trades <- Executions,
  outcome <- [e \in Executions |-> Outcome(ctx[e].state)],
  exposure <- [e \in Executions |-> Exposure(e)]
ArbitrageSpec == Arb!Spec

-----------------------------------------------------------------------------
(* What the documentation says of the executor, and the code does not do *)

\* "Failed trades are unwound back to the original position": an execution
\* that FAILED holds nothing once its own calls are over.
FailedIsUnwound ==
  \A e \in Executions :
    ctx[e].state = "FAILED" /\ (\A k \in LegNames : legs[e][k].phase # "live")
      => Within(Exposure(e), MaxSlip)

\* "the fill-ratio check (not this leg) decides whether to proceed": a trade
\* that is DONE had at least minFillRatio of its exchange order filled.
DoneFillChecked ==
  \A e \in Executions : ctx[e].state = "DONE" /\ ~config.simulationMode =>
    LET leg == legs[e][IF config.useFlashbots THEN "leg2" ELSE "leg1"] IN
    (leg.filled * 10000) \div leg.size >= MinFillBps
=============================================================================
