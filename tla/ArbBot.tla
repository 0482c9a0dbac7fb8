------------------------------- MODULE ArbBot -------------------------------
(***************************************************************************)
(* The bot (integration/arbBot): a depth update of the exchange starts a   *)
(* tick, which finds a signal, checks it against the limits, looks again   *)
(* and executes what it then sees.  Around it run the stop requests, the   *)
(* kill switch file, the daily reset, and the run() that waits for a stop. *)
(*                                                                         *)
(* A tick is asynchronous: one action here goes from the answer it awaited *)
(* to the next await.  The signal generator, the executor (Executor.tla)   *)
(* and the balance sync are seen through what they return.                 *)
(***************************************************************************)
EXTENDS Risk

CONSTANTS
  MaxTicks,        \* bound: ticks that can be under way at a time
  Signals,         \* what the generator can return: [usd, net]
  MinProfit,       \* what minProfitBuffer asks of a signal
  Results,         \* net PnL of an execution that is DONE
  FailedResults,   \* what an execution that FAILED can have lost or won
  WorstLoss,       \* no execution loses more
  InitialCapital,  \* computeCapitalFromInventory at the start
  CacheMs,         \* KILL_SWITCH_CACHE_MS
  MaxTime,         \* bound: the clock stops here
  MaxDay,          \* bound: days
  MaxTrades,       \* bound: trades booked
  None

ASSUME BotAssumption ==
  /\ MaxTicks \in Nat
  /\ Signals \subseteq [usd : Nat, net : Int]
  /\ MinProfit \in Int
  /\ Results \subseteq Int
  /\ FailedResults \subseteq Int
  /\ WorstLoss \in Nat
  /\ \A pnl \in Results : pnl >= -WorstLoss
  /\ \A s \in Signals : s.net >= -WorstLoss
  /\ InitialCapital \in Nat
  /\ CacheMs \in Nat \ {0}
  /\ MaxTime \in Nat
  /\ MaxDay \in Nat
  /\ MaxTrades \in Nat
  /\ None \notin Signals
  /\ None \notin Nat

VARIABLES
  dryRun,        \* botConfig.simulationMode
  run,           \* how far run() is
  gaveUp,        \* the depth stream is not reconnected any more
  stopping,      \* ArbBot.stopping
  stopSending,   \* stop() awaits the message it sends
  ticks,         \* the ticks under way
  tickState,     \* ArbBot.tickState
  killedAt,      \* when the kill switch file appeared, if it did
  killCache,     \* killSwitchCache
  day,           \* new Date().getUTCDate()
  lastResetDay,
  resetting,     \* the day a maybeDailyReset has read, while it awaits a message
  failedPnl      \* history: PnL of FAILED executions since the last reset

stopVars == <<run, gaveUp, stopping, stopSending>>
killVars == <<killedAt, killCache>>
dayVars == <<day, lastResetDay, resetting>>
tickVars == <<ticks, tickState>>
vars == <<now, riskVars, autoKillVars, dryRun, stopVars, tickVars, killVars, dayVars,
          failedPnl>>

Ticks == 1..MaxTicks

\* run(): before connectWs, awaiting the control panel message, awaiting a
\* stop; then the script exits.
RunStates == {"starting", "announcing", "waiting", "exited"}
BotStates == {"IDLE", "GENERATING", "EXECUTING"}

\* A tick: none, or awaiting a signal, the second look (peek), the executor,
\* verifyBalances or syncBalances.
TickSteps == {"none", "generating", "peeking", "executing", "verifying", "resyncing"}
\* late is history: the kill switch file was older than its cache by then.
\* Its signal is the one it executes.
TickType == [pc : TickSteps, signal : Signals \cup {None}, late : BOOLEAN]
NoTick == [pc |-> "none", signal |-> None, late |-> FALSE]

\* Types of the bot's variables.
BotTypeOK ==
  /\ RiskTypeOK
  /\ dryRun \in BOOLEAN
  /\ run \in RunStates
  /\ gaveUp \in BOOLEAN
  /\ stopping \in BOOLEAN
  /\ stopSending \in BOOLEAN
  /\ ticks \in [Ticks -> TickType]
  /\ tickState \in BotStates
  /\ killedAt \in Nat \cup {None}
  /\ killCache \in [active : BOOLEAN, checkedAt : Int]
  /\ day \in Nat
  /\ lastResetDay \in Nat
  /\ resetting \in Nat \cup {None}
  /\ failedPnl \in Int

\* The cache starts at time 0, which is long ago.
Init ==
  /\ RiskInit
  /\ dryRun \in BOOLEAN
  /\ run = "starting"
  /\ gaveUp = FALSE
  /\ stopping = FALSE
  /\ stopSending = FALSE
  /\ ticks = [t \in Ticks |-> NoTick]
  /\ tickState = "IDLE"
  /\ killedAt = None
  /\ killCache = [active |-> FALSE, checkedAt |-> -CacheMs]
  /\ day = 0
  /\ lastResetDay = 0
  /\ resetting = None
  /\ failedPnl = 0

Alive == run # "exited"

-----------------------------------------------------------------------------
(* run() and stop() *)

\* Balances are synced: the capital is known, the depth stream connects.
ConnectWs ==
  /\ run = "starting"
  /\ run' = "announcing"
  /\ SetInitialCapital(InitialCapital)
  /\ UNCHANGED <<now, autoKillVars, dryRun, gaveUp, stopping, stopSending, tickVars,
                 killVars, dayVars, failedPnl>>

\* The control panel is sent: only now is there a promise for stop to resolve.
Announced ==
  /\ run = "announcing"
  /\ run' = "waiting"
  /\ UNCHANGED <<now, riskVars, autoKillVars, dryRun, gaveUp, stopping, stopSending,
                 tickVars, killVars, dayVars, failedPnl>>

\* The reconnects of the depth stream have failed too often (MarketStream.tla).
StreamGivesUp ==
  /\ run \in {"announcing", "waiting"}
  /\ ~gaveUp
  /\ gaveUp' = TRUE
  /\ UNCHANGED <<now, riskVars, autoKillVars, dryRun, run, stopping, stopSending,
                 tickVars, killVars, dayVars, failedPnl>>

\* A gate that marks the bot as stopping before it calls stop.
RequestStopMarked ==
  /\ stopping' = TRUE
  /\ UNCHANGED stopSending

\* stop() up to its await: a second call returns at once.
RequestStop ==
  /\ stopping' = TRUE
  /\ stopSending' = (stopSending \/ ~stopping)

\* The message is sent, or given up: run() goes on, if it waits already.
StopSent ==
  /\ Alive
  /\ stopSending
  /\ stopSending' = FALSE
  /\ run' = IF run = "waiting" THEN "exited" ELSE run
  /\ UNCHANGED <<now, riskVars, autoKillVars, dryRun, gaveUp, stopping, tickVars,
                 killVars, dayVars, failedPnl>>

\* The command is polled for as soon as the stream is connected.
TelegramStop ==
  /\ run \in {"announcing", "waiting"}
  /\ ~stopping
  /\ RequestStop
  /\ UNCHANGED <<now, riskVars, autoKillVars, dryRun, run, gaveUp, tickVars, killVars,
                 dayVars, failedPnl>>

\* SIGINT or SIGTERM, which the script handles from the start.
Interrupt ==
  /\ Alive
  /\ ~stopping
  /\ RequestStop
  /\ UNCHANGED <<now, riskVars, autoKillVars, dryRun, run, gaveUp, tickVars, killVars, dayVars,
                 failedPnl>>

\* A second signal, a periodic sync that rejects or a heartbeat that cannot be
\* written, which nobody handles: the process ends, whatever it was doing.
Dies ==
  /\ Alive
  /\ run' = "exited"
  /\ UNCHANGED <<now, riskVars, autoKillVars, dryRun, gaveUp, stopping, stopSending, tickVars,
                 killVars, dayVars, failedPnl>>

-----------------------------------------------------------------------------
(* checkSafetyGates, which a depth update reaches before the lock *)

\* A cache that lives twice as long.
KillReadLong ==
  IF now - killCache.checkedAt >= 2 * CacheMs
    THEN [active |-> killedAt # None, checkedAt |-> now]
    ELSE killCache

\* isKillSwitchActive.
KillRead ==
  IF now - killCache.checkedAt >= CacheMs
    THEN [active |-> killedAt # None, checkedAt |-> now]
    ELSE killCache

Depth ==
  /\ run \in {"announcing", "waiting"}
  /\ ~gaveUp
  /\ killCache' = KillRead

DepthKilled ==
  /\ Depth
  /\ KillRead.active
  /\ RequestStop
  /\ UNCHANGED <<now, riskVars, autoKillVars, dryRun, run, gaveUp, tickVars, killedAt,
                 dayVars, failedPnl>>

DepthAutoKilled ==
  /\ Depth
  /\ ~KillRead.active
  /\ AutoKills(InitialCapital)
  /\ triggered' = TRUE
  /\ RequestStop
  /\ UNCHANGED <<now, riskVars, errorTimestamps, dryRun, run, gaveUp, tickVars,
                 killedAt, dayVars, failedPnl>>

GatesPass ==
  /\ Depth
  /\ ~KillRead.active
  /\ ~AutoKills(InitialCapital)
  /\ UNCHANGED <<now, riskVars, autoKillVars, dryRun, stopVars, killedAt, dayVars, failedPnl>>

\* The tick of another update is under way.
DepthBusy ==
  /\ GatesPass
  /\ tickState # "IDLE"
  /\ UNCHANGED tickVars

\* The first place for a tick that is free.
Free == {t \in Ticks : ticks[t].pc = "none" /\ \A u \in Ticks : u < t => ticks[u].pc # "none"}

Late == killedAt # None /\ now >= killedAt + CacheMs

\* A tick that takes the lock only when it has its signal.
TickBeginsUnlocked(t) ==
  /\ GatesPass
  /\ tickState # "EXECUTING"
  /\ t \in Free
  /\ ticks' = [ticks EXCEPT ![t] = [pc |-> "generating", signal |-> None, late |-> Late]]
  /\ UNCHANGED tickState

TickBegins(t) ==
  /\ GatesPass
  /\ tickState = "IDLE"
  /\ t \in Free
  /\ tickState' = "GENERATING"
  /\ ticks' = [ticks EXCEPT ![t] = [pc |-> "generating", signal |-> None, late |-> Late]]

-----------------------------------------------------------------------------
(* The tick *)

\* The finally of tick().
Release(t) ==
  /\ tickState' = "IDLE"
  /\ ticks' = [ticks EXCEPT ![t] = NoTick]

Acceptable(s) == s.net >= MinProfit

\* Checks that have become asynchronous and are not awaited: a promise is true.
RunRiskChecksUnawaited(s) == TRUE

RunRiskChecks(s) == CheckPreTrade(s) /\ AbsoluteSafetyCheck(s)

\* No signal, one that is filtered or blocked, or an error, which is logged.
TickGivesUp(t) ==
  /\ Alive
  /\ ticks[t].pc = "generating"
  /\ Release(t)
  /\ UNCHANGED <<now, riskVars, autoKillVars, dryRun, stopVars, killVars, dayVars, failedPnl>>

\* A dry run books what the signal expects.
DryRun(t, s) ==
  /\ Alive
  /\ dryRun
  /\ ticks[t].pc = "generating"
  /\ Acceptable(s) /\ RunRiskChecks(s)
  /\ Cardinality(tradeTimestamps) < MaxTrades
  /\ RecordTrade(s.net)
  /\ Release(t)
  /\ UNCHANGED <<now, autoKillVars, dryRun, stopVars, killVars, dayVars, failedPnl>>

\* The signal passes runRiskChecks; executeReal looks again.
TickChecked(t, s) ==
  /\ Alive
  /\ ~dryRun
  /\ ticks[t].pc = "generating"
  /\ Acceptable(s) /\ RunRiskChecks(s)
  /\ tickState' = "EXECUTING"
  /\ ticks' = [ticks EXCEPT ![t] = [@ EXCEPT !.pc = "peeking"]]
  /\ UNCHANGED <<now, riskVars, autoKillVars, dryRun, stopVars, killVars, dayVars, failedPnl>>

\* The opportunity is gone, or the circuit breaker is open.
PeekGivesUp(t) ==
  /\ Alive
  /\ ticks[t].pc = "peeking"
  /\ Release(t)
  /\ UNCHANGED <<now, riskVars, autoKillVars, dryRun, stopVars, killVars, dayVars, failedPnl>>

\* peek or a balance sync throws while the state is EXECUTING.
TickThrows(t) ==
  /\ Alive
  /\ ticks[t].pc \in {"peeking", "verifying", "resyncing"}
  /\ RecordError
  /\ Release(t)
  /\ UNCHANGED <<now, riskVars, dryRun, stopVars, killVars, dayVars, failedPnl>>

\* What executes is the signal the second look returned.
StartExecution(t, s) ==
  /\ Alive
  /\ ticks[t].pc = "peeking"
  /\ Acceptable(s)
  /\ Cardinality(tradeTimestamps) < MaxTrades
  /\ ticks' = [ticks EXCEPT ![t] = [@ EXCEPT !.pc = "executing", !.signal = s]]
  /\ UNCHANGED <<now, riskVars, autoKillVars, dryRun, stopVars, tickState, killVars, dayVars,
                 failedPnl>>

ExecutionDone(t, pnl) ==
  /\ Alive
  /\ ticks[t].pc = "executing"
  /\ RecordTrade(pnl)
  /\ ticks' = [ticks EXCEPT ![t] = [@ EXCEPT !.pc = "verifying", !.signal = None]]
  /\ UNCHANGED <<now, autoKillVars, dryRun, stopVars, tickState, killVars, dayVars, failedPnl>>

\* A failed execution is announced; the RiskManager hears nothing of it.
ExecutionFailed(t, pnl) ==
  /\ Alive
  /\ ticks[t].pc = "executing"
  /\ failedPnl' = failedPnl + pnl
  /\ ticks' = [ticks EXCEPT ![t] = [@ EXCEPT !.pc = "resyncing", !.signal = None]]
  /\ UNCHANGED <<now, riskVars, autoKillVars, dryRun, stopVars, tickState, killVars, dayVars>>

TickEnds(t) ==
  /\ Alive
  /\ ticks[t].pc \in {"verifying", "resyncing"}
  /\ Release(t)
  /\ UNCHANGED <<now, riskVars, autoKillVars, dryRun, stopVars, killVars, dayVars, failedPnl>>

\* verifyBalances finds a mismatch and halts the bot.
Mismatch(t) ==
  /\ Alive
  /\ ticks[t].pc = "verifying"
  /\ RequestStop
  /\ Release(t)
  /\ UNCHANGED <<now, riskVars, autoKillVars, dryRun, run, gaveUp, killVars, dayVars,
                 failedPnl>>

-----------------------------------------------------------------------------
(* maybeDailyReset, and the world *)

\* The day has changed: the summary is sent first.
ResetBegins ==
  /\ run = "waiting"
  /\ day # lastResetDay
  /\ resetting = None
  /\ resetting' = day
  /\ UNCHANGED <<now, riskVars, autoKillVars, dryRun, stopVars, tickVars, killVars, day,
                 lastResetDay, failedPnl>>

ResetEnds ==
  /\ Alive
  /\ resetting # None
  /\ resetting' = None
  /\ lastResetDay' = resetting
  /\ ResetDaily
  /\ failedPnl' = 0
  /\ UNCHANGED <<now, autoKillVars, dryRun, stopVars, tickVars, killVars, day>>

\* The operator or the watchdog touches the file, in time for the clock to
\* outlive the cache.
TouchKillFile ==
  /\ Alive
  /\ killedAt = None
  /\ now + CacheMs <= MaxTime
  /\ killedAt' = now
  /\ UNCHANGED <<now, riskVars, autoKillVars, dryRun, stopVars, tickVars, killCache, dayVars,
                 failedPnl>>

Midnight ==
  /\ Alive
  /\ day < MaxDay
  /\ day' = day + 1
  /\ UNCHANGED <<now, riskVars, autoKillVars, dryRun, stopVars, tickVars, killVars,
                 lastResetDay, resetting, failedPnl>>

Clock ==
  /\ Alive
  /\ now < MaxTime
  /\ now' = now + 1
  /\ UNCHANGED <<riskVars, autoKillVars, dryRun, stopVars, tickVars, killVars, dayVars,
                 failedPnl>>

-----------------------------------------------------------------------------
DepthUpdate ==
  \/ DepthKilled
  \/ DepthAutoKilled
  \/ DepthBusy
  \/ \E t \in Ticks : TickBegins(t)

TickStep(t) ==
  \/ TickGivesUp(t)
  \/ \E s \in Signals : DryRun(t, s) \/ TickChecked(t, s) \/ StartExecution(t, s)
  \/ PeekGivesUp(t)
  \/ TickThrows(t)
  \/ \E pnl \in Results : ExecutionDone(t, pnl)
  \/ \E pnl \in FailedResults : ExecutionFailed(t, pnl)
  \/ TickEnds(t)
  \/ Mismatch(t)

Next ==
  \/ ConnectWs
  \/ Announced
  \/ StreamGivesUp
  \/ StopSent
  \/ TelegramStop
  \/ Interrupt
  \/ Dies
  \/ DepthUpdate
  \/ \E t \in Ticks : TickStep(t)
  \/ ResetBegins
  \/ ResetEnds
  \/ TouchKillFile
  \/ Midnight
  \/ Clock

Spec == Init /\ [][Next]_vars

\* Depth updates keep coming until the stream gives up, time passes, and the
\* messages of run() and stop() are sent or given up.  Nothing is assumed of
\* the ticks: a generator or an executor may hang.
Fairness ==
  /\ WF_vars(Announced)
  /\ WF_vars(DepthUpdate)
  /\ WF_vars(Clock)
  /\ WF_vars(StopSent)

FairSpec == Spec /\ Fairness

-----------------------------------------------------------------------------
(* Properties *)

\* Ticks exclude each other, whatever they await: the executor, the risk
\* checks and the tracker are written for one trade at a time, and tickState
\* is all that keeps a second one out (tick 354-380 of arb_bot.service.ts).
TickIsExclusive ==
  /\ \A t, u \in Ticks : ticks[t].pc # "none" /\ ticks[u].pc # "none" => t = u
  /\ tickState = "IDLE" <=> \A t \in Ticks : ticks[t].pc = "none"

\* The booked loss since the last reset is short of the daily limit, but for
\* the trade that crosses it: no reset, restart of the hour or second tick
\* lets another one through (runRiskChecks 460-489).
DailyLossBounded ==
  \A limit \in {MaxDailyLoss, AbsMaxDailyLoss} : dailyPnl > -(limit + WorstLoss)

\* Over any number of days the capital stays within the drawdown limit of its
\* peak, but for one trade: daily resets do not forgive it.
DrawdownBounded ==
  (peakCapital - currentCapital) * 10000 <= MaxDrawdownBps * peakCapital + 10000 * WorstLoss

\* Between resets no more losses follow each other than the limit.
LossStreakBounded == consecutiveLosses <= ConsecutiveLossLimit

\* The stamps in the hour that ends with a stamp.
HourUpTo(x, stamps) == {y \in stamps : y.at <= x.at /\ y.at > x.at - HourMs}

\* No window of an hour, wherever it starts, sees more trades than either
\* hourly limit, although the check comes long before the trade is recorded.
HourlyTradesBounded ==
  \A x \in tradeTimestamps, limit \in {MaxTradesPerHour, AbsMaxTradesPerHour} :
    Cardinality(HourUpTo(x, tradeTimestamps)) <= limit

\* Nor more errors of executions than one above the limit: then no tick starts
\* any more (AutoKillSwitch.check 49-73 of kill.switch.ts).
ErrorRateBounded ==
  \A x \in errorTimestamps :
    Cardinality(HourUpTo(x, errorTimestamps)) <= MaxErrorsPerHour + 1

\* Whatever updates read the cache before, no tick begins once the kill switch
\* file is as old as the cache may be (isKillSwitchActive 25-31 of
\* kill.switch.ts).  A tick that began before may still execute at any time:
\* nothing reads the file again between 382 and 542 of arb_bot.service.ts.
NoTickAfterKill == \A t \in Ticks : ~ticks[t].late

\* While run() waits, a stop that is being sent ends it, and so does a kill
\* file unless the depth stream gives up (stop 825-844 of arb_bot.service.ts),
\* also when a tick hangs: the gates come before the lock.  Of a stop that
\* comes before run() waits this says nothing: see StopEndsRun.
WaitEnds ==
  run = "waiting" /\ (stopSending \/ (killedAt # None /\ ~stopping))
    ~> ~Alive \/ (gaveUp /\ ~stopSending)

-----------------------------------------------------------------------------
(* What the documentation says of the bot, and the code does not do *)

\* "Use /stop or the button below to shut down": a stop that is being sent,
\* also while the message that says so is still under way, ends the bot.
StopEndsRun == run \in {"announcing", "waiting"} /\ stopSending ~> ~Alive

\* "Hard limits enforced by RiskManager before every trade".
ExecutedWithinLimits ==
  \A t \in Ticks : ticks[t].pc = "executing" => ticks[t].signal.usd <= MaxTradeUsd

\* "Maximum cumulative daily loss before trading halts until resetDaily()".
RealDailyLossBounded == dailyPnl + failedPnl > -(MaxDailyLoss + WorstLoss)
=============================================================================
