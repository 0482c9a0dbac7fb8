--------------------------- MODULE InventorySync ---------------------------
(***************************************************************************)
(* Whether the InventoryTracker (inventory/tracker) tells what the exchange *)
(* and the wallet hold.  Three things change it, none of which waits for   *)
(* another: the periodic syncBalances, the executor that books a trade,    *)
(* and the sync with which a tick verifies it (integration/arbBot).        *)
(*                                                                         *)
(* A sync has parts that answer on their own.  A balance is read where it  *)
(* is held, and the answer is applied to the tracker some time later.      *)
(***************************************************************************)
EXTENDS Integers

CONSTANTS
  Syncs,         \* bound: calls of syncBalances that can be under way
  TickSyncs,     \* bound: those of them that a tick can have made
  Holdings,      \* what the venues can hold at the start
  Lot,           \* base amount of a trade
  Price,         \* quote amount of a trade
  FillErrors,    \* what an exchange fill can cost or bring beside what is booked
  SwapErrors,    \* what base a purchase at the pool can bring beside what is booked
  BaseThreshold,    \* BASE_MISMATCH_THRESHOLD
  QuoteThreshold,   \* QUOTE_MISMATCH_THRESHOLD
  MaxTrades,     \* bound: trades
  MaxSurprises,  \* bound: transfers, legs given up and fills that miss their booking
  NoValue

Venues == {"BINANCE", "WALLET"}
Assets == {"base", "quote"}
Amounts == [Assets -> Int]

ASSUME SyncAssumption ==
  /\ TickSyncs \subseteq Syncs
  /\ Holdings \subseteq [Venues -> [Assets -> Nat]]
  /\ Lot \in Nat \ {0}
  /\ {Price, BaseThreshold, QuoteThreshold, MaxTrades, MaxSurprises} \subseteq Nat
  /\ FillErrors \subseteq Int
  /\ SwapErrors \subseteq Int /\ \A e \in SwapErrors : Lot + e > 0
  /\ NoValue \notin Syncs

VARIABLES
  real,       \* what the venues hold
  tracked,    \* InventoryTracker.balances: zero is as good as absent
  syncs,      \* the calls of syncBalances
  trade,      \* the execution, or its verification, a tick is at
  abandoned,  \* legs that withTimeout has given up and that can still be filled
  stopping,   \* verifyBalances has called stop
  alive,      \* the process runs
  trades,     \* bound: trades so far
  surprises   \* bound: transfers, legs given up and fills that missed so far

vars == <<real, tracked, syncs, trade, abandoned, stopping, alive, trades, surprises>>

\* fetchBalance, and balanceOf of the two tokens.
Reads == {"cex", "walletBase", "walletQuote"}
ReadState == {"idle", "asked", "answered"}

\* A sync is stray once one of its parts was rejected: the others go on, and
\* nobody waits for them.
Sync == [pc : [Reads -> ReadState], stray : BOOLEAN,
         cex : Amounts, base : Int, quote : Int]
Nothing == [a \in Assets |-> 0]
IdleSync ==
  [pc |-> [r \in Reads |-> "idle"], stray |-> FALSE, cex |-> Nothing, base |-> 0,
   quote |-> 0]
Begun == [IdleSync EXCEPT !.pc = [r \in Reads |-> "asked"]]
Busy(s) == \E r \in Reads : syncs[s].pc[r] # "idle"

\* A trade: none, at a leg, filled but not booked, or awaiting its sync.  side is
\* the exchange's.  base and quote are what verifyBalances compares with; before
\* is history: what the venues held when it began, NoValue unless the tracker knew
\* and no other sync, transfer or late fill met the trade.
TradeSteps == {"idle", "leg1", "leg2", "filled", "verifying", "resyncing"}
TradeSides == {"buy", "sell"}
Trade == [pc : TradeSteps, side : TradeSides, sync : Syncs \cup {NoValue},
          base : Int, quote : Int, before : [Venues -> Amounts] \cup {NoValue}]
NoTrade == [pc |-> "idle", side |-> "buy", sync |-> NoValue, base |-> 0, quote |-> 0,
            before |-> NoValue]
Free(s) == ~Busy(s) /\ trade.sync # s
Awaiting == trade.pc \in {"verifying", "resyncing"}

\* A leg given up, by the number of its trade.
Leg == [trade : Nat, venue : Venues, side : TradeSides]

\* Types, and that a tick awaits a sync of which no part is lost: it would not
\* come back from any other (executeReal 605-610 of arb_bot.service.ts).
SyncTypeOK ==
  /\ real \in [Venues -> Amounts]
  /\ tracked \in [Venues -> Amounts]
  /\ syncs \in [Syncs -> Sync]
  /\ trade \in Trade
  /\ abandoned \subseteq Leg
  /\ stopping \in BOOLEAN
  /\ alive \in BOOLEAN
  /\ {trades, surprises} \subseteq Nat
  /\ Awaiting <=> trade.sync # NoValue
  /\ Awaiting => ~syncs[trade.sync].stray

\* run() has awaited its second syncBalances.
Init ==
  /\ real \in Holdings
  /\ tracked = real
  /\ syncs = [s \in Syncs |-> IdleSync]
  /\ trade = NoTrade
  /\ abandoned = {}
  /\ stopping = FALSE
  /\ alive = TRUE
  /\ trades = 0
  /\ surprises = 0

-----------------------------------------------------------------------------
(* syncBalances *)

Distrust(t) == [t EXCEPT !.before = NoValue]

TimerSync(s) ==
  /\ alive
  /\ Free(s)
  /\ syncs' = [syncs EXCEPT ![s] = Begun]
  /\ trade' = Distrust(trade)
  /\ UNCHANGED <<real, tracked, abandoned, stopping, alive, trades, surprises>>

\* A venue answers with what it holds now.
WithAnswer(sync, r) ==
  [sync EXCEPT !.pc[r] = "answered",
               !.cex = IF r = "cex" THEN real["BINANCE"] ELSE @,
               !.base = IF r = "walletBase" THEN real["WALLET"]["base"] ELSE @,
               !.quote = IF r = "walletQuote" THEN real["WALLET"]["quote"] ELSE @]

Answer(s, r) ==
  /\ alive
  /\ syncs[s].pc[r] = "asked"
  /\ syncs' = [syncs EXCEPT ![s] = WithAnswer(@, r)]
  /\ UNCHANGED <<real, tracked, trade, abandoned, stopping, alive, trades, surprises>>

\* A read of the exchange is over, or those of the wallet: they are awaited
\* together, and when one is rejected the other's answer is lost.
Without(sync, r) ==
  IF r = "cex"
    THEN [sync EXCEPT !.pc["cex"] = "idle", !.cex = Nothing]
    ELSE [sync EXCEPT !.pc = [q \in Reads |-> IF q = "cex" THEN @[q] ELSE "idle"],
                      !.base = 0, !.quote = 0]

\* updateFromCex.
ApplyCex(s) ==
  /\ alive
  /\ syncs[s].pc["cex"] = "answered"
  /\ tracked' = [tracked EXCEPT !["BINANCE"] = syncs[s].cex]
  /\ syncs' = [syncs EXCEPT ![s] = Without(@, "cex")]
  /\ UNCHANGED <<real, trade, abandoned, stopping, alive, trades, surprises>>

\* An updateFromWallet that keeps what it has no new amount of.
UpdateFromWalletMerged(s) ==
  [a \in Assets |->
     LET amount == IF a = "base" THEN syncs[s].base ELSE syncs[s].quote
     IN  IF amount = 0 THEN tracked["WALLET"][a] ELSE amount]

\* The map is cleared, and amounts of zero are left out.
UpdateFromWallet(s) ==
  [a \in Assets |-> IF a = "base" THEN syncs[s].base ELSE syncs[s].quote]

ApplyWallet(s) ==
  /\ alive
  /\ syncs[s].pc["walletBase"] = "answered" /\ syncs[s].pc["walletQuote"] = "answered"
  /\ tracked' = [tracked EXCEPT !["WALLET"] = UpdateFromWallet(s)]
  /\ syncs' = [syncs EXCEPT ![s] = Without(@, "walletBase")]
  /\ UNCHANGED <<real, trade, abandoned, stopping, alive, trades, surprises>>

\* The other parts of a rejected sync go on.
Astray(sync, r) == [Without(sync, r) EXCEPT !.stray = TRUE]

\* The process ends, and what it knew with it.
Ends ==
  /\ alive' = FALSE
  /\ tracked' = [v \in Venues |-> Nothing]
  /\ syncs' = [s \in Syncs |-> IdleSync]
  /\ trade' = NoTrade
  /\ stopping' = FALSE

\* A tick that goes on as if it had been answered.
RejectedHeld(s, r) ==
  /\ syncs' = [syncs EXCEPT ![s] = Astray(@, r)]
  /\ trade' = Distrust(trade)
  /\ UNCHANGED <<tracked, stopping, alive>>

\* The tick throws; nobody handles the rejection of a periodic sync, so the
\* process ends; later rejections of the same sync are not noticed.
Rejected(s, r) ==
  IF trade.sync = s \/ syncs[s].stray
    THEN /\ syncs' = [syncs EXCEPT ![s] = Astray(@, r)]
         /\ trade' = IF trade.sync = s THEN NoTrade ELSE Distrust(trade)
         /\ UNCHANGED <<tracked, stopping, alive>>
    ELSE Ends

Reject(s, r) ==
  /\ alive
  /\ syncs[s].pc[r] = "asked"
  /\ Rejected(s, r)
  /\ UNCHANGED <<real, abandoned, trades, surprises>>

-----------------------------------------------------------------------------
(* A trade, as the tracker sees it: the exchange leg, then the swap *)

SideAt(v, side) == IF v = "BINANCE" THEN side ELSE IF side = "buy" THEN "sell" ELSE "buy"

\* What a fill changes at a venue.
Moved(amounts, side) ==
  IF side = "buy"
    THEN [amounts EXCEPT !["base"] = @ + Lot, !["quote"] = @ - Price]
    ELSE [amounts EXCEPT !["base"] = @ - Lot, !["quote"] = @ + Price]

\* canExecute: the quote to buy with, the base to sell.
Covered(amounts, side) ==
  IF side = "buy" THEN amounts["quote"] >= Price ELSE amounts["base"] >= Lot

Execute(side) ==
  /\ alive
  /\ trade.pc = "idle"
  /\ trades < MaxTrades
  /\ \A v \in Venues : Covered(tracked[v], SideAt(v, side))
  /\ trade' = [NoTrade EXCEPT !.pc = "leg1", !.side = side,
                       !.before = IF tracked = real /\ \A s \in Syncs : ~Busy(s)
                                    THEN real ELSE NoValue]
  /\ trades' = trades + 1
  /\ UNCHANGED <<real, tracked, syncs, abandoned, stopping, alive, surprises>>

\* A fill at the exchange misses the price it is booked at, or a fee.  A swap is
\* reported with the size that was asked for: a sale gives just that, but a
\* purchase spends what it was meant to and brings more or less base, which is
\* booked for the size at the price it was had for.
Filled(v, amounts, side, e) ==
  LET moved == Moved(amounts, side)
  IN  IF v = "BINANCE" THEN [moved EXCEPT !["quote"] = @ + e]
      ELSE IF side = "sell" THEN moved
      ELSE [moved EXCEPT !["base"] = @ + e, !["quote"] = @ - (Price * e) \div Lot]

\* No venue fills what its balances do not cover.
FillsAt(v, side, e) ==
  /\ \A a \in Assets : Filled(v, real[v], side, e)[a] >= 0
  /\ real' = [real EXCEPT ![v] = Filled(v, @, side, e)]

Misses(e) ==
  /\ e # 0 => surprises < MaxSurprises
  /\ surprises' = IF e = 0 THEN surprises ELSE surprises + 1

Leg1Fills(e) ==
  /\ alive
  /\ trade.pc = "leg1"
  /\ FillsAt("BINANCE", trade.side, e)
  /\ Misses(e)
  /\ trade' = [trade EXCEPT !.pc = "leg2"]
  /\ UNCHANGED <<tracked, syncs, abandoned, stopping, alive, trades>>

Leg2Fills(e) ==
  /\ alive
  /\ trade.pc = "leg2"
  /\ FillsAt("WALLET", SideAt("WALLET", trade.side), e)
  /\ Misses(e)
  /\ trade' = [trade EXCEPT !.pc = "filled"]
  /\ UNCHANGED <<tracked, syncs, abandoned, stopping, alive, trades>>

Booked == [v \in Venues |-> Moved(tracked[v], SideAt(v, trade.side))]

\* A verifyBalances that reads what it expects before the trade is booked.
TradeBookedLate(s) ==
  /\ tracked' = Booked
  /\ trade' = [trade EXCEPT !.pc = "verifying", !.sync = s,
                            !.base = tracked["WALLET"]["base"],
                            !.quote = tracked["BINANCE"]["quote"]]

\* recordTrade for both venues; verifyBalances then reads what it expects.
TradeBooked(s) ==
  /\ tracked' = Booked
  /\ trade' = [trade EXCEPT !.pc = "verifying", !.sync = s,
                            !.base = Booked["WALLET"]["base"],
                            !.quote = Booked["BINANCE"]["quote"]]

TradeDone(s) ==
  /\ alive
  /\ trade.pc = "filled"
  /\ Free(s)
  /\ TradeBooked(s)
  /\ syncs' = [syncs EXCEPT ![s] = Begun]
  /\ UNCHANGED <<real, abandoned, stopping, alive, trades, surprises>>

\* withTimeout has given up the leg the trade is at, and does not cancel it.
GivesUp ==
  /\ surprises < MaxSurprises
  /\ surprises' = surprises + 1
  /\ LET at == IF trade.pc = "leg1" THEN "BINANCE" ELSE "WALLET"
         leg == [trade |-> trades, venue |-> at, side |-> SideAt(at, trade.side)]
     IN  abandoned' = abandoned \cup {leg}

\* An execution fails before its exchange order is filled, or its swap fails
\* and the order is sold back, or not: the balances are only synced.
TradeFails(s, unwound) ==
  /\ alive
  /\ trade.pc \in {"leg1", "leg2"}
  /\ Free(s)
  /\ IF trade.pc = "leg2" /\ unwound
       THEN FillsAt("BINANCE", IF trade.side = "buy" THEN "sell" ELSE "buy", 0)
       ELSE UNCHANGED real
  /\ \/ UNCHANGED <<abandoned, surprises>>
     \/ GivesUp
  /\ trade' = [NoTrade EXCEPT !.pc = "resyncing", !.sync = s]
  /\ syncs' = [syncs EXCEPT ![s] = Begun]
  /\ UNCHANGED <<tracked, stopping, alive, trades>>

Distance(x, y) == IF x > y THEN x - y ELSE y - x

\* What verifyBalances compares.
Mismatch ==
  \/ Distance(tracked["WALLET"]["base"], trade.base) > BaseThreshold
  \/ Distance(tracked["BINANCE"]["quote"], trade.quote) > QuoteThreshold

\* Both parts of the tick's sync are applied.
TradeEnds ==
  /\ alive
  /\ Awaiting
  /\ ~Busy(trade.sync)
  /\ stopping' = (stopping \/ (trade.pc = "verifying" /\ Mismatch))
  /\ trade' = NoTrade
  /\ syncs' = [syncs EXCEPT ![trade.sync] = IdleSync]
  /\ UNCHANGED <<real, tracked, abandoned, alive, trades, surprises>>

-----------------------------------------------------------------------------
(* The world *)

\* The operator moves base between the venues, as a rebalance plan says.
Transfer(v) ==
  /\ alive
  /\ surprises < MaxSurprises
  /\ real[v]["base"] >= Lot
  /\ real' = [u \in Venues |->
       [real[u] EXCEPT !["base"] = IF u = v THEN @ - Lot ELSE @ + Lot]]
  /\ surprises' = surprises + 1
  /\ trade' = Distrust(trade)
  /\ UNCHANGED <<tracked, syncs, abandoned, stopping, alive, trades>>

\* A leg that was given up is filled after all; nobody books it.
LateFill(leg, e) ==
  /\ alive
  /\ FillsAt(leg.venue, leg.side, e)
  /\ abandoned' = abandoned \ {leg}
  /\ trade' = Distrust(trade)
  /\ UNCHANGED <<tracked, syncs, stopping, alive, trades, surprises>>

ErrorsAt(v) == IF v = "BINANCE" THEN FillErrors ELSE SwapErrors

\* run() returns once the stop is through.
Exit ==
  /\ alive
  /\ stopping
  /\ Ends
  /\ UNCHANGED <<real, abandoned, trades, surprises>>

SyncStep(s) ==
  \/ ApplyCex(s)
  \/ ApplyWallet(s)
  \/ \E r \in Reads : Answer(s, r) \/ Reject(s, r)

TradeStep ==
  \/ \E side \in TradeSides : Execute(side)
  \/ \E e \in FillErrors : Leg1Fills(e)
  \/ \E e \in SwapErrors : Leg2Fills(e)
  \/ \E s \in TickSyncs : TradeDone(s)
  \/ \E s \in TickSyncs, unwound \in BOOLEAN : TradeFails(s, unwound)
  \/ TradeEnds

Next ==
  \/ \E s \in Syncs : TimerSync(s) \/ SyncStep(s)
  \/ TradeStep
  \/ \E v \in Venues : Transfer(v)
  \/ \E leg \in abandoned : \E e \in ErrorsAt(leg.venue) : LateFill(leg, e)
  \/ Exit

Spec == Init /\ [][Next]_vars

\* The timer goes on, venues answer or reject within their time limits, and
\* answers are applied.  A trade need not go on.
Fairness ==
  /\ WF_vars(\E s \in Syncs : TimerSync(s))
  /\ \A s \in Syncs : WF_vars(SyncStep(s))

FairSpec == Spec /\ Fairness

-----------------------------------------------------------------------------
(* Properties *)

\* The venues hold something else than the trade should have left.
Diverged ==
  LET due(v) == Moved(trade.before[v], SideAt(v, trade.side))
  IN  \/ Distance(real["WALLET"]["base"], due("WALLET")["base"]) > BaseThreshold
      \/ Distance(real["BINANCE"]["quote"], due("BINANCE")["quote"]) > QuoteThreshold

\* verifyBalances stops the bot exactly if what the venues hold is off what
\* was booked, for the two balances it looks at, when the tracker was right
\* before the trade and no other sync, transfer or late fill met it: whatever the
\* order cost and whatever the swap brought, no order of fills, answers and
\* bookings makes it halt, or go on, wrongly (verifyBalances 657-685 of
\* arb_bot.service.ts).
VerdictIsRight ==
  [][(/\ trade.pc = "verifying" /\ trade.before # NoValue
      /\ ~Busy(trade.sync)
      /\ trade' = NoTrade /\ alive') => stopping' = (stopping \/ Diverged)]_vars

\* Trades, transfers and late fills leave the tracker wrong, and so do syncs that
\* race them, but never for good: once they are over it tells what the venues hold,
\* whatever was answered late (syncBalances 714-761 of arb_bot.service.ts).
TrackerConverges == <>[](~alive \/ tracked = real)

=============================================================================
