----------------------------- MODULE RateLimiter -----------------------------
(***************************************************************************)
(* The request-weight budget of ExchangeClient: every request looks at the *)
(* weight used in the last window (checkWeight), is sent, and is counted   *)
(* when its answer is there (recordWeight).  Calls overlap at the awaits.  *)
(*                                                                         *)
(* A call makes one request.  Calls are numbered as they begin.            *)
(***************************************************************************)
EXTENDS Integers, FiniteSets, Functions

CONSTANTS
  WeightLimit,    \* rateLimit.weightLimit
  Window,         \* rateLimit.windowMs
  Slack,          \* the 50 ms slept beyond the window
  WeightOf,       \* rateLimit.weights: the weight of each endpoint
  MarketsWeight,  \* what the exchange counts for a request that the client does not
  NumCalls,       \* bound: requests made
  MaxClock        \* bound on the clock

\* Each endpoint costs less than the whole budget, as in Binance's profile (16-25);
\* that of Bybit has zeros yet to be confirmed.
EndpointWeight == 0..(WeightLimit - 1)

ASSUME LimiterAssumption ==
  /\ {WeightLimit, Window, Slack, MarketsWeight, NumCalls, MaxClock} \subseteq Nat
  /\ WeightOf \in [orderBook : EndpointWeight, balance : EndpointWeight,
                   createOrder : EndpointWeight, cancelOrder : EndpointWeight,
                   fetchOrder : EndpointWeight, tradingFees : EndpointWeight]

VARIABLES
  clock,      \* Date.now()
  weightLog,  \* this.weightLog: [by, time, weight]
  requests    \* the calls: how far, their weight, and how they were let go

limiterVars == <<clock, weightLog, requests>>

Callers == 1..NumCalls

\* until is when the sleep ends; at when the request was sent; slept and
\* overlapped tell how it was let go, failed that its answer was an error, and
\* unchecked that it was sent past the limiter.
NoRequest == [pc |-> "idle", weight |-> 0, until |-> 0, at |-> 0,
              slept |-> FALSE, overlapped |-> FALSE, failed |-> FALSE, unchecked |-> FALSE]

LimiterInit ==
  /\ clock = 0
  /\ weightLog = {}
  /\ requests = [c \in Callers |-> NoRequest]

-----------------------------------------------------------------------------

TotalWeight(entries) == SumFunction([e \in entries |-> e.weight])

\* pruneWeightLog: the log is in the order of time.
PrunedLog == {e \in weightLog : e.time + Window >= clock}
Oldest(entries) == CHOOSE t \in {e.time : e \in entries} : \A e \in entries : t <= e.time

Sent(c) == requests[c].pc \in {"sent", "answered"}
Unanswered == {c \in Callers : requests[c].pc = "sent"}

\* A request is let go; the calls sent and not answered are not in the log.
SendRequest(c, w, slept) ==
  requests' = [requests EXCEPT ![c] =
    [NoRequest EXCEPT !.pc = "sent", !.weight = w, !.at = clock, !.slept = slept,
                      !.overlapped = Unanswered # {}]]

\* A budget that may be used up to the last unit.
FitsExactly(w) == TotalWeight(PrunedLog) + w <= WeightLimit

Fits(w) == TotalWeight(PrunedLog) + w < WeightLimit

Begins(c) == requests[c].pc = "idle" /\ (c > 1 => requests[c - 1].pc # "idle")

\* checkWeight sleeps until the oldest entry has left the window.
CheckWeight(c, w) ==
  /\ Begins(c)
  /\ weightLog' = PrunedLog
  /\ IF Fits(w) \/ PrunedLog = {}
       THEN SendRequest(c, w, FALSE)
       ELSE requests' = [requests EXCEPT ![c] =
              [NoRequest EXCEPT !.pc = "asleep", !.weight = w,
                                !.until = Oldest(PrunedLog) + Window + Slack]]
  /\ UNCHANGED clock

\* It then goes on without another look.
Wakes(c) ==
  /\ requests[c].pc = "asleep"
  /\ clock >= requests[c].until
  /\ weightLog' = PrunedLog
  /\ SendRequest(c, requests[c].weight, TRUE)
  /\ UNCHANGED clock

RecordWeight(c) ==
  /\ requests[c].pc = "sent"
  /\ weightLog' = weightLog \cup {[by |-> c, time |-> clock, weight |-> requests[c].weight]}
  /\ requests' = [requests EXCEPT ![c].pc = "answered"]
  /\ UNCHANGED clock

\* callExchange throws, past recordWeight.
CallThrows(c) ==
  /\ requests[c].pc = "sent"
  /\ requests' = [requests EXCEPT ![c].pc = "answered", ![c].failed = TRUE]
  /\ UNCHANGED <<clock, weightLog>>

\* The methods; all of them go on with RecordWeight, or CallThrows.
FetchOrderBook(c) == CheckWeight(c, WeightOf.orderBook)
FetchBalance(c) == CheckWeight(c, WeightOf.balance)
CreateOrder(c) == CheckWeight(c, WeightOf.createOrder)
CancelOrder(c) == CheckWeight(c, WeightOf.cancelOrder)
FetchOrderStatus(c) == CheckWeight(c, WeightOf.fetchOrder)
GetTradingFees(c) == CheckWeight(c, WeightOf.tradingFees)

\* fetchTradingRules neither looks at the log nor is recorded in it, and nor is
\* fetchWithdrawalFees.
FetchTradingRules(c) ==
  /\ Begins(c)
  /\ requests' = [requests EXCEPT ![c] =
       [NoRequest EXCEPT !.pc = "answered", !.weight = MarketsWeight, !.at = clock,
                         !.unchecked = TRUE]]
  /\ UNCHANGED <<clock, weightLog>>

ClockTicks ==
  /\ clock < MaxClock
  /\ clock' = clock + 1
  /\ UNCHANGED <<weightLog, requests>>

LimiterNext ==
  \/ ClockTicks
  \/ \E c \in Callers :
       \/ FetchOrderBook(c) \/ FetchBalance(c) \/ CreateOrder(c) \/ CancelOrder(c)
       \/ FetchOrderStatus(c) \/ GetTradingFees(c) \/ FetchTradingRules(c)
  \/ \E c \in Callers : Wakes(c) \/ RecordWeight(c) \/ CallThrows(c)

LimiterSpec == LimiterInit /\ [][LimiterNext]_limiterVars

-----------------------------------------------------------------------------

\* The requests sent in the last window.
Recent == {c \in Callers : Sent(c) /\ requests[c].at + Window >= clock}

\* The weight sent in a window stays below the limit, except for what the log
\* misses: a request that was under way when another was let go, one whose
\* answer was an error, one that had slept and did not look again, and the
\* methods that never look (115-304, 364-391).
OverLimitExplained ==
  SumFunction([c \in Recent |-> requests[c].weight]) >= WeightLimit =>
    \E c \in Recent :
      requests[c].slept \/ requests[c].overlapped \/ requests[c].failed \/ requests[c].unchecked
=============================================================================
