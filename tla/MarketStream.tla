---------------------------- MODULE MarketStream ----------------------------
(***************************************************************************)
(* The market data stream of exchange/cexClient/exchange.client.ts: one    *)
(* combined WebSocket for all subscriptions, its reconnects with their     *)
(* back-off, its ping interval, and the cache of order books it feeds.     *)
(*                                                                         *)
(* An order book is the version of the exchange's book it shows.  A        *)
(* JavaScript callback runs to its end, so each is one action; what comes  *)
(* between two of them is the order in which sockets and timers call back. *)
(***************************************************************************)
EXTENDS Integers, FiniteSets

CONSTANTS
  Pairs,        \* trading pairs
  Sockets,      \* WebSocket objects; one that has closed is used again
  NoSocket,     \* null
  MaxAttempts,  \* MAX_RECONNECT_ATTEMPTS
  MaxConnects,  \* bound: calls of connectWs; the bot makes one
  MaxMoves      \* bound: changes of a pair's book

ASSUME StreamAssumption ==
  /\ NoSocket \notin Sockets
  /\ MaxAttempts \in Nat
  /\ MaxConnects \in Nat

VARIABLES
  sockets,    \* the readyState of every WebSocket object
  streams,    \* the pairs in the URL of each
  seen,       \* the version each has last sent of a pair
  ws,         \* this.ws: the socket opened last, also after it has closed
  pings,      \* the sockets whose ping interval is running
  pingTimer,  \* this.wsPingTimer, as the socket that set it
  attempts,   \* this.wsReconnectAttempts
  stopped,    \* this.wsStopped
  timers,     \* how many reconnect timeouts are pending
  keys,       \* the pairs with a subscription
  books,      \* this.books
  market,     \* the exchange's own books
  connects,   \* calls of connectWs
  lost,       \* closings in a row with no opening between
  gaveUp      \* "max reconnect attempts reached"

connection == <<sockets, streams, seen, ws>>
timing == <<pings, pingTimer, attempts, stopped, timers>>
history == <<connects, lost, gaveUp>>
streamVars == <<connection, timing, history, keys, books, market>>

Opened == {s \in Sockets : sockets[s] = "open"}
Live == {s \in Sockets : sockets[s] \in {"connecting", "open"}}

StreamTypeOK ==
  /\ sockets \in [Sockets -> {"free", "connecting", "open", "closing"}]
  /\ streams \in [Sockets -> SUBSET Pairs]
  /\ seen \in [Sockets -> [Pairs -> Nat]]
  /\ ws \in Sockets \cup {NoSocket}
  /\ pings \in SUBSET Sockets
  /\ pingTimer \in Sockets \cup {NoSocket}
  /\ attempts \in Nat /\ timers \in Nat /\ lost \in Nat /\ connects \in Nat
  /\ stopped \in BOOLEAN /\ gaveUp \in BOOLEAN
  /\ keys \in SUBSET Pairs
  /\ books \in [Pairs -> Nat]
  /\ market \in [Pairs -> Nat]

StreamInit ==
  /\ sockets = [s \in Sockets |-> "free"]
  /\ streams = [s \in Sockets |-> {}]
  /\ seen = [s \in Sockets |-> [p \in Pairs |-> 0]]
  /\ ws = NoSocket
  /\ pings = {} /\ pingTimer = NoSocket
  /\ attempts = 0 /\ stopped = FALSE /\ timers = 0
  /\ keys = {}
  /\ books = [p \in Pairs |-> 0]
  /\ market = [p \in Pairs |-> 0]
  /\ connects = 0 /\ lost = 0 /\ gaveUp = FALSE

-----------------------------------------------------------------------------
(* The callers *)

\* A subscription made while a socket is open is served from the next one on.
Subscribe(p) ==
  /\ p \notin keys
  /\ keys' = keys \cup {p}
  /\ UNCHANGED <<connection, timing, history, books, market>>

\* What the URL of a socket asks for: every subscription made until then.
BuildStreamList == keys

\* A fresh socket starts with what the exchange shows at that moment.
OpenSocket == \E s \in Sockets :
  /\ sockets[s] = "free"
  /\ sockets' = [sockets EXCEPT ![s] = "connecting"]
  /\ streams' = [streams EXCEPT ![s] = BuildStreamList]
  /\ seen' = [seen EXCEPT ![s] = market]
  /\ ws' = s

\* Without a subscription it throws and has changed nothing.
ConnectWs ==
  /\ connects < MaxConnects
  /\ keys # {}
  /\ connects' = connects + 1
  /\ stopped' = FALSE
  /\ OpenSocket
  /\ UNCHANGED <<pings, pingTimer, attempts, timers, lost, gaveUp, keys, books, market>>

\* A ClearPing that only forgets the handle.
ForgetPing ==
  /\ pings' = pings
  /\ pingTimer' = NoSocket

\* Every closing clears the interval that was set last.
ClearPing ==
  /\ pings' = pings \ {pingTimer}
  /\ pingTimer' = NoSocket

DisconnectWs ==
  /\ connects > 0 /\ ~stopped
  /\ stopped' = TRUE
  /\ ClearPing
  /\ sockets' = [s \in Sockets |-> IF s = ws /\ s \in Live THEN "closing" ELSE sockets[s]]
  /\ ws' = NoSocket
  /\ UNCHANGED <<streams, seen, attempts, timers, keys, books, market, history>>

-----------------------------------------------------------------------------
(* The callbacks *)

\* Attempts that count over the life of the client.
KeepAttempts == attempts' = attempts

ResetAttempts == attempts' = 0

SocketOpens(s) ==
  /\ sockets[s] = "connecting"
  /\ sockets' = [sockets EXCEPT ![s] = "open"]
  /\ ResetAttempts
  /\ lost' = 0
  /\ pings' = pings \cup {s}
  /\ pingTimer' = s
  /\ UNCHANGED <<streams, seen, ws, stopped, timers, keys, books, market, connects, gaveUp>>

\* A depth message: sockets deliver in order, and may skip versions.
Deliver(s, p, v) ==
  /\ sockets[s] = "open"
  /\ p \in streams[s]
  /\ seen[s][p] <= v /\ v <= market[p]
  /\ seen' = [seen EXCEPT ![s] = [seen[s] EXCEPT ![p] = v]]
  /\ books' = [books EXCEPT ![p] = v]
  /\ UNCHANGED <<sockets, streams, ws, timing, history, keys, market>>

\* A reconnect for the error and another for the closing that follows it.
ScheduleTwice ==
  /\ lost' = lost + 1
  /\ gaveUp' = (gaveUp \/ attempts >= MaxAttempts)
  /\ attempts' = attempts + 1
  /\ timers' = IF attempts >= MaxAttempts THEN timers ELSE timers + 2

\* A reconnect only for a connection that had opened.
ScheduleIfOpened ==
  /\ lost' = lost + 1
  /\ gaveUp' = (gaveUp \/ attempts >= MaxAttempts)
  /\ attempts' = attempts + 1
  /\ timers' = IF attempts >= MaxAttempts \/ pingTimer = NoSocket THEN timers ELSE timers + 1

\* scheduleReconnect, called when the stream was lost and not closed on purpose.
ScheduleReconnect ==
  /\ lost' = lost + 1
  /\ gaveUp' = (gaveUp \/ attempts >= MaxAttempts)
  /\ IF attempts >= MaxAttempts
       THEN UNCHANGED <<attempts, timers>>
       ELSE attempts' = attempts + 1 /\ timers' = timers + 1

\* An error only logs, and is followed by this.
SocketCloses(s) ==
  /\ sockets[s] # "free"
  /\ sockets' = [sockets EXCEPT ![s] = "free"]
  /\ ClearPing
  /\ IF stopped THEN UNCHANGED <<attempts, timers, lost, gaveUp>> ELSE ScheduleReconnect
  /\ UNCHANGED <<streams, seen, ws, stopped, keys, books, market, connects>>

\* A timeout that does not look whether the stream was stopped meanwhile.
ReopenAlways == OpenSocket

Reopen == IF stopped THEN UNCHANGED connection ELSE OpenSocket

ReconnectTimer ==
  /\ timers > 0
  /\ timers' = timers - 1
  /\ Reopen
  /\ UNCHANGED <<pings, pingTimer, attempts, stopped, history, keys, books, market>>

\* The exchange.
MarketMoves(p) ==
  /\ market[p] < MaxMoves
  /\ market' = [market EXCEPT ![p] = market[p] + 1]
  /\ UNCHANGED <<connection, timing, history, keys, books>>

StreamNext ==
  \/ ConnectWs \/ DisconnectWs \/ ReconnectTimer
  \/ \E p \in Pairs : Subscribe(p) \/ MarketMoves(p)
  \/ \E s \in Sockets : SocketOpens(s) \/ SocketCloses(s)
  \/ \E s \in Sockets, p \in Pairs, v \in 0..MaxMoves : Deliver(s, p, v)

StreamSpec == StreamInit /\ [][StreamNext]_streamVars

\* Node fires its timers, and a socket that connects opens or fails.
StreamFairness ==
  /\ WF_streamVars(ReconnectTimer)
  /\ WF_streamVars(\E s \in Sockets :
       sockets[s] = "connecting" /\ (SocketOpens(s) \/ SocketCloses(s)))

-----------------------------------------------------------------------------
(* Properties *)

\* However connections fail and come back, the client connected once never has
\* two of them, nor one and a reconnect that will make a second; and exactly
\* an open socket has a ping interval, so none is leaked (436-492).
StreamIsSingle ==
  /\ \A s, t \in Live : s = t
  /\ timers + (IF Live = {} THEN 0 ELSE 1) <= 1
  /\ pings = Opened

\* After disconnectWs nothing comes back: no socket is open or opens, no ping
\* runs, although a reconnect timeout may still be pending (400-408, 489-491).
StopIsFinal == stopped => Live = {} /\ pings = {}

\* The cached book of a pair never goes back in time, also when a reconnect
\* replaces the socket that fed it (411-413, 499-501).
BooksNeverGoBack == [][\A p \in Pairs : books'[p] >= books[p]]_books

\* The client gives up only after MAX_RECONNECT_ATTEMPTS reconnects in a row
\* have failed: a connection that opened in between resets the count (442, 481).
GivesUpLast == gaveUp => lost > MaxAttempts /\ timers = 0 /\ Live = {}

\* A lost stream comes back, unless the client is stopped or has given up: no
\* order of closings and timeouts leaves it with nothing that would reopen it.
StreamRecovers ==
  (connects > 0 /\ Live = {}) ~> (Opened # {} \/ stopped \/ gaveUp)
=============================================================================
