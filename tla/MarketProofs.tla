---------------------------- MODULE MarketProofs ----------------------------
(***************************************************************************)
(* Proofs about what feeds the bot, each component on its own.             *)
(*                                                                         *)
(* MarketStream: for a client that is connected once, as the bot's is,     *)
(* however sockets and timers call back.                                   *)
(* PoolMonitor: whichever of the three readers of a pool comes first.      *)
(* Telegram: wherever a session is stopped and a request is lost.          *)
(* RateLimiter: however calls overlap, fail and sleep.                     *)
(* InventorySync: that verifyBalances judges a trade by what the venues    *)
(* hold, whatever the amounts and the errors.                              *)
(*                                                                         *)
(* All for any number of pairs, sockets, attempts, messages, pools,        *)
(* refreshes, commands, sessions, requests, syncs, trades and transfers,   *)
(* and answers in any order.                                               *)
(***************************************************************************)
EXTENDS MarketStream, PoolMonitor, Telegram, RateLimiter, InventorySync, SequenceTheorems,
        SumTheorems, TLAPS

(* The order book stream *)

\* Only the socket opened last is alive, and its interval is the one that runs.
SocketInv ==
  /\ \A s \in Live : s = ws
  /\ pings = Opened
  /\ \A s \in Opened : pingTimer = s

\* A reconnect is pending only while no socket is alive, and sockets that are
\* being closed are those of a client that was stopped.
TimerInv ==
  /\ timers \in {0, 1}
  /\ timers > 0 => Live = {}
  /\ stopped => Live = {}
  /\ ~stopped => \A s \in Sockets : sockets[s] # "closing"

\* Before the one call of connectWs nothing is alive or pending.
ConnectInv ==
  /\ connects \in {0, 1}
  /\ connects = 0 => Live = {} /\ timers = 0 /\ ~stopped /\ ~gaveUp

\* Attempts are counted since the last opening, as losses are.
GiveUpInv ==
  /\ attempts <= lost
  /\ GivesUpLast

\* A living socket sends nothing older than what is cached.
BookInv == \A p \in Pairs :
  /\ books[p] <= market[p]
  /\ \A s \in Live : books[p] <= seen[s][p]

StreamInv ==
  StreamTypeOK /\ SocketInv /\ TimerInv /\ ConnectInv /\ GiveUpInv /\ BookInv

-----------------------------------------------------------------------------
(* Steps *)

LEMMA StreamStarts ==
  ASSUME MaxConnects <= 1, StreamInit
  PROVE  StreamInv
<1>1. Live = {} /\ Opened = {}
  BY DEF StreamInit, Live, Opened
<1>2. StreamTypeOK
  BY DEF StreamInit, StreamTypeOK
<1>. QED
  BY <1>1, <1>2, StreamAssumption
     DEF StreamInit, StreamInv, SocketInv, TimerInv, ConnectInv, GiveUpInv, GivesUpLast, BookInv

\* Steps that leave sockets alone leave the sets of them alone.
LEMMA SameSockets ==
  ASSUME sockets' = sockets
  PROVE  Live' = Live /\ Opened' = Opened
  BY DEF Live, Opened

LEMMA SubscribeKeeps ==
  ASSUME StreamInv, NEW p \in Pairs, Subscribe(p)
  PROVE  StreamInv'
<1>1. StreamTypeOK'
  BY DEF StreamInv, Subscribe, StreamTypeOK, connection, timing, history
<1>. QED
  BY <1>1, SameSockets
     DEF StreamInv, Subscribe, SocketInv, TimerInv, ConnectInv, GiveUpInv, GivesUpLast, BookInv,
         connection, timing, history

LEMMA MarketMovesKeeps ==
  ASSUME StreamInv, NEW p \in Pairs, MarketMoves(p)
  PROVE  StreamInv'
<1>1. StreamTypeOK'
  BY DEF StreamInv, MarketMoves, StreamTypeOK, connection, timing, history
<1>2. BookInv'
  <2>1. \A q \in Pairs : market[q] <= market'[q]
    BY DEF StreamInv, MarketMoves, StreamTypeOK
  <2>. QED
    BY <1>1, <2>1, SameSockets
       DEF StreamInv, MarketMoves, StreamTypeOK, BookInv, connection
<1>. QED
  BY <1>1, <1>2, SameSockets
     DEF StreamInv, MarketMoves, SocketInv, TimerInv, ConnectInv, GiveUpInv, GivesUpLast,
         connection, timing, history

\* A socket opened while none was alive is the only one.
LEMMA OpenSocketOpens ==
  ASSUME StreamTypeOK, BookInv, Live = {}, OpenSocket
  PROVE  /\ \E s \in Sockets : Live' = {s} /\ ws' = s /\ seen' = [seen EXCEPT ![s] = market]
         /\ Opened' = Opened
         /\ sockets' \in [Sockets -> {"free", "connecting", "open", "closing"}]
         /\ streams' \in [Sockets -> SUBSET Pairs]
         /\ seen' \in [Sockets -> [Pairs -> Nat]]
         /\ ws' \in Sockets
         /\ \A s \in Sockets : sockets[s] # "closing" => sockets'[s] # "closing"
<1>1. PICK s \in Sockets :
        /\ sockets[s] = "free"
        /\ sockets' = [sockets EXCEPT ![s] = "connecting"]
        /\ streams' = [streams EXCEPT ![s] = keys]
        /\ seen' = [seen EXCEPT ![s] = market]
        /\ ws' = s
  BY DEF OpenSocket, BuildStreamList
<1>2. Live' = {s} /\ Opened' = Opened
  BY <1>1 DEF StreamTypeOK, Live, Opened
<1>. QED  BY <1>1, <1>2 DEF StreamTypeOK

LEMMA ConnectWsKeeps ==
  ASSUME MaxConnects <= 1, StreamInv, ConnectWs
  PROVE  StreamInv'
<1>1. connects = 0 /\ connects' = 1 /\ Live = {} /\ Opened = {}
  BY StreamAssumption DEF StreamInv, ConnectWs, ConnectInv, StreamTypeOK, Live, Opened
<1>2. PICK s \in Sockets : Live' = {s} /\ ws' = s /\ seen' = [seen EXCEPT ![s] = market]
  BY <1>1, OpenSocketOpens DEF StreamInv, ConnectWs
<1>3. StreamTypeOK' /\ Opened' = {}
  <2>1. /\ sockets' \in [Sockets -> {"free", "connecting", "open", "closing"}]
        /\ streams' \in [Sockets -> SUBSET Pairs]
        /\ seen' \in [Sockets -> [Pairs -> Nat]]
        /\ ws' \in Sockets
        /\ Opened' = {}
    BY <1>1, OpenSocketOpens DEF StreamInv, ConnectWs
  <2>2. connects' \in Nat
    BY <1>1
  <2>3. stopped' \in BOOLEAN
    BY Zenon DEF ConnectWs
  <2>. QED  BY <2>1, <2>2, <2>3 DEF StreamInv, ConnectWs, StreamTypeOK
<1>4. SocketInv'
  BY <1>1, <1>2, <1>3 DEF StreamInv, ConnectWs, SocketInv
<1>5. TimerInv'
  BY <1>1, <1>2, OpenSocketOpens DEF StreamInv, ConnectWs, TimerInv, ConnectInv
<1>6. ConnectInv' /\ GiveUpInv'
  BY <1>1 DEF StreamInv, ConnectWs, ConnectInv, GiveUpInv, GivesUpLast
<1>7. BookInv'
  BY <1>2, <1>3 DEF StreamInv, ConnectWs, BookInv, StreamTypeOK
<1>. QED  BY <1>3, <1>4, <1>5, <1>6, <1>7 DEF StreamInv

LEMMA DisconnectWsKeeps ==
  ASSUME StreamInv, DisconnectWs
  PROVE  StreamInv'
<1>1. Live' = {} /\ Opened' = {}
  BY DEF StreamInv, DisconnectWs, SocketInv, Live, Opened
<1>2. StreamTypeOK'
  BY DEF StreamInv, DisconnectWs, ClearPing, StreamTypeOK, history
<1>3. pings' = {}
  BY DEF StreamInv, DisconnectWs, ClearPing, SocketInv, Live, Opened
<1>. QED
  BY <1>1, <1>2, <1>3
     DEF StreamInv, DisconnectWs, SocketInv, TimerInv, ConnectInv, GiveUpInv, GivesUpLast,
         BookInv, history

LEMMA SocketOpensKeeps ==
  ASSUME StreamInv, NEW s \in Sockets, SocketOpens(s)
  PROVE  StreamInv'
<1>1. Live = {s} /\ Opened = {} /\ ws = s
  BY DEF StreamInv, SocketOpens, SocketInv, Live, Opened
<1>2. Live' = {s} /\ Opened' = {s}
  BY <1>1 DEF StreamInv, SocketOpens, StreamTypeOK, Live, Opened
<1>3. StreamTypeOK'
  BY DEF StreamInv, SocketOpens, ResetAttempts, StreamTypeOK
<1>4. SocketInv'
  BY <1>1, <1>2 DEF StreamInv, SocketOpens, SocketInv
<1>5. TimerInv'
  BY <1>1, <1>2 DEF StreamInv, SocketOpens, StreamTypeOK, TimerInv
<1>6. ConnectInv' /\ GiveUpInv'
  BY <1>1, <1>2, StreamAssumption
     DEF StreamInv, SocketOpens, ResetAttempts, ConnectInv, GiveUpInv, GivesUpLast
<1>7. BookInv'
  BY <1>1, <1>2 DEF StreamInv, SocketOpens, BookInv
<1>. QED  BY <1>3, <1>4, <1>5, <1>6, <1>7 DEF StreamInv

LEMMA DeliverKeeps ==
  ASSUME StreamInv, NEW s \in Sockets, NEW p \in Pairs, NEW v \in 0..MaxMoves, Deliver(s, p, v)
  PROVE  /\ StreamInv'
         /\ \A q \in Pairs : books'[q] >= books[q]
<1>1. Live = {s} /\ v \in Nat
  BY DEF StreamInv, Deliver, SocketInv, Live
<1>2. /\ books' = [books EXCEPT ![p] = v]
      /\ seen' = [seen EXCEPT ![s] = [seen[s] EXCEPT ![p] = v]]
      /\ seen[s][p] <= v /\ v <= market[p]
      /\ market' = market /\ sockets' = sockets
  BY DEF Deliver
<1>3. StreamTypeOK'
  BY <1>1, <1>2 DEF StreamInv, Deliver, StreamTypeOK, timing, history
<1>4. books[p] <= seen[s][p] /\ \A q \in Pairs : books'[q] >= books[q]
  BY <1>1, <1>2 DEF StreamInv, StreamTypeOK, BookInv
<1>5. BookInv'
  BY <1>1, <1>2, SameSockets DEF StreamInv, StreamTypeOK, BookInv
<1>. QED
  BY <1>3, <1>4, <1>5, SameSockets
     DEF StreamInv, Deliver, SocketInv, TimerInv, ConnectInv, GiveUpInv, GivesUpLast,
         timing, history

LEMMA SocketClosesKeeps ==
  ASSUME StreamInv, NEW s \in Sockets, SocketCloses(s)
  PROVE  StreamInv'
<1>1. sockets' = [sockets EXCEPT ![s] = "free"] /\ ws' = ws /\ seen' = seen
  BY DEF SocketCloses
<1>2. Live' = {} /\ Opened' = {} /\ pings' = {}
  BY <1>1
     DEF StreamInv, SocketCloses, ClearPing, StreamTypeOK, SocketInv, TimerInv, Live, Opened
<1>3. ~stopped => timers = 0 /\ connects = 1 /\ ~gaveUp
  BY DEF StreamInv, SocketCloses, StreamTypeOK, TimerInv, ConnectInv, GiveUpInv, GivesUpLast, Live
<1>4. StreamTypeOK'
  <2>1. sockets' \in [Sockets -> {"free", "connecting", "open", "closing"}]
    BY <1>1 DEF StreamInv, StreamTypeOK
  <2>2. attempts' \in Nat /\ timers' \in Nat /\ lost' \in Nat
    BY DEF StreamInv, SocketCloses, ScheduleReconnect, StreamTypeOK
  <2>3. gaveUp' \in BOOLEAN
    BY DEF StreamInv, SocketCloses, ScheduleReconnect, StreamTypeOK
  <2>4. pings' \in SUBSET Sockets /\ pingTimer' = NoSocket
    BY DEF StreamInv, SocketCloses, ClearPing, StreamTypeOK
  <2>. QED
    BY <2>1, <2>2, <2>3, <2>4 DEF StreamInv, SocketCloses, StreamTypeOK
<1>5. SocketInv'
  BY <1>2 DEF SocketInv
<1>6. TimerInv'
  <2>1. timers' \in {0, 1}
    BY <1>3, StreamAssumption DEF StreamInv, SocketCloses, ScheduleReconnect, TimerInv
  <2>2. ~stopped' => \A t \in Sockets : sockets'[t] # "closing"
    BY <1>1 DEF StreamInv, SocketCloses, StreamTypeOK, TimerInv
  <2>. QED  BY <1>2, <2>1, <2>2 DEF TimerInv
<1>7. ConnectInv'
  BY <1>2, <1>3 DEF StreamInv, SocketCloses, ConnectInv
<1>8. GiveUpInv'
  BY <1>2, <1>3, StreamAssumption
     DEF StreamInv, SocketCloses, ScheduleReconnect, StreamTypeOK, GiveUpInv, GivesUpLast
<1>9. BookInv'
  BY <1>2 DEF StreamInv, SocketCloses, BookInv
<1>. QED  BY <1>4, <1>5, <1>6, <1>7, <1>8, <1>9 DEF StreamInv

LEMMA ReconnectTimerKeeps ==
  ASSUME StreamInv, ReconnectTimer
  PROVE  StreamInv'
<1>1. timers = 1 /\ timers' = 0 /\ Live = {} /\ connects = 1 /\ ~gaveUp
  BY DEF StreamInv, ReconnectTimer, TimerInv, ConnectInv, GiveUpInv, GivesUpLast
<1>2. CASE stopped
  <2>1. StreamTypeOK'
    BY <1>1, <1>2 DEF StreamInv, ReconnectTimer, Reopen, StreamTypeOK, connection, history
  <2>. QED
    BY <1>1, <1>2, <2>1, SameSockets
       DEF StreamInv, ReconnectTimer, Reopen, SocketInv, TimerInv, ConnectInv, GiveUpInv,
           GivesUpLast, BookInv, connection, history
<1>3. CASE ~stopped
  <2>1. OpenSocket /\ Opened = {}
    BY <1>1, <1>3 DEF ReconnectTimer, Reopen, Live, Opened
  <2>2. PICK s \in Sockets : Live' = {s} /\ ws' = s /\ seen' = [seen EXCEPT ![s] = market]
    BY <1>1, <2>1, OpenSocketOpens DEF StreamInv
  <2>3. StreamTypeOK' /\ Opened' = {}
    BY <1>1, <2>1, OpenSocketOpens DEF StreamInv, ReconnectTimer, StreamTypeOK, history
  <2>4. SocketInv'
    BY <2>1, <2>2, <2>3 DEF StreamInv, ReconnectTimer, SocketInv
  <2>5. TimerInv'
    BY <1>1, <1>3, <2>1, <2>2, OpenSocketOpens DEF StreamInv, ReconnectTimer, TimerInv
  <2>6. ConnectInv' /\ GiveUpInv'
    BY <1>1
       DEF StreamInv, ReconnectTimer, ConnectInv, GiveUpInv, GivesUpLast, history
  <2>7. BookInv'
    BY <2>2, <2>3 DEF StreamInv, ReconnectTimer, BookInv, StreamTypeOK
  <2>. QED  BY <2>3, <2>4, <2>5, <2>6, <2>7 DEF StreamInv
<1>. QED  BY <1>2, <1>3

LEMMA StutterKeeps ==
  ASSUME StreamInv, UNCHANGED streamVars
  PROVE  StreamInv'
<1>1. StreamTypeOK'
  BY DEF StreamInv, StreamTypeOK, streamVars, connection, timing, history
<1>. QED
  BY <1>1, SameSockets
     DEF StreamInv, SocketInv, TimerInv, ConnectInv, GiveUpInv, GivesUpLast, BookInv,
         streamVars, connection, timing, history

LEMMA StreamSteps ==
  ASSUME MaxConnects <= 1, StreamInv, [StreamNext]_streamVars
  PROVE  StreamInv'
  BY SubscribeKeeps, MarketMovesKeeps, ConnectWsKeeps, DisconnectWsKeeps, SocketOpensKeeps,
     DeliverKeeps, SocketClosesKeeps, ReconnectTimerKeeps, StutterKeeps
     DEF StreamNext

LEMMA StreamInvHolds ==
  ASSUME MaxConnects <= 1
  PROVE  StreamSpec => []StreamInv
<1>1. StreamInit => StreamInv
  BY StreamStarts
<1>2. StreamInv /\ [StreamNext]_streamVars => StreamInv'
  BY StreamSteps
<1>. QED  BY <1>1, <1>2, PTL DEF StreamSpec

-----------------------------------------------------------------------------
(* Theorems *)

\* A client connected once never has two connections, nor one and a pending
\* reconnect, and only an open socket has a ping interval.
THEOREM OneStream ==
  ASSUME MaxConnects <= 1
  PROVE  StreamSpec => [](StreamTypeOK /\ StreamIsSingle)
<1>1. StreamInv => StreamTypeOK /\ StreamIsSingle
  BY DEF StreamInv, SocketInv, TimerInv, StreamIsSingle
<1>. QED  BY <1>1, StreamInvHolds, PTL

\* After disconnectWs nothing comes back.
THEOREM StoppedForGood ==
  ASSUME MaxConnects <= 1
  PROVE  StreamSpec => []StopIsFinal
<1>1. StreamInv => StopIsFinal
  BY DEF StreamInv, SocketInv, TimerInv, StopIsFinal, Live, Opened
<1>. QED  BY <1>1, StreamInvHolds, PTL

\* A client gives up only after as many failures in a row as it may try.
THEOREM GivingUpIsLast ==
  ASSUME MaxConnects <= 1
  PROVE  StreamSpec => []GivesUpLast
<1>1. StreamInv => GivesUpLast
  BY DEF StreamInv, GiveUpInv
<1>. QED  BY <1>1, StreamInvHolds, PTL

\* No cached book is ever replaced by an older one.
THEOREM BooksAreMonotonic ==
  ASSUME MaxConnects <= 1
  PROVE  StreamSpec => BooksNeverGoBack
<1>1. ASSUME StreamInv, [StreamNext]_streamVars
      PROVE  [\A p \in Pairs : books'[p] >= books[p]]_books
  <2>1. CASE books' = books
    BY <2>1
  <2>2. ASSUME NEW s \in Sockets, NEW p \in Pairs, NEW v \in 0..MaxMoves, Deliver(s, p, v)
        PROVE  \A q \in Pairs : books'[q] >= books[q]
    BY <1>1, <2>2, DeliverKeeps
  <2>3. books' = books \/ \E s \in Sockets, p \in Pairs, v \in 0..MaxMoves : Deliver(s, p, v)
    BY <1>1
       DEF StreamNext, ConnectWs, DisconnectWs, ReconnectTimer, Subscribe, MarketMoves,
           SocketOpens, SocketCloses, streamVars
  <2>. QED  BY <2>1, <2>2, <2>3
<1>. QED  BY <1>1, StreamInvHolds, PTL DEF StreamSpec, BooksNeverGoBack

-----------------------------------------------------------------------------
(* The pool monitor *)

\* Whatever was read or is held has been on chain.
VersionInv ==
  /\ \A p \in Pools : pools[p] <= newest[p] /\ newest[p] <= chain[p]
  /\ \A p \in Pools : reading[p] # Unread => reading[p] <= chain[p]
  /\ \A r \in Refreshes : refreshes[r].at <= chain[refreshes[r].pool]

\* Nothing is subscribed, and nothing was told, before the monitor runs.
MonitorInv ==
  /\ running <=> monitor = "on"
  /\ monitor # "on" => told = {} /\ \A p \in Pools : watch[p] = "none"

\* Only a subscription has events, of which the last is the last move.
EventInv == \A p \in Pools :
  /\ watch[p] # "active" => events[p] = <<>>
  /\ \A i \in 1..Len(events[p]) : events[p][i] <= chain[p]
  /\ events[p] # <<>> => events[p][Len(events[p])] = chain[p]

\* Once the events of a told pool are through, the engine has held what is on
\* chain, and only a late refresh took it away.
ToldInv == \A p \in Pools :
  p \in told /\ events[p] = <<>> =>
    newest[p] = chain[p] /\ (p \notin late => pools[p] = newest[p])

PoolInv == PoolTypeOK /\ VersionInv /\ MonitorInv /\ EventInv /\ ToldInv

\* The empty sequence has no indices.
LEMMA NoIndices == 1..Len(<<>>) = {}
<1>1. Len(<<>>) = 0
  BY EmptySeq
<1>. QED  BY <1>1

\* The head of a sequence and what follows it.
LEMMA HeadAndTail ==
  ASSUME NEW S, NEW s \in Seq(S), s # <<>>
  PROVE  /\ Head(s) \in S /\ Head(s) = s[1]
         /\ 1 \in 1..Len(s)
         /\ Tail(s) \in Seq(S)
         /\ Len(Tail(s)) = Len(s) - 1
         /\ \A i \in 1..Len(Tail(s)) : Tail(s)[i] = s[i + 1]
         /\ Tail(s) = <<>> => Len(s) = 1
<1>1. Len(s) \in Nat \ {0}
  BY EmptySeq
<1>2. /\ Head(s) \in S /\ Tail(s) \in Seq(S) /\ Len(Tail(s)) = Len(s) - 1
      /\ \A i \in 1..Len(Tail(s)) : Tail(s)[i] = s[i + 1]
  BY HeadTailProperties
<1>3. Head(s) = s[1] /\ 1 \in 1..Len(s)
  BY <1>1
<1>4. Tail(s) = <<>> => Len(s) = 1
  <2>1. Tail(s) = <<>> => Len(Tail(s)) = 0
    BY EmptySeq, Zenon
  <2>. QED
    BY <1>1, <1>2, <2>1
<1>. QED  BY <1>2, <1>3, <1>4

Refresh == [pc : {"idle", "seen", "asked", "read"}, pool : Pools, at : 0..MaxVersion]

LEMMA IdleRefreshType == IdleRefresh \in Refresh /\ IdleRefresh.at = 0
  BY PoolAssumption DEF IdleRefresh, Refresh

\* Types of a state, for the steps that change none of the variables not named.
LEMMA VersionTypes ==
  ASSUME PoolTypeOK, NEW p \in Pools
  PROVE  /\ chain[p] \in 0..MaxVersion /\ chain[p] \in Nat
         /\ pools[p] \in 0..MaxVersion /\ pools[p] \in Nat
         /\ newest[p] \in 0..MaxVersion /\ newest[p] \in Nat
         /\ reading[p] \in 0..Unread /\ reading[p] \in Nat
         /\ events[p] \in Seq(0..MaxVersion)
  BY PoolAssumption DEF PoolTypeOK, Unread

LEMMA PoolsStart ==
  ASSUME PoolInit
  PROVE  PoolInv
<1>1. PoolTypeOK
  <2>1. events \in [Pools -> Seq(0..MaxVersion)]
    BY EmptySeq DEF PoolInit
  <2>2. refreshes \in [Refreshes -> Refresh]
    BY IdleRefreshType DEF PoolInit
  <2>3. /\ reading \in [Pools -> 0..Unread]
        /\ chain \in [Pools -> 0..MaxVersion]
        /\ pools \in [Pools -> 0..MaxVersion]
        /\ newest \in [Pools -> 0..MaxVersion]
        /\ losses \in 0..MaxLosses
    BY PoolAssumption DEF PoolInit, Unread
  <2>. QED
    BY <2>1, <2>2, <2>3 DEF PoolInit, PoolTypeOK, Refresh
<1>2. VersionInv
  <2>1. \A r \in Refreshes : refreshes[r].at = 0 /\ refreshes[r].pool \in Pools
    BY IdleRefreshType DEF PoolInit, Refresh
  <2>. QED
    BY <2>1 DEF PoolInit, VersionInv
<1>3. MonitorInv
  BY DEF PoolInit, MonitorInv
<1>4. EventInv
  <2>1. \A p \in Pools : events[p] = <<>> /\ 1..Len(events[p]) = {}
    BY NoIndices DEF PoolInit
  <2>. QED
    BY <2>1 DEF EventInv
<1>5. ToldInv
  BY DEF PoolInit, ToldInv
<1>. QED
  BY <1>1, <1>2, <1>3, <1>4, <1>5 DEF PoolInv

-----------------------------------------------------------------------------
(* Steps that write no pool *)

LEMMA PoolMovesKeeps ==
  ASSUME PoolInv, NEW p \in Pools, PoolMoves(p)
  PROVE  PoolInv'
<1>1. /\ chain[p] < MaxVersion
      /\ chain' = [chain EXCEPT ![p] = chain[p] + 1]
      /\ UNCHANGED <<pools, newest, late, monitor, running, reading, losses, watch, mempool,
                     refreshes>>
  BY DEF PoolMoves, held, monitorVars, mempoolVars
<1>2. PoolTypeOK /\ chain' \in [Pools -> 0..MaxVersion]
  <2>1. PoolTypeOK
    BY DEF PoolInv
  <2>2. chain[p] + 1 \in 0..MaxVersion
    BY <1>1, <2>1, VersionTypes, PoolAssumption
  <2>. QED
    BY <1>1, <2>1, <2>2 DEF PoolTypeOK
<1>3. \A q \in Pools : chain[q] \in Nat /\ chain'[q] = IF q = p THEN chain[q] + 1 ELSE chain[q]
  BY <1>1, <1>2, VersionTypes DEF PoolTypeOK
<1>4. VersionInv'
  <2>1. \A q \in Pools : chain[q] <= chain'[q] /\ chain'[q] \in Nat
    BY <1>3
  <2>2. \A q \in Pools : pools[q] <= newest[q] /\ newest[q] <= chain'[q]
    BY <1>2, <2>1, VersionTypes DEF PoolInv, VersionInv
  <2>3. \A q \in Pools : reading[q] # Unread => reading[q] <= chain'[q]
    BY <1>2, <2>1, VersionTypes DEF PoolInv, VersionInv
  <2>4. \A r \in Refreshes : refreshes[r].at <= chain'[refreshes[r].pool]
    <3>1. ASSUME NEW r \in Refreshes
          PROVE  /\ refreshes[r].pool \in Pools /\ refreshes[r].at \in Nat
                 /\ refreshes[r].at <= chain[refreshes[r].pool]
      BY <1>2, PoolAssumption DEF PoolInv, VersionInv, PoolTypeOK
    <3>. QED
      BY <1>3, <2>1, <3>1
  <2>. QED
    BY <1>1, <2>2, <2>3, <2>4 DEF VersionInv, Unread
<1>5. CASE watch[p] = "active"
  <2>1. /\ events' = [events EXCEPT ![p] = Append(events[p], chain[p] + 1)]
        /\ told' = told \cup {p}
    BY <1>5 DEF PoolMoves
  <2>2. events[p] \in Seq(0..MaxVersion) /\ chain[p] + 1 \in 0..MaxVersion
    BY <1>1, <1>2, VersionTypes, PoolAssumption
  <2>3. /\ events'[p] \in Seq(0..MaxVersion)
        /\ events'[p] # <<>>
        /\ Len(events'[p]) = Len(events[p]) + 1
        /\ \A i \in 1..Len(events[p]) : events'[p][i] = events[p][i]
        /\ events'[p][Len(events[p]) + 1] = chain[p] + 1
    BY <1>2, <2>1, <2>2, AppendProperties DEF PoolTypeOK
  <2>4. \A q \in Pools : q # p => events'[q] = events[q] /\ chain'[q] = chain[q]
    BY <1>2, <1>3, <2>1 DEF PoolTypeOK
  <2>5. PoolTypeOK'
    BY <1>1, <1>2, <2>1, <2>3 DEF PoolTypeOK
  <2>6. \A i \in 1..Len(events'[p]) : events'[p][i] <= chain'[p]
    <3>1. ASSUME NEW i \in 1..Len(events[p])
          PROVE  events[p][i] <= chain[p] + 1
      <4>1. events[p][i] \in 0..MaxVersion /\ events[p][i] <= chain[p]
        BY <2>2, ElementOfSeq DEF PoolInv, EventInv
      <4>. QED
        BY <1>3, <4>1
    <3>2. \A i \in 1..Len(events'[p]) : i \in 1..Len(events[p]) \/ i = Len(events[p]) + 1
      BY <2>2, <2>3, LenProperties
    <3>. QED
      BY <1>3, <2>3, <3>1, <3>2
  <2>7. EventInv'
    BY <1>1, <1>3, <1>5, <2>3, <2>4, <2>6 DEF PoolInv, EventInv
  <2>8. ToldInv'
    BY <1>1, <2>1, <2>3, <2>4 DEF PoolInv, ToldInv
  <2>9. MonitorInv'
    BY <1>1, <1>5, <2>1 DEF PoolInv, MonitorInv
  <2>. QED
    BY <1>4, <2>5, <2>7, <2>8, <2>9 DEF PoolInv
<1>6. CASE watch[p] # "active"
  <2>1. events' = events /\ told' = told \ {p}
    BY <1>6 DEF PoolMoves
  <2>2. PoolTypeOK'
    BY <1>1, <1>2, <2>1 DEF PoolTypeOK
  <2>3. EventInv'
    BY <1>1, <1>3, <1>6, <2>1, EmptySeq DEF PoolInv, EventInv
  <2>4. ToldInv'
    BY <1>1, <1>3, <2>1 DEF PoolInv, ToldInv
  <2>5. MonitorInv'
    BY <1>1, <2>1 DEF PoolInv, MonitorInv
  <2>. QED
    BY <1>4, <2>2, <2>3, <2>4, <2>5 DEF PoolInv
<1>. QED
  BY <1>5, <1>6

LEMMA SubscribedKeeps ==
  ASSUME PoolInv, NEW p \in Pools, Subscribed(p)
  PROVE  PoolInv'
<1>1. /\ watch[p] = "asked"
      /\ watch' = [watch EXCEPT ![p] = "active"]
      /\ UNCHANGED <<chain, pools, newest, late, monitor, running, reading, losses, events,
                     mempool, refreshes, told>>
  BY DEF Subscribed, held, monitorVars, mempoolVars
<1>2. PoolTypeOK'
  BY <1>1 DEF PoolInv, PoolTypeOK, Unread
<1>3. VersionInv' /\ ToldInv'
  BY <1>1 DEF PoolInv, VersionInv, ToldInv, Unread
<1>4. MonitorInv' /\ EventInv'
  BY <1>1 DEF PoolInv, PoolTypeOK, MonitorInv, EventInv
<1>. QED
  BY <1>2, <1>3, <1>4 DEF PoolInv

LEMMA SubscriptionLostKeeps ==
  ASSUME PoolInv, NEW p \in Pools, SubscriptionLost(p)
  PROVE  PoolInv'
<1>1. /\ watch[p] = "active"
      /\ losses < MaxLosses
      /\ losses' = losses + 1
      /\ watch' = [watch EXCEPT ![p] = "asked"]
      /\ events' = [events EXCEPT ![p] = <<>>]
      /\ told' = IF events[p] = <<>> THEN told ELSE told \ {p}
      /\ UNCHANGED <<chain, pools, newest, late, monitor, running, reading, mempool, refreshes>>
  BY DEF SubscriptionLost, held, mempoolVars
<1>2. PoolTypeOK'
  <2>1. /\ losses' \in 0..MaxLosses
        /\ watch' \in [Pools -> {"none", "asked", "active"}]
        /\ events' \in [Pools -> Seq(0..MaxVersion)]
        /\ told' \in SUBSET Pools
    BY <1>1, EmptySeq, PoolAssumption DEF PoolInv, PoolTypeOK
  <2>. QED
    BY <1>1, <2>1 DEF PoolInv, PoolTypeOK, Unread
<1>3. /\ events'[p] = <<>>
      /\ \A q \in Pools : q # p => events'[q] = events[q] /\ watch'[q] = watch[q]
  BY <1>1 DEF PoolInv, PoolTypeOK
<1>4. VersionInv'
  BY <1>1 DEF PoolInv, VersionInv, Unread
<1>5. MonitorInv'
  BY <1>1 DEF PoolInv, MonitorInv
<1>6. EventInv'
  BY <1>1, <1>3, EmptySeq DEF PoolInv, EventInv
<1>7. ToldInv'
  BY <1>1, <1>3 DEF PoolInv, ToldInv
<1>. QED
  BY <1>2, <1>4, <1>5, <1>6, <1>7 DEF PoolInv

\* Steps of a refresh before its answer is used.
LEMMA RefreshesKeep ==
  ASSUME PoolInv,
         refreshes' \in [Refreshes -> Refresh], mempool' \in BOOLEAN,
         \A r \in Refreshes : refreshes'[r].at <= chain[refreshes'[r].pool],
         UNCHANGED <<chain, pools, newest, late, monitor, running, reading, losses, watch, events,
                    told>>
  PROVE  PoolInv'
<1>1. PoolTypeOK'
  BY DEF PoolInv, PoolTypeOK, Refresh, Unread
<1>2. VersionInv'
  BY DEF PoolInv, VersionInv, Unread
<1>3. MonitorInv' /\ EventInv' /\ ToldInv'
  BY DEF PoolInv, MonitorInv, EventInv, ToldInv
<1>. QED
  BY <1>1, <1>2, <1>3 DEF PoolInv

LEMMA RefreshStepsKeep ==
  ASSUME PoolInv,
         \/ StartMonitor \/ StopMonitor
         \/ \E r \in Refreshes :
              NoSwap(r) \/ OnMempoolSwap(r) \/ RefreshReads(r) \/ RefreshFails(r)
         \/ \E r \in Refreshes, p \in Pools : HandleHash(r, p)
  PROVE  PoolInv'
<1>1. /\ refreshes \in [Refreshes -> Refresh] /\ mempool \in BOOLEAN
      /\ \A r \in Refreshes : refreshes[r].at <= chain[refreshes[r].pool]
      /\ \A p \in Pools : chain[p] \in 0..MaxVersion
      /\ 0 \in 0..MaxVersion
  BY PoolAssumption DEF PoolInv, PoolTypeOK, VersionInv, Refresh
<1>2. CASE StartMonitor \/ StopMonitor
  BY <1>1, <1>2, RefreshesKeep DEF StartMonitor, StopMonitor, held, monitorVars
<1>3. ASSUME NEW r \in Refreshes, NEW new \in Refresh, new.at <= chain[new.pool],
             refreshes' = [refreshes EXCEPT ![r] = new],
             UNCHANGED <<chain, held, monitorVars, watch, events, mempool, told>>
      PROVE  PoolInv'
  <2>1. refreshes' \in [Refreshes -> Refresh]
    BY <1>1, <1>3
  <2>2. \A q \in Refreshes : refreshes'[q].at <= chain[refreshes'[q].pool]
    BY <1>1, <1>3
  <2>. QED
    BY <1>1, <1>3, <2>1, <2>2, RefreshesKeep DEF held, monitorVars
<1>4. ASSUME NEW r \in Refreshes, NoSwap(r) \/ RefreshFails(r)
      PROVE  PoolInv'
  <2>1. IdleRefresh \in Refresh /\ IdleRefresh.at <= chain[IdleRefresh.pool]
    BY <1>1, IdleRefreshType DEF Refresh
  <2>. QED
    BY <1>3, <1>4, <2>1 DEF NoSwap, RefreshFails
<1>5. ASSUME NEW r \in Refreshes, NEW p \in Pools, NEW step \in {"seen", "asked", "read"},
             NEW at \in {0, chain[p]},
             refreshes' = [refreshes EXCEPT ![r] = [pc |-> step, pool |-> p, at |-> at]],
             UNCHANGED <<chain, held, monitorVars, watch, events, mempool, told>>
      PROVE  PoolInv'
  <2> DEFINE new == [pc |-> step, pool |-> p, at |-> at]
  <2>1. new \in Refresh /\ new.at <= chain[new.pool]
    BY <1>1, <1>5 DEF Refresh
  <2>. QED
    BY <1>3, <1>5, <2>1
<1>6. ASSUME NEW r \in Refreshes
      PROVE  refreshes[r].pool \in Pools
  BY <1>1 DEF Refresh
<1>7. ASSUME NEW r \in Refreshes, OnMempoolSwap(r)
      PROVE  PoolInv'
  BY <1>5, <1>6, <1>7 DEF OnMempoolSwap
<1>8. ASSUME NEW r \in Refreshes, RefreshReads(r)
      PROVE  PoolInv'
  BY <1>5, <1>6, <1>8 DEF RefreshReads
<1>9. ASSUME NEW r \in Refreshes, NEW p \in Pools, HandleHash(r, p)
      PROVE  PoolInv'
  BY <1>5, <1>9 DEF HandleHash
<1>. QED
  BY <1>2, <1>4, <1>7, <1>8, <1>9

-----------------------------------------------------------------------------
(* Steps of the monitor *)

LEMMA StartPoolMonitorKeeps ==
  ASSUME PoolInv, StartPoolMonitor \/ MonitorFails
  PROVE  PoolInv'
<1>1. /\ monitor \in {"off", "reading"} /\ monitor' \in {"reading", "failed"}
      /\ UNCHANGED <<chain, pools, newest, late, running, reading, watch, events, mempool,
                     refreshes, losses, told>>
  BY DEF StartPoolMonitor, ReadFirst, MonitorFails, held, mempoolVars
<1>2. PoolTypeOK'
  BY <1>1 DEF PoolInv, PoolTypeOK, Unread
<1>3. VersionInv'
  BY <1>1 DEF PoolInv, VersionInv, Unread
<1>4. MonitorInv' /\ EventInv' /\ ToldInv'
  BY <1>1 DEF PoolInv, MonitorInv, EventInv, ToldInv
<1>. QED
  BY <1>2, <1>3, <1>4 DEF PoolInv

LEMMA MonitorReadsKeeps ==
  ASSUME PoolInv, NEW p \in Pools, MonitorReads(p)
  PROVE  PoolInv'
<1>1. /\ reading' = [reading EXCEPT ![p] = chain[p]]
      /\ UNCHANGED <<chain, pools, newest, late, monitor, running, watch, events, mempool,
                     refreshes, losses, told>>
  BY DEF MonitorReads, held, mempoolVars
<1>2. PoolTypeOK /\ chain[p] \in 0..Unread /\ chain[p] \in Nat
  BY VersionTypes, PoolAssumption DEF PoolInv, Unread
<1>3. reading' \in [Pools -> 0..Unread]
  BY <1>1, <1>2 DEF PoolTypeOK
<1>4. PoolTypeOK'
  BY <1>1, <1>2, <1>3 DEF PoolTypeOK, Unread
<1>5. VersionInv'
  <2>1. \A q \in Pools : reading'[q] # Unread => reading'[q] <= chain[q]
    BY <1>1, <1>2 DEF PoolInv, PoolTypeOK, VersionInv
  <2>. QED
    BY <1>1, <2>1 DEF PoolInv, VersionInv, Unread
<1>6. MonitorInv' /\ EventInv' /\ ToldInv'
  BY <1>1 DEF PoolInv, MonitorInv, EventInv, ToldInv
<1>. QED
  BY <1>4, <1>5, <1>6 DEF PoolInv

\* What Remember does to the newest versions and the late pools.
LEMMA Remembering ==
  ASSUME PoolTypeOK, NEW refreshed \in SUBSET Pools, Remember(refreshed),
         pools' \in [Pools -> 0..MaxVersion]
  PROVE  /\ newest' \in [Pools -> 0..MaxVersion]
         /\ late' \in SUBSET Pools
         /\ \A q \in Pools : newest'[q] = IF pools'[q] > newest[q] THEN pools'[q] ELSE newest[q]
         /\ \A q \in Pools : q \in late' <=> q \in late \cup refreshed /\ pools'[q] < newest[q]
<1>1. /\ newest' = [q \in Pools |-> IF pools'[q] > newest[q] THEN pools'[q] ELSE newest[q]]
      /\ late' = {q \in late \cup refreshed : pools'[q] < newest[q]}
  BY DEF Remember
<1>2. newest' \in [Pools -> 0..MaxVersion]
  BY <1>1 DEF PoolTypeOK
<1>3. late \in SUBSET Pools
  BY DEF PoolTypeOK
<1>. QED
  BY <1>1, <1>2, <1>3

LEMMA MonitorReadyKeeps ==
  ASSUME PoolInv, MonitorReady
  PROVE  PoolInv'
<1>1. /\ monitor = "reading"
      /\ \A p \in Pools : reading[p] # Unread
      /\ pools' = reading
      /\ Remember({})
      /\ monitor' = "on"
      /\ running' = TRUE
      /\ watch' = [p \in Pools |-> "asked"]
      /\ UNCHANGED <<chain, reading, events, mempool, refreshes, losses, told>>
  BY DEF MonitorReady, mempoolVars
<1>2. PoolTypeOK /\ told = {} /\ \A p \in Pools : events[p] = <<>>
  BY <1>1 DEF PoolInv, MonitorInv, EventInv
<1>3. pools' \in [Pools -> 0..MaxVersion]
  <2>1. \A p \in Pools : reading[p] \in 0..Unread /\ reading[p] # Unread
    BY <1>1, <1>2, VersionTypes
  <2>2. ASSUME NEW p \in Pools
        PROVE  reading[p] \in 0..MaxVersion
    <3>1. ASSUME NEW v \in 0..Unread, v # Unread
          PROVE  v \in 0..MaxVersion
      BY <3>1, PoolAssumption DEF Unread
    <3>. QED
      BY <2>1, <3>1
  <2>. QED
    BY <1>1, <1>2, <2>2 DEF PoolTypeOK
<1>4. /\ newest' \in [Pools -> 0..MaxVersion]
      /\ late' \in SUBSET Pools
      /\ \A q \in Pools : newest'[q] = IF pools'[q] > newest[q] THEN pools'[q] ELSE newest[q]
  BY <1>1, <1>2, <1>3, Remembering
<1>5. PoolTypeOK'
  BY <1>1, <1>2, <1>3, <1>4 DEF PoolTypeOK, Unread
<1>6. VersionInv'
  <2>1. ASSUME NEW q \in Pools
        PROVE  pools'[q] <= newest'[q] /\ newest'[q] <= chain[q]
    <3>1. /\ reading[q] <= chain[q] /\ newest[q] <= chain[q]
          /\ reading[q] \in Nat /\ newest[q] \in Nat
      BY <1>1, <1>2, VersionTypes DEF PoolInv, VersionInv
    <3>. QED
      BY <1>1, <1>4, <3>1
  <2>. QED
    BY <1>1, <2>1 DEF PoolInv, VersionInv, Unread
<1>7. MonitorInv' /\ EventInv' /\ ToldInv'
  <2>1. MonitorInv' /\ ToldInv'
    BY <1>1, <1>2 DEF MonitorInv, ToldInv
  <2>2. EventInv'
    BY <1>1, <1>2, EmptySeq DEF PoolInv, EventInv
  <2>. QED
    BY <2>1, <2>2
<1>. QED
  BY <1>5, <1>6, <1>7 DEF PoolInv

\* A pool is written with a version that has been on chain: by an event, with
\* which it leaves, or by a refresh.
LEMMA WriteKeeps ==
  ASSUME PoolInv, NEW p \in Pools, NEW v \in 0..MaxVersion, v <= chain[p],
         NEW refreshed \in SUBSET {p}, Remember(refreshed),
         pools' = [pools EXCEPT ![p] = v],
         p \in told /\ events'[p] = <<>> => v = chain[p] \/ (events[p] = <<>> /\ p \in refreshed),
         \A q \in Pools : q # p => events'[q] = events[q],
         UNCHANGED <<chain, reading, told>>,
         PoolTypeOK', MonitorInv', EventInv',
         \A r \in Refreshes : refreshes'[r].at <= chain[refreshes'[r].pool]
  PROVE  PoolInv'
<1>1. PoolTypeOK
  BY DEF PoolInv
<1>2. \A q \in Pools :
        /\ newest'[q] = IF pools'[q] > newest[q] THEN pools'[q] ELSE newest[q]
        /\ q \in late' <=> q \in late \cup refreshed /\ pools'[q] < newest[q]
  <2>1. refreshed \in SUBSET Pools /\ pools' \in [Pools -> 0..MaxVersion]
    BY DEF PoolTypeOK
  <2>. QED
    BY <1>1, <2>1, Remembering
<1>3. \A q \in Pools : /\ pools'[q] = IF q = p THEN v ELSE pools[q]
                       /\ pools[q] \in Nat /\ newest[q] \in Nat /\ chain[q] \in Nat /\ v \in Nat
                       /\ pools[q] <= newest[q] /\ newest[q] <= chain[q]
  BY <1>1, VersionTypes DEF PoolInv, PoolTypeOK, VersionInv
<1>4. \A q \in Pools : pools'[q] <= newest'[q] /\ newest'[q] <= chain[q]
  BY <1>2, <1>3
<1>5. VersionInv'
  BY <1>4 DEF PoolInv, VersionInv, Unread
<1>6. ASSUME NEW q \in Pools, q \in told, events'[q] = <<>>
      PROVE  newest'[q] = chain[q] /\ (q \notin late' => pools'[q] = newest'[q])
  <2>1. CASE q # p
    <3>1. newest[q] = chain[q] /\ (q \notin late => pools[q] = newest[q])
      BY <1>6, <2>1 DEF PoolInv, ToldInv
    <3>. QED
      BY <1>2, <1>3, <2>1, <3>1
  <2>2. CASE q = p /\ v = chain[p]
    BY <1>2, <1>3, <2>2
  <2>3. CASE q = p /\ events[p] = <<>> /\ p \in refreshed
    <3>1. newest[p] = chain[p]
      BY <1>6, <2>3 DEF PoolInv, ToldInv
    <3>. QED
      BY <1>2, <1>3, <2>3, <3>1
  <2>. QED
    BY <1>6, <2>1, <2>2, <2>3
<1>7. ToldInv'
  BY <1>6 DEF ToldInv
<1>. QED
  BY <1>5, <1>7 DEF PoolInv

LEMMA OnSyncKeeps ==
  ASSUME PoolInv, NEW p \in Pools, OnSync(p)
  PROVE  PoolInv'
<1> DEFINE v == Head(events[p])
<1>1. /\ events[p] # <<>>
      /\ pools' = [pools EXCEPT ![p] = v]
      /\ Remember({})
      /\ events' = [events EXCEPT ![p] = Tail(events[p])]
      /\ UNCHANGED <<chain, monitor, running, reading, losses, watch, mempool, refreshes, told>>
  BY DEF OnSync, monitorVars, mempoolVars
<1>2. PoolTypeOK /\ events[p] \in Seq(0..MaxVersion)
  BY VersionTypes DEF PoolInv
<1>3. /\ v \in 0..MaxVersion /\ v = events[p][1]
      /\ 1 \in 1..Len(events[p])
      /\ Tail(events[p]) \in Seq(0..MaxVersion)
      /\ Len(Tail(events[p])) = Len(events[p]) - 1
      /\ \A i \in 1..Len(Tail(events[p])) : Tail(events[p])[i] = events[p][i + 1]
  BY <1>1, <1>2, HeadAndTail
<1>4. /\ v <= chain[p]
      /\ events[p][Len(events[p])] = chain[p]
      /\ \A i \in 1..Len(events[p]) : events[p][i] <= chain[p]
  BY <1>1, <1>3 DEF PoolInv, EventInv
<1> HIDE DEF v
<1>5. /\ events'[p] = Tail(events[p])
      /\ \A q \in Pools : q # p => events'[q] = events[q]
  BY <1>1, <1>2 DEF PoolTypeOK
<1>6. PoolTypeOK'
  <2>1. pools' \in [Pools -> 0..MaxVersion] /\ events' \in [Pools -> Seq(0..MaxVersion)]
    BY <1>1, <1>2, <1>3 DEF PoolTypeOK
  <2>2. newest' \in [Pools -> 0..MaxVersion] /\ late' \in SUBSET Pools
    BY <1>1, <1>2, <2>1, Remembering
  <2>. QED
    BY <1>1, <1>2, <2>1, <2>2 DEF PoolTypeOK, Unread
<1>7. MonitorInv'
  BY <1>1 DEF PoolInv, MonitorInv
<1>8. EventInv'
  <2>1. \A i \in 1..Len(events'[p]) :
          i + 1 \in 1..Len(events[p]) /\ events'[p][i] = events[p][i + 1]
    BY <1>2, <1>3, <1>5, LenProperties
  <2>2. \A i \in 1..Len(events'[p]) : events'[p][i] <= chain[p]
    BY <1>4, <2>1
  <2>3. events'[p] # <<>> => events'[p][Len(events'[p])] = chain[p]
    <3>1. ASSUME events'[p] # <<>>
          PROVE  Len(events'[p]) \in 1..Len(events'[p]) /\ Len(events'[p]) + 1 = Len(events[p])
      BY <1>2, <1>3, <1>5, <3>1, LenProperties, EmptySeq
    <3>. QED
      BY <1>4, <2>1, <3>1
  <2>4. watch[p] = "active"
    BY <1>1 DEF PoolInv, EventInv
  <2>. QED
    BY <1>1, <1>5, <2>2, <2>3, <2>4 DEF PoolInv, EventInv
<1>9. events'[p] = <<>> => v = chain[p]
  <2>1. ASSUME events'[p] = <<>>
        PROVE  Len(events[p]) = 1
    BY <1>1, <1>2, <1>5, <2>1, HeadAndTail
  <2>. QED
    BY <1>3, <1>4, <2>1
<1>10. \A r \in Refreshes : refreshes'[r].at <= chain[refreshes'[r].pool]
  BY <1>1 DEF PoolInv, VersionInv
<1>. QED
  BY <1>1, <1>3, <1>4, <1>5, <1>6, <1>7, <1>8, <1>9, <1>10, WriteKeeps

LEMMA RefreshPoolKeeps ==
  ASSUME PoolInv, NEW r \in Refreshes, RefreshPool(r)
  PROVE  PoolInv'
<1> DEFINE p == refreshes[r].pool
           v == refreshes[r].at
<1>1. /\ pools' = [pools EXCEPT ![p] = v]
      /\ Remember({p})
      /\ refreshes' = [refreshes EXCEPT ![r] = IdleRefresh]
      /\ UNCHANGED <<chain, monitor, running, reading, losses, watch, events, mempool, told>>
  BY DEF RefreshPool, monitorVars
<1>2. /\ PoolTypeOK
      /\ refreshes \in [Refreshes -> Refresh]
      /\ p \in Pools /\ v \in 0..MaxVersion /\ v <= chain[p]
      /\ \A q \in Refreshes : refreshes[q].at <= chain[refreshes[q].pool]
  BY DEF PoolInv, PoolTypeOK, VersionInv, Refresh
<1> HIDE DEF p, v
<1>3. PoolTypeOK'
  <2>1. pools' \in [Pools -> 0..MaxVersion]
    BY <1>1, <1>2 DEF PoolTypeOK
  <2>2. newest' \in [Pools -> 0..MaxVersion] /\ late' \in SUBSET Pools
    BY <1>1, <1>2, <2>1, Remembering
  <2>3. refreshes' \in [Refreshes -> Refresh]
    BY <1>1, <1>2, IdleRefreshType
  <2>. QED
    BY <1>1, <1>2, <2>1, <2>2, <2>3 DEF PoolTypeOK, Unread, Refresh
<1>4. MonitorInv' /\ EventInv'
  BY <1>1 DEF PoolInv, MonitorInv, EventInv
<1>5. \A q \in Refreshes : refreshes'[q].at <= chain[refreshes'[q].pool]
  <2>1. IdleRefresh.at <= chain[IdleRefresh.pool]
    BY <1>2, IdleRefreshType, VersionTypes DEF Refresh
  <2>. QED
    BY <1>1, <1>2, <2>1
<1>6. p \in told /\ events'[p] = <<>> => v = chain[p] \/ (events[p] = <<>> /\ p \in {p})
  BY <1>1
<1>7. {p} \in SUBSET {p} /\ \A q \in Pools : q # p => events'[q] = events[q]
  BY <1>1
<1>. QED
  BY <1>1, <1>2, <1>3, <1>4, <1>5, <1>6, <1>7, WriteKeeps

LEMMA StopPoolMonitorKeeps ==
  ASSUME PoolInv, StopPoolMonitor
  PROVE  PoolInv'
<1>1. /\ running' = FALSE
      /\ monitor' = "off"
      /\ reading' = [p \in Pools |-> Unread]
      /\ watch' = [p \in Pools |-> "none"]
      /\ events' = [p \in Pools |-> <<>>]
      /\ told' = {}
      /\ UNCHANGED <<chain, pools, newest, late, mempool, refreshes, losses>>
  BY DEF StopPoolMonitor, held, mempoolVars
<1>2. PoolTypeOK'
  <2>1. reading' \in [Pools -> 0..Unread] /\ events' \in [Pools -> Seq(0..MaxVersion)]
    BY <1>1, EmptySeq, PoolAssumption DEF Unread
  <2>2. watch' \in [Pools -> {"none", "asked", "active"}] /\ running' \in BOOLEAN
    BY <1>1
  <2>. QED
    BY <1>1, <2>1, <2>2 DEF PoolInv, PoolTypeOK, Unread
<1>3. VersionInv'
  <2>1. \A p \in Pools : reading'[p] = Unread
    BY <1>1
  <2>. QED
    BY <1>1, <2>1 DEF PoolInv, VersionInv, Unread
<1>4. MonitorInv' /\ ToldInv'
  BY <1>1 DEF MonitorInv, ToldInv
<1>5. EventInv'
  <2>1. \A p \in Pools : events'[p] = <<>> /\ 1..Len(events'[p]) = {}
    BY <1>1, NoIndices
  <2>. QED
    BY <2>1 DEF EventInv
<1>. QED
  BY <1>2, <1>3, <1>4, <1>5 DEF PoolInv

LEMMA PoolSteps ==
  ASSUME PoolInv, [PoolNext]_poolVars
  PROVE  PoolInv'
<1>1. CASE UNCHANGED poolVars
  <2>1. PoolTypeOK'
    BY <1>1 DEF poolVars, PoolInv, PoolTypeOK, Unread
  <2>2. VersionInv'
    BY <1>1 DEF poolVars, PoolInv, VersionInv, Unread
  <2>3. MonitorInv' /\ EventInv' /\ ToldInv'
    BY <1>1 DEF poolVars, PoolInv, MonitorInv, EventInv, ToldInv
  <2>. QED
    BY <2>1, <2>2, <2>3 DEF PoolInv
<1>2. CASE \E p \in Pools : PoolMoves(p) \/ Subscribed(p) \/ SubscriptionLost(p) \/ OnSync(p)
                           \/ MonitorReads(p)
  BY <1>2, PoolMovesKeeps, SubscribedKeeps, SubscriptionLostKeeps, OnSyncKeeps,
     MonitorReadsKeeps
<1>3. CASE \E r \in Refreshes : RefreshPool(r)
  BY <1>3, RefreshPoolKeeps
<1>4. CASE StartPoolMonitor \/ MonitorFails \/ MonitorReady \/ StopPoolMonitor
  BY <1>4, StartPoolMonitorKeeps, MonitorReadyKeeps, StopPoolMonitorKeeps
<1>5. CASE \/ StartMonitor \/ StopMonitor
           \/ \E r \in Refreshes :
                NoSwap(r) \/ OnMempoolSwap(r) \/ RefreshReads(r) \/ RefreshFails(r)
           \/ \E r \in Refreshes, p \in Pools : HandleHash(r, p)
  BY <1>5, RefreshStepsKeep
<1>. QED
  BY <1>1, <1>2, <1>3, <1>4, <1>5 DEF PoolNext

\* Once the events of a pool are through, the engine prices with its reserves on
\* chain, unless its last move was missed or a late refresh has undone it.
THEOREM PoolsAreSettled == PoolSpec => [](PoolTypeOK /\ PoolsSettle)
<1>1. PoolInit => PoolInv
  BY PoolsStart
<1>2. PoolInv /\ [PoolNext]_poolVars => PoolInv'
  BY PoolSteps
<1>3. PoolInv => PoolTypeOK /\ PoolsSettle
  BY DEF PoolInv, ToldInv, PoolsSettle
<1>. QED  BY <1>1, <1>2, <1>3, PTL DEF PoolSpec

-----------------------------------------------------------------------------
(* The listener of commands *)

\* An answer is in the order of the updates.  What a poll was answered with is
\* not before the offset, and has not waited for a drained session.
AnswerInv ==
  /\ \A i, j \in 1..Len(answer) : i < j => answer[i] < answer[j]
  /\ pc \in {"down", "waiting", "silent"} => answer = <<>>
  /\ pc \in {"polling", "handling"} => \A i \in 1..Len(answer) :
       /\ answer[i] >= offset
       /\ session \notin undrained => answer[i] > waiting[session]

\* What waited for a session is before the offset that a drain leaves, or
\* forgotten by the server when there is nothing to drain.
DrainInv ==
  /\ pc \in {"down", "draining"} => offset = 0
  /\ pc = "draining" /\ request = "served" =>
       IF answer = <<>> THEN forgotten >= waiting[session]
                        ELSE answer[Len(answer)] >= waiting[session]
  /\ pc \notin {"down", "draining"} /\ session \notin undrained =>
       offset > waiting[session] \/ forgotten >= waiting[session]

\* A session has handled nothing before it polls, and then what is before its
\* offset.
HandledInv ==
  /\ \A k \in Sessions : k > session => handled[k] = <<>>
  /\ pc = "draining" => handled[session] = <<>>
  /\ pc # "down" => /\ session \in Sessions
                    /\ \A i \in 1..Len(handled[session]) : handled[session][i] < offset

TelegramInv == TelegramTypeOK /\ AnswerInv /\ DrainInv /\ HandledInv /\ CommandOnce

\* What CommandOnce says of one session.
Once(k) ==
  /\ \A i, j \in 1..Len(handled[k]) : i < j => handled[k][i] < handled[k][j]
  /\ k \notin undrained => \A i \in 1..Len(handled[k]) : handled[k][i] > waiting[k]

LEMMA OnceIsCommandOnce == CommandOnce <=> \A k \in Sessions : Once(k)
  BY DEF CommandOnce, Once, Handled

\* What getUpdates answers with: the updates after the one given, in order.
LEMMA PendingUpdates ==
  ASSUME sent \in 0..MaxUpdates, NEW from \in 0..MaxUpdates
  PROVE  /\ Pending(from) \in Seq(Updates)
         /\ from >= sent => Pending(from) = <<>>
         /\ from < sent => /\ Pending(from) # <<>>
                          /\ Pending(from)[Len(Pending(from))] = sent
         /\ \A i \in 1..Len(Pending(from)) : Pending(from)[i] = from + i
<1> DEFINE n == IF from < sent THEN sent - from ELSE 0
<1>1. n \in Nat /\ 1..(sent - from) = 1..n
  BY TelegramAssumption
<1>2. Pending(from) \in [1..n -> Updates]
  BY <1>1, TelegramAssumption DEF Pending, Updates
<1>3. Pending(from) \in Seq(Updates) /\ Len(Pending(from)) = n
  BY <1>1, <1>2
<1>4. \A i \in 1..n : Pending(from)[i] = from + i
  BY <1>1 DEF Pending
<1>5. n = 0 => Pending(from) = <<>>
  BY <1>3, EmptySeq
<1>6. from < sent => n \in 1..n /\ from + n = sent
  BY TelegramAssumption
<1>7. n # 0 => Pending(from) # <<>>
  BY <1>3, EmptySeq
<1>. QED
  BY <1>3, <1>4, <1>5, <1>6, <1>7, TelegramAssumption

LEMMA TelegramStarts ==
  ASSUME TelegramInit
  PROVE  TelegramInv
<1>1. TelegramTypeOK
  <2>1. handled \in [Sessions -> Seq(Updates)] /\ answer \in Seq(Updates)
    BY EmptySeq DEF TelegramInit
  <2>2. /\ waiting \in [Sessions -> 0..MaxUpdates]
        /\ session \in 0..MaxSessions
        /\ sent \in 0..MaxUpdates /\ forgotten \in 0..MaxUpdates
        /\ offset \in 0..MaxUpdates + 1
    BY TelegramAssumption DEF TelegramInit
  <2>3. timerSet \in BOOLEAN /\ undrained \in SUBSET Sessions
    BY DEF TelegramInit
  <2>. QED
    BY <2>1, <2>2, <2>3 DEF TelegramInit, TelegramTypeOK
<1>2. CommandOnce
  BY OnceIsCommandOnce DEF TelegramInit, Once
<1>. QED
  BY <1>1, <1>2 DEF TelegramInit, TelegramInv, AnswerInv, DrainInv, HandledInv

LEMMA UserSendsKeeps ==
  ASSUME TelegramInv, UserSends
  PROVE  TelegramInv'
<1>1. TelegramTypeOK'
  BY TelegramAssumption DEF TelegramInv, TelegramTypeOK, UserSends, listener, record
<1>. QED
  BY <1>1
     DEF TelegramInv, UserSends, listener, record, AnswerInv, DrainInv, HandledInv,
         CommandOnce, Handled

LEMMA ServeKeeps ==
  ASSUME TelegramInv, Serve
  PROVE  TelegramInv'
<1>1. /\ pc \in {"draining", "polling"} /\ request = "sent"
      /\ request' = "served"
      /\ forgotten' = Later(forgotten, IF pc = "draining" THEN Later(sent, 1) - 1
                                       ELSE Later(offset, 1) - 1)
      /\ answer' = Pending(forgotten')
      /\ waiting' = IF pc = "draining" THEN [waiting EXCEPT ![session] = sent] ELSE waiting
      /\ UNCHANGED <<sent, session, pc, offset, timerSet, handled, undrained>>
  BY DEF Serve
<1>2. /\ sent \in 0..MaxUpdates /\ forgotten \in 0..MaxUpdates /\ offset \in 0..MaxUpdates + 1
      /\ session \in Sessions /\ waiting \in [Sessions -> 0..MaxUpdates]
  BY <1>1 DEF TelegramInv, TelegramTypeOK, HandledInv
<1>3. forgotten' \in 0..MaxUpdates /\ forgotten' >= forgotten
  BY <1>1, <1>2, TelegramAssumption DEF Later
<1>4. /\ forgotten' >= sent => answer' = <<>>
      /\ forgotten' < sent => answer' # <<>> /\ answer'[Len(answer')] = sent
      /\ \A i \in 1..Len(answer') : answer'[i] = forgotten' + i
  BY <1>1, <1>2, <1>3, PendingUpdates
<1>5. TelegramTypeOK'
  <2>1. answer' \in Seq(Updates)
    BY <1>1, <1>2, <1>3, PendingUpdates
  <2>. QED
    BY <1>1, <1>2, <1>3, <2>1 DEF TelegramInv, TelegramTypeOK
<1>6. CASE pc = "draining"
  <2>0. offset = 0
    BY <1>6 DEF TelegramInv, DrainInv
  <2>1. waiting' = [waiting EXCEPT ![session] = sent] /\ handled[session] = <<>>
    BY <1>1, <1>6 DEF TelegramInv, HandledInv
  <2>2. AnswerInv'
    BY <1>1, <1>3, <1>4, <1>6 DEF AnswerInv
  <2>3. DrainInv'
    <3>1. waiting'[session] = sent
      BY <1>2, <2>1
    <3>2. CASE forgotten' >= sent
      BY <1>1, <1>4, <1>6, <3>1, <3>2, <2>0 DEF DrainInv
    <3>3. CASE forgotten' < sent
      BY <1>1, <1>2, <1>4, <1>6, <2>0, <3>1, <3>3 DEF DrainInv
    <3>. QED
      BY <1>2, <1>3, <3>2, <3>3
  <2>4. HandledInv'
    BY <1>1 DEF TelegramInv, HandledInv
  <2>5. ASSUME NEW k \in Sessions
        PROVE  Once(k)'
    <3>1. Once(k)
      BY OnceIsCommandOnce DEF TelegramInv
    <3>. QED
      BY <1>1, <1>2, <2>1, <3>1 DEF Once
  <2>. QED
    BY <1>5, <2>2, <2>3, <2>4, <2>5, OnceIsCommandOnce DEF TelegramInv, CommandOnce, Once, Handled
<1>7. CASE pc = "polling"
  <2>1. /\ forgotten' >= forgotten /\ forgotten' >= offset - 1
        /\ waiting' = waiting
    BY <1>1, <1>2, <1>7 DEF Later
  <2>2. session \notin undrained => forgotten' + 1 > waiting[session]
    BY <1>2, <1>3, <1>7, <2>1 DEF TelegramInv, DrainInv
  <2>3. AnswerInv'
    BY <1>1, <1>2, <1>3, <1>4, <1>7, <2>1, <2>2 DEF AnswerInv
  <2>4. DrainInv'
    BY <1>1, <1>2, <1>3, <1>7, <2>1 DEF TelegramInv, DrainInv
  <2>5. HandledInv' /\ CommandOnce'
    BY <1>1, <2>1 DEF TelegramInv, HandledInv, CommandOnce, Handled
  <2>. QED
    BY <1>5, <2>3, <2>4, <2>5 DEF TelegramInv
<1>. QED
  BY <1>1, <1>6, <1>7

LEMMA StartListeningKeeps ==
  ASSUME TelegramInv, StartListening
  PROVE  TelegramInv'
<1>1. /\ pc = "down" /\ session < MaxSessions
      /\ session' = session + 1
      /\ pc' = "draining" /\ request' = "sent"
      /\ waiting' = [waiting EXCEPT ![session + 1] = sent]
      /\ UNCHANGED <<sent, forgotten, offset, answer, timerSet, handled, undrained>>
  BY DEF StartListening
<1>2. session \in 0..MaxSessions /\ session' \in Sessions
  BY <1>1, TelegramAssumption DEF TelegramInv, TelegramTypeOK, Sessions
<1>3. TelegramTypeOK'
  BY <1>1, <1>2, TelegramAssumption DEF TelegramInv, TelegramTypeOK, Sessions
<1>4. handled'[session'] = <<>>
  BY <1>1, <1>2, TelegramAssumption DEF TelegramInv, HandledInv
<1>5. AnswerInv' /\ DrainInv'
  BY <1>1 DEF TelegramInv, AnswerInv, DrainInv
<1>6. HandledInv'
  BY <1>1, <1>2, <1>4, TelegramAssumption DEF TelegramInv, HandledInv, Sessions
<1>7. ASSUME NEW k \in Sessions
      PROVE  Once(k)'
  <2>1. Once(k)
    BY OnceIsCommandOnce DEF TelegramInv
  <2>2. CASE k = session'
    BY <1>4, <2>2 DEF Once
  <2>3. CASE k # session'
    BY <1>1, <2>1, <2>3 DEF TelegramInv, TelegramTypeOK, Once
  <2>. QED
    BY <2>2, <2>3
<1>8. CommandOnce'
  BY <1>7 DEF CommandOnce, Once, Handled
<1>. QED
  BY <1>3, <1>5, <1>6, <1>8 DEF TelegramInv

\* Steps of the listener that handle nothing and forget their answer, or come
\* to handle it: the offset never falls.
LEMMA ListenerStepKeeps ==
  ASSUME TelegramInv,
         pc # "down", pc' \notin {"down", "draining"},
         pc' \in {"waiting", "polling", "handling", "silent"},
         request' \in {"none", "sent", "served"}, timerSet' \in BOOLEAN,
         offset' \in 0..MaxUpdates + 1, offset' >= offset,
         answer' = <<>> \/ (answer' = answer /\ offset' = offset /\ pc \in {"polling", "handling"}
                           /\ pc' \in {"polling", "handling"}),
         undrained' \in SUBSET Sessions, undrained \subseteq undrained',
         session \notin undrained' => offset' > waiting[session] \/ forgotten >= waiting[session],
         UNCHANGED <<sent, forgotten, session, handled, waiting>>
  PROVE  TelegramInv'
<1>1. TelegramTypeOK'
  BY EmptySeq DEF TelegramInv, TelegramTypeOK
<1>2. AnswerInv'
  <2>1. CASE answer' = <<>>
    BY <2>1 DEF AnswerInv
  <2>2. CASE answer' = answer /\ offset' = offset /\ pc \in {"polling", "handling"}
             /\ pc' \in {"polling", "handling"}
    BY <2>2 DEF TelegramInv, AnswerInv
  <2>. QED
    BY <2>1, <2>2
<1>3. DrainInv'
  BY DEF DrainInv
<1>4. HandledInv'
  BY TelegramAssumption DEF TelegramInv, TelegramTypeOK, HandledInv, Updates
<1>5. CommandOnce'
  BY DEF TelegramInv, CommandOnce, Handled
<1>. QED
  BY <1>1, <1>2, <1>3, <1>4, <1>5 DEF TelegramInv

LEMMA DrainedKeeps ==
  ASSUME TelegramInv, Drained \/ DrainFails
  PROVE  TelegramInv'
<1>1. /\ pc = "draining" /\ pc' = "waiting" /\ timerSet' = TRUE
      /\ request' = "none" /\ answer' = <<>>
      /\ UNCHANGED <<sent, forgotten, session, handled, waiting>>
  BY DEF Drained, DrainFails, StartPolls, record
<1>2. /\ session \in Sessions
      /\ waiting[session] \in 0..MaxUpdates
      /\ offset \in 0..MaxUpdates + 1
  BY <1>1 DEF TelegramInv, TelegramTypeOK, HandledInv
<1>3. CASE Drained
  <2>1. /\ request = "served" /\ undrained' = undrained
        /\ IF answer = <<>> THEN offset' = offset ELSE offset' = answer[Len(answer)] + 1
    BY <1>3 DEF Drained, SkipsAll, record
  <2>2. CASE answer = <<>>
    BY <1>1, <1>2, <2>1, <2>2, ListenerStepKeeps DEF TelegramInv, TelegramTypeOK, DrainInv
  <2>3. CASE answer # <<>>
    <3>1. answer[Len(answer)] \in Updates
      BY <2>3, EmptySeq, LenProperties, ElementOfSeq DEF TelegramInv, TelegramTypeOK
    <3>2. offset = 0 /\ answer[Len(answer)] >= waiting[session]
      BY <1>1, <2>1, <2>3 DEF TelegramInv, DrainInv
    <3>3. offset' \in 0..MaxUpdates + 1 /\ offset' >= offset /\ offset' > waiting[session]
      BY <1>2, <2>1, <2>3, <3>1, <3>2, TelegramAssumption DEF Updates
    <3>. QED
      BY <1>1, <1>2, <2>1, <2>3, <3>1, <3>2, <3>3, ListenerStepKeeps
         DEF TelegramInv, TelegramTypeOK
  <2>. QED
    BY <2>2, <2>3
<1>4. CASE DrainFails
  BY <1>1, <1>2, <1>4, ListenerStepKeeps DEF DrainFails, TelegramInv, TelegramTypeOK
<1>. QED
  BY <1>3, <1>4

\* Steps that only move the listener on.
LEMMA ListenerMovesKeeps ==
  ASSUME TelegramInv, PollTimer \/ PollAnswers \/ PollFails \/ PollDone \/ StopListening
  PROVE  TelegramInv'
<1>1. offset \in 0..MaxUpdates + 1 /\ timerSet' \in BOOLEAN /\ undrained \in SUBSET Sessions
  BY DEF TelegramInv, TelegramTypeOK, PollTimer, PollAnswers, PollFails, PollDone, NextPoll,
         StopListening
<1>2. ASSUME pc \notin {"down", "draining"}, session \notin undrained
      PROVE  offset > waiting[session] \/ forgotten >= waiting[session]
  BY <1>2 DEF TelegramInv, DrainInv
<1>3. CASE PollTimer
  BY <1>1, <1>2, <1>3, ListenerStepKeeps DEF PollTimer, record, TelegramInv, AnswerInv
<1>4. CASE PollAnswers
  BY <1>1, <1>2, <1>4, ListenerStepKeeps DEF PollAnswers, record
<1>5. CASE PollFails \/ PollDone
  BY <1>1, <1>2, <1>5, ListenerStepKeeps DEF PollFails, PollDone, NextPoll, record
<1>6. CASE StopListening
  <2>1. /\ pc' = IF pc = "waiting" THEN "silent" ELSE pc
        /\ UNCHANGED <<sent, forgotten, session, offset, request, answer, record>>
    BY <1>6 DEF StopListening
  <2>2. TelegramTypeOK'
    BY <1>1, <2>1 DEF TelegramInv, TelegramTypeOK, record
  <2>. QED
    BY <2>1, <2>2
       DEF TelegramInv, AnswerInv, DrainInv, HandledInv, CommandOnce, Handled, record
<1>. QED
  BY <1>3, <1>4, <1>5, <1>6

LEMMA HandleUpdateKeeps ==
  ASSUME TelegramInv, HandleUpdate
  PROVE  TelegramInv'
<1>1. /\ pc = "handling" /\ answer # <<>>
      /\ offset' = Head(answer) + 1
      /\ handled' = [handled EXCEPT ![session] = Append(handled[session], Head(answer))]
      /\ answer' = Tail(answer)
      /\ UNCHANGED <<sent, forgotten, session, pc, request, timerSet, waiting, undrained>>
  BY DEF HandleUpdate
<1>2. /\ session \in Sessions
      /\ handled \in [Sessions -> Seq(Updates)]
      /\ handled[session] \in Seq(Updates)
      /\ waiting[session] \in 0..MaxUpdates
      /\ answer \in Seq(Updates)
      /\ offset \in 0..MaxUpdates + 1
  BY <1>1 DEF TelegramInv, TelegramTypeOK, HandledInv
<1>3. /\ Head(answer) \in Updates /\ Head(answer) = answer[1]
      /\ 1 \in 1..Len(answer)
      /\ Tail(answer) \in Seq(Updates)
      /\ Len(Tail(answer)) = Len(answer) - 1
      /\ \A i \in 1..Len(Tail(answer)) : Tail(answer)[i] = answer[i + 1]
  BY <1>1, <1>2, HeadTailProperties, EmptySeq
<1>4. /\ handled'[session] \in Seq(Updates)
      /\ Len(handled'[session]) = Len(handled[session]) + 1
      /\ \A i \in 1..Len(handled[session]) : handled'[session][i] = handled[session][i]
      /\ handled'[session][Len(handled[session]) + 1] = Head(answer)
      /\ \A k \in Sessions : k # session => handled'[k] = handled[k]
  BY <1>1, <1>2, <1>3, AppendProperties
<1>5. /\ Head(answer) >= offset
      /\ session \notin undrained => Head(answer) > waiting[session]
      /\ \A i \in 1..Len(handled[session]) : handled[session][i] < offset
  BY <1>1, <1>3 DEF TelegramInv, AnswerInv, HandledInv
<1>6. TelegramTypeOK'
  <2>1. handled' \in [Sessions -> Seq(Updates)]
    BY <1>1, <1>2, <1>4
  <2>2. offset' \in 0..MaxUpdates + 1
    BY <1>1, <1>3, TelegramAssumption DEF Updates
  <2>. QED
    BY <1>1, <1>3, <2>1, <2>2 DEF TelegramInv, TelegramTypeOK
<1>7. AnswerInv'
  <2>1. \A i \in 1..Len(answer') : i + 1 \in 1..Len(answer) /\ answer'[i] = answer[i + 1]
    BY <1>1, <1>2, <1>3, LenProperties
  <2>2. \A i, j \in 1..Len(answer') : i < j => answer'[i] < answer'[j]
    BY <2>1 DEF TelegramInv, AnswerInv
  <2>3. \A i \in 1..Len(answer') : answer'[i] >= offset'
    <3>1. \A i \in 1..Len(answer') : answer'[i] \in Updates /\ answer[1] < answer'[i]
      BY <1>2, <1>3, <2>1, ElementOfSeq DEF TelegramInv, AnswerInv
    <3>. QED
      BY <1>1, <1>3, <3>1 DEF Updates
  <2>4. session \notin undrained => \A i \in 1..Len(answer') : answer'[i] > waiting[session]
    BY <1>1, <2>1 DEF TelegramInv, AnswerInv
  <2>. QED
    BY <1>1, <2>2, <2>3, <2>4 DEF AnswerInv
<1>8. DrainInv'
  BY <1>1, <1>2, <1>3, <1>5 DEF DrainInv, Updates
<1>9. HandledInv'
  <2>1. ASSUME NEW i \in 1..Len(handled'[session])
        PROVE  handled'[session][i] < offset'
    <3>1. CASE i = Len(handled[session]) + 1
      BY <1>1, <1>3, <1>4, <3>1 DEF Updates
    <3>2. CASE i # Len(handled[session]) + 1
      <4>1. i \in 1..Len(handled[session])
        BY <1>2, <1>4, <3>2, LenProperties
      <4>2. handled[session][i] \in Updates /\ handled[session][i] < offset
        BY <1>2, <1>5, <4>1, ElementOfSeq
      <4>. QED
        BY <1>1, <1>3, <1>4, <1>5, <4>1, <4>2 DEF Updates, TelegramInv, TelegramTypeOK
    <3>. QED
      BY <3>1, <3>2
  <2>2. \A k \in Sessions : k > session => k # session
    BY <1>2 DEF Sessions
  <2>. QED
    BY <1>1, <1>2, <1>4, <2>1, <2>2 DEF TelegramInv, HandledInv
<1>10. ASSUME NEW k \in Sessions
       PROVE  Once(k)'
  <2>1. Once(k)
    BY OnceIsCommandOnce DEF TelegramInv
  <2>2. CASE k # session
    BY <1>1, <1>4, <2>1, <2>2 DEF Once
  <2>3. CASE k = session
    <3>1. ASSUME NEW i \in 1..Len(handled'[session]), NEW j \in 1..Len(handled'[session]), i < j
          PROVE  handled'[session][i] < handled'[session][j]
      <4>1. i \in 1..Len(handled[session])
        BY <1>2, <1>4, <3>1, LenProperties
      <4>2. CASE j = Len(handled[session]) + 1
        <5>1. handled[session][i] \in Updates /\ handled[session][i] < offset
          BY <1>2, <1>5, <4>1, ElementOfSeq
        <5>2. handled[session][i] < Head(answer)
          BY <1>2, <1>3, <1>5, <5>1 DEF Updates
        <5>. QED
          BY <1>4, <4>1, <4>2, <5>1, <5>2
      <4>3. CASE j # Len(handled[session]) + 1
        <5>1. j \in 1..Len(handled[session])
          BY <1>2, <1>4, <4>3, LenProperties
        <5>. QED
          BY <1>4, <2>1, <2>3, <3>1, <4>1, <5>1 DEF Once
      <4>. QED
        BY <4>2, <4>3
    <3>2. ASSUME session \notin undrained, NEW i \in 1..Len(handled'[session])
          PROVE  handled'[session][i] > waiting[session]
      <4>1. CASE i = Len(handled[session]) + 1
        BY <1>4, <1>5, <3>2, <4>1
      <4>2. CASE i # Len(handled[session]) + 1
        <5>1. i \in 1..Len(handled[session])
          BY <1>2, <1>4, <4>2, LenProperties
        <5>. QED
          BY <1>4, <2>1, <2>3, <3>2, <5>1 DEF Once
      <4>. QED
        BY <4>1, <4>2
    <3>. QED
      BY <1>1, <2>3, <3>1, <3>2 DEF Once
  <2>. QED
    BY <2>2, <2>3
<1>11. CommandOnce'
  BY <1>10 DEF CommandOnce, Once, Handled
<1>. QED
  BY <1>6, <1>7, <1>8, <1>9, <1>11 DEF TelegramInv

LEMMA ProcessEndsKeeps ==
  ASSUME TelegramInv, ProcessEnds
  PROVE  TelegramInv'
<1>1. TelegramTypeOK'
  <2>1. offset' \in 0..MaxUpdates + 1 /\ answer' \in Seq(Updates)
    BY EmptySeq, TelegramAssumption DEF ProcessEnds
  <2>. QED
    BY <2>1 DEF TelegramInv, TelegramTypeOK, ProcessEnds, record
<1>. QED
  BY <1>1
     DEF ProcessEnds, record, TelegramInv, AnswerInv, DrainInv, HandledInv, CommandOnce, Handled

LEMMA TelegramSteps ==
  ASSUME TelegramInv, [TelegramNext]_telegramVars
  PROVE  TelegramInv'
<1>1. CASE UNCHANGED telegramVars
  BY <1>1
     DEF telegramVars, TelegramInv, TelegramTypeOK, AnswerInv, DrainInv, HandledInv,
         CommandOnce, Handled
<1>. QED
  BY <1>1, UserSendsKeeps, ServeKeeps, StartListeningKeeps, DrainedKeeps, ListenerMovesKeeps,
     HandleUpdateKeeps, ProcessEndsKeeps DEF TelegramNext

\* A command is handled once, in order, and never when it waited for a session
\* that drained.
THEOREM CommandsAreHandledOnce == TelegramSpec => [](TelegramTypeOK /\ CommandOnce)
<1>1. TelegramInit => TelegramInv
  BY TelegramStarts
<1>2. TelegramInv /\ [TelegramNext]_telegramVars => TelegramInv'
  BY TelegramSteps
<1>3. TelegramInv => TelegramTypeOK /\ CommandOnce
  BY DEF TelegramInv
<1>. QED  BY <1>1, <1>2, <1>3, PTL DEF TelegramSpec

-----------------------------------------------------------------------------
(* The rate limiter *)

\* The calls and the log as the methods write them.
Request == [pc : {"idle", "asleep", "sent", "answered"}, weight : Nat, until : Nat, at : Nat,
            slept : BOOLEAN, overlapped : BOOLEAN, failed : BOOLEAN, unchecked : BOOLEAN]
Entry == [by : Callers, time : Nat, weight : Nat]

LimiterTypeOK ==
  /\ clock \in Nat
  /\ requests \in [Callers -> Request]
  /\ weightLog \in SUBSET Entry /\ IsFiniteSet(weightLog)

\* A request is in the log from its answer until it has left the window, unless
\* the answer was an error or the method never looks.
Logged(c) ==
  \E e \in weightLog : /\ e.by = c
                       /\ e.time >= requests[c].at
                       /\ e.weight = requests[c].weight
InLog(c) ==
  /\ Sent(c) => requests[c].at <= clock
  /\ requests[c].pc = "answered" /\ requests[c].at + Window >= clock =>
       requests[c].failed \/ requests[c].unchecked \/ Logged(c)
LogInv == \A c \in Callers : InLog(c)

\* The requests sent since a time, their weight, and those the log accounts for.
Since(t) == {c \in Callers : Sent(c) /\ requests[c].at >= t}
WeightSince(t) == SumFunction([c \in Since(t) |-> requests[c].weight])
Explains(c) ==
  requests[c].slept \/ requests[c].overlapped \/ requests[c].failed \/ requests[c].unchecked

\* Since any time within the window, the weight is below the limit, or explained.
BudgetInv == \A t \in Nat :
  t + Window >= clock => WeightSince(t) < WeightLimit \/ \E c \in Since(t) : Explains(c)

LimiterInv == LimiterTypeOK /\ LogInv /\ BudgetInv

LEMMA LimiterConstants ==
  /\ WeightLimit \in Nat /\ Window \in Nat /\ Slack \in Nat /\ MarketsWeight \in Nat
  /\ NumCalls \in Nat /\ WeightLimit > 0
  /\ \A w \in EndpointWeight : w \in Nat /\ w < WeightLimit
  /\ \A c \in Callers : FetchOrderBook(c) \/ FetchBalance(c) \/ CreateOrder(c)
                          \/ CancelOrder(c) \/ FetchOrderStatus(c) \/ GetTradingFees(c) =>
       \E w \in EndpointWeight : CheckWeight(c, w)
<1>1. {WeightLimit, Window, Slack, MarketsWeight, NumCalls} \subseteq Nat
  BY LimiterAssumption
<1>2. \A w \in EndpointWeight : w \in Nat /\ w < WeightLimit
  BY <1>1 DEF EndpointWeight
<1>3. WeightLimit > 0
  <2>1. WeightOf.orderBook \in EndpointWeight
    BY LimiterAssumption
  <2>. QED  BY <1>1, <1>2, <2>1
<1>. QED
  BY <1>1, <1>2, <1>3, LimiterAssumption
     DEF FetchOrderBook, FetchBalance, CreateOrder, CancelOrder, FetchOrderStatus, GetTradingFees

\* The weights of the requests sent since a time are naturals on a finite set.
LEMMA SinceIsFinite ==
  ASSUME LimiterTypeOK, NEW t
  PROVE  /\ IsFiniteSet(Since(t)) /\ Since(t) \in SUBSET Callers
         /\ [c \in Since(t) |-> requests[c].weight] \in [Since(t) -> Nat]
<1>1. IsFiniteSet(Callers)
  BY LimiterConstants, FS_Interval DEF Callers
<1>2. IsFiniteSet(Since(t)) /\ Since(t) \in SUBSET Callers
  BY <1>1, FS_Subset DEF Since
<1>3. \A c \in Callers : requests[c].weight \in Nat
  BY DEF LimiterTypeOK, Request
<1>. QED  BY <1>2, <1>3

\* What is left of the log after pruneWeightLog.
LEMMA PrunedIsLog ==
  ASSUME LimiterTypeOK
  PROVE  /\ PrunedLog \in SUBSET Entry /\ IsFiniteSet(PrunedLog)
         /\ [e \in PrunedLog |-> e.weight] \in [PrunedLog -> Nat]
         /\ PrunedLog # {} => Oldest(PrunedLog) \in Nat
<1>1. PrunedLog \in SUBSET Entry /\ IsFiniteSet(PrunedLog)
  BY FS_Subset DEF PrunedLog, LimiterTypeOK
<1>2. \A e \in PrunedLog : e.weight \in Nat /\ e.time \in Nat
  BY <1>1 DEF Entry
<1>3. ASSUME PrunedLog # {}
      PROVE  Oldest(PrunedLog) \in Nat
  <2> DEFINE T == {e.time : e \in PrunedLog}
  <2>1. T \in SUBSET Nat /\ T # {}
    BY <1>2, <1>3
  <2>2. PICK n \in T : \A m \in T : n <= m
    BY <2>1, LeastExists
  <2>3. \A e \in PrunedLog : n <= e.time
    BY <2>2
  <2>4. Oldest(PrunedLog) \in T
    BY <2>2, <2>3 DEF Oldest
  <2>. QED  BY <2>1, <2>4
<1>. QED  BY <1>1, <1>2, <1>3

\* Requests that are all in the log weigh no more than it.
LEMMA LogCounts ==
  ASSUME LimiterTypeOK, LogInv, Unanswered = {}, NEW t \in Nat, t + Window >= clock,
         ~ \E c \in Since(t) : Explains(c)
  PROVE  /\ WeightSince(t) <= TotalWeight(PrunedLog)
         /\ WeightSince(t) \in Nat /\ TotalWeight(PrunedLog) \in Nat
         /\ PrunedLog = {} => Since(t) = {}
<1>1. clock \in Nat /\ Window \in Nat
  BY LimiterConstants DEF LimiterTypeOK
<1>2. ASSUME NEW c \in Since(t)
      PROVE  \E e \in PrunedLog : e.by = c /\ e.weight = requests[c].weight
  <2>1. c \in Callers /\ requests[c] \in Request /\ Sent(c) /\ requests[c].at >= t
    BY DEF Since, LimiterTypeOK
  <2>2. requests[c].pc = "answered" /\ ~requests[c].failed /\ ~requests[c].unchecked
    BY <1>2, <2>1 DEF Unanswered, Sent, Explains
  <2>3. requests[c].at \in Nat
    BY <2>1 DEF Request
  <2>4. requests[c].at + Window >= clock
    BY <1>1, <2>1, <2>3
  <2>5. PICK e \in weightLog : /\ e.by = c /\ e.time >= requests[c].at
                               /\ e.weight = requests[c].weight
    BY <2>1, <2>2, <2>4 DEF LogInv, InLog, Logged
  <2>6. e.time \in Nat
    BY DEF LimiterTypeOK, Entry
  <2>7. e \in PrunedLog
    BY <1>1, <2>3, <2>4, <2>5, <2>6 DEF PrunedLog
  <2>. QED  BY <2>5, <2>7
<1> DEFINE f == [c \in Since(t) |-> CHOOSE e \in PrunedLog :
                                      e.by = c /\ e.weight = requests[c].weight]
           v == [c \in Since(t) |-> requests[c].weight]
           w == [e \in PrunedLog |-> e.weight]
<1>3. \A c \in Since(t) : f[c] \in PrunedLog /\ f[c].by = c /\ f[c].weight = requests[c].weight
  BY <1>2
<1>4. f \in [Since(t) -> PrunedLog]
  BY <1>3
<1>5. \A c, d \in Since(t) : f[c] = f[d] => c = d
  BY <1>3
<1>6. \A c \in Since(t) : v[c] <= w[f[c]]
  <2>1. \A c \in Since(t) : v[c] = w[f[c]] /\ v[c] \in Nat
    BY <1>3, SinceIsFinite
  <2>. QED  BY <2>1
<1>7. /\ IsFiniteSet(Since(t)) /\ v \in [Since(t) -> Nat]
      /\ IsFiniteSet(PrunedLog) /\ w \in [PrunedLog -> Nat]
  BY SinceIsFinite, PrunedIsLog
<1>8. WeightSince(t) = SumFunction(v) /\ TotalWeight(PrunedLog) = SumFunction(w)
  BY DEF WeightSince, TotalWeight
<1>9. PrunedLog = {} => Since(t) = {}
  BY <1>2
<1> HIDE DEF f, v, w
<1>10. SumFunction(v) <= SumFunction(w) /\ SumFunction(v) \in Nat
  BY <1>4, <1>5, <1>6, <1>7, SumInto
<1>11. SumFunction(w) \in Nat
  BY <1>7, SumNat
<1>. QED  BY <1>8, <1>9, <1>10, <1>11

\* No requests have no weight, whatever the requests are.
LEMMA NoWeight == \A r : SumFunction([c \in {} |-> r[c].weight]) = 0
<1>1. \A r : [c \in {} |-> r[c].weight] \in [{} -> Int]
  OBVIOUS
<1>. QED  BY <1>1, SumOfNothing

\* Steps that send nothing and explain no less.
LEMMA SendsNothing ==
  ASSUME LimiterInv, clock' \in Nat, clock' >= clock,
         \A c \in Callers : /\ Sent(c)' <=> Sent(c)
                            /\ Sent(c) => /\ requests'[c].at = requests[c].at
                                          /\ requests'[c].weight = requests[c].weight
                                          /\ Explains(c) => Explains(c)'
  PROVE  BudgetInv'
<1> SUFFICES ASSUME NEW t \in Nat, t + Window >= clock'
             PROVE  WeightSince(t)' < WeightLimit \/ \E c \in Since(t)' : Explains(c)'
  BY DEF BudgetInv
<1>1. t + Window >= clock
  BY LimiterConstants DEF LimiterInv, LimiterTypeOK
<1>2. Since(t)' = Since(t)
  BY DEF Since
<1>3. \A c \in Since(t) : Sent(c) /\ c \in Callers
  BY DEF Since
<1>4. WeightSince(t)' = WeightSince(t)
  BY <1>2, <1>3 DEF WeightSince
<1>5. WeightSince(t) < WeightLimit \/ \E c \in Since(t) : Explains(c)
  BY <1>1 DEF LimiterInv, BudgetInv
<1>. QED  BY <1>2, <1>3, <1>4, <1>5

\* Pruning the log takes nothing away that is in the window.
LEMMA PruningKeeps ==
  ASSUME LimiterTypeOK, LogInv, weightLog' = PrunedLog, clock' = clock,
         NEW d \in Callers, requests'[d] = requests[d]
  PROVE  InLog(d)'
<1>1. clock \in Nat /\ Window \in Nat /\ requests[d].at \in Nat
  BY LimiterConstants DEF LimiterTypeOK, Request
<1>2. ASSUME requests[d].at + Window >= clock, Logged(d)
      PROVE  Logged(d)'
  <2>1. PICK e \in weightLog : /\ e.by = d /\ e.time >= requests[d].at
                               /\ e.weight = requests[d].weight
    BY <1>2 DEF Logged
  <2>2. e.time \in Nat
    BY DEF LimiterTypeOK, Entry
  <2>3. e \in PrunedLog
    BY <1>1, <1>2, <2>1, <2>2 DEF PrunedLog
  <2>. QED  BY <2>1, <2>3 DEF Logged
<1>3. InLog(d)
  BY DEF LogInv
<1>. QED  BY <1>1, <1>2, <1>3 DEF InLog, Sent

\* A request is sent, within the budget unless it had slept.
LEMMA SendKeeps ==
  ASSUME LimiterInv, NEW c \in Callers, NEW w \in Nat, NEW slept \in BOOLEAN,
         ~Sent(c), SendRequest(c, w, slept), weightLog' = PrunedLog, clock' = clock,
         slept \/ Fits(w) \/ (PrunedLog = {} /\ w < WeightLimit)
  PROVE  LimiterInv'
<1> DEFINE new == [NoRequest EXCEPT !.pc = "sent", !.weight = w, !.at = clock, !.slept = slept,
                                    !.overlapped = Unanswered # {}]
<1>1. /\ LimiterTypeOK /\ LogInv /\ clock \in Nat /\ Window \in Nat /\ WeightLimit \in Nat
      /\ requests' = [requests EXCEPT ![c] = new]
      /\ requests'[c] = new /\ \A d \in Callers : d # c => requests'[d] = requests[d]
  BY LimiterConstants DEF LimiterInv, LimiterTypeOK, SendRequest
<1>2. /\ new \in Request /\ new.pc = "sent" /\ new.weight = w /\ new.at = clock
      /\ new.slept = slept /\ new.overlapped = (Unanswered # {})
  BY <1>1 DEF NoRequest, Request
<1> HIDE DEF new
<1>3. LimiterTypeOK'
  BY <1>1, <1>2, PrunedIsLog DEF LimiterTypeOK
<1>4. LogInv'
  <2>1. ASSUME NEW d \in Callers, d # c
        PROVE  InLog(d)'
    BY <1>1, <2>1, PruningKeeps
  <2>2. /\ Sent(c)' => requests'[c].at <= clock'
        /\ requests'[c].pc # "answered"
    BY <1>1, <1>2
  <2>. QED  BY <2>1, <2>2 DEF LogInv, InLog
<1>5. BudgetInv'
  <2> SUFFICES ASSUME NEW t \in Nat, t + Window >= clock, ~ \E d \in Since(t)' : Explains(d)'
               PROVE  WeightSince(t)' < WeightLimit
    BY DEF BudgetInv
  <2>1. CASE t > clock
    <3>1. \A d \in Callers : Sent(d)' => requests'[d].at \in Nat /\ requests'[d].at <= clock
      BY <1>1, <1>3, <1>4 DEF LogInv, InLog, LimiterTypeOK, Request
    <3>2. Since(t)' = {}
      BY <1>1, <2>1, <3>1 DEF Since
    <3>. QED  BY <3>2, NoWeight, LimiterConstants DEF WeightSince
  <2>2. CASE ~ (t > clock)
    <3>1. t <= clock
      BY <1>1, <2>2
    <3>2. Since(t)' = Since(t) \cup {c} /\ c \notin Since(t)
      BY <1>1, <1>2, <3>1 DEF Since, Sent
    <3>3. \A d \in Since(t) : d \in Callers /\ d # c /\ requests'[d] = requests[d]
      BY <1>1, <3>2 DEF Since
    <3>4. ~slept /\ Unanswered = {}
      BY <1>1, <1>2, <3>2 DEF Explains
    <3>5. ~ \E d \in Since(t) : Explains(d)
      BY <3>2, <3>3 DEF Explains
    <3>6. /\ WeightSince(t) <= TotalWeight(PrunedLog)
          /\ WeightSince(t) \in Nat /\ TotalWeight(PrunedLog) \in Nat
          /\ PrunedLog = {} => Since(t) = {}
      BY <1>1, <3>4, <3>5, LogCounts
    <3>7. WeightSince(t)' = w + WeightSince(t)
      <4> DEFINE S == Since(t)
                 old == [d \in S |-> requests[d].weight]
                 more == [d \in S \cup {c} |-> requests'[d].weight]
      <4>1. IsFiniteSet(S) /\ old \in [S -> Nat]
        BY <1>1, SinceIsFinite
      <4>2. \A d \in S : more[d] = old[d]
        BY <3>3
      <4>3. more[c] = w
        BY <1>1, <1>2
      <4>4. old \in [S -> Int] /\ more \in [S \cup {c} -> Int]
        BY <4>1, <4>2, <4>3
      <4>5. WeightSince(t) = SumFunction(old) /\ WeightSince(t)' = SumFunction(more)
        BY <3>2 DEF WeightSince
      <4> HIDE DEF S, old, more
      <4>6. c \notin S
        BY <3>2 DEF S
      <4>7. SumFunction(more) = more[c] + SumFunction(old)
        BY <4>1, <4>2, <4>4, <4>6, SumWithTerm
      <4>. QED  BY <4>3, <4>5, <4>7
    <3>8. CASE Fits(w)
      BY <1>1, <3>6, <3>7, <3>8 DEF Fits
    <3>9. CASE PrunedLog = {} /\ w < WeightLimit
      <4>1. WeightSince(t) = 0
        BY <3>6, <3>9, NoWeight DEF WeightSince
      <4>. QED  BY <3>7, <3>9, <4>1
    <3>. QED  BY <3>4, <3>8, <3>9
  <2>. QED  BY <2>1, <2>2
<1>. QED  BY <1>3, <1>4, <1>5 DEF LimiterInv

\* checkWeight lets a request go, or puts it to sleep.
LEMMA CheckKeeps ==
  ASSUME LimiterInv, NEW c \in Callers, NEW w \in EndpointWeight, CheckWeight(c, w)
  PROVE  LimiterInv'
<1>1. w \in Nat /\ w < WeightLimit
  BY LimiterConstants
<1>2. ~Sent(c) /\ weightLog' = PrunedLog /\ clock' = clock
  BY DEF CheckWeight, Begins, Sent
<1>3. CASE Fits(w) \/ PrunedLog = {}
  <2>1. SendRequest(c, w, FALSE)
    BY <1>3 DEF CheckWeight
  <2>. QED  BY <1>1, <1>2, <1>3, <2>1, SendKeeps
<1>4. CASE ~(Fits(w) \/ PrunedLog = {})
  <2> DEFINE new == [NoRequest EXCEPT !.pc = "asleep", !.weight = w,
                                      !.until = Oldest(PrunedLog) + Window + Slack]
  <2>1. requests' = [requests EXCEPT ![c] = new]
    BY <1>4 DEF CheckWeight
  <2>2. LimiterTypeOK /\ LogInv /\ PrunedLog # {}
    BY <1>4 DEF LimiterInv
  <2>3. Oldest(PrunedLog) + Window + Slack \in Nat
    BY <2>2, PrunedIsLog, LimiterConstants
  <2>4. new \in Request /\ new.pc = "asleep"
    BY <1>1, <2>2, <2>3 DEF NoRequest, Request, LimiterTypeOK
  <2> HIDE DEF new
  <2>5. requests'[c] = new /\ \A d \in Callers : d # c => requests'[d] = requests[d]
    BY <2>1, <2>2 DEF LimiterTypeOK
  <2>6. LimiterTypeOK'
    BY <1>2, <2>1, <2>2, <2>4, PrunedIsLog DEF LimiterTypeOK
  <2>7. LogInv'
    <3>1. \A d \in Callers : d # c => InLog(d)'
      BY <1>2, <2>2, <2>5, PruningKeeps
    <3>2. InLog(c)'
      BY <2>4, <2>5 DEF InLog, Sent
    <3>. QED  BY <3>1, <3>2 DEF LogInv
  <2>8. BudgetInv'
    <3>1. ASSUME NEW d \in Callers
          PROVE  /\ Sent(d)' <=> Sent(d)
                 /\ Sent(d) => /\ requests'[d].at = requests[d].at
                               /\ requests'[d].weight = requests[d].weight
                               /\ Explains(d) => Explains(d)'
      BY <1>2, <2>4, <2>5 DEF Sent, Explains
    <3>2. clock' \in Nat /\ clock' >= clock
      BY <1>2, <2>2 DEF LimiterTypeOK
    <3>. QED  BY <3>1, <3>2, SendsNothing
  <2>. QED  BY <2>6, <2>7, <2>8 DEF LimiterInv
<1>. QED  BY <1>3, <1>4

\* A call that slept is let go whatever the log says.
LEMMA WakesKeeps ==
  ASSUME LimiterInv, NEW c \in Callers, Wakes(c)
  PROVE  LimiterInv'
<1>1. requests[c].weight \in Nat /\ ~Sent(c)
  BY DEF LimiterInv, LimiterTypeOK, Request, Wakes, Sent
<1>. QED  BY <1>1, SendKeeps DEF Wakes

\* An answer is recorded at the weight of its request.
LEMMA RecordKeeps ==
  ASSUME LimiterInv, NEW c \in Callers, RecordWeight(c)
  PROVE  LimiterInv'
<1> DEFINE entry == [by |-> c, time |-> clock, weight |-> requests[c].weight]
           new == [requests[c] EXCEPT !.pc = "answered"]
<1>1. /\ LimiterTypeOK /\ LogInv /\ clock \in Nat /\ clock' = clock
      /\ requests[c] \in Request /\ requests[c].pc = "sent"
      /\ weightLog' = weightLog \cup {entry}
  BY DEF LimiterInv, LimiterTypeOK, RecordWeight
<1>2. requests' = [requests EXCEPT ![c] = new]
  BY DEF RecordWeight
<1>3. /\ entry \in Entry /\ entry.by = c /\ entry.time = clock
      /\ entry.weight = requests[c].weight
  BY <1>1 DEF Entry, Request
<1>4. /\ new \in Request /\ new.pc = "answered" /\ new.weight = requests[c].weight
      /\ new.at = requests[c].at /\ new.slept = requests[c].slept
      /\ new.overlapped = requests[c].overlapped /\ new.failed = requests[c].failed
      /\ new.unchecked = requests[c].unchecked
  BY <1>1 DEF Request
<1> HIDE DEF entry, new
<1>5. requests'[c] = new /\ \A d \in Callers : d # c => requests'[d] = requests[d]
  BY <1>1, <1>2 DEF LimiterTypeOK
<1>6. LimiterTypeOK'
  <2>1. IsFiniteSet(weightLog')
    BY <1>1, FS_AddElement DEF LimiterTypeOK
  <2>. QED  BY <1>1, <1>2, <1>3, <1>4, <2>1 DEF LimiterTypeOK
<1>7. LogInv'
  <2>1. ASSUME NEW d \in Callers, d # c
        PROVE  InLog(d)'
    <3>1. Logged(d) => Logged(d)'
      BY <1>1, <1>5, <2>1 DEF Logged
    <3>2. InLog(d)
      BY <1>1 DEF LogInv
    <3>. QED  BY <1>1, <1>5, <2>1, <3>1, <3>2 DEF InLog, Sent
  <2>2. InLog(c)'
    <3>1. requests[c].at <= clock
      BY <1>1 DEF LogInv, InLog, Sent
    <3>2. requests[c].at \in Nat
      BY <1>1 DEF Request
    <3>3. Logged(c)'
      BY <1>1, <1>3, <1>4, <1>5, <3>1, <3>2 DEF Logged
    <3>. QED  BY <1>1, <1>4, <1>5, <3>1, <3>3 DEF InLog
  <2>. QED  BY <2>1, <2>2 DEF LogInv
<1>8. BudgetInv'
  <2>1. ASSUME NEW d \in Callers
        PROVE  /\ Sent(d)' <=> Sent(d)
               /\ Sent(d) => /\ requests'[d].at = requests[d].at
                             /\ requests'[d].weight = requests[d].weight
                             /\ Explains(d) => Explains(d)'
    BY <1>1, <1>4, <1>5 DEF Sent, Explains
  <2>2. clock' \in Nat /\ clock' >= clock
    BY <1>1
  <2>. QED  BY <2>1, <2>2, SendsNothing
<1>. QED  BY <1>6, <1>7, <1>8 DEF LimiterInv

\* An error takes the request past the log, which says so.
LEMMA ThrowKeeps ==
  ASSUME LimiterInv, NEW c \in Callers, CallThrows(c)
  PROVE  LimiterInv'
<1> DEFINE new == [requests[c] EXCEPT !.pc = "answered", !.failed = TRUE]
<1>1. /\ LimiterTypeOK /\ LogInv /\ clock \in Nat /\ clock' = clock /\ weightLog' = weightLog
      /\ requests[c] \in Request /\ requests[c].pc = "sent"
  BY DEF LimiterInv, LimiterTypeOK, CallThrows
<1>2. requests' = [requests EXCEPT ![c] = new]
  BY <1>1 DEF CallThrows, LimiterTypeOK
<1>3. /\ new \in Request /\ new.pc = "answered" /\ new.weight = requests[c].weight
      /\ new.at = requests[c].at /\ new.failed
  BY <1>1 DEF Request
<1> HIDE DEF new
<1>4. requests'[c] = new /\ \A d \in Callers : d # c => requests'[d] = requests[d]
  BY <1>1, <1>2 DEF LimiterTypeOK
<1>5. LimiterTypeOK'
  BY <1>1, <1>2, <1>3 DEF LimiterTypeOK
<1>6. LogInv'
  <2>1. ASSUME NEW d \in Callers
        PROVE  InLog(d)'
    <3>1. InLog(d)
      BY <1>1 DEF LogInv
    <3>. QED  BY <1>1, <1>3, <1>4, <3>1 DEF InLog, Sent, Logged
  <2>. QED  BY <2>1 DEF LogInv
<1>7. BudgetInv'
  <2>1. ASSUME NEW d \in Callers
        PROVE  /\ Sent(d)' <=> Sent(d)
               /\ Sent(d) => /\ requests'[d].at = requests[d].at
                             /\ requests'[d].weight = requests[d].weight
                             /\ Explains(d) => Explains(d)'
    BY <1>1, <1>3, <1>4 DEF Sent, Explains
  <2>2. clock' \in Nat /\ clock' >= clock
    BY <1>1
  <2>. QED  BY <2>1, <2>2, SendsNothing
<1>. QED  BY <1>5, <1>6, <1>7 DEF LimiterInv

\* A request that never looks is its own explanation.
LEMMA UncheckedKeeps ==
  ASSUME LimiterInv, NEW c \in Callers, FetchTradingRules(c)
  PROVE  LimiterInv'
<1> DEFINE new == [NoRequest EXCEPT !.pc = "answered", !.weight = MarketsWeight, !.at = clock,
                                    !.unchecked = TRUE]
<1>1. /\ LimiterTypeOK /\ LogInv /\ clock \in Nat /\ clock' = clock /\ weightLog' = weightLog
      /\ ~Sent(c) /\ MarketsWeight \in Nat
  BY LimiterConstants DEF LimiterInv, LimiterTypeOK, FetchTradingRules, Begins, Sent
<1>2. requests' = [requests EXCEPT ![c] = new]
  BY DEF FetchTradingRules
<1>3. /\ new \in Request /\ new.pc = "answered" /\ new.at = clock /\ new.unchecked
  BY <1>1 DEF Request, NoRequest
<1> HIDE DEF new
<1>4. requests'[c] = new /\ \A d \in Callers : d # c => requests'[d] = requests[d]
  BY <1>1, <1>2 DEF LimiterTypeOK
<1>5. LimiterTypeOK'
  BY <1>1, <1>2, <1>3 DEF LimiterTypeOK
<1>6. LogInv'
  <2>1. ASSUME NEW d \in Callers, d # c
        PROVE  InLog(d)'
    <3>1. InLog(d)
      BY <1>1 DEF LogInv
    <3>. QED  BY <1>1, <1>4, <2>1, <3>1 DEF InLog, Sent, Logged
  <2>2. InLog(c)'
    BY <1>1, <1>3, <1>4 DEF InLog
  <2>. QED  BY <2>1, <2>2 DEF LogInv
<1>7. BudgetInv'
  <2> SUFFICES ASSUME NEW t \in Nat, t + Window >= clock', ~ \E d \in Since(t)' : Explains(d)'
               PROVE  WeightSince(t)' < WeightLimit
    BY DEF BudgetInv
  <2>1. c \notin Since(t)'
    BY <1>3, <1>4 DEF Explains
  <2>2. Since(t)' = Since(t)
    BY <1>1, <1>4, <2>1 DEF Since, Sent
  <2>3. \A d \in Since(t) : requests'[d] = requests[d]
    BY <1>4, <2>1, <2>2 DEF Since
  <2>4. WeightSince(t)' = WeightSince(t)
    BY <2>2, <2>3 DEF WeightSince
  <2>5. ~ \E d \in Since(t) : Explains(d)
    BY <2>2, <2>3 DEF Explains
  <2>. QED  BY <1>1, <2>4, <2>5 DEF LimiterInv, BudgetInv
<1>. QED  BY <1>5, <1>6, <1>7 DEF LimiterInv

\* Time passes.
LEMMA TickKeeps ==
  ASSUME LimiterInv, ClockTicks
  PROVE  LimiterInv'
<1>1. /\ LimiterTypeOK /\ LogInv /\ clock \in Nat /\ clock' = clock + 1
      /\ weightLog' = weightLog /\ requests' = requests /\ Window \in Nat
  BY LimiterConstants DEF LimiterInv, LimiterTypeOK, ClockTicks
<1>2. LimiterTypeOK'
  BY <1>1 DEF LimiterTypeOK
<1>3. LogInv'
  <2>1. ASSUME NEW d \in Callers
        PROVE  InLog(d)'
    <3>1. InLog(d) /\ requests[d].at \in Nat
      BY <1>1 DEF LogInv, LimiterTypeOK, Request
    <3>2. Logged(d)' <=> Logged(d)
      BY <1>1 DEF Logged
    <3>. QED  BY <1>1, <3>1, <3>2 DEF InLog, Sent
  <2>. QED  BY <2>1 DEF LogInv
<1>4. BudgetInv'
  <2>1. \A d \in Callers : /\ Sent(d)' <=> Sent(d)
                           /\ Explains(d) => Explains(d)'
    BY <1>1 DEF Sent, Explains
  <2>2. clock' \in Nat /\ clock' >= clock
    BY <1>1
  <2>. QED  BY <1>1, <2>1, <2>2, SendsNothing
<1>. QED  BY <1>2, <1>3, <1>4 DEF LimiterInv

\* The weight a client sends within a window stays below the limit at every
\* time, except for what the log misses, and says so.
THEOREM WeightIsExplained == LimiterSpec => []OverLimitExplained
<1>1. LimiterInit => LimiterInv
  <2> SUFFICES ASSUME LimiterInit
               PROVE  LimiterInv
    OBVIOUS
  <2>1. NoRequest \in Request /\ NoRequest.pc = "idle"
    BY DEF NoRequest, Request
  <2>2. LimiterTypeOK
    BY <2>1, FS_EmptySet DEF LimiterInit, LimiterTypeOK
  <2>3. \A c \in Callers : requests[c].pc = "idle"
    BY <2>1 DEF LimiterInit
  <2>4. LogInv
    BY <2>3 DEF LogInv, InLog, Sent
  <2>5. \A t \in Nat : Since(t) = {}
    BY <2>3 DEF Since, Sent
  <2>6. BudgetInv
    BY <2>5, NoWeight, LimiterConstants DEF BudgetInv, WeightSince
  <2>. QED  BY <2>2, <2>4, <2>6 DEF LimiterInv
<1>2. LimiterInv /\ [LimiterNext]_limiterVars => LimiterInv'
  <2> SUFFICES ASSUME LimiterInv, [LimiterNext]_limiterVars
               PROVE  LimiterInv'
    OBVIOUS
  <2>1. CASE ClockTicks
    BY <2>1, TickKeeps
  <2>2. ASSUME NEW c \in Callers,
               FetchOrderBook(c) \/ FetchBalance(c) \/ CreateOrder(c) \/ CancelOrder(c)
                 \/ FetchOrderStatus(c) \/ GetTradingFees(c)
        PROVE  LimiterInv'
    BY <2>2, LimiterConstants, CheckKeeps
  <2>3. ASSUME NEW c \in Callers, FetchTradingRules(c)
        PROVE  LimiterInv'
    BY <2>3, UncheckedKeeps
  <2>4. ASSUME NEW c \in Callers, Wakes(c)
        PROVE  LimiterInv'
    BY <2>4, WakesKeeps
  <2>5. ASSUME NEW c \in Callers, RecordWeight(c)
        PROVE  LimiterInv'
    BY <2>5, RecordKeeps
  <2>6. ASSUME NEW c \in Callers, CallThrows(c)
        PROVE  LimiterInv'
    BY <2>6, ThrowKeeps
  <2>7. CASE UNCHANGED limiterVars
    BY <2>7 DEF limiterVars, LimiterInv, LimiterTypeOK, LogInv, InLog, Logged, Sent, BudgetInv,
                WeightSince, Since, Explains
  <2>. QED  BY <2>1, <2>2, <2>3, <2>4, <2>5, <2>6, <2>7 DEF LimiterNext
<1>3. LimiterInv => OverLimitExplained
  <2> SUFFICES ASSUME LimiterInv
               PROVE  OverLimitExplained
    OBVIOUS
  <2> DEFINE t == IF clock <= Window THEN 0 ELSE clock - Window
  <2>1. clock \in Nat /\ Window \in Nat /\ WeightLimit \in Nat
    BY LimiterConstants DEF LimiterInv, LimiterTypeOK
  <2>2. /\ t \in Nat /\ t + Window >= clock
        /\ \A n \in Nat : n + Window >= clock <=> n >= t
    BY <2>1
  <2> HIDE DEF t
  <2>3. \A c \in Callers : requests[c].at \in Nat
    BY DEF LimiterInv, LimiterTypeOK, Request
  <2>4. Recent = Since(t)
    BY <2>2, <2>3 DEF Recent, Since
  <2>5. WeightSince(t) < WeightLimit \/ \E c \in Since(t) : Explains(c)
    BY <2>2 DEF LimiterInv, BudgetInv
  <2>6. WeightSince(t) \in Int
    <3>1. /\ IsFiniteSet(Since(t))
          /\ [c \in Since(t) |-> requests[c].weight] \in [Since(t) -> Nat]
      BY SinceIsFinite DEF LimiterInv
    <3>. QED  BY <3>1, SumNat DEF WeightSince
  <2>7. SumFunction([c \in Recent |-> requests[c].weight]) = WeightSince(t)
    BY <2>4 DEF WeightSince
  <2>. QED  BY <2>1, <2>4, <2>5, <2>6, <2>7 DEF OverLimitExplained, Explains
<1>. QED  BY <1>1, <1>2, <1>3, PTL DEF LimiterSpec

-----------------------------------------------------------------------------
(* The balances *)

\* The sync a trade awaits: an answer on its way is what the venue still holds,
\* and a part that is through has left it in the tracker.  The two tokens of the
\* wallet are applied together.
Fresh(s) ==
  /\ syncs[s].pc["cex"] = "answered" => syncs[s].cex = real["BINANCE"]
  /\ syncs[s].pc["walletBase"] = "answered" => syncs[s].base = real["WALLET"]["base"]
  /\ syncs[s].pc["walletQuote"] = "answered" => syncs[s].quote = real["WALLET"]["quote"]
  /\ syncs[s].pc["cex"] = "idle" => tracked["BINANCE"] = real["BINANCE"]
  /\ syncs[s].pc["walletBase"] = "idle" => tracked["WALLET"] = real["WALLET"]
  /\ (syncs[s].pc["walletBase"] = "idle") <=> (syncs[s].pc["walletQuote"] = "idle")

\* What a trade should leave at a venue, and what verifyBalances expects of it.
Due(v) == Moved(trade.before[v], SideAt(v, trade.side))
ExpectsDue == trade.base = Due("WALLET")["base"] /\ trade.quote = Due("BINANCE")["quote"]

\* While nothing has met the trade, no other sync is under way, the tracker
\* keeps what the venues held until the trade is booked, and from then on the
\* sync that verifies it is fresh.
TrustInv == trade.before # NoValue =>
  /\ \A s \in Syncs : Busy(s) => trade.sync = s
  /\ trade.pc \in {"leg1", "leg2", "filled"} => tracked = trade.before
  /\ trade.pc = "verifying" => ExpectsDue /\ Fresh(trade.sync)

SyncInv == SyncTypeOK /\ TrustInv

-----------------------------------------------------------------------------
(* Types *)

LEMMA IdleType == IdleSync \in Sync /\ Begun \in Sync
<1>1. Nothing \in Amounts
  BY DEF Nothing, Amounts
<1>2. IdleSync \in Sync
  BY <1>1 DEF IdleSync, Sync, ReadState
<1>3. [r \in Reads |-> "asked"] \in [Reads -> ReadState]
  BY DEF ReadState
<1>. QED
  BY <1>2, <1>3 DEF Begun, Sync

\* A fill leaves amounts.
LEMMA MovedType ==
  ASSUME NEW amounts \in Amounts, NEW side
  PROVE  Moved(amounts, side) \in Amounts
  BY SyncAssumption DEF Moved, Amounts, Assets

LEMMA BookedType ==
  ASSUME tracked \in [Venues -> Amounts]
  PROVE  /\ Booked \in [Venues -> Amounts]
         /\ Booked["WALLET"]["base"] \in Int
         /\ Booked["BINANCE"]["quote"] \in Int
<1>1. Booked \in [Venues -> Amounts]
  BY MovedType DEF Booked
<1>. QED
  BY <1>1 DEF Venues, Amounts, Assets

\* What is left of a sync when a part of it is over.
LEMMA WithoutType ==
  ASSUME NEW sync \in Sync, NEW r \in Reads
  PROVE  /\ Without(sync, r) \in Sync
         /\ Without(sync, r).stray = sync.stray
         /\ Without(sync, r).pc = [q \in Reads |->
              IF (q = "cex") = (r = "cex") THEN "idle" ELSE sync.pc[q]]
         /\ r # "cex" => Without(sync, r).cex = sync.cex
         /\ r = "cex" => /\ Without(sync, r).base = sync.base
                         /\ Without(sync, r).quote = sync.quote
<1> DEFINE left == [q \in Reads |-> IF (q = "cex") = (r = "cex") THEN "idle" ELSE sync.pc[q]]
<1>1. Nothing \in Amounts /\ left \in [Reads -> ReadState]
  BY DEF Nothing, Amounts, Sync, ReadState
<1>2. CASE r = "cex"
  <2>1. [sync.pc EXCEPT !["cex"] = "idle"] = left
    BY <1>2 DEF Sync
  <2>2. Without(sync, r) = [sync EXCEPT !.pc = left, !.cex = Nothing]
    BY <1>2, <2>1 DEF Without
  <2> HIDE DEF left
  <2>3. /\ Without(sync, r) \in Sync
        /\ Without(sync, r).pc = left
        /\ Without(sync, r).stray = sync.stray
        /\ Without(sync, r).base = sync.base
        /\ Without(sync, r).quote = sync.quote
    BY <1>1, <2>2 DEF Sync
  <2>. QED
    BY <1>2, <2>3 DEF left
<1>3. CASE r # "cex"
  <2>1. [q \in Reads |-> IF q = "cex" THEN sync.pc[q] ELSE "idle"] = left
    BY <1>3
  <2>2. Without(sync, r) = [sync EXCEPT !.pc = left, !.base = 0, !.quote = 0]
    BY <1>3, <2>1 DEF Without
  <2> HIDE DEF left
  <2>3. Without(sync, r) =
          [pc |-> left, stray |-> sync.stray, cex |-> sync.cex, base |-> 0, quote |-> 0]
    BY <2>2 DEF Sync
  <2>4. Without(sync, r) \in Sync
    BY <1>1, <2>3 DEF Sync
  <2>. QED
    BY <1>3, <2>3, <2>4 DEF left
<1>. QED
  BY <1>2, <1>3

\* What is left of one that goes astray.
LEMMA AstrayType ==
  ASSUME NEW sync \in Sync, NEW r \in Reads
  PROVE  /\ Astray(sync, r) \in Sync
         /\ Astray(sync, r).pc = Without(sync, r).pc
  BY WithoutType DEF Astray, Sync

\* A sync after an answer: the read is answered with what the venue holds.
LEMMA AnsweredType ==
  ASSUME NEW sync \in Sync, NEW r \in Reads, real \in [Venues -> Amounts]
  PROVE  /\ WithAnswer(sync, r) \in Sync
         /\ WithAnswer(sync, r).stray = sync.stray
         /\ WithAnswer(sync, r).pc = [sync.pc EXCEPT ![r] = "answered"]
         /\ WithAnswer(sync, r).cex = IF r = "cex" THEN real["BINANCE"] ELSE sync.cex
         /\ WithAnswer(sync, r).base =
              IF r = "walletBase" THEN real["WALLET"]["base"] ELSE sync.base
         /\ WithAnswer(sync, r).quote =
              IF r = "walletQuote" THEN real["WALLET"]["quote"] ELSE sync.quote
<1>1. /\ real["BINANCE"] \in Amounts
      /\ real["WALLET"]["base"] \in Int
      /\ real["WALLET"]["quote"] \in Int
  BY DEF Venues, Amounts, Assets
<1>2. [sync.pc EXCEPT ![r] = "answered"] \in [Reads -> ReadState]
  BY DEF Sync, ReadState
<1>. QED
  BY <1>1, <1>2 DEF WithAnswer, Sync

LEMMA DistrustType ==
  ASSUME trade \in Trade
  PROVE  /\ Distrust(trade) \in Trade
         /\ Distrust(trade).before = NoValue
         /\ Distrust(trade).pc = trade.pc
         /\ Distrust(trade).sync = trade.sync
  BY DEF Distrust, Trade

\* No trade is one that awaits nothing and that nobody trusts.
LEMMA NoTradeType ==
  /\ NoTrade \in Trade
  /\ NoTrade.before = NoValue
  /\ NoTrade.pc = "idle"
  /\ NoTrade.sync = NoValue
  BY DEF NoTrade, Trade, TradeSteps, TradeSides

-----------------------------------------------------------------------------
(* Steps of a sync *)

LEMMA InitTrusts ==
  ASSUME Init
  PROVE  SyncInv
<1>1. real \in [Venues -> Amounts]
  BY SyncAssumption DEF Init, Amounts, Assets
<1>2. syncs \in [Syncs -> Sync]
  BY IdleType DEF Init
<1>3. trade \in Trade /\ trade.before = NoValue /\ ~Awaiting /\ trade.sync = NoValue
  BY NoTradeType DEF Init, Awaiting
<1>4. stopping \in BOOLEAN /\ alive \in BOOLEAN
  BY DEF Init
<1>5. tracked = real /\ {trades, surprises} \subseteq Nat /\ abandoned \subseteq Leg
  BY DEF Init
<1>. QED
  BY <1>1, <1>2, <1>3, <1>4, <1>5 DEF SyncInv, SyncTypeOK, TrustInv

LEMMA TimerSyncKeeps ==
  ASSUME SyncInv, NEW s \in Syncs, TimerSync(s)
  PROVE  SyncInv'
<1>1. /\ syncs' = [syncs EXCEPT ![s] = Begun]
      /\ trade' = Distrust(trade)
      /\ trade.sync # s
  BY DEF TimerSync, Free
<1>2. syncs' \in [Syncs -> Sync]
  BY <1>1, IdleType DEF SyncInv, SyncTypeOK
<1>3. /\ trade' \in Trade /\ trade'.before = NoValue
      /\ Awaiting' = Awaiting /\ trade'.sync = trade.sync
  BY <1>1, DistrustType DEF SyncInv, SyncTypeOK, Awaiting
<1>4. Awaiting => syncs'[trade.sync] = syncs[trade.sync]
  BY <1>1, <1>3 DEF SyncInv, SyncTypeOK
<1>. QED
  BY <1>2, <1>3, <1>4 DEF SyncInv, SyncTypeOK, TrustInv, TimerSync

\* A step of one sync that leaves what the venues hold and the trade alone keeps
\* the invariant if it keeps the sync fresh, and wakes none that was idle.
LEMMA SyncStepKeeps ==
  ASSUME SyncInv, NEW s \in Syncs, NEW new \in Sync,
         syncs' = [syncs EXCEPT ![s] = new],
         tracked' \in [Venues -> Amounts],
         Busy(s)' => Busy(s),
         new.stray = syncs[s].stray,
         trade.sync # s => tracked' = tracked \/ Busy(s),
         Fresh(s) => Fresh(s)',
         UNCHANGED <<real, trade, abandoned, stopping, alive, trades, surprises>>
  PROVE  SyncInv'
<1>1. syncs' \in [Syncs -> Sync]
  BY DEF SyncInv, SyncTypeOK
<1>2. \A t \in Syncs : syncs'[t].stray = syncs[t].stray
  BY DEF SyncInv, SyncTypeOK
<1>3. Awaiting' = Awaiting /\ (Awaiting => trade.sync \in Syncs)
  BY SyncAssumption DEF SyncInv, SyncTypeOK, Awaiting, Trade
<1>4. SyncTypeOK'
  BY <1>1, <1>2, <1>3 DEF SyncInv, SyncTypeOK
<1>5. \A t \in Syncs : Busy(t)' => Busy(t)
  BY DEF SyncInv, SyncTypeOK, Busy
<1>6. ASSUME trade.before # NoValue
      PROVE  /\ trade.pc \in {"leg1", "leg2", "filled"} => tracked' = tracked
             /\ trade.pc = "verifying" /\ Fresh(trade.sync) => Fresh(trade.sync)'
  <2>1. Busy(s) => trade.sync = s
    BY <1>6 DEF SyncInv, TrustInv
  <2>2. trade.pc \in {"leg1", "leg2", "filled"} => trade.sync = NoValue
    BY DEF SyncInv, SyncTypeOK, Awaiting
  <2>3. CASE trade.sync = s
    BY <2>2, <2>3, SyncAssumption
  <2>4. CASE trade.sync # s
    <3>1. tracked' = tracked
      BY <2>1, <2>4
    <3>2. trade.pc = "verifying" => syncs'[trade.sync] = syncs[trade.sync]
      BY <1>3, <2>4 DEF SyncInv, SyncTypeOK, Awaiting
    <3>. QED
      BY <3>1, <3>2 DEF Fresh
  <2>. QED
    BY <2>3, <2>4
<1>7. TrustInv'
  BY <1>5, <1>6 DEF SyncInv, TrustInv, ExpectsDue, Due
<1>. QED
  BY <1>4, <1>7 DEF SyncInv

LEMMA AnswerKeeps ==
  ASSUME SyncInv, NEW s \in Syncs, NEW r \in Reads, Answer(s, r)
  PROVE  SyncInv'
<1>1. /\ syncs[s].pc[r] = "asked"
      /\ syncs' = [syncs EXCEPT ![s] = WithAnswer(syncs[s], r)]
      /\ UNCHANGED <<real, tracked, trade, abandoned, stopping, alive, trades, surprises>>
  BY DEF Answer
<1>2. syncs[s] \in Sync /\ syncs'[s] = WithAnswer(syncs[s], r)
  BY <1>1 DEF SyncInv, SyncTypeOK
<1>3. /\ WithAnswer(syncs[s], r) \in Sync
      /\ WithAnswer(syncs[s], r).stray = syncs[s].stray
  BY <1>2, AnsweredType DEF SyncInv, SyncTypeOK
<1>4. Busy(s)' => Busy(s)
  BY <1>1 DEF Busy
<1>5. Fresh(s) => Fresh(s)'
  <2>0. real \in [Venues -> Amounts]
    BY DEF SyncInv, SyncTypeOK
  <2>1. /\ syncs'[s].pc = [syncs[s].pc EXCEPT ![r] = "answered"]
        /\ syncs'[s].cex = IF r = "cex" THEN real["BINANCE"] ELSE syncs[s].cex
        /\ syncs'[s].base = IF r = "walletBase" THEN real["WALLET"]["base"] ELSE syncs[s].base
        /\ syncs'[s].quote = IF r = "walletQuote" THEN real["WALLET"]["quote"] ELSE syncs[s].quote
    BY <1>2, <2>0, AnsweredType
  <2>2. syncs[s].pc \in [Reads -> ReadState]
    BY <1>2 DEF Sync
  <2>. QED
    BY <1>1, <2>1, <2>2 DEF Fresh, Reads
<1>. QED
  BY <1>1, <1>3, <1>4, <1>5, SyncStepKeeps DEF SyncInv, SyncTypeOK

LEMMA ApplyCexKeeps ==
  ASSUME SyncInv, NEW s \in Syncs, ApplyCex(s)
  PROVE  SyncInv'
<1>1. /\ syncs[s].pc["cex"] = "answered"
      /\ syncs' = [syncs EXCEPT ![s] = Without(syncs[s], "cex")]
      /\ tracked' = [tracked EXCEPT !["BINANCE"] = syncs[s].cex]
      /\ UNCHANGED <<real, trade, abandoned, stopping, alive, trades, surprises>>
  BY DEF ApplyCex
<1>2. /\ "cex" \in Reads /\ syncs[s] \in Sync
      /\ tracked \in [Venues -> Amounts]
      /\ syncs'[s] = Without(syncs[s], "cex")
  BY <1>1 DEF SyncInv, SyncTypeOK, Reads
<1>3. /\ Without(syncs[s], "cex") \in Sync
      /\ Without(syncs[s], "cex").stray = syncs[s].stray
      /\ syncs'[s].pc = [q \in Reads |-> IF q = "cex" THEN "idle" ELSE syncs[s].pc[q]]
      /\ syncs'[s].base = syncs[s].base
      /\ syncs'[s].quote = syncs[s].quote
  BY <1>2, WithoutType
<1>4. tracked' \in [Venues -> Amounts]
  BY <1>1, <1>2 DEF Sync
<1>5. Busy(s)
  BY <1>1, <1>2 DEF Busy
<1>6. Fresh(s) => Fresh(s)'
  BY <1>1, <1>2, <1>3 DEF Fresh, Reads, Venues
<1>. QED
  BY <1>1, <1>3, <1>4, <1>5, <1>6, SyncStepKeeps

LEMMA ApplyWalletKeeps ==
  ASSUME SyncInv, NEW s \in Syncs, ApplyWallet(s)
  PROVE  SyncInv'
<1>1. /\ syncs[s].pc["walletBase"] = "answered" /\ syncs[s].pc["walletQuote"] = "answered"
      /\ syncs' = [syncs EXCEPT ![s] = Without(syncs[s], "walletBase")]
      /\ tracked' = [tracked EXCEPT !["WALLET"] = UpdateFromWallet(s)]
      /\ UNCHANGED <<real, trade, abandoned, stopping, alive, trades, surprises>>
  BY DEF ApplyWallet
<1>2. /\ "walletBase" \in Reads /\ syncs[s] \in Sync
      /\ tracked \in [Venues -> Amounts]
      /\ real \in [Venues -> Amounts]
      /\ syncs'[s] = Without(syncs[s], "walletBase")
  BY <1>1 DEF SyncInv, SyncTypeOK, Reads
<1>3. /\ Without(syncs[s], "walletBase") \in Sync
      /\ Without(syncs[s], "walletBase").stray = syncs[s].stray
      /\ syncs'[s].pc = [q \in Reads |-> IF q # "cex" THEN "idle" ELSE syncs[s].pc[q]]
      /\ syncs'[s].cex = syncs[s].cex
  BY <1>2, WithoutType
<1>4. tracked' \in [Venues -> Amounts]
  <2>1. UpdateFromWallet(s) \in Amounts
    BY <1>2 DEF UpdateFromWallet, Sync, Amounts
  <2>. QED
    BY <1>1, <1>2, <2>1
<1>5. Busy(s)
  BY <1>1, <1>2 DEF Busy
<1>6. Fresh(s) => Fresh(s)'
  <2>1. Fresh(s) => UpdateFromWallet(s) = real["WALLET"]
    BY <1>1, <1>2 DEF Fresh, UpdateFromWallet, Amounts, Assets, Venues
  <2>. QED
    BY <1>1, <1>2, <1>3, <2>1 DEF Fresh, Reads, Venues
<1>. QED
  BY <1>1, <1>3, <1>4, <1>5, <1>6, SyncStepKeeps

\* Nothing of what the process knew is left when it has ended.
LEMMA EndsKeeps ==
  ASSUME SyncInv, Ends, UNCHANGED <<real, abandoned, trades, surprises>>
  PROVE  SyncInv'
<1>1. [v \in Venues |-> Nothing] \in [Venues -> Amounts]
  BY DEF Nothing, Amounts
<1>2. syncs' \in [Syncs -> Sync] /\ tracked' \in [Venues -> Amounts]
  BY <1>1, IdleType DEF Ends
<1>3. trade' = NoTrade /\ stopping' \in BOOLEAN /\ alive' \in BOOLEAN
  BY DEF Ends
<1>4. trade' \in Trade /\ trade'.before = NoValue /\ ~Awaiting' /\ trade'.sync = NoValue
  BY <1>3, NoTradeType DEF Awaiting
<1>. QED
  BY <1>2, <1>3, <1>4 DEF SyncInv, SyncTypeOK, TrustInv

LEMMA RejectKeeps ==
  ASSUME SyncInv, NEW s \in Syncs, NEW r \in Reads, Reject(s, r)
  PROVE  SyncInv'
<1>0. UNCHANGED <<real, abandoned, trades, surprises>> /\ Rejected(s, r)
  BY DEF Reject
<1>2. CASE ~(trade.sync = s \/ syncs[s].stray)
  BY <1>0, <1>2, EndsKeeps DEF Rejected
<1>3. CASE trade.sync = s \/ syncs[s].stray
  <2> SUFFICES ASSUME trade.sync = s \/ syncs[s].stray
               PROVE  SyncInv'
    BY <1>3
  <2>1. /\ syncs' = [syncs EXCEPT ![s] = Astray(syncs[s], r)]
        /\ trade' = IF trade.sync = s THEN NoTrade ELSE Distrust(trade)
        /\ UNCHANGED <<real, abandoned, trades, surprises, tracked, stopping, alive>>
    BY <1>0 DEF Rejected
  <2>2. syncs[s] \in Sync /\ trade \in Trade
    BY DEF SyncInv, SyncTypeOK
  <2>3. syncs' \in [Syncs -> Sync]
    BY <2>1, <2>2, AstrayType DEF SyncInv, SyncTypeOK
  <2>4. trade' \in Trade /\ trade'.before = NoValue
    BY <2>1, <2>2, NoTradeType, DistrustType
  <2>6. (Awaiting <=> trade.sync # NoValue)' /\ (Awaiting => ~syncs[trade.sync].stray)'
    <3>1. CASE trade.sync = s
      BY <2>1, <3>1, NoTradeType DEF Awaiting
    <3>2. CASE trade.sync # s
      <4>1. trade'.pc = trade.pc /\ trade'.sync = trade.sync
        BY <2>1, <2>2, <3>2, DistrustType
      <4>2. Awaiting => syncs'[trade.sync] = syncs[trade.sync]
        BY <2>1, <2>2, <3>2 DEF SyncInv, SyncTypeOK, Trade
      <4>. QED
        BY <4>1, <4>2 DEF SyncInv, SyncTypeOK, Awaiting
    <3>. QED
      BY <3>1, <3>2
  <2>. QED
    BY <2>1, <2>3, <2>4, <2>6 DEF SyncInv, SyncTypeOK, TrustInv
<1>. QED
  BY <1>2, <1>3

-----------------------------------------------------------------------------
(* Steps of a trade, of the operator and of the process *)

LEMMA ExecuteKeeps ==
  ASSUME SyncInv, NEW side \in TradeSides, Execute(side)
  PROVE  SyncInv'
<1> DEFINE trusted == tracked = real /\ \A s \in Syncs : ~Busy(s)
<1>1. /\ trade' = [NoTrade EXCEPT !.pc = "leg1", !.side = side,
                     !.before = IF trusted THEN real ELSE NoValue]
      /\ trades' = trades + 1
      /\ UNCHANGED <<real, tracked, syncs, abandoned, stopping, alive, surprises>>
  BY DEF Execute
<1>2. real \in [Venues -> Amounts]
  BY DEF SyncInv, SyncTypeOK
<1>3. /\ trade' \in Trade
      /\ trade'.pc = "leg1"
      /\ trade'.sync = NoValue
      /\ trade'.before # NoValue => trusted /\ trade'.before = real
  <2>1. \E b \in [Venues -> Amounts] \cup {NoValue} :
          /\ b # NoValue => trusted /\ b = real
          /\ trade' = [NoTrade EXCEPT !.pc = "leg1", !.side = side, !.before = b]
    BY <1>1, <1>2
  <2>2. PICK b \in [Venues -> Amounts] \cup {NoValue} :
          /\ b # NoValue => trusted /\ b = real
          /\ trade' = [NoTrade EXCEPT !.pc = "leg1", !.side = side, !.before = b]
    BY <2>1
  <2>3. /\ trade' \in Trade
        /\ trade'.pc = "leg1"
        /\ trade'.sync = NoValue
        /\ trade'.before = b
    BY <2>2, NoTradeType DEF Trade, TradeSteps
  <2>. QED
    BY <2>2, <2>3
<1>4. SyncTypeOK'
  BY <1>1, <1>3 DEF SyncInv, SyncTypeOK, Awaiting
<1>5. TrustInv'
  BY <1>1, <1>3 DEF TrustInv, Busy
<1>. QED
  BY <1>4, <1>5 DEF SyncInv

\* A fill of a leg moves the trade on and leaves its record alone otherwise.
LEMMA LegFillKeeps ==
  ASSUME SyncInv, trade.pc \in {"leg1", "leg2"}, NEW to \in {"leg2", "filled"},
         trade' = [trade EXCEPT !.pc = to],
         real' \in [Venues -> Amounts],
         NEW e \in Int, Misses(e),
         UNCHANGED <<tracked, syncs, abandoned, stopping, alive, trades>>
  PROVE  SyncInv'
<1>0. surprises' \in Nat
  BY DEF Misses, SyncInv, SyncTypeOK
<1>1. trade \in Trade /\ trade.sync = NoValue
  BY DEF SyncInv, SyncTypeOK, Awaiting
<1>2. /\ trade' \in Trade
      /\ trade'.pc = to
      /\ trade'.sync = NoValue
      /\ trade'.before = trade.before
  BY <1>1 DEF Trade, TradeSteps
<1>3. SyncTypeOK'
  BY <1>0, <1>2 DEF SyncInv, SyncTypeOK, Awaiting
<1>4. TrustInv'
  BY <1>1, <1>2 DEF SyncInv, TrustInv, Busy
<1>. QED
  BY <1>3, <1>4 DEF SyncInv

\* What a fill leaves at the venue.
LEMMA FillsType ==
  ASSUME real \in [Venues -> Amounts], NEW v \in Venues, NEW side, NEW e \in Int,
         FillsAt(v, side, e)
  PROVE  real' \in [Venues -> Amounts]
<1>1. Moved(real[v], side) \in Amounts
  BY MovedType
<1>2. (Price * e) \div Lot \in Int
  BY SyncAssumption
<1>3. Filled(v, real[v], side, e) \in Amounts
  <2> DEFINE moved == Moved(real[v], side)
             spent == (Price * e) \div Lot
  <2>1. moved \in Amounts /\ spent \in Int
    BY <1>1, <1>2
  <2>2. Filled(v, real[v], side, e) =
          IF v = "BINANCE" THEN [moved EXCEPT !["quote"] = moved["quote"] + e]
          ELSE IF side = "sell" THEN moved
          ELSE [moved EXCEPT !["base"] = moved["base"] + e, !["quote"] = moved["quote"] - spent]
    <3>1. moved \in [Assets -> Int] /\ "base" \in Assets /\ "quote" \in Assets
      BY <2>1 DEF Amounts, Assets
    <3> HIDE DEF spent
    <3>2. [moved EXCEPT !["base"] = @ + e, !["quote"] = @ - spent]
            = [moved EXCEPT !["base"] = moved["base"] + e, !["quote"] = moved["quote"] - spent]
      BY <3>1
    <3>. QED
      BY <3>2 DEF Filled, spent
  <2> HIDE DEF moved, spent
  <2>. QED
    BY <2>1, <2>2 DEF Amounts, Assets
<1>. QED
  BY <1>3 DEF FillsAt

LEMMA Leg1FillsKeeps ==
  ASSUME SyncInv, NEW e \in FillErrors, Leg1Fills(e)
  PROVE  SyncInv'
<1>1. /\ trade.pc = "leg1"
      /\ trade' = [trade EXCEPT !.pc = "leg2"]
      /\ FillsAt("BINANCE", trade.side, e)
      /\ UNCHANGED <<tracked, syncs, abandoned, stopping, alive, trades>>
      /\ Misses(e)
  BY DEF Leg1Fills
<1>2. real \in [Venues -> Amounts] /\ e \in Int /\ "BINANCE" \in Venues
  BY SyncAssumption DEF SyncInv, SyncTypeOK, Venues
<1>3. real' \in [Venues -> Amounts]
  BY <1>1, <1>2, FillsType
<1>. QED
  BY <1>1, <1>2, <1>3, LegFillKeeps

LEMMA Leg2FillsKeeps ==
  ASSUME SyncInv, NEW e \in SwapErrors, Leg2Fills(e)
  PROVE  SyncInv'
<1>1. /\ trade.pc = "leg2"
      /\ trade' = [trade EXCEPT !.pc = "filled"]
      /\ FillsAt("WALLET", SideAt("WALLET", trade.side), e)
      /\ UNCHANGED <<tracked, syncs, abandoned, stopping, alive, trades>>
      /\ Misses(e)
  BY DEF Leg2Fills
<1>2. real \in [Venues -> Amounts] /\ e \in Int /\ "WALLET" \in Venues
  BY SyncAssumption DEF SyncInv, SyncTypeOK, Venues
<1>3. real' \in [Venues -> Amounts]
  BY <1>1, <1>2, FillsType
<1>. QED
  BY <1>1, <1>2, <1>3, LegFillKeeps

\* The sync that a tick begins has asked for everything.
LEMMA BegunFresh ==
  ASSUME NEW s \in Syncs, syncs' = [syncs EXCEPT ![s] = Begun], syncs \in [Syncs -> Sync]
  PROVE  /\ Fresh(s)'
         /\ syncs' \in [Syncs -> Sync]
         /\ ~syncs'[s].stray
         /\ \A t \in Syncs : t # s => Busy(t)' = Busy(t)
<1>1. syncs'[s] = Begun
  OBVIOUS
<1>2. Begun.pc = [r \in Reads |-> "asked"] /\ ~Begun.stray
  BY DEF Begun, IdleSync
<1>3. Fresh(s)'
  BY <1>1, <1>2 DEF Fresh, Reads
<1>4. \A t \in Syncs : t # s => syncs'[t] = syncs[t]
  OBVIOUS
<1>. QED
  BY <1>1, <1>2, <1>3, <1>4, IdleType DEF Busy

LEMMA TradeDoneKeeps ==
  ASSUME SyncInv, NEW s \in Syncs, TradeDone(s)
  PROVE  SyncInv'
<1>1. /\ trade.pc = "filled"
      /\ tracked' = Booked
      /\ trade' = [trade EXCEPT !.pc = "verifying", !.sync = s,
                     !.base = Booked["WALLET"]["base"], !.quote = Booked["BINANCE"]["quote"]]
      /\ syncs' = [syncs EXCEPT ![s] = Begun]
      /\ UNCHANGED <<real, abandoned, stopping, alive, trades, surprises>>
  BY DEF TradeDone, TradeBooked
<1>2. /\ trade \in Trade
      /\ trade.sync = NoValue
      /\ tracked \in [Venues -> Amounts]
      /\ syncs \in [Syncs -> Sync]
      /\ real \in [Venues -> Amounts]
  BY <1>1 DEF SyncInv, SyncTypeOK, Awaiting
<1>3. /\ Booked \in [Venues -> Amounts]
      /\ Booked["WALLET"]["base"] \in Int
      /\ Booked["BINANCE"]["quote"] \in Int
  BY <1>2, BookedType
<1>4. /\ trade' \in Trade
      /\ trade'.pc = "verifying" /\ trade'.sync = s
      /\ trade'.before = trade.before /\ trade'.side = trade.side
      /\ trade'.base = Booked["WALLET"]["base"]
      /\ trade'.quote = Booked["BINANCE"]["quote"]
  BY <1>1, <1>2, <1>3 DEF Trade, TradeSteps
<1>5. /\ Fresh(s)'
      /\ syncs' \in [Syncs -> Sync]
      /\ ~syncs'[s].stray
      /\ \A t \in Syncs : t # s => Busy(t)' = Busy(t)
  BY <1>1, <1>2, BegunFresh
<1>6. SyncTypeOK'
  BY <1>1, <1>3, <1>4, <1>5, SyncAssumption DEF SyncInv, SyncTypeOK, Awaiting
<1>7. ASSUME trade'.before # NoValue
      PROVE  /\ \A t \in Syncs : Busy(t)' => t = s
             /\ ExpectsDue'
  <2>1. tracked = trade.before
    BY <1>1, <1>4, <1>7 DEF SyncInv, TrustInv
  <2>2. \A t \in Syncs : ~Busy(t)
    BY <1>2, <1>4, <1>7, SyncAssumption DEF SyncInv, TrustInv
  <2>3. ExpectsDue'
    BY <1>4, <2>1 DEF ExpectsDue, Due, Booked, Venues
  <2>. QED
    BY <1>5, <2>2, <2>3
<1>8. TrustInv'
  BY <1>4, <1>5, <1>7 DEF TrustInv
<1>. QED
  BY <1>6, <1>8 DEF SyncInv

LEMMA TradeFailsKeeps ==
  ASSUME SyncInv, NEW s \in Syncs, NEW unwound \in BOOLEAN, TradeFails(s, unwound)
  PROVE  SyncInv'
<1>1. /\ trade.pc \in {"leg1", "leg2"}
      /\ trade' = [NoTrade EXCEPT !.pc = "resyncing", !.sync = s]
      /\ syncs' = [syncs EXCEPT ![s] = Begun]
      /\ UNCHANGED <<tracked, stopping, alive, trades>>
  BY DEF TradeFails
<1>2. /\ trade \in Trade
      /\ trade.sync = NoValue
      /\ syncs \in [Syncs -> Sync]
      /\ real \in [Venues -> Amounts]
  BY <1>1 DEF SyncInv, SyncTypeOK, Awaiting
<1>3. real' \in [Venues -> Amounts]
  <2>1. "BINANCE" \in Venues /\ 0 \in Int
    BY DEF Venues
  <2>2. CASE UNCHANGED real
    BY <1>2, <2>2
  <2>3. CASE FillsAt("BINANCE", IF trade.side = "buy" THEN "sell" ELSE "buy", 0)
    BY <1>2, <2>1, <2>3, FillsType
  <2>. QED
    BY <2>2, <2>3 DEF TradeFails
<1>4. abandoned' \subseteq Leg /\ surprises' \in Nat
  <2>1. abandoned \subseteq Leg /\ surprises \in Nat /\ trades \in Nat
    BY DEF SyncInv, SyncTypeOK
  <2>2. CASE UNCHANGED <<abandoned, surprises>>
    BY <2>1, <2>2
  <2>3. CASE GivesUp
    <3>1. \A v \in Venues : SideAt(v, trade.side) \in TradeSides
      BY <1>2 DEF SideAt, TradeSides, Trade
    <3>. QED
      BY <2>1, <2>3, <3>1 DEF GivesUp, Leg, Venues
  <2>. QED
    BY <2>2, <2>3 DEF TradeFails
<1>5. /\ trade' \in Trade
      /\ trade'.pc = "resyncing" /\ trade'.sync = s
      /\ trade'.before = NoValue
  BY <1>1, NoTradeType DEF Trade, TradeSteps
<1>6. /\ syncs' \in [Syncs -> Sync]
      /\ ~syncs'[s].stray
  BY <1>1, <1>2, BegunFresh
<1>. QED
  BY <1>1, <1>3, <1>4, <1>5, <1>6, SyncAssumption DEF SyncInv, SyncTypeOK, TrustInv, Awaiting

LEMMA TradeEndsKeeps ==
  ASSUME SyncInv, TradeEnds
  PROVE  SyncInv'
<1>1. /\ trade.sync \in Syncs
      /\ trade' = NoTrade
      /\ syncs' = [syncs EXCEPT ![trade.sync] = IdleSync]
      /\ stopping' = (stopping \/ (trade.pc = "verifying" /\ Mismatch))
      /\ UNCHANGED <<real, tracked, abandoned, alive, trades, surprises>>
  BY DEF TradeEnds, SyncInv, SyncTypeOK, Trade
<1>2. syncs' \in [Syncs -> Sync]
  BY <1>1, IdleType DEF SyncInv, SyncTypeOK
<1>3. stopping' \in BOOLEAN
  BY <1>1, Zenon
<1>. QED
  BY <1>1, <1>2, <1>3, NoTradeType DEF SyncInv, SyncTypeOK, TrustInv, Awaiting

LEMMA TransferKeeps ==
  ASSUME SyncInv, NEW v \in Venues, Transfer(v)
  PROVE  SyncInv'
<1>1. /\ real' = [u \in Venues |->
           [real[u] EXCEPT !["base"] = IF u = v THEN @ - Lot ELSE @ + Lot]]
      /\ surprises' = surprises + 1
      /\ trade' = Distrust(trade)
      /\ UNCHANGED <<tracked, syncs, abandoned, stopping, alive, trades>>
  BY DEF Transfer
<1>2. real' \in [Venues -> Amounts]
  BY <1>1, SyncAssumption DEF SyncInv, SyncTypeOK, Amounts, Assets
<1>3. /\ trade' \in Trade /\ trade'.before = NoValue
      /\ trade'.pc = trade.pc /\ trade'.sync = trade.sync
  BY <1>1, DistrustType DEF SyncInv, SyncTypeOK
<1>. QED
  BY <1>1, <1>2, <1>3 DEF SyncInv, SyncTypeOK, TrustInv, Awaiting

LEMMA LateFillKeeps ==
  ASSUME SyncInv, NEW leg \in abandoned, NEW e \in ErrorsAt(leg.venue), LateFill(leg, e)
  PROVE  SyncInv'
<1>1. /\ FillsAt(leg.venue, leg.side, e)
      /\ abandoned' = abandoned \ {leg}
      /\ trade' = Distrust(trade)
      /\ UNCHANGED <<tracked, syncs, stopping, alive, trades, surprises>>
  BY DEF LateFill
<1>2. real \in [Venues -> Amounts] /\ leg \in Leg
  BY DEF SyncInv, SyncTypeOK
<1>3. leg.venue \in Venues /\ e \in Int
  BY <1>2, SyncAssumption DEF Leg, ErrorsAt
<1>4. real' \in [Venues -> Amounts]
  BY <1>1, <1>2, <1>3, FillsType
<1>5. /\ trade' \in Trade /\ trade'.before = NoValue
      /\ trade'.pc = trade.pc /\ trade'.sync = trade.sync
  BY <1>1, DistrustType DEF SyncInv, SyncTypeOK
<1>. QED
  BY <1>1, <1>4, <1>5 DEF SyncInv, SyncTypeOK, TrustInv, Awaiting

LEMMA SyncStutterKeeps ==
  ASSUME SyncInv, UNCHANGED vars
  PROVE  SyncInv'
<1>1. SyncTypeOK'
  BY DEF SyncInv, SyncTypeOK, Awaiting, vars
<1>2. TrustInv'
  BY DEF SyncInv, TrustInv, ExpectsDue, Due, Fresh, Busy, vars
<1>. QED
  BY <1>1, <1>2 DEF SyncInv

LEMMA SyncSteps ==
  ASSUME SyncInv, [Next]_vars
  PROVE  SyncInv'
<1>1. CASE \E s \in Syncs : TimerSync(s) \/ SyncStep(s)
  BY <1>1, TimerSyncKeeps, AnswerKeeps, ApplyCexKeeps, ApplyWalletKeeps, RejectKeeps
     DEF SyncStep
<1>2. CASE TradeStep
  BY <1>2, ExecuteKeeps, Leg1FillsKeeps, Leg2FillsKeeps, TradeDoneKeeps, TradeFailsKeeps,
     TradeEndsKeeps, SyncAssumption DEF TradeStep
<1>3. CASE \E v \in Venues : Transfer(v)
  BY <1>3, TransferKeeps
<1>4. CASE \E leg \in abandoned : \E e \in ErrorsAt(leg.venue) : LateFill(leg, e)
  BY <1>4, LateFillKeeps
<1>5. CASE Exit
  BY <1>5, EndsKeeps DEF Exit
<1>6. CASE UNCHANGED vars
  BY <1>6, SyncStutterKeeps
<1>. QED
  BY <1>1, <1>2, <1>3, <1>4, <1>5, <1>6 DEF Next

LEMMA SyncInvHolds == Spec => []SyncInv
<1>1. Init => SyncInv
  BY InitTrusts
<1>2. SyncInv /\ [Next]_vars => SyncInv'
  BY SyncSteps
<1>. QED  BY <1>1, <1>2, PTL DEF Spec

-----------------------------------------------------------------------------
(* Theorems *)

\* Types, and that a tick never awaits a sync of which a part is lost.
THEOREM TicksAwaitWholeSyncs == Spec => []SyncTypeOK
<1>1. SyncInv => SyncTypeOK
  BY DEF SyncInv
<1>. QED  BY <1>1, SyncInvHolds, PTL

\* When the sync of a trusted trade is through, the tracker tells what the
\* venues hold.
LEMMA VerifiedIsReal ==
  ASSUME SyncInv, trade.pc = "verifying", trade.before # NoValue, ~Busy(trade.sync)
  PROVE  tracked = real /\ ExpectsDue
<1>1. /\ trade.sync \in Syncs
      /\ tracked \in [Venues -> Amounts]
      /\ real \in [Venues -> Amounts]
  BY DEF SyncInv, SyncTypeOK, Awaiting, Trade
<1>2. Fresh(trade.sync) /\ ExpectsDue
  BY DEF SyncInv, TrustInv
<1>3. \A v \in Venues : tracked[v] = real[v]
  BY <1>1, <1>2 DEF Fresh, Busy, Reads, Venues
<1>. QED
  BY <1>1, <1>2, <1>3

\* A trade that is verified ends with the right verdict: only the end of its
\* sync ends it, and by then verifyBalances compares what the venues hold with
\* what they should.
THEOREM VerdictsAreRight == Spec => VerdictIsRight
<1> DEFINE Judged == /\ trade.pc = "verifying" /\ trade.before # NoValue
                     /\ ~Busy(trade.sync) /\ trade' = NoTrade /\ alive'
           Right == stopping' = (stopping \/ Diverged)
<1>1. ASSUME SyncInv, [Next]_vars, Judged
      PROVE  Right
  <2>1. tracked = real /\ ExpectsDue
    BY <1>1, VerifiedIsReal
  <2>2. Mismatch <=> Diverged
    BY <2>1 DEF Mismatch, Diverged, ExpectsDue, Due
  <2>3. trade # NoTrade /\ Distrust(trade) # NoTrade
    BY <1>1, NoTradeType, DistrustType DEF SyncInv, SyncTypeOK
  <2>4. TradeEnds
    <3>1. trade' # trade /\ trade' # Distrust(trade)
      BY <1>1, <2>3
    <3>2. ASSUME NEW s \in Syncs
          PROVE  ~TimerSync(s) /\ ~ApplyCex(s) /\ ~ApplyWallet(s)
      BY <3>1 DEF TimerSync, ApplyCex, ApplyWallet
    <3>3. ASSUME NEW s \in Syncs, NEW r \in Reads
          PROVE  ~Answer(s, r) /\ ~Reject(s, r)
      BY <1>1, <3>1 DEF Answer, Reject, Rejected, Ends, Busy
    <3>4. \A v \in Venues : ~Transfer(v)
      BY <3>1 DEF Transfer
    <3>5. ~(\E leg \in abandoned : \E e \in ErrorsAt(leg.venue) : LateFill(leg, e))
      BY <3>1 DEF LateFill
    <3>6. ~Exit /\ ~UNCHANGED vars
      BY <1>1, <3>1 DEF Exit, Ends, vars
    <3>7. TradeStep
      BY <1>1, <3>2, <3>3, <3>4, <3>5, <3>6 DEF Next, SyncStep
    <3>. QED
      <4>1. ~(\E side \in TradeSides : Execute(side))
        BY <1>1 DEF Execute
      <4>2. ~(\E e \in FillErrors : Leg1Fills(e)) /\ ~(\E e \in SwapErrors : Leg2Fills(e))
        BY <1>1 DEF Leg1Fills, Leg2Fills
      <4>3. \A s \in TickSyncs, unwound \in BOOLEAN : ~TradeDone(s) /\ ~TradeFails(s, unwound)
        BY <1>1 DEF TradeDone, TradeFails
      <4>. QED
        BY <3>7, <4>1, <4>2, <4>3 DEF TradeStep
  <2>. QED
    BY <1>1, <2>2, <2>4 DEF TradeEnds
<1>2. SyncInv /\ [Next]_vars => [Judged => Right]_vars
  BY <1>1
<1>. QED  BY <1>2, SyncInvHolds, PTL DEF Spec, VerdictIsRight
=============================================================================
