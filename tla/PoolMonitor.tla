----------------------------- MODULE PoolMonitor -----------------------------
(***************************************************************************)
(* The pools of pricing/engine: how PricingEngine keeps the reserves it    *)
(* prices with up to date, from Sync events, from the reads with which the *)
(* monitor starts, and from the refresh of a pool that a swap seen in the  *)
(* mempool may have moved.                                                 *)
(*                                                                         *)
(* The reserves of a pool are a version, raised by every swap, mint or     *)
(* burn on chain.  Nodes read the latest version; the events of a pool     *)
(* come in order, while the answers of reads come in any.                  *)
(***************************************************************************)
EXTENDS Naturals, Sequences

CONSTANTS
  Pools,       \* the pools of the monitor
  Refreshes,   \* bound: refreshes of a pool under way at once
  MaxVersion,  \* bound: swaps on a pool
  MaxLosses    \* bound: how often the node loses a subscription

ASSUME PoolAssumption == Pools # {} /\ MaxVersion \in Nat /\ MaxLosses \in Nat

VARIABLES
  chain,       \* the version of each pool on chain
  pools,       \* the version this.pools holds, and the router's graph with it
  monitor,     \* how far startPoolMonitor is
  running,     \* poolMonitorRunning
  reading,     \* the versions its refreshPools has read; Unread before
  watch,       \* the subscription to each pool's events
  events,      \* those on their way
  mempool,     \* MempoolMonitor.unwatch is not null
  refreshes,   \* transactions of the mempool, and the refreshPool calls they cause
  losses,      \* subscriptions lost
  told,        \* the pools whose last move was sent as an event
  newest,      \* the newest version ever held of each
  late         \* the pools where a refresh put an older version over a newer one

poolVars == <<chain, pools, monitor, running, reading, watch, events, mempool,
              refreshes, losses, told, newest, late>>
held == <<pools, newest, late>>
monitorVars == <<monitor, running, reading, losses>>
mempoolVars == <<mempool, refreshes>>

Unread == MaxVersion + 1

\* A pending transaction that is being fetched, then the refreshPool call of a
\* pool it trades on: at the node, or answered.
IdleRefresh == [pc |-> "idle", pool |-> CHOOSE p \in Pools : TRUE, at |-> 0]

PoolTypeOK ==
  /\ chain \in [Pools -> 0..MaxVersion] /\ pools \in [Pools -> 0..MaxVersion]
  /\ monitor \in {"off", "reading", "on", "failed"} /\ running \in BOOLEAN
  /\ reading \in [Pools -> 0..Unread]
  /\ watch \in [Pools -> {"none", "asked", "active"}]
  /\ events \in [Pools -> Seq(0..MaxVersion)]
  /\ mempool \in BOOLEAN
  /\ refreshes \in
       [Refreshes -> [pc : {"idle", "seen", "asked", "read"}, pool : Pools, at : 0..MaxVersion]]
  /\ losses \in 0..MaxLosses
  /\ newest \in [Pools -> 0..MaxVersion]
  /\ told \in SUBSET Pools /\ late \in SUBSET Pools

\* loadPools has read every pool and built the graph.
PoolInit ==
  /\ chain = [p \in Pools |-> 0] /\ pools = [p \in Pools |-> 0]
  /\ monitor = "off" /\ running = FALSE
  /\ reading = [p \in Pools |-> Unread]
  /\ watch = [p \in Pools |-> "none"]
  /\ events = [p \in Pools |-> <<>>]
  /\ mempool = FALSE
  /\ refreshes = [r \in Refreshes |-> IdleRefresh]
  /\ losses = 0 /\ told = {}
  /\ newest = [p \in Pools |-> 0] /\ late = {}

\* What was written, in a step where the pools in refreshed were refreshed.
Remember(refreshed) ==
  /\ newest' = [p \in Pools |-> IF pools'[p] > newest[p] THEN pools'[p] ELSE newest[p]]
  /\ late' = {p \in late \cup refreshed : pools'[p] < newest[p]}

-----------------------------------------------------------------------------
(* The chain and its nodes *)

\* A swap; its Sync event is sent to whoever watches the pool.
PoolMoves(p) ==
  /\ chain[p] < MaxVersion
  /\ chain' = [chain EXCEPT ![p] = chain[p] + 1]
  /\ IF watch[p] = "active"
       THEN /\ events' = [events EXCEPT ![p] = Append(events[p], chain[p] + 1)]
            /\ told' = told \cup {p}
       ELSE events' = events /\ told' = told \ {p}
  /\ UNCHANGED <<held, monitorVars, watch, mempoolVars>>

Subscribed(p) ==
  /\ watch[p] = "asked"
  /\ watch' = [watch EXCEPT ![p] = "active"]
  /\ UNCHANGED <<chain, held, monitorVars, events, mempoolVars, told>>

\* The socket breaks and the client subscribes anew: events between are missed,
\* and so are those still on their way.
SubscriptionLost(p) ==
  /\ watch[p] = "active"
  /\ losses < MaxLosses
  /\ losses' = losses + 1
  /\ watch' = [watch EXCEPT ![p] = "asked"]
  /\ events' = [events EXCEPT ![p] = <<>>]
  /\ told' = IF events[p] = <<>> THEN told ELSE told \ {p}
  /\ UNCHANGED <<chain, held, monitor, running, reading, mempoolVars>>

-----------------------------------------------------------------------------
(* The monitor *)

\* Events that are asked for before the pools are read.
SubscribeFirst ==
  /\ monitor' = "reading"
  /\ watch' = [p \in Pools |-> "asked"]

ReadFirst ==
  /\ monitor' = "reading"
  /\ watch' = watch

\* A call while it runs throws; one while another reads is not made by the bot.
StartPoolMonitor ==
  /\ ~running /\ monitor = "off"
  /\ ReadFirst
  /\ UNCHANGED <<chain, held, running, reading, events, mempoolVars, losses, told>>

\* One of the reads of refreshPools, at the node.
MonitorReads(p) ==
  /\ monitor = "reading"
  /\ reading[p] = Unread
  /\ reading' = [reading EXCEPT ![p] = chain[p]]
  /\ UNCHANGED <<chain, held, monitor, running, watch, events, mempoolVars, losses, told>>

\* One of them is rejected: startPoolMonitor throws.
MonitorFails ==
  /\ monitor = "reading"
  /\ monitor' = "failed"
  /\ UNCHANGED <<chain, held, running, reading, watch, events, mempoolVars, losses, told>>

\* All have answered: the pools are set and the events asked for, at once.
MonitorReady ==
  /\ monitor = "reading"
  /\ \A p \in Pools : reading[p] # Unread
  /\ pools' = reading
  /\ Remember({})
  /\ monitor' = "on"
  /\ running' = TRUE
  /\ watch' = [p \in Pools |-> "asked"]
  /\ UNCHANGED <<chain, reading, events, mempoolVars, losses, told>>

\* Several events in one call are handled one after the other.
OnSync(p) ==
  /\ events[p] # <<>>
  /\ pools' = [pools EXCEPT ![p] = Head(events[p])]
  /\ Remember({})
  /\ events' = [events EXCEPT ![p] = Tail(events[p])]
  /\ UNCHANGED <<chain, monitorVars, watch, mempoolVars, told>>

\* Nothing comes after it; a start that still reads goes on and subscribes.
StopPoolMonitor ==
  /\ running
  /\ running' = FALSE
  /\ monitor' = "off"
  /\ reading' = [p \in Pools |-> Unread]
  /\ watch' = [p \in Pools |-> "none"]
  /\ events' = [p \in Pools |-> <<>>]
  /\ told' = {}
  /\ UNCHANGED <<chain, held, mempoolVars, losses>>

-----------------------------------------------------------------------------
(* The mempool, and refreshing a pool that a swap in it may move *)

\* Starting it twice throws.
StartMonitor ==
  /\ ~mempool /\ mempool' = TRUE
  /\ UNCHANGED <<chain, held, monitorVars, watch, events, refreshes, told>>

\* What is being fetched goes on.
StopMonitor ==
  /\ mempool /\ mempool' = FALSE
  /\ UNCHANGED <<chain, held, monitorVars, watch, events, refreshes, told>>

\* handleHashes fetches every pending transaction it is told of.
HandleHash(r, p) ==
  /\ mempool
  /\ refreshes[r].pc = "idle"
  /\ refreshes' = [refreshes EXCEPT ![r] = [pc |-> "seen", pool |-> p, at |-> 0]]
  /\ UNCHANGED <<chain, held, monitorVars, watch, events, mempool, told>>

\* It is a swap with a token of the pool: refreshPool is called and not awaited.
OnMempoolSwap(r) ==
  /\ refreshes[r].pc = "seen"
  /\ refreshes' = [refreshes EXCEPT ![r] = [pc |-> "asked", pool |-> refreshes[r].pool, at |-> 0]]
  /\ UNCHANGED <<chain, held, monitorVars, watch, events, mempool, told>>

RefreshReads(r) ==
  /\ refreshes[r].pc = "asked"
  /\ refreshes' = [refreshes EXCEPT
       ![r] = [pc |-> "read", pool |-> refreshes[r].pool, at |-> chain[refreshes[r].pool]]]
  /\ UNCHANGED <<chain, held, monitorVars, watch, events, mempool, told>>

\* The last answer wins, whatever it read.
RefreshPool(r) ==
  LET p == refreshes[r].pool
      v == refreshes[r].at
  IN  /\ refreshes[r].pc = "read"
      /\ pools' = [pools EXCEPT ![p] = v]
      /\ Remember({p})
      /\ refreshes' = [refreshes EXCEPT ![r] = IdleRefresh]
      /\ UNCHANGED <<chain, monitorVars, watch, events, mempool, told>>

\* parseTransaction finds no swap, or one of other tokens, or it was not found.
NoSwap(r) ==
  /\ refreshes[r].pc = "seen"
  /\ refreshes' = [refreshes EXCEPT ![r] = IdleRefresh]
  /\ UNCHANGED <<chain, held, monitorVars, watch, events, mempool, told>>

\* Reading the pool fails, which is only logged.
RefreshFails(r) ==
  /\ refreshes[r].pc \in {"asked", "read"}
  /\ refreshes' = [refreshes EXCEPT ![r] = IdleRefresh]
  /\ UNCHANGED <<chain, held, monitorVars, watch, events, mempool, told>>

PoolNext ==
  \/ StartMonitor \/ StopMonitor
  \/ StartPoolMonitor \/ MonitorFails \/ MonitorReady \/ StopPoolMonitor
  \/ \E p \in Pools : PoolMoves(p) \/ Subscribed(p) \/ SubscriptionLost(p) \/ OnSync(p)
                      \/ MonitorReads(p)
  \/ \E r \in Refreshes : NoSwap(r) \/ OnMempoolSwap(r) \/ RefreshReads(r)
                          \/ RefreshPool(r) \/ RefreshFails(r)
  \/ \E r \in Refreshes, p \in Pools : HandleHash(r, p)

PoolSpec == PoolInit /\ [][PoolNext]_poolVars

-----------------------------------------------------------------------------
(* Properties *)

\* Once the events of a pool are through, the engine prices with its reserves
\* on chain: no order of events and reads leaves it behind, except that a move
\* while nothing was subscribed is missed until the next one, and that a
\* refresh that came late may have put older reserves over newer ones: the bot,
\* which does not watch the mempool, has none (68-127, 212-231).
PoolsSettle == \A p \in Pools :
  p \in told /\ events[p] = <<>> /\ p \notin late => pools[p] = chain[p]
=============================================================================
