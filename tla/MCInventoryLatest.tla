------------------------- MODULE MCInventoryLatest -------------------------
(* InventorySync, with the age of what the tracker says of the exchange. *)
EXTENDS MCInventorySync

VARIABLES
  changes,    \* how often the balances at the exchange have changed
  seen,       \* the change each sync has its answer of
  snapshot    \* the change the tracker has its balances of

historyVars == <<changes, seen, snapshot>>

HistoryInit == Init /\ changes = 0 /\ seen = [s \in Syncs |-> 0] /\ snapshot = 0

Answered(s) == syncs[s].pc["cex"] = "asked" /\ syncs'[s].pc["cex"] = "answered"
Applied(s) == syncs[s].pc["cex"] = "answered" /\ syncs'[s].pc["cex"] = "idle" /\ alive'

HistoryNext ==
  /\ Next
  /\ changes' = IF real'["BINANCE"] # real["BINANCE"] THEN changes + 1 ELSE changes
  /\ seen' = [s \in Syncs |-> IF Answered(s) THEN changes ELSE seen[s]]
  /\ snapshot' = IF \E s \in Syncs : Applied(s)
                   THEN seen[CHOOSE s \in Syncs : Applied(s)] ELSE snapshot

HistorySpec == HistoryInit /\ [][HistoryNext]_<<vars, historyVars>>

\* "the tracker holds the latest snapshot per venue" (tracker.service.ts:14):
\* what it is told of the exchange is never older than what it had.
TrackerLatest == [][snapshot' >= snapshot]_historyVars
=============================================================================
