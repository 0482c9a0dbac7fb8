---------------------------- MODULE MCInventory ----------------------------
(***************************************************************************)
(* The balances of the tracker and the gate before the executor, one at a  *)
(* time: a behaviour is one of `part', and the other stays as it was.      *)
(***************************************************************************)
EXTENDS MCInventorySync, GatedExecution

VARIABLE part

allVars == <<part, vars, gateVars>>

InventoryInit ==
  /\ part \in {"tracker", "gate"}
  /\ Init /\ GateInit

InventoryNext ==
  /\ UNCHANGED part
  /\ \/ part = "tracker" /\ Next /\ UNCHANGED gateVars
     \/ part = "gate" /\ GateNext /\ UNCHANGED vars

\* Fairness of the tracker, where the tracker moves.
InventoryFairness ==
  /\ WF_vars(part = "tracker" /\ \E s \in Syncs : TimerSync(s))
  /\ \A s \in Syncs : WF_vars(part = "tracker" /\ SyncStep(s))

InventorySpec == InventoryInit /\ [][InventoryNext]_allVars /\ InventoryFairness
=============================================================================
