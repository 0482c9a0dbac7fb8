----------------------------- MODULE Arbitrage -----------------------------
(***************************************************************************)
(* What the executor promises of its trades, legs left out: each execution *)
(* is opened once and alone, ends once as done or failed, and never holds  *)
(* more than MaxExposure of the base asset unhedged.  The books of a done  *)
(* execution are closed; those of a failed one are not: a leg it gave up   *)
(* waiting for can still trade.  Executor implements this module.          *)
(***************************************************************************)
EXTENDS Integers

CONSTANTS
  Trades,       \* executions
  MaxExposure   \* base one execution may hold unhedged

VARIABLES
  outcome,   \* what execute() has returned of each trade
  exposure   \* base each trade has bought less what it has sold

arbVars == <<outcome, exposure>>

Bounded == (-MaxExposure)..MaxExposure

Init ==
  /\ outcome = [t \in Trades |-> "none"]
  /\ exposure = [t \in Trades |-> 0]

Open(t) ==
  /\ outcome[t] = "none"
  /\ \A u \in Trades : outcome[u] # "open"
  /\ outcome' = [outcome EXCEPT ![t] = "open"]
  /\ UNCHANGED exposure

Trade(t) ==
  /\ outcome[t] \in {"open", "failed"}
  /\ \E x \in Bounded : exposure' = [exposure EXCEPT ![t] = x]
  /\ UNCHANGED outcome

Close(t) ==
  /\ outcome[t] = "open"
  /\ \E o \in {"done", "failed"} : outcome' = [outcome EXCEPT ![t] = o]
  /\ UNCHANGED exposure

Next == \E t \in Trades : Open(t) \/ Trade(t) \/ Close(t)

Spec == Init /\ [][Next]_arbVars
=============================================================================
