----------------------------- MODULE ChainClient -----------------------------
(***************************************************************************)
(* Sending a transaction (chain): TransactionBuilder.sendAndWait over the  *)
(* retries of ChainClient.withRetry, against nodes that lose requests and  *)
(* answers, know different blocks and pass transactions on.                *)
(*                                                                         *)
(* A call is one sendAndWait.  The executor does not wait for one that it  *)
(* has given up, so several can be under way.                              *)
(***************************************************************************)
EXTENDS Integers, FiniteSets

CONSTANTS
  Calls,         \* the calls of sendAndWait
  NumEndpoints,  \* how many rpcUrls there are
  MaxRetries,    \* ChainClient.maxRetries
  MaxNonce       \* bound: nonces of the wallet

ASSUME ChainAssumption ==
  /\ NumEndpoints \in Nat \ {0}
  /\ MaxRetries \in Nat \ {0}
  /\ MaxNonce \in Nat

VARIABLES
  calls,   \* how far each call is
  pools,   \* the pending transactions each endpoint knows
  height,  \* how many transactions of the wallet each endpoint knows to be mined
  mined    \* the transactions mined, and whether they succeeded

chainVars == <<calls, pools, height, mined>>

Endpoints == 1..NumEndpoints

\* A signed transaction: a call that signed twice would have made two.
Tx == [by : Calls, nonce : Nat]
Mined == [tx : Tx, ok : BOOLEAN]

\* A call: getNonce, getGasPrice with the signing, sendTransaction,
\* waitForReceipt, or how it ended.  tries counts the requests of the
\* operation it is at; tx is its transaction once signed.
Asking == {"nonce", "gas", "sending", "polling"}
Ended == {"returned", "reverted", "threw"}
Call == [pc : {"idle"} \cup Asking \cup Ended, tries : Nat, nonce : Nat]

Fresh == [pc |-> "idle", tries |-> 0, nonce |-> 0]

Sent(c) == calls[c].pc \in {"sending", "polling"} \cup Ended

\* Every transaction anywhere is the one that its call has signed.
Known == (UNION {pools[e] : e \in Endpoints}) \cup {m.tx : m \in mined}
OwnTransactions == \A tx \in Known : Sent(tx.by) /\ tx.nonce = calls[tx.by].nonce

\* Types, and that what a retry sends again is what was sent first, for the
\* call has not signed anew (send 155-158 of transaction.service.ts, withRetry
\* 57-90 of chain.client.ts).
ChainTypeOK ==
  /\ calls \in [Calls -> Call]
  /\ pools \in [Endpoints -> SUBSET Tx]
  /\ height \in [Endpoints -> Nat]
  /\ mined \subseteq Mined
  /\ OwnTransactions

ChainInit ==
  /\ calls = [c \in Calls |-> Fresh]
  /\ pools = [e \in Endpoints |-> {}]
  /\ height = [e \in Endpoints |-> 0]
  /\ mined = {}

-----------------------------------------------------------------------------
(* withRetry: every endpoint in turn, MaxRetries times *)

Endpoint(c) == (calls[c].tries % NumEndpoints) + 1

Goes(c, pc) == [calls EXCEPT ![c] = [@ EXCEPT !.pc = pc, !.tries = 0]]

\* A retryable error: the next endpoint, or a ChainError after the last try.
\* sendTransaction is given bytes, so it cannot but send the same again.
AskAgain(c) ==
  IF calls[c].tries + 1 < MaxRetries * NumEndpoints
    THEN [calls EXCEPT ![c] = [@ EXCEPT !.tries = calls[c].tries + 1]]
    ELSE Goes(c, "threw")

\* The request, or its answer, is lost: the error is of a kind that is retried
\* or it is not.
Unanswered(c) == calls' = AskAgain(c) \/ calls' = Goes(c, "threw")

Lost(c) ==
  /\ calls[c].pc \in Asking
  /\ Unanswered(c)
  /\ UNCHANGED <<pools, height, mined>>

-----------------------------------------------------------------------------
(* sendAndWait *)

Start(c) ==
  /\ calls[c].pc = "idle"
  /\ calls' = Goes(c, "nonce")
  /\ UNCHANGED <<pools, height, mined>>

\* The first nonce that is neither mined nor pending, as an endpoint knows.
Pending(e) == {tx.nonce : tx \in pools[e]}
IsNextNonce(e, n) ==
  n >= height[e] /\ n \notin Pending(e) /\ height[e]..(n - 1) \subseteq Pending(e)

GetNonce(c) ==
  /\ calls[c].pc = "nonce"
  /\ \E n \in 0..MaxNonce :
       /\ IsNextNonce(Endpoint(c), n)
       /\ calls' = [calls EXCEPT ![c] = [pc |-> "gas", tries |-> 0, nonce |-> n]]
  /\ UNCHANGED <<pools, height, mined>>

\* The gas price is there, the transaction is signed.
Sign(c) ==
  /\ calls[c].pc = "gas"
  /\ calls' = Goes(c, "sending")
  /\ UNCHANGED <<pools, height, mined>>

Signed(c) == [by |-> c, nonce |-> calls[c].nonce]

\* What an endpoint does with a transaction that is new to it and whose nonce
\* is not used: it keeps it, in place of one of that nonce if the fee is higher.
Accepts(e, tx) == tx \notin pools[e] /\ tx.nonce >= height[e]
Rivals(e, tx) == {other \in pools[e] : other.nonce = tx.nonce}
Pooled(e, tx) == [pools EXCEPT ![e] = (@ \ Rivals(e, tx)) \cup {tx}]

\* A send that signs anew when it has lost an answer.
SendResigning(c) ==
  /\ calls[c].pc = "sending"
  /\ Accepts(Endpoint(c), Signed(c))
  /\ pools' = Pooled(Endpoint(c), Signed(c))
  /\ \/ calls' = Goes(c, "polling")
     \/ Unanswered(c)
     \/ calls' = Goes(c, "nonce")
  /\ UNCHANGED <<height, mined>>

\* The endpoint takes the transaction: the call goes on to wait, or the answer
\* is lost.
Send(c) ==
  /\ calls[c].pc = "sending"
  /\ Accepts(Endpoint(c), Signed(c))
  /\ pools' = Pooled(Endpoint(c), Signed(c))
  /\ \/ calls' = Goes(c, "polling")
     \/ Unanswered(c)
  /\ UNCHANGED <<height, mined>>

\* "Already known", "nonce too low", "replacement underpriced": not retried.
SendRefused(c) ==
  /\ calls[c].pc = "sending"
  /\ \/ ~Accepts(Endpoint(c), Signed(c))
     \/ Rivals(Endpoint(c), Signed(c)) # {}
  /\ calls' = Goes(c, "threw")
  /\ UNCHANGED <<pools, height, mined>>

Receipts(c, e) == {m \in mined : m.tx = Signed(c) /\ m.tx.nonce < height[e]}

\* A receipt that is taken for a success whatever it says.
ReceiptArrivesAny(c) ==
  /\ calls[c].pc = "polling"
  /\ Receipts(c, Endpoint(c)) # {}
  /\ calls' = Goes(c, "returned")
  /\ UNCHANGED <<pools, height, mined>>

\* The endpoint has a receipt: of success, or TransactionFailed is thrown.
ReceiptArrives(c) ==
  /\ calls[c].pc = "polling"
  /\ \E m \in Receipts(c, Endpoint(c)) :
       calls' = Goes(c, IF m.ok THEN "returned" ELSE "reverted")
  /\ UNCHANGED <<pools, height, mined>>

\* No receipt yet: the next poll starts over with the first endpoint.
NoReceipt(c) ==
  /\ calls[c].pc = "polling"
  /\ Receipts(c, Endpoint(c)) = {}
  /\ calls[c].tries > 0
  /\ calls' = Goes(c, "polling")
  /\ UNCHANGED <<pools, height, mined>>

\* A wait that only a receipt ends.
NeverConfirmed(c) ==
  /\ calls[c].pc = "polling"
  /\ Receipts(c, Endpoint(c)) # {}
  /\ calls' = Goes(c, "threw")
  /\ UNCHANGED <<pools, height, mined>>

\* The deadline has passed.
NotConfirmed(c) ==
  /\ calls[c].pc = "polling"
  /\ calls' = Goes(c, "threw")
  /\ UNCHANGED <<pools, height, mined>>

-----------------------------------------------------------------------------
(* The nodes *)

\* A pending transaction reaches another endpoint, which may prefer its own.
Gossip(e, f, tx) ==
  /\ Accepts(f, tx)
  /\ pools' = Pooled(f, tx)
  /\ UNCHANGED <<calls, height, mined>>

Evict(e, tx) ==
  /\ pools' = [pools EXCEPT ![e] = @ \ {tx}]
  /\ UNCHANGED <<calls, height, mined>>

\* The pending transaction whose turn it is gets mined; it may revert.
Mine(e, tx, ok) ==
  /\ tx.nonce = Cardinality(mined)
  /\ mined' = mined \cup {[tx |-> tx, ok |-> ok]}
  /\ UNCHANGED <<calls, pools, height>>

\* An endpoint hears of the next block, and drops what it settles.
CatchUp(e) ==
  /\ height[e] < Cardinality(mined)
  /\ height' = [height EXCEPT ![e] = @ + 1]
  /\ pools' = [pools EXCEPT ![e] = {tx \in @ : tx.nonce > height[e]}]
  /\ UNCHANGED <<calls, mined>>

-----------------------------------------------------------------------------
Step(c) ==
  \/ Lost(c) \/ GetNonce(c) \/ Sign(c) \/ Send(c) \/ SendRefused(c)
  \/ ReceiptArrives(c) \/ NoReceipt(c) \/ NotConfirmed(c)

Nodes ==
  \/ \E e, f \in Endpoints : \E tx \in pools[e] : Gossip(e, f, tx)
  \/ \E e \in Endpoints : \E tx \in pools[e] : Evict(e, tx)
  \/ \E e \in Endpoints : \E tx \in pools[e], ok \in BOOLEAN : Mine(e, tx, ok)
  \/ \E e \in Endpoints : CatchUp(e)

ChainNext ==
  \/ \E c \in Calls : Start(c) \/ Step(c)
  \/ Nodes

ChainSpec == ChainInit /\ [][ChainNext]_chainVars

\* A request is answered or fails, and the deadline of a wait comes.  Nodes
\* owe nothing.
ChainFairness ==
  \A c \in Calls :
    /\ WF_chainVars(Step(c))
    /\ WF_chainVars(NotConfirmed(c))

-----------------------------------------------------------------------------
(* Properties *)

\* However often a broadcast is retried, over whichever endpoints, and even if
\* each of them keeps it: a call gets at most one transaction mined, so a swap
\* is not made twice (sendTransaction 144-149 of chain.client.ts).
MinedOnce ==
  \A m1, m2 \in mined : m1.tx.by = m2.tx.by => m1 = m2

\* A call that returns has its own transaction mined, and it did not revert;
\* one that throws TransactionFailed has it mined and reverted (sendAndWait
\* 163-170 of transaction.service.ts).
EndIsTrue ==
  \A c \in Calls :
    /\ calls[c].pc = "returned" => [tx |-> Signed(c), ok |-> TRUE] \in mined
    /\ calls[c].pc = "reverted" => [tx |-> Signed(c), ok |-> FALSE] \in mined

\* Every call ends, also when no node ever mines, answers or agrees: the
\* executor's lock hangs on it (waitForReceipt 155-169 of chain.client.ts).
\* Each is made once, so all have ended when none is under way.
CallEnds == []<>(\A c \in Calls : calls[c].pc \notin Asking)
=============================================================================
