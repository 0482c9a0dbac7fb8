-------------------------- MODULE ChainClientProofs --------------------------
(***************************************************************************)
(* For any number of calls, endpoints, retries and nonces: a call is mined *)
(* at most once, and a call that returns or throws TransactionFailed tells *)
(* the truth.                                                              *)
(*                                                                         *)
(* The argument: whatever a node knows of a call is what the call signed   *)
(* (OwnTransactions), and the chain uses each nonce once (OneANonce).      *)
(***************************************************************************)
EXTENDS ChainClient, FiniteSetTheorems, TLAPS

\* The chain: nonces are used in order, each by one transaction.
OneANonce ==
  /\ IsFiniteSet(mined)
  /\ \A m \in mined : m.tx.nonce < Cardinality(mined)
  /\ \A m1, m2 \in mined : m1.tx.nonce = m2.tx.nonce => m1 = m2

IInv == ChainTypeOK /\ OneANonce /\ EndIsTrue

\* The two invariants together give the property.
LEMMA OneEach == ChainTypeOK /\ OneANonce => MinedOnce
  BY DEF ChainTypeOK, OwnTransactions, Known, OneANonce, MinedOnce

\* Nothing is known, nothing mined.
LEMMA Initially == ChainInit => IInv
<1> SUFFICES ASSUME ChainInit PROVE IInv
  OBVIOUS
<1>1. calls \in [Calls -> Call]
  BY DEF ChainInit, Fresh, Call
<1>2. pools \in [Endpoints -> SUBSET Tx] /\ height \in [Endpoints -> Nat]
  BY DEF ChainInit
<1>3. Known = {}
  BY DEF ChainInit, Known
<1>4. IsFiniteSet(mined)
  BY FS_EmptySet DEF ChainInit
<1>5. ChainTypeOK
  BY <1>1, <1>2, <1>3 DEF ChainTypeOK, OwnTransactions, ChainInit
<1>6. OneANonce /\ EndIsTrue
  BY <1>4 DEF OneANonce, EndIsTrue, ChainInit, Fresh
<1> QED
  BY <1>5, <1>6 DEF IInv

-----------------------------------------------------------------------------
(* What the steps have in common *)

\* One call moves, keeps the transaction it has sent, and ends as the chain
\* says.
Advances(c) ==
  /\ calls' \in [Calls -> Call]
  /\ \A d \in Calls \ {c} : calls'[d] = calls[d]
  /\ Sent(c) => calls'[c].nonce = calls[c].nonce
                /\ calls'[c].pc \in {"sending", "polling"} \cup Ended
  /\ calls'[c].pc = "returned" =>
       [tx |-> [by |-> c, nonce |-> calls'[c].nonce], ok |-> TRUE] \in mined
  /\ calls'[c].pc = "reverted" =>
       [tx |-> [by |-> c, nonce |-> calls'[c].nonce], ok |-> FALSE] \in mined

\* The pools hold what was known, and perhaps what call c has signed.
PoolsFrom(c) ==
  /\ pools' \in [Endpoints -> SUBSET Tx]
  /\ \A e \in Endpoints : \A tx \in pools'[e] :
       \/ tx \in Known
       \/ /\ tx.by = c /\ tx.nonce = calls'[c].nonce
          /\ calls'[c].pc \in {"sending", "polling"} \cup Ended

\* A call that moves, and nodes that pass on and drop what is pending,
\* preserve the invariant.
LEMMA MovesPreserve ==
  ASSUME IInv, NEW c \in Calls, Advances(c), PoolsFrom(c), mined' = mined,
         height' \in [Endpoints -> Nat]
  PROVE  IInv'
<1>1. OneANonce'
  BY DEF IInv, OneANonce
<1>2. ASSUME NEW tx \in Known'
      PROVE  Sent(tx.by)' /\ tx.nonce = calls'[tx.by].nonce
  <2>1. CASE tx \in Known
    <3>1. Sent(tx.by) /\ tx.nonce = calls[tx.by].nonce /\ tx.by \in Calls
      BY <2>1 DEF IInv, ChainTypeOK, OwnTransactions, Known, Tx, Mined
    <3>2. CASE tx.by = c
      BY <3>1, <3>2 DEF Advances, Sent
    <3>3. CASE tx.by # c
      BY <3>1, <3>3 DEF Advances, Sent
    <3> QED
      BY <3>2, <3>3
  <2>2. CASE tx \notin Known
    <3>1. PICK e \in Endpoints : tx \in pools'[e]
      BY <2>2 DEF Known
    <3> QED
      BY <2>2, <3>1 DEF PoolsFrom, Sent
  <2> QED
    BY <2>1, <2>2
<1>3. ChainTypeOK'
  BY <1>2 DEF IInv, ChainTypeOK, OwnTransactions, Advances, PoolsFrom
<1>4. EndIsTrue'
  BY DEF IInv, EndIsTrue, Advances, Signed
<1> QED
  BY <1>1, <1>3, <1>4 DEF IInv

\* A step of a call alone.
LEMMA CallMoves ==
  ASSUME IInv, NEW c \in Calls, Advances(c), UNCHANGED <<pools, height, mined>>
  PROVE  IInv'
<1>1. PoolsFrom(c)
  BY DEF PoolsFrom, IInv, ChainTypeOK, Known
<1> QED
  BY <1>1, MovesPreserve DEF IInv, ChainTypeOK

\* A step of the nodes that mines nothing.
LEMMA PoolsMove ==
  ASSUME IInv, UNCHANGED <<calls, mined>>, pools' \in [Endpoints -> SUBSET Tx],
         \A e \in Endpoints : pools'[e] \subseteq Known,
         height' \in [Endpoints -> Nat]
  PROVE  IInv'
<1>1. OneANonce' /\ EndIsTrue'
  BY DEF IInv, OneANonce, EndIsTrue, Signed
<1>2. Known' \subseteq Known
  BY DEF Known
<1>3. OwnTransactions'
  BY <1>2 DEF IInv, ChainTypeOK, OwnTransactions, Sent
<1> QED
  BY <1>1, <1>3 DEF IInv, ChainTypeOK

-----------------------------------------------------------------------------
(* The steps *)

\* Where withRetry takes a call.
LEMMA GoesOn ==
  ASSUME calls \in [Calls -> Call], NEW c \in Calls,
         NEW pc \in {"idle"} \cup Asking \cup Ended
  PROVE  /\ Goes(c, pc) \in [Calls -> Call]
         /\ \A d \in Calls \ {c} : Goes(c, pc)[d] = calls[d]
         /\ Goes(c, pc)[c].pc = pc
         /\ Goes(c, pc)[c].nonce = calls[c].nonce
  BY DEF Goes, Call

\* After a lost answer a call asks again or throws, with what it had.
LEMMA AfterLoss ==
  ASSUME calls \in [Calls -> Call], NEW c \in Calls, Unanswered(c)
  PROVE  /\ calls' \in [Calls -> Call]
         /\ \A d \in Calls \ {c} : calls'[d] = calls[d]
         /\ calls'[c].pc \in {calls[c].pc, "threw"}
         /\ calls'[c].nonce = calls[c].nonce
<1>1. CASE calls' = Goes(c, "threw")
  BY <1>1, GoesOn DEF Ended
<1>2. CASE calls' = [calls EXCEPT ![c] = [@ EXCEPT !.tries = calls[c].tries + 1]]
  <2>1. calls[c] \in Call /\ calls[c].tries + 1 \in Nat
    BY DEF Call
  <2> QED
    BY <1>2, <2>1 DEF Call
<1> QED
  BY <1>1, <1>2 DEF Unanswered, AskAgain

\* A lost request.
LEMMA LostPreserves == ASSUME IInv, NEW c \in Calls, Lost(c) PROVE IInv'
<1>1. calls \in [Calls -> Call] /\ calls[c].pc \in Asking
  BY DEF IInv, ChainTypeOK, Lost
<1>2. calls' \in [Calls -> Call]
      /\ (\A d \in Calls \ {c} : calls'[d] = calls[d])
      /\ calls'[c].pc \in {calls[c].pc, "threw"}
      /\ calls'[c].nonce = calls[c].nonce
  BY <1>1, AfterLoss DEF Lost
<1>3. Advances(c)
  BY <1>1, <1>2 DEF Advances, Sent, Asking, Ended
<1> QED
  BY <1>3, CallMoves DEF Lost

\* A step that goes on with the same transaction, to a place that is no end
\* the chain must confirm.
LEMMA GoingOn ==
  ASSUME IInv, NEW c \in Calls, UNCHANGED <<pools, height, mined>>,
         NEW pc \in Asking \cup {"threw"}, calls' = Goes(c, pc),
         Sent(c) => pc \notin {"nonce", "gas"}
  PROVE  IInv'
<1>1. calls \in [Calls -> Call]
  BY DEF IInv, ChainTypeOK
<1>2. calls' \in [Calls -> Call]
      /\ (\A d \in Calls \ {c} : calls'[d] = calls[d])
      /\ calls'[c].pc = pc /\ calls'[c].nonce = calls[c].nonce
  BY <1>1, GoesOn DEF Asking, Ended
<1>3. Advances(c)
  BY <1>2 DEF Advances, Sent, Asking, Ended
<1> QED
  BY <1>3, CallMoves

\* The nonce is fetched before anything is sent.
LEMMA GetNoncePreserves == ASSUME IInv, NEW c \in Calls, GetNonce(c) PROVE IInv'
<1>1. calls \in [Calls -> Call] /\ calls[c].pc = "nonce"
  BY DEF IInv, ChainTypeOK, GetNonce
<1>2. PICK n \in 0..MaxNonce :
        calls' = [calls EXCEPT ![c] = [pc |-> "gas", tries |-> 0, nonce |-> n]]
  BY DEF GetNonce
<1>3. [pc |-> "gas", tries |-> 0, nonce |-> n] \in Call
  BY ChainAssumption DEF Call, Asking
<1>4. Advances(c)
  BY <1>1, <1>2, <1>3 DEF Advances, Sent, Ended
<1> QED
  BY <1>4, CallMoves DEF GetNonce

\* The endpoint has the transaction now, whatever the call hears.
LEMMA SendPreserves == ASSUME IInv, NEW c \in Calls, Send(c) PROVE IInv'
<1>1. calls \in [Calls -> Call] /\ calls[c].pc = "sending"
      /\ pools \in [Endpoints -> SUBSET Tx]
  BY DEF IInv, ChainTypeOK, Send
<1>2. calls' \in [Calls -> Call]
      /\ (\A d \in Calls \ {c} : calls'[d] = calls[d])
      /\ calls'[c].pc \in {"sending", "polling", "threw"}
      /\ calls'[c].nonce = calls[c].nonce
  <2>1. CASE calls' = Goes(c, "polling")
    BY <1>1, <2>1, GoesOn DEF Asking
  <2>2. CASE Unanswered(c)
    BY <1>1, <2>2, AfterLoss
  <2> QED
    BY <2>1, <2>2 DEF Send
<1>3. Advances(c)
  BY <1>2 DEF Advances, Ended
<1>4. Signed(c) \in Tx
  BY <1>1 DEF Signed, Tx, Call
<1>5. pools' \in [Endpoints -> SUBSET Tx]
  BY <1>1, <1>4 DEF Send, Pooled
<1>6. \A e \in Endpoints : \A tx \in pools'[e] : tx \in Known \/ tx = Signed(c)
  BY <1>1 DEF Send, Pooled, Known
<1>7. PoolsFrom(c)
  BY <1>2, <1>5, <1>6 DEF PoolsFrom, Signed, Ended
<1> QED
  BY <1>3, <1>7, MovesPreserve DEF Send, IInv, ChainTypeOK

\* A receipt tells of the call's own transaction.
LEMMA ReceiptPreserves ==
  ASSUME IInv, NEW c \in Calls, ReceiptArrives(c) PROVE IInv'
<1>1. calls \in [Calls -> Call] /\ mined \subseteq Mined
  BY DEF IInv, ChainTypeOK
<1>2. PICK m \in mined :
        m.tx = Signed(c) /\ calls' = Goes(c, IF m.ok THEN "returned" ELSE "reverted")
  BY DEF ReceiptArrives, Receipts
<1>3. m = [tx |-> Signed(c), ok |-> m.ok] /\ m.ok \in BOOLEAN
  BY <1>1, <1>2 DEF Mined
<1>4. CASE m.ok = TRUE
  <2>1. calls' \in [Calls -> Call]
        /\ (\A d \in Calls \ {c} : calls'[d] = calls[d])
        /\ calls'[c].pc = "returned" /\ calls'[c].nonce = calls[c].nonce
    BY <1>1, <1>2, <1>4, GoesOn DEF Ended
  <2>2. Advances(c)
    BY <1>2, <1>3, <1>4, <2>1 DEF Advances, Ended, Signed
  <2> QED
    BY <2>2, CallMoves DEF ReceiptArrives
<1>5. CASE m.ok = FALSE
  <2>1. calls' \in [Calls -> Call]
        /\ (\A d \in Calls \ {c} : calls'[d] = calls[d])
        /\ calls'[c].pc = "reverted" /\ calls'[c].nonce = calls[c].nonce
    BY <1>1, <1>2, <1>5, GoesOn DEF Ended
  <2>2. Advances(c)
    BY <1>2, <1>3, <1>5, <2>1 DEF Advances, Ended, Signed
  <2> QED
    BY <2>2, CallMoves DEF ReceiptArrives
<1> QED
  BY <1>3, <1>4, <1>5

\* Another endpoint gets what one has.
LEMMA GossipPreserves ==
  ASSUME IInv, NEW e \in Endpoints, NEW f \in Endpoints, NEW tx \in pools[e],
         Gossip(e, f, tx)
  PROVE  IInv'
<1>1. pools \in [Endpoints -> SUBSET Tx] /\ height \in [Endpoints -> Nat]
  BY DEF IInv, ChainTypeOK
<1>2. pools' \in [Endpoints -> SUBSET Tx]
  BY <1>1 DEF Gossip, Pooled
<1>3. \A g \in Endpoints : pools'[g] \subseteq Known
  BY <1>1 DEF Gossip, Pooled, Known
<1> QED
  BY <1>1, <1>2, <1>3, PoolsMove DEF Gossip

\* An endpoint forgets.
LEMMA EvictPreserves ==
  ASSUME IInv, NEW e \in Endpoints, NEW tx \in pools[e], Evict(e, tx)
  PROVE  IInv'
<1>1. pools \in [Endpoints -> SUBSET Tx] /\ height \in [Endpoints -> Nat]
  BY DEF IInv, ChainTypeOK
<1>2. pools' \in [Endpoints -> SUBSET Tx]
      /\ \A g \in Endpoints : pools'[g] \subseteq Known
  BY <1>1 DEF Evict, Known
<1> QED
  BY <1>1, <1>2, PoolsMove DEF Evict

\* An endpoint hears of a block.
LEMMA CatchUpPreserves ==
  ASSUME IInv, NEW e \in Endpoints, CatchUp(e) PROVE IInv'
<1>1. pools \in [Endpoints -> SUBSET Tx] /\ height \in [Endpoints -> Nat]
  BY DEF IInv, ChainTypeOK
<1>2. pools' \in [Endpoints -> SUBSET Tx]
      /\ \A g \in Endpoints : pools'[g] \subseteq Known
  BY <1>1 DEF CatchUp, Known
<1>3. height' \in [Endpoints -> Nat]
  BY <1>1 DEF CatchUp
<1> QED
  BY <1>2, <1>3, PoolsMove DEF CatchUp

\* What is mined was pending and has the next nonce.
LEMMA MinePreserves ==
  ASSUME IInv, NEW e \in Endpoints, NEW tx \in pools[e], NEW ok \in BOOLEAN,
         Mine(e, tx, ok)
  PROVE  IInv'
<1> DEFINE m == [tx |-> tx, ok |-> ok]
<1>1. tx \in Tx /\ tx \in Known /\ m \in Mined
  BY DEF IInv, ChainTypeOK, Known, Mined
<1>2. mined' = mined \cup {m} /\ UNCHANGED <<calls, pools, height>>
      /\ tx.nonce = Cardinality(mined)
  BY DEF Mine
<1>3. IsFiniteSet(mined) /\ Cardinality(mined) \in Nat
  BY FS_CardinalityType DEF IInv, OneANonce
<1>4. m \notin mined
  BY <1>2, <1>3 DEF IInv, OneANonce
<1>5. IsFiniteSet(mined') /\ Cardinality(mined') = Cardinality(mined) + 1
  BY <1>2, <1>3, <1>4, FS_AddElement
<1>6. \A n \in mined : n.tx.nonce \in Nat /\ n.tx.nonce < Cardinality(mined)
  BY DEF IInv, ChainTypeOK, OneANonce, Mined, Tx
<1>7. OneANonce'
  <2>1. \A n \in mined' : n.tx.nonce < Cardinality(mined')
    BY <1>2, <1>3, <1>5, <1>6
  <2>2. \A m1, m2 \in mined' : m1.tx.nonce = m2.tx.nonce => m1 = m2
    BY <1>2, <1>3, <1>6 DEF IInv, OneANonce
  <2> QED
    BY <1>5, <2>1, <2>2 DEF OneANonce
<1>8. ChainTypeOK'
  <2>1. Known' \subseteq Known
    BY <1>1, <1>2 DEF Known
  <2>2. OwnTransactions'
    BY <1>2, <2>1 DEF IInv, ChainTypeOK, OwnTransactions, Sent
  <2> QED
    BY <1>1, <1>2, <2>2 DEF IInv, ChainTypeOK
<1>9. EndIsTrue'
  BY <1>2 DEF IInv, EndIsTrue, Signed
<1> QED
  BY <1>7, <1>8, <1>9 DEF IInv

-----------------------------------------------------------------------------
(* The invariant *)

\* A step of a call.
LEMMA StepPreserves ==
  ASSUME IInv, NEW c \in Calls, Start(c) \/ Step(c) PROVE IInv'
<1>1. CASE Start(c)
  BY <1>1, GoingOn DEF Start, Asking, Sent, Ended
<1>2. CASE Lost(c)
  BY <1>2, LostPreserves
<1>3. CASE GetNonce(c)
  BY <1>3, GetNoncePreserves
<1>4. CASE Sign(c)
  BY <1>4, GoingOn DEF Sign, Asking
<1>5. CASE Send(c)
  BY <1>5, SendPreserves
<1>6. CASE SendRefused(c)
  BY <1>6, GoingOn DEF SendRefused
<1>7. CASE ReceiptArrives(c)
  BY <1>7, ReceiptPreserves
<1>8. CASE NoReceipt(c)
  BY <1>8, GoingOn DEF NoReceipt, Asking
<1>9. CASE NotConfirmed(c)
  BY <1>9, GoingOn DEF NotConfirmed
<1> QED
  BY <1>1, <1>2, <1>3, <1>4, <1>5, <1>6, <1>7, <1>8, <1>9 DEF Step

\* Every step preserves the invariant.
LEMMA NextPreserves == IInv /\ [ChainNext]_chainVars => IInv'
<1> SUFFICES ASSUME IInv, [ChainNext]_chainVars PROVE IInv'
  OBVIOUS
<1>1. CASE \E c \in Calls : Start(c) \/ Step(c)
  BY <1>1, StepPreserves
<1>2. CASE Nodes
  BY <1>2, GossipPreserves, EvictPreserves, MinePreserves, CatchUpPreserves
     DEF Nodes
<1>3. CASE UNCHANGED chainVars
  <2>1. Known' = Known
    BY <1>3 DEF chainVars, Known
  <2>2. ChainTypeOK'
    BY <1>3, <2>1 DEF chainVars, IInv, ChainTypeOK, OwnTransactions, Sent
  <2>3. OneANonce' /\ EndIsTrue'
    BY <1>3 DEF chainVars, IInv, OneANonce, EndIsTrue, Signed
  <2> QED
    BY <2>2, <2>3 DEF IInv
<1> QED
  BY <1>1, <1>2, <1>3 DEF ChainNext

\* The invariant holds throughout.
THEOREM Inductive == ChainSpec => []IInv
  BY Initially, NextPreserves, PTL DEF ChainSpec

\* Types, and every transaction anywhere is the one its call has signed
\* (withRetry repeats what was sent, it does not sign anew).
THEOREM ChainTypeCorrect == ChainSpec => []ChainTypeOK
<1>1. IInv => ChainTypeOK
  BY DEF IInv
<1> QED
  BY <1>1, Inductive, PTL

\* However often a broadcast is retried and wherever it is kept, a call of
\* sendAndWait is mined at most once.
THEOREM SendIsMinedOnce == ChainSpec => []MinedOnce
<1>1. IInv => MinedOnce
  BY OneEach DEF IInv
<1> QED
  BY <1>1, Inductive, PTL

\* sendAndWait returns only for its own transaction, mined and not reverted,
\* and throws TransactionFailed only for its own, mined and reverted.
THEOREM SendTellsTheTruth == ChainSpec => []EndIsTrue
<1>1. IInv => EndIsTrue
  BY DEF IInv
<1> QED
  BY <1>1, Inductive, PTL
=============================================================================
