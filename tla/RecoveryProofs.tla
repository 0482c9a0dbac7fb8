--------------------------- MODULE RecoveryProofs ---------------------------
(***************************************************************************)
(* Lemmas about the fragments of Recovery, for the proofs of the modules   *)
(* built from them: sets of failures, and the types the fragments keep.    *)
(***************************************************************************)
EXTENDS Recovery, FiniteSetTheorems, TLAPS

-----------------------------------------------------------------------------
(* Finite sets of failures *)

\* pruneWindow returns a subset of what it is given.
LEMMA PrunedSubset ==
  ASSUME NEW fs
  PROVE  Pruned(fs) \subseteq fs
BY DEF Pruned

\* Fewer failures after pruning than before.
LEMMA PrunedCardinality ==
  ASSUME NEW fs, IsFiniteSet(fs)
  PROVE  /\ IsFiniteSet(Pruned(fs))
         /\ Cardinality(Pruned(fs)) \in Nat
         /\ Cardinality(fs) \in Nat
         /\ Cardinality(Pruned(fs)) <= Cardinality(fs)
BY PrunedSubset, FS_Subset, FS_CardinalityType

\* A set of failures is no larger than a finite one that includes it.
LEMMA SmallerSet ==
  ASSUME NEW fs, NEW gs, IsFiniteSet(gs), fs \subseteq gs
  PROVE  /\ IsFiniteSet(fs)
         /\ Cardinality(fs) \in Nat
         /\ Cardinality(gs) \in Nat
         /\ Cardinality(fs) <= Cardinality(gs)
BY FS_Subset, FS_CardinalityType

\* One more failure adds at most one to the count.
LEMMA OneMore ==
  ASSUME NEW fs, NEW f, IsFiniteSet(fs)
  PROVE  /\ IsFiniteSet(fs \cup {f})
         /\ Cardinality(fs) \in Nat
         /\ Cardinality(fs \cup {f}) \in Nat
         /\ Cardinality(fs \cup {f}) <= Cardinality(fs) + 1
<1>1. /\ IsFiniteSet(fs \cup {f})
      /\ Cardinality(fs \cup {f}) = IF f \in fs THEN Cardinality(fs) ELSE Cardinality(fs) + 1
  BY FS_AddElement
<1>2. Cardinality(fs) \in Nat
  BY FS_CardinalityType
<1> QED
  BY <1>1, <1>2

-----------------------------------------------------------------------------
(* What the fragments keep of RecoveryTypeOK *)

\* cleanup leaves a map from ids to times.
LEMMA RememberedType ==
  ASSUME executed \in [Signals -> Nat \cup {None}]
  PROVE  Remembered \in [Signals -> Nat \cup {None}]
BY DEF Remembered

\* isOpen answering false leaves a finite set of failures and no trip.
LEMMA IsOpenType ==
  ASSUME RecoveryTypeOK, IsOpenAnswersFalse
  PROVE  /\ trippedAt' \in Nat \cup {None}
         /\ failures' \in SUBSET Failure
         /\ IsFiniteSet(failures')
BY FS_EmptySet DEF RecoveryTypeOK, IsOpenAnswersFalse

\* recordFailure adds one failure to a finite set and may trip.
LEMMA RecordFailureType ==
  ASSUME RecoveryTypeOK, NEW e \in Nat, RecordFailure(e)
  PROVE  /\ trippedAt' \in Nat \cup {None}
         /\ failures' \in SUBSET Failure
         /\ IsFiniteSet(failures')
<1> DEFINE new == [exec |-> e, at |-> now]
<1>1. new \in Failure
  BY DEF Failure, RecoveryTypeOK
<1>2. IsFiniteSet(failures \cup {new})
  BY OneMore DEF RecoveryTypeOK
<1>3. IsFiniteSet(Pruned(failures \cup {new}))
  BY <1>2, PrunedCardinality
<1>4. /\ failures' = Pruned(failures \cup {new})
      /\ trippedAt' \in Nat \cup {None}
  BY DEF RecordFailure, RecoveryTypeOK
<1> QED
  BY <1>1, <1>3, <1>4, PrunedSubset DEF RecoveryTypeOK
=============================================================================
