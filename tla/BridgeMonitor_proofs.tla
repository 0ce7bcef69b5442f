-------------------------- MODULE BridgeMonitor_proofs --------------------------
(***************************************************************************)
(* Proofs about BridgeMonitor, for every number of deposits, every choice  *)
(* of failed ones, every batch size and every index.                       *)
(***************************************************************************)
EXTENDS BridgeMonitor, FiniteSetTheorems, WellFoundedInduction, TLAPS

USE SizesAssumption, FailedAssumption

\* The deposits of an interval that take a request are finitely many.
LEMMA TakersFinite ==
    ASSUME NEW a \in Int, NEW b \in Int
    PROVE  /\ IsFiniteSet({c \in a .. b : c \notin Failed})
           /\ Cardinality({c \in a .. b : c \notin Failed}) \in Nat
  <1>1. IsFiniteSet(a .. b)
    BY FS_Interval
  <1>2. {c \in a .. b : c \notin Failed} \subseteq a .. b
    OBVIOUS
  <1>3. IsFiniteSet({c \in a .. b : c \notin Failed})
    BY <1>1, <1>2, FS_Subset
  <1> QED
    BY <1>3, FS_CardinalityType

\* The pairing loop only ever reaches natural sequence numbers.
LEMMA SeqAtType ==
    ASSUME NEW cur \in PairCursors, NEW d \in Cursors
    PROVE  SeqAt(cur, d) \in Nat
  <1>1. cur.deposit \in Int /\ d - 1 \in Int /\ cur.seq \in Nat
    BY DEF PairCursors, Cursors
  <1>2. Cardinality({c \in cur.deposit .. (d - 1) : c \notin Failed}) \in Nat
    BY <1>1, TakersFinite
  <1> QED
    BY <1>1, <1>2 DEF SeqAt

\* The values the variables are reset to have the right types.
LEMMA ResetTypes ==
    /\ NoPlan \in Plans
    /\ EmptyStore \in Stores
    /\ NoAnswers \in [Deposits -> WithdrawalAnswers]
    /\ 0 \in Cursors
  <1>1. 0 \in Cursors
    BY DEF Cursors
  <1>2. NoPairs \in Pairings
    BY DEF NoPairs, Pairings
  <1>3. ZeroCursor \in PairCursors
    BY <1>1 DEF ZeroCursor, PairCursors
  <1> QED
    BY <1>1, <1>2, <1>3
    DEF NoPlan, Plans, EmptyStore, Stores, NoAnswers, WithdrawalAnswers

\* What a phase leaves behind when it ends has its type.
LEMMA EndPhaseType ==
    EndPhase => /\ answers' \in [Deposits -> WithdrawalAnswers]
                /\ next' \in Cursors
                /\ todo' \in SUBSET Deposits
                /\ purged' \in SUBSET Deposits
  BY ResetTypes DEF EndPhase

\* What a start makes of a store is a cache.
LEMMA HydrateType == ASSUME NEW s \in Stores PROVE Hydrate(s) \in Caches
  BY DEF Hydrate, Caches, Stores, NoAnswers, WithdrawalAnswers

\* Every variable has its type initially, and every step keeps it.
LEMMA TypeInit == Init => TypeOK
  BY ResetTypes, HydrateType DEF Init, TypeOK, Phases

\* Every step keeps the types.
LEMMA TypeStep == TypeOK /\ [Next]_vars => TypeOK'
  <1> SUFFICES ASSUME TypeOK, [Next]_vars
               PROVE  TypeOK'
    OBVIOUS
  <1> USE DEF TypeOK
  <1>1. ASSUME NEW discovered, NEW known, NEW count,
               PlanPairings(discovered, known, count)
        PROVE  TypeOK'
    <2>1. \A d \in Cursors : SeqAt(cache.pairCur, d) \in Nat
      BY SeqAtType DEF Caches
    <2>2. PICK stop \in Cursors :
            LET cur    == cache.pairCur
                paired == (cur.deposit .. (stop - 1)) \ Failed
            IN  IF stop = cur.deposit
                THEN pc' = "withdrawals" /\ UNCHANGED <<plan, todo>>
                ELSE /\ plan' = [pairs  |-> [d \in Deposits |->
                                     IF d \in paired THEN SeqAt(cur, d) ELSE NoSeq],
                                 cursor |-> [deposit |-> stop, seq |-> SeqAt(cur, stop)]]
                     /\ todo' = paired
                     /\ pc' = "pairing"
      BY <1>1 DEF PlanPairings
    <2>3. plan' \in Plans /\ todo' \in SUBSET Deposits /\ pc' \in Phases
      <3>1. CASE stop = cache.pairCur.deposit
        BY <2>2, <3>1 DEF Phases
      <3>2. CASE stop # cache.pairCur.deposit
        <4>1. (cache.pairCur.deposit .. (stop - 1)) \subseteq Deposits
          BY DEF Caches, PairCursors, Cursors, Deposits
        <4>2. Deposits \subseteq Cursors
          BY DEF Deposits, Cursors
        <4> QED
          BY <2>1, <2>2, <3>2, <4>1, <4>2 DEF Plans, Pairings, PairCursors, Phases
      <3> QED
        BY <3>1, <3>2
    <2> QED
      BY <1>1, <2>3 DEF PlanPairings
  <1>2. CASE PutWithdrawalPairing
    BY <1>2 DEF PutWithdrawalPairing, IsFirst, Stores, Plans, Pairings
  <1>3. CASE PutWithdrawalPairingCursor
    BY <1>3 DEF PutWithdrawalPairingCursor, Stores, Plans, Phases
  <1>4. CASE CachePairings
    <2>1. cache.pairs \in Pairings /\ plan.pairs \in Pairings /\ plan.cursor \in PairCursors
      BY DEF Caches, Plans
    <2>2. [d \in Deposits |-> IF plan.pairs[d] # NoSeq THEN plan.pairs[d] ELSE cache.pairs[d]]
            \in Pairings
      BY <2>1 DEF Pairings
    <2>3. cache' \in Caches
      BY <1>4, <2>1, <2>2 DEF CachePairings, Caches
    <2> QED
      BY <1>4, <2>3, ResetTypes DEF CachePairings, Phases
  <1>5. CASE FailPairingWrite
    BY <1>5, ResetTypes DEF FailPairingWrite, Phases
  <1>6. ASSUME NEW found \in [Deposits -> WithdrawalAnswers], NEW count \in Cursors,
               CollectWithdrawals(found, count)
        PROVE  TypeOK'
    BY <1>6 DEF CollectWithdrawals, Phases, WithdrawalAnswers, ReimbursementAnswers
  <1>7. CASE PutWithdrawalInfo
    BY <1>7 DEF PutWithdrawalInfo, IsFirst, Stores
  <1>8. CASE PutWithdrawalStatusCursor
    BY <1>8 DEF PutWithdrawalStatusCursor, OldPairings, Stores, Cursors, Deposits, Phases
  <1>9. CASE FailWithdrawalWrite
    BY <1>9, EndPhaseType DEF FailWithdrawalWrite, Phases
  <1>10. CASE DelWithdrawalPairing
    BY <1>10 DEF DelWithdrawalPairing, IsFirst, Stores, Pairings
  <1>11. CASE FailPairingPurge
    BY <1>11 DEF FailPairingPurge
  <1>12. CASE CacheWithdrawals
    <2>1. answers \in [Deposits -> WithdrawalAnswers]
      BY <1>12 DEF CacheWithdrawals
    <2>2. [d \in Deposits |-> IF answers[d] # "none" THEN answers[d] ELSE cache.withdrawals[d]]
            \in [Deposits -> WithdrawalAnswers]
      BY <2>1 DEF Caches
    <2>3. [d \in Deposits |-> IF d \in purged THEN NoSeq ELSE cache.pairs[d]] \in Pairings
      BY DEF Caches, Pairings
    <2>4. cache' \in Caches
      BY <1>12, <2>2, <2>3 DEF CacheWithdrawals, Caches
    <2> QED
      BY <1>12, <2>4, EndPhaseType DEF CacheWithdrawals, Phases
  <1>13. ASSUME NEW found \in [Deposits -> ReimbursementAnswers],
                CollectReimbursements(found)
         PROVE  TypeOK'
    BY <1>13 DEF CollectReimbursements, Phases, WithdrawalAnswers, ReimbursementAnswers,
                 Cursors, Deposits
  <1>14. CASE PutReimbursementStatusCursor
    BY <1>14 DEF PutReimbursementStatusCursor, Stores, Phases
  <1>15. CASE FailReimbursementCursor
    BY <1>15, EndPhaseType DEF FailReimbursementCursor, Phases
  <1>16. ASSUME NEW d \in Deposits, DelWithdrawalInfo(d)
         PROVE  TypeOK'
    BY <1>16 DEF DelWithdrawalInfo, Stores
  <1>17. ASSUME NEW d \in Deposits, FailWithdrawalDelete(d)
         PROVE  TypeOK'
    BY <1>17 DEF FailWithdrawalDelete
  <1>18. CASE CacheReimbursements
    <2>1. answers \in [Deposits -> ReimbursementAnswers]
      BY <1>18 DEF CacheReimbursements
    <2>2. [d \in Deposits |-> ReimbursementRow(answers[d], cache.reimbursements[d])]
            \in [Deposits -> {"none", "Pending"}]
      BY <2>1 DEF Caches, ReimbursementRow, ReimbursementAnswers
    <2>3. [d \in Deposits |-> IF d \in purged THEN "none" ELSE cache.withdrawals[d]]
            \in [Deposits -> WithdrawalAnswers]
      BY DEF Caches, WithdrawalAnswers
    <2>4. cache' \in Caches
      BY <1>18, <2>2, <2>3 DEF CacheReimbursements, Caches
    <2> QED
      BY <1>18, <2>4, EndPhaseType DEF CacheReimbursements, Phases
  <1>19. CASE Flush
    BY <1>19 DEF Flush
  <1>20. CASE Crash
    BY <1>20, HydrateType, ResetTypes, EndPhaseType DEF Crash, Phases
  <1>21. CASE UNCHANGED vars
    BY <1>21 DEF vars
  <1> QED
    BY <1>1, <1>2, <1>3, <1>4, <1>5, <1>6, <1>7, <1>8, <1>9, <1>10, <1>11, <1>12, <1>13,
       <1>14, <1>15, <1>16, <1>17, <1>18, <1>19, <1>20, <1>21 DEF Next, TaskStep

\* Every variable stays in its type.
THEOREM TypeCorrect == Spec => []TypeOK
  BY TypeInit, TypeStep, PTL DEF Spec

--------------------------------------------------------------------------------
(* The sequence numbers of the pairing loop *)

\* The takers below b are those below a and those from a on.
LEMMA RankSplits ==
    ASSUME NEW a \in Nat, NEW b \in Nat, a <= b
    PROVE  Rank(b) = Rank(a) + Cardinality({c \in a .. (b - 1) : c \notin Failed})
  <1> DEFINE below == {c \in 0 .. (a - 1) : c \notin Failed}
             above == {c \in a .. (b - 1) : c \notin Failed}
             all   == {c \in 0 .. (b - 1) : c \notin Failed}
  <1>1. IsFiniteSet(below) /\ IsFiniteSet(above)
    BY TakersFinite
  <1>2. all = below \cup above /\ below \cap above = {}
    OBVIOUS
  <1>3. Cardinality(below) \in Nat /\ Cardinality(above) \in Nat
    BY <1>1, FS_CardinalityType
  <1>4. Cardinality(all) = Cardinality(below) + Cardinality(above)
    <2> HIDE DEF below, above, all
    <2>1. Cardinality(below \cup above)
            = Cardinality(below) + Cardinality(above) - Cardinality(below \cap above)
      BY <1>1, FS_Union
    <2>2. Cardinality(below \cap above) = 0
      BY <1>2, FS_EmptySet
    <2> QED
      BY <1>2, <1>3, <2>1, <2>2
  <1> QED
    BY <1>4 DEF Rank

\* No deposit is below 0.
LEMMA RankOfZero == Rank(0) = 0
  <1>1. {c \in 0 .. (0 - 1) : c \notin Failed} = {}
    OBVIOUS
  <1> QED
    BY <1>1, FS_EmptySet DEF Rank

\* A loop entered at a cursor that is FIFO gives every deposit its rank.
LEMMA SeqAtIsRank ==
    ASSUME NEW cur \in PairCursors, cur.seq = Rank(cur.deposit),
           NEW d \in Cursors, cur.deposit <= d
    PROVE  SeqAt(cur, d) = Rank(d)
  BY RankSplits DEF SeqAt, PairCursors, Cursors
--------------------------------------------------------------------------------
(* The inductive invariant: pairings *)

\* A cursor that passes only indices below a frontier stops at it at the latest.
LEMMA StopsAtFrontier ==
    ASSUME NEW a \in Cursors, NEW stop \in Cursors, NEW frontier \in Cursors,
           a <= frontier, \A d \in a .. (stop - 1) : d < frontier
    PROVE  stop <= frontier
  <1>1. CASE stop <= a
    BY <1>1 DEF Cursors
  <1>2. CASE a < stop
    <2>1. stop - 1 \in a .. (stop - 1)
      BY <1>2 DEF Cursors
    <2> QED
      BY <2>1 DEF Cursors
  <1> QED
    BY <1>1, <1>2 DEF Cursors

\* What the types of the stores say, without the record sets.
LEMMA TypeFacts ==
    ASSUME TypeOK
    PROVE  /\ cache.pairCur.deposit \in Cursors /\ cache.pairCur.seq \in Nat
           /\ cache.wCur \in Cursors /\ cache.rCur \in Cursors
           /\ disk.pairCur.deposit \in Cursors /\ disk.wCur \in Cursors /\ disk.rCur \in Cursors
           /\ flushed.pairCur.deposit \in Cursors
           /\ flushed.wCur \in Cursors /\ flushed.rCur \in Cursors
           /\ plan.cursor.deposit \in Cursors /\ next \in Cursors
           /\ cache.pairCur \in PairCursors
  <1>1. cache.pairCur \in PairCursors /\ cache.wCur \in Cursors /\ cache.rCur \in Cursors
    BY DEF TypeOK, Caches
  <1>2. disk.pairCur \in PairCursors /\ disk.wCur \in Cursors /\ disk.rCur \in Cursors
    BY DEF TypeOK, Stores
  <1>3. /\ flushed.pairCur \in PairCursors
        /\ flushed.wCur \in Cursors /\ flushed.rCur \in Cursors
    BY DEF TypeOK, Stores
  <1>4. plan.cursor \in PairCursors /\ next \in Cursors
    BY DEF TypeOK, Plans
  <1> QED
    BY <1>1, <1>2, <1>3, <1>4 DEF PairCursors

\* A rank is a number, so it is not NoSeq.
LEMMA RankType == ASSUME NEW d \in Cursors PROVE Rank(d) \in Nat
  <1>1. 0 \in Int /\ d - 1 \in Int
    BY DEF Cursors
  <1>2. Cardinality({c \in 0 .. (d - 1) : c \notin Failed}) \in Nat
    BY <1>1, TakersFinite
  <1> QED
    BY <1>2 DEF Rank

\* The plan made from a FIFO cache is sound.
LEMMA PlanPairingsSound ==
    ASSUME IInv, NEW discovered, NEW known, NEW count,
           PlanPairings(discovered, known, count)
    PROVE  PlanSound'
  <1> DEFINE cur == cache.pairCur
             seqs == FetchedSeqs(cur.seq, count)
  <1>1. PICK stop \in Cursors :
          /\ StopsAt(cur.deposit, stop,
                     LAMBDA d : d \in known /\ (d \in Failed \/ SeqAt(cur, d) \in seqs))
          /\ LET paired == (cur.deposit .. (stop - 1)) \ Failed
             IN  IF stop = cur.deposit
                 THEN pc' = "withdrawals" /\ UNCHANGED <<plan, todo>>
                 ELSE /\ plan' = [pairs  |-> [d \in Deposits |->
                                      IF d \in paired THEN SeqAt(cur, d) ELSE NoSeq],
                                  cursor |-> [deposit |-> stop, seq |-> SeqAt(cur, stop)]]
                      /\ todo' = paired
                      /\ pc' = "pairing"
    BY DEF PlanPairings
  <1>2. UNCHANGED <<cache, disk>>
    BY DEF PlanPairings
  <1>3. cur \in PairCursors /\ cur.seq = Rank(cur.deposit) /\ cur.deposit \in Cursors
    BY TypeFacts DEF IInv, PairingIsFIFO, FifoIn
  <1>4. CASE stop = cur.deposit
    BY <1>1, <1>2, <1>4 DEF IInv, PlanSound
  <1>5. CASE stop # cur.deposit
    <2>1. cur.deposit <= stop
      BY <1>1 DEF StopsAt
    <2>2. \A d \in cur.deposit .. stop : d \in Cursors /\ SeqAt(cur, d) = Rank(d)
      BY <1>3, <2>1, SeqAtIsRank DEF Cursors
    <2>3. cur.deposit .. (stop - 1) \subseteq Deposits
      BY <1>3 DEF Cursors, Deposits
    <2>4. \A d \in cur.deposit .. (stop - 1) : SeqAt(cur, d) = Rank(d) /\ Rank(d) # NoSeq
      BY <1>3, <2>2, RankType DEF NoSeq, Cursors
    <2>5. plan'.cursor.deposit = stop /\ plan'.cursor.seq = Rank(stop)
      BY <1>1, <1>3, <1>5, <2>1, <2>2 DEF Cursors
    <2>6. \A d \in Deposits :
            plan'.pairs[d] = IF d \in (cur.deposit .. (stop - 1)) \ Failed
                             THEN Rank(d) ELSE NoSeq
      BY <1>1, <1>5, <2>4
    <2>7. pc' = "pairing" /\ todo' = (cur.deposit .. (stop - 1)) \ Failed
      BY <1>1, <1>5
    <2> QED
      BY <1>2, <2>1, <2>3, <2>4, <2>5, <2>6, <2>7 DEF PlanSound
  <1> QED
    BY <1>4, <1>5

\* Planned pairings stay right until they are cached.
LEMMA PlanStep == IInv /\ [Next]_vars => PlanSound'
  <1> SUFFICES ASSUME IInv, [Next]_vars
               PROVE  PlanSound'
    OBVIOUS
  <1> USE DEF PlanSound
  <1>t. TypeOK /\ PlanSound
    BY DEF IInv
  <1>p. /\ plan.pairs \in [Deposits -> Nat \cup {NoSeq}] /\ todo \subseteq Deposits
        /\ disk.pairs \in [Deposits -> Nat \cup {NoSeq}]
    BY <1>t DEF TypeOK, Plans, Stores, Pairings
  <1>n. \A d \in Deposits : NoPlan.pairs[d] = NoSeq
    BY DEF NoPlan, NoPairs
  <1>1. ASSUME NEW discovered, NEW known, NEW count,
               PlanPairings(discovered, known, count)
        PROVE  PlanSound'
    BY <1>1, PlanPairingsSound
  <1>2. CASE PutWithdrawalPairing
    <2>1. PICK d \in todo :
            /\ disk' = [disk EXCEPT !.pairs[d] = plan.pairs[d]]
            /\ todo' = todo \ {d}
      BY <1>2 DEF PutWithdrawalPairing
    <2>2. pc = "pairing" /\ UNCHANGED <<cache, pc, plan>>
      BY <1>2 DEF PutWithdrawalPairing
    <2>3. \A e \in Deposits : disk'.pairs[e] = IF e = d THEN plan.pairs[d] ELSE disk.pairs[e]
      <3>1. disk'.pairs = [disk.pairs EXCEPT ![d] = plan.pairs[d]]
        BY <1>t, <2>1 DEF TypeOK, Stores
      <3> QED
        BY <1>p, <3>1
    <2> QED
      BY <1>t, <1>p, <2>1, <2>2, <2>3
  <1>3. CASE PutWithdrawalPairingCursor
    BY <1>t, <1>3 DEF PutWithdrawalPairingCursor
  <1>4. CASE CachePairings
    BY <1>n, <1>4 DEF CachePairings
  <1>5. CASE FailPairingWrite
    BY <1>n, <1>5 DEF FailPairingWrite
  <1>6. ASSUME NEW found \in [Deposits -> WithdrawalAnswers], NEW count \in Cursors,
               CollectWithdrawals(found, count)
        PROVE  PlanSound'
    BY <1>t, <1>6 DEF CollectWithdrawals
  <1>7. CASE PutWithdrawalInfo
    BY <1>t, <1>7 DEF PutWithdrawalInfo
  <1>8. CASE PutWithdrawalStatusCursor
    BY <1>t, <1>8 DEF PutWithdrawalStatusCursor
  <1>9. CASE FailWithdrawalWrite
    BY <1>t, <1>9 DEF FailWithdrawalWrite
  <1>10. CASE DelWithdrawalPairing
    BY <1>t, <1>10 DEF DelWithdrawalPairing
  <1>11. CASE FailPairingPurge
    BY <1>t, <1>11 DEF FailPairingPurge
  <1>12. CASE CacheWithdrawals
    BY <1>t, <1>12 DEF CacheWithdrawals
  <1>13. ASSUME NEW found \in [Deposits -> ReimbursementAnswers],
                CollectReimbursements(found)
         PROVE  PlanSound'
    BY <1>t, <1>13 DEF CollectReimbursements
  <1>14. CASE PutReimbursementStatusCursor
    BY <1>t, <1>14 DEF PutReimbursementStatusCursor
  <1>15. CASE FailReimbursementCursor
    BY <1>t, <1>15 DEF FailReimbursementCursor
  <1>16. ASSUME NEW d \in Deposits, DelWithdrawalInfo(d)
         PROVE  PlanSound'
    BY <1>t, <1>16 DEF DelWithdrawalInfo
  <1>17. ASSUME NEW d \in Deposits, FailWithdrawalDelete(d)
         PROVE  PlanSound'
    BY <1>t, <1>17 DEF FailWithdrawalDelete
  <1>18. CASE CacheReimbursements
    BY <1>t, <1>18 DEF CacheReimbursements
  <1>19. CASE Flush
    BY <1>t, <1>19 DEF Flush
  <1>20. CASE Crash
    BY <1>n, <1>20 DEF Crash
  <1>21. CASE UNCHANGED vars
    BY <1>t, <1>21 DEF vars
  <1> QED
    BY <1>1, <1>2, <1>3, <1>4, <1>5, <1>6, <1>7, <1>8, <1>9, <1>10, <1>11, <1>12, <1>13,
       <1>14, <1>15, <1>16, <1>17, <1>18, <1>19, <1>20, <1>21 DEF Next, TaskStep

\* Pairings stay FIFO and none is lost, in memory, in the database and in what a
\* kill leaves of it.
LEMMA PairingStep == IInv /\ [Next]_vars => PairingIsFIFO' /\ NoPairingLost'
  <1> SUFFICES ASSUME IInv, [Next]_vars
               PROVE  PairingIsFIFO' /\ NoPairingLost'
    OBVIOUS
  <1> USE DEF PairingIsFIFO, NoPairingLost, FifoIn, Unpaired
  <1>t. /\ TypeOK /\ PairingIsFIFO /\ NoPairingLost
        /\ CursorOrder /\ PlanSound /\ CursorsAgree
    BY DEF IInv
  <1>c. /\ cache.pairCur.deposit \in Nat /\ cache.wCur \in Nat
        /\ disk.pairCur.deposit \in Nat /\ disk.wCur \in Nat
        /\ plan.cursor.deposit \in Nat /\ next \in Nat
        /\ cache.pairCur.deposit <= N /\ plan.cursor.deposit <= N
    BY <1>t, TypeFacts DEF Cursors
  <1>p. /\ cache.pairs \in [Deposits -> Nat \cup {NoSeq}]
        /\ disk.pairs \in [Deposits -> Nat \cup {NoSeq}]
        /\ plan.pairs \in [Deposits -> Nat \cup {NoSeq}]
    BY <1>t DEF TypeOK, Caches, Plans, Stores, Pairings
  <1>1. ASSUME NEW discovered, NEW known, NEW count,
               PlanPairings(discovered, known, count)
        PROVE  PairingIsFIFO' /\ NoPairingLost'
    BY <1>t, <1>1 DEF PlanPairings
  <1>2. CASE PutWithdrawalPairing
    <2>1. PICK d \in todo : disk' = [disk EXCEPT !.pairs[d] = plan.pairs[d]]
      BY <1>2 DEF PutWithdrawalPairing
    <2>2. pc = "pairing" /\ UNCHANGED <<cache, flushed>>
      BY <1>2 DEF PutWithdrawalPairing
    <2>3. /\ disk'.pairCur = disk.pairCur /\ disk'.wCur = disk.wCur
          /\ disk'.pairs = [disk.pairs EXCEPT ![d] = plan.pairs[d]]
      BY <1>t, <2>1 DEF TypeOK, Stores
    <2>4. plan.pairs[d] # NoSeq
      BY <1>t, <2>1, <2>2 DEF PlanSound
    <2>5. \A e \in Deposits : disk'.pairs[e] = plan.pairs[e] \/ disk'.pairs[e] = disk.pairs[e]
      BY <1>p, <2>3
    <2>6. \A e \in Deposits : disk.pairs[e] # NoSeq => disk'.pairs[e] # NoSeq
      BY <1>p, <2>3, <2>4
    <2>7. FifoIn(disk)'
      BY <1>t, <2>3, <2>5 DEF PlanSound
    <2>8. Unpaired(disk)' = {}
      <3>1. disk.wCur .. (disk.pairCur.deposit - 1) \subseteq Deposits
        BY <1>t, TypeFacts DEF Cursors, Deposits
      <3> QED
        BY <1>t, <2>3, <2>6, <3>1
    <2> QED
      BY <1>t, <2>2, <2>7, <2>8
  <1>3. CASE PutWithdrawalPairingCursor
    <2>1. /\ pc = "pairing" /\ todo = {} /\ UNCHANGED <<cache, flushed>>
          /\ disk' = [disk EXCEPT !.pairCur = plan.cursor]
      BY <1>3 DEF PutWithdrawalPairingCursor, RowsWritten
    <2>2. /\ disk'.pairCur = plan.cursor /\ disk'.wCur = disk.wCur
          /\ disk'.pairs = disk.pairs
      BY <1>t, <2>1 DEF TypeOK, Stores
    <2>3. FifoIn(disk)'
      BY <1>t, <2>1, <2>2 DEF PlanSound
    <2>4. \A d \in disk.wCur .. (plan.cursor.deposit - 1) :
            d \notin Failed => disk.pairs[d] # NoSeq
      <3> SUFFICES ASSUME NEW d \in disk.wCur .. (plan.cursor.deposit - 1), d \notin Failed
                   PROVE  disk.pairs[d] # NoSeq
        OBVIOUS
      <3>1. d \in Deposits
        BY <1>c DEF Deposits
      <3>2. CASE d < disk.pairCur.deposit
        BY <1>t, <1>c, <3>2
      <3>3. CASE d >= disk.pairCur.deposit
        <4>1. disk.pairCur = cache.pairCur
          BY <1>t, <2>1 DEF CursorsAgree
        <4> QED
          BY <1>t, <1>c, <2>1, <3>1, <3>3, <4>1 DEF PlanSound
      <3> QED
        BY <1>c, <3>2, <3>3
    <2>5. Unpaired(disk)' = {}
      BY <2>2, <2>4
    <2> QED
      BY <1>t, <2>1, <2>3, <2>5
  <1>4. CASE CachePairings
    <2>1. /\ pc = "pairingCache" /\ UNCHANGED <<disk, flushed>>
          /\ cache' = [cache EXCEPT
                          !.pairs = [d \in Deposits |->
                              IF plan.pairs[d] # NoSeq THEN plan.pairs[d] ELSE @[d]],
                          !.pairCur = plan.cursor]
      BY <1>4 DEF CachePairings
    <2>2. /\ cache'.pairCur = plan.cursor /\ cache'.wCur = cache.wCur
          /\ cache'.pairs = [d \in Deposits |->
                 IF plan.pairs[d] # NoSeq THEN plan.pairs[d] ELSE cache.pairs[d]]
      BY <1>t, <2>1 DEF TypeOK, Caches
    <2>3. FifoIn(cache)'
      BY <1>t, <2>1, <2>2 DEF PlanSound
    <2>4. \A d \in cache.wCur .. (plan.cursor.deposit - 1) :
            d \notin Failed => cache'.pairs[d] # NoSeq
      <3> SUFFICES ASSUME NEW d \in cache.wCur .. (plan.cursor.deposit - 1), d \notin Failed
                   PROVE  cache'.pairs[d] # NoSeq
        OBVIOUS
      <3>1. d \in Deposits
        BY <1>c DEF Deposits
      <3>2. CASE d < cache.pairCur.deposit
        BY <1>t, <1>c, <2>2, <3>1, <3>2
      <3>3. CASE d >= cache.pairCur.deposit
        BY <1>t, <1>c, <2>1, <2>2, <3>1, <3>3 DEF PlanSound
      <3> QED
        BY <1>c, <3>2, <3>3
    <2>5. Unpaired(cache)' = {}
      BY <2>2, <2>4
    <2> QED
      BY <1>t, <2>1, <2>3, <2>5
  <1>5. CASE FailPairingWrite
    BY <1>t, <1>5 DEF FailPairingWrite
  <1>6. ASSUME NEW found \in [Deposits -> WithdrawalAnswers], NEW count \in Cursors,
               CollectWithdrawals(found, count)
        PROVE  PairingIsFIFO' /\ NoPairingLost'
    BY <1>t, <1>6 DEF CollectWithdrawals
  <1>7. CASE PutWithdrawalInfo
    <2>1. /\ disk'.pairs = disk.pairs /\ disk'.pairCur = disk.pairCur /\ disk'.wCur = disk.wCur
          /\ UNCHANGED <<cache, flushed>>
      BY <1>t, <1>7 DEF PutWithdrawalInfo, TypeOK, Stores
    <2> QED
      BY <1>t, <2>1
  <1>8. CASE PutWithdrawalStatusCursor
    <2>1. /\ disk'.pairs = disk.pairs /\ disk'.pairCur = disk.pairCur /\ disk'.wCur = next
          /\ UNCHANGED <<cache, flushed>>
      BY <1>t, <1>8 DEF PutWithdrawalStatusCursor, TypeOK, Stores
    <2>2. disk.wCur <= next
      BY <1>8 DEF IInv, CursorsAgree, WithdrawalPhaseSound, PutWithdrawalStatusCursor
    <2> QED
      BY <1>t, <1>c, <2>1, <2>2
  <1>9. CASE FailWithdrawalWrite
    BY <1>t, <1>9 DEF FailWithdrawalWrite
  <1>10. CASE DelWithdrawalPairing
    <2>1. PICK d \in todo : disk' = [disk EXCEPT !.pairs[d] = NoSeq]
      BY <1>10 DEF DelWithdrawalPairing
    <2>2. /\ disk'.pairCur = disk.pairCur /\ disk'.wCur = disk.wCur
          /\ disk'.pairs = [disk.pairs EXCEPT ![d] = NoSeq]
          /\ pc = "pairingPurge" /\ UNCHANGED <<cache, flushed>>
      BY <1>t, <1>10, <2>1 DEF DelWithdrawalPairing, TypeOK, Stores
    <2>3. d < disk.wCur /\ d \in Deposits
      BY <1>t, <1>c, <2>1, <2>2 DEF IInv, WithdrawalPhaseSound, CursorsAgree, TypeOK
    <2>4. \A e \in Deposits : disk'.pairs[e] = IF e = d THEN NoSeq ELSE disk.pairs[e]
      BY <1>p, <2>2, <2>3
    <2>5. FifoIn(disk)'
      BY <1>t, <2>2, <2>4
    <2>6. Unpaired(disk)' = {}
      <3>1. disk.wCur .. (disk.pairCur.deposit - 1) \subseteq Deposits
        BY <1>t, TypeFacts DEF Cursors, Deposits
      <3> QED
        BY <1>t, <1>c, <2>2, <2>3, <2>4, <3>1
    <2> QED
      BY <1>t, <2>2, <2>5, <2>6
  <1>11. CASE FailPairingPurge
    BY <1>t, <1>11 DEF FailPairingPurge
  <1>12. CASE CacheWithdrawals
    <2>1. /\ cache'.pairCur = cache.pairCur /\ cache'.wCur = next
          /\ cache'.pairs = [d \in Deposits |-> IF d \in purged THEN NoSeq ELSE cache.pairs[d]]
          /\ pc = "pairingPurge" /\ UNCHANGED <<disk, flushed>>
      BY <1>t, <1>12 DEF CacheWithdrawals, TypeOK, Caches
    <2>2. FifoIn(cache)'
      BY <1>t, <2>1
    <2>3. \A d \in purged : d < next
      BY <1>c, <2>1 DEF IInv, WithdrawalPhaseSound
    <2>4. cache.wCur <= next
      BY <2>1 DEF IInv, WithdrawalPhaseSound
    <2>5. next .. (cache.pairCur.deposit - 1) \subseteq Deposits
      BY <1>c DEF Deposits
    <2>6. Unpaired(cache)' = {}
      BY <1>t, <1>c, <2>1, <2>3, <2>4, <2>5
    <2> QED
      BY <1>t, <2>1, <2>2, <2>6
  <1>13. ASSUME NEW found \in [Deposits -> ReimbursementAnswers],
                CollectReimbursements(found)
         PROVE  PairingIsFIFO' /\ NoPairingLost'
    BY <1>t, <1>13 DEF CollectReimbursements
  <1>14. CASE PutReimbursementStatusCursor
    <2>1. /\ disk'.pairs = disk.pairs /\ disk'.pairCur = disk.pairCur /\ disk'.wCur = disk.wCur
          /\ UNCHANGED <<cache, flushed>>
      BY <1>t, <1>14 DEF PutReimbursementStatusCursor, TypeOK, Stores
    <2> QED
      BY <1>t, <2>1
  <1>15. CASE FailReimbursementCursor
    BY <1>t, <1>15 DEF FailReimbursementCursor
  <1>16. ASSUME NEW d \in Deposits, DelWithdrawalInfo(d)
         PROVE  PairingIsFIFO' /\ NoPairingLost'
    <2>1. /\ disk'.pairs = disk.pairs /\ disk'.pairCur = disk.pairCur /\ disk'.wCur = disk.wCur
          /\ UNCHANGED <<cache, flushed>>
      BY <1>t, <1>16 DEF DelWithdrawalInfo, TypeOK, Stores
    <2> QED
      BY <1>t, <2>1
  <1>17. ASSUME NEW d \in Deposits, FailWithdrawalDelete(d)
         PROVE  PairingIsFIFO' /\ NoPairingLost'
    BY <1>t, <1>17 DEF FailWithdrawalDelete
  <1>18. CASE CacheReimbursements
    <2>1. /\ cache'.pairs = cache.pairs /\ cache'.pairCur = cache.pairCur
          /\ cache'.wCur = cache.wCur /\ UNCHANGED <<disk, flushed>>
      BY <1>t, <1>18 DEF CacheReimbursements, TypeOK, Caches
    <2> QED
      BY <1>t, <2>1
  <1>19. CASE Flush
    BY <1>t, <1>19 DEF Flush
  <1>20. CASE Crash
    BY <1>t, <1>20 DEF Crash, Hydrate
  <1>21. CASE UNCHANGED vars
    BY <1>t, <1>21 DEF vars
  <1> QED
    BY <1>1, <1>2, <1>3, <1>4, <1>5, <1>6, <1>7, <1>8, <1>9, <1>10, <1>11, <1>12, <1>13,
       <1>14, <1>15, <1>16, <1>17, <1>18, <1>19, <1>20, <1>21 DEF Next, TaskStep

\* A run stays one when its beginning moves up and its rows stay.
LEMMA RunKept ==
    ASSUME NEW s, NEW t, RunIn(s), t.pairs = s.pairs, s.wCur <= t.wCur,
           s.wCur \in Nat, t.wCur \in Nat
    PROVE  RunIn(t)
  BY DEF RunIn, Deposits

\* Pairing rows are written in order, wherever they are written.
LEMMA OrderStep == IInv /\ [Next]_vars => PairedInOrder'
  <1> SUFFICES ASSUME IInv, [Next]_vars
               PROVE  PairedInOrder'
    OBVIOUS
  <1> USE DEF PairedInOrder
  <1>t. /\ TypeOK /\ PairedInOrder /\ NoPairingLost
        /\ CursorOrder /\ PlanSound /\ CursorsAgree
    BY DEF IInv
  <1>c. /\ cache.pairCur.deposit \in Nat /\ cache.wCur \in Nat
        /\ disk.pairCur.deposit \in Nat /\ disk.wCur \in Nat
        /\ plan.cursor.deposit \in Nat /\ next \in Nat
    BY <1>t, TypeFacts DEF Cursors
  <1>p. /\ cache.pairs \in [Deposits -> Nat \cup {NoSeq}]
        /\ disk.pairs \in [Deposits -> Nat \cup {NoSeq}]
        /\ plan.pairs \in [Deposits -> Nat \cup {NoSeq}]
    BY <1>t DEF TypeOK, Caches, Plans, Stores, Pairings
  <1>1. ASSUME NEW discovered, NEW known, NEW count,
               PlanPairings(discovered, known, count)
        PROVE  PairedInOrder'
    <2>1. UNCHANGED <<cache, disk, flushed>>
      BY <1>1 DEF PlanPairings
    <2>2. PICK stop \in Cursors :
            LET cur    == cache.pairCur
                paired == (cur.deposit .. (stop - 1)) \ Failed
            IN  IF stop = cur.deposit
                THEN pc' = "withdrawals" /\ UNCHANGED <<plan, todo>>
                ELSE /\ plan' = [pairs  |-> [d \in Deposits |->
                                     IF d \in paired THEN SeqAt(cur, d) ELSE NoSeq],
                                 cursor |-> [deposit |-> stop, seq |-> SeqAt(cur, stop)]]
                     /\ todo' = paired
                     /\ pc' = "pairing"
      BY <1>1 DEF PlanPairings
    <2>3. CASE stop = cache.pairCur.deposit
      BY <1>t, <2>1, <2>2, <2>3 DEF RunIn
    <2>4. CASE stop # cache.pairCur.deposit
      <3>1. /\ plan'.cursor.deposit = stop
            /\ \A d \in Deposits : plan'.pairs[d] # NoSeq => d <= stop - 1
        BY <2>2, <2>4
      <3>2. \A d \in Deposits : plan'.pairs[d] # NoSeq => d < plan'.cursor.deposit
        BY <3>1 DEF Deposits, Cursors
      <3> QED
        BY <1>t, <2>1, <3>2 DEF RunIn
    <2> QED
      BY <2>3, <2>4
  <1>2. CASE PutWithdrawalPairing
    <2>1. PICK d \in todo : IsFirst(d, todo) /\ disk' = [disk EXCEPT !.pairs[d] = plan.pairs[d]]
      BY <1>2 DEF PutWithdrawalPairing
    <2>2. pc = "pairing" /\ UNCHANGED <<cache, flushed, pc, plan>>
      BY <1>2 DEF PutWithdrawalPairing
    <2>3. disk'.wCur = disk.wCur /\ disk'.pairs = [disk.pairs EXCEPT ![d] = plan.pairs[d]]
      BY <1>t, <2>1 DEF TypeOK, Stores
    <2>4. d \in Deposits /\ plan.pairs[d] # NoSeq /\ d < plan.cursor.deposit
      BY <1>t, <2>1, <2>2 DEF PlanSound, TypeOK
    <2>5. \A e \in Deposits : disk.pairs[e] # NoSeq => disk'.pairs[e] # NoSeq
      BY <1>p, <2>3, <2>4
    <2>6. \A e \in Deposits : disk'.pairs[e] # NoSeq => disk.pairs[e] # NoSeq \/ e = d
      BY <1>p, <2>3
    <2>7. \A c \in Deposits : disk.wCur <= c /\ c < d /\ c \notin Failed => disk.pairs[c] # NoSeq
      <3> SUFFICES ASSUME NEW c \in Deposits, disk.wCur <= c, c < d, c \notin Failed
                   PROVE  disk.pairs[c] # NoSeq
        OBVIOUS
      <3>1. disk.pairCur = cache.pairCur
        BY <1>t, <2>2 DEF CursorsAgree
      <3>2. CASE c < disk.pairCur.deposit
        <4>1. c \in disk.wCur .. (disk.pairCur.deposit - 1)
          BY <1>c, <3>2 DEF Deposits
        <4> QED
          BY <1>t, <4>1 DEF NoPairingLost, Unpaired
      <3>3. CASE c >= disk.pairCur.deposit
        <4>1. c \in cache.pairCur.deposit .. (plan.cursor.deposit - 1)
          BY <1>c, <2>4, <3>1, <3>3 DEF Deposits
        <4>2. plan.pairs[c] # NoSeq
          BY <1>t, <2>2, <4>1 DEF PlanSound
        <4>3. c \notin todo
          BY <2>1, <2>4 DEF IsFirst, Deposits
        <4> QED
          BY <1>t, <2>2, <4>2, <4>3 DEF PlanSound
      <3> QED
        BY <1>c, <3>2, <3>3 DEF Deposits
    <2>8. RunIn(disk)'
      BY <1>t, <2>3, <2>5, <2>6, <2>7 DEF RunIn
    <2> QED
      BY <1>t, <2>2, <2>8 DEF RunIn
  <1>3. CASE PutWithdrawalPairingCursor
    <2>1. /\ disk'.pairs = disk.pairs /\ disk'.wCur = disk.wCur
          /\ UNCHANGED <<cache, flushed, plan>> /\ pc = "pairing"
      BY <1>t, <1>3 DEF PutWithdrawalPairingCursor, TypeOK, Stores
    <2> QED
      BY <1>t, <2>1 DEF RunIn
  <1>4. CASE CachePairings
    <2>1. /\ pc = "pairingCache" /\ pc' = "withdrawals" /\ UNCHANGED <<disk, flushed>>
          /\ cache' = [cache EXCEPT
                          !.pairs = [d \in Deposits |->
                              IF plan.pairs[d] # NoSeq THEN plan.pairs[d] ELSE @[d]],
                          !.pairCur = plan.cursor]
      BY <1>4 DEF CachePairings
    <2>2. /\ cache'.wCur = cache.wCur
          /\ \A d \in Deposits : cache'.pairs[d] =
                 IF plan.pairs[d] # NoSeq THEN plan.pairs[d] ELSE cache.pairs[d]
      BY <1>t, <2>1 DEF TypeOK, Caches
    <2>3. \A c, d \in Deposits :
            cache.wCur <= c /\ c < d /\ c \notin Failed /\ plan.pairs[d] # NoSeq
              => plan.pairs[c] # NoSeq \/ cache.pairs[c] # NoSeq
      <3> SUFFICES ASSUME NEW c \in Deposits, NEW d \in Deposits,
                          cache.wCur <= c, c < d, c \notin Failed, plan.pairs[d] # NoSeq
                   PROVE  plan.pairs[c] # NoSeq \/ cache.pairs[c] # NoSeq
        OBVIOUS
      <3>1. d < plan.cursor.deposit
        BY <1>t, <2>1
      <3>2. CASE c < cache.pairCur.deposit
        <4>1. c \in cache.wCur .. (cache.pairCur.deposit - 1)
          BY <1>c, <3>2 DEF Deposits
        <4> QED
          BY <1>t, <4>1 DEF NoPairingLost, Unpaired
      <3>3. CASE c >= cache.pairCur.deposit
        <4>1. c \in cache.pairCur.deposit .. (plan.cursor.deposit - 1)
          BY <1>c, <3>1, <3>3 DEF Deposits
        <4> QED
          BY <1>t, <2>1, <4>1 DEF PlanSound
      <3> QED
        BY <1>c, <3>2, <3>3 DEF Deposits
    <2>4. RunIn(cache)'
      BY <1>t, <2>2, <2>3 DEF RunIn
    <2> QED
      BY <1>t, <2>1, <2>4 DEF RunIn
  <1>5. CASE FailPairingWrite
    BY <1>t, <1>5 DEF FailPairingWrite, RunIn
  <1>6. ASSUME NEW found \in [Deposits -> WithdrawalAnswers], NEW count \in Cursors,
               CollectWithdrawals(found, count)
        PROVE  PairedInOrder'
    BY <1>t, <1>6 DEF CollectWithdrawals, RunIn
  <1>7. CASE PutWithdrawalInfo
    <2>1. /\ disk'.pairs = disk.pairs /\ disk'.wCur = disk.wCur
          /\ UNCHANGED <<cache, flushed, pc, plan>>
      BY <1>t, <1>7 DEF PutWithdrawalInfo, TypeOK, Stores
    <2> QED
      BY <1>t, <2>1 DEF RunIn
  <1>8. CASE PutWithdrawalStatusCursor
    <2>1. /\ disk'.pairs = disk.pairs /\ disk'.wCur = next
          /\ UNCHANGED <<cache, flushed>> /\ pc' = "pairingPurge"
      BY <1>t, <1>8 DEF PutWithdrawalStatusCursor, TypeOK, Stores
    <2>2. disk.wCur <= next
      BY <1>8 DEF IInv, CursorsAgree, WithdrawalPhaseSound, PutWithdrawalStatusCursor
    <2>3. RunIn(disk')
      BY <1>t, <1>c, <2>1, <2>2, RunKept
    <2> QED
      BY <1>t, <2>1, <2>3 DEF RunIn
  <1>9. CASE FailWithdrawalWrite
    BY <1>t, <1>9 DEF FailWithdrawalWrite, RunIn
  <1>10. CASE DelWithdrawalPairing
    <2>1. PICK d \in todo : disk' = [disk EXCEPT !.pairs[d] = NoSeq]
      BY <1>10 DEF DelWithdrawalPairing
    <2>2. /\ disk'.wCur = disk.wCur /\ disk'.pairs = [disk.pairs EXCEPT ![d] = NoSeq]
          /\ pc = "pairingPurge" /\ UNCHANGED <<cache, flushed, pc>>
      BY <1>t, <1>10, <2>1 DEF DelWithdrawalPairing, TypeOK, Stores
    <2>3. d < disk.wCur /\ d \in Deposits
      BY <1>t, <1>c, <2>1, <2>2 DEF IInv, WithdrawalPhaseSound, CursorsAgree, TypeOK
    <2>4. \A e \in Deposits : disk'.pairs[e] = IF e = d THEN NoSeq ELSE disk.pairs[e]
      BY <1>p, <2>2, <2>3
    <2>5. \A e \in Deposits : disk.wCur <= e => e # d
      BY <1>c, <2>3 DEF Deposits
    <2>6. RunIn(disk)'
      BY <1>t, <2>2, <2>4, <2>5 DEF RunIn
    <2> QED
      BY <1>t, <2>2, <2>6 DEF RunIn
  <1>11. CASE FailPairingPurge
    BY <1>t, <1>11 DEF FailPairingPurge, RunIn
  <1>12. CASE CacheWithdrawals
    <2>1. /\ cache'.wCur = next
          /\ cache'.pairs = [d \in Deposits |-> IF d \in purged THEN NoSeq ELSE cache.pairs[d]]
          /\ pc = "pairingPurge" /\ pc' = "reimbursements" /\ UNCHANGED <<disk, flushed>>
      BY <1>t, <1>12 DEF CacheWithdrawals, TypeOK, Caches
    <2>2. (\A d \in purged : d < next) /\ cache.wCur <= next
      BY <1>c, <2>1 DEF IInv, WithdrawalPhaseSound
    <2>3. \A c \in Deposits : next <= c => c \notin purged /\ cache.wCur <= c
      BY <1>c, <2>2 DEF Deposits
    <2>4. RunIn(cache)'
      BY <1>t, <2>1, <2>3 DEF RunIn
    <2> QED
      BY <1>t, <2>1, <2>4 DEF RunIn
  <1>13. ASSUME NEW found \in [Deposits -> ReimbursementAnswers],
                CollectReimbursements(found)
         PROVE  PairedInOrder'
    BY <1>t, <1>13 DEF CollectReimbursements, RunIn
  <1>14. CASE PutReimbursementStatusCursor
    <2>1. /\ disk'.pairs = disk.pairs /\ disk'.wCur = disk.wCur
          /\ UNCHANGED <<cache, flushed>> /\ pc' = "withdrawalPurge"
      BY <1>t, <1>14 DEF PutReimbursementStatusCursor, TypeOK, Stores
    <2> QED
      BY <1>t, <2>1 DEF RunIn
  <1>15. CASE FailReimbursementCursor
    BY <1>t, <1>15 DEF FailReimbursementCursor, RunIn
  <1>16. ASSUME NEW d \in Deposits, DelWithdrawalInfo(d)
         PROVE  PairedInOrder'
    <2>1. /\ disk'.pairs = disk.pairs /\ disk'.wCur = disk.wCur
          /\ UNCHANGED <<cache, flushed, pc, plan>>
      BY <1>t, <1>16 DEF DelWithdrawalInfo, TypeOK, Stores
    <2> QED
      BY <1>t, <2>1 DEF RunIn
  <1>17. ASSUME NEW d \in Deposits, FailWithdrawalDelete(d)
         PROVE  PairedInOrder'
    BY <1>t, <1>17 DEF FailWithdrawalDelete, RunIn
  <1>18. CASE CacheReimbursements
    <2>1. /\ cache'.pairs = cache.pairs /\ cache'.wCur = cache.wCur
          /\ UNCHANGED <<disk, flushed>> /\ pc' = "idle"
      BY <1>t, <1>18 DEF CacheReimbursements, TypeOK, Caches
    <2> QED
      BY <1>t, <2>1 DEF RunIn
  <1>19. CASE Flush
    BY <1>t, <1>19 DEF Flush, RunIn
  <1>20. CASE Crash
    <2>1. /\ disk' = flushed /\ cache'.pairs = flushed.pairs /\ cache'.wCur = flushed.wCur
          /\ flushed' = flushed /\ pc' = "idle"
      BY <1>20 DEF Crash, Hydrate
    <2> QED
      BY <1>t, <2>1 DEF RunIn
  <1>21. CASE UNCHANGED vars
    BY <1>t, <1>21 DEF vars, RunIn
  <1> QED
    BY <1>1, <1>2, <1>3, <1>4, <1>5, <1>6, <1>7, <1>8, <1>9, <1>10, <1>11, <1>12, <1>13,
       <1>14, <1>15, <1>16, <1>17, <1>18, <1>19, <1>20, <1>21 DEF Next, TaskStep

--------------------------------------------------------------------------------
(* The inductive invariant: cursors *)

\* The cursors stay in order and agree, and what is flushed stays behind.
LEMMA CursorStep ==
    IInv /\ [Next]_vars => CursorOrder' /\ CursorsAgree' /\ FlushedBehind'
  <1> SUFFICES ASSUME IInv, [Next]_vars
               PROVE  CursorOrder' /\ CursorsAgree' /\ FlushedBehind'
    OBVIOUS
  <1> USE DEF CursorOrder, Ordered, CursorsAgree, FlushedBehind
  <1>t. /\ TypeOK /\ CursorOrder /\ CursorsAgree /\ FlushedBehind
        /\ PlanSound /\ WithdrawalPhaseSound /\ ReimbursementPhaseSound
    BY DEF IInv
  <1>c. /\ cache.pairCur.deposit \in Nat /\ cache.wCur \in Nat /\ cache.rCur \in Nat
        /\ disk.pairCur.deposit \in Nat /\ disk.wCur \in Nat /\ disk.rCur \in Nat
        /\ flushed.pairCur.deposit \in Nat /\ flushed.wCur \in Nat /\ flushed.rCur \in Nat
        /\ plan.cursor.deposit \in Nat /\ next \in Nat
    BY <1>t, TypeFacts DEF Cursors
  <1>1. ASSUME NEW discovered, NEW known, NEW count,
               PlanPairings(discovered, known, count)
        PROVE  CursorOrder' /\ CursorsAgree' /\ FlushedBehind'
    BY <1>t, <1>1 DEF PlanPairings
  <1>2. CASE PutWithdrawalPairing
    <2>1. /\ disk'.pairCur = disk.pairCur /\ disk'.wCur = disk.wCur /\ disk'.rCur = disk.rCur
          /\ UNCHANGED <<cache, flushed, pc, plan, next>>
      BY <1>t, <1>2 DEF PutWithdrawalPairing, TypeOK, Stores
    <2> QED
      BY <1>t, <1>2, <2>1 DEF PutWithdrawalPairing
  <1>3. CASE PutWithdrawalPairingCursor
    <2>1. /\ disk'.pairCur = plan.cursor /\ disk'.wCur = disk.wCur /\ disk'.rCur = disk.rCur
          /\ pc = "pairing" /\ pc' = "pairingCache"
          /\ UNCHANGED <<cache, flushed, plan, next, purged>>
      BY <1>t, <1>3 DEF PutWithdrawalPairingCursor, TypeOK, Stores
    <2>2. cache.pairCur.deposit <= plan.cursor.deposit
      BY <1>t, <2>1 DEF PlanSound
    <2> QED
      BY <1>t, <1>c, <2>1, <2>2
  <1>4. CASE CachePairings
    <2>1. /\ cache'.pairCur = plan.cursor /\ cache'.wCur = cache.wCur /\ cache'.rCur = cache.rCur
          /\ pc = "pairingCache" /\ pc' = "withdrawals"
          /\ UNCHANGED <<disk, flushed, next, purged>>
      BY <1>t, <1>4 DEF CachePairings, TypeOK, Caches
    <2>2. cache.pairCur.deposit <= plan.cursor.deposit
      BY <1>t, <2>1 DEF PlanSound
    <2> QED
      BY <1>t, <1>c, <2>1, <2>2
  <1>5. CASE FailPairingWrite
    BY <1>t, <1>5 DEF FailPairingWrite
  <1>6. ASSUME NEW found \in [Deposits -> WithdrawalAnswers], NEW count \in Cursors,
               CollectWithdrawals(found, count)
        PROVE  CursorOrder' /\ CursorsAgree' /\ FlushedBehind'
    BY <1>t, <1>6 DEF CollectWithdrawals
  <1>7. CASE PutWithdrawalInfo
    <2>1. /\ disk'.pairCur = disk.pairCur /\ disk'.wCur = disk.wCur /\ disk'.rCur = disk.rCur
          /\ UNCHANGED <<cache, flushed, pc, plan, next>>
      BY <1>t, <1>7 DEF PutWithdrawalInfo, TypeOK, Stores
    <2> QED
      BY <1>t, <1>7, <2>1 DEF PutWithdrawalInfo
  <1>8. CASE PutWithdrawalStatusCursor
    <2>1. /\ disk'.pairCur = disk.pairCur /\ disk'.wCur = next /\ disk'.rCur = disk.rCur
          /\ pc = "withdrawalRows" /\ pc' = "pairingPurge"
          /\ UNCHANGED <<cache, flushed, plan, next>>
      BY <1>t, <1>8 DEF PutWithdrawalStatusCursor, TypeOK, Stores
    <2>2. cache.wCur <= next /\ next <= cache.pairCur.deposit
      BY <1>t, <2>1 DEF WithdrawalPhaseSound
    <2> QED
      BY <1>t, <1>c, <2>1, <2>2
  <1>9. CASE FailWithdrawalWrite
    BY <1>t, <1>9 DEF FailWithdrawalWrite, EndPhase
  <1>10. CASE DelWithdrawalPairing
    <2>1. /\ disk'.pairCur = disk.pairCur /\ disk'.wCur = disk.wCur /\ disk'.rCur = disk.rCur
          /\ UNCHANGED <<cache, flushed, pc, plan, next>>
      BY <1>t, <1>10 DEF DelWithdrawalPairing, TypeOK, Stores
    <2> QED
      BY <1>t, <1>10, <2>1 DEF DelWithdrawalPairing
  <1>11. CASE FailPairingPurge
    BY <1>t, <1>11 DEF FailPairingPurge
  <1>12. CASE CacheWithdrawals
    <2>1. /\ cache'.pairCur = cache.pairCur /\ cache'.wCur = next /\ cache'.rCur = cache.rCur
          /\ pc = "pairingPurge" /\ pc' = "reimbursements" /\ purged' = {}
          /\ UNCHANGED <<disk, flushed, plan>>
      BY <1>t, <1>12 DEF CacheWithdrawals, EndPhase, TypeOK, Caches
    <2>2. cache.wCur <= next /\ next <= cache.pairCur.deposit
      BY <1>t, <2>1 DEF WithdrawalPhaseSound
    <2> QED
      BY <1>t, <1>c, <2>1, <2>2
  <1>13. ASSUME NEW found \in [Deposits -> ReimbursementAnswers],
                CollectReimbursements(found)
         PROVE  CursorOrder' /\ CursorsAgree' /\ FlushedBehind'
    BY <1>t, <1>13 DEF CollectReimbursements
  <1>14. CASE PutReimbursementStatusCursor
    <2>1. /\ disk'.pairCur = disk.pairCur /\ disk'.wCur = disk.wCur /\ disk'.rCur = next
          /\ pc = "reimbursementCursor" /\ pc' = "withdrawalPurge"
          /\ UNCHANGED <<cache, flushed, plan, next>>
      BY <1>t, <1>14 DEF PutReimbursementStatusCursor, TypeOK, Stores
    <2>2. cache.rCur <= next /\ next <= cache.wCur
      BY <1>t, <2>1 DEF ReimbursementPhaseSound
    <2> QED
      BY <1>t, <1>c, <2>1, <2>2
  <1>15. CASE FailReimbursementCursor
    BY <1>t, <1>15 DEF FailReimbursementCursor, EndPhase
  <1>16. ASSUME NEW d \in Deposits, DelWithdrawalInfo(d)
         PROVE  CursorOrder' /\ CursorsAgree' /\ FlushedBehind'
    <2>1. /\ disk'.pairCur = disk.pairCur /\ disk'.wCur = disk.wCur /\ disk'.rCur = disk.rCur
          /\ UNCHANGED <<cache, flushed, pc, plan, next>>
      BY <1>t, <1>16 DEF DelWithdrawalInfo, TypeOK, Stores
    <2> QED
      BY <1>t, <1>16, <2>1 DEF DelWithdrawalInfo
  <1>17. ASSUME NEW d \in Deposits, FailWithdrawalDelete(d)
         PROVE  CursorOrder' /\ CursorsAgree' /\ FlushedBehind'
    BY <1>t, <1>17 DEF FailWithdrawalDelete
  <1>18. CASE CacheReimbursements
    <2>1. /\ cache'.pairCur = cache.pairCur /\ cache'.wCur = cache.wCur /\ cache'.rCur = next
          /\ pc = "withdrawalPurge" /\ pc' = "idle" /\ purged' = {}
          /\ UNCHANGED <<disk, flushed, plan>>
      BY <1>t, <1>18 DEF CacheReimbursements, EndPhase, TypeOK, Caches
    <2>2. cache.rCur <= next /\ next <= cache.wCur
      BY <1>t, <2>1 DEF ReimbursementPhaseSound
    <2> QED
      BY <1>t, <1>c, <2>1, <2>2
  <1>19. CASE Flush
    BY <1>t, <1>c, <1>19 DEF Flush
  <1>20. CASE Crash
    BY <1>t, <1>c, <1>20 DEF Crash, Hydrate, EndPhase
  <1>21. CASE UNCHANGED vars
    BY <1>t, <1>21 DEF vars
  <1> QED
    BY <1>1, <1>2, <1>3, <1>4, <1>5, <1>6, <1>7, <1>8, <1>9, <1>10, <1>11, <1>12, <1>13,
       <1>14, <1>15, <1>16, <1>17, <1>18, <1>19, <1>20, <1>21 DEF Next, TaskStep

--------------------------------------------------------------------------------
(* The inductive invariant: the status phases *)

\* The withdrawal phase passes only settled withdrawals whose rows are written.
LEMMA CollectWithdrawalsSound ==
    ASSUME IInv, NEW found \in [Deposits -> WithdrawalAnswers], NEW count \in Cursors,
           CollectWithdrawals(found, count)
    PROVE  WithdrawalPhaseSound'
  <1>t. /\ TypeOK /\ CursorOrder /\ NoPairingLost /\ PairingIsFIFO
    BY DEF IInv
  <1>1. PICK stop \in Cursors :
          /\ StopsSparse(cache.wCur, stop, Terminal(found),
                         cache.pairCur.deposit, WithdrawalCandidates)
          /\ next' = stop
    BY DEF CollectWithdrawals
  <1>2. cache.wCur <= cache.pairCur.deposit
    BY <1>t DEF CursorOrder, Ordered
  <1>3. /\ cache.wCur <= stop /\ stop <= cache.pairCur.deposit
        /\ \A d \in cache.wCur .. (stop - 1) : d \in Terminal(found) \/ d \notin WithdrawalCandidates
    <2>1. cache.wCur \in Cursors /\ cache.pairCur.deposit \in Cursors
      BY <1>t, TypeFacts
    <2>2. /\ cache.wCur <= stop
          /\ \A d \in cache.wCur .. (stop - 1) :
                d < cache.pairCur.deposit /\ (d \in Terminal(found) \/ d \notin WithdrawalCandidates)
      BY <1>1 DEF StopsSparse, StopsAt
    <2> QED
      BY <1>2, <2>1, <2>2, StopsAtFrontier
  <1>4. \A d \in Deposits : found[d] # "none" => d >= cache.wCur /\ d \notin Failed
    <2> SUFFICES ASSUME NEW d \in Deposits, found[d] # "none"
                 PROVE  d >= cache.wCur /\ d \notin Failed
      OBVIOUS
    <2>1. d \in WithdrawalCandidates
      BY DEF CollectWithdrawals
    <2>2. d >= cache.wCur /\ cache.pairs[d] # NoSeq
      BY <1>t, <2>1, TypeFacts DEF WithdrawalCandidates, Cursors
    <2> QED
      BY <1>t, <2>2 DEF PairingIsFIFO, FifoIn
  <1>5. \A d \in cache.wCur .. (stop - 1) : d \notin Failed => found[d] = "Deep"
    <2> SUFFICES ASSUME NEW d \in cache.wCur .. (stop - 1), d \notin Failed
                 PROVE  found[d] = "Deep"
      OBVIOUS
    <2>1. d \in cache.wCur .. (cache.pairCur.deposit - 1) /\ d \in cache.wCur .. (N - 1)
      BY <1>t, <1>3, TypeFacts DEF Cursors
    <2>2. cache.pairs[d] # NoSeq
      BY <1>t, <2>1 DEF NoPairingLost, Unpaired
    <2>3. d \in WithdrawalCandidates
      BY <2>1, <2>2 DEF WithdrawalCandidates
    <2> QED
      BY <1>3, <2>3 DEF Terminal
  <1>6. /\ answers' = found /\ next' = stop /\ pc' = "withdrawalRows"
        /\ todo' = {d \in Deposits : IsComplete(found[d])}
        /\ UNCHANGED <<cache, disk>>
    BY <1>1 DEF CollectWithdrawals
  <1>7. \A d \in Deposits : IsComplete(found[d]) => found[d] # "none"
    BY DEF IsComplete
  <1> QED
    BY <1>3, <1>4, <1>5, <1>6, <1>7 DEF WithdrawalPhaseSound

\* Every step keeps the withdrawal phase sound.
LEMMA WithdrawalPhaseStep == IInv /\ [Next]_vars => WithdrawalPhaseSound'
  <1> SUFFICES ASSUME IInv, [Next]_vars
               PROVE  WithdrawalPhaseSound'
    OBVIOUS
  <1> USE DEF WithdrawalPhaseSound
  <1>t. TypeOK /\ WithdrawalPhaseSound
    BY DEF IInv
  <1>s. disk \in Stores /\ disk.complete \subseteq Deposits /\ next \in Nat
    BY <1>t DEF TypeOK, Stores, Cursors
  <1>1. ASSUME NEW discovered, NEW known, NEW count,
               PlanPairings(discovered, known, count)
        PROVE  WithdrawalPhaseSound'
    BY <1>t, <1>1 DEF PlanPairings
  <1>2. CASE PutWithdrawalPairing
    BY <1>t, <1>2 DEF PutWithdrawalPairing
  <1>3. CASE PutWithdrawalPairingCursor
    BY <1>t, <1>3 DEF PutWithdrawalPairingCursor
  <1>4. CASE CachePairings
    BY <1>t, <1>4 DEF CachePairings
  <1>5. CASE FailPairingWrite
    BY <1>t, <1>5 DEF FailPairingWrite
  <1>6. ASSUME NEW found \in [Deposits -> WithdrawalAnswers], NEW count \in Cursors,
               CollectWithdrawals(found, count)
        PROVE  WithdrawalPhaseSound'
    BY <1>6, CollectWithdrawalsSound
  <1>7. CASE PutWithdrawalInfo
    <2>1. PICK d \in todo :
            /\ disk' = [disk EXCEPT !.complete = @ \cup {d}]
            /\ todo' = todo \ {d}
      BY <1>7 DEF PutWithdrawalInfo
    <2>2. disk'.complete = disk.complete \cup {d}
      BY <1>s, <2>1 DEF Stores
    <2>3. pc = "withdrawalRows" /\ UNCHANGED <<cache, pc, next, answers>>
      BY <1>7 DEF PutWithdrawalInfo
    <2> QED
      BY <1>t, <2>1, <2>2, <2>3
  <1>8. CASE PutWithdrawalStatusCursor
    <2>1. /\ pc = "withdrawalRows" /\ pc' = "pairingPurge" /\ todo = {}
          /\ todo' = OldPairings(next) /\ purged' = 0 .. (next - 1)
          /\ disk'.complete = disk.complete
          /\ UNCHANGED <<cache, next, answers>>
      BY <1>s, <1>8 DEF PutWithdrawalStatusCursor, RowsWritten, Stores
    <2>2. OldPairings(next) \subseteq 0 .. (next - 1)
      BY DEF OldPairings
    <2> QED
      BY <1>t, <2>1, <2>2
  <1>9. CASE FailWithdrawalWrite
    BY <1>t, <1>9 DEF FailWithdrawalWrite
  <1>10. CASE DelWithdrawalPairing
    <2>1. /\ pc = "pairingPurge" /\ disk'.complete = disk.complete /\ todo' \subseteq todo
          /\ UNCHANGED <<cache, pc, next, answers, purged>>
      BY <1>s, <1>10 DEF DelWithdrawalPairing, Stores
    <2> QED
      BY <1>t, <2>1
  <1>11. CASE FailPairingPurge
    BY <1>t, <1>11 DEF FailPairingPurge
  <1>12. CASE CacheWithdrawals
    BY <1>t, <1>12 DEF CacheWithdrawals
  <1>13. ASSUME NEW found \in [Deposits -> ReimbursementAnswers],
                CollectReimbursements(found)
         PROVE  WithdrawalPhaseSound'
    BY <1>t, <1>13 DEF CollectReimbursements
  <1>14. CASE PutReimbursementStatusCursor
    BY <1>t, <1>14 DEF PutReimbursementStatusCursor
  <1>15. CASE FailReimbursementCursor
    BY <1>t, <1>15 DEF FailReimbursementCursor
  <1>16. ASSUME NEW d \in Deposits, DelWithdrawalInfo(d)
         PROVE  WithdrawalPhaseSound'
    BY <1>t, <1>16 DEF DelWithdrawalInfo
  <1>17. ASSUME NEW d \in Deposits, FailWithdrawalDelete(d)
         PROVE  WithdrawalPhaseSound'
    BY <1>t, <1>17 DEF FailWithdrawalDelete
  <1>18. CASE CacheReimbursements
    BY <1>t, <1>18 DEF CacheReimbursements
  <1>19. CASE Flush
    BY <1>t, <1>19 DEF Flush
  <1>20. CASE Crash
    BY <1>t, <1>20 DEF Crash
  <1>21. CASE UNCHANGED vars
    BY <1>t, <1>21 DEF vars
  <1> QED
    BY <1>1, <1>2, <1>3, <1>4, <1>5, <1>6, <1>7, <1>8, <1>9, <1>10, <1>11, <1>12, <1>13,
       <1>14, <1>15, <1>16, <1>17, <1>18, <1>19, <1>20, <1>21 DEF Next, TaskStep

\* The reimbursement phase passes only settled reimbursements.
LEMMA CollectReimbursementsSound ==
    ASSUME IInv, NEW found \in [Deposits -> ReimbursementAnswers],
           CollectReimbursements(found)
    PROVE  ReimbursementPhaseSound'
  <1> DEFINE pending == {d \in ReimbursementCandidates : d < cache.wCur}
  <1>t. /\ TypeOK /\ CursorOrder /\ CursorsAgree /\ HandoffRetained /\ FailedHasNoRow
    BY DEF IInv
  <1>1. PICK stop \in Cursors :
          /\ StopsSparse(cache.rCur, stop, Terminal(found), cache.wCur, pending)
          /\ next' = stop
          /\ todo' = {d \in 0 .. (stop - 1) : cache.withdrawals[d] # "none"}
    BY DEF CollectReimbursements
  <1>2. cache.rCur <= cache.wCur
    BY <1>t DEF CursorOrder, Ordered
  <1>3. /\ cache.rCur <= stop /\ stop <= cache.wCur
        /\ \A d \in cache.rCur .. (stop - 1) : d \in Terminal(found) \/ d \notin pending
    <2> HIDE DEF pending
    <2>1. cache.rCur \in Cursors /\ cache.wCur \in Cursors
      BY <1>t, TypeFacts
    <2>2. /\ cache.rCur <= stop
          /\ \A d \in cache.rCur .. (stop - 1) :
                d < cache.wCur /\ (d \in Terminal(found) \/ d \notin pending)
      BY <1>1 DEF StopsSparse, StopsAt
    <2> QED
      BY <1>2, <2>1, <2>2, StopsAtFrontier
  <1>4. \A d \in Deposits : found[d] # "none" => d >= cache.rCur /\ d \notin Failed
    <2> SUFFICES ASSUME NEW d \in Deposits, found[d] # "none"
                 PROVE  d >= cache.rCur /\ d \notin Failed
      OBVIOUS
    <2>1. d \in ReimbursementCandidates
      BY DEF CollectReimbursements
    <2>2. d >= cache.rCur /\ cache.withdrawals[d] # "none"
      BY <1>t, <2>1, TypeFacts DEF ReimbursementCandidates, IsComplete, Cursors
    <2> QED
      BY <1>t, <2>2 DEF FailedHasNoRow
  <1>5. \A d \in cache.rCur .. (stop - 1) : d \notin Failed => found[d] = "Deep"
    <2> SUFFICES ASSUME NEW d \in cache.rCur .. (stop - 1), d \notin Failed
                 PROVE  found[d] = "Deep"
      OBVIOUS
    <2>1. /\ d \in cache.rCur .. (cache.wCur - 1) /\ d \in cache.rCur .. (N - 1)
          /\ d < cache.wCur
      BY <1>t, <1>3, TypeFacts DEF Cursors
    <2>2. IsComplete(cache.withdrawals[d])
      BY <1>t, <2>1 DEF HandoffRetained, Handoff
    <2>3. d \in pending
      BY <2>1, <2>2 DEF ReimbursementCandidates
    <2>4. d \in Terminal(found)
      BY <1>3, <2>3
    <2> QED
      BY <2>4 DEF Terminal
  <1>6. /\ answers' = found /\ next' = stop /\ pc' = "reimbursementCursor"
        /\ UNCHANGED <<cache, purged>>
    BY <1>1 DEF CollectReimbursements
  <1>7. purged = {}
    BY <1>t DEF CursorsAgree, CollectReimbursements
  <1>8. todo' \cup purged' \subseteq 0 .. (stop - 1)
    BY <1>1, <1>6, <1>7
  <1> QED
    BY <1>3, <1>4, <1>5, <1>6, <1>8 DEF ReimbursementPhaseSound

\* Every step keeps the reimbursement phase sound.
LEMMA ReimbursementPhaseStep == IInv /\ [Next]_vars => ReimbursementPhaseSound'
  <1> SUFFICES ASSUME IInv, [Next]_vars
               PROVE  ReimbursementPhaseSound'
    OBVIOUS
  <1> USE DEF ReimbursementPhaseSound
  <1>t. TypeOK /\ ReimbursementPhaseSound
    BY DEF IInv
  <1>1. ASSUME NEW discovered, NEW known, NEW count,
               PlanPairings(discovered, known, count)
        PROVE  ReimbursementPhaseSound'
    BY <1>t, <1>1 DEF PlanPairings
  <1>2. CASE PutWithdrawalPairing
    BY <1>t, <1>2 DEF PutWithdrawalPairing
  <1>3. CASE PutWithdrawalPairingCursor
    BY <1>t, <1>3 DEF PutWithdrawalPairingCursor
  <1>4. CASE CachePairings
    BY <1>t, <1>4 DEF CachePairings
  <1>5. CASE FailPairingWrite
    BY <1>t, <1>5 DEF FailPairingWrite
  <1>6. ASSUME NEW found \in [Deposits -> WithdrawalAnswers], NEW count \in Cursors,
               CollectWithdrawals(found, count)
        PROVE  ReimbursementPhaseSound'
    BY <1>t, <1>6 DEF CollectWithdrawals
  <1>7. CASE PutWithdrawalInfo
    BY <1>t, <1>7 DEF PutWithdrawalInfo
  <1>8. CASE PutWithdrawalStatusCursor
    BY <1>t, <1>8 DEF PutWithdrawalStatusCursor
  <1>9. CASE FailWithdrawalWrite
    BY <1>t, <1>9 DEF FailWithdrawalWrite
  <1>10. CASE DelWithdrawalPairing
    BY <1>t, <1>10 DEF DelWithdrawalPairing
  <1>11. CASE FailPairingPurge
    BY <1>t, <1>11 DEF FailPairingPurge
  <1>12. CASE CacheWithdrawals
    BY <1>t, <1>12 DEF CacheWithdrawals
  <1>13. ASSUME NEW found \in [Deposits -> ReimbursementAnswers],
                CollectReimbursements(found)
         PROVE  ReimbursementPhaseSound'
    BY <1>13, CollectReimbursementsSound
  <1>14. CASE PutReimbursementStatusCursor
    BY <1>t, <1>14 DEF PutReimbursementStatusCursor
  <1>15. CASE FailReimbursementCursor
    BY <1>t, <1>15 DEF FailReimbursementCursor
  <1>16. ASSUME NEW d \in Deposits, DelWithdrawalInfo(d)
         PROVE  ReimbursementPhaseSound'
    BY <1>t, <1>16 DEF DelWithdrawalInfo
  <1>17. ASSUME NEW d \in Deposits, FailWithdrawalDelete(d)
         PROVE  ReimbursementPhaseSound'
    BY <1>t, <1>17 DEF FailWithdrawalDelete
  <1>18. CASE CacheReimbursements
    BY <1>t, <1>18 DEF CacheReimbursements
  <1>19. CASE Flush
    BY <1>t, <1>19 DEF Flush
  <1>20. CASE Crash
    BY <1>t, <1>20 DEF Crash
  <1>21. CASE UNCHANGED vars
    BY <1>t, <1>21 DEF vars
  <1> QED
    BY <1>1, <1>2, <1>3, <1>4, <1>5, <1>6, <1>7, <1>8, <1>9, <1>10, <1>11, <1>12, <1>13,
       <1>14, <1>15, <1>16, <1>17, <1>18, <1>19, <1>20, <1>21 DEF Next, TaskStep

--------------------------------------------------------------------------------
(* The inductive invariant: rows *)

\* Settled withdrawals keep their rows for the next stage, no row is stranded below
\* its cursor, and failed deposits have none.
LEMMA RowStep ==
    IInv /\ [Next]_vars => HandoffRetained' /\ NoStrandedRow' /\ FailedHasNoRow'
  <1> SUFFICES ASSUME IInv, [Next]_vars
               PROVE  HandoffRetained' /\ NoStrandedRow' /\ FailedHasNoRow'
    OBVIOUS
  <1> USE DEF HandoffRetained, Handoff, NoStrandedRow, FailedHasNoRow
  <1>t. /\ TypeOK /\ HandoffRetained /\ NoStrandedRow /\ FailedHasNoRow
        /\ CursorsAgree /\ CursorOrder /\ WithdrawalPhaseSound /\ ReimbursementPhaseSound
    BY DEF IInv
  <1>c. /\ cache.wCur \in 0 .. N /\ cache.rCur \in 0 .. N
        /\ disk.wCur \in 0 .. N /\ disk.rCur \in 0 .. N
        /\ flushed.wCur \in 0 .. N /\ flushed.rCur \in 0 .. N
        /\ next \in 0 .. N
    BY <1>t, TypeFacts DEF Cursors
  <1>d. Deposits = 0 .. (N - 1) /\ Failed \subseteq Deposits
    BY DEF Deposits
  <1>1. ASSUME NEW discovered, NEW known, NEW count,
               PlanPairings(discovered, known, count)
        PROVE  HandoffRetained' /\ NoStrandedRow' /\ FailedHasNoRow'
    BY <1>t, <1>1 DEF PlanPairings
  <1>2. CASE PutWithdrawalPairing
    <2>1. /\ disk'.complete = disk.complete /\ disk'.wCur = disk.wCur /\ disk'.rCur = disk.rCur
          /\ UNCHANGED <<cache, flushed>>
      BY <1>t, <1>2 DEF PutWithdrawalPairing, TypeOK, Stores
    <2> QED
      BY <1>t, <2>1
  <1>3. CASE PutWithdrawalPairingCursor
    <2>1. /\ disk'.complete = disk.complete /\ disk'.wCur = disk.wCur /\ disk'.rCur = disk.rCur
          /\ UNCHANGED <<cache, flushed>>
      BY <1>t, <1>3 DEF PutWithdrawalPairingCursor, TypeOK, Stores
    <2> QED
      BY <1>t, <2>1
  <1>4. CASE CachePairings
    <2>1. /\ cache'.withdrawals = cache.withdrawals
          /\ cache'.reimbursements = cache.reimbursements
          /\ cache'.wCur = cache.wCur /\ cache'.rCur = cache.rCur
          /\ UNCHANGED <<disk, flushed>>
      BY <1>t, <1>4 DEF CachePairings, TypeOK, Caches
    <2> QED
      BY <1>t, <2>1
  <1>5. CASE FailPairingWrite
    BY <1>t, <1>5 DEF FailPairingWrite
  <1>6. ASSUME NEW found \in [Deposits -> WithdrawalAnswers], NEW count \in Cursors,
               CollectWithdrawals(found, count)
        PROVE  HandoffRetained' /\ NoStrandedRow' /\ FailedHasNoRow'
    BY <1>t, <1>6 DEF CollectWithdrawals
  <1>7. CASE PutWithdrawalInfo
    <2>1. PICK d \in todo : disk' = [disk EXCEPT !.complete = @ \cup {d}]
      BY <1>7 DEF PutWithdrawalInfo
    <2>2. /\ disk'.complete = disk.complete \cup {d}
          /\ disk'.wCur = disk.wCur /\ disk'.rCur = disk.rCur
          /\ pc = "withdrawalRows" /\ UNCHANGED <<cache, flushed>>
      BY <1>t, <1>7, <2>1 DEF PutWithdrawalInfo, TypeOK, Stores
    <2>3. d \notin Failed
      BY <1>t, <2>1, <2>2 DEF WithdrawalPhaseSound
    <2> QED
      BY <1>t, <2>2, <2>3
  <1>8. CASE PutWithdrawalStatusCursor
    <2>1. /\ disk'.complete = disk.complete /\ disk'.wCur = next /\ disk'.rCur = disk.rCur
          /\ pc = "withdrawalRows" /\ todo = {} /\ UNCHANGED <<cache, flushed>>
      BY <1>t, <1>8 DEF PutWithdrawalStatusCursor, RowsWritten, TypeOK, Stores
    <2>2. disk.wCur = cache.wCur
      BY <1>t, <2>1 DEF CursorsAgree
    <2>3. \A d \in disk.rCur .. (next - 1) : d \notin Failed => d \in disk.complete
      <3> SUFFICES ASSUME NEW d \in disk.rCur .. (next - 1), d \notin Failed
                   PROVE  d \in disk.complete
        OBVIOUS
      <3>1. d \in Deposits /\ d \in Int
        BY <1>c, <1>d
      <3>2. CASE d < disk.wCur
        BY <1>t, <1>c, <3>1, <3>2
      <3>3. CASE ~(d < disk.wCur)
        <4>1. d \in cache.wCur .. (next - 1)
          BY <1>c, <2>2, <3>1, <3>3
        <4>2. answers[d] = "Deep"
          BY <1>t, <2>1, <4>1 DEF WithdrawalPhaseSound
        <4> QED
          BY <1>t, <2>1, <3>1, <4>2 DEF WithdrawalPhaseSound, IsComplete
      <3> QED
        BY <3>2, <3>3
    <2> QED
      BY <1>t, <2>1, <2>3
  <1>9. CASE FailWithdrawalWrite
    BY <1>t, <1>9 DEF FailWithdrawalWrite
  <1>10. CASE DelWithdrawalPairing
    <2>1. /\ disk'.complete = disk.complete /\ disk'.wCur = disk.wCur /\ disk'.rCur = disk.rCur
          /\ UNCHANGED <<cache, flushed>>
      BY <1>t, <1>10 DEF DelWithdrawalPairing, TypeOK, Stores
    <2> QED
      BY <1>t, <2>1
  <1>11. CASE FailPairingPurge
    BY <1>t, <1>11 DEF FailPairingPurge
  <1>12. CASE CacheWithdrawals
    <2>1. /\ cache'.withdrawals = [d \in Deposits |->
                 IF answers[d] # "none" THEN answers[d] ELSE cache.withdrawals[d]]
          /\ cache'.reimbursements = cache.reimbursements
          /\ cache'.wCur = next /\ cache'.rCur = cache.rCur
          /\ pc = "pairingPurge" /\ UNCHANGED <<disk, flushed>>
      BY <1>t, <1>12 DEF CacheWithdrawals, TypeOK, Caches
    <2>2. /\ \A d \in Deposits : answers[d] # "none" => d >= cache.wCur /\ d \notin Failed
          /\ \A d \in cache.wCur .. (next - 1) : d \notin Failed => answers[d] = "Deep"
      BY <1>t, <2>1 DEF WithdrawalPhaseSound
    <2>3. HandoffRetained'
      <3>1. ASSUME NEW d \in cache.rCur .. (next - 1), d \notin Failed
            PROVE  IsComplete(cache'.withdrawals[d])
        <4>1. d \in Deposits /\ d \in Int
          BY <1>c, <1>d
        <4>2. CASE d < cache.wCur
          <5>1. IsComplete(cache.withdrawals[d])
            BY <1>t, <1>c, <3>1, <4>1, <4>2
          <5>2. answers[d] = "none"
            BY <1>c, <2>2, <4>1, <4>2
          <5> QED
            BY <2>1, <4>1, <5>1, <5>2
        <4>3. CASE ~(d < cache.wCur)
          <5>1. d \in cache.wCur .. (next - 1)
            BY <1>c, <4>1, <4>3
          <5> QED
            BY <2>1, <2>2, <3>1, <4>1, <5>1 DEF IsComplete
        <4> QED
          BY <4>2, <4>3
      <3> QED
        BY <1>t, <2>1, <3>1
    <2>4. NoStrandedRow'
      <3>1. ASSUME NEW d \in Deposits, cache'.withdrawals[d] = "InProgress"
            PROVE  d >= next
        <4>1. d >= cache.wCur /\ d \notin Failed /\ answers[d] # "Deep"
          <5>1. CASE answers[d] # "none"
            BY <2>1, <2>2, <3>1, <5>1
          <5>2. CASE answers[d] = "none"
            BY <1>t, <2>1, <3>1, <5>2
          <5> QED
            BY <5>1, <5>2
        <4>2. d \notin cache.wCur .. (next - 1)
          BY <2>2, <4>1
        <4> QED
          BY <1>c, <1>d, <4>1, <4>2
      <3> QED
        BY <1>t, <2>1, <3>1
    <2>5. FailedHasNoRow'
      BY <1>t, <1>d, <2>1, <2>2
    <2> QED
      BY <2>3, <2>4, <2>5
  <1>13. ASSUME NEW found \in [Deposits -> ReimbursementAnswers],
                CollectReimbursements(found)
         PROVE  HandoffRetained' /\ NoStrandedRow' /\ FailedHasNoRow'
    BY <1>t, <1>13 DEF CollectReimbursements
  <1>14. CASE PutReimbursementStatusCursor
    <2>1. /\ disk'.complete = disk.complete /\ disk'.wCur = disk.wCur /\ disk'.rCur = next
          /\ pc = "reimbursementCursor" /\ UNCHANGED <<cache, flushed>>
      BY <1>t, <1>14 DEF PutReimbursementStatusCursor, TypeOK, Stores
    <2>2. disk.rCur <= next
      BY <1>t, <2>1 DEF CursorsAgree, ReimbursementPhaseSound
    <2>3. next .. (disk.wCur - 1) \subseteq disk.rCur .. (disk.wCur - 1)
      BY <1>c, <2>2
    <2> QED
      BY <1>t, <2>1, <2>3
  <1>15. CASE FailReimbursementCursor
    BY <1>t, <1>15 DEF FailReimbursementCursor
  <1>16. ASSUME NEW d \in Deposits, DelWithdrawalInfo(d)
         PROVE  HandoffRetained' /\ NoStrandedRow' /\ FailedHasNoRow'
    <2>1. /\ disk'.complete = disk.complete \ {d}
          /\ disk'.wCur = disk.wCur /\ disk'.rCur = disk.rCur
          /\ pc = "withdrawalPurge" /\ d \in todo /\ UNCHANGED <<cache, flushed>>
      BY <1>t, <1>16 DEF DelWithdrawalInfo, TypeOK, Stores
    <2>2. d < disk.rCur
      BY <1>t, <1>c, <2>1 DEF CursorsAgree, ReimbursementPhaseSound
    <2>3. d \notin disk.rCur .. (disk.wCur - 1)
      BY <1>c, <2>2
    <2> QED
      BY <1>t, <2>1, <2>3
  <1>17. ASSUME NEW d \in Deposits, FailWithdrawalDelete(d)
         PROVE  HandoffRetained' /\ NoStrandedRow' /\ FailedHasNoRow'
    BY <1>t, <1>17 DEF FailWithdrawalDelete
  <1>18. CASE CacheReimbursements
    <2>1. /\ cache'.withdrawals = [d \in Deposits |->
                 IF d \in purged THEN "none" ELSE cache.withdrawals[d]]
          /\ cache'.reimbursements = [d \in Deposits |->
                 ReimbursementRow(answers[d], cache.reimbursements[d])]
          /\ cache'.wCur = cache.wCur /\ cache'.rCur = next
          /\ pc = "withdrawalPurge" /\ UNCHANGED <<disk, flushed>>
      BY <1>t, <1>18 DEF CacheReimbursements, TypeOK, Caches
    <2>2. /\ \A d \in Deposits : answers[d] # "none" => d >= cache.rCur /\ d \notin Failed
          /\ \A d \in cache.rCur .. (next - 1) : d \notin Failed => answers[d] = "Deep"
          /\ purged \subseteq 0 .. (next - 1) /\ cache.rCur <= next
      BY <1>t, <2>1 DEF ReimbursementPhaseSound
    <2>3. HandoffRetained'
      <3>1. ASSUME NEW d \in next .. (cache.wCur - 1), d \notin Failed
            PROVE  IsComplete(cache'.withdrawals[d])
        <4>1. d \in Deposits /\ d \notin purged
          BY <1>c, <1>d, <2>2
        <4>2. d \in cache.rCur .. (cache.wCur - 1)
          BY <1>c, <2>2
        <4> QED
          BY <1>t, <2>1, <3>1, <4>1, <4>2
      <3> QED
        BY <1>t, <2>1, <3>1
    <2>4. NoStrandedRow'
      <3>1. ASSUME NEW d \in Deposits, cache'.reimbursements[d] # "none"
            PROVE  d >= next
        <4>1. d >= cache.rCur /\ d \notin Failed /\ answers[d] # "Deep"
          <5>1. cache'.reimbursements[d] = ReimbursementRow(answers[d], cache.reimbursements[d])
            BY <2>1
          <5>2. answers[d] # "Deep"
            BY <3>1, <5>1 DEF ReimbursementRow
          <5>3. CASE answers[d] # "none"
            BY <2>2, <5>2, <5>3
          <5>4. CASE answers[d] = "none"
            <6>1. cache.reimbursements[d] # "none"
              BY <3>1, <5>1, <5>4 DEF ReimbursementRow
            <6> QED
              BY <1>t, <5>2, <6>1
          <5> QED
            BY <5>3, <5>4
        <4>2. d \notin cache.rCur .. (next - 1)
          BY <2>2, <4>1
        <4> QED
          BY <1>c, <1>d, <4>1, <4>2
      <3>2. \A d \in Deposits : cache'.withdrawals[d] = "InProgress" => d >= cache.wCur
        BY <1>t, <2>1
      <3> QED
        BY <2>1, <3>1, <3>2
    <2>5. FailedHasNoRow'
      BY <1>t, <1>d, <2>1, <2>2 DEF ReimbursementRow
    <2> QED
      BY <2>3, <2>4, <2>5
  <1>19. CASE Flush
    BY <1>t, <1>19 DEF Flush
  <1>20. CASE Crash
    <2>1. /\ cache'.withdrawals = [d \in Deposits |->
                 IF d \in flushed.complete THEN "Complete" ELSE "none"]
          /\ cache'.reimbursements = NoAnswers
          /\ cache'.wCur = flushed.wCur /\ cache'.rCur = flushed.rCur
          /\ disk' = flushed /\ flushed' = flushed
      BY <1>20 DEF Crash, Hydrate
    <2>2. flushed.rCur .. (flushed.wCur - 1) \subseteq Deposits
      BY <1>c, <1>d
    <2>3. HandoffRetained'
      BY <1>t, <2>1, <2>2 DEF IsComplete
    <2>4. NoStrandedRow' /\ FailedHasNoRow'
      BY <1>t, <1>d, <2>1 DEF NoAnswers
    <2> QED
      BY <2>3, <2>4
  <1>21. CASE UNCHANGED vars
    BY <1>t, <1>21 DEF vars
  <1> QED
    BY <1>1, <1>2, <1>3, <1>4, <1>5, <1>6, <1>7, <1>8, <1>9, <1>10, <1>11, <1>12, <1>13,
       <1>14, <1>15, <1>16, <1>17, <1>18, <1>19, <1>20, <1>21 DEF Next, TaskStep

--------------------------------------------------------------------------------
(* The theorems *)

\* Initially nothing is paired, settled or served.
LEMMA InvariantInit == Init => IInv
  <1> SUFFICES ASSUME Init PROVE IInv
    OBVIOUS
  <1>1. TypeOK
    BY TypeInit
  <1>2. PairingIsFIFO /\ NoPairingLost
    BY RankOfZero DEF Init, PairingIsFIFO, NoPairingLost, FifoIn, Unpaired, EmptyStore,
                      Hydrate, NoPairs, ZeroCursor
  <1>3. CursorOrder /\ CursorsAgree /\ FlushedBehind
    BY DEF Init, CursorOrder, Ordered, CursorsAgree, FlushedBehind, EmptyStore, Hydrate,
           ZeroCursor
  <1>4. HandoffRetained /\ NoStrandedRow /\ FailedHasNoRow
    <2>1. Failed \subseteq Deposits
      BY DEF Deposits
    <2> QED
      BY <2>1 DEF Init, HandoffRetained, Handoff, NoStrandedRow, FailedHasNoRow, EmptyStore,
                  Hydrate, NoAnswers
  <1>5. PlanSound /\ WithdrawalPhaseSound /\ ReimbursementPhaseSound
    BY DEF Init, PlanSound, WithdrawalPhaseSound, ReimbursementPhaseSound, NoPlan, NoPairs
  <1>6. PairedInOrder
    BY DEF Init, PairedInOrder, RunIn, EmptyStore, Hydrate, NoPairs
  <1> QED
    BY <1>1, <1>2, <1>3, <1>4, <1>5, <1>6 DEF IInv

\* Every step preserves the invariant.
LEMMA InvariantStep == IInv /\ [Next]_vars => IInv'
  <1> SUFFICES ASSUME IInv, [Next]_vars
               PROVE  IInv'
    OBVIOUS
  <1>1. TypeOK'
    BY TypeStep DEF IInv
  <1>2. PairingIsFIFO' /\ NoPairingLost' /\ PlanSound'
    BY PairingStep, PlanStep
  <1>3. CursorOrder' /\ CursorsAgree' /\ FlushedBehind'
    BY CursorStep
  <1>4. WithdrawalPhaseSound' /\ ReimbursementPhaseSound'
    BY WithdrawalPhaseStep, ReimbursementPhaseStep
  <1>5. HandoffRetained' /\ NoStrandedRow' /\ FailedHasNoRow'
    BY RowStep
  <1>6. PairedInOrder'
    BY OrderStep
  <1> QED
    BY <1>1, <1>2, <1>3, <1>4, <1>5, <1>6 DEF IInv

\* The inductive invariant holds.
THEOREM Invariance == Spec => []IInv
  BY InvariantInit, InvariantStep, PTL DEF Spec

\* Withdrawal requests are paired in FIFO order in memory, in the database and in
\* what any kill leaves of it.
THEOREM FifoPairing == Spec => []PairingIsFIFO
  <1>1. IInv => PairingIsFIFO
    BY DEF IInv
  <1> QED
    BY Invariance, <1>1, PTL

\* No status cursor overtakes the one before it.
THEOREM CursorsOrdered == Spec => []CursorOrder
  <1>1. IInv => CursorOrder
    BY DEF IInv
  <1> QED
    BY Invariance, <1>1, PTL

\* A completed deposit that has been paired keeps its pairing until its withdrawal
\* is settled.
THEOREM PairingsKept == Spec => []NoPairingLost
  <1>1. IInv => NoPairingLost
    BY DEF IInv
  <1> QED
    BY Invariance, <1>1, PTL

\* A settled withdrawal keeps its row until its reimbursement is settled.
THEOREM HandoffKept == Spec => []HandoffRetained
  <1>1. IInv => HandoffRetained
    BY DEF IInv
  <1> QED
    BY Invariance, <1>1, PTL

\* No row that still has to change is left below the cursor that would update it.
THEOREM NothingStranded == Spec => []NoStrandedRow
  <1>1. IInv => NoStrandedRow
    BY DEF IInv
  <1> QED
    BY Invariance, <1>1, PTL

\* A set of natural numbers that is not empty has a least member.
LEMMA LeastNatural ==
    ASSUME NEW T \in SUBSET Nat, T # {}
    PROVE  \E x \in T : \A y \in T : x <= y
  <1>1. PICK x \in T : \A y \in T : <<y, x>> \notin OpToRel(<, Nat)
    BY NatLessThanWellFounded, WFMin
  <1>2. \A y \in T : x \in Nat /\ y \in Nat /\ ~(y < x)
    BY <1>1 DEF OpToRel
  <1>3. \A y \in T : x <= y
    BY <1>2
  <1> QED
    BY <1>3

\* The candidates are finitely many deposits, and the sequence number of one is its rank.
LEMMA CandidateFacts ==
    ASSUME IInv
    PROVE  /\ WithdrawalCandidates \subseteq Deposits
           /\ IsFiniteSet(WithdrawalCandidates)
           /\ \A d \in WithdrawalCandidates :
                 d \notin Failed /\ cache.wCur <= d /\ cache.pairs[d] = Rank(d)
  <1>1. cache.wCur \in Cursors
    BY TypeFacts DEF IInv
  <1>2. WithdrawalCandidates \subseteq Deposits
    BY <1>1 DEF WithdrawalCandidates, Deposits, Cursors
  <1>3. \A d \in WithdrawalCandidates : cache.wCur <= d /\ cache.pairs[d] # NoSeq
    BY <1>1 DEF WithdrawalCandidates, Cursors
  <1>4. IsFiniteSet(Deposits)
    <2>1. 0 \in Int /\ N - 1 \in Int
      OBVIOUS
    <2> QED
      BY <2>1, FS_Interval DEF Deposits
  <1>5. IsFiniteSet(WithdrawalCandidates)
    BY <1>2, <1>4, FS_Subset
  <1> QED
    BY <1>2, <1>3, <1>5 DEF IInv, PairingIsFIFO, FifoIn

\* The first candidate and any other are fewer ranks apart than there are candidates:
\* every deposit between them that takes a request is one.
LEMMA CandidatesClose ==
    ASSUME IInv, NEW c \in WithdrawalCandidates, NEW d \in WithdrawalCandidates, c <= d
    PROVE  /\ Rank(d) - Rank(c) < Cardinality(WithdrawalCandidates)
           /\ Rank(d) >= Rank(c)
  <1> DEFINE between == {b \in c .. (d - 1) : b \notin Failed}
  <1>c. c \in Deposits /\ d \in Deposits
    BY CandidateFacts
  <1>n. c \in Nat /\ d \in Nat /\ c \in Cursors /\ d \in Cursors /\ d < N
    BY <1>c DEF Deposits, Cursors
  <1>1. IsFiniteSet(between) /\ Cardinality(between) \in Nat
    <2>1. c \in Int /\ d - 1 \in Int
      BY <1>n
    <2> QED
      BY <2>1, TakersFinite
  <1>2. between \subseteq WithdrawalCandidates
    <2> SUFFICES ASSUME NEW b \in between PROVE b \in WithdrawalCandidates
      OBVIOUS
    <2>1. b \in Deposits /\ b < d /\ c <= b /\ b \notin Failed
      BY <1>n DEF Deposits
    <2>2. cache.wCur <= c /\ cache.wCur \in Nat
      BY CandidateFacts, TypeFacts DEF IInv, Cursors
    <2>3. cache.wCur <= b
      BY <1>n, <2>1, <2>2 DEF Deposits
    <2>4. cache.pairs[d] # NoSeq
      BY DEF WithdrawalCandidates
    <2>5. cache.pairs[b] # NoSeq
      BY <1>c, <2>1, <2>3, <2>4 DEF IInv, PairedInOrder, RunIn
    <2> QED
      BY <2>1, <2>2, <2>3, <2>5 DEF WithdrawalCandidates, Deposits
  <1>3. d \notin between
    BY <1>n
  <1>4. between \cup {d} \in SUBSET WithdrawalCandidates
    BY <1>2
  <1>5. Cardinality(between \cup {d}) = Cardinality(between) + 1
    BY <1>1, <1>3, FS_AddElement
  <1>6. /\ Cardinality(between \cup {d}) <= Cardinality(WithdrawalCandidates)
        /\ Cardinality(WithdrawalCandidates) \in Nat
    BY <1>4, CandidateFacts, FS_Subset, FS_CardinalityType
  <1>7. Rank(d) = Rank(c) + Cardinality(between)
    BY <1>n, RankSplits
  <1>8. Rank(c) \in Nat /\ Rank(d) \in Nat
    BY <1>n, RankType
  <1> HIDE DEF between
  <1> QED
    BY <1>1, <1>5, <1>6, <1>7, <1>8

\* The sequence numbers of the candidates fill the run of rows that is read for them.
THEOREM CandidatesAreContiguous == Spec => []CandidatesContiguous
  <1>1. ASSUME IInv PROVE CandidatesContiguous
    <2> SUFFICES ASSUME NEW d \in WithdrawalCandidates
                 PROVE  \E c \in WithdrawalCandidates :
                            /\ IsFirst(c, WithdrawalCandidates)
                            /\ cache.pairs[d] - cache.pairs[c] < Cardinality(WithdrawalCandidates)
                            /\ cache.pairs[d] >= cache.pairs[c]
      BY DEF CandidatesContiguous
    <2>1. WithdrawalCandidates \in SUBSET Nat /\ WithdrawalCandidates # {}
      BY <1>1, CandidateFacts DEF Deposits
    <2>2. PICK c \in WithdrawalCandidates : \A e \in WithdrawalCandidates : c <= e
      BY <2>1, LeastNatural
    <2>3. /\ Rank(d) - Rank(c) < Cardinality(WithdrawalCandidates)
          /\ Rank(d) >= Rank(c)
      BY <1>1, <2>2, CandidatesClose
    <2>4. cache.pairs[c] = Rank(c) /\ cache.pairs[d] = Rank(d)
      BY <1>1, CandidateFacts
    <2> QED
      BY <2>2, <2>3, <2>4 DEF IsFirst
  <1> QED
    BY Invariance, <1>1, PTL

\* Neither the cache nor what a kill would leave is ahead of the database, and the cache
\* serves the pairings that the database holds.
THEOREM WriteAhead == Spec => []CacheBehindDisk
  <1>1. ASSUME IInv PROVE CacheBehindDisk
    <2>t. /\ TypeOK /\ PairingIsFIFO /\ NoPairingLost /\ CursorsAgree /\ FlushedBehind
          /\ PlanSound /\ WithdrawalPhaseSound /\ ReimbursementPhaseSound
      BY <1>1 DEF IInv
    <2>c. /\ cache.pairCur.deposit \in 0 .. N /\ cache.wCur \in 0 .. N /\ cache.rCur \in 0 .. N
          /\ disk.pairCur.deposit \in 0 .. N /\ disk.wCur \in 0 .. N /\ disk.rCur \in 0 .. N
      BY <2>t, TypeFacts DEF Cursors
    <2>1. cache.pairCur.deposit <= disk.pairCur.deposit
      BY <2>t, <2>c DEF CursorsAgree, PlanSound
    <2>2. cache.wCur <= disk.wCur
      BY <2>t, <2>c DEF CursorsAgree, WithdrawalPhaseSound
    <2>3. cache.rCur <= disk.rCur
      BY <2>t, <2>c DEF CursorsAgree, ReimbursementPhaseSound
    <2>4. ASSUME NEW d \in cache.wCur .. (cache.pairCur.deposit - 1), disk.wCur <= d
          PROVE  cache.pairs[d] = disk.pairs[d]
      <3>1. d \in Deposits /\ d \in disk.wCur .. (disk.pairCur.deposit - 1)
        BY <2>c, <2>1, <2>4 DEF Deposits
      <3>2. CASE d \in Failed
        BY <2>t, <3>1, <3>2 DEF PairingIsFIFO, FifoIn
      <3>3. CASE d \notin Failed
        <4>1. cache.pairs[d] # NoSeq /\ disk.pairs[d] # NoSeq
          BY <2>t, <2>4, <3>1, <3>3 DEF NoPairingLost, Unpaired
        <4> QED
          BY <2>t, <3>1, <4>1 DEF PairingIsFIFO, FifoIn
      <3> QED
        BY <3>2, <3>3
    <2>5. pc = "idle" => cache.wCur = disk.wCur /\ cache.rCur = disk.rCur
      BY <2>t DEF CursorsAgree
    <2> QED
      BY <2>t, <2>1, <2>2, <2>3, <2>4, <2>5 DEF CacheBehindDisk
  <1> QED
    BY Invariance, <1>1, PTL

--------------------------------------------------------------------------------
(* Action properties *)

\* The steps that move a status cursor of the database.
LEMMA CursorMoves ==
    ASSUME TypeOK, [Next]_vars
    PROVE  \/ disk'.wCur = disk.wCur /\ disk'.rCur = disk.rCur
           \/ PutWithdrawalStatusCursor
           \/ PutReimbursementStatusCursor
           \/ Crash
  <1> DEFINE Still == disk'.wCur = disk.wCur /\ disk'.rCur = disk.rCur
  <1>0. disk \in Stores
    BY DEF TypeOK
  <1>1. ASSUME NEW discovered, NEW known, NEW count,
               PlanPairings(discovered, known, count)
        PROVE  Still
    BY <1>1 DEF PlanPairings
  <1>2. CASE PutWithdrawalPairing
    BY <1>0, <1>2 DEF PutWithdrawalPairing, Stores
  <1>3. CASE PutWithdrawalPairingCursor
    BY <1>0, <1>3 DEF PutWithdrawalPairingCursor, Stores
  <1>4. CASE CachePairings
    BY <1>4 DEF CachePairings
  <1>5. CASE FailPairingWrite
    BY <1>5 DEF FailPairingWrite
  <1>6. ASSUME NEW found \in [Deposits -> WithdrawalAnswers], NEW count \in Cursors,
               CollectWithdrawals(found, count)
        PROVE  Still
    BY <1>6 DEF CollectWithdrawals
  <1>7. CASE PutWithdrawalInfo
    BY <1>0, <1>7 DEF PutWithdrawalInfo, Stores
  <1>9. CASE FailWithdrawalWrite
    BY <1>9 DEF FailWithdrawalWrite
  <1>10. CASE DelWithdrawalPairing
    BY <1>0, <1>10 DEF DelWithdrawalPairing, Stores
  <1>11. CASE FailPairingPurge
    BY <1>11 DEF FailPairingPurge
  <1>12. CASE CacheWithdrawals
    BY <1>12 DEF CacheWithdrawals
  <1>13. ASSUME NEW found \in [Deposits -> ReimbursementAnswers],
                CollectReimbursements(found)
         PROVE  Still
    BY <1>13 DEF CollectReimbursements
  <1>15. CASE FailReimbursementCursor
    BY <1>15 DEF FailReimbursementCursor
  <1>16. ASSUME NEW d \in Deposits, DelWithdrawalInfo(d)
         PROVE  Still
    BY <1>0, <1>16 DEF DelWithdrawalInfo, Stores
  <1>17. ASSUME NEW d \in Deposits, FailWithdrawalDelete(d)
         PROVE  Still
    BY <1>17 DEF FailWithdrawalDelete
  <1>18. CASE CacheReimbursements
    BY <1>18 DEF CacheReimbursements
  <1>19. CASE Flush
    BY <1>19 DEF Flush
  <1>21. CASE UNCHANGED vars
    BY <1>21 DEF vars
  <1> QED
    BY <1>1, <1>2, <1>3, <1>4, <1>5, <1>6, <1>7, <1>9, <1>10, <1>11, <1>12, <1>13,
       <1>15, <1>16, <1>17, <1>18, <1>19, <1>21 DEF Next, TaskStep

\* The database's status cursors pass only what this tick found settled, and the
\* withdrawal cursor only what is in the database already.
THEOREM SettledPassed == Spec => OnlySettledPassed
  <1> DEFINE Passed ==
        /\ \A d \in disk.wCur .. (disk'.wCur - 1) :
             d \in Failed \/ (answers[d] = "Deep" /\ d \in disk.complete)
        /\ \A d \in disk.rCur .. (disk'.rCur - 1) : d \in Failed \/ answers[d] = "Deep"
  <1>1. ASSUME IInv, [Next]_vars PROVE Passed
    <2>t. /\ TypeOK /\ CursorsAgree /\ FlushedBehind
          /\ WithdrawalPhaseSound /\ ReimbursementPhaseSound
      BY <1>1 DEF IInv
    <2>c. /\ disk.wCur \in 0 .. N /\ disk.rCur \in 0 .. N /\ next \in 0 .. N
          /\ flushed.wCur \in 0 .. N /\ flushed.rCur \in 0 .. N
      BY <2>t, TypeFacts DEF Cursors
    <2>1. CASE disk'.wCur = disk.wCur /\ disk'.rCur = disk.rCur
      BY <2>c, <2>1
    <2>2. CASE PutWithdrawalStatusCursor
      <3>1. /\ disk'.wCur = next /\ disk'.rCur = disk.rCur
            /\ pc = "withdrawalRows" /\ todo = {}
        BY <2>t, <2>2 DEF PutWithdrawalStatusCursor, RowsWritten, TypeOK, Stores
      <3>2. disk.wCur = cache.wCur
        BY <2>t, <3>1 DEF CursorsAgree
      <3>3. ASSUME NEW d \in disk.wCur .. (next - 1), d \notin Failed
            PROVE  answers[d] = "Deep" /\ d \in disk.complete
        <4>1. d \in Deposits
          BY <2>c DEF Deposits
        <4>2. answers[d] = "Deep"
          BY <2>t, <3>1, <3>2, <3>3 DEF WithdrawalPhaseSound
        <4> QED
          BY <2>t, <3>1, <4>1, <4>2 DEF WithdrawalPhaseSound, IsComplete
      <3> QED
        BY <2>c, <3>1, <3>3
    <2>3. CASE PutReimbursementStatusCursor
      <3>1. disk'.wCur = disk.wCur /\ disk'.rCur = next /\ pc = "reimbursementCursor"
        BY <2>t, <2>3 DEF PutReimbursementStatusCursor, TypeOK, Stores
      <3>2. disk.rCur = cache.rCur
        BY <2>t, <3>1 DEF CursorsAgree
      <3> QED
        BY <2>t, <2>c, <3>1, <3>2 DEF ReimbursementPhaseSound
    <2>4. CASE Crash
      BY <2>t, <2>c, <2>4 DEF Crash, FlushedBehind
    <2> QED
      BY <1>1, <2>t, <2>1, <2>2, <2>3, <2>4, CursorMoves
  <1> QED
    BY <1>1, Invariance, PTL DEF Spec, OnlySettledPassed

\* What a kill would leave never loses ground.
THEOREM ProgressIsDurable == Spec => DurableProgress
  <1> DEFINE Kept ==
        /\ flushed'.pairCur.deposit >= flushed.pairCur.deposit
        /\ flushed'.wCur >= flushed.wCur
        /\ flushed'.rCur >= flushed.rCur
  <1>1. ASSUME IInv, [Next]_vars PROVE Kept
    <2>t. TypeOK /\ FlushedBehind
      BY <1>1 DEF IInv
    <2>c. /\ flushed.pairCur.deposit \in 0 .. N /\ flushed.wCur \in 0 .. N /\ flushed.rCur \in 0 .. N
          /\ disk.pairCur.deposit \in 0 .. N /\ disk.wCur \in 0 .. N /\ disk.rCur \in 0 .. N
      BY <2>t, TypeFacts DEF Cursors
    <2>1. flushed' = flushed \/ flushed' = disk
      BY <1>1 DEF Next, TaskStep, vars, PlanPairings, PutWithdrawalPairing,
                  PutWithdrawalPairingCursor, CachePairings, FailPairingWrite,
                  CollectWithdrawals, PutWithdrawalInfo, PutWithdrawalStatusCursor,
                  FailWithdrawalWrite, DelWithdrawalPairing, FailPairingPurge,
                  CacheWithdrawals, CollectReimbursements, PutReimbursementStatusCursor,
                  FailReimbursementCursor, DelWithdrawalInfo, FailWithdrawalDelete,
                  CacheReimbursements, Flush, Crash
    <2> QED
      BY <2>t, <2>c, <2>1 DEF FlushedBehind
  <1> QED
    BY <1>1, Invariance, PTL DEF Spec, DurableProgress

--------------------------------------------------------------------------------
(* BridgeMonitor implements WithdrawalPipeline.  By the inductive invariant the *)
(* three cursors of a store determine what it shows of the pipeline (Shape), so *)
(* only the steps that move a cursor matter: each of the three cursor writes is *)
(* one stage of the pipeline, and every other step of a tick is a stutter.      *)

\* A state of the pipeline, and the one with its three stages at p, w and r.
PipelineState(p, w, r, t, m) ==
    [paired |-> p, settled |-> w, done |-> r, taken |-> t, matched |-> m]

RanksBetween(w, p) ==
    [d \in Deposits |-> IF w <= d /\ d < p /\ d \notin Failed THEN Rank(d) ELSE NoSeq]

Shape(p, w, r) == PipelineState(p, w, r, Rank(p), RanksBetween(w, p))

ShapeOf(s) == Shape(s.pairCur.deposit, s.wCur, s.rCur)

\* A store that is FIFO and has lost no pairing shows what its cursors say.
LEMMA StoreShows ==
    ASSUME NEW s \in Stores, FifoIn(s), Unpaired(s) = {}
    PROVE  PipelineOf(s) = ShapeOf(s)
  <1>1. ASSUME NEW d \in Deposits
        PROVE  (IF s.wCur <= d /\ d < s.pairCur.deposit THEN s.pairs[d] ELSE NoSeq)
                 = (IF s.wCur <= d /\ d < s.pairCur.deposit /\ d \notin Failed
                    THEN Rank(d) ELSE NoSeq)
    <2>1. s.wCur \in Int /\ s.pairCur.deposit \in Int /\ d \in Int
      BY DEF Stores, PairCursors, Cursors, Deposits
    <2>2. CASE d \in Failed
      BY <2>2 DEF FifoIn
    <2>3. CASE d \notin Failed /\ s.wCur <= d /\ d < s.pairCur.deposit
      <3>1. d \in s.wCur .. (s.pairCur.deposit - 1)
        BY <2>1, <2>3
      <3>2. s.pairs[d] # NoSeq
        BY <2>3, <3>1 DEF Unpaired
      <3> QED
        BY <2>3, <3>2 DEF FifoIn
    <2> QED
      BY <2>2, <2>3
  <1> QED
    BY <1>1 DEF PipelineOf, ShapeOf, Shape, PipelineState, RanksBetween, FifoIn

\* What the invariant says of the two stores.
StoresShow ==
    /\ PipelineOf(disk) = ShapeOf(disk)
    /\ PipelineOf(flushed) = ShapeOf(flushed)
    /\ disk.pairCur.deposit \in 0 .. N /\ disk.wCur \in 0 .. N /\ disk.rCur \in 0 .. N
    /\ disk.rCur <= disk.wCur /\ disk.wCur <= disk.pairCur.deposit

\* Both stores show the pipeline that the invariant describes.
LEMMA BothStoresShow == IInv => StoresShow
  <1> SUFFICES ASSUME IInv
               PROVE  StoresShow
    OBVIOUS
  <1>1. disk \in Stores /\ flushed \in Stores
    BY DEF IInv, TypeOK
  <1>2. FifoIn(disk) /\ Unpaired(disk) = {} /\ FifoIn(flushed) /\ Unpaired(flushed) = {}
    BY DEF IInv, PairingIsFIFO, NoPairingLost
  <1>3. PipelineOf(disk) = ShapeOf(disk)
    BY <1>1, <1>2, StoreShows
  <1>4. PipelineOf(flushed) = ShapeOf(flushed)
    BY <1>1, <1>2, StoreShows
  <1> QED
    BY <1>3, <1>4, TypeFacts DEF StoresShow, IInv, CursorOrder, Ordered, Cursors

--------------------------------------------------------------------------------
(* The stages *)

\* The pipeline counts its takers as the monitor does.
LEMMA SameCount == \A S : Pipeline!Cardinality(S) = Cardinality(S)
  BY Zenon DEF Pipeline!Cardinality, Cardinality

\* Moving the first cursor pairs the deposits it passes.
LEMMA PairingStage ==
    ASSUME NEW p \in 0 .. N, NEW q \in 0 .. N, NEW w \in 0 .. N, NEW r \in 0 .. N,
           p < q, w <= p,
           PipelineOf(disk) = Shape(p, w, r), PipelineOf(disk)' = Shape(q, w, r),
           PipelineOf(flushed)' = PipelineOf(flushed)
    PROVE  Pipeline!Pair(q)
  <1>1. Rank(q) = Rank(p) + Cardinality(Pipeline!Takers(p, q))
    BY RankSplits DEF Pipeline!Takers
  <1>2. ASSUME NEW d \in Deposits
        PROVE  RanksBetween(w, q)[d]
                 = (IF d \in Pipeline!Takers(p, q)
                    THEN Rank(p) + Cardinality(Pipeline!Takers(p, d))
                    ELSE RanksBetween(w, p)[d])
    <2>1. d \in Pipeline!Takers(p, q) <=> p <= d /\ d < q /\ d \notin Failed
      BY DEF Pipeline!Takers, Deposits
    <2>2. CASE d \in Pipeline!Takers(p, q)
      <3>1. Rank(d) = Rank(p) + Cardinality(Pipeline!Takers(p, d))
        BY <2>1, <2>2, RankSplits DEF Pipeline!Takers, Deposits
      <3> QED
        BY <2>1, <2>2, <3>1 DEF RanksBetween, Deposits
    <2>3. CASE d \notin Pipeline!Takers(p, q)
      BY <2>1, <2>3 DEF RanksBetween, Deposits
    <2> QED
      BY <2>2, <2>3
  <1>3. /\ PipelineOf(disk).paired = p /\ PipelineOf(disk).taken = Rank(p)
        /\ PipelineOf(disk).matched = RanksBetween(w, p)
    BY DEF Shape, PipelineState
  <1>4. RanksBetween(w, q)
          = [d \in Pipeline!Deposits |->
               IF d \in Pipeline!Takers(p, q)
               THEN Rank(p) + Pipeline!Cardinality(Pipeline!Takers(p, d))
               ELSE RanksBetween(w, p)[d]]
    BY <1>2, SameCount DEF RanksBetween, Pipeline!Deposits, Deposits
  <1>5. Rank(q) = Rank(p) + Pipeline!Cardinality(Pipeline!Takers(p, q))
    BY <1>1, SameCount, Zenon
  <1>6. PipelineOf(disk)' = [PipelineOf(disk) EXCEPT
           !.paired = q, !.taken = Rank(q), !.matched = RanksBetween(w, q)]
    <2>1. [PipelineState(p, w, r, Rank(p), RanksBetween(w, p)) EXCEPT !.paired = q]
            = PipelineState(q, w, r, Rank(p), RanksBetween(w, p))
      BY DEF PipelineState
    <2>2. [PipelineState(q, w, r, Rank(p), RanksBetween(w, p)) EXCEPT !.taken = Rank(q)]
            = PipelineState(q, w, r, Rank(q), RanksBetween(w, p))
      BY DEF PipelineState
    <2>3. [PipelineState(q, w, r, Rank(q), RanksBetween(w, p)) EXCEPT
             !.matched = RanksBetween(w, q)]
            = PipelineState(q, w, r, Rank(q), RanksBetween(w, q))
      BY DEF PipelineState
    <2> QED
      BY <2>1, <2>2, <2>3, Zenon DEF Shape
  <1>7. PipelineOf(disk).paired < q
    BY <1>3
  <1> QED
    BY <1>3, <1>4, <1>5, <1>6, <1>7, Zenon DEF Pipeline!Pair

\* Moving the second cursor forgets the requests of the deposits it passes.
LEMMA SettlingStage ==
    ASSUME NEW p \in 0 .. N, NEW w \in 0 .. N, NEW x \in 0 .. N, NEW r \in 0 .. N,
           w < x, x <= p,
           PipelineOf(disk) = Shape(p, w, r), PipelineOf(disk)' = Shape(p, x, r),
           PipelineOf(flushed)' = PipelineOf(flushed)
    PROVE  Pipeline!Settle(x)
  <1>1. /\ PipelineOf(disk).settled = w /\ PipelineOf(disk).paired = p
        /\ PipelineOf(disk).matched = RanksBetween(w, p)
    BY DEF Shape, PipelineState
  <1>2. RanksBetween(x, p)
          = [d \in Pipeline!Deposits |->
               IF d < x THEN Pipeline!None ELSE RanksBetween(w, p)[d]]
    BY DEF RanksBetween, Pipeline!Deposits, Deposits, Pipeline!None, NoSeq
  <1>3. PipelineOf(disk)' = [PipelineOf(disk) EXCEPT
           !.settled = x, !.matched = RanksBetween(x, p)]
    <2>1. [PipelineState(p, w, r, Rank(p), RanksBetween(w, p)) EXCEPT !.settled = x]
            = PipelineState(p, x, r, Rank(p), RanksBetween(w, p))
      BY DEF PipelineState
    <2>2. [PipelineState(p, x, r, Rank(p), RanksBetween(w, p)) EXCEPT
             !.matched = RanksBetween(x, p)]
            = PipelineState(p, x, r, Rank(p), RanksBetween(x, p))
      BY DEF PipelineState
    <2> QED
      BY <2>1, <2>2, Zenon DEF Shape
  <1>4. PipelineOf(disk).settled < x /\ x <= PipelineOf(disk).paired
    BY <1>1
  <1> QED
    BY <1>1, <1>2, <1>3, <1>4, Zenon DEF Pipeline!Settle

\* Moving the last cursor finishes the deposits it passes.
LEMMA FinishingStage ==
    ASSUME NEW p \in 0 .. N, NEW w \in 0 .. N, NEW r \in 0 .. N, NEW x \in 0 .. N,
           r < x, x <= w,
           PipelineOf(disk) = Shape(p, w, r), PipelineOf(disk)' = Shape(p, w, x),
           PipelineOf(flushed)' = PipelineOf(flushed)
    PROVE  Pipeline!Finish(x)
  BY DEF Pipeline!Finish, Shape, PipelineState

--------------------------------------------------------------------------------
(* The refinement *)

\* The steps that move a cursor of the database or change what is flushed.
LEMMA ShapeMoves ==
    ASSUME TypeOK, [Next]_vars
    PROVE  \/ ShapeOf(disk)' = ShapeOf(disk) /\ flushed' = flushed
           \/ PutWithdrawalPairingCursor
           \/ PutWithdrawalStatusCursor
           \/ PutReimbursementStatusCursor
           \/ Flush
           \/ Crash
  <1> DEFINE Still == ShapeOf(disk)' = ShapeOf(disk) /\ flushed' = flushed
  <1>0. disk \in Stores
    BY DEF TypeOK
  <1>c. disk'.pairCur = disk.pairCur /\ disk'.wCur = disk.wCur /\ disk'.rCur = disk.rCur
          => ShapeOf(disk)' = ShapeOf(disk)
    BY DEF ShapeOf
  <1>1. ASSUME NEW discovered, NEW known, NEW count,
               PlanPairings(discovered, known, count)
        PROVE  Still
    BY <1>1, <1>c DEF PlanPairings
  <1>2. CASE PutWithdrawalPairing
    BY <1>0, <1>2, <1>c DEF PutWithdrawalPairing, Stores
  <1>4. CASE CachePairings
    BY <1>4, <1>c DEF CachePairings
  <1>5. CASE FailPairingWrite
    BY <1>5, <1>c DEF FailPairingWrite
  <1>6. ASSUME NEW found \in [Deposits -> WithdrawalAnswers], NEW count \in Cursors,
               CollectWithdrawals(found, count)
        PROVE  Still
    BY <1>6, <1>c DEF CollectWithdrawals
  <1>7. CASE PutWithdrawalInfo
    BY <1>0, <1>7, <1>c DEF PutWithdrawalInfo, Stores
  <1>9. CASE FailWithdrawalWrite
    BY <1>9, <1>c DEF FailWithdrawalWrite
  <1>10. CASE DelWithdrawalPairing
    BY <1>0, <1>10, <1>c DEF DelWithdrawalPairing, Stores
  <1>11. CASE FailPairingPurge
    BY <1>11, <1>c DEF FailPairingPurge
  <1>12. CASE CacheWithdrawals
    BY <1>12, <1>c DEF CacheWithdrawals
  <1>13. ASSUME NEW found \in [Deposits -> ReimbursementAnswers],
                CollectReimbursements(found)
         PROVE  Still
    BY <1>13, <1>c DEF CollectReimbursements
  <1>15. CASE FailReimbursementCursor
    BY <1>15, <1>c DEF FailReimbursementCursor
  <1>16. ASSUME NEW d \in Deposits, DelWithdrawalInfo(d)
         PROVE  Still
    BY <1>0, <1>16, <1>c DEF DelWithdrawalInfo, Stores
  <1>17. ASSUME NEW d \in Deposits, FailWithdrawalDelete(d)
         PROVE  Still
    BY <1>17, <1>c DEF FailWithdrawalDelete
  <1>18. CASE CacheReimbursements
    BY <1>18, <1>c DEF CacheReimbursements
  <1>21. CASE UNCHANGED vars
    BY <1>21, <1>c DEF vars
  <1> QED
    BY <1>1, <1>2, <1>4, <1>5, <1>6, <1>7, <1>9, <1>10, <1>11, <1>12, <1>13,
       <1>15, <1>16, <1>17, <1>18, <1>21 DEF Next, TaskStep

\* The empty database is the empty pipeline.
LEMMA PipelineInitially == Init => Pipeline!PipelineInit
  <1> SUFFICES ASSUME Init
               PROVE  PipelineOf(disk) = Pipeline!Empty /\ PipelineOf(flushed) = Pipeline!Empty
    BY DEF Pipeline!PipelineInit
  <1>1. PipelineOf(EmptyStore) = Pipeline!Empty
    BY DEF PipelineOf, EmptyStore, ZeroCursor, NoPairs, NoSeq,
           Pipeline!Empty, Pipeline!None, Pipeline!Deposits, Deposits
  <1> QED
    BY <1>1 DEF Init

\* Every step is a stage of the pipeline, a sync, a loss or a stutter.
LEMMA PipelineStep ==
    IInv /\ [Next]_vars => [Pipeline!PipelineNext]_(Pipeline!pipelineVars)
  <1> SUFFICES ASSUME IInv, [Next]_vars
               PROVE  \/ Pipeline!PipelineNext
                      \/ PipelineOf(disk)' = PipelineOf(disk)
                           /\ PipelineOf(flushed)' = PipelineOf(flushed)
    BY DEF Pipeline!pipelineVars
  <1>i. IInv'
    BY InvariantStep
  <1>a. /\ PipelineOf(disk) = ShapeOf(disk)
        /\ PipelineOf(flushed) = ShapeOf(flushed)
        /\ disk.pairCur.deposit \in 0 .. N /\ disk.wCur \in 0 .. N /\ disk.rCur \in 0 .. N
        /\ disk.rCur <= disk.wCur /\ disk.wCur <= disk.pairCur.deposit
    BY BothStoresShow DEF StoresShow
  <1>s. StoresShow'
    BY <1>i, BothStoresShow, PTL
  <1>b. /\ PipelineOf(disk)' = ShapeOf(disk)'
        /\ PipelineOf(flushed)' = ShapeOf(flushed)'
        /\ disk'.pairCur.deposit \in 0 .. N /\ disk'.wCur \in 0 .. N /\ disk'.rCur \in 0 .. N
        /\ disk'.rCur <= disk'.wCur /\ disk'.wCur <= disk'.pairCur.deposit
    BY <1>s DEF StoresShow
  <1>t. disk \in Stores /\ CursorsAgree
    BY DEF IInv, TypeOK
  <1>1. CASE ShapeOf(disk)' = ShapeOf(disk) /\ flushed' = flushed
    BY <1>1, <1>a, <1>b DEF ShapeOf
  <1>2. CASE PutWithdrawalPairingCursor
    <2>1. /\ disk'.pairCur = plan.cursor /\ disk'.wCur = disk.wCur /\ disk'.rCur = disk.rCur
          /\ flushed' = flushed /\ pc = "pairing"
      BY <1>2, <1>t DEF PutWithdrawalPairingCursor, Stores
    <2>2. disk.pairCur.deposit <= disk'.pairCur.deposit
      BY <1>t, <2>1 DEF CursorsAgree, IInv, PlanSound
    <2>3. CASE disk.pairCur.deposit = disk'.pairCur.deposit
      BY <1>a, <1>b, <2>1, <2>3 DEF ShapeOf
    <2>4. CASE disk.pairCur.deposit < disk'.pairCur.deposit
      <3>1. Pipeline!Pair(disk'.pairCur.deposit)
        BY <1>a, <1>b, <2>1, <2>4, PairingStage DEF ShapeOf
      <3> QED
        BY <1>b, <3>1 DEF Pipeline!PipelineNext, Pipeline!Ends
    <2> QED
      BY <1>a, <1>b, <2>2, <2>3, <2>4
  <1>3. CASE PutWithdrawalStatusCursor
    <2>1. /\ disk'.pairCur = disk.pairCur /\ disk'.wCur = next /\ disk'.rCur = disk.rCur
          /\ flushed' = flushed /\ pc = "withdrawalRows"
      BY <1>3, <1>t DEF PutWithdrawalStatusCursor, Stores
    <2>2. disk.wCur <= disk'.wCur
      BY <1>t, <2>1 DEF CursorsAgree, IInv, WithdrawalPhaseSound
    <2>3. CASE disk.wCur = disk'.wCur
      BY <1>a, <1>b, <2>1, <2>3 DEF ShapeOf
    <2>4. CASE disk.wCur < disk'.wCur
      <3>1. Pipeline!Settle(disk'.wCur)
        BY <1>a, <1>b, <2>1, <2>4, SettlingStage DEF ShapeOf
      <3> QED
        BY <1>b, <3>1 DEF Pipeline!PipelineNext, Pipeline!Ends
    <2> QED
      BY <1>a, <1>b, <2>2, <2>3, <2>4
  <1>4. CASE PutReimbursementStatusCursor
    <2>1. /\ disk'.pairCur = disk.pairCur /\ disk'.wCur = disk.wCur /\ disk'.rCur = next
          /\ flushed' = flushed /\ pc = "reimbursementCursor"
      BY <1>4, <1>t DEF PutReimbursementStatusCursor, Stores
    <2>2. disk.rCur <= disk'.rCur
      BY <1>t, <2>1 DEF CursorsAgree, IInv, ReimbursementPhaseSound
    <2>3. CASE disk.rCur = disk'.rCur
      BY <1>a, <1>b, <2>1, <2>3 DEF ShapeOf
    <2>4. CASE disk.rCur < disk'.rCur
      <3>1. Pipeline!Finish(disk'.rCur)
        BY <1>a, <1>b, <2>1, <2>4, FinishingStage DEF ShapeOf
      <3> QED
        BY <1>b, <3>1 DEF Pipeline!PipelineNext, Pipeline!Ends
    <2> QED
      BY <1>a, <1>b, <2>2, <2>3, <2>4
  <1>5. CASE Flush
    <2>1. Pipeline!Sync
      BY <1>5 DEF Flush, Pipeline!Sync, PipelineOf
    <2> QED
      BY <2>1 DEF Pipeline!PipelineNext
  <1>6. CASE Crash
    <2>1. Pipeline!Lose
      BY <1>6 DEF Crash, Pipeline!Lose, PipelineOf
    <2> QED
      BY <2>1 DEF Pipeline!PipelineNext
  <1> QED
    BY <1>t, <1>1, <1>2, <1>3, <1>4, <1>5, <1>6, ShapeMoves DEF IInv

\* The monitor's database behaves as the pipeline does: whatever a crash interrupts
\* is either done or not begun, and requests are taken and given back in FIFO order.
THEOREM RefinesPipeline == Spec => ImplementsPipeline
  BY Invariance, PipelineInitially, PipelineStep, PTL
  DEF Spec, ImplementsPipeline, Pipeline!PipelineSpec
================================================================================
