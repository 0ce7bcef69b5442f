------------------------ MODULE WithdrawalIndexer_proofs ------------------------
(***************************************************************************)
(* Proofs about WithdrawalIndexer, for every chain, every configuration    *)
(* whose finality lag covers the nodes' lag, and every behaviour of the    *)
(* nodes within that lag.                                                  *)
(***************************************************************************)
EXTENDS WithdrawalIndexer, TLAPS

USE SizesAssumption, ChainAssumption, OffsetAssumption, LagAssumption

\* The logs before m are in the index, in order and complete, and nothing else is.
PrefixUpTo(s, m) ==
    /\ \A k \in Logs : s.first[k] = IF k < m THEN Offset[k] ELSE NoSeq
    /\ \A k \in Logs : k < m => Units(k) > 0
    /\ \A q \in Seqs : s.rows[q] = NoLog <=> q >= Offset[m]
    /\ \A k \in Logs : k < m =>
        \A q \in Offset[k] .. (Offset[k + 1] - 1) : s.rows[q] = k

HasPrefix(s) == \E m \in 1 .. (L + 1) : PrefixUpTo(s, m)

\* The range that a tick scans starts right after the scanned blocks and ends at a
\* final block, or at the genesis block.
RangeSound ==
    pc # "idle" =>
        /\ from = NextFrom /\ from <= to
        /\ to = 0 \/ to <= head - FinalityLag

\* Every log up to the end of the range is in the batch or in the index.
BatchSound ==
    pc = "persist" =>
        /\ \A k \in batch : InRange(k)
        /\ \A k \in Logs : BlockOf[k] <= to => k \in batch \/ k \in Indexed(db)

FlushedBehind ==
    /\ flushed.scanned <= db.scanned
    /\ Indexed(flushed) \subseteq Indexed(db)

IndexerInv ==
    /\ TypeOK
    /\ HasPrefix(db) /\ HasPrefix(flushed)
    /\ NoLogSkipped
    /\ OnlyFinalIndexed
    /\ RangeSound
    /\ BatchSound
    /\ FlushedBehind

\* What the assumptions on the chain say of a log's units.
LEMMA OffsetFacts ==
    /\ \A k \in 1 .. (L + 1) : Offset[k] \in Nat
    /\ \A j, k \in 1 .. (L + 1) : j <= k => Offset[j] <= Offset[k]
    /\ \A k \in Logs : k \in 1 .. (L + 1) /\ (k + 1) \in 1 .. (L + 1) /\ Units(k) \in Nat
    /\ Offset[1] = 0
  BY DEF Logs, Units

\* An index with a prefix is the prefix of the chain that IndexIsChainPrefix speaks of.
LEMMA PrefixIsChainPrefix ==
    ASSUME NEW s, HasPrefix(s)
    PROVE  IsChainPrefix(s)
  <1>1. PICK m \in 1 .. (L + 1) : PrefixUpTo(s, m)
    BY DEF HasPrefix
  <1>2. \A k \in Logs : Offset[k] \in Nat /\ Offset[k] # NoSeq
    BY OffsetFacts DEF NoSeq
  <1>3. \A k \in Logs : k \in Indexed(s) <=> k < m
    BY <1>1, <1>2 DEF PrefixUpTo, Indexed
  <1>4. \A k \in Indexed(s) : s.first[k] = Offset[k] /\ Units(k) > 0
    BY <1>1, <1>3 DEF PrefixUpTo, Indexed
  <1>5. \A k \in Indexed(s), j \in Logs : j < k => j \in Indexed(s)
    BY <1>3 DEF Indexed, Logs
  <1>6. ASSUME NEW q \in Seqs, NEW k \in Logs, Offset[k] <= q, q < Offset[k + 1]
        PROVE  s.rows[q] = IF k \in Indexed(s) THEN k ELSE NoLog
    <2>1. CASE k < m
      <3>1. q \in Offset[k] .. (Offset[k + 1] - 1)
        BY <1>6, OffsetFacts DEF Seqs
      <3> QED
        BY <1>1, <1>3, <2>1, <3>1 DEF PrefixUpTo
    <2>2. CASE ~(k < m)
      <3>1. Offset[m] <= Offset[k]
        BY <2>2, OffsetFacts DEF Logs
      <3>2. q >= Offset[m]
        BY <1>6, <3>1, OffsetFacts DEF Seqs
      <3> QED
        BY <1>1, <1>3, <2>2, <3>2 DEF PrefixUpTo
    <2> QED
      BY <2>1, <2>2
  <1> QED
    BY <1>4, <1>5, <1>6 DEF IsChainPrefix

\* What the types say, without the record sets.
LEMMA TypeFacts ==
    ASSUME TypeOK
    PROVE  /\ db \in Stores /\ flushed \in Stores
           /\ db.scanned \in Int /\ flushed.scanned \in Int
           /\ db.scanned = NoScan \/ db.scanned \in Nat
           /\ head \in Nat /\ NextFrom \in Nat /\ BatchEnd \in Nat
           /\ \A reported \in Blocks : SafeHead(reported) \in Nat /\ RangeEnd(reported) \in Nat
  <1>1. /\ db \in Stores /\ flushed \in Stores /\ head \in Nat
        /\ db.scanned \in Blocks \cup {NoScan} /\ flushed.scanned \in Blocks \cup {NoScan}
    BY DEF TypeOK, Stores, Blocks
  <1>2. NextFrom \in Nat
    BY <1>1 DEF NextFrom, Blocks, NoScan
  <1>3. BatchEnd \in Nat
    BY <1>2 DEF BatchEnd
  <1>4. \A reported \in Blocks : SafeHead(reported) \in Nat /\ RangeEnd(reported) \in Nat
    BY <1>3 DEF SafeHead, RangeEnd, Blocks
  <1> QED
    BY <1>1, <1>2, <1>3, <1>4 DEF Blocks, NoScan

\* The number max_withdrawal_seq + 1 is the number of units before m.
LEMMA NextSeqIsOffset ==
    ASSUME NEW m \in 1 .. (L + 1), PrefixUpTo(db, m), NEW f \in Nat, IsNextSeq(f)
    PROVE  f = Offset[m]
  <1>1. Offset[m] \in Nat /\ Offset[m] <= Offset[L + 1] /\ Offset[L + 1] \in Nat
    BY OffsetFacts
  <1>2. ~(f < Offset[m])
    <2> SUFFICES ASSUME f < Offset[m] PROVE FALSE
      OBVIOUS
    <2>1. f \in Seqs
      BY <1>1 DEF Seqs
    <2>2. db.rows[f] = NoLog
      BY <2>1 DEF IsNextSeq
    <2> QED
      BY <1>1, <2>1, <2>2 DEF PrefixUpTo
  <1>3. ~(f > Offset[m])
    <2> SUFFICES ASSUME f > Offset[m] PROVE FALSE
      OBVIOUS
    <2>1. f - 1 \in Seqs /\ db.rows[f - 1] # NoLog
      BY <1>1 DEF IsNextSeq
    <2>2. f - 1 >= Offset[m]
      BY <1>1
    <2> QED
      BY <2>1, <2>2 DEF PrefixUpTo
  <1> QED
    BY <1>1, <1>2, <1>3

\* Inserting log m into the index of the logs before m makes it the index of the logs
\* up to m.
LEMMA InsertExtendsPrefix ==
    ASSUME NEW m \in Logs, TypeOK, PrefixUpTo(db, m), Units(m) > 0, InsertEvent(m)
    PROVE  /\ PrefixUpTo(db, m + 1)'
           /\ db' \in Stores
           /\ db'.scanned = db.scanned
  <1>1. PICK f \in 0 .. Offset[L + 1] :
          /\ IsNextSeq(f)
          /\ LET taken == f .. (f + Units(m) - 1)
             IN  db' = [db EXCEPT !.rows = [q \in Seqs |-> IF q \in taken THEN m ELSE @[q]],
                                  !.first[m] = f]
    BY DEF InsertEvent
  <1>2. /\ m \in 1 .. (L + 1) /\ m + 1 \in 1 .. (L + 1)
        /\ Offset[m] \in Nat /\ Offset[m + 1] \in Nat /\ Offset[L + 1] \in Nat
        /\ Offset[m + 1] <= Offset[L + 1]
        /\ Units(m) = Offset[m + 1] - Offset[m]
    BY OffsetFacts DEF Logs, Units
  <1>3. f = Offset[m]
    <2>1. f \in Nat
      BY <1>1, <1>2
    <2> QED
      BY <1>1, <1>2, <2>1, NextSeqIsOffset
  <1>4. db \in Stores
    BY DEF TypeOK
  <1>5. /\ db'.rows = [q \in Seqs |-> IF q \in Offset[m] .. (Offset[m + 1] - 1)
                                      THEN m ELSE db.rows[q]]
        /\ db'.first = [db.first EXCEPT ![m] = Offset[m]]
        /\ db'.scanned = db.scanned
        /\ db' \in [rows : {db'.rows}, first : {db'.first}, scanned : {db'.scanned}]
    <2>1. f + Units(m) - 1 = Offset[m + 1] - 1
      BY <1>2, <1>3
    <2> QED
      BY <1>1, <1>3, <1>4, <2>1 DEF Stores
  <1>6. /\ db.rows \in [Seqs -> Logs \cup {NoLog}]
        /\ db.first \in [Logs -> Nat \cup {NoSeq}]
    BY <1>4 DEF Stores
  <1>7. db' \in Stores
    <2>1. db'.rows \in [Seqs -> Logs \cup {NoLog}] /\ db'.first \in [Logs -> Nat \cup {NoSeq}]
      BY <1>2, <1>5, <1>6
    <2> QED
      BY <1>4, <1>5, <2>1 DEF Stores
  <1>8. PrefixUpTo(db, m + 1)'
    <2>1. \A k \in Logs : db'.first[k] = IF k < m + 1 THEN Offset[k] ELSE NoSeq
      BY <1>5, <1>6 DEF PrefixUpTo, Logs
    <2>2. \A k \in Logs : k < m + 1 => Units(k) > 0
      BY DEF PrefixUpTo, Logs
    <2>3. \A q \in Seqs : db'.rows[q] = NoLog <=> q >= Offset[m + 1]
      <3> SUFFICES ASSUME NEW q \in Seqs
                   PROVE  db'.rows[q] = NoLog <=> q >= Offset[m + 1]
        OBVIOUS
      <3>1. q \in Int /\ m # NoLog
        BY DEF Seqs, Logs, NoLog
      <3>2. Offset[m] <= Offset[m + 1]
        BY <1>2, OffsetFacts
      <3> QED
        BY <1>2, <1>5, <3>1, <3>2 DEF PrefixUpTo
    <2>4. ASSUME NEW k \in Logs, k < m + 1,
                 NEW q \in Offset[k] .. (Offset[k + 1] - 1)
          PROVE  db'.rows[q] = k
      <3>1. q \in Seqs
        BY OffsetFacts DEF Seqs
      <3>2. CASE k = m
        BY <1>5, <2>4, <3>1, <3>2
      <3>3. CASE k # m
        <4>1. k < m /\ k + 1 <= m /\ k + 1 \in 1 .. (L + 1)
          BY <2>4, <3>3 DEF Logs
        <4>2. Offset[k + 1] <= Offset[m] /\ Offset[k + 1] \in Nat /\ Offset[k] \in Nat
          BY <1>2, <4>1, OffsetFacts
        <4>3. q \notin Offset[m] .. (Offset[m + 1] - 1)
          BY <1>2, <4>2
        <4> QED
          BY <1>5, <3>1, <4>1, <4>3 DEF PrefixUpTo
      <3> QED
        BY <3>2, <3>3
    <2> QED
      BY <2>1, <2>2, <2>3, <2>4 DEF PrefixUpTo
  <1> QED
    BY <1>5, <1>7, <1>8
--------------------------------------------------------------------------------
(* The invariant *)

\* The initial states satisfy the invariant of the indexer.
LEMMA IndexerInit == Init => IndexerInv
  <1> SUFFICES ASSUME Init PROVE IndexerInv
    OBVIOUS
  <1>1. EmptyStore \in Stores
    BY DEF EmptyStore, Stores
  <1>2. TypeOK
    BY <1>1 DEF Init, TypeOK, Blocks
  <1>3. PrefixUpTo(EmptyStore, 1)
    <2>1. \A k \in Logs : ~(k < 1)
      BY DEF Logs
    <2>2. \A q \in Seqs : q >= Offset[1]
      BY OffsetFacts DEF Seqs
    <2> QED
      BY <2>1, <2>2 DEF PrefixUpTo, EmptyStore
  <1>4. HasPrefix(db) /\ HasPrefix(flushed)
    BY <1>3 DEF Init, HasPrefix
  <1>5. Indexed(db) = {} /\ Indexed(flushed) = {} /\ Scanned(db) = {} /\ Scanned(flushed) = {}
    BY DEF Init, EmptyStore, Indexed, Scanned, NoScan
  <1>6. db.scanned = NoScan /\ flushed.scanned = NoScan
    BY DEF Init, EmptyStore
  <1> QED
    BY <1>2, <1>4, <1>5, <1>6
    DEF IndexerInv, NoLogSkipped, OnlyFinalIndexed, RangeSound, BatchSound, FlushedBehind,
        Init, NoScan

\* A tick scans from the first unscanned block to a final one.
LEMMA StartTickSound ==
    ASSUME IndexerInv, NEW reported \in Blocks, StartTick(reported)
    PROVE  IndexerInv'
  <1> USE DEF IndexerInv
  <1>1. /\ from' = NextFrom /\ to' = RangeEnd(reported) /\ pc' = "fetch"
        /\ UNCHANGED <<db, flushed, head, batch>>
        /\ NextFrom <= SafeHead(reported) /\ reported <= head
    BY DEF StartTick, HasWork
  <1>2. to' \in Nat /\ from' \in Nat
    BY <1>1, TypeFacts
  <1>3. NextFrom <= RangeEnd(reported)
    BY <1>1, TypeFacts DEF RangeEnd, BatchEnd
  <1>4. RangeEnd(reported) = 0 \/ RangeEnd(reported) <= head - FinalityLag
    <2>1. RangeEnd(reported) <= SafeHead(reported)
      BY TypeFacts DEF RangeEnd
    <2>2. SafeHead(reported) = 0 \/ SafeHead(reported) <= head - FinalityLag
      BY <1>1, TypeFacts DEF SafeHead, Blocks
    <2> QED
      BY <2>1, <2>2, TypeFacts
  <1>5. RangeSound'
    BY <1>1, <1>3, <1>4 DEF RangeSound, NextFrom
  <1>6. TypeOK'
    BY <1>1, <1>2 DEF TypeOK
  <1> QED
    BY <1>1, <1>5, <1>6
    DEF HasPrefix, PrefixUpTo, NoLogSkipped, Scanned, Indexed, OnlyFinalIndexed, BatchSound,
        FlushedBehind

\* The answer covers every log of the range, because the range is final.
LEMMA FetchLogsSound ==
    ASSUME IndexerInv, NEW found \in SUBSET Logs, FetchLogs(found)
    PROVE  IndexerInv'
  <1> USE DEF IndexerInv
  <1>1. /\ pc = "fetch" /\ pc' = "persist" /\ batch' = found
        /\ UNCHANGED <<db, flushed, head, from, to>>
        /\ \A k \in found : InRange(k)
        /\ \A k \in Logs : InRange(k) /\ BlockOf[k] <= head - RpcLag => k \in found
    BY DEF FetchLogs
  <1>2. ASSUME NEW k \in Logs, BlockOf[k] <= to
        PROVE  k \in found \/ k \in Indexed(db)
    <2>1. /\ from = NextFrom /\ from \in Nat /\ to \in Nat /\ head \in Nat
          /\ to = 0 \/ to <= head - FinalityLag
          /\ BlockOf[k] \in Nat /\ BlockOf[k] > 0 /\ BlockOf[k] >= StartBlock
      BY <1>1, TypeFacts DEF RangeSound, TypeOK
    <2>2. CASE BlockOf[k] < from
      <3>1. db.scanned # NoScan
        BY <2>1, <2>2 DEF NextFrom
      <3>2. BlockOf[k] <= db.scanned
        BY <2>1, <2>2, <3>1, TypeFacts DEF NextFrom
      <3> QED
        BY <3>2 DEF NoLogSkipped, Scanned
    <2>3. CASE ~(BlockOf[k] < from)
      <3>1. InRange(k) /\ BlockOf[k] <= head - RpcLag
        BY <1>2, <2>1, <2>3 DEF InRange
      <3> QED
        BY <1>1, <3>1
    <2> QED
      BY <2>2, <2>3
  <1>3. BatchSound'
    BY <1>1, <1>2 DEF BatchSound, InRange, Indexed
  <1>4. TypeOK' /\ RangeSound'
    BY <1>1 DEF TypeOK, RangeSound, NextFrom
  <1> QED
    BY <1>1, <1>3, <1>4
    DEF HasPrefix, PrefixUpTo, NoLogSkipped, Scanned, Indexed, OnlyFinalIndexed, FlushedBehind

\* The next log to persist is the one after the prefix, or one in it.
LEMMA PersistLogSound ==
    ASSUME IndexerInv, NEW k \in Logs, PersistLog(k)
    PROVE  IndexerInv'
  <1> USE DEF IndexerInv
  <1>1. /\ pc = "persist" /\ k \in batch /\ \A j \in batch : k <= j
        /\ Units(k) > 0
        /\ ReplayEvent(k) \/ InsertEvent(k)
        /\ batch' = batch \ {k}
        /\ UNCHANGED <<flushed, head, pc, from, to>>
    BY DEF PersistLog, IsNextLog
  <1>2. InRange(k) /\ BlockOf[k] \in Nat /\ to \in Nat /\ from \in Nat /\ head \in Nat
    BY <1>1, TypeFacts DEF BatchSound, TypeOK
  <1>3. CASE ReplayEvent(k)
    <2>1. db' = db /\ k \in Indexed(db)
      BY <1>3 DEF ReplayEvent, Indexed
    <2> QED
      BY <1>1, <2>1
      DEF TypeOK, HasPrefix, PrefixUpTo, NoLogSkipped, Scanned, Indexed, OnlyFinalIndexed,
          FlushedBehind, RangeSound, NextFrom, BatchSound, InRange
  <1>4. CASE InsertEvent(k)
    <2>1. PICK m \in 1 .. (L + 1) : PrefixUpTo(db, m)
      BY DEF HasPrefix
    <2>2. \A j \in Logs : j \in Indexed(db) <=> j < m
      <3>1. \A j \in Logs : Offset[j] # NoSeq
        BY OffsetFacts DEF NoSeq
      <3> QED
        BY <2>1, <3>1 DEF PrefixUpTo, Indexed
    <2>3. k = m
      <3>1. k \notin Indexed(db)
        BY <1>4 DEF InsertEvent, Indexed
      <3>2. m <= k
        BY <2>2, <3>1 DEF Logs
      <3>3. ASSUME m < k PROVE FALSE
        <4>1. m \in Logs /\ BlockOf[m] <= BlockOf[k]
          BY <3>3 DEF Logs
        <4>2. BlockOf[m] <= to /\ m \notin batch
          BY <1>1, <1>2, <3>3, <4>1 DEF InRange, Logs
        <4>3. m \in Indexed(db)
          BY <1>1, <4>1, <4>2 DEF BatchSound
        <4> QED
          BY <2>2, <4>1, <4>3
      <3> QED
        BY <3>2, <3>3 DEF Logs
    <2>4. PrefixUpTo(db, k + 1)' /\ db' \in Stores /\ db'.scanned = db.scanned
      BY <1>1, <1>4, <2>1, <2>3, InsertExtendsPrefix
    <2>5. HasPrefix(db)'
      <3>1. k + 1 \in 1 .. (L + 1)
        BY DEF Logs
      <3> QED
        BY <2>4, <3>1 DEF HasPrefix
    <2>6. \A j \in Logs : j \in Indexed(db)' <=> j \in Indexed(db) \/ j = k
      <3>1. \A j \in Logs : Offset[j] # NoSeq
        BY OffsetFacts DEF NoSeq
      <3>2. \A j \in Logs : db'.first[j] = IF j < k + 1 THEN Offset[j] ELSE NoSeq
        BY <2>4 DEF PrefixUpTo
      <3> QED
        BY <2>2, <2>3, <3>1, <3>2 DEF Indexed, Logs
    <2>7. BlockOf[k] <= head - FinalityLag
      <3>1. to = 0 \/ to <= head - FinalityLag
        BY <1>1 DEF RangeSound
      <3> QED
        BY <1>2, <3>1 DEF InRange
    <2>8. OnlyFinalIndexed'
      BY <1>1, <2>6, <2>7 DEF OnlyFinalIndexed, Indexed
    <2>9. NoLogSkipped'
      BY <1>1, <2>4, <2>6 DEF NoLogSkipped, Scanned, Indexed
    <2>10. RangeSound' /\ TypeOK'
      BY <1>1, <2>4 DEF RangeSound, NextFrom, TypeOK
    <2>11. BatchSound'
      BY <1>1, <2>6 DEF BatchSound, InRange, TypeOK
    <2>12. FlushedBehind'
      BY <1>1, <2>4, <2>6 DEF FlushedBehind, Indexed
    <2>13. HasPrefix(flushed)'
      BY <1>1 DEF HasPrefix, PrefixUpTo
    <2> QED
      BY <2>5, <2>8, <2>9, <2>10, <2>11, <2>12, <2>13
  <1> QED
    BY <1>1, <1>3, <1>4

\* The state covers exactly what the batch has put into the index.
LEMMA PutIndexerStateSound == ASSUME IndexerInv, PutIndexerState PROVE IndexerInv'
  <1> USE DEF IndexerInv
  <1>1. /\ pc = "persist" /\ batch = {} /\ pc' = "idle" /\ from' = 0 /\ to' = 0 /\ batch' = {}
        /\ db' = [db EXCEPT !.scanned = to]
        /\ UNCHANGED <<flushed, head>>
    BY DEF PutIndexerState, BatchPersisted
  <1>2. db \in Stores /\ from = NextFrom /\ from <= to /\ to \in Nat /\ head \in Nat
        /\ (to = 0 \/ to <= head - FinalityLag) /\ head <= MaxHead
    BY <1>1, TypeFacts DEF RangeSound, TypeOK, Blocks
  <1>3. to \in Blocks
    BY <1>2 DEF Blocks
  <1>4. db' \in Stores /\ db'.rows = db.rows /\ db'.first = db.first /\ db'.scanned = to
    BY <1>1, <1>2, <1>3 DEF Stores
  <1>5. Indexed(db)' = Indexed(db)
    BY <1>4 DEF Indexed
  <1>6. TypeOK' /\ RangeSound' /\ BatchSound'
    BY <1>1, <1>4 DEF TypeOK, RangeSound, BatchSound
  <1>7. HasPrefix(db)' /\ HasPrefix(flushed)'
    <2>1. PICK m \in 1 .. (L + 1) : PrefixUpTo(db, m)
      BY DEF HasPrefix
    <2>2. PrefixUpTo(db, m)'
      BY <1>4, <2>1 DEF PrefixUpTo
    <2>3. HasPrefix(db)'
      BY <2>2 DEF HasPrefix
    <2>4. HasPrefix(flushed)'
      BY <1>1 DEF HasPrefix, PrefixUpTo
    <2> QED
      BY <2>3, <2>4
  <1>8. NoLogSkipped'
    BY <1>1, <1>4, <1>5 DEF NoLogSkipped, Scanned, Indexed, BatchSound
  <1>9. OnlyFinalIndexed'
    BY <1>1, <1>5 DEF OnlyFinalIndexed
  <1>10. db.scanned <= to
    BY <1>2, TypeFacts DEF NextFrom, NoScan
  <1>11. FlushedBehind'
    BY <1>1, <1>2, <1>4, <1>5, <1>10, TypeFacts DEF FlushedBehind, Indexed
  <1> QED
    BY <1>6, <1>7, <1>8, <1>9, <1>11

\* Every step preserves it.
LEMMA IndexerStep == IndexerInv /\ [Next]_vars => IndexerInv'
  <1> SUFFICES ASSUME IndexerInv, [Next]_vars
               PROVE  IndexerInv'
    OBVIOUS
  <1> USE DEF IndexerInv
  <1>1. CASE \E reported \in Blocks : StartTick(reported)
    BY <1>1, StartTickSound
  <1>2. CASE CaughtUp \/ UNCHANGED vars
    <2>1. UNCHANGED <<db, flushed, head, pc, from, to, batch>>
      BY <1>2 DEF CaughtUp, vars
    <2>2. UNCHANGED <<Indexed(db), Indexed(flushed)>> /\ HasPrefix(db)' /\ HasPrefix(flushed)'
      BY <2>1 DEF Indexed, HasPrefix, PrefixUpTo
    <2>3. TypeOK' /\ RangeSound'
      BY <2>1 DEF TypeOK, RangeSound, NextFrom
    <2>4. NoLogSkipped' /\ OnlyFinalIndexed'
      BY <2>1, <2>2 DEF NoLogSkipped, Scanned, OnlyFinalIndexed
    <2>5. BatchSound' /\ FlushedBehind'
      BY <2>1, <2>2 DEF BatchSound, InRange, FlushedBehind
    <2> QED
      BY <2>2, <2>3, <2>4, <2>5
  <1>3. CASE \E found \in SUBSET Logs : FetchLogs(found)
    BY <1>3, FetchLogsSound
  <1>4. CASE \E k \in Logs : PersistLog(k)
    BY <1>4, PersistLogSound
  <1>5. CASE PutIndexerState
    BY <1>5, PutIndexerStateSound
  <1>6. CASE FailTick
    <2>1. pc' = "idle" /\ from' = 0 /\ to' = 0 /\ batch' = {} /\ UNCHANGED <<db, flushed, head>>
      BY <1>6 DEF FailTick
    <2>2. UNCHANGED <<Indexed(db), Indexed(flushed)>> /\ HasPrefix(db)' /\ HasPrefix(flushed)'
      BY <2>1 DEF Indexed, HasPrefix, PrefixUpTo
    <2>3. TypeOK' /\ RangeSound' /\ BatchSound'
      BY <2>1 DEF TypeOK, RangeSound, BatchSound
    <2>4. NoLogSkipped' /\ OnlyFinalIndexed' /\ FlushedBehind'
      BY <2>1, <2>2 DEF NoLogSkipped, Scanned, OnlyFinalIndexed, FlushedBehind
    <2> QED
      BY <2>2, <2>3, <2>4
  <1>7. CASE ProduceBlock
    <2>1. head' = head + 1 /\ head \in Nat /\ head < MaxHead /\ UNCHANGED <<db, flushed, pc, from, to, batch>>
      BY <1>7, TypeFacts DEF ProduceBlock
    <2>2. head' \in Blocks
      BY <2>1 DEF Blocks
    <2>3. OnlyFinalIndexed'
      BY <2>1 DEF OnlyFinalIndexed, Indexed
    <2>4. RangeSound'
      BY <2>1 DEF RangeSound, NextFrom, TypeOK
    <2>5. UNCHANGED <<Indexed(db), Indexed(flushed)>> /\ HasPrefix(db)' /\ HasPrefix(flushed)'
      BY <2>1 DEF Indexed, HasPrefix, PrefixUpTo
    <2>6. TypeOK' /\ BatchSound'
      BY <2>1, <2>2, <2>5 DEF TypeOK, BatchSound, InRange
    <2>7. NoLogSkipped' /\ FlushedBehind'
      BY <2>1, <2>5 DEF NoLogSkipped, Scanned, FlushedBehind
    <2> QED
      BY <2>3, <2>4, <2>5, <2>6, <2>7
  <1>8. CASE Flush
    <2>1. flushed' = db /\ UNCHANGED <<db, head, pc, from, to, batch>>
      BY <1>8 DEF Flush
    <2>2. Indexed(db)' = Indexed(db) /\ Indexed(flushed)' = Indexed(db)
      BY <2>1 DEF Indexed
    <2>3. HasPrefix(db)' /\ HasPrefix(flushed)'
      BY <2>1 DEF HasPrefix, PrefixUpTo
    <2>4. TypeOK' /\ RangeSound'
      BY <2>1 DEF TypeOK, RangeSound, NextFrom
    <2>5. NoLogSkipped' /\ OnlyFinalIndexed'
      BY <2>1, <2>2 DEF NoLogSkipped, Scanned, OnlyFinalIndexed
    <2>6. BatchSound'
      BY <2>1, <2>2 DEF BatchSound, InRange
    <2>7. FlushedBehind'
      BY <2>1, <2>2, TypeFacts DEF FlushedBehind
    <2> QED
      BY <2>3, <2>4, <2>5, <2>6, <2>7
  <1>9. CASE Crash
    <2>1. /\ db' = flushed /\ pc' = "idle" /\ from' = 0 /\ to' = 0 /\ batch' = {}
          /\ UNCHANGED <<flushed, head>>
      BY <1>9 DEF Crash
    <2>2. Indexed(db)' = Indexed(flushed) /\ Indexed(flushed)' = Indexed(flushed)
      BY <2>1 DEF Indexed
    <2>3. HasPrefix(db)' /\ HasPrefix(flushed)'
      BY <2>1 DEF HasPrefix, PrefixUpTo
    <2>4. TypeOK' /\ RangeSound' /\ BatchSound'
      BY <2>1 DEF TypeOK, RangeSound, BatchSound
    <2>5. NoLogSkipped'
      BY <2>1, <2>2 DEF NoLogSkipped, Scanned
    <2>6. OnlyFinalIndexed'
      BY <2>1, <2>2 DEF OnlyFinalIndexed, FlushedBehind
    <2>7. FlushedBehind'
      BY <2>1, <2>2, TypeFacts DEF FlushedBehind
    <2> QED
      BY <2>3, <2>4, <2>5, <2>6, <2>7
  <1> QED
    BY <1>1, <1>2, <1>3, <1>4, <1>5, <1>6, <1>7, <1>8, <1>9 DEF Next

\* The invariant of the indexer holds in every reachable state.
THEOREM IndexerCorrect == Spec => []IndexerInv
  BY IndexerInit, IndexerStep, PTL DEF Spec

\* The index is a prefix of the chain's units in chain order, whatever the nodes
\* answered and wherever the process died.
THEOREM ChainPrefix == Spec => []IndexIsChainPrefix
  <1>1. IndexerInv => IndexIsChainPrefix
    BY PrefixIsChainPrefix DEF IndexerInv, IndexIsChainPrefix
  <1> QED
    BY IndexerCorrect, <1>1, PTL

\* No log is passed over.
THEOREM NothingSkipped == Spec => []NoLogSkipped
  <1>1. IndexerInv => NoLogSkipped
    BY DEF IndexerInv
  <1> QED
    BY IndexerCorrect, <1>1, PTL

\* Only final logs have requests.
THEOREM FinalOnly == Spec => []OnlyFinalIndexed
  <1>1. IndexerInv => OnlyFinalIndexed
    BY DEF IndexerInv
  <1> QED
    BY IndexerCorrect, <1>1, PTL

\* What a kill would leave of the index never loses ground.
THEOREM IndexIsDurable == Spec => DurableProgress
  <1>1. ASSUME IndexerInv, [Next]_vars
        PROVE  flushed'.scanned >= flushed.scanned /\ Indexed(flushed) \subseteq Indexed(flushed')
    <2>1. flushed' = flushed \/ flushed' = db
      BY <1>1 DEF Next, vars, StartTick, CaughtUp, FetchLogs, PersistLog, PutIndexerState,
                  FailTick, ProduceBlock, Flush, Crash
    <2> QED
      BY <1>1, <2>1, TypeFacts DEF IndexerInv, FlushedBehind
  <1> QED
    BY <1>1, IndexerCorrect, PTL DEF Spec, DurableProgress
================================================================================
