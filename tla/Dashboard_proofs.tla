---------------------------- MODULE Dashboard_proofs ----------------------------
(***************************************************************************)
(* Proofs about Dashboard, for every number of deposits, every batch size  *)
(* and every sequence of events on the chain: what is proved of the bridge *)
(* monitor and of the withdrawal index, each on its own, holds of the two  *)
(* together, and joins at the pairing's sequence numbers.                  *)
(***************************************************************************)
EXTENDS Dashboard, StateLoops, BridgeMonitor_proofs

USE SizesAssumption, FailedAssumption

--------------------------------------------------------------------------------
(* The two components inside the composition *)

\* A read gets as many rows as there are, up to the number wanted.
LEMMA AllOfBounded ==
  ASSUME NEW first \in Int, NEW wanted \in Nat
  PROVE  AllOf(first, wanted) \in 0 .. wanted /\ CanRead(first, AllOf(first, wanted))
  <1> DEFINE R == {q \in Stored : q >= first}
             c == Cardinality(R)
  <1>1. c \in Nat
    <2>1. 0 \in Int /\ Requests - 1 \in Int
      OBVIOUS
    <2>2. IsFiniteSet(0 .. (Requests - 1)) /\ R \subseteq 0 .. (Requests - 1)
      BY <2>1, FS_Interval DEF Stored, Log!Seqs
    <2>3. IsFiniteSet(R)
      BY <2>2, FS_Subset
    <2> HIDE DEF R
    <2> QED
      BY <2>3, FS_CardinalityType
  <1>2. \A n : CanRead(first, n) <=> n <= c
    BY DEF CanRead
  <1> HIDE DEF c
  <1> DEFINE best == IF c <= wanted THEN c ELSE wanted
  <1>3. best \in 0 .. wanted /\ CanRead(first, best)
        /\ \A k \in 0 .. wanted : CanRead(first, k) => k <= best
    BY <1>1, <1>2
  <1> QED
    BY <1>3 DEF AllOf

\* What the monitor wants to read stays within its bounds.
LEMMA WantedBounded ==
  ASSUME TypeOK
  PROVE  /\ PairingWindow(Deposits) \subseteq Deposits
         /\ Cardinality(PairingWindow(Deposits)) \in 0 .. BatchSize
         /\ Cardinality(WithdrawalCandidates) \in Cursors
         /\ cache.pairCur.seq \in Nat
         /\ FirstSeq \in Int
  <1>1. /\ cache.pairCur.deposit \in Cursors /\ cache.pairCur.seq \in Nat /\ cache.wCur \in Cursors
        /\ cache.pairs \in [Deposits -> Nat \cup {NoSeq}]
    BY DEF TypeOK, Caches, PairCursors, Pairings
  <1> DEFINE from == cache.pairCur.deposit
             W == PairingWindow(Deposits)
             C == WithdrawalCandidates
  <1>2. from \in Int /\ from + BatchSize - 1 \in Int
    BY <1>1 DEF Cursors
  <1>3. W \subseteq Deposits /\ W \subseteq from .. (from + BatchSize - 1)
    BY <1>2 DEF PairingWindow, Deposits
  <1>4. Cardinality(W) \in 0 .. BatchSize
    <2> DEFINE I == from .. (from + BatchSize - 1)
    <2>1. IsFiniteSet(I) /\ Cardinality(I) = BatchSize
      <3>1. IsFiniteSet(I)
            /\ Cardinality(I) = IF from > from + BatchSize - 1 THEN 0 ELSE (from + BatchSize - 1) - from + 1
        BY <1>2, FS_Interval
      <3> QED
        BY <3>1, <1>2
    <2>2. W \subseteq I
      BY <1>3
    <2> HIDE DEF I, W
    <2>3. IsFiniteSet(W) /\ Cardinality(W) <= Cardinality(I)
      BY <2>1, <2>2, FS_Subset
    <2>4. Cardinality(W) \in Nat
      BY <2>3, FS_CardinalityType
    <2> QED
      BY <2>1, <2>3, <2>4
  <1>5. C \subseteq 0 .. (N - 1)
    BY <1>1 DEF WithdrawalCandidates, Cursors
  <1>6. Cardinality(C) \in Cursors
    <2> DEFINE I == 0 .. (N - 1)
    <2>1. 0 \in Int /\ N - 1 \in Int
      OBVIOUS
    <2>2. IsFiniteSet(I) /\ Cardinality(I) = N
      <3>1. IsFiniteSet(I) /\ Cardinality(I) = IF 0 > N - 1 THEN 0 ELSE (N - 1) - 0 + 1
        BY <2>1, FS_Interval
      <3> QED
        BY <3>1
    <2>3. C \subseteq I
      BY <1>5
    <2> HIDE DEF I, C
    <2>4. IsFiniteSet(C) /\ Cardinality(C) <= Cardinality(I)
      BY <2>2, <2>3, FS_Subset
    <2>5. Cardinality(C) \in Nat
      BY <2>4, FS_CardinalityType
    <2> QED
      BY <2>2, <2>4, <2>5 DEF Cursors
  <1>7. FirstSeq \in Int
    <2>1. CASE C = {}
      BY <2>1 DEF FirstSeq
    <2>2. CASE C # {}
      <3>1. C \in SUBSET Nat
        BY <1>5
      <3>2. PICK d \in C : \A e \in C : d <= e
        BY <2>2, <3>1, LeastNatural
      <3>3. IsFirst(d, C)
        BY <3>2 DEF IsFirst
      <3> DEFINE first == CHOOSE e \in C : IsFirst(e, C)
      <3>4. first \in C
        BY <3>2, <3>3
      <3>5. first \in Deposits
        BY <1>5, <3>4 DEF Deposits
      <3>6. cache.pairs[first] \in Int
        <4> HIDE DEF first
        <4> QED
          BY <1>1, <3>5 DEF NoSeq
      <3> QED
        BY <2>2, <3>6 DEF FirstSeq
    <2> QED
      BY <2>1, <2>2
  <1> QED
    BY <1>1, <1>3, <1>4, <1>6, <1>7

\* A step of the composition is a step of the monitor, or none of it.
LEMMA MonitorMoves == TypeOK /\ [DashNext]_dashVars => [Next]_vars
  <1> SUFFICES ASSUME TypeOK, [DashNext]_dashVars PROVE Next \/ UNCHANGED vars
    OBVIOUS
  <1>1. CASE DashStormy
    <2>1. CASE MonitorStep
      <3>1. TaskStep
        BY <2>1 DEF MonitorStep, TaskStep
      <3> QED
        BY <3>1 DEF Next
    <2>2. CASE Flush
      BY <2>2 DEF Next
    <2>3. CASE FailIndexing
      BY <2>3 DEF FailIndexing, liveVars
    <2>4. CASE Kill
      BY <2>4 DEF Kill, Next
    <2> QED
      BY <1>1, <2>1, <2>2, <2>3, <2>4 DEF DashStormy
  <1>2. CASE DashCalm
    BY <1>2 DEF DashCalm, GoCalm
  <1>3. CASE DashWorking
    <2> DEFINE window == PairingWindow(Deposits)
               candidates == WithdrawalCandidates
               found == AllDeep({d \in candidates : cache.pairs[d] \in Stored})
               rowsToPair == AllOf(cache.pairCur.seq, Cardinality(window))
               rowsToFind == AllOf(FirstSeq, Cardinality(candidates))
    <2>1. CASE PlanPairings(Deposits, window, rowsToPair)
      <3>1. rowsToPair \in 0 .. Cardinality(window)
        <4> DEFINE first == cache.pairCur.seq
                   wanted == Cardinality(window)
        <4>1. first \in Int /\ wanted \in Nat
          BY WantedBounded
        <4> HIDE DEF first, wanted
        <4>2. AllOf(first, wanted) \in 0 .. wanted
          BY <4>1, AllOfBounded
        <4> QED
          BY <4>2 DEF first, wanted
      <3>2. rowsToPair \in 0 .. BatchSize
        BY <3>1, WantedBounded
      <3>3. N \in Cursors /\ Deposits = 0 .. (N - 1)
        BY DEF Deposits, Cursors
      <3>4. Deposits \in {0 .. (k - 1) : k \in Cursors} /\ window \in SUBSET Deposits
        BY <3>3, WantedBounded
      <3> HIDE DEF window, rowsToPair
      <3> QED
        BY <2>1, <3>2, <3>4 DEF TaskStep, Next
    <2>2. CASE CollectWithdrawals(found, rowsToFind)
      <3>1. rowsToFind \in 0 .. Cardinality(candidates)
        BY WantedBounded, AllOfBounded DEF Cursors
      <3>2. rowsToFind \in Cursors
        BY <3>1, WantedBounded DEF Cursors
      <3>3. found \in [Deposits -> WithdrawalAnswers]
        BY DEF AllDeep, WithdrawalAnswers
      <3> HIDE DEF found, rowsToFind
      <3> QED
        BY <2>2, <3>2, <3>3 DEF TaskStep, Next
    <2>3. CASE CalmStep
      <3>1. CASE CollectReimbursements(AllDeep(ReimbursementCandidates))
        <4>1. AllDeep(ReimbursementCandidates) \in [Deposits -> ReimbursementAnswers]
          BY DEF AllDeep, ReimbursementAnswers
        <4> QED
          BY <3>1, <4>1 DEF TaskStep, Next
      <3> QED
        BY <2>3, <3>1 DEF CalmStep, TaskStep, Next
    <2> QED
      BY <1>3, <2>1, <2>2, <2>3 DEF DashWorking, CalmMonitorStep
  <1>4. CASE DashSyncing
    BY <1>4 DEF DashSyncing, Syncing, Next
  <1>5. CASE Indexing
    BY <1>5 DEF Indexing, PersistEvent, PutIndexerState, liveVars
  <1>6. CASE UNCHANGED dashVars
    BY <1>6 DEF dashVars, liveVars
  <1> QED
    BY <1>1, <1>2, <1>3, <1>4, <1>5, <1>6 DEF DashNext

\* The invariant of the bridge monitor holds in the composition.
THEOREM MonitorInvariance == DashSpec => []IInv
  <1>1. DashInit => IInv
    BY InvariantInit DEF DashInit, LiveInit
  <1>2. IInv /\ [DashNext]_dashVars => IInv'
    BY MonitorMoves, InvariantStep DEF IInv
  <1> QED
    BY <1>1, <1>2, PTL DEF DashSpec

\* With every read bounded by what the index has, every fault and every kill, the monitor
\* of the composition is the bridge monitor: what is proved of that holds here.
THEOREM RunsTheMonitor == DashSpec => Spec
  <1>1. DashInit => Init
    BY DEF DashInit, LiveInit
  <1>2. IInv /\ [DashNext]_dashVars => [Next]_vars
    BY MonitorMoves DEF IInv
  <1> QED
    BY <1>1, <1>2, MonitorInvariance, PTL DEF DashSpec, Spec

--------------------------------------------------------------------------------
(* The events on the chain *)

\* How many requests an event has, and what they are.
LEMMA EventFacts ==
  ASSUME NEW e \in Events
  PROVE  /\ e \in Nat /\ e # 0 /\ e <= Len(Units)
         /\ Units[e] \in Nat /\ Units[e] # 0
         /\ Log!Len(RequestsOf(e)) = Units[e]
         /\ \A i \in 1 .. Units[e] : RequestsOf(e)[i] = [event |-> e, sub |-> i - 1]
         /\ RequestsOf(e)[1].event = e
  <1>1. Units \in Seq(Nat \ {0})
    BY UnitsAssumption
  <1>2. /\ e \in 1 .. Len(Units) /\ Len(Units) \in Nat
        /\ Units[e] \in Nat /\ Units[e] # 0
    BY <1>1 DEF Events
  <1>3. \A i \in 1 .. Units[e] : RequestsOf(e)[i] = [event |-> e, sub |-> i - 1]
    BY DEF RequestsOf
  <1>4. RequestsOf(e)[1].event = e
    <2>1. 1 \in 1 .. Units[e]
      BY <1>2
    <2>2. RequestsOf(e)[1] = [event |-> e, sub |-> 1 - 1]
      BY <1>3, <2>1
    <2> QED
      BY <2>2
  <1>5. Log!Len(RequestsOf(e)) = Units[e]
    BY <1>2 DEF RequestsOf
  <1> QED
    BY <1>2, <1>3, <1>4, <1>5

\* The requests of the e-th event come after those of the events before it.
LEMMA UnitsAddUp ==
  /\ UnitsBefore(1) = 0
  /\ \A e \in Nat : e <= Len(Units) + 1 => UnitsBefore(e) \in Nat
  /\ \A e \in Events : UnitsBefore(e + 1) = UnitsBefore(e) + Units[e]
  /\ \A d, e \in Nat : d <= e /\ e <= Len(Units) + 1 => UnitsBefore(d) <= UnitsBefore(e)
  <1> DEFINE Of(c) == {<<c, i>> : i \in 1 .. Units[c]}
             Before(e) == UNION {Of(c) : c \in 1 .. (e - 1)}
  <1>1. \A e : UnitsBefore(e) = Cardinality(Before(e))
    BY DEF UnitsBefore
  <1>2. UnitsBefore(1) = 0
    BY <1>1, FS_EmptySet
  <1>3. \A c \in Events : IsFiniteSet(Of(c)) /\ Cardinality(Of(c)) = Units[c]
    <2> SUFFICES ASSUME NEW c \in Events
                 PROVE  IsFiniteSet(Of(c)) /\ Cardinality(Of(c)) = Units[c]
      OBVIOUS
    <2> DEFINE n == Units[c]
               f == [i \in 1 .. n |-> <<c, i>>]
    <2>1. n \in Nat
      BY EventFacts
    <2>2. f \in Bijection(1 .. n, Of(c))
      <3>1. f \in [1 .. n -> Of(c)]
        OBVIOUS
      <3>2. \A i, j \in 1 .. n : f[i] = f[j] => i = j
        OBVIOUS
      <3>3. \A u \in Of(c) : \E i \in 1 .. n : f[i] = u
        OBVIOUS
      <3> HIDE DEF f, n, Of
      <3> QED
        BY <3>1, <3>2, <3>3 DEF Bijection, Injection, Surjection, IsInjective
    <2>3. IsFiniteSet(1 .. n) /\ Cardinality(1 .. n) = n
      <3>1. 1 \in Int /\ n \in Int
        BY <2>1
      <3> HIDE DEF n
      <3>2. IsFiniteSet(1 .. n) /\ Cardinality(1 .. n) = IF 1 > n THEN 0 ELSE n - 1 + 1
        BY <3>1, FS_Interval
      <3> QED
        BY <2>1, <3>2
    <2> HIDE DEF f, n, Of
    <2>4. ExistsBijection(1 .. n, Of(c))
      BY <2>2 DEF ExistsBijection
    <2> QED
      BY <2>3, <2>4, FS_Bijection DEF n
  <1>4. \A e \in Nat : e <= Len(Units) + 1 => IsFiniteSet(Before(e))
    <2> SUFFICES ASSUME NEW e \in Nat, e <= Len(Units) + 1
                 PROVE  IsFiniteSet(Before(e))
      OBVIOUS
    <2> DEFINE I == 1 .. (e - 1)
               C == {Of(c) : c \in I}
               f == [c \in I |-> Of(c)]
    <2>1. f \in Surjection(I, C)
      <3>1. f \in [I -> C]
        OBVIOUS
      <3>2. \A u \in C : \E c \in I : f[c] = u
        OBVIOUS
      <3> HIDE DEF f, I, C
      <3> QED
        BY <3>1, <3>2 DEF Surjection
    <2>2. IsFiniteSet(I)
      <3>1. 1 \in Int /\ e - 1 \in Int
        OBVIOUS
      <3> QED
        BY <3>1, FS_Interval
    <2>3. \A c \in I : c \in Events
      BY UnitsAssumption DEF Events
    <2>4. \A T \in C : IsFiniteSet(T)
      <3> HIDE DEF Of, I
      <3> QED
        BY <1>3, <2>3
    <2>5. Before(e) = UNION C
      OBVIOUS
    <2> HIDE DEF f, I, C, Before
    <2>6. IsFiniteSet(C)
      BY <2>1, <2>2, FS_Surjection
    <2> QED
      BY <2>4, <2>5, <2>6, FS_UNION
  <1>5. \A e \in Nat : e <= Len(Units) + 1 => UnitsBefore(e) \in Nat
    <2> HIDE DEF Before
    <2> QED
      BY <1>1, <1>4, FS_CardinalityType
  <1>6. ASSUME NEW d \in Nat, NEW e \in Nat, d <= e, e <= Len(Units) + 1
        PROVE  UnitsBefore(d) <= UnitsBefore(e)
    <2>1. Before(d) \subseteq Before(e)
      <3> HIDE DEF Of
      <3> QED
        BY <1>6
    <2> HIDE DEF Before
    <2> QED
      BY <1>1, <1>4, <1>6, <2>1, FS_Subset
  <1>7. ASSUME NEW e \in Events
        PROVE  UnitsBefore(e + 1) = UnitsBefore(e) + Units[e]
    <2>1. e \in Nat /\ e # 0 /\ e <= Len(Units) /\ Len(Units) \in Nat
      BY EventFacts, UnitsAssumption
    <2>2. Before(e + 1) = Before(e) \cup Of(e)
      <3>1. 1 .. ((e + 1) - 1) = (1 .. (e - 1)) \cup {e}
        BY <2>1
      <3> HIDE DEF Of
      <3> QED
        BY <3>1
    <2>3. Before(e) \cap Of(e) = {}
      BY <2>1
    <2>4. /\ IsFiniteSet(Before(e)) /\ IsFiniteSet(Of(e))
          /\ Cardinality(Of(e)) = Units[e] /\ Units[e] \in Nat
      <3> HIDE DEF Of, Before
      <3> QED
        BY <1>3, <1>4, <2>1, EventFacts
    <2>5. UnitsBefore(e) = Cardinality(Before(e)) /\ UnitsBefore(e + 1) = Cardinality(Before(e + 1))
      BY <1>1
    <2> HIDE DEF Before, Of
    <2>6. Cardinality(Before(e) \cup Of(e))
            = Cardinality(Before(e)) + Cardinality(Of(e)) - Cardinality({})
      BY <2>3, <2>4, FS_Union
    <2>7. Cardinality({}) = 0 /\ Cardinality(Before(e)) \in Nat
      BY <2>4, FS_EmptySet, FS_CardinalityType
    <2> DEFINE a == Cardinality(Before(e))
               b == Units[e]
    <2>8. UnitsBefore(e) = a /\ UnitsBefore(e + 1) = a + b - 0 /\ a \in Nat /\ b \in Nat
      BY <2>2, <2>4, <2>5, <2>6, <2>7
    <2> HIDE DEF a, b
    <2>9. UnitsBefore(e + 1) = UnitsBefore(e) + b
      BY <2>8
    <2> QED
      BY <2>9 DEF b
  <1> QED
    BY <1>2, <1>5, <1>6, <1>7

--------------------------------------------------------------------------------
(* The index *)

\* The index holds the first k events of the chain, each in the place that the events
\* before it leave, and nothing else; the indexer is at one of them or at the next.
IndexHolds(k) ==
    /\ scanned \in Nat /\ position \in Nat
    /\ scanned <= k /\ scanned < position /\ position <= k + 1
    /\ index = [e \in Events |-> IF e <= k THEN [first |-> UnitsBefore(e), count |-> Units[e]]
                                           ELSE NoEntry]
    /\ UnitsBefore(k + 1) <= Requests
    /\ DOMAIN rows = Log!Seqs
    /\ \A q \in Log!Seqs :
        /\ q < UnitsBefore(k + 1) => rows[q] # NoRow /\ UnitsBefore(rows[q].event) + rows[q].sub = q
        /\ q >= UnitsBefore(k + 1) => rows[q] = NoRow

\* The inductive invariant of the index.
IndexInv == \E k \in 0 .. Len(Units) : IndexHolds(k)

\* The events are numbered from 1 on.
LEMMA LenType == Len(Units) \in Nat /\ Events = 1 .. Len(Units)
  BY UnitsAssumption DEF Events

\* At the start it holds no event.
LEMMA IndexInit == DashInit => IndexInv
  <1> SUFFICES ASSUME DashInit PROVE IndexHolds(0)
    BY LenType DEF IndexInv
  <1>1. /\ rows = [q \in Log!Seqs |-> NoRow] /\ index = [e \in Events |-> NoEntry]
        /\ scanned = 0 /\ position = 1
    BY DEF DashInit, Log!LogInit
  <1>2. UnitsBefore(0 + 1) = 0
    BY UnitsAddUp
  <1>3. index = [e \in Events |-> IF e <= 0 THEN [first |-> UnitsBefore(e), count |-> Units[e]]
                                            ELSE NoEntry]
    <2>1. \A e \in Events : ~(e <= 0)
      BY LenType
    <2> QED
      BY <1>1, <2>1
  <1>4. \A q \in Log!Seqs : rows[q] = NoRow /\ ~(q < 0)
    BY <1>1 DEF Log!Seqs
  <1> QED
    BY <1>1, <1>2, <1>3, <1>4 DEF IndexHolds

\* A new event goes behind those that are there.
LEMMA AppendNext ==
  ASSUME NEW k \in 0 .. Len(Units), IndexHolds(k), position \in Events,
         Log!AppendEvent("indexer", RequestsOf(position)),
         position' = position + 1, scanned' = scanned
  PROVE  k + 1 \in 0 .. Len(Units) /\ IndexHolds(k + 1)'
  <1> DEFINE e == position
             r == RequestsOf(e)
             u == UnitsBefore(k + 1)
  <1>1. /\ e \in Nat /\ e # 0 /\ e <= Len(Units) /\ Len(Units) \in Nat
        /\ Units[e] \in Nat /\ Units[e] # 0
        /\ Log!Len(r) = Units[e] /\ r[1].event = e
        /\ \A i \in 1 .. Units[e] : r[i] = [event |-> e, sub |-> i - 1]
    BY EventFacts, LenType
  <1>2. u \in Nat /\ u <= Requests
    BY UnitsAddUp, LenType DEF IndexHolds
  <1>3. e = k + 1
    <2>1. index[e] = NoEntry
      BY <1>1 DEF Log!AppendEvent
    <2>2. CASE e <= k
      <3>1. index[e] = [first |-> UnitsBefore(e), count |-> Units[e]]
        BY <2>2 DEF IndexHolds
      <3> QED
        BY <1>1, <2>1, <3>1 DEF NoEntry
    <2>3. e <= k + 1
      BY DEF IndexHolds
    <2> QED
      BY <1>1, <2>2, <2>3
  <1>4. PICK f \in Log!Ends :
            /\ Log!IsNext(f)
            /\ f + Units[e] <= Requests
            /\ rows' = [q \in Log!Seqs |-> IF f <= q /\ q < f + Units[e]
                                           THEN r[q - f + 1] ELSE rows[q]]
            /\ index' = [index EXCEPT ![e] = [first |-> f, count |-> Units[e]]]
    BY <1>1 DEF Log!AppendEvent
  <1>5. f = u
    <2>1. f \in Nat /\ f <= Requests
      BY DEF Log!Ends
    <2>2. f < u => f \in Log!Seqs
      BY <1>2, <2>1 DEF Log!Seqs
    <2>3. f > u => f - 1 \in Log!Seqs /\ f - 1 >= u /\ f > 0
      BY <1>2, <2>1 DEF Log!Seqs
    <2>4. f < u => rows[f] = NoRow
      BY <1>4, <2>1, <2>2 DEF Log!IsNext
    <2>5. f > 0 => rows[f - 1] # NoRow
      BY <1>4 DEF Log!IsNext
    <2> HIDE DEF u
    <2>6. \A q \in Log!Seqs : (q < u => rows[q] # NoRow) /\ (q >= u => rows[q] = NoRow)
      BY DEF IndexHolds, u
    <2> QED
      BY <1>2, <2>1, <2>2, <2>3, <2>4, <2>5, <2>6
  <1>6. UnitsBefore(k + 2) = u + Units[e]
    <2>1. UnitsBefore(e + 1) = UnitsBefore(e) + Units[e]
      BY UnitsAddUp
    <2>2. e + 1 = k + 2
      BY <1>3
    <2> QED
      BY <1>3, <2>1, <2>2
  <1> HIDE DEF u, r
  <1>7. /\ scanned' \in Nat /\ position' \in Nat /\ scanned' <= k + 1 /\ scanned' < position'
        /\ position' <= (k + 1) + 1
    BY DEF IndexHolds
  <1>8. index' = [c \in Events |-> IF c <= k + 1
                                   THEN [first |-> UnitsBefore(c), count |-> Units[c]] ELSE NoEntry]
    <2>1. UnitsBefore(e) = f
      BY <1>3, <1>5 DEF u
    <2>2. index' = [index EXCEPT ![e] = [first |-> UnitsBefore(e), count |-> Units[e]]]
      BY <1>4, <2>1
    <2>3. index = [c \in Events |-> IF c <= k
                                    THEN [first |-> UnitsBefore(c), count |-> Units[c]] ELSE NoEntry]
      BY DEF IndexHolds
    <2>4. \A c \in Events : c <= k + 1 <=> (c <= k \/ c = e)
      BY <1>3, LenType
    <2> QED
      BY <2>2, <2>3, <2>4
  <1>9. ASSUME NEW q \in Log!Seqs
        PROVE  /\ q < u + Units[e] => rows'[q] # NoRow /\ UnitsBefore(rows'[q].event) + rows'[q].sub = q
               /\ q >= u + Units[e] => rows'[q] = NoRow
    <2>1. q \in Nat
      BY DEF Log!Seqs
    <2>2. rows'[q] = IF u <= q /\ q < u + Units[e] THEN r[q - u + 1] ELSE rows[q]
      BY <1>4, <1>5
    <2>3. /\ q < u => rows[q] # NoRow /\ UnitsBefore(rows[q].event) + rows[q].sub = q
          /\ q >= u => rows[q] = NoRow
      BY DEF IndexHolds, u
    <2>4. CASE u <= q /\ q < u + Units[e]
      <3>1. q - u + 1 \in 1 .. Units[e]
        BY <1>1, <1>2, <2>1, <2>4
      <3>2. rows'[q] = [event |-> e, sub |-> (q - u + 1) - 1]
        BY <1>1, <2>2, <2>4, <3>1
      <3>3. rows'[q].event = e /\ rows'[q].sub = q - u /\ rows'[q] # NoRow
        <4>1. rows'[q].event = e /\ rows'[q].sub = (q - u + 1) - 1
          BY <3>2
        <4>2. NoRow.event = 0
          BY DEF NoRow
        <4> QED
          BY <1>1, <1>2, <2>1, <4>1, <4>2
      <3>4. UnitsBefore(e) = u
        BY <1>3 DEF u
      <3>5. UnitsBefore(rows'[q].event) = u
        BY <3>3, <3>4
      <3>6. u + (q - u) = q
        BY <1>2, <2>1
      <3>7. UnitsBefore(rows'[q].event) + rows'[q].sub = q
        BY <3>3, <3>5, <3>6
      <3>8. ~(q >= u + Units[e])
        BY <1>1, <1>2, <2>1, <2>4
      <3> QED
        BY <3>3, <3>7, <3>8
    <2>5. CASE ~(u <= q /\ q < u + Units[e])
      <3>1. rows'[q] = rows[q]
        BY <2>2, <2>5
      <3> QED
        BY <1>1, <1>2, <2>1, <2>3, <2>5, <3>1
    <2> QED
      BY <2>4, <2>5
  <1>10. DOMAIN rows' = Log!Seqs /\ u + Units[e] <= Requests
    BY <1>4, <1>5
  <1>11. k + 1 \in 0 .. Len(Units)
    BY <1>1, <1>3
  <1>12. (k + 1) + 1 = k + 2 /\ UnitsBefore((k + 1) + 1) = u + Units[e]
    BY <1>6
  <1> QED
    BY <1>7, <1>8, <1>9, <1>10, <1>11, <1>12 DEF IndexHolds

\* A kill leaves the events up to one of them, and the indexer at one of these or at the
\* next: what it has recorded as scanned does not cover an event that is lost.
LEMMA KillKeepsEvents ==
  ASSUME NEW k \in 0 .. Len(Units), IndexHolds(k), Kill
  PROVE  \E m \in 0 .. Len(Units) : IndexHolds(m)'
  <1>1. PICK end \in Log!Ends : Log!Reopen(end)
    BY DEF Kill
  <1>2. /\ scanned' \in 0 .. scanned /\ position' = scanned' + 1
        /\ \A e \in Events : index[e] # NoEntry /\ index'[e] = NoEntry => scanned' < e
    BY DEF Kill
  <1>3. /\ \A e \in Events : index[e] # NoEntry =>
                index[e].first >= end \/ index[e].first + index[e].count <= end
        /\ rows' = [q \in Log!Seqs |-> IF q < end THEN rows[q] ELSE NoRow]
        /\ index' = [e \in Events |-> IF index[e] # NoEntry /\ index[e].first < end
                                      THEN index[e] ELSE NoEntry]
    BY <1>1 DEF Log!Reopen
  <1>4. end \in Nat /\ end <= Requests /\ Len(Units) \in Nat /\ k \in Nat
    BY LenType DEF Log!Ends
  <1>5. \A e \in Nat : e <= Len(Units) + 1 => UnitsBefore(e) \in Nat
    BY UnitsAddUp
  <1>6. \A e \in Events :
            /\ e <= k => index[e].first = UnitsBefore(e) /\ index[e].count = Units[e]
            /\ e <= k => index[e] # NoEntry
            /\ ~(e <= k) => index[e] = NoEntry
    <2> SUFFICES ASSUME NEW e \in Events
                 PROVE  /\ e <= k => index[e].first = UnitsBefore(e) /\ index[e].count = Units[e]
                        /\ e <= k => index[e] # NoEntry
                        /\ ~(e <= k) => index[e] = NoEntry
      OBVIOUS
    <2>1. index[e] = IF e <= k THEN [first |-> UnitsBefore(e), count |-> Units[e]] ELSE NoEntry
      BY DEF IndexHolds
    <2>2. Units[e] # 0 /\ NoEntry.count = 0
      BY EventFacts DEF NoEntry
    <2> QED
      BY <2>1, <2>2
  \* The first event, if any, that does not end by `end` begins there.
  <1>7. PICK m \in 0 .. k :
            /\ UnitsBefore(m + 1) <= end
            /\ m # k => UnitsBefore(m + 1) = end
    <2>1. CASE UnitsBefore(k + 1) <= end
      BY <1>4, <2>1
    <2>2. CASE ~(UnitsBefore(k + 1) <= end)
      <3> DEFINE T == {e \in 1 .. (k + 1) : ~(UnitsBefore(e) <= end)}
      <3>1. T \in SUBSET Nat /\ k + 1 \in T
        BY <1>4, <2>2
      <3>2. PICK x \in T : \A y \in T : x <= y
        <4> HIDE DEF T
        <4> QED
          BY <3>1, LeastNatural
      <3>3. x \in 1 .. (k + 1) /\ ~(UnitsBefore(x) <= end)
        BY <3>2
      <3>4. x # 1
        BY <1>4, <3>3, UnitsAddUp
      <3> DEFINE e == x - 1
      <3>5. e \in Events /\ e <= k /\ e \in 1 .. (k + 1) /\ e + 1 = x /\ e \in Nat /\ e # 0
        BY <1>4, <3>3, <3>4, LenType
      <3>6. UnitsBefore(e) <= end
        <4>1. e \notin T
          <5> HIDE DEF T
          <5>1. ~(x <= e)
            BY <3>3
          <5> QED
            BY <3>2, <5>1
        <4> QED
          BY <3>5, <4>1
      <3>7. UnitsBefore(e + 1) = UnitsBefore(e) + Units[e] /\ UnitsBefore(e) \in Nat
            /\ Units[e] \in Nat
        BY <1>4, <1>5, <3>5, UnitsAddUp, EventFacts
      <3>8. UnitsBefore(e) >= end \/ UnitsBefore(e) + Units[e] <= end
        BY <1>3, <1>6, <3>5
      <3>9. UnitsBefore(e) = end
        BY <1>4, <3>3, <3>5, <3>6, <3>7, <3>8
      <3>10. e - 1 \in 0 .. k /\ (e - 1) + 1 = e /\ e - 1 # k
        BY <1>4, <3>5
      <3> HIDE DEF e
      <3> QED
        BY <1>4, <3>9, <3>10
    <2> QED
      BY <2>1, <2>2
  <1> DEFINE u == UnitsBefore(m + 1)
  <1>8. m \in Nat /\ m <= k /\ u \in Nat /\ u <= end /\ u <= UnitsBefore(k + 1)
        /\ UnitsBefore(k + 1) \in Nat
    <2>1. m \in Nat /\ m <= k /\ m + 1 \in Nat /\ k + 1 \in Nat /\ m + 1 <= k + 1
          /\ k + 1 <= Len(Units) + 1 /\ m + 1 <= Len(Units) + 1
      BY <1>4, <1>7
    <2>2. u \in Nat /\ UnitsBefore(k + 1) \in Nat
      BY <1>5, <2>1
    <2>3. u <= UnitsBefore(k + 1)
      BY <2>1, UnitsAddUp
    <2> QED
      BY <1>7, <2>1, <2>2, <2>3
  \* Of the events that it has, it keeps those up to m.
  <1>9. \A e \in Events : index[e] # NoEntry /\ index[e].first < end <=> e <= m
    <2> SUFFICES ASSUME NEW e \in Events
                 PROVE  index[e] # NoEntry /\ index[e].first < end <=> e <= m
      OBVIOUS
    <2>1. /\ e \in Nat /\ e # 0 /\ e <= Len(Units) /\ Units[e] \in Nat /\ Units[e] # 0
      BY EventFacts
    <2>2. UnitsBefore(e) \in Nat /\ UnitsBefore(e + 1) = UnitsBefore(e) + Units[e]
      BY <1>4, <1>5, <2>1, UnitsAddUp
    <2>3. CASE e <= m
      <3>1. e + 1 \in Nat /\ m + 1 \in Nat /\ e + 1 <= m + 1 /\ m + 1 <= Len(Units) + 1
        BY <1>4, <1>8, <2>1, <2>3
      <3>2. UnitsBefore(e + 1) <= u
        BY <3>1, UnitsAddUp
      <3>3. UnitsBefore(e) < end
        BY <1>4, <1>8, <2>1, <2>2, <3>2
      <3>4. e <= k
        BY <1>4, <1>8, <2>1, <2>3
      <3> QED
        BY <1>6, <2>3, <3>3, <3>4
    <2>4. CASE ~(e <= m)
      <3>1. CASE e <= k
        <4>1. m # k
          BY <2>4, <3>1
        <4>2. m + 1 \in Nat /\ m + 1 <= e /\ e <= Len(Units) + 1
          BY <1>4, <1>8, <2>1, <2>4
        <4>3. u <= UnitsBefore(e)
          BY <2>1, <4>2, UnitsAddUp
        <4>4. u = end
          BY <1>7, <4>1
        <4>5. ~(UnitsBefore(e) < end)
          BY <1>4, <1>8, <2>2, <4>3, <4>4
        <4> QED
          BY <1>6, <2>4, <3>1, <4>5
      <3>2. CASE ~(e <= k)
        BY <1>6, <2>4, <3>2
      <3> QED
        BY <3>1, <3>2
    <2> QED
      BY <2>3, <2>4
  <1>10. index' = [e \in Events |-> IF e <= m THEN [first |-> UnitsBefore(e), count |-> Units[e]]
                                              ELSE NoEntry]
    <2>1. index' = [e \in Events |-> IF e <= m THEN index[e] ELSE NoEntry]
      BY <1>3, <1>9
    <2>2. \A e \in Events : e <= m => index[e] = [first |-> UnitsBefore(e), count |-> Units[e]]
      <3>1. \A e \in Events : e <= m => e <= k
        BY <1>4, <1>8, LenType
      <3> QED
        BY <3>1 DEF IndexHolds
    <2> QED
      BY <2>1, <2>2
  <1>11. scanned' <= m
    <2>0. scanned' \in Nat /\ scanned \in Nat /\ scanned' <= scanned /\ scanned <= k
      BY <1>2 DEF IndexHolds
    <2>1. CASE m = k
      BY <1>4, <2>0, <2>1
    <2>2. CASE m # k
      <3>1. m + 1 \in Events /\ m + 1 <= k /\ ~(m + 1 <= m)
        BY <1>4, <1>8, <2>2, LenType
      <3>2. index[m + 1] # NoEntry /\ index'[m + 1] = NoEntry
        BY <1>6, <1>10, <3>1
      <3>3. scanned' < m + 1
        BY <1>2, <3>1, <3>2
      <3> QED
        BY <1>8, <2>0, <3>3
    <2> QED
      BY <2>1, <2>2
  <1>12. /\ scanned' \in Nat /\ position' \in Nat /\ scanned' < position' /\ position' <= m + 1
    <2>1. scanned' \in Nat /\ position' = scanned' + 1
      BY <1>2 DEF IndexHolds
    <2>2. m \in Nat
      BY <1>8
    <2> DEFINE x == scanned'
    <2>3. x \in Nat /\ x <= m /\ position' = x + 1
      BY <1>11, <2>1
    <2> HIDE DEF x
    <2>4. position' \in Nat /\ x < position' /\ position' <= m + 1
      BY <2>2, <2>3
    <2> QED
      BY <2>3, <2>4 DEF x
  <1>13. ASSUME NEW q \in Log!Seqs
         PROVE  /\ q < u => rows'[q] # NoRow /\ UnitsBefore(rows'[q].event) + rows'[q].sub = q
                /\ q >= u => rows'[q] = NoRow
    <2>1. q \in Nat
      BY DEF Log!Seqs
    <2>2. rows'[q] = IF q < end THEN rows[q] ELSE NoRow
      BY <1>3
    <2>3. /\ q < UnitsBefore(k + 1) => rows[q] # NoRow /\ UnitsBefore(rows[q].event) + rows[q].sub = q
          /\ q >= UnitsBefore(k + 1) => rows[q] = NoRow
      BY DEF IndexHolds
    <2>4. CASE q < u
      <3>1. q < end /\ q < UnitsBefore(k + 1)
        BY <1>4, <1>8, <2>1, <2>4
      <3>2. rows'[q] = rows[q]
        BY <2>2, <3>1
      <3> QED
        BY <1>8, <2>1, <2>3, <2>4, <3>1, <3>2
    <2>5. CASE ~(q < u)
      <3>1. q >= end \/ q >= UnitsBefore(k + 1)
        BY <1>4, <1>7, <1>8, <2>1, <2>5
      <3> QED
        BY <1>4, <1>8, <2>1, <2>2, <2>3, <2>5, <3>1
    <2> QED
      BY <2>4, <2>5
  <1>14. DOMAIN rows' = Log!Seqs /\ u <= Requests /\ m \in 0 .. Len(Units)
    BY <1>3, <1>4, <1>8
  <1>15. IndexHolds(m)'
    BY <1>10, <1>11, <1>12, <1>13, <1>14 DEF IndexHolds
  <1> QED
    BY <1>14, <1>15

\* Every step keeps the index so.
LEMMA IndexStep == IndexInv /\ [DashNext]_dashVars => IndexInv'
  <1> SUFFICES ASSUME [DashNext]_dashVars, NEW k \in 0 .. Len(Units), IndexHolds(k)
               PROVE  \E m \in 0 .. Len(Units) : IndexHolds(m)'
    BY DEF IndexInv
  <1>1. CASE UNCHANGED indexVars
    BY <1>1 DEF indexVars, IndexHolds
  <1>2. CASE Kill
    BY <1>2, KillKeepsEvents
  <1>3. CASE FailIndexing
    <2>1. /\ position' = scanned + 1 /\ UNCHANGED <<rows, index, scanned>>
      BY <1>3 DEF FailIndexing
    <2>2. scanned' \in Nat /\ position' \in Nat /\ scanned' <= k /\ scanned' < position'
          /\ position' <= k + 1
      BY <2>1 DEF IndexHolds
    <2> QED
      BY <2>1, <2>2 DEF IndexHolds
  <1>4. CASE PutIndexerState
    <2>1. scanned' = position - 1 /\ UNCHANGED <<rows, index, position>>
      BY <1>4 DEF PutIndexerState, Scanned
    <2>2. scanned' \in Nat /\ position' \in Nat /\ scanned' <= k /\ scanned' < position'
          /\ position' <= k + 1
      BY <2>1 DEF IndexHolds
    <2> QED
      BY <2>1, <2>2 DEF IndexHolds
  <1>5. CASE PersistEvent
    <2>1. position \in Events /\ position' = position + 1 /\ scanned' = scanned
      BY <1>5 DEF PersistEvent
    <2>2. CASE Log!AppendEvent("indexer", RequestsOf(position))
      BY <2>1, <2>2, AppendNext
    <2>3. CASE Log!ReplayEvent("indexer", RequestsOf(position))
      <3>1. index[position] # NoEntry /\ UNCHANGED <<rows, index>>
        <4>1. RequestsOf(position)[1].event = position
          BY <2>1, EventFacts
        <4> QED
          BY <2>3, <4>1 DEF Log!ReplayEvent
      <3>2. position <= k
        BY <2>1, <3>1 DEF IndexHolds
      <3>3. scanned' \in Nat /\ position' \in Nat /\ scanned' <= k /\ scanned' < position'
            /\ position' <= k + 1
        BY <2>1, <3>2 DEF IndexHolds
      <3> QED
        BY <3>1, <3>3 DEF IndexHolds
    <2> QED
      BY <1>5, <2>2, <2>3 DEF PersistEvent
  <1> QED
    BY <1>1, <1>2, <1>3, <1>4, <1>5
    DEF DashNext, DashStormy, DashCalm, DashWorking, DashSyncing, Indexing, dashVars, indexVars

\* In every reachable state the index is a prefix of the chain's events.
THEOREM IndexInvariance == DashSpec => []IndexInv
  BY IndexInit, IndexStep, PTL DEF DashSpec

\* The index of the composition, whatever the monitor and the kills do, is the log that
\* the trait promises.
THEOREM KeepsTheLog == DashSpec => Log!LogSpec
  <1>1. DashInit => Log!LogInit
    BY DEF DashInit
  <1>2. [DashNext]_dashVars => [Log!LogNext]_(Log!logVars)
    <2> SUFFICES ASSUME [DashNext]_dashVars
                 PROVE  Log!LogNext \/ UNCHANGED <<rows, index, answer>>
      BY DEF Log!logVars
    <2>1. CASE UNCHANGED indexVars
      BY <2>1 DEF indexVars
    <2>2. CASE Kill
      BY <2>2 DEF Kill, Log!LogNext
    <2>3. CASE PersistEvent
      <3>1. RequestsOf(position) \in {RequestsOf(e) : e \in Events}
        BY <2>3 DEF PersistEvent
      <3> QED
        BY <2>3, <3>1 DEF PersistEvent, Log!LogNext
    <2>4. CASE FailIndexing \/ PutIndexerState
      BY <2>4 DEF FailIndexing, PutIndexerState
    <2> QED
      BY <2>1, <2>2, <2>3, <2>4
      DEF DashNext, DashStormy, DashCalm, DashWorking, DashSyncing, Indexing, dashVars, indexVars
  <1> QED
    BY <1>1, <1>2, PTL DEF DashSpec, Log!LogSpec

--------------------------------------------------------------------------------
(* The two together *)

\* A deposit is never joined with another's request, whatever each database has lost:
\* the monitor's numbers are ranks of deposits and the index's are ranks of requests,
\* and a kill changes neither.
THEOREM PairedWithOwn == DashSpec => []PairedWithOwnRequest
  <1>1. ASSUME IInv, IndexInv PROVE PairedWithOwnRequest
    <2> SUFFICES ASSUME NEW s \in {cache, disk, flushed}, NEW d \in Deposits,
                        s.pairs[d] \in Stored
                 PROVE  UnitsBefore(rows[s.pairs[d]].event) + rows[s.pairs[d]].sub = Rank(d)
      BY DEF PairedWithOwnRequest
    <2> DEFINE q == s.pairs[d]
    <2>1. q \in Log!Seqs /\ q \in Nat /\ rows[q] # NoRow
      BY DEF Stored, Log!Seqs
    <2>2. q # NoSeq
      BY <2>1 DEF NoSeq
    <2>3. q = Rank(d)
      BY <1>1, <2>2 DEF IInv, PairingIsFIFO, FifoIn
    <2>4. PICK k \in 0 .. Len(Units) : IndexHolds(k)
      BY <1>1 DEF IndexInv
    <2>5. UnitsBefore(k + 1) \in Nat
      BY LenType, UnitsAddUp
    <2> HIDE DEF q
    <2>6. q < UnitsBefore(k + 1)
      BY <2>1, <2>4, <2>5 DEF IndexHolds
    <2>7. UnitsBefore(rows[q].event) + rows[q].sub = q
      BY <2>1, <2>4, <2>6 DEF IndexHolds
    <2> QED
      BY <2>3, <2>7 DEF q
  <1> QED
    BY <1>1, MonitorInvariance, IndexInvariance, PTL

--------------------------------------------------------------------------------
(* The loops of state.rs that move the cursors *)

USE WidthsAssumption

\* Induction downwards from the largest index.
LEMMA DownwardInduction ==
  ASSUME NEW T \in SUBSET Idx, MaxIdx \in T,
         \A i \in Idx : i < MaxIdx /\ i + 1 \in T => i \in T
  PROVE  T = Idx
  <1> DEFINE U == {MaxIdx - i : i \in Idx \ T}
  <1> SUFFICES ASSUME T # Idx PROVE FALSE
    OBVIOUS
  <1>0. \E i \in Idx : i \notin T
    OBVIOUS
  <1>1. U \in SUBSET Nat /\ U # {}
    <2>1. U # {}
      BY <1>0
    <2>2. \A u \in U : u \in Nat
      BY DEF Idx
    <2> QED
      BY <2>1, <2>2
  <1>2. PICK x \in U : \A y \in U : x <= y
    <2> HIDE DEF U
    <2> QED
      BY <1>1, LeastNatural
  <1>3. PICK i \in Idx \ T : x = MaxIdx - i
    BY <1>2
  <1>4. i < MaxIdx /\ i \in Nat /\ i + 1 \in Idx
    BY DEF Idx
  <1>5. i + 1 \notin T
    BY <1>4
  <1>6. MaxIdx - (i + 1) \in U
    BY <1>4, <1>5
  <1> HIDE DEF U
  <1>7. x <= MaxIdx - (i + 1)
    BY <1>2, <1>6
  <1> QED
    BY <1>3, <1>4, <1>7

\* Where a loop that goes on through P stops, entered at i: at the first index that is not
\* in P, or at the last of all.
StopsFirst(i, P, j) ==
    /\ j \in Idx /\ i <= j
    /\ \A d \in i .. (j - 1) : d \in P
    /\ j \notin P \/ j = MaxIdx

\* A loop over the indices that goes on through P.
LoopsThrough(f, P) == f = [i \in Idx |-> IF i \in P /\ i < MaxIdx THEN f[i + 1] ELSE i]

\* It stops there.
LEMMA LoopStops ==
  ASSUME NEW P \in SUBSET Idx, NEW f, LoopsThrough(f, P), NEW i \in Idx
  PROVE  StopsFirst(i, P, f[i])
  <1> DEFINE T == {k \in Idx : StopsFirst(k, P, f[k])}
  <1>1. \A k \in Idx : f[k] = IF k \in P /\ k < MaxIdx THEN f[k + 1] ELSE k
    BY DEF LoopsThrough
  <1>2. ASSUME NEW k \in Idx, ~(k \in P /\ k < MaxIdx) PROVE k \in T
    BY <1>1, <1>2 DEF StopsFirst, Idx
  <1>3. ASSUME NEW k \in Idx, k < MaxIdx, k + 1 \in T PROVE k \in T
    <2>1. CASE k \in P
      <3>1. f[k] = f[k + 1] /\ StopsFirst(k + 1, P, f[k + 1])
        BY <1>1, <1>3, <2>1
      <3>2. StopsFirst(k, P, f[k + 1])
        BY <2>1, <3>1 DEF StopsFirst, Idx
      <3> QED
        BY <3>1, <3>2
    <2> QED
      BY <1>2, <2>1
  <1>4. MaxIdx \in T
    BY <1>2 DEF Idx
  <1>5. T \in SUBSET Idx
    OBVIOUS
  <1>6. T = Idx
    <2> HIDE DEF T
    <2> QED
      BY <1>3, <1>4, <1>5, DownwardInduction
  <1> QED
    BY <1>6

\* There is such a loop.
LEMMA LoopExists ==
  ASSUME NEW P \in SUBSET Idx
  PROVE  \E f : LoopsThrough(f, P)
  <1>1. \A i \in Idx : \E j \in Idx : StopsFirst(i, P, j)
    <2> SUFFICES ASSUME NEW i \in Idx PROVE \E j \in Idx : StopsFirst(i, P, j)
      OBVIOUS
    <2> DEFINE S == {j \in i .. MaxIdx : j \notin P \/ j = MaxIdx}
    <2>1. S \in SUBSET Nat /\ MaxIdx \in S
      BY DEF Idx
    <2>2. PICK j \in S : \A k \in S : j <= k
      <3> HIDE DEF S
      <3> QED
        BY <2>1, LeastNatural
    <2>3. j \in i .. MaxIdx /\ (j \notin P \/ j = MaxIdx)
      BY <2>2
    <2>4. ASSUME NEW d \in i .. (j - 1) PROVE d \in P
      <3>1. d \in i .. MaxIdx /\ ~(j <= d)
        BY <2>3 DEF Idx
      <3> QED
        BY <2>2, <3>1
    <2>5. j \in Idx /\ i <= j
      BY <2>3 DEF Idx
    <2> QED
      BY <2>3, <2>4, <2>5 DEF StopsFirst
  <1>2. ASSUME NEW i \in Idx, NEW j, NEW k, StopsFirst(i, P, j), StopsFirst(i, P, k)
        PROVE  j = k
    BY <1>2 DEF StopsFirst, Idx
  <1> DEFINE f == [i \in Idx |-> CHOOSE j \in Idx : StopsFirst(i, P, j)]
  <1>3. \A i \in Idx : StopsFirst(i, P, f[i])
    BY <1>1
  <1>4. ASSUME NEW i \in Idx
        PROVE  f[i] = IF i \in P /\ i < MaxIdx THEN f[i + 1] ELSE i
    <2> HIDE DEF f
    <2>1. CASE i \in P /\ i < MaxIdx
      <3>1. i + 1 \in Idx
        BY <2>1 DEF Idx
      <3>2. StopsFirst(i + 1, P, f[i + 1])
        BY <1>3, <3>1
      <3>3. StopsFirst(i, P, f[i + 1])
        BY <2>1, <3>2 DEF StopsFirst, Idx
      <3>4. f[i] = f[i + 1]
        BY <1>2, <1>3, <3>3
      <3> QED
        BY <2>1, <3>4
    <2>2. CASE ~(i \in P /\ i < MaxIdx)
      <3>1. StopsFirst(i, P, i)
        BY <2>2 DEF StopsFirst, Idx
      <3>2. f[i] = i
        BY <1>2, <1>3, <3>1
      <3> QED
        BY <2>2, <3>2
    <2> QED
      BY <2>1, <2>2
  <1>5. f = [i \in Idx |-> f[i]]
    OBVIOUS
  <1> HIDE DEF f
  <1>6. LoopsThrough(f, P)
    BY <1>4, <1>5 DEF LoopsThrough
  <1> QED
    BY <1>6

\* The two status loops stop as specified, whatever the width of an index is.
THEOREM StatusLoops == StatusLoopsAsSpecified
  <1> SUFFICES ASSUME NEW from \in Idx, NEW terminal \in SUBSET Idx
               PROVE  /\ \/ StopsDense(from, DenseLoop(from, terminal), terminal)
                         \/ /\ DenseLoop(from, terminal) = MaxIdx
                            /\ from .. DenseLoop(from, terminal) \subseteq terminal
                      /\ \A frontier \in Idx, pending \in SUBSET Idx :
                            StopsSparse(from, SparseLoop(from, terminal, frontier, pending),
                                        terminal, frontier, pending)
    BY DEF StatusLoopsAsSpecified
  <1>1. StopsFirst(from, terminal, DenseLoop(from, terminal))
    <2> DEFINE f == CHOOSE f : f = [i \in Idx |-> IF i \in terminal /\ i < MaxIdx THEN f[i + 1] ELSE i]
    <2>1. f = CHOOSE g : LoopsThrough(g, terminal)
      BY DEF LoopsThrough
    <2>2. DenseLoop(from, terminal) = f[from]
      BY DEF DenseLoop
    <2> HIDE DEF f
    <2>3. LoopsThrough(f, terminal)
      BY <2>1, LoopExists
    <2> QED
      BY <2>2, <2>3, LoopStops
  <1>2. ASSUME NEW frontier \in Idx, NEW pending \in SUBSET Idx
        PROVE  StopsSparse(from, SparseLoop(from, terminal, frontier, pending),
                           terminal, frontier, pending)
    <2> DEFINE passes(i) == i < frontier /\ (i \in terminal \/ i \notin pending)
               P == {i \in Idx : passes(i)}
               f == CHOOSE f : f = [i \in Idx |-> IF passes(i) /\ i < MaxIdx THEN f[i + 1] ELSE i]
               stop == SparseLoop(from, terminal, frontier, pending)
    <2>1. \A g : g = [i \in Idx |-> IF passes(i) /\ i < MaxIdx THEN g[i + 1] ELSE i]
                    <=> LoopsThrough(g, P)
      BY DEF LoopsThrough
    <2>2. stop = f[from]
      BY DEF SparseLoop
    <2>3. P \in SUBSET Idx
      OBVIOUS
    <2>4. LoopsThrough(f, P)
      <3>1. \E g : LoopsThrough(g, P)
        BY <2>3, LoopExists
      <3> QED
        BY <2>1, <3>1
    <2> HIDE DEF f, P, stop
    <2>5. StopsFirst(from, P, stop)
      BY <2>2, <2>3, <2>4, LoopStops
    <2>6. /\ stop \in Idx /\ from <= stop
          /\ \A d \in from .. (stop - 1) : d \in P
          /\ stop \notin P \/ stop = MaxIdx
      BY <2>5 DEF StopsFirst
    <2>7. ~passes(stop)
      BY <2>6 DEF P, Idx
    <2>8. \A d \in from .. (stop - 1) : passes(d)
      BY <2>6 DEF P
    <2> QED
      BY <2>6, <2>7, <2>8 DEF StopsSparse, StopsAt, stop
  <1> QED
    BY <1>1, <1>2 DEF StopsFirst, StopsDense, Idx

--------------------------------------------------------------------------------
(* The numbers *)

\* The deposits from a to b that take a number.
Takers(status, a, b) == {c \in a .. (b - 1) : status[c] # "Failed"}

\* How many they are goes up by the last of them and down by the first.
LEMMA TakersCount ==
  ASSUME NEW status, NEW a \in Int
  PROVE  /\ Cardinality(Takers(status, a, a)) = 0
         /\ \A b \in Int : Cardinality(Takers(status, a, b)) \in Nat
         /\ \A b \in Int : a <= b =>
                Cardinality(Takers(status, a, b + 1))
                    = Cardinality(Takers(status, a, b)) + (IF status[b] # "Failed" THEN 1 ELSE 0)
         /\ \A b \in Int : a < b =>
                Cardinality(Takers(status, a, b))
                    = Cardinality(Takers(status, a + 1, b)) + (IF status[a] # "Failed" THEN 1 ELSE 0)
         /\ \A b, c \in Int : b <= c =>
                Cardinality(Takers(status, a, b)) <= Cardinality(Takers(status, a, c))
  <1>1. \A x, y \in Int : IsFiniteSet(Takers(status, x, y))
    <2> SUFFICES ASSUME NEW x \in Int, NEW y \in Int PROVE IsFiniteSet(Takers(status, x, y))
      OBVIOUS
    <2>1. x \in Int /\ y - 1 \in Int
      OBVIOUS
    <2>2. IsFiniteSet(x .. (y - 1)) /\ Takers(status, x, y) \subseteq x .. (y - 1)
      BY <2>1, FS_Interval DEF Takers
    <2> QED
      BY <2>2, FS_Subset
  <1>2. Takers(status, a, a) = {}
    BY DEF Takers
  <1>3. ASSUME NEW b \in Int, a <= b
        PROVE  Cardinality(Takers(status, a, b + 1))
                 = Cardinality(Takers(status, a, b)) + (IF status[b] # "Failed" THEN 1 ELSE 0)
    <2>1. CASE status[b] # "Failed"
      <3>1. Takers(status, a, b + 1) = Takers(status, a, b) \cup {b} /\ b \notin Takers(status, a, b)
        BY <1>3, <2>1 DEF Takers
      <3> QED
        BY <1>1, <2>1, <3>1, FS_AddElement
    <2>2. CASE status[b] = "Failed"
      <3>1. Takers(status, a, b + 1) = Takers(status, a, b)
        BY <1>3, <2>2 DEF Takers
      <3>2. Cardinality(Takers(status, a, b)) \in Nat
        BY <1>1, FS_CardinalityType
      <3> QED
        BY <2>2, <3>1, <3>2
    <2> QED
      BY <2>1, <2>2
  <1>4. ASSUME NEW b \in Int, a < b
        PROVE  Cardinality(Takers(status, a, b))
                 = Cardinality(Takers(status, a + 1, b)) + (IF status[a] # "Failed" THEN 1 ELSE 0)
    <2>0. IsFiniteSet(Takers(status, a + 1, b))
      BY <1>1
    <2>1. CASE status[a] # "Failed"
      <3>1. Takers(status, a, b) = Takers(status, a + 1, b) \cup {a} /\ a \notin Takers(status, a + 1, b)
        BY <1>4, <2>1 DEF Takers
      <3> QED
        BY <2>0, <2>1, <3>1, FS_AddElement
    <2>2. CASE status[a] = "Failed"
      <3>1. Takers(status, a, b) = Takers(status, a + 1, b)
        BY <1>4, <2>2 DEF Takers
      <3>2. Cardinality(Takers(status, a, b)) \in Nat
        BY <1>1, FS_CardinalityType
      <3> QED
        BY <2>2, <3>1, <3>2
    <2> QED
      BY <2>1, <2>2
  <1>5. ASSUME NEW b \in Int, NEW c \in Int, b <= c
        PROVE  Cardinality(Takers(status, a, b)) <= Cardinality(Takers(status, a, c))
    <2>1. Takers(status, a, b) \subseteq Takers(status, a, c)
      BY <1>5 DEF Takers
    <2> QED
      BY <1>1, <2>1, FS_Subset
  <1> QED
    BY <1>1, <1>2, <1>3, <1>4, <1>5, FS_EmptySet, FS_CardinalityType

\* So do the numbers: the deposit that the loop enters at has the cursor's, a deposit
\* behind one that completed the next after that one's, and numbers do not go down.
LEMMA Numbers ==
  ASSUME NEW from \in NextCursors, NEW status
  PROVE  /\ NumberAt(from, status, from.deposit) = from.seq
         /\ \A d \in Nat : from.deposit <= d =>
                /\ NumberAt(from, status, d) \in Nat /\ NumberAt(from, status, d) >= from.seq
                /\ NumberAt(from, status, d + 1)
                        = NumberAt(from, status, d) + (IF status[d] # "Failed" THEN 1 ELSE 0)
         /\ \A d, e \in Nat : from.deposit <= d /\ d <= e =>
                NumberAt(from, status, d) <= NumberAt(from, status, e)
         /\ \A s \in Nat, d \in Nat :
                /\ from.deposit < d
                /\ s = from.seq + (IF status[from.deposit] # "Failed" THEN 1 ELSE 0)
                => NumberAt([deposit |-> from.deposit + 1, seq |-> s], status, d)
                        = NumberAt(from, status, d)
  <1> DEFINE a == from.deposit
             n(d) == Cardinality(Takers(status, a, d))
  <1>1. a \in Nat /\ a \in Int /\ from.seq \in Nat
    BY DEF NextCursors, Idx, SeqNos
  <1>2. \A d : NumberAt(from, status, d) = from.seq + n(d)
    BY DEF NumberAt, Takers
  <1>3. /\ n(a) = 0
        /\ \A b \in Int : n(b) \in Nat
        /\ \A b \in Int : a <= b => n(b + 1) = n(b) + (IF status[b] # "Failed" THEN 1 ELSE 0)
        /\ \A b \in Int : a < b =>
                n(b) = Cardinality(Takers(status, a + 1, b)) + (IF status[a] # "Failed" THEN 1 ELSE 0)
        /\ \A b, c \in Int : b <= c => n(b) <= n(c)
    BY <1>1, TakersCount
  <1> HIDE DEF n, a
  <1>4. NumberAt(from, status, a) = from.seq
    BY <1>1, <1>2, <1>3
  <1>5. \A d \in Nat : a <= d =>
            /\ NumberAt(from, status, d) \in Nat /\ NumberAt(from, status, d) >= from.seq
            /\ NumberAt(from, status, d + 1)
                    = NumberAt(from, status, d) + (IF status[d] # "Failed" THEN 1 ELSE 0)
    BY <1>1, <1>2, <1>3
  <1>6. \A d, e \in Nat : a <= d /\ d <= e => NumberAt(from, status, d) <= NumberAt(from, status, e)
    BY <1>1, <1>2, <1>3
  <1>7. ASSUME NEW s \in Nat, NEW d \in Nat, a < d,
               s = from.seq + (IF status[a] # "Failed" THEN 1 ELSE 0)
        PROVE  NumberAt([deposit |-> a + 1, seq |-> s], status, d) = NumberAt(from, status, d)
    <2>1. NumberAt([deposit |-> a + 1, seq |-> s], status, d)
            = s + Cardinality(Takers(status, a + 1, d))
      BY DEF NumberAt, Takers
    <2> DEFINE m == Cardinality(Takers(status, a + 1, d))
               one == IF status[a] # "Failed" THEN 1 ELSE 0
    <2>2. one \in Nat
      OBVIOUS
    <2>3. m \in Nat
      <3>1. a + 1 \in Int /\ d \in Int
        BY <1>1
      <3> HIDE DEF m
      <3> QED
        BY <3>1, TakersCount DEF m
    <2>4. n(d) = m + one
      BY <1>3, <1>7
    <2>5. s = from.seq + one
      BY <1>7
    <2> HIDE DEF m, one
    <2> QED
      BY <1>1, <1>2, <2>1, <2>2, <2>3, <2>4, <2>5 DEF m
  <1> QED
    BY <1>4, <1>5, <1>6, <1>7 DEF a

--------------------------------------------------------------------------------
(* The pairing loop *)

\* A pass of the loop at cursor c, with f for the passes that follow it.
PlanPass(f, c, discovered, status, seqs) ==
    LET stop == [pairings |-> {}, cursor |-> c]
        pair == c.deposit \in discovered /\ status[c.deposit] = "Complete" /\ c.seq \in seqs
        skip == c.deposit \in discovered /\ status[c.deposit] = "Failed"
        rest == f[[deposit |-> c.deposit + 1, seq |-> IF pair THEN c.seq + 1 ELSE c.seq]]
    IN  CASE pair /\ c.deposit < MaxIdx /\ c.seq < MaxSeq ->
                [rest EXCEPT !.pairings = @ \cup {c}]
          [] pair /\ ~(c.deposit < MaxIdx /\ c.seq < MaxSeq) ->
                [stop EXCEPT !.pairings = {c}]
          [] skip /\ c.deposit < MaxIdx -> rest
          [] OTHER -> stop

Pairs(c, discovered, status, seqs) ==
    c.deposit \in discovered /\ status[c.deposit] = "Complete" /\ c.seq \in seqs
Skips(c, discovered, status) == c.deposit \in discovered /\ status[c.deposit] = "Failed"
After(c) == [deposit |-> c.deposit + 1, seq |-> c.seq + 1]
Behind(c) == [deposit |-> c.deposit + 1, seq |-> c.seq]

\* Its four ways to go on.
LEMMA PlanPasses ==
  ASSUME NEW f, NEW c, NEW discovered, NEW status, NEW seqs
  PROVE  /\ Pairs(c, discovered, status, seqs) /\ c.deposit < MaxIdx /\ c.seq < MaxSeq =>
                PlanPass(f, c, discovered, status, seqs)
                    = [f[After(c)] EXCEPT !.pairings = @ \cup {c}]
         /\ Pairs(c, discovered, status, seqs) /\ ~(c.deposit < MaxIdx /\ c.seq < MaxSeq) =>
                PlanPass(f, c, discovered, status, seqs) = [pairings |-> {c}, cursor |-> c]
         /\ Skips(c, discovered, status) /\ c.deposit < MaxIdx =>
                PlanPass(f, c, discovered, status, seqs) = f[Behind(c)]
         /\ ~Pairs(c, discovered, status, seqs)
            /\ ~(Skips(c, discovered, status) /\ c.deposit < MaxIdx) =>
                PlanPass(f, c, discovered, status, seqs) = [pairings |-> {}, cursor |-> c]
  <1> DEFINE pair == Pairs(c, discovered, status, seqs)
             skip == Skips(c, discovered, status)
             body == PlanPass(f, c, discovered, status, seqs)
  <1>1. CASE pair
    <2>1. ~skip
      BY <1>1 DEF Pairs, Skips
    <2>2. CASE c.deposit < MaxIdx /\ c.seq < MaxSeq
      <3>1. body = [f[After(c)] EXCEPT !.pairings = @ \cup {c}]
        BY <1>1, <2>2 DEF PlanPass, Pairs, After
      <3> QED
        BY <1>1, <2>1, <2>2, <3>1
    <2>3. CASE ~(c.deposit < MaxIdx /\ c.seq < MaxSeq)
      <3>1. body = [[pairings |-> {}, cursor |-> c] EXCEPT !.pairings = {c}]
        BY <1>1, <2>3 DEF PlanPass, Pairs
      <3> QED
        BY <1>1, <2>1, <2>3, <3>1
    <2> QED
      BY <2>2, <2>3
  <1>2. CASE ~pair
    <2>1. CASE skip /\ c.deposit < MaxIdx
      <3>1. body = f[Behind(c)]
        BY <1>2, <2>1 DEF PlanPass, Pairs, Skips, Behind
      <3> QED
        BY <1>2, <2>1, <3>1
    <2>2. CASE ~(skip /\ c.deposit < MaxIdx)
      <3>1. body = [pairings |-> {}, cursor |-> c]
        BY <1>2, <2>2 DEF PlanPass, Pairs, Skips
      <3> QED
        BY <1>2, <2>2, <3>1
    <2> QED
      BY <2>1, <2>2
  <1> QED
    BY <1>1, <1>2

\* The loop.
LoopsPlanning(f, discovered, status, seqs) ==
    f = [c \in NextCursors |-> PlanPass(f, c, discovered, status, seqs)]

\* There is such a loop: it is built from the last index downwards.
LEMMA PlanLoopExists ==
  ASSUME NEW discovered, NEW status, NEW seqs
  PROVE  \E f : LoopsPlanning(f, discovered, status, seqs)
  <1> DEFINE B(f, c) == PlanPass(f, c, discovered, status, seqs)
             From(f, k) == /\ f = [c \in NextCursors |-> f[c]]
                           /\ \A c \in NextCursors : c.deposit >= k => f[c] = B(f, c)
             T == {k \in Idx : \E f : From(f, k)}
  <1>1. ASSUME NEW f, NEW g, NEW c \in NextCursors,
               c.deposit = MaxIdx
               \/ \A d \in NextCursors : d.deposit = c.deposit + 1 => f[d] = g[d]
        PROVE  B(f, c) = B(g, c)
    <2>1. c.deposit \in Idx /\ c.seq \in SeqNos
      BY DEF NextCursors
    <2>2. CASE Pairs(c, discovered, status, seqs) /\ c.deposit < MaxIdx /\ c.seq < MaxSeq
      <3>1. After(c) \in NextCursors /\ After(c).deposit = c.deposit + 1 /\ c.deposit # MaxIdx
        BY <2>1, <2>2 DEF After, NextCursors, Idx, SeqNos
      <3>2. f[After(c)] = g[After(c)]
        BY <1>1, <3>1
      <3>3. B(f, c) = [f[After(c)] EXCEPT !.pairings = @ \cup {c}]
        BY <2>2, PlanPasses
      <3>4. B(g, c) = [g[After(c)] EXCEPT !.pairings = @ \cup {c}]
        BY <2>2, PlanPasses
      <3> QED
        BY <3>2, <3>3, <3>4
    <2>3. CASE Pairs(c, discovered, status, seqs) /\ ~(c.deposit < MaxIdx /\ c.seq < MaxSeq)
      <3>1. B(f, c) = [pairings |-> {c}, cursor |-> c]
        BY <2>3, PlanPasses
      <3>2. B(g, c) = [pairings |-> {c}, cursor |-> c]
        BY <2>3, PlanPasses
      <3> QED
        BY <3>1, <3>2
    <2>4. CASE Skips(c, discovered, status) /\ c.deposit < MaxIdx
      <3>1. Behind(c) \in NextCursors /\ Behind(c).deposit = c.deposit + 1 /\ c.deposit # MaxIdx
        BY <2>1, <2>4 DEF Behind, NextCursors, Idx, SeqNos
      <3>2. f[Behind(c)] = g[Behind(c)]
        BY <1>1, <3>1
      <3> QED
        BY <2>4, <3>2, PlanPasses
    <2>5. CASE ~Pairs(c, discovered, status, seqs)
               /\ ~(Skips(c, discovered, status) /\ c.deposit < MaxIdx)
      <3>1. B(f, c) = [pairings |-> {}, cursor |-> c]
        BY <2>5, PlanPasses
      <3>2. B(g, c) = [pairings |-> {}, cursor |-> c]
        BY <2>5, PlanPasses
      <3> QED
        BY <3>1, <3>2
    <2> QED
      BY <2>2, <2>3, <2>4, <2>5
  <1> HIDE DEF B
  <1>2. MaxIdx \in T
    <2> DEFINE f == [c \in NextCursors |-> B(<<>>, c)]
    <2>1. ASSUME NEW c \in NextCursors, c.deposit >= MaxIdx PROVE f[c] = B(f, c)
      <3>1. c.deposit = MaxIdx
        BY <2>1 DEF NextCursors, Idx
      <3>2. f[c] = B(<<>>, c)
        OBVIOUS
      <3> HIDE DEF f
      <3> QED
        BY <1>1, <3>1, <3>2
    <2>2. f = [c \in NextCursors |-> f[c]]
      OBVIOUS
    <2> HIDE DEF f
    <2>3. From(f, MaxIdx)
      BY <2>1, <2>2
    <2> QED
      BY <2>3 DEF Idx
  <1>3. ASSUME NEW k \in Idx, k < MaxIdx, k + 1 \in T PROVE k \in T
    <2>1. PICK g : From(g, k + 1)
      BY <1>3
    <2> DEFINE f == [c \in NextCursors |-> IF c.deposit = k THEN B(g, c) ELSE g[c]]
    <2>2. \A c \in NextCursors : c.deposit # k => f[c] = g[c]
      OBVIOUS
    <2>3. \A c \in NextCursors : c.deposit = k => f[c] = B(g, c)
      OBVIOUS
    <2>4. f = [c \in NextCursors |-> f[c]]
      OBVIOUS
    <2> HIDE DEF f
    <2>5. ASSUME NEW c \in NextCursors, c.deposit >= k PROVE f[c] = B(f, c)
      <3>1. c.deposit \in Nat /\ k \in Nat
        BY DEF NextCursors, Idx
      <3>2. f[c] = B(g, c)
        <4>1. CASE c.deposit = k
          BY <2>3, <4>1
        <4>2. CASE c.deposit # k
          BY <2>1, <2>2, <2>5, <3>1, <4>2
        <4> QED
          BY <4>1, <4>2
      <3>3. \A d \in NextCursors : d.deposit = c.deposit + 1 => d.deposit # k
        BY <2>5, <3>1
      <3>4. \A d \in NextCursors : d.deposit = c.deposit + 1 => f[d] = g[d]
        BY <2>2, <3>3
      <3>5. B(f, c) = B(g, c)
        BY <1>1, <3>4
      <3> QED
        BY <3>2, <3>5
    <2>6. From(f, k)
      BY <2>4, <2>5
    <2> QED
      BY <2>6
  <1>4. T \in SUBSET Idx
    OBVIOUS
  <1>5. T = Idx
    <2> HIDE DEF T
    <2> QED
      BY <1>2, <1>3, <1>4, DownwardInduction
  <1>6. 0 \in Idx
    BY DEF Idx
  <1>7. PICK f : From(f, 0)
    BY <1>5, <1>6
  <1>8. \A c \in NextCursors : f[c] = B(f, c)
    BY <1>7 DEF NextCursors, Idx
  <1>9. f = [c \in NextCursors |-> B(f, c)]
    BY <1>7, <1>8
  <1>10. LoopsPlanning(f, discovered, status, seqs)
    BY <1>9 DEF LoopsPlanning, B
  <1> QED
    BY <1>10

\* PlanLoop is one.
LEMMA PlanLoopIsOne ==
  ASSUME NEW discovered, NEW status, NEW seqs
  PROVE  \E f : /\ LoopsPlanning(f, discovered, status, seqs)
                /\ \A from \in NextCursors : PlanLoop(from, discovered, status, seqs) = f[from]
  <1> DEFINE f == CHOOSE g : LoopsPlanning(g, discovered, status, seqs)
  <1>1. LoopsPlanning(f, discovered, status, seqs)
    BY PlanLoopExists
  <1>2. \A from : PlanLoop(from, discovered, status, seqs) = f[from]
    BY DEF PlanLoop, LoopsPlanning, PlanPass
  <1> QED
    BY <1>1, <1>2

\* What the loop has done that was entered at c and has come to R: it stopped where the
\* next deposit cannot be numbered, or at the end of a type, and there, it may have
\* numbered the deposit that the cursor stays at.
Continues(c, d, discovered, status, seqs) ==
    /\ d \in discovered
    /\ \/ status[d] = "Failed"
       \/ status[d] = "Complete" /\ NumberAt(c, status, d) \in seqs
NumberedUpTo(c, last, status) ==
    {[deposit |-> d, seq |-> NumberAt(c, status, d)] :
        d \in {x \in c.deposit .. last : status[x] # "Failed"}}
Planned(c, R, discovered, status, seqs) ==
    /\ R = [pairings |-> R.pairings, cursor |-> R.cursor]
    /\ R.cursor \in NextCursors
    /\ c.deposit <= R.cursor.deposit
    /\ R.cursor.seq = NumberAt(c, status, R.cursor.deposit)
    /\ \A d \in c.deposit .. (R.cursor.deposit - 1) : Continues(c, d, discovered, status, seqs)
    /\ \/ /\ R.pairings = NumberedUpTo(c, R.cursor.deposit - 1, status)
          /\ R.cursor.deposit = MaxIdx \/ ~Continues(c, R.cursor.deposit, discovered, status, seqs)
       \/ /\ R.pairings = NumberedUpTo(c, R.cursor.deposit, status)
          /\ R.cursor.deposit = MaxIdx \/ R.cursor.seq = MaxSeq

\* Entered at its last pass it has done so.
LEMMA LastPass ==
  ASSUME NEW c \in NextCursors, NEW discovered, NEW status, NEW seqs
  PROVE  /\ Pairs(c, discovered, status, seqs) /\ ~(c.deposit < MaxIdx /\ c.seq < MaxSeq) =>
                Planned(c, [pairings |-> {c}, cursor |-> c], discovered, status, seqs)
         /\ ~Pairs(c, discovered, status, seqs) /\ ~(Skips(c, discovered, status) /\ c.deposit < MaxIdx) =>
                Planned(c, [pairings |-> {}, cursor |-> c], discovered, status, seqs)
  <1>1. /\ c.deposit \in Nat /\ c.seq \in Nat /\ c.deposit <= MaxIdx /\ c.seq <= MaxSeq
        /\ c = [deposit |-> c.deposit, seq |-> c.seq]
    BY DEF NextCursors, Idx, SeqNos
  <1>2. NumberAt(c, status, c.deposit) = c.seq
    BY Numbers
  <1>3. c.deposit .. (c.deposit - 1) = {} /\ c.deposit .. c.deposit = {c.deposit}
    BY <1>1
  <1>4. ASSUME Pairs(c, discovered, status, seqs), ~(c.deposit < MaxIdx /\ c.seq < MaxSeq)
        PROVE  Planned(c, [pairings |-> {c}, cursor |-> c], discovered, status, seqs)
    <2>1. {x \in c.deposit .. c.deposit : status[x] # "Failed"} = {c.deposit}
      BY <1>3, <1>4 DEF Pairs
    <2>2. NumberedUpTo(c, c.deposit, status) = {c}
      BY <1>1, <1>2, <2>1 DEF NumberedUpTo
    <2>3. c.deposit = MaxIdx \/ c.seq = MaxSeq
      BY <1>1, <1>4
    <2> QED
      BY <1>1, <1>2, <1>3, <2>2, <2>3 DEF Planned
  <1>5. ASSUME ~Pairs(c, discovered, status, seqs), ~(Skips(c, discovered, status) /\ c.deposit < MaxIdx)
        PROVE  Planned(c, [pairings |-> {}, cursor |-> c], discovered, status, seqs)
    <2>1. {x \in c.deposit .. (c.deposit - 1) : status[x] # "Failed"} = {}
      BY <1>3
    <2>2. NumberedUpTo(c, c.deposit - 1, status) = {}
      BY <2>1 DEF NumberedUpTo
    <2>3. c.deposit = MaxIdx \/ ~Continues(c, c.deposit, discovered, status, seqs)
      BY <1>1, <1>2, <1>5 DEF Continues, Pairs, Skips
    <2> QED
      BY <1>1, <1>2, <1>3, <2>2, <2>3 DEF Planned
  <1> QED
    BY <1>4, <1>5

\* What a loop has come to, with other pairings.
LEMMA WithPairings ==
  ASSUME NEW a, NEW k, NEW x
  PROVE  [[pairings |-> a, cursor |-> k] EXCEPT !.pairings = x] = [pairings |-> x, cursor |-> k]
  OBVIOUS

\* With what the passes after it have done, an earlier pass has done so too.
LEMMA EarlierPass ==
  ASSUME NEW c \in NextCursors, NEW discovered, NEW status, NEW seqs, NEW R, NEW s \in SeqNos,
         c.deposit < MaxIdx, s = c.seq + (IF status[c.deposit] # "Failed" THEN 1 ELSE 0),
         Continues(c, c.deposit, discovered, status, seqs),
         Planned([deposit |-> c.deposit + 1, seq |-> s], R, discovered, status, seqs)
  PROVE  Planned(c, [R EXCEPT !.pairings = IF status[c.deposit] # "Failed" THEN @ \cup {c} ELSE @],
                 discovered, status, seqs)
  <1> DEFINE b == [deposit |-> c.deposit + 1, seq |-> s]
             stop == R.cursor.deposit
             taken == IF status[c.deposit] # "Failed" THEN {c} ELSE {}
             Q == [R EXCEPT !.pairings = IF status[c.deposit] # "Failed" THEN @ \cup {c} ELSE @]
  <1>1. /\ c.deposit \in Nat /\ c.seq \in Nat /\ s \in Nat /\ b \in NextCursors
        /\ c = [deposit |-> c.deposit, seq |-> c.seq]
        /\ b.deposit = c.deposit + 1
    BY DEF NextCursors, Idx, SeqNos
  <1>2. \A d \in Nat : c.deposit < d => NumberAt(b, status, d) = NumberAt(c, status, d)
    BY <1>1, Numbers
  <1>3. NumberAt(c, status, c.deposit) = c.seq
    BY Numbers
  <1>4. /\ R = [pairings |-> R.pairings, cursor |-> R.cursor]
        /\ R.cursor \in NextCursors
        /\ b.deposit <= stop /\ stop \in Nat
        /\ R.cursor.seq = NumberAt(b, status, stop)
        /\ \A d \in b.deposit .. (stop - 1) : Continues(b, d, discovered, status, seqs)
        /\ \/ /\ R.pairings = NumberedUpTo(b, stop - 1, status)
              /\ stop = MaxIdx \/ ~Continues(b, stop, discovered, status, seqs)
           \/ /\ R.pairings = NumberedUpTo(b, stop, status)
              /\ stop = MaxIdx \/ R.cursor.seq = MaxSeq
    BY DEF Planned, NextCursors, Idx
  <1>5. Q = [pairings |-> R.pairings \cup taken, cursor |-> R.cursor]
    <2>1. R = [pairings |-> R.pairings, cursor |-> R.cursor]
      BY <1>4
    <2>2. CASE status[c.deposit] # "Failed"
      <3>1. Q = [R EXCEPT !.pairings = @ \cup {c}] /\ taken = {c}
        BY <2>2
      <3>2. [R EXCEPT !.pairings = @ \cup {c}] = [pairings |-> R.pairings \cup {c}, cursor |-> R.cursor]
        <4> HIDE DEF Q, taken, b, stop
        <4> DEFINE a == R.pairings
                   k == R.cursor
                   x == R.pairings \cup {c}
        <4>1. [[pairings |-> a, cursor |-> k] EXCEPT !.pairings = x] = [pairings |-> x, cursor |-> k]
          <5> HIDE DEF a, k, x
          <5> QED
            BY WithPairings
        <4> HIDE DEF x
        <4>2. [R EXCEPT !.pairings = x] = [[pairings |-> a, cursor |-> k] EXCEPT !.pairings = x]
          BY Zenon, <2>1
        <4>3. [R EXCEPT !.pairings = x] = [pairings |-> x, cursor |-> k]
          BY Zenon, <4>1, <4>2
        <4> QED
          BY Zenon, <4>3 DEF x
      <3> QED
        BY <3>1, <3>2
    <2>3. CASE status[c.deposit] = "Failed"
      <3>1. R.pairings \cup taken = R.pairings
        BY <2>3
      <3> QED
        BY <2>1, <2>3, <3>1
    <2> QED
      BY <2>2, <2>3
  <1> HIDE DEF Q, b, stop
  <1>6. \A d \in Nat : c.deposit < d =>
            (Continues(b, d, discovered, status, seqs) <=> Continues(c, d, discovered, status, seqs))
    BY <1>2 DEF Continues
  <1>7. \A last \in Int : c.deposit <= last =>
            NumberedUpTo(c, last, status) = NumberedUpTo(b, last, status) \cup taken
    <2> SUFFICES ASSUME NEW last \in Int, c.deposit <= last
                 PROVE  NumberedUpTo(c, last, status) = NumberedUpTo(b, last, status) \cup taken
      OBVIOUS
    <2> DEFINE X == {x \in c.deposit .. last : status[x] # "Failed"}
               Y == {x \in b.deposit .. last : status[x] # "Failed"}
               n(d) == [deposit |-> d, seq |-> NumberAt(c, status, d)]
               m(d) == [deposit |-> d, seq |-> NumberAt(b, status, d)]
    <2>1. X = Y \cup (IF status[c.deposit] # "Failed" THEN {c.deposit} ELSE {})
      BY <1>1
    <2>2. \A d \in Y : n(d) = m(d)
      BY <1>1, <1>2
    <2>3. n(c.deposit) = c
      BY <1>1, <1>3
    <2>4. NumberedUpTo(c, last, status) = {n(d) : d \in X}
          /\ NumberedUpTo(b, last, status) = {m(d) : d \in Y}
      BY DEF NumberedUpTo
    <2> HIDE DEF X, Y, n, m
    <2>5. {m(d) : d \in Y} = {n(d) : d \in Y}
      BY <2>2
    <2>6. {n(d) : d \in X} = {n(d) : d \in Y} \cup taken
      BY <2>1, <2>3
    <2> QED
      BY <2>4, <2>5, <2>6
  <1>8. \A d \in c.deposit .. (stop - 1) : Continues(c, d, discovered, status, seqs)
    <2> SUFFICES ASSUME NEW d \in c.deposit .. (stop - 1)
                 PROVE  Continues(c, d, discovered, status, seqs)
      OBVIOUS
    <2>1. CASE d = c.deposit
      BY <2>1
    <2>2. CASE d # c.deposit
      <3>1. d \in Nat /\ c.deposit < d /\ d \in b.deposit .. (stop - 1)
        BY <1>1, <1>4, <2>2
      <3> QED
        BY <1>4, <1>6, <3>1
    <2> QED
      BY <2>1, <2>2
  <1>9. c.deposit < stop /\ c.deposit <= stop - 1 /\ stop - 1 \in Int
    BY <1>1, <1>4
  <1>10. /\ NumberedUpTo(c, stop - 1, status) = NumberedUpTo(b, stop - 1, status) \cup taken
         /\ NumberedUpTo(c, stop, status) = NumberedUpTo(b, stop, status) \cup taken
    BY <1>1, <1>4, <1>7, <1>9
  <1>11. /\ R.cursor.seq = NumberAt(c, status, stop)
         /\ Continues(b, stop, discovered, status, seqs) <=> Continues(c, stop, discovered, status, seqs)
    BY <1>2, <1>4, <1>6, <1>9
  <1>12. /\ Q = [pairings |-> Q.pairings, cursor |-> Q.cursor]
         /\ Q.cursor = R.cursor /\ Q.cursor.deposit = stop /\ Q.pairings = R.pairings \cup taken
    BY <1>5 DEF stop
  <1> HIDE DEF taken
  <1>13. \/ /\ Q.pairings = NumberedUpTo(c, stop - 1, status)
            /\ stop = MaxIdx \/ ~Continues(c, stop, discovered, status, seqs)
         \/ /\ Q.pairings = NumberedUpTo(c, stop, status)
            /\ stop = MaxIdx \/ R.cursor.seq = MaxSeq
    BY <1>4, <1>10, <1>11, <1>12
  <1>14. c.deposit <= stop
    BY <1>1, <1>9, <1>4
  <1>15. Planned(c, Q, discovered, status, seqs)
    BY <1>4, <1>8, <1>11, <1>12, <1>13, <1>14 DEF Planned
  <1> QED
    BY <1>15 DEF Q

\* So the loop does, from wherever it is entered.
LEMMA PlanLoopPlans ==
  ASSUME NEW discovered, NEW status, NEW seqs, NEW from \in NextCursors
  PROVE  Planned(from, PlanLoop(from, discovered, status, seqs), discovered, status, seqs)
  <1>1. PICK f : /\ LoopsPlanning(f, discovered, status, seqs)
                 /\ \A c \in NextCursors : PlanLoop(c, discovered, status, seqs) = f[c]
    BY PlanLoopIsOne
  <1>2. \A c \in NextCursors : f[c] = PlanPass(f, c, discovered, status, seqs)
    BY <1>1 DEF LoopsPlanning
  <1> DEFINE Done(c) == Planned(c, f[c], discovered, status, seqs)
             T == {k \in Idx : \A c \in NextCursors : c.deposit = k => Done(c)}
  <1>3. ASSUME NEW c \in NextCursors,
               c.deposit = MaxIdx
               \/ \A d \in NextCursors : d.deposit = c.deposit + 1 => Done(d)
        PROVE  Done(c)
    <2>1. c.deposit \in Idx /\ c.seq \in SeqNos /\ c.deposit \in Nat /\ c.seq \in Nat
      BY DEF NextCursors, Idx, SeqNos
    <2>0. NumberAt(c, status, c.deposit) = c.seq
      BY Numbers
    <2>2. CASE Pairs(c, discovered, status, seqs) /\ c.deposit < MaxIdx /\ c.seq < MaxSeq
      <3>1. After(c) \in NextCursors /\ After(c).deposit = c.deposit + 1 /\ c.deposit # MaxIdx
            /\ c.seq + 1 \in SeqNos
        BY <2>1, <2>2 DEF After, NextCursors, Idx, SeqNos
      <3>2. Planned([deposit |-> c.deposit + 1, seq |-> c.seq + 1], f[After(c)], discovered, status, seqs)
        BY <1>3, <3>1 DEF After
      <3>3. status[c.deposit] # "Failed" /\ Continues(c, c.deposit, discovered, status, seqs)
        BY <2>0, <2>2 DEF Pairs, Continues
      <3>4. f[c] = [f[After(c)] EXCEPT !.pairings = @ \cup {c}]
        <4>1. PlanPass(f, c, discovered, status, seqs) = [f[After(c)] EXCEPT !.pairings = @ \cup {c}]
          BY <2>2, PlanPasses
        <4> QED
          BY <1>2, <4>1
      <3>5. Planned(c, [f[After(c)] EXCEPT !.pairings =
                            IF status[c.deposit] # "Failed" THEN @ \cup {c} ELSE @],
                    discovered, status, seqs)
        BY <2>2, <3>1, <3>2, <3>3, EarlierPass
      <3> QED
        BY <3>3, <3>4, <3>5
    <2>3. CASE Pairs(c, discovered, status, seqs) /\ ~(c.deposit < MaxIdx /\ c.seq < MaxSeq)
      <3>1. f[c] = [pairings |-> {c}, cursor |-> c]
        <4>1. PlanPass(f, c, discovered, status, seqs) = [pairings |-> {c}, cursor |-> c]
          BY <2>3, PlanPasses
        <4> QED
          BY <1>2, <4>1
      <3> QED
        BY <2>3, <3>1, LastPass
    <2>4. CASE Skips(c, discovered, status) /\ c.deposit < MaxIdx
      <3>1. Behind(c) \in NextCursors /\ Behind(c).deposit = c.deposit + 1 /\ c.deposit # MaxIdx
        BY <2>1, <2>4 DEF Behind, NextCursors, Idx, SeqNos
      <3>2. Planned([deposit |-> c.deposit + 1, seq |-> c.seq], f[Behind(c)], discovered, status, seqs)
        BY <1>3, <3>1 DEF Behind
      <3>3. status[c.deposit] = "Failed" /\ Continues(c, c.deposit, discovered, status, seqs)
        BY <2>4 DEF Skips, Continues
      <3>4. f[c] = f[Behind(c)]
        <4>1. PlanPass(f, c, discovered, status, seqs) = f[Behind(c)]
          BY <2>4, PlanPasses
        <4> QED
          BY <1>2, <4>1
      <3>5. Planned(c, [f[Behind(c)] EXCEPT !.pairings =
                            IF status[c.deposit] # "Failed" THEN @ \cup {c} ELSE @],
                    discovered, status, seqs)
        <4>1. c.seq = c.seq + (IF status[c.deposit] # "Failed" THEN 1 ELSE 0)
          BY <2>1, <3>3
        <4> QED
          BY <2>1, <2>4, <3>2, <3>3, <4>1, EarlierPass
      <3>6. f[Behind(c)] = [pairings |-> f[Behind(c)].pairings, cursor |-> f[Behind(c)].cursor]
        BY <3>2 DEF Planned
      <3>7. [f[Behind(c)] EXCEPT !.pairings = IF status[c.deposit] # "Failed" THEN @ \cup {c} ELSE @]
              = f[Behind(c)]
        BY <3>3, <3>6
      <3> QED
        BY <3>4, <3>5, <3>7
    <2>5. CASE ~Pairs(c, discovered, status, seqs)
               /\ ~(Skips(c, discovered, status) /\ c.deposit < MaxIdx)
      <3>1. f[c] = [pairings |-> {}, cursor |-> c]
        <4>1. PlanPass(f, c, discovered, status, seqs) = [pairings |-> {}, cursor |-> c]
          BY <2>5, PlanPasses
        <4> QED
          BY <1>2, <4>1
      <3> QED
        BY <2>5, <3>1, LastPass
    <2> QED
      BY <2>2, <2>3, <2>4, <2>5
  <1> HIDE DEF Done
  <1>4. MaxIdx \in T
    BY <1>3 DEF Idx
  <1>5. ASSUME NEW k \in Idx, k < MaxIdx, k + 1 \in T PROVE k \in T
    BY <1>3, <1>5
  <1>6. T \in SUBSET Idx
    OBVIOUS
  <1>7. T = Idx
    <2> HIDE DEF T
    <2> QED
      BY <1>4, <1>5, <1>6, DownwardInduction
  <1>8. Done(from)
    BY <1>7 DEF NextCursors
  <1> QED
    BY <1>1, <1>8 DEF Done

\* The numbers of two deposits that both take one are in the order of the deposits.
LEMMA NumbersInOrder ==
  ASSUME NEW from \in NextCursors, NEW status, NEW d \in Nat, NEW e \in Nat,
         from.deposit <= d, from.deposit <= e,
         status[d] # "Failed", status[e] # "Failed"
  PROVE  d < e <=> NumberAt(from, status, d) < NumberAt(from, status, e)
  <1>1. ASSUME NEW x \in Nat, NEW y \in Nat, from.deposit <= x, x < y, status[x] # "Failed"
        PROVE  NumberAt(from, status, x) < NumberAt(from, status, y)
    <2>1. NumberAt(from, status, x) \in Nat
          /\ NumberAt(from, status, x + 1) = NumberAt(from, status, x) + 1
      BY <1>1, Numbers
    <2>2. x + 1 \in Nat /\ from.deposit <= x + 1 /\ x + 1 <= y /\ from.deposit <= y
      BY <1>1 DEF NextCursors, Idx
    <2>3. NumberAt(from, status, x + 1) <= NumberAt(from, status, y)
          /\ NumberAt(from, status, y) \in Nat
      BY <2>2, Numbers
    <2> QED
      BY <2>1, <2>3
  <1>2. NumberAt(from, status, d) \in Nat /\ NumberAt(from, status, e) \in Nat
    BY Numbers
  <1>3. CASE d < e
    BY <1>1, <1>3
  <1>4. CASE e < d
    BY <1>1, <1>2, <1>4
  <1>5. CASE d = e
    BY <1>2, <1>5
  <1> QED
    BY <1>3, <1>4, <1>5

\* The pairing loop of state.rs, for every width of the two types, every set of discovered
\* deposits, every map of statuses and every set of stored requests: short of the ends of
\* the types it stops at the first deposit that cannot be paired and has given each
\* deposit it passed that did not fail the next number; at their ends too nothing is
\* paired twice, out of order or from beyond the cursor.
THEOREM PlanLoops == PlanLoopAsSpecified
  <1> SUFFICES ASSUME NEW from \in NextCursors, NEW discovered \in SUBSET Idx,
                      NEW status \in [Idx -> DepositStatuses], NEW seqs \in SUBSET SeqNos
               PROVE  LET result == PlanLoop(from, discovered, status, seqs)
                      IN  /\ result.cursor.deposit < MaxIdx /\ result.cursor.seq < MaxSeq =>
                                PlanAgrees(from, discovered, status, seqs, result)
                          /\ PlanIsSound(from, discovered, status, result)
    BY DEF PlanLoopAsSpecified
  <1> DEFINE result == PlanLoop(from, discovered, status, seqs)
             stop == result.cursor.deposit
             last == IF result.pairings = NumberedUpTo(from, stop - 1, status) THEN stop - 1 ELSE stop
  <1>1. Planned(from, result, discovered, status, seqs)
    BY PlanLoopPlans
  <1> HIDE DEF result
  <1>2. /\ from.deposit \in Nat /\ from.seq \in Nat /\ stop \in Nat /\ stop <= MaxIdx
        /\ result.cursor.seq \in Nat /\ result.cursor.seq <= MaxSeq /\ from.deposit <= stop
    BY <1>1 DEF Planned, NextCursors, Idx, SeqNos
  <1>3. /\ result.cursor.seq = NumberAt(from, status, stop)
        /\ \A d \in from.deposit .. (stop - 1) : Continues(from, d, discovered, status, seqs)
    BY <1>1 DEF Planned
  <1>4. result.pairings = NumberedUpTo(from, last, status) /\ last \in Int /\ last <= stop
    BY <1>1, <1>2 DEF Planned
  <1>5. ASSUME stop < MaxIdx, result.cursor.seq < MaxSeq
        PROVE  PlanAgrees(from, discovered, status, seqs, result)
    <2>1. /\ result.pairings = NumberedUpTo(from, stop - 1, status)
          /\ ~Continues(from, stop, discovered, status, seqs)
      BY <1>1, <1>2, <1>5 DEF Planned
    <2>2. result.pairings = {[deposit |-> d, seq |-> NumberAt(from, status, d)] :
                                d \in {c \in from.deposit .. (stop - 1) : status[c] # "Failed"}}
      BY <2>1 DEF NumberedUpTo
    <2>3. StopsAt(from.deposit, stop,
                  LAMBDA d : /\ d \in discovered
                             /\ \/ status[d] = "Failed"
                                \/ status[d] = "Complete" /\ NumberAt(from, status, d) \in seqs)
      BY <1>2, <1>3, <2>1 DEF StopsAt, Continues
    <2> QED
      BY <1>3, <2>2, <2>3 DEF PlanAgrees
  <1> HIDE DEF last, stop
  <1>6. ASSUME NEW p \in result.pairings
        PROVE  /\ p.deposit \in Nat /\ from.deposit <= p.deposit /\ p.deposit <= last
               /\ status[p.deposit] # "Failed"
               /\ p = [deposit |-> p.deposit, seq |-> NumberAt(from, status, p.deposit)]
    <2>1. PICK d \in from.deposit .. last :
                  status[d] # "Failed" /\ p = [deposit |-> d, seq |-> NumberAt(from, status, d)]
      BY <1>4 DEF NumberedUpTo
    <2>2. d \in Nat /\ from.deposit <= d /\ d <= last /\ p.deposit = d
      BY <1>2, <1>4, <2>1
    <2> QED
      BY <2>1, <2>2
  <1>7. ASSUME NEW p \in result.pairings
        PROVE  p.deposit \in from.deposit .. stop /\ p.seq >= from.seq
    <2>1. p.deposit \in from.deposit .. stop
      BY <1>2, <1>4, <1>6
    <2>2. p.seq = NumberAt(from, status, p.deposit)
      BY <1>6
    <2> QED
      BY <1>6, <2>1, <2>2, Numbers
  <1>8. ASSUME NEW p \in result.pairings, NEW q \in result.pairings
        PROVE  p.deposit < q.deposit <=> p.seq < q.seq
    <2>1. p.seq = NumberAt(from, status, p.deposit) /\ q.seq = NumberAt(from, status, q.deposit)
      BY <1>6
    <2>2. p.deposit < q.deposit
            <=> NumberAt(from, status, p.deposit) < NumberAt(from, status, q.deposit)
      BY <1>6, NumbersInOrder
    <2> QED
      BY <2>1, <2>2
  <1>9. ASSUME NEW d \in from.deposit .. (stop - 1)
        PROVE  /\ d \in discovered /\ status[d] # "InProgress"
               /\ status[d] = "Complete" => \E p \in result.pairings : p.deposit = d
    <2>1. d \in discovered /\ status[d] # "InProgress"
      BY <1>3 DEF Continues
    <2>2. ASSUME status[d] = "Complete" PROVE \E p \in result.pairings : p.deposit = d
      <3>1. stop - 1 <= last
        BY <1>2 DEF last
      <3>2. d \in {x \in from.deposit .. last : status[x] # "Failed"}
        BY <1>2, <1>4, <2>2, <3>1
      <3>3. [deposit |-> d, seq |-> NumberAt(from, status, d)] \in result.pairings
        BY <1>4, <3>2 DEF NumberedUpTo
      <3> QED
        BY <3>3
    <2> QED
      BY <2>1, <2>2
  <1>10. PlanIsSound(from, discovered, status, result)
    BY <1>7, <1>8, <1>9 DEF PlanIsSound, stop
  <1> QED
    BY <1>5, <1>10 DEF result, stop

\* The pairing step of BridgeMonitor is this loop: in a tick in which `known` deposits of
\* the window have the status they end with, and a read has found `count` requests, what
\* the step says of its plan is what plan_withdrawal_pairings returns, as long as the
\* types have room for the numbers of all deposits.
THEOREM PlansAsTheLoop ==
  ASSUME TypeOK, NEW discovered \in SUBSET Deposits, NEW known \in SUBSET Deposits,
         NEW count \in 0 .. BatchSize, PlanPairings(discovered, known, count),
         NEW status \in [Idx -> DepositStatuses],
         \A d \in discovered : status[d] = IF d \notin known THEN "InProgress"
                                           ELSE IF d \in Failed THEN "Failed" ELSE "Complete",
         N < MaxIdx, Requests <= MaxSeq, cache.pairCur.seq + N < MaxSeq
  PROVE  LET result == PlanLoop(cache.pairCur, discovered, status, FetchedSeqs(cache.pairCur.seq, count))
         IN  IF result.cursor = cache.pairCur
             THEN pc' = "withdrawals" /\ plan' = plan
             ELSE /\ pc' = "pairing"
                  /\ plan'.cursor = result.cursor
                  /\ result.pairings = {[deposit |-> d, seq |-> plan'.pairs[d]] : d \in todo'}
  <1> DEFINE cur == cache.pairCur
             seqs == FetchedSeqs(cur.seq, count)
             result == PlanLoop(cur, discovered, status, seqs)
             end == result.cursor.deposit
             Goes(d) == d \in known /\ (d \in Failed \/ SeqAt(cur, d) \in seqs)
             n(d) == NumberAt(cur, status, d)
             Loops(d) == /\ d \in discovered
                         /\ \/ status[d] = "Failed"
                            \/ status[d] = "Complete" /\ n(d) \in seqs
  <1>1. /\ cur.deposit \in Nat /\ cur.deposit <= N /\ cur.seq \in Nat /\ cur.seq <= MaxSeq
        /\ cur = [deposit |-> cur.deposit, seq |-> cur.seq]
        /\ cur \in NextCursors
    BY DEF TypeOK, Caches, PairCursors, Cursors, NextCursors, Idx, SeqNos
  <1>0. \A d \in known : d \in discovered /\ d \in cur.deposit .. (cur.deposit + BatchSize - 1)
    BY DEF PlanPairings, PairingWindow
  <1>2. discovered \in SUBSET Idx /\ seqs \in SUBSET SeqNos
    BY <1>1 DEF Deposits, Idx, FetchedSeqs, SeqNos
  <1>3. /\ Planned(cur, result, discovered, status, seqs)
        /\ result.cursor.deposit < MaxIdx /\ result.cursor.seq < MaxSeq =>
                PlanAgrees(cur, discovered, status, seqs, result)
    BY <1>1, <1>2, PlanLoopPlans, PlanLoops DEF PlanLoopAsSpecified
  <1> HIDE DEF cur, seqs, result, n
  <1>4. end \in Nat /\ cur.deposit <= end /\ \A d \in cur.deposit .. (end - 1) : d \in known
    <2>1. end \in Nat /\ cur.deposit <= end
      BY <1>3 DEF Planned, NextCursors, Idx
    <2>2. ASSUME NEW d \in cur.deposit .. (end - 1) PROVE d \in known
      <3>1. d \in discovered /\ status[d] # "InProgress"
        BY <1>3, <2>2 DEF Planned, Continues
      <3> QED
        BY <3>1
    <2> QED
      BY <2>1, <2>2
  <1>5. end <= N
    <2> SUFFICES ASSUME end > N PROVE FALSE
      BY <1>4
    <2>1. end - 1 \in known
      BY <1>1, <1>4
    <2> QED
      BY <1>4, <2>1 DEF Deposits
  <1>6. result.cursor.seq = n(end) /\ n(end) <= cur.seq + N
    <2>1. n(end) = cur.seq + Cardinality(Takers(status, cur.deposit, end))
      BY DEF n, NumberAt, Takers
    <2>2. Cardinality(Takers(status, cur.deposit, end)) \in Nat
          /\ Cardinality(Takers(status, cur.deposit, end)) <= N
      <3> DEFINE I == 0 .. (N - 1)
      <3>1. Takers(status, cur.deposit, end) \subseteq I
        BY <1>1, <1>4, <1>5 DEF Takers
      <3>2. 0 \in Int /\ N - 1 \in Int
        OBVIOUS
      <3>3. IsFiniteSet(I) /\ Cardinality(I) = IF 0 > N - 1 THEN 0 ELSE (N - 1) - 0 + 1
        BY <3>2, FS_Interval
      <3>4. Cardinality(I) = N
        BY <3>3
      <3> HIDE DEF I
      <3> QED
        BY <3>1, <3>3, <3>4, FS_Subset, FS_CardinalityType
    <2> QED
      BY <1>1, <1>3, <2>1, <2>2 DEF Planned, n
  <1>7. PlanAgrees(cur, discovered, status, seqs, result)
    <2>1. n(end) \in Nat
      BY <1>1, <1>4, Numbers DEF n
    <2> HIDE DEF end
    <2>2. cur.seq + N < MaxSeq
      BY DEF cur
    <2>3. end < MaxIdx /\ n(end) < MaxSeq
      BY <1>1, <1>4, <1>5, <1>6, <2>1, <2>2
    <2> QED
      BY <1>3, <1>6, <2>3 DEF end
  <1>8. /\ \A d \in cur.deposit .. (end - 1) : Loops(d)
        /\ ~Loops(end)
        /\ result.pairings = {[deposit |-> d, seq |-> n(d)] :
                                 d \in {c \in cur.deposit .. (end - 1) : status[c] # "Failed"}}
    BY <1>7 DEF PlanAgrees, StopsAt, n
  <1>9. ASSUME NEW d \in cur.deposit .. end
        PROVE  SeqAt(cur, d) = n(d) /\ (Goes(d) <=> Loops(d))
    <2>1. \A c \in cur.deposit .. (d - 1) : c \in known /\ c \in discovered
      BY <1>0, <1>1, <1>4, <1>9
    <2>2. {c \in cur.deposit .. (d - 1) : c \notin Failed}
            = {c \in cur.deposit .. (d - 1) : status[c] # "Failed"}
      BY <2>1
    <2>3. SeqAt(cur, d) = n(d)
      BY <2>2 DEF SeqAt, n, NumberAt
    <2>4. d \in known <=> d \in discovered /\ status[d] # "InProgress"
      BY <1>0
    <2>5. d \in discovered => (status[d] = "Failed" <=> d \in known /\ d \in Failed)
      OBVIOUS
    <2> QED
      BY <2>3, <2>4, <2>5
  <1>10. PICK stop \in Cursors :
            /\ StopsAt(cur.deposit, stop,
                   LAMBDA d : d \in known /\ (d \in Failed \/ SeqAt(cur, d) \in seqs))
            /\ LET paired == (cur.deposit .. (stop - 1)) \ Failed
               IN  IF stop = cur.deposit
                   THEN pc' = "withdrawals" /\ UNCHANGED <<plan, todo>>
                   ELSE /\ plan' = [pairs  |-> [d \in Deposits |->
                                        IF d \in paired THEN SeqAt(cur, d) ELSE NoSeq],
                                    cursor |-> [deposit |-> stop, seq |-> SeqAt(cur, stop)]]
                        /\ todo' = paired
                        /\ pc' = "pairing"
    BY DEF PlanPairings, cur, seqs
  <1>11. /\ stop \in Nat /\ stop <= N /\ cur.deposit <= stop
         /\ \A d \in cur.deposit .. (stop - 1) : Goes(d)
         /\ ~Goes(stop)
    BY <1>10 DEF StopsAt, Cursors
  <1>12. stop = end
    <2> HIDE DEF Goes, Loops, end
    <2>1. ASSUME stop < end PROVE FALSE
      <3>1. stop \in cur.deposit .. end /\ stop \in cur.deposit .. (end - 1)
        BY <1>1, <1>4, <1>11, <2>1
      <3> QED
        BY <1>8, <1>9, <1>11, <3>1
    <2>2. ASSUME end < stop PROVE FALSE
      <3>1. end \in cur.deposit .. end /\ end \in cur.deposit .. (stop - 1)
        BY <1>1, <1>4, <1>11, <2>2
      <3> QED
        BY <1>8, <1>9, <1>11, <3>1
    <2> QED
      BY <1>4, <1>11, <2>1, <2>2
  <1>13. n(cur.deposit) = cur.seq
    BY <1>1, Numbers DEF n
  <1>14. result.cursor = [deposit |-> stop, seq |-> n(stop)]
    BY <1>3, <1>6, <1>12 DEF Planned, NextCursors
  <1>15. CASE stop = cur.deposit
    <2>1. result.cursor = cur
      BY <1>1, <1>13, <1>14, <1>15
    <2> QED
      BY <1>10, <1>15, <2>1 DEF result, cur, seqs
  <1>16. CASE stop # cur.deposit
    <2>1. result.cursor # cur
      BY <1>14, <1>16
    <2> DEFINE paired == (cur.deposit .. (stop - 1)) \ Failed
    <2>2. /\ plan' = [pairs  |-> [d \in Deposits |-> IF d \in paired THEN SeqAt(cur, d) ELSE NoSeq],
                      cursor |-> [deposit |-> stop, seq |-> SeqAt(cur, stop)]]
          /\ todo' = paired
          /\ pc' = "pairing"
      BY <1>10, <1>16
    <2>3. SeqAt(cur, stop) = n(stop)
      BY <1>1, <1>9, <1>11, <1>12
    <2>4. plan'.cursor = result.cursor
      BY <1>14, <2>2, <2>3
    <2>5. paired = {c \in cur.deposit .. (end - 1) : status[c] # "Failed"}
      BY <1>0, <1>4, <1>12
    <2>6. ASSUME NEW d \in paired PROVE plan'.pairs[d] = n(d)
      <3>1. d \in cur.deposit .. end /\ d \in Deposits
        BY <1>1, <1>4, <1>5, <1>12 DEF Deposits
      <3> QED
        BY <1>9, <2>2, <3>1
    <2>7. result.pairings = {[deposit |-> d, seq |-> n(d)] : d \in paired}
      BY <1>8, <2>5
    <2>8. result.pairings = {[deposit |-> d, seq |-> plan'.pairs[d]] : d \in todo'}
      <3> HIDE DEF paired
      <3> QED
        BY <2>2, <2>6, <2>7
    <2> QED
      BY <2>1, <2>2, <2>4, <2>8 DEF result, cur, seqs
  <1> QED
    BY <1>15, <1>16
================================================================================
