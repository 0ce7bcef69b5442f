--------------------------- MODULE DepositInfo_proofs ---------------------------
(***************************************************************************)
(* Proofs about DepositInfo, for every number of deposits and whatever the *)
(* queries answer, the writes fail or the process is killed.               *)
(***************************************************************************)
EXTENDS DepositInfo, TLAPS

USE SizeAssumption

\* While a tick has a cursor in hand, it is the one that the answers allow, and the
\* answers are of deposits that the cache's cursor has not passed.
PendingSound ==
    /\ \A d \in Deposits : answers[d] # "none" => d >= cursor
    /\ pc # "idle" => StopsDense(cursor, next, Terminal(answers))
    /\ pc = "cache" => disk = next

DepositInv ==
    /\ TypeOK
    /\ NoStrandedDeposit
    /\ CursorBehindDisk
    /\ PendingSound

\* A cursor that does not move forward passes nothing.
LEMMA EmptyRange == \A a, b \in 0 .. N : b <= a => a .. (b - 1) = {}
  OBVIOUS

\* What a cursor that stops at the first unsettled deposit says of those it passes.
LEMMA DenseFacts ==
    ASSUME NEW a \in Cursors, NEW b \in Cursors, NEW found \in [Deposits -> Answers],
           StopsDense(a, b, Terminal(found))
    PROVE  a <= b /\ \A d \in Deposits : a <= d /\ d < b => found[d] = "Deep"
  BY DEF StopsDense, Terminal, Cursors, Deposits

\* The initial states satisfy the invariant.
LEMMA DepositInit == Init => DepositInv
  BY DEF Init, DepositInv, TypeOK, NoStrandedDeposit, CursorBehindDisk, PendingSound,
         NoAnswers, Cursors, Rows, Answers, Deposits

\* A tick's collected answers satisfy it.
LEMMA CollectDepositsSound ==
    ASSUME DepositInv, NEW found \in [Deposits -> Answers], CollectDeposits(found)
    PROVE  DepositInv'
  <1>1. /\ pc = "idle" /\ pc' = "cursor" /\ answers' = found
        /\ \A d \in Deposits : found[d] # "none" => d >= cursor
        /\ next' \in Cursors /\ StopsDense(cursor, next', Terminal(found))
        /\ UNCHANGED <<rows, cursor, disk, flushed>>
    BY DEF CollectDeposits
  <1>2. TypeOK'
    BY <1>1 DEF DepositInv, TypeOK
  <1>3. NoStrandedDeposit' /\ CursorBehindDisk'
    BY <1>1 DEF DepositInv, NoStrandedDeposit, CursorBehindDisk
  <1>4. StopsDense(cursor, next, Terminal(answers))'
    BY <1>1 DEF StopsDense, Terminal
  <1>5. PendingSound'
    BY <1>1, <1>4 DEF PendingSound
  <1> QED
    BY <1>2, <1>3, <1>5 DEF DepositInv

\* So does the cursor that is put.
LEMMA PutDepositInfoCursorSound ==
    ASSUME DepositInv, PutDepositInfoCursor
    PROVE  DepositInv'
  <1>1. /\ pc = "cursor" /\ pc' = "cache" /\ disk' = next
        /\ UNCHANGED <<rows, cursor, flushed, answers, next>>
    BY DEF PutDepositInfoCursor
  <1>2. cursor <= next /\ cursor = disk /\ flushed <= disk
    BY <1>1, DenseFacts DEF DepositInv, PendingSound, TypeOK, CursorBehindDisk
  <1>3. TypeOK' /\ NoStrandedDeposit'
    BY <1>1 DEF DepositInv, TypeOK, NoStrandedDeposit
  <1>4. CursorBehindDisk'
    BY <1>1, <1>2 DEF DepositInv, CursorBehindDisk, TypeOK, Cursors
  <1>5. StopsDense(cursor, next, Terminal(answers))'
    BY <1>1 DEF DepositInv, PendingSound, StopsDense, Terminal
  <1>6. PendingSound'
    BY <1>1, <1>5 DEF DepositInv, PendingSound
  <1> QED
    BY <1>3, <1>4, <1>6 DEF DepositInv

\* Rows of deposits below the new cursor are purged; the others were not below the
\* old one.
LEMMA CacheDepositsSound ==
    ASSUME DepositInv, CacheDeposits
    PROVE  DepositInv'
  <1>1. /\ pc = "cache" /\ pc' = "idle" /\ answers' = NoAnswers /\ next' = 0
        /\ rows' = [d \in Deposits |-> RowAfter(answers[d], rows[d])]
        /\ cursor' = next
        /\ UNCHANGED <<disk, flushed>>
    BY DEF CacheDeposits, EndPhase
  <1>2. /\ cursor <= next /\ disk = next
        /\ \A d \in Deposits : cursor <= d /\ d < next => answers[d] = "Deep"
    BY <1>1, DenseFacts DEF DepositInv, PendingSound, TypeOK
  <1>3. TypeOK'
    BY <1>1 DEF DepositInv, TypeOK, RowAfter, Rows, Answers, NoAnswers, Cursors
  <1>4. NoStrandedDeposit'
    <2>1. SUFFICES ASSUME NEW d \in Deposits, rows'[d] # "none", d < next
                   PROVE  FALSE
      BY <1>1 DEF NoStrandedDeposit, DepositInv, TypeOK, Cursors, Deposits
    <2>2. rows[d] # "none" \/ answers[d] # "none"
      BY <1>1, <2>1 DEF RowAfter
    <2>3. cursor <= d
      BY <2>2 DEF DepositInv, NoStrandedDeposit, PendingSound
    <2>4. answers[d] = "Deep"
      BY <1>2, <2>1, <2>3
    <2> QED
      BY <1>1, <2>1, <2>4 DEF RowAfter
  <1>5. CursorBehindDisk'
    BY <1>1, <1>2 DEF DepositInv, CursorBehindDisk, TypeOK, Cursors
  <1>6. PendingSound'
    BY <1>1 DEF PendingSound, NoAnswers
  <1> QED
    BY <1>3, <1>4, <1>5, <1>6 DEF DepositInv

\* Every step preserves it.
LEMMA DepositStep == DepositInv /\ [Next]_vars => DepositInv'
  <1> SUFFICES ASSUME DepositInv, [Next]_vars
               PROVE  DepositInv'
    OBVIOUS
  <1>1. CASE \E found \in [Deposits -> Answers] : CollectDeposits(found)
    BY <1>1, CollectDepositsSound
  <1>2. CASE PutDepositInfoCursor
    BY <1>2, PutDepositInfoCursorSound
  <1>3. CASE FailDepositInfoCursor
    BY <1>3 DEF FailDepositInfoCursor, EndPhase, DepositInv, TypeOK, NoStrandedDeposit,
                CursorBehindDisk, PendingSound, NoAnswers, Answers, Cursors
  <1>4. CASE CacheDeposits
    BY <1>4, CacheDepositsSound
  <1>5. CASE Flush
    <2>1. flushed' = disk /\ UNCHANGED <<rows, cursor, disk, pc, answers, next>>
      BY <1>5 DEF Flush
    <2>2. TypeOK' /\ NoStrandedDeposit' /\ CursorBehindDisk'
      BY <2>1 DEF DepositInv, TypeOK, NoStrandedDeposit, CursorBehindDisk, Cursors
    <2>3. PendingSound'
      BY <2>1 DEF DepositInv, PendingSound, StopsDense, Terminal
    <2> QED
      BY <2>2, <2>3 DEF DepositInv
  <1>6. CASE Crash
    BY <1>6 DEF Crash, EndPhase, DepositInv, TypeOK, NoStrandedDeposit,
                CursorBehindDisk, PendingSound, NoAnswers, Answers, Rows, Cursors
  <1>7. CASE UNCHANGED vars
    <2>1. UNCHANGED <<rows, cursor, disk, flushed, pc, answers, next>>
      BY <1>7 DEF vars
    <2>2. TypeOK' /\ NoStrandedDeposit' /\ CursorBehindDisk'
      BY <2>1 DEF DepositInv, TypeOK, NoStrandedDeposit, CursorBehindDisk
    <2>3. PendingSound'
      BY <2>1 DEF DepositInv, PendingSound, StopsDense, Terminal
    <2> QED
      BY <2>2, <2>3 DEF DepositInv
  <1> QED
    BY <1>1, <1>2, <1>3, <1>4, <1>5, <1>6, <1>7 DEF Next

\* The invariant of the deposit rows holds in every reachable state.
THEOREM DepositCorrect == Spec => []DepositInv
  BY DepositInit, DepositStep, PTL DEF Spec

\* A row that is served is one that the next tick queries.
THEOREM NoDepositStranded == Spec => []NoStrandedDeposit
  <1>1. DepositInv => NoStrandedDeposit
    BY DEF DepositInv
  <1> QED
    BY DepositCorrect, <1>1, PTL

\* The cache's cursor waits for the database's.
THEOREM DepositWriteAhead == Spec => []CursorBehindDisk
  <1>1. DepositInv => CursorBehindDisk
    BY DEF DepositInv
  <1> QED
    BY DepositCorrect, <1>1, PTL

\* A deposit row leaves the response only after its settlement is in the database,
\* or with the process.
THEOREM DepositShown == Spec => ShownUntilSettled
  <1>1. ASSUME DepositInv, [Next]_vars
        PROVE  \A d \in Deposits : rows[d] # "none" /\ rows'[d] = "none" =>
                (answers[d] = "Deep" /\ pc = "cache" /\ disk = next)
                \/ (disk' = flushed /\ rows' = NoAnswers)
    <2>1. CASE CacheDeposits
      <3>1. pc = "cache" /\ disk = next
        BY <1>1, <2>1 DEF CacheDeposits, DepositInv, PendingSound
      <3>2. \A d \in Deposits : rows'[d] = RowAfter(answers[d], rows[d])
        BY <2>1 DEF CacheDeposits
      <3> QED
        BY <3>1, <3>2 DEF RowAfter
    <2>2. CASE Crash
      BY <2>2 DEF Crash
    <2>3. CASE UNCHANGED rows
      BY <2>3
    <2> QED
      BY <1>1, <2>1, <2>2, <2>3
      DEF Next, vars, CollectDeposits, PutDepositInfoCursor, FailDepositInfoCursor, Flush
  <1> QED
    BY <1>1, DepositCorrect, PTL DEF Spec, ShownUntilSettled

\* The database's cursor passes only deposits that this tick saw settled.
THEOREM DepositSettledPassed == Spec => OnlySettledPassed
  <1>1. ASSUME DepositInv, [Next]_vars
        PROVE  \A d \in disk .. (disk' - 1) : answers[d] = "Deep" /\ d >= cursor
    <2>1. CASE PutDepositInfoCursor
      <3>1. /\ disk = cursor /\ disk' = next /\ next \in Cursors
            /\ \A d \in Deposits : cursor <= d /\ d < next => answers[d] = "Deep"
        BY <1>1, <2>1, DenseFacts
        DEF PutDepositInfoCursor, DepositInv, PendingSound, CursorBehindDisk, TypeOK
      <3>2. cursor \in 0 .. N /\ next \in 0 .. N
        BY <1>1 DEF DepositInv, TypeOK, Cursors
      <3>3. SUFFICES ASSUME NEW d \in disk .. (disk' - 1)
                     PROVE  answers[d] = "Deep" /\ d >= cursor
        OBVIOUS
      <3>4. d \in Deposits /\ cursor <= d /\ d < next
        BY <3>1, <3>2, <3>3 DEF Deposits
      <3> QED
        BY <3>1, <3>4
    <2>2. CASE disk' = disk
      BY <1>1, <2>2 DEF DepositInv, TypeOK, Cursors
    <2>3. CASE Crash
      <3>1. disk' <= disk /\ disk' \in 0 .. N /\ disk \in 0 .. N
        BY <1>1, <2>3 DEF Crash, DepositInv, CursorBehindDisk, TypeOK, Cursors
      <3>2. disk .. (disk' - 1) = {}
        BY <3>1, EmptyRange
      <3> QED
        BY <3>2
    <2> QED
      BY <1>1, <2>1, <2>2, <2>3
      DEF Next, vars, CollectDeposits, CacheDeposits, FailDepositInfoCursor, Flush
  <1> QED
    BY <1>1, DepositCorrect, PTL DEF Spec, OnlySettledPassed
================================================================================
