-------------------------------- MODULE Dashboard --------------------------------
(***************************************************************************)
(* The two tasks of the process that share the withdrawal index            *)
(* (bin/dashboard/src/main.rs): the indexer fills it, the bridge monitor   *)
(* reads it, and each keeps what it has done in a sled database of its own.*)
(* The monitor is BridgeMonitor, reading only requests that are in the     *)
(* index; the index is WithdrawalRequestLog, filled as WithdrawalIndexer   *)
(* does it, event by event in the order of the chain.  A kill may take     *)
(* more from one database than from the other.                             *)
(***************************************************************************)
EXTENDS BridgeMonitorLive, Sequences

CONSTANT Units  \* Units[e]: the number of requests in the e-th event on the chain

\* An amount of zero is not decoded (withdrawal_indexer/decoder.rs).
ASSUME UnitsAssumption == Units \in Seq(Nat \ {0})

Events == DOMAIN Units
RequestsOf(e) == [i \in 1 .. Units[e] |-> [event |-> e, sub |-> i - 1]]

NoRow    == [event |-> 0, sub |-> 0]
NoEntry  == [first |-> 0, count |-> 0]
NoAnswer == [asked |-> <<>>, range |-> NoEntry]
Err      == [asked |-> <<>>, range |-> [first |-> -1, count |-> 0]]

VARIABLES
    rows, index, answer,    \* the withdrawal index, as WithdrawalRequestLog has it
    scanned,    \* DbIndexerState: the events up to this one are recorded as scanned
    position    \* the event that the indexer's tick persists next

indexVars == <<rows, index, answer, scanned, position>>
dashVars == <<liveVars, indexVars>>

Log == INSTANCE WithdrawalRequestLog WITH
    Writers <- {"indexer"}, Decoded <- {RequestsOf(e) : e \in Events}, MaxRows <- Requests

DashInit == LiveInit /\ Log!LogInit /\ scanned = 0 /\ position = 1

--------------------------------------------------------------------------------
(* The indexer *)

PersistEvent ==
    /\ position \in Events
    /\ Log!AppendEvent("indexer", RequestsOf(position))
       \/ Log!ReplayEvent("indexer", RequestsOf(position))
    /\ position' = position + 1
    /\ UNCHANGED <<liveVars, scanned>>

\* Mutant: the range that is recorded ends one event too far.
ScannedOneMore == position
Scanned == position - 1

PutIndexerState ==
    /\ scanned # Scanned
    /\ scanned' = Scanned
    /\ UNCHANGED <<liveVars, rows, index, answer, position>>

\* A tick that ends early; the next one begins after the recorded range.
FailIndexing ==
    /\ position # scanned + 1
    /\ position' = scanned + 1
    /\ UNCHANGED <<liveVars, rows, index, answer, scanned>>

--------------------------------------------------------------------------------
(* The monitor *)

Stored == {q \in Log!Seqs : rows[q] # NoRow}

\* The length of a read from `first` on is at most what the index has.
CanRead(first, count) == count <= Cardinality({q \in Stored : q >= first})

AllOf(first, wanted) ==
    CHOOSE n \in 0 .. wanted : CanRead(first, n) /\ \A k \in 0 .. wanted : CanRead(first, k) => k <= n

FirstSeq ==
    LET candidates == WithdrawalCandidates
    IN  IF candidates = {} THEN 0 ELSE cache.pairs[CHOOSE d \in candidates : IsFirst(d, candidates)]

MonitorStep ==
    \/ \E discovered \in {0 .. (k - 1) : k \in Cursors}, known \in SUBSET Deposits,
          count \in 0 .. BatchSize :
            CanRead(cache.pairCur.seq, count) /\ PlanPairings(discovered, known, count)
    \/ \E found \in [Deposits -> WithdrawalAnswers], count \in Cursors :
            CanRead(FirstSeq, count) /\ CollectWithdrawals(found, count)
    \/ pc \notin {"idle", "withdrawals"} /\ TaskStep     \* it reads the index nowhere else

\* The same with every fault left out; a candidate whose request is not in the index
\* (any more) is passed over.
CalmMonitorStep ==
    \/ LET window == PairingWindow(Deposits)
       IN  PlanPairings(Deposits, window, AllOf(cache.pairCur.seq, Cardinality(window)))
    \/ LET candidates == WithdrawalCandidates
       IN  CollectWithdrawals(AllDeep({d \in candidates : cache.pairs[d] \in Stored}),
                              AllOf(FirstSeq, Cardinality(candidates)))
    \/ CalmStep

--------------------------------------------------------------------------------
(* The process *)

\* The process is killed and starts again.  Each database comes back with some prefix
\* of its log: the index without its last events, and without the scan positions that
\* cover one of these.
Kill ==
    /\ Crash
    /\ \E end \in Log!Ends : Log!Reopen(end)
    /\ scanned' \in 0 .. scanned
    /\ \A e \in Events : index[e] # NoEntry /\ index'[e] = NoEntry => scanned' < e
    /\ position' = scanned' + 1
    /\ UNCHANGED calm

DashStormy ==
    /\ ~calm
    /\ \/ (MonitorStep \/ Flush) /\ UNCHANGED <<calm, indexVars>>
       \/ FailIndexing
       \/ Kill

DashCalm    == GoCalm /\ UNCHANGED indexVars
DashWorking == calm /\ CalmMonitorStep /\ UNCHANGED <<calm, indexVars>>
DashSyncing == Syncing /\ UNCHANGED indexVars
Indexing    == PersistEvent \/ PutIndexerState

DashNext == DashStormy \/ DashCalm \/ DashWorking \/ DashSyncing \/ Indexing

\* Both tasks tick; sled flushes every 500 ms.
DashSpec ==
    /\ DashInit /\ [][DashNext]_dashVars
    /\ WF_dashVars(DashWorking) /\ WF_dashVars(DashSyncing) /\ WF_dashVars(Indexing)

--------------------------------------------------------------------------------
(* What must hold *)

UnitsBefore(e) == Cardinality(UNION {{<<c, i>> : i \in 1 .. Units[c]} : c \in 1 .. (e - 1)})

\* Whatever each database has lost, a deposit is never joined with another's request:
\* wherever a pairing is kept, in memory, on disk or in what a kill leaves, the row
\* that the index has under its number, if any, is the request whose place on the chain
\* is the deposit's place among the completed ones.
PairedWithOwnRequest ==
    \A s \in {cache, disk, flushed} : \A d \in Deposits :
        s.pairs[d] \in Stored =>
            LET row == rows[s.pairs[d]] IN UnitsBefore(row.event) + row.sub = Rank(d)
================================================================================
