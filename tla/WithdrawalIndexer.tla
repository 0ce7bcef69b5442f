--------------------------- MODULE WithdrawalIndexer ---------------------------
(***************************************************************************)
(* The withdrawal indexer task and the database it writes                  *)
(* (crates/bridge/src/withdrawal_indexer/, db/withdrawal_index/db.rs): the *)
(* bridge-out logs of the EVM chain become withdrawal requests with        *)
(* consecutive sequence numbers, one request per denomination unit.        *)
(*                                                                         *)
(* The logs of the canonical chain are numbered 1 .. L in (block, log      *)
(* index) order, the order the task sorts a batch into.  A request row is  *)
(* abstracted to the log it was decoded from.                              *)
(***************************************************************************)
EXTENDS Integers, FiniteSets

CONSTANTS
    L,            \* bound: the number of bridge-out logs on the chain
    BlockOf,      \* the block of each log
    Offset,       \* Offset[k]: how many units the logs before k withdraw
    StartBlock, FinalityLag, Batch,     \* config
    RpcLag,       \* how far a node that answers a query may be behind the head,
                  \* or how deep the fork that it is on
    MaxHead       \* bound: the last block produced

Logs  == 1 .. L
\* A log that does not decode (its amount is no positive multiple of the
\* denomination, or more than u32::MAX of them) has no units.
Units(k) == Offset[k + 1] - Offset[k]
Seqs  == 0 .. (Offset[L + 1] - 1)
NoLog == 0
NoSeq == -1
NoScan == -1    \* no indexer state in the database

ASSUME SizesAssumption ==
    L \in Nat /\ StartBlock \in Nat /\ FinalityLag \in Nat /\ Batch \in Nat
    /\ RpcLag \in Nat /\ MaxHead \in Nat
\* The genesis block has no logs; those below start_block are not of interest.
ASSUME ChainAssumption ==
    /\ BlockOf \in [Logs -> Nat]
    /\ \A j, k \in Logs : j <= k => BlockOf[j] <= BlockOf[k]
    /\ \A k \in Logs : BlockOf[k] > 0 /\ BlockOf[k] >= StartBlock
ASSUME OffsetAssumption ==
    /\ Offset \in [1 .. (L + 1) -> Nat]
    /\ Offset[1] = 0
    /\ \A j, k \in 1 .. (L + 1) : j <= k => Offset[j] <= Offset[k]
\* finality_lag is configured to cover reorganisations and lagging nodes; the code
\* does not check this, and relies on it.
ASSUME LagAssumption == RpcLag <= FinalityLag

VARIABLES
    db,        \* the withdrawal index as its handles see it
    flushed,   \* the prefix of the database's log that survives a kill
    head,      \* the chain's head
    pc, from, to,   \* where the tick stands and the block range it scans
    batch      \* the logs of the range that are still to be persisted

vars == <<db, flushed, head, pc, from, to, batch>>

Blocks   == 0 .. MaxHead
Stores   == [rows  : [Seqs -> Logs \cup {NoLog}],   \* WithdrawalRequestSchema
             first : [Logs -> Nat \cup {NoSeq}],    \* WithdrawalEventIndexSchema
             scanned : Blocks \cup {NoScan}]        \* IndexerStateSchema

EmptyStore == [rows |-> [q \in Seqs |-> NoLog], first |-> [k \in Logs |-> NoSeq],
               scanned |-> NoScan]

Init ==
    /\ db = EmptyStore
    /\ flushed = EmptyStore
    /\ head = 0
    /\ pc = "idle"
    /\ from = 0 /\ to = 0
    /\ batch = {}

--------------------------------------------------------------------------------
(* insert_withdrawal_event *)

\* max_withdrawal_seq + 1
IsNextSeq(f) ==
    /\ f \in Nat
    /\ \A q \in Seqs : q >= f => db.rows[q] = NoLog
    /\ f > 0 => f - 1 \in Seqs /\ db.rows[f - 1] # NoLog

\* A known event whose rows are all there is left alone; one whose rows are not
\* is refused (EventIndexInconsistent), which the enclosing tick turns into FailTick.
ReplayEvent(k) ==
    /\ db.first[k] # NoSeq
    /\ \A q \in db.first[k] .. (db.first[k] + Units(k) - 1) : db.rows[q] = k
    /\ UNCHANGED db

\* One transaction writes the rows of a new event and its index entry.
InsertEvent(k) ==
    /\ db.first[k] = NoSeq
    /\ \E f \in 0 .. Offset[L + 1] :
        /\ IsNextSeq(f)
        /\ LET taken == f .. (f + Units(k) - 1)
           IN  db' = [db EXCEPT !.rows = [q \in Seqs |-> IF q \in taken THEN k ELSE @[q]],
                                !.first[k] = f]

--------------------------------------------------------------------------------
(* tick *)

\* Mutant: the finality lag is ignored.
NewestHead(reported) == reported
SafeHead(reported) == IF reported >= FinalityLag THEN reported - FinalityLag ELSE 0
\* Mutant: `to` taken as exclusive.
NextFromSkipping == IF db.scanned = NoScan THEN StartBlock ELSE db.scanned + 2
NextFrom == IF db.scanned = NoScan THEN StartBlock ELSE db.scanned + 1
BatchEnd == NextFrom + (IF Batch > 0 THEN Batch - 1 ELSE 0)

RangeEnd(reported) == IF BatchEnd <= SafeHead(reported) THEN BatchEnd ELSE SafeHead(reported)
\* Mutant: `safe_head < from` is not looked at.
HasWorkAlways(reported) == TRUE
HasWork(reported) == NextFrom <= SafeHead(reported)

\* eth_blockNumber reports the head, or one that lags; a tick that finds
\* safe_head < from ends at once (CaughtUp).
StartTick(reported) ==
    /\ pc = "idle"
    /\ reported <= head /\ head <= reported + RpcLag
    /\ HasWork(reported)
    /\ from' = NextFrom
    /\ to' = RangeEnd(reported)
    /\ pc' = "fetch"
    /\ UNCHANGED <<db, flushed, head, batch>>

CaughtUp == pc = "idle" /\ ~HasWork(head) /\ UNCHANGED vars

InRange(k) == from <= BlockOf[k] /\ BlockOf[k] <= to

\* eth_getLogs: the node that answers knows every log that is RpcLag blocks below
\* the head, and any of those above.  A batch in which a log is repeated is refused
\* as a whole (DuplicateLog), which is FailTick.
FetchLogs(found) ==
    /\ pc = "fetch"
    /\ \A k \in found : InRange(k)
    /\ \A k \in Logs : InRange(k) /\ BlockOf[k] <= head - RpcLag => k \in found
    /\ batch' = found
    /\ pc' = "persist"
    /\ UNCHANGED <<db, flushed, head, from, to>>

\* Mutant: the batch is taken in the order the node returned it.
IsAnyLog(k) == k \in batch
IsNextLog(k) == k \in batch /\ \A j \in batch : k <= j

PersistLog(k) ==
    /\ pc = "persist"
    /\ IsNextLog(k)
    /\ Units(k) > 0
    /\ ReplayEvent(k) \/ InsertEvent(k)
    /\ batch' = batch \ {k}
    /\ UNCHANGED <<flushed, head, pc, from, to>>

\* Mutant: the state is written before the logs are.
StateFirst == TRUE
BatchPersisted == batch = {}

\* The state is written only when every log of the range has been persisted.
PutIndexerState ==
    /\ pc = "persist"
    /\ BatchPersisted
    /\ db' = [db EXCEPT !.scanned = to]
    /\ pc' = "idle"
    /\ from' = 0 /\ to' = 0
    /\ batch' = {}
    /\ UNCHANGED <<flushed, head>>

\* A failed query, a repeated log, a log that does not decode or a database error
\* ends the tick; the next one starts over from the same block.
FailTick ==
    /\ pc # "idle"
    /\ pc' = "idle"
    /\ from' = 0 /\ to' = 0
    /\ batch' = {}
    /\ UNCHANGED <<db, flushed, head>>

--------------------------------------------------------------------------------
(* The rest of the world *)

ProduceBlock ==
    /\ head < MaxHead
    /\ head' = head + 1
    /\ UNCHANGED <<db, flushed, pc, from, to, batch>>

Flush ==
    /\ flushed # db
    /\ flushed' = db
    /\ UNCHANGED <<db, head, pc, from, to, batch>>

\* The process dies and starts again on what the database had flushed.  (A shutdown
\* drops the tick at one of its two queries, before it has written: FailTick.)
Crash ==
    /\ db' = flushed
    /\ pc' = "idle"
    /\ from' = 0 /\ to' = 0
    /\ batch' = {}
    /\ UNCHANGED <<flushed, head>>

Next ==
    \/ \E reported \in Blocks : StartTick(reported)
    \/ CaughtUp
    \/ \E found \in SUBSET Logs : FetchLogs(found)
    \/ \E k \in Logs : PersistLog(k)
    \/ PutIndexerState
    \/ FailTick
    \/ ProduceBlock
    \/ Flush
    \/ Crash

Spec == Init /\ [][Next]_vars

--------------------------------------------------------------------------------
(* What must hold *)

\* Every variable stays in its type.
TypeOK ==
    /\ db \in Stores
    /\ flushed \in Stores
    /\ head \in Blocks
    /\ pc \in {"idle", "fetch", "persist"}
    /\ from \in Nat /\ to \in Nat
    /\ batch \in SUBSET Logs

Indexed(s) == {k \in Logs : s.first[k] # NoSeq}

IsChainPrefix(s) ==
    /\ \A k \in Indexed(s) : s.first[k] = Offset[k] /\ Units(k) > 0
    /\ \A k \in Indexed(s), j \in Logs : j < k => j \in Indexed(s)
    /\ \A q \in Seqs : \A k \in Logs :
        Offset[k] <= q /\ q < Offset[k + 1] =>
            s.rows[q] = IF k \in Indexed(s) THEN k ELSE NoLog

\* The index is a prefix of the chain's units in chain order, now and in whatever a
\* kill leaves of it: request number q is the q-th unit withdrawn on the chain, no
\* unit is doubled by a replay or lost by a crash, and no request stands behind a
\* log that did not decode.
IndexIsChainPrefix == IsChainPrefix(db) /\ IsChainPrefix(flushed)

Scanned(s) == {k \in Logs : BlockOf[k] <= s.scanned}

\* The scan position never covers a log whose requests are not in the database, so
\* no log is passed over, whatever node answered and wherever the process died.
NoLogSkipped == Scanned(db) \subseteq Indexed(db) /\ Scanned(flushed) \subseteq Indexed(flushed)

\* Only logs finality_lag blocks below the head have requests: a reorganisation
\* within the lag cannot take back a request that may already be paired.
OnlyFinalIndexed == \A k \in Indexed(db) : BlockOf[k] <= head - FinalityLag

\* What a kill would leave of the index never loses ground.
DurableProgress ==
    [][flushed'.scanned >= flushed.scanned /\ Indexed(flushed) \subseteq Indexed(flushed')]_vars
================================================================================
