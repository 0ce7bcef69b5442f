----------------------------- MODULE BridgeMonitor -----------------------------
(***************************************************************************)
(* The bridge monitoring task: FIFO pairing of withdrawal requests with    *)
(* deposits, withdrawal status rows and reimbursement status rows, the     *)
(* in-memory cache served over HTTP and the status database behind it      *)
(* (crates/bridge/src/status.rs, state.rs, cache.rs, db/status/db.rs).     *)
(*                                                                         *)
(* One task writes the cache, so a phase of its tick is split only where   *)
(* another party can act or the process can die: every database write and  *)
(* every cache update under the write lock is an action of its own, and a  *)
(* crash, an index write or a flush may come between any two of them.      *)
(*                                                                         *)
(* Data is abstracted to what the code tells apart.  A terminal status is  *)
(* "Deep" when its transaction has max_tx_confirmations or more, and       *)
(* "Complete" when it has fewer or their number is unknown (None); a       *)
(* reimbursement in progress and one whose terminal transaction is not yet *)
(* deep are treated alike, as "Pending".  Only Complete withdrawals are    *)
(* ever persisted, so the persisted rows are a set of deposit indices.     *)
(***************************************************************************)
EXTENDS Integers, FiniteSets, CursorLoops

CONSTANTS
    N,          \* bound: the bridge's deposits are 0 .. N-1
    Failed,     \* the deposits whose final status is Failed; the others complete
    BatchSize,  \* config: withdrawal_pairing_batch_size
    Requests    \* bound: how many withdrawal requests are ever indexed

ASSUME SizesAssumption == N \in Nat /\ BatchSize \in Nat /\ Requests \in Nat
ASSUME FailedAssumption == Failed \subseteq 0 .. (N - 1)

Deposits == 0 .. (N - 1)
Cursors  == 0 .. N
NoSeq    == -1

\* What one status query contributes to an apply_*_updates call.  "none": the
\* query failed, returned no status, or found no confirmations.
WithdrawalAnswers    == {"none", "InProgress", "Complete", "Deep"}
ReimbursementAnswers == {"none", "Pending", "Deep"}
NoAnswers            == [d \in Deposits |-> "none"]
IsComplete(row)      == row \in {"Complete", "Deep"}

\* The number of deposits before d that take a withdrawal request: the sequence
\* number FIFO pairing must give to d.
Rank(d) == Cardinality({c \in 0 .. (d - 1) : c \notin Failed})

VARIABLES
    cache,      \* BridgeStatusCache, under its RwLock
    disk,       \* the status database as its handles see it
    flushed,    \* the prefix of the database's log that survives a kill
    pc,         \* where the monitoring task's tick stands
    plan,       \* WithdrawalPairingUpdate of this tick
    answers,    \* status updates collected by the current phase
    next,       \* next_cursor computed by the current phase
    todo,       \* rows the current phase has still to write or delete
    purged,     \* rows whose deletion from the database succeeded
    available   \* status_available

vars == <<cache, disk, flushed, pc, plan, answers, next, todo,
          purged, available>>

--------------------------------------------------------------------------------
(* State *)

PairCursors == [deposit : Cursors, seq : Nat]
Pairings    == [Deposits -> Nat \cup {NoSeq}]
Plans       == [pairs : Pairings, cursor : PairCursors]
Stores      == [pairs : Pairings, pairCur : PairCursors,
                complete : SUBSET Deposits, wCur : Cursors, rCur : Cursors]
Caches      == [pairs : Pairings, pairCur : PairCursors,
                withdrawals : [Deposits -> WithdrawalAnswers],
                wCur : Cursors,
                reimbursements : [Deposits -> {"none", "Pending"}],
                rCur : Cursors]
Phases      == {"idle", "pairing", "pairingCache", "withdrawals",
                "withdrawalRows", "pairingPurge", "reimbursements",
                "reimbursementCursor", "withdrawalPurge"}

ZeroCursor == [deposit |-> 0, seq |-> 0]
NoPairs    == [d \in Deposits |-> NoSeq]
NoPlan     == [pairs |-> NoPairs, cursor |-> ZeroCursor]
EmptyStore == [pairs |-> NoPairs, pairCur |-> ZeroCursor,
               complete |-> {}, wCur |-> 0, rCur |-> 0]

\* Mutant: the reimbursement cursor is not restored.
HydrateWithoutLastCursor(s) ==
    [pairs |-> s.pairs, pairCur |-> s.pairCur,
     withdrawals |-> [d \in Deposits |-> IF d \in s.complete THEN "Complete" ELSE "none"],
     wCur |-> s.wCur, reimbursements |-> NoAnswers, rCur |-> 0]
\* from_status_snapshot: the rows come back without their confirmations.
Hydrate(s) ==
    [pairs |-> s.pairs, pairCur |-> s.pairCur,
     withdrawals |-> [d \in Deposits |-> IF d \in s.complete THEN "Complete" ELSE "none"],
     wCur |-> s.wCur,
     reimbursements |-> NoAnswers,
     rCur |-> s.rCur]

Init ==
    /\ disk = EmptyStore
    /\ flushed = EmptyStore
    /\ cache = Hydrate(EmptyStore)
    /\ pc = "idle"
    /\ plan = NoPlan
    /\ answers = NoAnswers
    /\ next = 0
    /\ todo = {}
    /\ purged = {}
    /\ available = FALSE

--------------------------------------------------------------------------------
(* Helpers *)

IsFirst(d, S) == d \in S /\ \A e \in S : d <= e

\* Mutant: a terminal status settles at any number of confirmations.
TerminalAtAnyDepth(found) == {d \in Deposits : found[d] \in {"Complete", "Deep"}}
\* The updates an apply_*_updates call takes as settled.
Terminal(found) == {d \in Deposits : found[d] = "Deep"}

\* Mutant: a Failed deposit consumes a request.
SeqAtCountingFailed(cur, d) == cur.seq + (d - cur.deposit)
\* The sequence number the pairing loop, entered at cursor cur, has reached when
\* it gets to deposit d: a Failed deposit consumes none.
SeqAt(cur, d) == cur.seq + Cardinality({c \in cur.deposit .. (d - 1) : c \notin Failed})

\* The sequence numbers fetch_withdrawal_requests returns when its batched reads
\* from `first` on stop after `count` rows.  The index holds the requests 0, 1, ..
\* without gap (WithdrawalIndexer), and is read while its own task appends to it
\* or after a crash has taken rows from its end: a read may stop anywhere.
FetchedSeqs(first, count) == {s \in first .. (first + count - 1) : s < Requests}

\* Mutant: the cursor is written before the rows it covers.
CursorFirst == TRUE
\* A cursor is put only after the loop over the rows it covers.
RowsWritten == todo = {}

\* Mutant: only the rows this tick's cursor passed are looked at.
OldPairingsOfThisTick(upto) == {d \in cache.wCur .. (upto - 1) : disk.pairs[d] # NoSeq}
\* The rows del_withdrawal_pairings_range(0, upto) finds.
OldPairings(upto) == {d \in 0 .. (upto - 1) : disk.pairs[d] # NoSeq}

\* Mutant: the old row of a settled reimbursement is not removed.
ReimbursementRowStale(found, row) == IF found \in {"none", "Deep"} THEN row ELSE found
\* The cached row after apply_reimbursement_updates and purge_reimbursements.
ReimbursementRow(found, row) ==
    CASE found = "Deep" -> "none"
      [] found = "none" -> row
      [] OTHER          -> found

EndPhase ==
    /\ answers' = NoAnswers
    /\ next' = 0
    /\ todo' = {}
    /\ purged' = {}

--------------------------------------------------------------------------------
(* Phase 1 of a tick: advance_withdrawal_pairings *)

\* deposit_indices_from(..).take(batch): the contiguous run of discovered
\* deposits from the pairing cursor on.
PairingWindow(discovered) ==
    LET from == cache.pairCur.deposit
    IN  {d \in from .. (from + BatchSize - 1) : from .. d \subseteq discovered}

\* A tick has found the chain tip and the deposit indices; `known` are the
\* candidates whose final status a bridge node reported, `count` the request
\* rows read before the index ran out or failed.
PlanPairings(discovered, known, count) ==
    LET cur    == cache.pairCur
        window == PairingWindow(discovered)
        seqs   == FetchedSeqs(cur.seq, count)
    IN  /\ pc = "idle"
        /\ known \subseteq window
        /\ count <= Cardinality(window)
        /\ \E stop \in Cursors :
            /\ StopsAt(cur.deposit, stop,
                       LAMBDA d : d \in known /\ (d \in Failed \/ SeqAt(cur, d) \in seqs))
            /\ LET paired == (cur.deposit .. (stop - 1)) \ Failed
               IN  IF stop = cur.deposit
                   THEN pc' = "withdrawals" /\ UNCHANGED <<plan, todo>>
                   ELSE /\ plan' = [pairs  |-> [d \in Deposits |->
                                        IF d \in paired THEN SeqAt(cur, d) ELSE NoSeq],
                                    cursor |-> [deposit |-> stop, seq |-> SeqAt(cur, stop)]]
                        /\ todo' = paired
                        /\ pc' = "pairing"
        /\ UNCHANGED <<cache, disk, flushed, answers, next, purged,
                       available>>

PutWithdrawalPairing ==
    /\ pc = "pairing"
    /\ \E d \in todo :
        /\ IsFirst(d, todo)
        /\ disk' = [disk EXCEPT !.pairs[d] = plan.pairs[d]]
        /\ todo' = todo \ {d}
    /\ UNCHANGED <<cache, flushed, pc, plan, answers, next, purged,
                   available>>

PutWithdrawalPairingCursor ==
    /\ pc = "pairing"
    /\ RowsWritten
    /\ disk' = [disk EXCEPT !.pairCur = plan.cursor]
    /\ pc' = "pairingCache"
    /\ UNCHANGED <<cache, flushed, plan, answers, next, todo, purged,
                   available>>

CachePairings ==
    /\ pc = "pairingCache"
    /\ cache' = [cache EXCEPT
                    !.pairs = [d \in Deposits |->
                        IF plan.pairs[d] # NoSeq THEN plan.pairs[d] ELSE @[d]],
                    !.pairCur = plan.cursor]
    /\ plan' = NoPlan
    /\ pc' = "withdrawals"
    /\ UNCHANGED <<disk, flushed, answers, next, todo, purged,
                   available>>

\* A row or the cursor cannot be written: the phase ends with a warning.
FailPairingWrite ==
    /\ pc = "pairing"
    /\ plan' = NoPlan
    /\ todo' = {}
    /\ pc' = "withdrawals"
    /\ UNCHANGED <<cache, disk, flushed, answers, next, purged,
                   available>>

--------------------------------------------------------------------------------
(* Phase 2: get_withdrawal_updates and apply_withdrawal_updates *)

WithdrawalCandidates == {d \in cache.wCur .. (N - 1) : cache.pairs[d] # NoSeq}

\* The request rows found for the candidates when at most `count` are read.
CandidateSeqs(count) ==
    UNION {FetchedSeqs(cache.pairs[d], count) :
              d \in {c \in WithdrawalCandidates : IsFirst(c, WithdrawalCandidates)}}

CollectWithdrawals(found, count) ==
    /\ pc = "withdrawals"
    /\ count <= Cardinality(WithdrawalCandidates)
    /\ \A d \in Deposits : found[d] # "none" =>
        d \in WithdrawalCandidates /\ cache.pairs[d] \in CandidateSeqs(count)
    /\ answers' = found
    /\ \E stop \in Cursors :
        /\ StopsSparse(cache.wCur, stop, Terminal(found),
                       cache.pairCur.deposit, WithdrawalCandidates)
        /\ next' = stop
    /\ todo' = {d \in Deposits : IsComplete(found[d])}
    /\ pc' = "withdrawalRows"
    /\ UNCHANGED <<cache, disk, flushed, plan, purged, available>>

PutWithdrawalInfo ==
    /\ pc = "withdrawalRows"
    /\ \E d \in todo :
        /\ IsFirst(d, todo)
        /\ disk' = [disk EXCEPT !.complete = @ \cup {d}]
        /\ todo' = todo \ {d}
    /\ UNCHANGED <<cache, flushed, pc, plan, answers, next, purged,
                   available>>

\* The cursor is written; del_withdrawal_pairings_range(0, next) starts.
PutWithdrawalStatusCursor ==
    /\ pc = "withdrawalRows"
    /\ RowsWritten
    /\ disk' = [disk EXCEPT !.wCur = next]
    /\ todo' = OldPairings(next)
    /\ purged' = 0 .. (next - 1)
    /\ pc' = "pairingPurge"
    /\ UNCHANGED <<cache, flushed, plan, answers, next, available>>

\* Mutant: the cursor moves in memory although it was not written.
FailWithdrawalWriteIgnored ==
    /\ pc = "withdrawalRows"
    /\ EndPhase
    /\ cache' = [cache EXCEPT !.wCur = next]
    /\ pc' = "reimbursements"
    /\ UNCHANGED <<disk, flushed, plan, available>>
FailWithdrawalWrite ==
    /\ pc = "withdrawalRows"
    /\ EndPhase
    /\ pc' = "reimbursements"
    /\ UNCHANGED <<cache, disk, flushed, plan, available>>

DelWithdrawalPairing ==
    /\ pc = "pairingPurge"
    /\ \E d \in todo :
        /\ IsFirst(d, todo)
        /\ disk' = [disk EXCEPT !.pairs[d] = NoSeq]
        /\ todo' = todo \ {d}
    /\ UNCHANGED <<cache, flushed, pc, plan, answers, next, purged,
                   available>>

\* The error is tolerated: rows already removed stay removed, the cache keeps all.
FailPairingPurge ==
    /\ pc = "pairingPurge"
    /\ todo # {}
    /\ todo' = {}
    /\ purged' = {}
    /\ UNCHANGED <<cache, disk, flushed, pc, plan, answers, next,
                   available>>

CacheWithdrawals ==
    /\ pc = "pairingPurge"
    /\ todo = {}
    /\ cache' = [cache EXCEPT
                    !.withdrawals = [d \in Deposits |->
                        IF answers[d] # "none" THEN answers[d] ELSE @[d]],
                    !.pairs = [d \in Deposits |-> IF d \in purged THEN NoSeq ELSE @[d]],
                    !.wCur = next]
    /\ EndPhase
    /\ pc' = "reimbursements"
    /\ UNCHANGED <<disk, flushed, plan, available>>

--------------------------------------------------------------------------------
(* Phase 3: get_reimbursement_updates and apply_reimbursement_updates *)

ReimbursementCandidates ==
    {d \in cache.rCur .. (N - 1) : IsComplete(cache.withdrawals[d])}

CollectReimbursements(found) ==
    /\ pc = "reimbursements"
    /\ \A d \in Deposits : found[d] # "none" => d \in ReimbursementCandidates
    /\ answers' = found
    /\ \E stop \in Cursors :
        /\ StopsSparse(cache.rCur, stop, Terminal(found),
                       cache.wCur, {d \in ReimbursementCandidates : d < cache.wCur})
        /\ next' = stop
        /\ todo' = {d \in 0 .. (stop - 1) : cache.withdrawals[d] # "none"}
    /\ pc' = "reimbursementCursor"
    /\ UNCHANGED <<cache, disk, flushed, plan, purged, available>>

PutReimbursementStatusCursor ==
    /\ pc = "reimbursementCursor"
    /\ disk' = [disk EXCEPT !.rCur = next]
    /\ pc' = "withdrawalPurge"
    /\ UNCHANGED <<cache, flushed, plan, answers, next, todo, purged,
                   available>>

FailReimbursementCursor ==
    /\ pc = "reimbursementCursor"
    /\ EndPhase
    /\ available' = TRUE
    /\ pc' = "idle"
    /\ UNCHANGED <<cache, disk, flushed, plan>>

DelWithdrawalInfo(d) ==
    /\ pc = "withdrawalPurge"
    /\ d \in todo
    /\ disk' = [disk EXCEPT !.complete = @ \ {d}]
    /\ todo' = todo \ {d}
    /\ purged' = purged \cup {d}
    /\ UNCHANGED <<cache, flushed, pc, plan, answers, next, available>>

FailWithdrawalDelete(d) ==
    /\ pc = "withdrawalPurge"
    /\ d \in todo
    /\ todo' = todo \ {d}
    /\ UNCHANGED <<cache, disk, flushed, pc, plan, answers, next, purged,
                   available>>

\* The last cache update of the tick, then mark_status_available.
CacheReimbursements ==
    /\ pc = "withdrawalPurge"
    /\ todo = {}
    /\ cache' = [cache EXCEPT
                    !.reimbursements =
                        [d \in Deposits |-> ReimbursementRow(answers[d], @[d])],
                    !.withdrawals = [d \in Deposits |-> IF d \in purged THEN "none" ELSE @[d]],
                    !.rCur = next]
    /\ EndPhase
    /\ available' = TRUE
    /\ pc' = "idle"
    /\ UNCHANGED <<disk, flushed, plan>>

--------------------------------------------------------------------------------
(* The rest of the process *)

\* sled's background thread flushes its log.
Flush ==
    /\ flushed # disk
    /\ flushed' = disk
    /\ UNCHANGED <<cache, disk, pc, plan, answers, next, todo, purged,
                   available>>

\* The process dies and starts again: the status database comes back with what
\* its log had flushed, and the cache is hydrated from it.
Crash ==
    /\ disk' = flushed
    /\ cache' = Hydrate(flushed)
    /\ plan' = NoPlan
    /\ EndPhase
    /\ available' = FALSE
    /\ pc' = "idle"
    /\ UNCHANGED <<flushed>>

--------------------------------------------------------------------------------
TaskStep ==
    \/ \E discovered \in {0 .. (k - 1) : k \in Cursors}, known \in SUBSET Deposits,
          count \in 0 .. BatchSize : PlanPairings(discovered, known, count)
    \/ PutWithdrawalPairing
    \/ PutWithdrawalPairingCursor
    \/ CachePairings
    \/ FailPairingWrite
    \/ \E found \in [Deposits -> WithdrawalAnswers], count \in Cursors :
          CollectWithdrawals(found, count)
    \/ PutWithdrawalInfo
    \/ PutWithdrawalStatusCursor
    \/ FailWithdrawalWrite
    \/ DelWithdrawalPairing
    \/ FailPairingPurge
    \/ CacheWithdrawals
    \/ \E found \in [Deposits -> ReimbursementAnswers] : CollectReimbursements(found)
    \/ PutReimbursementStatusCursor
    \/ FailReimbursementCursor
    \/ \E d \in Deposits : DelWithdrawalInfo(d)
    \/ \E d \in Deposits : FailWithdrawalDelete(d)
    \/ CacheReimbursements

Next ==
    \/ TaskStep
    \/ Flush
    \/ Crash

Spec == Init /\ [][Next]_vars

--------------------------------------------------------------------------------
(* What must hold *)

\* Every variable stays in its type.
TypeOK ==
    /\ cache \in Caches
    /\ disk \in Stores
    /\ flushed \in Stores
    /\ pc \in Phases
    /\ plan \in Plans
    /\ answers \in [Deposits -> IF pc \in {"reimbursementCursor", "withdrawalPurge"}
                                THEN ReimbursementAnswers ELSE WithdrawalAnswers]
    /\ next \in Cursors
    /\ todo \in SUBSET Deposits
    /\ purged \in SUBSET Deposits
    /\ available \in BOOLEAN

FifoIn(s) ==
    /\ s.pairCur.seq = Rank(s.pairCur.deposit)
    /\ \A d \in Deposits : s.pairs[d] # NoSeq => d \notin Failed /\ s.pairs[d] = Rank(d)

\* Withdrawal requests are paired in FIFO order: wherever a pairing or the
\* pairing cursor is kept, in memory, in the database or in what a kill leaves of
\* it, the request paired with a deposit is the one with as many requests before
\* it as there are completed deposits before the deposit, and no Failed deposit is
\* paired.  In particular no request is ever paired with two deposits, and a
\* pairing recomputed after a crash is the pairing lost in it.
PairingIsFIFO == FifoIn(cache) /\ FifoIn(disk) /\ FifoIn(flushed)

Ordered(s) == s.rCur <= s.wCur /\ s.wCur <= s.pairCur.deposit

\* The three cursors stay in pipeline order in the cache and in every state of
\* the database a crash can expose: no status cursor overtakes the one before it.
CursorOrder == Ordered(cache) /\ Ordered(disk) /\ Ordered(flushed)

Unpaired(s) == {d \in s.wCur .. (s.pairCur.deposit - 1) : d \notin Failed /\ s.pairs[d] = NoSeq}

\* A completed deposit the pairing cursor has passed keeps its pairing until its
\* withdrawal is settled.  The sparse withdrawal cursor skips every index without
\* a pairing, so a pairing lost (or deleted too early) is a withdrawal never shown.
NoPairingLost == Unpaired(cache) = {} /\ Unpaired(disk) = {} /\ Unpaired(flushed) = {}

Handoff(s) == {d \in s.rCur .. (s.wCur - 1) : d \notin Failed}

\* A settled withdrawal keeps its Complete row, in memory and in whatever a crash
\* leaves of the database, until its reimbursement is settled: the sparse
\* reimbursement cursor skips every index without such a row.
HandoffRetained ==
    /\ \A d \in Handoff(cache) : IsComplete(cache.withdrawals[d])
    /\ Handoff(disk) \subseteq disk.complete
    /\ Handoff(flushed) \subseteq flushed.complete

\* No deposit falls between the cursors: a step moves a status cursor of the
\* database past a completed deposit only when this tick's query reported its
\* withdrawal (reimbursement) terminal with max_tx_confirmations, and, for a
\* withdrawal, when the row the next stage needs is already in the database.
OnlySettledPassed ==
    [][/\ \A d \in disk.wCur .. (disk'.wCur - 1) :
            d \in Failed \/ (answers[d] = "Deep" /\ d \in disk.complete)
       /\ \A d \in disk.rCur .. (disk'.rCur - 1) :
            d \in Failed \/ answers[d] = "Deep"]_vars

\* No row is stranded in the response: a withdrawal row still in progress, and any
\* reimbursement row, lies at or above the cursor from which later ticks update it.
NoStrandedRow ==
    \A d \in Deposits :
        /\ cache.withdrawals[d] = "InProgress" => d >= cache.wCur
        /\ cache.reimbursements[d] # "none" => d >= cache.rCur

\* get_withdrawal_updates reads one run of index rows from the first candidate's
\* sequence number on: the candidates' numbers fill that run with no gap.
CandidatesContiguous ==
    \A d \in WithdrawalCandidates :
        \E c \in WithdrawalCandidates :
            /\ IsFirst(c, WithdrawalCandidates)
            /\ cache.pairs[d] - cache.pairs[c] < Cardinality(WithdrawalCandidates)
            /\ cache.pairs[d] >= cache.pairs[c]

\* What has been flushed is an earlier state of the database.
FlushedBehind ==
    /\ flushed.pairCur.deposit <= disk.pairCur.deposit
    /\ flushed.wCur <= disk.wCur
    /\ flushed.rCur <= disk.rCur

\* Write-ahead: neither the cache, which is what HTTP readers see, nor what a kill
\* would leave is ever ahead of the database.
CacheBehindDisk ==
    /\ FlushedBehind
    /\ cache.pairCur.deposit <= disk.pairCur.deposit
    /\ cache.wCur <= disk.wCur
    /\ cache.rCur <= disk.rCur
    /\ \A d \in cache.wCur .. (cache.pairCur.deposit - 1) :
        disk.wCur <= d => cache.pairs[d] = disk.pairs[d]
    /\ pc = "idle" => cache.wCur = disk.wCur /\ cache.rCur = disk.rCur

\* What a kill would leave never loses ground, across writes, failures, flushes
\* and crashes.
DurableProgress ==
    [][/\ flushed'.pairCur.deposit >= flushed.pairCur.deposit
       /\ flushed'.wCur >= flushed.wCur
       /\ flushed'.rCur >= flushed.rCur]_vars

\* The withdrawal rows of the response (bridge_status).
ServedWithdrawals ==
    {d \in Deposits : cache.withdrawals[d] \in {"InProgress", "Complete"}}

\* "Complete withdrawals may be retained as reimbursement handoff state; omit them
\* from this response at `max_confirmations`": a row the withdrawal cursor has
\* passed was seen at max_confirmations, so once the status is served it is omitted.
HandoffRowsOmitted ==
    available => \A d \in ServedWithdrawals : d >= cache.wCur

\* A store as a state of the pipeline: the cursors say what has happened, and of the
\* pairing rows those between the first two count.
PipelineOf(s) ==
    [paired |-> s.pairCur.deposit, settled |-> s.wCur, done |-> s.rCur,
     taken |-> s.pairCur.seq,
     matched |-> [d \in Deposits |-> IF s.wCur <= d /\ d < s.pairCur.deposit
                                     THEN s.pairs[d] ELSE NoSeq]]

Pipeline == INSTANCE WithdrawalPipeline WITH
    working <- PipelineOf(disk), synced <- PipelineOf(flushed)

\* With all its ticks, partial writes, failures, flushes and crashes, the database is
\* a FIFO pipeline that moves in single steps: rows that are written early or deleted
\* late never show, and whatever a crash interrupts is either done or not begun.
ImplementsPipeline == Pipeline!PipelineSpec

--------------------------------------------------------------------------------
(* Why it holds: the inductive invariant *)

\* What the tick is about to write is right: the planned pairings are FIFO, leave no
\* completed deposit below the planned cursor out, and those not in `todo` any more
\* are in the database.
PlanSound ==
    /\ \A d \in Deposits : plan.pairs[d] # NoSeq => d \notin Failed /\ plan.pairs[d] = Rank(d)
    /\ pc \in {"pairing", "pairingCache"} =>
        /\ plan.cursor.seq = Rank(plan.cursor.deposit)
        /\ cache.pairCur.deposit <= plan.cursor.deposit
        /\ \A d \in cache.pairCur.deposit .. (plan.cursor.deposit - 1) :
            d \notin Failed => plan.pairs[d] # NoSeq
    /\ pc = "pairing" =>
        /\ \A d \in todo : plan.pairs[d] # NoSeq
        /\ \A d \in Deposits : plan.pairs[d] # NoSeq => d \in todo \/ disk.pairs[d] # NoSeq

\* The withdrawal cursor about to be written passes only settled withdrawals whose
\* rows are written before it.
WithdrawalPhaseSound ==
    pc \in {"withdrawalRows", "pairingPurge"} =>
        /\ cache.wCur <= next /\ next <= cache.pairCur.deposit
        /\ \A d \in Deposits : answers[d] # "none" => d >= cache.wCur /\ d \notin Failed
        /\ \A d \in cache.wCur .. (next - 1) : d \notin Failed => answers[d] = "Deep"
        /\ \A d \in Deposits : IsComplete(answers[d]) =>
            d \in disk.complete \/ (pc = "withdrawalRows" /\ d \in todo)
        /\ pc = "withdrawalRows" => todo \cap Failed = {}
        /\ pc = "pairingPurge" => todo \cup purged \subseteq 0 .. (next - 1)

\* The reimbursement cursor about to be written passes only settled reimbursements,
\* and only rows below it are deleted.
ReimbursementPhaseSound ==
    pc \in {"reimbursementCursor", "withdrawalPurge"} =>
        /\ cache.rCur <= next /\ next <= cache.wCur
        /\ \A d \in Deposits : answers[d] # "none" => d >= cache.rCur /\ d \notin Failed
        /\ \A d \in cache.rCur .. (next - 1) : d \notin Failed => answers[d] = "Deep"
        /\ todo \cup purged \subseteq 0 .. (next - 1)

\* The cursors of the cache and of the database differ only while a cursor that is
\* already written waits for the cache to be updated.
CursorsAgree ==
    /\ disk.pairCur = IF pc = "pairingCache" THEN plan.cursor ELSE cache.pairCur
    /\ disk.wCur = IF pc = "pairingPurge" THEN next ELSE cache.wCur
    /\ disk.rCur = IF pc = "withdrawalPurge" THEN next ELSE cache.rCur
    /\ pc \notin {"pairingPurge", "withdrawalPurge"} => purged = {}

\* A failed deposit has no row anywhere.
FailedHasNoRow ==
    \A d \in Failed :
        /\ cache.withdrawals[d] = "none" /\ cache.reimbursements[d] = "none"
        /\ d \notin disk.complete /\ d \notin flushed.complete

RunIn(s) ==
    \A c, d \in Deposits :
        s.wCur <= c /\ c < d /\ c \notin Failed /\ s.pairs[d] # NoSeq => s.pairs[c] # NoSeq

\* The pairings from the withdrawal cursor on are a run, wherever they are kept, also
\* where they lie above a pairing cursor that was not written: rows are written in the
\* order of the deposits and deleted only below the withdrawal cursor.
PairedInOrder ==
    /\ RunIn(cache) /\ RunIn(disk) /\ RunIn(flushed)
    /\ pc \in {"pairing", "pairingCache"} =>
        \A d \in Deposits : plan.pairs[d] # NoSeq => d < plan.cursor.deposit

\* The inductive invariant behind every safety property above.
IInv ==
    /\ TypeOK
    /\ PairingIsFIFO /\ CursorOrder /\ NoPairingLost /\ HandoffRetained /\ NoStrandedRow
    /\ PlanSound /\ WithdrawalPhaseSound /\ ReimbursementPhaseSound
    /\ CursorsAgree /\ FlushedBehind /\ FailedHasNoRow /\ PairedInOrder
================================================================================
