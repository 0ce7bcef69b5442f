------------------------------- MODULE DepositInfo -------------------------------
(***************************************************************************)
(* The deposit rows of the bridge monitor: which deposits a tick queries,  *)
(* what becomes of the answers, and the dense deposit_info cursor          *)
(* (crates/bridge/src/status.rs, state.rs, cache.rs, db/status/db.rs).     *)
(* This part of the tick shares no state with the pairing that follows it  *)
(* (BridgeMonitor): pairing queries its own candidates again.              *)
(*                                                                         *)
(* Deposit rows are never persisted; only the cursor is.  A terminal       *)
(* status (Failed or Complete) is "Deep" when its transaction has          *)
(* max_tx_confirmations or more and "Shallow" when it has fewer.           *)
(***************************************************************************)
EXTENDS Integers, CursorLoops

CONSTANT N      \* bound: the bridge's deposits are 0 .. N-1

ASSUME SizeAssumption == N \in Nat

Deposits == 0 .. (N - 1)
Cursors  == 0 .. N

\* What one query contributes to apply_deposit_info_updates.  "none": the deposit was
\* not queried, the query failed, or esplora found no confirmations.
Answers == {"none", "InProgress", "Shallow", "Deep"}
Rows    == {"none", "InProgress", "Shallow"}
NoAnswers == [d \in Deposits |-> "none"]

VARIABLES
    rows,       \* deposits of the cache, each as far as its row tells it
    cursor,     \* deposit_info_cursor of the cache
    disk,       \* deposit_info_cursor of the database
    flushed,    \* the one that survives a kill
    pc,         \* where the phase stands
    answers,    \* updates of this tick
    next        \* next_cursor of this tick

vars == <<rows, cursor, disk, flushed, pc, answers, next>>

Init ==
    /\ rows = NoAnswers
    /\ cursor = 0 /\ disk = 0 /\ flushed = 0
    /\ pc = "idle"
    /\ answers = NoAnswers
    /\ next = 0

--------------------------------------------------------------------------------
Terminal(found) == {d \in Deposits : found[d] = "Deep"}

\* Mutants: the old row of a settled deposit is not purged, or that of a deposit
\* without an answer is.
RowNotPurged(found, row) == IF found \in {"none", "Deep"} THEN row ELSE found
RowForgotten(found, row) == IF found = "Deep" THEN "none" ELSE found
\* The cached row after apply_deposit_updates and purge_deposits.
RowAfter(found, row) ==
    CASE found = "Deep" -> "none"
      [] found = "none" -> row
      [] OTHER          -> found

EndPhase ==
    /\ answers' = NoAnswers
    /\ next' = 0
    /\ pc' = "idle"

\* select_deposit_info_candidates, get_deposits and get_deposit_info_updates; any
\* set of deposits may have been discovered by the node that answers.
CollectDeposits(found) ==
    /\ pc = "idle"
    /\ \A d \in Deposits : found[d] # "none" => d >= cursor
    /\ answers' = found
    /\ \E stop \in Cursors :
        /\ StopsDense(cursor, stop, Terminal(found))
        /\ next' = stop
    /\ pc' = "cursor"
    /\ UNCHANGED <<rows, cursor, disk, flushed>>

PutDepositInfoCursor ==
    /\ pc = "cursor"
    /\ disk' = next
    /\ pc' = "cache"
    /\ UNCHANGED <<rows, cursor, flushed, answers, next>>

\* Mutant: the settled rows are purged although the cursor was not written.
FailDepositInfoCursorPurging ==
    /\ pc = "cursor"
    /\ rows' = [d \in Deposits |-> IF d < next THEN "none" ELSE rows[d]]
    /\ cursor' = next
    /\ EndPhase
    /\ UNCHANGED <<disk, flushed>>
FailDepositInfoCursor ==
    /\ pc = "cursor"
    /\ EndPhase
    /\ UNCHANGED <<rows, cursor, disk, flushed>>

CacheDeposits ==
    /\ pc = "cache"
    /\ rows' = [d \in Deposits |-> RowAfter(answers[d], rows[d])]
    /\ cursor' = next
    /\ EndPhase
    /\ UNCHANGED <<disk, flushed>>

Flush ==
    /\ flushed # disk
    /\ flushed' = disk
    /\ UNCHANGED <<rows, cursor, disk, pc, answers, next>>

\* The rows are gone with the process; the cursor comes back from the database.
Crash ==
    /\ rows' = NoAnswers
    /\ disk' = flushed
    /\ cursor' = flushed
    /\ EndPhase
    /\ UNCHANGED flushed

Next ==
    \/ \E found \in [Deposits -> Answers] : CollectDeposits(found)
    \/ PutDepositInfoCursor
    \/ FailDepositInfoCursor
    \/ CacheDeposits
    \/ Flush
    \/ Crash

Spec == Init /\ [][Next]_vars

--------------------------------------------------------------------------------
(* What must hold *)

\* Every variable stays in its type.
TypeOK ==
    /\ rows \in [Deposits -> Rows]
    /\ cursor \in Cursors /\ disk \in Cursors /\ flushed \in Cursors
    /\ pc \in {"idle", "cursor", "cache"}
    /\ answers \in [Deposits -> Answers]
    /\ next \in Cursors

\* No deposit row is stranded: a row that is still served is one that the next tick
\* will query again.
NoStrandedDeposit == \A d \in Deposits : rows[d] # "none" => d >= cursor

\* A deposit row leaves the response only when its deposit was seen settled in this
\* tick and the cursor of that tick is in the database already, or with the process.
ShownUntilSettled ==
    [][\A d \in Deposits : rows[d] # "none" /\ rows'[d] = "none" =>
        (answers[d] = "Deep" /\ pc = "cache" /\ disk = next) \/ (disk' = flushed /\ rows' = NoAnswers)]_vars

\* The cursor, in the database and in what a kill leaves of it, only ever passes
\* deposits seen settled: since rows are not persisted, a deposit passed too early
\* would never be shown again.
OnlySettledPassed ==
    [][\A d \in disk .. (disk' - 1) : answers[d] = "Deep" /\ d >= cursor]_vars

\* What a kill would leave never loses ground, and the cache never runs ahead of
\* the database, so no deposit is dropped from the response before it is durable
\* that it need not be queried again.
CursorBehindDisk == flushed <= disk /\ cursor <= disk /\ (pc # "cache" => cursor = disk)
================================================================================
