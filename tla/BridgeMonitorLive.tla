--------------------------- MODULE BridgeMonitorLive ---------------------------
(***************************************************************************)
(* Progress of the monitoring task.  The code promises nothing while       *)
(* queries fail, the database refuses writes or the process keeps dying,   *)
(* so the question is what happens from the first moment on at which none  *)
(* of that occurs any more.  Dashboard asks it of the two tasks together.  *)
(***************************************************************************)
EXTENDS BridgeMonitor

VARIABLE calm   \* from now on every query is answered, final and deep, no
                \* write fails and the process keeps running

liveVars == <<vars, calm>>

AllDeep(S) == [d \in Deposits |-> IF d \in S THEN "Deep" ELSE "none"]

\* The steps of the task that follow on its reads, with every fault left out.
CalmStep ==
    \/ PutWithdrawalPairing
    \/ PutWithdrawalPairingCursor
    \/ CachePairings
    \/ PutWithdrawalInfo
    \/ PutWithdrawalStatusCursor
    \/ DelWithdrawalPairing
    \/ CacheWithdrawals
    \/ CollectReimbursements(AllDeep(ReimbursementCandidates))
    \/ PutReimbursementStatusCursor
    \/ \E d \in Deposits : DelWithdrawalInfo(d)
    \/ CacheReimbursements

LiveInit == Init /\ calm = FALSE
GoCalm   == ~calm /\ calm' = TRUE /\ UNCHANGED vars
Syncing  == calm /\ Flush /\ UNCHANGED calm

IsDrained(s) ==
    /\ s.pairCur.deposit = N
    /\ s.wCur = N
    /\ s.rCur = N
    /\ s.pairs = NoPairs

Drained ==
    /\ IsDrained(cache) /\ cache.withdrawals = NoAnswers /\ cache.reimbursements = NoAnswers
    /\ IsDrained(disk) /\ disk.complete = {}
    /\ IsDrained(flushed) /\ flushed.complete = {}
    /\ available

\* Whatever happened before (failed writes, rows half deleted, crashes between any
\* two writes), once the faults stop every deposit goes through all three stages,
\* no row is left behind in memory or in the database, and the status is served.
DrainsOnceCalm == <>calm => <>[]Drained
================================================================================
