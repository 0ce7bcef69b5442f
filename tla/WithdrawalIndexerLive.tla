------------------------- MODULE WithdrawalIndexerLive -------------------------
(***************************************************************************)
(* Progress of the withdrawal indexer from the first moment on at which no *)
(* query and no write fails and the process keeps running.  A log that     *)
(* does not decode still ends its tick: that is the code's own doing.      *)
(***************************************************************************)
EXTENDS WithdrawalIndexer

VARIABLE calm   \* no fault from now on

liveVars == <<vars, calm>>

CalmStep ==
    \/ StartTick(head)
    \/ CaughtUp
    \/ FetchLogs({k \in Logs : InRange(k)})
    \/ \E k \in Logs : PersistLog(k)
    \/ PutIndexerState
    \/ (\E k \in batch : IsNextLog(k) /\ Units(k) = 0) /\ FailTick

Stormy  == ~calm /\ Next /\ UNCHANGED calm
GoCalm  == ~calm /\ calm' = TRUE /\ UNCHANGED vars
Working == calm /\ CalmStep /\ UNCHANGED calm
Growing == calm /\ ProduceBlock /\ UNCHANGED calm
Syncing == calm /\ Flush /\ UNCHANGED calm

LiveInit == Init /\ calm = FALSE
LiveNext == Stormy \/ GoCalm \/ Working \/ Growing \/ Syncing

\* The loop polls for ever, sled flushes every 500 ms, the chain goes on.
LiveSpec == LiveInit /\ [][LiveNext]_liveVars
            /\ WF_liveVars(Working) /\ WF_liveVars(Growing) /\ WF_liveVars(Syncing)

Decodable(k) == \A j \in 1 .. k : Units(j) > 0

Final(k) == BlockOf[k] + FinalityLag <= MaxHead

\* Every log that becomes final is indexed, durably, unless it stands behind a log
\* that does not decode: such a log stops the scan for good, but not before the
\* logs ahead of it, even those of its own batch, are in the database.
CatchesUpOnceCalm ==
    <>calm => <>[](\A k \in Logs : Decodable(k) /\ Final(k) => k \in Indexed(flushed))
================================================================================
