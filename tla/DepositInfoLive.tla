---------------------------- MODULE DepositInfoLive ----------------------------
(***************************************************************************)
(* Where the deposit rows end up.  The code promises nothing while queries *)
(* fail, the database refuses writes or the process keeps dying; so, from  *)
(* the first moment on at which none of that occurs any more, every        *)
(* deposit that is queried gets its final answer.                          *)
(***************************************************************************)
EXTENDS DepositInfo

VARIABLES
    calm,       \* no fault from now on
    outcome     \* the final answer for each deposit

liveVars == <<vars, calm, outcome>>

\* Confirmations only grow: what was seen settled stays settled.
SettledSoFar == {d \in Deposits : d < disk \/ d < next}

CalmStep ==
    \/ CollectDeposits([d \in Deposits |-> IF d >= cursor THEN outcome[d] ELSE "none"])
    \/ PutDepositInfoCursor
    \/ CacheDeposits

Stormy  == ~calm /\ Next /\ UNCHANGED <<calm, outcome>>
GoCalm  ==
    /\ ~calm
    /\ calm' = TRUE
    /\ outcome' \in [Deposits -> Answers \ {"none"}]
    /\ \A d \in SettledSoFar : outcome'[d] = "Deep"
    /\ UNCHANGED vars
Working == calm /\ CalmStep /\ UNCHANGED <<calm, outcome>>
Syncing == calm /\ Flush /\ UNCHANGED <<calm, outcome>>

LiveInit == Init /\ calm = FALSE /\ outcome = NoAnswers
LiveNext == Stormy \/ GoCalm \/ Working \/ Syncing

\* The interval keeps ticking and tokio runs the task; sled flushes every 500 ms.
LiveSpec == LiveInit /\ [][LiveNext]_liveVars /\ WF_liveVars(Working) /\ WF_liveVars(Syncing)

Unsettled == {d \in Deposits : outcome[d] # "Deep"}

Converged ==
    /\ \A d \in Deposits : rows[d] = IF d \in Unsettled THEN outcome[d] ELSE "none"
    /\ \A d \in Deposits : d < cursor => d \notin Unsettled
    /\ \A d \in Unsettled : (\A e \in 0 .. (d - 1) : e \notin Unsettled) => cursor = d
    /\ flushed = cursor

\* Whatever happened before, the response ends up with exactly the deposits that are
\* not settled, each with its last answer, and the durable cursor at the first of
\* them: a crash or a failed write loses no deposit from view for good, and a settled
\* deposit behind an unsettled one is not shown although the cursor cannot pass it.
ConvergesOnceCalm == <>calm => <>[]Converged
================================================================================
