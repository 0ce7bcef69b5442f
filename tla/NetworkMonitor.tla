----------------------------- MODULE NetworkMonitor -----------------------------
(***************************************************************************)
(* The network monitoring task (crates/network/src/status.rs): each poll   *)
(* asks the sequencer, the RPC endpoint and the bundler one after the      *)
(* other and then replaces the whole status.  The two JSON-RPC queries are *)
(* retried with growing delays; the bundler is asked once, without a       *)
(* timeout.  The gate that the first poll opens is StatusGate.             *)
(*                                                                         *)
(* A service is abstracted to what a request to it would meet.  Time is    *)
(* counted in seconds, within one query.                                   *)
(***************************************************************************)
EXTENDS RetryPolicy

CONSTANTS
    MaxRetries,     \* config: retry_policy_max_retries
    TotalTime,      \* config: retry_policy_total_time_s
    RequestTimeout  \* how long create_rpc_client's HTTP client waits for an answer

ASSUME PolicyAssumption ==
    MaxRetries \in Nat \ {0} /\ TotalTime \in Nat /\ RequestTimeout \in Nat

JsonRpc  == {"sequencer", "rpc_endpoint"}
Services == JsonRpc \cup {"bundler_endpoint"}

\* "down" refuses, answers with an error or never answers; "wrong" answers, but not as a
\* healthy service would (for the bundler the code does not tell the two apart).
Conditions(s) == IF s \in JsonRpc THEN {"up", "wrong", "down"} ELSE {"up", "down"}

VARIABLES
    service,    \* the condition of each service
    query,      \* the service being asked; "waiting" for the interval, or "store"
    sleeping,   \* between two attempts of a query
    retries,    \* retry_count of the query
    elapsed,    \* seconds since the query began
    found,      \* what this poll has found out
    status,     \* network_status
    \* what the environment did, for the properties:
    seen,       \* the conditions of each service since this poll began
    outages,    \* how often the service being asked has been down (2: or more)
    downFor     \* seconds of this query for which it has now been down

taskVars == <<query, sleeping, retries, elapsed, found, status>>
vars == <<service, taskVars, seen, outages, downFor>>

NothingFound == [s \in Services |-> "none"]
AllOffline   == [s \in Services |-> "Offline"]

Init ==
    /\ service \in [Services -> {"up", "wrong", "down"}]
    /\ \A s \in Services : service[s] \in Conditions(s)
    /\ query = "waiting"
    /\ sleeping = FALSE
    /\ retries = 0 /\ elapsed = 0
    /\ found = NothingFound
    /\ status = AllOffline
    /\ seen = [s \in Services |-> {service[s]}]
    /\ outages = 0 /\ downFor = 0

--------------------------------------------------------------------------------
(* The task *)

NextQuery(q) ==
    CASE q = "waiting"          -> "sequencer"
      [] q = "sequencer"        -> "rpc_endpoint"
      [] q = "rpc_endpoint"     -> "bundler_endpoint"
      [] q = "bundler_endpoint" -> "store"
      [] q = "store"            -> "waiting"

\* The task goes on to its next query, or to store what it has found.
Begin(q) ==
    /\ query' = q
    /\ sleeping' = FALSE
    /\ retries' = 0 /\ elapsed' = 0
    /\ outages' = IF q \in Services /\ service[q] = "down" THEN 1 ELSE 0
    /\ downFor' = 0
    /\ UNCHANGED service

\* interval.tick()
StartPoll ==
    /\ query = "waiting"
    /\ Begin("sequencer")
    /\ seen' = [s \in Services |-> {service[s]}]
    /\ UNCHANGED <<found, status>>

Conclude(result) ==
    /\ found' = [found EXCEPT ![query] = result]
    /\ Begin(NextQuery(query))
    /\ UNCHANGED <<status, seen>>

Asking == query \in JsonRpc /\ ~sleeping

OnlineWhenUp(condition) == IF condition = "up" THEN "Online" ELSE "Offline"
\* Mutant: any answer counts.
OnlineWhenAnswered(condition) == IF condition = "down" THEN "Offline" ELSE "Online"
\* is_chain_status_response_online, is_eth_block_number_response_online
ResultOf(condition) == OnlineWhenUp(condition)

\* A wrong answer ends the query as a right one does.
Answered == Asking /\ service[query] # "down" /\ Conclude(ResultOf(service[query]))

\* Mutants: one retry too many, and delays that are not waited for.
MoreThanAllowed == retries <= MaxRetries
NoDelay == 0
MayRetry == retries < MaxRetries
Delay == GetDelay(MaxRetries, TotalTime, retries)

\* A request is refused at once or times out.
RequestCosts == {0, RequestTimeout}

RetryLater(cost) ==
    /\ Asking
    /\ service[query] = "down"
    /\ MayRetry
    /\ sleeping' = TRUE
    /\ elapsed' = elapsed + cost
    /\ downFor' = downFor + cost
    /\ UNCHANGED <<service, query, retries, found, status, seen, outages>>

\* sleep(get_delay(retry_count)); retry_count += 1
Sleep ==
    /\ sleeping
    /\ sleeping' = FALSE
    /\ elapsed' = elapsed + Delay
    /\ downFor' = IF service[query] = "down" THEN downFor + Delay ELSE 0
    /\ retries' = retries + 1
    /\ UNCHANGED <<service, query, found, status, seen, outages>>

GiveUp ==
    /\ Asking
    /\ service[query] = "down"
    /\ ~MayRetry
    /\ Conclude("Offline")

\* check_bundler_health: an error, or a body without "ok", is Offline.
BundlerReplies ==
    /\ query = "bundler_endpoint"
    /\ Conclude(OnlineWhenUp(service[query]))

\* Mutant: two fields are swapped.
SwappedStatus(f) == [f EXCEPT !["sequencer"] = f["rpc_endpoint"], !["rpc_endpoint"] = f["sequencer"]]
NewStatus(f) == f

\* NetworkStatus::new, set_status
SetStatus ==
    /\ query = "store"
    /\ status' = NewStatus(found)
    /\ found' = NothingFound
    /\ Begin("waiting")
    /\ UNCHANGED seen

--------------------------------------------------------------------------------
(* The services *)

Change(s, condition) ==
    /\ condition \in Conditions(s) \ {service[s]}
    /\ service' = [service EXCEPT ![s] = condition]
    /\ seen' = IF query = "waiting" THEN [seen EXCEPT ![s] = {condition}]
                                    ELSE [seen EXCEPT ![s] = @ \cup {condition}]
    /\ IF s = query /\ condition = "down"
       THEN outages' = IF outages = 0 THEN 1 ELSE 2
       ELSE UNCHANGED outages
    /\ downFor' = IF s = query THEN 0 ELSE downFor
    /\ UNCHANGED taskVars

--------------------------------------------------------------------------------
TaskStep ==
    \/ StartPoll
    \/ Answered
    \/ \E cost \in RequestCosts : RetryLater(cost)
    \/ Sleep
    \/ GiveUp
    \/ SetStatus

Next ==
    \/ TaskStep
    \/ BundlerReplies
    \/ \E s \in Services : \E condition \in Conditions(s) : Change(s, condition)

Spec == Init /\ [][Next]_vars

\* The interval ticks, tokio runs the task and its timers, and a JSON-RPC request
\* ends at the latest with its timeout.  Nothing ends the request to the bundler
\* but the bundler.
TaskSpec == Spec /\ WF_vars(TaskStep)

\* The bundler answers, or its host refuses the connection.
FairSpec == TaskSpec /\ WF_vars(BundlerReplies)

--------------------------------------------------------------------------------
(* What must hold *)

\* Every variable stays in its type.
TypeOK ==
    /\ \A s \in Services : service[s] \in Conditions(s) /\ service[s] \in seen[s]
    /\ query \in Services \cup {"waiting", "store"}
    /\ sleeping \in BOOLEAN
    /\ retries \in 0 .. MaxRetries
    /\ elapsed \in Nat /\ downFor \in 0 .. elapsed /\ outages \in 0 .. 2
    /\ found \in [Services -> {"none", "Online", "Offline"}]
    /\ status \in [Services -> {"Online", "Offline"}]

\* A new status is true of some moment of its poll, service by service: Online of
\* one that was up, Offline of one that was not.  The queries follow each other, so
\* more than that (a status true of one moment) cannot be had.
StatusOfThisPoll ==
    [][query = "store" /\ query' # "store" =>
        \A s \in Services :
            IF status'[s] = "Online" THEN "up" \in seen[s] ELSE seen[s] # {"up"}]_vars

\* A step in which a query gives up on a service that does not answer.
GivesUpOn(s) == query = s /\ service[s] = "down" /\ found'[s] = "Offline"

\* The retries bridge any single outage shorter than the delays that are waited for:
\* a query gives up only on a service that has been down longer, or repeatedly.
OutageTolerated ==
    [][\A s \in JsonRpc : GivesUpOn(s) =>
        outages = 2 \/ downFor >= TotalTime - GetDelay(MaxRetries, TotalTime, MaxRetries)]_vars

\* "Total time in seconds to spend retrying status queries": a query that gives up
\* has spent that time.
TotalTimeSpent == [][\A s \in JsonRpc : GivesUpOn(s) => elapsed >= TotalTime]_vars

\* The last request of a query is sent in time, whatever each request before it met.
QueryWithinBudget == Asking => elapsed <= MaxRetries * RequestTimeout + TotalTime

\* A service that comes up (goes down, turns wrong) for good is shown so for good,
\* whatever the other services do.
StatusConverges ==
    \A s \in Services : \A condition \in Conditions(s) :
        <>[](service[s] = condition) => <>[](status[s] = OnlineWhenUp(condition))

\* "Periodically polls configured network service endpoints and updates status
\* state": there is always another poll.
PollsGoOn == []<>(query = "waiting")
================================================================================
