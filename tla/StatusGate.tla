------------------------------- MODULE StatusGate -------------------------------
(***************************************************************************)
(* The gate in front of a status endpoint: a request that comes before the *)
(* monitoring task has completed its first poll waits for it, but not for  *)
(* longer than initial_status_wait_timeout.  The network and the bridge    *)
(* monitor have the same gate (crates/network/src/types.rs and status.rs,  *)
(* crates/bridge/src/context.rs and status.rs): an AtomicBool that is      *)
(* checked before and after a tokio Notify waiter is enabled.              *)
(*                                                                         *)
(* The status is abstracted to the number of polls that it shows.          *)
(***************************************************************************)
EXTENDS Integers

CONSTANTS
    Handlers,   \* the connections whose requests are in flight together
    MaxPolls    \* bound: how many polls the task completes

ASSUME MaxPollsAssumption == MaxPolls \in Nat

NoPoll == 0       \* the default status: everything offline, no rows
NoResponse  == -2
Unavailable == -1     \* SERVICE_UNAVAILABLE

VARIABLES
    available,  \* status_available
    status,     \* the number of the poll that network_status / the cache shows
    task,       \* where the monitoring task stands
    handler,    \* where each request stands
    waiters,    \* requests whose Notified future is on the Notify's list
    woken,      \* requests that notify_waiters took off the list
    response    \* the last response on each connection

vars == <<available, status, task, handler, waiters, woken, response>>

Polls     == 0 .. MaxPolls
Responses == Polls \cup {NoResponse, Unavailable}

Init ==
    /\ available = FALSE
    /\ status = NoPoll
    /\ task = "polling"
    /\ handler = [h \in Handlers |-> "idle"]
    /\ waiters = {}
    /\ woken = {}
    /\ response = [h \in Handlers |-> NoResponse]

Goto(h, place) == handler' = [handler EXCEPT ![h] = place]

--------------------------------------------------------------------------------
(* The monitoring task *)

\* The poll is over and its result stored: set_status, or the last cache update of
\* a tick of the bridge monitor.
SetStatus ==
    /\ task = "polling"
    /\ status < MaxPolls
    /\ status' = status + 1
    /\ task' = "marking"
    /\ UNCHANGED <<available, handler, waiters, woken, response>>

\* Mutant: the gate is opened before the result is stored.
MarkFirst == task = "polling" \/ task = "marking"
MarkReady == task = "marking"

\* mark_status_available: compare_exchange(false, true), which only the first
\* completed poll wins; a tick of the bridge monitor that fails ends before it.
MarkAvailable ==
    /\ MarkReady
    /\ available' = TRUE
    /\ task' = IF available THEN "polling" ELSE "notifying"
    /\ UNCHANGED <<status, handler, waiters, woken, response>>

\* Mutant: only one waiter is woken (notify_one).
WokenOne(S) == IF S = {} THEN {} ELSE {CHOOSE h \in S : TRUE}
WokenAll(S) == S

NotifyWaiters ==
    /\ task = "notifying"
    /\ woken' = woken \cup WokenAll(waiters)
    /\ waiters' = {}
    /\ task' = "polling"
    /\ UNCHANGED <<available, status, handler, response>>

--------------------------------------------------------------------------------
(* get_network_status / get_bridge_status *)

Request(h) ==
    /\ handler[h] = "idle"
    /\ Goto(h, "load")
    /\ UNCHANGED <<available, status, task, waiters, woken, response>>

FirstLoad(h) ==
    /\ handler[h] = "load"
    /\ Goto(h, IF available THEN "serve" ELSE "enable")
    /\ UNCHANGED <<available, status, task, waiters, woken, response>>

Enable(h) ==
    /\ handler[h] = "enable"
    /\ waiters' = waiters \cup {h}
    /\ Goto(h, "reload")
    /\ UNCHANGED <<available, status, task, woken, response>>

\* Mutant: the flag is not loaded again.
SkipsReload(h) == "await"
AfterReload(h) == IF available THEN "serve" ELSE "await"

\* Returning drops the Notified future.
Forget(h) == waiters' = waiters \ {h} /\ woken' = woken \ {h}

SecondLoad(h) ==
    /\ handler[h] = "reload"
    /\ Goto(h, AfterReload(h))
    /\ IF AfterReload(h) = "serve" THEN Forget(h) ELSE UNCHANGED <<waiters, woken>>
    /\ UNCHANGED <<available, status, task, response>>

WakeUp(h) ==
    /\ handler[h] = "await"
    /\ h \in woken
    /\ Forget(h)
    /\ Goto(h, "serve")
    /\ UNCHANGED <<available, status, task, response>>

\* Mutant: the deadline is looked at first.
DeadlineFirst(h) == TRUE
\* timeout() polls the wait before the deadline.
NotWoken(h) == h \notin woken

TimeOut(h) ==
    /\ handler[h] = "await"
    /\ NotWoken(h)
    /\ Forget(h)
    /\ response' = [response EXCEPT ![h] = Unavailable]
    /\ Goto(h, "idle")
    /\ UNCHANGED <<available, status, task>>

\* The status is copied under the read lock.
Serve(h) ==
    /\ handler[h] = "serve"
    /\ response' = [response EXCEPT ![h] = status]
    /\ Goto(h, "idle")
    /\ UNCHANGED <<available, status, task, waiters, woken>>

\* The client goes away: the future is dropped where it is suspended.
Disconnect(h) ==
    /\ handler[h] \in {"await", "serve"}
    /\ Forget(h)
    /\ Goto(h, "idle")
    /\ UNCHANGED <<available, status, task, response>>

--------------------------------------------------------------------------------
TaskStep == SetStatus \/ MarkAvailable \/ NotifyWaiters

\* What the runtime does on its own once the request has come.
HandlerStep(h) ==
    FirstLoad(h) \/ Enable(h) \/ SecondLoad(h) \/ WakeUp(h) \/ Serve(h)

Next ==
    \/ TaskStep
    \/ \E h \in Handlers : HandlerStep(h) \/ Request(h) \/ TimeOut(h) \/ Disconnect(h)

Spec == Init /\ [][Next]_vars

\* The polls go on and tokio runs every future that can go on.  Neither a deadline
\* nor a disconnection is needed for a request to end once the gate is open.
FairSpec == Spec /\ WF_vars(TaskStep) /\ \A h \in Handlers : WF_vars(HandlerStep(h))

--------------------------------------------------------------------------------
(* What must hold *)

\* Every variable stays in its type.
TypeOK ==
    /\ available \in BOOLEAN
    /\ status \in Polls
    /\ task \in {"polling", "marking", "notifying"}
    /\ handler \in [Handlers -> {"idle", "load", "enable", "reload", "await", "serve"}]
    /\ waiters \in SUBSET Handlers
    /\ woken \in SUBSET Handlers
    /\ response \in [Handlers -> Responses]

\* No wakeup is lost: once the gate is open and the waiters have been notified, a
\* request that is still suspended has been woken, however its loads of the flag,
\* its registration and the two steps of mark_status_available were interleaved.
NoLostWakeup ==
    \A h \in Handlers :
        handler[h] = "await" /\ available /\ task # "notifying" => h \in woken

\* The default status (everything offline, no rows) is never taken for an answer.
OnlyPolledServed == \A h \in Handlers : response[h] # NoPoll

\* Answers go forward.  A request is told that there is no status yet only while the
\* first poll has not been announced, whenever its deadline fires; and no connection
\* is given a status older than one already given to any other.
AnswersGoForward ==
    [][\A h \in Handlers : response'[h] # response[h] =>
        IF response'[h] = Unavailable
        THEN ~available \/ task = "notifying"
        ELSE \A g \in Handlers : response'[h] >= response[g]]_vars

\* Every request ends once the gate is open, without the help of its deadline.
WaitsEndOnceOpen ==
    \A h \in Handlers : (handler[h] # "idle" /\ available) ~> handler[h] = "idle"
================================================================================
