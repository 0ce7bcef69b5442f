----------------------------- MODULE OperatorStatuses -----------------------------
(***************************************************************************)
(* The first thing a tick of the bridge monitor does: ask after every      *)
(* operator and replace the list that is served (bridge_monitoring_task in *)
(* crates/bridge/src/status.rs, get_operator_status in bridge_rpc.rs).  An *)
(* operator with a node of its own is asked through it, once; for one      *)
(* without, the nodes of the others are asked in turn.  The tick goes on   *)
(* with the queries of MonitorQueries and ends somewhere in them.          *)
(***************************************************************************)
EXTENDS BridgeRpc

VARIABLES
    phase,      \* the position in the tick
    statuses,   \* operator_statuses: those collected so far
    operators   \* BridgeStatusCache.operators

vars == <<rpcVars, phase, statuses, operators>>

Statuses == {"Online", "Offline"}

Init ==
    /\ RpcInit
    /\ phase = "Waiting" /\ statuses = <<>> /\ operators = <<>>

--------------------------------------------------------------------------------
StartTick ==
    /\ phase = "Waiting" /\ phase' = "Operators"
    /\ UNCHANGED <<rpcVars, statuses, operators>>

HasOperator == phase = "Operators" /\ Len(statuses) < Len(Operators)
Operator    == Operators[Len(statuses) + 1]

\* Mutant: an operator's status is asked of the first node that answers.
NoOwnClient(k) == FALSE
HasOwnClient(k) == k \in ClientKeys

Report(status) ==
    /\ statuses' = Append(statuses, status)
    /\ UNCHANGED <<phase, operators>>

\* get_uptime, without a retry: any failure is Offline.
GetUptime ==
    /\ HasOperator /\ HasOwnClient(Operator.key)
    /\ Report(IF Client(Operator.key) \in up THEN "Online" ELSE "Offline")
    /\ UNCHANGED rpcVars

AskPeers ==
    /\ HasOperator /\ ~HasOwnClient(Operator.key)
    /\ Begin
    /\ UNCHANGED <<up, phase, statuses, operators>>

\* What a peer says of another operator is its own affair.
PeerReplies == Answers /\ End /\ \E status \in Statuses : Report(status)

PeersFail ==
    /\ NoClientLeft \/ (HasOperator /\ ClientKeys = {})
    /\ End /\ Report("Offline")

UpdateOperators ==
    /\ phase = "Operators" /\ Len(statuses) = Len(Operators)
    /\ operators' = statuses /\ statuses' = <<>>
    /\ phase' = "Queries"
    /\ UNCHANGED rpcVars

\* The tick is over, be it at the tip that cannot be had.
EndTick ==
    /\ phase = "Queries" /\ phase' = "Waiting"
    /\ UNCHANGED <<rpcVars, statuses, operators>>

TickStep ==
    \/ StartTick \/ GetUptime \/ AskPeers \/ PeerReplies \/ PeersFail
    \/ UpdateOperators \/ EndTick
    \/ (Retry \/ NextClient) /\ UNCHANGED <<phase, statuses, operators>>

NodeStep == \E e \in Endpoints : (Fail(e) \/ Recover(e)) /\ UNCHANGED <<phase, statuses, operators>>

Next == TickStep \/ NodeStep

\* The interval fires, and every request is answered, refused or timed out in the end.
Spec == Init /\ [][Next]_vars /\ WF_vars(TickStep)

--------------------------------------------------------------------------------
\* The list that is served has an entry for each operator, in the order of the
\* configuration, and follows their nodes whatever becomes of the other nodes and
\* of the rest of a tick: an operator whose node stays up, or down, is shown so in
\* the end and from then on, and one without a node is offline once no node is up.
OperatorsConverge ==
    \A i \in DOMAIN Operators :
        LET k == Operators[i].key
            isShown(status) == i \in DOMAIN operators /\ operators[i] = status
        IN  IF k \in ClientKeys
            THEN /\ <>[](Client(k) \in up) => <>[]isShown("Online")
                 /\ <>[](Client(k) \notin up) => <>[]isShown("Offline")
            ELSE <>[](up = {}) => <>[]isShown("Offline")
================================================================================
