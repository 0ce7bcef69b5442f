--------------------------------- MODULE BridgeRpc ---------------------------------
(***************************************************************************)
(* RpcClientManager (crates/bridge/src/bridge_rpc.rs): the clients of the  *)
(* bridge nodes, and how a query is put to them one after the other, each  *)
(* with the retries of execute_with_retries (crates/utils/src/rpc_client.rs). *)
(* Nodes fail and recover at any time; `up` means that a node answers the  *)
(* call put to it within the request timeout.                              *)
(* A module that makes queries says when one begins and what follows.      *)
(***************************************************************************)
EXTENDS Integers, Sequences

CONSTANTS
    Operators,      \* config: operators, [key : public key, url : its node or NoUrl]
    NoUrl,
    MaxRetries      \* 3 in execute_with_retries

Endpoints == {Operators[i].url : i \in DOMAIN Operators} \ {NoUrl}

\* Public keys are numbers in the order of their strings, which is the BTreeMap's.
ASSUME OperatorsAssumption ==
    /\ Operators \in Seq([key : Nat \ {0}, url : Endpoints \cup {NoUrl}])
    /\ MaxRetries \in Nat

VARIABLES
    up,         \* the nodes that answer
    query,      \* the query that is being made: which client, which attempt
    steady      \* history: the nodes that have been up since the query began

rpcVars == <<up, query, steady>>

NoQuery == [client |-> 0, attempt |-> 0]
Queries == [client : Nat, attempt : 0 .. MaxRetries]

RpcInit ==
    /\ up \in SUBSET Endpoints
    /\ query = NoQuery
    /\ steady = {}

--------------------------------------------------------------------------------
(* The clients *)

WithUrl(k) == {i \in DOMAIN Operators : Operators[i].key = k /\ Operators[i].url # NoUrl}
ClientKeys == {k \in {Operators[i].key : i \in DOMAIN Operators} : WithUrl(k) # {}}

\* Of two entries for one key the later one replaces the earlier.
Client(k) == Operators[CHOOSE i \in WithUrl(k) : \A j \in WithUrl(k) : j <= i].url

After(k) == {j \in ClientKeys : k < j}

--------------------------------------------------------------------------------
(* query_clients_with_retry *)

\* Mutant: the clients are in a hash map.
TurnInAnyOrder(k) == query' \in {[client |-> j, attempt |-> 0] : j \in After(k)}
\* The first client of those after k is asked.
Turn(k) == query' \in {[client |-> j, attempt |-> 0] :
                        j \in {i \in After(k) : \A other \in After(k) : i <= other}}

\* A query with no client to ask has no answer; the callers of Begin see to that.
Begin == query = NoQuery /\ Turn(0) /\ steady' = up

Asking == query # NoQuery
Answers == Asking /\ Client(query.client) \in up
Fails   == Asking /\ Client(query.client) \notin up

Retry ==
    /\ Fails /\ query.attempt < MaxRetries
    /\ query' = [query EXCEPT !.attempt = @ + 1]
    /\ UNCHANGED <<up, steady>>

Exhausted == Fails /\ query.attempt = MaxRetries

NextClient ==
    /\ Exhausted /\ After(query.client) # {}
    /\ Turn(query.client)
    /\ UNCHANGED <<up, steady>>

\* Mutant: there is no second client.
OneClientOnly == Exhausted
NoClientLeft == Exhausted /\ After(query.client) = {}

End == query' = NoQuery /\ steady' = {} /\ UNCHANGED up

--------------------------------------------------------------------------------
(* The nodes *)

Fail(e)    == e \in up /\ up' = up \ {e} /\ steady' = steady \ {e} /\ UNCHANGED query
Recover(e) == e \in Endpoints \ up /\ up' = up \cup {e} /\ UNCHANGED <<query, steady>>

--------------------------------------------------------------------------------
(* What must hold *)

RpcTypeOK ==
    /\ up \subseteq Endpoints
    /\ query \in Queries
    /\ query # NoQuery => query.client \in ClientKeys
    /\ steady \subseteq up

\* A node is passed over only after it has been down.
PassedOver ==
    \A k \in ClientKeys : Asking /\ k < query.client => Client(k) \notin steady

\* What a query ends with: an answer of the first client, in key order, that kept up
\* while the query lasted, or of an earlier one; and none at all only if every node
\* was down at some moment of it.
FailoverInOrder ==
    [][ Asking /\ query' = NoQuery
        => \A k \in ClientKeys : Client(k) \in steady => query.client <= k /\ Answers ]_rpcVars
================================================================================
