-------------------------- MODULE MonitorQueries_proofs --------------------------
(***************************************************************************)
(* Proofs about MonitorQueries, for every list of operators, every number  *)
(* of retries and every chain whose reorganisations are shallower than     *)
(* max_tx_confirmations.  The failover argument uses only what BridgeRpc   *)
(* says of a query (RpcNext), and covers OperatorStatuses, the other part  *)
(* of a tick that makes queries, too.                                      *)
(***************************************************************************)
EXTENDS MonitorQueries, SequenceTheorems, TLAPS

USE OperatorsAssumption

\* The key of every client is a positive number: 0 stands before all of them.
LEMMA KeysType == \A k \in ClientKeys : k \in Nat /\ k > 0
  <1>1. ASSUME NEW i \in DOMAIN Operators
        PROVE  Operators[i].key \in Nat \ {0}
    <2> DEFINE Entry == [key : Nat \ {0}, url : Endpoints \cup {NoUrl}]
    <2>1. Operators \in Seq(Entry)
      OBVIOUS
    <2> HIDE DEF Entry
    <2>2. Operators[i] \in Entry
      BY <1>1, <2>1, LenProperties
    <2> QED
      BY <2>2 DEF Entry
  <1> QED
    BY <1>1 DEF ClientKeys

--------------------------------------------------------------------------------
(* One query *)

\* What any step of a module that makes queries does to the query.
RpcNext ==
    \/ Begin /\ UNCHANGED up
    \/ (Answers \/ NoClientLeft \/ ClientKeys = {}) /\ End
    \/ Retry
    \/ NextClient
    \/ \E e \in Endpoints : Fail(e) \/ Recover(e)

RpcInv == RpcTypeOK /\ PassedOver

\* A turn asks the first of the clients after k.
LEMMA TurnType ==
    ASSUME NEW k \in Nat, Turn(k)
    PROVE  /\ query' \in Queries
           /\ query' = [client |-> query'.client, attempt |-> 0]
           /\ query'.client \in ClientKeys /\ query'.client > k /\ query' # NoQuery
           /\ \A other \in ClientKeys : k < other => query'.client <= other
  <1>1. PICK j \in After(k) :
          query' = [client |-> j, attempt |-> 0] /\ \A other \in After(k) : j <= other
    BY DEF Turn
  <1>2. j \in ClientKeys /\ j \in Nat /\ j > k
    BY KeysType DEF After
  <1>3. query'.client = j
    BY <1>1
  <1>4. query' # NoQuery
    BY <1>2, <1>3 DEF NoQuery
  <1> QED
    BY <1>1, <1>2, <1>3, <1>4 DEF Queries, After

\* The initial states satisfy the invariant of a query.
LEMMA QueryInit == RpcInit => RpcInv
  BY DEF RpcInit, RpcInv, RpcTypeOK, PassedOver, Asking, NoQuery, Queries

\* Every step preserves it.
LEMMA QueryStep == RpcInv /\ [RpcNext]_rpcVars => RpcInv'
  <1> SUFFICES ASSUME RpcInv, [RpcNext]_rpcVars
               PROVE  RpcInv'
    OBVIOUS
  <1> USE DEF RpcInv, RpcTypeOK, PassedOver, Asking
  <1>1. CASE Begin /\ UNCHANGED up
    <2>1. Turn(0) /\ steady' = up /\ up' = up
      BY <1>1 DEF Begin
    <2>2. /\ query' \in Queries /\ query'.client \in ClientKeys
          /\ \A other \in ClientKeys : 0 < other => query'.client <= other
      BY <2>1, TurnType
    <2>3. \A k \in ClientKeys : ~(k < query'.client)
      BY <2>2, KeysType
    <2> QED
      BY <2>1, <2>2, <2>3
  <1>2. CASE End
    BY <1>2 DEF End, NoQuery, Queries
  <1>3. CASE Retry
    <2>1. /\ query' = [query EXCEPT !.attempt = @ + 1] /\ query.attempt < MaxRetries
          /\ query # NoQuery /\ UNCHANGED <<up, steady>>
      BY <1>3 DEF Retry, Fails
    <2>2. query' \in Queries /\ query'.client = query.client
      BY <2>1 DEF Queries
    <2> QED
      BY <2>1, <2>2
  <1>4. CASE NextClient
    <2>1. /\ query # NoQuery /\ Client(query.client) \notin up
          /\ Turn(query.client) /\ UNCHANGED <<up, steady>>
      BY <1>4 DEF NextClient, Exhausted, Fails
    <2>2. query.client \in Nat
      BY <2>1, KeysType
    <2>3. /\ query' \in Queries /\ query'.client \in ClientKeys
          /\ \A other \in ClientKeys : query.client < other => query'.client <= other
      BY <2>1, <2>2, TurnType
    <2>4. ASSUME NEW k \in ClientKeys, k < query'.client
          PROVE  Client(k) \notin steady
      <3>1. k <= query.client
        BY <2>2, <2>3, <2>4, KeysType
      <3>2. CASE k < query.client
        BY <2>1, <3>2
      <3>3. CASE k = query.client
        BY <2>1, <3>3
      <3> QED
        BY <2>2, <3>1, <3>2, <3>3, KeysType
    <2> QED
      BY <2>1, <2>3, <2>4
  <1>5. ASSUME NEW e \in Endpoints, Fail(e) \/ Recover(e)
        PROVE  RpcInv'
    BY <1>5 DEF Fail, Recover
  <1>6. CASE UNCHANGED rpcVars
    BY <1>6 DEF rpcVars
  <1> QED
    BY <1>1, <1>2, <1>3, <1>4, <1>5, <1>6 DEF RpcNext

\* How a query ends.
LEMMA QueryEnds ==
    ASSUME RpcInv, [RpcNext]_rpcVars, Asking, query' = NoQuery,
           NEW k \in ClientKeys, Client(k) \in steady
    PROVE  query.client <= k /\ Answers
  <1> USE DEF RpcInv, RpcTypeOK, PassedOver, Asking
  <1>0. query.client \in ClientKeys /\ query.client \in Nat /\ query.client > 0 /\ k \in Nat
    BY KeysType
  <1>1. ~(k < query.client)
    OBVIOUS
  <1>2. CASE Answers
    BY <1>0, <1>1, <1>2
  <1>3. CASE NoClientLeft
    <2>1. k \notin After(query.client) /\ Client(query.client) \notin up
      BY <1>3 DEF NoClientLeft, Exhausted, Fails
    <2>2. k = query.client
      BY <1>0, <1>1, <2>1 DEF After
    <2> QED
      BY <2>1, <2>2
  <1>4. CASE Begin
    BY <1>4 DEF Begin
  <1>5. CASE Retry
    <2>1. query'.client = query.client
      BY <1>5 DEF Retry, Queries
    <2> QED
      BY <1>0, <2>1 DEF NoQuery
  <1>6. CASE NextClient
    BY <1>0, <1>6, TurnType DEF NextClient
  <1>7. ASSUME NEW e \in Endpoints, Fail(e) \/ Recover(e)
        PROVE  FALSE
    BY <1>7 DEF Fail, Recover
  <1>8. CASE UNCHANGED rpcVars
    BY <1>8 DEF rpcVars
  <1> QED
    BY <1>2, <1>3, <1>4, <1>5, <1>6, <1>7, <1>8 DEF RpcNext

\* The monitor's steps make queries as RpcNext says.
LEMMA MonitorQueriesStep == [Next]_vars => [RpcNext]_rpcVars
  <1> SUFFICES ASSUME [Next]_vars
               PROVE  [RpcNext]_rpcVars
    OBVIOUS
  <1> USE DEF RpcNext
  <1>1. CASE GetTip \/ FailTip \/ GetTxConfirmations \/ ApplyUpdate
    BY <1>1 DEF GetTip, FailTip, GetTxConfirmations, ApplyUpdate
  <1>2. CASE AskBridge
    BY <1>2 DEF AskBridge
  <1>3. CASE IndicesReply \/ BridgeFails \/ StatusReply
    BY <1>3 DEF IndicesReply, BridgeFails, StatusReply
  <1>4. CASE Retry \/ NextClient
    BY <1>4
  <1>5. ASSUME NEW e \in Endpoints, Learn(e)
        PROVE  UNCHANGED rpcVars
    BY <1>5 DEF Learn
  <1>6. ASSUME NEW e \in Endpoints, Fail(e) \/ Recover(e)
        PROVE  RpcNext
    BY <1>6
  <1>7. ASSUME NEW k \in 0 .. MaxReorg, Extend(k)
        PROVE  UNCHANGED rpcVars
    BY <1>7 DEF Extend
  <1>8. CASE EsploraChanges \/ UNCHANGED vars
    BY <1>8 DEF EsploraChanges, vars
  <1> QED
    BY <1>1, <1>2, <1>3, <1>4, <1>5, <1>6, <1>7, <1>8 DEF Next, TickStep, World

\* A query of a tick ends with an answer of the first client in key order that kept
\* up, or of an earlier one, and without an answer only if all were down at some time.
THEOREM FailsOverInOrder == Spec => FailoverInOrder
  <1> DEFINE Ends ==
        Asking /\ query' = NoQuery
          => \A k \in ClientKeys : Client(k) \in steady => query.client <= k /\ Answers
  <1>1. Init => RpcInv
    BY QueryInit DEF Init
  <1>2. RpcInv /\ [Next]_vars => RpcInv'
    BY QueryStep, MonitorQueriesStep
  <1>3. RpcInv /\ [Next]_vars => Ends
    BY QueryEnds, MonitorQueriesStep
  <1> QED
    BY <1>1, <1>2, <1>3, PTL DEF Spec, FailoverInOrder

--------------------------------------------------------------------------------
(* The queries for the operator list *)

VARIABLES
    position,   \* OperatorStatuses' phase
    statuses,
    operators

\* The operator list, asked for through the same clients.
List == INSTANCE OperatorStatuses WITH phase <- position

\* Its clients and nodes are those of this module.
LEMMA SameClients ==
  /\ List!Endpoints = Endpoints /\ List!ClientKeys = ClientKeys /\ List!NoQuery = NoQuery
  /\ \A k : List!Client(k) = Client(k) /\ List!After(k) = After(k)
  <1>1. List!Endpoints = Endpoints /\ List!NoQuery = NoQuery
    BY Zenon DEF List!Endpoints, Endpoints, List!NoQuery, NoQuery
  <1>2. \A k : List!WithUrl(k) = WithUrl(k)
    BY Zenon DEF List!WithUrl, WithUrl
  <1>3. List!ClientKeys = ClientKeys
    BY <1>2, Zenon DEF List!ClientKeys, ClientKeys
  <1>4. \A k : List!Client(k) = Client(k)
    BY <1>2, Zenon DEF List!Client, Client
  <1>5. \A k : List!After(k) = After(k)
    BY <1>3, Zenon DEF List!After, After
  <1> QED
    BY <1>1, <1>3, <1>4, <1>5

\* The steps for the list make queries as RpcNext says: the node of an operator's own is
\* asked outside of them.
LEMMA ListStep == [List!Next]_(List!vars) => [RpcNext]_rpcVars
  <1> SUFFICES ASSUME [List!Next]_(List!vars)
               PROVE  [RpcNext]_rpcVars
    OBVIOUS
  <1> USE DEF RpcNext, List!rpcVars, rpcVars
  <1>t. \A k : List!Turn(k) <=> Turn(k)
    BY SameClients DEF List!Turn, Turn
  <1>f. /\ List!Answers <=> Answers
        /\ List!Fails <=> Fails
        /\ List!Exhausted <=> Exhausted
    BY SameClients DEF List!Answers, Answers, List!Fails, Fails, List!Exhausted, Exhausted,
                       List!Asking, Asking
  <1>1. CASE List!StartTick \/ List!GetUptime \/ List!UpdateOperators \/ List!EndTick
    BY <1>1 DEF List!StartTick, List!GetUptime, List!UpdateOperators, List!EndTick
  <1>2. CASE List!AskPeers
    <2>1. List!Begin /\ UNCHANGED up
      BY <1>2 DEF List!AskPeers
    <2>2. Begin
      BY <1>t, <2>1, SameClients DEF List!Begin, Begin
    <2> QED
      BY <2>1, <2>2
  <1>3. CASE List!PeerReplies
    BY <1>f, <1>3, SameClients DEF List!PeerReplies, List!End, End
  <1>4. CASE List!PeersFail
    <2>1. (List!NoClientLeft \/ List!ClientKeys = {}) /\ List!End
      BY <1>4 DEF List!PeersFail
    <2> QED
      BY <1>f, <2>1, SameClients DEF List!NoClientLeft, NoClientLeft, List!End, End
  <1>5. CASE List!Retry
    BY <1>f, <1>5 DEF List!Retry, Retry
  <1>6. CASE List!NextClient
    BY <1>f, <1>t, <1>6, SameClients DEF List!NextClient, NextClient
  <1>7. CASE List!NodeStep
    <2>1. PICK e \in Endpoints : List!Fail(e) \/ List!Recover(e)
      BY <1>7, SameClients DEF List!NodeStep
    <2>2. Fail(e) \/ Recover(e)
      BY <2>1, SameClients DEF List!Fail, Fail, List!Recover, Recover
    <2> QED
      BY <2>2
  <1>8. CASE UNCHANGED List!vars
    BY <1>8 DEF List!vars
  <1> QED
    BY <1>1, <1>2, <1>3, <1>4, <1>5, <1>6, <1>7, <1>8 DEF List!Next, List!TickStep

\* A query about an operator without a node of its own ends as those of the tick do, for
\* every list of operators and every number of retries.
THEOREM ListFailsOverInOrder == List!Spec => FailoverInOrder
  <1> DEFINE Ends ==
        Asking /\ query' = NoQuery
          => \A k \in ClientKeys : Client(k) \in steady => query.client <= k /\ Answers
  <1>1. List!Init => RpcInv
    <2>1. List!RpcInit => RpcInit
      BY SameClients DEF List!RpcInit, RpcInit
    <2> QED
      BY <2>1, QueryInit DEF List!Init
  <1>2. RpcInv /\ [List!Next]_(List!vars) => RpcInv'
    BY QueryStep, ListStep
  <1>3. RpcInv /\ [List!Next]_(List!vars) => [Ends]_rpcVars
    BY QueryEnds, ListStep
  <1> QED
    BY <1>1, <1>2, <1>3, PTL DEF List!Spec, FailoverInOrder

--------------------------------------------------------------------------------
(* What settles an item *)

\* Transaction t is below every block that a reorganisation can replace.
Buried(t) == height[t] \in 1 .. (tip - MaxReorg)

\* The inductive invariant behind SettledForGood: the tip that was read is not ahead of
\* the chain, an answer that is not final says so, and the confirmations of a final
\* one, once they suffice, are those of a transaction that is out of the reach of a
\* reorganisation already.
SettlingInv ==
    /\ tip \in Nat /\ seenTip \in 0 .. tip
    /\ height \in [Txs -> 0 .. tip]
    /\ up \subseteq Endpoints
    /\ view \in [Endpoints -> {"None", "InProgress", fate.outcome}]
    /\ phase = "TxStatus" => info = fate.outcome
    /\ phase = "Apply" => info \in {"InProgress", fate.outcome}
    /\ confirmations \in Nat
    /\ phase = "Apply" /\ info # "InProgress" /\ confirmations >= MaxConfirmations
        => Buried(TerminalTx(info))
    /\ SettledForGood

\* The transaction that settles an item is one, or none.
LEMMA TerminalTxType == ASSUME NEW status PROVE TerminalTx(status) \in Txs
  BY DEF TerminalTx, Txs

\* The initial states satisfy the invariant of settling.
LEMMA SettlingInit == Init => SettlingInv
  BY DEF Init, SettlingInv, SettledForGood, Txs, RpcInit, NoTx

\* A reorganisation replaces fewer blocks than those above a settled transaction.
LEMMA ExtendKeeps ==
    ASSUME SettlingInv, NEW k \in 0 .. MaxReorg, Extend(k), NEW t \in Txs, Buried(t)
    PROVE  Buried(t)'
  <1>1. tip' = tip + 1 /\ height[t] \in 1 .. (tip - k)
    BY ChainAssumption DEF Extend, Buried, SettlingInv
  <1>2. height'[t] = height[t]
    BY <1>1 DEF Extend
  <1> QED
    BY <1>1, <1>2, ChainAssumption DEF Buried, SettlingInv

\* Enough confirmations bury a transaction.
LEMMA ConfirmedIsBuried ==
    ASSUME SettlingInv, NEW t \in Txs, height[t] > 0,
           Confirmations(seenTip, height[t]) >= MaxConfirmations
    PROVE  Buried(t)
  <1>1. height[t] \in 1 .. tip /\ seenTip \in 0 .. tip /\ tip \in Nat
    BY DEF SettlingInv
  <1>2. CASE height[t] <= seenTip
    BY <1>1, <1>2, ChainAssumption DEF Buried, Confirmations
  <1>3. CASE height[t] > seenTip
    BY <1>1, <1>3, ChainAssumption DEF Buried, Confirmations
  <1> QED
    BY <1>1, <1>2, <1>3

\* Every step preserves it.
LEMMA SettlingStep == SettlingInv /\ [Next]_vars => SettlingInv'
  <1> SUFFICES ASSUME SettlingInv, [Next]_vars
               PROVE  SettlingInv'
    OBVIOUS
  <1> USE DEF SettlingInv, SettledForGood, Buried
  <1> USE DEF nodeVars, chainVars, tickVars, cacheVars, rpcVars
  <1>e. ASSUME EndTick, UNCHANGED <<settled, up>>
        PROVE  SettlingInv'
    BY <1>e DEF EndTick
  <1>1. CASE GetTip
    BY <1>1 DEF GetTip
  <1>2. CASE FailTip
    BY <1>2, <1>e DEF FailTip
  <1>3. CASE AskBridge
    BY <1>3 DEF AskBridge
  <1>4. CASE IndicesReply
    <2>1. CASE settled = NoTx
      BY <1>4, <2>1 DEF IndicesReply, End
    <2>2. CASE settled # NoTx
      BY <1>4, <2>2, <1>e DEF IndicesReply, End
    <2> QED
      BY <2>1, <2>2
  <1>5. CASE BridgeFails
    BY <1>5, <1>e DEF BridgeFails, End
  <1>6. CASE StatusReply
    <2> DEFINE status == view[Client(query.client)]
    <2>1. Client(query.client) \in Endpoints /\ UNCHANGED <<up, settled>>
      BY <1>6 DEF StatusReply, Answers, End
    <2>2. CASE status \in {"None", "NotStarted"}
      BY <1>6, <2>1, <2>2, <1>e DEF StatusReply
    <2>3. CASE status \notin {"None", "NotStarted"}
      <3>1. /\ info' = status /\ phase' = IF status = "InProgress" THEN "Apply" ELSE "TxStatus"
            /\ UNCHANGED <<fate, view, tip, height, seenTip, confirmations>>
        BY <1>6, <2>3 DEF StatusReply
      <3>2. status \in {"InProgress", fate.outcome}
        BY <2>1, <2>3
      <3> QED
        BY <2>1, <3>1, <3>2
    <2> QED
      BY <2>2, <2>3
  <1>7. CASE GetTxConfirmations
    <2> DEFINE t == TerminalTx(info)
    <2>1. /\ phase = "TxStatus" /\ phase' = "Apply"
          /\ confirmations' = IF esplora /\ height[t] > 0
                              THEN Confirmations(seenTip, height[t]) ELSE 0
          /\ UNCHANGED <<up, fate, view, tip, height, seenTip, info, settled>>
      BY <1>7 DEF GetTxConfirmations
    <2>2. t \in Txs /\ height[t] \in 0 .. tip
      BY TerminalTxType
    <2>3. Confirmations(seenTip, height[t]) \in Nat
      BY <2>2 DEF Confirmations
    <2>4. confirmations' >= MaxConfirmations => Buried(t)
      BY <2>1, <2>2, ConfirmedIsBuried, ChainAssumption
    <2> QED
      BY <2>1, <2>3, <2>4
  <1>8. CASE ApplyUpdate
    <2>1. phase = "Apply" /\ EndTick /\ UNCHANGED up
      BY <1>8 DEF ApplyUpdate
    <2>2. CASE settled' = settled
      BY <2>1, <2>2, <1>e
    <2>3. CASE settled' # settled
      <3>1. /\ info # "InProgress" /\ confirmations >= MaxConfirmations
            /\ settled' = TerminalTx(info)
        BY <1>8, <2>3, ChainAssumption DEF ApplyUpdate
      <3>2. info = fate.outcome /\ Buried(TerminalTx(info))
        BY <2>1, <3>1
      <3> QED
        BY <2>1, <3>1, <3>2 DEF EndTick
    <2> QED
      BY <2>2, <2>3
  <1>9. CASE (Retry \/ NextClient) /\ UNCHANGED <<nodeVars, chainVars, tickVars, cacheVars>>
    BY <1>9 DEF Retry, NextClient
  <1>10. ASSUME NEW e \in Endpoints, Learn(e)
         PROVE  SettlingInv'
    BY <1>10 DEF Learn
  <1>11. ASSUME NEW e \in Endpoints, Fail(e) \/ Recover(e),
                UNCHANGED <<nodeVars, chainVars, tickVars, cacheVars>>
         PROVE  SettlingInv'
    BY <1>11 DEF Fail, Recover
  <1>12. ASSUME NEW k \in 0 .. MaxReorg, Extend(k)
         PROVE  SettlingInv'
    <2>1. /\ tip' = tip + 1 /\ height' \in [Txs -> 0 .. (tip + 1)]
          /\ UNCHANGED <<up, fate, view, phase, seenTip, info, confirmations, settled>>
      BY <1>12 DEF Extend
    <2>2. \A t \in Txs : Buried(t) => Buried(t)'
      BY <1>12, ExtendKeeps
    <2>3. settled # NoTx => Buried(settled)'
      <3>1. settled # NoTx => settled \in Txs /\ Buried(settled)
        BY TerminalTxType
      <3> QED
        BY <2>1, <2>2, <3>1
    <2>4. phase = "Apply" /\ info # "InProgress" /\ confirmations >= MaxConfirmations
            => Buried(TerminalTx(info))'
      BY <2>1, <2>2, TerminalTxType
    <2> QED
      BY <2>1, <2>3, <2>4
  <1>13. CASE EsploraChanges
    BY <1>13 DEF EsploraChanges
  <1>14. CASE UNCHANGED vars
    BY <1>14 DEF vars
  <1> QED
    BY <1>1, <1>2, <1>3, <1>4, <1>5, <1>6, <1>7, <1>8, <1>9, <1>10, <1>11, <1>12, <1>13,
       <1>14 DEF Next, TickStep, World

\* What takes an item out of the candidates is its own settling transaction, out of the
\* reach of any reorganisation.
THEOREM SettlesForGood == Spec => []SettledForGood
  <1>1. SettlingInv => SettledForGood
    BY DEF SettlingInv
  <1> QED
    BY SettlingInit, SettlingStep, <1>1, PTL DEF Spec
================================================================================
