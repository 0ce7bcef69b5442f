------------------------------ MODULE MonitorQueries ------------------------------
(***************************************************************************)
(* What a tick of the bridge monitor asks of others for its rows           *)
(* (crates/bridge/src/status.rs, withdrawal_status.rs, esplora.rs): the    *)
(* Bitcoin tip, the deposit indices, the bridge's view of one item (a      *)
(* deposit, a withdrawal or a reimbursement), and the confirmations of the *)
(* transaction that settles it.  BridgeMonitor and DepositInfo say what    *)
(* becomes of the answers and leave them open; here nodes fail and lag     *)
(* behind each other, and the chain grows and is reorganised between any   *)
(* two questions.                                                          *)
(***************************************************************************)
EXTENDS BridgeRpc

CONSTANTS
    Fates,              \* [kind, outcome] of the item that is followed
    MaxConfirmations,   \* config: max_tx_confirmations
    MaxReorg,           \* the deepest reorganisation of the Bitcoin chain
    MaxTip              \* bound

\* The first transaction is a deposit's request or a reimbursement's claim, the last
\* one a deposit, a fulfillment or a payout.
Txs == {"first", "last"}
NoTx == "none"

ASSUME ChainAssumption ==
    /\ MaxConfirmations \in Nat /\ MaxReorg \in Nat /\ MaxTip \in Nat
    /\ MaxReorg < MaxConfirmations

VARIABLES
    fate,       \* what the item is and will be
    view,       \* what each node knows of it
    tip, height,    \* the best chain, and where the transactions are in it (0: not)
    esplora,    \* whether it answers
    phase,      \* the position in the tick
    seenTip,    \* chain_tip_height
    info,       \* the item's status in this tick
    confirmations,
    row,        \* the item's row
    settled     \* the transaction that took the item out of the candidates

nodeVars == <<fate, view>>
chainVars == <<tip, height, esplora>>
cacheVars == <<row, settled>>
tickVars == <<phase, seenTip, info, confirmations>>
vars == <<rpcVars, nodeVars, chainVars, tickVars, cacheVars>>

Init ==
    /\ RpcInit
    /\ fate \in Fates
    /\ view = [e \in Endpoints |-> "None"]
    /\ tip = 0 /\ height = [t \in Txs |-> 0] /\ esplora \in BOOLEAN
    /\ phase = "Tip"
    /\ seenTip = 0 /\ info = "None" /\ confirmations = 0
    /\ row = "None" /\ settled = NoTx

--------------------------------------------------------------------------------
(* The tip and the deposit indices *)

EndTick ==
    /\ phase' = "Tip" /\ seenTip' = 0 /\ info' = "None" /\ confirmations' = 0
    /\ UNCHANGED <<nodeVars, chainVars>>

GetTip ==
    /\ phase = "Tip" /\ esplora
    /\ seenTip' = tip /\ phase' = "Indices"
    /\ UNCHANGED <<rpcVars, nodeVars, chainVars, info, confirmations, cacheVars>>

FailTip == phase = "Tip" /\ ~esplora /\ EndTick /\ UNCHANGED <<rpcVars, cacheVars>>

AskBridge ==
    /\ phase \in {"Indices", "Status"}
    /\ Begin
    /\ UNCHANGED <<up, nodeVars, chainVars, tickVars, cacheVars>>

\* The item is one of this tick's candidates until it is settled.
IndicesReply ==
    /\ phase = "Indices" /\ Answers /\ End
    /\ IF settled = NoTx
       THEN phase' = "Status" /\ UNCHANGED <<nodeVars, chainVars, seenTip, info, confirmations>>
       ELSE EndTick
    /\ UNCHANGED cacheVars

\* No deposit indices end the tick; no status, with this one item, too.
BridgeFails ==
    /\ phase \in {"Indices", "Status"}
    /\ NoClientLeft \/ ClientKeys = {}
    /\ End /\ EndTick
    /\ UNCHANGED cacheVars

--------------------------------------------------------------------------------
(* get_deposits, get_withdrawal_updates, get_reimbursement_updates *)

\* A failed deposit is settled by its request, a slashed or aborted claim by itself.
TerminalTx(status) ==
    IF status \in {"Failed", "Slashed", "Aborted"} THEN "first" ELSE "last"

StatusReply ==
    /\ phase = "Status" /\ Answers /\ End
    /\ LET status == view[Client(query.client)]
       IN  IF status \in {"None", "NotStarted"} THEN EndTick
           ELSE /\ info' = status
                /\ phase' = IF status = "InProgress" THEN "Apply" ELSE "TxStatus"
                /\ UNCHANGED <<nodeVars, chainVars, seenTip, confirmations>>
    /\ UNCHANGED cacheVars

\* Mutant: the tip is counted twice.
ConfirmationsOffByOne(seen, h) == (IF h <= seen THEN seen - h ELSE 0) + 2
\* confirmations_from_block_height: a transaction above the tip that was read has one.
Confirmations(seen, h) == (IF h <= seen THEN seen - h ELSE 0) + 1

\* 0 stands for none: no answer, or not in the chain.
GetTxConfirmations ==
    /\ phase = "TxStatus"
    /\ LET h == height[TerminalTx(info)]
       IN  confirmations' = IF esplora /\ h > 0 THEN Confirmations(seenTip, h) ELSE 0
    /\ phase' = "Apply"
    /\ UNCHANGED <<rpcVars, nodeVars, chainVars, seenTip, info, cacheVars>>

\* The rows of deposits and reimbursements go when they are settled; a withdrawal's
\* stays for the reimbursement stage.
ApplyUpdate ==
    /\ phase = "Apply"
    /\ IF info = "InProgress" THEN row' = info /\ UNCHANGED settled
       ELSE IF confirmations = 0 THEN UNCHANGED <<row, settled>>
       ELSE IF confirmations < MaxConfirmations THEN row' = info /\ UNCHANGED settled
       ELSE /\ settled' = TerminalTx(info)
            /\ row' = IF fate.kind = "withdrawal" THEN info ELSE "None"
    /\ EndTick
    /\ UNCHANGED rpcVars

--------------------------------------------------------------------------------
(* The world *)

\* A node learns of the next step of the item.
Learn(e) ==
    /\ view' = [view EXCEPT ![e] = IF @ = "None" THEN "InProgress" ELSE fate.outcome]
    /\ view' # view
    /\ UNCHANGED <<rpcVars, fate, chainVars, tickVars, cacheVars>>

\* The last k blocks are replaced by k + 1; the transactions in them, and those in no
\* block, get into one of the new blocks or into none.  The last transaction spends
\* an output of the first.
Extend(k) ==
    /\ k <= tip /\ tip < MaxTip
    /\ tip' = tip + 1
    /\ height' \in [Txs -> 0 .. (tip + 1)]
    /\ \A t \in Txs : IF height[t] \in 1 .. (tip - k) THEN height'[t] = height[t]
                      ELSE height'[t] = 0 \/ height'[t] > tip - k
    /\ height'["last"] > 0 => height'["first"] \in 1 .. height'["last"]
    /\ UNCHANGED <<rpcVars, nodeVars, esplora, tickVars, cacheVars>>

EsploraChanges ==
    /\ esplora' = ~esplora
    /\ UNCHANGED <<rpcVars, nodeVars, tip, height, tickVars, cacheVars>>

World ==
    \/ \E e \in Endpoints : Learn(e)
    \/ \E e \in Endpoints : (Fail(e) \/ Recover(e))
                            /\ UNCHANGED <<nodeVars, chainVars, tickVars, cacheVars>>
    \/ \E k \in 0 .. MaxReorg : Extend(k)
    \/ EsploraChanges

TickStep ==
    \/ GetTip \/ FailTip \/ AskBridge \/ IndicesReply \/ BridgeFails
    \/ StatusReply \/ GetTxConfirmations \/ ApplyUpdate
    \/ (Retry \/ NextClient) /\ UNCHANGED <<nodeVars, chainVars, tickVars, cacheVars>>

Next == TickStep \/ World

\* The interval fires, and every request is answered, refused or timed out in the end.
Spec == Init /\ [][Next]_vars /\ WF_vars(TickStep)

--------------------------------------------------------------------------------
(* What must hold *)

\* What takes an item out of the candidates for good is a transaction that no
\* reorganisation can undo any more, and the one that settles it, although the tip was
\* read long before the transaction's block and the result is applied later still.
SettledForGood ==
    settled # NoTx =>
        /\ settled = TerminalTx(fate.outcome)
        /\ height[settled] \in 1 .. (tip - MaxReorg)

IsDeep ==
    LET h == height[TerminalTx(fate.outcome)]
    IN  h > 0 /\ tip - h + 1 >= MaxConfirmations

\* An item is settled in the end if its transaction is deep in the chain, esplora
\* answers, every node knows of it and one of them stays up: no failure of the other
\* nodes can keep the monitor from it.
SettlesInTheEnd ==
    /\ <>[]esplora /\ <>[]IsDeep
    /\ \A e \in Endpoints : <>(view[e] = fate.outcome)
    /\ \E e \in {Client(k) : k \in ClientKeys} : <>[](e \in up)
    => <>(settled # NoTx)
================================================================================
