------------------------------- MODULE StateLoops -------------------------------
(***************************************************************************)
(* The three loops of crates/bridge/src/state.rs that move a cursor, as    *)
(* recursive functions, on deposit indices and sequence numbers that are   *)
(* as wide as their types and no wider: plan_withdrawal_pairings,          *)
(* next_sparse_status_cursor and next_deposit_info_cursor.                 *)
(*                                                                         *)
(* BridgeMonitor and DepositInfo say where these loops stop (CursorLoops)  *)
(* and which numbers they pair, without running them and over unbounded    *)
(* naturals.  Here both are compared, on every input of a small width.     *)
(***************************************************************************)
EXTENDS Integers, FiniteSets, CursorLoops

CONSTANTS
    MaxIdx,     \* DepositIdx::MAX
    MaxSeq      \* WithdrawalSeq::MAX

ASSUME WidthsAssumption == MaxIdx \in Nat /\ MaxSeq \in Nat

Idx    == 0 .. MaxIdx
SeqNos == 0 .. MaxSeq
NextCursors == [deposit : Idx, seq : SeqNos]
\* None in the map of statuses ends the loop as InProgress does.
DepositStatuses == {"Complete", "Failed", "InProgress"}

--------------------------------------------------------------------------------
(* The loops *)

\* `while terminal.contains(next)`, left when checked_add has no next index.
DenseLoop(from, terminal) ==
    LET loop[i \in Idx] ==
            IF i \in terminal /\ i < MaxIdx THEN loop[i + 1] ELSE i
    IN  loop[from]

SparseLoop(from, terminal, frontier, pending) ==
    LET passes(i) == i < frontier /\ (i \in terminal \/ i \notin pending)
        loop[i \in Idx] == IF passes(i) /\ i < MaxIdx THEN loop[i + 1] ELSE i
    IN  loop[from]

\* The pairings that are pushed, and the cursor.  A pairing whose index or number is
\* the last of its type is pushed, and the cursor stays.
PlanLoop(from, discovered, status, seqs) ==
    LET loop[c \in NextCursors] ==
            LET stop == [pairings |-> {}, cursor |-> c]
                pair == c.deposit \in discovered /\ status[c.deposit] = "Complete" /\ c.seq \in seqs
                skip == c.deposit \in discovered /\ status[c.deposit] = "Failed"
                rest == loop[[deposit |-> c.deposit + 1,
                              seq |-> IF pair THEN c.seq + 1 ELSE c.seq]]
            IN  CASE pair /\ c.deposit < MaxIdx /\ c.seq < MaxSeq ->
                        [rest EXCEPT !.pairings = @ \cup {c}]
                  [] pair /\ ~(c.deposit < MaxIdx /\ c.seq < MaxSeq) ->
                        [stop EXCEPT !.pairings = {c}]
                  [] skip /\ c.deposit < MaxIdx -> rest
                  [] OTHER -> stop
    IN  loop[from]

--------------------------------------------------------------------------------
(* What the other modules say of them *)

\* BridgeMonitor's SeqAt and the condition of its PlanPairings, for these statuses.
NumberAt(from, status, d) ==
    from.seq + Cardinality({c \in from.deposit .. (d - 1) : status[c] # "Failed"})

PlanAgrees(from, discovered, status, seqs, result) ==
    LET stop == result.cursor.deposit
        number(d) == NumberAt(from, status, d)
    IN  /\ StopsAt(from.deposit, stop,
                   LAMBDA d : /\ d \in discovered
                              /\ \/ status[d] = "Failed"
                                 \/ status[d] = "Complete" /\ number(d) \in seqs)
        /\ result.cursor.seq = number(stop)
        /\ result.pairings = {[deposit |-> d, seq |-> number(d)] :
                                 d \in {c \in from.deposit .. (stop - 1) : status[c] # "Failed"}}

\* At the end of a type too: nothing is paired twice or out of order, or from beyond
\* the cursor, and what is passed has its pairing.
PlanIsSound(from, discovered, status, result) ==
    /\ \A p \in result.pairings :
        p.deposit \in from.deposit .. result.cursor.deposit /\ p.seq >= from.seq
    /\ \A p, q \in result.pairings : p # q => (p.deposit < q.deposit <=> p.seq < q.seq)
    /\ \A d \in from.deposit .. (result.cursor.deposit - 1) :
        /\ d \in discovered /\ status[d] # "InProgress"
        /\ status[d] = "Complete" => \E p \in result.pairings : p.deposit = d

\* Short of the largest index and number the loops stop, and pair, as specified.
PlanLoopAsSpecified ==
    \A from \in NextCursors, discovered \in SUBSET Idx,
       status \in [Idx -> DepositStatuses], seqs \in SUBSET SeqNos :
        LET result == PlanLoop(from, discovered, status, seqs)
        IN  /\ result.cursor.deposit < MaxIdx /\ result.cursor.seq < MaxSeq =>
                  PlanAgrees(from, discovered, status, seqs, result)
            /\ PlanIsSound(from, discovered, status, result)

\* The status cursors' loops stop as specified; the sparse one at the last index too,
\* since no frontier is beyond it.
StatusLoopsAsSpecified ==
    \A from \in Idx, terminal \in SUBSET Idx :
        /\ LET stop == DenseLoop(from, terminal)
           IN  \/ StopsDense(from, stop, terminal)
               \/ stop = MaxIdx /\ from .. stop \subseteq terminal
        /\ \A frontier \in Idx, pending \in SUBSET Idx :
            LET stop == SparseLoop(from, terminal, frontier, pending)
            IN  StopsSparse(from, stop, terminal, frontier, pending)
================================================================================
