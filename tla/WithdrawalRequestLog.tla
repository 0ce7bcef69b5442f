-------------------------- MODULE WithdrawalRequestLog --------------------------
(***************************************************************************)
(* What the withdrawal index promises its callers: the WithdrawalIndexerDb *)
(* trait (crates/bridge/src/db/traits.rs) as its in-memory implementation, *)
(* which holds its locks for a whole call, defines it                      *)
(* (db/withdrawal_index/mock.rs).  An insert is one step: the rows of a    *)
(* new event are appended in one piece, the replay of a known one returns  *)
(* the range it has, and an insert that fails changes nothing.             *)
(* WithdrawalIndexDb is shown to implement it.                             *)
(***************************************************************************)
EXTENDS Integers, Sequences

CONSTANTS
    Writers,    \* callers of insert_withdrawal_event
    Events,     \* event keys (transaction hash and log index)
    Decoded,    \* what decoding can give: sequences of requests of one event
    MaxRows,    \* bound: more rows than are ever stored
    NoRow, NoEntry, NoAnswer, Err

Seqs == 0 .. (MaxRows - 1)
Ends == 0 .. MaxRows

VARIABLES
    rows,       \* requests by sequence number
    index,      \* event_index: [first, count] by event key
    answer      \* what the last insert of each caller was given and returned

logVars == <<rows, index, answer>>

LogInit ==
    /\ rows = [q \in Seqs |-> NoRow]
    /\ index = [e \in Events |-> NoEntry]
    /\ answer = [w \in Writers |-> NoAnswer]

\* The number after the last one in use.
IsNext(f) ==
    /\ \A q \in Seqs : q >= f => rows[q] = NoRow
    /\ f > 0 => rows[f - 1] # NoRow

AppendEvent(w, requests) ==
    LET e == requests[1].event
    IN  /\ index[e] = NoEntry
        /\ \E f \in Ends :
            LET entry == [first |-> f, count |-> Len(requests)]
            IN  /\ IsNext(f)
                /\ f + Len(requests) <= MaxRows
                /\ rows' = [q \in Seqs |-> IF f <= q /\ q < f + Len(requests)
                                           THEN requests[q - f + 1] ELSE rows[q]]
                /\ index' = [index EXCEPT ![e] = entry]
                /\ answer' = [answer EXCEPT ![w] = [asked |-> requests, range |-> entry]]

ReplayEvent(w, requests) ==
    LET entry == index[requests[1].event]
    IN  /\ entry # NoEntry
        /\ entry.count = Len(requests)
        /\ \A i \in 1 .. Len(requests) : rows[entry.first + i - 1] = requests[i]
        /\ answer' = [answer EXCEPT ![w] = [asked |-> requests, range |-> entry]]
        /\ UNCHANGED <<rows, index>>

Refuse(w) ==
    /\ answer' = [answer EXCEPT ![w] = Err]
    /\ UNCHANGED <<rows, index>>

\* A process that is killed and started again finds the log without its last
\* events, whole ones.
Reopen(end) ==
    /\ \A e \in Events : index[e] # NoEntry =>
        index[e].first >= end \/ index[e].first + index[e].count <= end
    /\ rows' = [q \in Seqs |-> IF q < end THEN rows[q] ELSE NoRow]
    /\ index' = [e \in Events |-> IF index[e] # NoEntry /\ index[e].first < end
                                  THEN index[e] ELSE NoEntry]
    /\ answer' = [w \in Writers |-> NoAnswer]

LogNext ==
    \/ \E w \in Writers, requests \in Decoded : AppendEvent(w, requests) \/ ReplayEvent(w, requests)
    \/ \E w \in Writers : Refuse(w)
    \/ \E end \in Ends : Reopen(end)

LogSpec == LogInit /\ [][LogNext]_logVars
================================================================================
