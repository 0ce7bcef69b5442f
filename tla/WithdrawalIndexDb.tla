---------------------------- MODULE WithdrawalIndexDb ----------------------------
(***************************************************************************)
(* The sled database of withdrawal requests                                *)
(* (crates/bridge/src/db/withdrawal_index/db.rs) under several writers, a  *)
(* reader, crashes, and restarts with another withdrawal denomination.     *)
(*                                                                         *)
(* An insert reads the last sequence number before its transaction begins  *)
(* and relies on the transaction to catch a number that is stale by then.  *)
(* The program has one writer, the indexer; the code means to withstand a  *)
(* second one.  A writer inserts the events of its scan in chain order, as *)
(* a tick of the indexer does, and begins again after an error; a reader   *)
(* collects rows in batches as the bridge monitor does.                    *)
(***************************************************************************)
EXTENDS Integers, Sequences, FiniteSets

CONSTANTS
    Amount,         \* Amount[e]: the sats withdrawn by event e, in chain order
    Todo,           \* Todo[w]: the events that writer w scans
    Denoms,         \* config: withdrawal_denomination_sats, of any run
    ReadCount, BatchSize,   \* config: what the reader wants, and at a time
    MaxRows,        \* bound: more rows than the events can have
    MaxRestarts     \* bound

Writers == DOMAIN Todo
Events == 1 .. Len(Amount)
Seqs   == 0 .. (MaxRows - 1)
Ends   == 0 .. MaxRows
Nobody == [event |-> 0, sub |-> 0, sats |-> 0]
NoRow  == Nobody
NoEntry  == [first |-> 0, count |-> 0]
NoAnswer == [asked |-> <<>>, range |-> NoEntry]
Err      == [asked |-> <<>>, range |-> [first |-> -1, count |-> 0]]
NoCall == [requests |-> <<>>, first |-> 0]

ASSUME SizesAssumption ==
    /\ Amount \in Seq(Nat) /\ Todo \in Seq(Seq(1 .. Len(Amount))) /\ Denoms \subseteq Nat
    /\ ReadCount \in Nat /\ BatchSize \in Nat /\ MaxRows \in Nat /\ MaxRestarts \in Nat

VARIABLES
    db,         \* WithdrawalRequestSchema and WithdrawalEventIndexSchema
    flushed,    \* the prefix of the database's log that survives a kill
    denom,      \* withdrawal_denomination_sats of the running process
    at,         \* how far each writer has got with its events
    call,       \* its insert_withdrawal_event between the read and the transaction
    answer,     \* what its last insert was given and returned
    reader,     \* the rows a fetch_withdrawal_requests has collected
    restarts

vars == <<db, flushed, denom, at, call, answer, reader, restarts>>

--------------------------------------------------------------------------------
(* decode *)

\* The remainder is taken of positive amounts only; by 0 it panics.
Panics(e, d) == Amount[e] > 0 /\ d = 0
Decodes(e, d) == Amount[e] > 0 /\ d > 0 /\ Amount[e] % d = 0

Requests(e, d) ==
    [i \in 1 .. (Amount[e] \div d) |-> [event |-> e, sub |-> i - 1, sats |-> d]]

Decoded == UNION {{Requests(e, d) : d \in {x \in Denoms : Decodes(e, x)}} : e \in Events}

--------------------------------------------------------------------------------
Rows   == [event : Events, sub : Nat, sats : Nat] \cup {NoRow}
Entries == [first : Nat, count : Nat]
Stores == [rows : [Seqs -> Rows], index : [Events -> Entries]]

EmptyStore == [rows |-> [q \in Seqs |-> NoRow], index |-> [e \in Events |-> NoEntry]]
NoRows == [q \in Seqs |-> NoRow]
Unread == [next |-> 0, got |-> NoRows]

Init ==
    /\ db = EmptyStore /\ flushed = EmptyStore
    /\ denom \in Denoms
    /\ at = [w \in Writers |-> 1]
    /\ call = [w \in Writers |-> NoCall]
    /\ answer = [w \in Writers |-> NoAnswer]
    /\ reader = Unread
    /\ restarts = 0

Stored(rows) == {q \in Seqs : rows[q] # NoRow}

--------------------------------------------------------------------------------
(* insert_withdrawal_event *)

\* max_withdrawal_seq, and the number after it.
IsNextSeq(f) ==
    /\ \A q \in Seqs : q >= f => db.rows[q] = NoRow
    /\ f > 0 => db.rows[f - 1] # NoRow

HasEvent(w) == call[w] = NoCall /\ at[w] <= Len(Todo[w])
EventAt(w)  == Todo[w][at[w]]

\* The writer decodes its event and reads the next sequence number.
ReadNextSeq(w) ==
    /\ HasEvent(w) /\ Decodes(EventAt(w), denom)
    /\ \E f \in Ends :
        /\ IsNextSeq(f)
        /\ call' = [call EXCEPT ![w] = [requests |-> Requests(EventAt(w), denom), first |-> f]]
    /\ UNCHANGED <<db, flushed, denom, at, answer, reader, restarts>>

\* An event that does not decode ends the tick, and the next one begins with the first
\* event of the range again.
FailDecode(w) ==
    /\ HasEvent(w)
    /\ ~Decodes(EventAt(w), denom) /\ ~Panics(EventAt(w), denom)
    /\ at' = [at EXCEPT ![w] = 1]
    /\ UNCHANGED <<db, flushed, denom, call, answer, reader, restarts>>

EntryOf(w) == db.index[call[w].requests[1].event]

\* Mutant: the event key alone makes it a replay.
SameEvent(w) == TRUE
SameRows(w) ==
    LET entry == EntryOf(w)
        requests == call[w].requests
    IN  /\ \A i \in 1 .. Len(requests) :
            entry.first + i - 1 \in Seqs /\ db.rows[entry.first + i - 1] = requests[i]
        /\ entry.count = Len(requests)

\* Mutant: a row that is already there is overwritten.
OccupiedUnchecked(first, requests) == FALSE
Occupied(first, requests) ==
    \E q \in Seqs : first <= q /\ q < first + Len(requests) /\ db.rows[q] # NoRow

Return(w, result, next) ==
    /\ answer' = [answer EXCEPT ![w] = result]
    /\ at' = [at EXCEPT ![w] = next]
    /\ call' = [call EXCEPT ![w] = NoCall]
    /\ UNCHANGED <<flushed, denom, reader, restarts>>

\* The transaction on a new event: all its rows and its index entry.
InsertNew(w) ==
    LET first == call[w].first
        requests == call[w].requests
        entry == [first |-> first, count |-> Len(requests)]
    IN  /\ call[w] # NoCall
        /\ EntryOf(w) = NoEntry
        /\ ~Occupied(first, requests)
        /\ first + Len(requests) <= MaxRows     \* bound
        /\ db' = [rows  |-> [q \in Seqs |-> IF first <= q /\ q < first + Len(requests)
                                            THEN requests[q - first + 1] ELSE db.rows[q]],
                  index |-> [db.index EXCEPT ![requests[1].event] = entry]]
        /\ Return(w, [asked |-> requests, range |-> entry], at[w] + 1)

\* On a known one: nothing, if its rows and their number are these.
ReplayKnown(w) ==
    /\ call[w] # NoCall
    /\ EntryOf(w) # NoEntry
    /\ SameRows(w)
    /\ Return(w, [asked |-> call[w].requests, range |-> EntryOf(w)], at[w] + 1)
    /\ UNCHANGED db

\* EventIndexInconsistent, SeqOccupied: the transaction is rolled back.
Refused(w) ==
    /\ call[w] # NoCall
    /\ IF EntryOf(w) = NoEntry THEN Occupied(call[w].first, call[w].requests)
                               ELSE ~SameRows(w)

\* Mutant: the error is logged and the scan goes on.
AbortAndGoOn(w) == Refused(w) /\ Return(w, Err, at[w] + 1) /\ UNCHANGED db

\* It ends the tick, and the next one begins with the first event again.
Abort(w) == Refused(w) /\ Return(w, Err, 1) /\ UNCHANGED db

--------------------------------------------------------------------------------
(* fetch_withdrawal_requests_from, called by fetch_withdrawal_requests *)

Collected == Stored(reader.got)
Limit == LET missing == ReadCount - Cardinality(Collected)
         IN  IF missing <= BatchSize THEN missing ELSE BatchSize

\* The first `limit` rows at or after `start`.
Fetch(start, limit) ==
    {q \in Stored(db.rows) :
        q >= start /\ Cardinality({p \in Stored(db.rows) : start <= p /\ p < q}) < limit}

ReadBatch ==
    LET batch == Fetch(reader.next, Limit)
    IN  /\ batch # {}
        /\ \E last \in batch :
            /\ \A q \in batch : q <= last
            /\ reader' = [next |-> last + 1,
                          got  |-> [q \in Seqs |-> IF q \in batch THEN db.rows[q]
                                                                  ELSE reader.got[q]]]
        /\ UNCHANGED <<db, flushed, denom, at, call, answer, restarts>>

\* The loop has its rows, or found none or an error; the next tick reads anew.
EndRead ==
    /\ reader # Unread
    /\ reader' = Unread
    /\ UNCHANGED <<db, flushed, denom, at, call, answer, restarts>>

--------------------------------------------------------------------------------
(* The process *)

Flush ==
    /\ flushed # db
    /\ flushed' = db
    /\ UNCHANGED <<db, denom, at, call, answer, reader, restarts>>

\* The process ends and is started again, perhaps with another denomination: a clean
\* shutdown keeps the whole database, a kill what was flushed.
Reopen(kept, d) ==
    /\ db' = kept /\ flushed' = kept
    /\ denom' = d
    /\ at' = [w \in Writers |-> 1]
    /\ call' = [w \in Writers |-> NoCall]
    /\ answer' = [w \in Writers |-> NoAnswer]
    /\ reader' = Unread

Restart(kept, d) ==
    /\ restarts < MaxRestarts
    /\ restarts' = restarts + 1
    /\ Reopen(kept, d)

\* A panic in decode ends the task, which is critical, and with it the process.
Panic(w, kept, d) ==
    /\ HasEvent(w) /\ Panics(EventAt(w), denom)
    /\ Reopen(kept, d)
    /\ UNCHANGED restarts

Write(w) == ReadNextSeq(w) \/ FailDecode(w) \/ InsertNew(w) \/ ReplayKnown(w) \/ Abort(w)

Next ==
    \/ \E w \in Writers : Write(w)
    \/ ReadBatch
    \/ EndRead
    \/ Flush
    \/ \E kept \in {db, flushed}, d \in Denoms :
        Restart(kept, d) \/ \E w \in Writers : Panic(w, kept, d)

\* The writers are polled for ever.
Spec == Init /\ [][Next]_vars /\ \A w \in Writers : WF_vars(Write(w))

--------------------------------------------------------------------------------
(* What must hold *)

Indexed(s) == {e \in Events : s.index[e] # NoEntry}
RangeOf(s, e) == s.index[e].first .. (s.index[e].first + s.index[e].count - 1)

\* The rows of event e are those its index entry names, and one whole decoding of it.
OwnsItsRange(s, e) ==
    /\ s.index[e].count > 0 /\ RangeOf(s, e) \subseteq Seqs
    /\ \A q \in Seqs : s.rows[q].event = e <=> q \in RangeOf(s, e)
    /\ \E d \in Denoms :
        /\ Decodes(e, d)
        /\ \A q \in RangeOf(s, e) : s.rows[q] = Requests(e, d)[q - s.index[e].first + 1]
        /\ s.index[e].count = Len(Requests(e, d))

IsWellFormed(s) ==
    /\ \A q \in Stored(s.rows), p \in Seqs : p < q => p \in Stored(s.rows)
    /\ \A q \in Seqs : q \in Stored(s.rows) => s.rows[q].event \in Indexed(s)
    /\ \A e \in Indexed(s) : OwnsItsRange(s, e)

\* However writers race, wherever the process dies and however often the
\* denomination changes: the numbers in use have no gap, each indexed event owns
\* exactly the range that the event index names, and the rows there are one whole
\* decoding of the event, of one denomination, so that no sat is doubled or missing.
RowsMatchIndex == IsWellFormed(db) /\ IsWellFormed(flushed)

\* What a reader has collected in several batches is a run of consecutive numbers,
\* and every row of it is still the stored one: nothing it has read can change while
\* its process lives.
ReadsAreARun ==
    /\ Collected = 0 .. (reader.next - 1)
    /\ \A q \in Collected : reader.got[q] = db.rows[q]

Accepts(e) ==
    /\ Decodes(e, denom)
    /\ e \in Indexed(db) => db.rows[db.index[e].first] = Requests(e, denom)[1]

\* Racing writers do not starve: whatever was stored before, an event that a writer
\* scans is indexed in the end, for good even if a kill has taken it once, if it and
\* those before it go on to decode under the configured denomination and to agree with
\* what is stored.
EventuallyIndexed ==
    \A w \in Writers : \A i \in 1 .. Len(Todo[w]) :
        <>[](\A j \in 1 .. i : Accepts(Todo[w][j])) => <>[](Todo[w][i] \in Indexed(db))

Log == INSTANCE WithdrawalRequestLog WITH rows <- db.rows, index <- db.index

\* "The indexer is single-writer. If another writer races anyway, the transaction
\* below catches the stale sequence": the database behaves as an index that does
\* each insert in one step.
ImplementsLog == Log!LogSpec
================================================================================
