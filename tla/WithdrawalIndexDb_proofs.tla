------------------------ MODULE WithdrawalIndexDb_proofs ------------------------
(***************************************************************************)
(* Proofs about WithdrawalIndexDb, for every number of writers, every      *)
(* schedule of their events, all denominations and any number of restarts. *)
(***************************************************************************)
EXTENDS WithdrawalIndexDb, SequenceTheorems, FiniteSetTheorems, TLAPS

USE SizesAssumption

--------------------------------------------------------------------------------
(* Decoding *)

\* A division without remainder of a positive number is positive.
LEMMA ExactQuotient ==
    ASSUME NEW a \in Nat, NEW d \in Nat, a > 0, d > 0, a % d = 0
    PROVE  a \div d \in Nat \ {0}
  <1> DEFINE q == a \div d
  <1>1. q \in Int /\ a = d * q + (a % d)
    OBVIOUS
  <1>2. a = d * q
    BY <1>1
  <1> HIDE DEF q
  <1>3. CASE q <= 0
    <2>1. d * q <= 0
      BY <1>1, <1>3
    <2> QED
      BY <1>2, <2>1
  <1> QED
    BY <1>1, <1>3 DEF q

\* What decodes has at least one request, and the requests are rows of the event.
LEMMA DecodedEvent ==
    ASSUME NEW e \in Events, NEW d \in Denoms, Decodes(e, d)
    PROVE  /\ Len(Requests(e, d)) \in Nat \ {0}
           /\ \A i \in 1 .. Len(Requests(e, d)) :
                Requests(e, d)[i] \in Rows \ {NoRow} /\ Requests(e, d)[i].event = e
           /\ Requests(e, d) \in Decoded
  <1> DEFINE n == Amount[e] \div d
  <1>1. Amount[e] \in Nat /\ d \in Nat
    BY ElementOfSeq DEF Events
  <1>2. n \in Nat \ {0}
    BY <1>1, ExactQuotient DEF Decodes
  <1> HIDE DEF n
  <1>3. Requests(e, d) = [i \in 1 .. n |-> [event |-> e, sub |-> i - 1, sats |-> d]]
    BY DEF Requests, n
  <1>4. Len(Requests(e, d)) = n
    BY <1>2, <1>3
  <1>5. ASSUME NEW i \in 1 .. n
        PROVE  Requests(e, d)[i] \in Rows \ {NoRow} /\ Requests(e, d)[i].event = e
    <2>1. Requests(e, d)[i] = [event |-> e, sub |-> i - 1, sats |-> d]
      BY <1>3
    <2>2. i - 1 \in Nat /\ e > 0
      BY <1>2 DEF Events
    <2> QED
      BY <1>1, <2>1, <2>2 DEF Rows, NoRow, Nobody
  <1>6. Requests(e, d) \in Decoded
    BY DEF Decoded
  <1> QED
    BY <1>2, <1>4, <1>5, <1>6

--------------------------------------------------------------------------------
(* The inductive invariant *)

\* A call between its two halves holds one decoding of an event, and every number
\* below the one it has read is in use: rows are only ever added while it waits.
CallSound(w) ==
    call[w] # NoCall =>
        \E e \in Events, f \in Ends :
            /\ Decodes(e, denom)
            /\ call[w] = [requests |-> Requests(e, denom), first |-> f]
            /\ \A q \in Seqs : q < f => q \in Stored(db.rows)

\* The first `end` rows of a store, which cuts no event in two.
IsCut(s, end) ==
    \A e \in Events : s.index[e] # NoEntry =>
        s.index[e].first >= end \/ s.index[e].first + s.index[e].count <= end
Cut(s, end) ==
    [rows  |-> [q \in Seqs |-> IF q < end THEN s.rows[q] ELSE NoRow],
     index |-> [e \in Events |-> IF s.index[e] # NoEntry /\ s.index[e].first < end
                                 THEN s.index[e] ELSE NoEntry]]

\* What is flushed is the database without its last events.
FlushedIsPrefix == \E end \in Ends : IsCut(db, end) /\ flushed = Cut(db, end)

IndexDbInv ==
    /\ db \in Stores /\ flushed \in Stores
    /\ denom \in Denoms
    /\ at \in [Writers -> Nat \ {0}]
    /\ call \in [Writers -> [requests : Decoded \cup {<<>>}, first : Ends]]
    /\ DOMAIN answer = Writers
    /\ \A w \in Writers : CallSound(w)
    /\ FlushedIsPrefix
    /\ RowsMatchIndex

\* The store that an insert of event e's requests at f makes of store s.
Inserted(s, e, requests, f) ==
    [rows  |-> [q \in Seqs |-> IF f <= q /\ q < f + Len(requests)
                               THEN requests[q - f + 1] ELSE s.rows[q]],
     index |-> [s.index EXCEPT ![e] = [first |-> f, count |-> Len(requests)]]]

\* An insert at the first free number leaves a well-formed store, changes no row and
\* cuts off the same prefix as before or a shorter one.
LEMMA InsertKeeps ==
    ASSUME NEW s \in Stores, IsWellFormed(s), NEW e \in Events, NEW d \in Denoms,
           Decodes(e, d), s.index[e] = NoEntry,
           NEW f \in Ends, f + Len(Requests(e, d)) <= MaxRows,
           \A q \in Seqs : q < f => q \in Stored(s.rows),
           \A q \in Seqs : f <= q /\ q < f + Len(Requests(e, d)) => s.rows[q] = NoRow
    PROVE  LET t == Inserted(s, e, Requests(e, d), f)
           IN  /\ t \in Stores /\ IsWellFormed(t)
               /\ \A q \in Seqs : q \in Stored(s.rows) => t.rows[q] = s.rows[q]
               /\ \A q \in Seqs : q >= f => s.rows[q] = NoRow
               /\ t.index[e] = [first |-> f, count |-> Len(Requests(e, d))]
               /\ t.index[e] # NoEntry
               /\ \A x \in Events \ {e} : t.index[x] = s.index[x]
               /\ \A x \in Events : s.index[x] # NoEntry =>
                    s.index[x].count > 0 /\ s.index[x].first + s.index[x].count <= f
  <1> DEFINE r == Requests(e, d)
             n == Len(r)
             t == Inserted(s, e, r, f)
  <1>r. /\ n \in Nat \ {0}
        /\ \A i \in 1 .. n : r[i] \in Rows \ {NoRow} /\ r[i].event = e
    BY DecodedEvent
  <1>n. MaxRows \in Nat /\ f \in 0 .. MaxRows /\ Seqs = 0 .. (MaxRows - 1)
    BY DEF Ends, Seqs
  <1> HIDE DEF r, n
  <1>s. /\ s.rows \in [Seqs -> Rows] /\ s.index \in [Events -> Entries]
    BY DEF Stores
  <1>w. /\ \A q \in Seqs, p \in Seqs :
             p < q => (s.rows[q] # NoRow => s.rows[p] # NoRow)
        /\ \A q \in Seqs : s.rows[q] # NoRow => s.index[s.rows[q].event] # NoEntry
        /\ \A q \in Seqs : s.rows[q] # NoRow => s.rows[q].event \in Events
    BY DEF IsWellFormed, Stored, Indexed
  <1>f. f + n <= MaxRows /\ \A q \in Seqs : f <= q /\ q < f + n => s.rows[q] = NoRow
    BY DEF n, r
  <1>p. \A q \in Seqs : q < f => s.rows[q] # NoRow
    BY DEF Stored
  <1>1. \A q \in Seqs : q >= f => s.rows[q] = NoRow
    <2>1. f \in Seqs /\ s.rows[f] = NoRow
      BY <1>n, <1>r, <1>f
    <2> QED
      BY <2>1, <1>n, <1>w
  <1>2. /\ t.rows = [q \in Seqs |-> IF f <= q /\ q < f + n THEN r[q - f + 1] ELSE s.rows[q]]
        /\ t.index = [s.index EXCEPT ![e] = [first |-> f, count |-> n]]
    BY DEF Inserted, n
  <1> HIDE DEF t
  <1>3. /\ t.index[e] = [first |-> f, count |-> n] /\ t.index[e] # NoEntry
        /\ \A x \in Events \ {e} : t.index[x] = s.index[x]
    BY <1>2, <1>s, <1>r DEF NoEntry
  <1>4. ASSUME NEW q \in Seqs
        PROVE  /\ q < f => t.rows[q] = s.rows[q] /\ t.rows[q] # NoRow
               /\ f <= q /\ q < f + n =>
                    /\ t.rows[q] = r[q - f + 1] /\ t.rows[q] \in Rows \ {NoRow}
                    /\ t.rows[q].event = e
               /\ f + n <= q => t.rows[q] = NoRow
    <2>1. CASE q < f
      BY <1>2, <1>n, <1>r, <1>p, <2>1
    <2>2. CASE f <= q /\ q < f + n
      <3>1. q - f + 1 \in 1 .. n
        BY <1>n, <1>r, <2>2
      <3> QED
        BY <1>2, <1>n, <1>r, <2>2, <3>1
    <2>3. CASE f + n <= q
      BY <1>1, <1>2, <1>n, <1>r, <2>3
    <2> QED
      BY <1>n, <1>r, <2>1, <2>2, <2>3
  <1>5. \A x \in Events : s.index[x] # NoEntry =>
          s.index[x].count > 0 /\ s.index[x].first + s.index[x].count <= f
    <2> SUFFICES ASSUME NEW x \in Events, s.index[x] # NoEntry
                 PROVE  s.index[x].count > 0 /\ s.index[x].first + s.index[x].count <= f
      OBVIOUS
    <2> DEFINE i == s.index[x].first
               c == s.index[x].count
               last == i + c - 1
    <2>1. /\ i \in Nat /\ c \in Nat /\ c > 0
          /\ RangeOf(s, x) = i .. last /\ RangeOf(s, x) \subseteq Seqs
          /\ \A q \in Seqs : s.rows[q].event = x <=> q \in RangeOf(s, x)
      BY <1>s DEF IsWellFormed, OwnsItsRange, Indexed, Entries, RangeOf
    <2> HIDE DEF i, c
    <2>2. last \in i .. last
      BY <2>1
    <2>3. last \in Seqs /\ s.rows[last].event = x
      BY <2>1, <2>2
    <2>4. s.rows[last] # NoRow
      BY <2>3 DEF NoRow, Nobody, Events
    <2>5. last < f
      BY <1>1, <1>n, <2>3, <2>4
    <2> QED
      BY <1>n, <2>1, <2>5 DEF i, c
  <1>6. t \in Stores
    <2>1. t.rows \in [Seqs -> Rows]
      <3>1. ASSUME NEW q \in Seqs
            PROVE  t.rows[q] \in Rows
        <4>1. NoRow \in Rows /\ s.rows[q] \in Rows
          BY <1>s DEF Rows
        <4>2. q < f \/ (f <= q /\ q < f + n) \/ f + n <= q
          BY <1>n, <1>r
        <4> QED
          BY <1>4, <4>1, <4>2
      <3> QED
        BY <1>2, <3>1
    <2>2. t.index \in [Events -> Entries]
      BY <1>2, <1>s, <1>n, <1>r DEF Entries
    <2> QED
      BY <2>1, <2>2, <1>2 DEF Stores, Inserted, t
  <1>7. IsWellFormed(t)
    <2>1. ASSUME NEW q \in Stored(t.rows), NEW p \in Seqs, p < q
          PROVE  p \in Stored(t.rows)
      <3>1. q \in Seqs /\ t.rows[q] # NoRow /\ q < f + n
        BY <1>4, <1>n, <1>r DEF Stored
      <3>2. p < f \/ (f <= p /\ p < f + n)
        BY <1>n, <1>r, <2>1, <3>1
      <3> QED
        BY <1>4, <3>2 DEF Stored
    <2>2. ASSUME NEW q \in Seqs, q \in Stored(t.rows)
          PROVE  t.rows[q].event \in Indexed(t)
      <3>1. t.rows[q] # NoRow /\ (q < f \/ (f <= q /\ q < f + n))
        BY <1>4, <1>n, <1>r, <2>2 DEF Stored
      <3>2. CASE q < f
        <4>1. t.rows[q] = s.rows[q] /\ s.rows[q] # NoRow
          BY <1>4, <1>p, <3>2
        <4>2. s.rows[q].event \in Events /\ s.index[s.rows[q].event] # NoEntry
          BY <1>w, <4>1
        <4>3. s.rows[q].event # e
          BY <4>2
        <4> QED
          BY <1>3, <4>1, <4>2, <4>3 DEF Indexed
      <3>3. CASE f <= q /\ q < f + n
        BY <1>3, <1>4, <3>3 DEF Indexed
      <3> QED
        BY <3>1, <3>2, <3>3
    <2>3. OwnsItsRange(t, e)
      <3>1. t.index[e].first = f /\ t.index[e].count = n /\ RangeOf(t, e) = f .. (f + n - 1)
        BY <1>3, <1>n, <1>r DEF RangeOf
      <3>2. RangeOf(t, e) \subseteq Seqs
        BY <3>1, <1>f, <1>n, <1>r
      <3>3. ASSUME NEW q \in Seqs
            PROVE  t.rows[q].event = e <=> q \in RangeOf(t, e)
        <4>1. CASE q < f
          <5>1. t.rows[q] = s.rows[q] /\ s.rows[q] # NoRow
            BY <1>4, <1>p, <4>1
          <5>2. t.rows[q].event # e
            BY <1>w, <5>1
          <5> QED
            BY <3>1, <4>1, <5>2, <1>n
        <4>2. CASE f <= q /\ q < f + n
          BY <1>4, <3>1, <4>2, <1>n, <1>r
        <4>3. CASE f + n <= q
          <5>1. t.rows[q].event # e
            BY <1>4, <4>3 DEF NoRow, Nobody, Events
          <5> QED
            BY <3>1, <4>3, <5>1, <1>n, <1>r
        <4> QED
          BY <4>1, <4>2, <4>3, <1>n, <1>r
      <3>4. ASSUME NEW q \in RangeOf(t, e)
            PROVE  t.rows[q] = r[q - t.index[e].first + 1]
        <4>1. q \in Seqs /\ q \in f .. (f + n - 1)
          BY <3>1, <3>2
        <4>2. f <= q /\ q < f + n
          BY <4>1, <1>n, <1>r
        <4> QED
          BY <1>4, <3>1, <4>1, <4>2
      <3> QED
        BY <3>1, <3>2, <3>3, <3>4, <1>r DEF OwnsItsRange, r, n
    <2>4. ASSUME NEW x \in Indexed(t), x # e
          PROVE  OwnsItsRange(t, x)
      <3>1. x \in Events /\ t.index[x] = s.index[x] /\ s.index[x] # NoEntry
        BY <1>3, <2>4 DEF Indexed
      <3>2. OwnsItsRange(s, x) /\ RangeOf(t, x) = RangeOf(s, x) /\ RangeOf(s, x) \subseteq Seqs
        BY <3>1 DEF IsWellFormed, OwnsItsRange, Indexed, RangeOf
      <3>3. \A q \in RangeOf(s, x) : q \in Seqs /\ t.rows[q] = s.rows[q]
        <4> SUFFICES ASSUME NEW q \in RangeOf(s, x)
                     PROVE  q < f
          BY <3>2, <1>4
        <4> DEFINE i == s.index[x].first
                   c == s.index[x].count
        <4>1. /\ i \in Nat /\ c \in Nat /\ i + c <= f
              /\ q \in i .. (i + c - 1)
          BY <1>5, <3>1, <1>s DEF Entries, RangeOf
        <4> HIDE DEF i, c
        <4> QED
          BY <1>n, <4>1
      <3>4. ASSUME NEW q \in Seqs
            PROVE  t.rows[q].event = x <=> q \in RangeOf(t, x)
        <4>1. s.rows[q].event = x <=> q \in RangeOf(s, x)
          BY <3>2 DEF OwnsItsRange
        <4>2. CASE q < f
          BY <1>4, <3>2, <4>1, <4>2
        <4>3. CASE f <= q
          <5>1. s.rows[q].event # x
            BY <1>1, <3>1, <4>3 DEF NoRow, Nobody, Events
          <5>2. t.rows[q].event # x
            <6>1. CASE q < f + n
              BY <1>4, <2>4, <4>3, <6>1
            <6>2. CASE f + n <= q
              BY <1>4, <3>1, <6>2 DEF NoRow, Nobody, Events
            <6> QED
              BY <6>1, <6>2, <1>n, <1>r
          <5> QED
            BY <3>2, <4>1, <5>1, <5>2
        <4> QED
          BY <4>2, <4>3, <1>n
      <3>5. PICK y \in Denoms :
              /\ Decodes(x, y)
              /\ \A q \in RangeOf(s, x) :
                    s.rows[q] = Requests(x, y)[q - s.index[x].first + 1]
              /\ s.index[x].count = Len(Requests(x, y))
        BY <3>2, Zenon DEF OwnsItsRange
      <3>6. \A q \in RangeOf(t, x) : t.rows[q] = Requests(x, y)[q - t.index[x].first + 1]
        BY <3>1, <3>2, <3>3, <3>5
      <3>7. t.index[x].count > 0
        BY <3>1, <3>2 DEF OwnsItsRange
      <3> QED
        BY <3>1, <3>2, <3>4, <3>5, <3>6, <3>7 DEF OwnsItsRange
    <2> QED
      BY <2>1, <2>2, <2>3, <2>4 DEF IsWellFormed
  <1> QED
    BY <1>1, <1>3, <1>4, <1>5, <1>6, <1>7, <1>n DEF t, n, r, Stored

\* The initial states satisfy the invariant of the database.
LEMMA InvInit == Init => IndexDbInv
  <1> SUFFICES ASSUME Init
               PROVE  IndexDbInv
    OBVIOUS
  <1>1. EmptyStore \in Stores /\ IsWellFormed(EmptyStore)
    BY DEF EmptyStore, Stores, Rows, Entries, NoEntry, IsWellFormed, Stored, Indexed
  <1>2. 0 \in Ends /\ IsCut(EmptyStore, 0) /\ EmptyStore = Cut(EmptyStore, 0)
    BY DEF Ends, IsCut, Cut, EmptyStore, Seqs
  <1>3. call \in [Writers -> [requests : Decoded \cup {<<>>}, first : Ends]]
    BY <1>2 DEF Init, NoCall
  <1> QED
    BY <1>1, <1>2, <1>3
    DEF Init, IndexDbInv, CallSound, FlushedIsPrefix, RowsMatchIndex

\* A well-formed store is a prefix of itself.
LEMMA WholeCut ==
    ASSUME NEW s \in Stores, IsWellFormed(s)
    PROVE  /\ MaxRows \in Ends
           /\ IsCut(s, MaxRows) /\ s = Cut(s, MaxRows)
  <1>1. /\ s.rows \in [Seqs -> Rows] /\ s.index \in [Events -> Entries]
        /\ s = [rows |-> s.rows, index |-> s.index]
    BY DEF Stores
  <1>2. ASSUME NEW x \in Events, s.index[x] # NoEntry
        PROVE  /\ s.index[x].first < MaxRows
               /\ s.index[x].first + s.index[x].count <= MaxRows
    <2> DEFINE i == s.index[x].first
               c == s.index[x].count
    <2>1. /\ i \in Nat /\ c \in Nat /\ c > 0
          /\ i .. (i + c - 1) \subseteq Seqs
      BY <1>1, <1>2 DEF IsWellFormed, OwnsItsRange, Indexed, Entries, RangeOf
    <2> HIDE DEF i, c
    <2>2. i + c - 1 \in i .. (i + c - 1)
      BY <2>1
    <2>3. i + c - 1 \in 0 .. (MaxRows - 1)
      BY <2>1, <2>2 DEF Seqs
    <2>4. i < MaxRows /\ i + c <= MaxRows
      BY <2>1, <2>3
    <2> QED
      BY <2>4 DEF i, c
  <1>3. s.rows = [q \in Seqs |-> IF q < MaxRows THEN s.rows[q] ELSE NoRow]
    <2>1. \A q \in Seqs : q < MaxRows
      BY DEF Seqs
    <2> QED
      BY <1>1, <2>1
  <1>4. s.index = [e \in Events |-> IF s.index[e] # NoEntry /\ s.index[e].first < MaxRows
                                    THEN s.index[e] ELSE NoEntry]
    <2>1. \A e \in Events :
            s.index[e] = IF s.index[e] # NoEntry /\ s.index[e].first < MaxRows
                         THEN s.index[e] ELSE NoEntry
      BY <1>2
    <2> QED
      BY <1>1, <2>1
  <1> QED
    BY <1>1, <1>2, <1>3, <1>4 DEF IsCut, Cut, Ends

\* The transaction of a call that inserts: what the call holds, and what it makes of
\* the database.
LEMMA InsertApplies ==
    ASSUME IndexDbInv, NEW w \in Writers, InsertNew(w)
    PROVE  \E e \in Events, f \in Ends :
             LET r == Requests(e, denom)
             IN  /\ Decodes(e, denom) /\ call[w] = [requests |-> r, first |-> f]
                 /\ db.index[e] = NoEntry
                 /\ f + Len(r) <= MaxRows
                 /\ \A q \in Seqs : q < f => q \in Stored(db.rows)
                 /\ \A q \in Seqs : f <= q /\ q < f + Len(r) => db.rows[q] = NoRow
                 /\ db' = Inserted(db, e, r, f)
  <1>1. call[w] # NoCall /\ denom \in Denoms /\ CallSound(w)
    BY DEF IndexDbInv, InsertNew
  <1>2. PICK e \in Events, f \in Ends :
          /\ Decodes(e, denom)
          /\ call[w] = [requests |-> Requests(e, denom), first |-> f]
          /\ \A q \in Seqs : q < f => q \in Stored(db.rows)
    BY <1>1 DEF CallSound
  <1> DEFINE r == Requests(e, denom)
  <1>d. Len(r) \in Nat \ {0} /\ \A i \in 1 .. Len(r) : r[i].event = e
    BY <1>1, <1>2, DecodedEvent, Zenon
  <1> HIDE DEF r
  <1>3. Len(r) \in Nat \ {0} /\ r[1].event = e
    BY <1>d
  <1>4. call[w].requests = r /\ call[w].first = f
    BY <1>2 DEF r
  <1>5. EntryOf(w) = db.index[e]
    BY <1>3, <1>4 DEF EntryOf
  <1>6. /\ db.index[e] = NoEntry /\ f + Len(r) <= MaxRows
        /\ \A q \in Seqs : f <= q /\ q < f + Len(r) => db.rows[q] = NoRow
    BY <1>4, <1>5 DEF InsertNew, Occupied
  <1>7. db' = Inserted(db, e, r, f)
    BY <1>3, <1>4 DEF InsertNew, Inserted
  <1> QED
    BY <1>2, <1>6, <1>7 DEF r

\* Steps that leave the database and its flushed copy alone, and change calls only to
\* end them or to begin them soundly.
LEMMA CallsKeep ==
    ASSUME IndexDbInv, UNCHANGED <<db, flushed, denom>>,
           at' \in [Writers -> Nat \ {0}],
           call' \in [Writers -> [requests : Decoded \cup {<<>>}, first : Ends]],
           DOMAIN answer' = Writers,
           NEW w \in Writers, CallSound(w)',
           \A v \in Writers \ {w} : call'[v] = call[v]
    PROVE  IndexDbInv'
  <1>1. ASSUME NEW v \in Writers
        PROVE  CallSound(v)'
    BY DEF IndexDbInv, CallSound
  <1>2. FlushedIsPrefix' /\ RowsMatchIndex'
    BY DEF IndexDbInv, FlushedIsPrefix, RowsMatchIndex, IsCut, Cut
  <1> QED
    BY <1>1, <1>2 DEF IndexDbInv

\* What a writer is at is an event on the chain.
LEMMA EventAtScanned ==
    ASSUME IndexDbInv, NEW w \in Writers, HasEvent(w)
    PROVE  EventAt(w) \in Events
  <1>1. Todo[w] \in Seq(1 .. Len(Amount)) /\ at[w] \in 1 .. Len(Todo[w])
    BY DEF IndexDbInv, HasEvent, Writers
  <1> QED
    BY <1>1, ElementOfSeq DEF EventAt, Events

\* What the next sequence number leaves behind is in use.
LEMMA BelowNextSeq ==
    ASSUME IndexDbInv, NEW f \in Ends, IsNextSeq(f)
    PROVE  \A q \in Seqs : q < f => q \in Stored(db.rows)
  <1>1. ASSUME NEW q \in Seqs, q < f
        PROVE  q \in Stored(db.rows)
    <2>1. f - 1 \in Seqs /\ f > 0 /\ q \in Nat
      BY <1>1 DEF Seqs, Ends
    <2>2. f - 1 \in Stored(db.rows)
      BY <2>1 DEF IsNextSeq, Stored
    <2>3. q = f - 1 \/ q < f - 1
      BY <1>1, <2>1 DEF Ends
    <2> QED
      BY <2>1, <2>2, <2>3 DEF IndexDbInv, RowsMatchIndex, IsWellFormed
  <1> QED
    BY <1>1

\* The read of the next sequence number preserves it.
LEMMA InvReadNextSeq ==
    ASSUME IndexDbInv, NEW w \in Writers, ReadNextSeq(w)
    PROVE  IndexDbInv'
  <1> DEFINE e == EventAt(w)
  <1>1. e \in Events /\ Decodes(e, denom) /\ denom \in Denoms
    BY EventAtScanned DEF ReadNextSeq, IndexDbInv
  <1>2. PICK f \in Ends :
          /\ IsNextSeq(f)
          /\ call' = [call EXCEPT ![w] = [requests |-> Requests(e, denom), first |-> f]]
    BY DEF ReadNextSeq
  <1>3. UNCHANGED <<db, flushed, denom, at, answer>>
    BY DEF ReadNextSeq
  <1> HIDE DEF e
  <1>4. Requests(e, denom) \in Decoded
    BY <1>1, DecodedEvent
  <1>5. /\ call' \in [Writers -> [requests : Decoded \cup {<<>>}, first : Ends]]
        /\ call'[w] = [requests |-> Requests(e, denom), first |-> f]
        /\ \A v \in Writers \ {w} : call'[v] = call[v]
    BY <1>2, <1>4 DEF IndexDbInv
  <1>6. CallSound(w)'
    BY <1>1, <1>2, <1>3, <1>5, BelowNextSeq DEF CallSound
  <1> QED
    BY <1>3, <1>5, <1>6, CallsKeep DEF IndexDbInv

\* A writer without a call is in the type of the calls.
LEMMA NoCallTyped ==
    NoCall \in [requests : Decoded \cup {<<>>}, first : Ends]
  BY DEF NoCall, Ends

\* So does the return of a call.
LEMMA InvReturn ==
    ASSUME IndexDbInv, NEW w \in Writers, NEW result, NEW next \in Nat \ {0},
           Return(w, result, next), db' = db
    PROVE  IndexDbInv'
  <1>1. /\ at' \in [Writers -> Nat \ {0}] /\ DOMAIN answer' = Writers
        /\ call' \in [Writers -> [requests : Decoded \cup {<<>>}, first : Ends]]
        /\ call'[w] = NoCall /\ \A v \in Writers \ {w} : call'[v] = call[v]
    BY NoCallTyped DEF IndexDbInv, Return
  <1>2. CallSound(w)'
    BY <1>1 DEF CallSound
  <1> QED
    BY <1>1, <1>2, CallsKeep DEF Return

\* The one step that writes.  What was flushed stays a prefix, the same one or a
\* shorter one: the new rows come after every row there is.
LEMMA InvInsertNew ==
    ASSUME IndexDbInv, NEW w \in Writers, InsertNew(w)
    PROVE  IndexDbInv'
  <1>1. PICK e \in Events, f \in Ends :
          /\ Decodes(e, denom)
          /\ call[w] = [requests |-> Requests(e, denom), first |-> f]
          /\ db.index[e] = NoEntry
          /\ f + Len(Requests(e, denom)) <= MaxRows
          /\ \A q \in Seqs : q < f => q \in Stored(db.rows)
          /\ \A q \in Seqs : f <= q /\ q < f + Len(Requests(e, denom)) => db.rows[q] = NoRow
          /\ db' = Inserted(db, e, Requests(e, denom), f)
    BY InsertApplies
  <1>2. /\ db \in Stores /\ flushed \in Stores /\ IsWellFormed(db) /\ IsWellFormed(flushed)
        /\ denom \in Denoms /\ at[w] + 1 \in Nat \ {0}
    BY DEF IndexDbInv, RowsMatchIndex
  <1>3. /\ db' \in Stores /\ IsWellFormed(db')
        /\ \A q \in Seqs : q \in Stored(db.rows) => db'.rows[q] = db.rows[q]
        /\ \A q \in Seqs : q >= f => db.rows[q] = NoRow
        /\ db'.index[e] = [first |-> f, count |-> Len(Requests(e, denom))]
        /\ db'.index[e] # NoEntry
        /\ \A x \in Events \ {e} : db'.index[x] = db.index[x]
        /\ \A x \in Events : db.index[x] # NoEntry =>
             db.index[x].count > 0 /\ db.index[x].first + db.index[x].count <= f
    <2> DEFINE t == Inserted(db, e, Requests(e, denom), f)
    <2>1. /\ t \in Stores /\ IsWellFormed(t)
          /\ \A q \in Seqs : q \in Stored(db.rows) => t.rows[q] = db.rows[q]
          /\ \A q \in Seqs : q >= f => db.rows[q] = NoRow
          /\ t.index[e] = [first |-> f, count |-> Len(Requests(e, denom))]
          /\ t.index[e] # NoEntry
          /\ \A x \in Events \ {e} : t.index[x] = db.index[x]
          /\ \A x \in Events : db.index[x] # NoEntry =>
               db.index[x].count > 0 /\ db.index[x].first + db.index[x].count <= f
      BY <1>1, <1>2, InsertKeeps
    <2> HIDE DEF t
    <2>2. db' = t
      BY <1>1 DEF t
    <2> QED
      BY <2>1, <2>2
  <1>4. /\ at' \in [Writers -> Nat \ {0}] /\ DOMAIN answer' = Writers
        /\ call' \in [Writers -> [requests : Decoded \cup {<<>>}, first : Ends]]
        /\ call'[w] = NoCall /\ \A v \in Writers \ {w} : call'[v] = call[v]
        /\ flushed' = flushed /\ denom' = denom
    BY <1>2, NoCallTyped DEF IndexDbInv, InsertNew, Return
  <1>5. ASSUME NEW v \in Writers
        PROVE  CallSound(v)'
    <2>1. CASE v = w
      BY <1>4, <2>1 DEF CallSound
    <2>2. CASE v # w
      <3>1. \A q \in Seqs : q \in Stored(db.rows) => q \in Stored(db'.rows)
        BY <1>3 DEF Stored
      <3>2. CallSound(v) /\ call'[v] = call[v]
        BY <1>4, <2>2 DEF IndexDbInv
      <3> QED
        BY <1>4, <3>1, <3>2 DEF CallSound
    <2> QED
      BY <2>1, <2>2
  <1>6. FlushedIsPrefix'
    <2>1. PICK end \in Ends : IsCut(db, end) /\ flushed = Cut(db, end)
      BY DEF IndexDbInv, FlushedIsPrefix
    <2>2. end \in Nat /\ f \in Nat /\ Seqs \subseteq Nat
      BY DEF Ends, Seqs
    <2>3. \A x \in Events : db.index[x] # NoEntry =>
            db.index[x].first \in Nat /\ db.index[x].count \in Nat
      BY <1>2 DEF Stores, Entries
    <2>4. CASE end <= f
      <3>i. db'.index[e].first = f /\ \A x \in Events \ {e} : db'.index[x] = db.index[x]
        BY <1>3
      <3>1. IsCut(db', end)
        BY <2>1, <2>2, <2>4, <3>i DEF IsCut
      <3>2. ASSUME NEW q \in Seqs, q < end
            PROVE  db'.rows[q] = db.rows[q]
        <4>1. q < f
          BY <2>2, <2>4, <3>2
        <4> QED
          BY <1>1, <1>3, <4>1
      <3>3. ASSUME NEW x \in Events
            PROVE  (IF db'.index[x] # NoEntry /\ db'.index[x].first < end
                    THEN db'.index[x] ELSE NoEntry)
                   = (IF db.index[x] # NoEntry /\ db.index[x].first < end
                      THEN db.index[x] ELSE NoEntry)
        <4>1. CASE x = e
          <5>1. ~(f < end) /\ db.index[e] = NoEntry
            BY <1>1, <2>2, <2>4
          <5> QED
            BY <3>i, <4>1, <5>1
        <4>2. CASE x # e
          BY <3>i, <4>2
        <4> QED
          BY <4>1, <4>2
      <3>4. Cut(db', end) = Cut(db, end)
        BY <3>2, <3>3 DEF Cut
      <3> QED
        BY <1>4, <2>1, <3>1, <3>4 DEF FlushedIsPrefix
    <2>5. CASE f < end
      <3>1. IsCut(db', f)
        BY <1>3, <2>2 DEF IsCut
      <3>2. ASSUME NEW q \in Seqs
            PROVE  (IF q < f THEN db'.rows[q] ELSE NoRow)
                   = (IF q < end THEN db.rows[q] ELSE NoRow)
        BY <1>1, <1>3, <2>2, <2>5
      <3>3. ASSUME NEW x \in Events
            PROVE  (IF db'.index[x] # NoEntry /\ db'.index[x].first < f
                    THEN db'.index[x] ELSE NoEntry)
                   = (IF db.index[x] # NoEntry /\ db.index[x].first < end
                      THEN db.index[x] ELSE NoEntry)
        <4>1. CASE x = e
          BY <1>1, <1>3, <2>2, <4>1
        <4>2. CASE x # e /\ db.index[x] = NoEntry
          BY <1>3, <4>2
        <4>3. CASE x # e /\ db.index[x] # NoEntry
          <5>1. db.index[x].first < f
            BY <1>3, <2>2, <2>3, <4>3
          <5>2. db.index[x].first < end /\ db'.index[x] = db.index[x]
            BY <1>3, <2>2, <2>3, <2>5, <4>3, <5>1
          <5> QED
            BY <5>1, <5>2
        <4> QED
          BY <4>1, <4>2, <4>3
      <3>4. Cut(db', f) = Cut(db, end)
        BY <3>2, <3>3 DEF Cut
      <3> QED
        BY <1>4, <2>1, <3>1, <3>4 DEF FlushedIsPrefix
    <2> QED
      BY <2>2, <2>4, <2>5
  <1> QED
    BY <1>2, <1>3, <1>4, <1>5, <1>6 DEF IndexDbInv, RowsMatchIndex

\* So does every end of the process, with the start that follows it.
LEMMA InvReopen ==
    ASSUME IndexDbInv, NEW kept \in {db, flushed}, NEW d \in Denoms, Reopen(kept, d)
    PROVE  IndexDbInv'
  <1>1. kept \in Stores /\ IsWellFormed(kept)
    BY DEF IndexDbInv, RowsMatchIndex
  <1>2. /\ db' = kept /\ flushed' = kept /\ denom' = d
        /\ at' \in [Writers -> Nat \ {0}] /\ DOMAIN answer' = Writers
        /\ call' \in [Writers -> [requests : Decoded \cup {<<>>}, first : Ends]]
        /\ \A v \in Writers : call'[v] = NoCall
    BY NoCallTyped DEF Reopen
  <1>3. FlushedIsPrefix'
    BY <1>1, <1>2, WholeCut DEF FlushedIsPrefix
  <1> QED
    BY <1>1, <1>2, <1>3 DEF IndexDbInv, RowsMatchIndex, CallSound

\* So does a flush.
LEMMA InvFlush ==
    ASSUME IndexDbInv, Flush
    PROVE  IndexDbInv'
  <1>1. /\ flushed' = db /\ db' = db /\ db \in Stores /\ IsWellFormed(db)
        /\ UNCHANGED <<denom, at, call, answer>>
    BY DEF Flush, IndexDbInv, RowsMatchIndex
  <1>2. FlushedIsPrefix'
    BY <1>1, WholeCut DEF FlushedIsPrefix
  <1> QED
    BY <1>1, <1>2 DEF IndexDbInv, RowsMatchIndex, CallSound

\* Every step preserves it.
LEMMA InvStep == IndexDbInv /\ [Next]_vars => IndexDbInv'
  <1> SUFFICES ASSUME IndexDbInv, [Next]_vars
               PROVE  IndexDbInv'
    OBVIOUS
  <1>1. ASSUME NEW w \in Writers, ReadNextSeq(w)
        PROVE  IndexDbInv'
    BY <1>1, InvReadNextSeq
  <1>2. ASSUME NEW w \in Writers, FailDecode(w)
        PROVE  IndexDbInv'
    <2>1. at' \in [Writers -> Nat \ {0}] /\ UNCHANGED <<db, flushed, denom, call, answer>>
      BY <1>2 DEF FailDecode, IndexDbInv
    <2>2. CallSound(w)'
      BY <2>1 DEF IndexDbInv, CallSound
    <2> QED
      BY <2>1, <2>2, CallsKeep DEF IndexDbInv
  <1>3. ASSUME NEW w \in Writers, InsertNew(w)
        PROVE  IndexDbInv'
    BY <1>3, InvInsertNew
  <1>4. ASSUME NEW w \in Writers, ReplayKnown(w) \/ Abort(w)
        PROVE  IndexDbInv'
    <2>1. at[w] + 1 \in Nat \ {0} /\ 1 \in Nat \ {0}
      BY DEF IndexDbInv
    <2> QED
      BY <1>4, <2>1, InvReturn DEF ReplayKnown, Abort
  <1>5. CASE ReadBatch \/ EndRead \/ UNCHANGED vars
    <2>1. UNCHANGED <<db, flushed, denom, at, call, answer>>
      BY <1>5 DEF ReadBatch, EndRead, vars
    <2> QED
      BY <2>1 DEF IndexDbInv, CallSound, FlushedIsPrefix, RowsMatchIndex, IsCut, Cut
  <1>6. CASE Flush
    BY <1>6, InvFlush
  <1>7. ASSUME NEW kept \in {db, flushed}, NEW d \in Denoms, Reopen(kept, d)
        PROVE  IndexDbInv'
    BY <1>7, InvReopen
  <1> QED
    BY <1>1, <1>2, <1>3, <1>4, <1>5, <1>6, <1>7 DEF Next, Write, Restart, Panic

\* The invariant of the database holds in every reachable state.
THEOREM Invariance == Spec => []IndexDbInv
  BY InvInit, InvStep, PTL DEF Spec

\* However many writers race, wherever the process dies and however often the
\* denomination changes, the rows and the event index of insert_withdrawal_event
\* agree, in the database and in what a kill leaves of it.
THEOREM RowsAlwaysMatchIndex == Spec => []RowsMatchIndex
  BY Invariance, PTL DEF IndexDbInv

--------------------------------------------------------------------------------
(* The batched reads *)

ReaderSound ==
    /\ reader \in [next : Nat, got : [Seqs -> Rows]]
    /\ ReadsAreARun

\* Of the sequence numbers there are finitely many.
LEMMA SeqsFinite ==
    ASSUME NEW S \in SUBSET Seqs
    PROVE  IsFiniteSet(S)
  <1>1. 0 \in Int /\ MaxRows - 1 \in Int
    OBVIOUS
  <1>2. IsFiniteSet(Seqs)
    BY <1>1, FS_Interval DEF Seqs
  <1> QED
    BY <1>2, FS_Subset

\* A batch leaves nothing out: with a row it has every stored row between that and
\* its start.
LEMMA FetchIsDownClosed ==
    ASSUME NEW start \in Nat, NEW limit \in Int,
           NEW q \in Fetch(start, limit), NEW p \in Stored(db.rows), start <= p, p <= q
    PROVE  p \in Fetch(start, limit)
  <1> DEFINE Before(x) == {y \in Stored(db.rows) : start <= y /\ y < x}
  <1>1. Stored(db.rows) \subseteq Seqs /\ Seqs \subseteq Nat /\ q \in Seqs
    BY DEF Stored, Seqs, Fetch
  <1>2. Before(p) \subseteq Before(q) /\ IsFiniteSet(Before(p)) /\ IsFiniteSet(Before(q))
    <2>1. Before(p) \in SUBSET Seqs /\ Before(q) \in SUBSET Seqs
      BY <1>1
    <2>2. ASSUME NEW y \in Before(p)
          PROVE  y \in Before(q)
      <3>1. y \in Stored(db.rows) /\ start <= y /\ y < p
        OBVIOUS
      <3>2. y \in Nat /\ p \in Nat /\ q \in Nat
        BY <1>1, <3>1, Zenon
      <3> QED
        BY <3>1, <3>2
    <2> HIDE DEF Before
    <2> QED
      BY <2>1, <2>2, SeqsFinite
  <1>3. Cardinality(Before(p)) <= Cardinality(Before(q))
    BY <1>2, FS_Subset
  <1>4. Cardinality(Before(p)) \in Nat /\ Cardinality(Before(q)) \in Nat
    BY <1>2, FS_CardinalityType
  <1>5. Cardinality(Before(q)) < limit
    BY DEF Fetch
  <1>6. Cardinality(Before(p)) < limit
    <2> HIDE DEF Before
    <2> QED
      BY <1>3, <1>4, <1>5
  <1> QED
    BY <1>1, <1>6 DEF Fetch

\* A batch goes on where the reader stopped, and what it had stays stored.
LEMMA ReadBatchKeeps ==
    ASSUME IndexDbInv, ReaderSound, ReadBatch
    PROVE  ReaderSound'
  <1> DEFINE batch == Fetch(reader.next, Limit)
  <1>1. PICK last \in batch :
          /\ \A q \in batch : q <= last
          /\ reader' = [next |-> last + 1,
                        got  |-> [q \in Seqs |-> IF q \in batch THEN db.rows[q]
                                                                ELSE reader.got[q]]]
    BY DEF ReadBatch
  <1>2. /\ reader.next \in Nat /\ reader.got \in [Seqs -> Rows] /\ db' = db
        /\ db.rows \in [Seqs -> Rows]
        /\ Collected = 0 .. (reader.next - 1) /\ Collected \subseteq Seqs
        /\ \A q \in Collected : reader.got[q] = db.rows[q]
    BY DEF ReaderSound, ReadsAreARun, ReadBatch, IndexDbInv, Stores, Collected, Stored
  <1>3. Limit \in Int
    <2>1. Cardinality(Collected) \in Nat
      BY <1>2, SeqsFinite, FS_CardinalityType
    <2> QED
      BY <2>1 DEF Limit
  <1>4. /\ Seqs \subseteq Nat /\ last \in Seqs /\ last >= reader.next
        /\ \A q \in batch : q \in Seqs /\ db.rows[q] # NoRow
    BY DEF Fetch, Stored, Seqs
  <1>5. ASSUME NEW q \in Seqs, reader.next <= q, q <= last
        PROVE  q \in batch
    <2>1. q \in Stored(db.rows)
      <3>1. last \in Stored(db.rows) /\ (q = last \/ q < last)
        BY <1>4, <1>5 DEF Fetch
      <3> QED
        BY <3>1 DEF IndexDbInv, RowsMatchIndex, IsWellFormed
    <2> QED
      BY <1>2, <1>3, <1>5, <2>1, FetchIsDownClosed
  <1>6. ASSUME NEW q \in Seqs
        PROVE  q \in batch <=> reader.next <= q /\ q <= last
    <2>1. q \in batch => reader.next <= q
      BY DEF Fetch
    <2> QED
      BY <1>1, <1>5, <2>1
  <1> HIDE DEF batch
  <1>7. /\ reader'.next = last + 1
        /\ reader'.got = [q \in Seqs |-> IF q \in batch THEN db.rows[q] ELSE reader.got[q]]
        /\ reader' \in [next : Nat, got : [Seqs -> Rows]]
    <2>1. [q \in Seqs |-> IF q \in batch THEN db.rows[q] ELSE reader.got[q]] \in [Seqs -> Rows]
      BY <1>2
    <2>2. last + 1 \in Nat
      <3>1. last \in 0 .. (MaxRows - 1)
        BY <1>4 DEF Seqs
      <3> HIDE <1>1
      <3> QED
        BY <3>1
    <2> QED
      BY <1>1, <2>1, <2>2
  <1>8. ASSUME NEW q \in Seqs
        PROVE  /\ q <= last => reader'.got[q] # NoRow /\ reader'.got[q] = db.rows[q]
               /\ last < q => reader'.got[q] = NoRow
    <2>1. CASE q < reader.next
      <3>1. q \in Collected /\ q <= last /\ q \notin batch
        BY <1>2, <1>4, <1>6, <2>1
      <3>2. reader'.got[q] = reader.got[q] /\ reader.got[q] # NoRow /\ reader.got[q] = db.rows[q]
        BY <1>2, <1>7, <3>1 DEF Collected, Stored
      <3> QED
        BY <1>4, <3>1, <3>2
    <2>2. CASE reader.next <= q /\ q <= last
      <3>1. q \in batch
        BY <1>6, <2>2
      <3> QED
        BY <1>4, <1>7, <2>2, <3>1
    <2>3. CASE last < q
      <3>1. q \notin Collected /\ q \notin batch
        BY <1>2, <1>4, <1>6, <2>3
      <3> QED
        BY <1>4, <1>7, <2>3, <3>1 DEF Collected, Stored
    <2> QED
      BY <1>2, <1>4, <2>1, <2>2, <2>3
  <1>9. Collected' = 0 .. last
    BY <1>4, <1>8 DEF Collected, Stored, Seqs
  <1> QED
    <2>1. reader'.next - 1 = last
      <3>1. last \in Nat
        BY <1>4, Zenon
      <3> QED
        BY <1>7, <3>1
    <2>2. \A q \in Collected' : reader'.got[q] = db'.rows[q]
      <3>1. \A q \in 0 .. last : q \in Seqs /\ q <= last
        BY <1>4 DEF Seqs
      <3> QED
        BY <1>2, <1>8, <1>9, <3>1
    <2> QED
      BY <1>7, <1>9, <2>1, <2>2 DEF ReaderSound, ReadsAreARun

\* A reader that begins has nothing, and one that waits keeps what it has.
LEMMA UnreadSound ==
    ASSUME reader = Unread
    PROVE  ReaderSound
  BY DEF Unread, NoRows, ReaderSound, ReadsAreARun, Collected, Stored, Rows

\* Every step keeps what a reader has collected sound.
LEMMA ReaderStep == IndexDbInv /\ ReaderSound /\ [Next]_vars => ReaderSound'
  <1> SUFFICES ASSUME IndexDbInv, ReaderSound, [Next]_vars
               PROVE  ReaderSound'
    OBVIOUS
  <1>1. CASE ReadBatch
    BY <1>1, ReadBatchKeeps
  <1>2. CASE reader' = Unread
    <2>1. /\ reader'.next = 0 /\ reader'.got = NoRows
          /\ reader' \in [next : Nat, got : [Seqs -> Rows]]
      BY <1>2 DEF Unread, NoRows, Rows
    <2>2. Collected' = {}
      BY <2>1 DEF Collected, Stored, NoRows
    <2> QED
      BY <2>1, <2>2 DEF ReaderSound, ReadsAreARun
  <1>3. ASSUME UNCHANGED reader, \A q \in Stored(db.rows) : db'.rows[q] = db.rows[q]
        PROVE  ReaderSound'
    BY <1>3 DEF ReaderSound, ReadsAreARun, Collected, Stored
  <1>4. ASSUME NEW w \in Writers, InsertNew(w)
        PROVE  ReaderSound'
    <2>1. UNCHANGED reader /\ \A q \in Stored(db.rows) : db'.rows[q] = db.rows[q]
      <3>1. PICK e \in Events, f \in Ends :
              LET r == Requests(e, denom)
              IN  /\ \A q \in Seqs : f <= q /\ q < f + Len(r) => db.rows[q] = NoRow
                  /\ db' = Inserted(db, e, r, f)
        BY <1>4, InsertApplies
      <3> QED
        BY <1>4, <3>1 DEF Inserted, Stored, InsertNew, Return
    <2> QED
      BY <1>3, <2>1
  <1>5. CASE UNCHANGED <<db, reader>>
    BY <1>3, <1>5
  <1>6. ASSUME NEW w \in Writers,
               ReadNextSeq(w) \/ FailDecode(w) \/ ReplayKnown(w) \/ Abort(w)
        PROVE  UNCHANGED <<db, reader>>
    BY <1>6 DEF ReadNextSeq, FailDecode, ReplayKnown, Abort, Return
  <1>7. EndRead \/ (\E kept \in {db, flushed}, d \in Denoms : Reopen(kept, d))
            => reader' = Unread
    BY DEF EndRead, Reopen
  <1>8. Flush \/ UNCHANGED vars => UNCHANGED <<db, reader>>
    BY DEF Flush, vars
  <1> QED
    BY <1>1, <1>2, <1>4, <1>5, <1>6, <1>7, <1>8 DEF Next, Write, Restart, Panic

\* The batches that fetch_withdrawal_requests collects are one run of consecutive
\* numbers from the start, every row still as stored, whatever is inserted meanwhile.
THEOREM ReadsStayARun == Spec => []ReadsAreARun
  <1>1. Init => ReaderSound
    BY UnreadSound DEF Init
  <1>2. ReaderSound => ReadsAreARun
    BY DEF ReaderSound
  <1> QED
    BY <1>1, <1>2, Invariance, ReaderStep, PTL DEF Spec

--------------------------------------------------------------------------------
(* The database implements the log *)

\* The initial states are initial states of the log.
LEMMA LogInitially == Init => Log!LogInit
  BY DEF Init, EmptyStore, Log!LogInit, Log!Seqs, Seqs

\* An insert that writes is the log's append: the number it has read before its
\* transaction began is still the next one, or it would have been refused.
LEMMA InsertAppends ==
    ASSUME IndexDbInv, NEW w \in Writers, InsertNew(w)
    PROVE  Log!LogNext
  <1>1. PICK e \in Events, f \in Ends :
          /\ Decodes(e, denom)
          /\ call[w] = [requests |-> Requests(e, denom), first |-> f]
          /\ db.index[e] = NoEntry
          /\ f + Len(Requests(e, denom)) <= MaxRows
          /\ \A q \in Seqs : q < f => q \in Stored(db.rows)
          /\ \A q \in Seqs : f <= q /\ q < f + Len(Requests(e, denom)) => db.rows[q] = NoRow
          /\ db' = Inserted(db, e, Requests(e, denom), f)
    BY InsertApplies
  <1>2. db \in Stores /\ IsWellFormed(db) /\ denom \in Denoms
    BY DEF IndexDbInv, RowsMatchIndex
  <1> DEFINE r == Requests(e, denom)
             entry == [first |-> f, count |-> Len(r)]
  <1>3. /\ Len(r) \in Nat \ {0} /\ r \in Decoded
        /\ \A i \in 1 .. Len(r) : r[i].event = e
    BY <1>1, <1>2, DecodedEvent, Zenon
  <1>4. /\ call[w].requests = r /\ call[w].first = f
        /\ answer' = [answer EXCEPT ![w] = [asked |-> r, range |-> entry]]
    BY <1>1 DEF InsertNew, Return
  <1> HIDE DEF r
  <1>5. r[1].event = e
    BY <1>3
  <1>6. \A q \in Seqs : q >= f => db.rows[q] = NoRow
    <2>1. f + Len(r) <= MaxRows /\ \A q \in Seqs : f <= q /\ q < f + Len(r) => db.rows[q] = NoRow
      BY <1>1 DEF r
    <2>2. f \in Seqs /\ db.rows[f] = NoRow
      BY <1>3, <2>1 DEF Seqs, Ends
    <2> QED
      BY <1>2, <2>2 DEF IsWellFormed, Stored, Seqs
  <1>7. f > 0 => db.rows[f - 1] # NoRow
    <2>1. f > 0 => f - 1 \in Seqs /\ f - 1 < f
      BY DEF Ends, Seqs
    <2> QED
      BY <1>1, <2>1 DEF Stored
  <1>8. /\ db'.rows = [q \in Seqs |-> IF f <= q /\ q < f + Len(r)
                                     THEN r[q - f + 1] ELSE db.rows[q]]
        /\ db'.index = [db.index EXCEPT ![e] = entry]
    BY <1>1 DEF Inserted, r
  <1>9. Log!IsNext(f)
    BY <1>6, <1>7 DEF Log!IsNext, Log!Seqs, Seqs
  <1>10. Log!AppendEvent(w, r)
    <2>1. f \in Log!Ends /\ f + Len(r) <= MaxRows /\ db.index[r[1].event] = NoEntry
      BY <1>1, <1>5 DEF Log!Ends, Ends, r
    <2> QED
      BY <1>4, <1>5, <1>8, <1>9, <2>1 DEF Log!AppendEvent, Log!Seqs, Seqs
  <1> QED
    BY <1>3, <1>10 DEF Log!LogNext

\* An insert of a known event is a replay in the log.
LEMMA ReplayReplays ==
    ASSUME IndexDbInv, NEW w \in Writers, ReplayKnown(w)
    PROVE  Log!LogNext
  <1>1. PICK e \in Events : Decodes(e, denom) /\ call[w].requests = Requests(e, denom)
    BY DEF IndexDbInv, ReplayKnown, CallSound
  <1> DEFINE r == call[w].requests
  <1>2. r \in Decoded
    BY <1>1, DecodedEvent DEF IndexDbInv
  <1>3. Log!ReplayEvent(w, r)
    BY DEF ReplayKnown, SameRows, EntryOf, Return, Log!ReplayEvent
  <1> QED
    BY <1>2, <1>3 DEF Log!LogNext

\* A new start reopens the log, without its last events or whole.
LEMMA ReopensLog ==
    ASSUME IndexDbInv, NEW kept \in {db, flushed}, NEW d \in Denoms, Reopen(kept, d)
    PROVE  Log!LogNext
  <1>1. PICK end \in Ends : IsCut(db, end) /\ kept = Cut(db, end)
    BY WholeCut DEF IndexDbInv, RowsMatchIndex, FlushedIsPrefix
  <1>2. db' = Cut(db, end) /\ answer' = [w \in Writers |-> NoAnswer]
    BY <1>1 DEF Reopen
  <1>3. Log!Reopen(end)
    BY <1>1, <1>2 DEF IsCut, Cut, Log!Reopen, Log!Seqs, Seqs
  <1> QED
    BY <1>3 DEF Log!LogNext, Log!Ends, Ends

\* Every step is a step of the log, or none.
LEMMA LogStep == IndexDbInv /\ [Next]_vars => [Log!LogNext]_(Log!logVars)
  <1> SUFFICES ASSUME IndexDbInv, [Next]_vars
               PROVE  Log!LogNext \/ UNCHANGED Log!logVars
    OBVIOUS
  <1>1. ASSUME NEW w \in Writers, InsertNew(w)
        PROVE  Log!LogNext
    BY <1>1, InsertAppends
  <1>2. ASSUME NEW w \in Writers, ReplayKnown(w)
        PROVE  Log!LogNext
    BY <1>2, ReplayReplays
  <1>3. ASSUME NEW w \in Writers, Abort(w)
        PROVE  Log!LogNext
    BY <1>3 DEF Abort, Return, Log!Refuse, Log!LogNext
  <1>4. ASSUME NEW kept \in {db, flushed}, NEW d \in Denoms, Reopen(kept, d)
        PROVE  Log!LogNext
    BY <1>4, ReopensLog
  <1>5. ASSUME NEW w \in Writers, ReadNextSeq(w) \/ FailDecode(w)
        PROVE  UNCHANGED Log!logVars
    BY <1>5 DEF ReadNextSeq, FailDecode, Log!logVars
  <1>6. CASE ReadBatch \/ EndRead \/ Flush \/ UNCHANGED vars
    BY <1>6 DEF ReadBatch, EndRead, Flush, vars, Log!logVars
  <1> QED
    BY <1>1, <1>2, <1>3, <1>4, <1>5, <1>6 DEF Next, Write, Restart, Panic

\* "If another writer races anyway, the transaction below catches the stale sequence":
\* with any number of writers, kills and restarts under other denominations, the
\* database behaves as a log whose inserts are single steps.
THEOREM RefinesLog == Spec => ImplementsLog
  BY Invariance, LogInitially, LogStep, PTL DEF Spec, ImplementsLog, Log!LogSpec
================================================================================
