-------------------------- MODULE NetworkMonitor_proofs --------------------------
(***************************************************************************)
(* Proofs about NetworkMonitor, for every retry policy and timeout.        *)
(***************************************************************************)
EXTENDS NetworkMonitor, WellFoundedInduction, TLAPS

\* What a poll has found out about a service it has seen in this poll.
FoundSound ==
    \A s \in Services :
        /\ found[s] = "Online" => "up" \in seen[s]
        /\ found[s] = "Offline" => seen[s] # {"up"}

\* The queries asked so far are those with a result.
FoundInOrder ==
    /\ query = "waiting" => found = NothingFound
    /\ query = "store" => \A s \in Services : found[s] # "none"
    /\ query = "sequencer" => found = NothingFound
    /\ query = "rpc_endpoint" =>
        /\ found["sequencer"] # "none"
        /\ found["rpc_endpoint"] = "none" /\ found["bundler_endpoint"] = "none"
    /\ query = "bundler_endpoint" =>
        /\ found["sequencer"] # "none" /\ found["rpc_endpoint"] # "none"
        /\ found["bundler_endpoint"] = "none"

\* The part of the type invariant that this needs.
ShapesOK ==
    /\ query \in Services \cup {"waiting", "store"}
    /\ service \in [Services -> {"up", "wrong", "down"}]
    /\ seen \in [Services -> SUBSET {"up", "wrong", "down"}]
    /\ \A s \in Services : service[s] \in seen[s]
    /\ found \in [Services -> {"none", "Online", "Offline"}]
    /\ sleeping => query \in JsonRpc

\* The inductive invariant.
PollInv == ShapesOK /\ FoundSound /\ FoundInOrder

\* The initial states satisfy it.
LEMMA PollInit == Init => PollInv
  BY DEF Init, PollInv, ShapesOK, FoundSound, FoundInOrder, NothingFound, Services, JsonRpc

\* So does a poll that has found one more result that is true of its service.
LEMMA ConcludeSound ==
  ASSUME PollInv, query \in Services, NEW result \in {"Online", "Offline"}, Conclude(result),
         result = OnlineWhenUp(service[query])
  PROVE  PollInv'
<1> USE DEF PollInv
<1>1. /\ found' = [found EXCEPT ![query] = result] /\ query' = NextQuery(query)
      /\ sleeping' = FALSE /\ UNCHANGED <<service, seen>>
  BY DEF Conclude, Begin
<1>2. ShapesOK'
  BY <1>1 DEF ShapesOK, NextQuery, Services, JsonRpc
<1>3. FoundSound'
  BY <1>1 DEF FoundSound, ShapesOK, OnlineWhenUp
<1>4. FoundInOrder'
  <2>1. \A s \in Services : found'[s] = IF s = query THEN result ELSE found[s]
    BY <1>1 DEF ShapesOK
  <2>2. \A s \in Services : s = "sequencer" \/ s = "rpc_endpoint" \/ s = "bundler_endpoint"
    BY DEF Services, JsonRpc
  <2>3. /\ "sequencer" \in Services /\ "rpc_endpoint" \in Services
        /\ "bundler_endpoint" \in Services
    BY DEF Services, JsonRpc
  <2>4. CASE query = "sequencer"
    <3>1. query' = "rpc_endpoint" /\ \A s \in Services : found[s] = "none"
      BY <1>1, <2>4 DEF FoundInOrder, NothingFound, NextQuery
    <3> QED
      BY <2>1, <2>3, <2>4, <3>1 DEF FoundInOrder
  <2>5. CASE query = "rpc_endpoint"
    <3>1. query' = "bundler_endpoint"
      BY <1>1, <2>5 DEF NextQuery
    <3> QED
      BY <2>1, <2>3, <2>5, <3>1 DEF FoundInOrder
  <2>6. CASE query = "bundler_endpoint"
    <3>1. query' = "store"
      BY <1>1, <2>6 DEF NextQuery
    <3> QED
      BY <2>1, <2>2, <2>3, <2>6, <3>1 DEF FoundInOrder
  <2> QED
    BY <2>2, <2>4, <2>5, <2>6
<1> QED BY <1>2, <1>3, <1>4

\* Every step preserves it.
LEMMA PollStep == PollInv /\ [Next]_vars => PollInv'
<1> SUFFICES ASSUME PollInv, [Next]_vars PROVE PollInv'
  OBVIOUS
<1>1. CASE StartPoll
  <2>1. /\ query' = "sequencer" /\ sleeping' = FALSE /\ found' = NothingFound
        /\ service' = service /\ seen' = [s \in Services |-> {service[s]}]
    BY <1>1 DEF StartPoll, Begin, PollInv, FoundInOrder
  <2> QED
    BY <2>1 DEF PollInv, ShapesOK, FoundSound, FoundInOrder, NothingFound, Services, JsonRpc
<1>2. CASE Answered
  BY <1>2, ConcludeSound DEF Answered, Asking, ResultOf, OnlineWhenUp, Services
<1>3. CASE \E cost \in RequestCosts : RetryLater(cost)
  BY <1>3 DEF RetryLater, Asking, PollInv, ShapesOK, FoundSound, FoundInOrder
<1>4. CASE Sleep
  BY <1>4 DEF Sleep, PollInv, ShapesOK, FoundSound, FoundInOrder
<1>5. CASE GiveUp
  BY <1>5, ConcludeSound DEF GiveUp, Asking, OnlineWhenUp, Services
<1>6. CASE SetStatus
  BY <1>6 DEF SetStatus, Begin, PollInv, ShapesOK, FoundSound, FoundInOrder, NothingFound,
              Services, JsonRpc
<1>7. CASE BundlerReplies
  BY <1>7, ConcludeSound DEF BundlerReplies, OnlineWhenUp, Services
<1>8. ASSUME NEW s \in Services, NEW condition \in Conditions(s), Change(s, condition)
      PROVE  PollInv'
  <2>1. /\ service' = [service EXCEPT ![s] = condition]
        /\ condition \in {"up", "wrong", "down"}
        /\ UNCHANGED <<query, sleeping, found>>
    BY <1>8 DEF Change, taskVars, Conditions
  <2>2. \A r \in Services :
            /\ service'[r] \in seen'[r]
            /\ query # "waiting" => seen[r] \subseteq seen'[r]
    BY <1>8, <2>1 DEF Change, PollInv, ShapesOK
  <2>3. seen' \in [Services -> SUBSET {"up", "wrong", "down"}]
    BY <1>8, <2>1 DEF Change, PollInv, ShapesOK
  <2>4. ShapesOK'
    BY <2>1, <2>2, <2>3 DEF PollInv, ShapesOK
  <2>5. FoundSound'
    <3>1. CASE query = "waiting"
      BY <3>1, <2>1 DEF PollInv, FoundSound, FoundInOrder, NothingFound
    <3>2. CASE query # "waiting"
      <4> SUFFICES ASSUME NEW r \in Services
                   PROVE  /\ found[r] = "Online" => "up" \in seen'[r]
                          /\ found[r] = "Offline" => seen'[r] # {"up"}
        BY <2>1 DEF FoundSound
      <4>1. seen[r] \subseteq seen'[r] /\ seen[r] # {}
        BY <2>2, <3>2 DEF PollInv, ShapesOK
      <4> QED
        BY <4>1 DEF PollInv, FoundSound
    <3> QED BY <3>1, <3>2
  <2>6. FoundInOrder'
    BY <2>1 DEF PollInv, FoundInOrder
  <2> QED BY <2>4, <2>5, <2>6 DEF PollInv
<1>9. CASE UNCHANGED vars
  BY <1>9 DEF vars, taskVars, PollInv, ShapesOK, FoundSound, FoundInOrder
<1> QED
  BY <1>1, <1>2, <1>3, <1>4, <1>5, <1>6, <1>7, <1>8, <1>9 DEF Next, TaskStep

\* What a poll finds out is true of the poll, in every reachable state.
THEOREM PollCorrect == Spec => []PollInv
  BY PollInit, PollStep, PTL DEF Spec

\* A new status says of each service only what was true of it at some moment of the
\* poll, under every retry policy.
THEOREM StatusTrue == Spec => StatusOfThisPoll
<1>1. PollInv /\ [Next]_vars =>
        [query = "store" /\ query' # "store" =>
            \A s \in Services :
                IF status'[s] = "Online" THEN "up" \in seen[s] ELSE seen[s] # {"up"}]_vars
  <2> SUFFICES ASSUME PollInv, Next, query = "store", query' # "store", NEW s \in Services
               PROVE  IF status'[s] = "Online" THEN "up" \in seen[s] ELSE seen[s] # {"up"}
    OBVIOUS
  <2>1. SetStatus
    BY DEF Next, TaskStep, StartPoll, Answered, RetryLater, Sleep, GiveUp, BundlerReplies,
           Change, taskVars, Asking, JsonRpc, PollInv, ShapesOK
  <2>2. status'[s] = found[s] /\ found[s] \in {"Online", "Offline"}
    BY <2>1 DEF SetStatus, NewStatus, PollInv, ShapesOK, FoundInOrder
  <2> QED
    BY <2>2 DEF PollInv, FoundSound
<1> QED
  BY <1>1, PollCorrect, PTL DEF Spec, StatusOfThisPoll

--------------------------------------------------------------------------------
(* Induction over the natural numbers, and recursive functions on them *)

\* A set of natural numbers that is not empty has a least member.
LEMMA LeastNatural ==
    ASSUME NEW T \in SUBSET Nat, T # {}
    PROVE  \E x \in T : \A y \in T : x <= y
  <1>1. PICK x \in T : \A y \in T : <<y, x>> \notin OpToRel(<, Nat)
    BY NatLessThanWellFounded, WFMin
  <1>2. \A y \in T : x \in Nat /\ y \in Nat /\ ~(y < x)
    BY <1>1 DEF OpToRel
  <1>3. \A y \in T : x <= y
    BY <1>2
  <1> QED
    BY <1>3

\* A set that has 0 and, with every number, the next is all of them: induction, with the
\* statement to be proved of n as the set of the n of which it holds.
LEMMA Induction ==
    ASSUME NEW T \in SUBSET Nat, 0 \in T, \A n \in T : n + 1 \in T
    PROVE  T = Nat
  <1> DEFINE U == Nat \ T
  <1> SUFFICES ASSUME U # {} PROVE FALSE
    OBVIOUS
  <1>1. PICK x \in U : \A y \in U : x <= y
    BY LeastNatural
  <1>2. x \in Nat /\ x # 0
    BY <1>1
  <1>3. x - 1 \in Nat /\ x - 1 \notin U
    BY <1>1, <1>2
  <1>4. (x - 1) + 1 \in T
    BY <1>3
  <1> QED
    BY <1>2, <1>4

\* f begins with a and goes on with step g.
Recurs(f, S, a, g) ==
    f \in [Nat -> S] /\ f[0] = a /\ \A n \in Nat : f[n + 1] = g[<<n, f[n]>>]

\* There is such a function: what a recursive definition needs to mean anything.
LEMMA Recursion ==
    ASSUME NEW S, NEW a \in S, NEW g \in [Nat \X S -> S]
    PROVE  \E f : Recurs(f, S, a, g)
  <1> DEFINE Start(n) == {h \in [0 .. n -> S] :
                            h[0] = a /\ \A k \in 0 .. (n - 1) : h[k + 1] = g[<<k, h[k]>>]}
             Agree == {k \in Nat : \A m \in Nat, n \in Nat :
                            k <= m /\ k <= n =>
                                \A h \in Start(m), j \in Start(n) : h[k] = j[k]}
             Exist == {n \in Nat : Start(n) # {}}
             some(n) == CHOOSE h : h \in Start(n)
             f == [n \in Nat |-> some(n)[n]]
  <1>1. Agree = Nat
    <2>1. 0 \in Agree
      OBVIOUS
    <2>2. ASSUME NEW k \in Agree PROVE k + 1 \in Agree
      <3> SUFFICES ASSUME NEW m \in Nat, NEW n \in Nat, k + 1 <= m, k + 1 <= n,
                          NEW h \in Start(m), NEW j \in Start(n)
                   PROVE  h[k + 1] = j[k + 1]
        OBVIOUS
      <3>1. k \in Nat /\ k <= m /\ k <= n /\ k \in 0 .. (m - 1) /\ k \in 0 .. (n - 1)
        OBVIOUS
      <3>2. h[k] = j[k]
        <4> HIDE DEF Start
        <4> QED
          BY <3>1
      <3>3. h[k + 1] = g[<<k, h[k]>>] /\ j[k + 1] = g[<<k, j[k]>>]
        BY <3>1
      <3> QED
        BY <3>2, <3>3
    <2> HIDE DEF Agree
    <2>3. Agree \in SUBSET Nat
      BY DEF Agree
    <2> QED
      BY <2>1, <2>2, <2>3, Induction
  <1>2. Exist = Nat
    <2>1. 0 \in Exist
      <3>1. [k \in 0 .. 0 |-> a] \in Start(0)
        OBVIOUS
      <3> QED
        BY <3>1
    <2>2. ASSUME NEW n \in Exist PROVE n + 1 \in Exist
      <3>1. PICK h : h \in Start(n)
        OBVIOUS
      <3> DEFINE j == [k \in 0 .. (n + 1) |-> IF k = n + 1 THEN g[<<n, h[n]>>] ELSE h[k]]
      <3>2. n \in Nat /\ h \in [0 .. n -> S] /\ h[n] \in S /\ h[0] = a
        BY <3>1
      <3>3. \A k \in 0 .. (n - 1) : h[k + 1] = g[<<k, h[k]>>]
        BY <3>1
      <3>4. g[<<n, h[n]>>] \in S
        BY <3>2
      <3>5. j \in [0 .. (n + 1) -> S] /\ j[0] = a
        BY <3>2, <3>4
      <3>6. ASSUME NEW k \in 0 .. n PROVE j[k + 1] = g[<<k, j[k]>>]
        <4>1. CASE k = n
          <5>1. j[n] = h[n] /\ j[n + 1] = g[<<n, h[n]>>]
            BY <3>2
          <5> QED
            BY <4>1, <5>1
        <4>2. CASE k # n
          <5>1. k \in 0 .. (n - 1) /\ k + 1 \in 0 .. n /\ k + 1 # n + 1 /\ k # n + 1
            BY <3>2, <4>2
          <5> QED
            BY <3>2, <3>3, <5>1
        <4> QED
          BY <4>1, <4>2
      <3>7. j \in Start(n + 1)
        <4>1. (n + 1) - 1 = n
          BY <3>2
        <4> HIDE DEF j
        <4> QED
          BY <3>5, <3>6, <4>1
      <3> HIDE DEF j, Start
      <3> QED
        BY <3>2, <3>7
    <2> HIDE DEF Exist
    <2>3. Exist \in SUBSET Nat
      BY DEF Exist
    <2> QED
      BY <2>1, <2>2, <2>3, Induction
  <1>3. \A n \in Nat : some(n) \in Start(n)
    <2> HIDE DEF Start
    <2>1. \A n \in Nat : \E h : h \in Start(n)
      BY <1>2
    <2> QED
      BY <2>1
  <1> HIDE DEF some
  <1>4. \A n \in Nat : some(n)[0] = a /\ some(n)[n] \in S
    BY <1>3
  <1>5. ASSUME NEW n \in Nat PROVE some(n + 1)[n + 1] = g[<<n, some(n)[n]>>]
    <2>1. /\ n \in 0 .. ((n + 1) - 1)
          /\ n + 1 \in Nat /\ n <= n /\ n <= n + 1
      OBVIOUS
    <2>2. some(n) \in Start(n) /\ some(n + 1) \in Start(n + 1)
      BY <1>3, <2>1
    <2>3. some(n + 1)[n + 1] = g[<<n, some(n + 1)[n]>>]
      BY <2>1, <2>2
    <2>4. some(n + 1)[n] = some(n)[n]
      <3> HIDE DEF Start
      <3>1. n \in Agree
        BY <1>1
      <3> QED
        BY <2>1, <2>2, <3>1
    <2> QED
      BY <2>3, <2>4
  <1>6. f \in [Nat -> S] /\ f[0] = a
    BY <1>4
  <1>7. \A n \in Nat : f[n + 1] = g[<<n, f[n]>>]
    BY <1>5
  <1> HIDE DEF f
  <1>8. Recurs(f, S, a, g)
    BY <1>6, <1>7 DEF Recurs
  <1> QED
    BY <1>8


--------------------------------------------------------------------------------
(* The delays of a retry policy *)

\* The powers of a number.
LEMMA Powers ==
    ASSUME NEW b \in Nat
    PROVE  /\ Pow(b) \in [Nat -> Nat]
           /\ Pow(b)[0] = 1
           /\ \A k \in Nat : Pow(b)[k + 1] = b * Pow(b)[k]
  <1> DEFINE g == [x \in Nat \X Nat |-> b * x[2]]
             p == Pow(b)
  <1>1. g \in [Nat \X Nat -> Nat]
    OBVIOUS
  <1>2. PICK f : Recurs(f, Nat, 1, g)
    <2> HIDE DEF g
    <2> QED
      BY <1>1, Recursion
  <1>3. f \in [Nat -> Nat] /\ f[0] = 1 /\ \A n \in Nat : f[n + 1] = b * f[n]
    BY <1>2 DEF Recurs
  <1>4. f = [k \in Nat |-> IF k = 0 THEN 1 ELSE b * f[k - 1]]
    <2>1. \A k \in Nat : f[k] = IF k = 0 THEN 1 ELSE b * f[k - 1]
      <3> SUFFICES ASSUME NEW k \in Nat, k # 0 PROVE f[k] = b * f[k - 1]
        BY <1>3
      <3>1. k - 1 \in Nat /\ (k - 1) + 1 = k
        OBVIOUS
      <3> QED
        BY <1>3, <3>1
    <2> QED
      BY <2>1, <1>3
  <1>5. p = [k \in Nat |-> IF k = 0 THEN 1 ELSE b * p[k - 1]]
    <2>1. \E q : q = [k \in Nat |-> IF k = 0 THEN 1 ELSE b * q[k - 1]]
      BY <1>4
    <2> QED
      BY <2>1, Zenon DEF Pow
  <1> HIDE DEF p
  <1>6. p[0] = 1 /\ \A k \in Nat : p[k + 1] = b * p[k]
    <2>1. \A k \in Nat : k + 1 \in Nat /\ k + 1 # 0 /\ (k + 1) - 1 = k
      OBVIOUS
    <2>2. \A k \in Nat : p[k] = IF k = 0 THEN 1 ELSE b * p[k - 1]
      BY <1>5
    <2> QED
      BY <2>1, <2>2
  <1>7. \A k \in Nat : p[k] \in Nat
    <2> DEFINE T == {k \in Nat : p[k] \in Nat}
    <2>1. 0 \in T /\ \A k \in T : k + 1 \in T
      BY <1>6
    <2>2. T = Nat
      <3> HIDE DEF T
      <3>1. T \in SUBSET Nat
        BY DEF T
      <3> QED
        BY <2>1, <3>1, Induction
    <2> QED
      BY <2>2
  <1>8. p \in [Nat -> Nat]
    BY <1>5, <1>7
  <1> QED
    BY <1>6, <1>8 DEF p

\* 3^k is more than 2^k, from k = 1 on.
LEMMA ThreeMoreThanTwo ==
    ASSUME NEW k \in Nat, k # 0
    PROVE  Pow(2)[k] > 0 /\ Pow(3)[k] > Pow(2)[k]
  <1> DEFINE T == {n \in Nat : Pow(2)[n + 1] > 0 /\ Pow(3)[n + 1] > Pow(2)[n + 1]}
             two == Pow(2)
             three == Pow(3)
  <1>1. /\ two \in [Nat -> Nat] /\ two[0] = 1 /\ \A n \in Nat : two[n + 1] = 2 * two[n]
        /\ three \in [Nat -> Nat] /\ three[0] = 1 /\ \A n \in Nat : three[n + 1] = 3 * three[n]
    <2>1. 2 \in Nat /\ 3 \in Nat
      OBVIOUS
    <2> QED
      BY <2>1, Powers
  <1> HIDE DEF two, three
  <1>2. 0 \in T
    <2>1. two[0 + 1] = 2 /\ three[0 + 1] = 3
      BY <1>1
    <2> QED
      BY <2>1 DEF two, three
  <1>3. ASSUME NEW n \in T PROVE n + 1 \in T
    <2>1. n \in Nat /\ two[n + 1] > 0 /\ three[n + 1] > two[n + 1]
      BY DEF two, three
    <2>2. two[(n + 1) + 1] = 2 * two[n + 1] /\ three[(n + 1) + 1] = 3 * three[n + 1]
      BY <1>1, <2>1
    <2>3. two[n + 1] \in Nat /\ three[n + 1] \in Nat
      BY <1>1, <2>1
    <2>4. two[(n + 1) + 1] > 0 /\ three[(n + 1) + 1] > two[(n + 1) + 1]
      BY <2>1, <2>2, <2>3
    <2> QED
      BY <2>1, <2>4 DEF two, three
  <1>4. T = Nat
    <2>1. T \in SUBSET Nat
      OBVIOUS
    <2> HIDE DEF T
    <2> QED
      BY <1>2, <1>3, <2>1, Induction
  <1>5. k - 1 \in T /\ (k - 1) + 1 = k
    <2> HIDE DEF T
    <2> QED
      BY <1>4
  <1> QED
    BY <1>5

\* What rounding to whole seconds does to a / b.
LEMMA Rounding ==
    ASSUME NEW a \in Nat, NEW b \in Nat, b # 0
    PROVE  /\ RoundDiv(a, b) \in Nat
           /\ 2 * (RoundDiv(a, b) * b) <= 2 * a + b
           /\ 2 * (RoundDiv(a, b) * b) > 2 * a - b
  <1> DEFINE r == RoundDiv(a, b)
             x == 2 * a + b
             y == 2 * b
  <1>1. x \in Nat /\ y \in Nat /\ y > 0
    OBVIOUS
  <1>2. r = x \div y
    BY DEF RoundDiv
  <1> HIDE DEF x, y, r
  <1>3. r \in Int /\ y * r <= x /\ x < y * (r + 1)
    BY <1>1, <1>2
  <1>4. r >= 0
    <2> SUFFICES ASSUME r <= -1 PROVE FALSE
      BY <1>3
    <2>1. r + 1 <= 0
      BY <1>3
    <2>2. y * (r + 1) <= 0
      BY <1>1, <1>3, <2>1
    <2> QED
      BY <1>1, <1>3, <2>2
  <1>5. y * r = 2 * (r * b) /\ y * (r + 1) = 2 * (r * b) + 2 * b
    BY <1>3 DEF y
  <1> DEFINE p == r * b
  <1>6. p \in Int
    BY <1>3
  <1> HIDE DEF p
  <1>7. 2 * p <= x /\ x < 2 * p + 2 * b
    BY <1>3, <1>5 DEF p
  <1>8. 2 * p <= 2 * a + b /\ 2 * p > 2 * a - b
    BY <1>6, <1>7 DEF x
  <1> QED
    BY <1>3, <1>4, <1>8 DEF p, r

\* Below a half it is dropped, below three halves at most 1 is left, and from two thirds
\* on at most a half is added to it.
LEMMA RoundingUp ==
    ASSUME NEW a \in Nat, NEW b \in Nat, b # 0
    PROVE  /\ 2 * a < b => RoundDiv(a, b) = 0
           /\ 2 * a < 3 * b => RoundDiv(a, b) <= 1
           /\ 3 * a >= 2 * b => 2 * (RoundDiv(a, b) * b) <= 3 * a
  <1> DEFINE r == RoundDiv(a, b)
  <1>1. r \in Nat /\ 2 * (r * b) <= 2 * a + b
    BY Rounding
  <1> HIDE DEF r
  <1>2. ASSUME NEW m \in Nat, r >= m PROVE r * b >= m * b
    BY <1>1, <1>2
  <1>3. 2 * a < b => r = 0
    <2> SUFFICES ASSUME 2 * a < b, r >= 1 PROVE FALSE
      BY <1>1
    <2>1. r * b >= b
      BY <1>2
    <2> DEFINE p == r * b
    <2>2. p \in Nat /\ p >= b /\ 2 * p <= 2 * a + b
      BY <1>1, <2>1
    <2> HIDE DEF p
    <2> QED
      BY <2>2
  <1>4. 2 * a < 3 * b => r <= 1
    <2> SUFFICES ASSUME 2 * a < 3 * b, r >= 2 PROVE FALSE
      BY <1>1
    <2>1. r * b >= 2 * b
      BY <1>2
    <2> DEFINE p == r * b
    <2>2. p \in Nat /\ p >= 2 * b /\ 2 * p <= 2 * a + b
      BY <1>1, <2>1
    <2> HIDE DEF p
    <2> QED
      BY <2>2
  <1>5. 3 * a >= 2 * b => 2 * (r * b) <= 3 * a
    <2> SUFFICES ASSUME 3 * a >= 2 * b PROVE 2 * (r * b) <= 3 * a
      OBVIOUS
    <2>1. CASE a >= b
      <3> DEFINE p == r * b
      <3>1. p \in Nat /\ 2 * p <= 2 * a + b
        BY <1>1
      <3> HIDE DEF p
      <3>2. 2 * p <= 3 * a
        BY <2>1, <3>1
      <3> QED
        BY <3>2 DEF p
    <2>2. CASE a < b
      <3>1. r <= 1
        BY <1>4, <2>2
      <3>2. r = 0 \/ r = 1
        BY <1>1, <3>1
      <3>3. r * b = 0 \/ r * b = b
        BY <3>2
      <3> QED
        BY <3>3
    <2> QED
      BY <2>1, <2>2
  <1> QED
    BY <1>3, <1>4, <1>5 DEF r

\* The fractions: delay k of a policy is Share(n, t, k) / Whole(n) before it is rounded,
\* and the first k of them add up to Upto(n, t, k) / Whole(n).
Whole(n) == Pow(3)[n] - Pow(2)[n]
Share(n, t, k) == t * Pow(2)[n - k] * Pow(3)[k - 1]
Upto(n, t, k) == t * Pow(2)[n - k] * (Pow(3)[k] - Pow(2)[k])

\* Every delay is one and a half times the one before it, and the sums go up by them.
LEMMA Fractions ==
    ASSUME NEW n \in Nat, NEW t \in Nat
    PROVE  /\ n # 0 => Whole(n) \in Nat /\ Whole(n) # 0
           /\ Upto(n, t, 0) = 0
           /\ n # 0 => Upto(n, t, n) = t * Whole(n)
           /\ \A k \in 1 .. n : Share(n, t, k) \in Nat
           /\ \A k \in 0 .. n : Upto(n, t, k) \in Nat
           /\ \A k \in 1 .. (n - 1) : 2 * Share(n, t, k + 1) = 3 * Share(n, t, k)
           /\ \A k \in 0 .. (n - 1) : Upto(n, t, k + 1) = Upto(n, t, k) + Share(n, t, k + 1)
  <1> DEFINE two == Pow(2)
             three == Pow(3)
  <1>1. /\ two \in [Nat -> Nat] /\ two[0] = 1 /\ \A i \in Nat : two[i + 1] = 2 * two[i]
        /\ three \in [Nat -> Nat] /\ three[0] = 1 /\ \A i \in Nat : three[i + 1] = 3 * three[i]
    <2>1. 2 \in Nat /\ 3 \in Nat
      OBVIOUS
    <2> QED
      BY <2>1, Powers
  <1>2. \A k \in Nat : three[k] - two[k] \in Nat /\ (k # 0 => three[k] - two[k] # 0)
    <2> SUFFICES ASSUME NEW k \in Nat
                 PROVE  three[k] - two[k] \in Nat /\ (k # 0 => three[k] - two[k] # 0)
      OBVIOUS
    <2>0. two[k] \in Nat /\ three[k] \in Nat
      BY <1>1
    <2>1. CASE k = 0
      BY <1>1, <2>1
    <2>2. CASE k # 0
      <3>1. three[k] > two[k]
        BY <2>2, ThreeMoreThanTwo
      <3> HIDE DEF two, three
      <3> QED
        BY <2>0, <3>1
    <2> QED
      BY <2>1, <2>2
  <1> HIDE DEF two, three
  <1>3. \A k \in 0 .. n : n - k \in Nat /\ k \in Nat /\ two[n - k] \in Nat
    BY <1>1
  <1>4. n # 0 => Whole(n) \in Nat /\ Whole(n) # 0
    BY <1>2 DEF Whole, two, three
  <1>5. Upto(n, t, 0) = 0
    <2>1. three[0] - two[0] = 0
      BY <1>1
    <2>2. n - 0 = n /\ two[n] \in Nat
      BY <1>1
    <2>3. t * two[n - 0] * (three[0] - two[0]) = 0
      BY <2>1, <2>2
    <2> QED
      BY <2>3 DEF Upto, two, three
  <1>6. Upto(n, t, n) = t * Whole(n)
    <2>1. n - n = 0 /\ t * two[n - n] = t
      BY <1>1
    <2> QED
      BY <2>1 DEF Upto, Whole, two, three
  <1>7. ASSUME NEW k \in 1 .. n PROVE Share(n, t, k) \in Nat
    <2>1. two[n - k] \in Nat /\ three[k - 1] \in Nat
      BY <1>1
    <2>2. t * two[n - k] * three[k - 1] \in Nat
      BY <2>1
    <2> QED
      BY <2>2 DEF Share, two, three
  <1>8. ASSUME NEW k \in 0 .. n PROVE Upto(n, t, k) \in Nat
    <2>1. two[n - k] \in Nat /\ three[k] - two[k] \in Nat
      BY <1>2, <1>3
    <2>2. t * two[n - k] * (three[k] - two[k]) \in Nat
      BY <2>1
    <2> QED
      BY <2>2 DEF Upto, two, three
  <1>9. ASSUME NEW k \in 1 .. (n - 1) PROVE 2 * Share(n, t, k + 1) = 3 * Share(n, t, k)
    <2> DEFINE x == two[n - (k + 1)]
               y == three[k - 1]
    <2>1. n - (k + 1) \in Nat /\ (n - (k + 1)) + 1 = n - k
      OBVIOUS
    <2>2. k - 1 \in Nat /\ (k - 1) + 1 = k /\ (k + 1) - 1 = k
      OBVIOUS
    <2>3. x \in Nat /\ y \in Nat
      BY <1>1, <2>1, <2>2
    <2>4. two[n - k] = 2 * x
      BY <1>1, <2>1
    <2>5. three[(k + 1) - 1] = 3 * y
      BY <1>1, <2>2
    <2>6. Share(n, t, k + 1) = t * x * (3 * y)
      BY <2>5 DEF Share, two, three
    <2>7. Share(n, t, k) = t * (2 * x) * y
      BY <2>4 DEF Share, two, three
    <2> HIDE DEF x, y
    <2>8. 2 * (t * x * (3 * y)) = 3 * (t * (2 * x) * y)
      BY <2>3
    <2> QED
      BY <2>6, <2>7, <2>8
  <1>10. ASSUME NEW k \in 0 .. (n - 1)
         PROVE  Upto(n, t, k + 1) = Upto(n, t, k) + Share(n, t, k + 1)
    <2> DEFINE x == two[n - (k + 1)]
               y == three[k]
               z == two[k]
    <2>1. n - (k + 1) \in Nat /\ (n - (k + 1)) + 1 = n - k /\ k \in Nat /\ (k + 1) - 1 = k
      OBVIOUS
    <2>2. x \in Nat /\ y \in Nat /\ z \in Nat
      BY <1>1, <2>1
    <2>3. two[n - k] = 2 * x
      BY <1>1, <2>1
    <2>4. three[k + 1] = 3 * y /\ two[k + 1] = 2 * z
      BY <1>1, <2>1
    <2>5. Upto(n, t, k + 1) = t * x * (3 * y - 2 * z)
      BY <2>4 DEF Upto, two, three
    <2>6. Upto(n, t, k) = t * (2 * x) * (y - z)
      BY <2>3 DEF Upto, two, three
    <2>7. Share(n, t, k + 1) = t * x * y
      BY <2>1 DEF Share, two, three
    <2> HIDE DEF x, y, z
    <2>8. t * x * (3 * y - 2 * z) = t * (2 * x) * (y - z) + t * x * y
      BY <2>2
    <2> QED
      BY <2>5, <2>6, <2>7, <2>8
  <1> QED
    BY <1>4, <1>5, <1>6, <1>7, <1>8, <1>9, <1>10

\* A delay is a number of seconds.
LEMMA DelayType ==
    ASSUME NEW n \in Nat, NEW t \in Nat, NEW k \in 0 .. n
    PROVE  /\ GetDelay(n, t, k) \in Nat
           /\ k # 0 => GetDelay(n, t, k) = RoundDiv(Share(n, t, k), Whole(n))
  <1>1. CASE k = 0
    BY <1>1 DEF GetDelay
  <1>2. CASE k # 0
    <2>1. n # 0 /\ k \in 1 .. n
      BY <1>2
    <2>2. Share(n, t, k) \in Nat /\ Whole(n) \in Nat /\ Whole(n) # 0
      BY <2>1, Fractions
    <2>3. RoundDiv(Share(n, t, k), Whole(n)) \in Nat
      BY <2>2, Rounding
    <2>4. GetDelay(n, t, k) = RoundDiv(Share(n, t, k), Whole(n))
      BY <1>2 DEF GetDelay, Share, Whole
    <2> QED
      BY <2>3, <2>4
  <1> QED
    BY <1>1, <1>2

\* DelaysBefore adds the delays up.
LEMMA Sums ==
    ASSUME NEW n \in Nat, NEW t \in Nat
    PROVE  /\ DelaysBefore(n, t) \in [0 .. (n + 1) -> Nat]
           /\ DelaysBefore(n, t)[0] = 0
           /\ \A k \in 0 .. n :
                DelaysBefore(n, t)[k + 1] = DelaysBefore(n, t)[k] + GetDelay(n, t, k)
  <1> DEFINE delay(k) == GetDelay(n, t, k)
             g == [x \in Nat \X Nat |-> IF x[1] \in 0 .. n THEN x[2] + delay(x[1]) ELSE x[2]]
             s == DelaysBefore(n, t)
  <1>d. \A k \in 0 .. n : delay(k) \in Nat
    BY DelayType
  <1> HIDE DEF delay
  <1>1. g \in [Nat \X Nat -> Nat]
    BY <1>d
  <1>2. PICK f : Recurs(f, Nat, 0, g)
    <2>1. 0 \in Nat
      OBVIOUS
    <2> HIDE DEF g
    <2> QED
      BY <1>1, <2>1, Recursion
  <1>3. f \in [Nat -> Nat] /\ f[0] = 0 /\ \A k \in 0 .. n : f[k + 1] = f[k] + delay(k)
    <2>1. /\ f \in [Nat -> Nat] /\ f[0] = 0
          /\ \A k \in Nat : f[k + 1] = g[<<k, f[k]>>]
      BY <1>2 DEF Recurs
    <2>2. ASSUME NEW k \in 0 .. n PROVE f[k + 1] = f[k] + delay(k)
      <3>1. k \in Nat /\ f[k] \in Nat
        BY <2>1
      <3>2. g[<<k, f[k]>>] = f[k] + delay(k)
        BY <3>1
      <3> HIDE DEF g
      <3> QED
        BY <2>1, <3>1, <3>2
    <2> QED
      BY <2>1, <2>2
  <1> DEFINE w == [k \in 0 .. (n + 1) |-> f[k]]
  <1>4. w = [k \in 0 .. (n + 1) |-> IF k = 0 THEN 0 ELSE w[k - 1] + delay(k - 1)]
    <2>1. ASSUME NEW k \in 0 .. (n + 1), k # 0 PROVE w[k] = w[k - 1] + delay(k - 1)
      <3>1. k - 1 \in 0 .. n /\ k - 1 \in 0 .. (n + 1) /\ (k - 1) + 1 = k
        BY <2>1
      <3>2. f[k] = f[k - 1] + delay(k - 1)
        BY <1>3, <3>1
      <3> QED
        BY <3>1, <3>2
    <2>2. w[0] = 0
      BY <1>3
    <2> HIDE DEF w
    <2>3. \A k \in 0 .. (n + 1) : w[k] = IF k = 0 THEN 0 ELSE w[k - 1] + delay(k - 1)
      BY <2>1, <2>2
    <2>4. w = [k \in 0 .. (n + 1) |-> w[k]]
      BY DEF w
    <2> QED
      BY <2>3, <2>4
  <1>5. s = [k \in 0 .. (n + 1) |-> IF k = 0 THEN 0 ELSE s[k - 1] + delay(k - 1)]
    <2> HIDE DEF w
    <2>1. \E q : q = [k \in 0 .. (n + 1) |-> IF k = 0 THEN 0 ELSE q[k - 1] + delay(k - 1)]
      BY <1>4
    <2> QED
      BY <2>1, Zenon DEF DelaysBefore, delay
  <1> HIDE DEF s
  <1>6. s[0] = 0 /\ \A k \in 0 .. n : s[k + 1] = s[k] + delay(k)
    <2>1. 0 \in 0 .. (n + 1)
      OBVIOUS
    <2>2. \A k \in 0 .. n : k + 1 \in 0 .. (n + 1) /\ k + 1 # 0 /\ (k + 1) - 1 = k
      OBVIOUS
    <2>3. \A k \in 0 .. (n + 1) : s[k] = IF k = 0 THEN 0 ELSE s[k - 1] + delay(k - 1)
      BY <1>5
    <2> QED
      BY <2>1, <2>2, <2>3
  <1>7. \A k \in 0 .. (n + 1) : s[k] \in Nat
    <2> DEFINE T == {k \in Nat : k <= n + 1 => s[k] \in Nat}
    <2>1. 0 \in T
      BY <1>6
    <2>2. ASSUME NEW k \in T PROVE k + 1 \in T
      <3> SUFFICES ASSUME k + 1 <= n + 1 PROVE s[k + 1] \in Nat
        OBVIOUS
      <3>1. k \in 0 .. n /\ s[k] \in Nat
        OBVIOUS
      <3> QED
        BY <1>6, <1>d, <3>1
    <2>3. T = Nat
      <3>1. T \in SUBSET Nat
        OBVIOUS
      <3> HIDE DEF T
      <3> QED
        BY <2>1, <2>2, <3>1, Induction
    <2> QED
      BY <2>3
  <1>8. s \in [0 .. (n + 1) -> Nat]
    BY <1>5, <1>7
  <1> QED
    BY <1>6, <1>8 DEF s, delay

\* A rounded delay never takes more than is left: the first k delays are at most the
\* unrounded ones up to the next, which is larger by half.  Where the unrounded delay is
\* below a half, nothing has been waited for yet.
LEMMA DelaysFit ==
    ASSUME NEW n \in Nat \ {0}, NEW t \in Nat, NEW k \in 0 .. (n - 1)
    PROVE  /\ DelaysBefore(n, t)[k + 1] * Whole(n) <= Upto(n, t, k + 1)
           /\ k # 0 /\ 2 * Share(n, t, k) < Whole(n) => DelaysBefore(n, t)[k + 1] = 0
           /\ k = 0 => DelaysBefore(n, t)[k + 1] = 0
  <1> DEFINE s == DelaysBefore(n, t)
             b == Whole(n)
             share(i) == Share(n, t, i)
             upto(i) == Upto(n, t, i)
             Fits(i) == /\ s[i + 1] * b <= upto(i + 1)
                        /\ i # 0 /\ 2 * share(i) < b => s[i + 1] = 0
                        /\ i = 0 => s[i + 1] = 0
             T == {i \in Nat : i <= n - 1 => Fits(i)}
  <1>s. /\ s \in [0 .. (n + 1) -> Nat] /\ s[0] = 0
        /\ \A i \in 0 .. n : s[i + 1] = s[i] + GetDelay(n, t, i)
    BY Sums
  <1>f. /\ b \in Nat /\ b # 0
        /\ \A i \in 1 .. n : share(i) \in Nat
        /\ \A i \in 0 .. n : upto(i) \in Nat
        /\ \A i \in 1 .. (n - 1) : 2 * share(i + 1) = 3 * share(i)
        /\ \A i \in 0 .. (n - 1) : upto(i + 1) = upto(i) + share(i + 1)
    BY Fractions
  <1>d. \A i \in 1 .. n : GetDelay(n, t, i) = RoundDiv(share(i), b)
    BY DelayType
  <1> HIDE DEF s, b, share, upto
  <1>1. 0 \in T
    <2>1. s[0 + 1] = 0
      BY <1>s DEF GetDelay
    <2>2. upto(0 + 1) \in Nat
      BY <1>f
    <2> QED
      BY <1>f, <2>1, <2>2
  <1>2. ASSUME NEW i \in T PROVE i + 1 \in T
    <2> SUFFICES ASSUME i + 1 <= n - 1 PROVE Fits(i + 1)
      OBVIOUS
    <2>1. /\ i \in Nat /\ i \in 0 .. (n - 1) /\ i + 1 \in 1 .. (n - 1) /\ i + 1 \in 0 .. (n - 1)
          /\ i + 1 \in 1 .. n /\ i + 1 \in 0 .. n /\ i + 2 \in 1 .. n /\ (i + 1) + 1 = i + 2
          /\ i + 1 # 0 /\ i + 2 \in 0 .. n /\ i \in 0 .. n
      OBVIOUS
    <2>2. Fits(i)
      BY <2>1
    <2> DEFINE a == share(i + 1)
               r == RoundDiv(a, b)
               c == share(i + 2)
               before == s[i + 1]
    <2>3. a \in Nat /\ c \in Nat /\ before \in Nat /\ 2 * c = 3 * a
      BY <1>s, <1>f, <2>1
    <2>4. s[i + 2] = before + r
      BY <1>s, <1>d, <2>1
    <2>5. upto(i + 2) = upto(i + 1) + c /\ upto(i + 1) = upto(i) + a
          /\ upto(i) \in Nat /\ upto(i + 1) \in Nat
      BY <1>f, <2>1
    <2>6. before * b <= upto(i + 1)
      BY <2>2
    <2>7. 2 * a < b => before = 0
      <3>1. CASE i = 0
        BY <2>2, <3>1
      <3>2. CASE i # 0
        <4>1. i \in 1 .. (n - 1) /\ i \in 1 .. n
          BY <2>1, <3>2
        <4>2. 2 * a = 3 * share(i) /\ share(i) \in Nat
          BY <1>f, <4>1
        <4>3. 2 * a < b => 2 * share(i) < b
          BY <1>f, <2>3, <4>2
        <4> QED
          BY <2>2, <3>2, <4>3
      <3> QED
        BY <3>1, <3>2
    <2>8. 3 * a < 2 * b => before = 0
      <3>1. CASE i = 0
        BY <2>2, <3>1
      <3>2. CASE i # 0
        <4>1. i \in 1 .. (n - 1) /\ i \in 1 .. n
          BY <2>1, <3>2
        <4>2. 2 * a = 3 * share(i) /\ share(i) \in Nat
          BY <1>f, <4>1
        <4>3. 3 * a < 2 * b => 2 * share(i) < b
          BY <1>f, <2>3, <4>2
        <4> QED
          BY <2>2, <3>2, <4>3
      <3> QED
        BY <3>1, <3>2
    <2>9. /\ r \in Nat
          /\ 2 * a < b => r = 0
          /\ 2 * a < 3 * b => r <= 1
          /\ 3 * a >= 2 * b => 2 * (r * b) <= 3 * a
      BY <1>f, <2>3, Rounding, RoundingUp
    <2> HIDE DEF a, r, c, before
    <2>10. 2 * a < b => before + r = 0
      BY <2>7, <2>9
    <2>11. (before + r) * b <= upto(i + 2)
      <3>1. (before + r) * b = before * b + r * b
        BY <1>f, <2>3, <2>9
      <3> DEFINE p == before * b
                 q == r * b
      <3>2. p \in Nat /\ q \in Nat
        BY <1>f, <2>3, <2>9
      <3>3. p <= upto(i + 1)
        BY <2>6
      <3>4. CASE 3 * a >= 2 * b
        <4>1. 2 * q <= 3 * a
          BY <2>9, <3>4
        <4> HIDE DEF p, q
        <4>2. p + q <= upto(i + 1) + c
          BY <2>3, <2>5, <3>2, <3>3, <4>1
        <4> QED
          BY <2>5, <3>1, <4>2 DEF p, q
      <3>5. CASE 3 * a < 2 * b /\ 2 * a >= b
        <4>1. p = 0
          BY <1>f, <2>8, <3>5
        <4>2. r <= 1
          BY <1>f, <2>3, <2>9, <3>5
        <4>3. q <= b
          <5>1. r = 0 \/ r = 1
            BY <2>9, <4>2
          <5> QED
            BY <1>f, <5>1
        <4> HIDE DEF p, q
        <4>4. p + q <= upto(i + 1) + c
          BY <1>f, <2>3, <2>5, <3>2, <3>5, <4>1, <4>3
        <4> QED
          BY <2>5, <3>1, <4>4 DEF p, q
      <3>6. CASE 2 * a < b
        <4>1. p = 0 /\ q = 0
          BY <1>f, <2>7, <2>9, <3>6
        <4> HIDE DEF p, q
        <4>2. p + q <= upto(i + 1) + c
          BY <2>3, <2>5, <4>1
        <4> QED
          BY <2>5, <3>1, <4>2 DEF p, q
      <3> QED
        BY <1>f, <2>3, <3>4, <3>5, <3>6
    <2> QED
      BY <2>1, <2>4, <2>10, <2>11 DEF a
  <1>3. T = Nat
    <2>1. T \in SUBSET Nat
      OBVIOUS
    <2> HIDE DEF T
    <2> QED
      BY <1>1, <1>2, <2>1, Induction
  <1>4. Fits(k)
    <2>1. k \in Nat /\ k <= n - 1
      OBVIOUS
    <2>2. k \in T
      BY <1>3, <2>1
    <2> QED
      BY <2>1, <2>2
  <1> QED
    BY <1>4 DEF s, b, share, upto

\* The delays of a policy before its last one are never longer than its total.
LEMMA DelaysWithin ==
    ASSUME NEW n \in Nat \ {0}, NEW t \in Nat, NEW k \in 0 .. n
    PROVE  DelaysBefore(n, t)[k] <= t
  <1> DEFINE s == DelaysBefore(n, t)
             b == Whole(n)
             upto(i) == Upto(n, t, i)
             T == {i \in Nat : i <= n => upto(n - i) <= upto(n)}
  <1>s. s \in [0 .. (n + 1) -> Nat] /\ s[0] = 0
    BY Sums
  <1>f. /\ b \in Nat /\ b # 0 /\ upto(n) = t * b
        /\ \A i \in 0 .. n : upto(i) \in Nat
        /\ \A i \in 0 .. (n - 1) : upto(i) <= upto(i + 1)
    <2>1. ASSUME NEW i \in 0 .. (n - 1) PROVE upto(i) <= upto(i + 1)
      <3>1. i \in 0 .. n /\ i + 1 \in 1 .. n
        OBVIOUS
      <3>2. Upto(n, t, i) \in Nat /\ Share(n, t, i + 1) \in Nat
        BY <3>1, Fractions
      <3>3. Upto(n, t, i + 1) = Upto(n, t, i) + Share(n, t, i + 1)
        BY Fractions
      <3> QED
        BY <3>2, <3>3
    <2> QED
      BY <2>1, Fractions
  <1> HIDE DEF s, b, upto
  <1>1. T = Nat
    <2>1. T \in SUBSET Nat
      OBVIOUS
    <2>2. 0 \in T
      <3>1. n - 0 = n /\ upto(n) \in Nat
        BY <1>f
      <3> QED
        BY <3>1
    <2>3. ASSUME NEW i \in T PROVE i + 1 \in T
      <3> SUFFICES ASSUME i + 1 <= n PROVE upto(n - (i + 1)) <= upto(n)
        OBVIOUS
      <3>1. /\ n - (i + 1) \in 0 .. (n - 1) /\ n - (i + 1) \in 0 .. n /\ n - i \in 0 .. n
            /\ (n - (i + 1)) + 1 = n - i /\ n \in 0 .. n
        OBVIOUS
      <3>2. upto(n - i) <= upto(n)
        OBVIOUS
      <3>3. upto(n - (i + 1)) <= upto(n - i)
        BY <1>f, <3>1
      <3> QED
        BY <1>f, <3>1, <3>2, <3>3
    <2> HIDE DEF T
    <2> QED
      BY <2>1, <2>2, <2>3, Induction
  <1>2. CASE k = 0
    BY <1>s, <1>2 DEF s
  <1>3. CASE k # 0
    <2>1. k - 1 \in 0 .. (n - 1) /\ (k - 1) + 1 = k /\ k \in 0 .. (n + 1)
      BY <1>3
    <2>2. s[k] * b <= upto(k)
      BY <2>1, DelaysFit DEF s, b, upto
    <2>3. upto(k) <= upto(n)
      <3>1. n - k \in Nat /\ n - k <= n /\ n - (n - k) = k
        OBVIOUS
      <3>2. n - k \in T
        BY <1>1, <3>1
      <3> QED
        BY <3>1, <3>2
    <2>4. s[k] \in Nat /\ upto(k) \in Nat
      BY <1>s, <1>f, <2>1
    <2> DEFINE x == s[k]
    <2>5. x * b <= t * b /\ x \in Nat
      BY <1>f, <2>2, <2>3, <2>4
    <2> HIDE DEF x
    <2>6. x <= t
      <3> SUFFICES ASSUME x >= t + 1 PROVE FALSE
        BY <2>5
      <3>1. x * b >= (t + 1) * b /\ (t + 1) * b = t * b + b
        BY <1>f, <2>5
      <3> DEFINE p == t * b
                 q == x * b
      <3>2. p \in Nat /\ q \in Nat /\ q >= p + b /\ q <= p
        BY <1>f, <2>5, <3>1
      <3> HIDE DEF p, q
      <3> QED
        BY <1>f, <3>2
    <2> QED
      BY <2>6 DEF x, s
  <1> QED
    BY <1>2, <1>3

\* Rounding takes at most half a second of each delay.
LEMMA DelaysNearTotal ==
    ASSUME NEW n \in Nat \ {0}, NEW t \in Nat
    PROVE  2 * DelaysBefore(n, t)[n + 1] + n >= 2 * t
  <1> DEFINE s == DelaysBefore(n, t)
             b == Whole(n)
             share(i) == Share(n, t, i)
             upto(i) == Upto(n, t, i)
             Near(i) == 2 * (s[i + 1] * b) + i * b >= 2 * upto(i)
             T == {i \in Nat : i <= n => Near(i)}
  <1>s. /\ s \in [0 .. (n + 1) -> Nat] /\ s[0] = 0
        /\ \A i \in 0 .. n : s[i + 1] = s[i] + GetDelay(n, t, i)
    BY Sums
  <1>f. /\ b \in Nat /\ b # 0 /\ upto(0) = 0 /\ upto(n) = t * b
        /\ \A i \in 1 .. n : share(i) \in Nat
        /\ \A i \in 0 .. n : upto(i) \in Nat
        /\ \A i \in 0 .. (n - 1) : upto(i + 1) = upto(i) + share(i + 1)
    BY Fractions
  <1>d. \A i \in 1 .. n : GetDelay(n, t, i) = RoundDiv(share(i), b)
    BY DelayType
  <1> HIDE DEF s, b, share, upto
  <1>1. 0 \in T
    <2>1. s[0 + 1] \in Nat
      BY <1>s
    <2>2. 2 * (s[0 + 1] * b) + 0 * b \in Nat
      BY <1>f, <2>1
    <2> QED
      BY <1>f, <2>2
  <1>2. ASSUME NEW i \in T PROVE i + 1 \in T
    <2> SUFFICES ASSUME i + 1 <= n PROVE Near(i + 1)
      OBVIOUS
    <2>1. /\ i \in Nat /\ i \in 0 .. (n - 1) /\ i \in 0 .. n /\ i + 1 \in 1 .. n
          /\ i + 1 \in 0 .. n /\ i + 1 \in 0 .. (n + 1)
      OBVIOUS
    <2>2. Near(i)
      BY <2>1
    <2> DEFINE a == share(i + 1)
               r == RoundDiv(a, b)
               before == s[i + 1]
    <2>3. a \in Nat /\ before \in Nat /\ upto(i) \in Nat
      BY <1>s, <1>f, <2>1
    <2>4. s[(i + 1) + 1] = before + r /\ upto(i + 1) = upto(i) + a
      BY <1>s, <1>f, <1>d, <2>1
    <2>5. r \in Nat /\ 2 * (r * b) > 2 * a - b
      BY <1>f, <2>3, Rounding
    <2>6. 2 * (before * b) + i * b >= 2 * upto(i)
      BY <2>2
    <2> HIDE DEF a, r, before
    <2> DEFINE p == before * b
               q == r * b
               m == i * b
    <2>7. p \in Nat /\ q \in Nat /\ m \in Nat
      BY <1>f, <2>1, <2>3, <2>5
    <2>8. (before + r) * b = p + q /\ (i + 1) * b = m + b
      BY <1>f, <2>1, <2>3, <2>5
    <2>9. 2 * q > 2 * a - b /\ 2 * p + m >= 2 * upto(i)
      BY <2>5, <2>6
    <2> HIDE DEF p, q, m
    <2>10. 2 * (p + q) + (m + b) >= 2 * (upto(i) + a)
      BY <1>f, <2>3, <2>7, <2>9
    <2> QED
      BY <2>4, <2>8, <2>10
  <1>3. T = Nat
    <2>1. T \in SUBSET Nat
      OBVIOUS
    <2> HIDE DEF T
    <2> QED
      BY <1>1, <1>2, <2>1, Induction
  <1>4. 2 * (s[n + 1] * b) + n * b >= 2 * (t * b)
    <2>1. n \in Nat /\ n <= n
      OBVIOUS
    <2>2. n \in T
      BY <1>3, <2>1
    <2> QED
      BY <1>f, <2>1, <2>2
  <1> DEFINE x == s[n + 1]
  <1>5. x \in Nat
    BY <1>s
  <1> HIDE DEF x
  <1>6. 2 * x + n >= 2 * t
    <2> SUFFICES ASSUME 2 * x + n + 1 <= 2 * t PROVE FALSE
      BY <1>5
    <2>1. (2 * x + n + 1) * b <= (2 * t) * b
      BY <1>f, <1>5
    <2>2. (2 * x + n + 1) * b = 2 * (x * b) + n * b + b /\ (2 * t) * b = 2 * (t * b)
      BY <1>f, <1>5
    <2> DEFINE p == 2 * (x * b) + n * b
               q == 2 * (t * b)
    <2>3. p \in Nat /\ q \in Nat /\ p >= q /\ p + b <= q
      BY <1>f, <1>4, <1>5, <2>1, <2>2 DEF x
    <2> HIDE DEF p, q
    <2> QED
      BY <1>f, <2>3
  <1> QED
    BY <1>6 DEF x, s

--------------------------------------------------------------------------------
(* The times of a query *)

Waited(k) == DelaysBefore(MaxRetries, TotalTime)[k]

\* What a query has spent, and how long the outage that it meets has lasted: of what
\* the delays so far add up to, no second is lost and none is added.
TimesSound ==
    query \in JsonRpc =>
        /\ elapsed <= (IF sleeping THEN retries + 1 ELSE retries) * RequestTimeout + Waited(retries)
        /\ sleeping => retries < MaxRetries
        /\ service[query] = "down" => outages # 0 /\ (outages = 1 => downFor >= Waited(retries))
        /\ outages = 0 => retries = 0 /\ ~sleeping

\* The inductive invariant behind the bounds on them.
TimesInv == PollInv /\ TypeOK /\ TimesSound

\* The lemmas on the delays, for the policy of the configuration.
LEMMA WaitedFacts ==
  /\ Waited(0) = 0
  /\ \A k \in 0 .. (MaxRetries + 1) : Waited(k) \in Nat
  /\ \A k \in 0 .. MaxRetries : Waited(k) <= TotalTime
  /\ \A k \in 0 .. MaxRetries :
        /\ GetDelay(MaxRetries, TotalTime, k) \in Nat
        /\ Waited(k + 1) = Waited(k) + GetDelay(MaxRetries, TotalTime, k)
<1> DEFINE n == MaxRetries
           t == TotalTime
<1>1. n \in Nat \ {0} /\ n \in Nat /\ t \in Nat
  BY PolicyAssumption
<1> HIDE DEF n, t
<1>2. /\ DelaysBefore(n, t) \in [0 .. (n + 1) -> Nat] /\ DelaysBefore(n, t)[0] = 0
      /\ \A k \in 0 .. n : DelaysBefore(n, t)[k + 1] = DelaysBefore(n, t)[k] + GetDelay(n, t, k)
  BY <1>1, Sums
<1>3. \A k \in 0 .. n : GetDelay(n, t, k) \in Nat /\ DelaysBefore(n, t)[k] <= t
  BY <1>1, DelayType, DelaysWithin
<1>4. \A k \in 0 .. (n + 1) : DelaysBefore(n, t)[k] \in Nat
  BY <1>2
<1> QED
  BY <1>2, <1>3, <1>4 DEF Waited, n, t

\* A query begins with nothing spent.
LEMMA BeginSound ==
  ASSUME NEW q \in Services \cup {"waiting", "store"}, Begin(q)
  PROVE  /\ retries' = 0 /\ elapsed' = 0 /\ downFor' = 0 /\ outages' \in {0, 1}
         /\ TimesSound'
<1>1. /\ query' = q /\ sleeping' = FALSE /\ retries' = 0 /\ elapsed' = 0 /\ downFor' = 0
      /\ outages' = (IF q \in Services /\ service[q] = "down" THEN 1 ELSE 0)
      /\ service' = service
  BY DEF Begin
<1>2. Waited(0) = 0
  BY WaitedFacts
<1>3. 0 * RequestTimeout = 0
  BY PolicyAssumption
<1> QED
  BY <1>1, <1>2, <1>3 DEF TimesSound, Services

\* The types of a state in which a query begins.
LEMMA FreshTyped ==
  ASSUME TypeOK, retries' = 0, elapsed' = 0, downFor' = 0, outages' \in {0, 1},
         service' = service, \A s \in Services : service[s] \in seen'[s],
         query' \in Services \cup {"waiting", "store"}, sleeping' = FALSE,
         found' \in [Services -> {"none", "Online", "Offline"}],
         status' \in [Services -> {"Online", "Offline"}]
  PROVE  TypeOK'
<1>1. /\ retries' \in 0 .. MaxRetries /\ elapsed' \in Nat /\ downFor' \in 0 .. elapsed'
      /\ outages' \in 0 .. 2
  BY PolicyAssumption
<1>2. \A s \in Services : service'[s] \in Conditions(s) /\ service'[s] \in seen'[s]
  BY DEF TypeOK
<1>3. sleeping' \in BOOLEAN
  OBVIOUS
<1> QED
  BY <1>1, <1>2, <1>3 DEF TypeOK

\* The initial states satisfy the invariant.
LEMMA TimesInit == Init => TimesInv
<1> SUFFICES ASSUME Init PROVE TimesInv
  OBVIOUS
<1>1. /\ query = "waiting" /\ sleeping = FALSE /\ retries = 0 /\ elapsed = 0
      /\ downFor = 0 /\ outages = 0
      /\ found = [s \in Services |-> "none"] /\ status = [s \in Services |-> "Offline"]
      /\ seen = [s \in Services |-> {service[s]}]
      /\ \A s \in Services : service[s] \in Conditions(s)
  BY DEF Init, NothingFound, AllOffline
<1>2. TypeOK
  <2>1. /\ retries \in 0 .. MaxRetries /\ elapsed \in Nat /\ downFor \in 0 .. elapsed
        /\ outages \in 0 .. 2
    BY <1>1, PolicyAssumption
  <2>2. \A s \in Services : service[s] \in Conditions(s) /\ service[s] \in seen[s]
    BY <1>1
  <2>3. /\ found \in [Services -> {"none", "Online", "Offline"}]
        /\ status \in [Services -> {"Online", "Offline"}]
    BY <1>1
  <2> QED
    BY <1>1, <2>1, <2>2, <2>3 DEF TypeOK
<1>3. TimesSound
  BY <1>1 DEF TimesSound, JsonRpc
<1> QED
  BY <1>2, <1>3, PollInit DEF TimesInv

\* So does every query that is over.
LEMMA ConcludeTimes ==
  ASSUME TimesInv, query \in Services, NEW result \in {"Online", "Offline"}, Conclude(result)
  PROVE  TypeOK' /\ TimesSound'
<1>1. NextQuery(query) \in Services \cup {"waiting", "store"}
  BY DEF NextQuery, Services, JsonRpc
<1>2. /\ found' = [found EXCEPT ![query] = result] /\ query' = NextQuery(query)
      /\ sleeping' = FALSE /\ UNCHANGED <<service, seen, status>> /\ Begin(NextQuery(query))
  BY DEF Conclude, Begin
<1>3. /\ retries' = 0 /\ elapsed' = 0 /\ downFor' = 0 /\ outages' \in {0, 1} /\ TimesSound'
  BY <1>1, <1>2, BeginSound
<1>4. TypeOK /\ status' = status /\ status \in [Services -> {"Online", "Offline"}]
      /\ \A s \in Services : service[s] \in seen'[s]
  BY <1>2 DEF TimesInv, TypeOK
<1>5. found' \in [Services -> {"none", "Online", "Offline"}]
  BY <1>2, <1>4 DEF TypeOK
<1>6. TypeOK'
  BY <1>1, <1>2, <1>3, <1>4, <1>5, FreshTyped
<1> QED
  BY <1>3, <1>6

\* Every step preserves it.
LEMMA TimesStep == TimesInv /\ [Next]_vars => TimesInv'
<1> SUFFICES ASSUME TimesInv, [Next]_vars PROVE TypeOK' /\ TimesSound'
  BY PollStep DEF TimesInv
<1> DEFINE n == MaxRetries
           t == TotalTime
<1>p. n \in Nat \ {0} /\ t \in Nat /\ RequestTimeout \in Nat
  BY PolicyAssumption
<1>t. TypeOK /\ TimesSound /\ PollInv
  BY DEF TimesInv
<1>w. \A k \in 0 .. n : Waited(k) \in Nat
  BY <1>p, WaitedFacts
<1>1. CASE StartPoll
  <2>1. /\ query' = "sequencer" /\ sleeping' = FALSE /\ Begin("sequencer")
        /\ UNCHANGED <<service, found, status>> /\ seen' = [s \in Services |-> {service[s]}]
    BY <1>1 DEF StartPoll, Begin
  <2>2. "sequencer" \in Services
    BY DEF Services, JsonRpc
  <2>3. /\ retries' = 0 /\ elapsed' = 0 /\ downFor' = 0 /\ outages' \in {0, 1} /\ TimesSound'
    BY <2>1, <2>2, BeginSound
  <2>4. /\ \A s \in Services : service[s] \in seen'[s]
        /\ query' \in Services \cup {"waiting", "store"}
    BY <2>1, <2>2
  <2>5. /\ found' \in [Services -> {"none", "Online", "Offline"}]
        /\ status' \in [Services -> {"Online", "Offline"}]
    BY <1>t, <2>1 DEF TypeOK
  <2> QED
    BY <1>t, <2>1, <2>3, <2>4, <2>5, FreshTyped
<1>2. CASE Answered
  BY <1>2, ConcludeTimes DEF Answered, Asking, ResultOf, OnlineWhenUp, Services
<1>3. ASSUME NEW cost \in RequestCosts, RetryLater(cost) PROVE TypeOK' /\ TimesSound'
  <2>1. /\ query \in JsonRpc /\ ~sleeping /\ service[query] = "down" /\ retries < n
        /\ sleeping' = TRUE /\ elapsed' = elapsed + cost /\ downFor' = downFor + cost
        /\ UNCHANGED <<service, query, retries, found, status, seen, outages>>
    BY <1>3 DEF RetryLater, Asking, MayRetry
  <2>2. cost \in Nat /\ cost <= RequestTimeout
    BY <1>p DEF RequestCosts
  <2>3. retries \in 0 .. n /\ elapsed \in Nat /\ downFor \in 0 .. elapsed /\ outages \in 0 .. 2
    BY <1>t DEF TypeOK
  <2>4. TypeOK'
    BY <1>t, <2>1, <2>2, <2>3 DEF TypeOK
  <2> DEFINE w == Waited(retries)
             spent == retries * RequestTimeout
  <2>5. w \in Nat /\ spent \in Nat /\ (retries + 1) * RequestTimeout = spent + RequestTimeout
    BY <1>p, <1>w, <2>3
  <2>6. elapsed <= spent + w /\ outages # 0 /\ (outages = 1 => downFor >= w)
    BY <1>t, <2>1 DEF TimesSound
  <2>7. Waited(retries') = w
    BY <2>1
  <2> HIDE DEF w, spent
  <2>8. elapsed' <= (spent + RequestTimeout) + w /\ (outages = 1 => downFor' >= w)
    BY <1>p, <2>1, <2>2, <2>3, <2>5, <2>6
  <2>9. elapsed' <= (retries + 1) * RequestTimeout + w
    BY <2>5, <2>8
  <2> QED
    BY <2>1, <2>4, <2>6, <2>7, <2>8, <2>9 DEF TimesSound
<1>4. CASE Sleep
  <2>1. /\ sleeping /\ sleeping' = FALSE /\ retries' = retries + 1
        /\ elapsed' = elapsed + Delay
        /\ downFor' = (IF service[query] = "down" THEN downFor + Delay ELSE 0)
        /\ UNCHANGED <<service, query, found, status, seen, outages>>
    BY <1>4 DEF Sleep
  <2>2. query \in JsonRpc /\ retries < n
    BY <1>t, <2>1 DEF TimesSound, PollInv, ShapesOK
  <2>3. retries \in 0 .. n /\ elapsed \in Nat /\ downFor \in 0 .. elapsed /\ outages \in 0 .. 2
    BY <1>t DEF TypeOK
  <2>4. Delay \in Nat /\ Waited(retries + 1) = Waited(retries) + Delay
    BY <2>3, WaitedFacts DEF Delay
  <2>5. TypeOK'
    <3>1. retries' \in 0 .. n /\ elapsed' \in Nat /\ downFor' \in 0 .. elapsed'
      BY <1>p, <2>1, <2>2, <2>3, <2>4
    <3> QED
      BY <1>t, <2>1, <3>1 DEF TypeOK
  <2> DEFINE w == Waited(retries)
             spent == (retries + 1) * RequestTimeout
  <2>6. w \in Nat /\ spent \in Nat /\ Waited(retries') = w + Delay
    BY <1>p, <1>w, <2>1, <2>3, <2>4
  <2>7. /\ elapsed <= spent + w /\ outages # 0
        /\ service[query] = "down" => (outages = 1 => downFor >= w)
    BY <1>t, <2>1, <2>2 DEF TimesSound
  <2> HIDE DEF w, spent
  <2>8. /\ elapsed' <= spent + (w + Delay)
        /\ service[query] = "down" => (outages = 1 => downFor' >= w + Delay)
    BY <2>1, <2>3, <2>4, <2>6, <2>7
  <2>9. elapsed' <= retries' * RequestTimeout + Waited(retries')
    BY <2>1, <2>6, <2>8 DEF spent
  <2> QED
    BY <2>1, <2>5, <2>6, <2>7, <2>8, <2>9 DEF TimesSound
<1>5. CASE GiveUp
  BY <1>5, ConcludeTimes DEF GiveUp, Asking, Services
<1>6. CASE SetStatus
  <2>1. /\ query' = "waiting" /\ sleeping' = FALSE /\ Begin("waiting")
        /\ status' = found /\ found' = NothingFound /\ UNCHANGED <<service, seen>>
        /\ query = "store"
    BY <1>6 DEF SetStatus, Begin, NewStatus
  <2>2. found \in [Services -> {"Online", "Offline"}]
    BY <1>t, <2>1 DEF PollInv, ShapesOK, FoundInOrder
  <2>3. NothingFound \in [Services -> {"none", "Online", "Offline"}]
    BY DEF NothingFound
  <2>4. /\ retries' = 0 /\ elapsed' = 0 /\ downFor' = 0 /\ outages' \in {0, 1} /\ TimesSound'
    BY <2>1, BeginSound
  <2>5. /\ \A s \in Services : service[s] \in seen'[s]
        /\ query' \in Services \cup {"waiting", "store"}
    BY <1>t, <2>1 DEF TypeOK
  <2> QED
    BY <1>t, <2>1, <2>2, <2>3, <2>4, <2>5, FreshTyped
<1>7. CASE BundlerReplies
  BY <1>7, ConcludeTimes DEF BundlerReplies, OnlineWhenUp, Services
<1>8. ASSUME NEW s \in Services, NEW condition \in Conditions(s), Change(s, condition)
      PROVE  TypeOK' /\ TimesSound'
  <2>1. /\ service' = [service EXCEPT ![s] = condition] /\ condition # service[s]
        /\ UNCHANGED <<query, sleeping, retries, elapsed, found, status>>
        /\ downFor' = (IF s = query THEN 0 ELSE downFor)
        /\ IF s = query /\ condition = "down"
           THEN outages' = IF outages = 0 THEN 1 ELSE 2
           ELSE outages' = outages
        /\ seen' = IF query = "waiting" THEN [seen EXCEPT ![s] = {condition}]
                                        ELSE [seen EXCEPT ![s] = @ \cup {condition}]
    BY <1>8 DEF Change, taskVars
  <2>2. \A r \in Services : service'[r] = IF r = s THEN condition ELSE service[r]
    BY <1>t, <2>1 DEF PollInv, ShapesOK
  <2>3. TypeOK'
    <3>1. \A r \in Services : service'[r] \in Conditions(r) /\ service'[r] \in seen'[r]
      BY <1>t, <1>8, <2>1, <2>2 DEF TypeOK, PollInv, ShapesOK
    <3>2. downFor' \in 0 .. elapsed' /\ outages' \in 0 .. 2
      BY <1>t, <2>1 DEF TypeOK
    <3> QED
      BY <1>t, <2>1, <3>1, <3>2 DEF TypeOK
  <2>4. TimesSound'
    <3> SUFFICES ASSUME query \in JsonRpc PROVE TimesSound'
      BY <2>1 DEF TimesSound
    <3>1. query \in Services
      BY DEF Services
    <3>2. Waited(0) = 0
      BY WaitedFacts
    <3>3. CASE s = query /\ condition = "down"
      BY <1>t, <2>1, <2>2, <3>1, <3>2, <3>3 DEF TimesSound
    <3>4. CASE s = query /\ condition # "down"
      BY <1>t, <2>1, <2>2, <3>1, <3>4 DEF TimesSound
    <3>5. CASE s # query
      BY <1>t, <2>1, <2>2, <3>1, <3>5 DEF TimesSound
    <3> QED
      BY <3>3, <3>4, <3>5
  <2> QED
    BY <2>3, <2>4
<1>9. CASE UNCHANGED vars
  BY <1>t, <1>9 DEF vars, taskVars, TypeOK, TimesSound
<1> QED
  BY <1>1, <1>2, <1>3, <1>4, <1>5, <1>6, <1>7, <1>8, <1>9 DEF Next, TaskStep

\* The times of every query are those, in every reachable state.
THEOREM TimesCorrect == Spec => []TimesInv
  BY TimesInit, TimesStep, PTL DEF Spec

\* Every variable stays in its type.
THEOREM TypeCorrect == Spec => []TypeOK
<1>1. TimesInv => TypeOK
  BY DEF TimesInv
<1> QED
  BY <1>1, TimesCorrect, PTL

\* The last request of a query is sent within the policy's total and one timeout for
\* every request before it, whatever number of retries, total and timeout are configured.
THEOREM WithinBudget == Spec => []QueryWithinBudget
<1>1. ASSUME TimesInv PROVE QueryWithinBudget
  <2> SUFFICES ASSUME Asking PROVE elapsed <= MaxRetries * RequestTimeout + TotalTime
    BY DEF QueryWithinBudget
  <2> DEFINE n == MaxRetries
             w == Waited(retries)
             x == retries * RequestTimeout
             y == n * RequestTimeout
  <2>1. n \in Nat \ {0} /\ TotalTime \in Nat /\ RequestTimeout \in Nat
    BY PolicyAssumption
  <2>2. retries \in 0 .. n /\ elapsed \in Nat
    BY <1>1 DEF TimesInv, TypeOK
  <2>3. elapsed <= x + w
    BY <1>1 DEF TimesInv, TimesSound, Asking
  <2>4. w <= TotalTime /\ w \in Nat
    BY <2>1, <2>2, WaitedFacts
  <2>5. x <= y /\ x \in Nat /\ y \in Nat
    BY <2>1, <2>2
  <2> HIDE DEF w, x, y
  <2>6. elapsed <= y + TotalTime
    BY <2>1, <2>2, <2>3, <2>4, <2>5
  <2> QED
    BY <2>6 DEF y
<1> QED
  BY <1>1, TimesCorrect, PTL

\* A query that gives up on a service has met it down for all of the delays that it
\* waits for, or down more than once.
LEMMA GivesUpLate ==
  ASSUME TimesInv, Next, NEW s \in JsonRpc, GivesUpOn(s)
  PROVE  outages = 2 \/ downFor >= Waited(MaxRetries)
<1>1. query = s /\ service[query] = "down" /\ found'[s] = "Offline"
  BY DEF GivesUpOn
<1>2. GiveUp
  <2>1. found[s] = "none"
    <3>1. FoundInOrder
      BY DEF TimesInv, PollInv
    <3>2. CASE s = "sequencer"
      <4>1. found = NothingFound /\ s \in Services
        BY <1>1, <3>1, <3>2 DEF FoundInOrder, Services, JsonRpc
      <4> QED
        BY <4>1 DEF NothingFound
    <3>3. CASE s = "rpc_endpoint"
      BY <1>1, <3>1, <3>3 DEF FoundInOrder
    <3> QED
      BY <3>2, <3>3 DEF JsonRpc
  <2>2. ~StartPoll /\ ~Answered /\ ~SetStatus /\ ~BundlerReplies
    BY <1>1 DEF StartPoll, Answered, SetStatus, BundlerReplies, JsonRpc
  <2>3. found' # found
    BY <1>1, <2>1
  <2> QED
    BY <2>2, <2>3 DEF Next, TaskStep, RetryLater, Sleep, Change, taskVars
<1>3. retries = MaxRetries
  BY <1>2, PolicyAssumption DEF GiveUp, MayRetry, TimesInv, TypeOK
<1> QED
  BY <1>1, <1>3 DEF TimesInv, TypeOK, TimesSound

\* Under every policy, a single outage that shows as Offline has lasted for the policy's
\* total but for the delay after the last retry, which is not waited for, and for half a
\* second of each delay, which rounding may take.
THEOREM OutagesNearlyBridged ==
  Spec => [][\A s \in JsonRpc : GivesUpOn(s) =>
                outages = 2
                \/ 2 * (downFor + GetDelay(MaxRetries, TotalTime, MaxRetries)) + MaxRetries
                        >= 2 * TotalTime]_vars
<1>1. TimesInv /\ [Next]_vars =>
        [\A s \in JsonRpc : GivesUpOn(s) =>
            outages = 2
            \/ 2 * (downFor + GetDelay(MaxRetries, TotalTime, MaxRetries)) + MaxRetries
                    >= 2 * TotalTime]_vars
  <2> DEFINE last == GetDelay(MaxRetries, TotalTime, MaxRetries)
             n == MaxRetries
             t == TotalTime
  <2> SUFFICES ASSUME TimesInv, Next, NEW s \in JsonRpc, GivesUpOn(s), outages # 2
               PROVE  2 * (downFor + last) + n >= 2 * t
    OBVIOUS
  <2>1. downFor >= Waited(n)
    BY GivesUpLate
  <2>2. n \in 0 .. n /\ n \in Nat \ {0} /\ t \in Nat
    BY PolicyAssumption
  <2>3. Waited(n + 1) = Waited(n) + last /\ last \in Nat /\ Waited(n) \in Nat
    BY <2>2, WaitedFacts
  <2>4. downFor \in Nat
    BY DEF TimesInv, TypeOK
  <2>5. 2 * Waited(n + 1) + n >= 2 * t
    BY <2>2, DelaysNearTotal DEF Waited
  <2> HIDE DEF last, n, t
  <2> QED
    BY <2>1, <2>2, <2>3, <2>4, <2>5
<1> QED
  BY <1>1, TimesCorrect, PTL DEF Spec

\* What retry_policy.rs's test asserts of a policy: rounded, its delays still add up to
\* its total (or more).
DelaysAddUp == DelaysBefore(MaxRetries, TotalTime)[MaxRetries + 1] >= TotalTime

\* With such a policy, no single outage shorter than the delays that are waited for
\* shows as Offline.
THEOREM OutagesBridged == DelaysAddUp => (Spec => OutageTolerated)
<1> SUFFICES ASSUME DelaysAddUp PROVE Spec => OutageTolerated
  OBVIOUS
<1>1. TimesInv /\ [Next]_vars =>
        [\A s \in JsonRpc : GivesUpOn(s) =>
            outages = 2
            \/ downFor >= TotalTime - GetDelay(MaxRetries, TotalTime, MaxRetries)]_vars
  <2> DEFINE last == GetDelay(MaxRetries, TotalTime, MaxRetries)
  <2> SUFFICES ASSUME TimesInv, Next, NEW s \in JsonRpc, GivesUpOn(s), outages # 2
               PROVE  downFor >= TotalTime - last
    OBVIOUS
  <2>1. downFor >= Waited(MaxRetries)
    BY GivesUpLate
  <2>2. MaxRetries \in 0 .. MaxRetries /\ MaxRetries \in 0 .. (MaxRetries + 1)
    BY PolicyAssumption
  <2>3. Waited(MaxRetries + 1) = Waited(MaxRetries) + last /\ last \in Nat
        /\ Waited(MaxRetries) \in Nat
    BY <2>2, WaitedFacts
  <2>4. downFor \in Int /\ TotalTime \in Nat
    BY PolicyAssumption DEF TimesInv, TypeOK
  <2>5. Waited(MaxRetries + 1) >= TotalTime
    BY DEF DelaysAddUp, Waited
  <2> HIDE DEF last
  <2> QED
    BY <2>1, <2>3, <2>4, <2>5
<1> QED
  BY <1>1, TimesCorrect, PTL DEF Spec, OutageTolerated
================================================================================
