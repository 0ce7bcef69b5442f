--------------------------- MODULE StatusGate_proofs ---------------------------
(***************************************************************************)
(* Proofs about StatusGate, for every set of connections and any number of *)
(* polls.                                                                  *)
(***************************************************************************)
EXTENDS StatusGate, TLAPS

USE MaxPollsAssumption

\* The gate is opened only when a poll's result is stored; a request that is about
\* to suspend, or has, can be reached by the notification.
GateInv ==
    /\ TypeOK
    /\ NoLostWakeup
    /\ OnlyPolledServed
    /\ task = "marking" \/ available => status > NoPoll
    /\ task = "notifying" \/ woken # {} => available
    /\ \A h \in Handlers :
        /\ handler[h] \in {"reload", "await"} => h \in waiters \cup woken
        /\ handler[h] = "serve" => available
        /\ response[h] <= status

\* The initial states satisfy the invariant of the gate.
LEMMA GateInit == Init => GateInv
  <1> SUFFICES ASSUME Init PROVE GateInv
    OBVIOUS
  <1> USE DEF Init, NoPoll, NoResponse, Unavailable
  <1>1. 0 \in Polls /\ -2 \in Responses
    BY DEF Polls, Responses
  <1>2. TypeOK
    BY <1>1 DEF TypeOK
  <1>3. NoLostWakeup /\ OnlyPolledServed
    BY DEF NoLostWakeup, OnlyPolledServed
  <1> QED
    BY <1>2, <1>3 DEF GateInv

\* Every step preserves it.
LEMMA GateStep == GateInv /\ [Next]_vars => GateInv'
  <1> SUFFICES ASSUME GateInv, [Next]_vars
               PROVE  GateInv'
    OBVIOUS
  <1> USE DEF GateInv, TypeOK, NoLostWakeup, OnlyPolledServed, Polls, Responses, NoPoll,
              NoResponse, Unavailable
  <1>1. CASE SetStatus
    BY <1>1 DEF SetStatus
  <1>2. CASE MarkAvailable
    BY <1>2 DEF MarkAvailable, MarkReady
  <1>3. CASE NotifyWaiters
    BY <1>3 DEF NotifyWaiters, WokenAll
  <1>4. ASSUME NEW h \in Handlers, Request(h)
        PROVE  GateInv'
    BY <1>4 DEF Request, Goto
  <1>5. ASSUME NEW h \in Handlers, FirstLoad(h)
        PROVE  GateInv'
    BY <1>5 DEF FirstLoad, Goto
  <1>6. ASSUME NEW h \in Handlers, Enable(h)
        PROVE  GateInv'
    BY <1>6 DEF Enable, Goto
  <1>7. ASSUME NEW h \in Handlers, SecondLoad(h)
        PROVE  GateInv'
    BY <1>7 DEF SecondLoad, AfterReload, Forget, Goto
  <1>8. ASSUME NEW h \in Handlers, WakeUp(h)
        PROVE  GateInv'
    <2>1. available
      BY <1>8 DEF WakeUp
    <2> QED
      BY <1>8, <2>1 DEF WakeUp, Forget, Goto
  <1>9. ASSUME NEW h \in Handlers, TimeOut(h)
        PROVE  GateInv'
    BY <1>9 DEF TimeOut, Forget, Goto
  <1>10. ASSUME NEW h \in Handlers, Serve(h)
         PROVE  GateInv'
    BY <1>10 DEF Serve, Goto
  <1>11. ASSUME NEW h \in Handlers, Disconnect(h)
         PROVE  GateInv'
    BY <1>11 DEF Disconnect, Forget, Goto
  <1>12. CASE UNCHANGED vars
    BY <1>12 DEF vars
  <1> QED
    BY <1>1, <1>2, <1>3, <1>4, <1>5, <1>6, <1>7, <1>8, <1>9, <1>10, <1>11, <1>12
    DEF Next, TaskStep, HandlerStep

\* The invariant of the gate holds in every reachable state.
THEOREM GateCorrect == Spec => []GateInv
  BY GateInit, GateStep, PTL DEF Spec

\* No wakeup is lost, whatever the interleaving and however many requests wait.
THEOREM WakeupsKept == Spec => []NoLostWakeup
  <1>1. GateInv => NoLostWakeup
    BY DEF GateInv
  <1> QED
    BY GateCorrect, <1>1, PTL

\* The default status is never served.
THEOREM DefaultNeverServed == Spec => []OnlyPolledServed
  <1>1. GateInv => OnlyPolledServed
    BY DEF GateInv
  <1> QED
    BY GateCorrect, <1>1, PTL

\* A request is refused only while the first poll has not been announced, and no
\* answer shows an older poll than one given before.
THEOREM ForwardAnswers == Spec => AnswersGoForward
  <1> DEFINE Forward ==
        \A h \in Handlers : response'[h] # response[h] =>
            IF response'[h] = Unavailable
            THEN ~available \/ task = "notifying"
            ELSE \A g \in Handlers : response'[h] >= response[g]
  <1>1. ASSUME GateInv, [Next]_vars
        PROVE  Forward
    <2>1. CASE \E h \in Handlers : Serve(h)
      BY <1>1, <2>1 DEF Serve, GateInv, TypeOK, Polls, Responses, Unavailable, NoResponse
    <2>2. CASE \E h \in Handlers : TimeOut(h)
      BY <1>1, <2>2 DEF TimeOut, NotWoken, GateInv, TypeOK, NoLostWakeup, Unavailable
    <2>3. CASE UNCHANGED response
      BY <2>3
    <2> QED
      BY <1>1, <2>1, <2>2, <2>3
      DEF Next, TaskStep, HandlerStep, vars, SetStatus, MarkAvailable, NotifyWaiters,
          Request, FirstLoad, Enable, SecondLoad, WakeUp, Disconnect
  <1> QED
    BY <1>1, GateCorrect, PTL DEF Spec, AnswersGoForward
================================================================================
