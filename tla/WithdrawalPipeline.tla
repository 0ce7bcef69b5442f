--------------------------- MODULE WithdrawalPipeline ---------------------------
(***************************************************************************)
(* What the bridge monitor's pairing promises, without its ticks, caches   *)
(* and rows: the bridge's deposits pass three stages in their order, each  *)
(* completed one takes the next withdrawal request of a FIFO queue in the  *)
(* first stage and keeps it until the second, and a crash takes everything *)
(* back to an earlier moment at once.  BridgeMonitor implements it.        *)
(***************************************************************************)
EXTENDS Integers, FiniteSets

CONSTANTS N, Failed     \* the deposits are 0 .. N-1, and those that take no request

Deposits == 0 .. (N - 1)
Ends     == 0 .. N
None     == -1

VARIABLES
    working,    \* the deposits below `paired` have passed the first stage, those below
                \* `settled` the second and those below `done` the last; `taken`
                \* requests have been taken, matched[d] by the deposits between
    synced      \* what a crash leaves of it

pipelineVars == <<working, synced>>

Empty == [paired |-> 0, settled |-> 0, done |-> 0, taken |-> 0, matched |-> [d \in Deposits |-> None]]

PipelineInit == working = Empty /\ synced = Empty

Takers(from, to) == {d \in from .. (to - 1) : d \notin Failed}

Pair(end) ==
    /\ working.paired < end
    /\ working' = [working EXCEPT
            !.paired = end,
            !.taken = @ + Cardinality(Takers(working.paired, end)),
            !.matched = [d \in Deposits |->
                IF d \in Takers(working.paired, end)
                THEN working.taken + Cardinality(Takers(working.paired, d)) ELSE @[d]]]
    /\ UNCHANGED synced

Settle(end) ==
    /\ working.settled < end /\ end <= working.paired
    /\ working' = [working EXCEPT
            !.settled = end,
            !.matched = [d \in Deposits |-> IF d < end THEN None ELSE @[d]]]
    /\ UNCHANGED synced

Finish(end) ==
    /\ working.done < end /\ end <= working.settled
    /\ working' = [working EXCEPT !.done = end]
    /\ UNCHANGED synced

Sync == synced' = working /\ UNCHANGED working
Lose == working' = synced /\ UNCHANGED synced

PipelineNext == (\E end \in Ends : Pair(end) \/ Settle(end) \/ Finish(end)) \/ Sync \/ Lose

PipelineSpec == PipelineInit /\ [][PipelineNext]_pipelineVars
================================================================================
