------------------------------ MODULE CursorLoops ------------------------------
(***************************************************************************)
(* Where the loops that move a status cursor stop                          *)
(* (crates/bridge/src/state.rs), stated without the loop; StateLoops has   *)
(* the loops themselves.                                                   *)
(***************************************************************************)
EXTENDS Integers

\* A loop `while Continue(i) { i += 1 }` entered at `from` leaves i at `stop`.
StopsAt(from, stop, Continue(_)) ==
    /\ from <= stop
    /\ \A d \in from .. (stop - 1) : Continue(d)
    /\ ~Continue(stop)

\* Mutant: the cursor stops one deposit too late.
StopsOneLater(from, stop, terminal) ==
    /\ from <= stop
    /\ \A d \in from .. (stop - 2) : d \in terminal
    /\ stop \notin terminal
\* next_deposit_info_cursor: `while terminal.contains(next) { next += 1 }`
StopsDense(from, stop, terminal) ==
    /\ from <= stop
    /\ \A d \in from .. (stop - 1) : d \in terminal
    /\ stop \notin terminal

\* Mutant: the frontier itself may be passed.
StopsPastFrontier(from, stop, terminal, frontier, pending) ==
    StopsAt(from, stop,
            LAMBDA d : d <= frontier /\ (d \in terminal \/ d \notin pending))
\* next_sparse_status_cursor
StopsSparse(from, stop, terminal, frontier, pending) ==
    StopsAt(from, stop,
            LAMBDA d : d < frontier /\ (d \in terminal \/ d \notin pending))
================================================================================
