---------------------------- MODULE MCMonitorQueries ----------------------------
\* The instance of MonitorQueries that TLC checks: two nodes, listed against the
\* order of their keys, an item with either transaction,
\* and a chain of three blocks.
EXTENDS MonitorQueries

MCOperators == <<[key |-> 2, url |-> "b"], [key |-> 1, url |-> "a"]>>
MCFates == {[kind |-> "withdrawal", outcome |-> "Complete"],
            [kind |-> "reimbursement", outcome |-> "Aborted"]}
================================================================================
