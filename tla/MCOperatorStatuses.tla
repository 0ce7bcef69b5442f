--------------------------- MODULE MCOperatorStatuses ---------------------------
\* The instance of OperatorStatuses that TLC checks: two operators with nodes,
\* listed against the order of their keys and the first of them twice, and one without.
EXTENDS OperatorStatuses

MCOperators == <<[key |-> 3, url |-> "c"], [key |-> 2, url |-> "none"],
                 [key |-> 1, url |-> "a"], [key |-> 3, url |-> "b"]>>
================================================================================
