-------------------------- MODULE MCWithdrawalIndexDb --------------------------
\* The instance of WithdrawalIndexDb that TLC checks: under a denomination of 1 the
\* events have two, two and one rows; under 2 they have one, one and none.
\* The second writer started at a later block.
EXTENDS WithdrawalIndexDb

MCAmount == <<2, 2, 1>>
MCTodo == <<<<1, 2, 3>>, <<2, 3>>>>
================================================================================
