-------------------------- MODULE MCWithdrawalIndexer --------------------------
\* The instance of WithdrawalIndexerLive, and with it of WithdrawalIndexer, that TLC checks:
\* four logs in three blocks, two of them in one block, one of two units, the last
\* one undecodable.  The scan begins at block 0, which the code takes for final at once;
\* the first log is in the block behind it.
EXTENDS WithdrawalIndexerLive

MCBlockOf == <<1, 3, 3, 5>>
MCOffset  == <<0, 1, 3, 4, 4>>
================================================================================
