---------------------------- MODULE MCWithdrawal ----------------------------
EXTENDS Withdrawal

CONSTANTS a1, a2

\* Both rows pay from one address, so exclusivity and balance interact.
FromShared == [w \in Rows |-> a1]
OneEach == [w \in Rows |-> 1]
FundsTwo == [a \in Addresses |-> 2]
=============================================================================
