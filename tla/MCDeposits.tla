----------------------------- MODULE MCDeposits -----------------------------
EXTENDS Deposits, TLC

CONSTANTS t1, t2, a1, a2, a3, out, usdt, o1, o2, o3, m0, m1, m2

\* One chain m0 - m1 - m2; the unit of time is some blocks long.
Row == m0 :> 0 @@ m1 :> 1 @@ m2 :> 2
Line == [b \in Blocks |-> IF Row[b] = 0 THEN NoBlock ELSE CHOOSE c \in Blocks : Row[c] = Row[b] - 1]
Depths == [b \in Blocks |-> Row[b]]

Times == [b \in Blocks |-> IF b = m0 THEN 0 ELSE 1]

Cargo ==
  LET all == [b \in Blocks |-> CASE b = m1 -> t1 [] b = m2 -> t2 [] OTHER -> NoTransfer]
  IN [b \in Blocks |-> IF all[b] \in Transfers THEN all[b] ELSE NoTransfer]

Payers == [t \in Transfers |-> out]
ToA2 == [t \in Transfers |-> a2]
OneAsset == [t \in Transfers |-> usdt]
Ones == [t \in Transfers |-> 1]
Indexes == [a \in Addresses |-> CASE a = a1 -> 0 [] a = a2 -> 1 [] OTHER -> 2]
\* t1 pays an order of two; one of three needs t2, which is dust, as well.
TwoAndOne == [t \in Transfers |-> IF t = t1 THEN 2 ELSE 1]
WantOne == {[asset |-> usdt, expected |-> 1]}
WantTwoOrThree == {[asset |-> usdt, expected |-> n] : n \in {2, 3}}

SameOrders == Permutations(Orders)

\* Nothing ordered; the one address derived at the first start was disabled since.
Fresh ==
  [payments |-> [t \in Transfers |-> NoPayment],
   orders |-> [o \in Orders |-> [Ordered(a1, usdt, 0, Never, Never) EXCEPT !.status = "none"]],
   addresses |-> [a \in Addresses |-> Idle(IF a = a1 THEN "disabled" ELSE "none")],
   balances |-> [a \in Addresses |-> [s \in Assets |-> [confirmed |-> 0, pending |-> 0]]]]

\* What the proof of the pool's bound asks of the constants.
ASSUME InstanceAssumption == PoolFits
=============================================================================
