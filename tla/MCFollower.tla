----------------------------- MODULE MCFollower -----------------------------
EXTENDS Follower, TLC

CONSTANTS t1, t2, t3, a1, a2, out, trx, o1, m0, m1, m2, m3, m4, m5, f2, f3, g4

\* m0 - m1 - m2 - m3 - m4 - m5, and the branches m1 - f2 - f3 and m3 - g4; the
\* liveness run leaves out m5 and g4.
Parents == m0 :> NoBlock @@ m1 :> m0 @@ m2 :> m1 @@ m3 :> m2 @@ m4 :> m3 @@ m5 :> m4
           @@ f2 :> m1 @@ f3 :> f2 @@ g4 :> m3
Heights0to5 == m0 :> 0 @@ m1 :> 1 @@ m2 :> 2 @@ m3 :> 3 @@ m4 :> 4 @@ m5 :> 5
               @@ f2 :> 2 @@ f3 :> 3 @@ g4 :> 4
Tree == [b \in Blocks |-> Parents[b]]
Depths == [b \in Blocks |-> Heights0to5[b]]

\* t1 is carried by a branch and, one block later, by the chain that stays; t2 is
\* lost with a branch; t3, between two addresses, is on both sides of a fork.
Cargo ==
  LET all == [b \in Blocks |-> CASE b \in {f2, m3} -> t1 [] b = f3 -> t2
                                  [] b \in {g4, m4} -> t3 [] OTHER -> NoTransfer]
  IN [b \in Blocks |-> IF all[b] \in Transfers THEN all[b] ELSE NoTransfer]

Payers == [t \in Transfers |-> IF t = t3 THEN a1 ELSE out]
Payees == [t \in Transfers |-> IF t = t3 THEN a2 ELSE a1]
OneAsset == [t \in Transfers |-> trx]
Sums == [t \in Transfers |-> IF t = t1 THEN 2 ELSE 1]

\* One open order of 2 on one address.
OneOrder ==
  [payments |-> [t \in Transfers |-> NoPayment],
   orders |-> [o \in Orders |-> Ordered(a1, trx, 2, 0, Never)],
   addresses |-> [a \in Addresses |-> IF a = a1 THEN [Idle("assigned") EXCEPT !.order = o1]
                                                    ELSE Idle("free")],
   balances |-> [a \in Addresses |-> [s \in Assets |-> [confirmed |-> 0, pending |-> 0]]]]

\* The tree of the safety run is one that the proofs speak of; the liveness run confirms
\* with one block on top, which its forks can reach.
ASSUME InstanceAssumption ==
  /\ Certain /\ ForksAreShort /\ TimesGrow /\ OrdersStart
  /\ Required = 2 => ConfirmationsSettle
=============================================================================
