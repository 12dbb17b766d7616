------------------------------ MODULE MCOutbox ------------------------------
EXTENDS Outbox, TLC

CONSTANTS p1, p2, c1, c2, w1, w2

\* Both pairs, an order's events and a global key's, belong to one consumer.
SameConsumer == [p \in Pairs |-> c1]

\* Workers are interchangeable: they differ only in what they hold.
WorkerSymmetry == Permutations(Workers)
=============================================================================
