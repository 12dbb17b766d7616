--------------------------- MODULE OrderedDelivery ---------------------------
(***************************************************************************)
(* What the outbox promises a consumer (IPN-011): of the events accepted   *)
(* for one pair of sequence key and consumer, each is first received after *)
(* every one that was accepted before it and not stamped after it.  For    *)
(* events that are accepted in the order of their stamps that is delivery  *)
(* in order; for the others nothing is promised.  Repeated receipts are    *)
(* left out: consumers drop them by event id (IPN-022).                    *)
(***************************************************************************)
EXTENDS Integers

CONSTANTS Events, Pairs, NoPair, Stamps

VARIABLES pairOf, stampOf, received

vars == <<pairOf, stampOf, received>>

Init ==
  /\ pairOf = [e \in Events |-> NoPair] /\ stampOf = [e \in Events |-> 0]
  /\ received = {}

\* Events are numbered in the order they are accepted.
Accept(e, p, at) ==
  /\ \A d \in Events : pairOf[d] # NoPair <=> d < e
  /\ pairOf' = [pairOf EXCEPT ![e] = p]
  /\ stampOf' = [stampOf EXCEPT ![e] = at]
  /\ UNCHANGED received

Receive(e) ==
  /\ pairOf[e] # NoPair
  /\ \A d \in Events :
       d < e /\ pairOf[d] = pairOf[e] /\ stampOf[d] <= stampOf[e] => d \in received
  /\ received' = received \cup {e}
  /\ UNCHANGED <<pairOf, stampOf>>

Next ==
  \/ \E e \in Events, p \in Pairs, at \in Stamps : Accept(e, p, at)
  \/ \E e \in Events : Receive(e)

Spec == Init /\ [][Next]_vars
=============================================================================
