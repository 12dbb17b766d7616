---------------------------- MODULE SinglePayout ----------------------------
(***************************************************************************)
(* What the withdrawal engine promises about money (WDR-000, WDR-000c).    *)
(* A request is opened, and then either closed, for good, or spent: one    *)
(* transaction is handed to the network, once.  Only a spent request can   *)
(* be paid, only while its block may be orphaned can the payment vanish,   *)
(* and a closed request never pays.                                        *)
(***************************************************************************)
CONSTANT Requests

VARIABLES stage, payout

vars == <<stage, payout>>

Init ==
  /\ stage = [r \in Requests |-> "new"]
  /\ payout = [r \in Requests |-> "none"]

\* Requests are opened and closed; one sync to disk may settle several.
Decide ==
  /\ stage' \in [Requests -> {"new", "open", "closed", "spent"}]
  /\ \A r \in Requests :
       \/ stage'[r] = stage[r]
       \/ stage[r] = "new" /\ stage'[r] \in {"open", "closed"}
       \/ stage[r] = "open" /\ stage'[r] = "closed"
  /\ UNCHANGED payout

Spend(r) ==
  /\ stage[r] = "open"
  /\ stage' = [stage EXCEPT ![r] = "spent"]
  /\ UNCHANGED payout

Pays(r, from, to) ==
  /\ stage[r] = "spent"
  /\ payout[r] = from
  /\ payout' = [payout EXCEPT ![r] = to]
  /\ UNCHANGED stage

Next ==
  \/ Decide
  \/ \E r \in Requests :
       Spend(r) \/ Pays(r, "none", "paid") \/ Pays(r, "paid", "none") \/ Pays(r, "paid", "final")

Spec == Init /\ [][Next]_vars
=============================================================================
