---------------------------- MODULE LedgerProofs ----------------------------
(***************************************************************************)
(* Lemmas about the transactions of the module Ledger, for the proofs of   *)
(* the machines that run them.                                             *)
(***************************************************************************)
EXTENDS Ledger, TLAPS

\* The four tables, and the columns of their rows.
Columns(d) ==
  /\ DOMAIN d = {"payments", "orders", "addresses", "balances"}
  /\ DOMAIN d.payments = Transfers /\ DOMAIN d.orders = Orders
  /\ DOMAIN d.addresses = Addresses
  /\ \A t \in Transfers : DOMAIN d.payments[t] =
       {"status", "order", "height", "block", "time", "confirmed"}
  /\ \A o \in Orders : DOMAIN d.orders[o] =
       {"status", "address", "asset", "expected", "received", "created", "expires",
        "resolved", "told"}
  /\ \A a \in Addresses : DOMAIN d.addresses[a] = {"state", "order", "released", "until"}

\* An order's row after its payments were summed again, and after the solidity head:
\* the ledger moves an order among the live statuses only, to end it is for others.
Keeps(old, new) ==
  new.address = old.address /\ new.created = old.created /\ new.expected = old.expected
Resummed(old, new) ==
  /\ Keeps(old, new)
  /\ \/ new.status = old.status
     \/ old.status \in Live /\ new.status \in Open
Moves(old, new) ==
  /\ Keeps(old, new)
  /\ \/ new.status = old.status
     \/ old.status \in Live /\ new.status \in Live

-----------------------------------------------------------------------------
(* What each step of a transaction leaves alone.                             *)

\* A recalculated order keeps its columns, and moves only if it is live (RecalculateOrder).
LEMMA RecalculatedKeeps ==
  ASSUME NEW d, NEW o \in Orders, NEW transition, Columns(d)
  PROVE  LET r == Recalculated(d, o, transition) IN
         /\ DOMAIN r = DOMAIN d.orders[o]
         /\ Resummed(d.orders[o], r)
<1> DEFINE r == Recalculated(d, o, transition)
<1>1. DOMAIN d.orders[o] = {"status", "address", "asset", "expected", "received", "created",
                            "expires", "resolved", "told"}
  BY DEF Columns
<1>2. \E sum, status : /\ r = [d.orders[o] EXCEPT !.received = sum, !.status = status]
                      /\ \/ status = d.orders[o].status
                         \/ d.orders[o].status \in Live /\ status \in Open
  BY DEF Recalculated, Open
<1>3. PICK sum, status : /\ r = [d.orders[o] EXCEPT !.received = sum, !.status = status]
                         /\ \/ status = d.orders[o].status
                            \/ d.orders[o].status \in Live /\ status \in Open
  BY <1>2
<1> HIDE DEF r
<1>4. DOMAIN r = DOMAIN d.orders[o] /\ Resummed(d.orders[o], r)
  BY <1>1, <1>3 DEF Resummed, Keeps
<1>5. QED
  BY <1>4 DEF r

\* The upsert takes the sighting, and the status only of a new or an orphaned row (UpsertPayment).
LEMMA UpsertedRowKeeps ==
  ASSUME NEW p, NEW status, NEW order, NEW s,
         DOMAIN p = {"status", "order", "height", "block", "time", "confirmed"}
  PROVE  LET r == UpsertedRow(p, status, order, s) IN
         /\ DOMAIN r = DOMAIN p
         /\ r.height = s.height /\ r.block = s.block /\ r.time = s.time
         /\ r.status = IF p.status \in {"none", "orphaned"} THEN status ELSE p.status
BY DEF UpsertedRow

-----------------------------------------------------------------------------
(* Balances.  A balance depends on the payment rows alone, and rewriting     *)
(* those of the rows that changed keeps all of them current.                 *)

\* A balance does not depend on the rows of other accounts and assets.
LEMMA BalanceOfPayments ==
  ASSUME NEW d, NEW e, NEW a, NEW s, NEW S,
         \A t \in Transfers \ S : e.payments[t] = d.payments[t],
         \A t \in S \cap Transfers : ~(a \in Holders(t) /\ AssetOf[t] = s)
  PROVE  BalanceOf(e, a, s) = BalanceOf(d, a, s)
<1> DEFINE mine(x) == {t \in Transfers :
                         Counts(x.payments[t]) /\ AssetOf[t] = s /\ a \in Holders(t)}
           settled(x) == {t \in mine(x) : IsSettled(x.payments[t])}
<1>1. mine(e) = mine(d)
  OBVIOUS
<1>2. settled(e) = settled(d)
  BY <1>1
<1>3. QED
  BY <1>1, <1>2 DEF BalanceOf

\* Whether the balances are current depends on payments and balances alone.
LEMMA BalancedDepends ==
  ASSUME NEW d, NEW e, e.payments = d.payments, e.balances = d.balances
  PROVE  Balanced(d) => Balanced(e)
BY DEF Balanced, BalanceOf

\* Balances stay current if those of every row that changed are written (recalculateBalance).
LEMMA RebalancedBalances ==
  ASSUME NEW d, NEW w, NEW e, NEW S,
         Balanced(d),
         \A t \in Transfers \ S : w.payments[t] = d.payments[t],
         S \subseteq Transfers,
         w.balances = d.balances,
         e.payments = w.payments, e.balances = Rebalanced(w, S)
  PROVE  Balanced(e)
<1> SUFFICES ASSUME NEW a \in Addresses, NEW s \in Assets
             PROVE  e.balances[a][s] = BalanceOf(e, a, s)
  BY DEF Balanced
<1>1. BalanceOf(e, a, s) = BalanceOf(w, a, s)
  BY DEF BalanceOf
<1>2. CASE \E t \in S : a \in Holders(t) /\ AssetOf[t] = s
  BY <1>1, <1>2 DEF Rebalanced
<1>3. CASE ~\E t \in S : a \in Holders(t) /\ AssetOf[t] = s
  <2>1. e.balances[a][s] = d.balances[a][s]
    BY <1>3 DEF Rebalanced
  <2>2. BalanceOf(w, a, s) = BalanceOf(d, a, s)
    BY <1>3, BalanceOfPayments
  <2>3. QED
    BY <1>1, <2>1, <2>2 DEF Balanced
<1>4. QED
  BY <1>2, <1>3

-----------------------------------------------------------------------------
(* The transactions.                                                         *)

\* Ingestion writes one row, its order and the balances it touches (UpsertPayment).
LEMMA UpsertPaymentEffect ==
  ASSUME NEW d, NEW t \in Transfers, NEW status, NEW order \in Orders \cup {NoOrder}, NEW s,
         Columns(d), d.payments[t].order \in Orders \cup {NoOrder}
  PROVE  LET e == UpsertPayment(d, t, status, order, s) IN
         /\ Columns(e)
         /\ e.payments = [d.payments EXCEPT ![t] = UpsertedRow(d.payments[t], status, order, s)]
         /\ e.addresses = d.addresses
         /\ \A o \in Orders : Resummed(d.orders[o], e.orders[o])
         /\ Balanced(d) => Balanced(e)
<1> DEFINE old == d.payments[t]
           owner == IF old.order # NoOrder THEN old.order ELSE order
           row == UpsertedRow(old, status, order, s)
           w == [d EXCEPT !.payments[t] = row]
           e == UpsertPayment(d, t, status, order, s)
<1>1. /\ w.payments = [d.payments EXCEPT ![t] = row]
      /\ w.orders = d.orders /\ w.addresses = d.addresses /\ w.balances = d.balances
      /\ DOMAIN w = DOMAIN d
  BY DEF Columns
<1>2. DOMAIN row = DOMAIN old
  <2>1. DOMAIN old = {"status", "order", "height", "block", "time", "confirmed"}
    BY DEF Columns
  <2>2. QED
    BY <2>1, UpsertedRowKeeps
<1>3. Columns(w)
  BY <1>1, <1>2 DEF Columns
<1>4. /\ DOMAIN e = DOMAIN w /\ e.payments = w.payments /\ e.addresses = w.addresses
      /\ e.balances = Rebalanced(w, {t})
      /\ e.orders = IF owner = NoOrder THEN w.orders
                    ELSE [w.orders EXCEPT ![owner] = Recalculated(w, owner, t \notin Dust)]
  BY <1>3 DEF UpsertPayment, Columns
<1>5. Columns(e)
  <2>1. CASE owner = NoOrder
    BY <1>3, <1>4, <2>1 DEF Columns
  <2>2. CASE owner # NoOrder
    <3>1. owner \in Orders
      BY <2>2
    <3>2. DOMAIN Recalculated(w, owner, t \notin Dust) = DOMAIN w.orders[owner]
      BY <1>3, <3>1, RecalculatedKeeps
    <3>3. QED
      BY <1>3, <1>4, <2>2, <3>1, <3>2 DEF Columns
  <2>3. QED
    BY <2>1, <2>2
<1>6. Balanced(d) => Balanced(e)
  BY <1>1, <1>4, RebalancedBalances DEF Columns
<1>7. ASSUME NEW o \in Orders
      PROVE  Resummed(d.orders[o], e.orders[o])
  <2>1. \/ e.orders[o] = w.orders[o]
        \/ e.orders[o] = Recalculated(w, o, t \notin Dust)
    BY <1>3, <1>4 DEF Columns
  <2>2. Resummed(w.orders[o], Recalculated(w, o, t \notin Dust))
    BY <1>3, RecalculatedKeeps
  <2>3. QED
    BY <1>1, <2>1, <2>2 DEF Resummed, Keeps
<1>8. QED
  BY <1>1, <1>4, <1>5, <1>6, <1>7

\* A matched payment is seen or unattributed, and every balance stays current (Match).
LEMMA MatchEffect ==
  ASSUME NEW d, NEW t \in Transfers, NEW s,
         Columns(d), NoOrder \notin Orders, d.payments[t].order \in Orders \cup {NoOrder},
         d.addresses[Account(t)].order \in Orders \cup {NoOrder},
         NEW e, e = Match(d, t, s)
  PROVE  /\ Columns(e)
         /\ e.addresses = d.addresses
         /\ OrderFor(d, t, s.time) \in Orders \cup {NoOrder}
         /\ \E status \in {"seen", "unattributed"} :
              e.payments = [d.payments EXCEPT ![t] =
                UpsertedRow(d.payments[t], status, OrderFor(d, t, s.time), s)]
         /\ \A o \in Orders : Resummed(d.orders[o], e.orders[o])
         /\ Balanced(d) => Balanced(e)
<1> DEFINE o == OrderFor(d, t, s.time)
           status == IF Direction(t) = "in" /\ o = NoOrder THEN "unattributed" ELSE "seen"
           after == UpsertPayment(d, t, status, o, s)
<1>1. o \in Orders \cup {NoOrder}
  BY DEF OrderFor
<1>2. /\ Columns(after) /\ after.addresses = d.addresses
      /\ after.payments = [d.payments EXCEPT ![t] = UpsertedRow(d.payments[t], status, o, s)]
      /\ \A x \in Orders : Resummed(d.orders[x], after.orders[x])
      /\ Balanced(d) => Balanced(after)
  BY <1>1, UpsertPaymentEffect
<1>3. /\ Columns(e) /\ e.payments = after.payments /\ e.addresses = after.addresses
      /\ e.balances = after.balances
      /\ \A x \in Orders : /\ Keeps(after.orders[x], e.orders[x])
                           /\ e.orders[x].status = after.orders[x].status
  <2>1. CASE e = after
    BY <1>2, <2>1 DEF Keeps
  <2>2. CASE e # after
    <3>1. o # NoOrder /\ \E told : e = [after EXCEPT !.orders[o].told = told]
      BY <2>2 DEF Match
    <3>2. PICK told : e = [after EXCEPT !.orders[o].told = told]
      BY <3>1
    <3>3. QED
      BY <1>1, <1>2, <3>1, <3>2 DEF Columns, Keeps
  <2>3. QED
    BY <2>1, <2>2
<1>4. Balanced(d) => Balanced(e)
  BY <1>2, <1>3, BalancedDepends
<1>5. status \in {"seen", "unattributed"}
  OBVIOUS
<1>6. QED
  <2> HIDE DEF after, o, status
  <2>1. e.payments = [d.payments EXCEPT ![t] = UpsertedRow(d.payments[t], status, o, s)]
    BY <1>2, <1>3
  <2>2. /\ Columns(e) /\ e.addresses = d.addresses
        /\ \A x \in Orders : Resummed(d.orders[x], e.orders[x])
        /\ Balanced(d) => Balanced(e)
    BY <1>2, <1>3, <1>4 DEF Resummed, Keeps
  <2>3. \E st \in {"seen", "unattributed"} :
           e.payments = [d.payments EXCEPT ![t] = UpsertedRow(d.payments[t], st, o, s)]
    BY <1>5, <2>1
  <2>4. QED
    BY <1>1, <2>2, <2>3 DEF o

\* Orders that lost payments keep their columns and stay live (revertOrders).
LEMMA RevertedKeeps ==
  ASSUME NEW d, NEW S, Columns(d), NEW r, r = Reverted(d, S)
  PROVE  /\ DOMAIN r = Orders
         /\ \A o \in Orders : /\ DOMAIN r[o] = DOMAIN d.orders[o]
                              /\ Resummed(d.orders[o], r[o])
<1>1. DOMAIN r = Orders
  BY DEF Reverted
<1> SUFFICES ASSUME NEW o \in Orders
             PROVE  /\ DOMAIN r[o] = DOMAIN d.orders[o]
                    /\ Resummed(d.orders[o], r[o])
  BY <1>1
<1> DEFINE sum == Recalculated(d, o, TRUE)
<1>2. /\ DOMAIN sum = DOMAIN d.orders[o]
      /\ Resummed(d.orders[o], sum)
  BY RecalculatedKeeps
<1> HIDE DEF sum
<1>3. \/ r[o] = d.orders[o] \/ r[o] = sum
      \/ r[o] = [sum EXCEPT !.told = "reverted"]
  BY DEF Reverted, sum
<1>4. DOMAIN sum = {"status", "address", "asset", "expected", "received", "created", "expires",
                   "resolved", "told"}
  BY <1>2 DEF Columns
<1>5. QED
  BY <1>2, <1>3, <1>4 DEF Resummed, Keeps

\* A rewind orphans exactly what is above the ancestor (RewindChain).
LEMMA RewindLedgerEffect ==
  ASSUME NEW d, NEW ancestor, Columns(d), NEW e, e = RewindLedger(d, ancestor)
  PROVE  /\ Columns(e)
         /\ e.addresses = d.addresses
         /\ e.payments = [t \in Transfers |->
              IF d.payments[t].status # "none" /\ d.payments[t].height > ancestor
                THEN [d.payments[t] EXCEPT !.status = "orphaned"] ELSE d.payments[t]]
         /\ \A o \in Orders : Resummed(d.orders[o], e.orders[o])
         /\ Balanced(d) => Balanced(e)
<1> DEFINE lost == {t \in Transfers :
                      d.payments[t].status # "none" /\ d.payments[t].height > ancestor}
           w == [d EXCEPT !.payments = [t \in Transfers |->
                   IF t \in lost THEN [@[t] EXCEPT !.status = "orphaned"] ELSE @[t]]]
           orders == Reverted(w, OrdersOf(d, lost))
<1>1. /\ w.payments = [t \in Transfers |->
            IF t \in lost THEN [d.payments[t] EXCEPT !.status = "orphaned"] ELSE d.payments[t]]
      /\ w.orders = d.orders /\ w.addresses = d.addresses /\ w.balances = d.balances
      /\ DOMAIN w = DOMAIN d
  BY DEF Columns
<1>2. Columns(w)
  BY <1>1 DEF Columns
<1>3. /\ DOMAIN orders = Orders
      /\ \A o \in Orders : /\ DOMAIN orders[o] = DOMAIN w.orders[o]
                           /\ Resummed(w.orders[o], orders[o])
  BY <1>2, RevertedKeeps
<1>4. /\ e.payments = w.payments /\ e.addresses = w.addresses /\ e.orders = orders
      /\ e.balances = Rebalanced(w, lost) /\ DOMAIN e = DOMAIN w
  BY <1>2 DEF RewindLedger, Columns
<1> HIDE DEF lost, w, orders
<1>5. ASSUME Balanced(d) PROVE Balanced(e)
  <2>1. lost \subseteq Transfers
    BY DEF lost
  <2>2. \A t \in Transfers \ lost : w.payments[t] = d.payments[t]
    BY <1>1
  <2>3. QED
    BY <1>1, <1>4, <1>5, <2>1, <2>2, RebalancedBalances
<1>6. e.payments = [t \in Transfers |->
        IF d.payments[t].status # "none" /\ d.payments[t].height > ancestor
          THEN [d.payments[t] EXCEPT !.status = "orphaned"] ELSE d.payments[t]]
  BY <1>1, <1>4 DEF lost
<1>7. Columns(e)
  BY <1>2, <1>3, <1>4 DEF Columns
<1>8. QED
  BY <1>1, <1>3, <1>4, <1>5, <1>6, <1>7

\* An address only leaves its order, to cool.
AddressMoves(old, new) ==
  /\ new.order = old.order
  /\ \/ new = old
     \/ old.state = "assigned" /\ new.state = "cooling"

\* Cooling changes addresses only, and only those assigned.
LEMMA CoolEffect ==
  ASSUME NEW d, NEW S, NEW now, Columns(d), NEW e, e = Cool(d, S, now)
  PROVE  /\ Columns(e)
         /\ e.payments = d.payments /\ e.orders = d.orders /\ e.balances = d.balances
         /\ \A a \in Addresses : AddressMoves(d.addresses[a], e.addresses[a])
         /\ \A a \in Addresses : a \in S => e.addresses[a].state # "assigned"
         /\ \A a \in Addresses : a \notin S => e.addresses[a] = d.addresses[a]
<1>1. /\ e.payments = d.payments /\ e.orders = d.orders /\ e.balances = d.balances
      /\ DOMAIN e = DOMAIN d
      /\ e.addresses = [a \in Addresses |->
           IF a \in S /\ d.addresses[a].state = "assigned"
             THEN [d.addresses[a] EXCEPT !.state = "cooling", !.released = now,
                                         !.until = now + Cooldown]
             ELSE d.addresses[a]]
  BY DEF Cool, Columns
<1>2. Columns(e)
  BY <1>1 DEF Columns
<1>3. ASSUME NEW a \in Addresses
      PROVE  /\ AddressMoves(d.addresses[a], e.addresses[a])
             /\ a \in S => e.addresses[a].state # "assigned"
             /\ a \notin S => e.addresses[a] = d.addresses[a]
  <2>1. DOMAIN d.addresses[a] = {"state", "order", "released", "until"}
    BY DEF Columns
  <2>2. CASE a \in S /\ d.addresses[a].state = "assigned"
    <3>1. e.addresses[a] = [d.addresses[a] EXCEPT !.state = "cooling", !.released = now,
                                                 !.until = now + Cooldown]
      BY <1>1, <2>2
    <3>2. e.addresses[a].state = "cooling" /\ e.addresses[a].order = d.addresses[a].order
      BY <2>1, <3>1
    <3>3. QED
      BY <2>2, <3>2 DEF AddressMoves
  <2>3. CASE ~(a \in S /\ d.addresses[a].state = "assigned")
    BY <1>1, <2>3 DEF AddressMoves
  <2>4. QED
    BY <2>2, <2>3
<1>4. QED
  BY <1>1, <1>2, <1>3

\* An address that stays assigned keeps its open orders open.
Served(d, e) ==
  \A a \in Addresses : \A o \in Orders :
    e.addresses[a].state = "assigned" /\ d.orders[o].address = a /\ d.orders[o].status \in Open
    => e.orders[o].status \in Open

\* An address leaves only an open order of it, which ends.
Freed(d, e) ==
  \A a \in Addresses : e.addresses[a] # d.addresses[a] =>
    \E o \in Orders : /\ d.orders[o].address = a
                      /\ d.orders[o].status \in Open /\ e.orders[o].status \notin Open

\* Promotion confirms paid orders and lets their addresses rest (promotePaidOrders).
LEMMA PromotePaidOrdersEffect ==
  ASSUME NEW d, NEW now, Columns(d), NEW e, e = PromotePaidOrders(d, now)
  PROVE  /\ Columns(e)
         /\ e.payments = d.payments /\ e.balances = d.balances
         /\ \A o \in Orders : Moves(d.orders[o], e.orders[o])
         /\ \A a \in Addresses : AddressMoves(d.addresses[a], e.addresses[a])
         /\ Served(d, e) /\ Freed(d, e)
<1> DEFINE done == {o \in Orders : /\ d.orders[o].status = "paid"
                                   /\ Contributing(d, o) # {}
                                   /\ \A t \in Contributing(d, o) :
                                        d.payments[t].status = "confirmed"}
           w == [d EXCEPT !.orders = [o \in Orders |->
                   IF o \in done THEN [@[o] EXCEPT !.status = "confirmed", !.told = "confirmed"]
                                 ELSE @[o]]]
<1> HIDE DEF done
<1>1. /\ w.payments = d.payments /\ w.addresses = d.addresses /\ w.balances = d.balances
      /\ DOMAIN w = DOMAIN d
      /\ w.orders = [o \in Orders |->
           IF o \in done THEN [d.orders[o] EXCEPT !.status = "confirmed", !.told = "confirmed"]
                         ELSE d.orders[o]]
  BY DEF Columns
<1>2. Columns(w)
  BY <1>1 DEF Columns
<1>3. ASSUME NEW o \in Orders
      PROVE  Moves(d.orders[o], w.orders[o])
  <2>1. o \in done => d.orders[o].status = "paid"
    BY DEF done
  <2>2. QED
    BY <1>1, <2>1 DEF Moves, Keeps, Live, Open, Columns
<1> DEFINE places == {d.orders[o].address : o \in done}
<1>4. e = Cool(w, places, now)
  BY DEF PromotePaidOrders, done
<1> HIDE DEF w, places
<1>5. /\ Columns(e)
      /\ e.payments = w.payments /\ e.orders = w.orders /\ e.balances = w.balances
      /\ \A a \in Addresses : AddressMoves(w.addresses[a], e.addresses[a])
      /\ \A a \in Addresses : a \in places => e.addresses[a].state # "assigned"
      /\ \A a \in Addresses : a \notin places => e.addresses[a] = w.addresses[a]
  BY <1>2, <1>4, CoolEffect
<1>6. ASSUME NEW o \in Orders
      PROVE  /\ o \notin done => e.orders[o] = d.orders[o]
             /\ o \in done => e.orders[o].status = "confirmed"
  <2>1. e.orders[o] = IF o \in done
          THEN [d.orders[o] EXCEPT !.status = "confirmed", !.told = "confirmed"]
          ELSE d.orders[o]
    <3>1. e.orders = w.orders
      BY <1>5
    <3> QED BY <1>1, <3>1
  <2>2. CASE o \in done
    <3>1. "status" \in DOMAIN d.orders[o]
      BY DEF Columns
    <3>2. e.orders[o] = [d.orders[o] EXCEPT !.status = "confirmed", !.told = "confirmed"]
      BY <2>1, <2>2
    <3> QED BY <2>2, <3>1, <3>2
  <2>3. QED
    BY <2>1, <2>2
<1>7. Served(d, e)
  <2> SUFFICES ASSUME NEW o \in Orders, d.orders[o].address \in Addresses,
                      e.addresses[d.orders[o].address].state = "assigned",
                      d.orders[o].status \in Open
               PROVE  e.orders[o].status \in Open
    BY DEF Served
  <2>1. o \notin done
    BY <1>5 DEF places
  <2>2. QED
    BY <1>6, <2>1
<1>8. Freed(d, e)
  <2> SUFFICES ASSUME NEW a \in Addresses, e.addresses[a] # d.addresses[a]
               PROVE  \E o \in Orders : /\ d.orders[o].address = a
                                        /\ d.orders[o].status \in Open
                                        /\ e.orders[o].status \notin Open
    BY DEF Freed
  <2>1. PICK o \in done : d.orders[o].address = a
    BY <1>1, <1>5 DEF places
  <2>2. o \in Orders /\ d.orders[o].status = "paid"
    BY DEF done
  <2>3. e.orders[o].status = "confirmed"
    BY <1>6, <2>1, <2>2
  <2>4. QED
    BY <2>1, <2>2, <2>3 DEF Open
<1>9. QED
  BY <1>1, <1>3, <1>5, <1>7, <1>8

\* A solidity head decides rows, moves live orders only, and keeps every balance.
LEMMA ApplySolidifiedLedgerEffect ==
  ASSUME NEW d, NEW c, NEW now, Columns(d), NEW e, e = ApplySolidifiedLedger(d, c, now)
  PROVE  /\ Columns(e)
         /\ e.payments = [t \in Transfers |->
              Judged(d.payments[t], t \in Mismatched(d, c), t \in Promotable(d, c))]
         /\ \A o \in Orders : Moves(d.orders[o], e.orders[o])
         /\ \A a \in Addresses : AddressMoves(d.addresses[a], e.addresses[a])
         /\ Served(d, e)
         /\ Mismatched(d, c) = {} => Freed(d, e)
         /\ Balanced(d) => Balanced(e)
<1> DEFINE bad == Mismatched(d, c)
           good == Promotable(d, c)
           rows == [t \in Transfers |-> Judged(d.payments[t], t \in bad, t \in good)]
           w == [d EXCEPT !.payments = rows]
           orders == Reverted(w, OrdersOf(d, bad))
           r == [w EXCEPT !.orders = orders, !.balances = Rebalanced(w, bad \cup good)]
<1> HIDE DEF bad, good
<1>1. /\ w.payments = rows
      /\ w.orders = d.orders /\ w.addresses = d.addresses /\ w.balances = d.balances
      /\ DOMAIN w = DOMAIN d
  BY DEF Columns
<1>2. e = PromotePaidOrders(r, now)
  BY DEF ApplySolidifiedLedger, bad, good
<1> HIDE DEF w
<1>3. Columns(w)
  BY <1>1 DEF Columns, Judged
<1>4. /\ DOMAIN orders = Orders
      /\ \A o \in Orders : /\ DOMAIN orders[o] = DOMAIN w.orders[o]
                           /\ Resummed(w.orders[o], orders[o])
  BY <1>3, RevertedKeeps
<1> HIDE DEF orders
<1>5. /\ r.payments = w.payments /\ r.orders = orders /\ r.addresses = w.addresses
      /\ r.balances = Rebalanced(w, bad \cup good) /\ DOMAIN r = DOMAIN w
  BY <1>3 DEF Columns
<1> HIDE DEF r
<1>6. Columns(r)
  BY <1>3, <1>4, <1>5 DEF Columns
<1>7. /\ Columns(e)
      /\ e.payments = r.payments /\ e.balances = r.balances
      /\ \A o \in Orders : Moves(r.orders[o], e.orders[o])
      /\ \A a \in Addresses : AddressMoves(r.addresses[a], e.addresses[a])
      /\ Served(r, e) /\ Freed(r, e)
  BY <1>2, <1>6, PromotePaidOrdersEffect
<1>8. ASSUME NEW o \in Orders
      PROVE  Moves(d.orders[o], e.orders[o])
  <2>1. /\ Moves(d.orders[o], orders[o])
        /\ Moves(orders[o], e.orders[o])
    BY <1>1, <1>4, <1>5, <1>7 DEF Resummed, Moves, Live
  <2>2. QED
    BY <2>1 DEF Moves, Keeps
<1>9. ASSUME Balanced(d) PROVE Balanced(e)
  <2>1. bad \cup good \subseteq Transfers
    BY DEF bad, good, Mismatched, Promotable, Waiting
  <2>2. \A t \in Transfers \ (bad \cup good) : w.payments[t] = d.payments[t]
    BY <1>1 DEF Judged
  <2>3. Balanced(r)
    BY <1>1, <1>5, <1>9, <2>1, <2>2, RebalancedBalances
  <2>4. QED
    BY <1>7, <2>3, BalancedDepends
<1>10. Served(d, e)
  <2>1. ASSUME NEW o \in Orders
        PROVE  /\ r.orders[o].address = d.orders[o].address
               /\ d.orders[o].status \in Open => r.orders[o].status \in Open
    BY <1>1, <1>4, <1>5 DEF Resummed, Keeps
  <2>2. QED
    BY <1>7, <2>1 DEF Served
<1>11. bad = {} => Freed(d, e)
  <2> SUFFICES ASSUME bad = {} PROVE Freed(d, e)
    OBVIOUS
  <2>1. \A o \in Orders : orders[o] = d.orders[o]
    BY <1>1 DEF orders, Reverted, OrdersOf
  <2>2. QED
    BY <1>1, <1>5, <1>7, <2>1 DEF Freed
<1>12. QED
  BY <1>1, <1>5, <1>7, <1>8, <1>9, <1>10, <1>11 DEF bad, good

-----------------------------------------------------------------------------
(* What an order is worth.                                                   *)

\* The terms of an order, which no transaction of the ledger changes.
Terms(old, new) ==
  /\ new.address = old.address /\ new.asset = old.asset
  /\ new.created = old.created /\ new.expected = old.expected

\* A live order is worth what its payments add up to; its status tells whether that is
\* enough, unless a payment is too small to be looked at.
Worth(d, o) ==
  d.orders[o].status \in Live =>
    /\ d.orders[o].received = Received(d, o)
    /\ Dust = {} => (d.orders[o].status \in {"paid", "confirmed"}
                       <=> d.orders[o].received >= d.orders[o].expected)

\* A recalculated order is worth its sum (RecalculateOrder).
LEMMA RecalculatedWorth ==
  ASSUME NEW d, NEW o \in Orders, NEW transition \in BOOLEAN, Columns(d),
         NEW r, r = Recalculated(d, o, transition)
  PROVE  /\ Terms(d.orders[o], r) /\ r.received = Received(d, o)
         /\ r.status \in Live => d.orders[o].status \in Live
         /\ r.status \in Live /\ transition
              => (r.status \in {"paid", "confirmed"} <=> r.received >= r.expected)
<1> DEFINE sum == Received(d, o)
           old == d.orders[o]
           status == IF transition /\ old.status \in Live
                       THEN IF sum >= old.expected THEN "paid"
                            ELSE IF sum = 0 THEN "pending" ELSE "partial"
                       ELSE old.status
<1>1. DOMAIN old = {"status", "address", "asset", "expected", "received", "created", "expires",
                    "resolved", "told"}
  BY DEF Columns
<1>2. r = [old EXCEPT !.received = sum, !.status = status]
  BY DEF Recalculated
<1> HIDE DEF sum, old, status
<1>3. r.received = sum /\ r.status = status /\ r.expected = old.expected /\ Terms(old, r)
  BY <1>1, <1>2 DEF Terms
<1>4. status \in Live => old.status \in Live
  BY DEF status, Live, Open
<1>5. status \in Live /\ transition => (status \in {"paid", "confirmed"} <=> sum >= old.expected)
  BY <1>4 DEF status
<1> QED BY <1>3, <1>4, <1>5 DEF sum, old

\* An order has the same payments as long as its terms, its window and its rows are the same.
LEMMA ContributingSame ==
  ASSUME NEW d, NEW e, NEW o, Terms(d.orders[o], e.orders[o]),
         e.addresses[d.orders[o].address].released = d.addresses[d.orders[o].address].released,
         \A t \in Transfers : e.payments[t].order = o /\ Counts(e.payments[t])
                                <=> d.payments[t].order = o /\ Counts(d.payments[t]),
         \A t \in Transfers : d.payments[t].order = o /\ Counts(d.payments[t])
                                => e.payments[t].time = d.payments[t].time
  PROVE  Contributing(e, o) = Contributing(d, o) /\ Received(e, o) = Received(d, o)
<1>1. Contributing(e, o) = Contributing(d, o)
  BY DEF Contributing, Terms
<1> QED BY <1>1 DEF Received, Terms

\* Ingestion sums the order that has the payment, and gives no other order a payment.
LEMMA UpsertPaymentWorth ==
  ASSUME NEW d, NEW t \in Transfers, NEW status, NEW order \in Orders \cup {NoOrder}, NEW s,
         Columns(d), NoOrder \notin Orders, d.payments[t].order \in Orders \cup {NoOrder},
         d.payments[t].status = "none" => d.payments[t].order = NoOrder,
         NEW e, e = UpsertPayment(d, t, status, order, s), NEW o \in Orders, Worth(d, o)
  PROVE  Worth(e, o) /\ Terms(d.orders[o], e.orders[o])
<1> DEFINE old == d.payments[t]
           owner == IF old.order # NoOrder THEN old.order ELSE order
           row == UpsertedRow(old, status, order, s)
           w == [d EXCEPT !.payments[t] = row]
           orders == IF owner = NoOrder THEN w.orders
                     ELSE [w.orders EXCEPT ![owner] = Recalculated(w, owner, t \notin Dust)]
<1>1. /\ w.payments = [d.payments EXCEPT ![t] = row]
      /\ w.orders = d.orders /\ w.addresses = d.addresses /\ DOMAIN w = DOMAIN d
  BY DEF Columns
<1>2. DOMAIN old = {"status", "order", "height", "block", "time", "confirmed"}
  BY DEF Columns
<1>3. /\ DOMAIN row = DOMAIN old
      /\ row.order = old.order \/ (old.status = "none" /\ row.order = order)
  BY <1>2 DEF UpsertedRow
<1>4. Columns(w)
  BY <1>1, <1>3 DEF Columns
<1>5. e.payments = w.payments /\ e.addresses = w.addresses /\ e.orders = orders
  BY <1>1, <1>4 DEF UpsertPayment, Columns
<1>6. owner \in Orders \cup {NoOrder}
  OBVIOUS
<1>7. o # owner => old.order # o /\ row.order # o
  BY <1>3
<1>8. w.payments[t] = row /\ \A u \in Transfers \ {t} : w.payments[u] = d.payments[u]
  BY <1>1 DEF Columns
<1> HIDE DEF w, row, owner
<1>9. CASE o # owner
  <2>1. e.orders[o] = d.orders[o]
    BY <1>1, <1>4, <1>5, <1>6, <1>9 DEF Columns
  <2>2. \A u \in Transfers : e.payments[u].order = o => u # t /\ e.payments[u] = d.payments[u]
    BY <1>5, <1>7, <1>8, <1>9
  <2>3. \A u \in Transfers : d.payments[u].order = o => u # t /\ e.payments[u] = d.payments[u]
    BY <1>5, <1>7, <1>8, <1>9
  <2>4. Terms(d.orders[o], e.orders[o])
    BY <2>1 DEF Terms
  <2>5. Received(e, o) = Received(d, o)
    <3>1. e.addresses = d.addresses
      BY <1>1, <1>5
    <3>2. \A u \in Transfers :
            /\ e.payments[u].order = o /\ Counts(e.payments[u])
                 <=> d.payments[u].order = o /\ Counts(d.payments[u])
            /\ d.payments[u].order = o => e.payments[u].time = d.payments[u].time
      BY <2>2, <2>3
    <3> HIDE DEF old, orders
    <3> QED BY <2>4, <3>1, <3>2, ContributingSame
  <2> QED BY <2>1, <2>4, <2>5 DEF Worth
<1>10. CASE o = owner
  <2> DEFINE r == Recalculated(w, o, t \notin Dust)
  <2>1. e.orders[o] = r
    BY <1>4, <1>5, <1>6, <1>10 DEF Columns
  <2>2. /\ Terms(w.orders[o], r) /\ r.received = Received(w, o)
        /\ r.status \in Live => w.orders[o].status \in Live
        /\ r.status \in Live /\ t \notin Dust
             => (r.status \in {"paid", "confirmed"} <=> r.received >= r.expected)
    BY <1>4, RecalculatedWorth
  <2> HIDE DEF r
  <2>3. Received(e, o) = Received(w, o)
    <3>1. Terms(w.orders[o], e.orders[o])
      BY <2>1, <2>2
    <3>2. e.payments = w.payments /\ e.addresses = w.addresses
      BY <1>5
    <3> HIDE DEF old, orders
    <3> QED BY <3>1, <3>2, ContributingSame
  <2> QED BY <1>1, <2>1, <2>2, <2>3 DEF Worth
<1> QED BY <1>9, <1>10

\* A payment that is matched leaves every order worth its payments (Match).
LEMMA MatchWorth ==
  ASSUME NEW d, NEW t \in Transfers, NEW s,
         Columns(d), NoOrder \notin Orders, d.payments[t].order \in Orders \cup {NoOrder},
         d.payments[t].status = "none" => d.payments[t].order = NoOrder,
         d.addresses[Account(t)].order \in Orders \cup {NoOrder},
         NEW e, e = Match(d, t, s), NEW o \in Orders, Worth(d, o)
  PROVE  Worth(e, o) /\ Terms(d.orders[o], e.orders[o])
<1> DEFINE x == OrderFor(d, t, s.time)
           status == IF Direction(t) = "in" /\ x = NoOrder THEN "unattributed" ELSE "seen"
           after == UpsertPayment(d, t, status, x, s)
<1>1. x \in Orders \cup {NoOrder}
  BY DEF OrderFor
<1>2. Columns(after)
  BY <1>1, UpsertPaymentEffect
<1>3. Worth(after, o) /\ Terms(d.orders[o], after.orders[o])
  BY <1>1, UpsertPaymentWorth
<1>4. e = after \/ (x # NoOrder /\ \E told : e = [after EXCEPT !.orders[x].told = told])
  BY DEF Match
<1> HIDE DEF x, status, after
<1>5. CASE e = after
  BY <1>3, <1>5
<1>6. CASE x # NoOrder /\ \E told : e = [after EXCEPT !.orders[x].told = told]
  <2>1. PICK told : e = [after EXCEPT !.orders[x].told = told]
    BY <1>6
  <2>2. /\ e.payments = after.payments /\ e.addresses = after.addresses
        /\ Terms(after.orders[o], e.orders[o])
        /\ e.orders[o].status = after.orders[o].status
        /\ e.orders[o].received = after.orders[o].received
    BY <1>1, <1>2, <1>6, <2>1 DEF Columns, Terms
  <2>3. Received(e, o) = Received(after, o)
    BY <2>2, ContributingSame
  <2> QED BY <1>3, <2>2, <2>3 DEF Worth, Terms
<1> QED BY <1>4, <1>5, <1>6

\* Orders in S are summed again, and a row that changed belongs to one of them (revertOrders).
LEMMA RevertedWorth ==
  ASSUME NEW d, NEW w, NEW e, NEW S, Columns(w), w.orders = d.orders, w.addresses = d.addresses,
         e.payments = w.payments, e.addresses = w.addresses, e.orders = Reverted(w, S),
         NEW o \in Orders, Worth(d, o),
         o \notin S => \A t \in Transfers :
           /\ w.payments[t].order = o /\ Counts(w.payments[t])
                <=> d.payments[t].order = o /\ Counts(d.payments[t])
           /\ w.payments[t].time = d.payments[t].time
  PROVE  Worth(e, o) /\ Terms(d.orders[o], e.orders[o])
<1>1. CASE o \notin S
  <2>1. e.orders[o] = d.orders[o]
    BY <1>1 DEF Reverted
  <2>2. Terms(d.orders[o], e.orders[o])
    BY <2>1 DEF Terms
  <2>3. Received(e, o) = Received(d, o)
    BY <1>1, <2>2, ContributingSame
  <2> QED BY <2>1, <2>2, <2>3 DEF Worth
<1>2. CASE o \in S
  <2> DEFINE r == Recalculated(w, o, TRUE)
  <2>1. /\ Terms(w.orders[o], r) /\ r.received = Received(w, o)
        /\ r.status \in Live => w.orders[o].status \in Live
        /\ r.status \in Live => (r.status \in {"paid", "confirmed"} <=> r.received >= r.expected)
    BY RecalculatedWorth
  <2>2. DOMAIN r = {"status", "address", "asset", "expected", "received", "created", "expires",
                    "resolved", "told"}
    <3>1. DOMAIN r = DOMAIN w.orders[o]
      BY RecalculatedKeeps
    <3> QED BY <3>1 DEF Columns
  <2>3. e.orders[o] = r \/ e.orders[o] = [r EXCEPT !.told = "reverted"]
    BY <1>2 DEF Reverted
  <2> HIDE DEF r
  <2>4. /\ Terms(r, e.orders[o]) /\ e.orders[o].status = r.status
        /\ e.orders[o].received = r.received /\ e.orders[o].expected = r.expected
    BY <2>2, <2>3 DEF Terms
  <2>5. Terms(w.orders[o], e.orders[o])
    BY <2>1, <2>4 DEF Terms
  <2>6. Received(e, o) = Received(w, o)
    BY <2>5, ContributingSame
  <2> QED BY <2>1, <2>4, <2>5, <2>6 DEF Worth
<1> QED BY <1>1, <1>2

\* A rewind leaves every order worth its payments that are left (RewindChain).
LEMMA RewindLedgerWorth ==
  ASSUME NEW d, NEW ancestor, Columns(d), NoOrder \notin Orders,
         NEW e, e = RewindLedger(d, ancestor), NEW o \in Orders, Worth(d, o)
  PROVE  Worth(e, o) /\ Terms(d.orders[o], e.orders[o])
<1> DEFINE lost == {t \in Transfers :
                      d.payments[t].status # "none" /\ d.payments[t].height > ancestor}
           w == [d EXCEPT !.payments = [t \in Transfers |->
                   IF t \in lost THEN [@[t] EXCEPT !.status = "orphaned"] ELSE @[t]]]
<1>1. /\ w.payments = [t \in Transfers |->
            IF t \in lost THEN [d.payments[t] EXCEPT !.status = "orphaned"] ELSE d.payments[t]]
      /\ w.orders = d.orders /\ w.addresses = d.addresses /\ w.balances = d.balances
      /\ DOMAIN w = DOMAIN d
  BY DEF Columns
<1>2. Columns(w)
  BY <1>1 DEF Columns
<1>3. /\ e.payments = w.payments /\ e.addresses = w.addresses
      /\ e.orders = Reverted(w, OrdersOf(d, lost))
  BY <1>2 DEF RewindLedger, Columns
<1>4. ASSUME o \notin OrdersOf(d, lost), NEW t \in Transfers
      PROVE  /\ w.payments[t].order = o /\ Counts(w.payments[t])
                  <=> d.payments[t].order = o /\ Counts(d.payments[t])
             /\ w.payments[t].time = d.payments[t].time
  <2>1. CASE t \in lost
    <3>1. d.payments[t].order # o
      BY <1>4, <2>1 DEF OrdersOf
    <3>2. w.payments[t].order = d.payments[t].order /\ w.payments[t].time = d.payments[t].time
      BY <1>1, <2>1 DEF Columns
    <3> QED BY <3>1, <3>2
  <2>2. CASE t \notin lost
    BY <1>1, <2>2
  <2> QED BY <2>1, <2>2
<1> HIDE DEF lost, w
<1> QED BY <1>1, <1>2, <1>3, <1>4, RevertedWorth

\* Payments and addresses belong to the orders they were assigned to: an assigned address
\* has no end of its window yet.
Bound(d) ==
  /\ \A t \in Transfers :
       /\ d.payments[t].status = "none" => d.payments[t].order = NoOrder
       /\ d.payments[t].order \in Orders => d.addresses[Account(t)].order = d.payments[t].order
  /\ \A a \in Addresses :
       /\ d.addresses[a].state = "assigned" => d.addresses[a].released = Never
       /\ d.addresses[a].order \in Orders => d.orders[d.addresses[a].order].address = a
  /\ \A o \in Orders : d.orders[o].address \in Addresses

\* A paid order that is confirmed is worth what it was.
LEMMA WorthKept ==
  ASSUME NEW d, NEW e, NEW o, Worth(d, o), Terms(d.orders[o], e.orders[o]),
         e.orders[o].received = d.orders[o].received, Received(e, o) = Received(d, o),
         \/ e.orders[o].status = d.orders[o].status
         \/ e.orders[o].status = "confirmed" /\ d.orders[o].status = "paid"
  PROVE  Worth(e, o)
BY DEF Worth, Terms, Live, Open

\* Promotion ends the windows of confirmed orders after their last payment, so that no
\* order loses one by it (promotePaidOrders).
LEMMA PromotePaidOrdersWorth ==
  ASSUME NEW d, NEW now, Columns(d), Bound(d), NoOrder \notin Orders,
         \A t \in Transfers : Account(t) \in Addresses,
         \A t \in Transfers :
           /\ Counts(d.payments[t]) => d.payments[t].time < Never
           /\ d.payments[t].status = "confirmed" => d.payments[t].time < now,
         NEW e, e = PromotePaidOrders(d, now), NEW o \in Orders, Worth(d, o)
  PROVE  Worth(e, o) /\ Terms(d.orders[o], e.orders[o])
<1> DEFINE done == {x \in Orders : /\ d.orders[x].status = "paid"
                                   /\ Contributing(d, x) # {}
                                   /\ \A t \in Contributing(d, x) :
                                        d.payments[t].status = "confirmed"}
           w == [d EXCEPT !.orders = [x \in Orders |->
                   IF x \in done THEN [@[x] EXCEPT !.status = "confirmed", !.told = "confirmed"]
                                 ELSE @[x]]]
           places == {d.orders[x].address : x \in done}
<1> HIDE DEF done
<1>1. /\ w.payments = d.payments /\ w.addresses = d.addresses /\ DOMAIN w = DOMAIN d
      /\ w.orders = [x \in Orders |->
           IF x \in done THEN [d.orders[x] EXCEPT !.status = "confirmed", !.told = "confirmed"]
                         ELSE d.orders[x]]
  BY DEF Columns
<1>2. e = Cool(w, places, now)
  BY DEF PromotePaidOrders, done
<1>3. /\ e.payments = d.payments /\ e.orders = w.orders
      /\ e.addresses = [a \in Addresses |->
           IF a \in places /\ d.addresses[a].state = "assigned"
             THEN [d.addresses[a] EXCEPT !.state = "cooling", !.released = now,
                                         !.until = now + Cooldown]
             ELSE d.addresses[a]]
  BY <1>1, <1>2 DEF Cool, Columns
<1>4. /\ Terms(d.orders[o], e.orders[o]) /\ e.orders[o].received = d.orders[o].received
      /\ \/ e.orders[o].status = d.orders[o].status
         \/ e.orders[o].status = "confirmed" /\ d.orders[o].status = "paid"
  <2>1. o \in done => d.orders[o].status = "paid"
    BY DEF done
  <2>2. \/ e.orders[o] = d.orders[o]
        \/ o \in done /\ e.orders[o] = [d.orders[o] EXCEPT !.status = "confirmed",
                                                           !.told = "confirmed"]
    <3>1. e.orders = [x \in Orders |->
            IF x \in done THEN [d.orders[x] EXCEPT !.status = "confirmed", !.told = "confirmed"]
                          ELSE d.orders[x]]
      BY <1>1, <1>3
    <3> HIDE DEF w, places
    <3> QED BY <3>1
  <2>3. DOMAIN d.orders[o] = {"status", "address", "asset", "expected", "received", "created",
                              "expires", "resolved", "told"}
    BY DEF Columns
  <2> QED BY <2>1, <2>2, <2>3 DEF Terms
<1> HIDE DEF w, places
<1> DEFINE a == d.orders[o].address
<1>5. a \in Addresses
  BY DEF Bound
<1>6. CASE e.addresses[a] = d.addresses[a]
  <2>1. e.payments = d.payments
    BY <1>3
  <2>2. Received(e, o) = Received(d, o)
    BY <1>4, <1>6, <2>1, ContributingSame
  <2> QED BY <1>4, <2>2, WorthKept
<1>7. CASE e.addresses[a] # d.addresses[a]
  <2>1. a \in places /\ d.addresses[a].state = "assigned"
    BY <1>3, <1>5, <1>7
  <2>2. d.addresses[a].released = Never /\ e.addresses[a].released = now
    <3>1. DOMAIN d.addresses[a] = {"state", "order", "released", "until"}
      BY <1>5 DEF Columns
    <3>2. e.addresses[a] = [d.addresses[a] EXCEPT !.state = "cooling", !.released = now,
                                                  !.until = now + Cooldown]
      BY <1>3, <1>5, <2>1
    <3>3. d.addresses[a].released = Never
      BY <1>5, <2>1 DEF Bound
    <3> QED BY <3>1, <3>2, <3>3
  <2>3. PICK x \in done : d.orders[x].address = a
    BY <2>1 DEF places
  <2>4. /\ x \in Orders /\ Contributing(d, x) # {}
        /\ \A t \in Contributing(d, x) : d.payments[t].status = "confirmed"
    BY <2>3 DEF done
  <2>5. ASSUME NEW y \in Orders, NEW t \in Transfers, d.payments[t].order = y,
               d.orders[y].address = a
        PROVE  d.addresses[a].order = y
    <3>1. d.addresses[Account(t)].order = y /\ d.orders[y].address = Account(t)
      BY <2>5 DEF Bound
    <3> QED BY <2>5, <3>1
  <2>6. d.addresses[a].order = x
    <3>1. PICK t \in Transfers : d.payments[t].order = x
      BY <2>4 DEF Contributing
    <3> QED BY <2>3, <2>4, <2>5, <3>1
  <2>7. ASSUME NEW t \in Transfers, d.payments[t].order = o PROVE o = x
    BY <2>5, <2>6, <2>7
  <2>8. Contributing(e, o) = Contributing(d, o)
    <3>1. ASSUME NEW t \in Contributing(d, o) PROVE t \in Contributing(e, o)
      <4>1. /\ t \in Transfers /\ d.payments[t].order = o /\ Counts(d.payments[t])
            /\ Direction(t) = "in" /\ AssetOf[t] = d.orders[o].asset
            /\ d.orders[o].created <= d.payments[t].time
        BY DEF Contributing
      <4>2. d.payments[t].time < now
        BY <2>4, <2>7, <4>1
      <4> QED BY <1>3, <1>4, <2>2, <4>1, <4>2 DEF Contributing, Terms
    <3>2. ASSUME NEW t \in Contributing(e, o) PROVE t \in Contributing(d, o)
      <4>1. /\ t \in Transfers /\ d.payments[t].order = o /\ Counts(d.payments[t])
            /\ Direction(t) = "in" /\ AssetOf[t] = d.orders[o].asset
            /\ d.orders[o].created <= d.payments[t].time
        BY <1>3, <1>4 DEF Contributing, Terms
      <4>2. d.payments[t].time < Never
        BY <4>1
      <4> QED BY <2>2, <4>1, <4>2 DEF Contributing
    <3> QED BY <3>1, <3>2
  <2>9. Received(e, o) = Received(d, o)
    BY <1>4, <2>8 DEF Received, Terms
  <2> QED BY <1>4, <2>9, WorthKept
<1> QED BY <1>6, <1>7

\* A solidity head leaves every order worth its payments, if it confirms none of the future.
LEMMA ApplySolidifiedLedgerWorth ==
  ASSUME NEW d, NEW c, NEW now, Columns(d), Bound(d), NoOrder \notin Orders,
         \A t \in Transfers : Account(t) \in Addresses,
         \A t \in Transfers : Counts(d.payments[t]) => d.payments[t].time < Never,
         NEW e, e = ApplySolidifiedLedger(d, c, now),
         \A t \in Transfers : e.payments[t].status = "confirmed" => e.payments[t].time < now,
         NEW o \in Orders, \A x \in Orders : Worth(d, x)
  PROVE  Worth(e, o) /\ Terms(d.orders[o], e.orders[o])
<1> DEFINE bad == Mismatched(d, c)
           good == Promotable(d, c)
           rows == [t \in Transfers |-> Judged(d.payments[t], t \in bad, t \in good)]
           w == [d EXCEPT !.payments = rows]
           r == [w EXCEPT !.orders = Reverted(w, OrdersOf(d, bad)),
                          !.balances = Rebalanced(w, bad \cup good)]
<1> HIDE DEF bad, good
<1>1. /\ w.payments = rows
      /\ w.orders = d.orders /\ w.addresses = d.addresses /\ w.balances = d.balances
      /\ DOMAIN w = DOMAIN d
  BY DEF Columns
<1>2. e = PromotePaidOrders(r, now)
  BY DEF ApplySolidifiedLedger, bad, good
<1> HIDE DEF w
<1>3. Columns(w)
  <2>1. \A t \in Transfers : DOMAIN rows[t] = DOMAIN d.payments[t]
    BY DEF Judged, Columns
  <2> HIDE DEF rows
  <2>2. DOMAIN rows = Transfers
    BY DEF rows
  <2> QED BY <1>1, <2>1, <2>2 DEF Columns
<1>4. /\ r.payments = w.payments /\ r.orders = Reverted(w, OrdersOf(d, bad))
      /\ r.addresses = w.addresses /\ DOMAIN r = DOMAIN w
  BY <1>3 DEF Columns
<1> HIDE DEF r
<1>5. Columns(r)
  <2>1. /\ DOMAIN r.orders = Orders
        /\ \A x \in Orders : DOMAIN r.orders[x] = DOMAIN w.orders[x]
    BY <1>3, <1>4, RevertedKeeps
  <2> QED BY <1>3, <1>4, <2>1 DEF Columns
<1>6. ASSUME NEW t \in Transfers
      PROVE  /\ r.payments[t].order = d.payments[t].order
             /\ r.payments[t].time = d.payments[t].time
             /\ r.payments[t].status = "none" => d.payments[t].status = "none"
             /\ Counts(r.payments[t]) => Counts(d.payments[t])
             /\ t \notin bad => (Counts(r.payments[t]) <=> Counts(d.payments[t]))
  <2>1. DOMAIN d.payments[t] = {"status", "order", "height", "block", "time", "confirmed"}
    BY DEF Columns
  <2>2. r.payments[t] = Judged(d.payments[t], t \in bad, t \in good)
    BY <1>1, <1>4
  <2>3. t \in good => d.payments[t].status \in {"seen", "unattributed"}
    BY DEF good, Promotable, Waiting
  <2> QED BY <2>1, <2>2, <2>3 DEF Judged, Counts
<1>7. ASSUME NEW x \in Orders PROVE Worth(r, x) /\ Terms(d.orders[x], r.orders[x])
  <2>1. ASSUME x \notin OrdersOf(d, bad), NEW t \in Transfers
        PROVE  /\ w.payments[t].order = x /\ Counts(w.payments[t])
                    <=> d.payments[t].order = x /\ Counts(d.payments[t])
               /\ w.payments[t].time = d.payments[t].time
    <3>1. x # NoOrder
      OBVIOUS
    <3>2. d.payments[t].order = x => t \notin bad
      BY <2>1, <3>1 DEF OrdersOf
    <3> QED BY <1>4, <1>6, <3>2
  <2> QED BY <1>1, <1>3, <1>4, <2>1, RevertedWorth
<1>8. Bound(r)
  BY <1>1, <1>4, <1>6, <1>7 DEF Bound, Terms
<1>9. e.payments = r.payments
  BY <1>2, <1>5, PromotePaidOrdersEffect
<1>10. \A t \in Transfers :
         /\ Counts(r.payments[t]) => r.payments[t].time < Never
         /\ r.payments[t].status = "confirmed" => r.payments[t].time < now
  BY <1>6, <1>9
<1>11. Worth(e, o) /\ Terms(r.orders[o], e.orders[o])
  BY <1>2, <1>5, <1>7, <1>8, <1>10, PromotePaidOrdersWorth
<1> QED BY <1>7, <1>11 DEF Terms
=============================================================================
