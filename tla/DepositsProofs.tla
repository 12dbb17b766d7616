--------------------------- MODULE DepositsProofs ---------------------------
(***************************************************************************)
(* Proofs about the module Deposits, for every pool, every ledger and every*)
(* interleaving of its transactions: an address is not left with an order  *)
(* that is over, a payment is credited to the holder of its time, what is  *)
(* over stays over, the pool stays in its size, and an open order loses    *)
(* its address only when an order of that address leaves "confirmed".      *)
(***************************************************************************)
EXTENDS Deposits, LedgerProofs, FiniteSetTheorems, WellFoundedInduction

-----------------------------------------------------------------------------
(* The invariant, on a database at a time.                                   *)

RowsOK(d) ==
  /\ Columns(d)
  /\ \A t \in Transfers : d.payments[t].order \in Orders \cup {NoOrder}
  /\ \A o \in Orders : /\ d.orders[o].status \in Live \cup Terminal \cup {"none"}
                       /\ d.orders[o].address \in Addresses
                       /\ d.orders[o].created \in Nat /\ d.orders[o].expected \in Nat
  /\ \A a \in Addresses : d.addresses[a].order \in Orders \cup {NoOrder}

\* An assigned address serves an order that is open.
Serves(d) ==
  \A a \in Addresses : d.addresses[a].state = "assigned" =>
    d.addresses[a].order \in Orders /\ d.orders[d.addresses[a].order].status \in Open

\* The order an address knows is its newest, and none is created in the future.
KnowsNewest(d, time) ==
  /\ \A a \in Addresses : \A o \in Orders : d.addresses[a].order = o =>
       /\ d.orders[o].status # "none" /\ d.orders[o].address = a
       /\ \A p \in Orders : d.orders[p].status # "none" /\ d.orders[p].address = a
            => d.orders[p].created <= d.orders[o].created
  /\ \A o \in Orders : d.orders[o].status # "none" => d.orders[o].created <= time

DbOK(d, time) == RowsOK(d) /\ Serves(d) /\ KnowsNewest(d, time)

DepositsInv ==
  /\ DbOK(db, now)
  /\ now \in Nat
  /\ DOMAIN scan = {"todo", "since", "query", "left", "seen", "item", "height"}
  /\ scan.item \in Transfers \cup {NoTransfer}
  /\ tip \in Nat /\ cursor \in 0..tip
  /\ \A h \in 1..tip : \E b \in Blocks : BlockHeight[b] = h

\* The account of a transfer is an address of the service.
LEMMA AccountIsOurs == \A t \in Transfers : Account(t) \in Addresses
BY ChainAssumption DEF Account, Holders

\* A service that has not taken an order satisfies the invariant.
LEMMA DepositsInit == Init => DepositsInv
<1> SUFFICES ASSUME Init PROVE DepositsInv
  OBVIOUS
<1>1. Columns(StartDb)
  BY StartAssumption DEF Columns, NoPayment, OrderRow, AddressRow
<1>2. \A t \in Transfers : StartDb.payments[t] = NoPayment
  BY StartAssumption
<1>3. \A o \in Orders : StartDb.orders[o] \in OrderRow
  BY StartAssumption
<1>4. \A a \in Addresses : StartDb.addresses[a] \in AddressRow
  BY StartAssumption
<1>5. RowsOK(StartDb)
  BY <1>1, <1>2, <1>3, <1>4 DEF RowsOK, NoPayment, OrderRow, AddressRow
<1>6. Serves(StartDb)
  BY <1>4 DEF Serves, AddressRow
<1>7. KnowsNewest(StartDb, 0)
  BY <1>3, <1>4, ChainAssumption DEF KnowsNewest, OrderRow, AddressRow
<1>8. QED
  BY <1>5, <1>6, <1>7 DEF Init, DepositsInv, DbOK, NoScan

\* A live order may move or be cancelled, and no other order does ...
Ends(old, new) ==
  /\ Keeps(old, new)
  /\ \/ new.status = old.status
     \/ old.status \in Live /\ new.status \in Live \cup {"cancelled", "cancelled_funded"}

\* ... or it expires.
Expires(old, new) ==
  /\ Keeps(old, new)
  /\ old.status \in Live /\ new.status \in {"expired", "expired_funded"}

\* A transaction whose addresses leave the orders that end keeps the invariant.
LEMMA EndingKeeps ==
  ASSUME NEW d, NEW e, NEW time, DbOK(d, time), Columns(e),
         \A t \in Transfers : e.payments[t].order \in Orders \cup {NoOrder},
         \A o \in Orders : Ends(d.orders[o], e.orders[o]) \/ Expires(d.orders[o], e.orders[o]),
         \A a \in Addresses : AddressMoves(d.addresses[a], e.addresses[a]),
         Served(d, e)
  PROVE  DbOK(e, time)
<1>1. ASSUME NEW o \in Orders
      PROVE  /\ e.orders[o].status \in Live \cup Terminal \cup {"none"}
             /\ e.orders[o].status = "none" <=> d.orders[o].status = "none"
             /\ e.orders[o].address = d.orders[o].address
             /\ e.orders[o].created = d.orders[o].created
             /\ e.orders[o].expected = d.orders[o].expected
  BY DEF DbOK, RowsOK, Ends, Expires, Keeps, Live, Open, Terminal, Funded
<1>2. ASSUME NEW a \in Addresses
      PROVE  /\ e.addresses[a].order = d.addresses[a].order
             /\ e.addresses[a].state = "assigned" => d.addresses[a].state = "assigned"
  BY DEF AddressMoves
<1>3. RowsOK(e)
  BY <1>1, <1>2 DEF DbOK, RowsOK
<1>4. Serves(e)
  <2> SUFFICES ASSUME NEW a \in Addresses, e.addresses[a].state = "assigned"
               PROVE  /\ e.addresses[a].order \in Orders
                      /\ e.orders[e.addresses[a].order].status \in Open
    BY DEF Serves
  <2> DEFINE o == d.addresses[a].order
  <2>1. o \in Orders /\ d.orders[o].status \in Open /\ d.orders[o].address = a
    BY <1>2 DEF DbOK, Serves, KnowsNewest
  <2>2. QED
    BY <1>2, <2>1 DEF Served
<1>5. KnowsNewest(e, time)
  BY <1>1, <1>2 DEF DbOK, KnowsNewest
<1>6. QED
  BY <1>3, <1>4, <1>5 DEF DbOK

\* A transaction of the ledger alone keeps the invariant.
LEMMA LedgerKeeps ==
  ASSUME NEW d, NEW e, NEW time, DbOK(d, time), Columns(e),
         \A t \in Transfers : e.payments[t].order \in Orders \cup {NoOrder},
         \A o \in Orders : Moves(d.orders[o], e.orders[o]),
         \A a \in Addresses : AddressMoves(d.addresses[a], e.addresses[a]),
         Served(d, e)
  PROVE  DbOK(e, time) /\ \A o \in Orders : Ends(d.orders[o], e.orders[o])
<1>1. \A o \in Orders : Ends(d.orders[o], e.orders[o])
  BY DEF Moves, Ends
<1>2. QED
  BY <1>1, EndingKeeps

\* A payment that had no order has, if it has one now, that of the holder of its time.
ToHolder(e, t) ==
  LET o == e.payments[t].order
      at == e.payments[t].time
      theirs == {p \in Orders : /\ e.orders[p].status # "none" /\ e.orders[p].created <= at
                                /\ e.orders[p].address = Account(t)}
  IN o \in theirs /\ \A p \in theirs : e.orders[p].created <= e.orders[o].created
Credits(d, e) ==
  \A t \in Transfers :
    /\ d.payments[t].order = NoOrder /\ e.payments[t].order # NoOrder
    /\ d.payments[t].status # "unattributed"
    => ToHolder(e, t)

\* What is left alone is credited to nobody.
LEMMA NoCredit ==
  ASSUME NEW d, NEW e, \A t \in Transfers : e.payments[t].order = d.payments[t].order
  PROVE  Credits(d, e)
BY DEF Credits

\* What a matched payment does to the orders, and to whom it is credited.
LEMMA MatchCredits ==
  ASSUME NEW d, NEW time, DbOK(d, time), NEW t \in Transfers, NEW s, NEW e, e = Match(d, t, s)
  PROVE  /\ DbOK(e, time)
         /\ Credits(d, e)
         /\ \A o \in Orders : Ends(d.orders[o], e.orders[o])
<1>1. /\ Columns(d) /\ NoOrder \notin Orders
      /\ d.payments[t].order \in Orders \cup {NoOrder}
      /\ d.addresses[Account(t)].order \in Orders \cup {NoOrder}
  BY AccountIsOurs, ChainAssumption DEF DbOK, RowsOK
<1>2. /\ Columns(e) /\ e.addresses = d.addresses
      /\ OrderFor(d, t, s.time) \in Orders \cup {NoOrder}
      /\ \E status \in {"seen", "unattributed"} :
           e.payments = [d.payments EXCEPT ![t] =
             UpsertedRow(d.payments[t], status, OrderFor(d, t, s.time), s)]
      /\ \A o \in Orders : Resummed(d.orders[o], e.orders[o])
      /\ Balanced(d) => Balanced(e)
  BY <1>1, MatchEffect
<1> DEFINE order == OrderFor(d, t, s.time)
<1>3. PICK status \in {"seen", "unattributed"} :
        e.payments = [d.payments EXCEPT ![t] = UpsertedRow(d.payments[t], status, order, s)]
  BY <1>2
<1>4. order \in Orders \cup {NoOrder}
  BY <1>2
<1> HIDE DEF order
<1> DEFINE r == UpsertedRow(d.payments[t], status, order, s)
<1>5. DOMAIN d.payments[t] = {"status", "order", "height", "block", "time", "confirmed"}
  BY <1>1 DEF Columns
<1>6. r.time = s.time /\ r.order \in {d.payments[t].order, order}
  BY <1>5 DEF UpsertedRow
<1> HIDE DEF r
<1>7. e.payments[t] = r /\ \A u \in Transfers \ {t} : e.payments[u] = d.payments[u]
  BY <1>1, <1>3 DEF Columns, r
<1>8. \A u \in Transfers : e.payments[u].order \in Orders \cup {NoOrder}
  BY <1>1, <1>4, <1>6, <1>7 DEF DbOK, RowsOK
<1>9. /\ \A o \in Orders : Moves(d.orders[o], e.orders[o])
      /\ \A a \in Addresses : AddressMoves(d.addresses[a], e.addresses[a])
      /\ Served(d, e)
  BY <1>2 DEF Resummed, Moves, Live, AddressMoves, Served
<1>10. DbOK(e, time) /\ \A o \in Orders : Ends(d.orders[o], e.orders[o])
  BY <1>2, <1>8, <1>9, LedgerKeeps
<1>11. ASSUME NEW u \in Transfers, d.payments[u].order = NoOrder, e.payments[u].order # NoOrder
       PROVE  ToHolder(e, u)
  <2>1. u = t /\ r.order = order /\ order # NoOrder
    BY <1>6, <1>7, <1>11
  <2>2. /\ order \in Orders /\ order = d.addresses[Account(t)].order
        /\ d.orders[order].status \in Open /\ d.orders[order].created <= s.time
    BY <1>4, <2>1 DEF OrderFor, order
  <2>3. /\ e.addresses[Account(t)].order = order /\ Account(t) \in Addresses
        /\ e.orders[order].created = d.orders[order].created
    BY <1>2, <2>2, AccountIsOurs DEF Resummed, Keeps
  <2>4. /\ e.orders[order].status # "none" /\ e.orders[order].address = Account(t)
        /\ \A p \in Orders : e.orders[p].status # "none" /\ e.orders[p].address = Account(t)
             => e.orders[p].created <= e.orders[order].created
    BY <1>10, <2>2, <2>3 DEF DbOK, KnowsNewest
  <2>5. e.payments[u].order = order /\ e.payments[u].time = s.time
    BY <1>6, <1>7, <2>1
  <2> HIDE DEF r
  <2>6. QED
    BY <2>1, <2>2, <2>3, <2>4, <2>5 DEF ToHolder
<1>12. QED
  BY <1>10, <1>11 DEF Credits

-----------------------------------------------------------------------------
(* The invariant is inductive.                                               *)

\* Time passes.
LEMMA LaterOK ==
  ASSUME NEW d, NEW time \in Nat, NEW later \in Nat, time <= later, DbOK(d, time)
  PROVE  DbOK(d, later)
BY DEF DbOK, RowsOK, KnowsNewest

\* What the pool does: addresses become free, or are disabled.
LEMMA AddressesOK ==
  ASSUME NEW d, NEW time, DbOK(d, time), NEW e,
         e.payments = d.payments, e.orders = d.orders, DOMAIN e = DOMAIN d,
         DOMAIN e.addresses = Addresses,
         \A a \in Addresses : \/ e.addresses[a] = d.addresses[a]
                             \/ e.addresses[a] = Idle("free")
                             \/ e.addresses[a] = [d.addresses[a] EXCEPT !.state = "disabled"]
  PROVE  DbOK(e, time)
<1>1. ASSUME NEW a \in Addresses
      PROVE  /\ DOMAIN e.addresses[a] = {"state", "order", "released", "until"}
             /\ e.addresses[a].order \in {d.addresses[a].order, NoOrder}
             /\ e.addresses[a].state = "assigned" => e.addresses[a] = d.addresses[a]
  <2>1. DOMAIN d.addresses[a] = {"state", "order", "released", "until"}
    BY DEF DbOK, RowsOK, Columns
  <2>2. CASE e.addresses[a] = d.addresses[a]
    BY <2>1, <2>2
  <2>3. CASE e.addresses[a] = Idle("free")
    BY <2>3 DEF Idle
  <2>4. CASE e.addresses[a] = [d.addresses[a] EXCEPT !.state = "disabled"]
    BY <2>1, <2>4
  <2>5. QED
    BY <2>2, <2>3, <2>4
<1>2. RowsOK(e)
  <2>1. Columns(e)
    BY <1>1 DEF DbOK, RowsOK, Columns
  <2>2. QED
    BY <1>1, <2>1 DEF DbOK, RowsOK
<1>3. Serves(e)
  BY <1>1 DEF DbOK, Serves
<1>4. KnowsNewest(e, time)
  BY <1>1, ChainAssumption DEF DbOK, KnowsNewest
<1>5. QED
  BY <1>2, <1>3, <1>4 DEF DbOK

\* The pool's transactions.
LEMMA PoolKeeps ==
  ASSUME DbOK(db, now), TopUpPool \/ ReleaseCooled \/ DisableAddress
  PROVE  DbOK(db', now) /\ db'.payments = db.payments /\ db'.orders = db.orders
<1> USE DEF Changed
<1>0. DOMAIN db = {"payments", "orders", "addresses", "balances"} /\ DOMAIN db.addresses = Addresses
  BY DEF DbOK, RowsOK, Columns
<1> DEFINE Free(S) == [db EXCEPT !.addresses = [a \in Addresses |->
                        IF a \in S THEN Idle("free") ELSE @[a]]]
<1>1. ASSUME NEW S, db' = Free(S)
      PROVE  DbOK(db', now) /\ db'.payments = db.payments /\ db'.orders = db.orders
  BY <1>0, <1>1, AddressesOK
<1>2. CASE TopUpPool
  <2> DEFINE free == Cardinality(In("free"))
             room == PoolMaxSize - Cardinality(Derived)
             wanted == PoolInitialSize - free
             added == NextIndexes(IF wanted < room THEN wanted ELSE room)
  <2>1. db' = Free(added)
    BY <1>2 DEF TopUpPool
  <2> HIDE DEF added, Free
  <2>2. QED
    BY <1>1, <2>1
<1>3. CASE ReleaseCooled
  <2> DEFINE cooled == {a \in In("cooling") : db.addresses[a].until <= now}
  <2>1. db' = Free(cooled)
    BY <1>3 DEF ReleaseCooled
  <2> HIDE DEF cooled, Free
  <2>2. QED
    BY <1>1, <2>1
<1>4. CASE DisableAddress
  <2>1. PICK a \in Addresses : db' = [db EXCEPT !.addresses[a].state = "disabled"]
    BY <1>4 DEF DisableAddress, Derived
  <2>2. QED
    BY <1>0, <2>1, AddressesOK
<1>5. QED
  BY <1>2, <1>3, <1>4

\* A new order takes an address that no order of its time has.
LEMMA CreateKeeps ==
  ASSUME DbOK(db, now), now \in Nat, CreateOrder
  PROVE  /\ DbOK(db', now) /\ db'.payments = db.payments
         /\ \A p \in Orders : \/ db'.orders[p] = db.orders[p]
                              \/ db.orders[p].status = "none" /\ db'.orders[p].status = "pending"
<1>1. PICK o \in Orders, a \in Addresses, want \in Wants :
        /\ db.orders[o].status = "none"
        /\ db' = [db EXCEPT
                    !.orders[o] = Ordered(a, want.asset, want.expected, now, now + Ttl),
                    !.addresses[a] = [Idle("assigned") EXCEPT !.order = o]]
  BY DEF CreateOrder, Changed
<1> DEFINE order == Ordered(a, want.asset, want.expected, now, now + Ttl)
           held == [Idle("assigned") EXCEPT !.order = o]
<1>2. /\ DOMAIN order = {"status", "address", "asset", "expected", "received", "created",
                         "expires", "resolved", "told"}
      /\ order.status = "pending" /\ order.address = a /\ order.created = now
      /\ order.expected \in Nat
  BY LifetimeAssumption DEF Ordered
<1>3. /\ DOMAIN held = {"state", "order", "released", "until"}
      /\ held.state = "assigned" /\ held.order = o
  BY DEF Idle
<1> HIDE DEF order, held
<1>4. /\ DOMAIN db' = {"payments", "orders", "addresses", "balances"}
      /\ db'.payments = db.payments
      /\ db'.orders = [db.orders EXCEPT ![o] = order]
      /\ db'.addresses = [db.addresses EXCEPT ![a] = held]
  BY <1>1 DEF DbOK, RowsOK, Columns, order, held
<1>5. /\ DOMAIN db'.orders = Orders /\ DOMAIN db'.addresses = Addresses
      /\ db'.orders[o] = order /\ \A p \in Orders \ {o} : db'.orders[p] = db.orders[p]
      /\ db'.addresses[a] = held
      /\ \A b \in Addresses \ {a} : db'.addresses[b] = db.addresses[b]
  BY <1>4 DEF DbOK, RowsOK, Columns
<1>6. RowsOK(db')
  <2>1. Columns(db')
    BY <1>2, <1>3, <1>4, <1>5 DEF DbOK, RowsOK, Columns
  <2>2. QED
    BY <1>2, <1>3, <1>4, <1>5, <2>1 DEF DbOK, RowsOK, Live, Open
<1>7. Serves(db')
  <2> SUFFICES ASSUME NEW b \in Addresses, db'.addresses[b].state = "assigned"
               PROVE  /\ db'.addresses[b].order \in Orders
                      /\ db'.orders[db'.addresses[b].order].status \in Open
    BY DEF Serves
  <2>1. CASE b = a
    BY <1>2, <1>3, <1>5, <2>1 DEF Open
  <2>2. CASE b # a
    <3>1. /\ db'.addresses[b] = db.addresses[b] /\ db.addresses[b].order \in Orders
          /\ db.orders[db.addresses[b].order].status \in Open
      BY <1>5, <2>2 DEF DbOK, Serves
    <3>2. db.addresses[b].order # o
      BY <1>1, <3>1 DEF Open
    <3>3. QED
      BY <1>5, <3>1, <3>2
  <2>3. QED
    BY <2>1, <2>2
<1>8. KnowsNewest(db', now)
  <2>1. ASSUME NEW p \in Orders, db'.orders[p].status # "none"
        PROVE  db'.orders[p].created <= now
    BY <1>2, <1>5, <2>1 DEF DbOK, KnowsNewest
  <2>2. ASSUME NEW b \in Addresses, NEW q \in Orders, db'.addresses[b].order = q
        PROVE  /\ db'.orders[q].status # "none" /\ db'.orders[q].address = b
               /\ \A p \in Orders : db'.orders[p].status # "none" /\ db'.orders[p].address = b
                    => db'.orders[p].created <= db'.orders[q].created
    <3>1. CASE b = a
      BY <1>2, <1>3, <1>5, <2>1, <2>2, <3>1
    <3>2. CASE b # a
      <4>1. db.addresses[b].order = q
        BY <1>5, <2>2, <3>2
      <4>2. /\ db.orders[q].status # "none" /\ db.orders[q].address = b
            /\ \A p \in Orders : db.orders[p].status # "none" /\ db.orders[p].address = b
                 => db.orders[p].created <= db.orders[q].created
        BY <4>1 DEF DbOK, KnowsNewest
      <4>3. q # o
        BY <1>1, <4>2
      <4>4. ASSUME NEW p \in Orders, db'.orders[p].status # "none", db'.orders[p].address = b
            PROVE  db'.orders[p].created <= db'.orders[q].created
        <5>1. p # o
          BY <1>2, <1>5, <3>2, <4>4
        <5>2. QED
          BY <1>5, <4>2, <4>3, <4>4, <5>1
      <4>5. QED
        BY <1>5, <4>2, <4>3, <4>4
    <3>3. QED
      BY <3>1, <3>2
  <2>3. QED
    BY <2>1, <2>2 DEF KnowsNewest
<1>9. QED
  BY <1>1, <1>2, <1>4, <1>5, <1>6, <1>7, <1>8 DEF DbOK

\* Every sweep leaves the address of an order it ends, and of no order it leaves open.
LEMMA ExpireKeeps ==
  ASSUME DbOK(db, now), ExpireOrders
  PROVE  /\ DbOK(db', now) /\ db'.payments = db.payments
         /\ \A o \in Orders : \/ Ends(db.orders[o], db'.orders[o])
                              \/ /\ Expires(db.orders[o], db'.orders[o])
                                 /\ Received(db, o) < db.orders[o].expected
         /\ Freed(db, db')
<1> DEFINE due == {o \in Orders : db.orders[o].status \in {"pending", "partial"}
                                  /\ db.orders[o].expires <= now}
           ended == {o \in due : Expired(o).status # "paid"}
           swept == [db EXCEPT !.orders = [o \in Orders |-> IF o \in due THEN Expired(o) ELSE @[o]]]
           places == {db.orders[o].address : o \in ended}
<1>1. db' = Cool(swept, places, now)
  BY DEF ExpireOrders, Changed
<1>2. ASSUME NEW o \in Orders, db.orders[o].status \in {"pending", "partial"}
      PROVE  /\ DOMAIN Expired(o) = DOMAIN db.orders[o]
             /\ Keeps(db.orders[o], Expired(o))
             /\ Expired(o).status \in {"paid", "expired", "expired_funded"}
             /\ Expired(o).status # "paid" => Received(db, o) < db.orders[o].expected
  <2> DEFINE summed == Recalculated(db, o, TRUE)
             status == IF summed.received > 0 THEN "expired_funded" ELSE "expired"
  <2>1. DOMAIN summed = DOMAIN db.orders[o] /\ Resummed(db.orders[o], summed)
    BY RecalculatedKeeps DEF DbOK, RowsOK
  <2>2. DOMAIN summed = {"status", "address", "asset", "expected", "received", "created",
                         "expires", "resolved", "told"}
    BY <2>1 DEF DbOK, RowsOK, Columns
  <2>3. status \in {"expired", "expired_funded"}
    OBVIOUS
  <2>4. \/ Expired(o) = summed /\ summed.status = "paid"
        \/ /\ summed.status # "paid"
           /\ Expired(o) = [summed EXCEPT !.status = status, !.told = "expired"]
    BY DEF Expired
  <2>5. Received(db, o) \in Int /\ db.orders[o].expected \in Int
    <3>1. {t \in Contributing(db, o) : Account(t) = db.orders[o].address} \in SUBSET Transfers
      BY DEF Contributing
    <3>2. QED
      BY <3>1, ChainAssumption DEF DbOK, RowsOK, Received
  <2>6. Received(db, o) >= db.orders[o].expected => summed.status = "paid"
    BY <1>2 DEF Recalculated, Live, Open, DbOK, RowsOK, Columns
  <2> HIDE DEF summed, status
  <2>7. /\ DOMAIN Expired(o) = DOMAIN db.orders[o]
        /\ Keeps(db.orders[o], Expired(o))
        /\ Expired(o).status \in {"paid", "expired", "expired_funded"}
        /\ Expired(o).status # "paid" => summed.status # "paid"
    BY <2>1, <2>2, <2>3, <2>4 DEF Resummed, Keeps
  <2>8. Expired(o).status # "paid" => Received(db, o) < db.orders[o].expected
    <3>1. Expired(o).status # "paid" => ~(Received(db, o) >= db.orders[o].expected)
      BY <2>6, <2>7
    <3> DEFINE x == Received(db, o)
               y == db.orders[o].expected
    <3> HIDE DEF x, y
    <3>2. x \in Int /\ y \in Int => (~(x >= y) => x < y)
      OBVIOUS
    <3>3. QED
      BY <2>5, <3>1, <3>2 DEF x, y
  <2>9. QED
    BY <2>7, <2>8
<1>3. \A o \in due : o \in Orders /\ db.orders[o].status \in {"pending", "partial"}
  OBVIOUS
<1>4. /\ \A o \in due : o \notin ended => Expired(o).status = "paid"
      /\ \A o \in ended : o \in due /\ Expired(o).status # "paid"
  OBVIOUS
<1> HIDE DEF due, ended
<1>5. /\ DOMAIN swept = DOMAIN db /\ swept.payments = db.payments
      /\ swept.addresses = db.addresses /\ swept.balances = db.balances
      /\ swept.orders = [o \in Orders |-> IF o \in due THEN Expired(o) ELSE db.orders[o]]
  BY DEF DbOK, RowsOK, Columns
<1> HIDE DEF swept
<1>6. ASSUME NEW o \in Orders
      PROVE  /\ DOMAIN swept.orders[o] = DOMAIN db.orders[o]
             /\ \/ Ends(db.orders[o], swept.orders[o])
                \/ /\ Expires(db.orders[o], swept.orders[o])
                   /\ Received(db, o) < db.orders[o].expected
  <2>1. CASE o \in due
    BY <1>2, <1>3, <1>5, <2>1 DEF Ends, Expires, Live, Open
  <2>2. CASE o \notin due
    BY <1>5, <2>2 DEF Ends, Keeps
  <2>3. QED
    BY <2>1, <2>2
<1>7. Columns(swept)
  BY <1>5, <1>6 DEF DbOK, RowsOK, Columns
<1> HIDE DEF places
<1>8. /\ Columns(db') /\ db'.payments = swept.payments /\ db'.orders = swept.orders
      /\ db'.balances = swept.balances
      /\ \A a \in Addresses : AddressMoves(swept.addresses[a], db'.addresses[a])
      /\ \A a \in Addresses : a \in places => db'.addresses[a].state # "assigned"
      /\ \A a \in Addresses : a \notin places => db'.addresses[a] = swept.addresses[a]
  <2> DEFINE e == Cool(swept, places, now)
  <2>1. /\ Columns(e) /\ e.payments = swept.payments /\ e.orders = swept.orders
        /\ e.balances = swept.balances
        /\ \A a \in Addresses : AddressMoves(swept.addresses[a], e.addresses[a])
        /\ \A a \in Addresses : a \in places => e.addresses[a].state # "assigned"
        /\ \A a \in Addresses : a \notin places => e.addresses[a] = swept.addresses[a]
    BY <1>7, CoolEffect
  <2>2. QED
    BY <1>1, <2>1
<1>9. Served(db, db')
  <2> SUFFICES ASSUME NEW o \in Orders, db.orders[o].address \in Addresses,
                      db'.addresses[db.orders[o].address].state = "assigned",
                      db.orders[o].status \in Open
               PROVE  db'.orders[o].status \in Open
    BY DEF Served
  <2>1. o \notin ended
    BY <1>8 DEF places
  <2>2. CASE o \in due
    BY <1>4, <1>5, <1>8, <2>1, <2>2 DEF Open
  <2>3. CASE o \notin due
    BY <1>5, <1>8, <2>3
  <2>4. QED
    BY <2>2, <2>3
<1>10. \A o \in Orders : \/ Ends(db.orders[o], db'.orders[o])
                         \/ /\ Expires(db.orders[o], db'.orders[o])
                            /\ Received(db, o) < db.orders[o].expected
  BY <1>6, <1>8
<1>11. Freed(db, db')
  <2> SUFFICES ASSUME NEW a \in Addresses, db'.addresses[a] # db.addresses[a]
               PROVE  \E o \in Orders : /\ db.orders[o].address = a
                                        /\ db.orders[o].status \in Open
                                        /\ db'.orders[o].status \notin Open
    BY DEF Freed
  <2>1. PICK o \in ended : db.orders[o].address = a
    BY <1>5, <1>8 DEF places
  <2>2. /\ o \in Orders /\ db.orders[o].status \in {"pending", "partial"}
        /\ Expired(o).status \in {"expired", "expired_funded"}
    BY <1>2, <1>3, <1>4, <2>1
  <2>3. db'.orders[o].status \in {"expired", "expired_funded"}
    BY <1>4, <1>5, <1>8, <2>1, <2>2
  <2>4. QED
    BY <2>1, <2>2, <2>3 DEF Open
<1>12. QED
  BY <1>5, <1>8, <1>9, <1>10, <1>11, EndingKeeps DEF DbOK, RowsOK

\* What was confirmed for an address is, and an address that changes leaves an order that
\* ends.
ConfirmedStay(d, e, a) ==
  \A o \in Orders : d.orders[o].status = "confirmed" /\ d.orders[o].address = a
                        => e.orders[o].status = "confirmed"
FreedAt(d, e, a) ==
  e.addresses[a] # d.addresses[a] =>
    \E o \in Orders : /\ d.orders[o].address = a
                      /\ d.orders[o].status \in Open /\ e.orders[o].status \notin Open

\* A cancelled order leaves its address.
LEMMA CancelKeeps ==
  ASSUME DbOK(db, now), CancelOrder
  PROVE  /\ DbOK(db', now) /\ db'.payments = db.payments
         /\ \A o \in Orders : Ends(db.orders[o], db'.orders[o])
         /\ \A a \in Addresses : ConfirmedStay(db, db', a) => FreedAt(db, db', a)
<1>1. PICK o \in Orders, status \in {"cancelled", "cancelled_funded"} :
        /\ db.orders[o].status \in Live
        /\ db' = Cool([db EXCEPT !.orders[o].status = status], {db.orders[o].address}, now)
  BY DEF CancelOrder, Changed, Live, Open
<1> DEFINE w == [db EXCEPT !.orders[o].status = status]
           places == {db.orders[o].address}
<1>2. /\ Columns(w) /\ w.payments = db.payments /\ w.addresses = db.addresses
      /\ w.balances = db.balances
      /\ \A p \in Orders \ {o} : w.orders[p] = db.orders[p]
      /\ Keeps(db.orders[o], w.orders[o]) /\ w.orders[o].status = status
  BY DEF DbOK, RowsOK, Columns, Keeps
<1>3. db' = Cool(w, places, now)
  BY <1>1
<1> HIDE DEF w, places
<1>4. /\ Columns(db') /\ db'.payments = w.payments /\ db'.orders = w.orders
      /\ db'.balances = w.balances
      /\ \A a \in Addresses : AddressMoves(w.addresses[a], db'.addresses[a])
      /\ \A a \in Addresses : a \in places => db'.addresses[a].state # "assigned"
      /\ \A a \in Addresses : a \notin places => db'.addresses[a] = w.addresses[a]
  <2> DEFINE e == Cool(w, places, now)
  <2>1. /\ Columns(e) /\ e.payments = w.payments /\ e.orders = w.orders
        /\ e.balances = w.balances
        /\ \A a \in Addresses : AddressMoves(w.addresses[a], e.addresses[a])
        /\ \A a \in Addresses : a \in places => e.addresses[a].state # "assigned"
        /\ \A a \in Addresses : a \notin places => e.addresses[a] = w.addresses[a]
    BY <1>2, CoolEffect
  <2>2. QED
    BY <1>3, <2>1
<1>5. \A p \in Orders : Ends(db.orders[p], db'.orders[p])
  BY <1>1, <1>2, <1>4 DEF Ends, Keeps, Terminal, Funded
<1>6. Served(db, db')
  BY <1>2, <1>4 DEF Served, places
<1>7. ASSUME NEW a \in Addresses, ConfirmedStay(db, db', a) PROVE FreedAt(db, db', a)
  <2>1. db'.orders[o].status = status /\ status \notin Open /\ status # "confirmed"
    BY <1>2, <1>4 DEF Open
  <2>2. CASE db.orders[o].address = a
    <3>1. db.orders[o].status \in Open
      BY <1>1, <1>7, <2>1, <2>2 DEF ConfirmedStay, Live
    <3>2. QED
      BY <2>1, <2>2, <3>1 DEF FreedAt
  <2>3. CASE db.orders[o].address # a
    BY <1>2, <1>4, <2>3 DEF FreedAt, places
  <2>4. QED
    BY <2>2, <2>3
<1>8. QED
  BY <1>2, <1>4, <1>5, <1>6, <1>7, EndingKeeps DEF DbOK, RowsOK

\* An extension, and a resolved order, change neither status nor window.
LEMMA OperatorKeeps ==
  ASSUME DbOK(db, now), ExtendOrder \/ ResolveFundedOrder
  PROVE  /\ DbOK(db', now) /\ db'.payments = db.payments
         /\ \A o \in Orders : Ends(db.orders[o], db'.orders[o])
<1>1. \E o \in Orders : \/ \E x : db' = [db EXCEPT !.orders[o].expires = x]
                       \/ db' = [db EXCEPT !.orders[o].resolved = TRUE]
  BY DEF ExtendOrder, ResolveFundedOrder, Changed
<1>2. PICK o \in Orders : \/ \E x : db' = [db EXCEPT !.orders[o].expires = x]
                          \/ db' = [db EXCEPT !.orders[o].resolved = TRUE]
  BY <1>1
<1>3. /\ Columns(db') /\ db'.payments = db.payments /\ db'.addresses = db.addresses
      /\ \A p \in Orders : /\ Keeps(db.orders[p], db'.orders[p])
                           /\ db'.orders[p].status = db.orders[p].status
  <2>1. CASE \E x : db' = [db EXCEPT !.orders[o].expires = x]
    <3>1. PICK x : db' = [db EXCEPT !.orders[o].expires = x]
      BY <2>1
    <3>2. QED
      BY <3>1 DEF DbOK, RowsOK, Columns, Keeps
  <2>2. CASE db' = [db EXCEPT !.orders[o].resolved = TRUE]
    BY <2>2 DEF DbOK, RowsOK, Columns, Keeps
  <2>3. QED
    BY <1>2, <2>1, <2>2
<1>4. /\ \A p \in Orders : Ends(db.orders[p], db'.orders[p])
      /\ \A a \in Addresses : AddressMoves(db.addresses[a], db'.addresses[a])
      /\ Served(db, db')
  BY <1>3 DEF Ends, AddressMoves, Served
<1>5. QED
  BY <1>3, <1>4, EndingKeeps DEF DbOK, RowsOK

\* An attributed payment is summed for its order, which only moves if it is live.
LEMMA AttributeKeeps ==
  ASSUME DbOK(db, now), AttributePayment
  PROVE  /\ DbOK(db', now) /\ Credits(db, db')
         /\ \A o \in Orders : Ends(db.orders[o], db'.orders[o])
<1>1. PICK t \in Transfers, o \in Orders :
        /\ db.payments[t].status = "unattributed"
        /\ db' = [Attributed(t, o) EXCEPT
                !.orders[o] = Recalculated(Attributed(t, o), o, TRUE),
                !.balances[Account(t)][AssetOf[t]] =
                  BalanceOf(Attributed(t, o), Account(t), AssetOf[t])]
  BY DEF AttributePayment, Changed
<1> DEFINE bound == Attributed(t, o)
           sum == Recalculated(bound, o, TRUE)
<1>2. /\ Columns(bound) /\ bound.orders = db.orders /\ bound.addresses = db.addresses
      /\ \A u \in Transfers : bound.payments[u].order \in Orders \cup {NoOrder}
      /\ \A u \in Transfers \ {t} : bound.payments[u] = db.payments[u]
  BY DEF DbOK, RowsOK, Columns, Attributed
<1>3. \E b : db' = [bound EXCEPT !.orders[o] = sum, !.balances[Account(t)][AssetOf[t]] = b]
  BY <1>1
<1>4. PICK b : db' = [bound EXCEPT !.orders[o] = sum, !.balances[Account(t)][AssetOf[t]] = b]
  BY <1>3
<1> HIDE DEF bound
<1>5. DOMAIN sum = DOMAIN bound.orders[o] /\ Resummed(bound.orders[o], sum)
  BY <1>2, RecalculatedKeeps
<1> HIDE DEF sum
<1>6. /\ DOMAIN db' = DOMAIN bound /\ db'.payments = bound.payments
      /\ db'.addresses = bound.addresses
      /\ db'.orders = [bound.orders EXCEPT ![o] = sum]
  BY <1>2, <1>4 DEF Columns
<1>7. Columns(db')
  BY <1>2, <1>5, <1>6 DEF Columns
<1>8. \A p \in Orders : Resummed(db.orders[p], db'.orders[p])
  BY <1>2, <1>5, <1>6 DEF Columns, Resummed, Keeps
<1>9. /\ \A p \in Orders : Moves(db.orders[p], db'.orders[p])
      /\ \A a \in Addresses : AddressMoves(db.addresses[a], db'.addresses[a])
      /\ Served(db, db')
  BY <1>2, <1>6, <1>8 DEF Resummed, Moves, Live, AddressMoves, Served
<1>10. Credits(db, db')
  BY <1>1, <1>2, <1>6 DEF Credits
<1>11. QED
  BY <1>2, <1>6, <1>7, <1>9, <1>10, LedgerKeeps

\* A block holds at most one transfer, which is matched.
LEMMA CommitMatches ==
  ASSUME DepositsInv, CommitBlock
  PROVE  db' = db \/ \E t \in Transfers : \E s : db' = Match(db, t, s)
<1> DEFINE t == Carries[BlockAt(cursor + 1)]
<1>1. \/ db' = db
      \/ t # NoTransfer /\ db' = Match(db, t, SightingAt(cursor + 1))
  BY DEF CommitBlock
<1>2. BlockAt(cursor + 1) \in Blocks
  <2>1. cursor + 1 \in 1..tip
    BY DEF CommitBlock, DepositsInv
  <2>2. \E b \in Blocks : BlockHeight[b] = cursor + 1
    BY <2>1 DEF DepositsInv
  <2>3. QED
    BY <2>2 DEF BlockAt
<1>3. QED
  BY <1>1, <1>2, ChainAssumption

\* A commit credits at most the payment it found; a solidity head credits none.
LEMMA ChainKeeps ==
  ASSUME DepositsInv, Chain
  PROVE  /\ DepositsInv' /\ Credits(db, db')
         /\ \A o \in Orders : Ends(db.orders[o], db'.orders[o])
<1>1. CASE Produce
  <2>1. /\ now' \in Nat /\ now <= now' /\ db' = db /\ scan' = scan /\ cursor' = cursor
        /\ tip' = tip + 1 /\ \E b \in Blocks : BlockHeight[b] = tip + 1
    BY <1>1, ChainAssumption DEF Produce, DepositsInv
  <2>2. tip' \in Nat /\ cursor' \in 0..tip' /\ \A h \in 1..tip' : \E b \in Blocks : BlockHeight[b] = h
    BY <2>1 DEF DepositsInv
  <2>3. QED
    BY <2>1, <2>2, LaterOK, NoCredit DEF DepositsInv, Ends, Keeps
<1>2. CASE CommitBlock
  <2>0. now' = now /\ scan' = scan /\ tip' = tip /\ cursor' \in 0..tip
    BY <1>2 DEF CommitBlock, DepositsInv
  <2>1. CASE db' = db
    BY <2>0, <2>1, NoCredit DEF DepositsInv, Ends, Keeps
  <2>2. CASE db' # db
    <3>1. PICK t, s : t \in Transfers /\ db' = Match(db, t, s)
      BY <1>2, <2>2, CommitMatches
    <3>2. /\ DbOK(db', now) /\ Credits(db, db')
          /\ \A o \in Orders : Ends(db.orders[o], db'.orders[o])
      BY <3>1, MatchCredits DEF DepositsInv
    <3>3. QED
      BY <2>0, <3>2 DEF DepositsInv
  <2>3. QED
    BY <2>1, <2>2
<1>3. CASE ApplySolidifiedHeight
  <2>0. now' = now /\ scan' = scan /\ tip' = tip /\ cursor' = cursor
    BY <1>3 DEF ApplySolidifiedHeight, Changed, world
  <2>1. PICK c : db' = ApplySolidifiedLedger(db, c, now)
    BY <1>3 DEF ApplySolidifiedHeight, Changed
  <2> DEFINE e == ApplySolidifiedLedger(db, c, now)
  <2>2. /\ Columns(e)
        /\ e.payments = [t \in Transfers |->
             Judged(db.payments[t], t \in Mismatched(db, c), t \in Promotable(db, c))]
        /\ \A o \in Orders : Moves(db.orders[o], e.orders[o])
        /\ \A a \in Addresses : AddressMoves(db.addresses[a], e.addresses[a])
        /\ Served(db, e)
        /\ Balanced(db) => Balanced(e)
    BY ApplySolidifiedLedgerEffect DEF DepositsInv, DbOK, RowsOK
  <2> HIDE DEF e
  <2>3. ASSUME NEW t \in Transfers PROVE e.payments[t].order = db.payments[t].order
    <3>1. DOMAIN db.payments[t] = {"status", "order", "height", "block", "time", "confirmed"}
      BY DEF DepositsInv, DbOK, RowsOK, Columns
    <3>2. e.payments[t] = Judged(db.payments[t], t \in Mismatched(db, c), t \in Promotable(db, c))
      BY <2>2
    <3>3. QED
      BY <3>1, <3>2 DEF Judged
  <2>4. DbOK(e, now) /\ \A o \in Orders : Ends(db.orders[o], e.orders[o])
    BY <2>2, <2>3, LedgerKeeps DEF DepositsInv, DbOK, RowsOK
  <2>5. QED
    BY <2>0, <2>1, <2>3, <2>4, NoCredit DEF DepositsInv, e
<1>4. QED
  BY <1>1, <1>2, <1>3 DEF Chain

\* The safety net credits as the follower does.
LEMMA NetKeeps ==
  ASSUME DepositsInv, Net
  PROVE  /\ DepositsInv' /\ Credits(db, db')
         /\ \A o \in Orders : Ends(db.orders[o], db'.orders[o])
<1>0. UNCHANGED world
  BY DEF Net, SafetyNet, GetAccountHistory, HistoryItem, ApplyReconciledPayments, NextTarget, EndPass
<1>1. /\ DOMAIN scan' = {"todo", "since", "query", "left", "seen", "item", "height"}
      /\ scan'.item \in Transfers \cup {NoTransfer}
  <2>0. NoScan.item = NoTransfer /\ DOMAIN NoScan = {"todo", "since", "query", "left", "seen", "item", "height"}
    BY DEF NoScan
  <2>1. CASE SafetyNet
    <3>1. PICK S, f : scan' = [NoScan EXCEPT !.todo = S, !.since = f]
      BY <2>1 DEF SafetyNet
    <3>2. QED
      BY <2>0, <3>1
  <2>2. CASE HistoryItem
    <3>1. PICK b \in Blocks : scan' = [scan EXCEPT !.item = Carries[b], !.height = BlockHeight[b],
             !.left = @ \ {Carries[b]}, !.seen = @ \cup {Carries[b]}]
      BY <2>2 DEF HistoryItem
    <3>2. QED
      BY <3>1, ChainAssumption DEF DepositsInv
  <2>3. CASE ApplyReconciledPayments
    BY <2>3 DEF ApplyReconciledPayments, DepositsInv
  <2>4. CASE NextTarget \/ EndPass
    <3>1. PICK a : scan' = NoScan \/ scan' = [scan EXCEPT !.todo = @ \ {a}, !.query = 0]
      BY <2>4 DEF NextTarget, EndPass
    <3>2. QED
      BY <2>0, <3>1 DEF DepositsInv
  <2>5. CASE GetAccountHistory
    <3>1. PICK S : scan' = [scan EXCEPT !.query = @ + 1, !.left = S]
      BY <2>5 DEF GetAccountHistory
    <3>2. QED
      BY <3>1 DEF DepositsInv
  <2>6. QED
    BY <2>1, <2>2, <2>3, <2>4, <2>5 DEF Net
<1>2. CASE ApplyReconciledPayments
  <2>1. PICK s : db' = Match(db, scan.item, s) /\ scan.item \in Transfers
    BY <1>2 DEF ApplyReconciledPayments, DepositsInv
  <2>2. /\ DbOK(db', now) /\ Credits(db, db')
        /\ \A o \in Orders : Ends(db.orders[o], db'.orders[o])
    BY <2>1, MatchCredits DEF DepositsInv
  <2>3. QED
    BY <1>0, <1>1, <2>2 DEF DepositsInv, world
<1>3. CASE ~ApplyReconciledPayments
  <2>1. db' = db
    BY <1>3 DEF Net, SafetyNet, GetAccountHistory, HistoryItem, NextTarget, EndPass
  <2>2. QED
    BY <1>0, <1>1, <2>1, NoCredit DEF DepositsInv, world, Ends, Keeps
<1>4. QED
  BY <1>2, <1>3

\* What a step may make of an order.
Fate(o) ==
  \/ Ends(db.orders[o], db'.orders[o])
  \/ /\ Expires(db.orders[o], db'.orders[o])
     /\ Received(db, o) < db.orders[o].expected
  \/ db.orders[o].status = "none" /\ db'.orders[o].status = "pending"

\* What every step keeps: the invariant, the credit of payments, and orders that ended.
LEMMA DepositsStep ==
  ASSUME DepositsInv, [Next]_vars
  PROVE  /\ DepositsInv' /\ Credits(db, db')
         /\ \A o \in Orders : Fate(o)
<1> DEFINE Goal == /\ DepositsInv' /\ Credits(db, db')
                   /\ \A o \in Orders : Fate(o)
<1>0. DbOK(db, now)
  BY DEF DepositsInv
<1>1. ASSUME UNCHANGED <<world, scan>>, DbOK(db', now), Credits(db, db'),
             \A o \in Orders : Fate(o)
      PROVE  Goal
  BY <1>1 DEF DepositsInv, world
<1>2. CASE Chain \/ Net
  BY <1>2, ChainKeeps, NetKeeps DEF Fate
<1>3. CASE TopUpPool \/ ReleaseCooled \/ DisableAddress
  <2>1. UNCHANGED <<world, scan>>
    BY <1>3 DEF TopUpPool, ReleaseCooled, DisableAddress, Changed
  <2>2. QED
    BY <1>0, <1>1, <1>3, <2>1, PoolKeeps, NoCredit DEF Fate, Ends, Keeps
<1>4. CASE CreateOrder
  <2>1. UNCHANGED <<world, scan>>
    BY <1>4 DEF CreateOrder, Changed
  <2>2. QED
    BY <1>0, <1>1, <1>4, <2>1, CreateKeeps, NoCredit DEF DepositsInv, Fate, Ends, Keeps
<1>5. CASE Lifecycle
  <2>1. UNCHANGED <<world, scan>>
    BY <1>5 DEF Lifecycle, ExpireOrders, ExtendOrder, CancelOrder, ResolveFundedOrder, Changed
  <2>2. QED
    BY <1>0, <1>1, <1>5, <2>1, ExpireKeeps, CancelKeeps, OperatorKeeps, NoCredit DEF Fate, Lifecycle
<1>6. CASE AttributePayment
  <2>1. UNCHANGED <<world, scan>>
    BY <1>6 DEF AttributePayment, Changed
  <2>2. QED
    BY <1>0, <1>1, <1>6, <2>1, AttributeKeeps DEF Fate
<1>7. CASE Pass
  <2>1. now' = now + 1 /\ UNCHANGED <<db, tip, cursor, scan>>
    BY <1>7 DEF Pass
  <2>2. DbOK(db', now')
    BY <1>0, <2>1, LaterOK DEF DepositsInv
  <2>3. QED
    BY <2>1, <2>2, NoCredit DEF DepositsInv, Fate, Ends, Keeps
<1>8. CASE UNCHANGED vars
  BY <1>0, <1>1, <1>8, NoCredit DEF vars, world, Fate, Ends, Keeps
<1>9. QED
  BY <1>2, <1>3, <1>4, <1>5, <1>6, <1>7, <1>8 DEF Next, Pool

\* The invariant holds for every pool, every chain and every sequence of operations.
THEOREM DepositsInvariant == Spec => []DepositsInv
<1>1. DepositsInv /\ [Next]_vars => DepositsInv'
  BY DepositsStep
<1>2. QED
  BY <1>1, DepositsInit, PTL DEF Spec

-----------------------------------------------------------------------------
(* The safety properties.                                                    *)

\* Whatever ends an order cools its address in the same transaction: no address stays
\* assigned to an order that is over (ExpireOrders, CancelOrder, promotePaidOrders).
THEOREM NothingStranded == Spec => []NoAddressStranded
<1>1. DepositsInv => NoAddressStranded
  BY DEF DepositsInv, DbOK, Serves, NoAddressStranded, In
<1>2. QED
  BY <1>1, DepositsInvariant, PTL

\* Ingestion credits a payment to the order that held the address at the time of payment,
\* by the follower or by the safety net, however late (OrderFor).
THEOREM PaymentsReachTheirHolder == Spec => CreditedToHolder
<1>1. ASSUME DepositsInv, [Next]_vars, NEW t \in Transfers,
             db.payments[t].order = NoOrder, db'.payments[t].order # NoOrder,
             db.payments[t].status # "unattributed"
      PROVE  ToHolder(db', t)
  BY <1>1, DepositsStep DEF Credits
<1>2. ASSUME NEW t \in Transfers, ToHolder(db', t) PROVE Credit(t)
  BY <1>2 DEF ToHolder, Credit, Had
<1>3. DepositsInv /\ [Next]_vars => [IngestCredits]_vars
  BY <1>1, <1>2 DEF IngestCredits
<1>4. QED
  BY <1>3, DepositsInvariant, PTL DEF Spec, CreditedToHolder

\* No operation of any part reopens an order that is over.
THEOREM OverIsOver == Spec => TerminalStays
<1>1. ASSUME DepositsInv, [Next]_vars, NEW o \in Orders, db.orders[o].status \in Terminal
      PROVE  db'.orders[o].status = db.orders[o].status
  BY <1>1, DepositsStep DEF Fate, Ends, Expires, Terminal, Funded, Live, Open
<1>2. DepositsInv /\ [Next]_vars =>
        [\A o \in Orders : db.orders[o].status \in Terminal
                              => db'.orders[o].status = db.orders[o].status]_vars
  BY <1>1
<1>3. QED
  BY <1>2, DepositsInvariant, PTL DEF Spec, TerminalStays

\* No operation expires an order that its payments, dust included, pay for (ExpireOrders
\* recalculates in the transaction that expires).
THEOREM PaidOrdersSurvive == Spec => PaidNotExpired
<1>1. ASSUME DepositsInv, [Next]_vars, NEW o \in Orders, db.orders[o].status \notin Terminal,
             db'.orders[o].status \in {"expired", "expired_funded"}
      PROVE  Received(db, o) < db.orders[o].expected
  BY <1>1, DepositsStep DEF Fate, Ends, Terminal, Funded, Live, Open
<1>2. DepositsInv /\ [Next]_vars =>
        [\A o \in Orders :
           /\ db'.orders[o].status \in {"expired", "expired_funded"}
           /\ db.orders[o].status \notin Terminal
           => Received(db, o) < db.orders[o].expected]_vars
  BY <1>1
<1>3. QED
  BY <1>2, DepositsInvariant, PTL DEF Spec, PaidNotExpired

-----------------------------------------------------------------------------
(* The safety net.                                                           *)

\* A matched payment is recorded, with the time of its block, and nothing else is.
LEMMA MatchRecords ==
  ASSUME NEW t \in Transfers, NEW s, DbOK(db, now), db' = Match(db, t, s)
  PROVE  /\ db'.payments[t].status # "none" /\ db'.payments[t].time = s.time
         /\ db'.payments[t].height = s.height /\ db'.payments[t].block = s.block
         /\ \A o \in Orders : Resummed(db.orders[o], db'.orders[o])
         /\ db'.addresses = db.addresses
         /\ \A u \in Transfers \ {t} : db'.payments[u] = db.payments[u]
<1>1. /\ Columns(db) /\ NoOrder \notin Orders
      /\ db.payments[t].order \in Orders \cup {NoOrder}
      /\ db.addresses[Account(t)].order \in Orders \cup {NoOrder}
  BY AccountIsOurs, ChainAssumption DEF DbOK, RowsOK
<1> DEFINE e == Match(db, t, s)
<1>2. /\ Columns(e) /\ e.addresses = db.addresses
      /\ OrderFor(db, t, s.time) \in Orders \cup {NoOrder}
      /\ \E status \in {"seen", "unattributed"} :
           e.payments = [db.payments EXCEPT ![t] =
             UpsertedRow(db.payments[t], status, OrderFor(db, t, s.time), s)]
      /\ \A o \in Orders : Resummed(db.orders[o], e.orders[o])
      /\ Balanced(db) => Balanced(e)
  BY <1>1, MatchEffect
<1>3. PICK status \in {"seen", "unattributed"} :
        e.payments = [db.payments EXCEPT ![t] =
          UpsertedRow(db.payments[t], status, OrderFor(db, t, s.time), s)]
  BY <1>2
<1> HIDE DEF e
<1> DEFINE r == UpsertedRow(db.payments[t], status, OrderFor(db, t, s.time), s)
<1>4. r.status # "none" /\ r.time = s.time /\ r.height = s.height /\ r.block = s.block
  BY <1>1 DEF UpsertedRow, Columns
<1> HIDE DEF r
<1>5. QED
  BY <1>1, <1>2, <1>3, <1>4 DEF Columns, r, e

-----------------------------------------------------------------------------
(* The types, and the size of the pool.                                      *)

\* A set of numbers with a bound has a greatest member.
LEMMA GreatestExists ==
  ASSUME NEW S, S \subseteq Nat, S # {}, NEW m \in Nat, \A x \in S : x <= m
  PROVE  \E n \in S : \A x \in S : x <= n
<1> DEFINE less == OpToRel(<, Nat)
           bounds == {u \in Nat : \A x \in S : x <= u}
<1>1. \A x, y \in Nat : y < x => <<y, x>> \in less
  BY DEF OpToRel
<1>2. \E u \in bounds : \A v \in bounds : ~(<<v, u>> \in less)
  <2>1. bounds \subseteq Nat /\ bounds # {}
    BY DEF bounds
  <2> HIDE DEF less, bounds
  <2>2. IsWellFoundedOn(less, Nat)
    BY NatLessThanWellFounded DEF less
  <2>3. QED
    BY <2>1, <2>2, WFMin
<1> HIDE DEF less
<1>3. PICK u \in bounds : \A v \in bounds : ~(<<v, u>> \in less)
  BY <1>2
<1>4. u \in Nat /\ \A x \in S : x <= u
  BY <1>3
<1>5. u \in S
  <2> SUFFICES ASSUME u \notin S PROVE FALSE
    OBVIOUS
  <2>1. \A x \in S : x \in Nat /\ x < u
    BY <1>4
  <2>2. u # 0
    <3>1. PICK x \in S : x \in Nat /\ x < u
      BY <2>1
    <3>2. QED
      BY <3>1
  <2>3. u - 1 \in bounds
    BY <1>4, <2>1, <2>2
  <2>4. u - 1 \in Nat /\ u - 1 < u
    BY <1>4, <2>2
  <2>5. QED
    BY <1>1, <1>3, <1>4, <2>3, <2>4
<1>6. QED
  BY <1>4, <1>5

\* The pool derives no more addresses than it asks for (poolIndexes, nextIndex).
LEMMA FewIndexes ==
  ASSUME NEW n \in Nat
  PROVE  IsFiniteSet(NextIndexes(n)) /\ Cardinality(NextIndexes(n)) <= n
<1> DEFINE below(a) == {b \in In("none") : HdIndex[b] < HdIndex[a]}
           next == NextIndexes(n)
           rank == [a \in next |-> Cardinality(below(a))]
<1>1. In("none") \subseteq Addresses /\ next \subseteq In("none")
  BY DEF In, NextIndexes
<1>2. ASSUME NEW a \in next
      PROVE  IsFiniteSet(below(a)) /\ Cardinality(below(a)) \in 0..(n - 1)
  <2>1. IsFiniteSet(below(a))
    BY <1>1, PoolAssumption, FS_Subset
  <2>2. Cardinality(below(a)) < n
    BY DEF NextIndexes
  <2>3. QED
    BY <2>1, <2>2, FS_CardinalityType
<1>3. ASSUME NEW a \in next, NEW b \in next, HdIndex[a] < HdIndex[b]
      PROVE  rank[a] # rank[b]
  <2>1. HdIndex[a] \in Nat /\ HdIndex[b] \in Nat /\ \A c \in In("none") : HdIndex[c] \in Nat
    BY <1>1, PoolAssumption
  <2>2. below(a) \subseteq below(b)
    BY <1>3, <2>1
  <2>3. a \in below(b) /\ a \notin below(a)
    BY <1>1, <1>3, <2>1
  <2>4. Cardinality(below(a)) # Cardinality(below(b))
    BY <1>2, <2>2, <2>3, FS_Subset
  <2>5. QED
    BY <2>4
<1>4. ASSUME NEW a \in next, NEW b \in next, rank[a] = rank[b]
      PROVE  a = b
  <2>1. HdIndex[a] \in Nat /\ HdIndex[b] \in Nat
    BY <1>1, PoolAssumption
  <2>2. HdIndex[a] = HdIndex[b]
    BY <1>3, <1>4, <2>1
  <2>3. QED
    BY <1>1, <2>2, PoolAssumption
<1>5. rank \in Injection(next, 0..(n - 1))
  BY <1>2, <1>4 DEF Injection, IsInjective
<1>6. IsFiniteSet(0..(n - 1)) /\ Cardinality(0..(n - 1)) = n
  BY FS_Interval
<1> HIDE DEF next, rank
<1>7. IsFiniteSet(next) /\ Cardinality(next) <= n
  BY <1>5, <1>6, FS_Injection
<1>8. QED
  BY <1>7 DEF next

\* No address is forgotten; it is left only for the pool, its rest, or for good.
Aged(old, new) ==
  \/ new.state = old.state
  \/ old.state # "none" /\ new.state \in {"free", "cooling", "disabled"}

\* An address that cools ages (transitionAddressToCooling).
LEMMA CoolAges ==
  ASSUME NEW d, NEW e, NEW S, Columns(d), Columns(e), e.addresses = d.addresses,
         db' = Cool(e, S, now), NEW a \in Addresses
  PROVE  Aged(d.addresses[a], db'.addresses[a])
<1> DEFINE c == Cool(e, S, now)
<1>1. /\ Columns(c)
      /\ c.payments = e.payments /\ c.orders = e.orders /\ c.balances = e.balances
      /\ \A b \in Addresses : AddressMoves(e.addresses[b], c.addresses[b])
      /\ \A b \in Addresses : b \in S => c.addresses[b].state # "assigned"
  BY CoolEffect
<1> HIDE DEF c
<1>2. c = db'
  BY DEF c
<1>3. QED
  BY <1>1, <1>2 DEF AddressMoves, Aged

\* Only an order and the pool derive addresses; elsewhere they age.
LEMMA AddressesAge ==
  ASSUME DepositsInv, [Next]_vars, ~CreateOrder, ~TopUpPool, NEW a \in Addresses
  PROVE  Aged(db.addresses[a], db'.addresses[a])
<1>0. DbOK(db, now) /\ RowsOK(db) /\ Columns(db)
  BY DEF DepositsInv, DbOK, RowsOK
<1>1. CASE db'.addresses[a] = db.addresses[a]
  BY <1>1 DEF Aged
<1>2. CASE \E t \in Transfers : \E s : db' = Match(db, t, s)
  <2>0. PICK t \in Transfers : \E s : db' = Match(db, t, s)
    BY <1>2
  <2>1. PICK s : db' = Match(db, t, s)
    BY <2>0
  <2>2. db'.addresses = db.addresses
    BY <1>0, <2>1, MatchRecords
  <2>3. QED
    BY <1>1, <2>2
<1>3. CASE ApplySolidifiedHeight
  <2>1. PICK c : db' = ApplySolidifiedLedger(db, c, now)
    BY <1>3 DEF ApplySolidifiedHeight, Changed
  <2> DEFINE e == ApplySolidifiedLedger(db, c, now)
  <2>2. /\ Columns(e)
        /\ e.payments = [u \in Transfers |->
             Judged(db.payments[u], u \in Mismatched(db, c), u \in Promotable(db, c))]
        /\ \A o \in Orders : Moves(db.orders[o], e.orders[o])
        /\ \A b \in Addresses : AddressMoves(db.addresses[b], e.addresses[b])
        /\ Served(db, e)
        /\ Balanced(db) => Balanced(e)
    BY <1>0, ApplySolidifiedLedgerEffect
  <2> HIDE DEF e
  <2>3. db' = e
    BY <2>1 DEF e
  <2>4. QED
    BY <2>2, <2>3 DEF AddressMoves, Aged
<1>4. CASE ReleaseCooled
  <2> DEFINE cooled == {b \in In("cooling") : db.addresses[b].until <= now}
  <2>1. db' = [db EXCEPT !.addresses = [b \in Addresses |->
                 IF b \in cooled THEN Idle("free") ELSE @[b]]]
    BY <1>4 DEF ReleaseCooled, Changed
  <2>2. a \in cooled => db.addresses[a].state = "cooling"
    BY DEF In
  <2> HIDE DEF cooled
  <2>3. QED
    BY <1>0, <2>1, <2>2 DEF Columns, Idle, Aged
<1>5. CASE DisableAddress
  <2>1. PICK b \in Derived : db' = [db EXCEPT !.addresses[b].state = "disabled"]
    BY <1>5 DEF DisableAddress, Changed
  <2>2. b \in Addresses /\ db.addresses[b].state # "none"
    BY <2>1 DEF Derived, In
  <2>3. QED
    BY <1>0, <2>1, <2>2 DEF Columns, Aged
<1>6. CASE ExpireOrders
  <2> DEFINE due == {o \in Orders : db.orders[o].status \in {"pending", "partial"}
                                    /\ db.orders[o].expires <= now}
             ended == {o \in due : Expired(o).status # "paid"}
             swept == [db EXCEPT !.orders = [o \in Orders |->
                         IF o \in due THEN Expired(o) ELSE @[o]]]
  <2>1. db' = Cool(swept, {db.orders[o].address : o \in ended}, now)
    BY <1>6 DEF ExpireOrders, Changed
  <2>2. ASSUME NEW o \in Orders PROVE DOMAIN Expired(o) = DOMAIN db.orders[o]
    <3> DEFINE summed == Recalculated(db, o, TRUE)
               status == IF summed.received > 0 THEN "expired_funded" ELSE "expired"
    <3>1. DOMAIN summed = DOMAIN db.orders[o] /\ Resummed(db.orders[o], summed)
      BY <1>0, RecalculatedKeeps
    <3>2. \/ Expired(o) = summed
          \/ Expired(o) = [summed EXCEPT !.status = status, !.told = "expired"]
      BY DEF Expired
    <3> HIDE DEF summed, status
    <3>3. QED
      BY <3>1, <3>2
  <2> HIDE DEF due, ended
  <2>3. Columns(swept) /\ swept.addresses = db.addresses
    BY <1>0, <2>2 DEF Columns
  <2> HIDE DEF swept
  <2>4. QED
    BY <1>0, <2>1, <2>3, CoolAges
<1>7. CASE CancelOrder
  <2>0. PICK o \in Orders : \E status, S :
          db' = Cool([db EXCEPT !.orders[o].status = status], S, now)
    BY <1>7 DEF CancelOrder, Changed
  <2>1. PICK status, S : db' = Cool([db EXCEPT !.orders[o].status = status], S, now)
    BY <2>0
  <2> DEFINE w == [db EXCEPT !.orders[o].status = status]
  <2>2. Columns(w) /\ w.addresses = db.addresses
    BY <1>0 DEF Columns
  <2>3. db' = Cool(w, S, now)
    BY <2>1
  <2> HIDE DEF w
  <2>4. QED
    BY <1>0, <2>2, <2>3, CoolAges
<1>8. CASE ExtendOrder \/ ResolveFundedOrder
  <2>1. \E x : db' = [db EXCEPT !.orders = x]
    BY <1>0, <1>8 DEF ExtendOrder, ResolveFundedOrder, Changed, Columns
  <2>2. QED
    BY <1>0, <1>1, <2>1 DEF Columns
<1>9. CASE AttributePayment
  <2>1. PICK u \in Transfers, o \in Orders :
          db' = [Attributed(u, o) EXCEPT
                   !.orders[o] = Recalculated(Attributed(u, o), o, TRUE),
                   !.balances[Account(u)][AssetOf[u]] =
                     BalanceOf(Attributed(u, o), Account(u), AssetOf[u])]
    BY <1>9 DEF AttributePayment, Changed
  <2> DEFINE bound == Attributed(u, o)
  <2>2. \E x, y : db' = [bound EXCEPT !.orders[o] = x, !.balances[Account(u)][AssetOf[u]] = y]
    BY <2>1
  <2>3. DOMAIN bound = DOMAIN db /\ bound.addresses = db.addresses
    BY <1>0 DEF Attributed, Columns
  <2> HIDE DEF bound
  <2>4. db'.addresses = bound.addresses
    BY <1>0, <2>2, <2>3 DEF Columns
  <2>5. QED
    BY <1>1, <2>3, <2>4
<1>10. CASE CommitBlock
  BY <1>1, <1>2, <1>10, CommitMatches
<1>11. CASE ApplyReconciledPayments
  BY <1>2, <1>11 DEF ApplyReconciledPayments, DepositsInv
<1>12. CASE \/ Produce \/ SafetyNet \/ GetAccountHistory \/ HistoryItem \/ NextTarget \/ EndPass \/ Pass \/ UNCHANGED vars
  BY <1>1, <1>12 DEF Produce, SafetyNet, GetAccountHistory, HistoryItem, NextTarget, EndPass, Pass, vars
<1>13. QED
  BY <1>3, <1>4, <1>5, <1>6, <1>7, <1>8, <1>9, <1>10, <1>11, <1>12
     DEF Next, Chain, Net, Pool, Lifecycle

States == {"none", "free", "assigned", "cooling", "disabled"}
PoolOK ==
  /\ \A a \in Addresses : db.addresses[a].state \in States
  /\ Cardinality(Derived) <= PoolMaxSize

\* What derives at most the room that the pool has leaves it within its size.
LEMMA RoomIsEnough ==
  ASSUME PoolOK, NEW S, S \subseteq Addresses, Derived' \subseteq Derived \cup S,
         Cardinality(Derived) + Cardinality(S) <= PoolMaxSize
  PROVE  Cardinality(Derived') <= PoolMaxSize
<1>1. Derived \subseteq Addresses /\ Derived' \subseteq Addresses
  BY DEF Derived
<1>2. IsFiniteSet(Derived) /\ IsFiniteSet(S)
  BY <1>1, PoolAssumption, FS_Subset
<1> DEFINE D == Derived
           E == Derived'
<1>3. IsFiniteSet(D \cup S) /\ Cardinality(D \cup S) = Cardinality(D) + Cardinality(S) - Cardinality(D \cap S)
  BY <1>2, FS_Union
<1>4. IsFiniteSet(D \cap S) /\ IsFiniteSet(E) /\ Cardinality(E) <= Cardinality(D \cup S)
  BY <1>2, <1>3, FS_Subset
<1>5. /\ Cardinality(D) \in Nat /\ Cardinality(S) \in Nat /\ Cardinality(D \cap S) \in Nat
      /\ Cardinality(E) \in Nat /\ PoolMaxSize \in Int
  <2>1. /\ Cardinality(D) \in Nat /\ Cardinality(S) \in Nat /\ Cardinality(D \cap S) \in Nat
        /\ Cardinality(E) \in Nat
    BY <1>2, <1>4, FS_CardinalityType
  <2>2. QED
    BY <2>1, PoolAssumption
<1> HIDE DEF D, E
<1>6. QED
  BY <1>3, <1>4, <1>5 DEF D, E

\* No interleaving derives an address too many (insertNextAddress, TopUpPool).
LEMMA PoolStep ==
  ASSUME DepositsInv, PoolOK, [Next]_vars
  PROVE  PoolOK'
<1>0. Columns(db) /\ PoolMaxSize \in Int
  BY PoolAssumption DEF DepositsInv, DbOK, RowsOK
<1>1. IsFiniteSet(Derived) /\ Cardinality(Derived) \in Nat
  <2>1. Derived \subseteq Addresses
    BY DEF Derived
  <2>2. QED
    BY <2>1, PoolAssumption, FS_Subset, FS_CardinalityType
<1>2. CASE ~CreateOrder /\ ~TopUpPool
  <2>1. \A a \in Addresses : Aged(db.addresses[a], db'.addresses[a])
    BY <1>2, AddressesAge
  <2>2. Derived' \subseteq Derived \cup {}
    BY <2>1 DEF Aged, Derived, In
  <2>3. Cardinality({}) = 0
    BY FS_EmptySet
  <2>4. Cardinality(Derived') <= PoolMaxSize
    <3>1. Cardinality(Derived) + Cardinality({}) <= PoolMaxSize
      BY <1>0, <1>1, <2>3 DEF PoolOK
    <3>2. QED
      BY <2>2, <3>1, RoomIsEnough
  <2>5. QED
    BY <2>1, <2>4 DEF PoolOK, Aged, States
<1>3. CASE CreateOrder
  <2>1. PICK o \in Orders, a \in Addresses, want \in Wants :
          /\ IsLowest(a, Claimable)
          /\ db' = [db EXCEPT
                      !.orders[o] = Ordered(a, want.asset, want.expected, now, now + Ttl),
                      !.addresses[a] = [Idle("assigned") EXCEPT !.order = o]]
    BY <1>3 DEF CreateOrder, Changed
  <2>2. db'.addresses = [db.addresses EXCEPT ![a] = [Idle("assigned") EXCEPT !.order = o]]
    BY <1>0, <2>1 DEF Columns
  <2>3. [Idle("assigned") EXCEPT !.order = o].state = "assigned"
    BY DEF Idle
  <2>4. /\ db'.addresses[a].state = "assigned"
        /\ \A b \in Addresses \ {a} : db'.addresses[b] = db.addresses[b]
    BY <1>0, <2>2, <2>3 DEF Columns
  <2>5. Cardinality(Derived') <= PoolMaxSize
    <3>1. CASE In("free") # {}
      <4>1. db.addresses[a].state = "free"
        BY <2>1, <3>1 DEF IsLowest, Claimable, In
      <4>2. Derived' = Derived
        BY <2>4, <4>1 DEF Derived, In
      <4>3. QED
        BY <4>2 DEF PoolOK
    <3>2. CASE In("free") = {}
      <4>1. Cardinality(Derived) < PoolMaxSize
        BY <2>1, <3>2 DEF IsLowest, Claimable
      <4>2. Derived' \subseteq Derived \cup {a}
        BY <2>4 DEF Derived, In
      <4>3. Cardinality({a}) = 1
        BY FS_Singleton
      <4>4. Cardinality(Derived) + Cardinality({a}) <= PoolMaxSize
        BY <1>0, <1>1, <4>1, <4>3
      <4>5. QED
        BY <4>2, <4>4, RoomIsEnough
    <3>3. QED
      BY <3>1, <3>2
  <2>6. QED
    BY <2>4, <2>5 DEF PoolOK, States
<1>4. CASE TopUpPool
  <2> DEFINE free == Cardinality(In("free"))
             room == PoolMaxSize - Cardinality(Derived)
             wanted == PoolInitialSize - free
             n == IF wanted < room THEN wanted ELSE room
             added == NextIndexes(n)
  <2>1. /\ added # {}
        /\ db' = [db EXCEPT !.addresses = [a \in Addresses |->
                    IF a \in added THEN Idle("free") ELSE @[a]]]
    BY <1>4 DEF TopUpPool, Changed
  <2>2. free \in Nat /\ room \in Int /\ wanted \in Int /\ n \in Int /\ n <= room
    <3>1. In("free") \subseteq Addresses
      BY DEF In
    <3>2. free \in Nat
      BY <3>1, PoolAssumption, FS_Subset, FS_CardinalityType
    <3>3. QED
      BY <1>0, <1>1, <3>2, PoolAssumption
  <2>3. n \in Nat
    <3>1. PICK a \in In("none") : Cardinality({b \in In("none") : HdIndex[b] < HdIndex[a]}) < n
      BY <2>1 DEF NextIndexes
    <3>2. {b \in In("none") : HdIndex[b] < HdIndex[a]} \subseteq Addresses
      BY DEF In
    <3>3. Cardinality({b \in In("none") : HdIndex[b] < HdIndex[a]}) \in Nat
      BY <3>2, PoolAssumption, FS_Subset, FS_CardinalityType
    <3>4. QED
      BY <2>2, <3>1, <3>3
  <2> HIDE DEF n
  <2>4. IsFiniteSet(added) /\ Cardinality(added) <= n
    BY <2>3, FewIndexes
  <2>5. Cardinality(Derived) + Cardinality(added) <= PoolMaxSize
    <3>1. Cardinality(added) \in Nat
      BY <2>4, FS_CardinalityType
    <3>2. QED
      BY <1>0, <1>1, <2>2, <2>3, <2>4, <3>1
  <2>6. added \subseteq Addresses
    BY DEF NextIndexes, In
  <2> HIDE DEF added
  <2>7. \A a \in Addresses :
          db'.addresses[a] = IF a \in added THEN Idle("free") ELSE db.addresses[a]
    BY <1>0, <2>1 DEF Columns
  <2>8. Idle("free").state = "free"
    BY DEF Idle
  <2>9. Derived' \subseteq Derived \cup added
    BY <2>7 DEF Derived, In
  <2>10. Cardinality(Derived') <= PoolMaxSize
    BY <2>5, <2>6, <2>9, RoomIsEnough
  <2>11. QED
    BY <2>7, <2>8, <2>10 DEF PoolOK, States
<1>5. QED
  BY <1>2, <1>3, <1>4

\* The times of payments are those of blocks, so one of them is the newest; what the pass
\* holds is in a block.
TimesOK ==
  /\ \E m \in Nat : \A t \in Transfers : db.payments[t].time \in 0..m
  /\ scan.item # NoTransfer => scan.height \in Heights

\* A sighting at a height of the chain has the time of a block.
LEMMA SightingTime ==
  ASSUME NEW h \in Heights
  PROVE  SightingAt(h).time \in Nat
<1>1. BlockAt(h) \in Blocks
  BY DEF Heights, BlockAt
<1>2. QED
  BY <1>1, ChainAssumption DEF SightingAt, Sighting

\* What no match writes keeps its time and its block.
Where(p) == <<p.time, p.height, p.block>>
LEMMA TimesStay ==
  ASSUME DepositsInv, [Next]_vars, NEW t \in Transfers,
         ~\E u \in Transfers : \E h \in Heights : db' = Match(db, u, SightingAt(h)),
         ~ApplyReconciledPayments
  PROVE  /\ Where(db'.payments[t]) = Where(db.payments[t])
         /\ db.payments[t].status = "none" => db'.payments[t].status = "none"
<1>0. DbOK(db, now) /\ Columns(db)
  BY DEF DepositsInv, DbOK, RowsOK
<1>1. CASE db'.payments = db.payments
  BY <1>1
<1>2. CASE ApplySolidifiedHeight
  <2>1. PICK c : db' = ApplySolidifiedLedger(db, c, now)
    BY <1>2 DEF ApplySolidifiedHeight, Changed
  <2> DEFINE e == ApplySolidifiedLedger(db, c, now)
  <2>2. /\ Columns(e)
        /\ e.payments = [u \in Transfers |->
             Judged(db.payments[u], u \in Mismatched(db, c), u \in Promotable(db, c))]
        /\ \A o \in Orders : Moves(db.orders[o], e.orders[o])
        /\ \A a \in Addresses : AddressMoves(db.addresses[a], e.addresses[a])
        /\ Served(db, e)
        /\ Balanced(db) => Balanced(e)
    BY <1>0, ApplySolidifiedLedgerEffect
  <2> HIDE DEF e
  <2>3. e.payments[t] = Judged(db.payments[t], t \in Mismatched(db, c), t \in Promotable(db, c))
    BY <2>2
  <2>4. /\ Where(e.payments[t]) = Where(db.payments[t])
        /\ db.payments[t].status = "none" => e.payments[t].status = "none"
    BY <1>0, <2>3 DEF Judged, Columns, Where, Mismatched, Waiting
  <2>5. QED
    BY <2>1, <2>4 DEF e
<1>3. CASE AttributePayment
  <2>1. PICK u \in Transfers, o \in Orders :
          /\ db.payments[u].status = "unattributed"
          /\ db' = [Attributed(u, o) EXCEPT
                   !.orders[o] = Recalculated(Attributed(u, o), o, TRUE),
                   !.balances[Account(u)][AssetOf[u]] =
                     BalanceOf(Attributed(u, o), Account(u), AssetOf[u])]
    BY <1>3 DEF AttributePayment, Changed
  <2> DEFINE bound == Attributed(u, o)
  <2>2. \E x, y : db' = [bound EXCEPT !.orders[o] = x, !.balances[Account(u)][AssetOf[u]] = y]
    BY <2>1
  <2>3. /\ DOMAIN bound = DOMAIN db /\ Where(bound.payments[t]) = Where(db.payments[t])
        /\ db.payments[t].status = "none" => bound.payments[t].status = "none"
    BY <1>0, <2>1 DEF Attributed, Columns, Where
  <2> HIDE DEF bound
  <2>4. db'.payments = bound.payments
    BY <1>0, <2>2, <2>3 DEF Columns
  <2>5. QED
    BY <2>3, <2>4
<1>4. CASE CommitBlock
  <2>1. cursor + 1 \in Heights
    <3>1. cursor + 1 \in 1..tip
      BY <1>4 DEF CommitBlock, DepositsInv
    <3>2. \E b \in Blocks : BlockHeight[b] = cursor + 1
      BY <3>1 DEF DepositsInv
    <3>3. QED
      BY <3>2 DEF Heights
  <2>2. BlockAt(cursor + 1) \in Blocks
    BY <2>1 DEF Heights, BlockAt
  <2> DEFINE u == Carries[BlockAt(cursor + 1)]
  <2>3. \/ db' = db
        \/ u # NoTransfer /\ db' = Match(db, u, SightingAt(cursor + 1))
    BY <1>4 DEF CommitBlock
  <2>4. u \in Transfers \cup {NoTransfer}
    BY <2>2, ChainAssumption
  <2> HIDE DEF u
  <2>5. QED
    BY <2>1, <2>3, <2>4
<1>5. CASE \/ Produce \/ SafetyNet \/ GetAccountHistory \/ HistoryItem \/ NextTarget \/ EndPass \/ Pass \/ UNCHANGED vars
  BY <1>1, <1>5 DEF Produce, SafetyNet, GetAccountHistory, HistoryItem, NextTarget, EndPass, Pass, vars
<1>6. CASE Pool \/ Lifecycle
  BY <1>0, <1>1, <1>6, PoolKeeps, CreateKeeps, ExpireKeeps, CancelKeeps, OperatorKeeps
     DEF Pool, Lifecycle, DepositsInv
<1>7. QED
  BY <1>2, <1>3, <1>4, <1>5, <1>6 DEF Next, Chain, Net

\* No step dates a payment but by the block it is in.
LEMMA TimesStep ==
  ASSUME DepositsInv, TimesOK, [Next]_vars
  PROVE  \E m \in Nat : \A t \in Transfers : db'.payments[t].time \in 0..m
<1>0. DbOK(db, now)
  BY DEF DepositsInv
<1>1. PICK m \in Nat : \A t \in Transfers : db.payments[t].time \in 0..m
  BY DEF TimesOK
<1>2. ASSUME NEW u \in Transfers, NEW h \in Heights, db' = Match(db, u, SightingAt(h))
      PROVE  \E n \in Nat : \A t \in Transfers : db'.payments[t].time \in 0..n
  <2> DEFINE at == SightingAt(h).time
             n == IF m < at THEN at ELSE m
  <2>1. at \in Nat
    BY SightingTime
  <2>2. /\ db'.payments[u].time = at
        /\ \A t \in Transfers \ {u} : db'.payments[t] = db.payments[t]
    BY <1>0, <1>2, MatchRecords
  <2> HIDE DEF at
  <2>3. n \in Nat /\ at <= n /\ m <= n
    BY <2>1
  <2> HIDE DEF n
  <2>4. \A t \in Transfers : db'.payments[t].time \in 0..n
    BY <1>1, <2>1, <2>2, <2>3
  <2>5. QED
    BY <2>3, <2>4
<1>3. CASE ApplyReconciledPayments
  <2>1. scan.item \in Transfers /\ scan.height \in Heights
        /\ db' = Match(db, scan.item, SightingAt(scan.height))
    BY <1>3 DEF ApplyReconciledPayments, DepositsInv, TimesOK
  <2>2. QED
    BY <1>2, <2>1
<1>4. CASE /\ ~\E u \in Transfers : \E h \in Heights : db' = Match(db, u, SightingAt(h))
           /\ ~ApplyReconciledPayments
  BY <1>1, <1>4, TimesStay DEF Where
<1>5. QED
  BY <1>2, <1>3, <1>4

\* The time of the newest payment of an address is the time of a payment, or zero.
LEMMA NewestIsTime ==
  ASSUME TimesOK, NEW a
  PROVE  Newest(a) \in Nat
<1> DEFINE mine == {t \in Transfers : Account(t) = a /\ db.payments[t].status # "none"}
           times == {0} \cup {db.payments[t].time : t \in mine}
<1>1. PICK m \in Nat : \A t \in Transfers : db.payments[t].time \in 0..m
  BY DEF TimesOK
<1>2. times \subseteq Nat /\ times # {} /\ \A x \in times : x <= m
  BY <1>1
<1>3. \A t \in mine : db.payments[t].time \in times
  OBVIOUS
<1> HIDE DEF times
<1>4. \E n \in times : \A x \in times : x <= n
  BY <1>2, GreatestExists
<1>5. \E n \in times : \A t \in mine : db.payments[t].time <= n
  BY <1>3, <1>4
<1>6. Newest(a) = CHOOSE n \in times : \A t \in mine : db.payments[t].time <= n
  BY DEF Newest, times
<1>7. QED
  BY <1>2, <1>5, <1>6

\* The types of the safety net's pass.
ScanOK ==
  /\ scan.todo \subseteq Addresses /\ scan.since \in [Addresses -> Nat]
  /\ scan.query \in 0..Len(Queries)
  /\ scan.left \subseteq Transfers /\ scan.seen \subseteq Transfers

\* Every step of the pass keeps them, and holds what a block carries.
LEMMA ScanStep ==
  ASSUME DepositsInv, TimesOK, ScanOK, [Next]_vars
  PROVE  ScanOK' /\ (scan'.item # NoTransfer => scan'.height \in Heights)
<1> DEFINE Goal == ScanOK' /\ (scan'.item # NoTransfer => scan'.height \in Heights)
<1>0. DOMAIN scan = {"todo", "since", "query", "left", "seen", "item", "height"}
  BY DEF DepositsInv
<1>1. CASE scan' = scan
  BY <1>1 DEF ScanOK, TimesOK
<1>2. /\ NoScan.todo = {} /\ NoScan.since \in [Addresses -> Nat] /\ NoScan.item = NoTransfer
      /\ NoScan.query = 0 /\ NoScan.left = {} /\ NoScan.seen = {} /\ Len(Queries) = 4
      /\ DOMAIN NoScan = {"todo", "since", "query", "left", "seen", "item", "height"}
  BY DEF NoScan, Queries
<1>3. CASE scan' = NoScan
  BY <1>2, <1>3 DEF ScanOK
<1>4. CASE SafetyNet
  <2>1. PICK full \in BOOLEAN :
          LET targets == In("assigned") \cup (IF full THEN In("cooling") ELSE {})
          IN scan' = [NoScan EXCEPT
               !.todo = targets,
               !.since = [a \in Addresses |->
                  IF a \in targets /\ Newest(a) > Lookback THEN Newest(a) - Lookback ELSE 0]]
    BY <1>4 DEF SafetyNet
  <2> DEFINE targets == In("assigned") \cup (IF full THEN In("cooling") ELSE {})
             since == [a \in Addresses |->
                  IF a \in targets /\ Newest(a) > Lookback THEN Newest(a) - Lookback ELSE 0]
  <2>2. targets \subseteq Addresses
    BY DEF In
  <2>3. since \in [Addresses -> Nat]
    <3>1. \A a \in Addresses : Newest(a) \in Nat /\ Lookback \in Nat
      BY NewestIsTime, LifetimeAssumption
    <3> HIDE DEF targets
    <3>2. QED
      BY <3>1
  <2>4. scan' = [NoScan EXCEPT !.todo = targets, !.since = since]
    BY <2>1
  <2> HIDE DEF targets, since
  <2>5. /\ scan'.todo = targets /\ scan'.since = since /\ scan'.item = NoTransfer
        /\ scan'.query = 0 /\ scan'.left = {} /\ scan'.seen = {}
    BY <1>2, <2>4
  <2>6. QED
    BY <1>2, <2>2, <2>3, <2>5 DEF ScanOK
<1>5. CASE HistoryItem
  <2>1. PICK b \in Blocks :
          /\ Carries[b] \in scan.left
          /\ scan' = [scan EXCEPT !.item = Carries[b], !.height = BlockHeight[b],
                                  !.left = @ \ {Carries[b]}, !.seen = @ \cup {Carries[b]}]
    BY <1>5 DEF HistoryItem
  <2>2. /\ scan'.todo = scan.todo /\ scan'.since = scan.since /\ scan'.height = BlockHeight[b]
        /\ scan'.query = scan.query /\ scan'.left = scan.left \ {Carries[b]}
        /\ scan'.seen = scan.seen \cup {Carries[b]}
    BY <1>0, <2>1
  <2>3. QED
    BY <2>1, <2>2 DEF ScanOK, Heights
<1>6. CASE ApplyReconciledPayments
  <2>1. scan' = [scan EXCEPT !.item = NoTransfer, !.height = 0]
    BY <1>6 DEF ApplyReconciledPayments
  <2>2. /\ scan'.todo = scan.todo /\ scan'.since = scan.since /\ scan'.item = NoTransfer
        /\ scan'.query = scan.query /\ scan'.left = scan.left /\ scan'.seen = scan.seen
    BY <1>0, <2>1
  <2>3. QED
    BY <2>2 DEF ScanOK
<1>7. CASE NextTarget
  <2>1. PICK a \in scan.todo :
          scan' = NoScan \/ scan' = [scan EXCEPT !.todo = @ \ {a}, !.query = 0]
    BY <1>7 DEF NextTarget
  <2>2. CASE scan' = [scan EXCEPT !.todo = @ \ {a}, !.query = 0]
    <3>1. /\ scan'.todo = scan.todo \ {a} /\ scan'.since = scan.since
          /\ scan'.item = scan.item /\ scan'.height = scan.height
          /\ scan'.query = 0 /\ scan'.left = scan.left /\ scan'.seen = scan.seen
      BY <1>0, <2>2
    <3>2. QED
      BY <1>2, <3>1 DEF ScanOK, TimesOK
  <2>3. QED
    BY <1>3, <2>1, <2>2
<1>8. CASE EndPass
  BY <1>3, <1>8 DEF EndPass
<1>9. CASE Pool \/ Lifecycle \/ AttributePayment
  BY <1>1, <1>9 DEF Pool, CreateOrder, TopUpPool, ReleaseCooled, DisableAddress, Lifecycle,
                    ExpireOrders, ExtendOrder, CancelOrder, ResolveFundedOrder, AttributePayment,
                    Changed
<1>10. CASE Chain \/ Pass \/ UNCHANGED vars
  BY <1>1, <1>10 DEF Chain, Produce, CommitBlock, ApplySolidifiedHeight, Changed, Pass, vars
<1>11. CASE GetAccountHistory
  <2>1. PICK S : /\ S \subseteq Transfers /\ scan.query < Len(Queries)
                 /\ scan' = [scan EXCEPT !.query = @ + 1, !.left = S]
    BY <1>11 DEF GetAccountHistory, History
  <2>2. /\ scan'.todo = scan.todo /\ scan'.since = scan.since
        /\ scan'.item = scan.item /\ scan'.height = scan.height
        /\ scan'.query = scan.query + 1 /\ scan'.left = S /\ scan'.seen = scan.seen
    BY <1>0, <2>1
  <2>3. QED
    BY <1>2, <2>1, <2>2 DEF ScanOK, TimesOK
<1>12. QED
  BY <1>4, <1>5, <1>6, <1>7, <1>8, <1>9, <1>10, <1>11 DEF Next, Net

\* The types of the tables and of the pass, and the size of the pool: whatever orders,
\* sweeps and top-ups interleave, no address is derived beyond pool.max_size, if the
\* start finds the pool within it.
THEOREM PoolStaysInSize == ASSUME PoolFits PROVE Spec => []TypeOK
<1>1. Init => PoolOK /\ TimesOK /\ ScanOK
  <2> SUFFICES ASSUME Init PROVE PoolOK /\ TimesOK /\ ScanOK
    OBVIOUS
  <2>1. /\ \A t \in Transfers : db.payments[t].time = 0
        /\ \A a \in Addresses : db.addresses[a].state \in {"none", "free", "disabled"}
    BY StartAssumption DEF Init, NoPayment, AddressRow
  <2>2. Derived = {a \in Addresses : StartDb.addresses[a].state # "none"}
    BY DEF Init, Derived, In
  <2>3. PoolOK
    BY <2>1, <2>2 DEF PoolOK, PoolFits, States
  <2>4. TimesOK
    <3>1. \A t \in Transfers : db.payments[t].time \in 0..0
      BY <2>1
    <3>2. 0 \in Nat
      OBVIOUS
    <3>3. QED
      BY <3>1, <3>2 DEF Init, NoScan, TimesOK
  <2>5. QED
    BY <2>3, <2>4 DEF Init, NoScan, ScanOK, Queries
<1>2. DepositsInv /\ PoolOK /\ TimesOK /\ ScanOK /\ [Next]_vars
        => (PoolOK /\ TimesOK /\ ScanOK)'
  BY PoolStep, TimesStep, ScanStep DEF TimesOK
<1>3. DepositsInv /\ PoolOK /\ TimesOK /\ ScanOK => TypeOK
  BY DEF DepositsInv, DbOK, RowsOK, PoolOK, States, ScanOK, TypeOK
<1>4. QED
  BY <1>1, <1>2, <1>3, DepositsInvariant, PTL DEF Spec

-----------------------------------------------------------------------------
(* One address, one order (POOL-006): an open order keeps its address until   *)
(* an order of that address leaves "confirmed".                               *)

\* The open orders of an address have it, assigned or disabled: never in the pool.
HoldsAddress(d, a) ==
  \A o \in Orders : d.orders[o].status \in Open /\ d.orders[o].address = a =>
    d.addresses[a].order = o /\ d.addresses[a].state \in {"assigned", "disabled"}

\* A payment is in the block of its height.
BlocksOK ==
  \A t \in Transfers : db.payments[t].status # "none" =>
    db.payments[t].height \in Heights /\ db.payments[t].block = BlockAt(db.payments[t].height)

\* If no order opens, and the address leaves only an order that ends, its open orders still
\* have it.
LEMMA HoldersStay ==
  ASSUME NEW d, NEW e, NEW a \in Addresses, HoldsAddress(d, a), FreedAt(d, e, a),
         ConfirmedStay(d, e, a),
         \A o \in Orders : Ends(d.orders[o], e.orders[o]) \/ Expires(d.orders[o], e.orders[o])
  PROVE  HoldsAddress(e, a)
<1> SUFFICES ASSUME NEW o \in Orders, e.orders[o].status \in Open, e.orders[o].address = a
             PROVE  e.addresses[a].order = o /\ e.addresses[a].state \in {"assigned", "disabled"}
  BY DEF HoldsAddress
<1>1. d.orders[o].status \in Open /\ d.orders[o].address = a
  BY DEF Ends, Expires, Keeps, ConfirmedStay, Live, Open
<1>2. d.addresses[a].order = o /\ d.addresses[a].state \in {"assigned", "disabled"}
  BY <1>1 DEF HoldsAddress
<1>3. e.addresses[a] = d.addresses[a]
  <2> SUFFICES ASSUME e.addresses[a] # d.addresses[a] PROVE FALSE
    OBVIOUS
  <2>1. PICK p \in Orders : /\ d.orders[p].address = a
                            /\ d.orders[p].status \in Open /\ e.orders[p].status \notin Open
    BY DEF FreedAt
  <2>2. p = o
    BY <1>2, <2>1 DEF HoldsAddress
  <2>3. QED
    BY <1>1, <2>1, <2>2 DEF Ends, Expires
<1>4. QED
  BY <1>2, <1>3

\* The same of a transaction that leaves the addresses alone.
LEMMA MovesHold ==
  ASSUME NEW d, NEW e, NEW a \in Addresses, HoldsAddress(d, a), e.addresses = d.addresses,
         ConfirmedStay(d, e, a), \A o \in Orders : Ends(d.orders[o], e.orders[o])
  PROVE  HoldsAddress(e, a)
BY HoldersStay DEF FreedAt

\* On a chain without forks the solidity head finds no payment in another block.
LEMMA NothingMismatched ==
  ASSUME BlocksOK, NEW solid, NEW c,
         c = [blocks |-> [h \in Heights |-> IF h <= cursor THEN BlockAt(h) ELSE NoBlock],
              last |-> cursor, solid |-> solid, suspected |-> Never]
  PROVE  Mismatched(db, c) = {}
<1> SUFFICES ASSUME NEW t \in Mismatched(db, c) PROVE FALSE
  OBVIOUS
<1>1. /\ t \in Transfers /\ db.payments[t].status \in {"seen", "unattributed"}
      /\ c.blocks[db.payments[t].height] # NoBlock
      /\ c.blocks[db.payments[t].height] # db.payments[t].block
  BY DEF Mismatched, Waiting
<1>2. /\ db.payments[t].height \in Heights
      /\ db.payments[t].block = BlockAt(db.payments[t].height)
  BY <1>1 DEF BlocksOK
<1>3. QED
  BY <1>1, <1>2

\* A new order takes an address of the pool, which no open order has.
LEMMA CreateHolds ==
  ASSUME DbOK(db, now), NEW b \in Addresses, HoldsAddress(db, b), CreateOrder
  PROVE  HoldsAddress(db', b)
<1>1. PICK o \in Orders, a \in Addresses, want \in Wants :
        /\ db.orders[o].status = "none"
        /\ IsLowest(a, Claimable)
        /\ db' = [db EXCEPT
                    !.orders[o] = Ordered(a, want.asset, want.expected, now, now + Ttl),
                    !.addresses[a] = [Idle("assigned") EXCEPT !.order = o]]
  BY DEF CreateOrder, Changed
<1>2. db.addresses[a].state \in {"none", "free"}
  BY <1>1 DEF IsLowest, Claimable, NextIndexes, In
<1> DEFINE order == Ordered(a, want.asset, want.expected, now, now + Ttl)
           held == [Idle("assigned") EXCEPT !.order = o]
<1>3. order.address = a /\ held.state = "assigned" /\ held.order = o
  BY DEF Ordered, Idle
<1> HIDE DEF order, held
<1>4. /\ db'.orders = [db.orders EXCEPT ![o] = order]
      /\ db'.addresses = [db.addresses EXCEPT ![a] = held]
  BY <1>1 DEF DbOK, RowsOK, Columns, order, held
<1>5. /\ db'.orders[o] = order /\ \A p \in Orders \ {o} : db'.orders[p] = db.orders[p]
      /\ db'.addresses[a] = held
      /\ \A c \in Addresses \ {a} : db'.addresses[c] = db.addresses[c]
  BY <1>4 DEF DbOK, RowsOK, Columns
<1> SUFFICES ASSUME NEW p \in Orders, db'.orders[p].status \in Open, db'.orders[p].address = b
             PROVE  /\ db'.addresses[b].order = p
                    /\ db'.addresses[b].state \in {"assigned", "disabled"}
  BY DEF HoldsAddress
<1>6. CASE p = o
  BY <1>3, <1>5, <1>6
<1>7. CASE p # o
  <2>1. /\ db.addresses[b].order = p
        /\ db.addresses[b].state \in {"assigned", "disabled"}
    BY <1>5, <1>7 DEF HoldsAddress
  <2>2. b # a
    BY <1>2, <2>1
  <2>3. QED
    BY <1>5, <2>1, <2>2
<1>8. QED
  BY <1>6, <1>7

\* The pool takes back, derives or disables; it takes no address from an open order.
LEMMA PoolHolds ==
  ASSUME DbOK(db, now), NEW b \in Addresses, HoldsAddress(db, b),
         TopUpPool \/ ReleaseCooled \/ DisableAddress
  PROVE  HoldsAddress(db', b)
<1>0. DOMAIN db = {"payments", "orders", "addresses", "balances"} /\ DOMAIN db.addresses = Addresses
      /\ \A a \in Addresses : DOMAIN db.addresses[a] = {"state", "order", "released", "until"}
  BY DEF DbOK, RowsOK, Columns
<1> DEFINE Free(S) == [db EXCEPT !.addresses = [a \in Addresses |->
                        IF a \in S THEN Idle("free") ELSE @[a]]]
<1>1. ASSUME NEW S, db' = Free(S),
             \A a \in S : a \in Addresses => db.addresses[a].state \in {"none", "cooling"}
      PROVE  HoldsAddress(db', b)
  <2>1. /\ db'.orders = db.orders
        /\ db'.addresses = [a \in Addresses |-> IF a \in S THEN Idle("free") ELSE db.addresses[a]]
    BY <1>0, <1>1
  <2>2. QED
    BY <1>1, <2>1 DEF HoldsAddress
<1>2. CASE TopUpPool
  <2> DEFINE free == Cardinality(In("free"))
             room == PoolMaxSize - Cardinality(Derived)
             wanted == PoolInitialSize - free
             added == NextIndexes(IF wanted < room THEN wanted ELSE room)
  <2>1. db' = Free(added)
    BY <1>2 DEF TopUpPool, Changed
  <2>2. \A a \in added : db.addresses[a].state = "none"
    BY DEF NextIndexes, In
  <2> HIDE DEF added, Free
  <2>3. QED
    BY <1>1, <2>1, <2>2
<1>3. CASE ReleaseCooled
  <2> DEFINE cooled == {a \in In("cooling") : db.addresses[a].until <= now}
  <2>1. db' = Free(cooled)
    BY <1>3 DEF ReleaseCooled, Changed
  <2>2. \A a \in cooled : db.addresses[a].state = "cooling"
    BY DEF In
  <2> HIDE DEF cooled, Free
  <2>3. QED
    BY <1>1, <2>1, <2>2
<1>4. CASE DisableAddress
  <2>1. PICK a \in Addresses : db' = [db EXCEPT !.addresses[a].state = "disabled"]
    BY <1>4 DEF DisableAddress, Derived, Changed
  <2>2. /\ db'.orders = db.orders
        /\ db'.addresses = [db.addresses EXCEPT ![a] = [db.addresses[a] EXCEPT !.state = "disabled"]]
    BY <1>0, <2>1
  <2>3. /\ db'.addresses[b].order = db.addresses[b].order
        /\ db'.addresses[b].state \in {db.addresses[b].state, "disabled"}
    BY <1>0, <2>2
  <2>4. QED
    BY <2>2, <2>3 DEF HoldsAddress
<1>5. QED
  BY <1>2, <1>3, <1>4

\* A payment stays in the block of its height, where the follower or the net saw it.
LEMMA BlocksStep ==
  ASSUME DepositsInv, TimesOK, BlocksOK, [Next]_vars
  PROVE  BlocksOK'
<1>0. DbOK(db, now)
  BY DEF DepositsInv
<1>1. ASSUME NEW u \in Transfers, NEW h \in Heights, db' = Match(db, u, SightingAt(h))
      PROVE  BlocksOK'
  <2>1. /\ db'.payments[u].height = h /\ db'.payments[u].block = BlockAt(h)
        /\ \A t \in Transfers \ {u} : db'.payments[t] = db.payments[t]
    BY <1>0, <1>1, MatchRecords DEF SightingAt, Sighting
  <2>2. QED
    BY <2>1 DEF BlocksOK
<1>2. CASE ApplyReconciledPayments
  <2>1. scan.item \in Transfers /\ scan.height \in Heights
        /\ db' = Match(db, scan.item, SightingAt(scan.height))
    BY <1>2 DEF ApplyReconciledPayments, DepositsInv, TimesOK
  <2>2. QED
    BY <1>1, <2>1
<1>3. CASE /\ ~\E u \in Transfers : \E h \in Heights : db' = Match(db, u, SightingAt(h))
           /\ ~ApplyReconciledPayments
  <2>1. \A t \in Transfers : /\ db'.payments[t].height = db.payments[t].height
                             /\ db'.payments[t].block = db.payments[t].block
                             /\ db.payments[t].status = "none" => db'.payments[t].status = "none"
    BY <1>3, TimesStay DEF Where
  <2>2. QED
    BY <2>1 DEF BlocksOK
<1>4. QED
  BY <1>1, <1>2, <1>3

\* A match changes no address and opens no order that was not live.
LEMMA MatchHolds ==
  ASSUME DbOK(db, now), NEW a \in Addresses, HoldsAddress(db, a), NEW t \in Transfers, NEW s,
         db' = Match(db, t, s), ConfirmedStay(db, db', a)
  PROVE  HoldsAddress(db', a)
<1>1. db'.addresses = db.addresses /\ \A o \in Orders : Resummed(db.orders[o], db'.orders[o])
  BY MatchRecords
<1>2. \A o \in Orders : Ends(db.orders[o], db'.orders[o])
  BY <1>1 DEF Resummed, Ends, Live
<1>3. QED
  BY <1>1, <1>2, MovesHold

\* Every step that leaves the confirmed orders of an address alone leaves its open orders
\* the address.
LEMMA HoldersStep ==
  ASSUME DepositsInv, BlocksOK, [Next]_vars, NEW a \in Addresses, HoldsAddress(db, a),
         ConfirmedStay(db, db', a)
  PROVE  HoldsAddress(db', a)
<1>0. DbOK(db, now) /\ Columns(db) /\ now \in Nat
  BY DEF DepositsInv, DbOK, RowsOK
<1>1. CASE db' = db
  BY <1>1
<1>2. CASE CommitBlock
  <2>1. CASE \E t \in Transfers : \E s : db' = Match(db, t, s)
    BY <1>0, <2>1, MatchHolds
  <2>2. QED
    BY <1>1, <1>2, <2>1, CommitMatches
<1>3. CASE ApplyReconciledPayments
  <2>1. scan.item \in Transfers /\ db' = Match(db, scan.item, SightingAt(scan.height))
    BY <1>3 DEF ApplyReconciledPayments, DepositsInv
  <2>2. QED
    BY <1>0, <2>1, MatchHolds
<1>4. CASE ApplySolidifiedHeight
  <2>1. PICK solid \in 0..tip : db' = ApplySolidifiedLedger(db,
          [blocks |-> [h \in Heights |-> IF h <= cursor THEN BlockAt(h) ELSE NoBlock],
           last |-> cursor, solid |-> solid, suspected |-> Never], now)
    BY <1>4 DEF ApplySolidifiedHeight, Changed
  <2> DEFINE c == [blocks |-> [h \in Heights |-> IF h <= cursor THEN BlockAt(h) ELSE NoBlock],
                   last |-> cursor, solid |-> solid, suspected |-> Never]
             e == ApplySolidifiedLedger(db, c, now)
  <2>2. Mismatched(db, c) = {}
    BY NothingMismatched
  <2>3. db' = e
    BY <2>1
  <2> HIDE DEF c
  <2>4. /\ \A o \in Orders : Moves(db.orders[o], e.orders[o])
        /\ Mismatched(db, c) = {} => Freed(db, e)
    BY <1>0, ApplySolidifiedLedgerEffect
  <2> HIDE DEF e
  <2>5. \A o \in Orders : Ends(db.orders[o], db'.orders[o])
    BY <2>3, <2>4 DEF Moves, Ends
  <2>6. FreedAt(db, db', a)
    BY <2>2, <2>3, <2>4 DEF Freed, FreedAt
  <2>7. QED
    BY <2>5, <2>6, HoldersStay
<1>5. CASE Lifecycle
  <2>1. CASE ExpireOrders
    <3>1. /\ \A o \in Orders : Ends(db.orders[o], db'.orders[o]) \/ Expires(db.orders[o], db'.orders[o])
          /\ FreedAt(db, db', a)
      BY <1>0, <2>1, ExpireKeeps DEF Freed, FreedAt
    <3>2. QED
      BY <3>1, HoldersStay
  <2>2. CASE CancelOrder
    BY <1>0, <2>2, CancelKeeps, HoldersStay
  <2>3. CASE ExtendOrder \/ ResolveFundedOrder
    <3>1. db'.addresses = db.addresses
      <4>1. \E o \in Orders : \/ \E x : db' = [db EXCEPT !.orders[o].expires = x]
                              \/ db' = [db EXCEPT !.orders[o].resolved = TRUE]
        BY <2>3 DEF ExtendOrder, ResolveFundedOrder, Changed
      <4>2. QED
        BY <1>0, <4>1 DEF Columns
    <3>2. QED
      BY <1>0, <2>3, <3>1, OperatorKeeps, MovesHold
  <2>4. QED
    BY <1>5, <2>1, <2>2, <2>3 DEF Lifecycle
<1>6. CASE AttributePayment
  <2>1. PICK t \in Transfers, o \in Orders :
          db' = [Attributed(t, o) EXCEPT
                  !.orders[o] = Recalculated(Attributed(t, o), o, TRUE),
                  !.balances[Account(t)][AssetOf[t]] =
                    BalanceOf(Attributed(t, o), Account(t), AssetOf[t])]
    BY <1>6 DEF AttributePayment, Changed
  <2> DEFINE bound == Attributed(t, o)
  <2>2. \E x, y : db' = [bound EXCEPT !.orders[o] = x, !.balances[Account(t)][AssetOf[t]] = y]
    BY <2>1
  <2>3. DOMAIN bound = DOMAIN db /\ bound.addresses = db.addresses
    BY <1>0 DEF Attributed, Columns
  <2> HIDE DEF bound
  <2>4. db'.addresses = db.addresses
    BY <1>0, <2>2, <2>3 DEF Columns
  <2>5. QED
    BY <1>0, <1>6, <2>4, AttributeKeeps, MovesHold
<1>7. CASE Pool
  BY <1>0, <1>7, CreateHolds, PoolHolds DEF Pool
<1>8. CASE \/ Produce \/ SafetyNet \/ GetAccountHistory \/ HistoryItem \/ NextTarget \/ EndPass \/ Pass \/ UNCHANGED vars
  BY <1>1, <1>8 DEF Produce, SafetyNet, GetAccountHistory, HistoryItem, NextTarget, EndPass, Pass, vars
<1>9. QED
  BY <1>2, <1>3, <1>4, <1>5, <1>6, <1>7, <1>8 DEF Next, Chain, Net

\* An address whose open orders all have it serves one order at most (POOL-006).
LEMMA HoldersAreAlone ==
  ASSUME \A a \in Addresses : Strays(a) = {}, DepositsInv
  PROVE  AddressServesOneOrder
<1> SUFFICES ASSUME NEW o \in Orders, NEW p \in Orders,
                    db.orders[o].status \in {"pending", "partial"},
                    db.orders[p].status \in {"pending", "partial"},
                    db.orders[o].address = db.orders[p].address
             PROVE  o = p
  BY DEF AddressServesOneOrder
<1> DEFINE a == db.orders[o].address
<1>1. a \in Addresses
  BY DEF DepositsInv, DbOK, RowsOK
<1>2. o \notin Strays(a) /\ p \notin Strays(a)
  BY <1>1
<1>3. QED
  BY <1>2 DEF Strays, Open

\* What POOL-006 rests on: no interleaving of orders, sweeps, top-ups, promotions, passes
\* and operators takes an address from its open order, or gives it to two, before an order
\* of that address leaves "confirmed", by a payment that is ingested or attributed once more
\* (RecalculateOrder) or by force (CancelOrder).
THEOREM HoldersKeepTheirs == Spec => HolderKeepsAddress
<1>1. Init => BlocksOK /\ TimesOK /\ ScanOK
  <2> SUFFICES ASSUME Init PROVE BlocksOK /\ TimesOK /\ ScanOK
    OBVIOUS
  <2>1. \A t \in Transfers : db.payments[t] = NoPayment
    BY StartAssumption DEF Init
  <2>2. \A t \in Transfers : db.payments[t].status = "none" /\ db.payments[t].time \in 0..0
    BY <2>1 DEF NoPayment
  <2>3. 0 \in Nat
    OBVIOUS
  <2>4. TimesOK /\ BlocksOK
    BY <2>2, <2>3 DEF Init, NoScan, TimesOK, BlocksOK
  <2>5. QED
    BY <2>4 DEF Init, NoScan, ScanOK, Queries
<1>2. DepositsInv /\ BlocksOK /\ TimesOK /\ ScanOK /\ [Next]_vars
        => (BlocksOK /\ TimesOK /\ ScanOK)'
  BY BlocksStep, TimesStep, ScanStep DEF TimesOK
<1>3. ASSUME DepositsInv, BlocksOK, [Next]_vars, NEW a \in Addresses,
             Strays(a) = {}, Strays(a)' # {}
      PROVE  \E o \in Orders : /\ db.orders[o].address = a /\ db.orders[o].status = "confirmed"
                              /\ db'.orders[o].status # "confirmed"
  <2> SUFFICES ASSUME ConfirmedStay(db, db', a) PROVE FALSE
    BY DEF ConfirmedStay
  <2>1. HoldsAddress(db, a)
    BY <1>3 DEF Strays, HoldsAddress
  <2>2. HoldsAddress(db', a)
    BY <1>3, <2>1, HoldersStep
  <2>3. QED
    BY <1>3, <2>2 DEF Strays, HoldsAddress
<1>4. DepositsInv /\ BlocksOK /\ [Next]_vars =>
        [\A a \in Addresses : Strays(a) = {} /\ Strays(a)' # {} =>
           \E o \in Orders : /\ db.orders[o].address = a /\ db.orders[o].status = "confirmed"
                             /\ db'.orders[o].status # "confirmed"]_vars
  BY <1>3
<1>5. QED
  BY <1>1, <1>2, <1>4, DepositsInvariant, PTL DEF Spec, HolderKeepsAddress
=============================================================================
