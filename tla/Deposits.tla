------------------------------ MODULE Deposits ------------------------------
(***************************************************************************)
(* Orders and the deposit addresses they borrow: the wallet pool           *)
(* (internal/wallet/pool.go, store/orders.go), the lifecycle worker        *)
(* (store/lifecycle.go), what an operator does to orders and payments, and *)
(* the payment safety net (internal/wallet/reconciler.go).                 *)
(*                                                                         *)
(* Every action is one store transaction, so they interleave.  Of the      *)
(* follower and the confirmation tracker only the transactions are here,   *)
(* on a chain without forks: module Follower has their ticks and the       *)
(* forks.  An order is known by its external_ref: a second request with a  *)
(* reference that has a row answers that row and rolls everything else     *)
(* back, so a reference has one order.                                     *)
(***************************************************************************)
EXTENDS Ledger, FiniteSets, Sequences

CONSTANTS
  Carries,      \* the transfer a block carries, or NoTransfer
  NoTransfer,
  Hidden,       \* token transfers that the follower may miss: made by a contract,
                \* or with a receipt that a node behind the others does not have
  StartDb,      \* the database the service starts with
  Tokens,       \* the assets that are TRC-20 tokens
  HdIndex,      \* the derivation index of an address
  Wants,        \* what is ordered: an asset and an amount
  Ttl,          \* orders.default_ttl
  Extension,    \* how much longer an order is given at a time
  MaxLifetime,  \* how long an order may live
  PoolMinFree, PoolInitialSize, PoolMaxSize,
  Lookback,     \* how long before the newest payment the safety net looks
  Operator,     \* what the operator does
  MaxTime       \* bound on the clock

ASSUME PoolAssumption ==
  /\ IsFiniteSet(Addresses) /\ HdIndex \in [Addresses -> Nat]
  /\ \A a, b \in Addresses : HdIndex[a] = HdIndex[b] => a = b
  /\ PoolMaxSize \in Nat
  /\ PoolMinFree \in 1..PoolMaxSize /\ PoolInitialSize \in 1..PoolMaxSize
ASSUME LifetimeAssumption ==
  /\ Ttl \in Nat \ {0} /\ Extension \in Nat \ {0} /\ MaxLifetime \in Nat
  /\ Lookback \in Nat /\ Hidden \subseteq Transfers /\ MaxTime \in Nat /\ MaxTime < Never
  /\ \A want \in Wants : want.asset \in Assets /\ want.expected \in Nat
ASSUME ChainAssumption ==
  /\ BlockTime \in [Blocks -> Nat] /\ Carries \in [Blocks -> Transfers \cup {NoTransfer}]
  /\ NoTransfer \notin Transfers /\ NoOrder \notin Orders
  /\ \A t \in Transfers : Holders(t) # {}
  /\ Tokens \subseteq Assets /\ \A t \in Hidden : AssetOf[t] \in Tokens
  /\ Total \in [SUBSET Transfers -> Int]

\* It starts with no order and no payment; addresses may have been derived.
OrderRow == [status : {"none"}, address : Addresses, asset : Assets, expected : Nat,
             received : Nat, created : Nat, expires : Nat, resolved : BOOLEAN, told : {"none"}]
AddressRow == [state : {"none", "free", "disabled"}, order : {NoOrder},
               released : Nat, until : Nat]
ASSUME StartAssumption ==
  StartDb \in [payments : [Transfers -> {NoPayment}], orders : [Orders -> OrderRow],
              addresses : [Addresses -> AddressRow],
              balances : [Addresses -> [Assets -> [confirmed : {0}, pending : {0}]]]]

VARIABLES
  db,      \* payments, orders, addresses, balances
  tip,     \* the height of the newest block
  cursor,  \* crawler_state.last_height
  now,     \* the clock
  scan     \* the safety net's pass: its addresses, the query it is at and what is left
           \* of its answer, what it saw, the payment it holds

vars == <<db, tip, cursor, now, scan>>
world == <<tip, cursor, now>>

NoScan == [todo |-> {}, since |-> [a \in Addresses |-> 0], query |-> 0, left |-> {},
           seen |-> {}, item |-> NoTransfer, height |-> 0]

Init == db = StartDb /\ tip = 0 /\ cursor = 0 /\ now = 0 /\ scan = NoScan

Changed(d) == db' = d /\ UNCHANGED <<world, scan>>

Heights == {BlockHeight[b] : b \in Blocks}
BlockAt(h) == CHOOSE b \in Blocks : BlockHeight[b] = h
SightingAt(h) == Sighting(h, BlockAt(h), BlockTime[BlockAt(h)])

-----------------------------------------------------------------------------
(* The chain, the follower's commit and the tracker's promotion.            *)

Produce ==
  /\ \E b \in Blocks : /\ BlockHeight[b] = tip + 1
                       /\ now' = IF BlockTime[b] > now THEN BlockTime[b] ELSE now
  /\ tip' = tip + 1
  /\ UNCHANGED <<db, cursor, scan>>

Owned == {a \in Addresses : db.addresses[a].state # "none"}

CommitBlock ==
  LET h == cursor + 1
      t == Carries[BlockAt(h)]
      found == t # NoTransfer /\ Holders(t) \cap Owned # {}
  IN /\ cursor < tip
     /\ cursor' = h
     /\ \/ found /\ db' = Match(db, t, SightingAt(h))
        \/ (~found \/ t \in Hidden) /\ db' = db
     /\ UNCHANGED <<tip, now, scan>>

\* The solidity head is anywhere below the tip.
ApplySolidifiedHeight ==
  \E height \in 0..tip :
    Changed(ApplySolidifiedLedger(db,
      [blocks |-> [h \in Heights |-> IF h <= cursor THEN BlockAt(h) ELSE NoBlock], last |-> cursor, solid |-> height,
       suspected |-> Never], now))

-----------------------------------------------------------------------------
(* The pool.                                                                *)

In(state) == {a \in Addresses : db.addresses[a].state = state}
Derived == Addresses \ In("none")
IsLowest(a, S) == a \in S /\ \A b \in S : HdIndex[a] <= HdIndex[b]

\* The n lowest addresses that are not derived yet.
NextIndexes(n) ==
  {a \in In("none") : Cardinality({b \in In("none") : HdIndex[b] < HdIndex[a]}) < n}

\* Mutant: the pool grows without bound.
ClaimableUncapped == IF In("free") # {} THEN In("free") ELSE NextIndexes(1)

\* The lowest free address, or the next one derived if the pool may grow.
Claimable ==
  IF In("free") # {} THEN In("free")
  ELSE IF Cardinality(Derived) < PoolMaxSize THEN NextIndexes(1) ELSE {}

CreateOrder ==
  \E o \in Orders : \E a \in Addresses : \E want \in Wants :
    /\ db.orders[o].status = "none"
    /\ IsLowest(a, Claimable)
    /\ Changed([db EXCEPT
         !.orders[o] = Ordered(a, want.asset, want.expected, now, now + Ttl),
         !.addresses[a] = [Idle("assigned") EXCEPT !.order = o]])

TopUpPool ==
  LET free == Cardinality(In("free"))
      room == PoolMaxSize - Cardinality(Derived)
      wanted == PoolInitialSize - free
      added == NextIndexes(IF wanted < room THEN wanted ELSE room)
  IN /\ free < PoolMinFree /\ added # {}
     /\ Changed([db EXCEPT !.addresses = [a \in Addresses |->
                   IF a \in added THEN Idle("free") ELSE @[a]]])

ReleaseCooled ==
  LET cooled == {a \in In("cooling") : db.addresses[a].until <= now}
  IN /\ cooled # {}
     /\ Changed([db EXCEPT !.addresses = [a \in Addresses |->
                   IF a \in cooled THEN Idle("free") ELSE @[a]]])

\* Its order, if any, stays with the address and its window stays open.
DisableAddress ==
  \E a \in Derived :
    /\ "disable" \in Operator
    /\ Changed([db EXCEPT !.addresses[a].state = "disabled"])

-----------------------------------------------------------------------------
(* The end of an order.                                                     *)

\* Mutant: expiry does not look at dust again.
ExpiredUnsummed(o) ==
  [db.orders[o] EXCEPT
     !.status = IF db.orders[o].received > 0 THEN "expired_funded" ELSE "expired",
     !.told = "expired"]

\* Dust counts now.  A paid order is left for the confirmation tracker.
Expired(o) ==
  LET summed == Recalculated(db, o, TRUE)
  IN IF summed.status = "paid" THEN summed
     ELSE [summed EXCEPT !.status = IF summed.received > 0 THEN "expired_funded" ELSE "expired",
                         !.told = "expired"]

\* Mutant: the order ends, its address stays.
ExpireOrdersUncooled ==
  LET due == {o \in Orders : db.orders[o].status \in {"pending", "partial"}
                             /\ db.orders[o].expires <= now}
  IN /\ due # {}
     /\ Changed([db EXCEPT !.orders = [o \in Orders |-> IF o \in due THEN Expired(o) ELSE @[o]]])

\* Mutant: a sweep releases the address of every order that was due.
ExpireOrdersCoolsAll ==
  LET due == {o \in Orders : db.orders[o].status \in {"pending", "partial"}
                             /\ db.orders[o].expires <= now}
      swept == [db EXCEPT !.orders = [o \in Orders |-> IF o \in due THEN Expired(o) ELSE @[o]]]
  IN /\ due # {}
     /\ Changed(Cool(swept, {db.orders[o].address : o \in due}, now))

ExpireOrders ==
  LET due == {o \in Orders : db.orders[o].status \in {"pending", "partial"}
                             /\ db.orders[o].expires <= now}
      ended == {o \in due : Expired(o).status # "paid"}
      swept == [db EXCEPT !.orders = [o \in Orders |-> IF o \in due THEN Expired(o) ELSE @[o]]]
  IN /\ due # {}
     /\ Changed(Cool(swept, {db.orders[o].address : o \in ended}, now))

ExtendOrder ==
  \E o \in Orders :
    /\ "extend" \in Operator
    /\ db.orders[o].status \in Open
    /\ db.orders[o].expires + Extension <= db.orders[o].created + MaxLifetime
    /\ Changed([db EXCEPT !.orders[o].expires = @ + Extension])

\* Only a pending order is cancelled without force.
CancelOrder ==
  \E o \in Orders : \E force \in BOOLEAN :
    LET order == db.orders[o]
        status == IF order.received > 0 THEN "cancelled_funded" ELSE "cancelled"
    IN /\ (IF force THEN "force" ELSE "cancel") \in Operator
       /\ order.status \in (IF force THEN Live ELSE {"pending"})
       /\ Changed(Cool([db EXCEPT !.orders[o].status = status], {order.address}, now))

ResolveFundedOrder ==
  \E o \in Orders :
    /\ "resolve" \in Operator
    /\ db.orders[o].status \in Funded /\ ~db.orders[o].resolved
    /\ Changed([db EXCEPT !.orders[o].resolved = TRUE])

Attributed(t, o) ==
  [db EXCEPT !.payments[t].order = o,
             !.payments[t].status = IF db.payments[t].confirmed THEN "confirmed" ELSE "seen"]

\* Any order will do; no event is enqueued.
AttributePayment ==
  \E t \in Transfers : \E o \in Orders :
    /\ "attribute" \in Operator
    /\ db.payments[t].status = "unattributed" /\ db.orders[o].status # "none"
    /\ Changed([Attributed(t, o) EXCEPT
         !.orders[o] = Recalculated(Attributed(t, o), o, TRUE),
         !.balances[Account(t)][AssetOf[t]] = BalanceOf(Attributed(t, o), Account(t), AssetOf[t])])

-----------------------------------------------------------------------------
(* The safety net.                                                          *)

\* What is asked about an address, in this order: tokens, then the native asset, each
\* time what came in and then what went out.
Queries == <<[token |-> TRUE, inbound |-> TRUE], [token |-> TRUE, inbound |-> FALSE],
             [token |-> FALSE, inbound |-> TRUE], [token |-> FALSE, inbound |-> FALSE]>>

\* The account history of an address: the service that indexes it keeps up.
History(a, q, since) ==
  {t \in Transfers :
     /\ AssetOf[t] \in Tokens <=> q.token
     /\ a = IF q.inbound THEN To[t] ELSE From[t]
     /\ \E b \in Blocks : Carries[b] = t /\ BlockHeight[b] <= tip /\ BlockTime[b] >= since}

Newest(a) ==
  LET mine == {t \in Transfers : Account(t) = a /\ db.payments[t].status # "none"}
  IN CHOOSE n \in {0} \cup {db.payments[t].time : t \in mine} :
       \A t \in mine : db.payments[t].time <= n

\* A pass over the assigned addresses; every few hours, over the cooling too.
SafetyNet ==
  /\ scan = NoScan
  /\ \E full \in BOOLEAN :
       LET targets == In("assigned") \cup (IF full THEN In("cooling") ELSE {})
       IN /\ targets # {}
          /\ scan' = [NoScan EXCEPT
               !.todo = targets,
               !.since = [a \in Addresses |->
                  IF a \in targets /\ Newest(a) > Lookback THEN Newest(a) - Lookback ELSE 0]]
  /\ UNCHANGED <<db, world>>

\* The pages of the next query.  They are read once: what lands after that is left to
\* the next pass.
GetAccountHistory ==
  /\ scan.item = NoTransfer /\ scan.left = {} /\ scan.query < Len(Queries)
  /\ \E a \in scan.todo :
       /\ IsLowest(a, scan.todo)
       /\ scan' = [scan EXCEPT
            !.query = @ + 1,
            !.left = History(a, Queries[scan.query + 1], scan.since[a]) \ scan.seen]
  /\ UNCHANGED <<db, world>>

\* The next transaction of the pages, and what its info says.
HistoryItem ==
  /\ scan.item = NoTransfer
  /\ \E b \in Blocks :
       /\ Carries[b] \in scan.left
       /\ scan' = [scan EXCEPT !.item = Carries[b], !.height = BlockHeight[b],
                               !.left = @ \ {Carries[b]}, !.seen = @ \cup {Carries[b]}]
  /\ UNCHANGED <<db, world>>

\* Also of a payment that is known: it is written and matched once more.
ApplyReconciledPayments ==
  /\ scan.item # NoTransfer
  /\ db' = Match(db, scan.item, SightingAt(scan.height))
  /\ scan' = [scan EXCEPT !.item = NoTransfer, !.height = 0]
  /\ UNCHANGED world

\* The queries about an address are through.
NextTarget ==
  /\ scan.item = NoTransfer /\ scan.left = {} /\ scan.query = Len(Queries)
  /\ \E a \in scan.todo :
       /\ IsLowest(a, scan.todo)
       /\ scan' = IF scan.todo = {a} THEN NoScan
                  ELSE [scan EXCEPT !.todo = @ \ {a}, !.query = 0]
  /\ UNCHANGED <<db, world>>

\* A request that fails, or a restart, ends the pass.
EndPass ==
  /\ scan.todo # {}
  /\ scan' = NoScan
  /\ UNCHANGED <<db, world>>

-----------------------------------------------------------------------------
Pass ==
  /\ now < MaxTime
  /\ now' = now + 1
  /\ UNCHANGED <<db, tip, cursor, scan>>

Chain == Produce \/ CommitBlock \/ ApplySolidifiedHeight
Pool == CreateOrder \/ TopUpPool \/ ReleaseCooled \/ DisableAddress
Lifecycle == ExpireOrders \/ ExtendOrder \/ CancelOrder \/ ResolveFundedOrder
Net == SafetyNet \/ GetAccountHistory \/ HistoryItem \/ ApplyReconciledPayments
       \/ NextTarget \/ EndPass

Next == Chain \/ Pool \/ Lifecycle \/ AttributePayment \/ Net \/ Pass
Spec == Init /\ [][Next]_vars

-----------------------------------------------------------------------------
(* What the proof of the pool's bound asks; the runs' instances satisfy it. *)

\* The start finds no more addresses than pool.max_size, which may have been lowered.
PoolFits == Cardinality({a \in Addresses : StartDb.addresses[a].state # "none"}) <= PoolMaxSize

-----------------------------------------------------------------------------
(* Properties.                                                              *)

\* Types, and no address beyond the pool's size was derived.
TypeOK ==
  /\ scan.todo \subseteq Addresses /\ scan.since \in [Addresses -> Nat]
  /\ scan.query \in 0..Len(Queries) /\ scan.left \subseteq Transfers
  /\ scan.seen \subseteq Transfers /\ scan.item \in Transfers \cup {NoTransfer}
  /\ cursor \in 0..tip /\ now \in Nat
  /\ \A o \in Orders : db.orders[o].status \in Live \cup Terminal \cup {"none"}
  /\ \A a \in Addresses : db.addresses[a].state \in {"none", "free", "assigned", "cooling", "disabled"}
  /\ Cardinality(Derived) <= PoolMaxSize

\* No address is left assigned to an order that is over: it would never return
\* to the pool (every end of an order cools its address in the same transaction).
NoAddressStranded ==
  \A a \in In("assigned") : db.orders[db.addresses[a].order].status \in Open

\* A payment is credited, when it is ingested, to the order that held its address
\* when it was made: however late the follower or the safety net find it, never to
\* the next holder (POOL-005, ORD-002b).
Had(o, a, at) ==
  db'.orders[o].status # "none" /\ db'.orders[o].created <= at /\ db'.orders[o].address = a

Credit(t) ==
  LET o == db'.payments[t].order
      at == db'.payments[t].time
  IN /\ Had(o, Account(t), at)
     /\ \A p \in Orders : Had(p, Account(t), at) => db'.orders[p].created <= db'.orders[o].created

IngestCredits ==
  \A t \in Transfers :
    /\ db.payments[t].order = NoOrder /\ db'.payments[t].order # NoOrder
    /\ db.payments[t].status # "unattributed"
    => Credit(t)

CreditedToHolder == [][IngestCredits]_vars

\* An order that is over never reopens, whatever is paid, orphaned or attributed
\* later (ORD-006).
TerminalStays ==
  [][\A o \in Orders : db.orders[o].status \in Terminal
                         => db'.orders[o].status = db.orders[o].status]_vars

\* An order is not expired while the payments recorded for it, dust included, pay
\* for it (ORD-005c), whatever the order of ingestion, extension and sweep.
PaidNotExpired ==
  [][\A o \in Orders :
       /\ db'.orders[o].status \in {"expired", "expired_funded"}
       /\ db.orders[o].status \notin Terminal
       => Received(db, o) < db.orders[o].expected]_vars

\* The open orders of an address that do not have it.
Strays(a) ==
  {o \in Orders : /\ db.orders[o].status \in Open /\ db.orders[o].address = a
                  /\ \/ db.addresses[a].order # o
                     \/ db.addresses[a].state \notin {"assigned", "disabled"}}

\* An open order keeps its address until it is over: no sweep, release, top-up, promotion,
\* operator or new order takes it.  The one way to lose it is that an order of the address
\* leaves "confirmed": the first order to go without is that order, or the holder whose
\* address a cancellation of that order releases (POOL-006, and how it comes to break).
HolderKeepsAddress ==
  [][\A a \in Addresses : Strays(a) = {} /\ Strays(a)' # {} =>
       \E o \in Orders : /\ db.orders[o].address = a /\ db.orders[o].status = "confirmed"
                         /\ db'.orders[o].status # "confirmed"]_vars

\* "An address MUST NOT be assigned to two orders simultaneously" (POOL-006).
AddressServesOneOrder ==
  \A o, p \in Orders :
    /\ db.orders[o].status \in {"pending", "partial"}
    /\ db.orders[p].status \in {"pending", "partial"}
    /\ db.orders[o].address = db.orders[p].address
    => o = p
=============================================================================
