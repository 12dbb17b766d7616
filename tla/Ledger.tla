------------------------------- MODULE Ledger -------------------------------
(***************************************************************************)
(* The payments ledger: what the store's transactions do to the tables     *)
(* payments, orders, addresses and balances (internal/store/follower.go    *)
(* and confirm.go), and how a payment finds its order                      *)
(* (internal/matcher/matcher.go).                                          *)
(*                                                                         *)
(* Every operator takes the database d and returns it as the transaction   *)
(* leaves it; Follower and Deposits are the machines that run them.        *)
(* A payment row is a transfer of the chain, keyed by (txid, log_index);   *)
(* NULL is Never for a time and NoOrder for an order.                      *)
(***************************************************************************)
EXTENDS Integers, Functions

CONSTANTS
  Transfers,    \* transfers to or from the addresses of the service
  From, To,     \* who pays each transfer and who receives it
  AssetOf,      \* its asset
  Amount,       \* its amount
  Dust,         \* the transfers below the asset's min_deposit
  Addresses,    \* addresses derived, or to be derived, by the service
  Assets,
  Orders,       \* order ids
  NoOrder,
  Blocks,       \* every block any node of the chain may answer with
  NoBlock,
  Parent, BlockHeight, BlockTime,  \* a block's parent, height and timestamp
  Never,        \* NULL in a column of time
  Required,     \* tron.confirmations_required
  Cooldown      \* wallet.cooldown

Direction(t) == IF From[t] \in Addresses THEN "out" ELSE "in"
Account(t) == IF From[t] \in Addresses THEN From[t] ELSE To[t]

\* The addresses whose balance a transfer changes.
Holders(t) == {From[t], To[t]} \cap Addresses

\* What a block, or a receipt with its block, says of a transfer.
Sighting(h, b, at) == [height |-> h, block |-> b, time |-> at]

Open == {"pending", "partial", "paid"}
Live == Open \cup {"confirmed"}
Funded == {"expired_funded", "cancelled_funded"}
Terminal == {"expired", "cancelled"} \cup Funded

NoPayment == [status |-> "none", order |-> NoOrder, height |-> 0, block |-> NoBlock,
              time |-> 0, confirmed |-> FALSE]

\* An address with no assignment; an order of an address, and no order yet.
Idle(state) == [state |-> state, order |-> NoOrder, released |-> Never, until |-> Never]
Ordered(a, s, expected, now, expires) ==
  [status |-> "pending", address |-> a, asset |-> s, expected |-> expected, received |-> 0,
   created |-> now, expires |-> expires, resolved |-> FALSE, told |-> "none"]

-----------------------------------------------------------------------------
(* Derived columns: received_raw, status, confirmed_raw, pending_raw.       *)

Counts(p) == p.status \notin {"none", "orphaned"}

\* The payments of an order inside its window, whatever address they paid.
Contributing(d, o) ==
  LET order == d.orders[o]
      released == d.addresses[order.address].released
  IN {t \in Transfers :
        /\ d.payments[t].order = o /\ Counts(d.payments[t])
        /\ Direction(t) = "in" /\ AssetOf[t] = order.asset
        /\ order.created <= d.payments[t].time /\ d.payments[t].time < released}

\* The amounts of sets of transfers, as a table.
Total == [S \in SUBSET Transfers |-> SumFunctionOnSet(Amount, S)]

Received(d, o) ==
  Total[{t \in Contributing(d, o) : Account(t) = d.orders[o].address}]

\* Mutant: a sum that suffices pays also an order that is over.
RecalculatedAlways(d, o, transition) ==
  LET sum == Received(d, o)
  IN [d.orders[o] EXCEPT
        !.received = sum,
        !.status = IF transition
                     THEN IF sum >= d.orders[o].expected THEN "paid"
                          ELSE IF sum = 0 /\ @ \in Live THEN "pending"
                          ELSE IF @ \in Live THEN "partial" ELSE @
                     ELSE @]

\* An order's row after its payments were summed again.
Recalculated(d, o, transition) ==
  LET sum == Received(d, o)
      status == d.orders[o].status
  IN [d.orders[o] EXCEPT
        !.received = sum,
        !.status = IF transition /\ status \in Live
                     THEN IF sum >= d.orders[o].expected THEN "paid"
                          ELSE IF sum = 0 THEN "pending" ELSE "partial"
                     ELSE status]

\* Mutant: only the transition is written, not the sum.
RevertedUnsummed(d, S) ==
  [o \in Orders |-> IF o \notin S THEN d.orders[o]
                    ELSE [d.orders[o] EXCEPT !.status = Recalculated(d, o, TRUE).status]]

\* The orders in S after payments were taken away: who lost its payment is told.
Reverted(d, S) ==
  LET lost(o) == /\ d.orders[o].status \in {"paid", "confirmed"}
                 /\ Recalculated(d, o, TRUE).status \in {"partial", "pending"}
  IN [o \in Orders |->
        IF o \notin S THEN d.orders[o]
        ELSE IF lost(o) THEN [Recalculated(d, o, TRUE) EXCEPT !.told = "reverted"]
        ELSE Recalculated(d, o, TRUE)]

IsSettled(p) == p.status = "confirmed" \/ (p.status = "unattributed" /\ p.confirmed)

\* A transfer between two addresses has one row, which debits its payer.
BalanceOf(d, a, s) ==
  LET mine == {t \in Transfers :
                 Counts(d.payments[t]) /\ AssetOf[t] = s /\ a \in Holders(t)}
      settled == {t \in mine : IsSettled(d.payments[t])}
      net(S) == Total[{t \in S : From[t] # a}] - Total[{t \in S : From[t] = a}]
  IN [confirmed |-> net(settled), pending |-> net(mine \ settled)]

\* Only the balances that the transfers in S touch are written.
Rebalanced(d, S) ==
  [a \in Addresses |-> [s \in Assets |->
     IF \E t \in S : a \in Holders(t) /\ AssetOf[t] = s THEN BalanceOf(d, a, s)
                                                      ELSE d.balances[a][s]]]

Balanced(d) == \A a \in Addresses : \A s \in Assets : d.balances[a][s] = BalanceOf(d, a, s)

-----------------------------------------------------------------------------
(* A payment is ingested: Match, then UpsertPayment.                        *)

\* Mutant: the window has no beginning.
OrderForAnyTime(d, t, at) ==
  LET o == d.addresses[Account(t)].order
  IN IF /\ Direction(t) = "in" /\ o # NoOrder
        /\ d.orders[o].status \in Open /\ d.orders[o].asset = AssetOf[t]
        /\ at < d.addresses[Account(t)].released
       THEN o ELSE NoOrder

\* The order a payment to address a is for, by the address's assignment.
OrderFor(d, t, at) ==
  LET o == d.addresses[Account(t)].order
  IN IF /\ Direction(t) = "in" /\ o # NoOrder
        /\ d.orders[o].status \in Open
        /\ d.orders[o].asset = AssetOf[t]
        /\ d.orders[o].created <= at /\ at < d.addresses[Account(t)].released
       THEN o ELSE NoOrder

\* A known row keeps its order and confirmed_at; only an orphan takes the status.
UpsertedRow(old, status, order, s) ==
  IF old.status = "none"
    THEN [status |-> status, order |-> order, height |-> s.height, block |-> s.block,
          time |-> s.time, confirmed |-> FALSE]
    ELSE [old EXCEPT !.height = s.height, !.block = s.block, !.time = s.time,
                     !.status = IF @ = "orphaned" THEN status ELSE @]

UpsertPayment(d, t, status, order, s) ==
  LET old == d.payments[t]
      owner == IF old.order # NoOrder THEN old.order ELSE order
      written == [d EXCEPT !.payments[t] = UpsertedRow(old, status, order, s)]
  IN [written EXCEPT
        !.orders = IF owner = NoOrder THEN @
                   ELSE [@ EXCEPT ![owner] = Recalculated(written, owner, t \notin Dust)],
        !.balances = Rebalanced(written, {t})]

\* A payment neither new nor back from orphaned is matched again but not told.
Match(d, t, s) ==
  LET o == OrderFor(d, t, s.time)
      status == IF Direction(t) = "in" /\ o = NoOrder THEN "unattributed" ELSE "seen"
      after == UpsertPayment(d, t, status, o, s)
      announced == d.payments[t].status \in {"none", "orphaned"} /\ t \notin Dust /\ o # NoOrder
      now == after.orders[o].status
  IN IF ~announced THEN after
     ELSE [after EXCEPT !.orders[o].told =
             IF now # d.orders[o].status /\ now \in {"partial", "paid"} THEN now ELSE "seen"]

-----------------------------------------------------------------------------
(* A rewind, and a solidity head.                                           *)

OrdersOf(d, S) == {d.payments[t].order : t \in S} \ {NoOrder}

\* Mutants: one height too few is orphaned; no balance is recalculated.
RewindLedgerShort(d, ancestor) ==
  LET lost == {t \in Transfers : d.payments[t].status # "none" /\ d.payments[t].height > ancestor + 1}
      orphaned == [d EXCEPT !.payments = [t \in Transfers |->
                     IF t \in lost THEN [@[t] EXCEPT !.status = "orphaned"] ELSE @[t]]]
  IN [orphaned EXCEPT !.orders = Reverted(orphaned, OrdersOf(d, lost)),
                      !.balances = Rebalanced(orphaned, lost)]
RewindLedgerUnbalanced(d, ancestor) ==
  LET lost == {t \in Transfers : d.payments[t].status # "none" /\ d.payments[t].height > ancestor}
      orphaned == [d EXCEPT !.payments = [t \in Transfers |->
                     IF t \in lost THEN [@[t] EXCEPT !.status = "orphaned"] ELSE @[t]]]
  IN [orphaned EXCEPT !.orders = Reverted(orphaned, OrdersOf(d, lost))]

\* Everything above the common ancestor is orphaned.
RewindLedger(d, ancestor) ==
  LET lost == {t \in Transfers : d.payments[t].status # "none" /\ d.payments[t].height > ancestor}
      orphaned == [d EXCEPT !.payments = [t \in Transfers |->
                     IF t \in lost THEN [@[t] EXCEPT !.status = "orphaned"] ELSE @[t]]]
  IN [orphaned EXCEPT !.orders = Reverted(orphaned, OrdersOf(d, lost)),
                      !.balances = Rebalanced(orphaned, lost)]

\* The retained blocks that parent links join to the block at height last.
Canonical(blocks, last) ==
  {h \in DOMAIN blocks :
     /\ h <= last /\ blocks[h] # NoBlock
     /\ \A k \in DOMAIN blocks : h < k /\ k <= last =>
          /\ blocks[k] # NoBlock /\ blocks[k - 1] # NoBlock
          /\ Parent[blocks[k]] = blocks[k - 1]}

\* Payments the solidity head may decide.
Waiting(d, solid) ==
  {t \in Transfers : /\ \/ d.payments[t].status = "seen"
                        \/ d.payments[t].status = "unattributed" /\ ~d.payments[t].confirmed
                     /\ d.payments[t].height <= solid}

Mismatched(d, c) ==
  {t \in Waiting(d, c.solid) :
     LET b == c.blocks[d.payments[t].height] IN b # NoBlock /\ b # d.payments[t].block}

\* Mutant: the depth is not asked for.
PromotableShallow(d, c) ==
  {t \in Waiting(d, c.solid) :
     LET p == d.payments[t]
     IN p.height \in Canonical(c.blocks, c.last) /\ p.block = c.blocks[p.height]}

Promotable(d, c) ==
  {t \in Waiting(d, c.solid) :
     LET p == d.payments[t]
     IN /\ \/ p.height \in Canonical(c.blocks, c.last) /\ p.block = c.blocks[p.height]
           \/ \A h \in DOMAIN c.blocks : c.blocks[h] # NoBlock => p.height < h
        /\ c.last - p.height >= Required
        /\ c.suspected = Never \/ p.height < c.suspected}

\* An assigned address leaves its order, and rests before it serves another.
Cool(d, S, now) ==
  [d EXCEPT !.addresses = [a \in Addresses |->
     IF a \in S /\ @[a].state = "assigned"
       THEN [@[a] EXCEPT !.state = "cooling", !.released = now, !.until = now + Cooldown]
       ELSE @[a]]]

PromotePaidOrders(d, now) ==
  LET done == {o \in Orders : /\ d.orders[o].status = "paid"
                              /\ Contributing(d, o) # {}
                              /\ \A t \in Contributing(d, o) : d.payments[t].status = "confirmed"}
      told == [d EXCEPT !.orders = [o \in Orders |->
                 IF o \in done THEN [@[o] EXCEPT !.status = "confirmed", !.told = "confirmed"]
                               ELSE @[o]]]
  IN Cool(told, {d.orders[o].address : o \in done}, now)

\* A row the solidity head decides: the wrong block orphans it, the right one confirms it.
Judged(p, bad, good) ==
  IF bad THEN [p EXCEPT !.status = "orphaned", !.confirmed = FALSE]
  ELSE IF good THEN [p EXCEPT !.status = IF @ = "seen" THEN "confirmed" ELSE @,
                              !.confirmed = TRUE]
  ELSE p

\* c: the retained blocks, the cursor, the solidified height and the suspicion.
ApplySolidifiedLedger(d, c, now) ==
  LET bad == Mismatched(d, c)
      good == Promotable(d, c)
      judged == [d EXCEPT !.payments =
                   [t \in Transfers |-> Judged(@[t], t \in bad, t \in good)]]
      reverted == [judged EXCEPT !.orders = Reverted(judged, OrdersOf(d, bad)),
                                 !.balances = Rebalanced(judged, bad \cup good)]
  IN PromotePaidOrders(reverted, now)
=============================================================================
