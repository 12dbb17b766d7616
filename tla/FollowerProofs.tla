--------------------------- MODULE FollowerProofs ---------------------------
(***************************************************************************)
(* Proofs about the module Follower, for every tree of blocks, every depth *)
(* and every ledger: types, the retained chain, the balances, the payments *)
(* of the retained chain, what is confirmed for good, when the follower    *)
(* halts, and what orders are worth.                                       *)
(***************************************************************************)
EXTENDS Follower, LedgerProofs

-----------------------------------------------------------------------------
(* The chain's tables and the follower's memory.                             *)

\* What a tick carries from one step to the next, by its stage.
TickOK ==
  /\ tick.at # "idle" => tick.tip \in Blocks
  /\ tick.at \in {"candidate", "prepared", "walk"} => tick.block \in Blocks
  /\ tick.at \in {"walk", "rewound"} => cursor # NoCursor
  /\ tick.at = "walk" => tick.height <= cursor
  /\ tick.at = "prepared" => Linked

\* No hole above a retained block.
Unbroken ==
  \A h \in Heights : blocks[h] # NoBlock =>
    \A k \in Heights : h <= k /\ k <= cursor => blocks[k] # NoBlock

ChainInv == ChainTypeOK /\ TickOK /\ StoredChainLinked /\ Unbroken

\* The tip every node agrees on in the end is a block.
LEMMA MainTipIsBlock == MainTip \in Blocks
BY TreeAssumption DEF MainTip

\* Between ticks there is nothing to remember.
LEMMA IdleTickOK == IdleTick \in Tick /\ IdleTick.at = "idle" /\ 0 \in Heights
<1>1. 0 \in Heights
  BY TreeAssumption DEF Heights
<1>2. QED
  BY <1>1 DEF IdleTick, Tick

\* A fresh database knows no block.
LEMMA ChainInit == Init => ChainInv
<1> SUFFICES ASSUME Init PROVE ChainInv
  OBVIOUS
<1>1. ChainTypeOK
  <2>1. produced \subseteq Blocks /\ agreed \in BOOLEAN /\ now \in Nat /\ known \in BOOLEAN
        /\ halted \in BOOLEAN
    BY TreeAssumption DEF Init
  <2>2. blocks \in [Heights -> Blocks \cup {NoBlock}]
    BY DEF Init
  <2>3. cursor \in Heights \cup {NoCursor} /\ suspected \in Heights \cup {Never}
    BY DEF Init
  <2>4. QED
    BY <2>1, <2>2, <2>3, IdleTickOK DEF Init, ChainTypeOK
<1>2. TickOK
  BY IdleTickOK DEF Init, TickOK
<1>3. StoredChainLinked /\ Unbroken
  BY DEF Init, StoredChainLinked, Unbroken, NoCursor
<1>4. QED
  BY <1>1, <1>2, <1>3 DEF ChainInv

\* Steps of the network: only produced, agreed, now, the memory and the tick.
LEMMA ChainNetwork == ChainInv /\ Network => ChainInv'
<1> USE TreeAssumption, DepthAssumption DEF ChainInv
<1> SUFFICES ASSUME ChainInv, Network PROVE ChainInv'
  OBVIOUS
<1>1. CASE Produce
  BY <1>1 DEF Produce, ChainTypeOK, TickOK, StoredChainLinked, Unbroken, Linked, chainVars,
     memoryVars
<1>2. CASE Agree
  BY <1>2 DEF Agree, ChainTypeOK, TickOK, StoredChainLinked, Unbroken, Linked, chainVars,
     memoryVars
<1>3. CASE Fail
  BY <1>3, IdleTickOK DEF Fail, ChainTypeOK, TickOK, StoredChainLinked, Unbroken, chainVars,
     memoryVars, networkVars
<1>4. CASE Restart
  BY <1>4, IdleTickOK DEF Restart, ChainTypeOK, TickOK, StoredChainLinked, Unbroken, chainVars,
     networkVars
<1>5. QED
  BY <1>1, <1>2, <1>3, <1>4 DEF Network

\* A commit appends the block its candidate was linked with, and prunes below the depth.
LEMMA ChainCommit == ChainInv /\ CommitBlock => ChainInv'
<1> USE TreeAssumption, DepthAssumption
<1> SUFFICES ASSUME ChainInv, CommitBlock PROVE ChainInv'
  OBVIOUS
<1> DEFINE b == tick.block
           h == BlockHeight[b]
<1>1. /\ b \in Blocks /\ h \in Heights /\ Linked /\ b # NoBlock
      /\ cursor = NoCursor \/ h = cursor + 1
  BY DEF ChainInv, ChainTypeOK, TickOK, CommitBlock, NextHeight
<1>2. /\ blocks' = [k \in Heights |-> IF k = h THEN b
                                      ELSE IF k < h - ReorgDepth THEN NoBlock ELSE blocks[k]]
      /\ cursor' = h
  BY DEF CommitBlock
<1>3. ChainTypeOK'
  <2>1. tick' \in Tick
    <3>1. tick.tip \in Blocks \cup {NoBlock}
      BY DEF ChainInv, ChainTypeOK, Tick
    <3>2. CASE tick' = IdleTick
      BY <3>2, IdleTickOK
    <3>3. CASE tick' = [IdleTick EXCEPT !.at = "fetch", !.tip = tick.tip]
      BY <3>1, <3>3, IdleTickOK DEF Tick
    <3>4. QED
      BY <3>2, <3>3 DEF CommitBlock
  <2>2. QED
    BY <1>1, <1>2, <2>1 DEF CommitBlock, ChainInv, ChainTypeOK, memoryVars, networkVars
<1>4. TickOK'
  BY DEF CommitBlock, IdleTick, Tick, TickOK, ChainInv, ChainTypeOK
<1> HIDE DEF b, h
<1>5. cursor = NoCursor => \A k \in Heights : blocks[k] = NoBlock
  BY DEF ChainInv, StoredChainLinked, NoCursor, Heights
<1>6. cursor # NoCursor => Parent[b] = blocks[cursor] /\ h = cursor + 1
  BY <1>1 DEF Linked, b
<1>7. cursor # NoCursor => cursor \in Heights /\ blocks[cursor] # NoBlock
  BY DEF ChainInv, ChainTypeOK, StoredChainLinked
<1>8. ASSUME NEW k \in Heights, blocks'[k] # NoBlock
      PROVE  /\ BlockHeight[blocks'[k]] = k /\ k <= cursor'
             /\ k < cursor' => blocks'[k + 1] # NoBlock /\ Parent[blocks'[k + 1]] = blocks'[k]
  <2>1. CASE k = h
    BY <1>1, <1>2, <2>1 DEF h, Heights
  <2>2. CASE k # h
    <3>1. /\ blocks'[k] = blocks[k] /\ k >= h - ReorgDepth /\ cursor # NoCursor
          /\ k <= cursor /\ BlockHeight[blocks[k]] = k
      BY <1>2, <1>5, <1>8, <1>1, <2>2 DEF Heights, ChainInv, StoredChainLinked
    <3>2. CASE k = cursor
      BY <1>1, <1>2, <1>6, <3>1, <3>2 DEF Heights
    <3>3. CASE k # cursor
      <4>1. k < cursor /\ cursor \in Heights /\ k + 1 \in Heights /\ k + 1 # h
            /\ ~(k + 1 < h - ReorgDepth)
        BY <1>1, <1>6, <1>7, <3>1, <3>3 DEF Heights
      <4>2. blocks'[k + 1] = blocks[k + 1]
        BY <1>2, <4>1
      <4>3. blocks[k + 1] # NoBlock /\ Parent[blocks[k + 1]] = blocks[k]
        BY <1>8, <3>1, <4>1 DEF ChainInv, StoredChainLinked
      <4>4. QED
        BY <1>2, <1>6, <3>1, <4>1, <4>2, <4>3 DEF Heights
    <3>4. QED
      BY <3>2, <3>3
  <2>3. QED
    BY <2>1, <2>2
<1>9. StoredChainLinked'
  BY <1>1, <1>2, <1>8 DEF StoredChainLinked
<1>10. ASSUME NEW k \in Heights, blocks'[k] # NoBlock, NEW j \in Heights, k <= j, j <= cursor'
       PROVE  blocks'[j] # NoBlock
  <2>1. CASE j = h
    BY <1>1, <1>2, <2>1
  <2>2. CASE j # h
    <3>1. k # h /\ j < h
      BY <1>1, <1>2, <1>10, <2>2 DEF Heights
    <3>2. blocks[k] # NoBlock /\ ~(k < h - ReorgDepth) /\ cursor # NoCursor
      BY <1>2, <1>5, <1>10, <3>1
    <3>3. j <= cursor /\ ~(j < h - ReorgDepth)
      BY <1>1, <1>6, <1>7, <1>10, <3>1, <3>2 DEF Heights
    <3>4. blocks[j] # NoBlock
      BY <1>10, <3>2, <3>3 DEF ChainInv, Unbroken
    <3>5. QED
      BY <1>2, <2>2, <3>3, <3>4
  <2>3. QED
    BY <2>1, <2>2
<1>11. QED
  BY <1>3, <1>4, <1>9, <1>10 DEF ChainInv, Unbroken

\* A rewind cuts the chain above a block it retains.
LEMMA ChainRewind == ChainInv /\ RewindChain => ChainInv'
<1> USE TreeAssumption, DepthAssumption
<1> SUFFICES ASSUME ChainInv, RewindChain PROVE ChainInv'
  OBVIOUS
<1>1. /\ tick.height \in Heights /\ blocks[tick.height] # NoBlock /\ tick.height < cursor
      /\ blocks' = [h \in Heights |-> IF h > tick.height THEN NoBlock ELSE blocks[h]]
      /\ cursor' = tick.height
  BY DEF RewindChain, ChainInv, ChainTypeOK, TickOK, Tick
<1>2. ChainTypeOK'
  <2>1. tick' \in Tick
    BY DEF RewindChain, Tick, ChainInv, ChainTypeOK
  <2>2. QED
    BY <1>1, <2>1 DEF RewindChain, ChainInv, ChainTypeOK, memoryVars, networkVars
<1>3. TickOK'
  BY <1>1 DEF RewindChain, TickOK, ChainInv, ChainTypeOK, Tick, Heights, NoCursor
<1>4. ASSUME NEW h \in Heights, blocks'[h] # NoBlock
      PROVE  /\ BlockHeight[blocks'[h]] = h /\ h <= cursor'
             /\ h < cursor' => blocks'[h + 1] # NoBlock /\ Parent[blocks'[h + 1]] = blocks'[h]
  <2>1. /\ blocks'[h] = blocks[h] /\ h <= tick.height
        /\ BlockHeight[blocks[h]] = h
        /\ h < cursor => blocks[h + 1] # NoBlock /\ Parent[blocks[h + 1]] = blocks[h]
    BY <1>1, <1>4 DEF ChainInv, StoredChainLinked, Heights
  <2>2. QED
    BY <1>1, <2>1 DEF Heights, ChainInv, ChainTypeOK
<1>5. StoredChainLinked'
  BY <1>1, <1>4 DEF StoredChainLinked, Heights
<1>6. Unbroken'
  BY <1>1 DEF Unbroken, ChainInv, ChainTypeOK, Heights
<1>7. QED
  BY <1>2, <1>3, <1>5, <1>6 DEF ChainInv

\* The other steps leave the retained blocks and the cursor alone.
LEMMA ChainOthers ==
  ASSUME ChainInv, Next, ~Network, ~CommitBlock, ~RewindChain
  PROVE  ChainInv'
<1> USE TreeAssumption, DepthAssumption
<1>1. UNCHANGED <<blocks, cursor>>
  BY DEF Next, Follow, Poll, Fetch, ClearLinked, Prepare, ConfirmMismatch, ConfirmReorg,
     WalkOn, Rewound, ApplySolidifiedHeight, chainVars
<1>2. StoredChainLinked' /\ Unbroken'
  BY <1>1 DEF ChainInv, StoredChainLinked, Unbroken
<1>3. /\ UNCHANGED produced /\ agreed' = agreed /\ now' = now
      /\ solid' \in Heights /\ halted' \in BOOLEAN
  <2>1. SolidHeads \subseteq Heights
    BY MainTipIsBlock, TreeAssumption DEF SolidHeads, ChainInv, ChainTypeOK
  <2>2. CASE ApplySolidifiedHeight
    BY <2>1, <2>2 DEF ApplySolidifiedHeight, memoryVars, networkVars, ChainInv, ChainTypeOK
  <2>3. CASE ~ApplySolidifiedHeight
    <3>1. UNCHANGED <<produced, agreed, now, solid>>
      BY <2>3 DEF Next, Follow, Poll, Fetch, ClearLinked, Prepare, ConfirmMismatch, ConfirmReorg,
         WalkOn, Rewound, chainVars, networkVars
    <3>2. halted' = halted \/ halted' = TRUE
      BY <2>3 DEF Next, Follow, Poll, Fetch, ClearLinked, Prepare, ConfirmMismatch, ConfirmReorg,
         WalkOn, Halt, Rewound, memoryVars
    <3>3. QED
      BY <3>1, <3>2 DEF ChainInv, ChainTypeOK
  <2>4. QED
    BY <2>2, <2>3
<1>4. /\ suspected' \in Heights \cup {Never} /\ known' \in BOOLEAN
      /\ suspicion' = NoSuspicion \/ suspicion' \in [height : Heights, block : Blocks]
  <2>1. CASE ConfirmMismatch
    <3>1. cursor \in Heights
      BY <2>1 DEF ConfirmMismatch, Linked, ChainInv, ChainTypeOK
    <3>2. ASSUME NEW r \in At(cursor)
          PROVE  [height |-> cursor, block |-> r] \in [height : Heights, block : Blocks]
      BY <3>1 DEF At, ChainInv, ChainTypeOK
    <3>3. QED
      BY <2>1, <3>1, <3>2 DEF ConfirmMismatch, ClearReorgSuspicion, ChainInv, ChainTypeOK
  <2>2. CASE ~ConfirmMismatch
    BY <2>2 DEF Next, Follow, Poll, Fetch, ClearLinked, Prepare, ConfirmReorg, WalkOn, Rewound,
       ApplySolidifiedHeight, ClearReorgSuspicion, chainVars, memoryVars, networkVars, ChainInv,
       ChainTypeOK
  <2>3. QED
    BY <2>1, <2>2
<1>5. tick' \in Tick /\ TickOK'
  <2> DEFINE Goal == tick' \in Tick /\ TickOK'
  <2>0. /\ tick \in Tick /\ TickOK /\ cursor \in Heights \cup {NoCursor}
        /\ produced \subseteq Blocks
    BY DEF ChainInv, ChainTypeOK
  <2>1. ASSUME UNCHANGED tick PROVE Goal
    BY <1>1, <2>0, <2>1 DEF TickOK, Linked
  <2>2. ASSUME tick' = IdleTick PROVE Goal
    BY <2>2, IdleTickOK DEF TickOK
  <2>3. CASE Poll
    <3>1. PICK tip \in Tips :
            tick' = [IdleTick EXCEPT !.at = IF cursor = NoCursor THEN "candidate" ELSE "fetch",
                                     !.tip = tip,
                                     !.block = IF cursor = NoCursor THEN tip ELSE NoBlock]
      BY <2>3 DEF Poll
    <3>2. tip \in Blocks
      BY <2>0, <3>1, MainTipIsBlock DEF Tips
    <3>3. tick' \in Tick
      BY <3>1, <3>2, IdleTickOK DEF Tick
    <3>4. /\ tick'.tip \in Blocks /\ tick'.at \in {"candidate", "fetch"}
          /\ tick'.at = "candidate" => tick'.block \in Blocks
      BY <3>1, <3>2 DEF IdleTick
    <3>5. QED
      BY <3>3, <3>4 DEF TickOK
  <2>4. CASE Fetch
    <3>1. CASE tick' = IdleTick
      BY <2>2, <3>1
    <3>2. CASE \E b \in Blocks : tick' = [tick EXCEPT !.at = "candidate", !.block = b]
      <4>1. PICK b \in Blocks : tick' = [tick EXCEPT !.at = "candidate", !.block = b]
        BY <3>2
      <4>2. tick' \in Tick /\ tick'.at = "candidate" /\ tick'.block = b /\ tick'.tip = tick.tip
        BY <2>0, <4>1 DEF Tick
      <4>3. tick.tip \in Blocks
        BY <2>0, <2>4 DEF Fetch, TickOK
      <4>4. QED
        BY <4>1, <4>2, <4>3 DEF TickOK
    <3>3. QED
      BY <2>0, <2>4, <3>1, <3>2 DEF Fetch, At, TickOK
  <2>5. CASE Prepare
    <3>1. PICK t \in Decoded(tick.block) : tick' = [tick EXCEPT !.at = "prepared", !.found = t]
      BY <2>5 DEF Prepare
    <3>2. t \in Transfers \cup {NoTransfer} /\ tick.at = "candidate" /\ Linked
      BY <2>0, <2>5, <3>1, TreeAssumption DEF Decoded, Prepare, TickOK
    <3>3. /\ tick' \in Tick /\ tick'.at = "prepared" /\ tick'.block = tick.block
          /\ tick'.tip = tick.tip
      BY <2>0, <3>1, <3>2 DEF Tick
    <3>4. QED
      BY <1>1, <2>0, <3>2, <3>3 DEF TickOK, Linked
  <2>6. CASE ConfirmReorg
    <3>1. PICK r \in At(cursor) : tick' = [tick EXCEPT !.at = "walk", !.block = r, !.height = cursor]
      BY <2>6 DEF ConfirmReorg
    <3>2. r \in Blocks /\ cursor \in Heights /\ tick.at = "candidate"
      BY <2>0, <2>6, <3>1 DEF ConfirmReorg, At, Linked
    <3>3. /\ tick' \in Tick /\ tick'.at = "walk" /\ tick'.block = r /\ tick'.height = cursor
          /\ tick'.tip = tick.tip
      BY <2>0, <3>1, <3>2 DEF Tick
    <3>4. QED
      BY <1>1, <2>0, <3>2, <3>3 DEF TickOK, Heights, NoCursor
  <2>7. CASE WalkOn
    <3>1. CASE tick' = IdleTick
      BY <2>2, <3>1
    <3>2. CASE /\ tick.height # 0
               /\ \E r \in At(tick.height - 1) : tick' = [tick EXCEPT !.block = r, !.height = @ - 1]
      <4>1. PICK r \in At(tick.height - 1) : tick' = [tick EXCEPT !.block = r, !.height = @ - 1]
        BY <3>2
      <4>2. /\ r \in Blocks /\ tick.at = "walk" /\ tick.height - 1 \in Heights
            /\ tick.height <= cursor /\ cursor # NoCursor /\ tick.tip \in Blocks
        <5>1. tick.height \in Heights /\ tick.at = "walk"
          BY <2>0, <2>7 DEF WalkOn, Tick
        <5>2. tick.height - 1 \in Heights
          BY <3>2, <5>1 DEF Heights
        <5>3. QED
          BY <2>0, <4>1, <5>1, <5>2 DEF At, TickOK
      <4>3. /\ tick' \in Tick /\ tick'.at = "walk" /\ tick'.block = r
            /\ tick'.height = tick.height - 1 /\ tick'.tip = tick.tip
        BY <2>0, <4>1, <4>2 DEF Tick
      <4>4. tick'.height <= cursor'
        BY <1>1, <2>0, <4>2, <4>3 DEF Heights, Tick
      <4>5. QED
        BY <1>1, <4>2, <4>3, <4>4 DEF TickOK
    <3>3. QED
      BY <2>7, <3>1, <3>2 DEF WalkOn, Halt
  <2>8. CASE Rewound
    <3>1. tick' = [tick EXCEPT !.at = "fetch", !.height = 0] /\ tick.at = "rewound"
      BY <2>8 DEF Rewound
    <3>2. tick' \in Tick /\ tick'.at = "fetch" /\ tick'.tip = tick.tip
      BY <2>0, <3>1, IdleTickOK DEF Tick
    <3>3. QED
      BY <2>0, <3>1, <3>2 DEF TickOK
  <2>9. CASE ClearLinked \/ ApplySolidifiedHeight
    BY <2>1, <2>9 DEF ClearLinked, ApplySolidifiedHeight
  <2>10. CASE ConfirmMismatch
    BY <2>2, <2>10 DEF ConfirmMismatch
  <2>11. QED
    BY <2>3, <2>4, <2>5, <2>6, <2>7, <2>8, <2>9, <2>10 DEF Next, Follow
<1>6. ChainTypeOK'
  BY <1>1, <1>3, <1>4, <1>5 DEF ChainInv, ChainTypeOK
<1>7. QED
  BY <1>2, <1>5, <1>6 DEF ChainInv

\* The invariant of the chain's part is inductive.
LEMMA ChainStep == ChainInv /\ [Next]_vars => ChainInv'
<1>1. ASSUME ChainInv, UNCHANGED vars PROVE ChainInv'
  BY <1>1 DEF vars, chainVars, memoryVars, networkVars, ChainInv, ChainTypeOK, TickOK,
     StoredChainLinked, Unbroken, Linked
<1>2. QED
  BY <1>1, ChainNetwork, ChainCommit, ChainRewind, ChainOthers DEF Next

\* The chain's part of the state always satisfies its invariant.
THEOREM ChainInvariant == Spec => []ChainInv
BY ChainInit, ChainStep, PTL DEF Spec

\* Whatever the nodes answer, wherever a tick is cut off, the retained blocks are one
\* unbroken chain that ends at the cursor (CommitBlock, RewindChain).
THEOREM ChainLinked == Spec => []StoredChainLinked
<1>1. ChainInv => StoredChainLinked
  BY DEF ChainInv
<1>2. QED
  BY <1>1, ChainInvariant, PTL

-----------------------------------------------------------------------------
(* The ledger: types and balances.                                           *)

\* The rows of a database are typed, and its balances current.
LedgerOK(d) ==
  /\ Columns(d)
  /\ \A t \in Transfers : Sane(d.payments[t]) /\ d.payments[t].order \in Orders \cup {NoOrder}
  /\ \A o \in Orders : d.orders[o].status \in Live \cup Terminal \cup {"none"}
  /\ \A a \in Addresses :
       /\ d.addresses[a].state \in {"none", "free", "assigned", "cooling", "disabled"}
       /\ d.addresses[a].order \in Orders \cup {NoOrder}
  /\ Balanced(d)

\* The account of a transfer is an address of the service.
LEMMA AccountIsOurs == \A t \in Transfers : Account(t) \in Addresses
BY TransferAssumption DEF Account, Holders

\* The database the follower starts with is typed and balanced.
LEMMA StartOK == LedgerOK(StartDb)
<1>1. Columns(StartDb)
  BY StartAssumption DEF Columns, NoPayment, OrderRow, AddressRow
<1>2. \A t \in Transfers : StartDb.payments[t] = NoPayment
  BY StartAssumption
<1>3. \A o \in Orders : StartDb.orders[o] \in OrderRow
  BY StartAssumption
<1>4. \A a \in Addresses : StartDb.addresses[a] \in AddressRow
  BY StartAssumption
<1>5. QED
  BY <1>1, <1>2, <1>3, <1>4, StartAssumption DEF LedgerOK, Sane, NoPayment, OrderRow, AddressRow

\* A transaction whose payment rows are typed keeps the ledger typed.
LEMMA LedgerMoves ==
  ASSUME NEW d, NEW e, LedgerOK(d), Columns(e), Balanced(e),
         \A t \in Transfers : /\ Sane(e.payments[t])
                              /\ e.payments[t].order \in Orders \cup {NoOrder},
         \A o \in Orders : Moves(d.orders[o], e.orders[o]),
         \A a \in Addresses : AddressMoves(d.addresses[a], e.addresses[a])
  PROVE  LedgerOK(e)
<1>1. ASSUME NEW o \in Orders
      PROVE  e.orders[o].status \in Live \cup Terminal \cup {"none"}
  BY DEF LedgerOK, Moves, Live, Open
<1>2. ASSUME NEW a \in Addresses
      PROVE  /\ e.addresses[a].state \in {"none", "free", "assigned", "cooling", "disabled"}
             /\ e.addresses[a].order \in Orders \cup {NoOrder}
  BY DEF LedgerOK, AddressMoves
<1>3. QED
  BY <1>1, <1>2 DEF LedgerOK

\* The order and the status of an upserted row are typed.
LEMMA UpsertedRowOK ==
  ASSUME NEW p, NEW status \in {"seen", "unattributed"}, NEW order \in Orders \cup {NoOrder},
         NEW s, Sane(p), p.order \in Orders \cup {NoOrder},
         DOMAIN p = {"status", "order", "height", "block", "time", "confirmed"}
  PROVE  LET r == UpsertedRow(p, status, order, s) IN
         Sane(r) /\ r.order \in Orders \cup {NoOrder}
BY DEF UpsertedRow, Sane

\* Ingestion keeps the ledger typed and balanced.
LEMMA MatchOK ==
  ASSUME NEW d, LedgerOK(d), NEW t \in Transfers, NEW s, NEW e, e = Match(d, t, s)
  PROVE  LedgerOK(e)
<1>1. /\ Columns(d) /\ NoOrder \notin Orders
      /\ d.payments[t].order \in Orders \cup {NoOrder}
      /\ d.addresses[Account(t)].order \in Orders \cup {NoOrder}
  BY AccountIsOurs, StartAssumption DEF LedgerOK
<1>2. /\ Columns(e) /\ e.addresses = d.addresses
      /\ OrderFor(d, t, s.time) \in Orders \cup {NoOrder}
      /\ \E status \in {"seen", "unattributed"} :
           e.payments = [d.payments EXCEPT ![t] =
             UpsertedRow(d.payments[t], status, OrderFor(d, t, s.time), s)]
      /\ \A o \in Orders : Resummed(d.orders[o], e.orders[o])
      /\ Balanced(d) => Balanced(e)
  BY <1>1, MatchEffect
<1> DEFINE order == OrderFor(d, t, s.time)
<1>3. PICK status \in {"seen", "unattributed"} :
        e.payments = [d.payments EXCEPT ![t] = UpsertedRow(d.payments[t], status, order, s)]
  BY <1>2
<1> HIDE DEF order
<1>4. DOMAIN d.payments[t] = {"status", "order", "height", "block", "time", "confirmed"}
  BY <1>1 DEF Columns
<1>5. /\ Sane(UpsertedRow(d.payments[t], status, order, s))
      /\ UpsertedRow(d.payments[t], status, order, s).order \in Orders \cup {NoOrder}
  BY <1>2, <1>4, UpsertedRowOK DEF LedgerOK, order
<1>6. ASSUME NEW u \in Transfers
      PROVE  Sane(e.payments[u]) /\ e.payments[u].order \in Orders \cup {NoOrder}
  BY <1>1, <1>3, <1>5 DEF LedgerOK, Columns
<1>7. Balanced(e) /\ \A o \in Orders : Moves(d.orders[o], e.orders[o])
  BY <1>2 DEF LedgerOK, Resummed, Moves, Live
<1>8. QED
  BY <1>2, <1>6, <1>7, LedgerMoves DEF AddressMoves

\* A matched payment counts, and takes its place from the sighting.
LEMMA MatchPlaces ==
  ASSUME NEW d, LedgerOK(d), NEW t \in Transfers, NEW s, NEW e, e = Match(d, t, s)
  PROVE  /\ e.addresses = d.addresses
         /\ \A u \in Transfers \ {t} : e.payments[u] = d.payments[u]
         /\ e.payments[t].height = s.height /\ e.payments[t].block = s.block
         /\ Counts(e.payments[t])
<1>1. /\ Columns(d) /\ NoOrder \notin Orders
      /\ d.payments[t].order \in Orders \cup {NoOrder}
      /\ d.addresses[Account(t)].order \in Orders \cup {NoOrder}
  BY AccountIsOurs, StartAssumption DEF LedgerOK
<1>2. /\ Columns(e) /\ e.addresses = d.addresses
      /\ OrderFor(d, t, s.time) \in Orders \cup {NoOrder}
      /\ \E status \in {"seen", "unattributed"} :
           e.payments = [d.payments EXCEPT ![t] =
             UpsertedRow(d.payments[t], status, OrderFor(d, t, s.time), s)]
      /\ \A o \in Orders : Resummed(d.orders[o], e.orders[o])
      /\ Balanced(d) => Balanced(e)
  BY <1>1, MatchEffect
<1> DEFINE order == OrderFor(d, t, s.time)
<1>3. PICK status \in {"seen", "unattributed"} :
        e.payments = [d.payments EXCEPT ![t] = UpsertedRow(d.payments[t], status, order, s)]
  BY <1>2
<1> HIDE DEF order
<1>4. DOMAIN d.payments[t] = {"status", "order", "height", "block", "time", "confirmed"}
  BY <1>1 DEF Columns
<1> DEFINE r == UpsertedRow(d.payments[t], status, order, s)
<1>5. /\ r.height = s.height /\ r.block = s.block
      /\ r.status = IF d.payments[t].status \in {"none", "orphaned"} THEN status
                    ELSE d.payments[t].status
  BY <1>4, UpsertedRowKeeps
<1> HIDE DEF r
<1>6. e.payments[t] = r /\ \A u \in Transfers \ {t} : e.payments[u] = d.payments[u]
  BY <1>1, <1>3 DEF Columns, r
<1>7. Counts(r)
  BY <1>5 DEF Counts
<1>8. QED
  BY <1>2, <1>5, <1>6, <1>7

\* A rewind keeps the ledger typed and balanced.
LEMMA RewindOK ==
  ASSUME NEW d, LedgerOK(d), NEW ancestor, NEW e, e = RewindLedger(d, ancestor)
  PROVE  LedgerOK(e)
<1>1. /\ Columns(e) /\ e.addresses = d.addresses
      /\ e.payments = [t \in Transfers |->
           IF d.payments[t].status # "none" /\ d.payments[t].height > ancestor
             THEN [d.payments[t] EXCEPT !.status = "orphaned"] ELSE d.payments[t]]
      /\ \A o \in Orders : Moves(d.orders[o], e.orders[o])
      /\ Balanced(e)
  BY RewindLedgerEffect DEF LedgerOK, Resummed, Moves, Live
<1>2. ASSUME NEW t \in Transfers
      PROVE  Sane(e.payments[t]) /\ e.payments[t].order \in Orders \cup {NoOrder}
  <2>1. \/ e.payments[t] = d.payments[t]
        \/ e.payments[t] = [d.payments[t] EXCEPT !.status = "orphaned"]
    BY <1>1
  <2>2. DOMAIN d.payments[t] = {"status", "order", "height", "block", "time", "confirmed"}
    BY DEF LedgerOK, Columns
  <2>3. QED
    BY <2>1, <2>2 DEF LedgerOK, Sane
<1>3. QED
  BY <1>1, <1>2, LedgerMoves DEF AddressMoves

\* A solidity head keeps the ledger typed and balanced.
LEMMA SolidifiedOK ==
  ASSUME NEW d, LedgerOK(d), NEW c, NEW time, NEW e, e = ApplySolidifiedLedger(d, c, time)
  PROVE  LedgerOK(e)
<1>1. /\ Columns(e)
      /\ e.payments = [t \in Transfers |->
           Judged(d.payments[t], t \in Mismatched(d, c), t \in Promotable(d, c))]
      /\ \A o \in Orders : Moves(d.orders[o], e.orders[o])
      /\ \A a \in Addresses : AddressMoves(d.addresses[a], e.addresses[a])
      /\ Balanced(e)
  BY ApplySolidifiedLedgerEffect DEF LedgerOK
<1>2. ASSUME NEW t \in Transfers
      PROVE  Sane(e.payments[t]) /\ e.payments[t].order \in Orders \cup {NoOrder}
  <2>1. e.payments[t] = Judged(d.payments[t], t \in Mismatched(d, c), t \in Promotable(d, c))
    BY <1>1
  <2>2. DOMAIN d.payments[t] = {"status", "order", "height", "block", "time", "confirmed"}
    BY DEF LedgerOK, Columns
  <2>3. QED
    BY <2>1, <2>2 DEF LedgerOK, Sane, Judged
<1>3. QED
  BY <1>1, <1>2, LedgerMoves

LedgerInv == LedgerOK(db)

\* Only a commit, a rewind and a solidity head write the ledger.
LEMMA LedgerStep == ChainInv /\ LedgerInv /\ [Next]_vars => LedgerInv'
<1> SUFFICES ASSUME ChainInv, LedgerOK(db), [Next]_vars PROVE LedgerOK(db')
  BY DEF LedgerInv
<1>1. CASE CommitBlock
  <2>1. CASE db' = db
    BY <2>1
  <2>2. CASE /\ tick.found # NoTransfer
             /\ db' = Match(db, tick.found, Sighting(BlockHeight[tick.block], tick.block,
                                                    BlockTime[tick.block]))
    <3>1. tick.found \in Transfers
      BY <2>2 DEF ChainInv, ChainTypeOK, Tick
    <3>2. QED
      BY <2>2, <3>1, MatchOK
  <2>3. QED
    BY <1>1, <2>1, <2>2 DEF CommitBlock
<1>2. CASE RewindChain
  BY <1>2, RewindOK DEF RewindChain
<1>3. CASE ApplySolidifiedHeight
  BY <1>3, SolidifiedOK DEF ApplySolidifiedHeight
<1>4. CASE ~CommitBlock /\ ~RewindChain /\ ~ApplySolidifiedHeight
  <2>1. db' = db
    BY <1>4 DEF Next, Follow, Network, Produce, Agree, Fail, Restart, Poll, Fetch, ClearLinked,
       Prepare, ConfirmMismatch, ConfirmReorg, WalkOn, Rewound, vars
  <2>2. QED
    BY <2>1
<1>5. QED
  BY <1>1, <1>2, <1>3, <1>4

\* The ledger is typed and its balances are current in every state.
THEOREM LedgerInvariant == Spec => []LedgerInv
<1>1. Init => LedgerInv
  BY StartOK DEF Init, LedgerInv
<1>2. QED
  BY <1>1, LedgerStep, ChainInvariant, PTL DEF Spec

\* Type correctness of the follower, its tables and the ledger it writes.
THEOREM FollowerTypes == Spec => []TypeOK
<1>1. ChainInv /\ LedgerInv => TypeOK
  BY DEF ChainInv, LedgerInv, LedgerOK, TypeOK
<1>2. QED
  BY <1>1, ChainInvariant, LedgerInvariant, PTL

\* Every transaction that changes a payment row rewrites the balances it touches, for any
\* tree, any payments and any interleaving (recalculateBalance at each of its callers).
THEOREM BalancesStayCurrent == Spec => []BalancesCurrent
<1>1. LedgerInv => BalancesCurrent
  BY DEF LedgerInv, LedgerOK, BalancesCurrent
<1>2. QED
  BY <1>1, LedgerInvariant, PTL

-----------------------------------------------------------------------------
(* The payments of the retained chain.                                       *)

\* A row is where a block that carries its transfer put it.
Placed(p, t) == p.status # "none" => /\ p.block \in Blocks /\ p.height = BlockHeight[p.block]
                                     /\ Carries[p.block] = t

PaymentsInv ==
  /\ \A a \in Addresses : db.addresses[a].state # "none"
  /\ tick.at = "prepared" => tick.found = Carries[tick.block]
  /\ \A t \in Transfers : Placed(db.payments[t], t)
  /\ PaymentsMatchChain

\* Two blocks of an unbroken chain carry different transfers.
LEMMA RetainedOnce ==
  ASSUME NEW table \in [Heights -> Blocks \cup {NoBlock}], NEW h \in Heights, NEW k \in Heights,
         h < k,
         \A j \in Heights : h <= j /\ j <= k => table[j] # NoBlock,
         \A j \in Heights : h <= j /\ j < k => Parent[table[j + 1]] = table[j],
         Carries[table[h]] # NoTransfer
  PROVE  Carries[table[k]] # Carries[table[h]]
<1> DEFINE n == k - h
           branch == [j \in 0..n |-> table[h + j]]
<1>0. h \in Nat /\ k \in Nat /\ k <= MaxHeight /\ MaxHeight \in Nat
  BY TreeAssumption DEF Heights
<1>1. n \in 1..MaxHeight
  BY <1>0
<1>2. ASSUME NEW j \in 0..n PROVE h + j \in Heights /\ h <= h + j /\ h + j <= k
  BY <1>0 DEF Heights
<1>3. branch \in [0..n -> Blocks]
  BY <1>2
<1>4. ASSUME NEW j \in 1..n PROVE Parent[branch[j]] = branch[j - 1]
  <2>1. /\ j - 1 \in 0..n /\ j \in 0..n /\ h + (j - 1) \in Heights
        /\ h <= h + (j - 1) /\ h + (j - 1) < k /\ (h + (j - 1)) + 1 = h + j
    BY <1>0 DEF Heights
  <2>2. branch[j] = table[h + j] /\ branch[j - 1] = table[h + (j - 1)]
    BY <2>1
  <2>3. QED
    BY <2>1, <2>2
<1>5. branch[0] = table[h] /\ branch[n] = table[k]
  BY <1>0
<1> HIDE DEF branch, n
<1>6. QED
  BY <1>1, <1>3, <1>4, <1>5, CarriedOnce

\* Fresh tables carry nothing.
LEMMA PaymentsInit == ASSUME Certain PROVE Init => PaymentsInv
<1> SUFFICES ASSUME Init PROVE PaymentsInv
  OBVIOUS
<1>1. \A t \in Transfers : db.payments[t].status = "none"
  BY StartAssumption DEF Init, NoPayment
<1>2. QED
  BY <1>1, IdleTickOK DEF Certain, Init, PaymentsInv, Placed, PaymentsMatchChain, Counts

\* A block is committed with the transfer it carries.
LEMMA PaymentsCommit ==
  ASSUME Certain, ChainInv, ChainInv', LedgerInv, PaymentsInv, CommitBlock
  PROVE  PaymentsInv'
<1> USE TreeAssumption, DepthAssumption
<1> DEFINE b == tick.block
           h == BlockHeight[b]
           found == tick.found
<1>1. /\ b \in Blocks /\ h \in Heights /\ b # NoBlock
      /\ cursor = NoCursor \/ h = cursor + 1
      /\ found = Carries[b] /\ found \in Transfers \cup {NoTransfer}
  BY DEF ChainInv, ChainTypeOK, TickOK, CommitBlock, NextHeight, PaymentsInv
<1>2. /\ blocks' = [k \in Heights |-> IF k = h THEN b
                                      ELSE IF k < h - ReorgDepth THEN NoBlock ELSE blocks[k]]
      /\ cursor' = h
      /\ db' = IF found = NoTransfer THEN db ELSE Match(db, found, Sighting(h, b, BlockTime[b]))
      /\ tick'.at # "prepared"
  BY DEF CommitBlock, IdleTick
<1> HIDE DEF b, h, found
\* The row of the transfer that was found is placed in the new block.
<1>3. ASSUME found # NoTransfer
      PROVE  /\ db'.addresses = db.addresses
             /\ \A t \in Transfers \ {found} : db'.payments[t] = db.payments[t]
             /\ db'.payments[found].height = h /\ db'.payments[found].block = b
             /\ Counts(db'.payments[found])
  <2> DEFINE s == Sighting(h, b, BlockTime[b])
  <2>1. db' = Match(db, found, s) /\ found \in Transfers /\ LedgerOK(db)
    BY <1>1, <1>2, <1>3 DEF LedgerInv
  <2>2. s.height = h /\ s.block = b
    BY DEF Sighting
  <2> HIDE DEF s
  <2>3. QED
    BY <2>1, <2>2, MatchPlaces
<1>4. \A a \in Addresses : db'.addresses[a].state # "none"
  BY <1>2, <1>3 DEF PaymentsInv
<1>5. ASSUME NEW t \in Transfers, t # found PROVE db'.payments[t] = db.payments[t]
  BY <1>2, <1>3, <1>5
<1>6. ASSUME NEW t \in Transfers PROVE Placed(db'.payments[t], t)
  <2>1. CASE t = found
    BY <1>1, <1>3, <1>6, <2>1 DEF Placed, h
  <2>2. CASE t # found
    BY <1>5, <2>2 DEF PaymentsInv, Placed
  <2>3. QED
    BY <2>1, <2>2
\* Another retained block cannot carry the transfer of the new one.
<1>7. ASSUME NEW k \in Heights, k # h, blocks'[k] # NoBlock, found # NoTransfer
      PROVE  Carries[blocks'[k]] # found
  <2>1. blocks' \in [Heights -> Blocks \cup {NoBlock}] /\ cursor' = h
    BY <1>2 DEF ChainInv, ChainTypeOK
  <2>2. h \in Nat /\ k \in Nat /\ ReorgDepth \in Nat
    BY <1>1 DEF Heights
  <2>3. k < h
    BY <1>2, <1>7, <2>1, <2>2 DEF ChainInv, StoredChainLinked
  <2>4. \A j \in Heights : k <= j /\ j <= h => blocks'[j] # NoBlock
    BY <1>7, <2>1 DEF ChainInv, Unbroken
  <2>5. \A j \in Heights : k <= j /\ j < h => Parent[blocks'[j + 1]] = blocks'[j]
    BY <1>7, <2>1, <2>2, <2>4 DEF ChainInv, StoredChainLinked, Heights
  <2>6. blocks'[h] = b
    BY <1>1, <1>2
  <2>7. CASE Carries[blocks'[k]] = NoTransfer
    BY <1>7, <2>7
  <2>8. CASE Carries[blocks'[k]] # NoTransfer
    <3> DEFINE table == blocks'
    <3>1. /\ table \in [Heights -> Blocks \cup {NoBlock}] /\ k \in Heights /\ h \in Heights
          /\ \A j \in Heights : k <= j /\ j <= h => table[j] # NoBlock
          /\ \A j \in Heights : k <= j /\ j < h => Parent[table[j + 1]] = table[j]
          /\ Carries[table[k]] # NoTransfer
      BY <1>1, <2>1, <2>4, <2>5, <2>8
    <3> HIDE DEF table
    <3>2. Carries[table[h]] # Carries[table[k]]
      BY <2>3, <3>1, RetainedOnce
    <3>3. Carries[table[h]] = found
      <4>1. found = Carries[b]
        BY <1>1, <1>7
      <4> QED BY <2>6, <4>1 DEF table
    <3> QED BY <3>2, <3>3 DEF table
  <2>9. QED
    BY <2>7, <2>8
<1>8. ASSUME NEW t \in Transfers, NEW k \in Heights, blocks'[k] # NoBlock, Carries[blocks'[k]] = t
      PROVE  Counts(db'.payments[t]) /\ db'.payments[t].block = blocks'[k]
  <2>1. CASE k = h
    <3>1. found = t /\ found # NoTransfer
      BY <1>1, <1>2, <1>8, <2>1
    <3>2. QED
      BY <1>1, <1>2, <1>3, <2>1, <3>1
  <2>2. CASE k # h
    <3>1. t # found
      BY <1>7, <1>8, <2>2
    <3>2. blocks[k] = blocks'[k]
      BY <1>2, <1>8, <2>2
    <3>3. QED
      BY <1>5, <1>8, <3>1, <3>2 DEF PaymentsInv, PaymentsMatchChain
  <2>3. QED
    BY <2>1, <2>2
<1>9. ASSUME NEW t \in Transfers, Counts(db'.payments[t])
      PROVE  LET p == db'.payments[t] IN
             /\ p.height <= cursor'
             /\ blocks'[p.height] # NoBlock => p.block = blocks'[p.height]
  <2>1. CASE t = found
    BY <1>1, <1>2, <1>3, <1>9, <2>1 DEF Heights
  <2>2. CASE t # found
    <3>1. /\ db'.payments[t] = db.payments[t] /\ db.payments[t].height <= cursor
          /\ db.payments[t].block \in Blocks
          /\ db.payments[t].height = BlockHeight[db.payments[t].block]
          /\ blocks[db.payments[t].height] # NoBlock
               => db.payments[t].block = blocks[db.payments[t].height]
      BY <1>5, <1>9, <2>2 DEF PaymentsInv, PaymentsMatchChain, Placed, Counts
    <3>2. db.payments[t].height \in Heights
      BY <3>1
    <3>3. cursor # NoCursor /\ h = cursor + 1 /\ cursor \in Heights
      <4>1. cursor \in Heights \cup {NoCursor}
        BY DEF ChainInv, ChainTypeOK
      <4>2. cursor # -1
        BY <3>1, <3>2 DEF Heights
      <4>3. QED
        BY <1>1, <4>1, <4>2 DEF NoCursor
    <3>4. db.payments[t].height < h
      BY <3>1, <3>2, <3>3 DEF Heights
    <3>5. \/ blocks'[db.payments[t].height] = NoBlock
          \/ blocks'[db.payments[t].height] = blocks[db.payments[t].height]
      BY <1>1, <1>2, <3>2, <3>4 DEF Heights
    <3>6. db.payments[t].height <= cursor'
      BY <1>1, <1>2, <3>2, <3>4 DEF Heights
    <3>7. QED
      BY <3>1, <3>5, <3>6
  <2>3. QED
    BY <2>1, <2>2
<1>10. QED
  BY <1>2, <1>4, <1>6, <1>8, <1>9 DEF PaymentsInv, PaymentsMatchChain

\* A rewind orphans exactly the rows of the blocks it cuts.
LEMMA PaymentsRewind ==
  ASSUME ChainInv, LedgerInv, PaymentsInv, RewindChain
  PROVE  PaymentsInv'
<1> USE TreeAssumption
<1>1. /\ tick.height \in Heights /\ tick.height < cursor
      /\ blocks' = [h \in Heights |-> IF h > tick.height THEN NoBlock ELSE blocks[h]]
      /\ cursor' = tick.height /\ db' = RewindLedger(db, tick.height) /\ tick'.at = "rewound"
  BY DEF RewindChain, ChainInv, ChainTypeOK, Tick
<1>2. /\ db'.addresses = db.addresses
      /\ db'.payments = [t \in Transfers |->
           IF db.payments[t].status # "none" /\ db.payments[t].height > tick.height
             THEN [db.payments[t] EXCEPT !.status = "orphaned"] ELSE db.payments[t]]
  BY <1>1, RewindLedgerEffect DEF LedgerInv, LedgerOK
<1>3. ASSUME NEW t \in Transfers
      PROVE  LET p == db.payments[t]
                 q == db'.payments[t]
             IN /\ q.block = p.block /\ q.height = p.height
                /\ p.status = "none" \/ p.height <= tick.height => q = p
                /\ q.status # "none" => p.status # "none"
                /\ Counts(q) => Counts(p) /\ p.height <= tick.height
  <2>1. DOMAIN db.payments[t] = {"status", "order", "height", "block", "time", "confirmed"}
    BY DEF LedgerInv, LedgerOK, Columns
  <2>2. db.payments[t].status # "none" => db.payments[t].height \in Heights
    BY DEF PaymentsInv, Placed
  <2>3. CASE db.payments[t].status # "none" /\ db.payments[t].height > tick.height
    <3>1. db'.payments[t] = [db.payments[t] EXCEPT !.status = "orphaned"]
      BY <1>2, <2>3
    <3>2. db'.payments[t].status = "orphaned"
      BY <2>1, <3>1
    <3>3. ~(db.payments[t].height <= tick.height)
      BY <1>1, <2>2, <2>3 DEF Heights
    <3>4. QED
      BY <2>1, <2>3, <3>1, <3>2, <3>3 DEF Counts
  <2>4. CASE ~(db.payments[t].status # "none" /\ db.payments[t].height > tick.height)
    <3>1. db'.payments[t] = db.payments[t]
      BY <1>2, <2>4
    <3>2. db.payments[t].status # "none" => db.payments[t].height <= tick.height
      BY <1>1, <2>2, <2>4 DEF Heights
    <3>3. QED
      BY <3>1, <3>2 DEF Counts
  <2>5. QED
    BY <2>3, <2>4
<1>4. \A t \in Transfers : Placed(db'.payments[t], t)
  BY <1>3 DEF PaymentsInv, Placed
<1>5. ASSUME NEW t \in Transfers, NEW h \in Heights, blocks'[h] # NoBlock, Carries[blocks'[h]] = t
      PROVE  Counts(db'.payments[t]) /\ db'.payments[t].block = blocks'[h]
  <2>1. h <= tick.height /\ blocks'[h] = blocks[h]
    BY <1>1, <1>5 DEF Heights
  <2>2. /\ Counts(db.payments[t]) /\ db.payments[t].block = blocks[h]
        /\ db.payments[t].height = BlockHeight[blocks[h]] /\ BlockHeight[blocks[h]] = h
    BY <1>5, <2>1 DEF PaymentsInv, PaymentsMatchChain, Placed, Counts, ChainInv, StoredChainLinked
  <2>3. QED
    BY <1>3, <2>1, <2>2
<1>6. ASSUME NEW t \in Transfers, Counts(db'.payments[t])
      PROVE  LET p == db'.payments[t] IN
             /\ p.height <= cursor'
             /\ blocks'[p.height] # NoBlock => p.block = blocks'[p.height]
  <2>1. /\ Counts(db.payments[t]) /\ db'.payments[t] = db.payments[t]
        /\ db.payments[t].height <= tick.height
    BY <1>3, <1>6
  <2>2. db.payments[t].height \in Heights
    BY <2>1 DEF PaymentsInv, Placed, Counts
  <2>3. QED
    BY <1>1, <2>1, <2>2 DEF PaymentsInv, PaymentsMatchChain, Heights
<1>7. QED
  BY <1>1, <1>2, <1>4, <1>5, <1>6 DEF PaymentsInv, PaymentsMatchChain

\* A solidity head finds no row of another block: it confirms, and orphans nothing.
LEMMA PaymentsSolidified ==
  ASSUME ChainInv, LedgerInv, PaymentsInv, ApplySolidifiedHeight
  PROVE  PaymentsInv'
<1> USE TreeAssumption
<1>1. PICK height : db' = ApplySolidifiedLedger(db, [blocks |-> blocks, last |-> cursor,
                                      solid |-> height, suspected |-> suspected], now)
  BY DEF ApplySolidifiedHeight
<1> DEFINE c == [blocks |-> blocks, last |-> cursor, solid |-> height, suspected |-> suspected]
<1>2. UNCHANGED <<blocks, cursor, tick>>
  BY DEF ApplySolidifiedHeight
<1>3. c.blocks = blocks /\ db' = ApplySolidifiedLedger(db, c, now)
  BY <1>1
<1> HIDE DEF c
<1>4. /\ db'.payments = [t \in Transfers |->
           Judged(db.payments[t], t \in Mismatched(db, c), t \in Promotable(db, c))]
      /\ \A a \in Addresses : AddressMoves(db.addresses[a], db'.addresses[a])
  BY <1>3, ApplySolidifiedLedgerEffect DEF LedgerInv, LedgerOK
<1>5. ASSUME NEW t \in Transfers PROVE t \notin Mismatched(db, c)
  <2> SUFFICES ASSUME t \in Mismatched(db, c) PROVE FALSE
    OBVIOUS
  <2>1. db.payments[t].status \in {"seen", "unattributed"}
    BY DEF Mismatched, Waiting
  <2>2. /\ blocks[db.payments[t].height] # NoBlock
        /\ blocks[db.payments[t].height] # db.payments[t].block
    BY <1>3 DEF Mismatched
  <2>3. QED
    BY <2>1, <2>2 DEF PaymentsInv, PaymentsMatchChain, Counts
<1>6. ASSUME NEW t \in Transfers
      PROVE  LET p == db.payments[t]
                 q == db'.payments[t]
             IN /\ q.block = p.block /\ q.height = p.height
                /\ Counts(q) <=> Counts(p)
                /\ q.status = "none" <=> p.status = "none"
  <2>1. DOMAIN db.payments[t] = {"status", "order", "height", "block", "time", "confirmed"}
    BY DEF LedgerInv, LedgerOK, Columns
  <2>2. \/ db'.payments[t] = db.payments[t]
        \/ db'.payments[t] = [db.payments[t] EXCEPT
                                !.status = IF @ = "seen" THEN "confirmed" ELSE @,
                                !.confirmed = TRUE]
    BY <1>4, <1>5 DEF Judged
  <2>3. QED
    BY <2>1, <2>2 DEF Counts
<1>7. \A a \in Addresses : db'.addresses[a].state # "none"
  BY <1>4 DEF PaymentsInv, AddressMoves
<1>8. \A t \in Transfers : Placed(db'.payments[t], t)
  BY <1>6 DEF PaymentsInv, Placed
<1>9. PaymentsMatchChain'
  BY <1>2, <1>6 DEF PaymentsInv, PaymentsMatchChain
<1>10. QED
  BY <1>2, <1>7, <1>8, <1>9 DEF PaymentsInv

\* A candidate is prepared with the transfer it carries.
LEMMA PaymentsPrepare ==
  ASSUME Certain, ChainInv, PaymentsInv, Prepare
  PROVE  PaymentsInv'
<1>1. tick.block \in Blocks
  BY DEF Prepare, ChainInv, TickOK
<1>2. Decoded(tick.block) = {Carries[tick.block]}
  <2>1. CASE Carries[tick.block] = NoTransfer
    BY <2>1 DEF Decoded
  <2>2. CASE Carries[tick.block] # NoTransfer
    <3>1. Carries[tick.block] \in Transfers
      BY <1>1, <2>2, TreeAssumption
    <3>2. Holders(Carries[tick.block]) \cap Owned # {}
      BY <3>1, TransferAssumption DEF Holders, Owned, PaymentsInv
    <3>3. QED
      BY <2>2, <3>2 DEF Decoded, Certain
  <2>3. QED
    BY <2>1, <2>2
<1>3. tick' = [tick EXCEPT !.at = "prepared", !.found = Carries[tick.block]]
  BY <1>2 DEF Prepare
<1>4. tick'.found = Carries[tick.block] /\ tick'.block = tick.block
  BY <1>3 DEF ChainInv, ChainTypeOK, Tick
<1>5. UNCHANGED <<db, blocks, cursor>>
  BY DEF Prepare, chainVars
<1>6. QED
  BY <1>4, <1>5 DEF PaymentsInv, PaymentsMatchChain

\* The invariant of the payments is inductive.
LEMMA PaymentsStep ==
  ASSUME Certain
  PROVE  ChainInv /\ ChainInv' /\ LedgerInv /\ PaymentsInv /\ [Next]_vars => PaymentsInv'
<1> SUFFICES ASSUME ChainInv, ChainInv', LedgerInv, PaymentsInv, [Next]_vars PROVE PaymentsInv'
  OBVIOUS
<1>1. CASE CommitBlock
  BY <1>1, PaymentsCommit
<1>2. CASE RewindChain
  BY <1>2, PaymentsRewind
<1>3. CASE ApplySolidifiedHeight
  BY <1>3, PaymentsSolidified
<1>4. CASE Prepare
  BY <1>4, PaymentsPrepare
<1>5. CASE ~CommitBlock /\ ~RewindChain /\ ~ApplySolidifiedHeight /\ ~Prepare
  <2>1. UNCHANGED <<db, blocks, cursor>>
    BY <1>5 DEF Next, Follow, Network, Produce, Agree, Fail, Restart, Poll, Fetch, ClearLinked,
       ConfirmMismatch, ConfirmReorg, WalkOn, Rewound, vars, chainVars
  <2>2. tick' = tick \/ tick'.at # "prepared"
    BY <1>5, IdleTickOK DEF Next, Follow, Network, Produce, Agree, Fail, Restart, Poll, Fetch,
       ClearLinked, ConfirmMismatch, ConfirmReorg, WalkOn, Halt, Rewound, vars, ChainInv,
       ChainTypeOK, Tick
  <2>3. QED
    BY <2>1, <2>2 DEF PaymentsInv, PaymentsMatchChain
<1>6. QED
  BY <1>1, <1>2, <1>3, <1>4, <1>5

\* No crash between two steps skips a payment of a retained block, and no reorg leaves one
\* behind that the retained chain does not carry: for any tree of blocks, provided the
\* addresses are derived before they are paid and receipts come with their block.
THEOREM PaymentsAreTheChains ==
  ASSUME Certain
  PROVE  Spec => []PaymentsMatchChain
<1>1. Init => PaymentsInv
  BY PaymentsInit
<1>2. ChainInv /\ ChainInv' /\ LedgerInv /\ PaymentsInv /\ [Next]_vars => PaymentsInv'
  BY PaymentsStep
<1>3. PaymentsInv => PaymentsMatchChain
  BY DEF PaymentsInv
<1>4. QED
  BY <1>1, <1>2, <1>3, ChainInvariant, LedgerInvariant, PTL DEF Spec
-----------------------------------------------------------------------------
(* Where the payments are on the tree.                                       *)

\* From x to y there are n blocks, each on top of the one before.
Line(x, y, n) ==
  \E branch \in [0..n -> Blocks] :
    /\ branch[0] = x /\ branch[n] = y
    /\ \A k \in 1..n : Parent[branch[k]] = branch[k - 1]

\* A row says where a block that carries its transfer put it; one that counts is in a
\* block that each retained block above it is built on.
Rooted(p, t, table, last) ==
  /\ p.status # "none" => /\ p.block \in Blocks /\ p.height = BlockHeight[p.block]
                          /\ p.time = BlockTime[p.block] /\ Carries[p.block] = t
  /\ Counts(p) => /\ last # NoCursor /\ p.height <= last
                  /\ \A h \in Heights : p.height <= h /\ table[h] # NoBlock
                       => Line(p.block, table[h], h - p.height)

RootedInv ==
  /\ tick.at = "prepared" => tick.found \in {Carries[tick.block], NoTransfer}
  /\ \A t \in Transfers : Rooted(db.payments[t], t, blocks, cursor)

\* A block is on a line of no blocks with itself alone.
LEMMA LineOfNone ==
  ASSUME NEW x, NEW y
  PROVE  /\ Line(x, y, 0) => x = y
         /\ x \in Blocks => Line(x, x, 0)
<1>1. x \in Blocks => Line(x, x, 0)
  <2> SUFFICES ASSUME x \in Blocks PROVE Line(x, x, 0)
    OBVIOUS
  <2> DEFINE branch == [k \in 0..0 |-> x]
  <2>1. branch \in [0..0 -> Blocks] /\ branch[0] = x /\ \A k \in 1..0 : FALSE
    OBVIOUS
  <2> HIDE DEF branch
  <2> QED BY <2>1 DEF Line
<1> QED BY <1>1 DEF Line

\* A line grows by a block on top of its last.
LEMMA LineGrows ==
  ASSUME NEW x, NEW y, NEW z \in Blocks, NEW n \in Nat, Line(x, y, n), Parent[z] = y
  PROVE  Line(x, z, n + 1)
<1>1. PICK branch \in [0..n -> Blocks] :
        /\ branch[0] = x /\ branch[n] = y
        /\ \A k \in 1..n : Parent[branch[k]] = branch[k - 1]
  BY DEF Line
<1> DEFINE longer == [k \in 0..(n + 1) |-> IF k = n + 1 THEN z ELSE branch[k]]
<1>2. longer \in [0..(n + 1) -> Blocks]
  <2> SUFFICES ASSUME NEW k \in 0..(n + 1) PROVE longer[k] \in Blocks
    OBVIOUS
  <2>1. k = n + 1 \/ k \in 0..n
    OBVIOUS
  <2> QED BY <1>1, <2>1
<1>3. longer[0] = x /\ longer[n + 1] = z
  BY <1>1
<1>4. ASSUME NEW k \in 1..(n + 1) PROVE Parent[longer[k]] = longer[k - 1]
  <2>1. CASE k = n + 1
    BY <1>1, <2>1
  <2>2. CASE k # n + 1
    <3>1. k \in 1..n /\ k - 1 \in 0..n /\ k - 1 # n + 1 /\ k - 1 \in 0..(n + 1)
      BY <2>2
    <3> QED BY <1>1, <2>2, <3>1
  <2> QED BY <2>1, <2>2
<1> HIDE DEF longer
<1> QED BY <1>2, <1>3, <1>4 DEF Line

\* No block of a line carries the transfer of its first.
LEMMA LineCarriesOnce ==
  ASSUME NEW x, NEW y, NEW n \in 1..MaxHeight, Line(x, y, n), Carries[x] # NoTransfer
  PROVE  Carries[y] # Carries[x]
BY CarriedOnce DEF Line

\* The row of a matched payment takes its time from the sighting, and its order from the
\* address; one that was not counted is new again, and forgets nothing of its decision.
LEMMA MatchedRow ==
  ASSUME NEW d, LedgerOK(d), NEW t \in Transfers, NEW s, NEW e, e = Match(d, t, s)
  PROVE  /\ e.payments[t].time = s.time
         /\ d.payments[t].status \in {"none", "orphaned"}
              => e.payments[t].status \in {"seen", "unattributed"}
         /\ e.payments[t].confirmed
              => d.payments[t].status # "none" /\ d.payments[t].confirmed
         /\ e.payments[t].order \in {NoOrder, d.payments[t].order,
                                     d.addresses[Account(t)].order}
<1>1. /\ Columns(d) /\ NoOrder \notin Orders
      /\ d.payments[t].order \in Orders \cup {NoOrder}
      /\ d.addresses[Account(t)].order \in Orders \cup {NoOrder}
  BY AccountIsOurs, StartAssumption DEF LedgerOK
<1>0. /\ Columns(e) /\ e.addresses = d.addresses
      /\ OrderFor(d, t, s.time) \in Orders \cup {NoOrder}
      /\ \E status \in {"seen", "unattributed"} :
           e.payments = [d.payments EXCEPT ![t] =
             UpsertedRow(d.payments[t], status, OrderFor(d, t, s.time), s)]
      /\ \A o \in Orders : Resummed(d.orders[o], e.orders[o])
      /\ Balanced(d) => Balanced(e)
  BY <1>1, MatchEffect
<1> DEFINE order == OrderFor(d, t, s.time)
<1>2. PICK status \in {"seen", "unattributed"} :
        e.payments = [d.payments EXCEPT ![t] = UpsertedRow(d.payments[t], status, order, s)]
  BY <1>0
<1>3. order \in {NoOrder, d.addresses[Account(t)].order}
  BY DEF OrderFor
<1> HIDE DEF order
<1>4. DOMAIN d.payments[t] = {"status", "order", "height", "block", "time", "confirmed"}
  BY <1>1 DEF Columns
<1>5. e.payments[t] = UpsertedRow(d.payments[t], status, order, s)
  BY <1>1, <1>2 DEF Columns
<1> QED BY <1>3, <1>4, <1>5 DEF UpsertedRow, Counts

\* A fresh database has no payment on the tree.
LEMMA RootedInit == Init => RootedInv
<1> SUFFICES ASSUME Init PROVE RootedInv
  OBVIOUS
<1>1. \A t \in Transfers : db.payments[t].status = "none"
  BY StartAssumption DEF Init, NoPayment
<1>2. QED
  BY <1>1, IdleTickOK DEF Init, RootedInv, Rooted, Counts

\* What a commit finds is carried by its block, which is on top of the retained chain.
LEMMA CommitPlace ==
  ASSUME ChainInv, ChainInv', RootedInv, CommitBlock
  PROVE  LET b == tick.block
             h == BlockHeight[b]
         IN /\ b \in Blocks /\ h \in Heights /\ b # NoBlock /\ cursor' = h
            /\ cursor # NoCursor => /\ cursor \in Heights /\ h = cursor + 1
                                    /\ Parent[b] = blocks[cursor] /\ blocks[cursor] # NoBlock
                                    /\ blocks[cursor] \in Blocks
            /\ \A k \in Heights : blocks'[k] # NoBlock =>
                 (k = h /\ blocks'[k] = b)
                   \/ (k < h /\ blocks'[k] = blocks[k] /\ cursor # NoCursor /\ k <= cursor)
            /\ tick.found \in Transfers \cup {NoTransfer}
            /\ tick.found # NoTransfer => Carries[b] = tick.found
<1> USE TreeAssumption, DepthAssumption
<1> DEFINE b == tick.block
           h == BlockHeight[b]
<1>1. /\ b \in Blocks /\ h \in Heights /\ b # NoBlock /\ Linked
      /\ cursor = NoCursor \/ h = cursor + 1
      /\ tick.found \in Transfers \cup {NoTransfer}
      /\ tick.found # NoTransfer => Carries[b] = tick.found
  BY DEF ChainInv, ChainTypeOK, Tick, TickOK, CommitBlock, NextHeight, RootedInv
<1>2. /\ blocks' = [k \in Heights |-> IF k = h THEN b
                                      ELSE IF k < h - ReorgDepth THEN NoBlock ELSE blocks[k]]
      /\ cursor' = h
  BY DEF CommitBlock
<1> HIDE DEF h, b
<1>3. cursor # NoCursor => /\ cursor \in Heights /\ Parent[b] = blocks[cursor]
                           /\ blocks[cursor] # NoBlock /\ blocks[cursor] \in Blocks
  BY <1>1 DEF Linked, ChainInv, ChainTypeOK, StoredChainLinked, b
<1>4. ASSUME NEW k \in Heights, blocks'[k] # NoBlock
      PROVE  \/ k = h /\ blocks'[k] = b
             \/ k < h /\ blocks'[k] = blocks[k] /\ cursor # NoCursor /\ k <= cursor
  <2>1. CASE k = h
    BY <1>1, <1>2, <2>1
  <2>2. CASE k # h
    <3>1. blocks'[k] = blocks[k] /\ k <= cursor' /\ k <= cursor
      BY <1>2, <1>4, <2>2 DEF ChainInv, StoredChainLinked
    <3>2. k < h /\ cursor # NoCursor
      BY <1>1, <1>2, <2>2, <3>1 DEF Heights, NoCursor, ChainInv, ChainTypeOK
    <3> QED BY <3>1, <3>2
  <2> QED BY <2>1, <2>2
<1> QED BY <1>1, <1>2, <1>3, <1>4 DEF h, b

\* A commit never finds a payment that counts already: no branch carries it twice.
LEMMA FoundIsNew ==
  ASSUME ChainInv, ChainInv', RootedInv, CommitBlock, tick.found # NoTransfer
  PROVE  ~Counts(db.payments[tick.found])
<1> USE TreeAssumption
<1> DEFINE b == tick.block
           h == BlockHeight[b]
           p == db.payments[tick.found]
<1> SUFFICES ASSUME Counts(p) PROVE FALSE
  OBVIOUS
<1>1. /\ b \in Blocks /\ h \in Heights /\ tick.found \in Transfers /\ Carries[b] = tick.found
      /\ cursor # NoCursor => /\ cursor \in Heights /\ h = cursor + 1
                              /\ Parent[b] = blocks[cursor] /\ blocks[cursor] # NoBlock
  BY CommitPlace
<1>2. /\ p.block \in Blocks /\ p.height = BlockHeight[p.block] /\ Carries[p.block] = tick.found
      /\ cursor # NoCursor /\ p.height <= cursor
      /\ \A k \in Heights : p.height <= k /\ blocks[k] # NoBlock
           => Line(p.block, blocks[k], k - p.height)
  BY <1>1 DEF RootedInv, Rooted, Counts
<1> HIDE DEF p, h, b
<1>3. p.height \in Heights /\ Line(p.block, blocks[cursor], cursor - p.height)
  BY <1>1, <1>2
<1>4. cursor - p.height \in Nat /\ (cursor - p.height) + 1 \in 1..MaxHeight
  BY <1>1, <1>2, <1>3 DEF Heights
<1>5. Line(p.block, b, (cursor - p.height) + 1)
  BY <1>1, <1>2, <1>3, <1>4, LineGrows
<1> QED BY <1>1, <1>2, <1>4, <1>5, LineCarriesOnce

\* The row of a commit's payment: it was not counted, and is placed in the new block.
LEMMA CommittedRow ==
  ASSUME ChainInv, ChainInv', LedgerInv, RootedInv, CommitBlock
  PROVE  /\ db'.addresses = db.addresses
         /\ \A t \in Transfers : t # tick.found => db'.payments[t] = db.payments[t]
         /\ tick.found # NoTransfer =>
              LET p == db.payments[tick.found]
                  q == db'.payments[tick.found]
              IN /\ tick.found \in Transfers /\ ~Counts(p) /\ Counts(q)
                 /\ q.block = tick.block /\ q.height = BlockHeight[tick.block]
                 /\ q.time = BlockTime[tick.block]
                 /\ q.status \in {"seen", "unattributed"}
                 /\ q.confirmed => p.status # "none" /\ p.confirmed
<1> DEFINE s == Sighting(BlockHeight[tick.block], tick.block, BlockTime[tick.block])
<1>1. CASE tick.found = NoTransfer
  BY <1>1 DEF CommitBlock
<1>2. CASE tick.found # NoTransfer
  <2>1. tick.found \in Transfers /\ ~Counts(db.payments[tick.found])
    BY <1>2, CommitPlace, FoundIsNew
  <2>2. db' = Match(db, tick.found, s) /\ LedgerOK(db)
    BY <1>2 DEF CommitBlock, LedgerInv
  <2>3. s.height = BlockHeight[tick.block] /\ s.block = tick.block /\ s.time = BlockTime[tick.block]
    BY DEF Sighting
  <2> HIDE DEF s
  <2>4. /\ db'.addresses = db.addresses
        /\ \A u \in Transfers \ {tick.found} : db'.payments[u] = db.payments[u]
        /\ db'.payments[tick.found].height = s.height /\ db'.payments[tick.found].block = s.block
        /\ Counts(db'.payments[tick.found])
    BY <2>1, <2>2, MatchPlaces
  <2>5. /\ db'.payments[tick.found].time = s.time
        /\ db.payments[tick.found].status \in {"none", "orphaned"}
             => db'.payments[tick.found].status \in {"seen", "unattributed"}
        /\ db'.payments[tick.found].confirmed
             => db.payments[tick.found].status # "none" /\ db.payments[tick.found].confirmed
    BY <2>1, <2>2, MatchedRow
  <2> QED BY <2>1, <2>3, <2>4, <2>5 DEF Counts
<1> QED BY <1>1, <1>2

\* A commit puts a block on top of every line.
LEMMA RootedCommit ==
  ASSUME ChainInv, ChainInv', LedgerInv, RootedInv, CommitBlock
  PROVE  RootedInv'
<1> USE TreeAssumption
<1> DEFINE b == tick.block
           h == BlockHeight[b]
<1>1. /\ b \in Blocks /\ h \in Heights /\ b # NoBlock /\ cursor' = h
      /\ cursor # NoCursor => /\ cursor \in Heights /\ h = cursor + 1
                              /\ Parent[b] = blocks[cursor] /\ blocks[cursor] # NoBlock
                              /\ blocks[cursor] \in Blocks
      /\ \A k \in Heights : blocks'[k] # NoBlock =>
           (k = h /\ blocks'[k] = b)
             \/ (k < h /\ blocks'[k] = blocks[k] /\ cursor # NoCursor /\ k <= cursor)
      /\ tick.found \in Transfers \cup {NoTransfer}
      /\ tick.found # NoTransfer => Carries[b] = tick.found
  BY CommitPlace
<1>2. tick'.at # "prepared"
  BY DEF CommitBlock, IdleTick
<1>3. /\ \A t \in Transfers : t # tick.found => db'.payments[t] = db.payments[t]
      /\ tick.found # NoTransfer =>
           LET q == db'.payments[tick.found]
           IN q.block = b /\ q.height = h /\ q.time = BlockTime[b]
  BY CommittedRow
<1> HIDE DEF h
<1>4. cursor' # NoCursor
  BY <1>1 DEF NoCursor, Heights
<1>5. ASSUME NEW t \in Transfers, t # tick.found PROVE Rooted(db'.payments[t], t, blocks', cursor')
  <2> DEFINE p == db.payments[t]
  <2>1. db'.payments[t] = p /\ Rooted(p, t, blocks, cursor)
    BY <1>3, <1>5 DEF RootedInv
  <2> HIDE DEF p
  <2>2. ASSUME Counts(p)
        PROVE  /\ p.height <= cursor'
               /\ \A k \in Heights : p.height <= k /\ blocks'[k] # NoBlock
                    => Line(p.block, blocks'[k], k - p.height)
    <3>1. /\ p.block \in Blocks /\ p.height = BlockHeight[p.block]
          /\ cursor # NoCursor /\ p.height <= cursor
          /\ \A k \in Heights : p.height <= k /\ blocks[k] # NoBlock
               => Line(p.block, blocks[k], k - p.height)
      BY <2>1, <2>2 DEF Rooted, Counts
    <3>2. p.height \in Nat /\ cursor \in Nat /\ p.height <= h /\ cursor - p.height \in Nat
          /\ h - p.height = (cursor - p.height) + 1
      BY <1>1, <3>1 DEF Heights
    <3>3. Line(p.block, b, h - p.height)
      BY <1>1, <3>1, <3>2, LineGrows
    <3> QED BY <1>1, <3>1, <3>2, <3>3
  <2> QED BY <1>4, <2>1, <2>2 DEF Rooted
<1>6. ASSUME tick.found # NoTransfer PROVE Rooted(db'.payments[tick.found], tick.found, blocks', cursor')
  <2> DEFINE q == db'.payments[tick.found]
  <2>1. q.block = b /\ q.height = h /\ q.time = BlockTime[b] /\ Carries[b] = tick.found
    BY <1>1, <1>3, <1>6
  <2> HIDE DEF q
  <2>2. \A k \in Heights : h <= k /\ blocks'[k] # NoBlock => k = h /\ blocks'[k] = b
    BY <1>1 DEF Heights
  <2>3. Line(b, b, 0) /\ h - h = 0
    BY <1>1, LineOfNone DEF Heights
  <2>4. h <= cursor'
    BY <1>1 DEF Heights
  <2>5. \A k \in Heights : q.height <= k /\ blocks'[k] # NoBlock
          => Line(q.block, blocks'[k], k - q.height)
    BY <2>1, <2>2, <2>3
  <2> QED BY <1>1, <1>4, <2>1, <2>4, <2>5 DEF Rooted, h, q
<1> QED BY <1>1, <1>2, <1>5, <1>6 DEF RootedInv

\* A rewind keeps a row that still counts as it was, and orphans what was above the ancestor.
LEMMA RewoundRow ==
  ASSUME ChainInv, LedgerInv, RootedInv, RewindChain, NEW t \in Transfers
  PROVE  /\ tick.height \in Heights /\ cursor' = tick.height /\ cursor' < cursor
         /\ \A h \in Heights : blocks'[h] # NoBlock => blocks'[h] = blocks[h]
         /\ \/ /\ db'.payments[t] = db.payments[t]
               /\ db.payments[t].status # "none" => db.payments[t].height <= tick.height
            \/ /\ db'.payments[t] = [db.payments[t] EXCEPT !.status = "orphaned"]
               /\ db'.payments[t].status = "orphaned" /\ db.payments[t].status # "none"
               /\ db.payments[t].height > tick.height
<1> USE TreeAssumption
<1>1. /\ tick.height \in Heights /\ tick.height < cursor
      /\ blocks' = [h \in Heights |-> IF h > tick.height THEN NoBlock ELSE blocks[h]]
      /\ cursor' = tick.height /\ db' = RewindLedger(db, tick.height)
  BY DEF RewindChain, ChainInv, ChainTypeOK, Tick
<1>2. db'.payments = [u \in Transfers |->
        IF db.payments[u].status # "none" /\ db.payments[u].height > tick.height
          THEN [db.payments[u] EXCEPT !.status = "orphaned"] ELSE db.payments[u]]
  BY <1>1, RewindLedgerEffect DEF LedgerInv, LedgerOK
<1>3. DOMAIN db.payments[t] = {"status", "order", "height", "block", "time", "confirmed"}
  BY DEF LedgerInv, LedgerOK, Columns
<1>4. db.payments[t].status # "none" => db.payments[t].height \in Heights
  BY DEF RootedInv, Rooted
<1>5. CASE db.payments[t].status # "none" /\ db.payments[t].height > tick.height
  BY <1>1, <1>2, <1>3, <1>5
<1>6. CASE ~(db.payments[t].status # "none" /\ db.payments[t].height > tick.height)
  <2>1. db'.payments[t] = db.payments[t]
    BY <1>2, <1>6
  <2>2. db.payments[t].status # "none" => db.payments[t].height <= tick.height
    BY <1>1, <1>4, <1>6 DEF Heights
  <2> QED BY <1>1, <2>1, <2>2
<1> QED BY <1>5, <1>6

\* A rewind keeps the lines of what it keeps.
LEMMA RootedRewind ==
  ASSUME ChainInv, LedgerInv, RootedInv, RewindChain
  PROVE  RootedInv'
<1> USE TreeAssumption
<1>1. tick'.at # "prepared"
  BY DEF RewindChain, ChainInv, ChainTypeOK, Tick
<1>2. ASSUME NEW t \in Transfers
      PROVE  Rooted(db'.payments[t], t, blocks', cursor')
  <2> DEFINE p == db.payments[t]
             q == db'.payments[t]
  <2>1. /\ tick.height \in Heights /\ cursor' = tick.height
        /\ \A h \in Heights : blocks'[h] # NoBlock => blocks'[h] = blocks[h]
        /\ \/ q = p /\ (p.status # "none" => p.height <= tick.height)
           \/ q = [p EXCEPT !.status = "orphaned"] /\ q.status = "orphaned" /\ p.status # "none"
    BY RewoundRow
  <2>2. /\ Rooted(p, t, blocks, cursor)
        /\ DOMAIN p = {"status", "order", "height", "block", "time", "confirmed"}
    BY DEF RootedInv, LedgerInv, LedgerOK, Columns
  <2>3. cursor' # NoCursor
    BY <2>1 DEF NoCursor, Heights
  <2> HIDE DEF p, q
  <2>4. CASE q = p /\ (p.status # "none" => p.height <= tick.height)
    BY <2>1, <2>2, <2>3, <2>4 DEF Rooted, Counts, q
  <2>5. CASE q = [p EXCEPT !.status = "orphaned"] /\ q.status = "orphaned" /\ p.status # "none"
    <3>1. q.block = p.block /\ q.height = p.height /\ q.time = p.time
      BY <2>2, <2>5
    <3> QED BY <2>2, <2>5, <3>1 DEF Rooted, Counts, q
  <2> QED BY <2>1, <2>4, <2>5
<1> QED BY <1>1, <1>2 DEF RootedInv

\* The solidity head never finds a row in another block than the retained one of its height:
\* a row it decides is confirmed where it is, and none is orphaned.
LEMMA JudgedRow ==
  ASSUME ChainInv, LedgerInv, RootedInv, ApplySolidifiedHeight, NEW t \in Transfers
  PROVE  /\ UNCHANGED <<blocks, cursor, tick, now, produced>>
         /\ \A a \in Addresses : AddressMoves(db.addresses[a], db'.addresses[a])
         /\ \/ db'.payments[t] = db.payments[t]
            \/ /\ db.payments[t].status \in {"seen", "unattributed"}
               /\ cursor # NoCursor /\ cursor - db.payments[t].height >= Required
               /\ db'.payments[t] = [db.payments[t] EXCEPT
                                       !.status = IF @ = "seen" THEN "confirmed" ELSE @,
                                       !.confirmed = TRUE]
<1> USE TreeAssumption
<1>1. PICK height : db' = ApplySolidifiedLedger(db, [blocks |-> blocks, last |-> cursor,
                                      solid |-> height, suspected |-> suspected], now)
  BY DEF ApplySolidifiedHeight
<1> DEFINE c == [blocks |-> blocks, last |-> cursor, solid |-> height, suspected |-> suspected]
<1>2. UNCHANGED <<blocks, cursor, tick, now, produced>> /\ cursor # NoCursor
  BY DEF ApplySolidifiedHeight, networkVars
<1>3. c.blocks = blocks /\ c.last = cursor /\ db' = ApplySolidifiedLedger(db, c, now)
  BY <1>1
<1> HIDE DEF c
<1>4. /\ db'.payments = [u \in Transfers |->
           Judged(db.payments[u], u \in Mismatched(db, c), u \in Promotable(db, c))]
      /\ \A a \in Addresses : AddressMoves(db.addresses[a], db'.addresses[a])
  BY <1>3, ApplySolidifiedLedgerEffect DEF LedgerInv, LedgerOK
<1>5. t \notin Mismatched(db, c)
  <2> SUFFICES ASSUME t \in Mismatched(db, c) PROVE FALSE
    OBVIOUS
  <2> DEFINE p == db.payments[t]
  <2>1. /\ p.status \in {"seen", "unattributed"}
        /\ blocks[p.height] # NoBlock /\ blocks[p.height] # p.block
    BY <1>3 DEF Mismatched, Waiting
  <2>2. /\ p.block \in Blocks /\ p.height = BlockHeight[p.block]
        /\ \A h \in Heights : p.height <= h /\ blocks[h] # NoBlock
             => Line(p.block, blocks[h], h - p.height)
    BY <2>1 DEF RootedInv, Rooted, Counts
  <2> HIDE DEF p
  <2>3. p.height \in Heights /\ p.height <= p.height /\ p.height - p.height = 0
    BY <2>2 DEF Heights
  <2>4. Line(p.block, blocks[p.height], 0)
    BY <2>1, <2>2, <2>3
  <2> QED BY <2>1, <2>4, LineOfNone
<1>6. t \in Promotable(db, c) => /\ db.payments[t].status \in {"seen", "unattributed"}
                                 /\ cursor - db.payments[t].height >= Required
  BY <1>3 DEF Promotable, Waiting
<1> QED BY <1>2, <1>4, <1>5, <1>6 DEF Judged

\* A solidity head moves no payment.
LEMMA RootedSolidified ==
  ASSUME ChainInv, LedgerInv, RootedInv, ApplySolidifiedHeight
  PROVE  RootedInv'
<1>1. ASSUME NEW t \in Transfers
      PROVE  /\ UNCHANGED <<blocks, cursor, tick>>
             /\ Rooted(db'.payments[t], t, blocks', cursor')
  <2> DEFINE p == db.payments[t]
             q == db'.payments[t]
  <2>1. /\ UNCHANGED <<blocks, cursor, tick>>
        /\ \/ q = p
           \/ /\ p.status \in {"seen", "unattributed"}
              /\ q = [p EXCEPT !.status = IF @ = "seen" THEN "confirmed" ELSE @,
                               !.confirmed = TRUE]
    BY JudgedRow
  <2>2. /\ Rooted(p, t, blocks, cursor)
        /\ DOMAIN p = {"status", "order", "height", "block", "time", "confirmed"}
    BY DEF RootedInv, LedgerInv, LedgerOK, Columns
  <2> HIDE DEF p, q
  <2>3. /\ q.block = p.block /\ q.height = p.height /\ q.time = p.time
        /\ q.status # "none" => p.status # "none"
        /\ Counts(q) => Counts(p)
    BY <2>1, <2>2 DEF Counts
  <2> QED BY <2>1, <2>2, <2>3 DEF Rooted, q
<1>2. tick' = tick
  BY DEF ApplySolidifiedHeight
<1> QED BY <1>1, <1>2 DEF RootedInv

\* The place of every payment on the tree is inductive.
LEMMA RootedStep ==
  ChainInv /\ ChainInv' /\ LedgerInv /\ RootedInv /\ [Next]_vars => RootedInv'
<1> SUFFICES ASSUME ChainInv, ChainInv', LedgerInv, RootedInv, [Next]_vars PROVE RootedInv'
  OBVIOUS
<1>1. CASE CommitBlock
  BY <1>1, RootedCommit
<1>2. CASE RewindChain
  BY <1>2, RootedRewind
<1>3. CASE ApplySolidifiedHeight
  BY <1>3, RootedSolidified
<1>4. CASE Prepare
  <2>1. PICK t \in Decoded(tick.block) : tick' = [tick EXCEPT !.at = "prepared", !.found = t]
    BY <1>4 DEF Prepare
  <2>2. tick'.found = t /\ tick'.block = tick.block /\ t \in {Carries[tick.block], NoTransfer}
    BY <2>1 DEF Decoded, ChainInv, ChainTypeOK, Tick
  <2>3. UNCHANGED <<db, blocks, cursor>>
    BY <1>4 DEF Prepare, chainVars
  <2> QED BY <2>2, <2>3 DEF RootedInv
<1>5. CASE ~CommitBlock /\ ~RewindChain /\ ~ApplySolidifiedHeight /\ ~Prepare
  <2>1. UNCHANGED <<db, blocks, cursor>>
    BY <1>5 DEF Next, Follow, Network, Produce, Agree, Fail, Restart, Poll, Fetch, ClearLinked,
       ConfirmMismatch, ConfirmReorg, WalkOn, Rewound, vars, chainVars
  <2>2. tick' = tick \/ tick'.at # "prepared"
    BY <1>5, IdleTickOK DEF Next, Follow, Network, Produce, Agree, Fail, Restart, Poll, Fetch,
       ClearLinked, ConfirmMismatch, ConfirmReorg, WalkOn, Halt, Rewound, vars, ChainInv,
       ChainTypeOK, Tick
  <2> QED BY <2>1, <2>2 DEF RootedInv
<1> QED BY <1>1, <1>2, <1>3, <1>4, <1>5

\* Whatever the nodes answer and whatever receipts they miss, a payment that counts is in a
\* block on the branch of every retained block above it (CommitBlock, RewindChain).
THEOREM PaymentsAreRooted == Spec => []RootedInv
BY RootedInit, RootedStep, ChainInvariant, LedgerInvariant, PTL DEF Spec

-----------------------------------------------------------------------------
(* What was confirmed, and what a walk to the common ancestor has seen.      *)

\* Every height the walk has passed is disputed: a node answered with another block.
WalkInv ==
  tick.at = "walk" => /\ BlockHeight[tick.block] = tick.height
                      /\ \A h \in Heights : tick.height < h /\ h <= cursor => Disputed(h)

\* What is confirmed counts, is in a block that stays, and under a height no walk passes.
Safe(p, last) ==
  p.confirmed \/ p.status = "confirmed" =>
    /\ Counts(p) /\ p.block \in Main
    /\ \E k \in Heights : p.height <= k /\ k <= last /\ ~Disputed(k)

SettledInv == \A t \in Transfers : Safe(db.payments[t], cursor)

\* A walk goes down only past a block that is not the retained one.
LEMMA WalkStep == ChainInv /\ ChainInv' /\ WalkInv /\ [Next]_vars => WalkInv'
<1> USE TreeAssumption
<1> SUFFICES ASSUME ChainInv, ChainInv', WalkInv, [Next]_vars, tick'.at = "walk" PROVE WalkInv'
  BY DEF WalkInv
<1>1. CASE ConfirmReorg
  <2>1. PICK r \in At(cursor) : tick' = [tick EXCEPT !.at = "walk", !.block = r, !.height = cursor]
    BY <1>1 DEF ConfirmReorg
  <2>2. tick'.block = r /\ tick'.height = cursor /\ cursor' = cursor /\ BlockHeight[r] = cursor
    BY <1>1, <2>1 DEF ConfirmReorg, chainVars, ChainInv, ChainTypeOK, Tick, At
  <2>3. \A h \in Heights : ~(cursor < h /\ h <= cursor)
    BY DEF Heights, ChainInv, ChainTypeOK, NoCursor
  <2> QED BY <2>2, <2>3 DEF WalkInv
<1>2. CASE WalkOn
  <2>1. /\ tick.at = "walk" /\ tick.block # blocks[tick.height] /\ tick.height # 0
        /\ blocks[tick.height] # NoBlock /\ UNCHANGED <<cursor, blocks>>
        /\ \E r \in At(tick.height - 1) : tick' = [tick EXCEPT !.block = r, !.height = @ - 1]
    BY <1>2, IdleTickOK DEF WalkOn, Halt, chainVars
  <2>2. PICK r \in At(tick.height - 1) : tick' = [tick EXCEPT !.block = r, !.height = @ - 1]
    BY <2>1
  <2>3. /\ tick'.block = r /\ tick'.height = tick.height - 1 /\ tick.height \in Heights
        /\ BlockHeight[r] = tick.height - 1 /\ tick.block \in Blocks
    BY <2>1, <2>2 DEF ChainInv, ChainTypeOK, Tick, TickOK, At
  <2>4. Disputed(tick.height)
    <3>1. /\ BlockHeight[tick.block] = tick.height
          /\ BlockHeight[blocks[tick.height]] = tick.height
          /\ blocks[tick.height] \in Blocks
      BY <2>1, <2>3 DEF WalkInv, ChainInv, ChainTypeOK, StoredChainLinked
    <3> QED BY <2>1, <2>3, <3>1 DEF Disputed
  <2>5. \A h \in Heights : tick.height - 1 < h => h = tick.height \/ tick.height < h
    BY <2>3 DEF Heights
  <2> QED BY <2>1, <2>3, <2>4, <2>5 DEF WalkInv
<1>3. CASE ~ConfirmReorg /\ ~WalkOn
  <2>1. tick' = tick /\ UNCHANGED <<cursor, blocks>>
    BY <1>3, IdleTickOK DEF Next, Follow, Network, Produce, Agree, Fail, Restart, Poll, Fetch,
       ClearLinked, Prepare, CommitBlock, ConfirmMismatch, RewindChain, Rewound,
       ApplySolidifiedHeight, vars, chainVars, ChainInv, ChainTypeOK, Tick
  <2> QED BY <2>1 DEF WalkInv
<1> QED BY <1>1, <1>2, <1>3

\* No walk passes an undisputed height: the row under it is not rewound.
LEMMA SafeIsKept ==
  ASSUME ChainInv, LedgerInv, RootedInv, WalkInv, RewindChain, NEW t \in Transfers,
         db.payments[t].confirmed \/ db.payments[t].status = "confirmed",
         Safe(db.payments[t], cursor)
  PROVE  db'.payments[t] = db.payments[t] /\ Safe(db'.payments[t], cursor')
<1> USE TreeAssumption
<1> DEFINE p == db.payments[t]
<1>1. /\ tick.height \in Heights /\ cursor' = tick.height
      /\ \/ db'.payments[t] = p
         \/ p.status # "none" /\ p.height > tick.height
  BY RewoundRow
<1>2. /\ Counts(p) /\ p.block \in Main
      /\ \E k \in Heights : p.height <= k /\ k <= cursor /\ ~Disputed(k)
  BY DEF Safe
<1>3. PICK k \in Heights : p.height <= k /\ k <= cursor /\ ~Disputed(k)
  BY <1>2
<1>4. p.height \in Heights
  BY <1>2 DEF RootedInv, Rooted, Counts
<1>5. tick.at = "walk"
  BY DEF RewindChain
<1> HIDE DEF p
<1>6. ~(tick.height < k)
  BY <1>3, <1>5 DEF WalkInv
<1>7. k <= tick.height /\ ~(p.height > tick.height)
  BY <1>1, <1>3, <1>4, <1>6 DEF Heights
<1> QED BY <1>1, <1>2, <1>3, <1>7 DEF Safe, p

\* What the solidity head confirms has Required blocks on top, on one branch.
LEMMA ConfirmedIsSafe ==
  ASSUME ConfirmationsSettle, ChainInv, LedgerInv, RootedInv, NEW t \in Transfers,
         db.payments[t].status \in {"seen", "unattributed"},
         cursor # NoCursor, cursor - db.payments[t].height >= Required
  PROVE  /\ db.payments[t].block \in Main
         /\ \E k \in Heights : db.payments[t].height <= k /\ k <= cursor /\ ~Disputed(k)
<1> USE TreeAssumption, DepthAssumption
<1> DEFINE p == db.payments[t]
<1>1. /\ p.block \in Blocks /\ p.height = BlockHeight[p.block] /\ Carries[p.block] = t
      /\ p.height <= cursor
      /\ \A h \in Heights : p.height <= h /\ blocks[h] # NoBlock
           => Line(p.block, blocks[h], h - p.height)
  BY DEF RootedInv, Rooted, Counts
<1>2. cursor \in Heights /\ blocks[cursor] # NoBlock
  BY DEF ChainInv, ChainTypeOK, StoredChainLinked
<1>3. cursor - p.height >= Required
  OBVIOUS
<1> HIDE DEF p
<1>4. Line(p.block, blocks[cursor], cursor - p.height)
  BY <1>1, <1>2
<1>5. PICK branch \in [0..(cursor - p.height) -> Blocks] :
        /\ branch[0] = p.block
        /\ \A k \in 1..(cursor - p.height) : Parent[branch[k]] = branch[k - 1]
  BY <1>4 DEF Line
<1> DEFINE low == [k \in 0..Required |-> branch[k]]
<1>6. /\ p.height \in Nat /\ cursor \in Nat /\ Required \in Nat /\ 0 \in 0..Required
      /\ \A k \in 0..Required : k \in 0..(cursor - p.height)
      /\ \A k \in 1..Required : k \in 0..Required /\ k - 1 \in 0..Required
                                /\ k \in 1..(cursor - p.height)
  BY <1>1, <1>2, <1>3 DEF Heights
<1>7. low \in [0..Required -> Blocks] /\ low[0] = p.block
  BY <1>5, <1>6
<1>8. \A k \in 1..Required : Parent[low[k]] = low[k - 1]
  BY <1>5, <1>6
<1> HIDE DEF low
<1>9. Carries[low[0]] # NoTransfer
  BY <1>1, <1>7
<1>10. p.block \in Main /\ \E k \in 0..Required : ~Disputed(p.height + k)
  BY <1>1, <1>7, <1>8, <1>9 DEF ConfirmationsSettle
<1>11. PICK k \in 0..Required : ~Disputed(p.height + k)
  BY <1>10
<1>12. p.height + k \in Heights /\ p.height <= p.height + k /\ p.height + k <= cursor
  BY <1>2, <1>3, <1>6 DEF Heights
<1> QED BY <1>10, <1>11, <1>12 DEF p

\* What is confirmed stays so in every step, and stays safe.
LEMMA SettledStep ==
  ASSUME ConfirmationsSettle, ChainInv, ChainInv', LedgerInv, RootedInv, WalkInv, SettledInv,
         [Next]_vars
  PROVE  /\ SettledInv'
         /\ \A t \in Transfers : IsSettled(db.payments[t]) => IsSettled(db'.payments[t])
<1> USE TreeAssumption
<1> SUFFICES ASSUME NEW t \in Transfers
             PROVE  /\ Safe(db'.payments[t], cursor')
                    /\ IsSettled(db.payments[t]) => IsSettled(db'.payments[t])
  BY DEF SettledInv
<1> DEFINE p == db.payments[t]
           q == db'.payments[t]
<1>1. Safe(p, cursor) /\ DOMAIN p = {"status", "order", "height", "block", "time", "confirmed"}
  BY DEF SettledInv, LedgerInv, LedgerOK, Columns
<1>2. CASE CommitBlock
  <2>1. /\ t # tick.found => q = p
        /\ t = tick.found => /\ ~Counts(p) /\ q.status \in {"seen", "unattributed"}
                             /\ q.confirmed => p.status # "none" /\ p.confirmed
    BY <1>2, CommittedRow, TreeAssumption
  <2>2. \A k \in Heights : k <= cursor => k <= cursor'
    BY <1>2, CommitPlace DEF Heights, NoCursor
  <2> HIDE DEF p, q
  <2>3. CASE t = tick.found
    <3>1. ~p.confirmed /\ p.status # "confirmed" /\ ~IsSettled(p)
      BY <1>1, <2>1, <2>3 DEF Safe, IsSettled
    <3> QED BY <2>1, <2>3, <3>1 DEF Safe, p, q
  <2>4. CASE t # tick.found
    BY <1>1, <2>1, <2>2, <2>4 DEF Safe, p, q
  <2> QED BY <2>3, <2>4
<1>3. CASE RewindChain
  <2>1. CASE p.confirmed \/ p.status = "confirmed"
    BY <1>1, <1>3, <2>1, SafeIsKept
  <2>2. CASE ~(p.confirmed \/ p.status = "confirmed")
    <3>1. q = p \/ (q = [p EXCEPT !.status = "orphaned"] /\ q.status = "orphaned")
      BY <1>3, RewoundRow
    <3> HIDE DEF p, q
    <3>2. ~(q.confirmed \/ q.status = "confirmed") /\ ~IsSettled(p)
      BY <1>1, <2>2, <3>1 DEF IsSettled
    <3> QED BY <3>2 DEF Safe, p, q
  <2> QED BY <2>1, <2>2
<1>4. CASE ApplySolidifiedHeight
  <2>1. /\ cursor' = cursor
        /\ \/ q = p
           \/ /\ p.status \in {"seen", "unattributed"}
              /\ cursor # NoCursor /\ cursor - p.height >= Required
              /\ q = [p EXCEPT !.status = IF @ = "seen" THEN "confirmed" ELSE @,
                               !.confirmed = TRUE]
    BY <1>4, JudgedRow
  <2>2. CASE q = p
    BY <1>1, <2>1, <2>2
  <2>3. CASE q # p
    <3>1. /\ p.block \in Main
          /\ \E k \in Heights : p.height <= k /\ k <= cursor /\ ~Disputed(k)
      BY <2>1, <2>3, ConfirmedIsSafe
    <3> HIDE DEF p, q
    <3>2. /\ q.block = p.block /\ q.height = p.height /\ Counts(q)
          /\ IsSettled(q)
      BY <1>1, <2>1, <2>3 DEF Counts, IsSettled
    <3> QED BY <2>1, <3>1, <3>2 DEF Safe, p, q
  <2> QED BY <2>2, <2>3
<1>5. CASE ~CommitBlock /\ ~RewindChain /\ ~ApplySolidifiedHeight
  <2>1. UNCHANGED <<db, cursor>>
    BY <1>5 DEF Next, Follow, Network, Produce, Agree, Fail, Restart, Poll, Fetch, ClearLinked,
       Prepare, ConfirmMismatch, ConfirmReorg, WalkOn, Rewound, vars, chainVars
  <2> QED BY <1>1, <2>1
<1> QED BY <1>2, <1>3, <1>4, <1>5

\* A walk in progress has passed disputed heights only.
LEMMA WalkInvariant == Spec => []WalkInv
<1>1. Init => WalkInv
  BY IdleTickOK DEF Init, WalkInv
<1> QED BY <1>1, WalkStep, ChainInvariant, PTL DEF Spec

\* What is confirmed is safe from the start on.
LEMMA SettledInvariant == ASSUME ConfirmationsSettle PROVE Spec => []SettledInv
<1>1. Init => SettledInv
  <2> SUFFICES ASSUME Init, NEW t \in Transfers PROVE Safe(db.payments[t], cursor)
    BY DEF SettledInv
  <2>1. db.payments[t] = NoPayment
    BY StartAssumption DEF Init
  <2> QED BY <2>1 DEF NoPayment, Safe
<1>2. ChainInv /\ ChainInv' /\ LedgerInv /\ RootedInv /\ WalkInv /\ SettledInv /\ [Next]_vars
        => SettledInv'
  BY SettledStep
<1> QED BY <1>1, <1>2, ChainInvariant, LedgerInvariant, PaymentsAreRooted, WalkInvariant, PTL
        DEF Spec

\* Money is confirmed only in a block that stays, whatever branch the follower is on and
\* whatever the solidity node answers, on every tree where tron.confirmations_required
\* blocks settle a payment (promotablePayments).
THEOREM ConfirmedInWhatStays == ASSUME ConfirmationsSettle PROVE Spec => []ConfirmedStays
<1>1. SettledInv => ConfirmedStays
  <2> SUFFICES ASSUME SettledInv, NEW t \in Transfers, IsSettled(db.payments[t])
               PROVE  db.payments[t].block \in Main
    BY DEF ConfirmedStays
  <2> QED BY DEF SettledInv, Safe, IsSettled
<1> QED BY <1>1, SettledInvariant, PTL

\* No rewind and no later solidity head takes back what was confirmed, on the same trees
\* (RewindChain, ApplySolidifiedHeight).
THEOREM ConfirmedIsForGood == ASSUME ConfirmationsSettle PROVE Spec => ConfirmedForGood
<1>1. ChainInv /\ ChainInv' /\ LedgerInv /\ RootedInv /\ WalkInv /\ SettledInv /\ [Next]_vars
        => [\A t \in Transfers : IsSettled(db.payments[t]) => IsSettled(db'.payments[t])]_vars
  BY SettledStep
<1> QED BY <1>1, ChainInvariant, LedgerInvariant, PaymentsAreRooted, WalkInvariant,
           SettledInvariant, PTL DEF Spec, ConfirmedForGood

-----------------------------------------------------------------------------
(* When ingestion stops.                                                     *)

\* The lowest block of a full table.
LowestKept == IF cursor > ReorgDepth THEN cursor - ReorgDepth ELSE 0

\* The follower halts for want of a full table only.
HaltInv == halted => tick.at = "idle" /\ blocks[LowestKept] = NoBlock

\* A walk through a full table ends at an undisputed height, before it is too deep.
LEMMA HaltStep ==
  ASSUME ForksAreShort, ChainInv, ChainInv', WalkInv, HaltInv, [Next]_vars
  PROVE  HaltInv'
<1> USE TreeAssumption, DepthAssumption
<1> SUFFICES ASSUME halted' PROVE tick'.at = "idle" /\ blocks'[LowestKept'] = NoBlock
  BY DEF HaltInv
<1>1. CASE WalkOn /\ halted' # halted
  <2> DEFINE low == tick.height
  <2>1. /\ tick' = IdleTick /\ UNCHANGED <<cursor, blocks>> /\ tick.at = "walk"
        /\ tick.block # blocks[low]
        /\ blocks[low] = NoBlock \/ cursor - low + 1 > ReorgDepth \/ low = 0
    BY <1>1 DEF WalkOn, Halt, chainVars
  <2>2. /\ low \in Heights /\ cursor \in Heights /\ low <= cursor
        /\ tick.block \in Blocks /\ BlockHeight[tick.block] = low
        /\ \A h \in Heights : low < h /\ h <= cursor => Disputed(h)
    BY <2>1 DEF ChainInv, ChainTypeOK, Tick, TickOK, WalkInv
  <2>3. blocks[low] # NoBlock => Disputed(low)
    BY <2>1, <2>2 DEF ChainInv, ChainTypeOK, StoredChainLinked, Disputed
  <2>4. ASSUME blocks[LowestKept] # NoBlock PROVE FALSE
    <3>1. LowestKept \in Heights /\ LowestKept <= cursor
      BY <2>2 DEF LowestKept, Heights
    <3>2. blocks[low] = NoBlock => low < LowestKept
      BY <2>2, <2>4, <3>1 DEF ChainInv, Unbroken, Heights
    <3>3. CASE blocks[low] # NoBlock /\ low = 0
      BY <2>3, <3>3 DEF ForksAreShort
    <3>4. CASE blocks[low] # NoBlock /\ low # 0
      <4>1. cursor - low + 1 > ReorgDepth
        BY <2>1, <3>4
      <4>2. /\ cursor - ReorgDepth \in Heights /\ low <= cursor - ReorgDepth
            /\ (cursor - ReorgDepth) + ReorgDepth <= MaxHeight
        BY <2>2, <3>4, <4>1 DEF Heights
      <4>3. PICK k \in 0..ReorgDepth : ~Disputed((cursor - ReorgDepth) + k)
        BY <4>2 DEF ForksAreShort
      <4>4. /\ (cursor - ReorgDepth) + k \in Heights /\ (cursor - ReorgDepth) + k <= cursor
            /\ low < (cursor - ReorgDepth) + k \/ low = (cursor - ReorgDepth) + k
        BY <2>2, <4>2 DEF Heights
      <4> QED BY <2>2, <2>3, <3>4, <4>3, <4>4
    <3>5. CASE blocks[low] = NoBlock
      <4>1. /\ low < cursor - ReorgDepth /\ cursor - ReorgDepth \in Heights
            /\ (cursor - ReorgDepth) + ReorgDepth <= MaxHeight
        BY <2>2, <3>2, <3>5 DEF LowestKept, Heights
      <4>2. PICK k \in 0..ReorgDepth : ~Disputed((cursor - ReorgDepth) + k)
        BY <4>1 DEF ForksAreShort
      <4>3. /\ (cursor - ReorgDepth) + k \in Heights /\ (cursor - ReorgDepth) + k <= cursor
            /\ low < (cursor - ReorgDepth) + k
        BY <2>2, <4>1 DEF Heights
      <4> QED BY <2>2, <4>2, <4>3
    <3> QED BY <3>3, <3>4, <3>5
  <2>5. LowestKept' = LowestKept
    BY <2>1 DEF LowestKept
  <2> QED BY <2>1, <2>4, <2>5, IdleTickOK
<1>2. CASE ~(WalkOn /\ halted' # halted)
  <2>1. halted /\ tick.at = "idle" /\ blocks[LowestKept] = NoBlock
    BY <1>2 DEF HaltInv, Next, Follow, Network, Produce, Agree, Fail, Restart, Poll, Fetch,
       ClearLinked, Prepare, CommitBlock, ConfirmMismatch, ConfirmReorg, WalkOn, RewindChain,
       Rewound, ApplySolidifiedHeight, vars, memoryVars, ChainInv, ChainTypeOK
  <2>2. UNCHANGED <<tick, cursor, blocks>>
    BY <1>2, <2>1 DEF Next, Follow, Network, Produce, Agree, Fail, Restart, Poll, Fetch,
       ClearLinked, Prepare, CommitBlock, ConfirmMismatch, ConfirmReorg, WalkOn, RewindChain,
       Rewound, ApplySolidifiedHeight, vars, chainVars
  <2> QED BY <2>1, <2>2 DEF LowestKept
<1> QED BY <1>1, <1>2

\* Where forks are shorter than tron.reorg_depth, a follower with a full table of blocks
\* never halts: there is nothing a rewind could not have recovered (CHN-015).
THEOREM HaltsWithoutTableOnly ==
  ASSUME ForksAreShort
  PROVE  Spec => [](HaltMeansLost /\ (halted => blocks[LowestKept] = NoBlock))
<1>1. Init => HaltInv
  BY DEF Init, HaltInv
<1>2. ChainInv /\ ChainInv' /\ WalkInv /\ HaltInv /\ [Next]_vars => HaltInv'
  BY HaltStep
<1>3. HaltInv => HaltMeansLost /\ (halted => blocks[LowestKept] = NoBlock)
  BY DEF HaltInv, HaltMeansLost, LowestKept
<1> QED BY <1>1, <1>2, <1>3, ChainInvariant, WalkInvariant, PTL DEF Spec

-----------------------------------------------------------------------------
(* What exists, and when it was made.                                        *)

\* The follower has only seen blocks that exist, and the clock has passed their times.
ProducedInv ==
  /\ \A h \in Heights : blocks[h] \in produced \cup {NoBlock}
  /\ tick.tip \in produced \cup {NoBlock} /\ tick.block \in produced \cup {NoBlock}
  /\ \A b \in produced : BlockHeight[b] = 0 \/ BlockTime[b] <= now
  /\ agreed => Main \subseteq produced

\* Only blocks that exist are answered with.
LEMMA AnswersExist ==
  ASSUME ChainInv, ProducedInv
  PROVE  Tips \subseteq produced /\ \A h : At(h) \subseteq produced
<1>1. MainTip \in Main
  BY TreeAssumption DEF MainTip
<1> QED BY <1>1 DEF Tips, At, ProducedInv

\* The clock never runs back, and no block goes away.
LEMMA ProducedStep ==
  ASSUME ChainInv, ChainInv', ProducedInv, [Next]_vars
  PROVE  ProducedInv' /\ now <= now'
<1> USE TreeAssumption
<1>0. now \in Nat /\ tick \in Tick /\ tick' \in Tick
  BY DEF ChainInv, ChainTypeOK
<1>1. CASE Produce
  <2>1. PICK b \in Blocks \ produced :
          /\ produced' = produced \cup {b}
          /\ now' = IF BlockTime[b] > now THEN BlockTime[b] ELSE now
    BY <1>1 DEF Produce
  <2>2. now <= now' /\ BlockTime[b] <= now' /\ now' \in Nat
    BY <1>0, <2>1
  <2>3. \A x \in produced : BlockTime[x] \in Nat
    BY DEF ChainInv, ChainTypeOK
  <2>4. \A x \in produced' : BlockHeight[x] = 0 \/ BlockTime[x] <= now'
    BY <1>0, <2>1, <2>2, <2>3 DEF ProducedInv
  <2>5. UNCHANGED <<blocks, tick>> /\ ~agreed'
    BY <1>1 DEF Produce, chainVars
  <2> QED BY <2>1, <2>2, <2>4, <2>5 DEF ProducedInv
<1>2. CASE Agree
  BY <1>0, <1>2 DEF Agree, ProducedInv, chainVars
<1>3. CASE ~Produce /\ ~Agree
  <2>1. UNCHANGED <<produced, agreed, now>>
    BY <1>3 DEF Next, Follow, Network, Fail, Restart, Poll, Fetch, ClearLinked, Prepare,
       CommitBlock, ConfirmMismatch, ConfirmReorg, WalkOn, RewindChain, Rewound,
       ApplySolidifiedHeight, vars, networkVars
  <2>2. \A h \in Heights : blocks'[h] \in produced \cup {NoBlock}
    <3>1. CASE CommitBlock
      BY <3>1 DEF CommitBlock, ProducedInv
    <3>2. CASE RewindChain
      BY <3>2 DEF RewindChain, ProducedInv
    <3>3. CASE ~CommitBlock /\ ~RewindChain
      <4>1. blocks' = blocks
        BY <1>3, <3>3 DEF Next, Follow, Network, Fail, Restart, Poll, Fetch, ClearLinked,
           Prepare, ConfirmMismatch, ConfirmReorg, WalkOn, Rewound, ApplySolidifiedHeight,
           vars, chainVars
      <4> QED BY <4>1 DEF ProducedInv
    <3> QED BY <3>1, <3>2, <3>3
  <2>3. /\ tick'.tip \in produced \cup {NoBlock}
        /\ tick'.block \in produced \cup {NoBlock}
    <3>1. IdleTick.tip = NoBlock /\ IdleTick.block = NoBlock
      BY DEF IdleTick
    <3>2. CASE Poll
      <4>1. PICK tip \in Tips :
              tick' = [IdleTick EXCEPT
                         !.at = IF cursor = NoCursor THEN "candidate" ELSE "fetch",
                         !.tip = tip, !.block = IF cursor = NoCursor THEN tip ELSE NoBlock]
        BY <3>2 DEF Poll
      <4>2. tick'.tip = tip /\ tick'.block \in {tip, NoBlock}
        BY <4>1 DEF IdleTick
      <4> QED BY <4>2, AnswersExist
    <3>3. CASE Fetch
      <4>1. CASE tick' = IdleTick
        BY <3>1, <4>1
      <4>2. CASE \E b \in {tick.tip} \cup At(NextHeight) :
                   tick' = [tick EXCEPT !.at = "candidate", !.block = b]
        <5>1. PICK b \in {tick.tip} \cup At(NextHeight) :
                tick' = [tick EXCEPT !.at = "candidate", !.block = b]
          BY <4>2
        <5>2. tick'.tip = tick.tip /\ tick'.block = b
          BY <1>0, <5>1 DEF Tick
        <5> QED BY <5>1, <5>2, AnswersExist DEF ProducedInv
      <4> QED BY <3>3, <4>1, <4>2 DEF Fetch
    <3>4. CASE ConfirmReorg
      <4>1. PICK r \in At(cursor) :
              tick' = [tick EXCEPT !.at = "walk", !.block = r, !.height = cursor]
        BY <3>4 DEF ConfirmReorg
      <4>2. tick'.tip = tick.tip /\ tick'.block = r
        BY <1>0, <4>1 DEF Tick
      <4> QED BY <4>2, AnswersExist DEF ProducedInv
    <3>5. CASE WalkOn
      <4>1. CASE tick' = IdleTick
        BY <3>1, <4>1
      <4>2. CASE \E r \in At(tick.height - 1) :
                   tick' = [tick EXCEPT !.block = r, !.height = @ - 1]
        <5>1. PICK r \in At(tick.height - 1) :
                tick' = [tick EXCEPT !.block = r, !.height = @ - 1]
          BY <4>2
        <5>2. tick'.tip = tick.tip /\ tick'.block = r
          BY <1>0, <5>1 DEF Tick
        <5> QED BY <5>2, AnswersExist DEF ProducedInv
      <4> QED BY <3>5, <4>1, <4>2 DEF WalkOn, Halt
    <3>6. CASE CommitBlock
      <4>1. tick'.block = NoBlock /\ tick'.tip \in {NoBlock, tick.tip}
        BY <3>6 DEF CommitBlock, IdleTick
      <4> QED BY <4>1 DEF ProducedInv
    <3>7. CASE ~Poll /\ ~Fetch /\ ~ConfirmReorg /\ ~WalkOn /\ ~CommitBlock
      <4>1. \/ tick' = IdleTick
            \/ tick'.tip = tick.tip /\ tick'.block \in {tick.block, NoBlock}
        BY <1>0, <1>3, <3>7 DEF Next, Follow, Network, Fail, Restart, ClearLinked, Prepare,
           ConfirmMismatch, RewindChain, Rewound, ApplySolidifiedHeight, vars, Tick
      <4> QED BY <3>1, <4>1 DEF ProducedInv
    <3> QED BY <3>2, <3>3, <3>4, <3>5, <3>6, <3>7
  <2> QED BY <1>0, <2>1, <2>2, <2>3 DEF ProducedInv
<1> QED BY <1>1, <1>2, <1>3

\* The follower has only seen blocks that exist.
LEMMA ProducedInvariant == Spec => []ProducedInv
<1>1. Init => ProducedInv
  BY IdleTickOK DEF Init, ProducedInv, IdleTick
<1>2. ChainInv /\ ChainInv' /\ ProducedInv /\ [Next]_vars => ProducedInv'
  BY ProducedStep
<1> QED BY <1>1, <1>2, ChainInvariant, PTL DEF Spec

\* Payments are older than the blocks above them, and confirmed ones than the clock.
TimedInv ==
  \A t \in Transfers :
    LET p == db.payments[t]
    IN /\ Counts(p) => \A h \in Heights : p.height < h /\ blocks[h] # NoBlock
                                            => p.time < BlockTime[blocks[h]]
       /\ p.status = "confirmed" => p.time < now

\* A row that counts is older than the block a commit puts above it.
LEMMA TimedCommit ==
  ASSUME TimesGrow, ChainInv, ChainInv', LedgerInv, RootedInv, TimedInv, ProducedInv,
         now \in Nat, now' = now, CommitBlock, NEW t \in Transfers
  PROVE  LET p == db'.payments[t]
         IN /\ Counts(p) => \A h \in Heights : p.height < h /\ blocks'[h] # NoBlock
                                                 => p.time < BlockTime[blocks'[h]]
            /\ p.status = "confirmed" => p.time < now'
<1> USE TreeAssumption
<1> DEFINE b == tick.block
           h == BlockHeight[b]
           p == db.payments[t]
           q == db'.payments[t]
<1>1. /\ b \in Blocks /\ h \in Heights /\ b # NoBlock /\ cursor' = h
      /\ cursor # NoCursor => /\ cursor \in Heights /\ h = cursor + 1
                              /\ Parent[b] = blocks[cursor] /\ blocks[cursor] # NoBlock
                              /\ blocks[cursor] \in Blocks
      /\ \A k \in Heights : blocks'[k] # NoBlock =>
           (k = h /\ blocks'[k] = b)
             \/ (k < h /\ blocks'[k] = blocks[k] /\ cursor # NoCursor /\ k <= cursor)
  BY CommitPlace
<1>2. /\ t # tick.found => q = p
      /\ t = tick.found => q.height = h /\ q.status \in {"seen", "unattributed"}
  BY CommittedRow, TreeAssumption
<1>3. /\ Rooted(p, t, blocks, cursor)
      /\ Counts(p) => \A k \in Heights : p.height < k /\ blocks[k] # NoBlock
                                           => p.time < BlockTime[blocks[k]]
      /\ p.status = "confirmed" => p.time < now
  BY DEF RootedInv, TimedInv
<1> HIDE DEF h, b, p, q
<1>4. CASE t = tick.found
  <2>1. \A k \in Heights : h < k => blocks'[k] = NoBlock
    BY <1>1 DEF Heights
  <2> QED BY <1>2, <1>4, <2>1 DEF q
<1>5. CASE t # tick.found
  <2>1. ASSUME Counts(p), NEW k \in Heights, p.height < k, blocks'[k] # NoBlock
        PROVE  p.time < BlockTime[blocks'[k]]
    <3>1. /\ p.block \in Blocks /\ p.height = BlockHeight[p.block] /\ p.time = BlockTime[p.block]
          /\ p.time \in Nat /\ p.height \in Heights /\ cursor # NoCursor /\ p.height <= cursor
          /\ \A j \in Heights : p.height <= j /\ blocks[j] # NoBlock
               => Line(p.block, blocks[j], j - p.height)
      BY <1>3, <2>1 DEF Rooted, Counts
    <3>2. CASE k # h
      BY <1>1, <1>3, <2>1, <3>2
    <3>3. CASE k = h
      <4>1. /\ BlockTime[blocks[cursor]] < BlockTime[b] /\ BlockTime[b] \in Nat
            /\ BlockTime[blocks[cursor]] \in Nat
        BY <1>1, <3>1 DEF TimesGrow
      <4>0. blocks'[k] = b
        BY <1>1, <2>1, <3>3 DEF Heights
      <4>2. CASE p.height = cursor
        <5>1. Line(p.block, blocks[cursor], 0)
          BY <1>1, <3>1, <4>2 DEF Heights
        <5>2. p.block = blocks[cursor]
          BY <5>1, LineOfNone
        <5> QED BY <3>1, <4>0, <4>1, <5>2
      <4>3. CASE p.height # cursor
        <5>1. p.height < cursor
          BY <1>1, <3>1, <4>3 DEF Heights
        <5>2. p.time < BlockTime[blocks[cursor]]
          BY <1>1, <1>3, <2>1, <3>1, <5>1
        <5> QED BY <3>1, <4>0, <4>1, <5>2
      <4> QED BY <4>2, <4>3
    <3> QED BY <3>2, <3>3
  <2> QED BY <1>2, <1>3, <1>5, <2>1 DEF q
<1> QED BY <1>4, <1>5

\* The solidity head confirms rows of the past only: a block is on top of them.
LEMMA TimedSolidified ==
  ASSUME TimesGrow, ChainInv, LedgerInv, RootedInv, TimedInv, ProducedInv,
         ApplySolidifiedHeight, NEW t \in Transfers
  PROVE  LET p == db'.payments[t]
         IN /\ Counts(p) => \A h \in Heights : p.height < h /\ blocks'[h] # NoBlock
                                                 => p.time < BlockTime[blocks'[h]]
            /\ p.status = "confirmed" => p.time < now'
<1> USE TreeAssumption, DepthAssumption
<1> DEFINE p == db.payments[t]
           q == db'.payments[t]
<1>1. /\ UNCHANGED <<blocks, cursor, now>>
      /\ \/ q = p
         \/ /\ p.status \in {"seen", "unattributed"}
            /\ cursor # NoCursor /\ cursor - p.height >= Required
            /\ q = [p EXCEPT !.status = IF @ = "seen" THEN "confirmed" ELSE @,
                             !.confirmed = TRUE]
  BY JudgedRow
<1>2. /\ Rooted(p, t, blocks, cursor)
      /\ Counts(p) => \A k \in Heights : p.height < k /\ blocks[k] # NoBlock
                                           => p.time < BlockTime[blocks[k]]
      /\ p.status = "confirmed" => p.time < now
      /\ DOMAIN p = {"status", "order", "height", "block", "time", "confirmed"}
  BY DEF RootedInv, TimedInv, LedgerInv, LedgerOK, Columns
<1> HIDE DEF p, q
<1>3. CASE q = p
  BY <1>1, <1>2, <1>3 DEF q
<1>4. CASE q # p
  <2>1. Counts(p) /\ q.height = p.height /\ q.time = p.time
    BY <1>1, <1>2, <1>4 DEF Counts
  <2>2. /\ p.block \in Blocks /\ p.height = BlockHeight[p.block] /\ p.time = BlockTime[p.block]
        /\ p.time \in Nat /\ p.height \in Nat
    BY <1>2, <2>1 DEF Rooted, Counts, Heights
  <2>3. /\ cursor \in Heights /\ blocks[cursor] # NoBlock /\ blocks[cursor] \in Blocks
        /\ BlockHeight[blocks[cursor]] = cursor
    BY <1>1, <1>4 DEF ChainInv, ChainTypeOK, StoredChainLinked
  <2>4. p.height < cursor /\ cursor # 0
    BY <1>1, <1>4, <2>2, <2>3 DEF Heights
  <2>5. BlockTime[blocks[cursor]] <= now /\ BlockTime[blocks[cursor]] \in Nat /\ now \in Nat
    BY <2>3, <2>4 DEF ProducedInv, ChainInv, ChainTypeOK
  <2>6. p.time < BlockTime[blocks[cursor]]
    BY <1>2, <2>1, <2>3, <2>4
  <2>7. p.time < now
    BY <2>2, <2>5, <2>6
  <2> QED BY <1>1, <1>2, <2>1, <2>7 DEF q
<1> QED BY <1>3, <1>4

\* The order in time of payments, blocks and the clock is inductive.
LEMMA TimedStep ==
  ASSUME TimesGrow, ChainInv, ChainInv', LedgerInv, RootedInv, TimedInv, ProducedInv,
         [Next]_vars
  PROVE  TimedInv'
<1> USE TreeAssumption
<1>0. now \in Nat /\ now' \in Nat /\ now <= now'
  BY ProducedStep DEF ChainInv, ChainTypeOK
<1>1. CASE CommitBlock
  <2>1. now' = now
    BY <1>1 DEF CommitBlock, networkVars
  <2> QED BY <1>0, <1>1, <2>1, TimedCommit DEF TimedInv
<1>2. CASE ApplySolidifiedHeight
  BY <1>2, TimedSolidified DEF TimedInv
<1>3. CASE RewindChain
  <2> SUFFICES ASSUME NEW t \in Transfers
               PROVE  LET q == db'.payments[t]
                      IN /\ Counts(q) => \A h \in Heights : q.height < h /\ blocks'[h] # NoBlock
                                                              => q.time < BlockTime[blocks'[h]]
                         /\ q.status = "confirmed" => q.time < now'
    BY DEF TimedInv
  <2>1. /\ \A h \in Heights : blocks'[h] # NoBlock => blocks'[h] = blocks[h]
        /\ db'.payments[t] = db.payments[t] \/ db'.payments[t].status = "orphaned"
    BY <1>3, RewoundRow
  <2>2. now' = now
    BY <1>3 DEF RewindChain, networkVars
  <2> QED BY <2>1, <2>2 DEF TimedInv, Counts
<1>4. CASE ~CommitBlock /\ ~RewindChain /\ ~ApplySolidifiedHeight
  <2>1. UNCHANGED <<db, blocks>>
    BY <1>4 DEF Next, Follow, Network, Produce, Agree, Fail, Restart, Poll, Fetch, ClearLinked,
       Prepare, ConfirmMismatch, ConfirmReorg, WalkOn, Rewound, vars, chainVars
  <2> SUFFICES ASSUME NEW t \in Transfers, db.payments[t].status = "confirmed"
               PROVE  db.payments[t].time < now'
    BY <2>1 DEF TimedInv
  <2>2. db.payments[t].time \in Nat
    BY DEF RootedInv, Rooted
  <2> QED BY <1>0, <2>2 DEF TimedInv
<1> QED BY <1>1, <1>2, <1>3, <1>4

\* No payment is from the future, on a chain whose times grow.
LEMMA TimedInvariant == ASSUME TimesGrow PROVE Spec => []TimedInv
<1>1. Init => TimedInv
  <2> SUFFICES ASSUME Init, NEW t \in Transfers PROVE db.payments[t].status = "none"
    BY DEF TimedInv, Counts
  <2> QED BY StartAssumption DEF Init, NoPayment
<1>2. ChainInv /\ ChainInv' /\ LedgerInv /\ RootedInv /\ ProducedInv /\ TimedInv /\ [Next]_vars
        => TimedInv'
  BY TimedStep
<1> QED BY <1>1, <1>2, ChainInvariant, LedgerInvariant, PaymentsAreRooted, ProducedInvariant,
           PTL DEF Spec

-----------------------------------------------------------------------------
(* What an order is worth.                                                   *)

WorthInv == Bound(db) /\ \A o \in Orders : Worth(db, o)

\* The orders the follower starts with have no payment.
LEMMA WorthInit == ASSUME OrdersStart PROVE Init => WorthInv
<1> SUFFICES ASSUME Init PROVE WorthInv
  OBVIOUS
<1>1. db = StartDb /\ \A t \in Transfers : StartDb.payments[t] = NoPayment
  BY StartAssumption DEF Init
<1>2. \A o \in Orders : StartDb.orders[o].address \in Addresses
  <2>1. \A o \in Orders : StartDb.orders[o] \in OrderRow
    BY StartAssumption
  <2> QED BY <2>1 DEF OrderRow
<1>3. Bound(db)
  BY <1>1, <1>2, StartAssumption DEF Bound, NoPayment, OrdersStart
<1>4. \A o \in Orders : Worth(db, o)
  BY <1>1 DEF Worth, OrdersStart
<1> QED BY <1>3, <1>4 DEF WorthInv

\* A payment's order is that of its address, and stays it.
LEMMA BoundMoves ==
  ASSUME NEW d, NEW e, Bound(d), NoOrder \notin Orders,
         \A o \in Orders : Terms(d.orders[o], e.orders[o]),
         \A a \in Addresses : AddressMoves(d.addresses[a], e.addresses[a]),
         \A t \in Transfers : /\ Account(t) \in Addresses
                              /\ e.payments[t].status = "none" => d.payments[t].status = "none"
                                                                  /\ e.payments[t].order = NoOrder
                              /\ e.payments[t].order \in
                                   {NoOrder, d.payments[t].order, d.addresses[Account(t)].order}
  PROVE  Bound(e)
<1>1. \A a \in Addresses :
        /\ e.addresses[a].order = d.addresses[a].order
        /\ e.addresses[a].state = "assigned" => e.addresses[a] = d.addresses[a]
  BY DEF AddressMoves
<1>2. ASSUME NEW t \in Transfers, e.payments[t].order \in Orders
      PROVE  e.addresses[Account(t)].order = e.payments[t].order
  BY <1>1, <1>2 DEF Bound
<1>3. ASSUME NEW a \in Addresses
      PROVE  /\ e.addresses[a].state = "assigned" => e.addresses[a].released = Never
             /\ e.addresses[a].order \in Orders
                  => e.orders[e.addresses[a].order].address = a
  BY <1>1 DEF Bound, Terms
<1>4. \A o \in Orders : e.orders[o].address \in Addresses
  BY DEF Bound, Terms
<1> QED BY <1>2, <1>3, <1>4 DEF Bound

\* Every transaction leaves the orders worth their payments.
LEMMA WorthStep ==
  ASSUME TimesGrow, ChainInv, ChainInv', LedgerInv, RootedInv, ProducedInv, TimedInv, TimedInv',
         WorthInv, [Next]_vars
  PROVE  WorthInv'
<1> USE TreeAssumption
<1>0. /\ Bound(db) /\ \A o \in Orders : Worth(db, o)
      /\ LedgerOK(db) /\ Columns(db) /\ NoOrder \notin Orders
      /\ \A t \in Transfers : Account(t) \in Addresses
      /\ \A t \in Transfers : db.payments[t].order \in Orders \cup {NoOrder}
      /\ \A a \in Addresses : db.addresses[a].order \in Orders \cup {NoOrder}
      /\ \A t \in Transfers : db.payments[t].status = "none" => db.payments[t].order = NoOrder
  BY AccountIsOurs, StartAssumption DEF WorthInv, LedgerInv, LedgerOK, Bound
<1>1. CASE CommitBlock
  <2>1. CASE tick.found = NoTransfer
    BY <1>0, <1>1, <2>1 DEF CommitBlock, WorthInv
  <2>2. CASE tick.found # NoTransfer
    <3> DEFINE t == tick.found
               s == Sighting(BlockHeight[tick.block], tick.block, BlockTime[tick.block])
    <3>1. t \in Transfers /\ db' = Match(db, t, s)
      BY <1>1, <2>2, CommitPlace DEF CommitBlock
    <3> HIDE DEF t, s
    <3>2. \A o \in Orders : Worth(db', o) /\ Terms(db.orders[o], db'.orders[o])
      BY <1>0, <3>1, MatchWorth
    <3>3. /\ db'.addresses = db.addresses
          /\ \A u \in Transfers \ {t} : db'.payments[u] = db.payments[u]
          /\ Counts(db'.payments[t])
      BY <1>0, <3>1, MatchPlaces
    <3>4. db'.payments[t].order \in {NoOrder, db.payments[t].order, db.addresses[Account(t)].order}
      BY <1>0, <3>1, MatchedRow
    <3>5. Bound(db')
      <4>1. \A a \in Addresses : AddressMoves(db.addresses[a], db'.addresses[a])
        BY <3>3 DEF AddressMoves
      <4>2. ASSUME NEW u \in Transfers
            PROVE  /\ Account(u) \in Addresses
                   /\ db'.payments[u].status = "none" => db.payments[u].status = "none"
                                                        /\ db'.payments[u].order = NoOrder
                   /\ db'.payments[u].order \in
                        {NoOrder, db.payments[u].order, db.addresses[Account(u)].order}
        BY <1>0, <3>3, <3>4 DEF Counts
      <4> QED BY <1>0, <3>2, <4>1, <4>2, BoundMoves
    <3> QED BY <3>2, <3>5 DEF WorthInv
  <2> QED BY <2>1, <2>2
<1>2. CASE RewindChain
  <2>1. db' = RewindLedger(db, tick.height)
    BY <1>2 DEF RewindChain
  <2>2. \A o \in Orders : Worth(db', o) /\ Terms(db.orders[o], db'.orders[o])
    BY <1>0, <2>1, RewindLedgerWorth
  <2>3. \A a \in Addresses : AddressMoves(db.addresses[a], db'.addresses[a])
    BY <1>0, <2>1, RewindLedgerEffect DEF AddressMoves
  <2>4. ASSUME NEW t \in Transfers
        PROVE  /\ Account(t) \in Addresses
               /\ db'.payments[t].status = "none" => db.payments[t].status = "none"
                                                    /\ db'.payments[t].order = NoOrder
               /\ db'.payments[t].order \in
                    {NoOrder, db.payments[t].order, db.addresses[Account(t)].order}
    <3>1. \/ db'.payments[t] = db.payments[t]
          \/ /\ db'.payments[t] = [db.payments[t] EXCEPT !.status = "orphaned"]
             /\ db'.payments[t].status = "orphaned"
      BY <1>2, RewoundRow
    <3>2. DOMAIN db.payments[t] = {"status", "order", "height", "block", "time", "confirmed"}
      BY <1>0 DEF Columns
    <3> QED BY <1>0, <3>1, <3>2
  <2>5. Bound(db')
    BY <1>0, <2>2, <2>3, <2>4, BoundMoves
  <2> QED BY <2>2, <2>5 DEF WorthInv
<1>3. CASE ApplySolidifiedHeight
  <2>1. PICK c : db' = ApplySolidifiedLedger(db, c, now)
    BY <1>3 DEF ApplySolidifiedHeight
  <2>2. now' = now
    BY <1>3 DEF ApplySolidifiedHeight, networkVars
  <2>3. \A t \in Transfers : Counts(db.payments[t]) => db.payments[t].time < Never
    BY DEF RootedInv, Rooted, Counts, TimesGrow
  <2>4. \A t \in Transfers : db'.payments[t].status = "confirmed" => db'.payments[t].time < now
    BY <2>2 DEF TimedInv
  <2>5. \A o \in Orders : Worth(db', o) /\ Terms(db.orders[o], db'.orders[o])
    BY <1>0, <2>1, <2>3, <2>4, ApplySolidifiedLedgerWorth
  <2>6. ASSUME NEW t \in Transfers
        PROVE  /\ Account(t) \in Addresses
               /\ db'.payments[t].status = "none" => db.payments[t].status = "none"
                                                    /\ db'.payments[t].order = NoOrder
               /\ db'.payments[t].order \in
                    {NoOrder, db.payments[t].order, db.addresses[Account(t)].order}
    <3>1. \/ db'.payments[t] = db.payments[t]
          \/ /\ db.payments[t].status \in {"seen", "unattributed"}
             /\ db'.payments[t] = [db.payments[t] EXCEPT
                                     !.status = IF @ = "seen" THEN "confirmed" ELSE @,
                                     !.confirmed = TRUE]
      BY <1>3, JudgedRow
    <3>2. DOMAIN db.payments[t] = {"status", "order", "height", "block", "time", "confirmed"}
      BY <1>0 DEF Columns
    <3> QED BY <1>0, <3>1, <3>2
  <2>7. \A a \in Addresses : AddressMoves(db.addresses[a], db'.addresses[a])
    BY <1>0, <2>1, ApplySolidifiedLedgerEffect
  <2>8. Bound(db')
    BY <1>0, <2>5, <2>6, <2>7, BoundMoves
  <2> QED BY <2>5, <2>8 DEF WorthInv
<1>4. CASE ~CommitBlock /\ ~RewindChain /\ ~ApplySolidifiedHeight
  <2>1. db' = db
    BY <1>4 DEF Next, Follow, Network, Produce, Agree, Fail, Restart, Poll, Fetch, ClearLinked,
       Prepare, ConfirmMismatch, ConfirmReorg, WalkOn, Rewound, vars
  <2> QED BY <1>0, <2>1 DEF WorthInv
<1> QED BY <1>1, <1>2, <1>3, <1>4

\* The orders are always worth their payments.
LEMMA WorthInvariant == ASSUME TimesGrow, OrdersStart PROVE Spec => []WorthInv
<1>1. Init => WorthInv
  BY WorthInit
<1>2. ChainInv /\ ChainInv' /\ LedgerInv /\ RootedInv /\ ProducedInv /\ TimedInv /\ TimedInv'
        /\ WorthInv /\ [Next]_vars => WorthInv'
  BY WorthStep
<1> QED BY <1>1, <1>2, ChainInvariant, LedgerInvariant, PaymentsAreRooted, ProducedInvariant,
           TimedInvariant, PTL DEF Spec

\* A live order is worth what its payments add up to, also after a reorg took some away and
\* another block brought them back, and also when promotion ends the window of its address
\* (RecalculateOrder, promotePaidOrders): whatever payments are too small to be looked at.
THEOREM ReceivedIsCurrent ==
  ASSUME TimesGrow, OrdersStart
  PROVE  Spec => [](\A o \in Orders : db.orders[o].status \in Live
                      => db.orders[o].received = Received(db, o))
<1>1. WorthInv => \A o \in Orders : db.orders[o].status \in Live
                    => db.orders[o].received = Received(db, o)
  BY DEF WorthInv, Worth
<1> QED BY <1>1, WorthInvariant, PTL

\* Without payments too small to be looked at, also its status tells whether it is paid.
THEOREM OrdersStayCurrent ==
  ASSUME TimesGrow, OrdersStart, Dust = {}
  PROVE  Spec => []OrdersCurrent
<1>1. WorthInv => OrdersCurrent
  <2> SUFFICES ASSUME WorthInv, NEW o \in Orders, db.orders[o].status \in Live
               PROVE  /\ db.orders[o].received = Received(db, o)
                      /\ db.orders[o].status \in {"paid", "confirmed"}
                           <=> Received(db, o) >= db.orders[o].expected
    BY DEF OrdersCurrent
  <2> QED BY DEF WorthInv, Worth
<1> QED BY <1>1, WorthInvariant, PTL
=============================================================================
