------------------------------ MODULE Follower ------------------------------
(***************************************************************************)
(* The chain follower (internal/follower/follower.go), the block decoder   *)
(* it prepares blocks with (internal/decode/decode.go) and the             *)
(* confirmation tracker (internal/confirm/worker.go), over the tables      *)
(* crawler_state and blocks and the ledger.                                *)
(*                                                                         *)
(* The follower is one goroutine: each RPC and each store transaction of   *)
(* its tick is a step.  The chain is a tree of blocks, of which Main is    *)
(* what every node agrees on in the end; until then a request may be       *)
(* answered by a node on any branch, behind or ahead, or not at all.       *)
(***************************************************************************)
EXTENDS Ledger

CONSTANTS
  Carries,      \* the transfer a block carries, or NoTransfer
  NoTransfer,
  Main,         \* the blocks that stay
  MaxHeight,    \* bound on heights
  ReorgDepth,   \* tron.reorg_depth
  ReceiptsLag,  \* a node may answer for the receipts of a block it has not seen
  StartDb       \* the database the follower starts with

Heights == 0..MaxHeight
NoCursor == -1
NoSuspicion == [height |-> NoCursor, block |-> NoBlock]

ASSUME TreeAssumption ==
  /\ MaxHeight \in Nat /\ Never \in Nat /\ MaxHeight < Never
  /\ BlockHeight \in [Blocks -> Heights]
  /\ NoBlock \notin Blocks /\ NoTransfer \notin Transfers
  /\ Main \subseteq Blocks
  /\ Carries \in [Blocks -> Transfers \cup {NoTransfer}]
  /\ BlockTime \in [Blocks -> Nat]
  \* What stays was built on what stays, and has a tip.
  /\ \A b \in Main : Parent[b] \in Blocks => Parent[b] \in Main
  /\ \E b \in Main : \A c \in Main : BlockHeight[c] <= BlockHeight[b]
ASSUME DepthAssumption == ReorgDepth \in Nat \ {0} /\ Required \in Nat \ {0}
ASSUME TransferAssumption == \A t \in Transfers : Holders(t) # {}
\* No branch carries a transfer twice.
ASSUME CarriedOnce ==
  \A n \in 1..MaxHeight : \A branch \in [0..n -> Blocks] :
    /\ \A k \in 1..n : Parent[branch[k]] = branch[k - 1]
    /\ Carries[branch[0]] # NoTransfer
    => Carries[branch[n]] # Carries[branch[0]]

\* It starts with orders and addresses, no payment, and no balance.
OrderRow == [status : Live \cup Terminal \cup {"none"}, address : Addresses, asset : Assets,
             expected : Nat, received : Nat, created : Nat, expires : Nat,
             resolved : BOOLEAN, told : {"none"}]
AddressRow == [state : {"none", "free", "assigned", "cooling", "disabled"},
               order : Orders \cup {NoOrder}, released : Nat, until : Nat]
ASSUME StartAssumption ==
  /\ NoOrder \notin Orders
  /\ StartDb \in [payments : [Transfers -> {NoPayment}], orders : [Orders -> OrderRow],
                  addresses : [Addresses -> AddressRow],
                  balances : [Addresses -> [Assets -> [confirmed : {0}, pending : {0}]]]]
  /\ Balanced(StartDb)

VARIABLES
  db,         \* payments, orders, addresses, balances
  blocks,     \* the retained blocks, by height
  cursor,     \* crawler_state.last_height
  solid,      \* crawler_state.solidified_height
  suspected,  \* crawler_state.reorg_suspected_from
  suspicion,  \* the divergence the follower saw last
  known,      \* the follower knows that suspected is not left from a former run
  halted,
  tick,       \* what the follower is doing
  produced,   \* the blocks that exist
  agreed,     \* every node is on Main and answers
  now         \* the clock

chainVars == <<blocks, cursor, solid, suspected>>
memoryVars == <<suspicion, known, halted>>
networkVars == <<produced, agreed, now>>
vars == <<db, chainVars, memoryVars, tick, networkVars>>

Tick == [at : {"idle", "fetch", "candidate", "prepared", "walk", "rewound"},
         tip : Blocks \cup {NoBlock}, block : Blocks \cup {NoBlock},
         height : Heights, found : Transfers \cup {NoTransfer}]
IdleTick == [at |-> "idle", tip |-> NoBlock, block |-> NoBlock, height |-> 0,
             found |-> NoTransfer]

ChainTypeOK ==
  /\ blocks \in [Heights -> Blocks \cup {NoBlock}]
  /\ cursor \in Heights \cup {NoCursor}
  /\ solid \in Heights
  /\ suspected \in Heights \cup {Never}
  /\ suspicion = NoSuspicion \/ suspicion \in [height : Heights, block : Blocks]
  /\ known \in BOOLEAN /\ halted \in BOOLEAN
  /\ tick \in Tick
  /\ produced \subseteq Blocks /\ agreed \in BOOLEAN
  /\ now \in Nat

Init ==
  /\ db = StartDb
  /\ blocks = [h \in Heights |-> NoBlock]
  /\ cursor = NoCursor /\ solid = 0 /\ suspected = Never
  /\ suspicion = NoSuspicion /\ known = FALSE /\ halted = FALSE
  /\ tick = IdleTick
  /\ produced = {b \in Main : BlockHeight[b] = 0} /\ agreed = FALSE
  /\ now = 0

-----------------------------------------------------------------------------
(* The network.                                                             *)

Produce ==
  /\ ~agreed
  /\ \E b \in Blocks \ produced :
       /\ Parent[b] \in produced
       /\ produced' = produced \cup {b}
       /\ now' = IF BlockTime[b] > now THEN BlockTime[b] ELSE now
  /\ UNCHANGED <<db, chainVars, memoryVars, tick, agreed>>

\* No branch grows any more, every node has caught up and the process stays up.
Agree ==
  /\ ~agreed /\ Main \subseteq produced
  /\ agreed' = TRUE
  /\ UNCHANGED <<db, chainVars, memoryVars, tick, produced, now>>

MainTip == CHOOSE b \in Main : \A c \in Main : BlockHeight[c] <= BlockHeight[b]

\* Answers to getnowblock, to getblockbynum(h), and to the solidity head.
Tips == IF agreed THEN {MainTip} ELSE produced
At(h) == {b \in produced : BlockHeight[b] = h /\ (agreed => b \in Main)}
SolidHeads == IF agreed THEN {BlockHeight[MainTip]}
              ELSE {BlockHeight[b] : b \in produced \cap Main}

\* A request that fails, or a transaction, ends the tick.
Fail ==
  /\ ~agreed /\ tick.at # "idle"
  /\ tick' = IdleTick
  /\ UNCHANGED <<db, chainVars, memoryVars, networkVars>>

\* Only what is in the database outlives the process.
Restart ==
  /\ ~agreed
  /\ suspicion' = NoSuspicion /\ known' = FALSE /\ halted' = FALSE
  /\ tick' = IdleTick
  /\ UNCHANGED <<db, chainVars, networkVars>>

-----------------------------------------------------------------------------
(* The follower's tick.                                                     *)

NextHeight == cursor + 1
Linked == IF cursor = NoCursor THEN TRUE ELSE Parent[tick.block] = blocks[cursor]

\* A tip at or below the cursor is a stale or a repeated read, and changes nothing.
Poll ==
  /\ ~halted /\ tick.at = "idle"
  /\ \E tip \in Tips :
       /\ BlockHeight[tip] > cursor
       /\ tick' = [IdleTick EXCEPT !.at = IF cursor = NoCursor THEN "candidate" ELSE "fetch",
                                   !.tip = tip,
                                   !.block = IF cursor = NoCursor THEN tip ELSE NoBlock]
  /\ UNCHANGED <<db, chainVars, memoryVars, networkVars>>

\* The next block is the tip itself, or is asked for by its number.
Fetch ==
  /\ tick.at = "fetch"
  /\ IF cursor >= BlockHeight[tick.tip]
       THEN tick' = IdleTick
       ELSE \E b \in IF NextHeight = BlockHeight[tick.tip] THEN {tick.tip} ELSE At(NextHeight) :
              tick' = [tick EXCEPT !.at = "candidate", !.block = b]
  /\ UNCHANGED <<db, chainVars, memoryVars, networkVars>>

\* Mutant: zero for NULL.
ClearReorgSuspicionToZero ==
  /\ suspected' = NoCursor
  /\ suspicion' = NoSuspicion /\ known' = TRUE

ClearReorgSuspicion ==
  /\ suspected' = Never
  /\ suspicion' = NoSuspicion /\ known' = TRUE

\* Mutant: only what the follower itself suspects is cleared.
ClearLinkedOwn ==
  /\ tick.at = "candidate" /\ cursor # NoCursor /\ Linked
  /\ ~known \/ suspicion # NoSuspicion
  /\ suspected' = IF suspicion = NoSuspicion THEN suspected ELSE Never
  /\ suspicion' = NoSuspicion /\ known' = TRUE
  /\ UNCHANGED <<db, blocks, cursor, solid, halted, tick, networkVars>>

\* A block that links refutes any suspicion, also one left by a former run.
ClearLinked ==
  /\ tick.at = "candidate" /\ cursor # NoCursor /\ Linked
  /\ ~known \/ suspicion # NoSuspicion
  /\ ClearReorgSuspicion
  /\ UNCHANGED <<db, blocks, cursor, solid, halted, tick, networkVars>>

\* The addresses of the service that the block's transfer touches, and its receipt.
Owned == {a \in Addresses : db.addresses[a].state # "none"}
Decoded(b) ==
  IF Carries[b] # NoTransfer /\ Holders(Carries[b]) \cap Owned # {}
    THEN {Carries[b]} \cup (IF ReceiptsLag THEN {NoTransfer} ELSE {})
    ELSE {NoTransfer}

\* Everything a commit needs is read before its transaction opens.
Prepare ==
  /\ tick.at = "candidate" /\ Linked
  /\ cursor = NoCursor \/ (known /\ suspicion = NoSuspicion)
  /\ \E t \in Decoded(tick.block) : tick' = [tick EXCEPT !.at = "prepared", !.found = t]
  /\ UNCHANGED <<db, chainVars, memoryVars, networkVars>>

\* One transaction: the block, its payments, the cursor, and what need not be kept.
CommitBlock ==
  /\ tick.at = "prepared"
  /\ LET b == tick.block
         h == BlockHeight[b]
     IN /\ cursor = NoCursor \/ h = NextHeight
        /\ blocks' = [k \in Heights |-> IF k = h THEN b
                                        ELSE IF k < h - ReorgDepth THEN NoBlock ELSE blocks[k]]
        /\ db' = IF tick.found = NoTransfer THEN db
                 ELSE Match(db, tick.found, Sighting(h, b, BlockTime[b]))
        /\ cursor' = h
        /\ tick' = IF cursor = NoCursor THEN IdleTick
                   ELSE [IdleTick EXCEPT !.at = "fetch", !.tip = tick.tip]
  /\ UNCHANGED <<solid, suspected, memoryVars, networkVars>>

\* The parent does not match: block N-1 is asked for again.
ConfirmMismatch ==
  /\ tick.at = "candidate" /\ ~Linked
  /\ \E r \in At(cursor) :
       \/ /\ r = blocks[cursor]
          /\ ClearReorgSuspicion
          /\ tick' = IdleTick
       \/ /\ r # blocks[cursor]
          /\ suspicion # [height |-> cursor, block |-> r]
          /\ suspected' = IF suspected < cursor THEN suspected ELSE cursor
          /\ suspicion' = [height |-> cursor, block |-> r] /\ known' = TRUE
          /\ tick' = IdleTick
       \* Seen before, but less than a poll interval ago.
       \/ /\ r # blocks[cursor]
          /\ suspicion = [height |-> cursor, block |-> r]
          /\ tick' = IdleTick
          /\ UNCHANGED <<suspected, suspicion, known>>
  /\ UNCHANGED <<db, blocks, cursor, solid, halted, networkVars>>

\* The same divergence again, a poll interval later, is a reorg.
ConfirmReorg ==
  /\ tick.at = "candidate" /\ ~Linked
  /\ \E r \in At(cursor) :
       /\ r # blocks[cursor]
       /\ suspicion = [height |-> cursor, block |-> r]
       /\ tick' = [tick EXCEPT !.at = "walk", !.block = r, !.height = cursor]
  /\ UNCHANGED <<db, chainVars, memoryVars, networkVars>>

Halt == halted' = TRUE /\ tick' = IdleTick

\* Mutant: one block too early.
WalkOnShort ==
  /\ tick.at = "walk"
  /\ tick.block # blocks[tick.height]
  /\ IF blocks[tick.height] = NoBlock \/ cursor - tick.height + 1 >= ReorgDepth \/ tick.height = 0
       THEN Halt
       ELSE /\ \E r \in At(tick.height - 1) : tick' = [tick EXCEPT !.block = r, !.height = @ - 1]
            /\ UNCHANGED halted
  /\ UNCHANGED <<db, chainVars, suspicion, known, networkVars>>

\* The walk to the common ancestor, block by block.
WalkOn ==
  /\ tick.at = "walk"
  /\ tick.block # blocks[tick.height]
  /\ LET depth == cursor - tick.height + 1
     IN IF blocks[tick.height] = NoBlock \/ depth > ReorgDepth \/ tick.height = 0
          THEN Halt
          ELSE /\ \E r \in At(tick.height - 1) :
                    tick' = [tick EXCEPT !.block = r, !.height = @ - 1]
               /\ UNCHANGED halted
  /\ UNCHANGED <<db, chainVars, suspicion, known, networkVars>>

\* Mutant: the orphaned blocks stay in the table.
RewindChainKept ==
  /\ tick.at = "walk"
  /\ tick.block = blocks[tick.height] /\ tick.height < cursor
  /\ db' = RewindLedger(db, tick.height)
  /\ cursor' = tick.height
  /\ tick' = [tick EXCEPT !.at = "rewound", !.block = NoBlock]
  /\ UNCHANGED <<blocks, solid, suspected, memoryVars, networkVars>>

RewindChain ==
  /\ tick.at = "walk"
  /\ tick.block = blocks[tick.height] /\ tick.height < cursor
  /\ db' = RewindLedger(db, tick.height)
  /\ blocks' = [h \in Heights |-> IF h > tick.height THEN NoBlock ELSE blocks[h]]
  /\ cursor' = tick.height
  /\ tick' = [tick EXCEPT !.at = "rewound", !.block = NoBlock]
  /\ UNCHANGED <<solid, suspected, memoryVars, networkVars>>

\* The suspicion is cleared in a transaction of its own; the tick goes on.
Rewound ==
  /\ tick.at = "rewound"
  /\ ClearReorgSuspicion
  /\ tick' = [tick EXCEPT !.at = "fetch", !.height = 0]
  /\ UNCHANGED <<db, blocks, cursor, solid, halted, networkVars>>

-----------------------------------------------------------------------------
(* The confirmation tracker's tick.                                         *)

ApplySolidifiedHeight ==
  /\ cursor # NoCursor
  /\ \E head \in SolidHeads :
       LET height == IF head > solid THEN head ELSE solid
       IN /\ solid' = height
          /\ db' = ApplySolidifiedLedger(db, [blocks |-> blocks, last |-> cursor, solid |-> height,
                                              suspected |-> suspected], now)
  /\ UNCHANGED <<blocks, cursor, suspected, memoryVars, tick, networkVars>>

-----------------------------------------------------------------------------
Follow ==
  \/ Poll \/ Fetch \/ ClearLinked \/ Prepare \/ CommitBlock
  \/ ConfirmMismatch \/ ConfirmReorg \/ WalkOn \/ RewindChain \/ Rewound
Network == Produce \/ Agree \/ Fail \/ Restart
Next == Follow \/ ApplySolidifiedHeight \/ Network

Spec == Init /\ [][Next]_vars

\* Both workers tick on a timer.  The clock runs on, so that a divergence seen again and again is not always seen too soon.
FairSpec ==
  /\ Spec
  /\ WF_vars(Follow) /\ SF_vars(ConfirmReorg) /\ WF_vars(ApplySolidifiedHeight)

-----------------------------------------------------------------------------
(* What the proofs ask of the chain; the safety run's instance satisfies it. *)

\* Every address of the service is derived, and no node answers for the receipts of a
\* block it has not seen.
Certain == ~ReceiptsLag /\ \A a \in Addresses : StartDb.addresses[a].state # "none"

\* Two blocks compete for a height.
Disputed(h) == \E b, c \in Blocks : b # c /\ BlockHeight[b] = h /\ BlockHeight[c] = h

\* Required blocks on top of a payment settle it: its block stays, and one of these heights
\* never had a second block for a walk to pass.
ConfirmationsSettle ==
  \A branch \in [0..Required -> Blocks] :
    /\ Carries[branch[0]] # NoTransfer
    /\ \A k \in 1..Required : Parent[branch[k]] = branch[k - 1]
    => /\ branch[0] \in Main
       /\ \E k \in 0..Required : ~Disputed(BlockHeight[branch[0]] + k)

\* Forks are shorter than tron.reorg_depth, and nobody disputes the first block.
ForksAreShort ==
  /\ ~Disputed(0)
  /\ \A h \in Heights : h + ReorgDepth <= MaxHeight =>
       \E k \in 0..ReorgDepth : ~Disputed(h + k)

\* A block is later than the one below it.
TimesGrow ==
  \A b \in Blocks : /\ BlockTime[b] < Never
                    /\ Parent[b] \in Blocks => BlockTime[Parent[b]] < BlockTime[b]

\* The follower starts with orders that are worth what they say, and with open windows.
OrdersStart ==
  /\ \A a \in Addresses :
       LET address == StartDb.addresses[a]
       IN /\ address.state = "assigned" => address.released = Never
          /\ address.order \in Orders => StartDb.orders[address.order].address = a
  /\ \A o \in Orders :
       LET order == StartDb.orders[o]
       IN order.status \in Live =>
            /\ order.received = Received(StartDb, o)
            /\ order.status \in {"paid", "confirmed"} <=> order.received >= order.expected

-----------------------------------------------------------------------------
(* Properties.                                                              *)

Sane(p) == p.status \in {"none", "seen", "confirmed", "orphaned", "unattributed"}

\* Types of the chain's tables, of the follower's memory and of the ledger's rows.
TypeOK ==
  /\ ChainTypeOK
  /\ \A t \in Transfers : Sane(db.payments[t])
  /\ \A o \in Orders : db.orders[o].status \in Live \cup Terminal \cup {"none"}
  /\ \A a \in Addresses : db.addresses[a].state \in {"none", "free", "assigned", "cooling", "disabled"}

\* The retained blocks are one unbroken chain that ends at the cursor, through
\* commits, rewinds and crashes (CommitBlock, RewindChain).
StoredChainLinked ==
  /\ cursor # NoCursor => blocks[cursor] # NoBlock
  /\ \A h \in Heights : blocks[h] # NoBlock =>
       /\ BlockHeight[blocks[h]] = h /\ h <= cursor
       /\ h < cursor => blocks[h + 1] # NoBlock /\ Parent[blocks[h + 1]] = blocks[h]

\* No crash skips a payment of a retained block, and no reorg leaves one behind
\* that the retained chain does not carry (the cursor moves with the payments).
PaymentsMatchChain ==
  \A t \in Transfers :
    LET p == db.payments[t]
    IN /\ \A h \in Heights : blocks[h] # NoBlock /\ Carries[blocks[h]] = t
                               => Counts(p) /\ p.block = blocks[h]
       /\ Counts(p) => /\ p.height <= cursor
                       /\ blocks[p.height] # NoBlock => p.block = blocks[p.height]

\* Money is confirmed only in a block that stays, whatever branch the follower
\* is on and whatever the solidity node answers (promotablePayments).
ConfirmedStays ==
  \A t \in Transfers : IsSettled(db.payments[t]) => db.payments[t].block \in Main

\* The two balance columns are what the payment rows add up to, after every
\* transaction that changes a row (recalculateBalance at each of its callers).
BalancesCurrent == Balanced(db)

\* An order is worth what its payments add up to, also after a reorg took some
\* away and another block brought them back.
OrdersCurrent ==
  \A o \in Orders : db.orders[o].status \in Live =>
    LET sum == Received(db, o)
    IN /\ db.orders[o].received = sum
       /\ db.orders[o].status \in {"paid", "confirmed"} <=> sum >= db.orders[o].expected

\* With a full table of blocks, ingestion stops only when no block of it is on
\* the chain that stays: no rewind could have recovered (CHN-015).  A follower
\* that just started on its first block has no such table, and may halt at once.
HaltMeansLost ==
  halted /\ blocks[IF cursor > ReorgDepth THEN cursor - ReorgDepth ELSE 0] # NoBlock
    => \A h \in Heights : blocks[h] \notin Main

\* What was confirmed is never taken back, by a rewind or by a later solidity
\* head: orders, balances and payouts have relied on it (RewindChain orphans
\* whatever is above the ancestor).
ConfirmedForGood ==
  [][\A t \in Transfers : IsSettled(db.payments[t]) => IsSettled(db'.payments[t])]_vars

\* Once the nodes agree the follower reaches their tip, from any branch, and
\* every payment deep enough there is confirmed, unless it had to halt.
CatchesUp ==
  agreed ~> \/ halted
            \/ /\ blocks[BlockHeight[MainTip]] = MainTip
               /\ \A t \in Transfers : \A h \in Heights :
                    /\ blocks[h] # NoBlock /\ Carries[blocks[h]] = t
                    /\ h + Required <= BlockHeight[MainTip]
                    => IsSettled(db.payments[t])
=============================================================================
