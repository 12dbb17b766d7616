----------------------------- MODULE Withdrawal -----------------------------
(***************************************************************************)
(* The withdrawal engine of payd (internal/withdraw/engine.go) over the    *)
(* withdrawals table (internal/store/withdrawals.go), with the TRON chain  *)
(* and the host around it: transactions that land, reorganise, solidify or *)
(* expire; broadcast answers that are lost; process crashes and power      *)
(* losses between any two steps; an operator who decides unresolved rows.  *)
(*                                                                         *)
(* One engine goroutine walks the recovery candidates, then the rows that  *)
(* wait for resources, then claims one request.  Every store call is one   *)
(* transaction and so one atomic step; every RPC is a step of its own, so  *)
(* that everything else may happen between an answer and its use.          *)
(***************************************************************************)
EXTENDS Integers, FiniteSets, FiniteSetsExt

CONSTANTS
  NumRows,        \* withdrawal requests, numbered in order of acceptance
  Addresses,      \* source addresses
  From, Amount,   \* source address and amount (one price, so also USD) of each row
  Funds,          \* confirmed_raw of each address before any payout
  DailyLimit,     \* withdrawal.daily_limit_usd; all rows fall on one UTC day
  LookupLimit,    \* failed lookups before needs_operator (10 in the code)
  DriftAddresses, \* addresses whose ledger and chain balances may diverge
  HostClockAhead, \* the host clock may run ahead of the chain's
  CanLosePower,   \* a power loss may drop commits that were not synced
  MaxCrashes,     \* bound on process crashes and power losses
  MaxErrors       \* bound on ticks ended by an RPC or store error

Rows == 1..NumRows

ASSUME RowsAssumption ==
  /\ NumRows \in Nat
  /\ From \in [Rows -> Addresses]
  /\ Amount \in [Rows -> Nat]
  /\ Funds \in [Addresses -> Nat]
ASSUME LimitAssumption ==
  /\ DailyLimit \in Nat
  /\ LookupLimit \in Nat \ {0}
  /\ MaxCrashes \in Nat /\ MaxErrors \in Nat
  /\ DriftAddresses \subseteq Addresses
ASSUME EnvironmentAssumption == HostClockAhead \in BOOLEAN /\ CanLosePower \in BOOLEAN

VARIABLES
  db,           \* the withdrawals table, as every transaction sees it
  durable,      \* the prefix of its commits that would survive a power loss
  drift,        \* addresses with balances.drift_detected = 1
  boot,         \* Run has not finished recover(force = true)
  phase,        \* the part of the tick: recover, awaiting, claim; or idle
  todo,         \* rows the current part has read and not yet handled
  step,         \* where the engine is with the row cur
  cur,          \* the row in hand, or 0
  code,         \* the broadcast was answered with a deterministic rejection
  expired,      \* resolve read a clock at or past expiration_at
  found,        \* the answer of gettransactionbyid
  tx,           \* what became of each row's transaction
  sent,         \* number of broadcast requests issued for each row
  chainExpired, \* rows whose expiration is past on the chain's clock
  hostExpired,  \* rows whose expiration is past on the host's clock
  crashes,      \* crashes and power losses so far
  errors        \* ticks ended by an error so far

storeVars  == <<db, durable, drift>>
engineVars == <<boot, phase, todo, step, cur, code, expired, found>>
clockVars  == <<chainExpired, hostExpired>>
worldVars  == <<tx, sent, chainExpired, hostExpired>>
faultVars  == <<crashes, errors>>
vars == <<storeVars, engineVars, worldVars, faultVars>>

Awaiting  == {"awaiting_resources", "awaiting_energy"}
InFlight  == Awaiting \cup {"signing", "broadcast"}           \* WDR-007
Counted   == InFlight \cup {"requested", "confirmed"}         \* WDR-006
Statuses  == Counted \cup {"none", "failed", "rejected", "needs_operator"}
Resolvers == {"none", "operator", "chain_absence", "resource_acquisition"}

Row == [status : Statuses, txid : BOOLEAN, failures : 0..LookupLimit,
        resolvedBy : Resolvers, fee : BOOLEAN, debited : BOOLEAN]
NewRow == [status |-> "none", txid |-> FALSE, failures |-> 0,
           resolvedBy |-> "none", fee |-> FALSE, debited |-> FALSE]

OnChain  == {"paid", "reverted", "solidPaid", "solidReverted"}
TxStates == OnChain \cup {"unsent", "pending", "gone"}

TypeOK ==
  /\ db \in [Rows -> Row] /\ durable \in [Rows -> Row]
  /\ drift \subseteq DriftAddresses
  /\ boot \in BOOLEAN
  /\ phase \in {"idle", "recover", "awaiting", "claim"}
  /\ todo \subseteq Rows
  /\ step \in {"pick", "acquire", "sign", "send", "record", "resolve",
               "lookup", "apply", "receipt"}
  /\ cur \in Rows \cup {0}
  /\ code \in BOOLEAN /\ expired \in BOOLEAN /\ found \in BOOLEAN
  /\ tx \in [Rows -> TxStates] /\ sent \in [Rows -> Nat]
  /\ chainExpired \subseteq Rows /\ hostExpired \subseteq Rows
  /\ crashes \in Nat /\ errors \in Nat

Init ==
  /\ db = [w \in Rows |-> NewRow] /\ durable = db /\ drift = {}
  /\ boot = TRUE /\ phase = "idle" /\ todo = {} /\ step = "pick" /\ cur = 0
  /\ code = FALSE /\ expired = FALSE /\ found = FALSE
  /\ tx = [w \in Rows |-> "unsent"] /\ sent = [w \in Rows |-> 0]
  /\ chainExpired = {} /\ hostExpired = {}
  /\ crashes = 0 /\ errors = 0

-----------------------------------------------------------------------------
(* Commits.  The normal handle runs with synchronous = NORMAL: its commits  *)
(* are seen at once and synced some time later.  The full handle syncs the  *)
(* log, its own commit and every earlier one (ARC-006a).                    *)

Commit(d) ==
  /\ db' = d
  /\ \/ durable' = d
     \/ CanLosePower /\ UNCHANGED durable
  /\ UNCHANGED drift

CommitFull(d) == db' = d /\ durable' = d /\ UNCHANGED drift

-----------------------------------------------------------------------------
(* Updates of one row, each the UPDATE statement of a store operation.      *)

\* setNeedsOperator: final rows and rows already there are left alone.
SetNeedsOperator(w) ==
  IF db[w].status \in {"confirmed", "failed", "needs_operator"} THEN db
  ELSE [db EXCEPT ![w].status = "needs_operator"]

\* Mutant: an absent transaction sends the request round again.
LookupAnsweredRetries(w, isFound) ==
  [db EXCEPT ![w].status = IF isFound THEN "broadcast" ELSE "requested", ![w].failures = 0]

\* RecordWithdrawalLookup, no error: a transaction found means "broadcast",
\* whatever the status was.
LookupAnswered(w, isFound) ==
  [db EXCEPT ![w].status = IF isFound THEN "broadcast" ELSE @, ![w].failures = 0]

\* Mutant: the counter is not compared with its limit.
LookupFailedUnbounded(w) ==
  [db EXCEPT ![w].failures = @ + 1]

\* Mutant: the limit is reached and nothing follows from it.
LookupFailedForever(w) ==
  [db EXCEPT ![w].failures = IF @ < LookupLimit THEN @ + 1 ELSE @]

\* RecordWithdrawalLookup, error: the row is left until LookupLimit errors in
\* a row.  The code only compares the counter, so it is saturated here.
LookupFailed(w) ==
  LET n == db[w].failures + 1 IN
  IF n < LookupLimit THEN [db EXCEPT ![w].failures = n]
  ELSE [SetNeedsOperator(w) EXCEPT ![w].failures = LookupLimit]

FailAbsent(w) ==
  IF ~db[w].txid \/ db[w].status \in {"confirmed", "failed"} THEN db
  ELSE [db EXCEPT ![w].status = "failed", ![w].resolvedBy = "chain_absence"]

FailResources(w) ==
  IF db[w].txid \/ db[w].status \notin Awaiting THEN db
  ELSE [db EXCEPT ![w].status = "failed", ![w].resolvedBy = "resource_acquisition"]

\* Mutant: the fee is left to a later transaction.
ConfirmRowFeeless(w) ==
  IF ~db[w].txid \/ db[w].status = "confirmed" THEN db
  ELSE [db EXCEPT ![w].status = "confirmed", ![w].failures = 0]

\* ConfirmWithdrawal also ledgers the network fee, in the same transaction.
ConfirmRow(w) ==
  IF ~db[w].txid \/ db[w].status = "confirmed" THEN db
  ELSE [db EXCEPT ![w].status = "confirmed", ![w].failures = 0, ![w].fee = TRUE]

RecordSent(w) ==
  IF ~db[w].txid \/ db[w].status \in {"confirmed", "failed"} THEN db
  ELSE [db EXCEPT ![w].status = "broadcast", ![w].failures = 0]

-----------------------------------------------------------------------------
(* Requests.                                                                *)

RowsIn(statuses) == {w \in Rows : db[w].status \in statuses}
Total(S) == MapThenSumSet(LAMBDA w : Amount[w], S)
Oldest(w, S) == w \in S /\ \A v \in S : w <= v

\* confirmed_raw: deposits less the payouts the follower has ledgered.
ConfirmedRaw(a) == Funds[a] - Total({w \in Rows : From[w] = a /\ db[w].debited})

\* CreateWithdrawal: the synchronous checks and the conditional insert.
Create(w) ==
  /\ Oldest(w, RowsIn({"none"}))
  /\ From[w] \notin drift
  /\ Amount[w] > 0 /\ Amount[w] <= ConfirmedRaw(From[w])
  /\ Total(RowsIn(Counted)) + Amount[w] <= DailyLimit
  /\ Commit([db EXCEPT ![w].status = "requested"])
  /\ UNCHANGED <<engineVars, worldVars, faultVars>>

\* Mutant: the operator may decide a row the engine still holds.
OperatorResolvesEarly(w, outcome) ==
  /\ db[w].status \in {"needs_operator", "signing", "broadcast"}
  /\ Commit([db EXCEPT ![w].status = outcome, ![w].resolvedBy = "operator"])
  /\ UNCHANGED <<engineVars, worldVars, faultVars>>

\* ResolveWithdrawal: an operator decides a row the engine could not.
OperatorResolves(w, outcome) ==
  /\ db[w].status = "needs_operator"
  /\ outcome \in {"confirmed", "failed"}
  /\ Commit([db EXCEPT ![w].status = outcome, ![w].resolvedBy = "operator"])
  /\ UNCHANGED <<engineVars, worldVars, faultVars>>

-----------------------------------------------------------------------------
(* The engine's walk over rows.                                             *)

At(p, s) == phase = p /\ step = s

\* Take row w of the current part in hand, at step s.
TakeUp(w, s) == step' = s /\ cur' = w /\ todo' = todo \ {w}

\* Done with the row in hand: the next row, or the end of the tick after a claim.
Finish ==
  /\ step' = "pick" /\ cur' = 0
  /\ phase' = IF phase = "claim" THEN "idle" ELSE phase
  /\ code' = FALSE /\ expired' = FALSE /\ found' = FALSE
  /\ UNCHANGED <<boot, todo>>

Goto(s) == step' = s /\ UNCHANGED <<boot, phase, todo, cur, code, expired, found>>

\* WithdrawalRecoveryCandidates, but for the rows it selects by age.
Recoverable(w) ==
  \/ /\ db[w].txid
     /\ db[w].status # "confirmed"
     /\ boot \/ db[w].status \notin {"failed", "needs_operator"}
  \/ ~db[w].txid /\ db[w].status = "signing"

\* Mutant: the engine starts with the rows that wait, and recovers on a later tick.
BeginRecoveryLate ==
  /\ phase = "idle"
  /\ phase' = IF boot THEN "awaiting" ELSE "recover"
  /\ todo' = IF boot THEN RowsIn(Awaiting) ELSE {w \in Rows : Recoverable(w)}
  /\ UNCHANGED <<boot, step, cur, code, expired, found>>
  /\ UNCHANGED <<storeVars, worldVars, faultVars>>

\* recover begins, forced at boot.  Rows long in an awaiting status join.
BeginRecovery ==
  /\ phase = "idle"
  /\ phase' = "recover"
  /\ \E aged \in SUBSET RowsIn(Awaiting) :
       todo' = {w \in Rows : Recoverable(w)} \cup aged
  /\ UNCHANGED <<boot, step, cur, code, expired, found>>
  /\ UNCHANGED <<storeVars, worldVars, faultVars>>

RecoverNext(w) == At("recover", "pick") /\ Oldest(w, todo)

\* WDR-018b: a row in signing without a txid is handed to the operator.
RecoverUnsigned(w) ==
  /\ RecoverNext(w) /\ ~db[w].txid /\ db[w].status = "signing"
  /\ Commit(SetNeedsOperator(w))
  /\ todo' = todo \ {w}
  /\ UNCHANGED <<boot, phase, step, cur, code, expired, found, worldVars, faultVars>>

\* WDR-019: an old awaiting row is evaluated again (awaiting_energy at boot only).
RecoverAwaiting(w) ==
  /\ RecoverNext(w) /\ ~db[w].txid
  /\ db[w].status = "awaiting_resources" \/ (boot /\ db[w].status = "awaiting_energy")
  /\ TakeUp(w, "acquire")
  /\ UNCHANGED <<boot, phase, code, expired, found, storeVars, worldVars, faultVars>>

\* Outside boot: a lookup or an attempt too recent, or a row awaiting energy.
RecoverSkip(w) ==
  /\ RecoverNext(w) /\ ~boot
  /\ db[w].txid \/ db[w].status = "awaiting_energy"
  /\ todo' = todo \ {w}
  /\ UNCHANGED <<boot, phase, step, cur, code, expired, found>>
  /\ UNCHANGED <<storeVars, worldVars, faultVars>>

\* Mutant: recovery broadcasts again before it looks.
RecoverRebroadcasts(w) ==
  /\ RecoverNext(w) /\ db[w].txid
  /\ TakeUp(w, "send")
  /\ UNCHANGED <<boot, phase, code, expired, found, storeVars, worldVars, faultVars>>

RecoverResolve(w) ==
  /\ RecoverNext(w) /\ db[w].txid
  /\ TakeUp(w, "resolve")
  /\ UNCHANGED <<boot, phase, code, expired, found, storeVars, worldVars, faultVars>>

\* The forced recovery done, Run enters its tick loop; a tick's recovery done,
\* the tick reads the rows that wait for resources.
EndRecovery ==
  /\ At("recover", "pick") /\ todo = {}
  /\ boot' = FALSE
  /\ phase' = IF boot THEN "idle" ELSE "awaiting"
  /\ todo' = IF boot THEN {} ELSE {w \in RowsIn(Awaiting) : ~db[w].txid}
  /\ UNCHANGED <<step, cur, code, expired, found, storeVars, worldVars, faultVars>>

AcquireNext(w) ==
  /\ At("awaiting", "pick") /\ Oldest(w, todo)
  /\ TakeUp(w, "acquire")
  /\ UNCHANGED <<boot, phase, code, expired, found, storeVars, worldVars, faultVars>>

EndAwaiting ==
  /\ At("awaiting", "pick") /\ todo = {}
  /\ phase' = "claim"
  /\ UNCHANGED <<boot, todo, step, cur, code, expired, found>>
  /\ UNCHANGED <<storeVars, worldVars, faultVars>>

-----------------------------------------------------------------------------
(* Claiming.                                                                *)

\* NextRequestedWithdrawal: the oldest request only.
ClaimNext(w) ==
  /\ At("claim", "pick")
  /\ Oldest(w, {v \in RowsIn({"requested"}) : ~db[v].txid})

EndTick ==
  /\ phase' = "idle"
  /\ UNCHANGED <<boot, todo, step, cur, code, expired, found>>

\* Mutant: a row that waits for energy does not hold its address.
AddressFreeOfEnergy(w) ==
  \A v \in Rows \ {w} : From[v] = From[w] => db[v].status \notin InFlight \ {"awaiting_energy"}

\* Mutant: a row that was broadcast does not hold its address.
AddressFreeOfBroadcast(w) ==
  \A v \in Rows \ {w} : From[v] = From[w] => db[v].status \notin InFlight \ {"broadcast"}

\* WDR-007: no other row of the address is in flight.
AddressFree(w) ==
  \A v \in Rows \ {w} : From[v] = From[w] => db[v].status \notin InFlight

\* WDR-005, evaluated again under the claim transaction.
Funded(w) ==
  Amount[w] <= ConfirmedRaw(From[w])
               - Total({v \in RowsIn(InFlight) \ {w} : From[v] = From[w]})

ClaimNone ==
  /\ At("claim", "pick")
  /\ \A w \in RowsIn({"requested"}) : db[w].txid
  /\ EndTick
  /\ UNCHANGED <<storeVars, worldVars, faultVars>>

ClaimGranted(w) ==
  /\ ClaimNext(w) /\ From[w] \notin drift
  /\ Funded(w) /\ AddressFree(w)
  /\ Commit([db EXCEPT ![w].status = "awaiting_resources"])
  /\ TakeUp(w, "acquire")
  /\ UNCHANGED <<boot, phase, code, expired, found, worldVars, faultVars>>

ClaimRejected(w) ==
  /\ ClaimNext(w) /\ From[w] \notin drift
  /\ ~Funded(w)
  /\ Commit([db EXCEPT ![w].status = "rejected"])
  /\ EndTick
  /\ UNCHANGED <<worldVars, faultVars>>

\* The address is busy, or its balance row is hidden by drift and the claim
\* ends in an error: either way the tick is over and the request stays first.
ClaimWaits(w) ==
  /\ ClaimNext(w)
  /\ \/ From[w] \in drift
     \/ Funded(w) /\ ~AddressFree(w)
  /\ EndTick
  /\ UNCHANGED <<storeVars, worldVars, faultVars>>

-----------------------------------------------------------------------------
(* acquireAndSend.  Where the energy and bandwidth come from is left open:  *)
(* the sources are ready, keep the row waiting, fail it, or leave a grant   *)
(* that only an operator can judge.                                         *)

AcquirePending(s) ==
  /\ step = "acquire"
  /\ s \in Awaiting
  /\ Commit([db EXCEPT ![cur].status = s])
  /\ Finish
  /\ UNCHANGED <<worldVars, faultVars>>

AcquireFails ==
  /\ step = "acquire"
  /\ Commit(FailResources(cur))
  /\ Finish
  /\ UNCHANGED <<worldVars, faultVars>>

AcquireUnclear ==
  /\ step = "acquire"
  /\ Commit(SetNeedsOperator(cur))
  /\ Finish
  /\ UNCHANGED <<worldVars, faultVars>>

AcquireReady ==
  /\ step = "acquire"
  /\ Commit([db EXCEPT ![cur].status = "signing"])
  /\ Goto("sign")
  /\ UNCHANGED <<worldVars, faultVars>>

-----------------------------------------------------------------------------
(* signAndBroadcast.                                                        *)

\* PersistWithdrawalAttempt's condition: the attempt is not spent (WDR-014a).
AttemptUnspent(w) == db[w].status = "signing" /\ ~db[w].txid

SignPersists ==
  /\ step = "sign"
  /\ AttemptUnspent(cur)
  /\ CommitFull([db EXCEPT ![cur].txid = TRUE])
  /\ Goto("send")
  /\ UNCHANGED <<worldVars, faultVars>>

SignFails ==
  /\ step = "sign"
  /\ Commit(SetNeedsOperator(cur))
  /\ Finish
  /\ UNCHANGED <<worldVars, faultVars>>

\* The single HTTP request.  Accepted: the network has the transaction.
\* Ambiguous: it may or may not.  A deterministic rejection: it never will.
Send(answer) ==
  /\ step = "send"
  /\ sent' = [sent EXCEPT ![cur] = @ + 1]
  /\ \E t \in {"pending", "gone"} :
       /\ answer = "accepted" => t = "pending"
       /\ answer = "deterministic" \/ cur \in chainExpired => t = "gone"
       /\ tx' = [tx EXCEPT ![cur] = t]
  /\ code' = (answer = "deterministic")
  /\ step' = "record"
  /\ UNCHANGED <<boot, phase, todo, cur, expired, found, clockVars, storeVars, faultVars>>

Record ==
  /\ step = "record"
  /\ CommitFull(RecordSent(cur))
  /\ IF code THEN Goto("resolve") ELSE Finish
  /\ UNCHANGED <<worldVars, faultVars>>

-----------------------------------------------------------------------------
(* resolve.  The clock is read first, then the chain, then the row written. *)

ReadClock ==
  /\ step = "resolve"
  /\ step' = "lookup"
  /\ expired' = (cur \in hostExpired)
  /\ UNCHANGED <<boot, phase, todo, cur, code, found, storeVars, worldVars, faultVars>>

Lookup ==
  /\ step = "lookup"
  /\ step' = "apply"
  /\ found' = (tx[cur] \in OnChain)
  /\ UNCHANGED <<boot, phase, todo, cur, code, expired, storeVars, worldVars, faultVars>>

\* No answer: a rejected broadcast goes to the operator (WDR-022a), any other
\* row counts the failure.  An answer that cannot be parsed is only counted.
LookupErrs ==
  /\ step = "lookup"
  /\ \/ code /\ Commit(SetNeedsOperator(cur))
     \/ Commit(LookupFailed(cur))
  /\ Finish
  /\ UNCHANGED <<worldVars, faultVars>>

\* Mutant: the clock is read after the chain was.
ApplyAbsentLateClock ==
  /\ step = "apply" /\ ~found
  /\ Commit(IF code \/ cur \in hostExpired THEN FailAbsent(cur) ELSE LookupAnswered(cur, FALSE))
  /\ Finish
  /\ UNCHANGED <<worldVars, faultVars>>

ApplyAbsent ==
  /\ step = "apply" /\ ~found
  /\ Commit(IF code \/ expired THEN FailAbsent(cur) ELSE LookupAnswered(cur, FALSE))
  /\ Finish
  /\ UNCHANGED <<worldVars, faultVars>>

ApplyFound ==
  /\ step = "apply" /\ found
  /\ Commit(LookupAnswered(cur, TRUE))
  /\ Goto("receipt")
  /\ UNCHANGED <<worldVars, faultVars>>

\* The solidity node has no receipt yet, or gave no answer.
ReceiptMissing ==
  /\ step = "receipt"
  /\ Finish
  /\ UNCHANGED <<storeVars, worldVars, faultVars>>

\* Mutant: the receipt of a block that is not solidified is taken.
ReceiptUnsolid ==
  /\ step = "receipt"
  /\ \/ tx[cur] \in {"paid", "solidPaid"} /\ Commit(ConfirmRow(cur))
     \/ tx[cur] \in {"reverted", "solidReverted"} /\ Commit(SetNeedsOperator(cur))
  /\ Finish
  /\ UNCHANGED <<worldVars, faultVars>>

ReceiptSolid ==
  /\ step = "receipt"
  /\ \/ tx[cur] = "solidPaid" /\ Commit(ConfirmRow(cur))
     \/ tx[cur] = "solidReverted" /\ Commit(SetNeedsOperator(cur))
  /\ Finish
  /\ UNCHANGED <<worldVars, faultVars>>

-----------------------------------------------------------------------------
(* Errors, crashes and power losses.                                        *)

ResetEngine ==
  /\ phase' = "idle" /\ todo' = {} /\ step' = "pick" /\ cur' = 0
  /\ code' = FALSE /\ expired' = FALSE /\ found' = FALSE

\* An RPC or store error ends the tick.  Send's own error is an answer.
Abort ==
  /\ errors < MaxErrors /\ errors' = errors + 1
  /\ phase # "idle" /\ step # "send"
  /\ ResetEngine
  /\ UNCHANGED <<boot, storeVars, worldVars, crashes>>

Crash ==
  /\ crashes < MaxCrashes /\ crashes' = crashes + 1
  /\ ResetEngine /\ boot' = TRUE
  /\ UNCHANGED <<storeVars, worldVars, errors>>

PowerLoss ==
  /\ CanLosePower
  /\ crashes < MaxCrashes /\ crashes' = crashes + 1
  /\ ResetEngine /\ boot' = TRUE
  /\ db' = durable
  /\ UNCHANGED <<durable, drift, worldVars, errors>>

-----------------------------------------------------------------------------
(* The chain, the clocks and the other writers of the database.             *)

TxBecomes(w, t) ==
  /\ tx' = [tx EXCEPT ![w] = t]
  /\ UNCHANGED <<sent, clockVars, storeVars, engineVars, faultVars>>

\* A block takes the transaction; the contract pays or reverts.
Land(w) ==
  /\ tx[w] = "pending"
  /\ TxBecomes(w, "paid") \/ TxBecomes(w, "reverted")

Solidify(w) ==
  \/ tx[w] = "paid" /\ TxBecomes(w, "solidPaid")
  \/ tx[w] = "reverted" /\ TxBecomes(w, "solidReverted")

\* The block is orphaned: the transaction is back among the pending ones,
\* or lost when it has expired meanwhile.
Reorg(w) ==
  /\ tx[w] \in {"paid", "reverted"}
  /\ TxBecomes(w, IF w \in chainExpired THEN "gone" ELSE "pending")

ChainExpires(w) ==
  /\ db[w].txid /\ w \notin chainExpired
  /\ chainExpired' = chainExpired \cup {w}
  /\ tx' = [tx EXCEPT ![w] = IF @ = "pending" THEN "gone" ELSE @]
  /\ UNCHANGED <<sent, hostExpired, storeVars, engineVars, faultVars>>

HostExpires(w) ==
  /\ db[w].txid /\ w \notin hostExpired
  /\ HostClockAhead \/ w \in chainExpired
  /\ hostExpired' = hostExpired \cup {w}
  /\ UNCHANGED <<tx, sent, chainExpired, storeVars, engineVars, faultVars>>

\* The follower ledgers the outgoing transfer and the tracker confirms it.
IngestPayout(w) ==
  /\ tx[w] = "solidPaid" /\ ~db[w].debited
  /\ Commit([db EXCEPT ![w].debited = TRUE])
  /\ UNCHANGED <<engineVars, worldVars, faultVars>>

\* ReconcileChainBalances sets the flag, an operator clears it.
DriftChanges(a) ==
  /\ drift' = IF a \in drift THEN drift \ {a} ELSE drift \cup {a}
  /\ UNCHANGED <<db, durable, engineVars, worldVars, faultVars>>

-----------------------------------------------------------------------------

Recover(w) ==
  RecoverUnsigned(w) \/ RecoverAwaiting(w) \/ RecoverSkip(w) \/ RecoverResolve(w)
Claim(w) == ClaimGranted(w) \/ ClaimRejected(w) \/ ClaimWaits(w)
Acquire ==
  \/ \E s \in Awaiting : AcquirePending(s)
  \/ AcquireFails \/ AcquireUnclear \/ AcquireReady
SignAndBroadcast ==
  \/ SignPersists \/ SignFails \/ Record
  \/ \E answer \in {"accepted", "ambiguous", "deterministic"} : Send(answer)
Resolve ==
  \/ ReadClock \/ Lookup \/ LookupErrs
  \/ ApplyAbsent \/ ApplyFound \/ ReceiptMissing \/ ReceiptSolid

Engine ==
  \/ BeginRecovery \/ EndRecovery \/ EndAwaiting \/ ClaimNone
  \/ \E w \in Rows : Recover(w) \/ AcquireNext(w) \/ Claim(w)
  \/ Acquire \/ SignAndBroadcast \/ Resolve

Operators ==
  \E w \in Rows : Create(w) \/ \E o \in {"confirmed", "failed"} : OperatorResolves(w, o)

Chain ==
  \/ \E w \in Rows : Land(w) \/ Solidify(w) \/ Reorg(w) \/ ChainExpires(w)
                     \/ HostExpires(w) \/ IngestPayout(w)
  \/ \E a \in DriftAddresses : DriftChanges(a)

Next == Engine \/ Operators \/ Chain \/ Abort \/ Crash \/ PowerLoss

Spec == Init /\ [][Next]_vars

\* The engine never stops for good; the throttles of recover are finite
\* (60 s and 15 s against ticks of 2 s), so a row is taken up again and again;
\* the solidity node answers for a solid transaction now and then; the chain
\* and both clocks go on.  Nothing is assumed of operators, of the network
\* taking a transaction, or of resources becoming available.
Fairness ==
  /\ WF_vars(Engine)
  /\ \A w \in Rows :
       /\ SF_vars(RecoverResolve(w))
       /\ SF_vars(cur = w /\ ReceiptSolid)
       /\ WF_vars(Solidify(w))
       /\ WF_vars(ChainExpires(w))
       /\ WF_vars(HostExpires(w))

FairSpec == Spec /\ Fairness

-----------------------------------------------------------------------------
(* Properties.                                                              *)

\* WDR-014a, WDR-017a: over the whole life of a row, through crashes, power
\* losses, aborted ticks and forced recoveries, one broadcast request at most.
AtMostOneBroadcast == \A w \in Rows : sent[w] <= 1

\* WDR-015: when a request has been issued its txid is on disk, so that no
\* crash or power loss leaves a transaction nobody knows to look for.
AttemptDurable == \A w \in Rows : sent[w] > 0 => durable[w].txid

\* WDR-002b: a row that is rejected, or failed for want of resources, never
\* had a transaction; nor has one that was not yet brought to signing.
RefusedUntouched ==
  \A w \in Rows :
    \/ db[w].status \in {"none", "requested", "rejected"} \cup Awaiting
    \/ db[w].status = "failed" /\ db[w].resolvedBy = "resource_acquisition"
    => ~db[w].txid /\ sent[w] = 0 /\ tx[w] = "unsent"

\* WDR-002b, WDR-022: a row the engine failed for absence is absent for good:
\* its transaction is not on chain and can no longer get there.
FailedIsAbsent ==
  \A w \in Rows :
    db[w].status = "failed" /\ db[w].resolvedBy = "chain_absence"
      => tx[w] \in {"unsent", "gone"}

\* WDR-021: what the engine reports as confirmed, and every fee it ledgers,
\* belongs to a payout that succeeded in a solidified block.
ConfirmedIsPaid ==
  \A w \in Rows :
    \/ db[w].fee
    \/ db[w].status = "confirmed" /\ db[w].resolvedBy # "operator"
    => tx[w] = "solidPaid"

\* WDR-007, the part that holds through restarts: two rows of one address are
\* never acquiring resources or being signed at the same time.
Acquiring == Awaiting \cup {"signing"}
OneAcquiring ==
  \A v, w \in Rows :
    /\ v # w /\ From[v] = From[w]
    /\ db[v].status \in Acquiring
    => db[w].status \notin Acquiring

\* WDR-007 as the specification states it: at most one row of an address is
\* awaiting resources or energy, signing, or broadcast.
AddressExclusive ==
  \A v, w \in Rows :
    /\ v # w /\ From[v] = From[w]
    /\ db[v].status \in InFlight
    => db[w].status \notin InFlight

\* WDR-007 while the process stays up.  Only the forced recovery of a restart
\* puts a row in flight that has left that set.
ExclusiveUntilRestart == crashes = 0 => AddressExclusive

\* WDR-018b, WDR-019a: a request is claimed only after startup recovery, and
\* never over a row that was left in signing without a txid.
ClaimAfterRecovery ==
  [][\A w \in Rows :
       db[w].status = "requested" /\ db'[w].status = "awaiting_resources"
         => ~boot /\ \A v \in Rows : db[v].status = "signing" => db[v].txid]_vars

\* WDR-000: a spent attempt stays spent.  Once a row has a txid it never goes
\* back to a status from which it would be signed again.
SpentStaysSpent ==
  [][\A w \in Rows :
       db[w].txid => db'[w].txid /\ db'[w].status \notin {"none", "requested"} \cup Awaiting]_vars

\* WDR-018: every attempt is decided.  A row with a txid does not stay in
\* signing or broadcast: it becomes confirmed, failed, or the operator's.
AttemptDecided ==
  \A w \in Rows :
    (db[w].txid /\ db[w].status \in {"signing", "broadcast"})
      ~> db[w].status \in {"confirmed", "failed", "needs_operator"}

-----------------------------------------------------------------------------
(* The promise of SinglePayout.  A decision counts once it is on disk; the  *)
(* broadcast request counts when it is issued.                              *)

Closed == {"rejected", "failed", "confirmed", "needs_operator"}

Stage(w) ==
  CASE sent[w] > 0 -> "spent"
    [] sent[w] = 0 /\ durable[w].status = "none" -> "new"
    [] sent[w] = 0 /\ durable[w].status \in Closed -> "closed"
    [] OTHER -> "open"

Payout(w) ==
  CASE tx[w] = "paid" -> "paid"
    [] tx[w] = "solidPaid" -> "final"
    [] OTHER -> "none"

Promise == INSTANCE SinglePayout WITH
  Requests <- Rows,
  stage <- [w \in Rows |-> Stage(w)],
  payout <- [w \in Rows |-> Payout(w)]

\* WDR-000, WDR-000c: the engine implements SinglePayout.
KeepsPromise == Promise!Spec

-----------------------------------------------------------------------------
(* The inductive invariant behind the safety properties, in named parts.    *)
(* Those about the table hold of what is visible and of what is on disk.    *)

\* What the columns of one row say about each other.
RowOK(r) ==
  /\ r.txid => r.status \notin {"none", "requested", "rejected"} \cup Awaiting
  /\ r.resolvedBy = "resource_acquisition" => r.status = "failed" /\ ~r.txid
  /\ r.status = "confirmed" /\ r.resolvedBy # "operator" => r.fee

\* What the columns of row w say about its transaction.
VerdictOK(w, r) ==
  /\ ~HostClockAhead /\ r.status = "failed" /\ r.resolvedBy = "chain_absence"
       => tx[w] \in {"unsent", "gone"}
  /\ r.fee => tx[w] = "solidPaid"

OneAcquiringIn(d) ==
  \A v, w \in Rows :
    v # w /\ From[v] = From[w] /\ d[v].status \in Acquiring => d[w].status \notin Acquiring

TableOK(d) ==
  /\ \A w \in Rows : RowOK(d[w]) /\ VerdictOK(w, d[w])
  /\ OneAcquiringIn(d)

WorldOK ==
  \A w \in Rows :
    /\ sent[w] <= 1
    /\ sent[w] = 0 <=> tx[w] = "unsent"
    /\ sent[w] > 0 => db[w].txid
    /\ w \in chainExpired => tx[w] # "pending"
    /\ ~HostClockAhead /\ w \in hostExpired => w \in chainExpired

\* What is on disk lags behind what is visible, but never in a txid, and an
\* unspent row closed on disk is closed.
SyncOK ==
  \A w \in Rows :
    /\ db[w].txid <=> durable[w].txid
    /\ sent[w] = 0 /\ durable[w].status # "none" => db[w].status # "none"
    /\ sent[w] = 0 /\ durable[w].status \in Closed => db[w].status \in Closed

EngineOK ==
  /\ step # "pick" => cur \in Rows \ todo
  /\ phase = "idle" => step = "pick"
  /\ phase \in {"idle", "claim"} => todo = {}
  /\ phase = "awaiting" => \A w \in todo : db[w].status \in Awaiting /\ ~db[w].txid
  /\ step \in {"pick", "acquire", "sign"} => ~code /\ ~expired
  /\ step = "acquire" => db[cur].status \in Awaiting /\ ~db[cur].txid
  /\ step = "sign" => db[cur].status = "signing" /\ ~db[cur].txid
  /\ step = "send" =>
       /\ ~code /\ ~expired /\ sent[cur] = 0 /\ db[cur].txid
       /\ db[cur].status = "signing" /\ durable[cur].status = "signing"
  /\ step = "record" => sent[cur] > 0
  /\ step \in {"record", "resolve", "lookup", "apply", "receipt"} => db[cur].txid
  /\ step \in {"record", "resolve"} => ~expired
  /\ code => tx[cur] = "gone"
  /\ expired => cur \in hostExpired
  /\ (step = "apply" /\ found) \/ step = "receipt" => sent[cur] > 0
  /\ step = "apply" /\ ~found /\ (code \/ expired) /\ ~HostClockAhead
       => tx[cur] \in {"unsent", "gone"}

IInv ==
  /\ TypeOK
  /\ TableOK(db) /\ TableOK(durable)
  /\ WorldOK
  /\ SyncOK
  /\ EngineOK
=============================================================================
