------------------------------ MODULE Sourcing ------------------------------
(***************************************************************************)
(* Energy and bandwidth for a claimed withdrawal (acquireAndSend of        *)
(* internal/withdraw/engine.go up to signing, over the tables of           *)
(* internal/store/resources.go and energy.go), with the delegations an     *)
(* operator starts through the API.                                        *)
(*                                                                         *)
(* Two goroutines work on the grants: the engine, which walks the manual   *)
(* delegations and then the withdrawals that wait for resources, and an    *)
(* API request, which records a manual delegation and starts it at once.   *)
(* Every store call is one transaction and one step; so is every call of   *)
(* the chain, of the wallet node and of the energy market.  What those     *)
(* answer is left open: an account gains and loses resources by itself.    *)
(***************************************************************************)
EXTENDS Integers, FiniteSets

CONSTANTS
  Withdrawals,    \* TRC-20 withdrawals claimed by the engine, as model values
  ManualGrants,   \* delegations an operator may ask for, as model values
  NoWithdrawal, NoGrant, \* none in hand
  Rental,         \* energy.enabled: there is a market to rent from
  FallbackToBurn, \* energy.fallback_to_burn
  Topup,          \* resources.bandwidth_strategy is "topup", else "delegate"
  LookupLimit,    \* failed lookups of a grant before needs_operator (10)
  FailureLimit,   \* market failures that open the circuit (5)
  CanLosePower,   \* a power loss may drop commits that were not synced
  MaxGrants,      \* bound on the rows of resource_grants
  MaxFaults       \* bound on errors that end a tick, crashes and power losses

Types == {"ENERGY", "BANDWIDTH"}
Grants == (Withdrawals \X Types) \cup ManualGrants   \* rows of resource_grants
Workers == {"engine", "api"}

ASSUME GrantsAssumption ==
  /\ ManualGrants \cap (Withdrawals \X Types) = {}
  /\ NoGrant \notin Grants /\ NoWithdrawal \notin Withdrawals
ASSUME SwitchAssumption ==
  {Rental, FallbackToBurn, Topup, CanLosePower} \subseteq BOOLEAN
ASSUME BoundsAssumption ==
  /\ LookupLimit \in Nat \ {0} /\ FailureLimit \in Nat \ {0}
  /\ MaxGrants \in Nat /\ MaxFaults \in Nat


VARIABLES
  db,       \* the rows: withdrawal, purchase, grant, failures (of the market)
  durable,  \* the prefix of its commits that would survive a power loss
  at,       \* the step each worker is at
  hand,     \* the grant each worker has in hand
  back,     \* the part of acquireAndSend the engine's grant is for
  boot,     \* Run has not finished recover(force = true)
  manual,   \* manual grants the tick has read, with their being requested
  rows,     \* withdrawals the current part has read and not yet handled
  cur,      \* the withdrawal in hand
  seen,     \* what acquireAndSend has read: energy, bandwidth, w.Status
  source,   \* the local energySource
  circuit,  \* circuitUntil is in the future
  lapsed,   \* withdrawals whose open purchase is past its poll timeout
  late,     \* grants whose transaction or whose resources are overdue
  net,      \* what became of each grant's transaction
  sent,     \* number of broadcast requests issued for each grant
  calls,    \* number of Purchase calls issued for each withdrawal
  faults    \* errors, crashes and power losses so far

storeVars  == <<db, durable>>
engineVars == <<back, boot, manual, rows, cur, seen, source, circuit>>
stepVars   == <<at, hand>>
clockVars  == <<lapsed, late>>
worldVars  == <<net, sent, calls>>
vars == <<storeVars, engineVars, stepVars, clockVars, worldVars, faults>>

Awaiting == {"awaiting_resources", "awaiting_energy"}
Sources == {"", "existing", "rented", "self_delegated", "burned"}
OnChain == {"solid", "reverted"}

Database == [
  withdrawal : [Withdrawals -> [status : Awaiting \cup {"signing", "failed", "needs_operator"},
                                source : Sources]],
  purchase : [Withdrawals -> {"none", "quoted", "purchased", "delegated", "failed", "expired"}],
  grant : [Grants -> [status : {"none", "requested", "attempted", "broadcast",
                                "confirmed", "failed", "needs_operator"},
                      attempted : BOOLEAN, lookups : 0..LookupLimit, receipt : BOOLEAN]],
  failures : 0..FailureLimit]

NewGrant == [status |-> "requested", attempted |-> FALSE, lookups |-> 0, receipt |-> FALSE]
NoSight == [energy |-> FALSE, bandwidth |-> FALSE, status |-> "awaiting_resources"]

TypeOK ==
  /\ db \in Database /\ durable \in Database
  /\ at \in [Workers -> {"idle", "start", "persist", "send", "record", "recordRejected",
       "verify", "manual", "rows", "closeRental", "read", "energy", "existing", "rent",
       "quoted", "purchase", "failRental", "blame", "rented", "delegate", "burn",
       "bandwidth", "delegateBandwidth", "waits", "unavailable", "fail", "spare", "sign",
       "reconcile", "receipt", "absent", "outcome", "reverted", "giveUp", "escalate"}]
  /\ hand \in [Workers -> Grants \cup {NoGrant}]
  /\ back \in {"manual", "existing", "burn", "unavailable", "spare"}
  /\ boot \in BOOLEAN /\ circuit \in BOOLEAN
  /\ manual \subseteq ManualGrants \X BOOLEAN
  /\ rows \subseteq Withdrawals /\ cur \in Withdrawals \cup {NoWithdrawal}
  /\ seen \in [energy : BOOLEAN, bandwidth : BOOLEAN, status : Awaiting]
  /\ source \in Sources
  /\ lapsed \subseteq Withdrawals /\ late \subseteq Grants
  /\ net \in [Grants -> OnChain \cup {"unsent", "pending", "gone"}]
  /\ sent \in [Grants -> Nat] /\ calls \in [Withdrawals -> Nat]
  /\ faults \in Nat

\* The withdrawals have been claimed: see the module Withdrawal.
Init ==
  /\ db = [withdrawal |-> [w \in Withdrawals |-> [status |-> "awaiting_resources", source |-> ""]],
           purchase |-> [w \in Withdrawals |-> "none"],
           grant |-> [g \in Grants |-> [NewGrant EXCEPT !.status = "none"]],
           failures |-> 0]
  /\ durable = db
  /\ at = [p \in Workers |-> "idle"] /\ hand = [p \in Workers |-> NoGrant]
  /\ back = "manual" /\ boot = TRUE /\ manual = {} /\ rows = {}
  /\ cur = NoWithdrawal /\ seen = NoSight /\ source = "" /\ circuit = FALSE
  /\ lapsed = {} /\ late = {}
  /\ net = [g \in Grants |-> "unsent"] /\ sent = [g \in Grants |-> 0]
  /\ calls = [w \in Withdrawals |-> 0]
  /\ faults = 0

-----------------------------------------------------------------------------
(* Commits, as in the module Withdrawal: the normal handle's are synced some *)
(* time later, the full handle syncs its own and every earlier one.          *)

Commit(d) == db' = d /\ (durable' = d \/ (CanLosePower /\ UNCHANGED durable))
CommitFull(d) == db' = d /\ durable' = d

\* The UPDATE statements of the store, each with its WHERE clause.

FailGrant(g) ==
  IF db.grant[g].status \in {"confirmed", "failed"} THEN db
  ELSE [db EXCEPT !.grant[g].status = "failed"]

ConfirmGrant(g) ==
  IF db.grant[g].status \in {"confirmed", "failed"} THEN db
  ELSE [db EXCEPT !.grant[g].status = "confirmed"]

GrantNeedsOperator(g) ==
  IF db.grant[g].status \in {"confirmed", "failed", "needs_operator"} THEN db
  ELSE [db EXCEPT !.grant[g].status = "needs_operator"]

FailResources(w) ==
  IF db.withdrawal[w].status \notin Awaiting THEN db
  ELSE [db EXCEPT !.withdrawal[w].status = "failed"]

WithdrawalNeedsOperator(w) ==
  IF db.withdrawal[w].status \notin Awaiting THEN db
  ELSE [db EXCEPT !.withdrawal[w].status = "needs_operator"]

-----------------------------------------------------------------------------
(* Moving a worker.                                                          *)

Goto(p, s) == at' = [at EXCEPT ![p] = s] /\ UNCHANGED hand

\* The engine alone takes a step, and only the local state named changes.
Engine(s) == at["engine"] = s
EngineGoto(s) == Goto("engine", s) /\ UNCHANGED engineVars

\* Take grant g in hand at step s, and resume at b once it is decided.
TakeGrant(g, s, b) ==
  /\ at' = [at EXCEPT !["engine"] = s] /\ hand' = [hand EXCEPT !["engine"] = g]
  /\ back' = b
  /\ UNCHANGED <<boot, rows, cur, seen, source, circuit>>

\* Where the engine goes when the withdrawal has to wait for the grant in hand.
Waits == CASE back = "manual" -> "manual"
           [] back = "unavailable" -> "waits"
           [] OTHER -> "rows"

\* The engine is done with the withdrawal in hand, and forgets what it read.
Leave(s) ==
  /\ at' = [at EXCEPT !["engine"] = s] /\ hand' = [hand EXCEPT !["engine"] = NoGrant]
  /\ cur' = NoWithdrawal /\ seen' = NoSight /\ source' = "" /\ back' = "manual"
  /\ UNCHANGED <<boot, circuit>>

\* The next withdrawal of the tick.
NextRow == Leave("rows") /\ UNCHANGED <<manual, rows>>

\* The grant in hand is pending, or there is no more to expect of it.
Return(p, pending) ==
  LET s == IF p = "api" THEN "idle" ELSE IF pending THEN Waits ELSE back IN
  IF s = "rows" THEN NextRow
  ELSE /\ at' = [at EXCEPT ![p] = s] /\ hand' = [hand EXCEPT ![p] = NoGrant]
       /\ UNCHANGED engineVars

\* The API's request ends, or the engine's tick does, in the middle of its work.
Stop(p) ==
  \/ /\ p = "api"
     /\ at' = [at EXCEPT ![p] = "idle"] /\ hand' = [hand EXCEPT ![p] = NoGrant]
     /\ UNCHANGED engineVars
  \/ p = "engine" /\ Leave("idle") /\ manual' = {} /\ rows' = {}

Still == UNCHANGED <<clockVars, worldVars, faults>>

-----------------------------------------------------------------------------
(* One delegation or top-up, by the engine or by the API.                    *)

MoreGrants == Cardinality({g \in Grants : db.grant[g].status # "none"}) < MaxGrants

\* DelegateResources: the request is recorded, then started by the API itself.
RequestDelegation(g) ==
  /\ at["api"] = "idle" /\ g \in ManualGrants /\ db.grant[g].status = "none"
  /\ MoreGrants
  /\ Commit([db EXCEPT !.grant[g] = NewGrant])
  /\ at' = [at EXCEPT !["api"] = "start"] /\ hand' = [hand EXCEPT !["api"] = g]
  /\ UNCHANGED engineVars /\ Still

\* A read, the signature or a check on it fails: FailResourceGrant, whatever
\* another worker has done with the row since it was read.
StartFails(p) ==
  /\ at[p] = "start"
  /\ Commit(FailGrant(hand[p]))
  /\ Return(p, FALSE)
  /\ Still

StartSigns(p) ==
  /\ at[p] = "start"
  /\ Goto(p, "persist")
  /\ UNCHANGED <<storeVars, engineVars>> /\ Still

\* Mutant: the attempt is not checked to be unspent.
UnspentIfOpen(g) == db.grant[g].status \notin {"confirmed", "failed"}

\* The WHERE clause of PersistResourceGrantAttempt.
Unspent(g) == db.grant[g].status = "requested" /\ ~db.grant[g].attempted

\* The attempt is on disk before the broadcast (RES-008, RES-013).
Persist(p) ==
  /\ at[p] = "persist" /\ Unspent(hand[p])
  /\ CommitFull([db EXCEPT !.grant[hand[p]].status = "attempted",
                           !.grant[hand[p]].attempted = TRUE])
  /\ Goto(p, "send")
  /\ UNCHANGED engineVars /\ Still

\* The attempt is spent: an error, which ends the engine's tick.
PersistRefused(p) ==
  /\ at[p] = "persist" /\ ~Unspent(hand[p])
  /\ Stop(p)
  /\ UNCHANGED storeVars /\ Still

\* The one request.  A deterministic rejection: the network never has it; an
\* accepted or ambiguous answer: it may.
SendGrant(p, rejected) ==
  /\ at[p] = "send"
  /\ sent' = [sent EXCEPT ![hand[p]] = @ + 1]
  /\ \E t \in {"pending", "gone"} :
       /\ rejected \/ hand[p] \in late => t = "gone"
       /\ net' = [net EXCEPT ![hand[p]] = t]
  /\ Goto(p, IF rejected THEN "recordRejected" ELSE "record")
  /\ UNCHANGED <<calls, storeVars, engineVars, clockVars, faults>>

RecordSent(p) ==
  /\ at[p] \in {"record", "recordRejected"}
  /\ CommitFull([db EXCEPT !.grant[hand[p]].status = IF @ = "attempted" THEN "broadcast" ELSE @])
  /\ IF at[p] = "record" THEN Return(p, TRUE) ELSE (Goto(p, "verify") /\ UNCHANGED engineVars)
  /\ Still

\* A rejected broadcast is looked up at once: absent, it has failed.  An
\* error leaves it pending.
Verify(p) ==
  /\ at[p] = "verify"
  /\ \/ net[hand[p]] \notin OnChain /\ Commit(FailGrant(hand[p])) /\ Return(p, FALSE)
     \/ UNCHANGED storeVars /\ Return(p, TRUE)
  /\ Still

-----------------------------------------------------------------------------
(* reconcileResourceGrant, by the engine.                                    *)

Mine == hand["engine"]

\* The grant as its caller read it is decided, or was never broadcast.  A
\* manual grant was read, attempted and undecided, when the tick began.
NothingToReconcile ==
  /\ Mine \notin ManualGrants
  /\ db.grant[Mine].status \in {"failed", "confirmed"} \/ ~db.grant[Mine].attempted

ReconcileNothing ==
  /\ Engine("reconcile") /\ NothingToReconcile
  /\ Return("engine", FALSE)
  /\ UNCHANGED storeVars /\ Still

Reconcilable == Engine("reconcile") /\ ~NothingToReconcile

\* gettransactionbyid answers; the failures before it are forgotten.
Lookup ==
  /\ Reconcilable
  /\ Commit([db EXCEPT !.grant[Mine].lookups = 0])
  /\ EngineGoto(IF net[Mine] \in OnChain THEN "receipt" ELSE "absent")
  /\ Still

\* The lookup, or the receipt after it, gives no answer that can be read.
LookupFails ==
  /\ Reconcilable \/ Engine("receipt")
  /\ LET n == db.grant[Mine].lookups + 1 IN
       IF n < LookupLimit
       THEN Commit([db EXCEPT !.grant[Mine].lookups = n]) /\ Return("engine", TRUE)
       ELSE Commit([db EXCEPT !.grant[Mine].lookups = LookupLimit]) /\ EngineGoto("giveUp")
  /\ Still

\* WDR-000b: the operator decides, about the grant and about its withdrawal.
GiveUp ==
  /\ Engine("giveUp")
  /\ Commit(GrantNeedsOperator(Mine))
  /\ IF Mine \in ManualGrants THEN Return("engine", FALSE) ELSE EngineGoto("escalate")
  /\ Still

Escalate ==
  /\ Engine("escalate")
  /\ Commit(WithdrawalNeedsOperator(cur))
  /\ Return("engine", FALSE)
  /\ Still

\* Absent: the clock is read after the answer.
ApplyAbsent ==
  /\ Engine("absent")
  /\ IF Mine \in late
     THEN Commit(FailGrant(Mine)) /\ Return("engine", FALSE)
     ELSE UNCHANGED storeVars /\ Return("engine", TRUE)
  /\ Still

ReceiptMissing ==
  /\ Engine("receipt")
  /\ Return("engine", TRUE)
  /\ UNCHANGED storeVars /\ Still

\* The solid receipt, and the fee it debits, are recorded once.
ReceiptSolid ==
  /\ Engine("receipt") /\ net[Mine] \in {"solid", "reverted"}
  /\ Commit([db EXCEPT !.grant[Mine].receipt = TRUE, !.grant[Mine].lookups = 0])
  /\ EngineGoto(IF net[Mine] = "solid" THEN "outcome" ELSE "reverted")
  /\ Still

\* Mutant: a grant that was solid is waited for without end.
OutcomeWaits ==
  /\ Engine("outcome")
  /\ IF Mine \in ManualGrants
     THEN Commit(ConfirmGrant(Mine)) /\ Return("engine", FALSE)
     ELSE UNCHANGED storeVars /\ Return("engine", TRUE)
  /\ Still

\* A manual delegation is done.  One for a withdrawal must also become visible
\* in the account before it is overdue.
Outcome ==
  /\ Engine("outcome")
  /\ IF Mine \in ManualGrants
     THEN Commit(ConfirmGrant(Mine)) /\ Return("engine", FALSE)
     ELSE IF Mine \in late
     THEN Commit(FailGrant(Mine)) /\ Return("engine", FALSE)
     ELSE UNCHANGED storeVars /\ Return("engine", TRUE)
  /\ Still

OutcomeReverted ==
  /\ Engine("reverted")
  /\ Commit(FailGrant(Mine))
  /\ Return("engine", FALSE)
  /\ Still

-----------------------------------------------------------------------------
(* The engine's tick: the manual grants, then the withdrawals that wait.  At *)
(* boot only those that have waited long are taken, and Run starts to tick.  *)

BeginTick ==
  /\ Engine("idle")
  /\ manual' = {<<g, db.grant[g].status = "requested">> : g \in
       {m \in ManualGrants : db.grant[m].status \in {"requested", "attempted", "broadcast"}}}
  /\ Goto("engine", "manual")
  /\ UNCHANGED <<back, boot, rows, cur, seen, source, circuit, storeVars>> /\ Still

\* The row goes by the status it had when the tick began.
TakeManual(g, requested) ==
  /\ Engine("manual") /\ <<g, requested>> \in manual
  /\ manual' = manual \ {<<g, requested>>}
  /\ TakeGrant(g, IF requested THEN "start" ELSE "reconcile", "manual")
  /\ UNCHANGED storeVars /\ Still

Waiting == {w \in Withdrawals : db.withdrawal[w].status \in Awaiting}

ManualDone ==
  /\ Engine("manual") /\ manual = {}
  /\ \E aged \in SUBSET Waiting : rows' = IF boot THEN aged ELSE Waiting
  /\ Goto("engine", "rows")
  /\ UNCHANGED <<back, boot, manual, cur, seen, source, circuit, storeVars>> /\ Still

TakeRow(w) ==
  /\ Engine("rows") /\ w \in rows
  /\ rows' = rows \ {w} /\ cur' = w
  /\ seen' = [NoSight EXCEPT !.status = db.withdrawal[w].status]
  /\ Goto("engine", IF boot /\ db.withdrawal[w].status = "awaiting_energy"
                    THEN "closeRental" ELSE "read")
  /\ UNCHANGED <<back, boot, manual, source, circuit, storeVars>> /\ Still

RowsDone ==
  /\ Engine("rows") /\ rows = {}
  /\ boot' = FALSE
  /\ Goto("engine", "idle")
  /\ UNCHANGED <<back, manual, rows, cur, seen, source, circuit, storeVars>> /\ Still

\* WDR-019: a rental that was being waited for when the process died has come
\* or has not.
CloseRental ==
  /\ Engine("closeRental")
  /\ \E status \in {"delegated", "expired"} :
       Commit(IF db.purchase[cur] # "purchased" THEN db
              ELSE [db EXCEPT !.purchase[cur] = status])
  /\ EngineGoto("read")
  /\ Still

-----------------------------------------------------------------------------
(* acquireAndSend: what the account has, then energy, then bandwidth.        *)

\* Change the local energySource and go on.
From(src, s) ==
  /\ source' = src
  /\ Goto("engine", s)
  /\ UNCHANGED <<back, boot, manual, rows, cur, seen, circuit>>
  /\ Still

NotDue ==
  /\ Engine("read") /\ seen.status = "awaiting_energy" /\ db.purchase[cur] = "purchased"
  /\ NextRow /\ UNCHANGED storeVars /\ Still

Read(energy, bandwidth) ==
  /\ Engine("read")
  /\ seen' = [seen EXCEPT !.energy = energy, !.bandwidth = bandwidth]
  /\ source' = db.withdrawal[cur].source
  /\ Goto("engine", "energy")
  /\ UNCHANGED <<back, boot, manual, rows, cur, circuit, storeVars>> /\ Still

Arrived == seen.energy /\ db.purchase[cur] = "purchased"
SourceRead == IF db.purchase[cur] = "delegated" THEN "rented" ELSE source

\* finishRental: the market is asked, and believed until the poll timeout.
RentalUnfinished ==
  /\ Engine("energy") /\ Arrived /\ cur \notin lapsed
  /\ NextRow /\ UNCHANGED storeVars /\ Still

FinishRental ==
  /\ Engine("energy") /\ Arrived
  /\ Commit([db EXCEPT !.purchase[cur] = "delegated"])
  /\ EngineGoto("rented")
  /\ Still

RentalFinished ==
  /\ Engine("rented")
  /\ Commit([db EXCEPT !.failures = 0])
  /\ circuit' = FALSE /\ source' = "rented"
  /\ Goto("engine", "bandwidth")
  /\ UNCHANGED <<back, boot, manual, rows, cur, seen>> /\ Still

NeedsEnergy == ~seen.energy /\ SourceRead # "burned"

\* SetWithdrawalResourceState(w.Status, s): nothing if the status has changed.
SetStatus(s, src) ==
  IF db.withdrawal[cur].status # seen.status THEN db
  ELSE [db EXCEPT !.withdrawal[cur].status = s,
                  !.withdrawal[cur].source = IF src = "" THEN @ ELSE src]

AwaitEnergy ==
  /\ Engine("energy") /\ ~Arrived /\ NeedsEnergy
  /\ IF seen.status = "awaiting_energy" THEN UNCHANGED storeVars
     ELSE Commit(SetStatus("awaiting_energy", ""))
  /\ IF seen.status # "awaiting_energy" /\ db.withdrawal[cur].status # seen.status
     THEN NextRow
     ELSE /\ seen' = [seen EXCEPT !.status = "awaiting_energy"] /\ source' = SourceRead
          /\ Goto("engine", "rent")
          /\ UNCHANGED <<back, boot, manual, rows, cur, circuit>>
  /\ Still

EnergyGrant == <<cur, "ENERGY">>
BandwidthGrant == <<cur, "BANDWIDTH">>
Live(g) == db.grant[g].status \notin {"none", "failed"}
NeedsReceipt(g) == db.grant[g].attempted /\ ~db.grant[g].receipt

HasEnergy ==
  /\ Engine("energy") /\ ~Arrived /\ ~NeedsEnergy
  /\ \/ SourceRead # "" /\ From(SourceRead, "bandwidth")
     \/ SourceRead = "" /\ ~Live(EnergyGrant) /\ From("existing", "bandwidth")
  /\ UNCHANGED storeVars

\* The energy comes from a grant: its receipt first.
HasGrantedEnergy ==
  /\ Engine("energy") /\ ~Arrived /\ ~NeedsEnergy
  /\ SourceRead = "" /\ Live(EnergyGrant)
  /\ TakeGrant(EnergyGrant, IF NeedsReceipt(EnergyGrant) THEN "reconcile" ELSE "existing", "existing")
  /\ UNCHANGED <<manual, storeVars>> /\ Still

ConfirmEnergy ==
  /\ Engine("existing")
  /\ Commit(ConfirmGrant(EnergyGrant))
  /\ From("self_delegated", "bandwidth")

-----------------------------------------------------------------------------
(* Tier 1, tryRental.                                                        *)

RentalDecided ==
  /\ Engine("rent")
  /\ \/ db.purchase[cur] = "delegated" /\ From("rented", "bandwidth")
     \/ db.purchase[cur] \in {"failed", "expired"} /\ EngineGoto("delegate") /\ Still
  /\ UNCHANGED storeVars

\* Mutant: a market without an answer is passed over, its order left open.
PollRentalGivesUp ==
  /\ Engine("rent") /\ db.purchase[cur] = "purchased"
  /\ \/ cur \notin lapsed /\ EngineGoto("delegate")
     \/ EngineGoto("failRental")
  /\ UNCHANGED storeVars /\ Still

\* The market is asked for the order it has: it waits, or the order failed.
PollRental ==
  /\ Engine("rent") /\ db.purchase[cur] = "purchased"
  /\ \/ cur \notin lapsed /\ NextRow
     \/ EngineGoto("failRental")
  /\ UNCHANGED storeVars /\ Still

Unrented == Engine("rent") /\ db.purchase[cur] \in {"none", "quoted"}

\* No market, its circuit is open, or no price from it.
RentalSkipped ==
  /\ Unrented
  /\ \/ (~Rental \/ circuit) /\ EngineGoto("delegate")
     \/ Rental /\ ~circuit /\ EngineGoto("blame")
  /\ UNCHANGED storeVars /\ Still

Quote ==
  /\ Unrented /\ Rental /\ ~circuit
  /\ Commit([db EXCEPT !.purchase[cur] = "quoted"])
  /\ EngineGoto("quoted")
  /\ Still

QuoteTooDear ==
  /\ Engine("quoted")
  /\ Commit([db EXCEPT !.purchase[cur] = "failed"])
  /\ EngineGoto("delegate")
  /\ Still

\* The attempt is on disk before the market is called.
MarkPurchase ==
  /\ Engine("quoted")
  /\ CommitFull([db EXCEPT !.purchase[cur] = "purchased"])
  /\ EngineGoto("purchase")
  /\ Still

\* An error is ambiguous, and waits like an order that was taken.
Purchase ==
  /\ Engine("purchase")
  /\ calls' = [calls EXCEPT ![cur] = @ + 1]
  /\ NextRow \/ EngineGoto("failRental")
  /\ UNCHANGED <<net, sent, storeVars, clockVars, faults>>

FailRental ==
  /\ Engine("failRental")
  /\ Commit([db EXCEPT !.purchase[cur] = "failed"])
  /\ EngineGoto("blame")
  /\ lapsed' = lapsed \ {cur}
  /\ UNCHANGED <<late, worldVars, faults>>

\* Mutant: the failures of the market are counted past the limit.
BlameForever ==
  /\ Engine("blame")
  /\ Commit([db EXCEPT !.failures = @ + 1])
  /\ circuit' = (circuit \/ db.failures + 1 = FailureLimit)
  /\ Goto("engine", "delegate")
  /\ UNCHANGED <<back, boot, manual, rows, cur, seen, source>> /\ Still

\* recordProviderFailure: enough of them in a row open the circuit.
Blame ==
  /\ Engine("blame")
  /\ LET n == IF db.failures < FailureLimit THEN db.failures + 1 ELSE FailureLimit IN
       /\ Commit([db EXCEPT !.failures = n])
       /\ circuit' = (circuit \/ n = FailureLimit)
  /\ Goto("engine", "delegate")
  /\ UNCHANGED <<back, boot, manual, rows, cur, seen, source>> /\ Still

-----------------------------------------------------------------------------
(* Tier 2, the resource wallet, for energy and for bandwidth.                *)

\* ensureDelegation and ensureTopup: one grant per withdrawal and type, ever.
\* No amount can be computed: there is nothing to wait for.
Ensure(g, s, b) ==
  /\ Engine(s)
  /\ \/ /\ db.grant[g].status = "none"
        /\ \/ MoreGrants /\ Commit([db EXCEPT !.grant[g] = NewGrant]) /\ TakeGrant(g, "start", b)
           \/ UNCHANGED storeVars /\ TakeGrant(NoGrant, b, b)
     \/ /\ db.grant[g].status # "none"
        /\ TakeGrant(g, IF db.grant[g].status = "requested" THEN "start" ELSE "reconcile", b)
        /\ UNCHANGED storeVars
  /\ UNCHANGED manual /\ Still

DelegateEnergy == Ensure(EnergyGrant, "delegate", "burn")
GrantBandwidth == Ensure(BandwidthGrant, "delegateBandwidth", "unavailable")

-----------------------------------------------------------------------------
(* Tier 3, burning TRX.                                                      *)

Burn ==
  /\ Engine("burn") /\ FallbackToBurn
  /\ From("burned", "bandwidth")
  /\ UNCHANGED storeVars

\* No fallback, more than energy.max_burn_trx, or more than the account has.
BurnRefused ==
  /\ Engine("burn")
  /\ Commit(FailResources(cur))
  /\ NextRow /\ Still

-----------------------------------------------------------------------------
(* Bandwidth, the last gate before signing (WDR-009h).                       *)

HasBandwidth ==
  /\ Engine("bandwidth") /\ seen.bandwidth
  /\ IF Live(BandwidthGrant)
     THEN /\ TakeGrant(BandwidthGrant,
               IF NeedsReceipt(BandwidthGrant) THEN "reconcile" ELSE "spare", "spare")
          /\ UNCHANGED manual
     ELSE EngineGoto("sign")
  /\ UNCHANGED storeVars /\ Still

\* canBurnBandwidth: the account holds TRX enough; a top-up has done its work.
BurnBandwidth ==
  /\ Engine("bandwidth") /\ ~seen.bandwidth
  /\ EngineGoto(IF Topup /\ Live(BandwidthGrant) THEN "spare" ELSE "sign")
  /\ UNCHANGED storeVars /\ Still

ConfirmBandwidth ==
  /\ Engine("spare")
  /\ Commit(ConfirmGrant(BandwidthGrant))
  /\ EngineGoto("sign")
  /\ Still

AwaitBandwidth ==
  /\ Engine("bandwidth") /\ ~seen.bandwidth
  /\ IF seen.status = "awaiting_resources" THEN UNCHANGED storeVars
     ELSE Commit(SetStatus("awaiting_resources", source))
  /\ IF seen.status # "awaiting_resources" /\ db.withdrawal[cur].status # seen.status
     THEN NextRow
     ELSE /\ seen' = [seen EXCEPT !.status = "awaiting_resources"]
          /\ Goto("engine", "delegateBandwidth")
          /\ UNCHANGED <<back, boot, manual, rows, cur, source, circuit>>
  /\ Still

\* The sources are noted, whether the withdrawal waits or fails.
NoteSources ==
  /\ at["engine"] \in {"waits", "unavailable"}
  /\ Commit(SetStatus(seen.status, source))
  /\ IF Engine("waits") THEN NextRow ELSE EngineGoto("fail")
  /\ Still

BandwidthUnavailable ==
  /\ Engine("fail")
  /\ Commit(FailResources(cur))
  /\ NextRow /\ Still

\* From here the module Withdrawal goes on.
Sign ==
  /\ Engine("sign")
  /\ Commit(SetStatus("signing", source))
  /\ NextRow /\ Still

-----------------------------------------------------------------------------
(* Errors, crashes and power losses.                                         *)

\* An error ends the tick, or the request.  A broadcast's error is an answer.
Abort(p) ==
  /\ faults < MaxFaults /\ faults' = faults + 1
  /\ at[p] \notin {"idle", "send", "purchase"}
  /\ Stop(p)
  /\ UNCHANGED <<storeVars, clockVars, worldVars>>

Restart ==
  /\ faults < MaxFaults /\ faults' = faults + 1
  /\ at' = [p \in Workers |-> "idle"] /\ hand' = [p \in Workers |-> NoGrant]
  /\ boot' = TRUE /\ manual' = {} /\ rows' = {} /\ cur' = NoWithdrawal
  /\ seen' = NoSight /\ source' = "" /\ circuit' = FALSE /\ back' = "manual"
  /\ UNCHANGED <<clockVars, worldVars>>

Crash == Restart /\ UNCHANGED storeVars
PowerLoss == CanLosePower /\ Restart /\ db' = durable /\ UNCHANGED durable

-----------------------------------------------------------------------------
(* The chain and the clocks.                                                 *)

World == UNCHANGED <<storeVars, engineVars, stepVars, sent, calls, faults>>
NetBecomes(g, t) == net' = [net EXCEPT ![g] = t] /\ UNCHANGED clockVars /\ World

\* A block takes it, and the contract grants or reverts.  Until the block is
\* solid the receipt is missing (ReceiptMissing).
Land(g) ==
  /\ net[g] = "pending"
  /\ NetBecomes(g, "solid") \/ NetBecomes(g, "reverted")

\* Its expiration passes, after which it can no longer land; or, if it has
\* landed by then, the time that its resources are waited for.
Expire(g) ==
  /\ db.grant[g].attempted /\ g \notin late
  /\ late' = late \cup {g}
  /\ net' = [net EXCEPT ![g] = IF @ = "pending" THEN "gone" ELSE @]
  /\ UNCHANGED lapsed /\ World

Lapse(w) ==
  /\ db.purchase[w] = "purchased" /\ w \notin lapsed
  /\ lapsed' = lapsed \cup {w}
  /\ UNCHANGED <<net, late>> /\ World

\* Ten minutes have passed.
CloseCircuit ==
  /\ circuit /\ circuit' = FALSE
  /\ UNCHANGED <<storeVars, stepVars, back, boot, manual, rows, cur, seen, source>> /\ Still

-----------------------------------------------------------------------------

Delegates(p) ==
  \/ StartFails(p) \/ StartSigns(p) \/ Persist(p) \/ PersistRefused(p)
  \/ (\E rejected \in BOOLEAN : SendGrant(p, rejected))
  \/ RecordSent(p) \/ Verify(p)

Reconciles ==
  \/ ReconcileNothing \/ Lookup \/ LookupFails \/ GiveUp \/ Escalate
  \/ ApplyAbsent \/ ReceiptMissing \/ ReceiptSolid \/ Outcome \/ OutcomeReverted

Walks ==
  \/ BeginTick \/ ManualDone \/ RowsDone \/ CloseRental
  \/ (\E g \in ManualGrants, requested \in BOOLEAN : TakeManual(g, requested))
  \/ (\E w \in Withdrawals : TakeRow(w))

Rents ==
  \/ RentalUnfinished \/ FinishRental \/ RentalFinished \/ RentalDecided \/ PollRental
  \/ RentalSkipped \/ Quote \/ QuoteTooDear \/ MarkPurchase \/ Purchase
  \/ FailRental \/ Blame

Acquires ==
  \/ (\E energy, bandwidth \in BOOLEAN : Read(energy, bandwidth))
  \/ AwaitEnergy \/ HasEnergy \/ HasGrantedEnergy \/ ConfirmEnergy
  \/ DelegateEnergy \/ GrantBandwidth \/ Burn \/ BurnRefused
  \/ HasBandwidth \/ BurnBandwidth \/ ConfirmBandwidth \/ AwaitBandwidth
  \/ NoteSources \/ BandwidthUnavailable \/ Sign

EngineStep == Walks \/ Acquires \/ Rents \/ Reconciles \/ NotDue \/ Delegates("engine")

Next ==
  \/ EngineStep \/ Delegates("api")
  \/ (\E g \in ManualGrants : RequestDelegation(g))
  \/ (\E g \in Grants : Land(g) \/ Expire(g))
  \/ (\E w \in Withdrawals : Lapse(w))
  \/ CloseCircuit
  \/ (\E p \in Workers : Abort(p)) \/ Crash \/ PowerLoss

Spec == Init /\ [][Next]_vars

\* The engine's goroutine goes on; the account's reading and the receipt of a
\* solid block are got in the end; blocks solidify and clocks advance.
FairSpec ==
  /\ Spec
  /\ WF_vars(EngineStep)
  /\ SF_vars(\E energy, bandwidth \in BOOLEAN : Read(energy, bandwidth))
  /\ SF_vars(ReceiptSolid)
  /\ \A g \in Grants : WF_vars(Expire(g))
  /\ \A w \in Withdrawals : WF_vars(Lapse(w))

-----------------------------------------------------------------------------
(* Properties.                                                               *)

\* WDR-000, ENR-009: nothing is bought or broadcast twice, whatever crashes,
\* power losses and answers lost lie between, and whichever of the engine and
\* the API starts a delegation.
PaidOnce ==
  /\ \A g \in Grants : sent[g] <= 1
  /\ \A w \in Withdrawals : calls[w] <= 1

\* RES-015, ENR-008: TRX is burned last.  A withdrawal that is signed on a burn
\* has no purchase that may still be delivered, and no delegation of energy
\* that is open.
BurnIsLast ==
  \A w \in Withdrawals :
    db.withdrawal[w].status = "signing" /\ db.withdrawal[w].source = "burned" =>
      /\ db.purchase[w] # "purchased"
      /\ db.grant[<<w, "ENERGY">>].status \in {"none", "confirmed", "failed"}

\* WDR-000a: nothing paid for is left behind.  A withdrawal goes to signing with
\* no grant in flight, for nobody looks such a grant up again.
NothingLeftBehind ==
  \A w \in Withdrawals, type \in Types :
    db.withdrawal[w].status = "signing"
      => db.grant[<<w, type>>].status \notin {"attempted", "broadcast"}

\* WDR-009g: a withdrawal does not wait, and hold its address, without end:
\* whatever the market, the resource wallet and the account do, it goes on to
\* signing, fails or is left to the operator.
AcquisitionEnds ==
  \A w \in Withdrawals :
    db.withdrawal[w].status \in Awaiting ~> db.withdrawal[w].status \notin Awaiting
=============================================================================
