--------------------------- MODULE SourcingProofs ---------------------------
(***************************************************************************)
(* Proof that the module Sourcing buys and broadcasts nothing twice, for   *)
(* any number of withdrawals and of manual delegations, any settings, any  *)
(* number of crashes, power losses and errors.                             *)
(***************************************************************************)
EXTENDS Sourcing, TLAPS

-----------------------------------------------------------------------------
(* The invariant.                                                            *)

Shape(d) ==
  /\ DOMAIN d = {"withdrawal", "purchase", "grant", "failures"}
  /\ DOMAIN d.purchase = Withdrawals /\ DOMAIN d.grant = Grants
  /\ \A g \in Grants : /\ DOMAIN d.grant[g] = {"status", "attempted", "lookups", "receipt"}
                       /\ d.grant[g].attempted \in BOOLEAN
                       /\ d.grant[g].status = "none" => d.grant[g].attempted = FALSE

Bought(d, w) == d.purchase[w] \notin {"none", "quoted"}

\* A power loss does not forget an attempt: every attempt is synced before it is made.
AttemptsSynced ==
  \A g \in Grants : durable.grant[g].attempted = db.grant[g].attempted

\* What was sent has an attempt on disk, and the attempt of a worker that is about to
\* send is unsent and its own.
SendsAttempted ==
  /\ sent \in [Grants -> {0, 1}]
  /\ \A g \in Grants : sent[g] = 1 => db.grant[g].attempted = TRUE
  /\ DOMAIN at = Workers /\ DOMAIN hand = Workers
  /\ \A p \in Workers : at[p] = "send" /\ hand[p] \in Grants =>
       db.grant[hand[p]].attempted = TRUE /\ sent[hand[p]] = 0
  /\ \A p, q \in Workers : /\ at[p] = "send" /\ at[q] = "send"
                           /\ hand[p] = hand[q] /\ hand[p] \in Grants
                           => p = q

\* A market that was called has a purchase on disk, and one that is about to be called
\* has not been called before.
CallsBought ==
  /\ calls \in [Withdrawals -> {0, 1}]
  /\ \A w \in Withdrawals : calls[w] = 1 => Bought(db, w) /\ Bought(durable, w)
  /\ at["engine"] = "quoted" /\ cur \in Withdrawals => db.purchase[cur] = "quoted"
  /\ at["engine"] = "purchase" /\ cur \in Withdrawals =>
       Bought(db, cur) /\ Bought(durable, cur) /\ calls[cur] = 0

Backs == {"manual", "existing", "burn", "unavailable", "spare"}

SourcingInv ==
  /\ Shape(db) /\ Shape(durable) /\ AttemptsSynced
  /\ SendsAttempted /\ CallsBought /\ back \in Backs

\* Withdrawals as they are claimed: nothing was sent or bought.
LEMMA SourcingInit == Init => SourcingInv
<1> SUFFICES ASSUME Init PROVE SourcingInv
  OBVIOUS
<1>1. Shape(db) /\ durable = db
  BY DEF Init, Shape, NewGrant
<1>2. /\ sent = [g \in Grants |-> 0] /\ calls = [w \in Withdrawals |-> 0]
      /\ at = [p \in Workers |-> "idle"] /\ DOMAIN hand = Workers /\ back = "manual"
  BY DEF Init
<1>3. QED
  BY <1>1, <1>2 DEF SourcingInv, Backs, AttemptsSynced, SendsAttempted, CallsBought, Workers

-----------------------------------------------------------------------------
(* What the statements of the store leave: attempts, and purchases made.     *)

Grows(e) ==
  /\ Shape(e)
  /\ \A g \in Grants : e.grant[g].attempted = db.grant[g].attempted
  /\ \A w \in Withdrawals : Bought(db, w) => Bought(e, w)

\* Every statement on a grant or a withdrawal.
LEMMA StatementsGrow ==
  ASSUME SourcingInv, NEW g
  PROVE  /\ Grows(FailGrant(g)) /\ FailGrant(g).purchase = db.purchase
         /\ Grows(ConfirmGrant(g)) /\ Grows(GrantNeedsOperator(g))
         /\ Grows(FailResources(g)) /\ Grows(WithdrawalNeedsOperator(g)) /\ Grows(db)
<1>0. Grows(db)
  BY DEF SourcingInv, Grows
<1>1. ASSUME NEW status, status # "none", NEW e, e = [db EXCEPT !.grant[g].status = status]
      PROVE  Grows(e) /\ e.purchase = db.purchase
  BY <1>1 DEF SourcingInv, Shape, Grows, Bought
<1>2. ASSUME NEW status, NEW e, e = [db EXCEPT !.withdrawal[g].status = status]
      PROVE  Grows(e)
  BY <1>2 DEF SourcingInv, Shape, Grows, Bought
<1>3. QED
  BY <1>0, <1>1, <1>2
     DEF FailGrant, ConfirmGrant, GrantNeedsOperator, FailResources, WithdrawalNeedsOperator

\* The other columns of a grant, the state of a withdrawal, and a new grant.
LEMMA RowsGrow ==
  ASSUME SourcingInv, NEW g, NEW x, NEW y
  PROVE  /\ Grows([db EXCEPT !.grant[g].lookups = x])
         /\ Grows([db EXCEPT !.grant[g].receipt = TRUE, !.grant[g].lookups = x])
         /\ Grows([db EXCEPT !.withdrawal[g].status = x, !.withdrawal[g].source = y])
         /\ Grows([db EXCEPT !.failures = x])
         /\ g \in Grants /\ db.grant[g].status = "none" =>
              /\ Grows([db EXCEPT !.grant[g] = NewGrant])
              /\ [db EXCEPT !.grant[g] = NewGrant].purchase = db.purchase
<1>1. Grows([db EXCEPT !.grant[g].lookups = x])
  BY DEF SourcingInv, Shape, Grows, Bought
<1>2. Grows([db EXCEPT !.grant[g].receipt = TRUE, !.grant[g].lookups = x])
  BY DEF SourcingInv, Shape, Grows, Bought
<1>3. Grows([db EXCEPT !.withdrawal[g].status = x, !.withdrawal[g].source = y])
  BY DEF SourcingInv, Shape, Grows, Bought
<1>4. Grows([db EXCEPT !.failures = x])
  BY DEF SourcingInv, Shape, Grows, Bought
<1>5. ASSUME g \in Grants, db.grant[g].status = "none", NEW e, e = [db EXCEPT !.grant[g] = NewGrant]
      PROVE  Grows(e) /\ e.purchase = db.purchase
  BY <1>5 DEF SourcingInv, Shape, Grows, Bought, NewGrant
<1>6. QED
  BY <1>1, <1>2, <1>3, <1>4, <1>5

\* A purchase moves on, or is quoted when none was made.
LEMMA PurchasesGrow ==
  ASSUME SourcingInv, NEW w, NEW x,
         x \notin {"none", "quoted"} \/ ~(w \in Withdrawals /\ Bought(db, w)), NEW e,
         e = [db EXCEPT !.purchase[w] = x]
  PROVE  Grows(e) /\ (w \in Withdrawals => e.purchase[w] = x)
BY DEF SourcingInv, Shape, Grows, Bought

-----------------------------------------------------------------------------
(* Steps that send nothing and call no market.                               *)

Calling == {"send", "quoted", "purchase"}

\* The engine goes on to a step that is none of those; the API does.
EngineAside ==
  /\ DOMAIN at' = Workers /\ DOMAIN hand' = Workers
  /\ at'["engine"] \notin Calling /\ back' \in Backs
  /\ at'["api"] = at["api"] /\ hand'["api"] = hand["api"]

ApiAside ==
  /\ DOMAIN at' = Workers /\ DOMAIN hand' = Workers
  /\ at'["api"] # "send" /\ back' = back /\ cur' = cur
  /\ at'["engine"] = at["engine"] /\ hand'["engine"] = hand["engine"]

Aside(p) == IF p = "engine" THEN EngineAside ELSE ApiAside

\* Such a step keeps the invariant.
LEMMA AsideKeeps ==
  ASSUME SourcingInv, NEW p \in Workers, Aside(p), Grows(db'), durable' \in {durable, db'},
         p = "api" => db'.purchase = db.purchase, UNCHANGED <<sent, calls>>
  PROVE  SourcingInv'
<1>1. Shape(db') /\ Shape(durable') /\ AttemptsSynced' /\ back' \in Backs
  BY DEF SourcingInv, AttemptsSynced, Grows, Aside, EngineAside, ApiAside
<1>2. SendsAttempted'
  <2>1. \A q \in Workers : at'[q] = "send" => at[q] = "send" /\ hand'[q] = hand[q]
    BY DEF Aside, EngineAside, ApiAside, Workers, Calling
  <2>2. DOMAIN at' = Workers /\ DOMAIN hand' = Workers
    BY DEF Aside, EngineAside, ApiAside
  <2>3. QED
    BY <2>1, <2>2 DEF SourcingInv, SendsAttempted, Grows
<1>3. CallsBought'
  <2>1. \A w \in Withdrawals : calls'[w] = 1 => Bought(db', w) /\ Bought(durable', w)
    BY DEF SourcingInv, CallsBought, Grows, Bought
  <2>2. CASE p = "engine"
    BY <2>1, <2>2 DEF SourcingInv, CallsBought, Aside, EngineAside, Calling
  <2>3. CASE p = "api"
    BY <2>1, <2>3 DEF SourcingInv, CallsBought, Aside, ApiAside, Bought
  <2>4. QED
    BY <2>2, <2>3 DEF Workers
<1>4. QED
  BY <1>1, <1>2, <1>3 DEF SourcingInv

\* The ways a worker moves.
LEMMA MovesAside ==
  ASSUME SourcingInv, NEW p \in Workers, NEW s, s \notin Calling
  PROVE  /\ Goto(p, s) /\ UNCHANGED engineVars => Aside(p)
         /\ Goto("engine", s) /\ back' = back => EngineAside
         /\ \A g : \A b \in Backs : TakeGrant(g, s, b) => EngineAside
         /\ Leave(s) => EngineAside
<1>1. DOMAIN at = Workers /\ DOMAIN hand = Workers /\ back \in Backs
  BY DEF SourcingInv, SendsAttempted
<1>2. QED
  BY <1>1 DEF Goto, TakeGrant, Leave, Aside, EngineAside, ApiAside, Workers, Calling, Backs,
              engineVars

\* The ways a worker ends what it has in hand.
LEMMA EndsAside ==
  ASSUME SourcingInv, NEW p \in Workers
  PROVE  /\ Stop(p) => Aside(p)
         /\ NextRow => EngineAside
         /\ \A pending \in BOOLEAN : Return(p, pending) => Aside(p)
<1>1. DOMAIN at = Workers /\ DOMAIN hand = Workers /\ back \in Backs
  BY DEF SourcingInv, SendsAttempted
<1>2. NextRow => EngineAside
  BY MovesAside DEF NextRow, Calling, Workers
<1>3. Stop(p) => Aside(p)
  BY <1>1, MovesAside DEF Stop, Aside, ApiAside, EngineAside, Calling, Workers, Backs, engineVars
<1>4. ASSUME NEW pending \in BOOLEAN, Return(p, pending) PROVE Aside(p)
  <2> DEFINE s == IF p = "api" THEN "idle" ELSE IF pending THEN Waits ELSE back
  <2>1. s \notin Calling
    BY <1>1 DEF Waits, Backs, Calling
  <2>2. CASE s = "rows"
    BY <1>1, <1>2, <1>4, <2>2 DEF Return, Aside, Workers
  <2>3. CASE s # "rows"
    <3>1. /\ at' = [at EXCEPT ![p] = s] /\ hand' = [hand EXCEPT ![p] = NoGrant]
          /\ UNCHANGED engineVars
      BY <1>4, <2>3 DEF Return
    <3> HIDE DEF s
    <3>2. QED
      BY <1>1, <2>1, <3>1 DEF Aside, ApiAside, EngineAside, Calling, Workers, engineVars
  <2>4. QED
    BY <2>2, <2>3
<1>5. QED
  BY <1>2, <1>3, <1>4

\* The same for the engine, with the store left alone or not.
LEMMA EngineKeeps ==
  ASSUME SourcingInv, EngineAside, UNCHANGED <<sent, calls>>,
         \/ UNCHANGED storeVars
         \/ \E d : Grows(d) /\ Commit(d)
  PROVE  SourcingInv'
<1>1. Grows(db') /\ durable' \in {durable, db'}
  BY StatementsGrow DEF storeVars, Commit
<1>2. Aside("engine") /\ "engine" \in Workers
  BY DEF Aside, Workers
<1>3. QED
  BY <1>1, <1>2, AsideKeeps

-----------------------------------------------------------------------------
(* The actions.                                                              *)

\* A delegation or a top-up, by either worker: the attempt is persisted once, and sent
\* by the worker that persisted it.
LEMMA DelegatesKeep ==
  ASSUME SourcingInv, NEW p \in Workers, Delegates(p)
  PROVE  SourcingInv'
<1> DEFINE g == hand[p]
<1>0. UNCHANGED storeVars => Grows(db') /\ durable' \in {durable, db'} /\ db'.purchase = db.purchase
  BY StatementsGrow DEF storeVars
<1>1. CASE StartFails(p)
  <2>1. Aside(p) /\ Commit(FailGrant(g)) /\ UNCHANGED <<sent, calls>>
    BY <1>1, EndsAside DEF StartFails, Still, worldVars
  <2>2. QED
    BY <2>1, StatementsGrow, AsideKeeps DEF Commit
<1>2. CASE StartSigns(p)
  <2>1. Aside(p) /\ UNCHANGED <<sent, calls>> /\ UNCHANGED storeVars
    BY <1>2, MovesAside DEF StartSigns, Still, worldVars, Calling
  <2>2. QED
    BY <1>0, <2>1, AsideKeeps
<1>3. CASE Persist(p)
  <2>1. /\ db' = [db EXCEPT !.grant[g].status = "attempted", !.grant[g].attempted = TRUE]
        /\ durable' = db' /\ at' = [at EXCEPT ![p] = "send"] /\ hand' = hand
        /\ back' = back /\ cur' = cur /\ sent' = sent /\ calls' = calls
        /\ db.grant[g].attempted = FALSE \/ g \notin Grants
    BY <1>3 DEF Persist, CommitFull, Goto, Unspent, Still, worldVars, engineVars, SourcingInv, Shape
  <2>2. /\ Shape(db') /\ db'.purchase = db.purchase
        /\ \A h \in Grants : db'.grant[h].attempted = (h = g \/ db.grant[h].attempted)
    BY <2>1 DEF SourcingInv, Shape
  <2>3. SendsAttempted'
    <3>1. \A q \in Workers : at'[q] = "send" => q = p \/ at[q] = "send"
      BY <2>1 DEF SourcingInv, SendsAttempted
    <3>2. g \in Grants => sent[g] = 0
      BY <2>1 DEF SourcingInv, SendsAttempted, Shape
    <3>3. \A q \in Workers : at[q] = "send" /\ hand[q] \in Grants => hand[q] # g
      BY <2>1 DEF SourcingInv, SendsAttempted
    <3>4. QED
      BY <2>1, <2>2, <3>1, <3>2, <3>3 DEF SourcingInv, SendsAttempted, Shape
  <2>4. CallsBought'
    BY <2>1, <2>2 DEF SourcingInv, CallsBought, SendsAttempted, Bought, Workers
  <2>5. QED
    BY <2>1, <2>2, <2>3, <2>4 DEF SourcingInv, AttemptsSynced
<1>4. CASE PersistRefused(p)
  <2>1. Aside(p) /\ UNCHANGED <<sent, calls>> /\ UNCHANGED storeVars
    BY <1>4, EndsAside DEF PersistRefused, Still, worldVars
  <2>2. QED
    BY <1>0, <2>1, AsideKeeps
<1>5. CASE \E rejected \in BOOLEAN : SendGrant(p, rejected)
  <2>1. PICK s \in {"record", "recordRejected"} :
          /\ at[p] = "send" /\ at' = [at EXCEPT ![p] = s] /\ hand' = hand
          /\ sent' = [sent EXCEPT ![g] = @ + 1] /\ calls' = calls
          /\ db' = db /\ durable' = durable /\ back' = back /\ cur' = cur
    BY <1>5 DEF SendGrant, Goto, storeVars, engineVars
  <2>2. SendsAttempted'
    <3>0. sent \in [Grants -> {0, 1}] /\ (g \in Grants => sent[g] = 0)
      BY <2>1 DEF SourcingInv, SendsAttempted
    <3>1. sent' \in [Grants -> {0, 1}]
      <4>1. CASE g \in Grants
        <5>1. sent[g] + 1 = 1
          BY <3>0, <4>1
        <5>2. sent' = [sent EXCEPT ![g] = 1]
          BY <2>1, <5>1
        <5>3. QED
          BY <3>0, <5>2
      <4>2. CASE g \notin Grants
        BY <2>1, <3>0, <4>2
      <4>3. QED
        BY <4>1, <4>2
    <3>2. \A q \in Workers : at'[q] = "send" => q # p /\ at[q] = "send"
      BY <2>1 DEF SourcingInv, SendsAttempted
    <3>3. \A h \in Grants : h # g => sent'[h] = sent[h]
      BY <2>1 DEF SourcingInv, SendsAttempted
    <3>4. g \in Grants => db.grant[g].attempted = TRUE
      BY <2>1 DEF SourcingInv, SendsAttempted
    <3>5. QED
      BY <2>1, <3>1, <3>2, <3>3, <3>4 DEF SourcingInv, SendsAttempted
  <2>3. CallsBought'
    BY <2>1 DEF SourcingInv, CallsBought, SendsAttempted, Bought, Workers
  <2>4. QED
    BY <2>1, <2>2, <2>3 DEF SourcingInv, AttemptsSynced, Shape
<1>6. CASE RecordSent(p)
  <2>1. Aside(p) /\ UNCHANGED <<sent, calls>>
    BY <1>6, EndsAside, MovesAside DEF RecordSent, Still, worldVars, Calling
  <2> DEFINE x == IF db.grant[g].status = "attempted" THEN "broadcast" ELSE db.grant[g].status
  <2>2. db' = [db EXCEPT !.grant[g].status = x] /\ durable' = db'
    BY <1>6 DEF RecordSent, CommitFull
  <2>3. x # "none" \/ x = db.grant[g].status
    OBVIOUS
  <2> HIDE DEF x
  <2>4. Grows(db') /\ db'.purchase = db.purchase
    BY <2>2, <2>3 DEF SourcingInv, Shape, Grows, Bought
  <2>5. QED
    BY <2>1, <2>2, <2>4, AsideKeeps
<1>7. CASE Verify(p)
  <2>1. Aside(p) /\ UNCHANGED <<sent, calls>> /\ (UNCHANGED storeVars \/ Commit(FailGrant(g)))
    BY <1>7, EndsAside DEF Verify, Still, worldVars
  <2>2. QED
    BY <1>0, <2>1, StatementsGrow, AsideKeeps DEF Commit
<1>8. QED
  BY <1>1, <1>2, <1>3, <1>4, <1>5, <1>6, <1>7 DEF Delegates

\* The reconciliation of a grant buys and sends nothing.
LEMMA ReconcilesKeep ==
  ASSUME SourcingInv, Reconciles
  PROVE  SourcingInv'
<1>0. "engine" \in Workers /\ UNCHANGED <<sent, calls>>
  BY DEF Workers, Reconciles, ReconcileNothing, Lookup, LookupFails, GiveUp, Escalate, ApplyAbsent,
         ReceiptMissing, ReceiptSolid, Outcome, OutcomeReverted, Still, worldVars
<1>1. EngineAside
  <2>1. \A s : s \notin Calling /\ EngineGoto(s) => EngineAside
    BY <1>0, MovesAside DEF EngineGoto, Aside
  <2>2. \A pending \in BOOLEAN : Return("engine", pending) => EngineAside
    BY <1>0, EndsAside DEF Aside
  <2>3. QED
    BY <2>1, <2>2
       DEF Reconciles, ReconcileNothing, Lookup, LookupFails, GiveUp, Escalate, ApplyAbsent,
           ReceiptMissing, ReceiptSolid, Outcome, OutcomeReverted, Calling
<1>2. UNCHANGED storeVars \/ \E d : Grows(d) /\ Commit(d)
  <2>1. CASE Lookup \/ LookupFails \/ ReceiptSolid
    BY <2>1, RowsGrow DEF Lookup, LookupFails, ReceiptSolid
  <2>2. CASE ReconcileNothing \/ GiveUp \/ Escalate \/ ApplyAbsent \/ ReceiptMissing \/ Outcome
             \/ OutcomeReverted
    BY <2>2, StatementsGrow
       DEF ReconcileNothing, GiveUp, Escalate, ApplyAbsent, ReceiptMissing, Outcome, OutcomeReverted
  <2>3. QED
    BY <2>1, <2>2 DEF Reconciles
<1>3. QED
  BY <1>0, <1>1, <1>2, EngineKeeps

\* Nor does the walk over the rows.
LEMMA WalksKeep ==
  ASSUME SourcingInv, Walks \/ NotDue
  PROVE  SourcingInv'
<1>0. "engine" \in Workers /\ "manual" \in Backs
  BY DEF Workers, Backs
<1>1. CASE BeginTick \/ ManualDone \/ RowsDone \/ \E w \in Withdrawals : TakeRow(w)
  <2>1. \E s : s \notin Calling /\ Goto("engine", s) /\ back' = back
    BY <1>1 DEF BeginTick, ManualDone, RowsDone, TakeRow, Calling
  <2>2. UNCHANGED storeVars /\ UNCHANGED <<sent, calls>>
    BY <1>1 DEF BeginTick, ManualDone, RowsDone, TakeRow, Still, worldVars
  <2>3. QED
    BY <1>0, <2>1, <2>2, MovesAside, EngineKeeps
<1>2. CASE \E g \in ManualGrants, requested \in BOOLEAN : TakeManual(g, requested)
  <2>1. \E g, s : s \notin Calling /\ TakeGrant(g, s, "manual")
    BY <1>2 DEF TakeManual, Calling
  <2>2. UNCHANGED storeVars /\ UNCHANGED <<sent, calls>>
    BY <1>2 DEF TakeManual, Still, worldVars
  <2>3. QED
    BY <1>0, <2>1, <2>2, MovesAside, EngineKeeps
<1>3. CASE CloseRental
  <2>1. EngineAside /\ UNCHANGED <<sent, calls>>
    BY <1>0, <1>3, MovesAside DEF CloseRental, EngineGoto, Aside, Still, worldVars, Calling
  <2>2. PICK status \in {"delegated", "expired"} :
          Commit(IF db.purchase[cur] # "purchased" THEN db
                 ELSE [db EXCEPT !.purchase[cur] = status])
    BY <1>3 DEF CloseRental
  <2>3. Grows([db EXCEPT !.purchase[cur] = status]) /\ Grows(db)
    BY PurchasesGrow, StatementsGrow
  <2>4. QED
    BY <2>1, <2>2, <2>3, EngineKeeps
<1>4. CASE NotDue
  BY <1>0, <1>4, EndsAside, EngineKeeps DEF NotDue, Still, worldVars
<1>5. QED
  BY <1>1, <1>2, <1>3, <1>4 DEF Walks

\* A rental marks the purchase before it calls the market, and only one that is quoted.
LEMMA RentsKeep ==
  ASSUME SourcingInv, Rents
  PROVE  SourcingInv'
<1>0. "engine" \in Workers
  BY DEF Workers
<1>1. /\ \A s : s \notin Calling /\ EngineGoto(s) => EngineAside
      /\ \A src, s : s \notin Calling /\ From(src, s) => EngineAside /\ UNCHANGED <<sent, calls>>
      /\ \A s : s \notin Calling /\ Goto("engine", s) /\ back' = back => EngineAside
      /\ NextRow => EngineAside
  BY <1>0, MovesAside, EndsAside DEF EngineGoto, Aside, From, Still, worldVars
<1>2. CASE RentalUnfinished \/ RentalDecided \/ PollRental \/ RentalSkipped
  <2>1. EngineAside /\ UNCHANGED <<sent, calls>> /\ UNCHANGED storeVars
    BY <1>1, <1>2 DEF RentalUnfinished, RentalDecided, PollRental, RentalSkipped, Still, worldVars,
                      Calling
  <2>2. QED
    BY <2>1, EngineKeeps
<1>3. CASE FinishRental \/ QuoteTooDear \/ FailRental
  <2>1. EngineAside /\ UNCHANGED <<sent, calls>>
    BY <1>1, <1>3 DEF FinishRental, QuoteTooDear, FailRental, Still, worldVars, Calling
  <2>2. PICK x \in {"delegated", "failed"} : Commit([db EXCEPT !.purchase[cur] = x])
    BY <1>3 DEF FinishRental, QuoteTooDear, FailRental
  <2>3. Grows([db EXCEPT !.purchase[cur] = x])
    BY PurchasesGrow
  <2>4. QED
    BY <2>1, <2>2, <2>3, EngineKeeps
<1>4. CASE RentalFinished \/ Blame
  <2>1. EngineAside /\ UNCHANGED <<sent, calls>>
    BY <1>1, <1>4 DEF RentalFinished, Blame, Still, worldVars, Calling
  <2>2. PICK n : Commit([db EXCEPT !.failures = n])
    BY <1>4 DEF RentalFinished, Blame
  <2>3. Grows([db EXCEPT !.failures = n])
    BY RowsGrow
  <2>4. QED
    BY <2>1, <2>2, <2>3, EngineKeeps
<1>5. CASE Quote
  <2> DEFINE e == [db EXCEPT !.purchase[cur] = "quoted"]
  <2>1. /\ db.purchase[cur] \in {"none", "quoted"} /\ Commit(e)
        /\ at' = [at EXCEPT !["engine"] = "quoted"] /\ hand' = hand
        /\ back' = back /\ cur' = cur /\ sent' = sent /\ calls' = calls
    BY <1>5 DEF Quote, Unrented, EngineGoto, Goto, engineVars, Still, worldVars
  <2>2. Grows(e) /\ (cur \in Withdrawals => e.purchase[cur] = "quoted")
    BY <2>1, PurchasesGrow DEF Bought
  <2> HIDE DEF e
  <2>3. db' = e /\ durable' \in {db', durable}
    BY <2>1 DEF Commit
  <2>4. SendsAttempted'
    BY <2>1, <2>2, <2>3 DEF SourcingInv, SendsAttempted, Grows
  <2>5. CallsBought'
    BY <2>1, <2>2, <2>3 DEF SourcingInv, CallsBought, SendsAttempted, Grows, Bought, Workers
  <2>6. QED
    BY <2>1, <2>2, <2>3, <2>4, <2>5 DEF SourcingInv, AttemptsSynced, Grows
<1>6. CASE MarkPurchase
  <2> DEFINE e == [db EXCEPT !.purchase[cur] = "purchased"]
  <2>1. /\ at["engine"] = "quoted" /\ db' = e /\ durable' = e
        /\ at' = [at EXCEPT !["engine"] = "purchase"] /\ hand' = hand
        /\ back' = back /\ cur' = cur /\ sent' = sent /\ calls' = calls
    BY <1>6 DEF MarkPurchase, Engine, CommitFull, EngineGoto, Goto, engineVars, Still, worldVars
  <2>2. Grows(e) /\ (cur \in Withdrawals => e.purchase[cur] = "purchased")
    BY PurchasesGrow
  <2> HIDE DEF e
  <2>3. SendsAttempted'
    BY <2>1, <2>2 DEF SourcingInv, SendsAttempted, Grows
  <2>4. CallsBought'
    BY <2>1, <2>2 DEF SourcingInv, CallsBought, SendsAttempted, Grows, Bought, Workers
  <2>5. QED
    BY <2>1, <2>2, <2>3, <2>4 DEF SourcingInv, AttemptsSynced, Grows
<1>7. CASE Purchase
  <2>1. /\ at["engine"] = "purchase" /\ calls' = [calls EXCEPT ![cur] = @ + 1]
        /\ EngineAside /\ sent' = sent /\ db' = db /\ durable' = durable
    BY <1>1, <1>7 DEF Purchase, Engine, storeVars, Calling
  <2>2. SendsAttempted'
    <3>1. \A q \in Workers : at'[q] = "send" => at[q] = "send" /\ hand'[q] = hand[q]
      BY <2>1 DEF EngineAside, Workers, Calling
    <3>2. QED
      BY <2>1, <3>1 DEF SourcingInv, SendsAttempted, EngineAside
  <2>3. CallsBought'
    <3>1. calls \in [Withdrawals -> {0, 1}] /\ (cur \in Withdrawals => calls[cur] = 0)
      BY <2>1 DEF SourcingInv, CallsBought
    <3>2. calls' \in [Withdrawals -> {0, 1}]
      <4>1. CASE cur \in Withdrawals
        <5>1. calls' = [calls EXCEPT ![cur] = 1]
          BY <2>1, <3>1, <4>1
        <5>2. QED
          BY <3>1, <5>1
      <4>2. CASE cur \notin Withdrawals
        BY <2>1, <3>1, <4>2
      <4>3. QED
        BY <4>1, <4>2
    <3>3. \A w \in Withdrawals : w # cur => calls'[w] = calls[w]
      BY <2>1, <3>1
    <3>4. QED
      BY <2>1, <3>2, <3>3 DEF SourcingInv, CallsBought, EngineAside, Calling, Bought
  <2>4. QED
    BY <2>1, <2>2, <2>3 DEF SourcingInv, AttemptsSynced, EngineAside, Shape
<1>8. QED
  BY <1>2, <1>3, <1>4, <1>5, <1>6, <1>7 DEF Rents

\* Nor does the rest of acquireAndSend: a row is inserted when there is none.
LEMMA AcquiresKeep ==
  ASSUME SourcingInv, Acquires
  PROVE  SourcingInv'
<1>0. "engine" \in Workers /\ {"burn", "unavailable", "existing", "spare"} \subseteq Backs
  BY DEF Workers, Backs
<1>1. /\ \A s : s \notin Calling /\ EngineGoto(s) => EngineAside
      /\ \A src, s : s \notin Calling /\ From(src, s) => EngineAside /\ UNCHANGED <<sent, calls>>
      /\ \A s : s \notin Calling /\ Goto("engine", s) /\ back' = back => EngineAside
      /\ \A g, s : \A b \in Backs : s \notin Calling /\ TakeGrant(g, s, b) => EngineAside
      /\ NextRow => EngineAside
  BY <1>0, MovesAside, EndsAside DEF EngineGoto, Aside, From, Still, worldVars
<1>2. CASE \E energy, bandwidth \in BOOLEAN : Read(energy, bandwidth)
  <2>1. EngineAside /\ UNCHANGED <<sent, calls>> /\ UNCHANGED storeVars
    BY <1>1, <1>2 DEF Read, Still, worldVars, Calling
  <2>2. QED
    BY <2>1, EngineKeeps
<1>3. CASE HasEnergy \/ Burn \/ BurnBandwidth
  <2>1. EngineAside /\ UNCHANGED <<sent, calls>> /\ UNCHANGED storeVars
    BY <1>1, <1>3 DEF HasEnergy, Burn, BurnBandwidth, Still, worldVars, Calling
  <2>2. QED
    BY <2>1, EngineKeeps
<1>4. CASE HasGrantedEnergy \/ HasBandwidth
  <2>1. EngineAside /\ UNCHANGED <<sent, calls>> /\ UNCHANGED storeVars
    BY <1>0, <1>1, <1>4 DEF HasGrantedEnergy, HasBandwidth, Still, worldVars, Calling
  <2>2. QED
    BY <2>1, EngineKeeps
<1>5. CASE AwaitEnergy \/ AwaitBandwidth \/ NoteSources \/ Sign
  <2>1. EngineAside /\ UNCHANGED <<sent, calls>>
    BY <1>1, <1>5 DEF AwaitEnergy, AwaitBandwidth, NoteSources, Sign, Still, worldVars, Calling
  <2>2. \A s, src : Grows(SetStatus(s, src))
    BY RowsGrow, StatementsGrow DEF SetStatus
  <2>3. UNCHANGED storeVars \/ \E s, src : Commit(SetStatus(s, src))
    BY <1>5 DEF AwaitEnergy, AwaitBandwidth, NoteSources, Sign
  <2>4. QED
    BY <2>1, <2>2, <2>3, EngineKeeps
<1>6. CASE ConfirmEnergy \/ ConfirmBandwidth \/ BurnRefused \/ BandwidthUnavailable
  <2>1. EngineAside /\ UNCHANGED <<sent, calls>>
    BY <1>1, <1>6 DEF ConfirmEnergy, ConfirmBandwidth, BurnRefused, BandwidthUnavailable, Still,
                      worldVars, Calling
  <2>2. \E g : Commit(ConfirmGrant(g)) \/ Commit(FailResources(g))
    BY <1>6 DEF ConfirmEnergy, ConfirmBandwidth, BurnRefused, BandwidthUnavailable
  <2>3. QED
    BY <2>1, <2>2, StatementsGrow, EngineKeeps
<1>7. CASE DelegateEnergy \/ GrantBandwidth
  <2>1. PICK g \in {EnergyGrant, BandwidthGrant}, s \in {"delegate", "delegateBandwidth"},
             b \in Backs : Ensure(g, s, b)
    BY <1>0, <1>7 DEF DelegateEnergy, GrantBandwidth
  <2>2. EngineAside /\ UNCHANGED <<sent, calls>>
    BY <1>1, <2>1 DEF Ensure, Still, worldVars, Calling, Backs
  <2>3. \/ UNCHANGED storeVars
        \/ Commit([db EXCEPT !.grant[g] = NewGrant]) /\ db.grant[g].status = "none"
    BY <2>1 DEF Ensure
  <2>4. g \notin Grants => Grows([db EXCEPT !.grant[g] = NewGrant])
    BY DEF SourcingInv, Shape, Grows, Bought
  <2>5. QED
    BY <2>2, <2>3, <2>4, RowsGrow, StatementsGrow, EngineKeeps
<1>8. QED
  BY <1>2, <1>3, <1>4, <1>5, <1>6, <1>7 DEF Acquires

\* The API's request, the errors, the crashes, the chain and the clocks.
LEMMA OthersKeep ==
  ASSUME SourcingInv,
         \/ \E g \in ManualGrants : RequestDelegation(g)
         \/ \E g \in Grants : Land(g) \/ Expire(g)
         \/ \E w \in Withdrawals : Lapse(w)
         \/ CloseCircuit
         \/ \E p \in Workers : Abort(p)
         \/ Crash \/ PowerLoss
         \/ UNCHANGED vars
  PROVE  SourcingInv'
<1>0. Workers = {"engine", "api"}
  BY DEF Workers
<1>1. CASE \E g \in ManualGrants : RequestDelegation(g)
  <2>1. PICK g \in ManualGrants : RequestDelegation(g)
    BY <1>1
  <2>2. Aside("api") /\ UNCHANGED <<sent, calls>>
    BY <1>0, <2>1 DEF RequestDelegation, Aside, ApiAside, engineVars, Still, worldVars, SourcingInv,
                      SendsAttempted
  <2>3. Commit([db EXCEPT !.grant[g] = NewGrant]) /\ db.grant[g].status = "none" /\ g \in Grants
    BY <2>1 DEF RequestDelegation, Grants
  <2>4. QED
    BY <1>0, <2>2, <2>3, RowsGrow, AsideKeeps DEF Commit
<1>2. CASE UNCHANGED <<storeVars, stepVars, sent, calls, back, cur>>
  BY <1>2 DEF storeVars, stepVars, SourcingInv, Shape, AttemptsSynced, SendsAttempted, CallsBought,
              Bought
<1>3. CASE \/ \E g \in Grants : Land(g) \/ Expire(g)
           \/ \E w \in Withdrawals : Lapse(w)
           \/ CloseCircuit \/ UNCHANGED vars
  BY <1>2, <1>3 DEF Land, NetBecomes, Expire, Lapse, CloseCircuit, World, Still, worldVars,
                    engineVars, vars
<1>4. CASE \E p \in Workers : Abort(p)
  <2>1. PICK p \in Workers : Abort(p)
    BY <1>4
  <2>2. Aside(p) /\ UNCHANGED <<sent, calls>> /\ UNCHANGED storeVars
    BY <2>1, EndsAside DEF Abort, worldVars
  <2>3. QED
    BY <2>2, StatementsGrow, AsideKeeps DEF storeVars
<1>5. CASE Crash \/ PowerLoss
  <2>1. /\ at' = [p \in Workers |-> "idle"] /\ hand' = [p \in Workers |-> NoGrant]
        /\ back' = "manual" /\ sent' = sent /\ calls' = calls
        /\ db' \in {db, durable} /\ durable' = durable
    BY <1>5 DEF Crash, PowerLoss, Restart, storeVars, worldVars
  <2>2. QED
    BY <1>0, <2>1 DEF SourcingInv, Shape, AttemptsSynced, SendsAttempted, CallsBought, Bought, Backs
<1>6. QED
  BY <1>1, <1>3, <1>4, <1>5

-----------------------------------------------------------------------------
(* The theorems.                                                             *)

\* The invariant holds in every behaviour.
THEOREM SourcingInvariant == Spec => []SourcingInv
<1>1. SourcingInv /\ [Next]_vars => SourcingInv'
  BY DelegatesKeep, ReconcilesKeep, WalksKeep, RentsKeep, AcquiresKeep, OthersKeep
     DEF Next, EngineStep, Workers
<1>2. QED
  BY <1>1, SourcingInit, PTL DEF Spec

\* No delegation, top-up or rental is paid for twice: whatever crashes, power losses and
\* lost answers lie between, whichever worker starts it (PersistResourceGrantAttempt,
\* MarkEnergyPurchaseAttempt, both synced before the call).
THEOREM EachIsPaidOnce == Spec => []PaidOnce
<1>1. SourcingInv => PaidOnce
  BY DEF SourcingInv, SendsAttempted, CallsBought, PaidOnce
<1>2. QED
  BY <1>1, SourcingInvariant, PTL
=============================================================================
