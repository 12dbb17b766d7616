------------------------- MODULE SourcingBurnProofs -------------------------
(***************************************************************************)
(* Proof that the module Sourcing burns TRX last: when a withdrawal is     *)
(* given to the burn, its rental and its delegation of energy are over,    *)
(* and neither is opened again, for any number of withdrawals, of manual   *)
(* delegations beside them, of crashes, power losses and errors.  The      *)
(* types of its variables follow, and that the source noted for a          *)
(* withdrawal is the one it has.                                           *)
(***************************************************************************)
EXTENDS SourcingProofs

-----------------------------------------------------------------------------
(* The invariant.                                                            *)

Energy(w) == <<w, "ENERGY">>
Opened == {"purchased", "delegated"}
Over == {"none", "confirmed", "failed"}
Tried == {"attempted", "broadcast", "needs_operator"}
Unopened(d, w) == d.purchase[w] \notin Opened /\ d.grant[Energy(w)].status \in Over

\* Of the rows, on disk too: what was burned for had nothing open, and a delegation
\* that left was attempted.
BurnsLast(d) ==
  /\ DOMAIN d.withdrawal = Withdrawals
  /\ \A w \in Withdrawals :
       /\ DOMAIN d.withdrawal[w] = {"status", "source"}
       /\ d.withdrawal[w].source = "burned" => Unopened(d, w)
       /\ d.grant[Energy(w)].status \in Over \cup {"requested"} \cup Tried
       /\ d.grant[Energy(w)].status = "requested" => ~d.grant[Energy(w)].attempted
       /\ d.grant[Energy(w)].status \in Tried
            => d.grant[Energy(w)].attempted

\* Nothing is open, or the row is no longer the engine's to write.
Decided(w) == Unopened(db, w) \/ db.withdrawal[w].status \notin Awaiting

Between == {"idle", "manual", "rows"}
GrantSteps == {"start", "persist", "send", "record", "recordRejected", "verify", "reconcile",
               "receipt", "absent", "outcome", "reverted", "giveUp", "escalate"}
Looked == {"receipt", "absent", "outcome", "reverted", "giveUp", "escalate"}
RentSteps == {"rent", "quoted", "purchase", "failRental", "blame", "delegate"}
Clear == Between \cup {"closeRental", "read", "energy", "rented", "burn"} \cup RentSteps

Holds(w) == hand["engine"] = Energy(w)

Sight(x) == "status" \in DOMAIN x /\ x.status \in Awaiting

\* The delegation of energy the engine has in hand is that of its withdrawal.
HandOK ==
  \A w \in Withdrawals :
    /\ hand["api"] # Energy(w)
    /\ Holds(w) =>
         /\ w = cur /\ at["engine"] \notin Clear
         /\ back = "burn" => db.purchase[w] \notin Opened
         /\ Engine("reconcile") => db.grant[Energy(w)].status # "requested"
         /\ at["engine"] \in Looked => db.grant[Energy(w)].attempted

\* The rows still to be handled wait, and between two of them none is in hand.
WalkOK ==
  /\ rows \subseteq Waiting \ {cur} /\ Sight(seen)
  /\ at["engine"] \in Between \/ (at["engine"] \in GrantSteps /\ back = "manual")
       => cur = NoWithdrawal /\ source # "burned"

\* The withdrawal in hand is on its way to the burn only when nothing else is open.
CurOK ==
  cur \in Withdrawals =>
    /\ Engine("energy") /\ db.withdrawal[cur].source = "burned" => source = "burned"
    /\ source = "burned" \/ Engine("burn") => Decided(cur)
    /\ at["engine"] \in RentSteps \/ Holds(cur) =>
         source # "burned" /\ db.withdrawal[cur].source # "burned"
    /\ at["engine"] \in {"blame", "delegate"} => db.purchase[cur] \notin Opened
    /\ at["engine"] \in GrantSteps /\ back = "burn" => Holds(cur)

BurnInv == BurnsLast(db) /\ BurnsLast(durable) /\ HandOK /\ WalkOK /\ CurOK

-----------------------------------------------------------------------------
(* What a statement does to the rows of a withdrawal.                        *)

\* Nothing is opened but by the two steps that open it, and the row in hand alone is
\* written, its source by the engine's.
Quiet(e) ==
  /\ DOMAIN e.withdrawal = Withdrawals
  /\ \A w \in Withdrawals :
       /\ DOMAIN e.withdrawal[w] = {"status", "source"}
       /\ w # cur => e.withdrawal[w] = db.withdrawal[w]
       /\ e.withdrawal[w].status \in Awaiting => db.withdrawal[w].status \in Awaiting
       /\ e.withdrawal[w].source = "burned" =>
            \/ db.withdrawal[w].source = "burned"
            \/ w = cur /\ source = "burned" /\ db.withdrawal[w].status \in Awaiting
       /\ e.purchase[w] \in Opened =>
            db.purchase[w] \in Opened \/ (w = cur /\ Engine("quoted"))
       /\ db.grant[Energy(w)].status \in Over =>
            e.grant[Energy(w)].status \in Over \/ (w = cur /\ Engine("delegate"))
       /\ e.grant[Energy(w)].status = "requested" =>
            /\ ~e.grant[Energy(w)].attempted
            /\ db.grant[Energy(w)].status = "requested" \/ Engine("delegate")
       /\ e.grant[Energy(w)].status \in Over \cup {"requested"} \cup Tried
       /\ e.grant[Energy(w)].status \in Tried
            => e.grant[Energy(w)].attempted
       /\ db.grant[Energy(w)].attempted => e.grant[Energy(w)].attempted

Step == SourcingInv /\ BurnInv /\ SourcingInv' /\ Quiet(db') /\ durable' \in {durable, db'}

\* The grants of a withdrawal are told apart from each other and from manual ones.
LEMMA Grantings ==
  /\ \A w \in Withdrawals : /\ Energy(w) \in Grants /\ Energy(w) # NoGrant
                            /\ Energy(w) \notin ManualGrants
                            /\ \A v : Energy(w) # <<v, "BANDWIDTH">>
  /\ \A v, w : Energy(v) = Energy(w) => v = w
  /\ NoWithdrawal \notin Withdrawals /\ EnergyGrant = Energy(cur)
BY GrantsAssumption DEF Energy, Grants, Types, EnergyGrant

\* A quiet statement keeps the rows.
LEMMA QuietRows ==
  ASSUME Step
  PROVE  /\ BurnsLast(db') /\ BurnsLast(durable')
         /\ cur \in Withdrawals /\ Decided(cur) /\ at["engine"] \notin {"quoted", "delegate"}
              => Unopened(db', cur) \/ db'.withdrawal[cur].status \notin Awaiting
         /\ Waiting \ {cur} \subseteq {w \in Withdrawals : db'.withdrawal[w].status \in Awaiting}
<1>1. BurnsLast(db) /\ BurnsLast(durable) /\ CurOK /\ Quiet(db') /\ durable' \in {durable, db'}
  BY DEF Step, BurnInv
<1>2. BurnsLast(db')
  <2> SUFFICES ASSUME NEW w \in Withdrawals, db'.withdrawal[w].source = "burned"
               PROVE  Unopened(db', w)
    BY <1>1 DEF BurnsLast, Quiet
  <2>1. Unopened(db, w)
    BY <1>1 DEF Quiet, BurnsLast, CurOK, Decided
  <2>2. ~(w = cur /\ at["engine"] \in {"quoted", "delegate"})
    BY <1>1 DEF Quiet, CurOK, RentSteps
  <2> QED BY <1>1, <2>1, <2>2 DEF Quiet, Unopened, Engine
<1>3. cur \in Withdrawals /\ Decided(cur) /\ at["engine"] \notin {"quoted", "delegate"}
        => Unopened(db', cur) \/ db'.withdrawal[cur].status \notin Awaiting
  BY <1>1 DEF Quiet, Decided, Unopened, Engine
<1>4. Waiting \ {cur} \subseteq {w \in Withdrawals : db'.withdrawal[w].status \in Awaiting}
  BY <1>1 DEF Quiet, Waiting
<1> QED BY <1>1, <1>2, <1>3, <1>4

-----------------------------------------------------------------------------
(* The ways the engine moves.                                                *)

\* It is done with the withdrawal, or with the tick.
LEMMA Left ==
  ASSUME Step, NEW s \in Between, Leave(s), rows' \subseteq rows
  PROVE  BurnInv'
<1>1. /\ hand'["engine"] = NoGrant /\ hand'["api"] = hand["api"] /\ at'["engine"] = s
      /\ cur' = NoWithdrawal /\ seen' = NoSight /\ source' = "" /\ back' = "manual"
  BY DEF Leave, Step, SourcingInv, SendsAttempted, Workers
<1>2. HandOK'
  BY <1>1, Grantings DEF HandOK, Holds, Step, BurnInv
<1>3. WalkOK'
  <2>1. rows' \subseteq Waiting \ {cur} /\ Waiting' \subseteq Withdrawals
    BY DEF Step, BurnInv, WalkOK, Waiting
  <2>2. rows' \subseteq Waiting' \ {NoWithdrawal}
    BY <2>1, QuietRows, Grantings DEF Waiting
  <2> QED BY <1>1, <2>2 DEF WalkOK, Sight, NoSight, Awaiting
<1>4. CurOK'
  BY <1>1, Grantings DEF CurOK
<1> QED BY <1>2, <1>3, <1>4, QuietRows DEF BurnInv

\* It goes on with a withdrawal, or between two, without a grant.
LEMMA Stepped ==
  ASSUME Step, NEW s, s \notin GrantSteps, at["engine"] \notin GrantSteps,
         at' = [at EXCEPT !["engine"] = s], hand' = hand, cur' = cur,
         rows' \subseteq Waiting \ {cur}, Sight(seen'),
         s \in Clear => at["engine"] \in Clear, back' = back,
         at["engine"] \notin Clear /\ source' = "burned" => source = "burned",
         s \in Between => cur = NoWithdrawal /\ source' # "burned",
         cur \in Withdrawals =>
           /\ s = "energy" /\ db'.withdrawal[cur].source = "burned" => source' = "burned"
           /\ source' = "burned" \/ s = "burn" =>
                Unopened(db', cur) \/ db'.withdrawal[cur].status \notin Awaiting
           /\ s \in RentSteps => source' # "burned" /\ db'.withdrawal[cur].source # "burned"
           /\ s \in {"blame", "delegate"} => db'.purchase[cur] \notin Opened
  PROVE  BurnInv'
<1>1. at'["engine"] = s /\ DOMAIN at = Workers
  BY DEF Step, SourcingInv, SendsAttempted, Workers
<1>2. HandOK /\ WalkOK /\ CurOK /\ Quiet(db')
  BY DEF Step, BurnInv
<1>3. HandOK'
  BY <1>1, <1>2 DEF HandOK, Holds, Engine, Looked, GrantSteps, Quiet, Clear, RentSteps
<1>4. WalkOK'
  BY <1>1, <1>2, QuietRows DEF WalkOK, Waiting
<1>5. CurOK'
  <2> SUFFICES ASSUME cur \in Withdrawals PROVE CurOK'
    BY DEF CurOK
  <2>1. Holds(cur) => source' # "burned" /\ db'.withdrawal[cur].source # "burned"
    BY <1>2 DEF HandOK, CurOK, Quiet
  <2> QED BY <1>1, <2>1 DEF CurOK, Holds, Engine, Decided
<1> QED BY <1>3, <1>4, <1>5, QuietRows DEF BurnInv

\* It goes on with the grant in hand.
LEMMA GrantStepped ==
  ASSUME Step, NEW s \in GrantSteps \ {"reconcile"}, at["engine"] \in GrantSteps, EngineGoto(s),
         s \in Looked => \A w \in Withdrawals : Holds(w) => db'.grant[Energy(w)].attempted
  PROVE  BurnInv'
<1>1. /\ at'["engine"] = s /\ hand' = hand /\ UNCHANGED <<cur, rows, seen, source, back>>
      /\ s \notin Clear /\ at["engine"] \notin {"quoted", "delegate"} /\ s \notin Between
  BY DEF Step, SourcingInv, SendsAttempted, Workers, EngineGoto, Goto, engineVars, GrantSteps, Clear,
         RentSteps, Between
<1>2. HandOK /\ WalkOK /\ CurOK /\ Quiet(db')
  BY DEF Step, BurnInv
<1>3. HandOK'
  BY <1>1, <1>2 DEF HandOK, Holds, Engine, Quiet
<1>4. WalkOK'
  BY <1>1, <1>2, QuietRows DEF WalkOK, Waiting
<1>5. CurOK'
  <2> SUFFICES ASSUME cur \in Withdrawals PROVE CurOK'
    BY <1>1 DEF CurOK
  <2>1. Holds(cur) => source # "burned" /\ db'.withdrawal[cur].source # "burned"
    BY <1>2 DEF CurOK, Quiet
  <2>2. source = "burned" => Decided(cur)'
    BY <1>1, <1>2, QuietRows DEF CurOK, Decided
  <2>3. s \notin RentSteps \cup {"energy", "burn"}
    BY DEF GrantSteps, RentSteps
  <2> QED BY <1>1, <1>2, <2>1, <2>2, <2>3 DEF CurOK, Holds, Engine, RentSteps
<1> QED BY <1>3, <1>4, <1>5, QuietRows DEF BurnInv

\* It takes a grant in hand.
LEMMA Taken ==
  ASSUME Step, NEW g, NEW s, NEW b, TakeGrant(g, s, b), at["engine"] \notin GrantSteps,
         s \notin Between \cup RentSteps \cup Looked \cup {"energy"},
         cur' = cur,
         cur \in Withdrawals /\ (source = "burned" \/ s = "burn") =>
           Unopened(db', cur) \/ db'.withdrawal[cur].status \notin Awaiting,
         s \in GrantSteps =>
           /\ b = "burn" => g = Energy(cur)
           /\ b = "manual" => cur = NoWithdrawal /\ source # "burned",
         \A w \in Withdrawals : g = Energy(w) =>
           /\ w = cur /\ source # "burned" /\ s \notin Clear
           /\ db'.withdrawal[cur].source # "burned"
           /\ b = "burn" => db'.purchase[cur] \notin Opened
           /\ s = "reconcile" => db'.grant[g].status # "requested"
  PROVE  BurnInv'
<1>1. /\ at'["engine"] = s /\ hand'["engine"] = g /\ hand'["api"] = hand["api"] /\ back' = b
      /\ UNCHANGED <<cur, rows, seen, source>>
  BY DEF Step, SourcingInv, SendsAttempted, Workers, TakeGrant
<1>2. HandOK /\ WalkOK /\ CurOK /\ Quiet(db')
  BY DEF Step, BurnInv
<1>3. HandOK'
  BY <1>1, <1>2 DEF HandOK, Holds, Engine
<1>4. WalkOK'
  BY <1>1, <1>2, QuietRows DEF WalkOK, Waiting
<1>5. CurOK'
  BY <1>1 DEF CurOK, Holds, Engine, RentSteps, Decided
<1> QED BY <1>3, <1>4, <1>5, QuietRows DEF BurnInv

\* It is done with the grant in hand.
LEMMA Returned ==
  ASSUME Step, NEW pending \in BOOLEAN, Return("engine", pending), at["engine"] \in GrantSteps,
         cur \in Withdrawals /\ ~pending /\ back = "burn" =>
           Unopened(db', cur) \/ db'.withdrawal[cur].status \notin Awaiting
  PROVE  BurnInv'
<1> DEFINE s == IF pending THEN Waits ELSE back
<1>1. CASE s = "rows"
  BY <1>1, Left DEF Return, NextRow, Between
<1>2. CASE s # "rows"
  <2>1. /\ at'["engine"] = s /\ hand'["engine"] = NoGrant /\ hand'["api"] = hand["api"]
        /\ UNCHANGED <<cur, rows, seen, source, back>>
    BY <1>2 DEF Step, SourcingInv, SendsAttempted, Workers, Return, engineVars
  <2>2. /\ s \in {"manual", "waits", "burn", "existing", "unavailable", "spare"}
        /\ s = "manual" => back = "manual"
        /\ s = "burn" => ~pending /\ back = "burn"
    BY <1>2 DEF Step, SourcingInv, Backs, Waits
  <2> HIDE DEF s
  <2>3. HandOK /\ WalkOK /\ CurOK /\ Quiet(db')
    BY DEF Step, BurnInv
  <2>4. HandOK'
    BY <2>1, <2>3, Grantings DEF HandOK, Holds
  <2>5. WalkOK'
    BY <2>1, <2>2, <2>3, QuietRows DEF WalkOK, Waiting, Between, GrantSteps
  <2>6. CurOK'
    <3>1. cur \in Withdrawals /\ source = "burned" => Decided(cur)'
      BY <2>1, <2>3, QuietRows DEF CurOK, Decided, GrantSteps
    <3> QED BY <2>1, <2>2, <3>1, Grantings DEF CurOK, Holds, Engine, RentSteps, GrantSteps, Decided
  <2> QED BY <2>4, <2>5, <2>6, QuietRows DEF BurnInv
<1> QED BY <1>1, <1>2

\* The engine does nothing, and the rows of withdrawals stay: the API, the chain, the
\* clocks.
LEMMA Beside ==
  ASSUME SourcingInv, BurnInv, durable' \in {durable, db'}, db'.withdrawal = db.withdrawal,
         db'.purchase = db.purchase,
         \A w \in Withdrawals : db'.grant[Energy(w)] = db.grant[Energy(w)],
         UNCHANGED <<rows, cur, seen, source, back>>,
         at'["engine"] = at["engine"], hand'["engine"] = hand["engine"],
         \A w \in Withdrawals : hand'["api"] # Energy(w)
  PROVE  BurnInv'
<1>1. BurnsLast(db') /\ BurnsLast(durable')
  BY DEF BurnInv, BurnsLast, Unopened
<1>2. HandOK'
  BY DEF BurnInv, HandOK, Holds, Engine
<1>3. WalkOK'
  BY DEF BurnInv, WalkOK, Waiting
<1>4. CurOK'
  BY DEF BurnInv, CurOK, Holds, Engine, Decided, Unopened
<1> QED BY <1>1, <1>2, <1>3, <1>4 DEF BurnInv

-----------------------------------------------------------------------------
(* The statements of the store.                                              *)

\* A status of a grant: decided, or left after an attempt.
LEMMA GrantQuiet ==
  ASSUME SourcingInv, BurnInv, NEW g, NEW x,
         \A w \in Withdrawals : g = Energy(w) =>
           \/ x \in {"confirmed", "failed"} \/ x = db.grant[g].status
           \/ /\ x \in {"broadcast", "needs_operator"}
              /\ db.grant[g].attempted /\ db.grant[g].status \notin Over
  PROVE  Quiet([db EXCEPT !.grant[g].status = x])
<1> DEFINE e == [db EXCEPT !.grant[g].status = x]
<1>1. e.withdrawal = db.withdrawal /\ e.purchase = db.purchase
  BY DEF SourcingInv, Shape
<1>2. \A w \in Withdrawals : g # Energy(w) => e.grant[Energy(w)] = db.grant[Energy(w)]
  BY DEF SourcingInv, Shape
<1>3. \A w \in Withdrawals : g = Energy(w) =>
        e.grant[Energy(w)].status = x /\ e.grant[Energy(w)].attempted = db.grant[Energy(w)].attempted
  BY Grantings DEF SourcingInv, Shape
<1>4. BurnsLast(db)
  BY DEF BurnInv
<1> HIDE DEF e
<1>5. Quiet(e)
  BY <1>1, <1>2, <1>3, <1>4 DEF Quiet, BurnsLast, Over, Tried
<1> QED BY <1>5 DEF e

\* What looks a grant up, the market's failures, a purchase.
LEMMA ColumnsQuiet ==
  ASSUME SourcingInv, BurnInv, NEW g, NEW x
  PROVE  /\ Quiet(db)
         /\ Quiet([db EXCEPT !.grant[g].lookups = x])
         /\ Quiet([db EXCEPT !.grant[g].receipt = TRUE, !.grant[g].lookups = x])
         /\ Quiet([db EXCEPT !.failures = x])
         /\ x \notin Opened \/ db.purchase[cur] \in Opened \/ Engine("quoted") =>
              Quiet([db EXCEPT !.purchase[cur] = x])
<1>1. BurnsLast(db)
  BY DEF BurnInv
<1>2. ASSUME NEW e, e.withdrawal = db.withdrawal, e.purchase = db.purchase,
             \A w \in Withdrawals :
               /\ e.grant[Energy(w)].status = db.grant[Energy(w)].status
               /\ e.grant[Energy(w)].attempted = db.grant[Energy(w)].attempted
      PROVE  Quiet(e)
  BY <1>1, <1>2 DEF Quiet, BurnsLast
<1>3. Quiet(db)
  BY <1>2
<1>4. Quiet([db EXCEPT !.grant[g].lookups = x])
  BY <1>2, Grantings DEF SourcingInv, Shape
<1>5. Quiet([db EXCEPT !.grant[g].receipt = TRUE, !.grant[g].lookups = x])
  BY <1>2, Grantings DEF SourcingInv, Shape
<1>6. Quiet([db EXCEPT !.failures = x])
  BY <1>2 DEF SourcingInv, Shape
<1>7. ASSUME x \notin Opened \/ db.purchase[cur] \in Opened \/ Engine("quoted"),
             NEW e, e = [db EXCEPT !.purchase[cur] = x]
      PROVE  Quiet(e)
  BY <1>1, <1>7 DEF Quiet, BurnsLast, SourcingInv, Shape
<1> QED BY <1>3, <1>4, <1>5, <1>6, <1>7

\* The state of the withdrawal in hand: its source is the engine's.
LEMMA StatusQuiet ==
  ASSUME SourcingInv, BurnInv, NEW s, NEW src, src \in {"", source}
  PROVE  /\ Quiet(SetStatus(s, src))
         /\ src = "" /\ cur \in Withdrawals =>
              SetStatus(s, src).withdrawal[cur].source = db.withdrawal[cur].source
<1>1. BurnsLast(db) /\ seen.status \in Awaiting
  BY DEF BurnInv, WalkOK, Sight
<1>2. CASE db.withdrawal[cur].status # seen.status
  BY <1>2, ColumnsQuiet DEF SetStatus
<1>3. CASE db.withdrawal[cur].status = seen.status
  <2> DEFINE x == IF src = "" THEN db.withdrawal[cur].source ELSE src
             e == SetStatus(s, src)
  <2>1. e = [db EXCEPT !.withdrawal[cur].status = s, !.withdrawal[cur].source = x]
    BY <1>3 DEF SetStatus
  <2>2. /\ DOMAIN e.withdrawal = Withdrawals /\ e.purchase = db.purchase /\ e.grant = db.grant
        /\ \A w \in Withdrawals : /\ DOMAIN e.withdrawal[w] = {"status", "source"}
                                  /\ w # cur => e.withdrawal[w] = db.withdrawal[w]
        /\ cur \in Withdrawals => e.withdrawal[cur].source = x
    <3> HIDE DEF x, e
    <3> QED BY <1>1, <2>1 DEF BurnsLast, SourcingInv, Shape
  <2> HIDE DEF e
  <2>3. Quiet(e)
    BY <1>1, <1>3, <2>2 DEF Quiet, BurnsLast
  <2> QED BY <2>2, <2>3 DEF e
<1> QED BY <1>2, <1>3

\* A withdrawal that fails, or is left to the operator.
LEMMA ClosedQuiet ==
  ASSUME SourcingInv, BurnInv
  PROVE  /\ Quiet(FailResources(cur)) /\ Quiet(WithdrawalNeedsOperator(cur))
         /\ cur \in Withdrawals =>
              WithdrawalNeedsOperator(cur).withdrawal[cur].status \notin Awaiting
<1>1. BurnsLast(db) /\ Quiet(db)
  BY ColumnsQuiet DEF BurnInv
<1>2. ASSUME NEW s, s \notin Awaiting, NEW e, e = [db EXCEPT !.withdrawal[cur].status = s]
      PROVE  Quiet(e) /\ (cur \in Withdrawals => e.withdrawal[cur].status = s)
  <2>1. /\ DOMAIN e.withdrawal = Withdrawals /\ e.purchase = db.purchase /\ e.grant = db.grant
        /\ \A w \in Withdrawals : /\ DOMAIN e.withdrawal[w] = {"status", "source"}
                                  /\ w # cur => e.withdrawal[w] = db.withdrawal[w]
                                  /\ e.withdrawal[w].source = db.withdrawal[w].source
        /\ cur \in Withdrawals => e.withdrawal[cur].status = s
    BY <1>1, <1>2 DEF BurnsLast, SourcingInv, Shape
  <2> QED BY <1>1, <1>2, <2>1 DEF Quiet, BurnsLast
<1>3. "failed" \notin Awaiting /\ "needs_operator" \notin Awaiting
  BY DEF Awaiting
<1> QED BY <1>1, <1>2, <1>3 DEF FailResources, WithdrawalNeedsOperator

\* A grant that fails or is confirmed, whichever it is, is over.
LEMMA EndedQuiet ==
  ASSUME SourcingInv, BurnInv, NEW g
  PROVE  /\ Quiet(FailGrant(g)) /\ Quiet(ConfirmGrant(g))
         /\ \A w \in Withdrawals : FailGrant(Energy(w)).grant[Energy(w)].status \in Over
         /\ FailGrant(g).purchase = db.purchase /\ FailGrant(g).withdrawal = db.withdrawal
         /\ (\A w \in Withdrawals : g = Energy(w) => db.grant[g].attempted)
              => Quiet(GrantNeedsOperator(g))
<1>1. Quiet(FailGrant(g)) /\ Quiet(ConfirmGrant(g))
  BY GrantQuiet, ColumnsQuiet DEF FailGrant, ConfirmGrant
<1>2. ASSUME NEW w \in Withdrawals
      PROVE  FailGrant(Energy(w)).grant[Energy(w)].status \in Over
  BY Grantings DEF FailGrant, Over, SourcingInv, Shape
<1>3. FailGrant(g).purchase = db.purchase /\ FailGrant(g).withdrawal = db.withdrawal
  BY DEF FailGrant, SourcingInv, Shape
<1>4. ASSUME \A w \in Withdrawals : g = Energy(w) => db.grant[g].attempted
      PROVE  Quiet(GrantNeedsOperator(g))
  <2>1. CASE db.grant[g].status \in {"confirmed", "failed", "needs_operator"}
    BY <2>1, ColumnsQuiet DEF GrantNeedsOperator
  <2>2. CASE db.grant[g].status \notin {"confirmed", "failed", "needs_operator"}
    <3>1. \A w \in Withdrawals : g = Energy(w) => db.grant[g].status \notin Over
      BY <1>4, <2>2, Grantings DEF Over, SourcingInv, Shape
    <3> QED BY <1>4, <2>2, <3>1, GrantQuiet DEF GrantNeedsOperator
  <2> QED BY <2>1, <2>2
<1> QED BY <1>1, <1>2, <1>3, <1>4

\* A quiet statement, or none, is a step.
LEMMA Committed ==
  ASSUME SourcingInv, BurnInv, SourcingInv',
         UNCHANGED storeVars \/ \E e : Quiet(e) /\ (Commit(e) \/ CommitFull(e))
  PROVE  Step
BY ColumnsQuiet DEF Step, storeVars, Commit, CommitFull

-----------------------------------------------------------------------------
(* The actions.                                                              *)

Now == SourcingInv /\ SourcingInv' /\ BurnInv

\* What the engine may say of the grant in hand.
LEMMA InHand ==
  ASSUME Now, at["engine"] \in GrantSteps
  PROVE  /\ back = "burn" /\ cur \in Withdrawals =>
              Holds(cur) /\ Mine \notin ManualGrants /\ db.purchase[cur] \notin Opened
         /\ \A w \in Withdrawals : Holds(w) => w = cur /\ Mine \notin ManualGrants
         /\ \A w \in Withdrawals : Holds(w) /\ at["engine"] \in Looked => db.grant[Mine].attempted
BY Grantings DEF Now, BurnInv, HandOK, CurOK, Holds, Mine

\* The grant in hand fails: of a delegation of energy nothing is open.
LEMMA HandFails ==
  ASSUME Now, at["engine"] \in GrantSteps, Commit(FailGrant(Mine)), Return("engine", FALSE)
  PROVE  BurnInv'
<1>1. Step /\ db' = FailGrant(Mine)
  BY Committed, EndedQuiet DEF Now, Commit
<1>2. cur \in Withdrawals /\ back = "burn" => Unopened(db', cur)
  BY <1>1, InHand, EndedQuiet DEF Unopened, Now, Holds, Mine
<1> QED BY <1>1, <1>2, Returned

\* The API's part: it holds manual delegations only.
LEMMA ApiBurn ==
  ASSUME Now, Delegates("api")
  PROVE  BurnInv'
<1> DEFINE g == hand["api"]
<1>1. UNCHANGED engineVars /\ at'["engine"] = at["engine"] /\ hand'["engine"] = hand["engine"]
      /\ hand'["api"] \in {g, NoGrant}
  <2>0. DOMAIN at = Workers /\ DOMAIN hand = Workers /\ "api" \in Workers /\ "engine" \in Workers
    BY DEF Now, SourcingInv, SendsAttempted, Workers
  <2>1. \A s : Goto("api", s) => at'["engine"] = at["engine"] /\ hand' = hand
    BY <2>0 DEF Goto
  <2>2. \A pending \in BOOLEAN : Return("api", pending) =>
          /\ UNCHANGED engineVars /\ at'["engine"] = at["engine"]
          /\ hand'["engine"] = hand["engine"] /\ hand'["api"] = NoGrant
    BY <2>0 DEF Return
  <2>3. Stop("api") =>
          /\ UNCHANGED engineVars /\ at'["engine"] = at["engine"]
          /\ hand'["engine"] = hand["engine"] /\ hand'["api"] = NoGrant
    BY <2>0 DEF Stop
  <2> QED BY <2>1, <2>2, <2>3 DEF Delegates, StartFails, StartSigns, Persist, PersistRefused, SendGrant,
                 RecordSent, Verify
<1>2. \A w \in Withdrawals : g # Energy(w)
  BY DEF Now, BurnInv, HandOK
<1>3. /\ durable' \in {durable, db'} /\ db'.withdrawal = db.withdrawal /\ db'.purchase = db.purchase
      /\ \A w \in Withdrawals : db'.grant[Energy(w)] = db.grant[Energy(w)]
  <2>1. CASE StartFails("api") \/ Verify("api")
    <3>1. Commit(FailGrant(g)) \/ UNCHANGED storeVars
      BY <2>1 DEF StartFails, Verify
    <3>2. \A w \in Withdrawals : FailGrant(g).grant[Energy(w)] = db.grant[Energy(w)]
      BY <1>2 DEF FailGrant, Now, SourcingInv, Shape
    <3> QED BY <3>1, <3>2, EndedQuiet DEF Commit, storeVars, Now
  <2>2. CASE Persist("api")
    <3>1. /\ db' = [db EXCEPT !.grant[g].status = "attempted", !.grant[g].attempted = TRUE]
          /\ durable' = db'
      BY <2>2 DEF Persist, CommitFull
    <3> HIDE DEF g
    <3>2. db'.withdrawal = db.withdrawal /\ db'.purchase = db.purchase
      BY <3>1 DEF Now, SourcingInv, Shape
    <3>3. \A w \in Withdrawals : db'.grant[Energy(w)] = db.grant[Energy(w)]
      BY <1>2, <3>1, Grantings DEF Now, SourcingInv, Shape
    <3> QED BY <3>1, <3>2, <3>3
  <2>3. CASE RecordSent("api")
    <3>1. PICK x : db' = [db EXCEPT !.grant[g].status = x] /\ durable' = db'
      BY <2>3 DEF RecordSent, CommitFull
    <3>2. db'.withdrawal = db.withdrawal /\ db'.purchase = db.purchase
      BY <3>1 DEF Now, SourcingInv, Shape
    <3>3. \A w \in Withdrawals : db'.grant[Energy(w)] = db.grant[Energy(w)]
      BY <1>2, <3>1 DEF Now, SourcingInv, Shape
    <3> QED BY <3>1, <3>2, <3>3
  <2>4. CASE UNCHANGED storeVars
    BY <2>4 DEF storeVars
  <2> QED BY <2>1, <2>2, <2>3, <2>4 DEF Delegates, StartSigns, PersistRefused, SendGrant
<1>4. \A w \in Withdrawals : hand'["api"] # Energy(w)
  BY <1>1, <1>2, Grantings
<1> QED BY <1>1, <1>3, <1>4, Beside DEF Now, engineVars

\* The engine's delegation or top-up.
LEMMA DelegatesBurn ==
  ASSUME Now, Delegates("engine")
  PROVE  BurnInv'
<1> DEFINE g == hand["engine"]
<1>0. Mine = g /\ at["engine"] \in GrantSteps
  BY DEF Mine, Delegates, StartFails, StartSigns, Persist, PersistRefused, SendGrant, RecordSent, Verify,
         GrantSteps
<1>1. \A s : Goto("engine", s) /\ UNCHANGED engineVars => EngineGoto(s)
  BY DEF EngineGoto
<1>2. UNCHANGED storeVars => Step
  BY Committed DEF Now
<1>3. CASE StartFails("engine")
  BY <1>0, <1>3, HandFails DEF StartFails
<1>4. CASE StartSigns("engine")
  BY <1>0, <1>1, <1>2, <1>4, GrantStepped DEF StartSigns, GrantSteps, Looked
<1>5. CASE Persist("engine")
  <2> DEFINE e == [db EXCEPT !.grant[g].status = "attempted", !.grant[g].attempted = TRUE]
  <2>1. CommitFull(e) /\ db.grant[g].status = "requested" /\ EngineGoto("send")
    BY <1>1, <1>5 DEF Persist, Unspent
  <2>2. /\ e.withdrawal = db.withdrawal /\ e.purchase = db.purchase
        /\ \A w \in Withdrawals : g # Energy(w) => e.grant[Energy(w)] = db.grant[Energy(w)]
        /\ \A w \in Withdrawals : g = Energy(w) =>
             e.grant[Energy(w)].status = "attempted" /\ e.grant[Energy(w)].attempted
    BY Grantings DEF Now, SourcingInv, Shape
  <2> HIDE DEF e
  <2>3. Quiet(e)
    BY <2>1, <2>2 DEF Quiet, Now, BurnInv, BurnsLast, Over, Tried
  <2>4. Step
    BY <2>1, <2>3, Committed DEF Now
  <2> QED BY <1>0, <2>1, <2>4, GrantStepped DEF GrantSteps, Looked
<1>6. CASE PersistRefused("engine")
  BY <1>2, <1>6, Left DEF PersistRefused, Stop, Between
<1>7. CASE \E rejected \in BOOLEAN : SendGrant("engine", rejected)
  <2>1. PICK s \in {"record", "recordRejected"} : EngineGoto(s) /\ UNCHANGED storeVars
    BY <1>1, <1>7 DEF SendGrant
  <2> QED BY <1>0, <1>2, <2>1, GrantStepped DEF GrantSteps, Looked
<1>8. CASE RecordSent("engine")
  <2> DEFINE x == IF db.grant[g].status = "attempted" THEN "broadcast" ELSE db.grant[g].status
  <2>1. CommitFull([db EXCEPT !.grant[g].status = x])
    BY <1>8 DEF RecordSent
  <2>2. \A w \in Withdrawals : g = Energy(w) /\ x # db.grant[g].status =>
          x = "broadcast" /\ db.grant[g].attempted /\ db.grant[g].status \notin Over
    BY DEF Now, BurnInv, BurnsLast, Over, Tried
  <2> HIDE DEF x
  <2>3. Step
    BY <2>1, <2>2, GrantQuiet, Committed DEF Now
  <2>4. Return("engine", TRUE) \/ EngineGoto("verify")
    BY <1>1, <1>8 DEF RecordSent
  <2> QED BY <1>0, <2>3, <2>4, Returned, GrantStepped DEF GrantSteps, Looked
<1>9. CASE Verify("engine")
  BY <1>0, <1>2, <1>9, HandFails, Returned DEF Verify
<1> QED BY <1>3, <1>4, <1>5, <1>6, <1>7, <1>8, <1>9 DEF Delegates

\* The reconciliation: what was not attempted is over, what is given up on goes to the
\* operator with its withdrawal.
LEMMA ReconcilesBurn ==
  ASSUME Now, Reconciles
  PROVE  BurnInv'
<1>0. at["engine"] \in GrantSteps
  BY DEF Reconciles, ReconcileNothing, Reconcilable, Lookup, LookupFails, GiveUp, Escalate, ApplyAbsent,
         ReceiptMissing, ReceiptSolid, Outcome, OutcomeReverted, Engine, GrantSteps
<1>1. UNCHANGED storeVars => Step
  BY Committed DEF Now
<1>2. CASE ReconcileNothing
  <2>1. cur \in Withdrawals /\ back = "burn" => Unopened(db', cur)
    <3> SUFFICES ASSUME cur \in Withdrawals, back = "burn" PROVE Unopened(db', cur)
      OBVIOUS
    <3>1. Holds(cur) /\ db.purchase[cur] \notin Opened
      BY <1>0, InHand
    <3>2. db.grant[Mine].status # "requested"
      BY <1>2, <3>1 DEF ReconcileNothing, Now, BurnInv, HandOK, Holds, Mine
    <3>3. db.grant[Mine].status \in Over
      BY <1>2, <3>1, <3>2 DEF ReconcileNothing, NothingToReconcile, Now, BurnInv, BurnsLast, Holds, Mine,
         Over
    <3> QED BY <1>2, <3>1, <3>3 DEF ReconcileNothing, storeVars, Unopened, Holds, Mine
  <2> QED BY <1>0, <1>1, <1>2, <2>1, Returned DEF ReconcileNothing
<1>3. Reconcilable \/ at["engine"] \in Looked =>
        \A w \in Withdrawals : Holds(w) => db.grant[Energy(w)].attempted
  BY <1>0, InHand DEF Reconcilable, NothingToReconcile, Holds, Mine
<1>4. CASE Lookup \/ ReceiptSolid
  <2>1. PICK s \in {"receipt", "absent", "outcome", "reverted"} : EngineGoto(s)
    BY <1>4 DEF Lookup, ReceiptSolid
  <2>2. Step
    BY <1>4, ColumnsQuiet, Committed DEF Lookup, ReceiptSolid, Now
  <2>3. \A w \in Withdrawals : Holds(w) => db'.grant[Energy(w)].attempted
    BY <1>3, <1>4, <2>2 DEF Lookup, ReceiptSolid, Engine, Looked, Step, Quiet
  <2> QED BY <1>0, <2>1, <2>2, <2>3, GrantStepped DEF GrantSteps
<1>5. CASE LookupFails
  <2>1. Step
    BY <1>5, ColumnsQuiet, Committed DEF LookupFails, Now
  <2>2. Return("engine", TRUE) \/ EngineGoto("giveUp")
    BY <1>5 DEF LookupFails
  <2>3. \A w \in Withdrawals : Holds(w) => db'.grant[Energy(w)].attempted
    BY <1>3, <1>5, <2>1 DEF LookupFails, Engine, Looked, Step, Quiet
  <2> QED BY <1>0, <2>1, <2>2, <2>3, Returned, GrantStepped DEF GrantSteps
<1>6. CASE GiveUp
  <2>1. \A w \in Withdrawals : Mine = Energy(w) => db.grant[Mine].attempted
    BY <1>0, <1>6, InHand DEF GiveUp, Engine, Looked, Holds, Mine
  <2>2. Step
    BY <1>6, <2>1, EndedQuiet, Committed DEF GiveUp, Now
  <2>3. \A w \in Withdrawals : Holds(w) => db'.grant[Energy(w)].attempted
    BY <2>1, <2>2 DEF Step, Quiet, Holds, Mine
  <2>4. \/ Return("engine", FALSE) /\ Mine \in ManualGrants
        \/ EngineGoto("escalate")
    BY <1>6 DEF GiveUp
  <2> QED BY <1>0, <2>2, <2>3, <2>4, InHand, Returned, GrantStepped DEF GrantSteps
<1>7. CASE Escalate
  <2>1. Step /\ db' = WithdrawalNeedsOperator(cur)
    BY <1>7, ClosedQuiet, Committed DEF Escalate, Now, Commit
  <2> QED BY <1>0, <1>7, <2>1, ClosedQuiet, Returned DEF Escalate, Now
<1>8. CASE ApplyAbsent \/ OutcomeReverted
  BY <1>0, <1>1, <1>8, HandFails, Returned DEF ApplyAbsent, OutcomeReverted
<1>9. CASE ReceiptMissing
  BY <1>0, <1>1, <1>9, Returned DEF ReceiptMissing
<1>10. CASE Outcome
  <2>1. CASE Mine \in ManualGrants
    <3>1. Step /\ Return("engine", FALSE)
      BY <1>10, <2>1, EndedQuiet, Committed DEF Outcome, Now
    <3> QED BY <1>0, <2>1, <3>1, InHand, Returned
  <2>2. CASE Mine \notin ManualGrants
    BY <1>0, <1>1, <1>10, <2>2, HandFails, Returned DEF Outcome
  <2> QED BY <2>1, <2>2
<1> QED BY <1>2, <1>4, <1>5, <1>6, <1>7, <1>8, <1>9, <1>10 DEF Reconciles

\* The walk over the rows.
LEMMA WalksBurn ==
  ASSUME Now, Walks \/ NotDue
  PROVE  BurnInv'
<1>0. /\ HandOK /\ WalkOK /\ CurOK /\ BurnsLast(db) /\ DOMAIN at = Workers /\ "engine" \in Workers
      /\ Between \cap GrantSteps = {} /\ {"closeRental", "read"} \cap (GrantSteps \cup RentSteps) = {}
  BY DEF Now, BurnInv, SourcingInv, SendsAttempted, Workers, Between, GrantSteps, RentSteps
<1>1. UNCHANGED storeVars => Step
  BY Committed DEF Now
<1>2. CASE BeginTick \/ ManualDone \/ RowsDone
  <2>1. Step /\ at["engine"] \in Between /\ cur = NoWithdrawal /\ source # "burned"
    BY <1>0, <1>1, <1>2 DEF BeginTick, ManualDone, RowsDone, Engine, Between, WalkOK
  <2>2. PICK s \in Between : at' = [at EXCEPT !["engine"] = s]
    BY <1>2 DEF BeginTick, ManualDone, RowsDone, Goto, Between
  <2>3. /\ hand' = hand /\ UNCHANGED <<cur, seen, source, back>>
        /\ rows' \subseteq Waiting \ {cur}
    BY <1>0, <1>2, <2>1, Grantings DEF BeginTick, ManualDone, RowsDone, Goto, WalkOK, Waiting
  <2> QED BY <1>0, <2>1, <2>2, <2>3, Stepped, Grantings DEF WalkOK, Clear
<1>3. ASSUME NEW g \in ManualGrants, NEW requested \in BOOLEAN, TakeManual(g, requested)
      PROVE  BurnInv'
  <2>1. Step /\ cur = NoWithdrawal /\ source # "burned" /\ at["engine"] \notin GrantSteps
    BY <1>0, <1>1, <1>3 DEF TakeManual, Engine, Between, WalkOK
  <2>2. PICK s \in {"start", "reconcile"} : TakeGrant(g, s, "manual")
    BY <1>3 DEF TakeManual
  <2>3. s \in GrantSteps /\ s \notin Between \cup RentSteps \cup Looked \cup {"energy"}
    BY DEF GrantSteps, Between, RentSteps, Looked
  <2>4. cur' = cur /\ cur \notin Withdrawals /\ \A w \in Withdrawals : g # Energy(w)
    BY <2>1, <2>2, Grantings DEF TakeGrant
  <2> QED BY <2>1, <2>2, <2>3, <2>4, Taken
<1>4. ASSUME NEW w \in Withdrawals, TakeRow(w)
      PROVE  BurnInv'
  <2>1. Step /\ at["engine"] \in Between /\ at["engine"] \notin GrantSteps /\ source # "burned"
    BY <1>0, <1>1, <1>4 DEF TakeRow, Engine, Between, WalkOK
  <2>2. PICK s \in {"closeRental", "read"} : at' = [at EXCEPT !["engine"] = s]
    BY <1>4 DEF TakeRow, Goto
  <2>3. /\ hand' = hand /\ cur' = w /\ rows' = rows \ {w} /\ w \in rows /\ db' = db
        /\ UNCHANGED <<source, back>> /\ at'["engine"] = s
        /\ "status" \in DOMAIN seen' /\ seen'.status = db.withdrawal[w].status
    BY <1>0, <1>4, <2>2 DEF TakeRow, Goto, NoSight, storeVars
  <2>4. \A v \in Withdrawals : ~Holds(v)
    BY <1>0, <2>1 DEF HandOK, Clear
  <2>5. HandOK'
    BY <1>0, <2>3, <2>4 DEF HandOK, Holds
  <2>6. WalkOK'
    BY <1>0, <2>2, <2>3 DEF WalkOK, Sight, Waiting, Between
  <2>7. CurOK'
    BY <1>0, <2>1, <2>2, <2>3, <2>4 DEF CurOK, Holds, Engine
  <2> QED BY <2>1, <2>5, <2>6, <2>7, QuietRows DEF BurnInv
<1>5. CASE CloseRental
  <2>1. Step
    <3>1. PICK x \in {"delegated", "expired"} :
            Commit(IF db.purchase[cur] # "purchased" THEN db ELSE [db EXCEPT !.purchase[cur] = x])
      BY <1>5 DEF CloseRental
    <3>2. db.purchase[cur] = "purchased" => Quiet([db EXCEPT !.purchase[cur] = x])
      BY ColumnsQuiet DEF Now, Opened
    <3> QED BY <3>1, <3>2, ColumnsQuiet, Committed DEF Now
  <2>2. /\ at["engine"] = "closeRental" /\ at' = [at EXCEPT !["engine"] = "read"]
        /\ hand' = hand /\ UNCHANGED <<cur, rows, seen, source, back>>
    BY <1>5 DEF CloseRental, Engine, EngineGoto, Goto, engineVars
  <2>3. cur \in Withdrawals /\ source = "burned" =>
          Unopened(db', cur) \/ db'.withdrawal[cur].status \notin Awaiting
    BY <1>0, <2>1, <2>2, QuietRows DEF CurOK
  <2> QED BY <1>0, <2>1, <2>2, <2>3, Stepped DEF WalkOK, Clear, Between
<1>6. CASE NotDue
  BY <1>1, <1>6, Left DEF NotDue, NextRow, Between
<1> QED BY <1>2, <1>3, <1>4, <1>5, <1>6 DEF Walks

\* The rental: it is closed before the engine looks for energy elsewhere.
LEMMA RentsBurn ==
  ASSUME Now, Rents
  PROVE  BurnInv'
<1>0. /\ HandOK /\ WalkOK /\ CurOK /\ BurnsLast(db) /\ DOMAIN at = Workers /\ "engine" \in Workers
      /\ RentSteps \cap (GrantSteps \cup Between) = {} /\ RentSteps \subseteq Clear
  BY DEF Now, BurnInv, SourcingInv, SendsAttempted, Workers, Between, GrantSteps, RentSteps, Clear
<1>1. UNCHANGED storeVars => Step
  BY Committed DEF Now
<1>2. NextRow /\ Step => BurnInv'
  BY Left DEF NextRow, Between
<1>3. ASSUME Step, NEW s \in RentSteps, at["engine"] \in RentSteps,
             at' = [at EXCEPT !["engine"] = s], hand' = hand,
             UNCHANGED <<cur, rows, seen, source, back>>,
             s \in {"blame", "delegate"} /\ cur \in Withdrawals => db'.purchase[cur] \notin Opened
      PROVE  BurnInv'
  <2>1. cur \in Withdrawals => source # "burned" /\ db'.withdrawal[cur].source # "burned"
    BY <1>0, <1>3 DEF CurOK, Step, Quiet
  <2>2. s \notin {"energy", "burn"}
    BY DEF RentSteps
  <2> QED BY <1>0, <1>3, <2>1, <2>2, Stepped DEF WalkOK
<1>4. ASSUME Step, NEW s \in {"bandwidth", "rented"}, at["engine"] \notin GrantSteps,
             at["engine"] \in Clear \/ s # "rented",
             at' = [at EXCEPT !["engine"] = s], hand' = hand, UNCHANGED <<cur, rows, seen, back>>,
             \/ source' = "rented"
             \/ source' = source /\ at["engine"] \notin {"quoted", "delegate"}
      PROVE  BurnInv'
  <2>1. cur \in Withdrawals /\ source' = "burned" =>
          Unopened(db', cur) \/ db'.withdrawal[cur].status \notin Awaiting
    BY <1>0, <1>4, QuietRows DEF CurOK
  <2>2. s \notin GrantSteps \cup Between \cup RentSteps \cup {"energy", "burn"}
        /\ (s \in Clear => at["engine"] \in Clear)
    BY <1>4 DEF GrantSteps, Between, RentSteps, Clear
  <2> QED BY <1>0, <1>4, <2>1, <2>2, Stepped DEF WalkOK
<1>5. CASE RentalUnfinished
  BY <1>1, <1>2, <1>5 DEF RentalUnfinished
<1>6. CASE FinishRental
  <2>1. Step
    <3>1. db.purchase[cur] \in Opened /\ Commit([db EXCEPT !.purchase[cur] = "delegated"])
      BY <1>6 DEF FinishRental, Arrived, Opened
    <3> QED BY <3>1, ColumnsQuiet, Committed DEF Now
  <2> QED BY <1>4, <1>6, <2>1 DEF FinishRental, EngineGoto, Goto, engineVars, Engine, Clear, GrantSteps
<1>7. CASE RentalFinished
  <2>1. Step
    BY <1>7, ColumnsQuiet, Committed DEF RentalFinished, Now
  <2> QED BY <1>4, <1>7, <2>1 DEF RentalFinished, Goto, Engine, Clear, GrantSteps
<1>8. CASE RentalDecided
  <2>1. CASE From("rented", "bandwidth")
    BY <1>1, <1>4, <1>8, <2>1 DEF RentalDecided, From, Goto, Engine, GrantSteps
  <2>2. CASE EngineGoto("delegate") /\ db.purchase[cur] \in {"failed", "expired"}
    BY <1>1, <1>3, <1>8, <2>2 DEF RentalDecided, EngineGoto, Goto, engineVars, storeVars, Engine,
       RentSteps, Opened
  <2> QED BY <1>8, <2>1, <2>2 DEF RentalDecided
<1>9. CASE PollRental
  <2>1. EngineGoto("failRental") => BurnInv'
    BY <1>1, <1>3, <1>9 DEF PollRental, EngineGoto, Goto, engineVars, Engine, RentSteps
  <2> QED BY <1>1, <1>2, <1>9, <2>1 DEF PollRental
<1>10. CASE RentalSkipped
  <2>1. PICK s \in {"delegate", "blame"} : EngineGoto(s)
    BY <1>10 DEF RentalSkipped
  <2>2. Step /\ db'.purchase[cur] \notin Opened
    BY <1>1, <1>10 DEF RentalSkipped, Unrented, storeVars, Opened
  <2> QED BY <1>3, <1>10, <2>1, <2>2 DEF RentalSkipped, Unrented, EngineGoto, Goto, engineVars, Engine,
             RentSteps
<1>11. CASE Quote \/ QuoteTooDear \/ MarkPurchase \/ FailRental
  <2>1. PICK x \in {"quoted", "failed", "purchased"}, s \in {"quoted", "delegate", "purchase", "blame"} :
          /\ Commit([db EXCEPT !.purchase[cur] = x]) \/ CommitFull([db EXCEPT !.purchase[cur] = x])
          /\ EngineGoto(s) /\ (x = "purchased" => Engine("quoted"))
          /\ s \in {"delegate", "blame"} => x = "failed"
    BY <1>11 DEF Quote, QuoteTooDear, MarkPurchase, FailRental
  <2>2. Step
    BY <2>1, ColumnsQuiet, Committed DEF Now, Opened
  <2>3. at["engine"] \in RentSteps
    BY <1>11 DEF Quote, Unrented, QuoteTooDear, MarkPurchase, FailRental, Engine, RentSteps
  <2>4. cur \in Withdrawals => db'.purchase[cur] = x
    BY <2>1 DEF Commit, CommitFull, Now, SourcingInv, Shape
  <2> QED BY <1>3, <2>1, <2>2, <2>3, <2>4 DEF EngineGoto, Goto, engineVars, RentSteps, Opened
<1>12. CASE Purchase
  <2>1. EngineGoto("failRental") => BurnInv'
    BY <1>1, <1>3, <1>12 DEF Purchase, EngineGoto, Goto, engineVars, Engine, RentSteps
  <2> QED BY <1>1, <1>2, <1>12, <2>1 DEF Purchase
<1>13. CASE Blame
  <2>1. PICK n : Commit([db EXCEPT !.failures = n])
    BY <1>13 DEF Blame
  <2>2. Step /\ db'.purchase = db.purchase
    BY <2>1, ColumnsQuiet, Committed DEF Commit, Now, SourcingInv, Shape
  <2>3. cur \in Withdrawals => db.purchase[cur] \notin Opened
    BY <1>0, <1>13 DEF CurOK, Blame, Engine
  <2> QED BY <1>3, <1>13, <2>2, <2>3 DEF Blame, Goto, Engine, RentSteps
<1> QED BY <1>5, <1>6, <1>7, <1>8, <1>9, <1>10, <1>11, <1>12, <1>13 DEF Rents

\* Energy and bandwidth: TRX is burned where nothing is open.
LEMMA AcquiresBurn ==
  ASSUME Now, Acquires
  PROVE  BurnInv'
<1>0. /\ HandOK /\ WalkOK /\ CurOK /\ BurnsLast(db) /\ DOMAIN at = Workers /\ "engine" \in Workers
  BY DEF Now, BurnInv, SourcingInv, SendsAttempted, Workers
<1>1. UNCHANGED storeVars => Step
  BY Committed DEF Now
<1>2. NextRow /\ Step => BurnInv'
  BY Left DEF NextRow, Between
<1> DEFINE Late == {"bandwidth", "delegateBandwidth", "fail", "sign", "spare"}
<1>3. Late \cap (GrantSteps \cup Clear \cup {"existing"}) = {}
  BY DEF GrantSteps, Clear, Between, RentSteps
\* A step that is past the sources of energy, or enters that part.
<1>4. ASSUME Step, NEW s \in Late, at["engine"] \notin GrantSteps \cup {"quoted", "delegate"},
             at' = [at EXCEPT !["engine"] = s], hand' = hand, UNCHANGED <<cur, rows, back>>,
             Sight(seen'),
             \/ source' # "burned"
             \/ source' = source
             \/ at["engine"] = "burn"
      PROVE  BurnInv'
  <2>1. cur \in Withdrawals /\ source' = "burned" =>
          Unopened(db', cur) \/ db'.withdrawal[cur].status \notin Awaiting
    BY <1>0, <1>4, QuietRows DEF CurOK, Engine
  <2>2. s \notin GrantSteps \cup Between \cup RentSteps \cup {"energy", "burn", "blame", "delegate"}
        /\ s \notin Clear
    BY <1>3 DEF GrantSteps, Between, RentSteps, Clear
  <2>3. at["engine"] \notin Clear /\ source' = "burned" => source = "burned"
    BY <1>4 DEF Clear
  <2> HIDE DEF Late
  <2> QED BY <1>0, <1>4, <2>1, <2>2, <2>3, Stepped DEF WalkOK
<1>5. CASE \E energy, bandwidth \in BOOLEAN : Read(energy, bandwidth)
  <2>1. /\ Engine("read") /\ at' = [at EXCEPT !["engine"] = "energy"] /\ hand' = hand
        /\ UNCHANGED <<cur, rows, back>> /\ UNCHANGED storeVars
        /\ source' = db.withdrawal[cur].source
    BY <1>5 DEF Read, Goto
  <2>2. Sight(seen')
    <3>1. PICK energy, bandwidth \in BOOLEAN :
            seen' = [seen EXCEPT !.energy = energy, !.bandwidth = bandwidth]
      BY <1>5 DEF Read
    <3> QED BY <1>0, <3>1 DEF WalkOK, Sight
  <2>3. cur \in Withdrawals /\ source' = "burned" =>
          Unopened(db', cur) \/ db'.withdrawal[cur].status \notin Awaiting
    BY <1>0, <2>1 DEF BurnsLast, storeVars
  <2>4. "energy" \notin GrantSteps \cup RentSteps \cup Between /\ "energy" \in Clear
        /\ "read" \in Clear /\ "read" \notin GrantSteps
    BY DEF GrantSteps, RentSteps, Between, Clear
  <2> QED BY <1>0, <1>1, <2>1, <2>2, <2>3, <2>4, Stepped DEF WalkOK, Engine, storeVars
<1>6. CASE AwaitEnergy
  <2>1. /\ Engine("energy") /\ SourceRead # "burned"
        /\ UNCHANGED storeVars \/ Commit(SetStatus("awaiting_energy", ""))
    BY <1>6 DEF AwaitEnergy, NeedsEnergy
  <2>2. Step /\ db' \in {db, SetStatus("awaiting_energy", "")}
    BY <1>1, <2>1, StatusQuiet, Committed DEF Now, Commit, storeVars
  <2>3. cur \in Withdrawals => db.withdrawal[cur].source # "burned"
    BY <1>0, <2>1 DEF CurOK, SourceRead, BurnsLast, Unopened, Opened
  <2>4. cur \in Withdrawals => db'.withdrawal[cur].source # "burned"
    BY <2>2, <2>3, StatusQuiet DEF Now
  <2>5. CASE NextRow
    BY <1>2, <2>2, <2>5
  <2>6. CASE ~NextRow
    <3>1. /\ at' = [at EXCEPT !["engine"] = "rent"] /\ hand' = hand
          /\ UNCHANGED <<cur, rows, back>> /\ source' = SourceRead
          /\ seen' = [seen EXCEPT !.status = "awaiting_energy"]
      BY <1>6, <2>6 DEF AwaitEnergy, Goto
    <3>2. Sight(seen')
      BY <1>0, <3>1 DEF WalkOK, Sight, Awaiting
    <3>3. /\ "rent" \notin GrantSteps \cup Between /\ "rent" \in Clear
          /\ "energy" \in Clear /\ "energy" \notin GrantSteps
      BY DEF GrantSteps, RentSteps, Between, Clear
    <3> QED BY <1>0, <2>1, <2>2, <2>4, <3>1, <3>2, <3>3, Stepped DEF WalkOK, Engine
  <2> QED BY <2>5, <2>6
<1>7. CASE HasEnergy
  <2>1. PICK src \in {SourceRead, "existing"} : From(src, "bandwidth") /\ UNCHANGED storeVars
    BY <1>7 DEF HasEnergy
  <2>2. src = "burned" => src = source
    BY DEF SourceRead
  <2> QED BY <1>0, <1>1, <1>4, <1>7, <2>1, <2>2
          DEF HasEnergy, From, Goto, Engine, GrantSteps, WalkOK
<1>8. CASE HasGrantedEnergy
  <2>1. PICK s \in {"reconcile", "existing"} :
          /\ TakeGrant(EnergyGrant, s, "existing") /\ UNCHANGED storeVars /\ Engine("energy")
          /\ SourceRead = "" /\ (s = "reconcile" => NeedsReceipt(EnergyGrant))
    BY <1>8 DEF HasGrantedEnergy
  <2>2. source = "" /\ (cur \in Withdrawals => db.withdrawal[cur].source # "burned")
    BY <1>0, <2>1 DEF SourceRead, CurOK
  <2>3. s = "reconcile" /\ cur \in Withdrawals => db.grant[EnergyGrant].status # "requested"
    BY <1>0, <2>1, Grantings DEF NeedsReceipt, BurnsLast
  <2>4. s \notin Between \cup RentSteps \cup Looked \cup Clear /\ "energy" \notin GrantSteps
    BY DEF Between, RentSteps, Looked, Clear, GrantSteps
  <2>5. Step /\ db' = db /\ cur' = cur /\ at["engine"] = "energy"
    BY <1>1, <2>1 DEF TakeGrant, storeVars, Engine
  <2>6. \A w \in Withdrawals : EnergyGrant = Energy(w) =>
          /\ w = cur /\ source # "burned" /\ s \notin Clear
          /\ db'.withdrawal[cur].source # "burned"
          /\ s = "reconcile" => db'.grant[EnergyGrant].status # "requested"
    BY <2>2, <2>3, <2>4, <2>5, Grantings
  <2>7. s \notin {"burn", "energy"} /\ source # "burned"
        /\ s \notin Between \cup RentSteps \cup Looked \cup {"energy"}
        /\ at["engine"] \notin GrantSteps
    BY <2>2, <2>4, <2>5
  <2>8. TakeGrant(EnergyGrant, s, "existing")
    BY <2>1
  <2> QED BY <2>5, <2>6, <2>7, <2>8, Taken
<1>9. CASE ConfirmEnergy
  <2>1. Step
    BY <1>9, EndedQuiet, Committed DEF ConfirmEnergy, Now
  <2> QED BY <1>0, <1>4, <1>9, <2>1 DEF ConfirmEnergy, From, Goto, Engine, GrantSteps, WalkOK
<1>10. CASE Burn
  BY <1>0, <1>1, <1>4, <1>10 DEF Burn, From, Goto, Engine, GrantSteps, WalkOK
<1>11. CASE BurnRefused \/ BandwidthUnavailable
  <2>1. Step /\ NextRow
    BY <1>11, ClosedQuiet, Committed DEF BurnRefused, BandwidthUnavailable, Now
  <2> QED BY <1>2, <2>1
<1>12. CASE HasBandwidth
  <2>1. CASE EngineGoto("sign")
    BY <1>0, <1>1, <1>4, <1>12, <2>1 DEF HasBandwidth, EngineGoto, Goto, engineVars, Engine, GrantSteps,
       WalkOK
  <2>2. CASE \E s \in {"reconcile", "spare"} : TakeGrant(BandwidthGrant, s, "spare")
    <3>1. PICK s \in {"reconcile", "spare"} : TakeGrant(BandwidthGrant, s, "spare")
      BY <2>2
    <3>2. Step /\ Engine("bandwidth") /\ db' = db
      BY <1>1, <1>12 DEF HasBandwidth, storeVars
    <3>3. cur \in Withdrawals /\ source = "burned" =>
            Unopened(db', cur) \/ db'.withdrawal[cur].status \notin Awaiting
      BY <1>0, <3>2, QuietRows DEF CurOK, Engine
    <3>4. s \notin Between \cup RentSteps \cup Looked \cup {"energy", "burn"}
          /\ "bandwidth" \notin GrantSteps
      BY DEF Between, RentSteps, Looked, GrantSteps
    <3>5. cur' = cur /\ \A w \in Withdrawals : BandwidthGrant # Energy(w)
      BY <3>1, Grantings DEF TakeGrant, BandwidthGrant
    <3> QED BY <3>1, <3>2, <3>3, <3>4, <3>5, Taken DEF Engine
  <2> QED BY <1>12, <2>1, <2>2 DEF HasBandwidth
<1>13. CASE BurnBandwidth
  BY <1>0, <1>1, <1>4, <1>13 DEF BurnBandwidth, EngineGoto, Goto, engineVars, Engine, GrantSteps, WalkOK
<1>14. CASE ConfirmBandwidth
  <2>1. Step
    BY <1>14, EndedQuiet, Committed DEF ConfirmBandwidth, Now
  <2> QED BY <1>0, <1>4, <1>14, <2>1 DEF ConfirmBandwidth, EngineGoto, Goto, engineVars, Engine,
             GrantSteps, WalkOK
<1>15. CASE AwaitBandwidth
  <2>1. Step
    BY <1>15, StatusQuiet, Committed DEF AwaitBandwidth, Now
  <2>2. CASE NextRow
    BY <1>2, <2>1, <2>2
  <2>3. CASE ~NextRow
    <3>1. /\ seen' = [seen EXCEPT !.status = "awaiting_resources"]
          /\ Goto("engine", "delegateBandwidth")
          /\ UNCHANGED <<back, boot, manual, rows, cur, source, circuit>>
      BY <1>15, <2>3 DEF AwaitBandwidth
    <3>2. Sight(seen')
      BY <1>0, <3>1 DEF WalkOK, Sight, Awaiting
    <3> QED BY <1>4, <1>15, <2>1, <3>1, <3>2 DEF AwaitBandwidth, Goto, Engine, GrantSteps
  <2> QED BY <2>2, <2>3
<1>16. CASE NoteSources
  <2>1. Step
    BY <1>16, StatusQuiet, Committed DEF NoteSources, Now
  <2> QED BY <1>0, <1>2, <1>4, <1>16, <2>1 DEF NoteSources, EngineGoto, Goto, engineVars, Engine, GrantSteps,
             WalkOK
<1>17. CASE Sign
  <2>1. Step /\ NextRow
    BY <1>17, StatusQuiet, Committed DEF Sign, Now
  <2> QED BY <1>2, <2>1
<1>18. CASE DelegateEnergy \/ GrantBandwidth
  <2>1. PICK g, s, b : /\ Ensure(g, s, b)
                       /\ \/ g = EnergyGrant /\ s = "delegate" /\ b = "burn"
                          \/ g = BandwidthGrant /\ s = "delegateBandwidth" /\ b = "unavailable"
    BY <1>18 DEF DelegateEnergy, GrantBandwidth
  <2>2. at["engine"] = s /\ s \notin GrantSteps /\ b \notin GrantSteps
    BY <2>1 DEF Ensure, Engine, GrantSteps
  <2>3. /\ s = "delegate" /\ cur \in Withdrawals =>
             /\ source # "burned" /\ db.withdrawal[cur].source # "burned"
             /\ db.purchase[cur] \notin Opened
        /\ cur \in Withdrawals /\ source = "burned" => Decided(cur)
    BY <1>0, <2>2 DEF CurOK, RentSteps
  <2>4. \A w \in Withdrawals : (g = Energy(w) => s = "delegate" /\ w = cur) /\ NoGrant # Energy(w)
    BY <2>1, Grantings DEF BandwidthGrant
  <2>5. CASE db.grant[g].status = "none" /\ Commit([db EXCEPT !.grant[g] = NewGrant])
             /\ TakeGrant(g, "start", b)
    <3> DEFINE e == [db EXCEPT !.grant[g] = NewGrant]
    <3>1. /\ e.withdrawal = db.withdrawal /\ e.purchase = db.purchase
          /\ \A w \in Withdrawals : g # Energy(w) => e.grant[Energy(w)] = db.grant[Energy(w)]
          /\ \A w \in Withdrawals : g = Energy(w) => e.grant[Energy(w)] = NewGrant
      BY Grantings DEF Now, SourcingInv, Shape
    <3>2. \A w \in Withdrawals : g = Energy(w) => ~db.grant[Energy(w)].attempted
      BY <2>5, Grantings DEF Now, SourcingInv, Shape
    <3> HIDE DEF e
    <3>3. Quiet(e)
      BY <1>0, <2>2, <2>4, <3>1, <3>2 DEF Quiet, BurnsLast, NewGrant, Over, Tried, Engine
    <3>4. Step /\ db' = e
      BY <2>5, <3>3, Committed DEF e, Now, Commit
    <3>5. s = "delegateBandwidth" /\ cur \in Withdrawals /\ source = "burned" =>
            Unopened(db', cur) \/ db'.withdrawal[cur].status \notin Awaiting
      BY <2>2, <2>3, <3>4, QuietRows
    <3>6. "start" \notin Between \cup RentSteps \cup Looked \cup Clear
      BY DEF Between, RentSteps, Looked, Clear
    <3>7. cur' = cur
      BY <2>5 DEF TakeGrant
    <3> QED BY <2>1, <2>2, <2>3, <2>4, <2>5, <3>1, <3>4, <3>5, <3>6, <3>7, Taken, Grantings
  <2>6. CASE db.grant[g].status = "none" /\ UNCHANGED storeVars /\ TakeGrant(NoGrant, b, b)
    <3>1. s = "delegate" /\ cur \in Withdrawals => Decided(cur)
      BY <2>1, <2>3, <2>6, Grantings DEF Decided, Unopened, Over
    <3>2. Step /\ db' = db /\ cur' = cur
      BY <1>1, <2>6 DEF storeVars, TakeGrant
    <3>3. cur \in Withdrawals /\ (source = "burned" \/ b = "burn") =>
            Unopened(db', cur) \/ db'.withdrawal[cur].status \notin Awaiting
      BY <2>1, <2>3, <3>1, <3>2 DEF Decided
    <3>4. b \notin Between \cup RentSteps \cup Looked \cup {"energy"}
      BY <2>1 DEF Between, RentSteps, Looked
    <3> QED BY <2>2, <2>4, <2>6, <3>2, <3>3, <3>4, Taken
  <2>7. CASE /\ db.grant[g].status # "none" /\ UNCHANGED storeVars
             /\ TakeGrant(g, IF db.grant[g].status = "requested" THEN "start" ELSE "reconcile", b)
    <3> DEFINE x == IF db.grant[g].status = "requested" THEN "start" ELSE "reconcile"
    <3>1. Step /\ db' = db /\ cur' = cur
      BY <1>1, <2>7 DEF storeVars, TakeGrant
    <3>2. /\ x \notin Between \cup RentSteps \cup Looked \cup Clear \cup {"energy", "burn"}
          /\ x = "reconcile" => db.grant[g].status # "requested"
      BY DEF Between, RentSteps, Looked, Clear
    <3>3. TakeGrant(g, x, b)
      BY <2>7
    <3> HIDE DEF x
    <3>4. cur \in Withdrawals /\ source = "burned" =>
            Unopened(db', cur) \/ db'.withdrawal[cur].status \notin Awaiting
      BY <2>3, <3>1 DEF Decided
    <3> QED BY <2>1, <2>2, <2>3, <2>4, <3>1, <3>2, <3>3, <3>4, Taken, Grantings
  <2> QED BY <2>1, <2>5, <2>6, <2>7 DEF Ensure
<1> QED BY <1>5, <1>6, <1>7, <1>8, <1>9, <1>10, <1>11, <1>12, <1>13, <1>14, <1>15, <1>16, <1>17,
           <1>18 DEF Acquires

\* The API's request, the errors, the crashes, the chain and the clocks.
LEMMA OthersBurn ==
  ASSUME Now,
         \/ \E g \in ManualGrants : RequestDelegation(g)
         \/ \E g \in Grants : Land(g) \/ Expire(g)
         \/ \E w \in Withdrawals : Lapse(w)
         \/ CloseCircuit
         \/ \E p \in Workers : Abort(p)
         \/ Crash \/ PowerLoss
         \/ UNCHANGED vars
  PROVE  BurnInv'
<1>0. /\ DOMAIN at = Workers /\ DOMAIN hand = Workers /\ Workers = {"engine", "api"}
      /\ HandOK /\ WalkOK /\ BurnsLast(db) /\ BurnsLast(durable)
  BY DEF Now, SourcingInv, SendsAttempted, BurnInv, Workers
<1>1. ASSUME NEW g \in ManualGrants, RequestDelegation(g)
      PROVE  BurnInv'
  <2>1. /\ Commit([db EXCEPT !.grant[g] = NewGrant]) /\ UNCHANGED engineVars
        /\ at' = [at EXCEPT !["api"] = "start"] /\ hand' = [hand EXCEPT !["api"] = g]
    BY <1>1 DEF RequestDelegation
  <2>2. /\ durable' \in {durable, db'} /\ db'.withdrawal = db.withdrawal /\ db'.purchase = db.purchase
        /\ \A w \in Withdrawals : db'.grant[Energy(w)] = db.grant[Energy(w)]
    BY <2>1, Grantings DEF Commit, Now, SourcingInv, Shape
  <2>3. /\ at'["engine"] = at["engine"] /\ hand'["engine"] = hand["engine"] /\ hand'["api"] = g
    BY <1>0, <2>1
  <2> QED BY <2>1, <2>2, <2>3, Beside, Grantings DEF Now, engineVars
<1>2. CASE UNCHANGED <<storeVars, stepVars, rows, cur, seen, source, back>>
  BY <1>0, <1>2, Beside DEF Now, storeVars, stepVars, HandOK
<1>3. CASE \/ \E g \in Grants : Land(g) \/ Expire(g)
           \/ \E w \in Withdrawals : Lapse(w)
           \/ CloseCircuit \/ UNCHANGED vars
  BY <1>2, <1>3 DEF Land, NetBecomes, Expire, Lapse, CloseCircuit, World, Still, engineVars, vars
<1>4. CASE Abort("engine")
  <2>1. Step /\ Leave("idle") /\ rows' = {}
    BY <1>4, Committed DEF Abort, Stop, Now
  <2> QED BY <2>1, Left DEF Between
<1>5. CASE Abort("api")
  <2>1. /\ UNCHANGED engineVars /\ UNCHANGED storeVars
        /\ at' = [at EXCEPT !["api"] = "idle"] /\ hand' = [hand EXCEPT !["api"] = NoGrant]
    BY <1>5 DEF Abort, Stop
  <2>2. /\ at'["engine"] = at["engine"] /\ hand'["engine"] = hand["engine"] /\ hand'["api"] = NoGrant
    BY <1>0, <2>1
  <2> QED BY <2>1, <2>2, Beside, Grantings DEF Now, engineVars, storeVars
<1>6. CASE Crash \/ PowerLoss
  <2>1. /\ at' = [p \in Workers |-> "idle"] /\ hand' = [p \in Workers |-> NoGrant]
        /\ rows' = {} /\ cur' = NoWithdrawal /\ seen' = NoSight /\ source' = ""
        /\ db' \in {db, durable} /\ durable' = durable
    BY <1>6 DEF Crash, PowerLoss, Restart, storeVars
  <2>2. HandOK' /\ CurOK'
    BY <1>0, <2>1, Grantings DEF HandOK, CurOK, Holds
  <2>3. WalkOK'
    BY <1>0, <2>1 DEF WalkOK, Sight, NoSight, Awaiting
  <2> QED BY <1>0, <2>1, <2>2, <2>3 DEF BurnInv
<1> QED BY <1>0, <1>1, <1>3, <1>4, <1>5, <1>6

-----------------------------------------------------------------------------
(* The theorems.                                                             *)

\* Withdrawals as they are claimed: nothing was burned.
LEMMA BurnInit == Init => BurnInv
<1> SUFFICES ASSUME Init PROVE BurnInv
  OBVIOUS
<1>1. /\ db.withdrawal = [w \in Withdrawals |-> [status |-> "awaiting_resources", source |-> ""]]
      /\ db.grant = [g \in Grants |-> [NewGrant EXCEPT !.status = "none"]] /\ durable = db
  BY DEF Init
<1>2. BurnsLast(db)
  <2>1. \A g \in Grants : db.grant[g] = [NewGrant EXCEPT !.status = "none"]
    BY <1>1
  <2>2. [NewGrant EXCEPT !.status = "none"].status = "none"
    BY DEF NewGrant
  <2>3. \A w \in Withdrawals : db.grant[Energy(w)].status = "none"
    BY <2>1, <2>2, Grantings
  <2>4. /\ DOMAIN db.withdrawal = Withdrawals
        /\ \A w \in Withdrawals : db.withdrawal[w] = [status |-> "awaiting_resources", source |-> ""]
    BY <1>1
  <2>5. /\ DOMAIN [status |-> "awaiting_resources", source |-> ""] = {"status", "source"}
        /\ [status |-> "awaiting_resources", source |-> ""].source # "burned"
    OBVIOUS
  <2> QED BY <2>3, <2>4, <2>5 DEF BurnsLast, Over, Tried
<1>3. HandOK /\ CurOK
  BY Grantings DEF Init, HandOK, CurOK, Holds, Workers
<1>4. WalkOK
  BY DEF Init, WalkOK, Sight, NoSight, Awaiting
<1> QED BY <1>1, <1>2, <1>3, <1>4 DEF BurnInv

\* Every step keeps both invariants.
LEMMA BurnStep ==
  ASSUME SourcingInv, BurnInv, [Next]_vars
  PROVE  SourcingInv' /\ BurnInv'
<1>1. SourcingInv'
  BY DelegatesKeep, ReconcilesKeep, WalksKeep, RentsKeep, AcquiresKeep, OthersKeep
     DEF Next, EngineStep, Workers
<1>2. Now
  BY <1>1 DEF Now
<1> QED BY <1>1, <1>2, DelegatesBurn, ApiBurn, ReconcilesBurn, WalksBurn, RentsBurn, AcquiresBurn,
           OthersBurn DEF Next, EngineStep

\* In every reachable state a withdrawal on its way to the burn has nothing else open.
THEOREM BurnInvariant == Spec => [](SourcingInv /\ BurnInv)
<1>1. Init => SourcingInv /\ BurnInv
  BY SourcingInit, BurnInit
<1>2. SourcingInv /\ BurnInv /\ [Next]_vars => (SourcingInv /\ BurnInv)'
  BY BurnStep
<1> QED BY <1>1, <1>2, PTL DEF Spec

\* RES-015, ENR-008: no withdrawal is signed on a burn with a rental or a delegation of
\* energy that may still be delivered, whatever aborted ticks, restarts and power losses
\* lie between the tiers.
THEOREM TheBurnIsLast == Spec => []BurnIsLast
<1>1. BurnInv => BurnIsLast
  BY DEF BurnInv, BurnsLast, Unopened, Opened, Over, Energy, BurnIsLast
<1> QED BY <1>1, BurnInvariant, PTL

-----------------------------------------------------------------------------
(* The types.                                                                *)

\* The rows: every statement of the store leaves a row of the table's type.
LEMMA RowTypes ==
  ASSUME db \in Database
  PROVE  /\ \A g : \A x \in {"attempted", "broadcast", "confirmed", "failed", "needs_operator"} :
              [db EXCEPT !.grant[g].status = x] \in Database
         /\ \A g : \A n \in 0..LookupLimit : [db EXCEPT !.grant[g].lookups = n] \in Database
         /\ \A g : [db EXCEPT !.grant[g] = NewGrant] \in Database
         /\ \A g : /\ [db EXCEPT !.grant[g].status = "attempted",
                               !.grant[g].attempted = TRUE] \in Database
                  /\ [db EXCEPT !.grant[g].receipt = TRUE, !.grant[g].lookups = 0] \in Database
         /\ \A w : \A x \in {"none", "quoted", "purchased", "delegated", "failed", "expired"} :
              [db EXCEPT !.purchase[w] = x] \in Database
         /\ \A w : \A x \in Awaiting \cup {"signing", "failed", "needs_operator"} :
              /\ [db EXCEPT !.withdrawal[w].status = x] \in Database
              /\ \A src \in Sources :
                   [db EXCEPT !.withdrawal[w].status = x, !.withdrawal[w].source = src] \in Database
         /\ \A n \in 0..FailureLimit : [db EXCEPT !.failures = n] \in Database
<1>1. /\ db = [withdrawal |-> db.withdrawal, purchase |-> db.purchase, grant |-> db.grant,
               failures |-> db.failures]
      /\ DOMAIN db = {"withdrawal", "purchase", "grant", "failures"}
  BY DEF Database
<1> DEFINE Status == {"none", "requested", "attempted", "broadcast", "confirmed", "failed",
                      "needs_operator"}
           Row == [status : Status, attempted : BOOLEAN, lookups : 0..LookupLimit,
                   receipt : BOOLEAN]
           Paid == [status : Awaiting \cup {"signing", "failed", "needs_operator"},
                    source : Sources]
<1>2. ASSUME NEW e, DOMAIN e = DOMAIN db,
             e = [withdrawal |-> e.withdrawal, purchase |-> e.purchase, grant |-> e.grant,
                  failures |-> e.failures],
             e.withdrawal \in [Withdrawals -> Paid], e.grant \in [Grants -> Row],
             e.purchase \in [Withdrawals -> {"none", "quoted", "purchased", "delegated",
                                             "failed", "expired"}],
             e.failures \in 0..FailureLimit
      PROVE  e \in Database
  BY <1>2 DEF Database
<1>3. /\ db.withdrawal \in [Withdrawals -> Paid] /\ db.grant \in [Grants -> Row]
      /\ db.purchase \in [Withdrawals -> {"none", "quoted", "purchased", "delegated",
                                          "failed", "expired"}]
      /\ db.failures \in 0..FailureLimit
  BY DEF Database
<1> HIDE DEF Paid
<1>4. ASSUME NEW rows1 \in [Grants -> Row]
      PROVE  [db EXCEPT !.grant = rows1] \in Database
  <2> DEFINE e == [db EXCEPT !.grant = rows1]
  <2>1. /\ DOMAIN e = DOMAIN db /\ e.withdrawal = db.withdrawal /\ e.purchase = db.purchase
        /\ e.grant = rows1 /\ e.failures = db.failures
        /\ e = [withdrawal |-> e.withdrawal, purchase |-> e.purchase, grant |-> e.grant,
                failures |-> e.failures]
    BY <1>1
  <2> HIDE DEF e, Row
  <2>2. e \in Database
    BY <1>2, <1>3, <2>1
  <2> QED BY <2>2 DEF e
<1>5. ASSUME NEW g, NEW x \in Status
      PROVE  [db.grant EXCEPT ![g].status = x] \in [Grants -> Row]
  BY <1>3
<1>6. ASSUME NEW g, NEW n \in 0..LookupLimit
      PROVE  [db.grant EXCEPT ![g].lookups = n] \in [Grants -> Row]
  BY <1>3
<1>7. ASSUME NEW g
      PROVE  [db.grant EXCEPT ![g] = NewGrant] \in [Grants -> Row]
  <2>1. NewGrant \in Row
    BY BoundsAssumption DEF NewGrant
  <2> HIDE DEF Row
  <2> QED BY <1>3, <2>1
<1>8. \A g : \A x \in {"attempted", "broadcast", "confirmed", "failed", "needs_operator"} :
        [db EXCEPT !.grant[g].status = x] \in Database
  <2> SUFFICES ASSUME NEW g, NEW x \in {"attempted", "broadcast", "confirmed", "failed",
                                        "needs_operator"}
               PROVE  [db EXCEPT !.grant[g].status = x] \in Database
    OBVIOUS
  <2>1. [db EXCEPT !.grant[g].status = x] = [db EXCEPT !.grant = [@ EXCEPT ![g].status = x]]
    OBVIOUS
  <2>2. [db.grant EXCEPT ![g].status = x] \in [Grants -> Row]
    BY <1>5
  <2> HIDE DEF Row
  <2> QED BY <1>4, <2>1, <2>2
<1>9. \A g : \A n \in 0..LookupLimit : [db EXCEPT !.grant[g].lookups = n] \in Database
  <2> SUFFICES ASSUME NEW g, NEW n \in 0..LookupLimit
               PROVE  [db EXCEPT !.grant[g].lookups = n] \in Database
    OBVIOUS
  <2>1. [db EXCEPT !.grant[g].lookups = n] = [db EXCEPT !.grant = [@ EXCEPT ![g].lookups = n]]
    OBVIOUS
  <2> HIDE DEF Row
  <2> QED BY <1>4, <1>6, <2>1
<1>10. \A g : [db EXCEPT !.grant[g] = NewGrant] \in Database
  <2> SUFFICES ASSUME NEW g PROVE [db EXCEPT !.grant[g] = NewGrant] \in Database
    OBVIOUS
  <2>1. [db EXCEPT !.grant[g] = NewGrant] = [db EXCEPT !.grant = [@ EXCEPT ![g] = NewGrant]]
    OBVIOUS
  <2> HIDE DEF Row
  <2> QED BY <1>4, <1>7, <2>1
<1>14. ASSUME NEW g
       PROVE  /\ [db EXCEPT !.grant[g].status = "attempted", !.grant[g].attempted = TRUE]
                   \in Database
              /\ [db EXCEPT !.grant[g].receipt = TRUE, !.grant[g].lookups = 0] \in Database
  <2> DEFINE tried == [db.grant EXCEPT ![g].status = "attempted", ![g].attempted = TRUE]
             solid == [db.grant EXCEPT ![g].receipt = TRUE, ![g].lookups = 0]
  <2>1. tried \in [Grants -> Row] /\ solid \in [Grants -> Row]
    <3>0. 0 \in 0..LookupLimit
      BY BoundsAssumption
    <3>1. ASSUME NEW r \in Row
          PROVE  /\ [[r EXCEPT !.status = "attempted"] EXCEPT !.attempted = TRUE] \in Row
                 /\ [[r EXCEPT !.receipt = TRUE] EXCEPT !.lookups = 0] \in Row
      <4>1. [[r EXCEPT !.status = "attempted"] EXCEPT !.attempted = TRUE] \in Row
        OBVIOUS
      <4>2. [[r EXCEPT !.receipt = TRUE] EXCEPT !.lookups = 0] \in Row
        BY <3>0
      <4> QED BY <4>1, <4>2
    <3>2. /\ tried = [db.grant EXCEPT ![g] = [[@ EXCEPT !.status = "attempted"]
                                                 EXCEPT !.attempted = TRUE]]
          /\ solid = [db.grant EXCEPT ![g] = [[@ EXCEPT !.receipt = TRUE] EXCEPT !.lookups = 0]]
      BY <1>3
    <3> HIDE DEF Row, tried, solid
    <3> QED BY <1>3, <3>1, <3>2
  <2>2. /\ [db EXCEPT !.grant[g].status = "attempted", !.grant[g].attempted = TRUE]
             = [db EXCEPT !.grant = tried]
        /\ [db EXCEPT !.grant[g].receipt = TRUE, !.grant[g].lookups = 0]
             = [db EXCEPT !.grant = solid]
    BY <1>1
  <2> HIDE DEF tried, solid, Row
  <2> QED BY <1>4, <2>1, <2>2
<1> HIDE DEF Row
<1>11. ASSUME NEW w, NEW x \in {"none", "quoted", "purchased", "delegated", "failed", "expired"}
       PROVE  [db EXCEPT !.purchase[w] = x] \in Database
  <2> DEFINE e == [db EXCEPT !.purchase[w] = x]
  <2>1. /\ DOMAIN e = DOMAIN db /\ e.withdrawal = db.withdrawal /\ e.grant = db.grant
        /\ e.purchase = [db.purchase EXCEPT ![w] = x] /\ e.failures = db.failures
        /\ e = [withdrawal |-> e.withdrawal, purchase |-> e.purchase, grant |-> e.grant,
                failures |-> e.failures]
    BY <1>1
  <2> HIDE DEF e
  <2>2. e \in Database
    BY <1>2, <1>3, <2>1
  <2> QED BY <2>2 DEF e
<1>12. ASSUME NEW w, NEW x \in Awaiting \cup {"signing", "failed", "needs_operator"}
       PROVE  [db EXCEPT !.withdrawal[w].status = x] \in Database
  <2> DEFINE e == [db EXCEPT !.withdrawal[w].status = x]
  <2>1. /\ DOMAIN e = DOMAIN db /\ e.purchase = db.purchase /\ e.grant = db.grant
        /\ e.withdrawal = [db.withdrawal EXCEPT ![w].status = x] /\ e.failures = db.failures
        /\ e = [withdrawal |-> e.withdrawal, purchase |-> e.purchase, grant |-> e.grant,
                failures |-> e.failures]
    BY <1>1
  <2>2. e.withdrawal \in [Withdrawals -> Paid]
    <3>1. \A v \in Withdrawals : [db.withdrawal[v] EXCEPT !.status = x] \in Paid
      BY <1>3 DEF Paid
    <3>2. [db.withdrawal EXCEPT ![w].status = x]
            = [db.withdrawal EXCEPT ![w] = [@ EXCEPT !.status = x]]
      OBVIOUS
    <3> QED BY <1>3, <2>1, <3>1, <3>2
  <2> HIDE DEF e
  <2>3. e \in Database
    BY <1>2, <1>3, <2>1, <2>2
  <2> QED BY <2>3 DEF e
<1>15. ASSUME NEW w, NEW x \in Awaiting \cup {"signing", "failed", "needs_operator"},
              NEW src \in Sources
       PROVE  [db EXCEPT !.withdrawal[w].status = x, !.withdrawal[w].source = src] \in Database
  <2> DEFINE e == [db EXCEPT !.withdrawal[w].status = x, !.withdrawal[w].source = src]
             moved == [db.withdrawal EXCEPT ![w].status = x, ![w].source = src]
  <2>0. e = [db EXCEPT !.withdrawal = moved]
    BY <1>1
  <2> HIDE DEF e, moved
  <2>1. /\ DOMAIN e = DOMAIN db /\ e.purchase = db.purchase /\ e.grant = db.grant
        /\ e.withdrawal = moved /\ e.failures = db.failures
        /\ e = [withdrawal |-> e.withdrawal, purchase |-> e.purchase, grant |-> e.grant,
                failures |-> e.failures]
    BY <1>1, <2>0
  <2>2. moved \in [Withdrawals -> Paid]
    <3>1. \A v \in Withdrawals :
            [[db.withdrawal[v] EXCEPT !.status = x] EXCEPT !.source = src] \in Paid
      BY <1>3 DEF Paid
    <3>2. moved = [db.withdrawal EXCEPT ![w] = [[@ EXCEPT !.status = x] EXCEPT !.source = src]]
      BY <1>3 DEF moved
    <3> QED BY <1>3, <3>1, <3>2
  <2>3. e \in Database
    BY <1>2, <1>3, <2>1, <2>2
  <2> QED BY <2>3 DEF e
<1>13. ASSUME NEW n \in 0..FailureLimit
       PROVE  [db EXCEPT !.failures = n] \in Database
  <2> DEFINE e == [db EXCEPT !.failures = n]
  <2>1. /\ DOMAIN e = DOMAIN db /\ e.withdrawal = db.withdrawal /\ e.purchase = db.purchase
        /\ e.grant = db.grant /\ e.failures = n
        /\ e = [withdrawal |-> e.withdrawal, purchase |-> e.purchase, grant |-> e.grant,
                failures |-> e.failures]
    BY <1>1
  <2> HIDE DEF e
  <2>2. e \in Database
    BY <1>2, <1>3, <2>1
  <2> QED BY <2>2 DEF e
<1> QED BY <1>8, <1>9, <1>10, <1>11, <1>12, <1>13, <1>14, <1>15

MidSteps == {"closeRental", "read", "energy", "existing", "rent", "quoted", "purchase",
             "failRental", "blame", "rented", "delegate", "burn", "bandwidth",
             "delegateBandwidth", "waits", "unavailable", "fail", "spare", "sign"}
Steps == Between \cup GrantSteps \cup MidSteps
Views == [energy : BOOLEAN, bandwidth : BOOLEAN, status : Awaiting]

\* The types of what the workers hold; a withdrawal is in hand wherever it is needed.
WorkersOK ==
  /\ at \in [Workers -> Steps] /\ hand \in [Workers -> Grants \cup {NoGrant}]
  /\ back \in Backs /\ boot \in BOOLEAN /\ circuit \in BOOLEAN
  /\ manual \subseteq ManualGrants \X BOOLEAN
  /\ rows \subseteq Withdrawals /\ cur \in Withdrawals \cup {NoWithdrawal}
  /\ seen \in Views /\ source \in Sources
  /\ at["engine"] \in MidSteps \/ (at["engine"] \in GrantSteps /\ back # "manual")
       => cur \in Withdrawals

\* Where a step of the engine may lead.
LEMMA MovedTypes ==
  ASSUME WorkersOK, NEW s \in Steps, NEW g \in Grants \cup {NoGrant},
         at' = [at EXCEPT !["engine"] = s],
         hand' = hand \/ hand' = [hand EXCEPT !["engine"] = g],
         back' \in Backs, boot' \in BOOLEAN, circuit' \in BOOLEAN, manual' \subseteq manual,
         rows' \subseteq Withdrawals, cur' \in Withdrawals \cup {NoWithdrawal},
         seen' \in Views, source' \in Sources,
         s \in MidSteps \/ (s \in GrantSteps /\ back' # "manual") => cur' \in Withdrawals
  PROVE  WorkersOK'
<1>1. /\ at' \in [Workers -> Steps] /\ at'["engine"] = s
      /\ hand' \in [Workers -> Grants \cup {NoGrant}]
  BY DEF WorkersOK, Workers
<1> QED BY <1>1 DEF WorkersOK

\* The withdrawal in hand stays in hand.
LEMMA GoneOnTypes ==
  ASSUME WorkersOK, NEW s \in Steps, EngineGoto(s),
         s \in Between \/ (s \in GrantSteps /\ back = "manual") \/ cur \in Withdrawals
  PROVE  WorkersOK'
<1>1. /\ at' = [at EXCEPT !["engine"] = s] /\ hand' = hand
      /\ UNCHANGED <<back, boot, manual, rows, cur, seen, source, circuit>>
  BY DEF EngineGoto, Goto, engineVars
<1>2. s \in MidSteps \/ (s \in GrantSteps /\ back # "manual") => cur \in Withdrawals
  BY DEF Between, GrantSteps, MidSteps
<1>3. NoGrant \in Grants \cup {NoGrant}
  OBVIOUS
<1> QED BY <1>1, <1>2, <1>3, MovedTypes DEF WorkersOK

\* It is left.
LEMMA LeftTypes ==
  ASSUME WorkersOK, NEW s \in Between, Leave(s), manual' \subseteq manual, rows' \subseteq rows
  PROVE  WorkersOK'
<1>1. /\ at' = [at EXCEPT !["engine"] = s] /\ hand' = [hand EXCEPT !["engine"] = NoGrant]
      /\ cur' = NoWithdrawal /\ seen' = NoSight /\ source' = "" /\ back' = "manual"
      /\ UNCHANGED <<boot, circuit>>
  BY DEF Leave
<1>2. s \in Steps /\ s \notin MidSteps /\ NoSight \in Views /\ "" \in Sources /\ "manual" \in Backs
      /\ s \notin GrantSteps
  BY DEF Steps, Between, MidSteps, GrantSteps, NoSight, Views, Awaiting, Sources, Backs
<1> QED BY <1>1, <1>2, MovedTypes DEF WorkersOK

\* It is left for the next one of the tick.
LEMMA NextRowTypes ==
  ASSUME WorkersOK, NextRow
  PROVE  WorkersOK'
BY LeftTypes DEF NextRow, Between

\* Its source is known.
LEMMA FromTypes ==
  ASSUME WorkersOK, cur \in Withdrawals, NEW src \in Sources, NEW s \in Steps, From(src, s)
  PROVE  WorkersOK'
<1>1. /\ at' = [at EXCEPT !["engine"] = s] /\ hand' = hand /\ source' = src
      /\ UNCHANGED <<back, boot, manual, rows, cur, seen, circuit>>
  BY DEF From, Goto
<1> QED BY <1>1, MovedTypes DEF WorkersOK

\* A grant is taken in hand.
LEMMA TakenTypes ==
  ASSUME WorkersOK, NEW g \in Grants \cup {NoGrant}, NEW s \in Steps, NEW b \in Backs,
         TakeGrant(g, s, b), manual' \subseteq manual,
         cur \in Withdrawals \/ (s \in GrantSteps /\ b = "manual")
  PROVE  WorkersOK'
<1>1. /\ at' = [at EXCEPT !["engine"] = s] /\ hand' = [hand EXCEPT !["engine"] = g]
      /\ back' = b /\ UNCHANGED <<boot, rows, cur, seen, source, circuit>>
  BY DEF TakeGrant
<1>2. s \in MidSteps \/ (s \in GrantSteps /\ b # "manual") => cur \in Withdrawals
  BY DEF GrantSteps, MidSteps
<1> QED BY <1>1, <1>2, MovedTypes DEF WorkersOK

\* The grant in hand is decided, or waited for.
LEMMA ReturnedTypes ==
  ASSUME WorkersOK, at["engine"] \in GrantSteps, NEW pending \in BOOLEAN,
         Return("engine", pending)
  PROVE  WorkersOK'
<1> DEFINE s == IF pending THEN Waits ELSE back
<1>1. CASE s = "rows"
  BY <1>1, NextRowTypes DEF Return
<1>2. CASE s # "rows"
  <2>1. /\ at' = [at EXCEPT !["engine"] = s] /\ hand' = [hand EXCEPT !["engine"] = NoGrant]
        /\ UNCHANGED <<back, boot, manual, rows, cur, seen, source, circuit>>
    BY <1>2 DEF Return, engineVars
  <2>2. s \in Steps /\ (s \in MidSteps \/ s \in GrantSteps => back # "manual")
    BY <1>2 DEF WorkersOK, Backs, Waits, Steps, MidSteps, Between, GrantSteps
  <2> HIDE DEF s
  <2>3. s \in MidSteps \/ (s \in GrantSteps /\ back # "manual") => cur \in Withdrawals
    BY <2>2 DEF WorkersOK
  <2> QED BY <2>1, <2>2, <2>3, MovedTypes DEF WorkersOK
<1> QED BY <1>1, <1>2

\* The API's request moves on, and the engine does nothing.
LEMMA ApiTypes ==
  ASSUME WorkersOK, UNCHANGED engineVars, NEW s \in Steps, NEW g \in Grants \cup {NoGrant},
         at' = [at EXCEPT !["api"] = s],
         hand' = hand \/ hand' = [hand EXCEPT !["api"] = g]
  PROVE  WorkersOK'
<1>1. /\ at' \in [Workers -> Steps] /\ at'["engine"] = at["engine"]
      /\ hand' \in [Workers -> Grants \cup {NoGrant}]
  BY DEF WorkersOK, Workers
<1> QED BY <1>1 DEF WorkersOK, engineVars

-----------------------------------------------------------------------------
(* The types of what the workers hold, action by action.                     *)

\* One delegation or top-up.
LEMMA DelegatesTypes ==
  ASSUME WorkersOK, NEW p \in Workers, Delegates(p)
  PROVE  WorkersOK'
<1>0. /\ {"persist", "send", "record", "recordRejected", "verify"} \subseteq GrantSteps
      /\ GrantSteps \subseteq Steps /\ "idle" \in Steps /\ "idle" \in Between
  BY DEF GrantSteps, Steps, Between
<1>1. at[p] \in GrantSteps
  BY DEF Delegates, StartFails, StartSigns, Persist, PersistRefused, SendGrant, RecordSent, Verify,
         GrantSteps
<1>2. \/ \E s \in {"persist", "send", "record", "recordRejected", "verify"} :
             Goto(p, s) /\ UNCHANGED engineVars
      \/ \E pending \in BOOLEAN : Return(p, pending)
      \/ Stop(p)
  BY DEF Delegates, StartFails, StartSigns, Persist, PersistRefused, SendGrant, RecordSent, Verify
<1>3. CASE p = "engine"
  <2>1. (at["engine"] \in GrantSteps /\ back = "manual") \/ cur \in Withdrawals
    BY <1>1, <1>3 DEF WorkersOK
  <2>2. ASSUME NEW s \in {"persist", "send", "record", "recordRejected", "verify"},
               Goto(p, s), UNCHANGED engineVars
        PROVE  WorkersOK'
    BY <1>0, <1>3, <2>1, <2>2, GoneOnTypes DEF EngineGoto
  <2>3. CASE \E pending \in BOOLEAN : Return(p, pending)
    BY <1>1, <1>3, <2>3, ReturnedTypes
  <2>4. CASE Stop(p)
    BY <1>0, <1>3, <2>4, LeftTypes DEF Stop
  <2> QED BY <1>2, <2>2, <2>3, <2>4
<1>4. CASE p = "api"
  <2>0. NoGrant \in Grants \cup {NoGrant}
    OBVIOUS
  <2>1. ASSUME NEW s \in {"persist", "send", "record", "recordRejected", "verify"},
               Goto(p, s), UNCHANGED engineVars
        PROVE  WorkersOK'
    <3>1. at' = [at EXCEPT !["api"] = s] /\ hand' = hand /\ s \in Steps
      BY <1>0, <1>4, <2>1 DEF Goto
    <3> QED BY <2>0, <2>1, <3>1, ApiTypes
  <2>2. CASE (\E pending \in BOOLEAN : Return(p, pending)) \/ Stop(p)
    <3>1. /\ at' = [at EXCEPT !["api"] = "idle"] /\ hand' = [hand EXCEPT !["api"] = NoGrant]
          /\ UNCHANGED engineVars
      BY <1>4, <2>2 DEF Return, Stop
    <3> QED BY <1>0, <2>0, <3>1, ApiTypes
  <2> QED BY <1>2, <2>1, <2>2
<1> QED BY <1>3, <1>4 DEF Workers

\* The reconciliation of the grant in hand.
LEMMA ReconcilesTypes ==
  ASSUME WorkersOK, Reconciles
  PROVE  WorkersOK'
<1>1. at["engine"] \in GrantSteps
  BY DEF Reconciles, ReconcileNothing, Reconcilable, Lookup, LookupFails, GiveUp, Escalate, ApplyAbsent,
         ReceiptMissing, ReceiptSolid, Outcome, OutcomeReverted, Engine, GrantSteps
<1>2. \/ \E s \in {"receipt", "absent", "giveUp", "escalate", "outcome", "reverted"} :
             EngineGoto(s)
      \/ \E pending \in BOOLEAN : Return("engine", pending)
  BY DEF Reconciles, ReconcileNothing, Lookup, LookupFails, GiveUp, Escalate, ApplyAbsent,
         ReceiptMissing, ReceiptSolid, Outcome, OutcomeReverted
<1>3. ASSUME NEW s \in {"receipt", "absent", "giveUp", "escalate", "outcome", "reverted"},
             EngineGoto(s)
      PROVE  WorkersOK'
  <2>1. s \in Steps /\ s \in GrantSteps
    BY DEF Steps, GrantSteps
  <2>2. back = "manual" \/ cur \in Withdrawals
    BY <1>1 DEF WorkersOK
  <2> QED BY <1>3, <2>1, <2>2, GoneOnTypes
<1> QED BY <1>1, <1>2, <1>3, ReturnedTypes

\* The walk over the manual grants and the rows.
LEMMA WalksTypes ==
  ASSUME WorkersOK, BurnInv, Walks \/ NotDue
  PROVE  WorkersOK'
<1>0. /\ Between \subseteq Steps /\ {"closeRental", "read"} \subseteq Steps
      /\ {"start", "reconcile"} \subseteq Steps \cap GrantSteps
      /\ \A s \in Between : s \notin MidSteps /\ s \notin GrantSteps
      /\ "manual" \in Backs /\ DOMAIN at = Workers /\ "engine" \in Workers
  BY DEF Between, GrantSteps, MidSteps, Steps, Backs, WorkersOK, Workers
<1>g. NoGrant \in Grants \cup {NoGrant}
  OBVIOUS
<1>1. CASE BeginTick
  <2>1. manual' \subseteq ManualGrants \X BOOLEAN
    <3> DEFINE open == {m \in ManualGrants :
                          db.grant[m].status \in {"requested", "attempted", "broadcast"}}
           asked(g) == db.grant[g].status = "requested"
    <3>1. manual' = {<<g, asked(g)>> : g \in open}
      BY <1>1 DEF BeginTick
    <3>2. open \subseteq ManualGrants /\ \A g : asked(g) \in BOOLEAN
      OBVIOUS
    <3> HIDE DEF open, asked
    <3> QED BY <3>1, <3>2
  <2>2. /\ at' = [at EXCEPT !["engine"] = "manual"] /\ hand' = hand
        /\ UNCHANGED <<back, boot, rows, cur, seen, source, circuit>>
    BY <1>1 DEF BeginTick, Goto
  <2>3. /\ at' \in [Workers -> Steps] /\ at'["engine"] = "manual"
        /\ "manual" \notin MidSteps /\ "manual" \notin GrantSteps
    BY <1>0, <2>2 DEF WorkersOK, Between
  <2> QED BY <2>1, <2>2, <2>3 DEF WorkersOK
<1>2. CASE ManualDone \/ RowsDone
  <2>1. /\ rows' \subseteq Withdrawals /\ boot' \in BOOLEAN /\ hand' = hand
        /\ UNCHANGED <<back, manual, cur, seen, source, circuit>>
    BY <1>2 DEF ManualDone, RowsDone, Goto, Waiting, WorkersOK
  <2>2. PICK s \in Between : at' = [at EXCEPT !["engine"] = s]
    BY <1>2 DEF ManualDone, RowsDone, Goto, Between
  <2> QED BY <1>0, <1>g, <2>1, <2>2, MovedTypes DEF WorkersOK
<1>3. ASSUME NEW g \in ManualGrants, NEW requested \in BOOLEAN, TakeManual(g, requested)
      PROVE  WorkersOK'
  <2>1. PICK s \in {"start", "reconcile"} : TakeGrant(g, s, "manual") /\ manual' \subseteq manual
    BY <1>3 DEF TakeManual
  <2>2. g \in Grants \cup {NoGrant}
    BY DEF Grants
  <2> QED BY <1>0, <2>1, <2>2, TakenTypes
<1>4. ASSUME NEW w \in Withdrawals, TakeRow(w)
      PROVE  WorkersOK'
  <2>1. PICK s \in {"closeRental", "read"} : at' = [at EXCEPT !["engine"] = s]
    BY <1>4 DEF TakeRow, Goto
  <2>2. /\ hand' = hand /\ cur' = w /\ rows' \subseteq rows /\ w \in rows
        /\ seen' = [NoSight EXCEPT !.status = db.withdrawal[w].status]
        /\ UNCHANGED <<back, boot, manual, source, circuit>>
    BY <1>4 DEF TakeRow, Goto
  <2>3. db.withdrawal[w].status \in Awaiting
    BY <2>2 DEF BurnInv, WalkOK, Waiting
  <2>4. seen' \in Views
    BY <2>2, <2>3 DEF NoSight, Views
  <2> QED BY <1>0, <1>g, <2>1, <2>2, <2>4, MovedTypes DEF WorkersOK
<1>5. CASE CloseRental
  <2>1. cur \in Withdrawals /\ EngineGoto("read")
    BY <1>5 DEF CloseRental, Engine, MidSteps, WorkersOK
  <2> QED BY <1>0, <2>1, GoneOnTypes
<1>6. CASE NotDue
  BY <1>6, NextRowTypes DEF NotDue
<1> QED BY <1>1, <1>2, <1>3, <1>4, <1>5, <1>6 DEF Walks

\* The rental.
LEMMA RentsTypes ==
  ASSUME WorkersOK, Rents
  PROVE  WorkersOK'
<1>0. /\ MidSteps \subseteq Steps /\ "rented" \in Sources
      /\ {"rented", "bandwidth", "delegate", "failRental", "blame", "quoted", "purchase"}
           \subseteq MidSteps
  BY DEF MidSteps, Steps, Sources
<1>1. cur \in Withdrawals
  BY DEF Rents, RentalUnfinished, FinishRental, RentalFinished, RentalDecided, PollRental, Unrented,
         RentalSkipped, Quote, QuoteTooDear, MarkPurchase, Purchase, FailRental, Blame, Engine,
         MidSteps, WorkersOK
<1>2. CASE RentalFinished
  <2>1. /\ at' = [at EXCEPT !["engine"] = "bandwidth"] /\ hand' = hand
        /\ circuit' = FALSE /\ source' = "rented"
        /\ UNCHANGED <<back, boot, manual, rows, cur, seen>>
    BY <1>2 DEF RentalFinished, Goto
  <2>2. NoGrant \in Grants \cup {NoGrant} /\ "bandwidth" \in Steps
    BY <1>0
  <2> QED BY <1>0, <1>1, <2>1, <2>2, MovedTypes DEF WorkersOK
<1>3. CASE Blame
  <2>1. /\ at' = [at EXCEPT !["engine"] = "delegate"] /\ hand' = hand /\ circuit' \in BOOLEAN
        /\ UNCHANGED <<back, boot, manual, rows, cur, seen, source>>
    BY <1>3 DEF Blame, Goto, WorkersOK
  <2>2. NoGrant \in Grants \cup {NoGrant} /\ "delegate" \in Steps
    BY <1>0
  <2> QED BY <1>1, <2>1, <2>2, MovedTypes DEF WorkersOK
<1>4. ASSUME NEW s \in {"rented", "bandwidth", "delegate", "failRental", "blame", "quoted", "purchase"},
             EngineGoto(s)
      PROVE  WorkersOK'
  BY <1>0, <1>1, <1>4, GoneOnTypes
<1>5. From("rented", "bandwidth") => WorkersOK'
  BY <1>0, <1>1, FromTypes
<1>6. CASE RentalUnfinished \/ PollRental \/ Purchase
  BY <1>4, <1>6, NextRowTypes DEF RentalUnfinished, PollRental, Purchase
<1>7. CASE RentalDecided
  BY <1>4, <1>5, <1>7 DEF RentalDecided
<1>8. CASE FinishRental \/ RentalSkipped \/ Quote \/ QuoteTooDear \/ MarkPurchase \/ FailRental
  BY <1>4, <1>8 DEF FinishRental, RentalSkipped, Quote, QuoteTooDear, MarkPurchase, FailRental
<1> QED BY <1>2, <1>3, <1>6, <1>7, <1>8 DEF Rents

\* What the account has, then energy, then bandwidth.
LEMMA AcquiresTypes ==
  ASSUME WorkersOK, db \in Database, Acquires
  PROVE  WorkersOK'
<1>0. /\ MidSteps \subseteq Steps /\ Backs \ {"manual"} \subseteq MidSteps
      /\ {"", "existing", "rented", "self_delegated", "burned"} \subseteq Sources
      /\ {"energy", "rent", "existing", "bandwidth", "delegate", "spare", "sign",
          "delegateBandwidth", "fail"} \subseteq MidSteps
      /\ {"start", "reconcile"} \subseteq Steps
      /\ {"existing", "burn", "unavailable", "spare"} \subseteq Backs
  BY DEF MidSteps, GrantSteps, Steps, Sources, Backs
<1>1. cur \in Withdrawals
  BY DEF Acquires, Read, AwaitEnergy, HasEnergy, HasGrantedEnergy, ConfirmEnergy, DelegateEnergy,
         GrantBandwidth, Ensure, Burn, BurnRefused, HasBandwidth, BurnBandwidth, ConfirmBandwidth,
         AwaitBandwidth, NoteSources, BandwidthUnavailable, Sign, Engine, MidSteps, WorkersOK
<1>2. EnergyGrant \in Grants /\ BandwidthGrant \in Grants
  BY <1>1 DEF EnergyGrant, BandwidthGrant, Grants, Types
<1>g. NoGrant \in Grants \cup {NoGrant}
  OBVIOUS
<1>3. SourceRead \in Sources
  BY <1>0 DEF SourceRead, WorkersOK
<1>4. ASSUME NEW s \in MidSteps, EngineGoto(s)
      PROVE  WorkersOK'
  BY <1>0, <1>1, <1>4, GoneOnTypes
<1>5. ASSUME NEW src \in Sources, NEW s \in MidSteps, From(src, s)
      PROVE  WorkersOK'
  BY <1>0, <1>1, <1>5, FromTypes
<1>6. ASSUME NEW g \in Grants \cup {NoGrant}, NEW s \in Steps, NEW b \in Backs,
             TakeGrant(g, s, b), manual' = manual
      PROVE  WorkersOK'
  BY <1>1, <1>6, TakenTypes
<1>7. ASSUME NEW energy \in BOOLEAN, NEW bandwidth \in BOOLEAN, Read(energy, bandwidth)
      PROVE  WorkersOK'
  <2>1. /\ at' = [at EXCEPT !["engine"] = "energy"] /\ hand' = hand
        /\ seen' = [seen EXCEPT !.energy = energy, !.bandwidth = bandwidth]
        /\ source' = db.withdrawal[cur].source
        /\ UNCHANGED <<back, boot, manual, rows, cur, circuit>>
    BY <1>7 DEF Read, Goto
  <2>2. seen' \in Views
    BY <2>1 DEF Views, WorkersOK
  <2>3. source' \in Sources
    BY <1>1, <2>1 DEF Database
  <2>4. "energy" \in Steps
    BY <1>0
  <2> QED BY <1>1, <1>g, <2>1, <2>2, <2>3, <2>4, MovedTypes DEF WorkersOK
<1>8. CASE AwaitEnergy
  <2>1. CASE NextRow
    BY <2>1, NextRowTypes
  <2>2. CASE ~NextRow
    <3>1. /\ at' = [at EXCEPT !["engine"] = "rent"] /\ hand' = hand
          /\ seen' = [seen EXCEPT !.status = "awaiting_energy"] /\ source' = SourceRead
          /\ UNCHANGED <<back, boot, manual, rows, cur, circuit>>
      BY <1>8, <2>2 DEF AwaitEnergy, Goto
    <3>2. seen' \in Views
      BY <3>1 DEF Views, Awaiting, WorkersOK
    <3>3. "rent" \in Steps
      BY <1>0
    <3> QED BY <1>1, <1>3, <1>g, <3>1, <3>2, <3>3, MovedTypes DEF WorkersOK
  <2> QED BY <2>1, <2>2
<1>9. CASE AwaitBandwidth
  <2>1. CASE NextRow
    BY <2>1, NextRowTypes
  <2>2. CASE ~NextRow
    <3>1. /\ at' = [at EXCEPT !["engine"] = "delegateBandwidth"] /\ hand' = hand
          /\ seen' = [seen EXCEPT !.status = "awaiting_resources"]
          /\ UNCHANGED <<back, boot, manual, rows, cur, source, circuit>>
      BY <1>9, <2>2 DEF AwaitBandwidth, Goto
    <3>2. seen' \in Views
      BY <3>1 DEF Views, Awaiting, WorkersOK
    <3>3. "delegateBandwidth" \in Steps
      BY <1>0
    <3> QED BY <1>1, <1>g, <3>1, <3>2, <3>3, MovedTypes DEF WorkersOK
  <2> QED BY <2>1, <2>2
<1>10. CASE HasEnergy
  BY <1>0, <1>3, <1>5, <1>10 DEF HasEnergy
<1>11. CASE HasGrantedEnergy
  <2>1. PICK s \in {"reconcile", "existing"} :
          TakeGrant(EnergyGrant, s, "existing") /\ manual' = manual
    BY <1>11 DEF HasGrantedEnergy
  <2> QED BY <1>0, <1>2, <1>6, <2>1
<1>12. CASE ConfirmEnergy \/ Burn
  BY <1>0, <1>5, <1>12 DEF ConfirmEnergy, Burn
<1>13. ASSUME NEW g \in Grants, NEW s, NEW b \in Backs \ {"manual"}, Ensure(g, s, b)
       PROVE  WorkersOK'
  <2>1. manual' = manual /\ b \in Steps
    BY <1>0, <1>13 DEF Ensure
  <2>2. \/ TakeGrant(g, "start", b) \/ TakeGrant(NoGrant, b, b) \/ TakeGrant(g, "reconcile", b)
    BY <1>13 DEF Ensure
  <2> QED BY <1>0, <1>6, <2>1, <2>2
<1>14. CASE DelegateEnergy \/ GrantBandwidth
  <2>1. \/ Ensure(EnergyGrant, "delegate", "burn")
        \/ Ensure(BandwidthGrant, "delegateBandwidth", "unavailable")
    BY <1>14 DEF DelegateEnergy, GrantBandwidth
  <2> QED BY <1>0, <1>2, <1>13, <2>1
<1>15. CASE HasBandwidth
  <2>1. \/ EngineGoto("sign")
        \/ \E s \in {"reconcile", "spare"} :
             TakeGrant(BandwidthGrant, s, "spare") /\ manual' = manual
    BY <1>15 DEF HasBandwidth
  <2> QED BY <1>0, <1>2, <1>4, <1>6, <2>1
<1>16. CASE BurnBandwidth \/ ConfirmBandwidth
  BY <1>0, <1>4, <1>16 DEF BurnBandwidth, ConfirmBandwidth
<1>17. CASE NoteSources
  BY <1>0, <1>4, <1>17, NextRowTypes DEF NoteSources
<1>18. CASE BurnRefused \/ BandwidthUnavailable \/ Sign
  BY <1>18, NextRowTypes DEF BurnRefused, BandwidthUnavailable, Sign
<1> QED BY <1>7, <1>8, <1>9, <1>10, <1>11, <1>12, <1>14, <1>15, <1>16, <1>17, <1>18 DEF Acquires

\* The API's request, the errors, the crashes, the chain and the clocks.
LEMMA OthersTypes ==
  ASSUME WorkersOK,
         \/ \E g \in ManualGrants : RequestDelegation(g)
         \/ \E g \in Grants : Land(g) \/ Expire(g)
         \/ \E w \in Withdrawals : Lapse(w)
         \/ CloseCircuit
         \/ \E p \in Workers : Abort(p)
         \/ Crash \/ PowerLoss
         \/ UNCHANGED vars
  PROVE  WorkersOK'
<1>0. /\ {"start", "idle"} \subseteq Steps /\ "idle" \in Between /\ ManualGrants \subseteq Grants
      /\ "idle" \notin MidSteps /\ "idle" \notin GrantSteps
  BY DEF Steps, GrantSteps, Between, MidSteps, Grants
<1>1. ASSUME NEW g \in ManualGrants, RequestDelegation(g)
      PROVE  WorkersOK'
  <2>1. /\ at' = [at EXCEPT !["api"] = "start"] /\ hand' = [hand EXCEPT !["api"] = g]
        /\ UNCHANGED engineVars
    BY <1>1 DEF RequestDelegation
  <2>2. g \in Grants \cup {NoGrant} /\ "start" \in Steps
    BY <1>0
  <2> QED BY <2>1, <2>2, ApiTypes
<1>2. CASE UNCHANGED <<engineVars, stepVars>>
  BY <1>2 DEF engineVars, stepVars, WorkersOK
<1>3. CASE \/ \E g \in Grants : Land(g) \/ Expire(g)
           \/ \E w \in Withdrawals : Lapse(w)
           \/ UNCHANGED vars
  BY <1>2, <1>3 DEF Land, NetBecomes, Expire, Lapse, World, vars
<1>4. CASE CloseCircuit
  BY <1>4 DEF CloseCircuit, stepVars, WorkersOK
<1>5. CASE Abort("engine")
  BY <1>0, <1>5, LeftTypes DEF Abort, Stop
<1>6. CASE Abort("api")
  <2>1. /\ at' = [at EXCEPT !["api"] = "idle"] /\ hand' = [hand EXCEPT !["api"] = NoGrant]
        /\ UNCHANGED engineVars
    BY <1>6 DEF Abort, Stop
  <2>2. NoGrant \in Grants \cup {NoGrant} /\ "idle" \in Steps
    BY <1>0
  <2> QED BY <2>1, <2>2, ApiTypes
<1>7. CASE Crash \/ PowerLoss
  <2>1. /\ at' = [p \in Workers |-> "idle"] /\ hand' = [p \in Workers |-> NoGrant]
        /\ boot' = TRUE /\ manual' = {} /\ rows' = {} /\ cur' = NoWithdrawal
        /\ seen' = NoSight /\ source' = "" /\ circuit' = FALSE /\ back' = "manual"
    BY <1>7 DEF Crash, PowerLoss, Restart
  <2>2. NoSight \in Views /\ "" \in Sources /\ "manual" \in Backs
    BY DEF NoSight, Views, Awaiting, Sources, Backs
  <2>3. at'["engine"] = "idle"
    BY <2>1 DEF Workers
  <2> QED BY <1>0, <2>1, <2>2, <2>3 DEF WorkersOK
<1> QED BY <1>1, <1>3, <1>4, <1>5, <1>6, <1>7 DEF Workers

-----------------------------------------------------------------------------
(* The types of the rows, in the database and on disk.                       *)

TablesOK == db \in Database /\ durable \in Database

\* What is committed has the type of the tables.
LEMMA CommitTypes ==
  ASSUME TablesOK, NEW e \in Database, Commit(e) \/ CommitFull(e)
  PROVE  TablesOK'
BY DEF TablesOK, Commit, CommitFull

\* Every statement on a grant or a withdrawal.
LEMMA StatementTypes ==
  ASSUME db \in Database, NEW g
  PROVE  /\ FailGrant(g) \in Database /\ ConfirmGrant(g) \in Database
         /\ GrantNeedsOperator(g) \in Database /\ FailResources(g) \in Database
         /\ WithdrawalNeedsOperator(g) \in Database
BY RowTypes
   DEF FailGrant, ConfirmGrant, GrantNeedsOperator, FailResources, WithdrawalNeedsOperator

\* The state of the withdrawal in hand.
LEMMA SetStatusTypes ==
  ASSUME db \in Database, cur \in Withdrawals, NEW s \in Awaiting \cup {"signing"},
         NEW src \in Sources
  PROVE  SetStatus(s, src) \in Database
<1> DEFINE x == IF src = "" THEN db.withdrawal[cur].source ELSE src
<1>1. x \in Sources
  BY DEF Database
<1>2. SetStatus(s, src) \in {db, [db EXCEPT !.withdrawal[cur].status = s,
                                            !.withdrawal[cur].source = x]}
  BY DEF SetStatus
<1> HIDE DEF x
<1>3. s \in Awaiting \cup {"signing", "failed", "needs_operator"}
  OBVIOUS
<1>4. [db EXCEPT !.withdrawal[cur].status = s, !.withdrawal[cur].source = x] \in Database
  BY <1>1, <1>3, RowTypes
<1> QED BY <1>2, <1>4

\* One delegation or top-up.
LEMMA DelegatesRows ==
  ASSUME TablesOK, NEW p \in Workers, Delegates(p)
  PROVE  TablesOK'
<1> DEFINE g == hand[p]
<1>0. db \in Database /\ durable \in Database
  BY DEF TablesOK
<1>1. UNCHANGED storeVars => TablesOK'
  BY DEF TablesOK, storeVars
<1>2. CASE StartFails(p)
  BY <1>0, <1>2, StatementTypes, CommitTypes DEF StartFails
<1>3. CASE Persist(p)
  <2>1. CommitFull([db EXCEPT !.grant[g].status = "attempted", !.grant[g].attempted = TRUE])
    BY <1>3 DEF Persist
  <2> QED BY <1>0, <2>1, RowTypes, CommitTypes
<1>4. CASE RecordSent(p)
  <2> DEFINE x == IF db.grant[g].status = "attempted" THEN "broadcast" ELSE db.grant[g].status
             e == [db EXCEPT !.grant[g].status = x]
  <2>1. CommitFull(e)
    BY <1>4 DEF RecordSent
  <2>2. CASE db.grant[g].status = "attempted"
    <3>1. x = "broadcast"
      BY <2>2
    <3>2. e \in Database
      BY <1>0, <3>1, RowTypes
    <3> QED BY <2>1, <3>2, CommitTypes
  <2>3. CASE db.grant[g].status # "attempted"
    <3>1. e = [db EXCEPT !.grant[g].status = @]
      BY <2>3
    <3>2. [db EXCEPT !.grant[g].status = @] = db
      BY <1>0 DEF Database
    <3> QED BY <1>0, <2>1, <3>1, <3>2, CommitTypes
  <2> QED BY <2>2, <2>3
<1>5. CASE Verify(p)
  BY <1>0, <1>1, <1>5, StatementTypes, CommitTypes DEF Verify
<1>6. CASE StartSigns(p) \/ PersistRefused(p) \/ \E rejected \in BOOLEAN : SendGrant(p, rejected)
  BY <1>1, <1>6 DEF StartSigns, PersistRefused, SendGrant
<1> QED BY <1>2, <1>3, <1>4, <1>5, <1>6 DEF Delegates

\* The reconciliation: a lookup is counted up to its limit.
LEMMA ReconcilesRows ==
  ASSUME TablesOK, Reconciles
  PROVE  TablesOK'
<1>0. db \in Database /\ durable \in Database
  BY DEF TablesOK
<1>1. UNCHANGED storeVars => TablesOK'
  BY DEF TablesOK, storeVars
<1>2. CASE LookupFails
  <2> DEFINE n == db.grant[Mine].lookups + 1
             e == [db EXCEPT !.grant[Mine].lookups = n]
  <2>1. \/ n < LookupLimit /\ Commit(e)
        \/ Commit([db EXCEPT !.grant[Mine].lookups = LookupLimit])
    BY <1>2 DEF LookupFails
  <2>2. n < LookupLimit => e \in Database
    <3>1. CASE Mine \in Grants
      <4>1. n < LookupLimit => n \in 0..LookupLimit
        <5>1. db.grant[Mine].lookups \in 0..LookupLimit /\ LookupLimit \in Nat
          BY <1>0, <3>1, BoundsAssumption DEF Database
        <5> QED BY <5>1
      <4> HIDE DEF n
      <4> QED BY <1>0, <4>1, RowTypes
    <3>2. CASE Mine \notin Grants
      <4>1. e = db
        BY <1>0, <3>2 DEF Database
      <4> QED BY <1>0, <4>1
    <3> QED BY <3>1, <3>2
  <2>3. LookupLimit \in 0..LookupLimit
    BY BoundsAssumption
  <2>4. [db EXCEPT !.grant[Mine].lookups = LookupLimit] \in Database
    BY <1>0, <2>3, RowTypes
  <2> HIDE DEF n, e
  <2> QED BY <2>1, <2>2, <2>4, CommitTypes
<1>3. CASE Lookup \/ ReceiptSolid
  <2>1. 0 \in 0..LookupLimit
    BY BoundsAssumption
  <2>2. \/ Commit([db EXCEPT !.grant[Mine].lookups = 0])
        \/ Commit([db EXCEPT !.grant[Mine].receipt = TRUE, !.grant[Mine].lookups = 0])
    BY <1>3 DEF Lookup, ReceiptSolid
  <2>3. /\ [db EXCEPT !.grant[Mine].lookups = 0] \in Database
        /\ [db EXCEPT !.grant[Mine].receipt = TRUE, !.grant[Mine].lookups = 0] \in Database
    BY <1>0, <2>1, RowTypes
  <2> QED BY <2>2, <2>3, CommitTypes
<1>4. CASE GiveUp \/ Escalate \/ ApplyAbsent \/ Outcome \/ OutcomeReverted
  BY <1>0, <1>1, <1>4, StatementTypes, CommitTypes
     DEF GiveUp, Escalate, ApplyAbsent, Outcome, OutcomeReverted
<1>5. CASE ReconcileNothing \/ ReceiptMissing
  BY <1>1, <1>5 DEF ReconcileNothing, ReceiptMissing
<1> QED BY <1>2, <1>3, <1>4, <1>5 DEF Reconciles

\* The walk, and the rental: failures of the market are counted up to their limit.
LEMMA RentsRows ==
  ASSUME TablesOK, Walks \/ NotDue \/ Rents
  PROVE  TablesOK'
<1> DEFINE Bill == {"none", "quoted", "purchased", "delegated", "failed", "expired"}
<1>0. db \in Database /\ durable \in Database
  BY DEF TablesOK
<1>1. UNCHANGED storeVars => TablesOK'
  BY DEF TablesOK, storeVars
<1>2. CASE Walks \/ NotDue
  <2>1. CASE CloseRental
    <3>1. PICK x \in {"delegated", "expired"} :
            Commit(IF db.purchase[cur] # "purchased" THEN db ELSE [db EXCEPT !.purchase[cur] = x])
      BY <2>1 DEF CloseRental
    <3>2. [db EXCEPT !.purchase[cur] = x] \in Database
      BY <1>0, RowTypes
    <3> QED BY <1>0, <3>1, <3>2, CommitTypes
  <2>2. CASE ~CloseRental
    BY <1>1, <1>2, <2>2 DEF Walks, NotDue, BeginTick, ManualDone, RowsDone, TakeManual, TakeRow
  <2> QED BY <2>1, <2>2
<1>3. CASE FinishRental \/ Quote \/ QuoteTooDear \/ MarkPurchase \/ FailRental
  <2>1. PICK x \in {"delegated", "quoted", "failed", "purchased"} :
          Commit([db EXCEPT !.purchase[cur] = x]) \/ CommitFull([db EXCEPT !.purchase[cur] = x])
    BY <1>3 DEF FinishRental, Quote, QuoteTooDear, MarkPurchase, FailRental
  <2>2. [db EXCEPT !.purchase[cur] = x] \in Database
    BY <1>0, RowTypes
  <2> QED BY <2>1, <2>2, CommitTypes
<1>4. CASE RentalFinished \/ Blame
  <2>1. PICK n : Commit([db EXCEPT !.failures = n]) /\ n \in 0..FailureLimit
    <3>1. CASE RentalFinished
      <4>1. 0 \in 0..FailureLimit
        BY BoundsAssumption
      <4> QED BY <3>1, <4>1 DEF RentalFinished
    <3>2. CASE Blame
      <4> DEFINE n == IF db.failures < FailureLimit THEN db.failures + 1 ELSE FailureLimit
      <4>1. n \in 0..FailureLimit
        <5>1. db.failures \in 0..FailureLimit /\ FailureLimit \in Nat
          BY <1>0, BoundsAssumption DEF Database
        <5> QED BY <5>1
      <4>2. Commit([db EXCEPT !.failures = n])
        BY <3>2 DEF Blame
      <4> QED BY <4>1, <4>2
    <3> QED BY <1>4, <3>1, <3>2
  <2>2. [db EXCEPT !.failures = n] \in Database
    BY <1>0, <2>1, RowTypes
  <2> QED BY <2>1, <2>2, CommitTypes
<1>5. CASE RentalUnfinished \/ RentalDecided \/ PollRental \/ RentalSkipped \/ Purchase
  BY <1>1, <1>5 DEF RentalUnfinished, RentalDecided, PollRental, RentalSkipped, Purchase
<1> QED BY <1>2, <1>3, <1>4, <1>5 DEF Rents

\* What the account has, then energy, then bandwidth.
LEMMA AcquiresRows ==
  ASSUME TablesOK, WorkersOK, Acquires
  PROVE  TablesOK'
<1>0. db \in Database /\ durable \in Database
  BY DEF TablesOK
<1>1. UNCHANGED storeVars => TablesOK'
  BY DEF TablesOK, storeVars
<1>2. CASE AwaitEnergy \/ AwaitBandwidth \/ NoteSources \/ Sign
  <2>1. cur \in Withdrawals
    BY <1>2 DEF AwaitEnergy, AwaitBandwidth, NoteSources, Sign, Engine, MidSteps, WorkersOK
  <2>2. /\ seen.status \in Awaiting /\ "awaiting_energy" \in Awaiting
        /\ "awaiting_resources" \in Awaiting /\ "" \in Sources /\ source \in Sources
    BY DEF WorkersOK, Views, Awaiting, Sources
  <2>3. \/ UNCHANGED storeVars
        \/ \E s \in Awaiting \cup {"signing"} : \E src \in Sources : Commit(SetStatus(s, src))
    BY <1>2, <2>2 DEF AwaitEnergy, AwaitBandwidth, NoteSources, Sign
  <2> QED BY <1>0, <1>1, <2>1, <2>3, SetStatusTypes, CommitTypes
<1>3. CASE ConfirmEnergy \/ ConfirmBandwidth \/ BurnRefused \/ BandwidthUnavailable
  BY <1>0, <1>3, StatementTypes, CommitTypes
     DEF ConfirmEnergy, ConfirmBandwidth, BurnRefused, BandwidthUnavailable
<1>4. CASE DelegateEnergy \/ GrantBandwidth
  <2>1. UNCHANGED storeVars \/ \E g : Commit([db EXCEPT !.grant[g] = NewGrant])
    BY <1>4 DEF DelegateEnergy, GrantBandwidth, Ensure
  <2> QED BY <1>0, <1>1, <2>1, RowTypes, CommitTypes
<1>5. CASE \/ \E energy, bandwidth \in BOOLEAN : Read(energy, bandwidth)
           \/ HasEnergy \/ HasGrantedEnergy \/ Burn \/ HasBandwidth \/ BurnBandwidth
  BY <1>1, <1>5 DEF Read, HasEnergy, HasGrantedEnergy, Burn, HasBandwidth, BurnBandwidth
<1> QED BY <1>2, <1>3, <1>4, <1>5 DEF Acquires

\* The API's request, the errors, the crashes, the chain and the clocks.
LEMMA OthersRows ==
  ASSUME TablesOK,
         \/ \E g \in ManualGrants : RequestDelegation(g)
         \/ \E g \in Grants : Land(g) \/ Expire(g)
         \/ \E w \in Withdrawals : Lapse(w)
         \/ CloseCircuit
         \/ \E p \in Workers : Abort(p)
         \/ Crash \/ PowerLoss
         \/ UNCHANGED vars
  PROVE  TablesOK'
<1>1. CASE \E g \in ManualGrants : RequestDelegation(g)
  <2>1. \E g : Commit([db EXCEPT !.grant[g] = NewGrant])
    BY <1>1 DEF RequestDelegation
  <2> QED BY <2>1, RowTypes, CommitTypes DEF TablesOK
<1>2. CASE ~\E g \in ManualGrants : RequestDelegation(g)
  BY <1>2 DEF Land, NetBecomes, Expire, Lapse, World, CloseCircuit, Abort, Crash, PowerLoss, vars,
              storeVars, TablesOK
<1> QED BY <1>1, <1>2

-----------------------------------------------------------------------------
(* The types of the clocks and of the world outside.                         *)

WorldOK ==
  /\ lapsed \subseteq Withdrawals /\ late \subseteq Grants
  /\ net \in [Grants -> OnChain \cup {"unsent", "pending", "gone"}]
  /\ faults \in Nat

\* Few steps touch them.
LEMMA WorldStep ==
  ASSUME WorldOK, [Next]_vars
  PROVE  WorldOK'
<1> DEFINE Fates == OnChain \cup {"unsent", "pending", "gone"}
<1>0. \A g : \A t \in Fates : [net EXCEPT ![g] = t] \in [Grants -> Fates]
  BY DEF WorldOK
<1>1. CASE UNCHANGED <<clockVars, net, faults>>
  BY <1>1 DEF clockVars, WorldOK
<1>2. CASE \E p \in Workers, rejected \in BOOLEAN : SendGrant(p, rejected)
  <2>0. PICK p \in Workers, rejected \in BOOLEAN : SendGrant(p, rejected)
    BY <1>2
  <2>1. PICK t \in {"pending", "gone"} : net' = [net EXCEPT ![hand[p]] = t]
    BY <2>0 DEF SendGrant
  <2>2. UNCHANGED <<clockVars, faults>>
    BY <2>0 DEF SendGrant
  <2>3. net' \in [Grants -> Fates]
    BY <1>0, <2>1
  <2> QED BY <2>2, <2>3 DEF clockVars, WorldOK
<1>3. CASE FailRental
  <2>1. lapsed' = lapsed \ {cur} /\ late' = late /\ net' = net /\ faults' = faults
    BY <1>3 DEF FailRental, worldVars
  <2> QED BY <2>1 DEF WorldOK
<1>4. CASE (\E p \in Workers : Abort(p)) \/ Crash \/ PowerLoss
  <2>1. faults' = faults + 1 /\ UNCHANGED <<clockVars, net>>
    BY <1>4 DEF Abort, Crash, PowerLoss, Restart, worldVars
  <2>2. faults' \in Nat
    BY <2>1 DEF WorldOK
  <2> QED BY <2>1, <2>2 DEF clockVars, WorldOK
<1>5. CASE \E g \in Grants : Land(g)
  <2>1. PICK g \in Grants, t \in {"solid", "reverted"} : NetBecomes(g, t)
    BY <1>5 DEF Land
  <2> QED BY <1>0, <2>1 DEF NetBecomes, World, clockVars, WorldOK, OnChain
<1>6. CASE \E g \in Grants : Expire(g)
  <2>1. PICK g \in Grants : Expire(g)
    BY <1>6
  <2>2. net' = [net EXCEPT ![g] = IF net[g] = "pending" THEN "gone" ELSE net[g]]
        /\ net[g] \in Fates
    BY <2>1 DEF Expire, WorldOK
  <2>3. net' \in [Grants -> Fates]
    BY <1>0, <2>2
  <2> QED BY <2>1, <2>3 DEF Expire, World, WorldOK
<1>7. CASE \E w \in Withdrawals : Lapse(w)
  BY <1>7 DEF Lapse, World, WorldOK
<1>8. CASE Delegates("engine") \/ Delegates("api")
  BY <1>1, <1>2, <1>8 DEF Delegates, StartFails, StartSigns, Persist, PersistRefused, RecordSent, Verify,
                          Still, worldVars, Workers
<1>9. CASE Reconciles
  BY <1>1, <1>9 DEF Reconciles, ReconcileNothing, Lookup, LookupFails, GiveUp, Escalate, ApplyAbsent,
                    ReceiptMissing, ReceiptSolid, Outcome, OutcomeReverted, Still, worldVars
<1>10. CASE Walks \/ NotDue
  BY <1>1, <1>10 DEF Walks, NotDue, BeginTick, ManualDone, RowsDone, CloseRental, TakeManual, TakeRow,
                     Still, worldVars
<1>11. CASE Rents
  BY <1>1, <1>3, <1>11 DEF Rents, RentalUnfinished, FinishRental, RentalFinished, RentalDecided,
                     PollRental, RentalSkipped, Quote, QuoteTooDear, MarkPurchase, Purchase, Blame,
                     From, Still, worldVars
<1>12. CASE Acquires
  BY <1>1, <1>12 DEF Acquires, Read, AwaitEnergy, HasEnergy, HasGrantedEnergy, ConfirmEnergy,
                     DelegateEnergy, GrantBandwidth, Ensure, Burn, BurnRefused, HasBandwidth,
                     BurnBandwidth, ConfirmBandwidth, AwaitBandwidth, NoteSources,
                     BandwidthUnavailable, Sign, From, Still, worldVars
<1>13. CASE (\E g \in ManualGrants : RequestDelegation(g)) \/ CloseCircuit \/ UNCHANGED vars
  BY <1>1, <1>13 DEF RequestDelegation, CloseCircuit, Still, worldVars, vars
<1> QED BY <1>4, <1>5, <1>6, <1>7, <1>8, <1>9, <1>10, <1>11, <1>12, <1>13 DEF Next, EngineStep

\* A withdrawal is in hand at every step that reads or writes one.
LEMMA TypesInvariant == Spec => [](TablesOK /\ WorkersOK /\ WorldOK)
<1> DEFINE I == TablesOK /\ WorkersOK /\ WorldOK
<1>1. Init => I
  <2> SUFFICES ASSUME Init PROVE I
    OBVIOUS
  <2>1. WorkersOK
    BY DEF Init, WorkersOK, Workers, Steps, Between, MidSteps, GrantSteps, Backs, Sources, NoSight,
           Views, Awaiting
  <2>2. WorldOK
    BY DEF Init, WorldOK
  <2>3. TablesOK
    <3>1. 0 \in 0..LookupLimit /\ 0 \in 0..FailureLimit
      BY BoundsAssumption
    <3> DEFINE Row == [status : {"none", "requested", "attempted", "broadcast",
                                 "confirmed", "failed", "needs_operator"},
                       attempted : BOOLEAN, lookups : 0..LookupLimit, receipt : BOOLEAN]
    <3>2. NewGrant \in Row
      BY <3>1 DEF NewGrant
    <3>3. [NewGrant EXCEPT !.status = "none"] \in Row
      <4>1. \A r \in Row : [r EXCEPT !.status = "none"] \in Row
        OBVIOUS
      <4> QED BY <3>2, <4>1
    <3>4. [status |-> "awaiting_resources", source |-> ""] \in
            [status : Awaiting \cup {"signing", "failed", "needs_operator"}, source : Sources]
      BY DEF Awaiting, Sources
    <3> QED BY <3>1, <3>3, <3>4 DEF Init, TablesOK, Database
  <2> QED BY <2>1, <2>2, <2>3
<1>2. SourcingInv /\ BurnInv /\ I /\ [Next]_vars => I'
  <2> SUFFICES ASSUME SourcingInv, BurnInv, I, [Next]_vars PROVE I'
    OBVIOUS
  <2>1. WorkersOK'
    BY DelegatesTypes, ReconcilesTypes, WalksTypes, RentsTypes, AcquiresTypes, OthersTypes
       DEF Next, EngineStep, Workers, TablesOK
  <2>2. TablesOK'
    BY DelegatesRows, ReconcilesRows, RentsRows, AcquiresRows, OthersRows
       DEF Next, EngineStep, Workers
  <2> QED BY <2>1, <2>2, WorldStep
<1> QED BY <1>1, <1>2, BurnInvariant, PTL DEF Spec

\* The types of everything: the rows and what of them is on disk, what the workers hold
\* and where they are, the failures of the market and the lookups within their limits,
\* for any number of withdrawals, of aborted ticks, crashes and power losses.
THEOREM SourcingTypes == Spec => []TypeOK
<1>1. SourcingInv /\ TablesOK /\ WorkersOK /\ WorldOK => TypeOK
  <2> SUFFICES ASSUME SourcingInv, TablesOK, WorkersOK, WorldOK PROVE TypeOK
    OBVIOUS
  <2>1. sent \in [Grants -> Nat] /\ calls \in [Withdrawals -> Nat]
    BY DEF SourcingInv, SendsAttempted, CallsBought
  <2>2. \A s \in Steps : s \in {"idle", "start", "persist", "send", "record", "recordRejected",
       "verify", "manual", "rows", "closeRental", "read", "energy", "existing", "rent",
       "quoted", "purchase", "failRental", "blame", "rented", "delegate", "burn",
       "bandwidth", "delegateBandwidth", "waits", "unavailable", "fail", "spare", "sign",
       "reconcile", "receipt", "absent", "outcome", "reverted", "giveUp", "escalate"}
    BY DEF Steps, Between, GrantSteps, MidSteps
  <2> QED BY <2>1, <2>2 DEF TypeOK, TablesOK, WorkersOK, WorldOK, Views, Backs
<1> QED BY <1>1, BurnInvariant, TypesInvariant, PTL

-----------------------------------------------------------------------------
(* The source of the energy a withdrawal was signed with.                    *)

\* A row that says `rented` has its delivery recorded, and a signed one says something.
Sourced(d) ==
  \A w \in Withdrawals :
    /\ d.withdrawal[w].source = "rented" => d.purchase[w] = "delegated"
    /\ d.withdrawal[w].status = "signing" => d.withdrawal[w].source # ""

\* Past the tiers of energy, energySource is set.
Found == {"bandwidth", "delegateBandwidth", "waits", "unavailable", "fail", "spare", "sign"}
FoundBacks == {"unavailable", "spare"}

\* The engine calls rented what was delivered, and knows the order it is about to write.
SourceOK ==
  /\ source = "rented" \/ Engine("rented")
       => cur \in Withdrawals /\ db.purchase[cur] = "delegated"
  /\ Engine("quoted") => db.purchase[cur] = "quoted"
  /\ at["engine"] \in {"purchase", "failRental"} => db.purchase[cur] = "purchased"
  /\ at["engine"] \in Found \/ (at["engine"] \in GrantSteps /\ back \in FoundBacks)
       => source # ""

SourceInv == Sourced(db) /\ Sourced(durable) /\ SourceOK

\* A delivery is not forgotten, and a row gets its source from the engine's energySource.
Settles(e) ==
  \A w \in Withdrawals :
    /\ db.purchase[w] = "delegated" => e.purchase[w] = "delegated"
    /\ \/ e.withdrawal[w].source = db.withdrawal[w].source
       \/ w = cur /\ source # "" /\ e.withdrawal[w].source = source
    /\ e.withdrawal[w].status = "signing"
         => db.withdrawal[w].status = "signing" \/ e.withdrawal[w].source # ""

Settled == Settles(db') /\ durable' \in {durable, db'}

\* Such a statement keeps the sources, in the database and on disk.
LEMMA SettledSources ==
  ASSUME SourceInv, Settled
  PROVE  Sourced(db') /\ Sourced(durable')
<1>1. Sourced(db')
  BY DEF SourceInv, Settled, Settles, Sourced, SourceOK
<1> QED BY <1>1 DEF SourceInv, Settled

\* Statements that write neither a source nor an order.
LEMMA ApartSettled ==
  ASSUME TablesOK, NEW e, Commit(e) \/ CommitFull(e),
         e.withdrawal = db.withdrawal, e.purchase = db.purchase
  PROVE  Settled /\ db'.purchase = db.purchase
BY DEF Settled, Settles, Commit, CommitFull

\* None.
LEMMA IdleSettled ==
  ASSUME UNCHANGED storeVars
  PROVE  Settled /\ db'.purchase = db.purchase
BY DEF Settled, Settles, storeVars

\* Statements on a grant or on the failures of the market are among them.
LEMMA GrantsApart ==
  ASSUME TablesOK
  PROVE  /\ \A g, x : LET e == [db EXCEPT !.grant[g] = x]
                      IN e.withdrawal = db.withdrawal /\ e.purchase = db.purchase
         /\ \A n : LET e == [db EXCEPT !.failures = n]
                   IN e.withdrawal = db.withdrawal /\ e.purchase = db.purchase
<1>1. DOMAIN db = {"withdrawal", "purchase", "grant", "failures"}
  BY DEF TablesOK, Database
<1> QED BY <1>1

\* A statement that closes a withdrawal writes its status alone.
LEMMA ClosedSettled ==
  ASSUME TablesOK, NEW w, NEW e \in {FailResources(w), WithdrawalNeedsOperator(w)}, Commit(e)
  PROVE  Settled /\ db'.purchase = db.purchase
<1>1. /\ DOMAIN db = {"withdrawal", "purchase", "grant", "failures"}
      /\ DOMAIN db.withdrawal = Withdrawals
      /\ \A v \in Withdrawals : DOMAIN db.withdrawal[v] = {"status", "source"}
  BY DEF TablesOK, Database
<1>2. PICK x \in {"failed", "needs_operator"} : e \in {db, [db EXCEPT !.withdrawal[w].status = x]}
  BY DEF FailResources, WithdrawalNeedsOperator
<1>3. /\ e.purchase = db.purchase
      /\ \A v \in Withdrawals : /\ e.withdrawal[v].source = db.withdrawal[v].source
                                /\ e.withdrawal[v].status \in {db.withdrawal[v].status, x}
  BY <1>1, <1>2
<1> QED BY <1>3 DEF Commit, Settled, Settles

\* The state of the withdrawal in hand, with its source.
LEMMA StatusSettled ==
  ASSUME TablesOK, cur \in Withdrawals, NEW s, NEW src \in {"", source}, Commit(SetStatus(s, src)),
         s = "signing" => src # ""
  PROVE  Settled /\ db'.purchase = db.purchase
<1> DEFINE e == SetStatus(s, src)
           x == IF src = "" THEN db.withdrawal[cur].source ELSE src
<1>1. /\ DOMAIN db = {"withdrawal", "purchase", "grant", "failures"}
      /\ DOMAIN db.withdrawal = Withdrawals
      /\ \A v \in Withdrawals : DOMAIN db.withdrawal[v] = {"status", "source"}
  BY DEF TablesOK, Database
<1>2. e = db \/ e = [db EXCEPT !.withdrawal[cur].status = s, !.withdrawal[cur].source = x]
  BY DEF SetStatus
<1>3. Commit(e)
  OBVIOUS
<1> HIDE DEF e
<1> HIDE DEF x
<1>4. /\ e.purchase = db.purchase
      /\ \A v \in Withdrawals :
           \/ e.withdrawal[v] = db.withdrawal[v]
           \/ v = cur /\ e.withdrawal[v].status = s /\ e.withdrawal[v].source = x
  <2>1. CASE e = db
    BY <2>1
  <2>2. CASE e = [db EXCEPT !.withdrawal[cur].status = s, !.withdrawal[cur].source = x]
    <3> DEFINE moved == [[db.withdrawal[cur] EXCEPT !.status = s] EXCEPT !.source = x]
    <3>1. e.purchase = db.purchase /\ e.withdrawal = [db.withdrawal EXCEPT ![cur] = moved]
      BY <1>1, <2>2
    <3>2. moved.status = s /\ moved.source = x
      BY <1>1
    <3> HIDE DEF moved
    <3> QED BY <1>1, <3>1, <3>2
  <2> QED BY <1>2, <2>1, <2>2
<1> QED BY <1>3, <1>4 DEF x, Commit, Settled, Settles

\* An order that was not delivered, or is now.
LEMMA OrderSettled ==
  ASSUME TablesOK, cur \in Withdrawals, NEW x,
         NEW e \in {db, [db EXCEPT !.purchase[cur] = x]}, Commit(e) \/ CommitFull(e),
         x = "delegated" \/ db.purchase[cur] # "delegated"
  PROVE  Settled /\ db' = e
<1>1. /\ DOMAIN db = {"withdrawal", "purchase", "grant", "failures"}
      /\ DOMAIN db.purchase = Withdrawals
  BY DEF TablesOK, Database
<1>2. /\ e.withdrawal = db.withdrawal
      /\ \A v \in Withdrawals : e.purchase[v] = db.purchase[v] \/ (v = cur /\ e.purchase[v] = x)
  BY <1>1
<1> QED BY <1>2 DEF Commit, CommitFull, Settled, Settles

-----------------------------------------------------------------------------
(* How the engine and the API go on.                                         *)

\* The engine goes on with the withdrawal in hand, to a step at which no order is open.
LEMMA OnSource ==
  ASSUME SourceInv, WorkersOK, Settled, NEW s, at' = [at EXCEPT !["engine"] = s],
         UNCHANGED <<cur, source>>,
         s \notin {"rented", "quoted", "purchase", "failRental"},
         s \in Found \/ (s \in GrantSteps /\ back' \in FoundBacks) => source # ""
  PROVE  SourceOK'
<1>1. at'["engine"] = s
  BY DEF WorkersOK, Workers
<1>2. source' = "rented" => cur' \in Withdrawals /\ db'.purchase[cur'] = "delegated"
  BY DEF SourceInv, SourceOK, Settled, Settles
<1> QED BY <1>1, <1>2 DEF SourceOK, Engine

\* It leaves it, or has none.
LEMMA LeftSource ==
  ASSUME WorkersOK, NEW s \in Between, Leave(s)
  PROVE  SourceOK'
<1>1. at'["engine"] = s /\ source' = ""
  BY DEF Leave, WorkersOK, Workers
<1> QED BY <1>1 DEF SourceOK, Engine, Between, Found, GrantSteps

\* It does nothing.
LEMMA StillSource ==
  ASSUME SourceInv, at'["engine"] = at["engine"], UNCHANGED <<cur, source, back>>,
         db'.purchase = db.purchase
  PROVE  SourceOK'
BY DEF SourceInv, SourceOK, Engine

\* The grant in hand is decided, or waited for.
LEMMA ReturnedSource ==
  ASSUME SourceInv, WorkersOK, Settled, at["engine"] \in GrantSteps, NEW pending \in BOOLEAN,
         Return("engine", pending)
  PROVE  SourceOK'
<1> DEFINE s == IF pending THEN Waits ELSE back
<1>1. CASE s = "rows"
  BY <1>1, LeftSource DEF Return, NextRow, Between
<1>2. CASE s # "rows"
  <2>1. at' = [at EXCEPT !["engine"] = s] /\ UNCHANGED <<cur, source, back>>
    BY <1>2 DEF Return, engineVars
  <2>2. s = "manual" \/ s \in {"existing", "burn"} \/ (s \in {"waits", "unavailable", "spare"}
                                                        /\ back \in FoundBacks)
    BY <1>2 DEF WorkersOK, Backs, Waits, FoundBacks
  <2> HIDE DEF s
  <2>3. back \in FoundBacks => source # ""
    BY DEF SourceInv, SourceOK
  <2>4. /\ s \notin {"rented", "quoted", "purchase", "failRental"}
        /\ s \in Found \/ (s \in GrantSteps /\ back' \in FoundBacks) => source # ""
    BY <2>1, <2>2, <2>3 DEF Found, GrantSteps
  <2> QED BY <2>1, <2>4, OnSource
<1> QED BY <1>1, <1>2

-----------------------------------------------------------------------------
(* The source, action by action.                                             *)

\* One delegation or top-up.
LEMMA DelegatesSource ==
  ASSUME SourceInv, WorkersOK, TablesOK, NEW p \in Workers, Delegates(p)
  PROVE  Settled /\ SourceOK'
<1>0. /\ at[p] \in GrantSteps /\ p \in {"engine", "api"} /\ DOMAIN at = Workers
      /\ Workers = {"engine", "api"}
  BY DEF Delegates, StartFails, StartSigns, Persist, PersistRefused, SendGrant, RecordSent, Verify,
         GrantSteps, Workers, WorkersOK
<1>1. Settled /\ db'.purchase = db.purchase
  <2>1. CASE StartFails(p) \/ Verify(p)
    <3>1. UNCHANGED storeVars \/ Commit(FailGrant(hand[p]))
      BY <2>1 DEF StartFails, Verify
    <3>2. LET e == FailGrant(hand[p]) IN e.withdrawal = db.withdrawal /\ e.purchase = db.purchase
      <4>1. DOMAIN db = {"withdrawal", "purchase", "grant", "failures"}
        BY DEF TablesOK, Database
      <4> QED BY <4>1 DEF FailGrant
    <3> QED BY <3>1, <3>2, ApartSettled, IdleSettled
  <2>2. CASE Persist(p) \/ RecordSent(p)
    <3>1. DOMAIN db = {"withdrawal", "purchase", "grant", "failures"}
      BY DEF TablesOK, Database
    <3>2. PICK e : CommitFull(e) /\ e.withdrawal = db.withdrawal /\ e.purchase = db.purchase
      <4>1. CASE Persist(p)
        <5> DEFINE e == [db EXCEPT !.grant[hand[p]].status = "attempted",
                                   !.grant[hand[p]].attempted = TRUE]
        <5>1. CommitFull(e) /\ e.withdrawal = db.withdrawal /\ e.purchase = db.purchase
          BY <3>1, <4>1 DEF Persist
        <5> QED BY <5>1
      <4>2. CASE RecordSent(p)
        <5> DEFINE e == [db EXCEPT !.grant[hand[p]].status = IF @ = "attempted" THEN "broadcast"
                                                             ELSE @]
        <5>1. CommitFull(e) /\ e.withdrawal = db.withdrawal /\ e.purchase = db.purchase
          BY <3>1, <4>2 DEF RecordSent
        <5> QED BY <5>1
      <4> QED BY <2>2, <4>1, <4>2
    <3> QED BY <3>2, ApartSettled
  <2>3. CASE StartSigns(p) \/ PersistRefused(p) \/ \E rejected \in BOOLEAN : SendGrant(p, rejected)
    BY <2>3, IdleSettled DEF StartSigns, PersistRefused, SendGrant
  <2> QED BY <2>1, <2>2, <2>3 DEF Delegates
<1>2. \/ \E s \in {"persist", "send", "record", "recordRejected", "verify"} :
             Goto(p, s) /\ UNCHANGED engineVars
      \/ \E pending \in BOOLEAN : Return(p, pending)
      \/ Stop(p)
  BY DEF Delegates, StartFails, StartSigns, Persist, PersistRefused, SendGrant, RecordSent, Verify
<1>3. CASE p = "engine"
  <2>1. ASSUME NEW s \in {"persist", "send", "record", "recordRejected", "verify"},
               Goto(p, s), UNCHANGED engineVars
        PROVE  SourceOK'
    <3>1. at' = [at EXCEPT !["engine"] = s] /\ UNCHANGED <<cur, source, back>>
      BY <1>3, <2>1 DEF Goto, engineVars
    <3>2. /\ s \notin {"rented", "quoted", "purchase", "failRental"} /\ s \notin Found
          /\ back' \in FoundBacks => source # ""
      BY <1>0, <1>3, <2>1, <3>1 DEF Found, SourceInv, SourceOK
    <3> QED BY <1>1, <3>1, <3>2, OnSource
  <2>2. CASE \E pending \in BOOLEAN : Return(p, pending)
    BY <1>0, <1>1, <1>3, <2>2, ReturnedSource
  <2>3. CASE Stop(p)
    BY <1>1, <1>3, <2>3, LeftSource DEF Stop, Between
  <2> QED BY <1>1, <1>2, <2>1, <2>2, <2>3
<1>4. CASE p = "api"
  <2>1. at'["engine"] = at["engine"] /\ UNCHANGED engineVars
    BY <1>0, <1>2, <1>4 DEF Goto, Return, Stop
  <2> QED BY <1>1, <2>1, StillSource DEF engineVars
<1> QED BY <1>0, <1>3, <1>4

\* The reconciliation of the grant in hand.
LEMMA ReconcilesSource ==
  ASSUME SourceInv, WorkersOK, TablesOK, Reconciles
  PROVE  Settled /\ SourceOK'
<1>0. at["engine"] \in GrantSteps
  BY DEF Reconciles, ReconcileNothing, Reconcilable, Lookup, LookupFails, GiveUp, Escalate, ApplyAbsent,
         ReceiptMissing, ReceiptSolid, Outcome, OutcomeReverted, Engine, GrantSteps
<1>d. DOMAIN db = {"withdrawal", "purchase", "grant", "failures"}
  BY DEF TablesOK, Database
<1>1. Settled
  <2>1. CASE Escalate
    BY <2>1, ClosedSettled DEF Escalate
  <2>2. CASE Lookup \/ LookupFails \/ ReceiptSolid
    <3>1. \/ \E n : Commit([db EXCEPT !.grant[Mine].lookups = n])
          \/ Commit([db EXCEPT !.grant[Mine].receipt = TRUE, !.grant[Mine].lookups = 0])
      BY <2>2 DEF Lookup, LookupFails, ReceiptSolid
    <3>2. PICK e : Commit(e) /\ e.withdrawal = db.withdrawal /\ e.purchase = db.purchase
      <4>1. ASSUME NEW n, Commit([db EXCEPT !.grant[Mine].lookups = n])
            PROVE  \E e : Commit(e) /\ e.withdrawal = db.withdrawal /\ e.purchase = db.purchase
        <5> DEFINE e == [db EXCEPT !.grant[Mine].lookups = n]
        <5>1. Commit(e) /\ e.withdrawal = db.withdrawal /\ e.purchase = db.purchase
          BY <1>d, <4>1
        <5> QED BY <5>1
      <4>2. ASSUME Commit([db EXCEPT !.grant[Mine].receipt = TRUE, !.grant[Mine].lookups = 0])
            PROVE  \E e : Commit(e) /\ e.withdrawal = db.withdrawal /\ e.purchase = db.purchase
        <5> DEFINE e == [db EXCEPT !.grant[Mine].receipt = TRUE, !.grant[Mine].lookups = 0]
        <5>1. Commit(e) /\ e.withdrawal = db.withdrawal /\ e.purchase = db.purchase
          BY <1>d, <4>2
        <5> QED BY <5>1
      <4> QED BY <3>1, <4>1, <4>2
    <3> QED BY <3>2, ApartSettled
  <2>3. CASE GiveUp \/ ApplyAbsent \/ Outcome \/ OutcomeReverted
    <3>1. UNCHANGED storeVars \/ \E e \in {FailGrant(Mine), ConfirmGrant(Mine),
                                           GrantNeedsOperator(Mine)} : Commit(e)
      BY <2>3 DEF GiveUp, ApplyAbsent, Outcome, OutcomeReverted
    <3>2. \A e \in {FailGrant(Mine), ConfirmGrant(Mine), GrantNeedsOperator(Mine)} :
            e.withdrawal = db.withdrawal /\ e.purchase = db.purchase
      BY <1>d DEF FailGrant, ConfirmGrant, GrantNeedsOperator
    <3> QED BY <3>1, <3>2, ApartSettled, IdleSettled
  <2>4. CASE ReconcileNothing \/ ReceiptMissing
    BY <2>4, IdleSettled DEF ReconcileNothing, ReceiptMissing
  <2> QED BY <2>1, <2>2, <2>3, <2>4 DEF Reconciles
<1>2. \/ \E s \in {"receipt", "absent", "giveUp", "escalate", "outcome", "reverted"} :
             EngineGoto(s)
      \/ \E pending \in BOOLEAN : Return("engine", pending)
  BY DEF Reconciles, ReconcileNothing, Lookup, LookupFails, GiveUp, Escalate, ApplyAbsent,
         ReceiptMissing, ReceiptSolid, Outcome, OutcomeReverted
<1>3. ASSUME NEW s \in {"receipt", "absent", "giveUp", "escalate", "outcome", "reverted"},
             EngineGoto(s)
      PROVE  SourceOK'
  <2>1. at' = [at EXCEPT !["engine"] = s] /\ UNCHANGED <<cur, source, back>>
    BY <1>3 DEF EngineGoto, Goto, engineVars
  <2>2. /\ s \notin {"rented", "quoted", "purchase", "failRental"} /\ s \notin Found
        /\ back' \in FoundBacks => source # ""
    BY <1>0, <2>1 DEF Found, SourceInv, SourceOK
  <2> QED BY <1>1, <2>1, <2>2, OnSource
<1> QED BY <1>0, <1>1, <1>2, <1>3, ReturnedSource

\* The walk over the manual grants and the rows.
LEMMA WalksSource ==
  ASSUME SourceInv, BurnInv, WorkersOK, TablesOK, Walks \/ NotDue
  PROVE  Settled /\ SourceOK'
<1>0. /\ \A s \in Between \cup {"closeRental", "read"} :
           s \notin Found /\ s \notin GrantSteps
           /\ s \notin {"rented", "quoted", "purchase", "failRental"}
      /\ \A s \in {"start", "reconcile"} :
           s \notin Found /\ s \notin {"rented", "quoted", "purchase", "failRental"}
      /\ "manual" \notin FoundBacks
  BY DEF Between, Found, GrantSteps, FoundBacks
<1>1. CASE CloseRental
  <2>1. cur \in Withdrawals /\ EngineGoto("read")
    BY <1>1 DEF CloseRental, Engine, MidSteps, WorkersOK
  <2>2. PICK x \in {"delegated", "expired"} :
          Commit(IF db.purchase[cur] # "purchased" THEN db ELSE [db EXCEPT !.purchase[cur] = x])
    BY <1>1 DEF CloseRental
  <2>3. Settled
    <3>1. CASE db.purchase[cur] # "purchased"
      BY <2>2, <3>1, ApartSettled
    <3>2. CASE db.purchase[cur] = "purchased"
      BY <2>1, <2>2, <3>2, OrderSettled
    <3> QED BY <3>1, <3>2
  <2>4. at' = [at EXCEPT !["engine"] = "read"] /\ UNCHANGED <<cur, source>>
    BY <2>1 DEF EngineGoto, Goto, engineVars
  <2> QED BY <1>0, <2>3, <2>4, OnSource
<1>2. ~CloseRental => Settled
  BY IdleSettled DEF Walks, NotDue, BeginTick, ManualDone, RowsDone, TakeManual, TakeRow
<1>3. CASE BeginTick \/ ManualDone \/ RowsDone
  <2>1. PICK s \in Between : at' = [at EXCEPT !["engine"] = s]
    BY <1>3 DEF BeginTick, ManualDone, RowsDone, Goto, Between
  <2>2. UNCHANGED <<cur, source>> /\ Settled
    BY <1>3, IdleSettled DEF BeginTick, ManualDone, RowsDone
  <2> QED BY <1>0, <2>1, <2>2, OnSource
<1>4. ASSUME NEW g, NEW requested, TakeManual(g, requested)
      PROVE  Settled /\ SourceOK'
  <2>1. PICK s \in {"start", "reconcile"} : TakeGrant(g, s, "manual")
    BY <1>4 DEF TakeManual
  <2>2. /\ at' = [at EXCEPT !["engine"] = s] /\ back' = "manual" /\ UNCHANGED <<cur, source>>
        /\ Settled
    BY <1>4, <2>1, IdleSettled DEF TakeGrant, TakeManual
  <2> QED BY <1>0, <2>2, OnSource
<1>5. ASSUME NEW w \in Withdrawals, TakeRow(w)
      PROVE  Settled /\ SourceOK'
  <2>1. PICK s \in {"closeRental", "read"} : at' = [at EXCEPT !["engine"] = s]
    BY <1>5 DEF TakeRow, Goto
  <2>2. source' = source /\ Settled /\ at["engine"] = "rows" /\ at'["engine"] = s
    BY <1>5, <2>1, IdleSettled DEF TakeRow, Engine, WorkersOK, Workers
  <2>3. source # "rented"
    <3>1. cur = NoWithdrawal
      BY <2>2 DEF BurnInv, WalkOK, Between
    <3> QED BY <3>1, GrantsAssumption DEF SourceInv, SourceOK
  <2> QED BY <1>0, <2>1, <2>2, <2>3 DEF SourceOK, Engine
<1>6. CASE NotDue
  BY <1>6, IdleSettled, LeftSource DEF NotDue, NextRow, Between
<1> QED BY <1>1, <1>3, <1>4, <1>5, <1>6 DEF Walks

\* The rental: an order is delivered when the market, or the account, says so.
LEMMA RentsSource ==
  ASSUME SourceInv, WorkersOK, TablesOK, Rents
  PROVE  Settled /\ SourceOK'
<1>1. cur \in Withdrawals
  BY DEF Rents, RentalUnfinished, FinishRental, RentalFinished, RentalDecided, PollRental, Unrented,
         RentalSkipped, Quote, QuoteTooDear, MarkPurchase, Purchase, FailRental, Blame, Engine,
         MidSteps, WorkersOK
<1>d. /\ DOMAIN db = {"withdrawal", "purchase", "grant", "failures"}
      /\ DOMAIN db.purchase = Withdrawals /\ DOMAIN at = Workers /\ "engine" \in Workers
  BY DEF TablesOK, Database, WorkersOK, Workers
<1>2. CASE FinishRental \/ Quote \/ QuoteTooDear \/ MarkPurchase \/ FailRental
  <2>1. PICK x \in {"delegated", "quoted", "failed", "purchased"},
             s \in {"rented", "quoted", "delegate", "purchase", "blame"} :
          /\ Commit([db EXCEPT !.purchase[cur] = x]) \/ CommitFull([db EXCEPT !.purchase[cur] = x])
          /\ EngineGoto(s)
          /\ s = "rented" => x = "delegated"
          /\ s = "quoted" => x = "quoted"
          /\ s = "purchase" => x = "purchased"
          /\ x = "delegated" \/ db.purchase[cur] # "delegated"
    BY <1>2 DEF FinishRental, Quote, QuoteTooDear, MarkPurchase, FailRental, Unrented, Engine,
                SourceInv, SourceOK
  <2>2. Settled /\ db' = [db EXCEPT !.purchase[cur] = x]
    BY <1>1, <2>1, OrderSettled
  <2>3. db'.purchase[cur] = x
    BY <1>1, <1>d, <2>2
  <2>4. at'["engine"] = s /\ UNCHANGED <<cur, source, back>>
    BY <1>d, <2>1 DEF EngineGoto, Goto, engineVars
  <2>5. source = "rented" => db'.purchase[cur] = "delegated"
    BY <1>1, <2>2 DEF SourceInv, SourceOK, Settled, Settles
  <2>6. s \notin Found /\ s \notin GrantSteps /\ s # "failRental"
    BY DEF Found, GrantSteps
  <2> QED BY <1>1, <2>1, <2>2, <2>3, <2>4, <2>5, <2>6 DEF SourceOK, Engine
<1>3. CASE RentalFinished \/ Blame
  <2>1. PICK n : Commit([db EXCEPT !.failures = n])
    BY <1>3 DEF RentalFinished, Blame
  <2>2. Settled /\ db'.purchase = db.purchase
    BY <2>1, GrantsApart, ApartSettled
  <2>3. /\ cur' = cur
        /\ \/ at'["engine"] = "bandwidth" /\ source' = "rented" /\ Engine("rented")
           \/ at'["engine"] = "delegate" /\ source' = source
    BY <1>3, <1>d DEF RentalFinished, Blame, Goto
  <2>4. "bandwidth" \notin GrantSteps /\ "delegate" \notin GrantSteps /\ "delegate" \notin Found
    BY DEF Found, GrantSteps
  <2> QED BY <1>1, <2>2, <2>3, <2>4 DEF SourceInv, SourceOK, Engine
<1>4. CASE RentalUnfinished \/ RentalDecided \/ PollRental \/ RentalSkipped \/ Purchase
  <2>1. Settled /\ db'.purchase = db.purchase
    BY <1>4, IdleSettled DEF RentalUnfinished, RentalDecided, PollRental, RentalSkipped, Purchase
  <2>2. \/ NextRow
        \/ EngineGoto("delegate") \/ EngineGoto("blame")
        \/ EngineGoto("failRental") /\ db.purchase[cur] = "purchased"
        \/ From("rented", "bandwidth") /\ db.purchase[cur] = "delegated"
    BY <1>4 DEF RentalUnfinished, RentalDecided, PollRental, RentalSkipped, Purchase, Engine, SourceInv,
                SourceOK
  <2>3. CASE NextRow
    BY <2>1, <2>3, LeftSource DEF NextRow, Between
  <2>4. ASSUME NEW s \in {"delegate", "blame", "failRental"}, EngineGoto(s),
               s = "failRental" => db.purchase[cur] = "purchased"
        PROVE  SourceOK'
    <3>1. at'["engine"] = s /\ UNCHANGED <<cur, source, back>>
      BY <1>d, <2>4 DEF EngineGoto, Goto, engineVars
    <3>2. s \notin Found /\ s \notin GrantSteps
      BY DEF Found, GrantSteps
    <3> QED BY <2>1, <2>4, <3>1, <3>2 DEF SourceInv, SourceOK, Engine
  <2>5. CASE From("rented", "bandwidth") /\ db.purchase[cur] = "delegated"
    <3>1. at'["engine"] = "bandwidth" /\ source' = "rented" /\ cur' = cur
      BY <1>d, <2>5 DEF From, Goto
    <3>2. "bandwidth" \notin GrantSteps
      BY DEF GrantSteps
    <3> QED BY <1>1, <2>1, <2>5, <3>1, <3>2 DEF SourceOK, Engine
  <2> QED BY <2>1, <2>2, <2>3, <2>4, <2>5
<1> QED BY <1>2, <1>3, <1>4 DEF Rents

\* What the account has, then energy, then bandwidth.
LEMMA AcquiresSource ==
  ASSUME SourceInv, WorkersOK, TablesOK, Acquires
  PROVE  Settled /\ SourceOK'
<1>1. cur \in Withdrawals
  BY DEF Acquires, Read, AwaitEnergy, HasEnergy, HasGrantedEnergy, ConfirmEnergy, DelegateEnergy,
         GrantBandwidth, Ensure, Burn, BurnRefused, HasBandwidth, BurnBandwidth, ConfirmBandwidth,
         AwaitBandwidth, NoteSources, BandwidthUnavailable, Sign, Engine, MidSteps, WorkersOK
<1>d. /\ DOMAIN db = {"withdrawal", "purchase", "grant", "failures"}
      /\ DOMAIN at = Workers /\ "engine" \in Workers
  BY DEF TablesOK, Database, WorkersOK, Workers
<1>n. /\ \A s \in {"energy", "rent", "existing", "burn"} : s \notin Found /\ s \notin GrantSteps
      /\ \A s \in {"bandwidth", "spare", "sign", "delegateBandwidth", "fail", "unavailable"} :
           s \notin GrantSteps
      /\ \A s \in {"start", "reconcile"} : s \notin Found
      /\ "existing" \notin FoundBacks /\ "burn" \notin FoundBacks
  BY DEF Found, GrantSteps, FoundBacks
<1>o. at["engine"] \in Found => source # ""
  BY DEF SourceInv, SourceOK
<1>s. SourceRead = "rented" => db.purchase[cur] = "delegated"
  BY DEF SourceRead, SourceInv, SourceOK
\* It goes on with what it has.
<1>2. ASSUME Settled, NEW s, at' = [at EXCEPT !["engine"] = s], UNCHANGED <<cur, source>>,
             \/ s \in {"energy", "rent", "existing", "burn"}
             \/ s \in {"bandwidth", "spare", "sign", "delegateBandwidth", "fail", "unavailable"}
                /\ source # ""
             \/ s \in {"start", "reconcile"} /\ (back' \in FoundBacks => source # "")
      PROVE  SourceOK'
  BY <1>2, <1>n, OnSource
\* It sets energySource.
<1>3. ASSUME Settled, db'.purchase = db.purchase, NEW s, NEW src,
             at' = [at EXCEPT !["engine"] = s], cur' = cur, source' = src,
             src = "rented" => db.purchase[cur] = "delegated",
             s \in {"energy", "rent"} \/ (s = "bandwidth" /\ src # "")
      PROVE  SourceOK'
  <2>1. at'["engine"] = s
    BY <1>3, <1>d
  <2> QED BY <1>1, <1>3, <1>n, <2>1 DEF SourceOK, Engine
<1>4. UNCHANGED storeVars => Settled /\ db'.purchase = db.purchase
  BY IdleSettled
<1>5. ASSUME NEW energy, NEW bandwidth, Read(energy, bandwidth)
      PROVE  Settled /\ SourceOK'
  <2>1. /\ at' = [at EXCEPT !["engine"] = "energy"] /\ cur' = cur
        /\ source' = db.withdrawal[cur].source /\ UNCHANGED storeVars
    BY <1>5 DEF Read, Goto
  <2>2. db.withdrawal[cur].source = "rented" => db.purchase[cur] = "delegated"
    BY <1>1 DEF SourceInv, Sourced
  <2> QED BY <1>3, <1>4, <2>1, <2>2
<1>6. CASE AwaitEnergy
  <2>1. Settled /\ db'.purchase = db.purchase
    <3>1. UNCHANGED storeVars \/ Commit(SetStatus("awaiting_energy", ""))
      BY <1>6 DEF AwaitEnergy
    <3> QED BY <1>1, <1>4, <3>1, StatusSettled
  <2>2. \/ NextRow
        \/ at' = [at EXCEPT !["engine"] = "rent"] /\ cur' = cur /\ source' = SourceRead
    BY <1>6 DEF AwaitEnergy, Goto
  <2>3. CASE NextRow
    BY <1>1, <2>1, <2>3, LeftSource DEF NextRow, Between
  <2>4. CASE at' = [at EXCEPT !["engine"] = "rent"] /\ cur' = cur /\ source' = SourceRead
    BY <1>3, <1>s, <2>1, <2>4
  <2> QED BY <2>2, <2>3, <2>4
<1>7. CASE HasEnergy \/ Burn
  <2>1. UNCHANGED storeVars
    BY <1>7 DEF HasEnergy, Burn
  <2>2. PICK src : /\ From(src, "bandwidth") /\ src # ""
                   /\ src = "rented" => db.purchase[cur] = "delegated"
    BY <1>7, <1>s DEF HasEnergy, Burn
  <2>3. at' = [at EXCEPT !["engine"] = "bandwidth"] /\ cur' = cur /\ source' = src
    BY <2>2 DEF From, Goto
  <2> QED BY <1>3, <1>4, <2>1, <2>2, <2>3
<1>8. CASE HasGrantedEnergy
  <2>1. PICK s \in {"reconcile", "existing"} : TakeGrant(EnergyGrant, s, "existing")
    BY <1>8 DEF HasGrantedEnergy
  <2>2. /\ at' = [at EXCEPT !["engine"] = s] /\ back' = "existing" /\ UNCHANGED <<cur, source>>
        /\ UNCHANGED storeVars
    BY <1>8, <2>1 DEF TakeGrant, HasGrantedEnergy
  <2> QED BY <1>2, <1>4, <1>n, <2>2
<1>9. CASE ConfirmEnergy \/ ConfirmBandwidth
  <2>1. PICK g : Commit(ConfirmGrant(g))
    BY <1>9 DEF ConfirmEnergy, ConfirmBandwidth
  <2>2. ConfirmGrant(g).withdrawal = db.withdrawal /\ ConfirmGrant(g).purchase = db.purchase
    BY <1>d DEF ConfirmGrant
  <2>3. Settled /\ db'.purchase = db.purchase
    BY <2>1, <2>2, ApartSettled
  <2>4. CASE ConfirmEnergy
    <3>1. /\ at' = [at EXCEPT !["engine"] = "bandwidth"] /\ cur' = cur
          /\ source' = "self_delegated"
      BY <2>4 DEF ConfirmEnergy, From, Goto
    <3>2. "self_delegated" # "rented" /\ "self_delegated" # ""
      OBVIOUS
    <3>3. SourceOK'
      BY <1>3, <2>3, <3>1, <3>2
    <3> QED BY <2>3, <3>3
  <2>5. CASE ConfirmBandwidth
    <3>1. at' = [at EXCEPT !["engine"] = "sign"] /\ UNCHANGED <<cur, source>> /\ source # ""
      BY <1>o, <2>5 DEF ConfirmBandwidth, EngineGoto, Goto, engineVars, Engine, Found
    <3> QED BY <1>2, <2>3, <3>1
  <2> QED BY <1>9, <2>4, <2>5
<1>10. ASSUME NEW g, NEW s, NEW b \in {"burn", "unavailable"}, Ensure(g, s, b),
              b = "unavailable" => source # ""
       PROVE  Settled /\ SourceOK'
  <2>1. Settled
    <3>1. UNCHANGED storeVars \/ Commit([db EXCEPT !.grant[g] = NewGrant])
      BY <1>10 DEF Ensure
    <3> DEFINE e == [db EXCEPT !.grant[g] = NewGrant]
    <3>2. e.withdrawal = db.withdrawal /\ e.purchase = db.purchase
      BY <1>d
    <3> QED BY <1>4, <3>1, <3>2, ApartSettled
  <2>2. PICK t \in {"start", b, "reconcile"} : \E f : TakeGrant(f, t, b)
    BY <1>10 DEF Ensure
  <2>3. /\ at' = [at EXCEPT !["engine"] = t] /\ back' = b /\ UNCHANGED <<cur, source>>
    BY <2>2 DEF TakeGrant
  <2> QED BY <1>2, <1>10, <1>n, <2>1, <2>3
<1>11. CASE DelegateEnergy \/ GrantBandwidth
  <2>1. \/ Ensure(EnergyGrant, "delegate", "burn")
        \/ Ensure(BandwidthGrant, "delegateBandwidth", "unavailable") /\ source # ""
    BY <1>11, <1>o DEF DelegateEnergy, GrantBandwidth, Ensure, Engine, Found
  <2> QED BY <1>10, <2>1
<1>12. CASE HasBandwidth \/ BurnBandwidth
  <2>1. UNCHANGED storeVars /\ source # ""
    BY <1>12, <1>o DEF HasBandwidth, BurnBandwidth, Engine, Found
  <2>2. PICK s \in {"reconcile", "spare", "sign"} :
          at' = [at EXCEPT !["engine"] = s] /\ UNCHANGED <<cur, source>>
    BY <1>12 DEF HasBandwidth, BurnBandwidth, TakeGrant, EngineGoto, Goto, engineVars
  <2> QED BY <1>2, <1>4, <2>1, <2>2
<1>13. CASE AwaitBandwidth
  <2>1. source # ""
    BY <1>13, <1>o DEF AwaitBandwidth, Engine, Found
  <2>2. Settled
    <3>1. UNCHANGED storeVars \/ Commit(SetStatus("awaiting_resources", source))
      BY <1>13 DEF AwaitBandwidth
    <3> QED BY <1>1, <1>4, <3>1, StatusSettled
  <2>3. \/ NextRow
        \/ at' = [at EXCEPT !["engine"] = "delegateBandwidth"] /\ UNCHANGED <<cur, source>>
    BY <1>13 DEF AwaitBandwidth, Goto
  <2> QED BY <1>2, <2>1, <2>2, <2>3, LeftSource DEF NextRow, Between
<1>14. CASE NoteSources \/ Sign
  <2>1. source # ""
    BY <1>14, <1>o DEF NoteSources, Sign, Engine, Found
  <2>2. \E s : Commit(SetStatus(s, source))
    BY <1>14 DEF NoteSources, Sign
  <2>3. Settled
    BY <1>1, <2>1, <2>2, StatusSettled
  <2>4. \/ NextRow
        \/ at' = [at EXCEPT !["engine"] = "fail"] /\ UNCHANGED <<cur, source>>
    BY <1>14 DEF NoteSources, Sign, EngineGoto, Goto, engineVars
  <2> QED BY <1>2, <2>1, <2>3, <2>4, LeftSource DEF NextRow, Between
<1>15. CASE BurnRefused \/ BandwidthUnavailable
  <2>1. Commit(FailResources(cur)) /\ NextRow
    BY <1>15 DEF BurnRefused, BandwidthUnavailable
  <2> QED BY <2>1, ClosedSettled, LeftSource DEF NextRow, Between
<1> QED BY <1>5, <1>6, <1>7, <1>8, <1>9, <1>11, <1>12, <1>13, <1>14, <1>15 DEF Acquires

\* The API's request, the errors, a crash, the chain and the clocks.
LEMMA OthersSource ==
  ASSUME SourceInv, WorkersOK, TablesOK,
         \/ \E g \in ManualGrants : RequestDelegation(g)
         \/ \E g \in Grants : Land(g) \/ Expire(g)
         \/ \E w \in Withdrawals : Lapse(w)
         \/ CloseCircuit
         \/ \E p \in Workers : Abort(p)
         \/ Crash
         \/ UNCHANGED vars
  PROVE  Settled /\ SourceOK'
<1>d. /\ DOMAIN db = {"withdrawal", "purchase", "grant", "failures"}
      /\ DOMAIN at = Workers /\ Workers = {"engine", "api"}
  BY DEF TablesOK, Database, WorkersOK, Workers
<1>1. ASSUME NEW g \in ManualGrants, RequestDelegation(g)
      PROVE  Settled /\ SourceOK'
  <2> DEFINE e == [db EXCEPT !.grant[g] = NewGrant]
  <2>1. Commit(e) /\ e.withdrawal = db.withdrawal /\ e.purchase = db.purchase
    BY <1>1, <1>d DEF RequestDelegation
  <2>2. at'["engine"] = at["engine"] /\ UNCHANGED <<cur, source, back>>
    BY <1>1, <1>d DEF RequestDelegation, engineVars
  <2> HIDE DEF e
  <2> QED BY <2>1, <2>2, ApartSettled, StillSource
<1>2. CASE \/ \E g \in Grants : Land(g) \/ Expire(g)
           \/ \E w \in Withdrawals : Lapse(w)
           \/ CloseCircuit \/ Abort("api") \/ UNCHANGED vars
  <2>1. UNCHANGED storeVars /\ at'["engine"] = at["engine"] /\ UNCHANGED <<cur, source, back>>
    BY <1>2, <1>d DEF Land, NetBecomes, Expire, Lapse, World, CloseCircuit, Abort, Stop, engineVars,
                      stepVars, vars
  <2> QED BY <2>1, IdleSettled, StillSource
<1>3. CASE Abort("engine")
  <2>1. UNCHANGED storeVars /\ Leave("idle")
    BY <1>3 DEF Abort, Stop
  <2> QED BY <2>1, IdleSettled, LeftSource DEF Between
<1>4. CASE Crash
  <2>1. UNCHANGED storeVars /\ at'["engine"] = "idle" /\ source' = ""
    BY <1>4, <1>d DEF Crash, Restart
  <2> QED BY <2>1, IdleSettled DEF SourceOK, Engine, Found, GrantSteps
<1> QED BY <1>1, <1>2, <1>3, <1>4, <1>d

\* Every step keeps the sources; a power loss goes back to those on disk.
LEMMA SourceStep ==
  SourceInv /\ BurnInv /\ WorkersOK /\ TablesOK /\ [Next]_vars => SourceInv'
<1> SUFFICES ASSUME SourceInv, BurnInv, WorkersOK, TablesOK, [Next]_vars PROVE SourceInv'
  OBVIOUS
<1>1. CASE PowerLoss
  <2>1. db' = durable /\ durable' = durable /\ at'["engine"] = "idle" /\ source' = ""
    BY <1>1 DEF PowerLoss, Restart, Workers
  <2> QED BY <2>1 DEF SourceInv, SourceOK, Engine, Found, GrantSteps
<1>2. CASE ~PowerLoss
  <2>1. Settled /\ SourceOK'
    BY <1>2, DelegatesSource, ReconcilesSource, WalksSource, RentsSource, AcquiresSource, OthersSource
       DEF Next, EngineStep, Workers
  <2>2. Sourced(db') /\ Sourced(durable')
    BY <2>1, SettledSources
  <2> QED BY <2>1, <2>2 DEF SourceInv
<1> QED BY <1>1, <1>2

\* WDR-009d: a withdrawal is signed with the source of its energy on its row, and one
\* whose row says `rented` has an order that the market, or the account, has shown to be
\* delivered: never one that was only quoted or paid for, or that failed.
SignedOnSource ==
  \A w \in Withdrawals :
    /\ db.withdrawal[w].status = "signing" => db.withdrawal[w].source # ""
    /\ db.withdrawal[w].source = "rented" => db.purchase[w] = "delegated"

\* The row of a withdrawal and that of its rental agree, in every reachable state: whatever
\* aborted ticks, restarts and power losses lie between the commits that write them.
THEOREM SourcesAreNoted == Spec => []SignedOnSource
<1>1. Init => SourceInv
  <2> SUFFICES ASSUME Init PROVE SourceInv
    OBVIOUS
  <2>1. \A w \in Withdrawals : /\ db.withdrawal[w].status = "awaiting_resources"
                              /\ db.withdrawal[w].source = ""
    BY DEF Init
  <2>2. durable = db /\ at["engine"] = "idle" /\ source = ""
    BY DEF Init, Workers
  <2>3. Sourced(db)
    BY <2>1 DEF Sourced
  <2>4. SourceOK
    BY <2>2 DEF SourceOK, Engine, Found, GrantSteps
  <2> QED BY <2>2, <2>3, <2>4 DEF SourceInv
<1>2. SourceInv => SignedOnSource
  BY DEF SourceInv, Sourced, SignedOnSource
<1> QED BY <1>1, <1>2, SourceStep, BurnInvariant, TypesInvariant, PTL DEF Spec
=============================================================================
