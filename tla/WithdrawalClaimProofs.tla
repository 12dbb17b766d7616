----------------------- MODULE WithdrawalClaimProofs ------------------------
(***************************************************************************)
(* Which requests of the module Withdrawal are claimed, and when: nothing  *)
(* before startup recovery and over an unsigned row, and one row of an     *)
(* address in flight for as long as the process has not restarted.         *)
(***************************************************************************)
EXTENDS WithdrawalProofs

\* A row left in signing without an attempt (WDR-018b).
Unsigned(v) == db[v].status = "signing" /\ ~db[v].txid

\* Startup recovery comes first, and each recovery has every unsigned row on its list.
RecoveryFirst ==
  /\ phase \in {"awaiting", "claim"} => ~boot
  /\ phase # "idle" => \A v \in Rows : Unsigned(v) =>
       (phase = "recover" /\ v \in todo) \/ (step = "sign" /\ v = cur)

\* A row that is still a request, or not even that; on disk none is further on.
Unclaimed == {"none", "requested"}
Fresh == \A w \in Rows : db[w].status \in Unclaimed => durable[w].status \in Unclaimed

\* Before the first restart, what recovery looks up is in flight already.
Spent == {"signing", "broadcast"}
Looking == {"record", "resolve", "lookup", "apply"}
UpToRestart ==
  crashes = 0 =>
    /\ AddressExclusive
    /\ boot => /\ todo = {} /\ step = "pick"
               /\ \A w \in Rows : db[w].status \in {"none", "requested"}
    /\ phase = "recover" => \A v \in todo : db[v].txid => db[v].status \in Spent
    /\ step \in Looking => db[cur].status \in Spent

ClaimInv == RecoveryFirst /\ UpToRestart /\ Fresh

-----------------------------------------------------------------------------
(* What an update does to the row it writes.                                 *)

\* Row w alone is written, its txid stays, and it is in flight, or a request, only
\* if it was.
Settles(w) ==
  /\ \A v \in Rows \ {w} : db'[v] = db[v]
  /\ db'[w].txid = db[w].txid
  /\ db'[w].status = db[w].status \/ db'[w].status \notin InFlight
  /\ db'[w].status \in Unclaimed => db[w].status \in Unclaimed

\* Every column of a row is there.
LEMMA RowColumns ==
  ASSUME IInv, NEW w \in Rows
  PROVE  /\ db[w] \in Row
         /\ DOMAIN db[w] = {"status", "txid", "failures", "resolvedBy", "fee", "debited"}
BY DEF IInv, TypeOK, Row

\* The updates that decide a row, or leave it where it is.
LEMMA UpdatesSettle ==
  ASSUME IInv, NEW w \in Rows,
         db' \in {SetNeedsOperator(w), LookupFailed(w), FailAbsent(w), FailResources(w),
                  ConfirmRow(w), LookupAnswered(w, FALSE), db}
  PROVE  Settles(w)
<1>1. db \in [Rows -> Row]
  BY DEF IInv, TypeOK
<1>2. DOMAIN db[w] = {"status", "txid", "failures", "resolvedBy", "fee", "debited"}
  BY RowColumns
<1>3. CASE db' = SetNeedsOperator(w)
  BY <1>1, <1>2, <1>3 DEF SetNeedsOperator, Settles, InFlight, Awaiting, Unclaimed
<1>4. CASE db' = LookupFailed(w)
  BY <1>1, <1>2, <1>4 DEF LookupFailed, SetNeedsOperator, Settles, InFlight, Awaiting, Unclaimed
<1>5. CASE db' = FailAbsent(w)
  BY <1>1, <1>2, <1>5 DEF FailAbsent, Settles, InFlight, Awaiting, Unclaimed
<1>6. CASE db' = FailResources(w)
  BY <1>1, <1>2, <1>6 DEF FailResources, Settles, InFlight, Awaiting, Unclaimed
<1>7. CASE db' = ConfirmRow(w)
  BY <1>1, <1>2, <1>7 DEF ConfirmRow, Settles, InFlight, Awaiting, Unclaimed
<1>8. CASE db' = LookupAnswered(w, FALSE)
  BY <1>1, <1>2, <1>8 DEF LookupAnswered, Settles
<1>9. CASE db' = db
  BY <1>9 DEF Settles
<1> QED BY <1>3, <1>4, <1>5, <1>6, <1>7, <1>8, <1>9

\* An update of the status alone, to one that is not in flight.
LEMMA StatusSettles ==
  ASSUME IInv, NEW w \in Rows, NEW s, s \notin InFlight, NEW by,
         s \in Unclaimed => db[w].status \in Unclaimed,
         \/ db' = [db EXCEPT ![w].status = s]
         \/ db' = [db EXCEPT ![w].status = s, ![w].resolvedBy = by]
  PROVE  Settles(w) /\ db'[w].status = s
<1>1. db \in [Rows -> Row]
  BY DEF IInv, TypeOK
<1>2. DOMAIN db[w] = {"status", "txid", "failures", "resolvedBy", "fee", "debited"}
  BY RowColumns
<1> QED BY <1>1, <1>2 DEF Settles

\* A row that was in flight, or whose address is free, may be in flight.
LEMMA ExclusiveKept ==
  ASSUME AddressExclusive, NEW w \in Rows, \A v \in Rows \ {w} : db'[v] = db[v],
         db'[w].status \in InFlight => db[w].status \in InFlight \/ AddressFree(w)
  PROVE  AddressExclusive'
<1> SUFFICES ASSUME NEW u \in Rows, NEW v \in Rows, u # v, From[u] = From[v],
                    db'[u].status \in InFlight
             PROVE  db'[v].status \notin InFlight
  BY DEF AddressExclusive
<1>1. db[u].status \in InFlight => db[v].status \notin InFlight
  BY DEF AddressExclusive
<1>2. db[v].status \in InFlight => db[u].status \notin InFlight
  BY DEF AddressExclusive
<1>3. CASE u = w
  BY <1>1, <1>3 DEF AddressFree
<1>4. CASE v = w
  BY <1>2, <1>4 DEF AddressFree
<1> QED BY <1>1, <1>3, <1>4

-----------------------------------------------------------------------------
(* Recovery first.                                                           *)

\* A step keeps RecoveryFirst if no row becomes unsigned, and none is forgotten.
LEMMA NoneForgotten ==
  ASSUME RecoveryFirst, boot' = boot, phase' \in {phase, "idle"},
         \A v \in Rows : Unsigned(v)' /\ phase' # "idle" =>
           /\ Unsigned(v) /\ (v \in todo => v \in todo')
           /\ step = "sign" /\ v = cur => step' = "sign" /\ cur' = v
  PROVE  RecoveryFirst'
BY DEF RecoveryFirst

\* A row that is settled does not become unsigned.
LEMMA SettledSigned ==
  ASSUME NEW w \in Rows, Settles(w)
  PROVE  \A v \in Rows : Unsigned(v)' => Unsigned(v)
BY DEF Settles, Unsigned, InFlight

\* The walk of recover and of the waiting rows.
LEMMA WalkFirst ==
  ASSUME IInv, RecoveryFirst,
         \/ BeginRecovery \/ EndRecovery \/ EndAwaiting \/ ClaimNone
         \/ \E w \in Rows : Recover(w) \/ AcquireNext(w)
  PROVE  RecoveryFirst'
<1>1. CASE BeginRecovery
  BY <1>1 DEF BeginRecovery, RecoveryFirst, Unsigned, Recoverable, storeVars
<1>2. CASE EndRecovery
  BY <1>2 DEF EndRecovery, At, RecoveryFirst, Unsigned, storeVars
<1>3. CASE EndAwaiting
  BY <1>3 DEF EndAwaiting, At, RecoveryFirst, Unsigned, storeVars
<1>4. CASE ClaimNone
  BY <1>4 DEF ClaimNone, EndTick, RecoveryFirst
<1>5. ASSUME NEW w \in Rows, RecoverUnsigned(w)
      PROVE  RecoveryFirst'
  <2>1. db' = SetNeedsOperator(w) /\ db \in [Rows -> Row] /\ db[w].status = "signing"
    BY <1>5 DEF RecoverUnsigned, Commit, IInv, TypeOK
  <2>2. db'[w].status = "needs_operator" /\ \A v \in Rows \ {w} : db'[v] = db[v]
    BY <2>1, RowColumns DEF SetNeedsOperator
  <2>3. boot' = boot /\ phase' = phase /\ step' = step /\ cur' = cur /\ todo' = todo \ {w}
    BY <1>5 DEF RecoverUnsigned
  <2> QED BY <2>2, <2>3, NoneForgotten DEF Unsigned
<1>6. ASSUME NEW w \in Rows,
             RecoverAwaiting(w) \/ RecoverSkip(w) \/ RecoverResolve(w) \/ AcquireNext(w)
      PROVE  RecoveryFirst'
  <2>1. db' = db /\ boot' = boot /\ phase' = phase /\ todo' = todo \ {w} /\ step = "pick"
    BY <1>6 DEF RecoverAwaiting, RecoverSkip, RecoverResolve, AcquireNext, RecoverNext, At, TakeUp,
           storeVars
  <2>2. ~Unsigned(w)
    BY <1>6 DEF RecoverAwaiting, RecoverSkip, RecoverResolve, AcquireNext, At, Oldest, Unsigned,
           IInv, EngineOK, Awaiting
  <2> QED BY <2>1, <2>2, NoneForgotten DEF Unsigned
<1> QED BY <1>1, <1>2, <1>3, <1>4, <1>5, <1>6 DEF Recover

\* Claiming, with no unsigned row left to claim over.
LEMMA ClaimFirst ==
  ASSUME IInv, RecoveryFirst, NEW w \in Rows, Claim(w)
  PROVE  RecoveryFirst'
<1>1. /\ step = "pick" /\ db \in [Rows -> Row] /\ boot' = boot
      /\ phase' \in {phase, "idle"} /\ phase = "claim"
  BY DEF Claim, ClaimGranted, ClaimRejected, ClaimWaits, ClaimNext, At, EndTick, IInv, TypeOK
<1>2. \A v \in Rows : Unsigned(v)' => Unsigned(v)
  BY <1>1, RowColumns DEF Claim, ClaimGranted, ClaimRejected, ClaimWaits, Commit, Unsigned, storeVars
<1> QED BY <1>1, <1>2, NoneForgotten DEF RecoveryFirst

\* A row in hand that is being finished is not unsigned, and no other row is in hand.
LEMMA FinishedFirst ==
  ASSUME RecoveryFirst, Finish,
         \A v \in Rows : Unsigned(v)' => Unsigned(v) /\ (step = "sign" => v # cur)
  PROVE  RecoveryFirst'
BY NoneForgotten DEF Finish

\* Acquiring, signing, broadcasting and looking up the row in hand.
LEMMA HandFirst ==
  ASSUME IInv, RecoveryFirst, Acquire \/ SignAndBroadcast \/ Resolve
  PROVE  RecoveryFirst'
<1>1. /\ cur \in Rows /\ db \in [Rows -> Row]
      /\ step = "acquire" => db[cur].status \in Awaiting
      /\ step \in {"sign", "send"} => db[cur].status = "signing"
      /\ step \in Looking => db[cur].txid
  BY DEF Acquire, AcquirePending, AcquireFails, AcquireUnclear, AcquireReady, SignAndBroadcast,
     SignPersists, SignFails, Send, Record, Resolve, ReadClock, Lookup, LookupErrs, ApplyAbsent,
     ApplyFound, ReceiptMissing, ReceiptSolid, IInv, EngineOK, TypeOK, Looking
<1>2. DOMAIN db[cur] = {"status", "txid", "failures", "resolvedBy", "fee", "debited"}
  BY <1>1, RowColumns
<1>3. ASSUME NEW s \in Awaiting, AcquirePending(s)
      PROVE  RecoveryFirst'
  <2>1. db' = [db EXCEPT ![cur].status = s]
    BY <1>3 DEF AcquirePending, Commit
  <2>2. \A v \in Rows : Unsigned(v)' => Unsigned(v)
    BY <1>1, <1>2, <2>1 DEF Unsigned, Awaiting
  <2> QED BY <1>3, <2>2, FinishedFirst DEF AcquirePending
<1>4. CASE AcquireFails \/ AcquireUnclear
  <2>1. Settles(cur)
    BY <1>1, <1>4, UpdatesSettle DEF AcquireFails, AcquireUnclear, Commit
  <2> QED BY <1>4, <2>1, SettledSigned, FinishedFirst, <1>1 DEF AcquireFails, AcquireUnclear
<1>5. CASE AcquireReady
  <2>1. db' = [db EXCEPT ![cur].status = "signing"] /\ step' = "sign"
        /\ UNCHANGED <<boot, phase, todo, cur>> /\ step = "acquire"
    BY <1>5 DEF AcquireReady, Commit, Goto
  <2>2. \A v \in Rows : Unsigned(v)' => Unsigned(v) \/ v = cur
    BY <1>1, <1>2, <2>1 DEF Unsigned
  <2> QED BY <2>1, <2>2 DEF RecoveryFirst
<1>6. CASE SignPersists
  <2>1. db' = [db EXCEPT ![cur].txid = TRUE] /\ UNCHANGED <<boot, phase, todo, cur>>
    BY <1>6 DEF SignPersists, CommitFull, Goto
  <2>2. \A v \in Rows : Unsigned(v)' => Unsigned(v) /\ v # cur
    BY <1>1, <1>2, <2>1 DEF Unsigned
  <2> QED BY <2>1, <2>2, NoneForgotten
<1>7. CASE SignFails
  <2>1. db' = [db EXCEPT ![cur].status = "needs_operator"]
    BY <1>1, <1>7 DEF SignFails, Commit, SetNeedsOperator
  <2>2. \A v \in Rows : Unsigned(v)' => Unsigned(v) /\ v # cur
    BY <1>1, <1>2, <2>1 DEF Unsigned
  <2> QED BY <1>7, <2>2, FinishedFirst DEF SignFails
<1>8. ASSUME NEW answer, Send(answer)
      PROVE  RecoveryFirst'
  BY <1>8, NoneForgotten DEF Send, Unsigned, storeVars
<1>9. CASE Record
  <2>1. db' = RecordSent(cur) /\ step = "record"
    BY <1>9 DEF Record, CommitFull
  <2>2. \A v \in Rows : Unsigned(v)' => Unsigned(v)
    BY <1>1, <1>2, <2>1 DEF Unsigned, RecordSent
  <2>3. CASE code
    BY <1>9, <2>1, <2>2, <2>3, NoneForgotten DEF Record, Goto
  <2>4. CASE ~code
    BY <1>9, <2>1, <2>2, <2>4, FinishedFirst DEF Record
  <2> QED BY <2>3, <2>4
<1>10. CASE ReadClock \/ Lookup
  BY <1>10, NoneForgotten DEF ReadClock, Lookup, Unsigned, storeVars
<1>11. CASE LookupErrs \/ ReceiptMissing \/ ReceiptSolid
  <2>1. Settles(cur)
    BY <1>1, <1>11, UpdatesSettle DEF LookupErrs, ReceiptMissing, ReceiptSolid, Commit, storeVars
  <2> QED BY <1>11, <2>1, <1>1, SettledSigned, FinishedFirst DEF LookupErrs, ReceiptMissing, ReceiptSolid
<1>12. CASE ApplyAbsent
  <2>1. Settles(cur)
    BY <1>1, <1>12, UpdatesSettle DEF ApplyAbsent, Commit
  <2> QED BY <1>12, <2>1, <1>1, SettledSigned, FinishedFirst DEF ApplyAbsent
<1>13. CASE ApplyFound
  <2>1. db' = LookupAnswered(cur, TRUE) /\ step = "apply"
    BY <1>13 DEF ApplyFound, Commit
  <2>2. \A v \in Rows : Unsigned(v)' => Unsigned(v)
    BY <1>1, <1>2, <2>1 DEF Unsigned, LookupAnswered
  <2> QED BY <1>13, <2>1, <2>2, NoneForgotten DEF ApplyFound, Goto
<1> QED BY <1>3, <1>4, <1>5, <1>6, <1>7, <1>8, <1>9, <1>10, <1>11, <1>12, <1>13
        DEF Acquire, SignAndBroadcast, Resolve

\* Requests, operators and the chain.
LEMMA OthersFirst ==
  ASSUME IInv, RecoveryFirst, Operators \/ Chain
  PROVE  RecoveryFirst'
<1>1. UNCHANGED engineVars
  BY DEF Operators, Create, OperatorResolves, Chain, Land, Solidify, Reorg, TxBecomes, ChainExpires,
     HostExpires, IngestPayout, DriftChanges
<1>2. \A v \in Rows : Unsigned(v)' => Unsigned(v)
  <2>1. ASSUME NEW w \in Rows, Create(w)
        PROVE  Settles(w)
    BY <2>1, StatusSettles DEF Create, Commit, InFlight, Awaiting, Oldest, RowsIn, Unclaimed
  <2>2. ASSUME NEW w \in Rows, NEW o \in {"confirmed", "failed"}, OperatorResolves(w, o)
        PROVE  Settles(w)
    BY <2>2, StatusSettles DEF OperatorResolves, Commit, InFlight, Awaiting, Unclaimed
  <2>3. ASSUME NEW w \in Rows, IngestPayout(w)
        PROVE  Settles(w)
    <3>1. db' = [db EXCEPT ![w].debited = TRUE] /\ db \in [Rows -> Row]
      BY <2>3 DEF IngestPayout, Commit, IInv, TypeOK
    <3> QED BY <3>1, RowColumns DEF Settles
  <2>4. ASSUME NEW w \in Rows,
               Land(w) \/ Solidify(w) \/ Reorg(w) \/ ChainExpires(w) \/ HostExpires(w)
        PROVE  db' = db
    BY <2>4 DEF Land, Solidify, Reorg, TxBecomes, ChainExpires, HostExpires, storeVars
  <2>5. ASSUME NEW a \in DriftAddresses, DriftChanges(a)
        PROVE  db' = db
    BY <2>5 DEF DriftChanges
  <2>6. db' = db => \A v \in Rows : Unsigned(v)' => Unsigned(v)
    BY DEF Unsigned
  <2> QED BY <2>1, <2>2, <2>3, <2>4, <2>5, <2>6, SettledSigned DEF Operators, Chain
<1> QED BY <1>1, <1>2, NoneForgotten DEF engineVars

\* Every step keeps RecoveryFirst.
LEMMA FirstKept ==
  ASSUME IInv, RecoveryFirst, [Next]_vars
  PROVE  RecoveryFirst'
<1>1. CASE Engine
  BY <1>1, WalkFirst, ClaimFirst, HandFirst DEF Engine
<1>2. CASE Operators \/ Chain
  BY <1>2, OthersFirst
<1>3. CASE Abort \/ Crash \/ PowerLoss
  BY <1>3 DEF Abort, Crash, PowerLoss, ResetEngine, RecoveryFirst
<1>4. CASE UNCHANGED vars
  BY <1>4, NoneForgotten DEF vars, storeVars, engineVars, Unsigned
<1> QED BY <1>1, <1>2, <1>3, <1>4 DEF Next

-----------------------------------------------------------------------------
(* One row of an address, until the first restart.                           *)

\* What a step that writes row w alone must leave, while nothing has crashed.
LEMMA RowWritten ==
  ASSUME IInv, UpToRestart, crashes' = crashes, NEW w \in Rows,
         \A v \in Rows \ {w} : db'[v] = db[v],
         crashes = 0 =>
           /\ db'[w].status \in InFlight => db[w].status \in InFlight \/ AddressFree(w)
           /\ boot' => /\ boot /\ todo' = {} /\ step' = "pick"
                       /\ db'[w].status \in {"none", "requested"}
           /\ phase' = "recover" =>
                /\ phase = "recover" /\ todo' \subseteq todo
                /\ w \in todo' /\ db'[w].txid => db'[w].status \in Spent
           /\ step' \in Looking => db'[cur'].status \in Spent
  PROVE  UpToRestart'
<1> SUFFICES ASSUME crashes = 0
             PROVE  UpToRestart'
  BY DEF UpToRestart
<1>1. AddressExclusive'
  BY ExclusiveKept DEF UpToRestart
<1>2. phase' = "recover" => \A v \in Rows : v \in todo' /\ db'[v].txid => db'[v].status \in Spent
  BY DEF UpToRestart
<1>3. boot' => \A v \in Rows : db'[v].status \in {"none", "requested"}
  BY DEF UpToRestart
<1>4. phase' = "recover" => \A v \in todo' : db'[v].txid => db'[v].status \in Spent
  BY <1>2 DEF IInv, TypeOK
<1> QED BY <1>1, <1>3, <1>4 DEF UpToRestart

\* The engine has nothing in hand and nothing to do before startup recovery is over.
LEMMA BootIdle ==
  ASSUME UpToRestart, crashes = 0, step # "pick" \/ todo # {}
  PROVE  ~boot
BY DEF UpToRestart

\* The walk of recover and of the waiting rows.
LEMMA WalkExclusive ==
  ASSUME IInv, UpToRestart,
         \/ BeginRecovery \/ EndRecovery \/ EndAwaiting \/ ClaimNone
         \/ \E w \in Rows : Recover(w) \/ AcquireNext(w)
  PROVE  UpToRestart'
<1>0. /\ db \in [Rows -> Row] /\ todo \subseteq Rows
      /\ \A w \in Rows : db[w].txid =>
           db[w].status \notin {"none", "requested", "rejected"} \cup Awaiting
  BY DEF IInv, TypeOK, TableOK, RowOK
<1>1. CASE BeginRecovery
  <2>1. UNCHANGED <<db, boot, step, cur, crashes>> /\ phase = "idle"
    BY <1>1 DEF BeginRecovery, storeVars, faultVars
  <2>2. PICK aged \in SUBSET RowsIn(Awaiting) : todo' = {w \in Rows : Recoverable(w)} \cup aged
    BY <1>1 DEF BeginRecovery
  <2>3. SUFFICES ASSUME crashes = 0 PROVE UpToRestart'
    BY <2>1 DEF UpToRestart
  <2>4. CASE boot
    <3>1. \A w \in Rows : db[w].status \in {"none", "requested"} /\ ~db[w].txid
      BY <1>0, <2>3, <2>4 DEF UpToRestart
    <3>2. RowsIn(Awaiting) = {} /\ \A w \in Rows : ~Recoverable(w)
      BY <3>1 DEF RowsIn, Awaiting, Recoverable
    <3>3. todo' = {}
      BY <2>2, <3>2
    <3> QED BY <2>1, <2>3, <3>1, <3>3 DEF UpToRestart, AddressExclusive
  <2>5. CASE ~boot
    <3>1. ASSUME NEW v \in todo', db[v].txid
          PROVE  db[v].status \in Spent
      <4>1. v \in Rows
        BY <2>2 DEF RowsIn
      <4>2. db[v].status \notin {"none", "requested", "rejected"} \cup Awaiting
        BY <1>0, <3>1, <4>1
      <4>3. db[v].status \notin {"confirmed", "failed", "needs_operator"}
        BY <2>2, <2>5, <3>1, <4>2 DEF RowsIn, Recoverable
      <4>4. db[v].status \in Statuses
        BY <1>0, <4>1 DEF Row
      <4> QED BY <4>2, <4>3, <4>4 DEF Statuses, Counted, InFlight, Spent
    <3> QED BY <2>1, <2>3, <2>5, <3>1 DEF UpToRestart, AddressExclusive
  <2> QED BY <2>4, <2>5
<1>2. CASE EndRecovery \/ EndAwaiting \/ ClaimNone
  BY <1>2 DEF EndRecovery, EndAwaiting, ClaimNone, EndTick, At, storeVars, faultVars, UpToRestart,
     AddressExclusive, IInv, EngineOK
<1>3. ASSUME NEW w \in Rows, RecoverUnsigned(w)
      PROVE  UpToRestart'
  <2>1. Settles(w) /\ UNCHANGED <<boot, phase, step, cur, crashes>> /\ todo' = todo \ {w} /\ w \in todo
        /\ step = "pick"
    BY <1>3, UpdatesSettle DEF RecoverUnsigned, RecoverNext, At, Oldest, Commit, faultVars
  <2>2. crashes = 0 => ~boot
    BY <2>1, BootIdle
  <2> QED BY <2>1, <2>2, RowWritten DEF Settles, Looking
<1>4. ASSUME NEW w \in Rows, RecoverAwaiting(w) \/ RecoverSkip(w) \/ AcquireNext(w)
      PROVE  UpToRestart'
  <2>1. /\ db' = db /\ UNCHANGED <<boot, phase, crashes>> /\ todo' = todo \ {w} /\ w \in todo
        /\ step' \in {"pick", "acquire"}
    BY <1>4 DEF RecoverAwaiting, RecoverSkip, AcquireNext, RecoverNext, At, TakeUp, Oldest, storeVars,
           faultVars
  <2>2. crashes = 0 => ~boot
    BY <2>1, BootIdle
  <2> QED BY <2>1, <2>2, RowWritten DEF Looking
<1>5. ASSUME NEW w \in Rows, RecoverResolve(w)
      PROVE  UpToRestart'
  <2>1. /\ db' = db /\ UNCHANGED <<boot, phase, crashes>> /\ todo' = todo \ {w} /\ w \in todo
        /\ cur' = w /\ db[w].txid /\ phase = "recover"
    BY <1>5 DEF RecoverResolve, RecoverNext, At, TakeUp, Oldest, storeVars, faultVars
  <2>2. crashes = 0 => ~boot
    BY <2>1, BootIdle
  <2>3. crashes = 0 => db[w].status \in Spent
    BY <2>1 DEF UpToRestart
  <2> QED BY <2>1, <2>2, <2>3, RowWritten
<1> QED BY <1>1, <1>2, <1>3, <1>4, <1>5 DEF Recover

\* A request that cannot be funded is over.
LEMMA RejectedSettles ==
  ASSUME IInv, NEW w \in Rows, ClaimRejected(w)
  PROVE  Settles(w)
<1>1. db' = [db EXCEPT ![w].status = "rejected"]
  BY DEF ClaimRejected, Commit
<1>2. "rejected" \notin InFlight /\ "rejected" \notin Unclaimed
  BY DEF InFlight, Awaiting, Unclaimed
<1> QED BY <1>1, <1>2, StatusSettles

\* Claiming: the address is free.
LEMMA ClaimExclusive ==
  ASSUME IInv, RecoveryFirst, UpToRestart, NEW w \in Rows, Claim(w)
  PROVE  UpToRestart'
<1>1. /\ step = "pick" /\ phase = "claim" /\ phase' \in {"claim", "idle"} /\ boot' = boot /\ ~boot
      /\ crashes' = crashes /\ db \in [Rows -> Row] /\ step' \in {"pick", "acquire"}
  BY DEF Claim, ClaimGranted, ClaimRejected, ClaimWaits, ClaimNext, At, EndTick, TakeUp, faultVars,
     RecoveryFirst, IInv, TypeOK
<1>2. CASE ClaimGranted(w)
  <2>1. db' = [db EXCEPT ![w].status = "awaiting_resources"] /\ AddressFree(w)
    BY <1>2 DEF ClaimGranted, Commit
  <2> QED BY <1>1, <2>1, RowWritten DEF Looking
<1>3. CASE ClaimRejected(w)
  <2>1. Settles(w)
    BY <1>3, RejectedSettles
  <2> QED BY <1>1, <2>1, RowWritten DEF Settles, Looking
<1>4. CASE ClaimWaits(w)
  <2>1. db' = db
    BY <1>4 DEF ClaimWaits, storeVars
  <2> QED BY <1>1, <2>1, RowWritten DEF Looking
<1> QED BY <1>2, <1>3, <1>4 DEF Claim

\* The row in hand is written, and was in flight if it is now.
LEMMA HandWritten ==
  ASSUME IInv, UpToRestart, step # "pick", crashes' = crashes, boot' = boot, todo' = todo,
         phase' \in {phase, "idle"}, \A v \in Rows \ {cur} : db'[v] = db[v],
         crashes = 0 =>
           /\ db'[cur].status \in InFlight => db[cur].status \in InFlight
           /\ step' \in Looking => cur' = cur /\ db'[cur].status \in Spent
  PROVE  UpToRestart'
<1>1. cur \in Rows \ todo
  BY DEF IInv, EngineOK
<1>2. crashes = 0 => ~boot
  BY BootIdle
<1> QED BY <1>1, <1>2, RowWritten

\* The row in hand is settled, and the engine is done with it.
LEMMA HandSettled ==
  ASSUME IInv, UpToRestart, step # "pick", Finish, crashes' = crashes, Settles(cur)
  PROVE  UpToRestart'
BY HandWritten DEF Finish, Settles, Looking

\* Acquiring, signing, broadcasting and looking up the row in hand.
LEMMA HandExclusive ==
  ASSUME IInv, UpToRestart, Acquire \/ SignAndBroadcast \/ Resolve
  PROVE  UpToRestart'
<1>1. /\ cur \in Rows /\ db \in [Rows -> Row] /\ step # "pick" /\ crashes' = crashes
      /\ step = "acquire" => db[cur].status \in Awaiting
      /\ step \in {"sign", "send"} => db[cur].status = "signing"
      /\ step \in Looking /\ crashes = 0 => db[cur].status \in Spent
  BY DEF Acquire, AcquirePending, AcquireFails, AcquireUnclear, AcquireReady, SignAndBroadcast,
     SignPersists, SignFails, Send, Record, Resolve, ReadClock, Lookup, LookupErrs, ApplyAbsent,
     ApplyFound, ReceiptMissing, ReceiptSolid, IInv, EngineOK, TypeOK, Looking, faultVars,
     UpToRestart
<1>2. DOMAIN db[cur] = {"status", "txid", "failures", "resolvedBy", "fee", "debited"}
  BY <1>1, RowColumns
<1>3. ASSUME NEW s \in Awaiting, AcquirePending(s)
      PROVE  UpToRestart'
  <2>1. db' = [db EXCEPT ![cur].status = s] /\ step = "acquire" /\ Finish
    BY <1>3 DEF AcquirePending, Commit
  <2>2. db[cur].status \in InFlight /\ \A v \in Rows \ {cur} : db'[v] = db[v]
    BY <1>1, <2>1 DEF InFlight
  <2> QED BY <1>1, <2>1, <2>2, HandWritten DEF Finish, Looking
<1>4. CASE AcquireFails \/ AcquireUnclear
  <2>1. Settles(cur)
    BY <1>1, <1>4, UpdatesSettle DEF AcquireFails, AcquireUnclear, Commit
  <2> QED BY <1>1, <1>4, <2>1, HandSettled DEF AcquireFails, AcquireUnclear
<1>5. CASE AcquireReady
  <2>1. db' = [db EXCEPT ![cur].status = "signing"] /\ step' = "sign"
        /\ UNCHANGED <<boot, phase, todo>> /\ step = "acquire"
    BY <1>5 DEF AcquireReady, Commit, Goto
  <2>2. db[cur].status \in InFlight /\ \A v \in Rows \ {cur} : db'[v] = db[v]
    BY <1>1, <2>1 DEF InFlight
  <2> QED BY <1>1, <2>1, <2>2, HandWritten DEF Looking
<1>6. CASE SignPersists
  <2>1. db' = [db EXCEPT ![cur].txid = TRUE] /\ step' = "send" /\ UNCHANGED <<boot, phase, todo>>
    BY <1>6 DEF SignPersists, CommitFull, Goto
  <2>2. db'[cur].status = db[cur].status /\ \A v \in Rows \ {cur} : db'[v] = db[v]
    BY <1>1, <1>2, <2>1
  <2> QED BY <1>1, <2>1, <2>2, HandWritten DEF Looking
<1>7. CASE SignFails
  <2>1. Settles(cur)
    BY <1>1, <1>7, UpdatesSettle DEF SignFails, Commit
  <2> QED BY <1>1, <1>7, <2>1, HandSettled DEF SignFails
<1>8. ASSUME NEW answer, Send(answer)
      PROVE  UpToRestart'
  <2>1. db' = db /\ step = "send" /\ UNCHANGED <<boot, phase, todo, cur>>
    BY <1>8 DEF Send, storeVars
  <2>2. db[cur].status \in Spent
    BY <1>1, <2>1 DEF Spent
  <2> QED BY <1>1, <2>1, <2>2, HandWritten
<1>9. CASE Record
  <2>1. db' = RecordSent(cur) /\ step = "record"
    BY <1>9 DEF Record, CommitFull
  <2>2. \A v \in Rows \ {cur} : db'[v] = db[v]
    BY <1>1, <2>1 DEF RecordSent
  <2>3. crashes = 0 => db[cur].status \in InFlight /\ db'[cur].status \in Spent
    BY <1>1, <1>2, <2>1 DEF RecordSent, Spent, InFlight, Looking
  <2>4. boot' = boot /\ todo' = todo /\ phase' \in {phase, "idle"}
        /\ (step' \in Looking => cur' = cur)
    BY <1>9 DEF Record, Goto, Finish, Looking
  <2> QED BY <1>1, <2>2, <2>3, <2>4, HandWritten
<1>10. CASE ReadClock \/ Lookup
  <2>1. db' = db /\ UNCHANGED <<boot, phase, todo, cur>> /\ step \in Looking
    BY <1>10 DEF ReadClock, Lookup, storeVars, Looking
  <2> QED BY <1>1, <2>1, HandWritten
<1>11. CASE LookupErrs \/ ReceiptMissing \/ ReceiptSolid
  <2>1. Settles(cur)
    BY <1>1, <1>11, UpdatesSettle DEF LookupErrs, ReceiptMissing, ReceiptSolid, Commit, storeVars
  <2> QED BY <1>1, <1>11, <2>1, HandSettled DEF LookupErrs, ReceiptMissing, ReceiptSolid
<1>12. CASE ApplyAbsent
  <2>1. Settles(cur)
    BY <1>1, <1>12, UpdatesSettle DEF ApplyAbsent, Commit
  <2> QED BY <1>1, <1>12, <2>1, HandSettled DEF ApplyAbsent
<1>13. CASE ApplyFound
  <2>1. db' = LookupAnswered(cur, TRUE) /\ step = "apply" /\ step' = "receipt"
        /\ UNCHANGED <<boot, phase, todo>>
    BY <1>13 DEF ApplyFound, Commit, Goto
  <2>2. \A v \in Rows \ {cur} : db'[v] = db[v]
    BY <1>1, <2>1 DEF LookupAnswered
  <2>3. crashes = 0 => db[cur].status \in InFlight
    BY <1>1, <2>1 DEF Looking, Spent, InFlight
  <2> QED BY <1>1, <2>1, <2>2, <2>3, HandWritten DEF Looking
<1> QED BY <1>3, <1>4, <1>5, <1>6, <1>7, <1>8, <1>9, <1>10, <1>11, <1>12, <1>13
        DEF Acquire, SignAndBroadcast, Resolve

\* Requests, operators and the chain: no row of theirs comes to be in flight.
LEMMA OthersExclusive ==
  ASSUME IInv, UpToRestart, Operators \/ Chain
  PROVE  UpToRestart'
<1>1. UNCHANGED engineVars /\ crashes' = crashes /\ db \in [Rows -> Row]
  BY DEF Operators, Create, OperatorResolves, Chain, Land, Solidify, Reorg, TxBecomes, ChainExpires,
     HostExpires, IngestPayout, DriftChanges, faultVars, IInv, TypeOK
<1>2. ASSUME NEW w \in Rows, Settles(w),
             \/ db[w].status = "none" /\ db'[w].status = "requested" /\ ~db[w].txid
             \/ db[w].status = "needs_operator"
             \/ db'[w].status = db[w].status
      PROVE  UpToRestart'
  <2>1. \A v \in Rows \ {w} : db'[v] = db[v]
    BY <1>2 DEF Settles
  <2>2. db'[w].status \in InFlight => db[w].status \in InFlight
    BY <1>2 DEF Settles
  <2>3. crashes = 0 /\ boot => db'[w].status \in {"none", "requested"}
    BY <1>2 DEF UpToRestart
  <2>4. crashes = 0 /\ phase = "recover" /\ w \in todo /\ db'[w].txid => db'[w].status \in Spent
    BY <1>2 DEF Settles, UpToRestart, Spent
  <2>5. crashes = 0 /\ step \in Looking => db'[cur].status \in Spent
    <3>1. SUFFICES ASSUME crashes = 0, step \in Looking PROVE db'[cur].status \in Spent
      OBVIOUS
    <3>2. db[cur].status \in Spent
      BY <3>1 DEF UpToRestart
    <3>3. cur \in Rows
      BY <3>1 DEF IInv, EngineOK, Looking
    <3> QED BY <1>2, <2>1, <3>2, <3>3 DEF Spent
  <2>6. crashes = 0 /\ boot => todo = {} /\ step = "pick"
    BY DEF UpToRestart
  <2>7. UNCHANGED <<boot, phase, todo, step, cur>>
    BY <1>1 DEF engineVars
  <2> QED BY <1>1, <2>1, <2>2, <2>3, <2>4, <2>5, <2>6, <2>7, RowWritten
<1>3. ASSUME NEW w \in Rows, Create(w)
      PROVE  UpToRestart'
  <2>1. db[w].status = "none" /\ db' = [db EXCEPT ![w].status = "requested"]
    BY <1>3 DEF Create, Commit, Oldest, RowsIn
  <2>2. Settles(w) /\ db'[w].status = "requested"
    BY <2>1, StatusSettles DEF InFlight, Awaiting, Unclaimed
  <2>3. ~db[w].txid
    BY <2>1 DEF IInv, TableOK, RowOK
  <2> QED BY <1>2, <2>1, <2>2, <2>3
<1>4. ASSUME NEW w \in Rows, NEW o \in {"confirmed", "failed"}, OperatorResolves(w, o)
      PROVE  UpToRestart'
  <2>1. Settles(w) /\ db[w].status = "needs_operator"
    BY <1>4, StatusSettles DEF OperatorResolves, Commit, InFlight, Awaiting, Unclaimed
  <2> QED BY <1>2, <2>1
<1>5. ASSUME NEW w \in Rows, IngestPayout(w)
      PROVE  UpToRestart'
  <2>1. db' = [db EXCEPT ![w].debited = TRUE]
    BY <1>5 DEF IngestPayout, Commit
  <2>2. Settles(w) /\ db'[w].status = db[w].status
    BY <1>1, <2>1, RowColumns DEF Settles
  <2> QED BY <1>2, <2>2
<1>6. ASSUME db' = db
      PROVE  UpToRestart'
  BY <1>1, <1>6 DEF UpToRestart, AddressExclusive, engineVars
<1>7. ASSUME NEW w \in Rows,
             Land(w) \/ Solidify(w) \/ Reorg(w) \/ ChainExpires(w) \/ HostExpires(w)
      PROVE  db' = db
  BY <1>7 DEF Land, Solidify, Reorg, TxBecomes, ChainExpires, HostExpires, storeVars
<1>8. ASSUME NEW a \in DriftAddresses, DriftChanges(a)
      PROVE  db' = db
  BY <1>8 DEF DriftChanges
<1> QED BY <1>3, <1>4, <1>5, <1>6, <1>7, <1>8 DEF Operators, Chain

-----------------------------------------------------------------------------
(* A row that was claimed is not a request again.                            *)

\* Of the rows that were not claimed, only a claim claims one.
Advances ==
  /\ \A w \in Rows :
       /\ db'[w].status \in Unclaimed => db[w].status \in Unclaimed
       /\ db[w].status = "requested" /\ db'[w].status = "awaiting_resources" => At("claim", "pick")
  /\ durable' = db' \/ durable' = durable

\* The row in hand was claimed, and what is written to it is not a request.
LEMMA HandAdvances ==
  ASSUME IInv, Acquire \/ SignAndBroadcast \/ Resolve
  PROVE  Advances
<1>1. /\ cur \in Rows /\ db \in [Rows -> Row]
      /\ step = "acquire" => db[cur].status \in Awaiting
      /\ step \in {"sign", "send"} => db[cur].status = "signing"
      /\ step \in Looking \cup {"receipt"} => db[cur].txid
      /\ step \in Looking \cup {"receipt", "acquire", "sign", "send"}
  BY DEF Acquire, AcquirePending, AcquireFails, AcquireUnclear, AcquireReady, SignAndBroadcast,
     SignPersists, SignFails, Send, Record, Resolve, ReadClock, Lookup, LookupErrs, ApplyAbsent,
     ApplyFound, ReceiptMissing, ReceiptSolid, IInv, EngineOK, TypeOK, Looking
<1>2. db[cur].status \notin Unclaimed
  BY <1>1 DEF IInv, TableOK, RowOK, Unclaimed, Awaiting
<1>3. DOMAIN db[cur] = {"status", "txid", "failures", "resolvedBy", "fee", "debited"}
  BY <1>1, RowColumns
<1>4. ASSUME db' \in {SetNeedsOperator(cur), LookupFailed(cur), FailAbsent(cur), FailResources(cur),
                      ConfirmRow(cur), LookupAnswered(cur, FALSE), db}
      PROVE  (\A v \in Rows \ {cur} : db'[v] = db[v]) /\ db'[cur].status \notin Unclaimed
  BY <1>1, <1>2, <1>4, UpdatesSettle DEF Settles
<1>5. ASSUME NEW s \in Awaiting \cup {"signing"}, db' = [db EXCEPT ![cur].status = s]
      PROVE  (\A v \in Rows \ {cur} : db'[v] = db[v]) /\ db'[cur].status \notin Unclaimed
  BY <1>1, <1>3, <1>5 DEF Unclaimed, Awaiting
<1>6. ASSUME db' \in {[db EXCEPT ![cur].txid = TRUE], RecordSent(cur), LookupAnswered(cur, TRUE)}
      PROVE  (\A v \in Rows \ {cur} : db'[v] = db[v]) /\ db'[cur].status \notin Unclaimed
  <2>1. CASE db' = [db EXCEPT ![cur].txid = TRUE]
    BY <1>1, <1>2, <1>3, <2>1
  <2>2. CASE db' = RecordSent(cur)
    BY <1>1, <1>2, <1>3, <2>2 DEF RecordSent, Unclaimed
  <2>3. CASE db' = LookupAnswered(cur, TRUE)
    BY <1>1, <1>3, <2>3 DEF LookupAnswered, Unclaimed
  <2> QED BY <1>6, <2>1, <2>2, <2>3
<1>7. durable' = db' \/ durable' = durable
  BY DEF Acquire, AcquirePending, AcquireFails, AcquireUnclear, AcquireReady, SignAndBroadcast,
     SignPersists, SignFails, Send, Record, Resolve, ReadClock, Lookup, LookupErrs, ApplyAbsent,
     ApplyFound, ReceiptMissing, ReceiptSolid, Commit, CommitFull, storeVars
<1>8. (\A v \in Rows \ {cur} : db'[v] = db[v]) /\ db'[cur].status \notin Unclaimed
  <2>1. CASE Acquire
    BY <1>4, <1>5, <2>1 DEF Acquire, AcquirePending, AcquireFails, AcquireUnclear, AcquireReady, Commit
  <2>2. CASE SignAndBroadcast
    BY <1>4, <1>6, <2>2 DEF SignAndBroadcast, SignPersists, SignFails, Send, Record, Commit, CommitFull,
           storeVars
  <2>3. CASE Resolve
    BY <1>4, <1>6, <2>3 DEF Resolve, ReadClock, Lookup, LookupErrs, ApplyAbsent, ApplyFound,
           ReceiptMissing, ReceiptSolid, Commit, storeVars
  <2> QED BY <2>1, <2>2, <2>3
<1>9. ASSUME NEW w \in Rows
      PROVE  /\ db'[w].status \in Unclaimed => db[w].status \in Unclaimed
             /\ db[w].status = "requested" => db'[w].status # "awaiting_resources"
  BY <1>2, <1>8, <1>9 DEF Unclaimed
<1> QED BY <1>7, <1>9 DEF Advances

\* A write to another row than the one in hand, or none.
LEMMA SettledAdvances ==
  ASSUME NEW w \in Rows, Settles(w), durable' = db' \/ durable' = durable
  PROVE  Advances
BY DEF Settles, Advances, InFlight, Awaiting

\* Every step but a power loss.
LEMMA StepAdvances ==
  ASSUME IInv, [Next]_vars, ~PowerLoss
  PROVE  Advances
<1>1. ASSUME UNCHANGED <<db, durable>>
      PROVE  Advances
  BY <1>1 DEF Advances
<1>2. CASE Engine
  <2>1. CASE BeginRecovery \/ EndRecovery \/ EndAwaiting \/ ClaimNone
    BY <1>1, <2>1 DEF BeginRecovery, EndRecovery, EndAwaiting, ClaimNone, storeVars
  <2>2. ASSUME NEW w \in Rows, Recover(w) \/ AcquireNext(w)
        PROVE  Advances
    <3>1. CASE RecoverUnsigned(w)
      BY <3>1, UpdatesSettle, SettledAdvances DEF RecoverUnsigned, Commit
    <3>2. CASE RecoverAwaiting(w) \/ RecoverSkip(w) \/ RecoverResolve(w) \/ AcquireNext(w)
      BY <1>1, <3>2 DEF RecoverAwaiting, RecoverSkip, RecoverResolve, AcquireNext, storeVars
    <3> QED BY <2>2, <3>1, <3>2 DEF Recover
  <2>3. ASSUME NEW w \in Rows, Claim(w)
        PROVE  Advances
    <3>1. CASE ClaimGranted(w)
      <4>1. db' = [db EXCEPT ![w].status = "awaiting_resources"] /\ db \in [Rows -> Row]
            /\ At("claim", "pick") /\ (durable' = db' \/ durable' = durable)
        BY <3>1 DEF ClaimGranted, ClaimNext, Commit, IInv, TypeOK
      <4>2. db'[w].status = "awaiting_resources" /\ \A v \in Rows \ {w} : db'[v] = db[v]
        BY <4>1, RowColumns
      <4> QED BY <4>1, <4>2 DEF Advances, Unclaimed
    <3>2. CASE ClaimRejected(w)
      <4>1. durable' = db' \/ durable' = durable
        BY <3>2 DEF ClaimRejected, Commit
      <4> QED BY <3>2, <4>1, RejectedSettles, SettledAdvances
    <3>3. CASE ClaimWaits(w)
      BY <1>1, <3>3 DEF ClaimWaits, storeVars
    <3> QED BY <2>3, <3>1, <3>2, <3>3 DEF Claim
  <2> QED BY <1>2, <2>1, <2>2, <2>3, HandAdvances DEF Engine
<1>3. CASE Operators
  <2>1. ASSUME NEW w \in Rows, Create(w)
        PROVE  Advances
    BY <2>1, StatusSettles, SettledAdvances DEF Create, Commit, InFlight, Awaiting, Oldest, RowsIn, Unclaimed
  <2>2. ASSUME NEW w \in Rows, NEW o \in {"confirmed", "failed"}, OperatorResolves(w, o)
        PROVE  Advances
    BY <2>2, StatusSettles, SettledAdvances DEF OperatorResolves, Commit, InFlight, Awaiting, Unclaimed
  <2> QED BY <1>3, <2>1, <2>2 DEF Operators
<1>4. CASE Chain
  <2>1. ASSUME NEW w \in Rows, IngestPayout(w)
        PROVE  Advances
    <3>1. db' = [db EXCEPT ![w].debited = TRUE] /\ db \in [Rows -> Row]
          /\ (durable' = db' \/ durable' = durable)
      BY <2>1 DEF IngestPayout, Commit, IInv, TypeOK
    <3> QED BY <3>1, RowColumns, SettledAdvances DEF Settles
  <2>2. ASSUME NEW w \in Rows,
               Land(w) \/ Solidify(w) \/ Reorg(w) \/ ChainExpires(w) \/ HostExpires(w)
        PROVE  UNCHANGED <<db, durable>>
    BY <2>2 DEF Land, Solidify, Reorg, TxBecomes, ChainExpires, HostExpires, storeVars
  <2>3. ASSUME NEW a \in DriftAddresses, DriftChanges(a)
        PROVE  UNCHANGED <<db, durable>>
    BY <2>3 DEF DriftChanges
  <2> QED BY <1>1, <1>4, <2>1, <2>2, <2>3 DEF Chain
<1>5. CASE Abort \/ Crash \/ UNCHANGED vars
  BY <1>1, <1>5 DEF Abort, Crash, vars, storeVars
<1> QED BY <1>2, <1>3, <1>4, <1>5 DEF Next

\* Every step keeps what is on disk behind what is in sight.
LEMMA FreshKept ==
  ASSUME IInv, Fresh, [Next]_vars
  PROVE  Fresh'
<1>1. CASE PowerLoss
  BY <1>1 DEF PowerLoss, Fresh
<1>2. CASE ~PowerLoss
  BY <1>2, StepAdvances DEF Advances, Fresh
<1> QED BY <1>1, <1>2

-----------------------------------------------------------------------------
(* The theorems.                                                             *)

\* The engine starts with no row to recover.
LEMMA ClaimInit == Init => ClaimInv
BY DEF Init, NewRow, ClaimInv, RecoveryFirst, UpToRestart, AddressExclusive, Unsigned, InFlight,
   Awaiting, Looking, Fresh, Unclaimed

\* Every step keeps both.
LEMMA ClaimStep ==
  ASSUME IInv, ClaimInv, [Next]_vars
  PROVE  ClaimInv'
<1>1. RecoveryFirst' /\ Fresh'
  BY FirstKept, FreshKept DEF ClaimInv
<1>2. CASE Engine
  BY <1>1, <1>2, WalkExclusive, ClaimExclusive, HandExclusive DEF Engine, ClaimInv
<1>3. CASE Operators \/ Chain
  BY <1>1, <1>3, OthersExclusive DEF ClaimInv
<1>4. CASE Abort
  BY <1>1, <1>4 DEF Abort, ResetEngine, storeVars, ClaimInv, UpToRestart, AddressExclusive, Looking
<1>5. CASE Crash \/ PowerLoss
  <2>1. crashes' # 0
    BY <1>5 DEF Crash, PowerLoss, IInv, TypeOK
  <2> QED BY <1>1, <2>1 DEF ClaimInv, UpToRestart
<1>6. CASE UNCHANGED vars
  BY <1>1, <1>6 DEF vars, storeVars, engineVars, faultVars, ClaimInv, UpToRestart, AddressExclusive
<1> QED BY <1>1, <1>2, <1>3, <1>4, <1>5, <1>6 DEF Next, ClaimInv

\* The invariant of claims holds in every reachable state.
THEOREM ClaimInvariant == Spec => [](IInv /\ ClaimInv)
<1>1. Init => IInv /\ ClaimInv
  BY InitHolds, ClaimInit
<1>2. IInv /\ ClaimInv /\ [Next]_vars => (IInv /\ ClaimInv)'
  BY StepKeeps, ClaimStep
<1> QED BY <1>1, <1>2, PTL DEF Spec

\* WDR-007 for as long as the process does not restart: whatever operators, lookups,
\* aborted ticks and the chain do, an address has one row in flight.
THEOREM ExclusiveWhileUp == Spec => []ExclusiveUntilRestart
<1>1. IInv /\ ClaimInv => ExclusiveUntilRestart
  BY DEF ClaimInv, UpToRestart, ExclusiveUntilRestart
<1> QED BY <1>1, ClaimInvariant, PTL

\* A request is claimed only after startup recovery, and never over a row left in
\* signing without a txid, in whatever tick its attempt was aborted.
THEOREM RecoveryBeforeClaims == Spec => ClaimAfterRecovery
<1>1. ASSUME IInv, ClaimInv, [Next]_vars, NEW w \in Rows,
             db[w].status = "requested", db'[w].status = "awaiting_resources"
      PROVE  ~boot /\ \A v \in Rows : db[v].status = "signing" => db[v].txid
  <2>1. ~PowerLoss
    BY <1>1 DEF PowerLoss, ClaimInv, Fresh, Unclaimed
  <2>2. At("claim", "pick")
    BY <1>1, <2>1, StepAdvances DEF Advances
  <2> QED BY <1>1, <2>2 DEF At, ClaimInv, RecoveryFirst, Unsigned
<1>2. IInv /\ ClaimInv /\ [Next]_vars =>
        [\A w \in Rows : db[w].status = "requested" /\ db'[w].status = "awaiting_resources"
           => ~boot /\ \A v \in Rows : db[v].status = "signing" => db[v].txid]_vars
  BY <1>1
<1> QED BY <1>2, ClaimInvariant, PTL DEF Spec, ClaimAfterRecovery
=============================================================================
