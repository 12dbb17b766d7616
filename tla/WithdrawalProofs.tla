-------------------------- MODULE WithdrawalProofs --------------------------
(***************************************************************************)
(* IInv of Withdrawal is inductive, and what follows from it: the safety   *)
(* properties of the withdrawal engine and its refinement of SinglePayout, *)
(* for any number of rows, addresses, crashes, power losses and errors.    *)
(***************************************************************************)
EXTENDS Withdrawal, TLAPS

-----------------------------------------------------------------------------
(* Writing one row.                                                         *)

\* A table that differs from db in row w alone, and there by values that are
\* right by themselves and start no acquisition unless the address is free, is
\* right.
LEMMA OneRow ==
  ASSUME IInv, NEW w \in Rows, NEW r \in Row,
         RowOK(r), VerdictOK(w, r),
         r.status \in Acquiring => db[w].status \in Acquiring \/ AddressFree(w)
  PROVE  LET d == [db EXCEPT ![w] = r] IN d \in [Rows -> Row] /\ TableOK(d)
<1> DEFINE d == [db EXCEPT ![w] = r]
<1>1. db \in [Rows -> Row] /\ TableOK(db)
  BY DEF IInv, TypeOK
<1>2. d \in [Rows -> Row] /\ \A v \in Rows : d[v] = IF v = w THEN r ELSE db[v]
  BY <1>1
<1>3. \A v \in Rows : RowOK(d[v]) /\ VerdictOK(v, d[v])
  BY <1>1, <1>2 DEF TableOK
<1>4. OneAcquiringIn(d)
  <2> SUFFICES ASSUME NEW u \in Rows, NEW v \in Rows, u # v, From[u] = From[v],
                      d[u].status \in Acquiring
               PROVE  d[v].status \notin Acquiring
    BY DEF OneAcquiringIn
  <2>1. db[u].status \in Acquiring => db[v].status \notin Acquiring
    BY <1>1 DEF TableOK, OneAcquiringIn
  <2>2. db[v].status \in Acquiring => db[u].status \notin Acquiring
    BY <1>1 DEF TableOK, OneAcquiringIn
  <2>3. CASE u = w
    BY <1>2, <2>1, <2>3 DEF AddressFree, InFlight, Acquiring
  <2>4. CASE v = w
    BY <1>2, <2>2, <2>4 DEF AddressFree, InFlight, Acquiring
  <2> QED BY <1>2, <2>1, <2>3, <2>4
<1> QED BY <1>2, <1>3, <1>4 DEF TableOK

\* What every update of the engine is, as far as the other rows, the txids
\* and the stages of the promise can see.
Harmless(d, w) ==
  /\ d \in [Rows -> Row]
  /\ TableOK(d)
  /\ \A v \in Rows \ {w} : d[v] = db[v]
  /\ d[w].txid <=> db[w].txid
  /\ sent[w] = 0 /\ db[w].status # "none" => d[w].status # "none"
  /\ sent[w] = 0 /\ db[w].status \in Closed => d[w].status \in Closed

\* An UPDATE that no row matches is harmless.
LEMMA HarmlessSame ==
  ASSUME IInv, NEW w \in Rows
  PROVE  Harmless(db, w)
BY DEF IInv, TypeOK, Harmless

\* setNeedsOperator: handing a row over is harmless once it is past the request.
LEMMA HarmlessNeedsOperator ==
  ASSUME IInv, NEW w \in Rows
  PROVE  Harmless(SetNeedsOperator(w), w)
<1>1. CASE db[w].status \in {"confirmed", "failed", "needs_operator"}
  BY <1>1, HarmlessSame DEF SetNeedsOperator
<1>2. CASE db[w].status \notin {"confirmed", "failed", "needs_operator"}
  <2> DEFINE r == [db[w] EXCEPT !.status = "needs_operator"]
  <2>1. db \in [Rows -> Row] /\ db[w] \in Row /\ RowOK(db[w]) /\ VerdictOK(w, db[w])
    BY DEF IInv, TypeOK, TableOK
  <2>2. r \in Row /\ r.status = "needs_operator" /\ r.txid = db[w].txid /\ r.fee = db[w].fee
        /\ r.resolvedBy = db[w].resolvedBy
    BY <2>1 DEF Row, Statuses
  <2>3. RowOK(r) /\ VerdictOK(w, r)
    BY <1>2, <2>1, <2>2 DEF RowOK, VerdictOK, Awaiting
  <2>4. SetNeedsOperator(w) = [db EXCEPT ![w] = r]
    BY <1>2, <2>1 DEF SetNeedsOperator
  <2>5. r.status \notin Acquiring
    BY <2>2 DEF Acquiring, Awaiting
  <2>6. [db EXCEPT ![w] = r] \in [Rows -> Row] /\ TableOK([db EXCEPT ![w] = r])
    BY <2>2, <2>3, <2>5, OneRow
  <2> QED BY <2>1, <2>2, <2>4, <2>6 DEF Harmless, Closed
<1> QED BY <1>1, <1>2

\* The row that a single-row update leaves behind, and why it is harmless.
LEMMA HarmlessRow ==
  ASSUME IInv, NEW w \in Rows, NEW r \in Row,
         RowOK(r), VerdictOK(w, r),
         r.status \in Acquiring => db[w].status \in Acquiring \/ AddressFree(w),
         r.txid <=> db[w].txid,
         sent[w] = 0 /\ db[w].status # "none" => r.status # "none",
         sent[w] = 0 /\ db[w].status \in Closed => r.status \in Closed
  PROVE  Harmless([db EXCEPT ![w] = r], w)
<1>1. db \in [Rows -> Row]
  BY DEF IInv, TypeOK
<1>2. [db EXCEPT ![w] = r] \in [Rows -> Row] /\ TableOK([db EXCEPT ![w] = r])
  BY OneRow
<1> QED BY <1>1, <1>2 DEF Harmless

\* The three ways in which an UPDATE writes several columns keep a row a row.
LEMMA ColumnsWritten ==
  ASSUME NEW r \in Row, NEW s \in Statuses, NEW n \in 0..LookupLimit, NEW q \in Resolvers
  PROVE  /\ [r EXCEPT !.status = s, !.failures = n] \in Row
         /\ [r EXCEPT !.status = s, !.resolvedBy = q] \in Row
         /\ [r EXCEPT !.status = s, !.failures = n, !.fee = TRUE] \in Row
<1>1. [r EXCEPT !.status = s] \in Row
  BY DEF Row
<1>2. [[r EXCEPT !.status = s] EXCEPT !.failures = n] \in Row
  BY <1>1 DEF Row
<1>3. [[[r EXCEPT !.status = s] EXCEPT !.failures = n] EXCEPT !.fee = TRUE] \in Row
  BY <1>2 DEF Row
<1>4. [[r EXCEPT !.status = s] EXCEPT !.resolvedBy = q] \in Row
  BY <1>1 DEF Row
<1>5. [[r EXCEPT !.status = s] EXCEPT !.failures = n] = [r EXCEPT !.status = s, !.failures = n]
  BY DEF Row
<1>6. [[r EXCEPT !.status = s] EXCEPT !.resolvedBy = q] = [r EXCEPT !.status = s, !.resolvedBy = q]
  BY DEF Row
<1>7. [[[r EXCEPT !.status = s] EXCEPT !.failures = n] EXCEPT !.fee = TRUE]
        = [r EXCEPT !.status = s, !.failures = n, !.fee = TRUE]
  BY DEF Row
<1> QED BY <1>2, <1>3, <1>4, <1>5, <1>6, <1>7

\* RecordWithdrawalLookup without an error, on a row that has its txid.
LEMMA HarmlessLookupAnswered ==
  ASSUME IInv, NEW w \in Rows, NEW isFound \in BOOLEAN,
         db[w].txid, isFound => sent[w] > 0
  PROVE  Harmless(LookupAnswered(w, isFound), w)
<1> DEFINE s == IF isFound THEN "broadcast" ELSE db[w].status
           r == [db[w] EXCEPT !.status = s, !.failures = 0]
<1>1. db \in [Rows -> Row] /\ db[w] \in Row /\ RowOK(db[w]) /\ VerdictOK(w, db[w])
      /\ sent[w] \in Nat /\ LookupLimit \in Nat
  BY LimitAssumption DEF IInv, TypeOK, TableOK
<1>2. s \in Statuses /\ (s = "broadcast" \/ s = db[w].status) /\ (~isFound => s = db[w].status)
  BY <1>1 DEF Row, Statuses, Counted, InFlight
<1> HIDE DEF s
<1>3. r \in Row /\ r.status = s /\ r.txid = db[w].txid /\ r.fee = db[w].fee
      /\ r.resolvedBy = db[w].resolvedBy
  <2>1. 0 \in 0..LookupLimit /\ "none" \in Resolvers
    BY <1>1 DEF Resolvers
  <2>2. r \in Row
    BY <1>1, <1>2, <2>1, ColumnsWritten
  <2> QED BY <1>1, <2>2 DEF Row
<1>4. RowOK(r) /\ VerdictOK(w, r)
  BY <1>1, <1>2, <1>3 DEF RowOK, VerdictOK, Awaiting
<1>5. LookupAnswered(w, isFound) = [db EXCEPT ![w] = r]
  BY <1>1 DEF LookupAnswered, s
<1>6. r.status \in Acquiring => db[w].status \in Acquiring
  BY <1>2, <1>3 DEF Acquiring, Awaiting
<1>7. sent[w] = 0 => r.status = db[w].status
  BY <1>1, <1>2, <1>3
<1>8. Harmless([db EXCEPT ![w] = r], w)
  BY <1>3, <1>4, <1>6, <1>7, HarmlessRow
<1> QED BY <1>5, <1>8

\* RecordWithdrawalLookup with an error, below the limit and at it.
LEMMA HarmlessLookupFailed ==
  ASSUME IInv, NEW w \in Rows
  PROVE  Harmless(LookupFailed(w), w)
<1> DEFINE n == db[w].failures + 1
<1>1. db \in [Rows -> Row] /\ db[w] \in Row /\ RowOK(db[w]) /\ VerdictOK(w, db[w])
      /\ LookupLimit \in Nat \ {0} /\ n \in Nat
  BY LimitAssumption DEF IInv, TypeOK, TableOK, Row
<1>2. CASE n < LookupLimit
  <2> DEFINE r == [db[w] EXCEPT !.failures = n]
  <2>1. r \in Row /\ r.status = db[w].status /\ r.txid = db[w].txid /\ r.fee = db[w].fee
        /\ r.resolvedBy = db[w].resolvedBy
    BY <1>1, <1>2 DEF Row
  <2>2. RowOK(r) /\ VerdictOK(w, r)
    BY <1>1, <2>1 DEF RowOK, VerdictOK
  <2>3. LookupFailed(w) = [db EXCEPT ![w] = r]
    BY <1>1, <1>2 DEF LookupFailed
  <2>4. Harmless([db EXCEPT ![w] = r], w)
    BY <2>1, <2>2, HarmlessRow
  <2> QED BY <2>3, <2>4
<1>3. CASE ~(n < LookupLimit)
  <2> DEFINE d == SetNeedsOperator(w)
             r == [d[w] EXCEPT !.failures = LookupLimit]
  <2>1. Harmless(d, w)
    BY HarmlessNeedsOperator
  <2>2. d \in [Rows -> Row] /\ d[w] \in Row /\ RowOK(d[w]) /\ VerdictOK(w, d[w])
    BY <2>1 DEF Harmless, TableOK
  <2>3. r \in Row /\ r.status = d[w].status /\ r.txid = d[w].txid /\ r.fee = d[w].fee
        /\ r.resolvedBy = d[w].resolvedBy
    BY <1>1, <2>2 DEF Row
  <2>4. RowOK(r) /\ VerdictOK(w, r)
    BY <2>2, <2>3 DEF RowOK, VerdictOK
  <2>5. LookupFailed(w) = [d EXCEPT ![w] = r]
    BY <1>1, <1>3, <2>2 DEF LookupFailed
  <2>6. d = [db EXCEPT ![w] = d[w]]
    BY <1>1, <2>1 DEF Harmless
  <2>7. LookupFailed(w) = [db EXCEPT ![w] = r]
    BY <1>1, <2>2, <2>5, <2>6
  <2>8. r.status \in Acquiring => db[w].status \in Acquiring
    BY <1>1, <2>3 DEF SetNeedsOperator, Acquiring, Awaiting
  <2>9. Harmless([db EXCEPT ![w] = r], w)
    BY <2>1, <2>3, <2>4, <2>8, HarmlessRow DEF Harmless
  <2> QED BY <2>7, <2>9
<1> QED BY <1>2, <1>3

\* Create, the claim, the acquisition: the status alone.
LEMMA HarmlessStatus ==
  ASSUME IInv, NEW w \in Rows, NEW s \in Statuses \ {"none"},
         db[w].txid => s \notin {"requested", "rejected"} \cup Awaiting,
         db[w].status \notin Closed, s \notin {"failed", "confirmed"},
         s \in Acquiring => db[w].status \in Acquiring \/ AddressFree(w)
  PROVE  Harmless([db EXCEPT ![w].status = s], w)
<1> DEFINE r == [db[w] EXCEPT !.status = s]
<1>1. db \in [Rows -> Row] /\ db[w] \in Row /\ RowOK(db[w]) /\ VerdictOK(w, db[w])
  BY DEF IInv, TypeOK, TableOK
<1>2. r \in Row /\ r.status = s /\ r.txid = db[w].txid /\ r.fee = db[w].fee
      /\ r.resolvedBy = db[w].resolvedBy
  BY <1>1 DEF Row
<1>3. RowOK(r) /\ VerdictOK(w, r)
  BY <1>1, <1>2 DEF RowOK, VerdictOK, Closed
<1>4. Harmless([db EXCEPT ![w] = r], w)
  BY <1>2, <1>3, HarmlessRow
<1>5. [db EXCEPT ![w].status = s] = [db EXCEPT ![w] = r]
  BY <1>1
<1> QED BY <1>4, <1>5

\* ResolveWithdrawal: an operator's decision claims nothing of the chain.
LEMMA HarmlessDecision ==
  ASSUME IInv, NEW w \in Rows, NEW s \in {"confirmed", "failed"}, db[w].status = "needs_operator"
  PROVE  Harmless([db EXCEPT ![w].status = s, ![w].resolvedBy = "operator"], w)
<1> DEFINE r == [db[w] EXCEPT !.status = s, !.resolvedBy = "operator"]
<1>1. /\ db \in [Rows -> Row] /\ db[w] \in Row /\ RowOK(db[w]) /\ VerdictOK(w, db[w])
      /\ s \in Statuses /\ "operator" \in Resolvers /\ 0 \in 0..LookupLimit
  BY LimitAssumption DEF IInv, TypeOK, TableOK, Statuses, Counted, Resolvers
<1>2. r \in Row
  BY <1>1, ColumnsWritten
<1>3. r.status = s /\ r.txid = db[w].txid /\ r.fee = db[w].fee /\ r.resolvedBy = "operator"
  BY <1>1 DEF Row
<1>4. RowOK(r) /\ VerdictOK(w, r)
  BY <1>1, <1>3 DEF RowOK, VerdictOK, Awaiting
<1>5. Harmless([db EXCEPT ![w] = r], w)
  BY <1>2, <1>3, <1>4, HarmlessRow DEF Acquiring, Awaiting, Closed
<1>6. [db EXCEPT ![w].status = s, ![w].resolvedBy = "operator"] = [db EXCEPT ![w] = r]
  BY <1>1
<1> QED BY <1>5, <1>6

\* FailWithdrawalAbsent, when the transaction can no longer land.
LEMMA HarmlessFailAbsent ==
  ASSUME IInv, NEW w \in Rows, ~HostClockAhead => tx[w] \in {"unsent", "gone"}
  PROVE  Harmless(FailAbsent(w), w)
<1>1. CASE ~db[w].txid \/ db[w].status \in {"confirmed", "failed"}
  BY <1>1, HarmlessSame DEF FailAbsent
<1>2. CASE ~(~db[w].txid \/ db[w].status \in {"confirmed", "failed"})
  <2> DEFINE r == [db[w] EXCEPT !.status = "failed", !.resolvedBy = "chain_absence"]
  <2>1. /\ db \in [Rows -> Row] /\ db[w] \in Row /\ RowOK(db[w]) /\ VerdictOK(w, db[w])
        /\ "failed" \in Statuses /\ "chain_absence" \in Resolvers /\ 0 \in 0..LookupLimit
    BY LimitAssumption DEF IInv, TypeOK, TableOK, Statuses, Resolvers
  <2>2. r \in Row
    BY <2>1, ColumnsWritten
  <2>3. r.status = "failed" /\ r.txid = db[w].txid /\ r.fee = db[w].fee
        /\ r.resolvedBy = "chain_absence"
    BY <2>1 DEF Row
  <2>4. RowOK(r) /\ VerdictOK(w, r)
    BY <2>1, <2>3 DEF RowOK, VerdictOK, Awaiting
  <2>5. Harmless([db EXCEPT ![w] = r], w)
    BY <2>2, <2>3, <2>4, HarmlessRow DEF Acquiring, Awaiting, Closed
  <2>6. FailAbsent(w) = [db EXCEPT ![w] = r]
    BY <1>2, <2>1 DEF FailAbsent
  <2> QED BY <2>5, <2>6
<1> QED BY <1>1, <1>2

\* FailWithdrawalResources, on a waiting row without a txid.
LEMMA HarmlessFailResources ==
  ASSUME IInv, NEW w \in Rows
  PROVE  Harmless(FailResources(w), w)
<1>1. CASE db[w].txid \/ db[w].status \notin Awaiting
  BY <1>1, HarmlessSame DEF FailResources
<1>2. CASE ~(db[w].txid \/ db[w].status \notin Awaiting)
  <2> DEFINE r == [db[w] EXCEPT !.status = "failed", !.resolvedBy = "resource_acquisition"]
  <2>1. /\ db \in [Rows -> Row] /\ db[w] \in Row /\ RowOK(db[w]) /\ VerdictOK(w, db[w])
        /\ "failed" \in Statuses /\ "resource_acquisition" \in Resolvers /\ 0 \in 0..LookupLimit
    BY LimitAssumption DEF IInv, TypeOK, TableOK, Statuses, Resolvers
  <2>2. r \in Row
    BY <2>1, ColumnsWritten
  <2>3. r.status = "failed" /\ r.txid = db[w].txid /\ r.fee = db[w].fee
        /\ r.resolvedBy = "resource_acquisition"
    BY <2>1 DEF Row
  <2>4. RowOK(r) /\ VerdictOK(w, r)
    BY <1>2, <2>1, <2>3 DEF RowOK, VerdictOK, Awaiting
  <2>5. Harmless([db EXCEPT ![w] = r], w)
    BY <2>2, <2>3, <2>4, HarmlessRow DEF Acquiring, Awaiting, Closed
  <2>6. FailResources(w) = [db EXCEPT ![w] = r]
    BY <1>2, <2>1 DEF FailResources
  <2> QED BY <2>5, <2>6
<1> QED BY <1>1, <1>2

\* ConfirmWithdrawal, when the payout is solid.
LEMMA HarmlessConfirmRow ==
  ASSUME IInv, NEW w \in Rows, tx[w] = "solidPaid"
  PROVE  Harmless(ConfirmRow(w), w)
<1>1. CASE ~db[w].txid \/ db[w].status = "confirmed"
  BY <1>1, HarmlessSame DEF ConfirmRow
<1>2. CASE ~(~db[w].txid \/ db[w].status = "confirmed")
  <2> DEFINE r == [db[w] EXCEPT !.status = "confirmed", !.failures = 0, !.fee = TRUE]
  <2>1. /\ db \in [Rows -> Row] /\ db[w] \in Row /\ RowOK(db[w]) /\ VerdictOK(w, db[w])
        /\ "confirmed" \in Statuses /\ "none" \in Resolvers /\ 0 \in 0..LookupLimit
    BY LimitAssumption DEF IInv, TypeOK, TableOK, Statuses, Counted, Resolvers
  <2>2. r \in Row
    BY <2>1, ColumnsWritten
  <2>3. r.status = "confirmed" /\ r.txid = db[w].txid /\ r.fee = TRUE
        /\ r.resolvedBy = db[w].resolvedBy
    BY <2>1 DEF Row
  <2>4. RowOK(r) /\ VerdictOK(w, r)
    BY <1>2, <2>1, <2>3 DEF RowOK, VerdictOK, Awaiting
  <2>5. Harmless([db EXCEPT ![w] = r], w)
    BY <2>1, <2>2, <2>3, <2>4, HarmlessRow DEF Acquiring, Awaiting, Closed, Row
  <2>6. ConfirmRow(w) = [db EXCEPT ![w] = r]
    BY <1>2, <2>1 DEF ConfirmRow
  <2> QED BY <2>5, <2>6
<1> QED BY <1>1, <1>2

\* RecordWithdrawalBroadcast, on a row that has its txid.
LEMMA HarmlessRecordSent ==
  ASSUME IInv, NEW w \in Rows, sent[w] > 0
  PROVE  Harmless(RecordSent(w), w)
<1>1. CASE ~db[w].txid \/ db[w].status \in {"confirmed", "failed"}
  BY <1>1, HarmlessSame DEF RecordSent
<1>2. CASE ~(~db[w].txid \/ db[w].status \in {"confirmed", "failed"})
  <2>1. RecordSent(w) = LookupAnswered(w, TRUE)
    BY <1>2 DEF RecordSent, LookupAnswered
  <2> QED BY <1>2, <2>1, HarmlessLookupAnswered
<1> QED BY <1>1, <1>2

\* IngestPayout writes a column that no part of IInv reads.
LEMMA HarmlessDebit ==
  ASSUME IInv, NEW w \in Rows
  PROVE  Harmless([db EXCEPT ![w].debited = TRUE], w)
<1> DEFINE r == [db[w] EXCEPT !.debited = TRUE]
<1>1. db \in [Rows -> Row] /\ db[w] \in Row /\ RowOK(db[w]) /\ VerdictOK(w, db[w])
  BY DEF IInv, TypeOK, TableOK
<1>2. r \in Row /\ r.status = db[w].status /\ r.txid = db[w].txid /\ r.fee = db[w].fee
      /\ r.resolvedBy = db[w].resolvedBy
  BY <1>1 DEF Row
<1>3. RowOK(r) /\ VerdictOK(w, r)
  BY <1>1, <1>2 DEF RowOK, VerdictOK
<1>4. Harmless([db EXCEPT ![w] = r], w)
  BY <1>2, <1>3, HarmlessRow
<1>5. [db EXCEPT ![w].debited = TRUE] = [db EXCEPT ![w] = r]
  BY <1>1
<1> QED BY <1>4, <1>5

-----------------------------------------------------------------------------
(* Steps.                                                                   *)

StoreOK ==
  /\ db \in [Rows -> Row] /\ durable \in [Rows -> Row] /\ drift \subseteq DriftAddresses
  /\ TableOK(db) /\ TableOK(durable)
  /\ SyncOK
  /\ WorldOK

\* Committing a harmless update keeps the store right, synced or not.
LEMMA CommitKeeps ==
  ASSUME IInv, NEW w \in Rows, NEW d, Harmless(d, w), Commit(d) \/ CommitFull(d),
         UNCHANGED worldVars
  PROVE  StoreOK'
<1>1. db' = d /\ (durable' = d \/ durable' = durable) /\ UNCHANGED <<drift, worldVars>>
  BY DEF Commit, CommitFull
<1>2. d \in [Rows -> Row] /\ TableOK(d) /\ durable \in [Rows -> Row] /\ TableOK(durable)
  BY DEF IInv, TypeOK, Harmless
<1>3. TableOK(db)' /\ TableOK(durable)'
  <2>1. \A v \in Rows : tx'[v] = tx[v]
    BY <1>1 DEF worldVars
  <2>2. TableOK(d) => TableOK(db)'
    BY <1>1, <2>1 DEF TableOK, VerdictOK, OneAcquiringIn, RowOK
  <2>3. durable' = d => TableOK(durable)'
    BY <1>2, <2>1 DEF TableOK, VerdictOK, OneAcquiringIn, RowOK
  <2>4. durable' = durable => TableOK(durable)'
    BY <1>2, <2>1 DEF TableOK, VerdictOK, OneAcquiringIn, RowOK
  <2> QED BY <1>1, <1>2, <2>2, <2>3, <2>4
<1>4. \A v \in Rows :
        /\ d[v].txid <=> db[v].txid
        /\ sent[v] = 0 /\ db[v].status # "none" => d[v].status # "none"
        /\ sent[v] = 0 /\ db[v].status \in Closed => d[v].status \in Closed
  BY DEF Harmless
<1>5. SyncOK'
  BY <1>1, <1>4 DEF IInv, SyncOK, worldVars
<1>6. WorldOK'
  BY <1>1, <1>4 DEF IInv, WorldOK, worldVars
<1> QED BY <1>1, <1>2, <1>3, <1>5, <1>6 DEF StoreOK, IInv, TypeOK

\* An engine step that writes the row in hand and is done with it.
LEMMA FinishKeeps ==
  ASSUME IInv, step # "pick", NEW d, Harmless(d, cur), Commit(d) \/ CommitFull(d), Finish,
         UNCHANGED <<worldVars, faultVars>>
  PROVE  IInv'
<1>1. cur \in Rows \ todo
  BY DEF IInv, EngineOK
<1>2. StoreOK'
  BY <1>1, CommitKeeps
<1>3. \A v \in todo : db'[v] = db[v]
  BY <1>1 DEF IInv, TypeOK, Harmless, Commit, CommitFull
<1>4. EngineOK'
  BY <1>3 DEF IInv, EngineOK, Finish
<1>5. TypeOK'
  BY <1>2 DEF IInv, TypeOK, StoreOK, Finish, worldVars, faultVars
<1> QED BY <1>2, <1>4, <1>5 DEF IInv, StoreOK

\* Another writer's step: the row it writes is not being acquired or signed,
\* or keeps its status.
LEMMA OtherWriterKeeps ==
  ASSUME IInv, NEW w \in Rows, NEW d, Harmless(d, w), Commit(d),
         db[w].status \in Acquiring => d[w].status = db[w].status,
         UNCHANGED <<engineVars, worldVars, faultVars>>
  PROVE  IInv'
<1>1. StoreOK'
  BY CommitKeeps
<1>2. db' = d /\ (durable' = d \/ durable' = durable)
  BY DEF Commit
<1>3. \A v \in Rows : /\ d[v].txid <=> db[v].txid
                      /\ db[v].status \in Acquiring => d[v].status = db[v].status
  BY DEF Harmless
<1>4. EngineOK'
  <2>1. EngineOK /\ todo \subseteq Rows /\ cur \in Rows \cup {0}
    BY DEF IInv, TypeOK
  <2>2. step # "pick" => cur \in Rows
    BY <2>1 DEF EngineOK
  <2> QED BY <1>2, <1>3, <2>1, <2>2 DEF EngineOK, engineVars, worldVars, Acquiring, Awaiting
<1>5. TypeOK'
  BY <1>1 DEF IInv, TypeOK, StoreOK, engineVars, worldVars, faultVars
<1> QED BY <1>1, <1>4, <1>5 DEF IInv, StoreOK

\* A step that leaves the store and the world alone.
LEMMA ControlKeeps ==
  ASSUME IInv, UNCHANGED <<storeVars, worldVars>>
  PROVE  StoreOK'
<1>1. UNCHANGED <<db, durable, drift, tx, sent, chainExpired, hostExpired>>
  BY DEF storeVars, worldVars
<1>2. TableOK(db)' /\ TableOK(durable)'
  BY <1>1 DEF IInv, TableOK, VerdictOK, OneAcquiringIn, RowOK
<1>3. SyncOK' /\ WorldOK'
  BY <1>1 DEF IInv, SyncOK, WorldOK
<1> QED BY <1>1, <1>2, <1>3 DEF IInv, TypeOK, StoreOK

\* The walk over recovery candidates and waiting rows.
LEMMA WalkKeeps ==
  ASSUME IInv,
         \/ BeginRecovery \/ EndRecovery \/ EndAwaiting \/ ClaimNone
         \/ \E w \in Rows : Recover(w) \/ AcquireNext(w)
  PROVE  IInv'
<1>1. CASE BeginRecovery
  <2>1. todo' \subseteq Rows
    BY <1>1 DEF BeginRecovery, RowsIn
  <2>2. StoreOK'
    BY <1>1, ControlKeeps DEF BeginRecovery
  <2>3. EngineOK'
    BY <1>1 DEF BeginRecovery, IInv, EngineOK, storeVars, worldVars
  <2>4. TypeOK'
    BY <1>1, <2>1, <2>2 DEF BeginRecovery, IInv, TypeOK, StoreOK, worldVars, faultVars
  <2> QED BY <2>2, <2>3, <2>4 DEF IInv, StoreOK
<1>2. CASE EndRecovery
  <2>1. todo' \subseteq Rows /\ \A w \in todo' : db[w].status \in Awaiting /\ ~db[w].txid
    BY <1>2 DEF EndRecovery, RowsIn
  <2>2. StoreOK'
    BY <1>2, ControlKeeps DEF EndRecovery
  <2>3. EngineOK'
    BY <1>2, <2>1 DEF EndRecovery, At, IInv, EngineOK, storeVars, worldVars
  <2>4. TypeOK'
    BY <1>2, <2>1, <2>2 DEF EndRecovery, IInv, TypeOK, StoreOK, worldVars, faultVars
  <2> QED BY <2>2, <2>3, <2>4 DEF IInv, StoreOK
<1>3. CASE EndAwaiting
  <2>1. StoreOK'
    BY <1>3, ControlKeeps DEF EndAwaiting
  <2>2. EngineOK'
    BY <1>3 DEF EndAwaiting, At, IInv, EngineOK, storeVars, worldVars
  <2>3. TypeOK'
    BY <1>3, <2>1 DEF EndAwaiting, IInv, TypeOK, StoreOK, worldVars, faultVars
  <2> QED BY <2>1, <2>2, <2>3 DEF IInv, StoreOK
<1>4. CASE ClaimNone
  <2>1. StoreOK'
    BY <1>4, ControlKeeps DEF ClaimNone
  <2>2. EngineOK'
    BY <1>4 DEF ClaimNone, EndTick, At, IInv, EngineOK, storeVars, worldVars
  <2>3. TypeOK'
    BY <1>4, <2>1 DEF ClaimNone, EndTick, IInv, TypeOK, StoreOK, worldVars, faultVars
  <2> QED BY <2>1, <2>2, <2>3 DEF IInv, StoreOK
<1>5. ASSUME NEW w \in Rows, RecoverUnsigned(w)
      PROVE  IInv'
  <2>1. Harmless(SetNeedsOperator(w), w)
    BY HarmlessNeedsOperator
  <2>2. StoreOK'
    BY <1>5, <2>1, CommitKeeps DEF RecoverUnsigned
  <2>3. EngineOK'
    BY <1>5 DEF RecoverUnsigned, RecoverNext, At, IInv, EngineOK, worldVars
  <2>4. TypeOK'
    BY <1>5, <2>2 DEF RecoverUnsigned, IInv, TypeOK, StoreOK, worldVars, faultVars
  <2> QED BY <2>2, <2>3, <2>4 DEF IInv, StoreOK
<1>6. ASSUME NEW w \in Rows, RecoverAwaiting(w)
      PROVE  IInv'
  <2>1. StoreOK'
    BY <1>6, ControlKeeps DEF RecoverAwaiting
  <2>2. EngineOK'
    BY <1>6 DEF RecoverAwaiting, RecoverNext, At, TakeUp, IInv, EngineOK, storeVars, worldVars,
                Awaiting
  <2>3. TypeOK'
    BY <1>6, <2>1 DEF RecoverAwaiting, TakeUp, IInv, TypeOK, StoreOK, worldVars, faultVars
  <2> QED BY <2>1, <2>2, <2>3 DEF IInv, StoreOK
<1>7. ASSUME NEW w \in Rows, RecoverSkip(w)
      PROVE  IInv'
  <2>1. StoreOK'
    BY <1>7, ControlKeeps DEF RecoverSkip
  <2>2. EngineOK'
    BY <1>7 DEF RecoverSkip, RecoverNext, At, IInv, EngineOK, storeVars, worldVars
  <2>3. TypeOK'
    BY <1>7, <2>1 DEF RecoverSkip, IInv, TypeOK, StoreOK, worldVars, faultVars
  <2> QED BY <2>1, <2>2, <2>3 DEF IInv, StoreOK
<1>8. ASSUME NEW w \in Rows, RecoverResolve(w)
      PROVE  IInv'
  <2>1. StoreOK'
    BY <1>8, ControlKeeps DEF RecoverResolve
  <2>2. EngineOK'
    BY <1>8 DEF RecoverResolve, RecoverNext, At, TakeUp, IInv, EngineOK, storeVars, worldVars
  <2>3. TypeOK'
    BY <1>8, <2>1 DEF RecoverResolve, TakeUp, IInv, TypeOK, StoreOK, worldVars, faultVars
  <2> QED BY <2>1, <2>2, <2>3 DEF IInv, StoreOK
<1>9. ASSUME NEW w \in Rows, AcquireNext(w)
      PROVE  IInv'
  <2>1. StoreOK'
    BY <1>9, ControlKeeps DEF AcquireNext
  <2>2. EngineOK'
    BY <1>9 DEF AcquireNext, Oldest, At, TakeUp, IInv, EngineOK, storeVars, worldVars
  <2>3. TypeOK'
    BY <1>9, <2>1 DEF AcquireNext, TakeUp, IInv, TypeOK, StoreOK, worldVars, faultVars
  <2> QED BY <2>1, <2>2, <2>3 DEF IInv, StoreOK
<1> QED BY <1>1, <1>2, <1>3, <1>4, <1>5, <1>6, <1>7, <1>8, <1>9 DEF Recover

\* ClaimWithdrawal: a granted row is the only one of its address acquiring.
LEMMA ClaimKeeps ==
  ASSUME IInv, NEW w \in Rows, Claim(w)
  PROVE  IInv'
<1>1. CASE ClaimGranted(w)
  <2> DEFINE d == [db EXCEPT ![w].status = "awaiting_resources"]
  <2>1. db[w].status = "requested" /\ ~db[w].txid /\ db \in [Rows -> Row]
    BY <1>1 DEF ClaimGranted, ClaimNext, Oldest, RowsIn, IInv, TypeOK
  <2>2. Harmless(d, w)
    BY <1>1, <2>1, HarmlessStatus
       DEF ClaimGranted, Statuses, Counted, InFlight, Awaiting, Closed
  <2>3. d[w].status = "awaiting_resources" /\ ~d[w].txid
    BY <2>1 DEF Row
  <2>4. StoreOK'
    BY <1>1, <2>2, CommitKeeps DEF ClaimGranted
  <2>5. EngineOK'
    BY <1>1, <2>3
       DEF ClaimGranted, ClaimNext, At, TakeUp, Commit, IInv, EngineOK, worldVars, Awaiting
  <2>6. TypeOK'
    BY <1>1, <2>4 DEF ClaimGranted, TakeUp, IInv, TypeOK, StoreOK, worldVars, faultVars
  <2> QED BY <2>4, <2>5, <2>6 DEF IInv, StoreOK
<1>2. CASE ClaimRejected(w)
  <2> DEFINE d == [db EXCEPT ![w].status = "rejected"]
  <2>1. db[w].status = "requested" /\ ~db[w].txid
    BY <1>2 DEF ClaimRejected, ClaimNext, Oldest, RowsIn
  <2>2. Harmless(d, w)
    BY <2>1, HarmlessStatus DEF Statuses, Closed, Acquiring, Awaiting
  <2>3. StoreOK'
    BY <1>2, <2>2, CommitKeeps DEF ClaimRejected
  <2>4. EngineOK'
    BY <1>2 DEF ClaimRejected, ClaimNext, At, EndTick, IInv, EngineOK, worldVars
  <2>5. TypeOK'
    BY <1>2, <2>3 DEF ClaimRejected, EndTick, IInv, TypeOK, StoreOK, worldVars, faultVars
  <2> QED BY <2>3, <2>4, <2>5 DEF IInv, StoreOK
<1>3. CASE ClaimWaits(w)
  <2>1. StoreOK'
    BY <1>3, ControlKeeps DEF ClaimWaits
  <2>2. EngineOK'
    BY <1>3 DEF ClaimWaits, ClaimNext, At, EndTick, IInv, EngineOK, storeVars, worldVars
  <2>3. TypeOK'
    BY <1>3, <2>1 DEF ClaimWaits, EndTick, IInv, TypeOK, StoreOK, worldVars, faultVars
  <2> QED BY <2>1, <2>2, <2>3 DEF IInv, StoreOK
<1> QED BY <1>1, <1>2, <1>3 DEF Claim

\* acquireAndSend: the row in hand waits, fails, is handed over or is signed.
LEMMA AcquireKeeps ==
  ASSUME IInv, Acquire
  PROVE  IInv'
<1>1. step = "acquire" /\ cur \in Rows \ todo /\ db[cur].status \in Awaiting /\ ~db[cur].txid
  BY DEF Acquire, AcquirePending, AcquireFails, AcquireUnclear, AcquireReady, IInv, EngineOK
<1>2. ASSUME NEW s \in Awaiting, AcquirePending(s)
      PROVE  IInv'
  <2>1. Harmless([db EXCEPT ![cur].status = s], cur)
    BY <1>1, <1>2, HarmlessStatus DEF Statuses, Counted, InFlight, Awaiting, Closed, Acquiring
  <2> QED BY <1>1, <1>2, <2>1, FinishKeeps DEF AcquirePending
<1>3. CASE AcquireFails
  BY <1>1, <1>3, HarmlessFailResources, FinishKeeps DEF AcquireFails
<1>4. CASE AcquireUnclear
  BY <1>1, <1>4, HarmlessNeedsOperator, FinishKeeps DEF AcquireUnclear
<1>5. CASE AcquireReady
  <2> DEFINE d == [db EXCEPT ![cur].status = "signing"]
  <2>1. Harmless(d, cur)
    BY <1>1, HarmlessStatus DEF Statuses, Counted, InFlight, Awaiting, Closed, Acquiring
  <2>2. d[cur].status = "signing" /\ ~d[cur].txid /\ \A v \in todo : d[v] = db[v]
    BY <1>1, <2>1 DEF IInv, TypeOK, Harmless, Row
  <2>3. StoreOK'
    BY <1>1, <1>5, <2>1, CommitKeeps DEF AcquireReady
  <2>4. EngineOK'
    BY <1>1, <1>5, <2>2 DEF AcquireReady, Goto, Commit, IInv, EngineOK, worldVars
  <2>5. TypeOK'
    BY <1>5, <2>3 DEF AcquireReady, Goto, IInv, TypeOK, StoreOK, worldVars, faultVars
  <2> QED BY <2>3, <2>4, <2>5 DEF IInv, StoreOK
<1> QED BY <1>2, <1>3, <1>4, <1>5 DEF Acquire

\* The spent attempt is visible and on disk in the same step.
LEMMA SignPersistsKeeps ==
  ASSUME IInv, SignPersists
  PROVE  IInv'
<1> DEFINE r == [db[cur] EXCEPT !.txid = TRUE]
           d == [db EXCEPT ![cur].txid = TRUE]
<1>1. /\ step = "sign" /\ cur \in Rows \ todo /\ db \in [Rows -> Row] /\ db[cur] \in Row
      /\ db[cur].status = "signing" /\ ~db[cur].txid /\ RowOK(db[cur]) /\ VerdictOK(cur, db[cur])
  BY DEF SignPersists, AttemptUnspent, IInv, TypeOK, EngineOK, TableOK
<1>2. r \in Row /\ r.status = "signing" /\ r.txid = TRUE /\ r.fee = db[cur].fee
      /\ r.resolvedBy = db[cur].resolvedBy
  BY <1>1 DEF Row
<1>3. RowOK(r) /\ VerdictOK(cur, r)
  BY <1>1, <1>2 DEF RowOK, VerdictOK, Awaiting
<1>4. d = [db EXCEPT ![cur] = r]
  BY <1>1
<1>5. d \in [Rows -> Row] /\ TableOK(d)
  BY <1>1, <1>2, <1>3, <1>4, OneRow
<1>6. db' = d /\ durable' = d /\ UNCHANGED <<drift, tx, sent, chainExpired, hostExpired>>
  BY DEF SignPersists, CommitFull, worldVars
<1>7. d[cur] = r /\ \A v \in Rows \ {cur} : d[v] = db[v]
  BY <1>1, <1>4
<1>8. TableOK(db)' /\ TableOK(durable)'
  BY <1>5, <1>6 DEF TableOK, VerdictOK, OneAcquiringIn, RowOK
<1>9. SyncOK'
  BY <1>6 DEF SyncOK
<1>10. WorldOK'
  BY <1>2, <1>6, <1>7 DEF IInv, WorldOK
<1>11. sent[cur] = 0
  BY <1>1 DEF IInv, TypeOK, WorldOK
<1>12. EngineOK'
  BY <1>1, <1>2, <1>6, <1>7, <1>11 DEF SignPersists, Goto, IInv, TypeOK, EngineOK
<1>13. TypeOK'
  BY <1>5, <1>6 DEF SignPersists, Goto, IInv, TypeOK, faultVars
<1> QED BY <1>8, <1>9, <1>10, <1>12, <1>13 DEF IInv

\* The broadcast request is the first of its row, and its row is not decided.
LEMMA SendKeeps ==
  ASSUME IInv, NEW answer, Send(answer)
  PROVE  IInv'
<1>1. /\ step = "send" /\ cur \in Rows \ todo /\ ~code /\ ~expired /\ sent[cur] = 0
      /\ db[cur].txid /\ db[cur].status = "signing" /\ durable[cur].status = "signing"
      /\ tx[cur] = "unsent"
  BY DEF Send, IInv, EngineOK, WorldOK
<1>2. PICK t \in {"pending", "gone"} :
        /\ answer = "deterministic" \/ cur \in chainExpired => t = "gone"
        /\ tx' = [tx EXCEPT ![cur] = t]
  BY DEF Send
<1>3. UNCHANGED <<db, durable, drift, chainExpired, hostExpired>>
  BY DEF Send, storeVars, clockVars
<1>4. /\ tx' \in [Rows -> TxStates] /\ tx'[cur] = t
      /\ \A v \in Rows \ {cur} : tx'[v] = tx[v]
  BY <1>1, <1>2 DEF IInv, TypeOK, TxStates
<1>5. /\ sent' \in [Rows -> Nat] /\ sent'[cur] = 1
      /\ \A v \in Rows \ {cur} : sent'[v] = sent[v]
  BY <1>1 DEF Send, IInv, TypeOK
<1>6. \A w \in Rows : VerdictOK(w, db[w])' /\ VerdictOK(w, durable[w])'
  <2>1. \A w \in Rows : VerdictOK(w, db[w]) /\ VerdictOK(w, durable[w])
    BY DEF IInv, TableOK
  <2> QED BY <1>1, <1>3, <1>4, <2>1 DEF VerdictOK
<1>7. TableOK(db)' /\ TableOK(durable)'
  BY <1>3, <1>6 DEF IInv, TableOK, OneAcquiringIn, RowOK
<1>8. SyncOK'
  BY <1>1, <1>3, <1>5 DEF IInv, SyncOK
<1>9. WorldOK'
  BY <1>1, <1>2, <1>3, <1>4, <1>5 DEF IInv, WorldOK
<1>10. EngineOK'
  <2>1. step' = "record" /\ cur' = cur /\ todo' = todo /\ phase' = phase /\ expired' = expired
    BY DEF Send
  <2>2. code' => answer = "deterministic"
    BY DEF Send
  <2>3. code' => tx'[cur] = "gone"
    BY <1>2, <1>4, <2>2
  <2>4. sent'[cur] > 0
    BY <1>5
  <2> QED BY <1>1, <1>3, <2>1, <2>3, <2>4 DEF IInv, EngineOK
<1>11. TypeOK'
  BY <1>3, <1>4, <1>5 DEF Send, IInv, TypeOK, faultVars
<1> QED BY <1>7, <1>8, <1>9, <1>10, <1>11 DEF IInv

\* signAndBroadcast, all of its steps.
LEMMA SignAndBroadcastKeeps ==
  ASSUME IInv, SignAndBroadcast
  PROVE  IInv'
<1>1. CASE SignPersists
  BY <1>1, SignPersistsKeeps
<1>2. CASE SignFails
  <2>1. cur \in Rows
    BY <1>2 DEF SignFails, IInv, EngineOK
  <2> QED BY <1>2, <2>1, HarmlessNeedsOperator, FinishKeeps DEF SignFails
<1>3. CASE Record
  <2>1. step = "record" /\ cur \in Rows \ todo /\ sent[cur] > 0
    BY <1>3 DEF Record, IInv, EngineOK
  <2>2. Harmless(RecordSent(cur), cur)
    BY <2>1, HarmlessRecordSent
  <2>3. CASE ~code
    BY <1>3, <2>1, <2>2, <2>3, FinishKeeps DEF Record
  <2>4. CASE code
    <3>1. StoreOK'
      BY <1>3, <2>1, <2>2, CommitKeeps DEF Record
    <3>2. db'[cur].txid /\ \A v \in todo : db'[v] = db[v]
      BY <1>3, <2>1, <2>2 DEF Record, CommitFull, Harmless, IInv, TypeOK, EngineOK
    <3>3. EngineOK'
      BY <1>3, <2>1, <2>4, <3>2 DEF Record, Goto, IInv, EngineOK, worldVars
    <3>4. TypeOK'
      BY <1>3, <2>4, <3>1 DEF Record, Goto, IInv, TypeOK, StoreOK, worldVars, faultVars
    <3> QED BY <3>1, <3>3, <3>4 DEF IInv, StoreOK
  <2> QED BY <2>3, <2>4
<1>4. ASSUME NEW answer, Send(answer)
      PROVE  IInv'
  BY <1>4, SendKeeps
<1> QED BY <1>1, <1>2, <1>3, <1>4 DEF SignAndBroadcast

\* resolve: what it read stays true until it writes.
LEMMA ResolveKeeps ==
  ASSUME IInv, Resolve
  PROVE  IInv'
<1>1. /\ step \in {"resolve", "lookup", "apply", "receipt"}
      /\ cur \in Rows \ todo /\ db[cur].txid
  BY DEF Resolve, ReadClock, Lookup, LookupErrs, ApplyAbsent, ApplyFound, ReceiptMissing,
         ReceiptSolid, IInv, EngineOK
<1>2. CASE ReadClock
  <2>1. StoreOK'
    BY <1>2, ControlKeeps DEF ReadClock
  <2>2. EngineOK'
    BY <1>1, <1>2 DEF ReadClock, IInv, EngineOK, storeVars, worldVars
  <2>3. TypeOK'
    BY <1>2, <2>1 DEF ReadClock, IInv, TypeOK, StoreOK, worldVars, faultVars
  <2> QED BY <2>1, <2>2, <2>3 DEF IInv, StoreOK
<1>3. CASE Lookup
  <2>1. StoreOK'
    BY <1>3, ControlKeeps DEF Lookup
  <2>2. found' => sent[cur] > 0
    <3>1. sent[cur] \in Nat /\ (sent[cur] = 0 <=> tx[cur] = "unsent")
      BY <1>1 DEF IInv, TypeOK, WorldOK
    <3>2. found' => tx[cur] # "unsent"
      BY <1>3 DEF Lookup, OnChain
    <3> QED BY <3>1, <3>2
  <2>3. ~found' /\ (code \/ expired) /\ ~HostClockAhead => tx[cur] \in {"unsent", "gone"}
    BY <1>1, <1>3 DEF Lookup, OnChain, TxStates, IInv, TypeOK, WorldOK, EngineOK
  <2>4. EngineOK'
    BY <1>1, <1>3, <2>2, <2>3 DEF Lookup, IInv, EngineOK, storeVars, worldVars
  <2>5. TypeOK'
    BY <1>3, <2>1 DEF Lookup, IInv, TypeOK, StoreOK, worldVars, faultVars
  <2> QED BY <2>1, <2>4, <2>5 DEF IInv, StoreOK
<1>4. CASE LookupErrs
  BY <1>1, <1>4, HarmlessNeedsOperator, HarmlessLookupFailed, FinishKeeps DEF LookupErrs
<1>5. CASE ApplyAbsent
  <2>1. Harmless(IF code \/ expired THEN FailAbsent(cur) ELSE LookupAnswered(cur, FALSE), cur)
    <3>1. CASE code \/ expired
      BY <1>1, <1>5, <3>1, HarmlessFailAbsent DEF ApplyAbsent, IInv, EngineOK
    <3>2. CASE ~(code \/ expired)
      BY <1>1, <3>2, HarmlessLookupAnswered
    <3> QED BY <3>1, <3>2
  <2> QED BY <1>1, <1>5, <2>1, FinishKeeps DEF ApplyAbsent
<1>6. CASE ApplyFound
  <2>1. sent[cur] > 0
    BY <1>6 DEF ApplyFound, IInv, EngineOK
  <2>2. Harmless(LookupAnswered(cur, TRUE), cur)
    BY <1>1, <2>1, HarmlessLookupAnswered
  <2>3. StoreOK'
    BY <1>1, <1>6, <2>2, CommitKeeps DEF ApplyFound
  <2>4. db'[cur].txid /\ \A v \in todo : db'[v] = db[v]
    BY <1>1, <1>6, <2>2 DEF ApplyFound, Commit, Harmless, IInv, TypeOK
  <2>5. EngineOK'
    BY <1>1, <1>6, <2>1, <2>4 DEF ApplyFound, Goto, IInv, EngineOK, worldVars
  <2>6. TypeOK'
    BY <1>6, <2>3 DEF ApplyFound, Goto, IInv, TypeOK, StoreOK, worldVars, faultVars
  <2> QED BY <2>3, <2>5, <2>6 DEF IInv, StoreOK
<1>7. CASE ReceiptMissing
  <2>1. StoreOK'
    BY <1>7, ControlKeeps DEF ReceiptMissing
  <2>2. EngineOK'
    BY <1>1, <1>7 DEF ReceiptMissing, Finish, IInv, EngineOK, storeVars, worldVars
  <2>3. TypeOK'
    BY <1>7, <2>1 DEF ReceiptMissing, Finish, IInv, TypeOK, StoreOK, worldVars, faultVars
  <2> QED BY <2>1, <2>2, <2>3 DEF IInv, StoreOK
<1>8. CASE ReceiptSolid
  BY <1>1, <1>8, HarmlessConfirmRow, HarmlessNeedsOperator, FinishKeeps DEF ReceiptSolid
<1> QED BY <1>2, <1>3, <1>4, <1>5, <1>6, <1>7, <1>8 DEF Resolve

\* Requests and operator decisions come between any two engine steps.
LEMMA OperatorsKeep ==
  ASSUME IInv, Operators
  PROVE  IInv'
<1>1. ASSUME NEW w \in Rows, Create(w)
      PROVE  IInv'
  <2>1. db[w].status = "none"
    BY <1>1 DEF Create, Oldest, RowsIn
  <2>2. ~db[w].txid
    BY <2>1 DEF IInv, TableOK, RowOK
  <2>3. Harmless([db EXCEPT ![w].status = "requested"], w)
    BY <2>1, <2>2, HarmlessStatus DEF Statuses, Counted, Closed, Acquiring, Awaiting
  <2> QED BY <1>1, <2>1, <2>3, OtherWriterKeeps DEF Create, Acquiring, Awaiting
<1>2. ASSUME NEW w \in Rows, NEW o \in {"confirmed", "failed"}, OperatorResolves(w, o)
      PROVE  IInv'
  <2>1. db[w].status = "needs_operator"
    BY <1>2 DEF OperatorResolves
  <2>2. Harmless([db EXCEPT ![w].status = o, ![w].resolvedBy = "operator"], w)
    BY <2>1, HarmlessDecision
  <2> QED BY <1>2, <2>1, <2>2, OtherWriterKeeps DEF OperatorResolves, Acquiring, Awaiting
<1> QED BY <1>1, <1>2 DEF Operators

\* The fate of a transaction moves on: never back to unsent, to absent only
\* from the open, and a solid payment stays.
LEMMA TxKeeps ==
  ASSUME IInv, NEW w \in Rows, NEW t \in TxStates \ {"unsent"}, TxBecomes(w, t),
         tx[w] \in {"pending", "paid", "reverted"},
         w \in chainExpired => t # "pending"
  PROVE  IInv'
<1>1. UNCHANGED <<db, durable, drift, sent, chainExpired, hostExpired>>
      /\ UNCHANGED <<boot, phase, todo, step, cur, code, expired, found, crashes, errors>>
  BY DEF TxBecomes, storeVars, clockVars, engineVars, faultVars
<1>2. /\ tx' \in [Rows -> TxStates] /\ tx'[w] = t
      /\ \A v \in Rows \ {w} : tx'[v] = tx[v]
  BY DEF TxBecomes, IInv, TypeOK
<1>3. \A v \in Rows : VerdictOK(v, db[v])' /\ VerdictOK(v, durable[v])'
  <2>1. \A v \in Rows : VerdictOK(v, db[v]) /\ VerdictOK(v, durable[v])
    BY DEF IInv, TableOK
  <2> QED BY <1>1, <1>2, <2>1 DEF VerdictOK
<1>4. TableOK(db)' /\ TableOK(durable)'
  BY <1>1, <1>3 DEF IInv, TableOK, OneAcquiringIn, RowOK
<1>5. SyncOK'
  BY <1>1 DEF IInv, SyncOK
<1>6. WorldOK'
  BY <1>1, <1>2 DEF IInv, WorldOK
<1>7. EngineOK'
  <2>1. step # "pick" => cur \in Rows
    BY DEF IInv, EngineOK
  <2> QED BY <1>1, <1>2, <2>1 DEF IInv, EngineOK
<1>8. TypeOK'
  BY <1>1, <1>2 DEF IInv, TypeOK
<1> QED BY <1>4, <1>5, <1>6, <1>7, <1>8 DEF IInv

\* The chain, the clocks, the follower and the drift check.
LEMMA ChainKeeps ==
  ASSUME IInv, Chain
  PROVE  IInv'
<1>1. ASSUME NEW w \in Rows, Land(w)
      PROVE  IInv'
  <2>1. w \notin chainExpired
    BY <1>1 DEF Land, IInv, WorldOK
  <2> QED BY <1>1, <2>1, TxKeeps DEF Land, TxStates, OnChain
<1>2. ASSUME NEW w \in Rows, Solidify(w)
      PROVE  IInv'
  BY <1>2, TxKeeps DEF Solidify, TxStates, OnChain
<1>3. ASSUME NEW w \in Rows, Reorg(w)
      PROVE  IInv'
  BY <1>3, TxKeeps DEF Reorg, TxStates, OnChain
<1>4. ASSUME NEW w \in Rows, ChainExpires(w)
      PROVE  IInv'
  <2>1. UNCHANGED <<db, durable, drift, sent, hostExpired>>
        /\ UNCHANGED <<boot, phase, todo, step, cur, code, expired, found, crashes, errors>>
    BY <1>4 DEF ChainExpires, storeVars, engineVars, faultVars
  <2>2. /\ tx' \in [Rows -> TxStates] /\ chainExpired' = chainExpired \cup {w}
        /\ \A v \in Rows : tx'[v] = IF v = w /\ tx[v] = "pending" THEN "gone" ELSE tx[v]
    BY <1>4 DEF ChainExpires, IInv, TypeOK, TxStates
  <2>3. \A v \in Rows : VerdictOK(v, db[v])' /\ VerdictOK(v, durable[v])'
    <3>1. \A v \in Rows : VerdictOK(v, db[v]) /\ VerdictOK(v, durable[v])
      BY DEF IInv, TableOK
    <3> QED BY <2>1, <2>2, <3>1 DEF VerdictOK
  <2>4. TableOK(db)' /\ TableOK(durable)'
    BY <2>1, <2>3 DEF IInv, TableOK, OneAcquiringIn, RowOK
  <2>5. SyncOK'
    BY <2>1 DEF IInv, SyncOK
  <2>6. WorldOK'
    BY <2>1, <2>2 DEF IInv, WorldOK
  <2>7. EngineOK'
    <3>1. step # "pick" => cur \in Rows
      BY DEF IInv, EngineOK
    <3>2. code => cur \in Rows
      BY <3>1 DEF IInv, EngineOK
    <3> QED BY <2>1, <2>2, <3>1, <3>2 DEF IInv, EngineOK
  <2>8. TypeOK'
    BY <2>1, <2>2 DEF IInv, TypeOK
  <2> QED BY <2>4, <2>5, <2>6, <2>7, <2>8 DEF IInv
<1>5. ASSUME NEW w \in Rows, HostExpires(w)
      PROVE  IInv'
  <2>1. UNCHANGED <<db, durable, drift, tx, sent, chainExpired>>
        /\ UNCHANGED <<boot, phase, todo, step, cur, code, expired, found, crashes, errors>>
    BY <1>5 DEF HostExpires, storeVars, engineVars, faultVars
  <2>2. hostExpired' = hostExpired \cup {w} /\ (HostClockAhead \/ w \in chainExpired)
    BY <1>5 DEF HostExpires
  <2>3. TableOK(db)' /\ TableOK(durable)'
    BY <2>1 DEF IInv, TableOK, VerdictOK, OneAcquiringIn, RowOK
  <2>4. SyncOK' /\ WorldOK'
    BY <2>1, <2>2 DEF IInv, SyncOK, WorldOK
  <2>5. EngineOK'
    BY <2>1, <2>2 DEF IInv, EngineOK
  <2>6. TypeOK'
    BY <2>1, <2>2 DEF IInv, TypeOK
  <2> QED BY <2>3, <2>4, <2>5, <2>6 DEF IInv
<1>6. ASSUME NEW w \in Rows, IngestPayout(w)
      PROVE  IInv'
  <2>1. Harmless([db EXCEPT ![w].debited = TRUE], w)
    BY HarmlessDebit
  <2>2. [db EXCEPT ![w].debited = TRUE][w].status = db[w].status
    BY DEF IInv, TypeOK, Row
  <2> QED BY <1>6, <2>1, <2>2, OtherWriterKeeps DEF IngestPayout
<1>7. ASSUME NEW a \in DriftAddresses, DriftChanges(a)
      PROVE  IInv'
  <2>1. UNCHANGED <<db, durable, tx, sent, chainExpired, hostExpired>>
        /\ UNCHANGED <<boot, phase, todo, step, cur, code, expired, found, crashes, errors>>
    BY <1>7 DEF DriftChanges, worldVars, engineVars, faultVars
  <2>2. drift' \subseteq DriftAddresses
    BY <1>7 DEF DriftChanges, IInv, TypeOK
  <2>3. TableOK(db)' /\ TableOK(durable)'
    BY <2>1 DEF IInv, TableOK, VerdictOK, OneAcquiringIn, RowOK
  <2>4. SyncOK' /\ WorldOK' /\ EngineOK'
    BY <2>1 DEF IInv, SyncOK, WorldOK, EngineOK
  <2>5. TypeOK'
    BY <2>1, <2>2 DEF IInv, TypeOK
  <2> QED BY <2>3, <2>4, <2>5 DEF IInv
<1> QED BY <1>1, <1>2, <1>3, <1>4, <1>5, <1>6, <1>7 DEF Chain

\* What a crash leaves on disk, and an engine that starts again, is right.
LEMMA FaultsKeep ==
  ASSUME IInv, Abort \/ Crash \/ PowerLoss
  PROVE  IInv'
<1>1. CASE Abort \/ Crash
  <2>1. StoreOK'
    BY <1>1, ControlKeeps DEF Abort, Crash
  <2>2. EngineOK'
    BY <1>1 DEF Abort, Crash, ResetEngine, EngineOK
  <2>3. crashes' \in Nat /\ errors' \in Nat
    BY <1>1 DEF Abort, Crash, IInv, TypeOK
  <2>4. boot' \in BOOLEAN
    BY <1>1 DEF Abort, Crash, IInv, TypeOK
  <2>5. ResetEngine /\ UNCHANGED worldVars
    BY <1>1 DEF Abort, Crash
  <2>6. TypeOK'
    BY <2>1, <2>3, <2>4, <2>5 DEF ResetEngine, IInv, TypeOK, StoreOK, worldVars
  <2> QED BY <2>1, <2>2, <2>6 DEF IInv, StoreOK
<1>2. CASE PowerLoss
  <2>1. db' = durable /\ UNCHANGED <<durable, drift, tx, sent, chainExpired, hostExpired, errors>>
    BY <1>2 DEF PowerLoss, worldVars
  <2>2. TableOK(db)' /\ TableOK(durable)'
    BY <2>1 DEF IInv, TableOK, VerdictOK, OneAcquiringIn, RowOK
  <2>3. SyncOK' /\ WorldOK'
    BY <2>1 DEF IInv, SyncOK, WorldOK
  <2>4. EngineOK'
    BY <1>2 DEF PowerLoss, ResetEngine, EngineOK
  <2>5. crashes' \in Nat
    BY <1>2 DEF PowerLoss, IInv, TypeOK
  <2>6. ResetEngine /\ boot' = TRUE
    BY <1>2 DEF PowerLoss
  <2>7. TypeOK'
    BY <2>1, <2>5, <2>6 DEF ResetEngine, IInv, TypeOK
  <2> QED BY <2>2, <2>3, <2>4, <2>7 DEF IInv
<1> QED BY <1>1, <1>2

\* A step that changes nothing keeps IInv.
LEMMA StutterKeeps ==
  ASSUME IInv, UNCHANGED vars
  PROVE  IInv'
<1>1. StoreOK'
  BY ControlKeeps DEF vars
<1>2. EngineOK'
  BY DEF vars, storeVars, engineVars, worldVars, IInv, EngineOK
<1>3. TypeOK'
  BY <1>1 DEF vars, engineVars, worldVars, faultVars, IInv, TypeOK, StoreOK
<1> QED BY <1>1, <1>2, <1>3 DEF IInv, StoreOK

\* The initial states satisfy IInv.
LEMMA InitHolds ==
  ASSUME Init
  PROVE  IInv
<1>1. NewRow \in Row
  BY LimitAssumption DEF NewRow, Row, Statuses, Resolvers
<1>2. TypeOK
  BY <1>1 DEF Init, TypeOK, TxStates
<1>3. TableOK(db) /\ TableOK(durable)
  BY DEF Init, NewRow, TableOK, RowOK, VerdictOK, OneAcquiringIn, Acquiring, Awaiting
<1>4. SyncOK /\ WorldOK /\ EngineOK
  BY DEF Init, NewRow, SyncOK, WorldOK, EngineOK, Closed
<1> QED BY <1>2, <1>3, <1>4 DEF IInv

\* Every step of the specification keeps IInv.
THEOREM StepKeeps ==
  ASSUME IInv, [Next]_vars
  PROVE  IInv'
<1>1. CASE Engine
  BY <1>1, WalkKeeps, ClaimKeeps, AcquireKeeps, SignAndBroadcastKeeps, ResolveKeeps DEF Engine
<1>2. CASE Operators
  BY <1>2, OperatorsKeep
<1>3. CASE Chain
  BY <1>3, ChainKeeps
<1>4. CASE Abort \/ Crash \/ PowerLoss
  BY <1>4, FaultsKeep
<1>5. CASE UNCHANGED vars
  BY <1>5, StutterKeeps
<1> QED BY <1>1, <1>2, <1>3, <1>4, <1>5 DEF Next

\* The inductive invariant holds in every reachable state.
THEOREM InvariantHolds == Spec => []IInv
<1>1. Init => IInv
  BY InitHolds
<1>2. IInv /\ [Next]_vars => IInv'
  BY StepKeeps
<1> QED BY <1>1, <1>2, PTL DEF Spec

-----------------------------------------------------------------------------
(* The safety properties.                                                   *)

\* Type correctness, for every value of the constants.
THEOREM TypeCorrect == Spec => []TypeOK
<1>1. IInv => TypeOK
  BY DEF IInv
<1> QED BY <1>1, InvariantHolds, PTL

\* signAndBroadcast issues at most one request per withdrawal row, through any
\* number of crashes, power losses, aborted ticks and forced recoveries.
THEOREM OneBroadcast == Spec => []AtMostOneBroadcast
<1>1. IInv => AtMostOneBroadcast
  BY DEF IInv, WorldOK, AtMostOneBroadcast
<1> QED BY <1>1, InvariantHolds, PTL

\* PersistWithdrawalAttempt's synced commit precedes the request: a power loss
\* at any point leaves every issued transaction known to the recovery.
THEOREM DurableAttempt == Spec => []AttemptDurable
<1>1. IInv => AttemptDurable
  BY DEF IInv, WorldOK, SyncOK, AttemptDurable
<1> QED BY <1>1, InvariantHolds, PTL

\* Rows rejected, waiting, or failed for want of resources never had a
\* transaction, so what they hold of the balance is really free again.
THEOREM Untouched == Spec => []RefusedUntouched
<1>1. IInv => RefusedUntouched
  <2> SUFFICES ASSUME IInv, NEW w \in Rows,
                      \/ db[w].status \in {"none", "requested", "rejected"} \cup Awaiting
                      \/ db[w].status = "failed" /\ db[w].resolvedBy = "resource_acquisition"
               PROVE  ~db[w].txid /\ sent[w] = 0 /\ tx[w] = "unsent"
    BY DEF RefusedUntouched
  <2>1. ~db[w].txid
    BY DEF IInv, TableOK, RowOK
  <2>2. sent[w] \in Nat /\ (sent[w] > 0 => db[w].txid) /\ (sent[w] = 0 <=> tx[w] = "unsent")
    BY DEF IInv, TypeOK, WorldOK
  <2> QED BY <2>1, <2>2
<1> QED BY <1>1, InvariantHolds, PTL

\* Provided the host's clock does not run ahead of the chain's, a row that
\* resolve failed for absence can no longer be paid: reading the clock before
\* the lookup, and only then failing the row, is enough.
THEOREM AbsenceIsFinal == ~HostClockAhead => (Spec => []FailedIsAbsent)
<1> SUFFICES ASSUME ~HostClockAhead
             PROVE  Spec => []FailedIsAbsent
  OBVIOUS
<1>1. IInv => FailedIsAbsent
  BY DEF IInv, TableOK, VerdictOK, FailedIsAbsent
<1> QED BY <1>1, InvariantHolds, PTL

\* Rows the engine confirmed, and all fees it ledgered, are of payouts that
\* succeeded in a solidified block.
THEOREM ConfirmedPaid == Spec => []ConfirmedIsPaid
<1>1. IInv => ConfirmedIsPaid
  BY DEF IInv, TableOK, RowOK, VerdictOK, ConfirmedIsPaid
<1> QED BY <1>1, InvariantHolds, PTL

\* The claim's exclusivity holds among rows that acquire resources or sign,
\* through restarts too.
THEOREM OneAcquires == Spec => []OneAcquiring
<1>1. IInv => OneAcquiring
  BY DEF IInv, TableOK, OneAcquiringIn, OneAcquiring
<1> QED BY <1>1, InvariantHolds, PTL

-----------------------------------------------------------------------------
(* What a step may never do.                                                *)

\* A step that writes the table writes one row of it harmlessly.
Updates ==
  \E w \in Rows, d \in [Rows -> Row] :
    Harmless(d, w) /\ (Commit(d) \/ CommitFull(d)) /\ UNCHANGED <<tx, sent>>

\* A commit of a harmless update leaves the chain and the requests alone.
LEMMA HarmlessUpdates ==
  ASSUME NEW w \in Rows, NEW d, Harmless(d, w), Commit(d) \/ CommitFull(d), UNCHANGED worldVars
  PROVE  Updates
BY DEF Updates, Harmless, worldVars

\* The engine's writes, but for the persisted attempt.
LEMMA EngineUpdates ==
  ASSUME IInv, Engine, ~SignPersists, \A a : ~Send(a)
  PROVE  Updates \/ UNCHANGED <<db, durable, sent, tx>>
<1>1. step # "pick" => cur \in Rows
  BY DEF IInv, EngineOK
<1>2. CASE BeginRecovery \/ EndRecovery \/ EndAwaiting \/ ClaimNone
  BY <1>2 DEF BeginRecovery, EndRecovery, EndAwaiting, ClaimNone, storeVars, worldVars
<1>3. ASSUME NEW w \in Rows, Recover(w) \/ AcquireNext(w)
      PROVE  Updates \/ UNCHANGED <<db, durable, sent, tx>>
  <2>1. CASE RecoverUnsigned(w)
    BY <2>1, HarmlessNeedsOperator, HarmlessUpdates DEF RecoverUnsigned
  <2>2. CASE RecoverAwaiting(w) \/ RecoverSkip(w) \/ RecoverResolve(w) \/ AcquireNext(w)
    BY <2>2 DEF RecoverAwaiting, RecoverSkip, RecoverResolve, AcquireNext, storeVars, worldVars
  <2> QED BY <1>3, <2>1, <2>2 DEF Recover
<1>4. ASSUME NEW w \in Rows, Claim(w)
      PROVE  Updates \/ UNCHANGED <<db, durable, sent, tx>>
  <2>1. CASE ClaimGranted(w)
    <3>1. db[w].status = "requested" /\ ~db[w].txid /\ AddressFree(w)
      BY <2>1 DEF ClaimGranted, ClaimNext, Oldest, RowsIn
    <3>2. Harmless([db EXCEPT ![w].status = "awaiting_resources"], w)
      BY <3>1, HarmlessStatus DEF Statuses, Counted, InFlight, Awaiting, Closed
    <3> QED BY <2>1, <3>2, HarmlessUpdates DEF ClaimGranted
  <2>2. CASE ClaimRejected(w)
    <3>1. db[w].status = "requested" /\ ~db[w].txid
      BY <2>2 DEF ClaimRejected, ClaimNext, Oldest, RowsIn
    <3>2. Harmless([db EXCEPT ![w].status = "rejected"], w)
      BY <3>1, HarmlessStatus DEF Statuses, Closed, Acquiring, Awaiting
    <3> QED BY <2>2, <3>2, HarmlessUpdates DEF ClaimRejected
  <2>3. CASE ClaimWaits(w)
    BY <2>3 DEF ClaimWaits, storeVars, worldVars
  <2> QED BY <1>4, <2>1, <2>2, <2>3 DEF Claim
<1>5. CASE Acquire
  <2>1. cur \in Rows /\ db[cur].status \in Awaiting /\ ~db[cur].txid
    BY <1>5 DEF Acquire, AcquirePending, AcquireFails, AcquireUnclear, AcquireReady, IInv, EngineOK
  <2>2. ASSUME NEW s \in Awaiting \cup {"signing"}
        PROVE  Harmless([db EXCEPT ![cur].status = s], cur)
    BY <2>1, HarmlessStatus DEF Statuses, Counted, InFlight, Awaiting, Closed, Acquiring
  <2>3. ASSUME NEW s \in Awaiting, AcquirePending(s)
        PROVE  Updates
    <3>1. Harmless([db EXCEPT ![cur].status = s], cur)
      BY <2>2
    <3> QED BY <2>1, <2>3, <3>1, HarmlessUpdates DEF AcquirePending
  <2>4. CASE AcquireFails
    BY <2>1, <2>4, HarmlessFailResources, HarmlessUpdates DEF AcquireFails
  <2>5. CASE AcquireUnclear
    BY <2>1, <2>5, HarmlessNeedsOperator, HarmlessUpdates DEF AcquireUnclear
  <2>6. CASE AcquireReady
    BY <2>1, <2>2, <2>6, HarmlessUpdates DEF AcquireReady
  <2> QED BY <1>5, <2>3, <2>4, <2>5, <2>6 DEF Acquire
<1>6. CASE SignAndBroadcast
  <2>1. CASE SignFails
    BY <1>1, <2>1, HarmlessNeedsOperator, HarmlessUpdates DEF SignFails
  <2>2. CASE Record
    <3>1. cur \in Rows /\ sent[cur] > 0
      BY <1>1, <2>2 DEF Record, IInv, EngineOK
    <3> QED BY <2>2, <3>1, HarmlessRecordSent, HarmlessUpdates DEF Record
  <2> QED BY <1>6, <2>1, <2>2 DEF SignAndBroadcast
<1>7. CASE Resolve
  <2>1. /\ step \in {"resolve", "lookup", "apply", "receipt"}
        /\ cur \in Rows /\ db[cur].txid
    BY <1>7 DEF Resolve, ReadClock, Lookup, LookupErrs, ApplyAbsent, ApplyFound, ReceiptMissing,
           ReceiptSolid, IInv, EngineOK
  <2>2. CASE ReadClock \/ Lookup \/ ReceiptMissing
    BY <2>2 DEF ReadClock, Lookup, ReceiptMissing, storeVars, worldVars
  <2>3. CASE LookupErrs
    BY <2>1, <2>3, HarmlessNeedsOperator, HarmlessLookupFailed, HarmlessUpdates DEF LookupErrs
  <2>4. CASE ApplyAbsent
    <3>1. CASE code \/ expired
      BY <2>1, <2>4, <3>1, HarmlessFailAbsent, HarmlessUpdates DEF ApplyAbsent, IInv, EngineOK
    <3>2. CASE ~(code \/ expired)
      BY <2>1, <2>4, <3>2, HarmlessLookupAnswered, HarmlessUpdates DEF ApplyAbsent
    <3> QED BY <3>1, <3>2
  <2>5. CASE ApplyFound
    <3>1. sent[cur] > 0
      BY <2>5 DEF ApplyFound, IInv, EngineOK
    <3> QED BY <2>1, <2>5, <3>1, HarmlessLookupAnswered, HarmlessUpdates DEF ApplyFound
  <2>6. CASE ReceiptSolid
    BY <2>1, <2>6, HarmlessConfirmRow, HarmlessNeedsOperator, HarmlessUpdates DEF ReceiptSolid
  <2> QED BY <1>7, <2>2, <2>3, <2>4, <2>5, <2>6 DEF Resolve
<1> QED BY <1>2, <1>3, <1>4, <1>5, <1>6, <1>7 DEF Engine

\* Every step: a harmless write, the attempt persisted, a broadcast request,
\* a power loss, a move of the chain, or nothing of these.
LEMMA StepShape ==
  ASSUME IInv, [Next]_vars
  PROVE  \/ Updates \/ SignPersists \/ (\E a : Send(a)) \/ PowerLoss
         \/ \E w \in Rows : Land(w) \/ Solidify(w) \/ Reorg(w) \/ ChainExpires(w)
         \/ UNCHANGED <<db, durable, sent, tx>>
<1>1. CASE Engine
  BY <1>1, EngineUpdates
<1>2. CASE Operators
  <2>1. ASSUME NEW w \in Rows, Create(w)
        PROVE  Updates
    <3>1. db[w].status = "none"
      BY <2>1 DEF Create, Oldest, RowsIn
    <3>2. ~db[w].txid
      BY <3>1 DEF IInv, TableOK, RowOK
    <3>3. Harmless([db EXCEPT ![w].status = "requested"], w)
      BY <3>1, <3>2, HarmlessStatus DEF Statuses, Counted, Closed, Acquiring, Awaiting
    <3> QED BY <2>1, <3>3, HarmlessUpdates DEF Create
  <2>2. ASSUME NEW w \in Rows, NEW o \in {"confirmed", "failed"}, OperatorResolves(w, o)
        PROVE  Updates
    BY <2>2, HarmlessDecision, HarmlessUpdates DEF OperatorResolves
  <2> QED BY <1>2, <2>1, <2>2 DEF Operators
<1>3. CASE Chain
  <2>1. ASSUME NEW w \in Rows, HostExpires(w)
        PROVE  UNCHANGED <<db, durable, sent, tx>>
    BY <2>1 DEF HostExpires, storeVars
  <2>2. ASSUME NEW w \in Rows, IngestPayout(w)
        PROVE  Updates
    BY <2>2, HarmlessDebit, HarmlessUpdates DEF IngestPayout
  <2>3. ASSUME NEW a \in DriftAddresses, DriftChanges(a)
        PROVE  UNCHANGED <<db, durable, sent, tx>>
    BY <2>3 DEF DriftChanges, worldVars
  <2> QED BY <1>3, <2>1, <2>2, <2>3 DEF Chain
<1>4. CASE Abort \/ Crash
  BY <1>4 DEF Abort, Crash, storeVars, worldVars
<1>5. CASE UNCHANGED vars
  BY <1>5 DEF vars, storeVars, worldVars
<1> QED BY <1>1, <1>2, <1>3, <1>4, <1>5 DEF Next

\* The txid of a row is never cleared, by a commit or by a power loss.
LEMMA TxidsKept ==
  ASSUME IInv, [Next]_vars, NEW w \in Rows, db[w].txid
  PROVE  db'[w].txid
<1>1. CASE Updates
  <2>1. PICK v \in Rows, d \in [Rows -> Row] : Harmless(d, v) /\ db' = d
    BY <1>1 DEF Updates, Commit, CommitFull
  <2> QED BY <2>1 DEF Harmless
<1>2. CASE SignPersists
  <2>1. db' = [db EXCEPT ![cur].txid = TRUE] /\ db \in [Rows -> Row]
    BY <1>2 DEF SignPersists, CommitFull, IInv, TypeOK
  <2> QED BY <2>1 DEF Row
<1>3. CASE PowerLoss
  BY <1>3 DEF PowerLoss, IInv, SyncOK
<1>4. CASE UNCHANGED db
  BY <1>4
<1>5. ASSUME NEW a, Send(a)
      PROVE  UNCHANGED db
  BY <1>5 DEF Send, storeVars
<1>6. ASSUME NEW v \in Rows, Land(v) \/ Solidify(v) \/ Reorg(v) \/ ChainExpires(v)
      PROVE  UNCHANGED db
  BY <1>6 DEF Land, Solidify, Reorg, ChainExpires, TxBecomes, storeVars
<1> QED BY <1>1, <1>2, <1>3, <1>4, <1>5, <1>6, StepShape

\* No step, a power loss included, takes a row with a txid back to a status
\* from which it would be signed again.
THEOREM SpentStays == Spec => SpentStaysSpent
<1>1. ASSUME IInv, [Next]_vars, NEW w \in Rows, db[w].txid
      PROVE  db'[w].txid /\ db'[w].status \notin {"none", "requested"} \cup Awaiting
  <2>1. db'[w].txid
    BY <1>1, TxidsKept
  <2>2. RowOK(db[w])'
    BY <1>1, StepKeeps DEF IInv, TableOK
  <2> QED BY <2>1, <2>2 DEF RowOK
<1>2. IInv /\ [Next]_vars =>
        [\A w \in Rows : db[w].txid =>
           db'[w].txid /\ db'[w].status \notin {"none", "requested"} \cup Awaiting]_vars
  BY <1>1
<1> QED BY <1>2, InvariantHolds, PTL DEF Spec, SpentStaysSpent

-----------------------------------------------------------------------------
(* The refinement.                                                          *)

\* A sync that takes each row's stage at most forward is a Decide.
LEMMA SyncDecides ==
  ASSUME IInv, UNCHANGED <<tx, sent>>, NEW d \in [Rows -> Row], durable' = d,
         \A w \in Rows : /\ sent[w] = 0 /\ db[w].status # "none" => d[w].status # "none"
                         /\ sent[w] = 0 /\ db[w].status \in Closed => d[w].status \in Closed
  PROVE  Promise!Next
<1> DEFINE stage == [w \in Rows |-> Stage(w)]
<1>1. stage' \in [Rows -> {"new", "open", "closed", "spent"}]
  BY DEF Stage
<1>2. ASSUME NEW w \in Rows
      PROVE  \/ stage'[w] = stage[w]
             \/ stage[w] = "new" /\ stage'[w] \in {"open", "closed"}
             \/ stage[w] = "open" /\ stage'[w] = "closed"
  <2>1. sent[w] \in Nat /\ sent'[w] = sent[w] /\ durable'[w] = d[w]
    BY DEF IInv, TypeOK
  <2>2. CASE sent[w] > 0
    BY <2>1, <2>2 DEF Stage
  <2>3. CASE sent[w] = 0
    <3>1. durable[w].status # "none" => d[w].status # "none"
      BY <2>3 DEF IInv, SyncOK
    <3>2. durable[w].status \in Closed => d[w].status \in Closed
      BY <2>3 DEF IInv, SyncOK
    <3> QED BY <2>1, <2>3, <3>1, <3>2 DEF Stage, Closed
  <2> QED BY <2>1, <2>2, <2>3
<1>3. UNCHANGED [w \in Rows |-> Payout(w)]
  BY DEF Payout
<1>4. Promise!Decide
  BY <1>1, <1>2, <1>3 DEF Promise!Decide
<1> QED BY <1>4 DEF Promise!Next

\* The engine implements SinglePayout: whatever fails, a request is closed or
\* spent, spent once, and paid only when spent.
THEOREM PromiseKept == Spec => KeepsPromise
<1>1. ASSUME Init
      PROVE  Promise!Init
  <2>1. \A w \in Rows : durable[w].status = "none" /\ sent[w] = 0 /\ tx[w] = "unsent"
    BY <1>1 DEF Init, NewRow
  <2>2. \A w \in Rows : Stage(w) = "new"
    BY <2>1 DEF Stage, Closed
  <2>3. \A w \in Rows : Payout(w) = "none"
    BY <2>1 DEF Payout
  <2> QED BY <2>2, <2>3 DEF Promise!Init
<1>2. ASSUME IInv, [Next]_vars
      PROVE  [Promise!Next]_(Promise!vars)
  <2>1. CASE UNCHANGED <<durable, sent, tx>>
    BY <2>1 DEF Promise!vars, Stage, Payout
  <2>2. CASE Updates
    <3>1. PICK w \in Rows, d \in [Rows -> Row] :
            Harmless(d, w) /\ (Commit(d) \/ CommitFull(d)) /\ UNCHANGED <<tx, sent>>
      BY <2>2 DEF Updates
    <3>2. CASE durable' = d
      BY <1>2, <3>1, <3>2, SyncDecides DEF Harmless
    <3>3. CASE durable' = durable
      BY <2>1, <3>1, <3>3
    <3> QED BY <3>1, <3>2, <3>3 DEF Commit, CommitFull
  <2>3. CASE SignPersists
    <3> DEFINE d == [db EXCEPT ![cur].txid = TRUE]
    <3>1. durable' = d /\ UNCHANGED <<tx, sent>>
      BY <2>3 DEF SignPersists, CommitFull, worldVars
    <3>2. d \in [Rows -> Row] /\ \A w \in Rows : d[w].status = db[w].status
      <4>1. cur \in Rows /\ db \in [Rows -> Row] /\ db[cur] \in Row
        BY <1>2, <2>3 DEF SignPersists, IInv, TypeOK, EngineOK
      <4>2. [db[cur] EXCEPT !.txid = TRUE] \in Row
        BY <4>1 DEF Row
      <4> QED BY <4>1, <4>2 DEF Row
    <3> QED BY <1>2, <3>1, <3>2, SyncDecides
  <2>4. ASSUME NEW a, Send(a)
        PROVE  Promise!Next
    <3>1. /\ cur \in Rows /\ sent[cur] = 0 /\ durable[cur].status = "signing"
          /\ tx[cur] = "unsent" /\ UNCHANGED durable
      BY <1>2, <2>4 DEF Send, storeVars, IInv, EngineOK, WorldOK
    <3>2. sent'[cur] = 1 /\ \A v \in Rows \ {cur} : sent'[v] = sent[v]
      BY <1>2, <2>4, <3>1 DEF Send, IInv, TypeOK
    <3>3. tx'[cur] \in {"pending", "gone"} /\ \A v \in Rows \ {cur} : tx'[v] = tx[v]
      BY <1>2, <2>4, <3>1 DEF Send, IInv, TypeOK
    <3>4. Stage(cur) = "open"
      BY <3>1 DEF Stage, Closed
    <3>5. \A v \in Rows : Stage(v)' = IF v = cur THEN "spent" ELSE Stage(v)
      BY <3>1, <3>2 DEF Stage
    <3>6. [w \in Rows |-> Stage(w)]' = [[w \in Rows |-> Stage(w)] EXCEPT ![cur] = "spent"]
      BY <3>1, <3>5
    <3>7. UNCHANGED [w \in Rows |-> Payout(w)]
      BY <3>1, <3>3 DEF Payout
    <3> QED BY <3>1, <3>4, <3>6, <3>7 DEF Promise!Next, Promise!Spend
  <2>5. CASE PowerLoss
    BY <2>1, <2>5 DEF PowerLoss, worldVars
  <2>6. ASSUME NEW w \in Rows, NEW t \in TxStates, TxBecomes(w, t), tx[w] \in {"pending", "paid", "reverted"},
               tx[w] = "paid" \/ t \notin {"solidPaid"}
        PROVE  [Promise!Next]_(Promise!vars)
    <3>1. tx \in [Rows -> TxStates] /\ tx' = [tx EXCEPT ![w] = t] /\ UNCHANGED <<durable, sent>>
      BY <1>2, <2>6 DEF TxBecomes, storeVars, IInv, TypeOK
    <3>2. sent[w] > 0
      BY <1>2, <2>6 DEF IInv, TypeOK, WorldOK
    <3>3. Stage(w) = "spent" /\ UNCHANGED [v \in Rows |-> Stage(v)]
      BY <3>1, <3>2 DEF Stage
    <3> DEFINE payout == [v \in Rows |-> Payout(v)]
    <3>4. payout' = [payout EXCEPT ![w] = Payout(w)']
      BY <3>1 DEF Payout
    <3>5. Payout(w)' = IF t = "paid" THEN "paid" ELSE IF t = "solidPaid" THEN "final" ELSE "none"
      BY <3>1 DEF Payout
    <3>6. Payout(w) = IF tx[w] = "paid" THEN "paid" ELSE "none"
      BY <2>6 DEF Payout
    <3>7. CASE Payout(w)' = Payout(w)
      <4>1. UNCHANGED payout
        BY <3>4, <3>7
      <4> QED BY <3>3, <4>1 DEF Promise!vars
    <3>8. CASE Payout(w)' # Payout(w)
      BY <2>6, <3>3, <3>4, <3>5, <3>6, <3>8 DEF Promise!Next, Promise!Pays
    <3> QED BY <3>7, <3>8
  <2>7. ASSUME NEW w \in Rows, Land(w) \/ Solidify(w) \/ Reorg(w)
        PROVE  [Promise!Next]_(Promise!vars)
    BY <2>6, <2>7 DEF Land, Solidify, Reorg, TxStates, OnChain
  <2>8. ASSUME NEW w \in Rows, ChainExpires(w)
        PROVE  [Promise!Next]_(Promise!vars)
    <3>1. UNCHANGED <<durable, sent>> /\ tx \in [Rows -> TxStates]
          /\ tx' = [tx EXCEPT ![w] = IF @ = "pending" THEN "gone" ELSE @]
      BY <1>2, <2>8 DEF ChainExpires, storeVars, IInv, TypeOK
    <3>2. \A v \in Rows : Stage(v)' = Stage(v) /\ Payout(v)' = Payout(v)
      BY <3>1 DEF Stage, Payout
    <3> QED BY <3>2 DEF Promise!vars
  <2> QED BY <1>2, <2>1, <2>2, <2>3, <2>4, <2>5, <2>7, <2>8, StepShape
<1> QED BY <1>1, <1>2, InvariantHolds, PTL DEF Spec, KeepsPromise, Promise!Spec
=============================================================================
