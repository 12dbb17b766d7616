---------------------------- MODULE OutboxProofs ----------------------------
(***************************************************************************)
(* IInv of Outbox is inductive, and what follows from it: no event is sent *)
(* beside one that precedes it in its pair, a bound on the requests sent   *)
(* for it, and delivery in order, for any number of rows, pairs, consumers,*)
(* workers, crashes and errors, and whatever the stamps of the rows.       *)
(***************************************************************************)
EXTENDS Outbox, TLAPS

-----------------------------------------------------------------------------
(* Types.                                                                   *)

\* The updates of a row keep it a row.
LEMMA RowsWritten ==
  ASSUME NEW r \in Row
  PROVE  /\ \A s \in Statuses : [r EXCEPT !.status = s] \in Row
         /\ [r EXCEPT !.status = "failed", !.attempts = @ + 1] \in Row
         /\ [r EXCEPT !.status = "pending", !.due = FALSE] \in Row
         /\ [r EXCEPT !.status = "pending", !.attempts = 0, !.due = TRUE] \in Row
         /\ [r EXCEPT !.due = TRUE] \in Row
<1>1. \A s \in Statuses : [r EXCEPT !.status = s] \in Row
  <2> TAKE s \in Statuses
  <2> QED BY DEF Row
<1>2. ASSUME NEW q \in Row, NEW n \in Nat PROVE [q EXCEPT !.attempts = n] \in Row
  BY DEF Row
<1>3. ASSUME NEW q \in Row, NEW b \in BOOLEAN PROVE [q EXCEPT !.due = b] \in Row
  BY DEF Row
<1>4. "failed" \in Statuses /\ "pending" \in Statuses /\ r.attempts + 1 \in Nat /\ 0 \in Nat
  BY DEF Row, Statuses
<1>5. /\ [[r EXCEPT !.status = "failed"] EXCEPT !.attempts = r.attempts + 1] \in Row
      /\ [[r EXCEPT !.status = "pending"] EXCEPT !.due = FALSE] \in Row
      /\ [[[r EXCEPT !.status = "pending"] EXCEPT !.attempts = 0] EXCEPT !.due = TRUE] \in Row
  BY <1>1, <1>2, <1>3, <1>4
<1>6. /\ [[r EXCEPT !.status = "failed"] EXCEPT !.attempts = r.attempts + 1]
           = [r EXCEPT !.status = "failed", !.attempts = @ + 1]
      /\ [[r EXCEPT !.status = "pending"] EXCEPT !.due = FALSE]
           = [r EXCEPT !.status = "pending", !.due = FALSE]
      /\ [[[r EXCEPT !.status = "pending"] EXCEPT !.attempts = 0] EXCEPT !.due = TRUE]
           = [r EXCEPT !.status = "pending", !.attempts = 0, !.due = TRUE]
  BY DEF Row
<1>7. [r EXCEPT !.due = TRUE] \in Row
  BY <1>3
<1> QED BY <1>1, <1>5, <1>6, <1>7

\* An outcome that Settle records.
LEMMA FailType ==
  ASSUME TypeOK, NEW e \in Events PROVE Fail(e) \in [Events -> Row]
<1>1. outbox[e] \in Row /\ outbox \in [Events -> Row]
  BY DEF TypeOK
<1>2. [outbox[e] EXCEPT !.status = "dead"] \in Row
      /\ [outbox[e] EXCEPT !.status = "pending", !.due = FALSE] \in Row
  BY <1>1, RowsWritten DEF Statuses
<1>3. [outbox EXCEPT ![e].status = "dead"] = [outbox EXCEPT ![e] = [outbox[e] EXCEPT !.status = "dead"]]
      /\ [outbox EXCEPT ![e].status = "pending", ![e].due = FALSE]
         = [outbox EXCEPT ![e] = [outbox[e] EXCEPT !.status = "pending", !.due = FALSE]]
  BY <1>1 DEF Row
<1> QED BY <1>1, <1>2, <1>3 DEF Fail

\* The table stays a table.
LEMMA TableType == TypeOK /\ WorkerOK /\ [Next]_vars => outbox' \in [Events -> Row]
<1> SUFFICES ASSUME TypeOK, WorkerOK, [Next]_vars PROVE outbox' \in [Events -> Row]
  OBVIOUS
<1>0. outbox \in [Events -> Row] /\ \A e \in Events : outbox[e] \in Row
  BY DEF TypeOK
<1>1. CASE UNCHANGED outbox
  BY <1>0, <1>1
<1>2. ASSUME NEW w \in Workers, NEW e \in Events, Claim(w, e) PROVE outbox' \in [Events -> Row]
  <2>1. outbox' = [outbox EXCEPT ![e] = [outbox[e] EXCEPT !.status = "failed", !.attempts = @ + 1]]
    BY <1>0, <1>2 DEF Claim, Row
  <2> QED BY <1>0, <2>1, RowsWritten
<1>3. ASSUME NEW w \in Workers, Settle(w) PROVE outbox' \in [Events -> Row]
  <2> DEFINE e == worker[w].event
  <2>1. e \in Events
    BY <1>3 DEF Settle, WorkerOK
  <2>2. [outbox EXCEPT ![e] = [outbox[e] EXCEPT !.status = "delivered"]] \in [Events -> Row]
    BY <1>0, <2>1, RowsWritten DEF Statuses
  <2>3. [outbox EXCEPT ![e].status = "delivered"] \in [Events -> Row]
    BY <1>0, <2>1, <2>2 DEF Row
  <2> QED BY <1>0, <1>3, <2>1, <2>3, FailType DEF Settle
<1>4. CASE ReloadApply
  <2>1. \A e \in Events : [outbox[e] EXCEPT !.status = "dead"] \in Row
    BY <1>0, RowsWritten DEF Statuses
  <2> QED BY <1>0, <1>4, <2>1 DEF ReloadApply
<1>5. ASSUME NEW e \in Events, Elapse(e) PROVE outbox' \in [Events -> Row]
  <2>1. outbox' = [outbox EXCEPT ![e] = [outbox[e] EXCEPT !.due = TRUE]]
    BY <1>0, <1>5 DEF Elapse, Row
  <2> QED BY <1>0, <2>1, RowsWritten
<1>6. ASSUME NEW e \in Events, NEW p \in Pairs, NEW stamp \in Stamps, Insert(e, p, stamp)
      PROVE outbox' \in [Events -> Row]
  BY <1>0, <1>6 DEF Insert, Row, Statuses
<1>7. ASSUME NEW S \in SUBSET Events, Retry(S) PROVE outbox' \in [Events -> Row]
  <2>1. \A e \in Events : [outbox[e] EXCEPT !.status = "pending", !.attempts = 0, !.due = TRUE] \in Row
    BY <1>0, RowsWritten
  <2> QED BY <1>0, <1>7, <2>1 DEF Retry
<1>8. CASE outbox' = RecoverClaims
  <2>1. \A e \in Events : [outbox[e] EXCEPT !.status = "pending"] \in Row
    BY <1>0, RowsWritten DEF Statuses
  <2> QED BY <1>0, <1>8, <2>1 DEF RecoverClaims
<1> QED
  BY <1>1, <1>2, <1>3, <1>4, <1>5, <1>6, <1>7, <1>8
  DEF Next, Attempt, Reload, Environment, Start, Crash, Snapshot, NoneClaimed, PrepareFails,
      PostLost, PostAnswered, ClaimErrs, SettleErrs, ReloadRefused, ReloadProducers, ReloadDispatcher,
      Arrive, Edit, vars

\* A goroutine stays a goroutine.
LEMMA WorkerType == TypeOK /\ [Next]_vars => worker' \in [Workers -> Goroutine]
<1> SUFFICES ASSUME TypeOK, [Next]_vars PROVE worker' \in [Workers -> Goroutine]
  OBVIOUS
<1>0. worker \in [Workers -> Goroutine] /\ \A w \in Workers : worker[w] \in Goroutine
  BY DEF TypeOK
<1>1. CASE UNCHANGED worker
  BY <1>0, <1>1
<1>2. Idle \in Goroutine
  BY DEF Idle, Goroutine
<1>3. ASSUME NEW w \in Workers, worker' = [worker EXCEPT ![w] = Idle]
      PROVE worker' \in [Workers -> Goroutine]
  BY <1>0, <1>2, <1>3
<1>4. ASSUME NEW w \in Workers, Snapshot(w) PROVE worker' \in [Workers -> Goroutine]
  BY <1>0, <1>4 DEF Snapshot, Goroutine
<1>5. ASSUME NEW w \in Workers, NEW e \in Events, Claim(w, e)
      PROVE worker' \in [Workers -> Goroutine]
  BY <1>0, <1>2, <1>5 DEF Claim, Goroutine
<1>6. ASSUME NEW w \in Workers, NEW ok \in BOOLEAN,
             worker' = [worker EXCEPT ![w].at = "posted", ![w].ok = ok]
      PROVE worker' \in [Workers -> Goroutine]
  BY <1>0, <1>6 DEF Goroutine
<1>7. CASE Crash
  BY <1>2, <1>7 DEF Crash
<1> QED
  BY <1>1, <1>3, <1>4, <1>5, <1>6, <1>7
  DEF Next, Attempt, Reload, Environment, Start, NoneClaimed, PrepareFails, Settle,
      PostLost, PostAnswered, ClaimErrs, SettleErrs, ReloadApply, ReloadRefused, ReloadProducers, ReloadDispatcher,
      Arrive, Edit, Elapse, Insert, Retry, vars

\* Every step keeps the types.
LEMMA TypeStep == TypeOK /\ WorkerOK /\ [Next]_vars => TypeOK'
<1> SUFFICES ASSUME TypeOK, WorkerOK, [Next]_vars PROVE TypeOK'
  OBVIOUS
<1>1. outbox' \in [Events -> Row] /\ worker' \in [Workers -> Goroutine]
  BY TableType, WorkerType
<1> DEFINE Networked == wire' \subseteq Events /\ got' \subseteq Events /\ posts' \in [Events -> Nat]
<1>2. Networked
  <2>1. CASE UNCHANGED networkVars
    BY <2>1 DEF TypeOK, networkVars
  <2>2. ASSUME NEW w \in Workers, PostLost(w) \/ \E ok \in BOOLEAN : PostAnswered(w, ok)
        PROVE Networked
    <3>1. worker[w].event \in Events
      BY <2>2 DEF PostLost, PostAnswered, WorkerOK
    <3> QED BY <2>2, <3>1 DEF PostLost, PostAnswered, TypeOK
  <2>3. ASSUME NEW e \in Events, Arrive(e)
        PROVE Networked
    BY <2>3 DEF Arrive, TypeOK
  <2>4. ASSUME NEW S \in SUBSET Events, Retry(S)
        PROVE Networked
    BY <2>4 DEF Retry, TypeOK
  <2> QED
    BY <2>1, <2>2, <2>3, <2>4
    DEF Next, Attempt, Reload, Environment, Start, Crash, Snapshot, Claim, NoneClaimed,
        PrepareFails, Settle, ClaimErrs, SettleErrs, ReloadApply, ReloadRefused,
        ReloadProducers, ReloadDispatcher, Edit, Elapse, Insert, networkVars, vars
<1> DEFINE Configured ==
      /\ file' \in [Consumers -> Settings] /\ loaded' \in [Consumers -> Settings]
      /\ stage' \in {"none", "producers", "dispatcher"}
      /\ producers' \in [Consumers -> Settings] /\ dispatcher' \in [Consumers -> Settings]
<1>3. Configured
  <2>1. CASE UNCHANGED configVars
    BY <2>1 DEF TypeOK, configVars
  <2>2. CASE Reload
    BY <2>2 DEF Reload, ReloadApply, ReloadRefused, ReloadProducers, ReloadDispatcher, TypeOK
  <2>3. ASSUME NEW c \in Consumers, NEW setting \in Settings, Edit(c, setting)
        PROVE Configured
    BY <2>3 DEF Edit, TypeOK
  <2>4. CASE Start \/ Crash
    BY <2>4 DEF Start, Crash, TypeOK
  <2> QED
    BY <2>1, <2>2, <2>3, <2>4
    DEF Next, Attempt, Environment, Snapshot, Claim, NoneClaimed, PrepareFails, PostLost,
        PostAnswered, Settle, ClaimErrs, SettleErrs, Arrive, Elapse, Insert, Retry,
        configVars, vars
<1>4. running' \in BOOLEAN
  BY DEF TypeOK, Next, Attempt, Reload, Environment, Start, Crash, Snapshot, Claim, NoneClaimed,
         PrepareFails, PostLost, PostAnswered, Settle, ClaimErrs, SettleErrs, ReloadApply,
         ReloadRefused, ReloadProducers, ReloadDispatcher, Arrive, Edit, Elapse, Insert, Retry, vars
<1>5. crashes' \in Nat /\ errors' \in Nat /\ edits' \in Nat /\ retries' \in Nat
  <2> DEFINE Counts == crashes' \in Nat /\ errors' \in Nat /\ edits' \in Nat /\ retries' \in Nat
  <2>1. CASE UNCHANGED boundVars
    BY <2>1 DEF TypeOK, boundVars
  <2>2. CASE Crash
    BY <2>2 DEF Crash, TypeOK
  <2>3. CASE Start
    BY <2>3 DEF Start, TypeOK
  <2>4. ASSUME NEW w \in Workers, ClaimErrs(w) \/ SettleErrs(w) PROVE Counts
    BY <2>4 DEF ClaimErrs, SettleErrs, TypeOK
  <2>5. ASSUME NEW S \in SUBSET Events, Retry(S) PROVE Counts
    <3>1. retries' = retries + 1 /\ UNCHANGED <<crashes, errors, edits>>
      BY <2>5 DEF Retry
    <3> QED BY <3>1 DEF TypeOK
  <2>6. ASSUME NEW c \in Consumers, NEW setting \in Settings, Edit(c, setting) PROVE Counts
    BY <2>6 DEF Edit, TypeOK
  <2> QED
    BY <2>1, <2>2, <2>3, <2>4, <2>5, <2>6
    DEF Next, Attempt, Reload, Environment, Snapshot, Claim, NoneClaimed, PrepareFails,
        PostLost, PostAnswered, Settle, ReloadApply, ReloadRefused, ReloadProducers, ReloadDispatcher,
        Arrive, Elapse, Insert, boundVars, vars
<1> QED BY <1>1, <1>2, <1>3, <1>4, <1>5 DEF TypeOK

-----------------------------------------------------------------------------
(* The table.                                                               *)

\* What every step but an insert leaves of a row: its pair and stamp, that it
\* exists, and that it is delivered.
Kept(e) ==
  /\ outbox'[e].pair = outbox[e].pair /\ outbox'[e].created = outbox[e].created
  /\ outbox'[e].status = "none" <=> outbox[e].status = "none"
  /\ outbox[e].status = "delivered" => outbox'[e].status = "delivered"

\* Only an insert adds a row, and no step changes the key of one.
LEMMA RowsKept ==
  ASSUME TypeOK, WorkerOK, [Next]_vars
  PROVE  \/ \E e \in Events, p \in Pairs, stamp \in Stamps : Insert(e, p, stamp)
         \/ \A e \in Events : Kept(e)
<1>0. outbox \in [Events -> Row] /\ \A e \in Events : outbox[e] \in Row
  BY DEF TypeOK
<1>1. CASE UNCHANGED outbox
  BY <1>1 DEF Kept
<1>2. ASSUME NEW w \in Workers, NEW f \in Events, Claim(w, f) PROVE \A e \in Events : Kept(e)
  BY <1>0, <1>2 DEF Claim, Claimable, Kept, Row
<1>3. ASSUME NEW w \in Workers, Settle(w) PROVE \A e \in Events : Kept(e)
  <2>1. worker[w].event \in Events /\ outbox[worker[w].event].status = "failed"
    BY <1>3 DEF Settle, WorkerOK
  <2> QED BY <1>0, <1>3, <2>1 DEF Settle, Fail, Kept, Row
<1>4. CASE ReloadApply
  BY <1>0, <1>4 DEF ReloadApply, Kept, Row
<1>5. ASSUME NEW f \in Events, Elapse(f) PROVE \A e \in Events : Kept(e)
  BY <1>0, <1>5 DEF Elapse, Kept, Row
<1>6. ASSUME NEW S \in SUBSET Events, Retry(S) PROVE \A e \in Events : Kept(e)
  BY <1>0, <1>6 DEF Retry, Kept, Row
<1>7. CASE outbox' = RecoverClaims
  BY <1>0, <1>7 DEF RecoverClaims, Kept, Row
<1> QED
  BY <1>1, <1>2, <1>3, <1>4, <1>5, <1>6, <1>7
  DEF Next, Attempt, Reload, Environment, Start, Crash, Snapshot, NoneClaimed, PrepareFails,
      PostLost, PostAnswered, ClaimErrs, SettleErrs, ReloadRefused, ReloadProducers, ReloadDispatcher,
      Arrive, Edit, vars

\* What an insert does, in terms of the table before and after.
LEMMA InsertEffect ==
  ASSUME TypeOK, NEW e \in Events, NEW p \in Pairs, NEW stamp \in Stamps, Insert(e, p, stamp)
  PROVE  /\ ~Inserted(e)
         /\ outbox'[e].pair = p /\ outbox'[e].created = stamp
         /\ outbox'[e].status \in {"pending", "dead"} /\ outbox'[e].attempts = 0
         /\ \A d \in Events : d < e => Inserted(d)
         /\ \A d \in Events \ {e} : outbox'[d] = outbox[d]
BY DEF Insert, TypeOK

\* Every step keeps the table in order.
LEMMA TableStep == TypeOK /\ TableOK /\ WorkerOK /\ [Next]_vars => TableOK'
<1> SUFFICES ASSUME TypeOK, TableOK, WorkerOK, [Next]_vars PROVE TableOK'
  OBVIOUS
<1>1. CASE \A e \in Events : Kept(e)
  BY <1>1 DEF Kept, TableOK, Inserted
<1>2. ASSUME NEW e \in Events, NEW p \in Pairs, NEW stamp \in Stamps, Insert(e, p, stamp)
      PROVE  TableOK'
  <2>1. \A d \in Events : d < e => Inserted(d)
    BY <1>2, InsertEffect
  <2>2. ~Inserted(e) /\ \A d \in Events \ {e} : outbox'[d] = outbox[d]
    BY <1>2, InsertEffect
  <2>3. \A d \in Events : Inserted(d) => d < e
    BY <2>2 DEF TableOK, Events
  <2>4. outbox'[e].pair # NoPair /\ outbox'[e].status # "none" /\ outbox'[e].created = stamp
    BY <1>2, InsertEffect, PairAssumption
  <2>6. \A d \in Events : (Inserted(d))' <=> Inserted(d) \/ d = e
    BY <2>2, <2>4 DEF Inserted
  <2>7. \A d \in Events : (Inserted(d))' <=> outbox'[d].pair # NoPair
    BY <2>2, <2>4, <2>6 DEF TableOK, Inserted
  <2>8. ASSUME NEW d \in Events, NEW f \in Events, d < f, (Inserted(f))'
        PROVE (Inserted(d))'
    <3>1. CASE f = e
      <4>1. Inserted(d) /\ d # e
        BY <2>1, <2>8, <3>1 DEF Events
      <4> QED BY <2>6, <4>1
    <3>2. CASE f # e
      <4>1. Inserted(f) /\ f < e
        BY <2>3, <2>6, <2>8, <3>2
      <4>2. Inserted(d)
        BY <2>8, <4>1 DEF TableOK, Events
      <4> QED BY <2>6, <4>2
    <3> QED BY <3>1, <3>2
  <2> QED BY <2>7, <2>8 DEF TableOK
<1> QED BY <1>1, <1>2, RowsKept

-----------------------------------------------------------------------------
(* Order.                                                                   *)

\* A row that e has before it in the table and in its stamp comes earlier for a claim.
LEMMA PrecedesIsEarlier ==
  ASSUME TypeOK, NEW d \in Events, NEW e \in Events, Precedes(d, e)
  PROVE  Earlier(d, e)
<1>1. outbox[d].created \in Int /\ outbox[e].created \in Int
  BY DEF TypeOK, Row, Stamps
<1> QED BY <1>1 DEF Precedes, Earlier

\* Rows only get delivered, and what is inserted precedes no row: what precedes a row
\* stays delivered.
Led(e) == Inserted(e) /\ \A d \in Events : Precedes(d, e) => outbox[d].status = "delivered"
LEMMA LedStays ==
  ASSUME TypeOK, TableOK, WorkerOK, [Next]_vars, NEW e \in Events, Led(e)
  PROVE  Led(e)'
<1>1. CASE \A d \in Events : Kept(d)
  BY <1>1 DEF Kept, Inserted, Led, Precedes
<1>2. ASSUME NEW f \in Events, NEW p \in Pairs, NEW stamp \in Stamps, Insert(f, p, stamp)
      PROVE  Led(e)'
  <2>1. ~Inserted(f) /\ \A d \in Events \ {f} : outbox'[d] = outbox[d]
    BY <1>2, InsertEffect
  <2>2. e # f /\ e < f
    BY <2>1 DEF TableOK, Events, Led
  <2>3. ~(Precedes(f, e))'
    BY <2>2 DEF Precedes, Events
  <2>4. \A d \in Events \ {f} : (Precedes(d, e))' <=> Precedes(d, e)
    BY <2>1, <2>2 DEF Precedes, Inserted
  <2> QED BY <2>1, <2>2, <2>3, <2>4 DEF Led, Inserted
<1> QED BY <1>1, <1>2, RowsKept

\* Events that only delivered rows may precede.
Exposed(e) == outbox[e].status \in {"failed", "delivered"} \/ e \in wire \cup got

\* An event becomes exposed only by a claim, which takes the head.
LEMMA ExposedByClaim ==
  ASSUME TypeOK, WorkerOK, [Next]_vars, NEW e \in Events, (Exposed(e))'
  PROVE  Exposed(e) \/ (Inserted(e) /\ Head(e))
<1>0. outbox \in [Events -> Row] /\ \A d \in Events : outbox[d] \in Row
  BY DEF TypeOK
<1>1. ASSUME NEW w \in Workers, Attempt(w) PROVE Exposed(e) \/ (Inserted(e) /\ Head(e))
  <2>1. ASSUME NEW f \in Events, Claim(w, f) PROVE Exposed(e) \/ (Inserted(e) /\ Head(e))
    BY <1>0, <2>1 DEF Claim, Claimable, Exposed, Inserted, networkVars
  <2>2. CASE PostLost(w) \/ \E ok \in BOOLEAN : PostAnswered(w, ok)
    <3>1. outbox[worker[w].event].status = "failed"
      BY <2>2 DEF PostLost, PostAnswered, WorkerOK
    <3> QED BY <2>2, <3>1 DEF PostLost, PostAnswered, Exposed
  <2>3. CASE Settle(w)
    <3>1. worker[w].event \in Events /\ outbox[worker[w].event].status = "failed"
      BY <2>3 DEF Settle, WorkerOK
    <3> QED BY <1>0, <2>3, <3>1 DEF Settle, Fail, Exposed, networkVars
  <2>4. CASE Snapshot(w) \/ NoneClaimed(w) \/ PrepareFails(w)
    BY <2>4 DEF Snapshot, NoneClaimed, PrepareFails, Exposed, networkVars
  <2> QED BY <1>1, <2>1, <2>2, <2>3, <2>4 DEF Attempt
<1>2. ASSUME NEW w \in Workers, ClaimErrs(w) \/ SettleErrs(w) PROVE Exposed(e)
  BY <1>2 DEF ClaimErrs, SettleErrs, Exposed, networkVars
<1>3. CASE Reload
  <2>1. ASSUME ReloadApply PROVE Exposed(e)
    <3>1. outbox'[e].status \in {outbox[e].status, "dead"}
      BY <1>0, <2>1 DEF ReloadApply, Row
    <3>2. UNCHANGED <<wire, got>>
      BY <2>1 DEF ReloadApply, networkVars
    <3> QED BY <3>1, <3>2 DEF Exposed
  <2>2. ASSUME ReloadRefused \/ ReloadProducers \/ ReloadDispatcher PROVE Exposed(e)
    BY <2>2 DEF ReloadRefused, ReloadProducers, ReloadDispatcher, Exposed, networkVars
  <2> QED BY <1>3, <2>1, <2>2 DEF Reload
<1>4. CASE Environment
  <2>1. ASSUME NEW f \in Events, Elapse(f) PROVE Exposed(e)
    BY <1>0, <2>1 DEF Elapse, Exposed, networkVars
  <2>2. ASSUME NEW f \in Events, Arrive(f) PROVE Exposed(e)
    BY <2>2 DEF Arrive, Exposed
  <2>3. ASSUME NEW f \in Events, NEW p \in Pairs, NEW stamp \in Stamps, Insert(f, p, stamp)
        PROVE Exposed(e)
    <3>1. outbox'[f].status \in {"pending", "dead"} /\ \A d \in Events \ {f} : outbox'[d] = outbox[d]
      BY <2>3, InsertEffect
    <3>2. UNCHANGED <<wire, got>>
      BY <2>3 DEF Insert, networkVars
    <3> QED BY <3>1, <3>2 DEF Exposed
  <2>4. ASSUME NEW S \in SUBSET Events, Retry(S) PROVE Exposed(e)
    <3>1. outbox'[e].status \in {outbox[e].status, "pending"} /\ UNCHANGED <<wire, got>>
      BY <1>0, <2>4 DEF Retry, Row
    <3> QED BY <3>1 DEF Exposed
  <2>5. ASSUME NEW c \in Consumers, NEW setting \in Settings, Edit(c, setting) PROVE Exposed(e)
    BY <2>5 DEF Edit, Exposed, networkVars
  <2> QED BY <1>4, <2>1, <2>2, <2>3, <2>4, <2>5 DEF Environment
<1>5. CASE Crash
  BY <1>5 DEF Crash, Exposed, networkVars
<1>6. CASE Start
  BY <1>0, <1>6 DEF Start, RecoverClaims, Exposed, networkVars
<1>7. CASE UNCHANGED vars
  BY <1>7 DEF vars, Exposed, networkVars
<1> QED BY <1>1, <1>2, <1>3, <1>4, <1>5, <1>6, <1>7 DEF Next

\* Every step keeps what precedes an exposed event delivered.
LEMMA OrderStep ==
  TypeOK /\ TableOK /\ WorkerOK /\ OrderOK /\ [Next]_vars => OrderOK'
<1> SUFFICES ASSUME TypeOK, TableOK, WorkerOK, OrderOK, [Next]_vars,
                    NEW e \in Events, (Exposed(e))'
             PROVE  Led(e)'
  BY DEF OrderOK, Exposed, Led
<1>1. CASE Exposed(e)
  BY <1>1, LedStays DEF OrderOK, Exposed, Led
<1>2. CASE Inserted(e) /\ Head(e)
  <2>1. Led(e)
    BY <1>2, PrecedesIsEarlier DEF Led, Head
  <2> QED BY <2>1, LedStays
<1> QED BY <1>1, <1>2, ExposedByClaim

-----------------------------------------------------------------------------
(* Workers and claims.                                                      *)

\* The worker that is at work on a row is the only one, and the row stays
\* claimed until it settles it or the process ends.
LEMMA WorkerStep ==
  TypeOK /\ WorkerOK /\ AttemptsOK /\ [Next]_vars => WorkerOK'
<1> SUFFICES ASSUME TypeOK, WorkerOK, AttemptsOK, [Next]_vars PROVE WorkerOK'
  OBVIOUS
<1>0. /\ outbox \in [Events -> Row] /\ \A d \in Events : outbox[d] \in Row
      /\ worker \in [Workers -> Goroutine] /\ \A v \in Workers : worker[v] \in Goroutine
      /\ posts \in [Events -> Nat]
  BY DEF TypeOK
<1> DEFINE StillClaimed(e) ==
      outbox'[e].status = "failed" /\ outbox'[e].attempts = outbox[e].attempts /\ posts'[e] = posts[e]
\* Steps that leave the workers alone, and the rows they have claimed.
<1>1. ASSUME UNCHANGED worker, running => running',
             got \subseteq got',
             \A v \in Workers : worker[v].at \in {"claimed", "posted"} => StillClaimed(worker[v].event),
             ~running' => ~running
      PROVE  WorkerOK'
  BY <1>0, <1>1 DEF WorkerOK, Holds
\* Steps after which worker w holds nothing.
<1>2. ASSUME NEW w \in Workers, NEW r \in Goroutine, r.at \in {"idle", "claiming"},
             worker' = [worker EXCEPT ![w] = r], running, running',
             UNCHANGED got,
             \A v \in Workers \ {w} :
               worker[v].at \in {"claimed", "posted"} => StillClaimed(worker[v].event)
      PROVE  WorkerOK'
  BY <1>0, <1>2 DEF WorkerOK, Holds
<1>3. Idle \in Goroutine /\ Idle.at = "idle"
  BY DEF Idle, Goroutine
<1>4. ASSUME NEW w \in Workers, Attempt(w) PROVE WorkerOK'
  <2>1. CASE Snapshot(w)
    <3> DEFINE r == [worker[w] EXCEPT !.at = "claiming",
                       !.enabled = {c \in Consumers : dispatcher[c] = "enabled"}]
    <3>1. r \in Goroutine /\ r.at = "claiming"
      BY <1>0 DEF Goroutine
    <3>2. worker' = [worker EXCEPT ![w] = r]
      BY <1>0, <2>1 DEF Snapshot, Goroutine
    <3>3. UNCHANGED <<outbox, posts, got>> /\ running /\ running'
      BY <2>1 DEF Snapshot, networkVars
    <3> HIDE DEF r
    <3> QED BY <1>2, <3>1, <3>2, <3>3 DEF WorkerOK
  <2>2. CASE NoneClaimed(w)
    <3>1. UNCHANGED <<outbox, posts, got>> /\ running /\ running' /\ worker' = [worker EXCEPT ![w] = Idle]
      BY <2>2 DEF NoneClaimed, networkVars
    <3> QED BY <1>2, <1>3, <3>1 DEF WorkerOK
  <2>3. ASSUME NEW e \in Events, Claim(w, e) PROVE WorkerOK'
    <3>1. /\ worker[w].at = "claiming" /\ outbox[e].status = "pending" /\ running /\ running'
          /\ UNCHANGED <<got, posts>>
          /\ outbox'[e].status = "failed" /\ outbox'[e].attempts = outbox[e].attempts + 1
          /\ \A d \in Events \ {e} : outbox'[d] = outbox[d]
      BY <1>0, <2>3 DEF Claim, Claimable, networkVars, Row
    <3>2. /\ worker'[w].at = "claimed" /\ worker'[w].event = e
          /\ \A v \in Workers \ {w} : worker'[v] = worker[v]
      BY <1>0, <2>3 DEF Claim, Idle
    <3>3. posts[e] < outbox[e].attempts + 1
      BY <1>0 DEF AttemptsOK, Row
    <3>4. \A v \in Workers : ~Holds(v, e)
      BY <3>1 DEF Holds, WorkerOK
    <3> QED BY <3>1, <3>2, <3>3, <3>4 DEF WorkerOK, Holds
  <2>4. CASE PrepareFails(w)
    <3>1. UNCHANGED <<outbox, posts, got>> /\ running /\ running' /\ worker[w].at = "claimed"
      BY <2>4 DEF PrepareFails, networkVars
    <3>2. /\ worker'[w].at = "posted" /\ worker'[w].event = worker[w].event /\ ~worker'[w].ok
          /\ \A v \in Workers \ {w} : worker'[v] = worker[v]
      BY <1>0, <2>4 DEF PrepareFails, Goroutine
    <3> QED BY <3>1, <3>2 DEF WorkerOK, Holds
  <2>5. CASE PostLost(w) \/ \E ok \in BOOLEAN : PostAnswered(w, ok)
    <3>1. /\ UNCHANGED outbox /\ running /\ running' /\ worker[w].at = "claimed"
          /\ got \subseteq got'
          /\ posts' = [posts EXCEPT ![worker[w].event] = @ + 1]
      BY <2>5 DEF PostLost, PostAnswered
    <3>2. /\ worker'[w].at = "posted" /\ worker'[w].event = worker[w].event
          /\ worker'[w].ok => worker[w].event \in got'
          /\ \A v \in Workers \ {w} : worker'[v] = worker[v]
      BY <1>0, <2>5 DEF PostLost, PostAnswered, Goroutine
    <3>3. \A v \in Workers \ {w} : worker[v].at = "claimed" => posts'[worker[v].event] = posts[worker[v].event]
      BY <1>0, <3>1 DEF WorkerOK, Holds
    <3> QED BY <3>1, <3>2, <3>3 DEF WorkerOK, Holds
  <2>6. CASE Settle(w)
    <3>1. worker[w].event \in Events /\ outbox[worker[w].event].status = "failed"
      BY <2>6 DEF Settle, WorkerOK
    <3>2. /\ UNCHANGED <<posts, got>> /\ running /\ running' /\ worker' = [worker EXCEPT ![w] = Idle]
          /\ \A d \in Events \ {worker[w].event} : outbox'[d] = outbox[d]
      BY <1>0, <2>6, <3>1 DEF Settle, Fail, networkVars
    <3>3. \A v \in Workers \ {w} : worker[v].at \in {"claimed", "posted"} =>
             worker[v].event \in Events \ {worker[w].event}
      BY <2>6, <3>1 DEF Settle, WorkerOK, Holds
    <3>4. \A v \in Workers \ {w} : worker[v].at \in {"claimed", "posted"} => StillClaimed(worker[v].event)
      BY <3>2, <3>3 DEF WorkerOK
    <3> QED BY <1>2, <1>3, <3>2, <3>4
  <2> QED BY <1>4, <2>1, <2>2, <2>3, <2>4, <2>5, <2>6 DEF Attempt
<1>5. ASSUME NEW w \in Workers, ClaimErrs(w) \/ SettleErrs(w) PROVE WorkerOK'
  <2>1. UNCHANGED <<outbox, posts, got>> /\ running /\ running' /\ worker' = [worker EXCEPT ![w] = Idle]
    BY <1>5 DEF ClaimErrs, SettleErrs, networkVars
  <2> QED BY <1>2, <1>3, <2>1 DEF WorkerOK
<1>6. CASE Reload
  <2>1. UNCHANGED <<worker, running, got, posts>>
    BY <1>6 DEF Reload, ReloadApply, ReloadRefused, ReloadProducers, ReloadDispatcher, networkVars
  <2>2. \A d \in Events : outbox[d].status = "failed" => outbox'[d] = outbox[d]
    BY <1>0, <1>6 DEF Reload, ReloadApply, ReloadRefused, ReloadProducers, ReloadDispatcher
  <2> QED BY <1>1, <2>1, <2>2 DEF WorkerOK
<1>7. CASE Environment
  <2>1. ASSUME NEW e \in Events, Elapse(e) PROVE WorkerOK'
    <3>1. UNCHANGED <<worker, running, got, posts>>
      BY <2>1 DEF Elapse, networkVars
    <3>2. \A d \in Events : outbox'[d].status = outbox[d].status /\ outbox'[d].attempts = outbox[d].attempts
      BY <1>0, <2>1 DEF Elapse, Row
    <3> QED BY <1>1, <3>1, <3>2 DEF WorkerOK
  <2>2. ASSUME NEW e \in Events, Arrive(e) PROVE WorkerOK'
    <3>1. UNCHANGED <<worker, running, outbox, posts>> /\ got \subseteq got'
      BY <2>2 DEF Arrive
    <3> QED BY <1>1, <3>1 DEF WorkerOK
  <2>3. ASSUME NEW e \in Events, NEW p \in Pairs, NEW stamp \in Stamps, Insert(e, p, stamp)
        PROVE WorkerOK'
    <3>1. UNCHANGED <<worker, running, got, posts>>
      BY <2>3 DEF Insert, networkVars
    <3>2. \A d \in Events : outbox[d].status = "failed" => outbox'[d] = outbox[d]
      BY <2>3, InsertEffect DEF Inserted
    <3> QED BY <1>1, <3>1, <3>2 DEF WorkerOK
  <2>4. ASSUME NEW S \in SUBSET Events, Retry(S) PROVE WorkerOK'
    <3>1. UNCHANGED <<worker, running, got>>
      BY <2>4 DEF Retry
    <3>2. \A d \in Events : outbox[d].status = "failed" => outbox'[d] = outbox[d] /\ posts'[d] = posts[d]
      BY <1>0, <2>4 DEF Retry
    <3> QED BY <1>1, <3>1, <3>2 DEF WorkerOK
  <2>5. ASSUME NEW c \in Consumers, NEW setting \in Settings, Edit(c, setting) PROVE WorkerOK'
    <3>1. UNCHANGED <<worker, running, got, posts, outbox>>
      BY <2>5 DEF Edit, networkVars
    <3> QED BY <1>1, <3>1 DEF WorkerOK
  <2> QED BY <1>7, <2>1, <2>2, <2>3, <2>4, <2>5 DEF Environment
<1>8. CASE Crash
  BY <1>3, <1>8 DEF Crash, WorkerOK, Holds
<1>9. CASE Start
  <2>1. \A w \in Workers : worker'[w] = Idle
    BY <1>9 DEF Start, WorkerOK
  <2> QED BY <1>3, <1>9, <2>1 DEF Start, WorkerOK, Holds
<1>10. CASE UNCHANGED vars
  BY <1>1, <1>10 DEF vars, networkVars, WorkerOK
<1> QED BY <1>4, <1>5, <1>6, <1>7, <1>8, <1>9, <1>10 DEF Next

-----------------------------------------------------------------------------
(* Attempts.                                                                *)

\* Every step keeps the attempts within their bound.  The bound moves by one
\* at a crash, before recovery makes the claimed rows pending again.
LEMMA AttemptsStep ==
  TypeOK /\ WorkerOK /\ AttemptsOK /\ [Next]_vars => AttemptsOK'
<1> SUFFICES ASSUME TypeOK, WorkerOK, AttemptsOK, [Next]_vars PROVE AttemptsOK'
  OBVIOUS
<1>0. /\ outbox \in [Events -> Row] /\ \A d \in Events : outbox[d] \in Row
      /\ posts \in [Events -> Nat]
      /\ \A d \in Events : outbox[d].attempts \in Nat /\ posts[d] \in Nat
      /\ crashes \in Nat /\ MaxAttempts \in Nat \ {0}
  BY BoundAssumption DEF TypeOK, Row
<1> DEFINE Bounded(r, n, c, up) ==
      /\ n <= r.attempts /\ r.attempts <= MaxAttempts + c
      /\ r.status = "none" => r.attempts = 0
      /\ r.status = "pending" \/ (r.status = "failed" /\ ~up) => r.attempts < MaxAttempts + c
<1>1. \A e \in Events : Bounded(outbox[e], posts[e], crashes, running)
  BY DEF AttemptsOK
<1>2. ASSUME \A e \in Events : Bounded(outbox'[e], posts'[e], crashes', running') PROVE AttemptsOK'
  BY <1>2 DEF AttemptsOK
<1>3. ASSUME UNCHANGED <<outbox, posts, crashes, running>> PROVE AttemptsOK'
  BY <1>1, <1>2, <1>3
<1>4. ASSUME NEW w \in Workers, Attempt(w) PROVE AttemptsOK'
  <2>1. CASE Snapshot(w) \/ NoneClaimed(w) \/ PrepareFails(w)
    BY <1>3, <2>1 DEF Snapshot, NoneClaimed, PrepareFails, networkVars, boundVars
  <2>2. ASSUME NEW e \in Events, Claim(w, e) PROVE AttemptsOK'
    <3>1. /\ outbox[e].status = "pending" /\ running'
          /\ outbox'[e].status = "failed" /\ outbox'[e].attempts = outbox[e].attempts + 1
          /\ \A d \in Events \ {e} : outbox'[d] = outbox[d]
          /\ UNCHANGED <<posts, crashes, running>>
      BY <1>0, <2>2 DEF Claim, Claimable, networkVars, boundVars, Row
    <3>2. Bounded(outbox'[e], posts'[e], crashes', running')
      BY <1>0, <1>1, <3>1
    <3>3. \A d \in Events \ {e} : Bounded(outbox'[d], posts'[d], crashes', running')
      BY <1>1, <3>1
    <3> QED BY <1>2, <3>2, <3>3
  <2>3. CASE PostLost(w) \/ \E ok \in BOOLEAN : PostAnswered(w, ok)
    <3>1. /\ worker[w].at = "claimed" /\ posts' = [posts EXCEPT ![worker[w].event] = @ + 1]
          /\ UNCHANGED <<outbox, crashes, running>>
      BY <2>3 DEF PostLost, PostAnswered, boundVars
    <3>2. worker[w].event \in Events /\ posts[worker[w].event] < outbox[worker[w].event].attempts
      BY <3>1 DEF WorkerOK
    <3>3. \A e \in Events : posts'[e] <= outbox[e].attempts
      BY <1>0, <1>1, <3>1, <3>2
    <3> QED BY <1>1, <1>2, <3>1, <3>3
  <2>4. CASE Settle(w)
    <3> DEFINE e == worker[w].event
    <3>1. e \in Events /\ outbox[e].status = "failed" /\ running' /\ UNCHANGED <<posts, crashes, running>>
      BY <2>4 DEF Settle, WorkerOK, networkVars, boundVars
    <3>2. /\ outbox'[e].attempts = outbox[e].attempts
          /\ outbox'[e].status = "pending" => outbox[e].attempts < MaxAttempts
          /\ outbox'[e].status \in {"pending", "delivered", "dead"}
          /\ \A d \in Events \ {e} : outbox'[d] = outbox[d]
      BY <1>0, <2>4, <3>1 DEF Settle, Fail, Row
    <3> HIDE DEF e
    <3>3. Bounded(outbox'[e], posts'[e], crashes', running')
      BY <1>0, <1>1, <3>1, <3>2
    <3>4. \A d \in Events \ {e} : Bounded(outbox'[d], posts'[d], crashes', running')
      BY <1>1, <3>1, <3>2
    <3> QED BY <1>2, <3>3, <3>4
  <2> QED BY <1>4, <2>1, <2>2, <2>3, <2>4 DEF Attempt
<1>5. ASSUME NEW w \in Workers, ClaimErrs(w) \/ SettleErrs(w) PROVE AttemptsOK'
  BY <1>3, <1>5 DEF ClaimErrs, SettleErrs, networkVars
<1>6. CASE Reload
  <2>1. UNCHANGED <<posts, crashes, running>>
    BY <1>6 DEF Reload, ReloadApply, ReloadRefused, ReloadProducers, ReloadDispatcher, networkVars, boundVars
  <2>2. \A d \in Events : outbox'[d].attempts = outbox[d].attempts
                          /\ outbox'[d].status \in {outbox[d].status, "dead"}
    BY <1>0, <1>6 DEF Reload, ReloadApply, ReloadRefused, ReloadProducers, ReloadDispatcher, Row
  <2> QED BY <1>1, <1>2, <2>1, <2>2
<1>7. CASE Environment
  <2>1. ASSUME NEW e \in Events, Elapse(e) PROVE AttemptsOK'
    <3>1. UNCHANGED <<posts, crashes, running>>
      BY <2>1 DEF Elapse, networkVars, boundVars
    <3>2. \A d \in Events : outbox'[d].status = outbox[d].status /\ outbox'[d].attempts = outbox[d].attempts
      BY <1>0, <2>1 DEF Elapse, Row
    <3> QED BY <1>1, <1>2, <3>1, <3>2
  <2>2. ASSUME NEW e \in Events, Arrive(e) PROVE AttemptsOK'
    BY <1>3, <2>2 DEF Arrive, boundVars
  <2>3. ASSUME NEW e \in Events, NEW p \in Pairs, NEW stamp \in Stamps, Insert(e, p, stamp)
        PROVE AttemptsOK'
    <3>1. UNCHANGED <<posts, crashes, running>> /\ running
      BY <2>3 DEF Insert, networkVars, boundVars
    <3>2. outbox'[e].attempts = 0 /\ outbox'[e].status \in {"pending", "dead"}
          /\ \A d \in Events \ {e} : outbox'[d] = outbox[d]
      BY <2>3, InsertEffect
    <3>3. posts[e] = 0
      BY <1>0, <1>1, <2>3, InsertEffect DEF Inserted
    <3> QED BY <1>0, <1>1, <1>2, <3>1, <3>2, <3>3
  <2>4. ASSUME NEW S \in SUBSET Events, Retry(S) PROVE AttemptsOK'
    <3>1. UNCHANGED <<crashes, running>> /\ running
      BY <2>4 DEF Retry
    <3>2. \A d \in Events : IF d \in S
            THEN outbox'[d].attempts = 0 /\ outbox'[d].status = "pending" /\ posts'[d] = 0
            ELSE outbox'[d] = outbox[d] /\ posts'[d] = posts[d]
      BY <1>0, <2>4 DEF Retry, Row
    <3> QED BY <1>0, <1>1, <1>2, <3>1, <3>2
  <2>5. ASSUME NEW c \in Consumers, NEW setting \in Settings, Edit(c, setting) PROVE AttemptsOK'
    BY <1>3, <2>5 DEF Edit, networkVars
  <2> QED BY <1>7, <2>1, <2>2, <2>3, <2>4, <2>5 DEF Environment
<1>8. CASE Crash
  <2>1. UNCHANGED <<outbox, posts>> /\ crashes' = crashes + 1
    BY <1>8 DEF Crash, networkVars
  <2> QED BY <1>0, <1>1, <1>2, <2>1
<1>9. CASE Start
  <2>1. UNCHANGED <<posts, crashes>> /\ running' /\ ~running
    BY <1>9 DEF Start, networkVars
  <2> DEFINE Recovered(d) ==
        /\ outbox'[d].attempts = outbox[d].attempts
        /\ \/ outbox'[d].status = outbox[d].status
           \/ outbox'[d].status = "pending" /\ outbox[d].status = "failed"
  <2>2. \A d \in Events : Recovered(d)
    <3>1. CASE outbox' = RecoverClaims
      BY <1>0, <3>1 DEF RecoverClaims, Row
    <3>2. CASE UNCHANGED outbox
      BY <3>2
    <3> QED BY <1>9, <3>1, <3>2 DEF Start
  <2> QED BY <1>1, <1>2, <2>1, <2>2
<1>10. CASE UNCHANGED vars
  BY <1>3, <1>10 DEF vars, networkVars, boundVars
<1> QED BY <1>4, <1>5, <1>6, <1>7, <1>8, <1>9, <1>10 DEF Next

\* Every step keeps what is said of delivered and of claimed rows.
LEMMA DeliveryStep ==
  TypeOK /\ WorkerOK /\ DeliveredReceived /\ ClaimHeld /\ [Next]_vars
    => DeliveredReceived' /\ ClaimHeld'
<1> SUFFICES ASSUME TypeOK, WorkerOK, DeliveredReceived, ClaimHeld, [Next]_vars
             PROVE  DeliveredReceived' /\ ClaimHeld'
  OBVIOUS
<1>0. /\ outbox \in [Events -> Row] /\ \A d \in Events : outbox[d] \in Row
      /\ worker \in [Workers -> Goroutine] /\ \A v \in Workers : worker[v] \in Goroutine
      /\ errors \in Nat
  BY DEF TypeOK
\* Steps that neither claim nor deliver a row, nor drop a worker's.
<1>1. ASSUME \A d \in Events : outbox'[d].status \in {"failed", "delivered"}
                                 => outbox'[d].status = outbox[d].status,
             got \subseteq got', running' => running, errors' = errors,
             \A v \in Workers, d \in Events : Holds(v, d) => (Holds(v, d))' \/ outbox'[d].status # "failed"
      PROVE  DeliveredReceived' /\ ClaimHeld'
  BY <1>1 DEF DeliveredReceived, ClaimHeld
<1>2. ASSUME NEW w \in Workers, Attempt(w) PROVE DeliveredReceived' /\ ClaimHeld'
  <2>1. CASE Snapshot(w) \/ NoneClaimed(w)
    <3>1. UNCHANGED <<outbox, got, running, errors>> /\ worker[w].at \notin {"claimed", "posted"}
      BY <2>1 DEF Snapshot, NoneClaimed, networkVars, boundVars
    <3>2. \A v \in Workers \ {w} : worker'[v] = worker[v]
      BY <1>0, <2>1 DEF Snapshot, NoneClaimed
    <3>3. \A v \in Workers, d \in Events : Holds(v, d) => (Holds(v, d))'
      BY <3>1, <3>2 DEF Holds
    <3> QED BY <1>1, <3>1, <3>3
  <2>2. ASSUME NEW e \in Events, Claim(w, e) PROVE DeliveredReceived' /\ ClaimHeld'
    <3>1. /\ outbox'[e].status = "failed" /\ \A d \in Events \ {e} : outbox'[d] = outbox[d]
          /\ UNCHANGED <<got, running, errors>> /\ worker[w].at = "claiming"
          /\ worker'[w].at = "claimed" /\ worker'[w].event = e
          /\ \A v \in Workers \ {w} : worker'[v] = worker[v]
      BY <1>0, <2>2 DEF Claim, Idle, networkVars, boundVars, Row
    <3>2. (Holds(w, e))' /\ \A v \in Workers, d \in Events : Holds(v, d) => (Holds(v, d))'
      BY <3>1 DEF Holds
    <3> QED BY <3>1, <3>2 DEF DeliveredReceived, ClaimHeld
  <2>3. CASE PrepareFails(w) \/ PostLost(w) \/ \E ok \in BOOLEAN : PostAnswered(w, ok)
    <3>1. UNCHANGED <<outbox, running, errors>> /\ got \subseteq got' /\ worker[w].at = "claimed"
      BY <2>3 DEF PrepareFails, PostLost, PostAnswered, networkVars, boundVars
    <3>2. /\ worker'[w].at = "posted" /\ worker'[w].event = worker[w].event
          /\ \A v \in Workers \ {w} : worker'[v] = worker[v]
      BY <1>0, <2>3 DEF PrepareFails, PostLost, PostAnswered, Goroutine
    <3>3. \A v \in Workers, d \in Events : Holds(v, d) => (Holds(v, d))'
      BY <3>1, <3>2 DEF Holds
    <3> QED BY <1>1, <3>1, <3>3
  <2>4. CASE Settle(w)
    <3> DEFINE e == worker[w].event
    <3>1. e \in Events /\ outbox[e].status = "failed" /\ UNCHANGED <<got, running, errors>>
          /\ (worker[w].ok => e \in got)
      BY <2>4 DEF Settle, WorkerOK, networkVars, boundVars
    <3>2. /\ outbox'[e].status # "failed" /\ (outbox'[e].status = "delivered" => worker[w].ok)
          /\ \A d \in Events \ {e} : outbox'[d] = outbox[d]
      BY <1>0, <2>4, <3>1 DEF Settle, Fail, Row
    <3>3. \A v \in Workers \ {w} : worker'[v] = worker[v]
      BY <1>0, <2>4 DEF Settle
    <3>4. \A v \in Workers, d \in Events : Holds(v, d) => (Holds(v, d))' \/ d = e
      BY <3>3 DEF Holds
    <3> HIDE DEF e
    <3> QED BY <3>1, <3>2, <3>4 DEF DeliveredReceived, ClaimHeld
  <2> QED BY <1>2, <2>1, <2>2, <2>3, <2>4 DEF Attempt
<1>3. ASSUME NEW w \in Workers, ClaimErrs(w) \/ SettleErrs(w) PROVE DeliveredReceived' /\ ClaimHeld'
  <2>1. UNCHANGED <<outbox, got>> /\ errors' = errors + 1
    BY <1>3 DEF ClaimErrs, SettleErrs, networkVars
  <2>2. errors' # 0
    BY <1>0, <2>1
  <2> QED BY <2>1, <2>2 DEF DeliveredReceived, ClaimHeld
<1>4. CASE Reload
  <2>1. UNCHANGED <<worker, got, running, errors>>
    BY <1>4 DEF Reload, ReloadApply, ReloadRefused, ReloadProducers, ReloadDispatcher, networkVars, boundVars
  <2>2. \A d \in Events : outbox'[d].status \in {outbox[d].status, "dead"}
    BY <1>0, <1>4 DEF Reload, ReloadApply, ReloadRefused, ReloadProducers, ReloadDispatcher, Row
  <2> QED BY <1>1, <2>1, <2>2 DEF Holds
<1>5. CASE Environment
  <2>1. UNCHANGED <<worker, running, errors>> /\ got \subseteq got'
    BY <1>5 DEF Environment, Elapse, Arrive, Insert, Retry, Edit, networkVars, boundVars
  <2>2. \A d \in Events : outbox'[d].status \in {"failed", "delivered"} => outbox'[d].status = outbox[d].status
    <3> DEFINE Same == \A d \in Events :
          outbox'[d].status \in {"failed", "delivered"} => outbox'[d].status = outbox[d].status
    <3>1. ASSUME NEW e \in Events, Elapse(e) \/ Arrive(e) PROVE Same
      BY <1>0, <3>1 DEF Elapse, Arrive, Row
    <3>2. ASSUME NEW e \in Events, NEW p \in Pairs, NEW stamp \in Stamps, Insert(e, p, stamp) PROVE Same
      BY <3>2, InsertEffect
    <3>3. ASSUME NEW S \in SUBSET Events, Retry(S) PROVE Same
      BY <1>0, <3>3 DEF Retry, Row
    <3>4. ASSUME NEW c \in Consumers, NEW setting \in Settings, Edit(c, setting) PROVE Same
      BY <3>4 DEF Edit
    <3> QED BY <1>5, <3>1, <3>2, <3>3, <3>4 DEF Environment
  <2> QED BY <1>1, <2>1, <2>2 DEF Holds
<1>6. CASE Crash
  BY <1>6 DEF Crash, networkVars, DeliveredReceived, ClaimHeld
<1>7. CASE Start
  <2>1. CASE outbox' = RecoverClaims
    BY <1>0, <1>7, <2>1 DEF Start, RecoverClaims, networkVars, DeliveredReceived, ClaimHeld, Row
  <2>2. CASE UNCHANGED outbox /\ errors' = errors + 1
    <3>1. errors' # 0
      BY <1>0, <2>2
    <3> QED BY <1>7, <2>2, <3>1 DEF Start, networkVars, DeliveredReceived, ClaimHeld
  <2> QED BY <1>7, <2>1, <2>2 DEF Start
<1>8. CASE UNCHANGED vars
  BY <1>1, <1>8 DEF vars, networkVars, boundVars, Holds
<1> QED BY <1>2, <1>3, <1>4, <1>5, <1>6, <1>7, <1>8 DEF Next

-----------------------------------------------------------------------------
(* The invariant.                                                           *)

\* The initial states satisfy the invariant.
LEMMA InitHolds == Init => IInv
<1> SUFFICES ASSUME Init PROVE IInv
  OBVIOUS
<1> USE PairAssumption, BoundAssumption
<1>1. NoRow \in Row /\ Idle \in Goroutine
  BY DEF NoRow, Row, Statuses, Stamps, Idle, Goroutine
<1>2. /\ \A e \in Events : outbox[e] = NoRow /\ posts[e] = 0
      /\ \A w \in Workers : worker[w] = Idle
      /\ wire = {} /\ got = {} /\ ~running /\ crashes = 0
  BY DEF Init
<1>3. TypeOK
  BY <1>1 DEF Init, TypeOK, Settings
<1>4. TableOK /\ OrderOK /\ DeliveredReceived /\ ClaimHeld
  BY <1>2 DEF TableOK, OrderOK, DeliveredReceived, ClaimHeld, Inserted, NoRow
<1>5. WorkerOK
  BY <1>2 DEF WorkerOK, Holds, Idle
<1>6. AttemptsOK
  BY <1>2 DEF AttemptsOK, NoRow
<1> QED BY <1>3, <1>4, <1>5, <1>6 DEF IInv

\* Every step of producers, workers, operators, reloads and crashes keeps the
\* invariant.
THEOREM StepKeeps == IInv /\ [Next]_vars => IInv'
BY TypeStep, TableStep, OrderStep, WorkerStep, AttemptsStep, DeliveryStep DEF IInv

\* The invariant holds in every reachable state.
THEOREM InvariantHolds == Spec => []IInv
BY InitHolds, StepKeeps, PTL DEF Spec

\* Every variable of the outbox and its dispatcher keeps to its type.
THEOREM TypeCorrect == Spec => []TypeOK
<1>1. IInv => TypeOK
  BY DEF IInv
<1> QED BY <1>1, InvariantHolds, PTL

\* IPN-011, whatever the stamps: no worker holds an event while another holds one that
\* precedes it, and none holds another's row.
THEOREM OneOfAPair == Spec => []OnePerPair
<1>1. IInv => OnePerPair
  <2> SUFFICES ASSUME IInv,
                      NEW v \in Workers, NEW w \in Workers, NEW d \in Events, NEW e \in Events,
                      Holds(v, d), Holds(w, e)
               PROVE  (d = e => v = w) /\ ~Precedes(d, e)
    BY DEF OnePerPair
  <2>1. outbox[d].status = "failed" /\ outbox[e].status = "failed"
    BY DEF IInv, WorkerOK, Holds
  <2>2. ~Precedes(d, e)
    BY <2>1 DEF IInv, OrderOK
  <2> QED BY <2>2 DEF IInv, WorkerOK
<1> QED BY <1>1, InvariantHolds, PTL

\* IPN-009: requests for one row are bounded by max_attempts and the restarts.
THEOREM BoundedPosts == Spec => []PostsBounded
<1>1. IInv => PostsBounded
  <2> SUFFICES ASSUME IInv, NEW e \in Events PROVE posts[e] <= MaxAttempts + crashes
    BY DEF PostsBounded
  <2>1. posts[e] \in Nat /\ outbox[e].attempts \in Nat /\ crashes \in Nat /\ MaxAttempts \in Nat
    BY BoundAssumption DEF IInv, TypeOK, Row
  <2>2. posts[e] <= outbox[e].attempts /\ outbox[e].attempts <= MaxAttempts + crashes
    BY DEF IInv, AttemptsOK
  <2> QED BY <2>1, <2>2
<1> QED BY <1>1, InvariantHolds, PTL

\* IPN-008: without a failed store call, every claimed row has its worker.
THEOREM ClaimsHeld == Spec => []ClaimHeld
<1>1. IInv => ClaimHeld
  BY DEF IInv
<1> QED BY <1>1, InvariantHolds, PTL

\* Of the steps that write a row, only a reload buries one that waits, and only for a
\* consumer that the file no longer has.
LEMMA BuriesRemoved ==
  ASSUME TypeOK, WorkerOK, [Next]_vars, NEW e \in Events,
         outbox[e].status = "pending", outbox'[e].status = "dead"
  PROVE  loaded'[ConsumerOfRow(e)] = "absent"
<1>0. outbox \in [Events -> Row] /\ \A f \in Events : outbox[f] \in Row
  BY DEF TypeOK
<1>1. ~UNCHANGED outbox
  OBVIOUS
<1>2. ASSUME NEW w \in Workers, NEW f \in Events, Claim(w, f) PROVE FALSE
  BY <1>0, <1>2 DEF Claim, Row
<1>3. ASSUME NEW w \in Workers, Settle(w) PROVE FALSE
  <2>1. worker[w].event \in Events /\ outbox[worker[w].event].status = "failed"
    BY <1>3 DEF Settle, WorkerOK
  <2> QED BY <1>0, <1>3, <2>1 DEF Settle, Fail, Row
<1>4. CASE ReloadApply
  BY <1>0, <1>4 DEF ReloadApply, Removed
<1>5. ASSUME NEW f \in Events, Elapse(f) PROVE FALSE
  BY <1>0, <1>5 DEF Elapse, Row
<1>6. ASSUME NEW S \in SUBSET Events, Retry(S) PROVE FALSE
  BY <1>0, <1>6 DEF Retry, Row
<1>7. CASE outbox' = RecoverClaims
  BY <1>0, <1>7 DEF RecoverClaims, Row
<1>8. ASSUME NEW f \in Events, NEW p \in Pairs, NEW stamp \in Stamps, Insert(f, p, stamp)
      PROVE  FALSE
  <2>1. f # e
    BY <1>8 DEF Insert, Inserted
  <2> QED BY <1>0, <1>8, <2>1 DEF Insert
<1> QED
  BY <1>1, <1>2, <1>3, <1>4, <1>5, <1>6, <1>7, <1>8
  DEF Next, Attempt, Reload, Environment, Start, Crash, Snapshot, NoneClaimed, PrepareFails,
      PostLost, PostAnswered, ClaimErrs, SettleErrs, ReloadRefused, ReloadProducers, ReloadDispatcher,
      Arrive, Edit, vars

\* IPN-014: what waits for a consumer stays queued through any number of reloads that
\* disable it, crashes and restarts; only its removal buries it unsent.
THEOREM QueuedWhileKnown == Spec => QueuedThroughDisable
<1>1. IInv /\ [Next]_vars =>
        [\A e \in Events : outbox[e].status = "pending" /\ outbox'[e].status = "dead"
                             => loaded'[ConsumerOfRow(e)] = "absent"]_vars
  BY BuriesRemoved DEF IInv
<1> QED BY <1>1, InvariantHolds, PTL DEF Spec, QueuedThroughDisable

-----------------------------------------------------------------------------
(* The refinement of OrderedDelivery.                                       *)

\* A step of the outbox accepts an event, is a receipt of one whose predecessors were
\* all received, or is not visible.
LEMMA StepDelivers ==
  ASSUME IInv, [Next]_vars
  PROVE  [Ordered!Next]_(Ordered!vars)
<1>0. TypeOK /\ TableOK /\ WorkerOK /\ OrderOK /\ DeliveredReceived
  BY DEF IInv
<1>1. ASSUME NEW e \in Events, NEW p \in Pairs, NEW stamp \in Stamps, Insert(e, p, stamp)
      PROVE  Ordered!Accept(e, p, stamp)
  <2>1. /\ ~Inserted(e) /\ outbox'[e].pair = p /\ outbox'[e].created = stamp
        /\ \A d \in Events \ {e} : outbox'[d] = outbox[d]
    BY <1>0, <1>1, InsertEffect
  <2>2. \A d \in Events : Inserted(d) <=> d < e
    BY <1>0, <1>1, <2>1, InsertEffect DEF TableOK, Events
  <2>3. \A d \in Events : outbox[d].pair # NoPair <=> d < e
    BY <1>0, <2>2 DEF TableOK
  <2>4. /\ [d \in Events |-> outbox'[d].pair] = [[d \in Events |-> outbox[d].pair] EXCEPT ![e] = p]
        /\ [d \in Events |-> outbox'[d].created]
             = [[d \in Events |-> outbox[d].created] EXCEPT ![e] = stamp]
    BY <2>1
  <2>5. UNCHANGED got
    BY <1>1 DEF Insert, networkVars
  <2> QED BY <2>3, <2>4, <2>5 DEF Ordered!Accept
<1>2. ASSUME NEW e \in Events, Exposed(e), got' = got \cup {e}, UNCHANGED outbox
      PROVE  Ordered!Receive(e)
  <2>1. Led(e)
    BY <1>0, <1>2 DEF OrderOK, Exposed, Led
  <2>2. ASSUME NEW d \in Events, d < e, outbox[d].pair = outbox[e].pair,
               outbox[d].created <= outbox[e].created
        PROVE d \in got
    <3>1. Precedes(d, e)
      BY <1>0, <2>1, <2>2 DEF TableOK, Precedes, Led
    <3> QED BY <1>0, <2>1, <3>1 DEF Led, DeliveredReceived
  <2>3. outbox[e].pair # NoPair
    BY <1>0, <2>1 DEF TableOK, Led
  <2>4. /\ [d \in Events |-> outbox'[d].pair] = [d \in Events |-> outbox[d].pair]
        /\ [d \in Events |-> outbox'[d].created] = [d \in Events |-> outbox[d].created]
    BY <1>2
  <2> QED BY <1>2, <2>2, <2>3, <2>4 DEF Ordered!Receive
<1>3. ASSUME \A e \in Events : Kept(e), UNCHANGED got PROVE UNCHANGED Ordered!vars
  <2>1. /\ [e \in Events |-> outbox'[e].pair] = [e \in Events |-> outbox[e].pair]
        /\ [e \in Events |-> outbox'[e].created] = [e \in Events |-> outbox[e].created]
    BY <1>3 DEF Kept
  <2> QED BY <1>3, <2>1 DEF Ordered!vars
<1>4. ASSUME NEW w \in Workers, NEW ok \in BOOLEAN, PostAnswered(w, ok)
      PROVE  \E e \in Events : Ordered!Receive(e)
  <2>1. /\ worker[w].event \in Events /\ outbox[worker[w].event].status = "failed"
        /\ got' = got \cup {worker[w].event} /\ UNCHANGED outbox
    BY <1>0, <1>4 DEF PostAnswered, WorkerOK
  <2> QED BY <1>2, <2>1 DEF Exposed
<1>5. ASSUME NEW e \in Events, Arrive(e) PROVE Ordered!Receive(e)
  BY <1>2, <1>5 DEF Arrive, Exposed
<1>6. \/ UNCHANGED got
      \/ \E w \in Workers, ok \in BOOLEAN : PostAnswered(w, ok)
      \/ \E e \in Events : Arrive(e)
  BY DEF Next, Attempt, Reload, Environment, Start, Crash, Snapshot, Claim, NoneClaimed,
         PrepareFails, PostLost, Settle, ClaimErrs, SettleErrs, ReloadApply, ReloadRefused,
         ReloadProducers, ReloadDispatcher, Edit, Elapse, Insert, Retry, networkVars, vars
<1>7. CASE UNCHANGED got
  BY <1>0, <1>1, <1>3, <1>7, RowsKept DEF Ordered!Next
<1>8. CASE \E w \in Workers, ok \in BOOLEAN : PostAnswered(w, ok)
  BY <1>4, <1>8 DEF Ordered!Next
<1>9. CASE \E e \in Events : Arrive(e)
  BY <1>5, <1>9 DEF Ordered!Next
<1> QED BY <1>6, <1>7, <1>8, <1>9

\* IPN-011: the outbox and its dispatcher implement OrderedDelivery, through crashes, lost
\* and late requests, retries, replays, reloads and rows stamped out of order.
THEOREM DeliversInOrder == Spec => InOrder
<1>1. Init => Ordered!Init
  BY DEF Init, NoRow, Ordered!Init
<1>2. IInv /\ [Next]_vars => [Ordered!Next]_(Ordered!vars)
  BY StepDelivers
<1> QED BY <1>1, <1>2, InvariantHolds, PTL DEF Spec, InOrder, Ordered!Spec
=============================================================================
