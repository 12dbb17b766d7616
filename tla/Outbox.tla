------------------------------- MODULE Outbox -------------------------------
(***************************************************************************)
(* The transactional outbox (internal/store/outbox.go), the dispatcher     *)
(* that posts its rows to consumers (internal/ipn/dispatcher.go), and the  *)
(* configuration reload that runs beside them (cmd/payd/main.go).          *)
(*                                                                         *)
(* Every store call is one atomic step.  A worker takes a snapshot of the  *)
(* configuration, claims a row, posts it and settles the row, each in a    *)
(* step of its own; other workers, producers, operators, a reload, late    *)
(* requests and a crash come between any two of them.                      *)
(***************************************************************************)
EXTENDS Integers, FiniteSets

CONSTANTS
  NumEvents,    \* outbox rows, numbered by rowid
  Pairs,        \* pairs of sequence key and consumer
  NoPair,       \* the pair of a row not yet inserted
  Consumers,
  ConsumerOf,   \* the consumer of each pair
  OrderPairs,   \* the pairs whose sequence key is an order
  Workers,      \* dispatcher goroutines (ipn.workers)
  MaxAttempts,  \* ipn.max_attempts
  MaxStamp,     \* bound on created_at
  MaxCrashes,   \* bound on process crashes and restarts
  MaxErrors,    \* bound on failed store calls
  MaxEdits,     \* bound on edits of the configuration file
  MaxRetries    \* bound on manual retries and replays

Events == 1..NumEvents
Stamps == 0..MaxStamp
Settings == {"enabled", "disabled", "absent"}

ASSUME PairAssumption ==
  /\ NumEvents \in Nat
  /\ NoPair \notin Pairs
  /\ ConsumerOf \in [Pairs -> Consumers]
  /\ OrderPairs \subseteq Pairs
ASSUME BoundAssumption ==
  /\ MaxAttempts \in Nat \ {0}
  /\ MaxStamp \in Nat /\ MaxCrashes \in Nat /\ MaxErrors \in Nat
  /\ MaxEdits \in Nat /\ MaxRetries \in Nat

VARIABLES
  outbox,     \* the ipn_outbox table
  worker,     \* what each dispatcher goroutine is doing
  wire,       \* events of requests given up on that may yet arrive
  got,        \* events their consumer has received at least once
  posts,      \* requests sent for a row since it was last reset
  file,       \* the consumers in the configuration file
  loaded,     \* the file as the reload in progress read it
  stage,      \* how far that reload is
  producers,  \* the configuration that producers of events hold
  dispatcher, \* the configuration the dispatcher holds
  running,    \* the process is up
  crashes, errors, edits, retries  \* what has been used of each bound

configVars == <<file, loaded, stage, producers, dispatcher>>
networkVars == <<wire, got, posts>>
boundVars == <<crashes, errors, edits, retries>>
vars == <<outbox, worker, networkVars, configVars, running, boundVars>>

\* "failed" is the status of a row that a worker has claimed.
Statuses == {"none", "pending", "failed", "delivered", "dead"}
Row == [pair : Pairs \cup {NoPair}, status : Statuses, created : Stamps,
        attempts : Nat, due : BOOLEAN]
NoRow == [pair |-> NoPair, status |-> "none", created |-> 0, attempts |-> 0, due |-> TRUE]

Goroutine == [at : {"idle", "claiming", "claimed", "posted"}, event : Events \cup {0},
              enabled : SUBSET Consumers, ok : BOOLEAN]
Idle == [at |-> "idle", event |-> 0, enabled |-> {}, ok |-> FALSE]

TypeOK ==
  /\ outbox \in [Events -> Row]
  /\ worker \in [Workers -> Goroutine]
  /\ wire \subseteq Events /\ got \subseteq Events
  /\ posts \in [Events -> Nat]
  /\ file \in [Consumers -> Settings] /\ loaded \in [Consumers -> Settings]
  /\ stage \in {"none", "producers", "dispatcher"}
  /\ producers \in [Consumers -> Settings] /\ dispatcher \in [Consumers -> Settings]
  /\ running \in BOOLEAN
  /\ crashes \in Nat /\ errors \in Nat /\ edits \in Nat /\ retries \in Nat

Init ==
  /\ outbox = [e \in Events |-> NoRow]
  /\ worker = [w \in Workers |-> Idle]
  /\ wire = {} /\ got = {} /\ posts = [e \in Events |-> 0]
  /\ file = [c \in Consumers |-> "enabled"] /\ loaded = file /\ stage = "none"
  /\ producers = file /\ dispatcher = file
  /\ running = FALSE
  /\ crashes = 0 /\ errors = 0 /\ edits = 0 /\ retries = 0

-----------------------------------------------------------------------------
(* The table.                                                               *)

Inserted(e) == outbox[e].status # "none"
ConsumerOfRow(e) == ConsumerOf[outbox[e].pair]

\* Mutant: rows of one second are not ordered.
EarlierByStamp(d, e) ==
  /\ Inserted(d) /\ outbox[d].pair = outbox[e].pair
  /\ outbox[d].created < outbox[e].created

\* The order of a pair: created_at, then rowid.
Earlier(d, e) ==
  /\ Inserted(d) /\ outbox[d].pair = outbox[e].pair
  /\ \/ outbox[d].created < outbox[e].created
     \/ outbox[d].created = outbox[e].created /\ d < e

\* Mutant: a dead row is out of the way.
HeadPastDead(e) ==
  \A d \in Events : Earlier(d, e) => outbox[d].status \in {"delivered", "dead"}

Head(e) == \A d \in Events : Earlier(d, e) => outbox[d].status = "delivered"

Claimable(e, enabled) ==
  /\ outbox[e].status = "pending" /\ outbox[e].due
  /\ ConsumerOfRow(e) \in enabled
  /\ Head(e)

-----------------------------------------------------------------------------
(* Producers.                                                               *)

\* insertOutbox, by enqueueOrderEvent or enqueueGlobalEvent.  The stamp is
\* read before the transaction of the state change begins, and nothing says
\* for how long that waits: rows committed meanwhile may have later stamps.
\* An order's event is written dead when its consumer cannot be resolved
\* (IPN-002a); a global event is then not written.
Insert(e, p, stamp) ==
  /\ running
  /\ ~Inserted(e) /\ \A d \in Events : d < e => Inserted(d)
  /\ LET enabled == producers[ConsumerOf[p]] = "enabled" IN
     /\ enabled \/ p \in OrderPairs
     /\ outbox' = [outbox EXCEPT ![e] =
          [pair |-> p, status |-> IF enabled THEN "pending" ELSE "dead",
           created |-> stamp, attempts |-> 0, due |-> TRUE]]
  /\ UNCHANGED <<worker, networkVars, configVars, running, boundVars>>

-----------------------------------------------------------------------------
(* A dispatcher goroutine, DispatchOne.                                     *)

Holds(w, e) == worker[w].at \in {"claimed", "posted"} /\ worker[w].event = e

Snapshot(w) ==
  /\ running /\ worker[w].at = "idle"
  /\ worker' = [worker EXCEPT ![w].at = "claiming",
       ![w].enabled = {c \in Consumers : dispatcher[c] = "enabled"}]
  /\ UNCHANGED <<outbox, networkVars, configVars, running, boundVars>>

\* ClaimIPN.  Among the claimable rows it takes the one due first; how long
\* each has been due is left open here, and so the choice.
Claim(w, e) ==
  /\ running /\ worker[w].at = "claiming"
  /\ Claimable(e, worker[w].enabled)
  /\ outbox' = [outbox EXCEPT ![e].status = "failed", ![e].attempts = @ + 1]
  /\ worker' = [worker EXCEPT ![w] = [Idle EXCEPT !.at = "claimed", !.event = e]]
  /\ UNCHANGED <<networkVars, configVars, running, boundVars>>

NoneClaimed(w) ==
  /\ running /\ worker[w].at = "claiming"
  /\ \A e \in Events : ~Claimable(e, worker[w].enabled)
  /\ worker' = [worker EXCEPT ![w] = Idle]
  /\ UNCHANGED <<outbox, networkVars, configVars, running, boundVars>>

ClaimErrs(w) ==
  /\ errors < MaxErrors /\ errors' = errors + 1
  /\ running /\ worker[w].at = "claiming"
  /\ worker' = [worker EXCEPT ![w] = Idle]
  /\ UNCHANGED <<outbox, networkVars, configVars, running, crashes, edits, retries>>

\* The current status cannot be read, or the request cannot be built: the
\* attempt fails before anything is sent.
PrepareFails(w) ==
  /\ running /\ worker[w].at = "claimed"
  /\ worker' = [worker EXCEPT ![w].at = "posted", ![w].ok = FALSE]
  /\ UNCHANGED <<outbox, networkVars, configVars, running, boundVars>>

\* The request reaches the consumer, and its answer the worker.
PostAnswered(w, ok) ==
  /\ running /\ worker[w].at = "claimed"
  /\ worker' = [worker EXCEPT ![w].at = "posted", ![w].ok = ok]
  /\ got' = got \cup {worker[w].event}
  /\ posts' = [posts EXCEPT ![worker[w].event] = @ + 1]
  /\ UNCHANGED <<outbox, wire, configVars, running, boundVars>>

\* Mutant: no answer is taken for a good one.
PostLostDelivered(w) ==
  /\ running /\ worker[w].at = "claimed"
  /\ worker' = [worker EXCEPT ![w].at = "posted", ![w].ok = TRUE]
  /\ wire' = wire \cup {worker[w].event}
  /\ posts' = [posts EXCEPT ![worker[w].event] = @ + 1]
  /\ UNCHANGED <<outbox, got, configVars, running, boundVars>>

\* A network error or a timeout: the request is lost, or arrives later.
PostLost(w) ==
  /\ running /\ worker[w].at = "claimed"
  /\ worker' = [worker EXCEPT ![w].at = "posted", ![w].ok = FALSE]
  /\ wire' = wire \cup {worker[w].event}
  /\ posts' = [posts EXCEPT ![worker[w].event] = @ + 1]
  /\ UNCHANGED <<outbox, got, configVars, running, boundVars>>

Arrive(e) ==
  /\ e \in wire
  /\ wire' = wire \ {e} /\ got' = got \cup {e}
  /\ UNCHANGED <<outbox, worker, posts, configVars, running, boundVars>>

\* Mutant: a failed attempt gets a status that nothing else knows.
FailToRetry(e) ==
  [outbox EXCEPT ![e].status = IF outbox[e].attempts >= MaxAttempts THEN "dead" ELSE "retry"]

\* Mutant: every failed attempt is retried.
FailForever(e) ==
  [outbox EXCEPT ![e].status = "pending", ![e].due = FALSE]

\* fail and FailIPN: a retry after the backoff, or dead (IPN-008, IPN-009).
\* A row that crashes brought past the limit is dead as well.
Fail(e) ==
  IF outbox[e].attempts >= MaxAttempts
  THEN [outbox EXCEPT ![e].status = "dead"]
  ELSE [outbox EXCEPT ![e].status = "pending", ![e].due = FALSE]

Settle(w) ==
  /\ running /\ worker[w].at = "posted"
  /\ LET e == worker[w].event IN
     outbox' = IF outbox[e].status # "failed" THEN outbox
               ELSE IF worker[w].ok THEN [outbox EXCEPT ![e].status = "delivered"]
               ELSE Fail(e)
  /\ worker' = [worker EXCEPT ![w] = Idle]
  /\ UNCHANGED <<networkVars, configVars, running, boundVars>>

\* The store call fails and DispatchOne returns: nobody holds the row now.
SettleErrs(w) ==
  /\ errors < MaxErrors /\ errors' = errors + 1
  /\ running /\ worker[w].at = "posted"
  /\ worker' = [worker EXCEPT ![w] = Idle]
  /\ UNCHANGED <<outbox, networkVars, configVars, running, crashes, edits, retries>>

\* next_attempt_at is reached.
Elapse(e) ==
  /\ ~outbox[e].due
  /\ outbox' = [outbox EXCEPT ![e].due = TRUE]
  /\ UNCHANGED <<worker, networkVars, configVars, running, boundVars>>

-----------------------------------------------------------------------------
(* Operators and the reload.                                                *)

\* RetryIPN of one dead row, or ReplayDeadIPN of several.
Retry(S) ==
  /\ running /\ S # {} /\ \A e \in S : outbox[e].status = "dead"
  /\ retries < MaxRetries /\ retries' = retries + 1
  /\ outbox' = [e \in Events |->
       IF e \in S THEN [outbox[e] EXCEPT !.status = "pending", !.attempts = 0, !.due = TRUE]
       ELSE outbox[e]]
  /\ posts' = [e \in Events |-> IF e \in S THEN 0 ELSE posts[e]]
  /\ UNCHANGED <<worker, wire, got, configVars, running, crashes, errors, edits>>

Edit(c, setting) ==
  /\ edits < MaxEdits /\ edits' = edits + 1
  /\ file' = [file EXCEPT ![c] = setting]
  /\ UNCHANGED <<outbox, worker, networkVars, loaded, stage, producers, dispatcher>>
  /\ UNCHANGED <<running, crashes, errors, retries>>

\* Mutant: a consumer that is only disabled counts as removed.
DisabledOrRemoved(c) == producers[c] # "absent" /\ file[c] # "enabled"

\* RemovedConsumers, which leaves out those that are only disabled.
Removed(c) == producers[c] # "absent" /\ file[c] = "absent"

\* reload: the file is read, and ApplyConfigReload buries the pending rows of
\* removed consumers.  The orders that may refuse a reload are not modelled.
ReloadApply ==
  /\ running /\ stage = "none" /\ file # producers
  /\ stage' = "producers" /\ loaded' = file
  /\ outbox' = [e \in Events |->
       IF outbox[e].status = "pending" /\ Removed(ConsumerOfRow(e))
       THEN [outbox[e] EXCEPT !.status = "dead"] ELSE outbox[e]]
  /\ UNCHANGED <<worker, networkVars, file, producers, dispatcher, running, boundVars>>

\* What comes after the commit may still refuse the reload (the energy
\* provider, the burn ceiling): the rows stay buried, and everyone keeps the
\* old configuration.  An error that ends the process is a Crash.
ReloadRefused ==
  /\ running /\ stage = "producers"
  /\ stage' = "none"
  /\ UNCHANGED <<outbox, worker, networkVars, file, loaded, producers, dispatcher>>
  /\ UNCHANGED <<running, boundVars>>

\* UpdateEvents of the workers that write events.
ReloadProducers ==
  /\ running /\ stage = "producers"
  /\ stage' = "dispatcher" /\ producers' = loaded
  /\ UNCHANGED <<outbox, worker, networkVars, file, loaded, dispatcher, running, boundVars>>

\* UpdateConfig of the dispatcher.
ReloadDispatcher ==
  /\ running /\ stage = "dispatcher"
  /\ stage' = "none" /\ dispatcher' = loaded
  /\ UNCHANGED <<outbox, worker, networkVars, file, loaded, producers, running, boundVars>>

-----------------------------------------------------------------------------
(* Crashes.                                                                 *)

\* Requests the old process sent may still arrive.
Crash ==
  /\ running /\ crashes < MaxCrashes /\ crashes' = crashes + 1
  /\ running' = FALSE
  /\ worker' = [w \in Workers |-> Idle]
  /\ stage' = "none"
  /\ UNCHANGED <<outbox, networkVars, file, loaded, producers, dispatcher>>
  /\ UNCHANGED <<errors, edits, retries>>

\* Mutant: claims of the last process are left as they are.
RecoverNothing == outbox

\* RecoverIPNClaims: what the last process had claimed is pending again.
RecoverClaims ==
  [e \in Events |->
    IF outbox[e].status = "failed" THEN [outbox[e] EXCEPT !.status = "pending"] ELSE outbox[e]]

\* Run begins with RecoverIPNClaims; an error is logged and the workers start.
Start ==
  /\ ~running /\ running' = TRUE
  /\ producers' = file /\ dispatcher' = file
  /\ \/ outbox' = RecoverClaims /\ UNCHANGED errors
     \/ errors < MaxErrors /\ errors' = errors + 1 /\ UNCHANGED outbox
  /\ UNCHANGED <<worker, networkVars, file, loaded, stage, crashes, edits, retries>>

-----------------------------------------------------------------------------

Attempt(w) ==
  \/ Snapshot(w) \/ NoneClaimed(w)
  \/ \E e \in Events : Claim(w, e)
  \/ PrepareFails(w) \/ PostLost(w) \/ Settle(w)
  \/ \E ok \in BOOLEAN : PostAnswered(w, ok)

Reload == ReloadApply \/ ReloadRefused \/ ReloadProducers \/ ReloadDispatcher

Environment ==
  \/ \E e \in Events : Elapse(e) \/ Arrive(e)
  \/ \E e \in Events, p \in Pairs, stamp \in Stamps : Insert(e, p, stamp)
  \/ \E S \in SUBSET Events : Retry(S)
  \/ \E c \in Consumers, setting \in Settings : Edit(c, setting)

Next ==
  \/ \E w \in Workers : Attempt(w) \/ ClaimErrs(w) \/ SettleErrs(w)
  \/ Reload \/ Environment \/ Crash \/ Start

Spec == Init /\ [][Next]_vars

\* The goroutines loop for ever, on a ticker of one second; time passes; the
\* process is restarted; a reload under way runs to its end.  Nothing is
\* assumed of consumers or the network.
Fairness ==
  /\ WF_vars(Start)
  /\ WF_vars(ReloadRefused \/ ReloadProducers \/ ReloadDispatcher)
  /\ \A w \in Workers : WF_vars(Attempt(w))
  /\ \A e \in Events : WF_vars(Elapse(e))

FairSpec == Spec /\ Fairness

-----------------------------------------------------------------------------
(* Properties.                                                              *)

\* d was in the table before e, and is not stamped after it.
Precedes(d, e) ==
  /\ d < e /\ Inserted(d) /\ outbox[d].pair = outbox[e].pair
  /\ outbox[d].created <= outbox[e].created

\* IPN-011: no event is in a worker's hands while one of its pair that precedes
\* it is in another's, nor one row in two.  Two events of a pair overlap only
\* where the later one got the earlier stamp.
OnePerPair ==
  \A v, w \in Workers : \A d, e \in Events :
    Holds(v, d) /\ Holds(w, e) => (d = e => v = w) /\ ~Precedes(d, e)

\* IPN-009: a row is sent max_attempts times at most before an operator
\* resets it.  A restart spends an attempt that has no verdict, so it may add
\* one, through the count of attempts it leaves above the limit.
PostsBounded == \A e \in Events : posts[e] <= MaxAttempts + crashes

\* IPN-022: a row is delivered only if its consumer has received it.
DeliveredReceived == \A e \in Events : outbox[e].status = "delivered" => e \in got

\* IPN-008: while no store call has failed, a claimed row of a running
\* process is in the hands of one of its workers.
ClaimHeld ==
  running /\ errors = 0 =>
    \A e \in Events : outbox[e].status = "failed" => \E w \in Workers : Holds(w, e)

\* IPN-014: a row that waits for a consumer is given up only after its last
\* attempt, or because a reload removes the consumer, never for being disabled.
QueuedThroughDisable ==
  [][\A e \in Events :
       outbox[e].status = "pending" /\ outbox'[e].status = "dead"
         => loaded'[ConsumerOfRow(e)] = "absent"]_vars

\* IPN-008, IPN-009, IPN-012: an event of a consumer that stays enabled is
\* delivered, or it or an earlier one of its pair is dead.
Settled(e) ==
  \/ outbox[e].status \in {"delivered", "dead"}
  \/ \E d \in Events : Earlier(d, e) /\ outbox[d].status = "dead"
EventSettled ==
  \A e \in Events :
    [](Inserted(e) /\ dispatcher[ConsumerOfRow(e)] = "enabled") ~> Settled(e)

-----------------------------------------------------------------------------
(* The promise of OrderedDelivery.                                          *)

Ordered == INSTANCE OrderedDelivery WITH
  pairOf <- [e \in Events |-> outbox[e].pair],
  stampOf <- [e \in Events |-> outbox[e].created],
  received <- got

\* IPN-011: each event of a pair is first received after all that precede it.
InOrder == Ordered!Spec

-----------------------------------------------------------------------------
(* The inductive invariant, in named parts.                                 *)

\* Rows are numbered in the order they are inserted.
TableOK ==
  /\ \A e \in Events : Inserted(e) <=> outbox[e].pair # NoPair
  /\ \A d, e \in Events : d < e /\ Inserted(e) => Inserted(d)

\* A row that is claimed, or was ever sent, is preceded by delivered rows only.
OrderOK ==
  \A e \in Events :
    outbox[e].status \in {"failed", "delivered"} \/ e \in wire \cup got =>
      /\ Inserted(e)
      /\ \A d \in Events : Precedes(d, e) => outbox[d].status = "delivered"

WorkerOK ==
  \A w \in Workers :
    /\ ~running => worker[w] = Idle
    /\ worker[w].at \in {"claimed", "posted"} =>
         /\ worker[w].event \in Events
         /\ outbox[worker[w].event].status = "failed"
         /\ worker[w].at = "posted" /\ worker[w].ok => worker[w].event \in got
         /\ worker[w].at = "claimed" =>
              posts[worker[w].event] < outbox[worker[w].event].attempts
    /\ \A v \in Workers : \A e \in Events : Holds(v, e) /\ Holds(w, e) => v = w

\* How far attempts can get: a crash leaves one more behind.
AttemptsOK ==
  \A e \in Events :
    LET r == outbox[e] IN
    /\ posts[e] <= r.attempts
    /\ r.status = "none" => r.attempts = 0
    /\ r.attempts <= MaxAttempts + crashes
    /\ r.status = "pending" \/ (r.status = "failed" /\ ~running)
         => r.attempts < MaxAttempts + crashes

IInv ==
  /\ TypeOK
  /\ TableOK /\ OrderOK /\ WorkerOK /\ AttemptsOK
  /\ DeliveredReceived /\ ClaimHeld
=============================================================================
