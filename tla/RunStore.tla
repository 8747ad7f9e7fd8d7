------------------------------ MODULE RunStore ------------------------------
(***************************************************************************)
(* The durable run store, packages/db/src/store.ts: workers claim due      *)
(* runs under a fenced lease, renew and release it, append records, move a *)
(* run from status to status and put it off for a retry, all through       *)
(* database transactions that interleave.                                  *)
(*                                                                         *)
(* A transaction whose reads and writes all happen under the row lock is   *)
(* one action.  Three are not: claimDue holds the lock of the row it       *)
(* selected while other claimers skip it, and transition and scheduleRetry *)
(* read the event stream before they take the lock.  Those have an action  *)
(* for each part, and "txn" holds what the first part leaves to the other. *)
(* A worker may renew, append, release or re-read (its heartbeat, its      *)
(* other connections) while such a transaction of its own is open.         *)
(*                                                                         *)
(* The runs here have no external effect reserved or in flight: a trigger  *)
(* of migrations.ts freezes a run that has one, and EffectAuthority is     *)
(* about those.                                                            *)
(***************************************************************************)
EXTENDS RunEvents, FiniteSets

CONSTANTS
  Runs,        \* run numbers, in the order of (created_at, id)
  LeaseTerms,  \* lease durations a worker may ask for
  MaxRecords,  \* records a run can have (the position CHECKs of migrations.ts)
  MaxClock     \* bound: the clock stops here

ASSUME StoreAssumption ==
  /\ Runs \subseteq Nat
  /\ LeaseTerms \subseteq Nat \ {0}
  /\ MaxRecords \in Nat
  /\ MaxClock \in Nat

VARIABLES
  clock,    \* the database clock
  runs,     \* the rows of lineageguard.runs
  streams,  \* per run, what folding its rows of run_events computes
  view,     \* per worker and run, the lease guard the worker holds in memory
  txn       \* per worker, the transaction it has open

vars == <<clock, runs, streams, view, txn>>

-----------------------------------------------------------------------------

Row ==
  [status      : RunStatuses \cup {"ABSENT"},
   version     : Nat,                      \* the fencing version
   generation  : Nat,                      \* lease_generation
   holder      : Workers \cup {NoWorker},  \* worker_id
   expires     : Nat,                      \* lease_expires_at, 0 for NULL
   nextAttempt : Nat,
   records     : Nat]                      \* bundles, candidates, decisions

AbsentRow ==
  [status |-> "ABSENT", version |-> 0, generation |-> 0, holder |-> NoWorker,
   expires |-> 0, nextAttempt |-> 0, records |-> 0]

\* LeaseGuard, with the expiry and the records the same reply carried.
Guard == [generation: Nat, version: Nat, expires: Nat, records: Nat]

NoGuard == [generation |-> 0, version |-> 0, expires |-> 0, records |-> 0]

GuardOf(row) ==
  [generation |-> row.generation, version |-> row.version,
   expires |-> row.expires, records |-> row.records]

NoTxn == [op |-> "none"]

ClaimTxn == [op: {"claim"}, run: Runs, term: LeaseTerms]

TransitionTxn ==
  [op: {"transition"}, run: Runs, event: EventBase,
   from: RunStatuses, to: RunStatuses, version: Nat, records: Nat]

RetryTxn ==
  [op: {"retry"}, run: Runs, event: EventBase,
   operation: RetryOperations, attempt: Nat]

Txn == {NoTxn} \cup ClaimTxn \cup TransitionTxn \cup RetryTxn

Init ==
  /\ clock = 0
  /\ runs = [r \in Runs |-> AbsentRow]
  /\ streams = [r \in Runs |-> EmptyStream]
  /\ view = [w \in Workers |-> [r \in Runs |-> NoGuard]]
  /\ txn = [w \in Workers |-> NoTxn]

-----------------------------------------------------------------------------
(* Creation and claims.                                                    *)

NewRow(at) == [AbsentRow EXCEPT !.status = "CREATED", !.nextAttempt = at]

\* createRun; a request key that exists returns its row and changes nothing.
CreateRun(r) ==
  /\ runs[r].status = "ABSENT"
  /\ \A q \in Runs : q < r => runs[q].status # "ABSENT"
  /\ runs' = [runs EXCEPT ![r] = NewRow(clock)]
  /\ UNCHANGED <<clock, streams, view, txn>>

\* Variant: the expiry test is off by one tick.
LeaseLapsedEarly(row) == row.holder = NoWorker \/ row.expires <= clock + 1

\* Variant: only a lease that was given back counts as lapsed.
LeaseGivenBack(row) == row.holder = NoWorker

LeaseLapsed(row) == row.holder = NoWorker \/ row.expires <= clock

Due(r) ==
  /\ runs[r].status \in ActiveStatuses
  /\ runs[r].nextAttempt <= clock
  /\ LeaseLapsed(runs[r])

\* The row lock a claim holds from its SELECT ... FOR UPDATE to its COMMIT.
Locked(r) == \E w \in Workers : txn[w].op = "claim" /\ txn[w].run = r

\* ORDER BY next_attempt_at, created_at, id.
Precedes(q, r) ==
  \/ runs[q].nextAttempt < runs[r].nextAttempt
  \/ runs[q].nextAttempt = runs[r].nextAttempt /\ q < r

\* FOR UPDATE SKIP LOCKED LIMIT 1.
Selectable == {r \in Runs : Due(r) /\ ~Locked(r)}

SelectDue(w) ==
  /\ txn[w] = NoTxn
  /\ \E r \in Selectable, term \in LeaseTerms :
       /\ \A q \in Selectable \ {r} : Precedes(r, q)
       /\ txn' = [txn EXCEPT ![w] = [op |-> "claim", run |-> r, term |-> term]]
  /\ UNCHANGED <<clock, runs, streams, view>>

\* The RUN_LEASE_EXPIRED event of the holder a claim displaces.
ExpiryEvent(r) ==
  [worker |-> runs[r].holder, generation |-> runs[r].generation,
   at |-> clock, sequence |-> streams[r].count]

\* The stream once a stale lease is written off.
Vacated(r) ==
  IF runs[r].holder = NoWorker
    THEN streams[r]
    ELSE AfterLeaseEnd(streams[r], ExpiryEvent(r))

AcquiredEvent(w, r) ==
  [worker |-> w, generation |-> runs[r].generation + 1,
   at |-> clock, sequence |-> Vacated(r).count]

\* The fold accepts the stream and the one or two events of the claim.
ClaimAccepted(w) ==
  LET r == txn[w].run IN
  /\ streams[r].intact
  /\ runs[r].holder # NoWorker => ExpiredAccepted(streams[r], ExpiryEvent(r))
  /\ AcquiredAccepted(Vacated(r), AcquiredEvent(w, r), clock + txn[w].term)

ClaimedRow(row, w, expires) ==
  [row EXCEPT !.holder = w, !.generation = row.generation + 1,
              !.expires = expires, !.version = row.version + 1]

\* claimDue, from the clock it reads under the lock to its COMMIT.
ClaimDue(w) ==
  /\ txn[w].op = "claim"
  /\ ClaimAccepted(w)
  /\ LET r == txn[w].run
         expires == clock + txn[w].term
         row == ClaimedRow(runs[r], w, expires)
     IN /\ runs' = [runs EXCEPT ![r] = row]
        /\ streams' = [streams EXCEPT ![r] =
             AfterAcquired(Vacated(r), AcquiredEvent(w, r), expires)]
        /\ view' = [view EXCEPT ![w][r] = GuardOf(row)]
  /\ txn' = [txn EXCEPT ![w] = NoTxn]
  /\ UNCHANGED clock

-----------------------------------------------------------------------------
(* Operations under a lease that are one transaction under the row lock.   *)

\* lockRunForLease: the row as it is now against the guard the caller sent.
LeaseCurrent(w, r, generation, version) ==
  /\ ~Locked(r)
  /\ runs[r].holder = w
  /\ runs[r].generation = generation
  /\ runs[r].version = version
  /\ clock < runs[r].expires

Fenced(w, r) == LeaseCurrent(w, r, view[w][r].generation, view[w][r].version)

LeaseEvent(w, r) ==
  [worker |-> w, generation |-> view[w][r].generation,
   at |-> clock, sequence |-> streams[r].count]

LaterOf(a, b) == IF a < b THEN b ELSE a

\* Variant: a renewal bumps the version and forgets the expiry.
RenewedVersionOnly(row, expires) == [row EXCEPT !.version = row.version + 1]

RenewedRow(row, expires) ==
  [row EXCEPT !.expires = expires, !.version = row.version + 1]

RenewLease(w, r) ==
  \E term \in LeaseTerms :
    LET expires == LaterOf(clock, runs[r].expires) + term
        e == LeaseEvent(w, r)
        row == RenewedRow(runs[r], expires)
    IN /\ Fenced(w, r)
       /\ streams[r].intact
       /\ RenewedAccepted(streams[r], e, runs[r].expires, expires)
       /\ runs' = [runs EXCEPT ![r] = row]
       /\ streams' = [streams EXCEPT ![r] = AfterRenewed(streams[r], e, expires)]
       /\ view' = [view EXCEPT ![w][r] = GuardOf(row)]
       /\ UNCHANGED <<clock, txn>>

WithoutLease(row) ==
  [row EXCEPT !.holder = NoWorker, !.expires = 0, !.version = row.version + 1]

ReleaseLease(w, r) ==
  LET e == LeaseEvent(w, r) IN
  /\ Fenced(w, r)
  /\ streams[r].intact
  /\ ReleasedAccepted(streams[r], e)
  /\ runs' = [runs EXCEPT ![r] = WithoutLease(runs[r])]
  /\ streams' = [streams EXCEPT ![r] = AfterLeaseEnd(streams[r], e)]
  /\ view' = [view EXCEPT ![w][r] = NoGuard]
  /\ UNCHANGED <<clock, txn>>

AppendedRow(row) ==
  [row EXCEPT !.records = row.records + 1, !.version = row.version + 1]

\* appendPositioned and its siblings (bundles, collection results, candidates,
\* saved decisions) add one record and no event.
AppendPositioned(w, r) ==
  LET row == AppendedRow(runs[r])
  IN /\ Fenced(w, r)
     /\ runs[r].records < MaxRecords
     /\ runs' = [runs EXCEPT ![r] = row]
     /\ view' = [view EXCEPT ![w][r] = GuardOf(row)]
     /\ UNCHANGED <<clock, streams, txn>>

\* Variant: the snapshot's lease is taken over without comparing the worker.
SnapshotOfAnyHolder(w, r) ==
  /\ runs[r].holder # NoWorker
  /\ view' = [view EXCEPT ![w][r] = GuardOf(runs[r])]
  /\ UNCHANGED <<clock, runs, streams, txn>>

\* A worker that lost a reply, or restarted, reads its run's snapshot again.
Snapshot(w, r) ==
  /\ runs[r].holder = w
  /\ view' = [view EXCEPT ![w][r] = GuardOf(runs[r])]
  /\ UNCHANGED <<clock, runs, streams, txn>>

-----------------------------------------------------------------------------
(* transition.                                                             *)

\* The clock, the stream and authorizeRunEvent, all before the row lock.
AuthorizeTransition(w, r, to) ==
  LET s == streams[r]
      e == LeaseEvent(w, r)
  IN /\ txn[w] = NoTxn
     /\ s.intact
     /\ StatusAccepted(s, e, s.status, to)
     /\ txn' = [txn EXCEPT ![w] =
          [op |-> "transition", run |-> r, event |-> e, from |-> s.status,
           to |-> to, version |-> view[w][r].version,
           records |-> view[w][r].records]]
     /\ UNCHANGED <<clock, runs, streams, view>>

\* Variant: the recheck fences on the lease and the stream, not on the version.
StillCurrentButVersion(w) ==
  LET t == txn[w] IN
  /\ LeaseCurrent(w, t.run, t.event.generation, runs[t.run].version)
  /\ runs[t.run].status = t.from
  /\ t.event.sequence = streams[t.run].count

\* What transition checks again under the lock.
StillCurrent(w) ==
  LET t == txn[w] IN
  /\ LeaseCurrent(w, t.run, t.event.generation, t.version)
  /\ runs[t.run].status = t.from
  /\ t.event.sequence = streams[t.run].count

\* The table of transition_run, which lets every status be cancelled.
TransitionRunAllows(from, to) ==
  to = "CANCELLED" \/ <<from, to>> \in SuccessEdges \cup FailureEdges

\* Statuses whose evidence (validation, receipts) is checked as well.  The
\* evidence is not modelled here: the check may pass or fail.
EvidenceGated == {"VALIDATED", "REVIEW_ARTIFACT_CREATED", "COMPLETED"}

\* Variant: a run that ends keeps its lease.
MovedRowKeepingLease(row, to) ==
  [row EXCEPT !.status = to, !.version = row.version + 1]

\* transition_run clears the lease of a run that ends.
MovedRow(row, to) ==
  IF to \in TerminalStatuses
    THEN [WithoutLease(row) EXCEPT !.status = to]
    ELSE [row EXCEPT !.status = to, !.version = row.version + 1]

\* The rest of transition: transition_run updates the row and inserts the
\* event without folding the stream again.
Transition(w) ==
  /\ txn[w].op = "transition"
  /\ StillCurrent(w)
  /\ TransitionRunAllows(txn[w].from, txn[w].to)
  /\ LET t == txn[w]
         s == streams[t.run]
         row == MovedRow(runs[t.run], t.to)
     IN /\ runs' = [runs EXCEPT ![t.run] = row]
        /\ streams' = [streams EXCEPT ![t.run] =
             Persisted(StatusAccepted(s, t.event, t.from, t.to),
                       AfterStatus(s, t.event, t.to))]
        /\ view' = [view EXCEPT ![w][t.run] =
             IF row.holder = NoWorker THEN NoGuard ELSE GuardOf(row)]
  /\ txn' = [txn EXCEPT ![w] = NoTxn]
  /\ UNCHANGED clock

-----------------------------------------------------------------------------
(* scheduleRetry.                                                          *)

AuthorizeRetry(w, r, operation) ==
  LET s == streams[r]
      e == LeaseEvent(w, r)
      attempt == s.retries[operation] + 1
  IN /\ txn[w] = NoTxn
     /\ s.intact
     /\ RetryAccepted(s, e, operation, attempt)
     /\ txn' = [txn EXCEPT ![w] =
          [op |-> "retry", run |-> r, event |-> e,
           operation |-> operation, attempt |-> attempt]]
     /\ UNCHANGED <<clock, runs, streams, view>>

\* Under the lock: the lease (against the version just read, not the
\* caller's), the trigger authorize_retry_attempt, and the fold again, which
\* authorizes the release on top of the retry event.
RetryStillAccepted(w) ==
  LET t == txn[w]
      s == streams[t.run]
      retried == AfterRetry(s, t.event, t.operation, t.attempt)
      release == [t.event EXCEPT !.sequence = t.event.sequence + 1]
  IN /\ LeaseCurrent(w, t.run, t.event.generation, runs[t.run].version)
     /\ runs[t.run].status \in RetryStates[t.operation]
     /\ s.intact
     /\ RetryAccepted(s, t.event, t.operation, t.attempt)
     /\ ReleasedAccepted(retried, release)

\* Variant: the backoff is recorded in the stream and not on the row.
PutOffRowAtOnce(row, at) == WithoutLease(row)

PutOffRow(row, at) == [WithoutLease(row) EXCEPT !.nextAttempt = at]

ScheduleRetry(w) ==
  /\ txn[w].op = "retry"
  /\ RetryStillAccepted(w)
  /\ LET t == txn[w]
         retried == AfterRetry(streams[t.run], t.event, t.operation, t.attempt)
         release == [t.event EXCEPT !.sequence = t.event.sequence + 1]
     IN /\ runs' = [runs EXCEPT ![t.run] =
             PutOffRow(runs[t.run], t.event.at + RetryDelay[t.attempt])]
        /\ streams' = [streams EXCEPT ![t.run] = AfterLeaseEnd(retried, release)]
        /\ view' = [view EXCEPT ![w][t.run] = NoGuard]
  /\ txn' = [txn EXCEPT ![w] = NoTxn]
  /\ UNCHANGED clock

-----------------------------------------------------------------------------
(* Failures and time.                                                      *)

\* A check fails, or the evidence of a gated status does: ROLLBACK.
Rejected(w) ==
  /\ \/ txn[w].op = "claim" /\ ~ClaimAccepted(w)
     \/ /\ txn[w].op = "transition"
        /\ ~Locked(txn[w].run)
        /\ \/ ~StillCurrent(w)
           \/ ~TransitionRunAllows(txn[w].from, txn[w].to)
           \/ txn[w].to \in EvidenceGated
     \/ /\ txn[w].op = "retry"
        /\ ~Locked(txn[w].run)
        /\ ~RetryStillAccepted(w)
  /\ txn' = [txn EXCEPT ![w] = NoTxn]
  /\ UNCHANGED <<clock, runs, streams, view>>

\* The worker process dies: its transaction rolls back and its guards are lost.
Crash(w) ==
  /\ txn' = [txn EXCEPT ![w] = NoTxn]
  /\ view' = [view EXCEPT ![w] = [r \in Runs |-> NoGuard]]
  /\ UNCHANGED <<clock, runs, streams>>

Tick ==
  /\ clock < MaxClock
  /\ clock' = clock + 1
  /\ UNCHANGED <<runs, streams, view, txn>>

-----------------------------------------------------------------------------

WorkerStep(w) ==
  \/ SelectDue(w)
  \/ ClaimDue(w)
  \/ \E r \in Runs :
       \/ RenewLease(w, r)
       \/ ReleaseLease(w, r)
       \/ AppendPositioned(w, r)
       \/ Snapshot(w, r)
       \/ \E to \in RunStatuses : AuthorizeTransition(w, r, to)
       \/ \E o \in RetryOperations : AuthorizeRetry(w, r, o)
  \/ Transition(w)
  \/ ScheduleRetry(w)
  \/ Rejected(w)
  \/ Crash(w)

Next ==
  \/ \E r \in Runs : CreateRun(r)
  \/ \E w \in Workers : WorkerStep(w)
  \/ Tick

Spec == Init /\ [][Next]_vars

-----------------------------------------------------------------------------
(* Safety.                                                                 *)

\* Every variable has its type.
TypeOK ==
  /\ clock \in Nat
  /\ runs \in [Runs -> Row]
  /\ streams \in [Runs -> StreamState]
  /\ view \in [Workers -> [Runs -> Guard]]
  /\ txn \in [Workers -> Txn]

\* No stream ever holds an event that re-reading it rejects: although
\* transition authorizes its event before it locks the row, and inserts it
\* without folding again, a run never becomes unreadable (CorruptDataError).
StreamsIntact == \A r \in Runs : streams[r].intact

\* The row, which every fence reads, and the event stream, which every
\* authorization reads, tell the same story after every transaction.
RowMatchesStream ==
  \A r \in Runs :
    IF runs[r].status = "ABSENT"
      THEN runs[r] = AbsentRow /\ streams[r] = EmptyStream
      ELSE /\ runs[r].status = streams[r].status
           /\ runs[r].holder = streams[r].holder
           /\ runs[r].generation = streams[r].generation
           /\ runs[r].holder # NoWorker => runs[r].expires = streams[r].expires

\* The worker has reason to think that it holds the run's lease.
Believes(w, r) == view[w][r].generation > 0 /\ clock < view[w][r].expires

\* Two workers never both have reason to think that they hold one run, and
\* the one that does is right: a caller that checks the expiry it was last
\* told needs no further word from the store.
ExclusiveLease ==
  \A w \in Workers, r \in Runs : Believes(w, r) =>
    /\ runs[r].holder = w /\ runs[r].generation = view[w][r].generation
    /\ \A v \in Workers \ {w} : ~Believes(v, r)

\* The stream has no room left for the events of another claim.
Exhausted(r) ==
  streams[r].count + (IF runs[r].holder = NoWorker THEN 1 ELSE 2) > MaxEvents

\* A claim that has selected and locked a row is refused for one reason only,
\* a full stream: never because the clock, the order of events or the lease
\* it displaces contradict what was persisted before.
ClaimRefusedOnlyWhenFull ==
  \A w \in Workers :
    txn[w].op = "claim" => ClaimAccepted(w) \/ Exhausted(txn[w].run)

\* A finished run's row and stream never change again, whatever its last
\* holder still attempts.
TerminalImmutable ==
  [][\A r \in Runs : runs[r].status \in TerminalStatuses =>
       runs'[r] = runs[r] /\ streams'[r] = streams[r]]_vars

\* A run put off for a retry is not claimed before its backoff has passed.
BackoffHonoured ==
  [][\A r \in Runs : runs'[r].generation # runs[r].generation =>
       clock >= streams[r].notBefore]_vars

\* A status never changes over a record its author had not seen: the version
\* fence covers appends, which leave no event behind.
NoUnseenRecord ==
  [][\A r \in Runs :
       runs[r].status \notin {"ABSENT", runs'[r].status} =>
         \E w \in Workers :
           /\ txn[w].op = "transition" /\ txn[w].run = r
           /\ txn[w].records = runs[r].records]_vars

\* The store implements the abstract life of a run.
Lifecycle == INSTANCE RunLifecycle WITH
  phase <- [r \in Runs |-> runs[r].status],
  owner <- [r \in Runs |-> runs[r].holder],
  epoch <- [r \in Runs |-> runs[r].generation]

ImplementsLifecycle == Lifecycle!LifecycleSpec

-----------------------------------------------------------------------------
(* What makes the safety properties inductive.                             *)

\* A transition or retry under way was accepted by the stream as it was read:
\* it is accepted still, or the stream has grown past its sequence.
TransactionsAuthorized ==
  \A w \in Workers : txn[w].op \in {"transition", "retry"} =>
    LET t == txn[w]
        s == streams[t.run]
    IN /\ t.event.worker = w
       /\ t.event.at <= clock
       /\ t.event.sequence <= s.count
       /\ t.op = "transition" /\ t.event.sequence = s.count =>
            StatusAccepted(s, t.event, t.from, t.to)

\* A claim locks a run that is due, and locks it alone.
ClaimsLock ==
  \A w \in Workers : txn[w].op = "claim" =>
    /\ Due(txn[w].run)
    /\ \A v \in Workers \ {w} :
         ~(txn[v].op = "claim" /\ txn[v].run = txn[w].run)

\* No event lies in the future, a run that ended is held by nobody, and a
\* retry's backoff is on the row.
StreamsPast ==
  \A r \in Runs :
    /\ streams[r].last <= clock
    /\ runs[r].status \in TerminalStatuses => runs[r].holder = NoWorker
    /\ streams[r].notBefore <= runs[r].nextAttempt

\* A worker that believes it holds a lease does, for at least as long.
LeaseKnowledge ==
  \A w \in Workers, r \in Runs : Believes(w, r) =>
    /\ runs[r].holder = w
    /\ runs[r].generation = view[w][r].generation
    /\ view[w][r].expires <= runs[r].expires

\* Whoever knows the row's version knows its records.
VersionCoversRecords ==
  /\ \A r \in Runs : runs[r].version = 0 => runs[r].records = 0
  /\ \A w \in Workers, r \in Runs :
       /\ view[w][r].version <= runs[r].version
       /\ view[w][r].version = runs[r].version =>
            view[w][r].records = runs[r].records
  /\ \A w \in Workers : txn[w].op = "transition" =>
       /\ txn[w].version <= runs[txn[w].run].version
       /\ txn[w].version = runs[txn[w].run].version =>
            txn[w].records = runs[txn[w].run].records

StoreInv ==
  /\ TypeOK
  /\ StreamsIntact
  /\ RowMatchesStream
  /\ TransactionsAuthorized
  /\ ClaimsLock
  /\ StreamsPast
  /\ LeaseKnowledge
  /\ VersionCoversRecords

-----------------------------------------------------------------------------
(* Liveness.                                                               *)

\* A worker keeps polling (its loop comes back to claimDue, and not every
\* claim of it is cut short by a crash), an open transaction ends, and time
\* passes.  Nothing obliges a worker to make progress on a run it holds.
Fairness ==
  /\ \A w \in Workers :
       /\ SF_vars(SelectDue(w))
       /\ SF_vars(ClaimDue(w))
       /\ WF_vars(Transition(w) \/ ScheduleRetry(w) \/ Rejected(w))
  /\ WF_vars(Tick)

FairSpec == Spec /\ Fairness

\* A run a worker should be working on and none is.
Waiting(r) ==
  /\ runs[r].status \in ActiveStatuses
  /\ runs[r].nextAttempt <= clock
  /\ runs[r].holder = NoWorker \/ runs[r].expires <= clock

\* A waiting run is claimed, also when its last holder crashed, unless the
\* stream of a waiting run is full.
WaitingRunIsClaimed ==
  \A r \in Runs :
    Waiting(r) ~> (~Waiting(r) \/ \E q \in Runs : Waiting(q) /\ Exhausted(q))

\* The same for every run whose own stream has room: "A worker can claim one
\* available run [...] and recover after process failure"
\* (docs/specs/2026-08-04-durable-run-store.md:7-8).
AvailableRunIsClaimed ==
  \A r \in Runs : (Waiting(r) /\ ~Exhausted(r)) ~> ~Waiting(r)

==============================================================================
