------------------------------ MODULE RunEvents ------------------------------
(***************************************************************************)
(* The run event stream and its gate, runEventStreamSchema and             *)
(* authorizeRunEvent of packages/domain/src/run.ts.                        *)
(*                                                                         *)
(* The code keeps the whole stream and folds it from its first event each  *)
(* time it authorizes one more.  This module keeps what that fold computes *)
(* (a StreamState): the fold is a function of the persisted events, so a   *)
(* state determines what the gate answers.  "intact" is the verdict of     *)
(* re-reading the stream: once an event was persisted that the fold does   *)
(* not accept, every later read fails with CorruptDataError.               *)
(*                                                                         *)
(* A lease id is minted fresh with each generation, so a lease is          *)
(* identified by its worker and generation.  The active lease is always    *)
(* the one acquired last: "generation" is both its generation and          *)
(* highestLeaseGeneration.                                                 *)
(***************************************************************************)
EXTENDS Naturals, RunStatus

CONSTANTS
  Workers,     \* worker identities
  NoWorker,    \* no active lease
  MaxEvents,   \* the longest stream the schema accepts (300 in the code)
  RetryDelay   \* backoff of attempts 1..3 (1s, 5s and 30s in the code)

MaxRetries == 3

ASSUME EventsAssumption ==
  /\ NoWorker \notin Workers
  /\ MaxEvents \in Nat \ {0}
  /\ RetryDelay \in [1..MaxRetries -> Nat \ {0}]

StreamState ==
  [count      : Nat,                       \* events so far: the next sequence
   status     : RunStatuses,               \* currentStatus
   holder     : Workers \cup {NoWorker},   \* activeLease's worker
   generation : Nat,                       \* highestLeaseGeneration
   expires    : Nat,                       \* activeLease.expiresAt
   last       : Nat,                       \* occurredAt of the last event
   retries    : [RetryOperations -> Nat],  \* retryAttempts
   notBefore  : Nat,                       \* retryAt of the last retry event
   intact     : BOOLEAN]

\* What every event carries (eventBaseShape and leaseEventShape).
EventBase == [worker: Workers, generation: Nat, at: Nat, sequence: Nat]

EmptyStream ==
  [count |-> 0, status |-> "CREATED", holder |-> NoWorker, generation |-> 0,
   expires |-> 0, last |-> 0, retries |-> [o \in RetryOperations |-> 0],
   notBefore |-> 0, intact |-> TRUE]

-----------------------------------------------------------------------------
(* The conditions of one pass of the fold.                                 *)

\* Length, contiguous sequence, monotonic time, nothing after a terminal status.
Continues(s, e) ==
  /\ s.count < MaxEvents
  /\ e.sequence = s.count
  /\ e.at >= s.last
  /\ s.status \in ActiveStatuses

OwnsLease(s, e) == s.holder = e.worker /\ s.generation = e.generation

OwnsLiveLease(s, e) == OwnsLease(s, e) /\ e.at < s.expires

StatusAccepted(s, e, from, to) ==
  /\ Continues(s, e)
  /\ OwnsLiveLease(s, e)
  /\ from = s.status
  /\ IsAdjacent(from, to)

AcquiredAccepted(s, e, expires) ==
  /\ Continues(s, e)
  /\ s.holder = NoWorker
  /\ e.generation > s.generation
  /\ expires > e.at

RenewedAccepted(s, e, previous, expires) ==
  /\ Continues(s, e)
  /\ OwnsLiveLease(s, e)
  /\ previous = s.expires
  /\ expires > previous

ReleasedAccepted(s, e) == Continues(s, e) /\ OwnsLiveLease(s, e)

ExpiredAccepted(s, e) ==
  /\ Continues(s, e)
  /\ OwnsLease(s, e)
  /\ e.at >= s.expires

RetryAccepted(s, e, operation, attempt) ==
  /\ Continues(s, e)
  /\ OwnsLiveLease(s, e)
  /\ s.status \in RetryStates[operation]
  /\ attempt \in 1..MaxRetries
  /\ attempt = s.retries[operation] + 1

-----------------------------------------------------------------------------
(* The state after an event.                                               *)

After(s, e) == [s EXCEPT !.count = s.count + 1, !.last = e.at]

AfterStatus(s, e, to) ==
  [After(s, e) EXCEPT
     !.status = to,
     !.holder = IF to \in TerminalStatuses THEN NoWorker ELSE s.holder]

AfterAcquired(s, e, expires) ==
  [After(s, e) EXCEPT
     !.holder = e.worker, !.generation = e.generation, !.expires = expires]

AfterRenewed(s, e, expires) == [After(s, e) EXCEPT !.expires = expires]

\* Released and expired leases end the same way.
AfterLeaseEnd(s, e) == [After(s, e) EXCEPT !.holder = NoWorker]

AfterRetry(s, e, operation, attempt) ==
  [After(s, e) EXCEPT
     !.retries[operation] = attempt,
     !.notBefore = e.at + RetryDelay[attempt]]

\* Persisting an event the fold does not accept corrupts the stream for good.
Persisted(accepted, s) == [s EXCEPT !.intact = s.intact /\ accepted]

==============================================================================
