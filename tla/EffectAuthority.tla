--------------------------- MODULE EffectAuthority ---------------------------
(***************************************************************************)
(* External effects of one run, from its validation to its end             *)
(* (packages/db/src/store.ts and the triggers of migrations.ts): approval, *)
(* intent, a reservation whose token is the only key to it, the call that  *)
(* may be made once it is consumed, and what is recorded about that call.  *)
(*                                                                         *)
(* The run's lease is identified by its generation.  Callers know the      *)
(* current guard: what becomes of stale guards is the subject of RunStore. *)
(* Every operation is one transaction that ends with a check under the row *)
(* lock, and is one action here.  Between them workers crash, replies get  *)
(* lost, time passes, and the outside applies a call late or never.        *)
(***************************************************************************)
EXTENDS Naturals, FiniteSets, RunStatus

CONSTANTS
  Intents,        \* the effect intents a run may have (their keys)
  Kind,           \* the kind of each
  LeaseTerm,      \* duration of a lease
  ApprovalTerm,   \* duration of an approval
  InvokeTerm,     \* the time an authority allows for the call to be made
  MaxGeneration,  \* bound: leases granted
  MaxVersion,     \* bound: writes to the run's row
  MaxCandidates,  \* bound: migration candidates of the run
  MaxClock        \* bound: the clock stops here

Kinds == {"GITHUB_REVIEW", "DATAHUB_WRITEBACK"}

ASSUME EffectAssumption ==
  /\ IsFiniteSet(Intents)
  /\ Kind \in [Intents -> Kinds]
  /\ {LeaseTerm, ApprovalTerm, InvokeTerm} \subseteq Nat \ {0}
  /\ {MaxGeneration, MaxVersion, MaxCandidates, MaxClock} \subseteq Nat

VARIABLES
  clock,        \* the database clock
  run,          \* the row of the run
  validation,   \* the latest validation receipt: whose lease, which candidate
  approval,     \* per kind, when the latest approval expires (0: none)
  intents,      \* the intents that were begun
  reservation,  \* per intent, the reservation that is not cancelled
  invoker,      \* per intent, what the worker's process may still do
  attempt,      \* per intent, its last attempt
  receipts,     \* the intents that have a receipt
  remote        \* per intent, the calls under way and the applied ones

effectVars ==
  <<approval, intents, reservation, invoker, attempt, receipts, remote>>

vars == <<clock, run, validation, effectVars>>

-----------------------------------------------------------------------------

EffectStatuses ==
  {"VALIDATING", "VALIDATED", "REVIEW_ARTIFACT_CREATED",
   "WRITEBACK_PENDING", "COMPLETED", "CANCELLED", "FAILED_VALIDATION",
   "FAILED_GITHUB", "FAILED_WRITEBACK"}

Row ==
  [status: EffectStatuses, version: Nat, held: BOOLEAN, generation: Nat,
   expires: Nat, candidate: Nat]

NoReservation ==
  [state |-> "NONE", version |-> 0, status |-> "VALIDATING",
   generation |-> 0, invokeBy |-> 0]

Reservation ==
  [state: {"NONE", "RESERVED", "CONSUMED"}, version: Nat,
   status: EffectStatuses, generation: Nat, invokeBy: Nat]

\* HOLDS the token of a reservation, or is ARMED: told that it consumed one.
InvokerStates == {"NONE", "HOLDS", "ARMED"}

Attempt ==
  [number: Nat,
   state: {"NONE", "READY_TO_INVOKE", "RECONCILIATION_REQUIRED", "SUCCEEDED"},
   proof: {"NONE", "APPLIED", "NOT_APPLIED"}]

NoAttempt == [number |-> 0, state |-> "NONE", proof |-> "NONE"]

Init ==
  /\ clock = 0
  /\ run = [status |-> "VALIDATING", version |-> 0, held |-> TRUE,
            generation |-> 1, expires |-> LeaseTerm, candidate |-> 1]
  /\ validation = [generation |-> 0, candidate |-> 0]
  /\ approval = [k \in Kinds |-> 0]
  /\ intents = {}
  /\ reservation = [i \in Intents |-> NoReservation]
  /\ invoker = [i \in Intents |-> "NONE"]
  /\ attempt = [i \in Intents |-> NoAttempt]
  /\ receipts = {}
  /\ remote = [i \in Intents |-> [pending |-> 0, applied |-> 0]]

-----------------------------------------------------------------------------
(* The lease and the run's row.                                            *)

\* lockRunForLease for a caller that knows the row.
Fenced == run.held /\ clock < run.expires

RoomForWrite == run.version < MaxVersion

Written(row) == [row EXCEPT !.version = row.version + 1]

\* A call was authorized and nobody knows what became of it.
Unresolved(i) ==
  /\ reservation[i].state = "CONSUMED"
  /\ i \notin receipts
  /\ attempt[i].proof # "NOT_APPLIED"

\* A token is out with which a call may still be authorized.
Invocable(i) ==
  /\ reservation[i].state = "RESERVED"
  /\ clock < reservation[i].invokeBy

\* Variant: a reservation protects the call until it is consumed.
FrozenWhileInvocable == \E i \in Intents : Invocable(i)

\* Variant: an attempt that is being reconciled no longer counts.
FrozenUntilReconciling ==
  \E i \in Intents :
    \/ Invocable(i)
    \/ Unresolved(i) /\ attempt[i].state = "READY_TO_INVOKE"

\* Variant: a reservation counts also when its time is up.
FrozenByAnyReservation ==
  \E i \in Intents : reservation[i].state = "RESERVED" \/ Unresolved(i)

\* The trigger enforce_active_effect_invocation: neither the status nor the
\* holder of the run may change.
Frozen == \E i \in Intents : Invocable(i) \/ Unresolved(i)

\* claimDue.
ClaimDue ==
  /\ run.status \in ActiveStatuses
  /\ ~run.held \/ run.expires <= clock
  /\ ~Frozen
  /\ RoomForWrite /\ run.generation < MaxGeneration
  /\ run' = [Written(run) EXCEPT !.held = TRUE, !.expires = clock + LeaseTerm,
                                 !.generation = run.generation + 1]
  /\ UNCHANGED <<clock, validation, effectVars>>

\* renewLease changes neither the status nor the holder.
RenewLease ==
  /\ Fenced
  /\ RoomForWrite
  /\ run' = [Written(run) EXCEPT !.expires = run.expires + LeaseTerm]
  /\ UNCHANGED <<clock, validation, effectVars>>

WithoutLease(row) == [row EXCEPT !.held = FALSE, !.expires = 0]

\* releaseLease, and scheduleRetry (whose backoff RunStore is about).
ReleaseLease ==
  /\ Fenced
  /\ ~Frozen
  /\ RoomForWrite
  /\ run' = WithoutLease(Written(run))
  /\ UNCHANGED <<clock, validation, effectVars>>

\* appendPositioned for a migration candidate, in whatever status.
AppendCandidate ==
  /\ Fenced
  /\ RoomForWrite /\ run.candidate < MaxCandidates
  /\ run' = [Written(run) EXCEPT !.candidate = run.candidate + 1]
  /\ UNCHANGED <<clock, validation, effectVars>>

\* validationExecutionClaim, taken again when the receipt is issued.
ExecutionClaimed == run.status = "VALIDATING" /\ Fenced

\* issueAndStoreValidationReceipt: what was executed is what is locked now.
IssueValidation ==
  /\ ExecutionClaimed
  /\ RoomForWrite
  /\ run' = Written(run)
  /\ validation' =
       [generation |-> run.generation, candidate |-> run.candidate]
  /\ UNCHANGED <<clock, effectVars>>

\* verifyValidation compares the receipt with the latest candidate.
Validated == validation.candidate = run.candidate

OriginalLease == validation.generation = run.generation

ReceiptsOf(k) == {i \in receipts : Kind[i] = k}

\* assertBoundEffectReceipt and enforce_run_effect_completion.
Proven(k) == Validated /\ Cardinality(ReceiptsOf(k)) = 1

\* assertCompletionPrerequisites.  A validation is issued only before the first
\* effect, so both receipts rest on the same one.
CompletionPrerequisites == \A k \in Kinds : Proven(k)

\* What transition demands of the statuses that rest on evidence.
EvidenceFor(to) ==
  /\ to = "VALIDATED" => Validated /\ OriginalLease
  /\ to = "REVIEW_ARTIFACT_CREATED" => Proven("GITHUB_REVIEW")
  /\ to = "COMPLETED" => CompletionPrerequisites

Transition(to) ==
  /\ Fenced
  /\ IsAdjacent(run.status, to)
  /\ EvidenceFor(to)
  /\ ~Frozen
  /\ RoomForWrite
  /\ LET moved == [Written(run) EXCEPT !.status = to]
     IN run' = IF to \in TerminalStatuses THEN WithoutLease(moved) ELSE moved
  /\ UNCHANGED <<clock, validation, effectVars>>

-----------------------------------------------------------------------------
(* Approval, intent and reservation.                                       *)

\* effectState: the status in which effects of a kind are made.
EffectState ==
  [k \in Kinds |->
     IF k = "GITHUB_REVIEW" THEN "VALIDATED" ELSE "WRITEBACK_PENDING"]

Approved(k) == clock < approval[k]

\* recordEffectApproval, which leaves the run's version alone.
RecordEffectApproval(k) ==
  /\ run.status = EffectState[k]
  /\ Fenced
  /\ Validated
  /\ approval' = [approval EXCEPT ![k] = clock + ApprovalTerm]
  /\ UNCHANGED <<clock, run, validation, intents, reservation, invoker,
                 attempt, receipts, remote>>

\* Variant: the lease that validated the run is not asked for.
MayBeginUnderAnyLease(i) ==
  /\ run.status = EffectState[Kind[i]]
  /\ Fenced
  /\ Validated
  /\ Approved(Kind[i])

\* What beginEffect demands in production: among it, the very lease under
\* which the run was validated.
MayBegin(i) ==
  /\ run.status = EffectState[Kind[i]]
  /\ Fenced
  /\ Validated /\ OriginalLease
  /\ Approved(Kind[i])

\* beginEffect; a key that exists returns its intent and changes nothing.
BeginEffect(i) ==
  /\ i \notin intents
  /\ MayBegin(i)
  /\ RoomForWrite
  /\ run' = Written(run)
  /\ intents' = intents \cup {i}
  /\ UNCHANGED <<clock, validation, approval, reservation, invoker, attempt,
                 receipts, remote>>

\* Variant: only a reservation that can still be used blocks another.
UnreservedIfUnusable(i) == ~Invocable(i) /\ ~Unresolved(i)

\* The partial unique index on RESERVED and CONSUMED.
Unreserved(i) == reservation[i].state = "NONE"

\* Variant: a deadline is not cut short by what ends earlier.
First(a, b) == a

Least(a, b) == IF a < b THEN a ELSE b

\* The authority process verifies what it was given, and the reply has to
\* arrive: else the row stays without a holder of its token.
HandOutToken(i) ==
  \E holds \in {"NONE", "HOLDS"} :
    /\ holds = "HOLDS" => Validated
    /\ invoker' = [invoker EXCEPT ![i] = holds]

\* reserveCurrentEffect of the store, and of the authority that called it.
ReserveCurrentEffect(i) ==
  /\ i \in intents
  /\ run.status = EffectState[Kind[i]]
  /\ Fenced
  /\ Approved(Kind[i])
  /\ Unreserved(i)
  /\ reservation' = [reservation EXCEPT ![i] =
       [state |-> "RESERVED", version |-> run.version, status |-> run.status,
        generation |-> run.generation,
        invokeBy |-> Least(clock + InvokeTerm,
                           Least(run.expires, approval[Kind[i]]))]]
  /\ HandOutToken(i)
  /\ UNCHANGED <<clock, run, validation, approval, intents, attempt, receipts,
                 remote>>

\* cancelCurrentEffectBeforeSend.
CancelBeforeSend(i) ==
  /\ invoker[i] = "HOLDS"
  /\ reservation[i].state = "RESERVED"
  /\ reservation' = [reservation EXCEPT ![i] = NoReservation]
  /\ invoker' = [invoker EXCEPT ![i] = "NONE"]
  /\ UNCHANGED <<clock, run, validation, approval, intents, attempt, receipts,
                 remote>>

MaxAttempts == 3

\* Variant: the lease and the deadline are checked, the status is not.
ConsumableUnderLease(i) ==
  /\ reservation[i].state = "RESERVED"
  /\ run.generation = reservation[i].generation
  /\ Fenced
  /\ clock < reservation[i].invokeBy
  /\ attempt[i].number < MaxAttempts

\* effect_consume_current: the row is as it was when the reservation was
\* made (the deadline is at most the expiry of the lease and the approval).
Consumable(i) ==
  /\ reservation[i].state = "RESERVED"
  /\ run.version = reservation[i].version
  /\ run.status = reservation[i].status
  /\ run.generation = reservation[i].generation
  /\ Fenced
  /\ clock < reservation[i].invokeBy
  /\ attempt[i].number < MaxAttempts

\* consumeCurrentEffect, accepted.  The token is gone before the store is
\* asked; whoever does not get the answer in time will not call.
ConsumeCurrentEffect(i) ==
  /\ invoker[i] = "HOLDS"
  /\ Consumable(i)
  /\ reservation' = [reservation EXCEPT ![i].state = "CONSUMED"]
  /\ attempt' = [attempt EXCEPT ![i] =
       [number |-> attempt[i].number + 1, state |-> "READY_TO_INVOKE",
        proof |-> "NONE"]]
  /\ \E told \in {"NONE", "ARMED"} : invoker' = [invoker EXCEPT ![i] = told]
  /\ UNCHANGED <<clock, run, validation, approval, intents, receipts, remote>>

\* consumeCurrentEffect, rejected: the token is gone all the same.
ConsumeRejected(i) ==
  /\ invoker[i] = "HOLDS"
  /\ ~Consumable(i)
  /\ invoker' = [invoker EXCEPT ![i] = "NONE"]
  /\ UNCHANGED <<clock, run, validation, approval, intents, reservation,
                 attempt, receipts, remote>>

-----------------------------------------------------------------------------
(* The call and what is recorded about it.                                 *)

\* The adapter starts its call, once, whatever the clock says by now.
Send(i) ==
  /\ invoker[i] = "ARMED"
  /\ invoker' = [invoker EXCEPT ![i] = "NONE"]
  /\ remote' = [remote EXCEPT ![i].pending = remote[i].pending + 1]
  /\ UNCHANGED <<clock, run, validation, approval, intents, reservation,
                 attempt, receipts>>

RemoteApplies(i) ==
  /\ remote[i].pending > 0
  /\ remote' = [remote EXCEPT ![i] =
       [pending |-> remote[i].pending - 1, applied |-> remote[i].applied + 1]]
  /\ UNCHANGED <<clock, run, validation, approval, intents, reservation,
                 invoker, attempt, receipts>>

RemoteLoses(i) ==
  /\ remote[i].pending > 0
  /\ remote' = [remote EXCEPT ![i].pending = remote[i].pending - 1]
  /\ UNCHANGED <<clock, run, validation, approval, intents, reservation,
                 invoker, attempt, receipts>>

\* recordEffectSuccess, by the attempt's fence and without a lease, for an
\* effect that was seen outside.
RecordEffectSuccess(i) ==
  /\ attempt[i].state = "READY_TO_INVOKE"
  /\ reservation[i].state = "CONSUMED"
  /\ Validated
  /\ remote[i].applied > 0
  /\ receipts' = receipts \cup {i}
  /\ attempt' = [attempt EXCEPT ![i].state = "SUCCEEDED"]
  /\ UNCHANGED <<clock, run, validation, approval, intents, reservation,
                 invoker, remote>>

\* recordEffectAmbiguous, by a process that has stopped trying to call.
RecordEffectAmbiguous(i) ==
  /\ attempt[i].state = "READY_TO_INVOKE"
  /\ invoker[i] # "ARMED"
  /\ attempt' = [attempt EXCEPT ![i].state = "RECONCILIATION_REQUIRED"]
  /\ UNCHANGED <<clock, run, validation, approval, intents, reservation,
                 invoker, receipts, remote>>

\* reconcileEffectAttempt needs a live lease, and the first proof stands.
Reconcilable(i) ==
  /\ attempt[i].state = "RECONCILIATION_REQUIRED"
  /\ Fenced
  /\ attempt[i].proof = "NONE"

\* The effect was seen outside.
ReconcileApplied(i) ==
  /\ Reconcilable(i)
  /\ remote[i].applied > 0
  /\ Validated
  /\ receipts' = receipts \cup {i}
  /\ attempt' =
       [attempt EXCEPT ![i].state = "SUCCEEDED", ![i].proof = "APPLIED"]
  /\ UNCHANGED <<clock, run, validation, approval, intents, reservation,
                 invoker, remote>>

\* The effect was not seen outside; a call that is still under way may yet
\* be applied.
ReconcileNotApplied(i) ==
  /\ Reconcilable(i)
  /\ remote[i].applied = 0
  /\ attempt' = [attempt EXCEPT ![i].proof = "NOT_APPLIED"]
  /\ UNCHANGED <<clock, run, validation, approval, intents, reservation,
                 invoker, receipts, remote>>

\* The worker's process, or the authority's, dies with its tokens.
Crash ==
  /\ invoker' = [i \in Intents |-> "NONE"]
  /\ UNCHANGED <<clock, run, validation, approval, intents, reservation,
                 attempt, receipts, remote>>

Tick ==
  /\ clock < MaxClock
  /\ clock' = clock + 1
  /\ UNCHANGED <<run, validation, effectVars>>

-----------------------------------------------------------------------------

RunStep ==
  \/ ClaimDue
  \/ RenewLease
  \/ ReleaseLease
  \/ AppendCandidate
  \/ IssueValidation
  \/ \E to \in EffectStatuses : Transition(to)
  \/ \E k \in Kinds : RecordEffectApproval(k)

EffectStep(i) ==
  \/ BeginEffect(i)
  \/ ReserveCurrentEffect(i)
  \/ CancelBeforeSend(i)
  \/ ConsumeCurrentEffect(i)
  \/ ConsumeRejected(i)
  \/ Send(i)
  \/ RemoteApplies(i)
  \/ RemoteLoses(i)
  \/ RecordEffectSuccess(i)
  \/ RecordEffectAmbiguous(i)
  \/ ReconcileApplied(i)
  \/ ReconcileNotApplied(i)

Next ==
  \/ RunStep
  \/ \E i \in Intents : EffectStep(i)
  \/ Crash
  \/ Tick

Spec == Init /\ [][Next]_vars

-----------------------------------------------------------------------------
(* Safety.                                                                 *)

\* Every variable has its type, and the CHECKs of the tables hold of the rows.
TypeOK ==
  /\ clock \in Nat
  /\ run \in Row
  /\ run.held <=> run.expires > 0
  /\ validation \in [generation: Nat, candidate: Nat]
  /\ approval \in [Kinds -> Nat]
  /\ intents \subseteq Intents
  /\ reservation \in [Intents -> Reservation]
  /\ invoker \in [Intents -> InvokerStates]
  /\ attempt \in [Intents -> Attempt]
  /\ \A i \in Intents :
       reservation[i].state = "CONSUMED" <=> attempt[i].state # "NONE"
  /\ receipts \subseteq intents
  /\ remote \in [Intents -> [pending: Nat, applied: Nat]]

Called(i) == remote[i].pending + remote[i].applied > 0

\* No effect is ever called for twice, whatever crashed, expired or was
\* reconciled in between ("A GitHub POST is sent at most once",
\* docs/specs/2026-08-04-reviewed-external-effects.md:93-98).
AtMostOnce == \A i \in Intents : remote[i].pending + remote[i].applied <= 1

\* While nobody knows what became of a call, the run stays in the status and
\* with the lease under which the call was authorized: no other worker gets
\* hold of it, and nobody can fail or cancel it.
UnresolvedCallHoldsRun ==
  \A i \in Intents : Unresolved(i) =>
    /\ run.status = EffectState[Kind[i]]
    /\ run.generation = reservation[i].generation
    /\ run.held

\* A run that ended leaves no call behind that may still be started, and no
\* call that was made without a receipt or a proof that it was not seen.
TerminalAccounted ==
  run.status \in TerminalStatuses =>
    \A i \in Intents :
      /\ invoker[i] # "ARMED"
      /\ Called(i) => i \in receipts \/ attempt[i].proof = "NOT_APPLIED"

\* A completed run has one receipt of each kind, for an effect that really
\* happened, and both are for the candidate that was validated, which nobody
\* has replaced since.
CompletedEffects ==
  run.status = "COMPLETED" =>
    /\ Validated
    /\ \A k \in Kinds : \E i \in receipts :
         /\ ReceiptsOf(k) = {i}
         /\ remote[i].applied > 0

\* A call starts only while the run is in the status the call belongs to and
\* under the lease that reserved it, although nothing is checked any more
\* between the consumption of the reservation and the call.
CallsUnderReservation ==
  [][\A i \in Intents : remote'[i].pending > remote[i].pending =>
       /\ run.status = EffectState[Kind[i]]
       /\ run.generation = reservation[i].generation]_vars

\* A call is authorized only for the candidate that was validated, although the
\* consumption compares versions and not candidates.
AuthorizedAsValidated ==
  [][\A i \in Intents : attempt'[i].number > attempt[i].number =>
       Validated /\ Approved(Kind[i])]_vars

\* A reservation whose token is lost (a reply that did not arrive, a crash, a
\* rejected consumption) is never used, and never gives way to another.
LostTokenIsFinal ==
  [][\A i \in Intents :
       reservation[i].state = "RESERVED" /\ invoker[i] = "NONE" =>
         reservation'[i] = reservation[i] /\ invoker'[i] = "NONE"]_vars

\* Some kind of effect was not begun by the worker whose lease the validation
\* is bound to, and that lease is gone.
TakenOverTooEarly ==
  /\ run.status \in
       {"VALIDATED", "REVIEW_ARTIFACT_CREATED", "WRITEBACK_PENDING"}
  /\ ~OriginalLease
  /\ \E k \in Kinds : \A i \in intents : Kind[i] # k

\* Such a run never completes, whoever takes it over: beginEffect accepts the
\* lease of the validation only, and a validated run is not validated again.
TakenOverRunNeverCompletes ==
  [][TakenOverTooEarly =>
       \/ TakenOverTooEarly'
       \/ run'.status \in TerminalStatuses \ {"COMPLETED"}]_vars

\* Effects are made as the abstract protocol promises.
External == INSTANCE ExternalEffects WITH
  phase <- [i \in Intents |->
    IF reservation[i].state # "CONSUMED" THEN "IDLE"
    ELSE IF i \in receipts THEN "APPLIED"
    ELSE IF attempt[i].proof = "NOT_APPLIED" THEN "NOT_APPLIED"
    ELSE "CALLED"],
  applied <- [i \in Intents |-> remote[i].applied],
  ended <- run.status \in TerminalStatuses

ImplementsExternalEffects == External!Spec

-----------------------------------------------------------------------------
(* What makes the safety properties inductive.                             *)

\* A reservation belongs to an intent and its status; a token in memory is of
\* a reservation that can still be used, for the candidate validated when its
\* version was current; a process told that it consumed has not called yet.
TokensSound ==
  \A i \in Intents :
    /\ reservation[i].state # "NONE" =>
         i \in intents /\ reservation[i].status = EffectState[Kind[i]]
    /\ reservation[i].state = "RESERVED" =>
         reservation[i].invokeBy <= approval[Kind[i]]
    /\ invoker[i] = "HOLDS" =>
         /\ reservation[i].state = "RESERVED"
         /\ reservation[i].version <= run.version
         /\ reservation[i].version = run.version => Validated
    /\ invoker[i] = "ARMED" =>
         attempt[i].state = "READY_TO_INVOKE" /\ ~Called(i)

\* A call was made only for a consumed reservation, a receipt is for a
\* successful attempt whose effect was applied, and a proof decides once.
OutcomesSound ==
  \A i \in Intents :
    /\ Called(i) => reservation[i].state = "CONSUMED"
    /\ i \in receipts <=> attempt[i].state = "SUCCEEDED"
    /\ i \in receipts => remote[i].applied > 0
    /\ attempt[i].proof = "APPLIED" => i \in receipts
    /\ attempt[i].proof = "NOT_APPLIED" =>
         attempt[i].state = "RECONCILIATION_REQUIRED"

\* A later approval lasts at least as long, a validation is of the present
\* lease or an earlier one, and a run that ended is held by nobody.
RunSound ==
  /\ \A k \in Kinds : approval[k] <= clock + ApprovalTerm
  /\ validation.generation <= run.generation
  /\ run.status \in TerminalStatuses => ~run.held

EffectInv ==
  /\ TypeOK
  /\ AtMostOnce
  /\ UnresolvedCallHoldsRun
  /\ CompletedEffects
  /\ TokensSound
  /\ OutcomesSound
  /\ RunSound

-----------------------------------------------------------------------------
(* Liveness.                                                               *)

\* Time passes, workers poll, and whoever recovers a run records and
\* reconciles what it can.  Nothing obliges anyone to start an effect.
Fairness ==
  /\ WF_vars(Tick)
  /\ WF_vars(ClaimDue)
  /\ \A i \in Intents :
       /\ WF_vars(RemoteApplies(i) \/ RemoteLoses(i))
       /\ WF_vars(RecordEffectSuccess(i) \/ RecordEffectAmbiguous(i))
       /\ WF_vars(ReconcileApplied(i) \/ ReconcileNotApplied(i))

FairSpec == Spec /\ Fairness

\* An active run whose lease has expired (and which the bounds let be claimed).
Lapsed ==
  /\ run.status \in ActiveStatuses
  /\ run.held /\ run.expires <= clock
  /\ RoomForWrite /\ run.generation < MaxGeneration

\* An expired lease is reclaimed, reservations that nobody can use any more
\* notwithstanding, unless a call is unresolved.
LapsedLeaseIsReclaimed ==
  (Lapsed /\ \A i \in Intents : ~Unresolved(i)) ~> ~Lapsed

\* "An expired lease can be reclaimed with a new fencing token; the old token
\* is rejected" (docs/specs/2026-08-04-durable-run-store.md:37).
ExpiredLeaseIsReclaimed == Lapsed ~> ~Lapsed

==============================================================================
