------------------------ MODULE EffectAuthorityProofs ------------------------
(***************************************************************************)
(* Safety of external effects, for any number of intents of either kind,   *)
(* any terms of leases, approvals and invocations, and any bounds.         *)
(***************************************************************************)
EXTENDS EffectAuthority, FiniteSetTheorems, TLAPS

-----------------------------------------------------------------------------
(* What each update of the run's row does to its columns.                  *)

\* A write bumps the version.
LEMMA WrittenFields ==
  ASSUME NEW row \in Row
  PROVE  /\ Written(row) \in Row
         /\ Written(row).version = row.version + 1
         /\ Written(row).status = row.status
         /\ Written(row).held = row.held
         /\ Written(row).generation = row.generation
         /\ Written(row).expires = row.expires
         /\ Written(row).candidate = row.candidate
BY DEF Written, Row

\* A row without a lease has neither a holder nor an expiry.
LEMMA WithoutLeaseFields ==
  ASSUME NEW row \in Row
  PROVE  /\ WithoutLease(row) \in Row
         /\ WithoutLease(row).version = row.version
         /\ WithoutLease(row).status = row.status
         /\ WithoutLease(row).held = FALSE
         /\ WithoutLease(row).generation = row.generation
         /\ WithoutLease(row).expires = 0
         /\ WithoutLease(row).candidate = row.candidate
<1> DEFINE vacant == [row EXCEPT !.held = FALSE]
<1>1. WithoutLease(row) = [vacant EXCEPT !.expires = 0]
  BY DEF WithoutLease
<1>2. /\ vacant \in Row /\ vacant.held = FALSE
      /\ vacant.version = row.version /\ vacant.status = row.status
      /\ vacant.generation = row.generation
      /\ vacant.expires = row.expires /\ vacant.candidate = row.candidate
  BY DEF Row
<1> HIDE DEF vacant
<1> QED
  BY <1>1, <1>2 DEF Row

\* Terms are positive.
LEMMA TermsPositive ==
  /\ LeaseTerm \in Nat /\ LeaseTerm > 0
  /\ ApprovalTerm \in Nat /\ ApprovalTerm > 0
  /\ InvokeTerm \in Nat /\ InvokeTerm > 0
BY EffectAssumption

\* Every effect belongs to an active status.
LEMMA EffectStateActive ==
  /\ EffectState \in [Kinds -> EffectStatuses]
  /\ \A k \in Kinds : EffectState[k] \notin TerminalStatuses
<1>1. \A k \in Kinds :
        EffectState[k] = IF k = "GITHUB_REVIEW" THEN "VALIDATED"
                                                ELSE "WRITEBACK_PENDING"
  BY DEF EffectState
<1>2. /\ {"VALIDATED", "WRITEBACK_PENDING"} \subseteq EffectStatuses
      /\ "VALIDATED" \notin TerminalStatuses
      /\ "WRITEBACK_PENDING" \notin TerminalStatuses
  BY DEF EffectStatuses, TerminalStatuses
<1>3. EffectState \in [Kinds -> EffectStatuses]
  BY <1>2 DEF EffectState
<1> QED
  BY <1>1, <1>2, <1>3

-----------------------------------------------------------------------------
(* Steps that write the run's row.                                         *)

\* What the invariants need to know of such a step: the version grows, the
\* lease's generation does not shrink, and the trigger has let it pass.
RowStep ==
  /\ run' \in Row
  /\ run'.version = run.version + 1
  /\ run'.generation >= run.generation
  /\ run'.held <=> run'.expires > 0
  /\ ~Frozen \/ /\ run'.status = run.status
                /\ run'.held = run.held
                /\ run'.generation = run.generation
  /\ run'.status \in TerminalStatuses =>
       ~run'.held \/ (run'.status = run.status /\ run'.held = run.held)
  /\ run'.candidate # run.candidate => run.held
  /\ run'.status = "COMPLETED" =>
       \/ run.status = "COMPLETED"
       \/ /\ \A k \in Kinds : Proven(k)
          /\ run'.candidate = run.candidate
          /\ UNCHANGED validation
  /\ UNCHANGED <<clock, approval, reservation, invoker, attempt, receipts, remote>>

\* A claim is such a step.
LEMMA ClaimRowStep ==
  ASSUME TypeOK, ClaimDue
  PROVE  RowStep /\ run'.status \in ActiveStatuses /\ UNCHANGED <<validation, intents>>
<1> DEFINE written == Written(run)
           taken == [written EXCEPT !.held = TRUE]
           dated == [taken EXCEPT !.expires = clock + LeaseTerm]
<1>1. run' = [dated EXCEPT !.generation = run.generation + 1]
  BY DEF ClaimDue
<1>2. /\ run \in Row /\ clock + LeaseTerm \in Nat /\ clock + LeaseTerm > 0
      /\ run.generation + 1 \in Nat
  BY TermsPositive DEF TypeOK, Row
<1>3. /\ written \in Row /\ written.version = run.version + 1
      /\ written.status = run.status /\ written.generation = run.generation
      /\ written.candidate = run.candidate
  BY <1>2, WrittenFields
<1> HIDE DEF written
<1>4. /\ taken \in Row /\ taken.held = TRUE /\ taken.version = written.version
      /\ taken.status = written.status /\ taken.generation = written.generation
      /\ taken.candidate = written.candidate
  BY <1>3 DEF Row
<1> HIDE DEF taken
<1>5. /\ dated \in Row /\ dated.expires = clock + LeaseTerm /\ dated.held = taken.held
      /\ dated.version = taken.version /\ dated.status = taken.status
      /\ dated.generation = taken.generation /\ dated.candidate = taken.candidate
  BY <1>2, <1>4 DEF Row
<1> HIDE DEF dated
<1>6. /\ run' \in Row /\ run'.generation = run.generation + 1
      /\ run'.expires = clock + LeaseTerm /\ run'.held = TRUE
      /\ run'.version = run.version + 1 /\ run'.status = run.status
      /\ run'.candidate = run.candidate
  BY <1>1, <1>2, <1>3, <1>4, <1>5 DEF Row
<1>7. run.status \in ActiveStatuses /\ run.status \notin TerminalStatuses /\ ~Frozen
  BY DEF ClaimDue, ActiveStatuses, TerminalStatuses
<1>8. UNCHANGED <<clock, validation, approval, intents, reservation, invoker, attempt, receipts, remote>>
  BY DEF ClaimDue, effectVars
<1> QED
  BY <1>2, <1>6, <1>7, <1>8 DEF RowStep, Row

\* So is a renewal.
LEMMA RenewRowStep ==
  ASSUME TypeOK, RenewLease
  PROVE  RowStep /\ UNCHANGED <<validation, intents>>
<1> DEFINE written == Written(run)
<1>1. run' = [written EXCEPT !.expires = run.expires + LeaseTerm]
  BY DEF RenewLease
<1>2. /\ run \in Row /\ run.expires + LeaseTerm \in Nat
      /\ run.expires + LeaseTerm > 0
  BY TermsPositive DEF TypeOK, Row
<1>3. /\ written \in Row /\ written.version = run.version + 1
      /\ written.status = run.status /\ written.generation = run.generation
      /\ written.candidate = run.candidate /\ written.held = run.held
  BY <1>2, WrittenFields
<1> HIDE DEF written
<1>4. /\ run' \in Row /\ run'.expires = run.expires + LeaseTerm
      /\ run'.held = run.held /\ run'.generation = run.generation
      /\ run'.version = run.version + 1 /\ run'.status = run.status
      /\ run'.candidate = run.candidate
  BY <1>1, <1>2, <1>3 DEF Row
<1>5. run.held = TRUE
  BY <1>2 DEF RenewLease, Fenced, Row
<1>6. UNCHANGED <<clock, validation, approval, intents, reservation, invoker,
                  attempt, receipts, remote>>
  BY DEF RenewLease, effectVars
<1> QED
  BY <1>2, <1>4, <1>5, <1>6 DEF RowStep, Row

\* And giving the lease back.
LEMMA ReleaseRowStep ==
  ASSUME TypeOK, ReleaseLease
  PROVE  RowStep /\ UNCHANGED <<validation, intents>>
<1> DEFINE written == Written(run)
<1>1. run \in Row /\ run' = WithoutLease(written) /\ ~Frozen
  BY DEF ReleaseLease, TypeOK
<1>2. /\ written \in Row /\ written.version = run.version + 1
      /\ written.status = run.status /\ written.generation = run.generation
      /\ written.candidate = run.candidate
  BY <1>1, WrittenFields
<1> HIDE DEF written
<1>3. /\ run' \in Row /\ run'.version = run.version + 1 /\ run'.held = FALSE
      /\ run'.status = run.status /\ run'.generation = run.generation
      /\ run'.expires = 0 /\ run'.candidate = run.candidate
  BY <1>1, <1>2, WithoutLeaseFields
<1>4. UNCHANGED <<clock, validation, approval, intents, reservation, invoker,
                  attempt, receipts, remote>>
  BY DEF ReleaseLease, effectVars
<1>5. /\ run'.held <=> run'.expires > 0
      /\ run'.status = "COMPLETED" => run.status = "COMPLETED"
      /\ run'.generation >= run.generation
      /\ run'.status \in TerminalStatuses => ~run'.held
      /\ run'.candidate # run.candidate => run.held
  BY <1>1, <1>3 DEF Row
<1> QED
  BY <1>1, <1>3, <1>4, <1>5 DEF RowStep

\* And an appended candidate.
LEMMA AppendRowStep ==
  ASSUME TypeOK, AppendCandidate
  PROVE  RowStep /\ UNCHANGED <<validation, intents>>
<1> DEFINE written == Written(run)
<1>1. run \in Row /\ run' = [written EXCEPT !.candidate = run.candidate + 1]
  BY DEF AppendCandidate, TypeOK
<1>2. /\ written \in Row /\ written.version = run.version + 1
      /\ written.status = run.status /\ written.generation = run.generation
      /\ written.expires = run.expires /\ written.held = run.held
  BY <1>1, WrittenFields
<1>3. run.candidate + 1 \in Nat
  BY <1>1 DEF Row
<1> HIDE DEF written
<1>4. /\ run' \in Row /\ run'.version = run.version + 1 /\ run'.held = run.held
      /\ run'.status = run.status /\ run'.generation = run.generation
      /\ run'.expires = run.expires
  BY <1>1, <1>2, <1>3 DEF Row
<1>5. UNCHANGED <<clock, validation, approval, intents, reservation, invoker,
                  attempt, receipts, remote>>
  BY DEF AppendCandidate, effectVars
<1>6. run.held = TRUE /\ run.expires > 0
  BY <1>1 DEF AppendCandidate, Fenced, TypeOK, Row
<1>7. run'.held <=> run'.expires > 0
  BY <1>4, <1>6
<1>8. run'.generation >= run.generation
  BY <1>1, <1>4 DEF Row
<1> QED
  BY <1>4, <1>5, <1>6, <1>7, <1>8 DEF RowStep

\* Issuing a validation and beginning an effect only bump the version.
LEMMA BumpRowStep ==
  ASSUME TypeOK, run' = Written(run),
         UNCHANGED <<clock, approval, reservation, invoker, attempt, receipts, remote>>
  PROVE  RowStep
<1>1. run \in Row /\ (run.held <=> run.expires > 0)
  BY DEF TypeOK
<1>2. /\ run' \in Row /\ run'.version = run.version + 1 /\ run'.held = run.held
      /\ run'.status = run.status /\ run'.generation = run.generation
      /\ run'.expires = run.expires /\ run'.candidate = run.candidate
  BY <1>1, WrittenFields
<1> QED
  BY <1>1, <1>2 DEF RowStep, Row

\* A transition is such a step; it passes the trigger, and one that ends the
\* run takes the lease away.
LEMMA TransitionRowStep ==
  ASSUME TypeOK, NEW to \in EffectStatuses, Transition(to)
  PROVE  /\ RowStep /\ ~Frozen
         /\ run'.status = to /\ run'.generation = run.generation
         /\ run'.candidate = run.candidate
         /\ UNCHANGED <<validation, intents>>
<1> DEFINE written == Written(run)
           moved == [written EXCEPT !.status = to]
<1>1. /\ run \in Row /\ ~Frozen
      /\ run' = IF to \in TerminalStatuses THEN WithoutLease(moved) ELSE moved
      /\ run.held <=> run.expires > 0
  BY DEF Transition, TypeOK
<1>2. /\ written \in Row /\ written.version = run.version + 1
      /\ written.generation = run.generation /\ written.held = run.held
      /\ written.expires = run.expires /\ written.candidate = run.candidate
  BY <1>1, WrittenFields
<1> HIDE DEF written
<1>3. /\ moved \in Row /\ moved.status = to /\ moved.version = run.version + 1
      /\ moved.generation = run.generation /\ moved.held = run.held
      /\ moved.expires = run.expires /\ moved.candidate = run.candidate
  BY <1>2 DEF Row
<1> HIDE DEF moved
<1>4. /\ run' \in Row /\ run'.version = run.version + 1 /\ run'.status = to
      /\ run'.generation = run.generation /\ run'.candidate = run.candidate
      /\ run'.held <=> run'.expires > 0
      /\ to \in TerminalStatuses => ~run'.held
  <2>1. CASE to \in TerminalStatuses
    <3>1. run' = WithoutLease(moved)
      BY <1>1, <2>1
    <3>2. /\ run' \in Row /\ run'.version = moved.version
          /\ run'.status = moved.status /\ run'.held = FALSE
          /\ run'.generation = moved.generation /\ run'.expires = 0
          /\ run'.candidate = moved.candidate
      BY <1>3, <3>1, WithoutLeaseFields
    <3> QED
      BY <1>3, <3>2
  <2>2. CASE to \notin TerminalStatuses
    BY <1>1, <1>3, <2>2
  <2> QED
    BY <2>1, <2>2
<1>5. UNCHANGED <<clock, validation, approval, intents, reservation, invoker,
                  attempt, receipts, remote>>
  BY DEF Transition, effectVars
<1>6. to = "COMPLETED" => \A k \in Kinds : Proven(k)
  BY DEF Transition, EvidenceFor, CompletionPrerequisites
<1>7. run'.generation >= run.generation
  BY <1>1, <1>4 DEF Row
<1>8. RowStep
  <2>1. /\ run'.candidate # run.candidate => run.held
        /\ run'.status = "COMPLETED" =>
             /\ \A k \in Kinds : Proven(k)
             /\ run'.candidate = run.candidate
             /\ UNCHANGED validation
    BY <1>4, <1>5, <1>6
  <2> QED
    BY <1>1, <1>4, <1>5, <1>7, <2>1 DEF RowStep
<1> QED
  BY <1>1, <1>4, <1>5, <1>8

-----------------------------------------------------------------------------
(* The inductive invariant.                                                *)

\* What the invariant says of one intent.
IntentInv(i) ==
  /\ remote[i].pending + remote[i].applied <= 1
  /\ Unresolved(i) =>
       /\ run.status = EffectState[Kind[i]]
       /\ run.generation = reservation[i].generation
       /\ run.held
  /\ reservation[i].state # "NONE" =>
       i \in intents /\ reservation[i].status = EffectState[Kind[i]]
  /\ reservation[i].state = "RESERVED" =>
       reservation[i].invokeBy <= approval[Kind[i]]
  /\ invoker[i] = "HOLDS" =>
       /\ reservation[i].state = "RESERVED"
       /\ reservation[i].version <= run.version
       /\ reservation[i].version = run.version => Validated
  /\ invoker[i] = "ARMED" =>
       attempt[i].state = "READY_TO_INVOKE" /\ ~Called(i)
  /\ Called(i) => reservation[i].state = "CONSUMED"
  /\ i \in receipts <=> attempt[i].state = "SUCCEEDED"
  /\ i \in receipts => remote[i].applied > 0
  /\ attempt[i].proof = "APPLIED" => i \in receipts
  /\ attempt[i].proof = "NOT_APPLIED" =>
       attempt[i].state = "RECONCILIATION_REQUIRED"

\* The invariant, intent by intent.
LEMMA InvByIntent ==
  EffectInv <=> /\ TypeOK
                /\ RunSound
                /\ CompletedEffects
                /\ \A i \in Intents : IntentInv(i)
BY DEF EffectInv, AtMostOnce, UnresolvedCallHoldsRun, TokensSound,
       OutcomesSound, IntentInv

\* The same of the next state.
LEMMA InvByIntentNext ==
  ASSUME TypeOK', RunSound', CompletedEffects', \A i \in Intents : IntentInv(i)'
  PROVE  EffectInv'
BY DEF EffectInv, AtMostOnce, UnresolvedCallHoldsRun, TokensSound,
       OutcomesSound, IntentInv

\* One receipt of a kind that counts as one is a single intent's.
LEMMA ProvenIsSingle ==
  ASSUME TypeOK, NEW k \in Kinds, Proven(k)
  PROVE  \E i \in receipts : Kind[i] = k /\ ReceiptsOf(k) = {i}
<1>1. IsFiniteSet(ReceiptsOf(k))
  <2>1. ReceiptsOf(k) \subseteq Intents
    BY DEF ReceiptsOf, TypeOK
  <2> QED
    BY <2>1, EffectAssumption, FS_Subset
<1>2. Cardinality(ReceiptsOf(k)) = 1
  BY DEF Proven
<1>3. PICK i : ReceiptsOf(k) = {i}
  BY <1>1, <1>2, FS_Singleton
<1> QED
  BY <1>3 DEF ReceiptsOf

\* A write to the row keeps the invariant: whatever the trigger lets pass
\* finds no unresolved call, and a reservation that was made for an older
\* version stays so.
LEMMA RowStepInv ==
  ASSUME EffectInv, RowStep,
         validation' \in [generation: Nat, candidate: Nat],
         \/ UNCHANGED validation
         \/ run.status = "VALIDATING" /\ validation'.generation <= run'.generation,
         intents \subseteq intents', intents' \subseteq Intents
  PROVE  EffectInv'
<1>1. /\ TypeOK /\ RunSound /\ CompletedEffects
      /\ \A i \in Intents : IntentInv(i)
  BY InvByIntent
<1>2. TypeOK'
  BY <1>1 DEF TypeOK, RowStep
<1>3. RunSound'
  <2>1. validation'.generation <= run'.generation
    BY <1>1, <1>2 DEF RunSound, RowStep, TypeOK, Row
  <2>2. run'.status \in TerminalStatuses => ~run'.held
    BY <1>1 DEF RunSound, RowStep
  <2> QED
    BY <1>1, <2>1, <2>2 DEF RunSound, RowStep
<1>4. CompletedEffects'
  <2> SUFFICES ASSUME run'.status = "COMPLETED"
               PROVE  /\ Validated'
                      /\ \A k \in Kinds : \E i \in receipts :
                           ReceiptsOf(k) = {i} /\ remote[i].applied > 0
    BY DEF CompletedEffects, RowStep, ReceiptsOf
  <2>1. CASE run.status = "COMPLETED"
    <3>1. run.status \in TerminalStatuses /\ run.status # "VALIDATING"
      BY <2>1 DEF TerminalStatuses
    <3>2. run'.candidate = run.candidate /\ UNCHANGED validation
      BY <1>1, <3>1 DEF RunSound, RowStep
    <3> QED
      BY <1>1, <2>1, <3>2 DEF CompletedEffects, Validated
  <2>2. CASE run.status # "COMPLETED"
    <3>1. /\ \A k \in Kinds : Proven(k)
          /\ run'.candidate = run.candidate /\ UNCHANGED validation
      BY <2>2 DEF RowStep
    <3>2. "GITHUB_REVIEW" \in Kinds
      BY DEF Kinds
    <3>3. Validated'
      BY <3>1, <3>2 DEF Proven, Validated
    <3>4. \A i \in receipts : remote[i].applied > 0
      BY <1>1 DEF IntentInv, TypeOK
    <3> QED
      BY <1>1, <3>1, <3>3, <3>4, ProvenIsSingle
  <2> QED
    BY <2>1, <2>2
<1>5. ASSUME NEW i \in Intents PROVE IntentInv(i)'
  <2>1. IntentInv(i)
    BY <1>1
  <2>2. /\ Called(i)' = Called(i) /\ Unresolved(i)' = Unresolved(i)
        /\ UNCHANGED <<approval, reservation, invoker, attempt, receipts, remote>>
    BY DEF RowStep, Called, Unresolved
  <2>3. Unresolved(i) =>
          /\ run'.status = run.status /\ run'.generation = run.generation
          /\ run'.held = run.held
    BY DEF RowStep, Frozen
  <2>4. ~(reservation[i].version <= run.version /\ reservation[i].version = run'.version)
    BY <1>1 DEF RowStep, TypeOK, Row, Reservation
  <2>5. reservation[i].version <= run.version => reservation[i].version <= run'.version
    BY <1>1 DEF RowStep, TypeOK, Row, Reservation
  <2>6. Unresolved(i)' =>
          /\ run'.status = EffectState[Kind[i]]
          /\ run'.generation = reservation'[i].generation
          /\ run'.held
    BY <2>1, <2>2, <2>3 DEF IntentInv
  <2>7. /\ reservation'[i].state # "NONE" =>
             i \in intents' /\ reservation'[i].status = EffectState[Kind[i]]
        /\ reservation'[i].state = "RESERVED" =>
             reservation'[i].invokeBy <= approval'[Kind[i]]
    BY <2>1, <2>2 DEF IntentInv
  <2>8. invoker'[i] = "HOLDS" =>
          /\ reservation'[i].state = "RESERVED"
          /\ reservation'[i].version <= run'.version
          /\ reservation'[i].version = run'.version => Validated'
    BY <2>1, <2>2, <2>4, <2>5 DEF IntentInv
  <2>9. invoker'[i] = "ARMED" =>
          attempt'[i].state = "READY_TO_INVOKE" /\ ~Called(i)'
    BY <2>1, <2>2 DEF IntentInv
  <2>10. /\ remote'[i].pending + remote'[i].applied <= 1
         /\ Called(i)' => reservation'[i].state = "CONSUMED"
         /\ i \in receipts' <=> attempt'[i].state = "SUCCEEDED"
         /\ i \in receipts' => remote'[i].applied > 0
         /\ attempt'[i].proof = "APPLIED" => i \in receipts'
         /\ attempt'[i].proof = "NOT_APPLIED" =>
              attempt'[i].state = "RECONCILIATION_REQUIRED"
    BY <2>1, <2>2 DEF IntentInv
  <2> QED
    BY <2>6, <2>7, <2>8, <2>9, <2>10 DEF IntentInv
<1> QED
  BY <1>2, <1>3, <1>4, <1>5, InvByIntentNext

-----------------------------------------------------------------------------
(* Steps that concern one intent.                                          *)

\* Nothing but what is kept for one intent changes.
OnlyIntent(i) ==
  /\ UNCHANGED <<clock, run, validation, approval, intents>>
  /\ \A j \in Intents \ {i} :
       /\ reservation'[j] = reservation[j] /\ invoker'[j] = invoker[j]
       /\ attempt'[j] = attempt[j] /\ remote'[j] = remote[j]
       /\ j \in receipts' <=> j \in receipts

\* Such a step keeps the invariant if it keeps it for that intent; a receipt
\* that comes in is for an unresolved call, so the run has not completed.
LEMMA IntentStepInv ==
  ASSUME EffectInv, NEW i \in Intents, OnlyIntent(i), TypeOK', IntentInv(i)',
         remote'[i].applied >= remote[i].applied,
         UNCHANGED receipts \/ Unresolved(i)
  PROVE  EffectInv'
<1>1. /\ TypeOK /\ RunSound /\ CompletedEffects
      /\ \A j \in Intents : IntentInv(j)
  BY InvByIntent
<1>2. RunSound'
  BY <1>1 DEF RunSound, OnlyIntent
<1>3. CompletedEffects'
  <2> SUFFICES ASSUME run.status = "COMPLETED"
               PROVE  /\ Validated
                      /\ \A k \in Kinds : \E j \in receipts' :
                           ReceiptsOf(k)' = {j} /\ remote'[j].applied > 0
    BY DEF CompletedEffects, OnlyIntent, Validated
  <2>1. ~Unresolved(i)
    <3>1. "COMPLETED" \in TerminalStatuses
      BY DEF TerminalStatuses
    <3>2. ~run.held
      BY <1>1, <3>1 DEF RunSound
    <3> QED
      BY <1>1, <3>2 DEF IntentInv
  <2>2. UNCHANGED receipts
    BY <2>1
  <2>3. \A k \in Kinds : ReceiptsOf(k)' = ReceiptsOf(k)
    BY <2>2 DEF ReceiptsOf
  <2>4. \A j \in receipts : remote[j].applied > 0 => remote'[j].applied > 0
    <3> SUFFICES ASSUME NEW j \in receipts, remote[j].applied > 0
                 PROVE  remote'[j].applied > 0
      OBVIOUS
    <3>1. j \in Intents
      BY <1>1 DEF TypeOK
    <3>2. CASE j = i
      BY <1>1, <3>2 DEF TypeOK
    <3>3. CASE j # i
      BY <3>1, <3>3 DEF OnlyIntent
    <3> QED
      BY <3>2, <3>3
  <2> QED
    BY <1>1, <2>2, <2>3, <2>4 DEF CompletedEffects
<1>4. ASSUME NEW j \in Intents PROVE IntentInv(j)'
  <2>1. CASE j = i
    BY <2>1
  <2>2. CASE j # i
    <3>1. IntentInv(j)
      BY <1>1
    <3>2. /\ UNCHANGED <<run, validation, approval, intents>>
          /\ reservation'[j] = reservation[j] /\ invoker'[j] = invoker[j]
          /\ attempt'[j] = attempt[j] /\ remote'[j] = remote[j]
          /\ j \in receipts' <=> j \in receipts
      BY <2>2 DEF OnlyIntent
    <3>3. /\ Called(j)' <=> Called(j)
          /\ Unresolved(j)' <=> Unresolved(j)
          /\ Validated' <=> Validated
      BY <3>2 DEF Called, Unresolved, Validated
    <3> QED
      BY <3>1, <3>2, <3>3 DEF IntentInv
  <2> QED
    BY <2>1, <2>2
<1> QED
  BY <1>1, <1>2, <1>3, <1>4, InvByIntentNext

\* A reservation is made for the run as it is.
LEMMA ReserveInv ==
  ASSUME EffectInv, NEW i \in Intents, ReserveCurrentEffect(i)
  PROVE  EffectInv'
<1>1. TypeOK /\ IntentInv(i)
  BY InvByIntent
<1> DEFINE deadline == Least(clock + InvokeTerm,
                             Least(run.expires, approval[Kind[i]]))
           made == [state |-> "RESERVED", version |-> run.version,
                    status |-> run.status, generation |-> run.generation,
                    invokeBy |-> deadline]
<1>2. PICK holds \in {"NONE", "HOLDS"} :
        /\ holds = "HOLDS" => Validated
        /\ invoker' = [invoker EXCEPT ![i] = holds]
  BY DEF ReserveCurrentEffect, HandOutToken
<1>3. /\ i \in intents /\ run.status = EffectState[Kind[i]]
      /\ reservation[i].state = "NONE"
      /\ reservation' = [reservation EXCEPT ![i] = made]
      /\ UNCHANGED <<clock, run, validation, approval, intents, attempt,
                     receipts, remote>>
  BY DEF ReserveCurrentEffect, HandOutToken, Unreserved
<1>4. Kind[i] \in Kinds /\ approval[Kind[i]] \in Nat
  BY <1>1, EffectAssumption DEF TypeOK
<1>5. deadline \in Nat /\ deadline <= approval[Kind[i]]
  <2>1. clock + InvokeTerm \in Nat /\ run.expires \in Nat
    BY <1>1, TermsPositive DEF TypeOK, Row
  <2> QED
    BY <1>4, <2>1 DEF Least
<1> HIDE DEF deadline
<1>6. made \in Reservation
  BY <1>1, <1>5 DEF Reservation, TypeOK, Row
<1>7. /\ reservation'[i].state = "RESERVED"
      /\ reservation'[i].version = run.version
      /\ reservation'[i].status = run.status
      /\ reservation'[i].invokeBy = deadline
      /\ invoker'[i] = holds
  BY <1>1, <1>2, <1>3 DEF TypeOK
<1>8. OnlyIntent(i)
  BY <1>1, <1>2, <1>3 DEF OnlyIntent, TypeOK
<1>9. TypeOK'
  <2>1. reservation' \in [Intents -> Reservation]
    BY <1>1, <1>3, <1>6 DEF TypeOK
  <2>2. invoker' \in [Intents -> InvokerStates]
    BY <1>1, <1>2 DEF TypeOK, InvokerStates
  <2>3. \A j \in Intents :
          reservation'[j].state = "CONSUMED" <=> attempt'[j].state # "NONE"
    <3>1. reservation[i].state # "CONSUMED" /\ reservation'[i].state # "CONSUMED"
      BY <1>3, <1>7
    <3> QED
      BY <1>1, <1>3, <1>8, <3>1 DEF TypeOK, OnlyIntent
  <2> QED
    BY <1>1, <1>3, <2>1, <2>2, <2>3 DEF TypeOK
<1>10. IntentInv(i)'
  <2>1. ~Called(i) /\ ~Called(i)' /\ ~Unresolved(i)'
    BY <1>1, <1>3, <1>7 DEF IntentInv, Called, Unresolved
  <2>2. run.version \in Nat
    BY <1>1 DEF TypeOK, Row
  <2>3. invoker'[i] = "HOLDS" => Validated'
    BY <1>2, <1>3, <1>7 DEF Validated
  <2>4. invoker'[i] # "ARMED"
    BY <1>7
  <2> QED
    BY <1>1, <1>3, <1>5, <1>7, <2>1, <2>2, <2>3, <2>4 DEF IntentInv
<1>11. remote'[i].applied >= remote[i].applied
  BY <1>1, <1>3 DEF TypeOK
<1> QED
  BY <1>3, <1>8, <1>9, <1>10, <1>11, IntentStepInv

\* A cancelled reservation was not consumed, so nobody has called.
LEMMA CancelInv ==
  ASSUME EffectInv, NEW i \in Intents, CancelBeforeSend(i)
  PROVE  EffectInv'
<1>1. TypeOK /\ IntentInv(i)
  BY InvByIntent
<1>2. /\ invoker[i] = "HOLDS" /\ reservation[i].state = "RESERVED"
      /\ reservation' = [reservation EXCEPT ![i] = NoReservation]
      /\ invoker' = [invoker EXCEPT ![i] = "NONE"]
      /\ UNCHANGED <<clock, run, validation, approval, intents, attempt,
                     receipts, remote>>
  BY DEF CancelBeforeSend
<1>3. /\ reservation'[i].state = "NONE" /\ invoker'[i] = "NONE"
      /\ NoReservation \in Reservation
  BY <1>1, <1>2 DEF TypeOK, NoReservation, Reservation, EffectStatuses
<1>4. OnlyIntent(i)
  BY <1>1, <1>2 DEF OnlyIntent, TypeOK
<1>5. TypeOK'
  <2>1. /\ reservation' \in [Intents -> Reservation]
        /\ invoker' \in [Intents -> InvokerStates]
    BY <1>1, <1>2, <1>3 DEF TypeOK, InvokerStates
  <2>2. \A j \in Intents :
          reservation'[j].state = "CONSUMED" <=> attempt'[j].state # "NONE"
    BY <1>1, <1>2, <1>3, <1>4 DEF TypeOK, OnlyIntent
  <2> QED
    BY <1>1, <1>2, <2>1, <2>2 DEF TypeOK
<1>6. IntentInv(i)'
  <2>1. ~Called(i) /\ ~Called(i)' /\ ~Unresolved(i)'
    BY <1>1, <1>2, <1>3 DEF IntentInv, Called, Unresolved
  <2> QED
    BY <1>1, <1>2, <1>3, <2>1 DEF IntentInv
<1>7. remote'[i].applied >= remote[i].applied
  BY <1>1, <1>2 DEF TypeOK
<1> QED
  BY <1>2, <1>4, <1>5, <1>6, <1>7, IntentStepInv

\* An accepted consumption finds the run as it was reserved: from here on the
\* call is unresolved, and the run stays where it is.
LEMMA ConsumeInv ==
  ASSUME EffectInv, NEW i \in Intents, ConsumeCurrentEffect(i)
  PROVE  EffectInv'
<1>1. TypeOK /\ IntentInv(i)
  BY InvByIntent
<1> DEFINE begun == [number |-> attempt[i].number + 1,
                     state |-> "READY_TO_INVOKE", proof |-> "NONE"]
<1>2. PICK told \in {"NONE", "ARMED"} :
        invoker' = [invoker EXCEPT ![i] = told]
  BY DEF ConsumeCurrentEffect
<1>3. /\ Consumable(i)
      /\ reservation' = [reservation EXCEPT ![i].state = "CONSUMED"]
      /\ attempt' = [attempt EXCEPT ![i] = begun]
      /\ UNCHANGED <<clock, run, validation, approval, intents, receipts, remote>>
  BY DEF ConsumeCurrentEffect
<1>4. /\ reservation[i] \in Reservation /\ attempt[i] \in Attempt
      /\ reservation'[i] = [reservation[i] EXCEPT !.state = "CONSUMED"]
      /\ attempt'[i] = begun /\ invoker'[i] = told
  BY <1>1, <1>2, <1>3 DEF TypeOK
<1>5. begun \in Attempt
  BY <1>4 DEF Attempt
<1>6. /\ reservation'[i] \in Reservation
      /\ reservation'[i].state = "CONSUMED"
      /\ reservation'[i].status = reservation[i].status
      /\ reservation'[i].generation = reservation[i].generation
      /\ attempt'[i].state = "READY_TO_INVOKE" /\ attempt'[i].proof = "NONE"
  BY <1>4 DEF Reservation
<1>7. OnlyIntent(i)
  BY <1>1, <1>2, <1>3 DEF OnlyIntent, TypeOK
<1>8. TypeOK'
  <2>1. /\ reservation' \in [Intents -> Reservation]
        /\ attempt' \in [Intents -> Attempt]
        /\ invoker' \in [Intents -> InvokerStates]
    BY <1>1, <1>2, <1>3, <1>4, <1>5, <1>6 DEF TypeOK, InvokerStates
  <2>2. \A j \in Intents :
          reservation'[j].state = "CONSUMED" <=> attempt'[j].state # "NONE"
    BY <1>1, <1>6, <1>7 DEF TypeOK, OnlyIntent
  <2> QED
    BY <1>1, <1>3, <2>1, <2>2 DEF TypeOK
<1>9. IntentInv(i)'
  <2>1. /\ reservation[i].state = "RESERVED"
        /\ run.status = reservation[i].status
        /\ run.generation = reservation[i].generation /\ run.held
    BY <1>3 DEF Consumable, Fenced
  <2>2. attempt[i].state = "NONE"
    BY <1>1, <2>1 DEF TypeOK
  <2>3. ~Called(i) /\ ~Called(i)' /\ i \notin receipts
    BY <1>1, <1>3, <2>1, <2>2 DEF IntentInv, Called
  <2>4. /\ run'.status = EffectState[Kind[i]]
        /\ run'.generation = reservation'[i].generation /\ run'.held
        /\ i \in intents' /\ reservation'[i].status = EffectState[Kind[i]]
    BY <1>1, <1>3, <1>6, <2>1 DEF IntentInv
  <2>5. remote'[i].pending + remote'[i].applied <= 1 /\ i \notin receipts'
    BY <1>1, <1>3, <2>3 DEF IntentInv
  <2> QED
    BY <1>4, <1>6, <2>3, <2>4, <2>5 DEF IntentInv
<1>10. remote'[i].applied >= remote[i].applied
  BY <1>1, <1>3 DEF TypeOK
<1> QED
  BY <1>3, <1>7, <1>8, <1>9, <1>10, IntentStepInv

\* A rejected consumption only loses the token.
LEMMA ConsumeRejectedInv ==
  ASSUME EffectInv, NEW i \in Intents, ConsumeRejected(i)
  PROVE  EffectInv'
<1>1. TypeOK /\ IntentInv(i)
  BY InvByIntent
<1>2. /\ invoker' = [invoker EXCEPT ![i] = "NONE"]
      /\ UNCHANGED <<clock, run, validation, approval, intents, reservation,
                     attempt, receipts, remote>>
  BY DEF ConsumeRejected
<1>3. invoker'[i] = "NONE" /\ OnlyIntent(i)
  BY <1>1, <1>2 DEF OnlyIntent, TypeOK
<1>4. TypeOK'
  <2>1. invoker' \in [Intents -> InvokerStates]
    BY <1>1, <1>2 DEF TypeOK, InvokerStates
  <2> QED
    BY <1>1, <1>2, <2>1 DEF TypeOK
<1>5. IntentInv(i)'
  <2>1. (Called(i)' <=> Called(i)) /\ (Unresolved(i)' <=> Unresolved(i))
    BY <1>2 DEF Called, Unresolved
  <2> QED
    BY <1>1, <1>2, <1>3, <2>1 DEF IntentInv
<1>6. remote'[i].applied >= remote[i].applied
  BY <1>1, <1>2 DEF TypeOK
<1> QED
  BY <1>2, <1>3, <1>4, <1>5, <1>6, IntentStepInv

-----------------------------------------------------------------------------
(* The call and its outcome.                                               *)

\* Who is armed has not called, so this is the first call.
LEMMA SendInv ==
  ASSUME EffectInv, NEW i \in Intents, Send(i)
  PROVE  EffectInv'
<1>1. TypeOK /\ IntentInv(i)
  BY InvByIntent
<1>2. /\ invoker[i] = "ARMED"
      /\ invoker' = [invoker EXCEPT ![i] = "NONE"]
      /\ remote' = [remote EXCEPT ![i].pending = remote[i].pending + 1]
      /\ UNCHANGED <<clock, run, validation, approval, intents, reservation,
                     attempt, receipts>>
  BY DEF Send
<1>3. /\ remote[i] \in [pending: Nat, applied: Nat] /\ invoker'[i] = "NONE"
      /\ remote'[i] = [remote[i] EXCEPT !.pending = remote[i].pending + 1]
  BY <1>1, <1>2 DEF TypeOK
<1>4. /\ remote'[i] \in [pending: Nat, applied: Nat]
      /\ remote'[i].pending = remote[i].pending + 1
      /\ remote'[i].applied = remote[i].applied
  BY <1>3
<1>5. OnlyIntent(i)
  BY <1>1, <1>2 DEF OnlyIntent, TypeOK
<1>6. TypeOK'
  <2>1. /\ remote' \in [Intents -> [pending: Nat, applied: Nat]]
        /\ invoker' \in [Intents -> InvokerStates]
    BY <1>1, <1>2, <1>3, <1>4 DEF TypeOK, InvokerStates
  <2> QED
    BY <1>1, <1>2, <2>1 DEF TypeOK
<1>7. IntentInv(i)'
  <2>1. attempt[i].state = "READY_TO_INVOKE" /\ ~Called(i)
    BY <1>1, <1>2 DEF IntentInv
  <2>2. remote[i].pending = 0 /\ remote[i].applied = 0
    BY <1>3, <2>1 DEF Called
  <2>3. reservation[i].state = "CONSUMED"
    BY <1>1, <2>1 DEF TypeOK
  <2>4. Unresolved(i)' <=> Unresolved(i)
    BY <1>2 DEF Unresolved
  <2> QED
    BY <1>1, <1>2, <1>3, <1>4, <2>1, <2>2, <2>3, <2>4 DEF IntentInv
<1>8. remote'[i].applied >= remote[i].applied
  BY <1>3, <1>4
<1> QED
  BY <1>2, <1>5, <1>6, <1>7, <1>8, IntentStepInv

\* The outside answers a call one way or the other; it never adds one.
LEMMA RemoteInv ==
  ASSUME EffectInv, NEW i \in Intents, RemoteApplies(i) \/ RemoteLoses(i)
  PROVE  EffectInv'
<1>1. TypeOK /\ IntentInv(i)
  BY InvByIntent
<1>2. /\ remote[i].pending > 0
      /\ UNCHANGED <<clock, run, validation, approval, intents, reservation,
                     invoker, attempt, receipts>>
  BY DEF RemoteApplies, RemoteLoses
<1>3. /\ remote[i] \in [pending: Nat, applied: Nat]
      /\ remote' \in [Intents -> [pending: Nat, applied: Nat]]
      /\ remote'[i].pending = remote[i].pending - 1
      /\ remote'[i].applied \in {remote[i].applied, remote[i].applied + 1}
      /\ \A j \in Intents \ {i} : remote'[j] = remote[j]
  <2>1. remote[i] \in [pending: Nat, applied: Nat] /\ remote[i].pending - 1 \in Nat
    BY <1>1, <1>2 DEF TypeOK
  <2>2. CASE RemoteApplies(i)
    <3> DEFINE new == [pending |-> remote[i].pending - 1,
                       applied |-> remote[i].applied + 1]
    <3>1. new \in [pending: Nat, applied: Nat]
      BY <2>1
    <3>2. remote' = [remote EXCEPT ![i] = new]
      BY <2>2 DEF RemoteApplies
    <3> QED
      BY <1>1, <2>1, <3>1, <3>2 DEF TypeOK
  <2>3. CASE RemoteLoses(i)
    <3> DEFINE new == [remote[i] EXCEPT !.pending = remote[i].pending - 1]
    <3>1. /\ new \in [pending: Nat, applied: Nat]
          /\ new.pending = remote[i].pending - 1 /\ new.applied = remote[i].applied
      BY <2>1
    <3>2. remote' = [remote EXCEPT ![i] = new]
      BY <2>3 DEF RemoteLoses
    <3> HIDE DEF new
    <3> QED
      BY <1>1, <2>1, <3>1, <3>2 DEF TypeOK
  <2> QED
    BY <2>2, <2>3
<1>4. OnlyIntent(i)
  BY <1>2, <1>3 DEF OnlyIntent
<1>5. TypeOK'
  BY <1>1, <1>2, <1>3 DEF TypeOK
<1>6. remote'[i].applied >= remote[i].applied
  BY <1>3
<1>7. IntentInv(i)'
  <2>1. Called(i)
    BY <1>2, <1>3 DEF Called
  <2>2. remote'[i].pending + remote'[i].applied <= 1
    BY <1>1, <1>2, <1>3 DEF IntentInv
  <2>3. Unresolved(i)' <=> Unresolved(i)
    BY <1>2 DEF Unresolved
  <2>4. remote[i].applied > 0 => remote'[i].applied > 0
    BY <1>3
  <2>5. /\ invoker'[i] # "ARMED" /\ reservation'[i].state = "CONSUMED"
        /\ invoker'[i] # "HOLDS"
    BY <1>1, <1>2, <2>1 DEF IntentInv
  <2> QED
    BY <1>1, <1>2, <2>2, <2>3, <2>4, <2>5 DEF IntentInv
<1> QED
  BY <1>2, <1>4, <1>5, <1>6, <1>7, IntentStepInv

\* What an attempt becomes.
LEMMA AttemptInv ==
  ASSUME EffectInv, NEW i \in Intents,
         attempt[i].state # "NONE", attempt[i].state # "SUCCEEDED",
         invoker[i] # "ARMED",
         attempt' \in [Intents -> Attempt],
         \A j \in Intents \ {i} : attempt'[j] = attempt[j],
         attempt'[i].state # "NONE",
         UNCHANGED <<clock, run, validation, approval, intents, reservation,
                     invoker, remote>>,
         \/ /\ attempt'[i].state = "SUCCEEDED"
            /\ attempt'[i].proof # "NOT_APPLIED" /\ attempt[i].proof = "NONE"
            /\ receipts' = receipts \cup {i} /\ remote[i].applied > 0
         \/ /\ attempt'[i].state = "RECONCILIATION_REQUIRED"
            /\ attempt'[i].proof # "APPLIED"
            /\ attempt[i].proof = "NOT_APPLIED" =>
                 attempt'[i].proof = "NOT_APPLIED"
            /\ receipts' = receipts
  PROVE  EffectInv'
<1>1. TypeOK /\ IntentInv(i)
  BY InvByIntent
<1>2. reservation[i].state = "CONSUMED" /\ i \notin receipts /\ i \in intents
  BY <1>1 DEF TypeOK, IntentInv
<1>3. OnlyIntent(i)
  BY DEF OnlyIntent
<1>4. TypeOK'
  <2>1. receipts' \subseteq intents'
    BY <1>1, <1>2 DEF TypeOK
  <2>2. \A j \in Intents :
          reservation'[j].state = "CONSUMED" <=> attempt'[j].state # "NONE"
    BY <1>1, <1>2 DEF TypeOK
  <2> QED
    BY <1>1, <2>1, <2>2 DEF TypeOK
<1>5. remote'[i].applied >= remote[i].applied
  BY <1>1 DEF TypeOK
<1>6. Unresolved(i)' => Unresolved(i)
  BY <1>2 DEF Unresolved
<1>7. IntentInv(i)'
  <2>1. Called(i)' <=> Called(i)
    BY DEF Called
  <2>2. invoker[i] # "HOLDS"
    BY <1>1, <1>2 DEF IntentInv
  <2>3. /\ i \in receipts' <=> attempt'[i].state = "SUCCEEDED"
        /\ i \in receipts' => remote'[i].applied > 0
        /\ attempt'[i].proof = "APPLIED" => i \in receipts'
        /\ attempt'[i].proof = "NOT_APPLIED" =>
             attempt'[i].state = "RECONCILIATION_REQUIRED"
    BY <1>2
  <2>4. Unresolved(i)' =>
          /\ run'.status = EffectState[Kind[i]]
          /\ run'.generation = reservation'[i].generation
          /\ run'.held
    BY <1>1, <1>6 DEF IntentInv
  <2> QED
    BY <1>1, <1>2, <2>1, <2>2, <2>3, <2>4 DEF IntentInv
<1>8. UNCHANGED receipts \/ Unresolved(i)
  BY <1>2 DEF Unresolved
<1> QED
  BY <1>3, <1>4, <1>5, <1>7, <1>8, IntentStepInv

\* A success is recorded for a call that was made, so nobody may still call.
LEMMA RecordSuccessInv ==
  ASSUME EffectInv, NEW i \in Intents, RecordEffectSuccess(i)
  PROVE  EffectInv'
<1>1. TypeOK /\ IntentInv(i)
  BY InvByIntent
<1>2. /\ attempt[i].state = "READY_TO_INVOKE" /\ remote[i].applied > 0
      /\ receipts' = receipts \cup {i}
      /\ attempt' = [attempt EXCEPT ![i].state = "SUCCEEDED"]
      /\ UNCHANGED <<clock, run, validation, approval, intents, reservation,
                     invoker, remote>>
  BY DEF RecordEffectSuccess
<1>3. /\ attempt[i] \in Attempt /\ remote[i] \in [pending: Nat, applied: Nat]
      /\ attempt'[i] = [attempt[i] EXCEPT !.state = "SUCCEEDED"]
      /\ \A j \in Intents \ {i} : attempt'[j] = attempt[j]
  BY <1>1, <1>2 DEF TypeOK
<1>4. /\ attempt'[i] \in Attempt /\ attempt'[i].state = "SUCCEEDED"
      /\ attempt'[i].proof = attempt[i].proof
  BY <1>3 DEF Attempt
<1>5. attempt' \in [Intents -> Attempt]
  BY <1>1, <1>2, <1>3, <1>4 DEF TypeOK
<1>6. attempt[i].proof = "NONE"
  BY <1>1, <1>2, <1>3 DEF IntentInv, Attempt
<1>7. invoker[i] # "ARMED"
  BY <1>1, <1>2, <1>3 DEF IntentInv, Called
<1> QED
  BY <1>2, <1>3, <1>4, <1>5, <1>6, <1>7, AttemptInv

\* An ambiguous call stays unresolved.
LEMMA RecordAmbiguousInv ==
  ASSUME EffectInv, NEW i \in Intents, RecordEffectAmbiguous(i)
  PROVE  EffectInv'
<1>1. TypeOK /\ IntentInv(i)
  BY InvByIntent
<1>2. /\ attempt[i].state = "READY_TO_INVOKE" /\ invoker[i] # "ARMED"
      /\ attempt' = [attempt EXCEPT ![i].state = "RECONCILIATION_REQUIRED"]
      /\ UNCHANGED <<clock, run, validation, approval, intents, reservation,
                     invoker, receipts, remote>>
  BY DEF RecordEffectAmbiguous
<1>3. /\ attempt[i] \in Attempt
      /\ attempt'[i] = [attempt[i] EXCEPT !.state = "RECONCILIATION_REQUIRED"]
      /\ \A j \in Intents \ {i} : attempt'[j] = attempt[j]
  BY <1>1, <1>2 DEF TypeOK
<1>4. /\ attempt'[i] \in Attempt /\ attempt'[i].state = "RECONCILIATION_REQUIRED"
      /\ attempt'[i].proof = attempt[i].proof
  BY <1>3 DEF Attempt
<1>5. attempt' \in [Intents -> Attempt]
  BY <1>1, <1>2, <1>3, <1>4 DEF TypeOK
<1>6. attempt[i].proof = "NONE"
  BY <1>1, <1>2, <1>3 DEF IntentInv, Attempt
<1> QED
  BY <1>2, <1>3, <1>4, <1>5, <1>6, AttemptInv

\* A reconciliation decides about a call that nobody will make any more.
LEMMA ReconcileInv ==
  ASSUME EffectInv, NEW i \in Intents,
         ReconcileApplied(i) \/ ReconcileNotApplied(i)
  PROVE  EffectInv'
<1>1. TypeOK /\ IntentInv(i)
  BY InvByIntent
<1>2. /\ attempt[i].state = "RECONCILIATION_REQUIRED"
      /\ attempt[i].proof = "NONE"
      /\ UNCHANGED <<clock, run, validation, approval, intents, reservation,
                     invoker, remote>>
  BY DEF ReconcileApplied, ReconcileNotApplied, Reconcilable
<1>3. invoker[i] # "ARMED" /\ attempt[i] \in Attempt
  BY <1>1, <1>2 DEF IntentInv, TypeOK
<1>4. CASE ReconcileApplied(i)
  <2> DEFINE shown == [attempt[i] EXCEPT !.state = "SUCCEEDED",
                                         !.proof = "APPLIED"]
  <2>1. /\ attempt' = [attempt EXCEPT ![i] = shown]
        /\ receipts' = receipts \cup {i} /\ remote[i].applied > 0
    BY <1>1, <1>4 DEF ReconcileApplied, TypeOK
  <2>2. shown \in Attempt /\ shown.state = "SUCCEEDED" /\ shown.proof = "APPLIED"
    BY <1>3 DEF Attempt
  <2> HIDE DEF shown
  <2>3. /\ attempt' \in [Intents -> Attempt] /\ attempt'[i] = shown
        /\ \A j \in Intents \ {i} : attempt'[j] = attempt[j]
    BY <1>1, <2>1, <2>2 DEF TypeOK
  <2> QED
    BY <1>2, <1>3, <2>1, <2>2, <2>3, AttemptInv
<1>5. CASE ReconcileNotApplied(i)
  <2> DEFINE shown == [attempt[i] EXCEPT !.proof = "NOT_APPLIED"]
  <2>1. attempt' = [attempt EXCEPT ![i] = shown] /\ UNCHANGED receipts
    BY <1>1, <1>5 DEF ReconcileNotApplied, TypeOK
  <2>2. /\ shown \in Attempt /\ shown.state = "RECONCILIATION_REQUIRED"
        /\ shown.proof = "NOT_APPLIED"
    BY <1>2, <1>3 DEF Attempt
  <2> HIDE DEF shown
  <2>3. /\ attempt' \in [Intents -> Attempt] /\ attempt'[i] = shown
        /\ \A j \in Intents \ {i} : attempt'[j] = attempt[j]
    BY <1>1, <2>1, <2>2 DEF TypeOK
  <2> QED
    BY <1>2, <1>3, <2>1, <2>2, <2>3, AttemptInv
<1> QED
  BY <1>4, <1>5

-----------------------------------------------------------------------------
(* The other steps, and the invariant.                                     *)

\* Lost tokens, time, and a later approval.
LEMMA AmbientInv ==
  ASSUME EffectInv,
         /\ clock' \in Nat /\ clock' >= clock
         /\ approval' \in [Kinds -> Nat]
         /\ \A k \in Kinds : /\ approval'[k] >= approval[k]
                             /\ approval'[k] <= clock' + ApprovalTerm,
         \/ UNCHANGED invoker
         \/ invoker' = [i \in Intents |-> "NONE"],
         UNCHANGED <<run, validation, intents, reservation, attempt, receipts, remote>>
  PROVE  EffectInv'
<1>1. /\ TypeOK /\ RunSound /\ CompletedEffects
      /\ \A i \in Intents : IntentInv(i)
  BY InvByIntent
<1>2. TypeOK'
  <2>1. invoker' \in [Intents -> InvokerStates]
    BY <1>1 DEF TypeOK, InvokerStates
  <2> QED
    BY <1>1, <2>1 DEF TypeOK
<1>3. RunSound'
  BY <1>1 DEF RunSound
<1>4. CompletedEffects'
  BY <1>1 DEF CompletedEffects, Validated, ReceiptsOf
<1>5. ASSUME NEW i \in Intents PROVE IntentInv(i)'
  <2>1. IntentInv(i)
    BY <1>1
  <2>2. /\ Called(i)' <=> Called(i)
        /\ Unresolved(i)' <=> Unresolved(i)
        /\ Validated' <=> Validated
    BY DEF Called, Unresolved, Validated
  <2>3. invoker'[i] \in {"NONE", invoker[i]}
    BY <1>1 DEF TypeOK
  <2>4. reservation[i].state = "RESERVED" =>
          reservation[i].invokeBy <= approval'[Kind[i]]
    <3>1. Kind[i] \in Kinds /\ reservation[i].invokeBy \in Nat
      BY <1>1, EffectAssumption DEF TypeOK, Reservation
    <3> QED
      BY <1>1, <2>1, <3>1 DEF IntentInv, TypeOK
  <2> QED
    BY <2>1, <2>2, <2>3, <2>4 DEF IntentInv
<1> QED
  BY <1>2, <1>3, <1>4, <1>5, InvByIntentNext

\* A process that dies takes its tokens along.
LEMMA CrashInv ==
  ASSUME EffectInv, Crash
  PROVE  EffectInv'
<1>1. TypeOK /\ RunSound
  BY InvByIntent
<1> QED
  BY <1>1, AmbientInv DEF Crash, TypeOK, RunSound

\* Time only passes.
LEMMA TickInv ==
  ASSUME EffectInv, Tick
  PROVE  EffectInv'
<1>1. TypeOK /\ RunSound
  BY InvByIntent
<1>2. /\ clock \in Nat /\ clock' = clock + 1
      /\ UNCHANGED <<run, validation, approval, intents, reservation, invoker,
                     attempt, receipts, remote>>
  BY <1>1 DEF Tick, TypeOK, effectVars
<1>3. \A k \in Kinds : approval'[k] >= approval[k] /\ approval'[k] <= clock' + ApprovalTerm
  BY <1>1, <1>2, TermsPositive DEF TypeOK, RunSound
<1>4. approval' \in [Kinds -> Nat]
  BY <1>1, <1>2 DEF TypeOK
<1> QED
  BY <1>2, <1>3, <1>4, AmbientInv

\* A later approval expires no earlier.
LEMMA ApprovalInv ==
  ASSUME EffectInv, NEW k \in Kinds, RecordEffectApproval(k)
  PROVE  EffectInv'
<1>1. TypeOK /\ RunSound
  BY InvByIntent
<1>2. /\ approval' = [approval EXCEPT ![k] = clock + ApprovalTerm]
      /\ UNCHANGED <<clock, run, validation, intents, reservation, invoker,
                     attempt, receipts, remote>>
  BY DEF RecordEffectApproval
<1>3. clock \in Nat /\ clock + ApprovalTerm \in Nat /\ approval \in [Kinds -> Nat]
  BY <1>1, TermsPositive DEF TypeOK
<1>4. approval' \in [Kinds -> Nat]
  BY <1>2, <1>3
<1>5. \A kind \in Kinds : /\ approval'[kind] >= approval[kind]
                          /\ approval'[kind] <= clock' + ApprovalTerm
  BY <1>1, <1>2, <1>3 DEF RunSound
<1> QED
  BY <1>2, <1>3, <1>4, <1>5, AmbientInv

\* Every step keeps the invariant.
LEMMA NextInv ==
  ASSUME EffectInv, [Next]_vars
  PROVE  EffectInv'
<1>1. TypeOK /\ RunSound
  BY InvByIntent
<1>2. /\ validation \in [generation: Nat, candidate: Nat]
      /\ intents \subseteq Intents /\ run \in Row
  BY <1>1 DEF TypeOK
<1>3. CASE RunStep
  <2>1. CASE ClaimDue \/ RenewLease \/ ReleaseLease \/ AppendCandidate
    <3>1. RowStep /\ UNCHANGED <<validation, intents>>
      BY <1>1, <2>1, ClaimRowStep, RenewRowStep, ReleaseRowStep, AppendRowStep
    <3> QED
      BY <1>2, <3>1, RowStepInv
  <2>2. CASE IssueValidation
    <3>1. /\ run.status = "VALIDATING" /\ run' = Written(run)
          /\ validation' = [generation |-> run.generation,
                            candidate |-> run.candidate]
          /\ UNCHANGED <<clock, approval, intents, reservation, invoker,
                         attempt, receipts, remote>>
      BY <2>2 DEF IssueValidation, ExecutionClaimed, effectVars
    <3>2. /\ validation' \in [generation: Nat, candidate: Nat]
          /\ validation'.generation <= run'.generation
      BY <1>2, <3>1, WrittenFields DEF Row
    <3>3. RowStep
      BY <1>1, <3>1, BumpRowStep
    <3> QED
      BY <1>2, <3>1, <3>2, <3>3, RowStepInv
  <2>3. ASSUME NEW to \in EffectStatuses, Transition(to) PROVE EffectInv'
    <3>1. RowStep /\ UNCHANGED <<validation, intents>>
      BY <1>1, <2>3, TransitionRowStep
    <3> QED
      BY <1>2, <3>1, RowStepInv
  <2> QED
    BY <1>3, <2>1, <2>2, <2>3, ApprovalInv DEF RunStep
<1>4. ASSUME NEW i \in Intents, EffectStep(i) PROVE EffectInv'
  <2>1. CASE BeginEffect(i)
    <3>1. /\ run' = Written(run) /\ intents' = intents \cup {i}
          /\ UNCHANGED <<clock, validation, approval, reservation, invoker,
                         attempt, receipts, remote>>
      BY <2>1 DEF BeginEffect
    <3>2. RowStep
      BY <1>1, <3>1, BumpRowStep
    <3> QED
      BY <1>2, <3>1, <3>2, RowStepInv
  <2> QED
    BY <1>4, <2>1, ReserveInv, CancelInv, ConsumeInv, ConsumeRejectedInv,
       SendInv, RemoteInv, RecordSuccessInv, RecordAmbiguousInv, ReconcileInv
       DEF EffectStep
<1>5. CASE UNCHANGED vars
  <2>1. UNCHANGED <<clock, run, validation, approval, intents, reservation,
                    invoker, attempt, receipts, remote>>
    BY <1>5 DEF vars, effectVars
  <2>2. clock \in Nat /\ approval \in [Kinds -> Nat]
    BY <1>1 DEF TypeOK
  <2>3. \A k \in Kinds : approval[k] >= approval[k] /\ approval[k] <= clock + ApprovalTerm
    BY <1>1, <2>2 DEF RunSound
  <2> QED
    BY <2>1, <2>2, <2>3, AmbientInv
<1> QED
  BY <1>3, <1>4, <1>5, CrashInv, TickInv DEF Next

\* The run's validation starts with no effect and a lease.
LEMMA InitInv ==
  ASSUME Init
  PROVE  EffectInv
<1>1. /\ LeaseTerm \in Nat /\ LeaseTerm > 0 /\ ApprovalTerm \in Nat
      /\ "VALIDATING" \in EffectStatuses /\ "VALIDATING" \notin TerminalStatuses
  BY TermsPositive DEF EffectStatuses, TerminalStatuses
<1>2. TypeOK
  <2>1. NoReservation \in Reservation /\ NoAttempt \in Attempt
    BY <1>1 DEF NoReservation, Reservation, NoAttempt, Attempt
  <2>2. run \in Row /\ run.held = TRUE /\ run.expires = LeaseTerm
    BY <1>1 DEF Init, Row
  <2>3. /\ reservation \in [Intents -> Reservation]
        /\ attempt \in [Intents -> Attempt]
        /\ \A i \in Intents : reservation[i].state = "NONE" /\ attempt[i].state = "NONE"
    BY <2>1 DEF Init, NoReservation, NoAttempt
  <2>4. /\ validation \in [generation: Nat, candidate: Nat]
        /\ approval \in [Kinds -> Nat] /\ invoker \in [Intents -> InvokerStates]
        /\ remote \in [Intents -> [pending: Nat, applied: Nat]]
        /\ clock \in Nat /\ intents \subseteq Intents /\ receipts \subseteq intents
    BY DEF Init, InvokerStates
  <2>5. run.held <=> run.expires > 0
    BY <1>1, <2>2
  <2> QED
    BY <2>2, <2>3, <2>4, <2>5 DEF TypeOK
<1>3. RunSound
  BY <1>1 DEF Init, RunSound
<1>4. CompletedEffects
  BY DEF Init, CompletedEffects
<1>5. ASSUME NEW i \in Intents PROVE IntentInv(i)
  <2>1. /\ reservation[i].state = "NONE" /\ attempt[i].state = "NONE"
        /\ attempt[i].proof = "NONE" /\ invoker[i] = "NONE"
        /\ remote[i].pending = 0 /\ remote[i].applied = 0 /\ i \notin receipts
    BY DEF Init, NoReservation, NoAttempt
  <2> QED
    BY <2>1 DEF IntentInv, Called, Unresolved
<1> QED
  BY <1>2, <1>3, <1>4, <1>5, InvByIntent

\* The invariant holds in every reachable state.
THEOREM EffectInvariant == Spec => []EffectInv
<1>1. EffectInv /\ [Next]_vars => EffectInv'
  BY NextInv
<1> QED
  BY <1>1, InitInv, PTL DEF Spec

\* The variables have their types, and the tables' CHECKs hold of the rows.
THEOREM EffectTyped == Spec => []TypeOK
<1>1. EffectInv => TypeOK
  BY DEF EffectInv
<1> QED
  BY <1>1, EffectInvariant, PTL

\* No effect is called for twice.
THEOREM EffectsAtMostOnce == Spec => []AtMostOnce
<1>1. EffectInv => AtMostOnce
  BY DEF EffectInv
<1> QED
  BY <1>1, EffectInvariant, PTL

\* An unresolved call keeps the run, its status and its lease as they were when
\* it was authorized.
THEOREM UnresolvedCallsHoldRuns == Spec => []UnresolvedCallHoldsRun
<1>1. EffectInv => UnresolvedCallHoldsRun
  BY DEF EffectInv
<1> QED
  BY <1>1, EffectInvariant, PTL

\* A completed run has one receipt of each kind, for effects that happened.
THEOREM CompletedRunsHaveEffects == Spec => []CompletedEffects
<1>1. EffectInv => CompletedEffects
  BY DEF EffectInv
<1> QED
  BY <1>1, EffectInvariant, PTL

\* A run that ended has no call that may still start, and none unaccounted for.
THEOREM TerminalRunsAccounted == Spec => []TerminalAccounted
<1>1. ASSUME EffectInv PROVE TerminalAccounted
  <2> SUFFICES ASSUME run.status \in TerminalStatuses, NEW i \in Intents
               PROVE  /\ invoker[i] # "ARMED"
                      /\ Called(i) => i \in receipts \/ attempt[i].proof = "NOT_APPLIED"
    BY DEF TerminalAccounted
  <2>1. TypeOK /\ RunSound /\ IntentInv(i)
    BY <1>1, InvByIntent
  <2>2. ~Unresolved(i)
    BY <2>1 DEF RunSound, IntentInv
  <2>3. Called(i) => i \in receipts \/ attempt[i].proof = "NOT_APPLIED"
    BY <2>1, <2>2 DEF IntentInv, Unresolved
  <2>4. invoker[i] # "ARMED"
    <3> SUFFICES ASSUME invoker[i] = "ARMED" PROVE FALSE
      OBVIOUS
    <3>1. attempt[i].state = "READY_TO_INVOKE"
      BY <2>1 DEF IntentInv
    <3>2. reservation[i].state = "CONSUMED"
      BY <2>1, <3>1 DEF TypeOK
    <3>3. i \notin receipts /\ attempt[i].proof # "NOT_APPLIED"
      BY <2>1, <3>1 DEF IntentInv
    <3> QED
      BY <2>2, <3>2, <3>3 DEF Unresolved
  <2> QED
    BY <2>3, <2>4
<1> QED
  BY <1>1, EffectInvariant, PTL

-----------------------------------------------------------------------------
(* What a step may never do.                                               *)

\* Nothing but a step of its own changes what is kept for an intent, except
\* that a crash takes its token.
Untouched(i) ==
  /\ reservation'[i] = reservation[i] /\ attempt'[i] = attempt[i]
  /\ remote'[i] = remote[i] /\ (i \in receipts' <=> i \in receipts)
  /\ invoker'[i] \in {"NONE", invoker[i]}

\* A step of one intent leaves the others alone.
LEMMA EffectStepOthers ==
  ASSUME TypeOK, NEW j \in Intents, EffectStep(j), NEW i \in Intents, i # j
  PROVE  Untouched(i)
BY DEF TypeOK, Untouched, EffectStep, BeginEffect, ReserveCurrentEffect, HandOutToken,
   CancelBeforeSend, ConsumeCurrentEffect, ConsumeRejected, Send,
   RemoteApplies, RemoteLoses, RecordEffectSuccess, RecordEffectAmbiguous,
   ReconcileApplied, ReconcileNotApplied

\* So does every step that is not of an intent.
LEMMA IntentSteps ==
  ASSUME TypeOK, [Next]_vars, NEW i \in Intents, ~EffectStep(i)
  PROVE  Untouched(i)
<1>1. CASE RunStep \/ Tick \/ UNCHANGED vars
  <2>1. UNCHANGED <<reservation, invoker, attempt, receipts, remote>>
    BY <1>1 DEF RunStep, ClaimDue, RenewLease, ReleaseLease, AppendCandidate,
       IssueValidation, ExecutionClaimed, Transition, RecordEffectApproval, Tick, vars, effectVars
  <2> QED
    BY <2>1 DEF Untouched
<1>2. CASE Crash
  BY <1>2 DEF Crash, Untouched
<1>3. ASSUME NEW j \in Intents, EffectStep(j) PROVE Untouched(i)
  <2>1. i # j
    BY <1>3
  <2> QED
    BY <1>3, <2>1, EffectStepOthers
<1> QED
  BY <1>1, <1>2, <1>3 DEF Next

\* Who is armed holds an unresolved call.
LEMMA ArmedIsUnresolved ==
  ASSUME EffectInv, NEW i \in Intents, invoker[i] = "ARMED"
  PROVE  Unresolved(i)
<1>1. TypeOK /\ IntentInv(i)
  BY InvByIntent
<1>2. attempt[i].state = "READY_TO_INVOKE"
  BY <1>1 DEF IntentInv
<1>3. reservation[i].state = "CONSUMED"
  BY <1>1, <1>2 DEF TypeOK
<1> QED
  BY <1>1, <1>2, <1>3 DEF IntentInv, Unresolved

\* A call starts in its status and under the lease that reserved it.
THEOREM CallsStayUnderReservation == Spec => CallsUnderReservation
<1>1. EffectInv /\ [Next]_vars =>
        \A i \in Intents : remote'[i].pending > remote[i].pending =>
          /\ run.status = EffectState[Kind[i]]
          /\ run.generation = reservation[i].generation
  <2> SUFFICES ASSUME EffectInv, [Next]_vars, NEW i \in Intents,
                      remote'[i].pending > remote[i].pending
               PROVE  /\ run.status = EffectState[Kind[i]]
                      /\ run.generation = reservation[i].generation
    OBVIOUS
  <2>1. TypeOK /\ IntentInv(i)
    BY InvByIntent
  <2>2. remote[i] \in [pending: Nat, applied: Nat]
    BY <2>1 DEF TypeOK
  <2>3. remote'[i] # remote[i]
    BY <2>2
  <2>4. EffectStep(i)
    BY <2>1, <2>3, IntentSteps DEF Untouched
  <2>5. ~RemoteApplies(i) /\ ~RemoteLoses(i)
    BY <2>1, <2>2 DEF TypeOK, RemoteApplies, RemoteLoses
  <2>6. Send(i)
    BY <2>3, <2>4, <2>5 DEF EffectStep, BeginEffect, ReserveCurrentEffect, HandOutToken,
       CancelBeforeSend, ConsumeCurrentEffect, ConsumeRejected,
       RecordEffectSuccess, RecordEffectAmbiguous, ReconcileApplied,
       ReconcileNotApplied
  <2>7. Unresolved(i)
    BY <2>6, ArmedIsUnresolved DEF Send
  <2> QED
    BY <2>1, <2>7 DEF IntentInv
<1> QED
  BY <1>1, EffectInvariant, PTL DEF Spec, CallsUnderReservation

\* A call is authorized for the validated candidate, under a live approval.
THEOREM CallsAuthorizedAsValidated == Spec => AuthorizedAsValidated
<1>1. EffectInv /\ [Next]_vars =>
        \A i \in Intents : attempt'[i].number > attempt[i].number =>
          Validated /\ Approved(Kind[i])
  <2> SUFFICES ASSUME EffectInv, [Next]_vars, NEW i \in Intents,
                      attempt'[i].number > attempt[i].number
               PROVE  Validated /\ Approved(Kind[i])
    OBVIOUS
  <2>1. TypeOK /\ IntentInv(i)
    BY InvByIntent
  <2>2. attempt[i] \in Attempt /\ attempt[i].number \in Nat
    BY <2>1 DEF TypeOK, Attempt
  <2>3. attempt'[i].number # attempt[i].number
    BY <2>2
  <2>4. EffectStep(i)
    BY <2>1, <2>3, IntentSteps DEF Untouched
  <2>5. /\ ~RecordEffectSuccess(i) /\ ~RecordEffectAmbiguous(i)
        /\ ~ReconcileApplied(i) /\ ~ReconcileNotApplied(i)
    BY <2>1, <2>2, <2>3 DEF TypeOK, Attempt, RecordEffectSuccess,
       RecordEffectAmbiguous, ReconcileApplied, ReconcileNotApplied
  <2>6. ConsumeCurrentEffect(i)
    BY <2>3, <2>4, <2>5 DEF EffectStep, BeginEffect, ReserveCurrentEffect, HandOutToken,
       CancelBeforeSend, ConsumeRejected, Send, RemoteApplies, RemoteLoses
  <2>7. /\ invoker[i] = "HOLDS" /\ reservation[i].state = "RESERVED"
        /\ run.version = reservation[i].version
        /\ clock < reservation[i].invokeBy
    BY <2>6 DEF ConsumeCurrentEffect, Consumable
  <2>8. Validated /\ reservation[i].invokeBy <= approval[Kind[i]]
    BY <2>1, <2>7 DEF IntentInv
  <2>9. /\ clock \in Nat /\ reservation[i].invokeBy \in Nat
        /\ approval[Kind[i]] \in Nat
    BY <2>1, EffectAssumption DEF TypeOK, Reservation
  <2> QED
    BY <2>7, <2>8, <2>9 DEF Approved
<1> QED
  BY <1>1, EffectInvariant, PTL DEF Spec, AuthorizedAsValidated

\* A reservation whose token is lost stays as it is.
THEOREM LostTokensAreFinal == Spec => LostTokenIsFinal
<1>1. EffectInv /\ [Next]_vars =>
        \A i \in Intents :
          reservation[i].state = "RESERVED" /\ invoker[i] = "NONE" =>
            reservation'[i] = reservation[i] /\ invoker'[i] = "NONE"
  <2> SUFFICES ASSUME EffectInv, [Next]_vars, NEW i \in Intents,
                      reservation[i].state = "RESERVED", invoker[i] = "NONE"
               PROVE  reservation'[i] = reservation[i] /\ invoker'[i] = "NONE"
    OBVIOUS
  <2>1. CASE EffectStep(i)
    <3>1. UNCHANGED <<reservation, invoker>>
      BY <2>1 DEF EffectStep, BeginEffect, ReserveCurrentEffect, HandOutToken, Unreserved,
         CancelBeforeSend, ConsumeCurrentEffect, ConsumeRejected, Send,
         RemoteApplies, RemoteLoses, RecordEffectSuccess,
         RecordEffectAmbiguous, ReconcileApplied, ReconcileNotApplied
    <3> QED
      BY <3>1
  <2>2. CASE ~EffectStep(i)
    <3>1. TypeOK
      BY DEF EffectInv
    <3> QED
      BY <2>2, <3>1, IntentSteps DEF Untouched
  <2> QED
    BY <2>1, <2>2
<1> QED
  BY <1>1, EffectInvariant, PTL DEF Spec, LostTokenIsFinal

\* The lease that validated the run is gone before every kind of effect was
\* begun: the run never completes.
THEOREM TakenOverRunsNeverComplete == Spec => TakenOverRunNeverCompletes
<1> DEFINE late == {"VALIDATED", "REVIEW_ARTIFACT_CREATED", "WRITEBACK_PENDING"}
<1>1. EffectInv /\ [Next]_vars =>
        (TakenOverTooEarly =>
           \/ TakenOverTooEarly'
           \/ run'.status \in TerminalStatuses \ {"COMPLETED"})
  <2> SUFFICES ASSUME EffectInv, [Next]_vars, TakenOverTooEarly
               PROVE  \/ TakenOverTooEarly'
                      \/ run'.status \in TerminalStatuses \ {"COMPLETED"}
    OBVIOUS
  <2>1. TypeOK /\ RunSound
    BY InvByIntent
  <2>2. /\ run.status \in late
        /\ validation.generation \in Nat /\ run.generation \in Nat
        /\ validation.generation < run.generation
    <3>1. run \in Row /\ validation \in [generation: Nat, candidate: Nat]
      BY <2>1 DEF TypeOK
    <3>2. validation.generation \in Nat /\ run.generation \in Nat
      BY <3>1 DEF Row
    <3>3. validation.generation # run.generation /\ run.status \in late
      BY DEF TakenOverTooEarly, OriginalLease
    <3>4. validation.generation <= run.generation
      BY <2>1 DEF RunSound
    <3> QED
      BY <3>2, <3>3, <3>4
  <2>3. PICK k \in Kinds : \A i \in intents : Kind[i] # k
    BY DEF TakenOverTooEarly
  <2>4. ASSUME run' \in Row, run'.generation >= run.generation,
               UNCHANGED <<validation, intents>>, run'.status \in late
        PROVE  TakenOverTooEarly'
    <3>1. ~OriginalLease'
      BY <2>2, <2>4 DEF OriginalLease, Row
    <3> QED
      BY <2>3, <2>4, <3>1 DEF TakenOverTooEarly
  <2>5. CASE RunStep
    <3>1. ASSUME NEW to \in EffectStatuses, Transition(to)
          PROVE  \/ TakenOverTooEarly'
                 \/ run'.status \in TerminalStatuses \ {"COMPLETED"}
      <4>1. /\ run' \in Row /\ run'.status = to
            /\ run'.generation = run.generation
            /\ UNCHANGED <<validation, intents>>
        BY <2>1, <3>1, TransitionRowStep DEF RowStep
      <4>2. to # "COMPLETED"
        <5> SUFFICES ASSUME Proven(k) PROVE FALSE
          BY <3>1 DEF Transition, EvidenceFor, CompletionPrerequisites
        <5>1. \E i \in receipts : Kind[i] = k
          BY <2>1, ProvenIsSingle
        <5> QED
          BY <2>1, <2>3, <5>1 DEF TypeOK
      <4>3. to \in late \/ to \in TerminalStatuses
        BY <2>2, <3>1 DEF Transition, IsAdjacent, SuccessEdges, FailureEdges,
                          TerminalStatuses, ActiveStatuses
      <4> QED
        BY <2>2, <2>4, <4>1, <4>2, <4>3
    <3>2. CASE ClaimDue \/ RenewLease \/ ReleaseLease \/ AppendCandidate
      <4>1. run' \in Row /\ run'.generation >= run.generation
            /\ UNCHANGED <<validation, intents>>
        BY <2>1, <3>2, ClaimRowStep, RenewRowStep, ReleaseRowStep,
           AppendRowStep DEF RowStep
      <4>2. run'.status = run.status
        <5>1. run \in Row
          BY <2>1 DEF TypeOK
        <5>2. /\ Written(run) \in Row /\ Written(run).status = run.status
              /\ WithoutLease(Written(run)).status = run.status
          BY <5>1, WrittenFields, WithoutLeaseFields
        <5> QED
          BY <3>2, <5>2 DEF ClaimDue, RenewLease, ReleaseLease,
                            AppendCandidate, Row
      <4> QED
        BY <2>2, <2>4, <4>1, <4>2
    <3>3. ~IssueValidation
      BY <2>2 DEF IssueValidation, ExecutionClaimed
    <3>4. ASSUME NEW kind \in Kinds, RecordEffectApproval(kind)
          PROVE  TakenOverTooEarly'
      BY <3>4 DEF RecordEffectApproval, TakenOverTooEarly, OriginalLease
    <3> QED
      BY <2>5, <3>1, <3>2, <3>3, <3>4 DEF RunStep
  <2>6. ASSUME UNCHANGED <<run, validation, intents>>
        PROVE  TakenOverTooEarly'
    BY <2>6 DEF TakenOverTooEarly, OriginalLease
  <2>7. ASSUME NEW i \in Intents, EffectStep(i) PROVE TakenOverTooEarly'
    <3>1. ~BeginEffect(i)
      BY DEF BeginEffect, MayBegin, TakenOverTooEarly
    <3>2. UNCHANGED <<run, validation, intents>>
      BY <2>7, <3>1 DEF EffectStep, ReserveCurrentEffect, HandOutToken,
         CancelBeforeSend, ConsumeCurrentEffect, ConsumeRejected, Send,
         RemoteApplies, RemoteLoses, RecordEffectSuccess,
         RecordEffectAmbiguous, ReconcileApplied, ReconcileNotApplied
    <3> QED
      BY <2>6, <3>2
  <2>8. CASE Crash \/ Tick \/ UNCHANGED vars
    <3>1. UNCHANGED <<run, validation, intents>>
      BY <2>8 DEF Crash, Tick, vars, effectVars
    <3> QED
      BY <2>6, <3>1
  <2> QED
    BY <2>5, <2>7, <2>8 DEF Next
<1> QED
  BY <1>1, EffectInvariant, PTL DEF Spec, TakenOverRunNeverCompletes

-----------------------------------------------------------------------------
(* The implementation of the abstract protocol.                            *)

\* How far the call of an intent is.
Phase(i) ==
  IF reservation[i].state # "CONSUMED" THEN "IDLE"
  ELSE IF i \in receipts THEN "APPLIED"
  ELSE IF attempt[i].proof = "NOT_APPLIED" THEN "NOT_APPLIED"
  ELSE "CALLED"

\* A call is out in the abstract while it is unresolved here.
LEMMA PhaseCalled ==
  ASSUME NEW i \in Intents
  PROVE  Phase(i) = "CALLED" <=> Unresolved(i)
BY DEF Phase, Unresolved

\* The abstract view of a step of one intent.
LEMMA PhaseStep ==
  ASSUME NEW i \in Intents, \A j \in Intents \ {i} : Untouched(j)
  PROVE  /\ [j \in Intents |-> Phase(j)]'
              = [[j \in Intents |-> Phase(j)] EXCEPT ![i] = Phase(i)']
         /\ [j \in Intents |-> remote[j].applied]'
              = [[j \in Intents |-> remote[j].applied] EXCEPT
                   ![i] = remote'[i].applied]
<1>1. \A j \in Intents \ {i} :
        Phase(j)' = Phase(j) /\ remote'[j].applied = remote[j].applied
  BY DEF Untouched, Phase
<1> QED
  BY <1>1

\* Taking the consumed right is the abstract call, and its outcome the
\* abstract settlement; every other step of an intent is invisible.
LEMMA EffectStepImplements ==
  ASSUME EffectInv, NEW i \in Intents, EffectStep(i)
  PROVE  \/ /\ Phase(i)' = Phase(i) /\ remote'[i].applied = remote[i].applied
         \/ /\ Phase(i) = "IDLE" /\ Phase(i)' = "CALLED" /\ run.held
            /\ remote'[i].applied = remote[i].applied
         \/ /\ Phase(i) # "IDLE" /\ Phase(i)' = Phase(i)
            /\ remote[i].applied = 0 /\ remote'[i].applied = 1
         \/ /\ Phase(i) = "CALLED" /\ Phase(i)' = "APPLIED"
            /\ remote[i].applied = 1 /\ remote'[i].applied = 1
         \/ /\ Phase(i) = "CALLED" /\ Phase(i)' = "NOT_APPLIED"
            /\ remote[i].applied = 0 /\ remote'[i].applied = 0
<1>1. TypeOK /\ IntentInv(i)
  BY InvByIntent
<1>2. /\ remote[i] \in [pending: Nat, applied: Nat]
      /\ attempt[i] \in Attempt /\ reservation[i] \in Reservation
      /\ remote[i].pending + remote[i].applied <= 1
  BY <1>1 DEF TypeOK, IntentInv
<1>3. CASE \/ BeginEffect(i) \/ ConsumeRejected(i) \/ RecordEffectAmbiguous(i)
  <2>1. /\ UNCHANGED <<reservation, receipts, remote>>
        /\ attempt'[i].proof = attempt[i].proof
    <3>1. CASE BeginEffect(i) \/ ConsumeRejected(i)
      BY <3>1 DEF BeginEffect, ConsumeRejected
    <3>2. CASE RecordEffectAmbiguous(i)
      BY <1>1, <1>2, <3>2 DEF RecordEffectAmbiguous, TypeOK, Attempt
    <3> QED
      BY <1>3, <3>1, <3>2
  <2> QED
    BY <2>1 DEF Phase
<1>4. CASE ReserveCurrentEffect(i) \/ CancelBeforeSend(i)
  <2>1. /\ reservation[i].state # "CONSUMED"
        /\ reservation'[i].state # "CONSUMED" /\ UNCHANGED remote
    BY <1>1, <1>4 DEF ReserveCurrentEffect, HandOutToken, Unreserved, CancelBeforeSend,
                      NoReservation, TypeOK
  <2> QED
    BY <2>1 DEF Phase
<1>5. CASE ConsumeCurrentEffect(i)
  <2>1. /\ reservation[i].state = "RESERVED" /\ run.held
        /\ reservation'[i].state = "CONSUMED"
        /\ attempt'[i].proof = "NONE" /\ UNCHANGED <<receipts, remote>>
    BY <1>1, <1>2, <1>5 DEF ConsumeCurrentEffect, Consumable, Fenced, TypeOK,
                            Reservation
  <2>2. i \notin receipts
    BY <1>1, <2>1 DEF TypeOK, IntentInv
  <2> QED
    BY <2>1, <2>2 DEF Phase
<1>6. CASE Send(i) \/ RemoteLoses(i)
  <2>1. UNCHANGED <<reservation, receipts, attempt>>
    BY <1>6 DEF Send, RemoteLoses
  <2>2. remote'[i].applied = remote[i].applied
    BY <1>1, <1>2, <1>6 DEF Send, RemoteLoses, TypeOK
  <2> QED
    BY <2>1, <2>2 DEF Phase
<1>7. CASE RemoteApplies(i)
  <2>1. /\ remote[i].pending > 0
        /\ remote'[i].applied = remote[i].applied + 1
        /\ UNCHANGED <<reservation, receipts, attempt>>
    BY <1>1, <1>7 DEF RemoteApplies, TypeOK
  <2>2. remote[i].applied = 0 /\ Called(i)
    BY <1>2, <2>1 DEF Called
  <2>3. Phase(i) # "IDLE"
    BY <1>1, <2>2 DEF IntentInv, Phase
  <2> QED
    BY <2>1, <2>2, <2>3 DEF Phase
<1>8. ASSUME remote[i].applied > 0, i \notin receipts, i \in receipts',
             attempt[i].proof # "NOT_APPLIED", attempt[i].state # "NONE",
             UNCHANGED <<reservation, remote>>
      PROVE  /\ Phase(i) = "CALLED" /\ Phase(i)' = "APPLIED"
             /\ remote[i].applied = 1 /\ remote'[i].applied = 1
  <2>1. reservation[i].state = "CONSUMED"
    BY <1>1, <1>8 DEF TypeOK
  <2>2. remote[i].applied = 1
    BY <1>2, <1>8
  <2> QED
    BY <1>8, <2>1, <2>2 DEF Phase
<1>9. CASE RecordEffectSuccess(i)
  <2>1. /\ remote[i].applied > 0 /\ i \notin receipts /\ i \in receipts'
        /\ attempt[i].proof # "NOT_APPLIED" /\ attempt[i].state # "NONE"
        /\ UNCHANGED <<reservation, remote>>
    BY <1>1, <1>9 DEF RecordEffectSuccess, IntentInv
  <2> QED
    BY <1>8, <2>1
<1>10. CASE ReconcileApplied(i)
  <2>1. /\ remote[i].applied > 0 /\ i \notin receipts /\ i \in receipts'
        /\ attempt[i].proof # "NOT_APPLIED" /\ attempt[i].state # "NONE"
        /\ UNCHANGED <<reservation, remote>>
    BY <1>1, <1>10 DEF ReconcileApplied, Reconcilable, IntentInv
  <2> QED
    BY <1>8, <2>1
<1>11. CASE ReconcileNotApplied(i)
  <2>1. /\ attempt[i].state = "RECONCILIATION_REQUIRED"
        /\ attempt[i].proof = "NONE" /\ remote[i].applied = 0
        /\ attempt'[i].proof = "NOT_APPLIED"
        /\ UNCHANGED <<reservation, receipts, remote>>
    BY <1>1, <1>2, <1>11
       DEF ReconcileNotApplied, Reconcilable, TypeOK, Attempt
  <2>2. reservation[i].state = "CONSUMED" /\ i \notin receipts
    BY <1>1, <2>1 DEF TypeOK, IntentInv
  <2> QED
    BY <2>1, <2>2 DEF Phase
<1> QED
  BY <1>3, <1>4, <1>5, <1>6, <1>7, <1>9, <1>10, <1>11 DEF EffectStep

\* A transition that ends the run finds every call settled.
LEMMA EndingSettled ==
  ASSUME EffectInv, [Next]_vars, run'.status # run.status
  PROVE  /\ \A i \in Intents : Untouched(i) /\ Phase(i) # "CALLED"
         /\ run.status \notin TerminalStatuses
<1>1. TypeOK /\ run \in Row
  BY DEF EffectInv, TypeOK
<1>2. /\ Written(run) \in Row /\ Written(run).status = run.status
      /\ WithoutLease(Written(run)).status = run.status
  BY <1>1, WrittenFields, WithoutLeaseFields
<1>3. \A i \in Intents : ~EffectStep(i)
  BY <1>2 DEF EffectStep, BeginEffect, ReserveCurrentEffect, HandOutToken,
     CancelBeforeSend, ConsumeCurrentEffect, ConsumeRejected, Send,
     RemoteApplies, RemoteLoses, RecordEffectSuccess, RecordEffectAmbiguous,
     ReconcileApplied, ReconcileNotApplied
<1>4. PICK to \in EffectStatuses : Transition(to)
  <2>1. ~Crash /\ ~Tick /\ ~UNCHANGED vars
    BY DEF Crash, Tick, vars
  <2>2. /\ ~ClaimDue /\ ~RenewLease /\ ~ReleaseLease /\ ~AppendCandidate
        /\ ~IssueValidation
    BY <1>2 DEF ClaimDue, RenewLease, ReleaseLease, AppendCandidate,
                IssueValidation, ExecutionClaimed, Row
  <2>3. \A k \in Kinds : ~RecordEffectApproval(k)
    BY DEF RecordEffectApproval
  <2> QED
    BY <1>3, <2>1, <2>2, <2>3 DEF Next, RunStep
<1>5. ~Frozen /\ run.status \in ActiveStatuses
  BY <1>4 DEF Transition, IsAdjacent
<1>6. \A i \in Intents : Phase(i) # "CALLED"
  BY <1>5, PhaseCalled DEF Frozen
<1>7. run.status \notin TerminalStatuses
  BY <1>5 DEF ActiveStatuses, TerminalStatuses
<1>8. \A i \in Intents : Untouched(i)
  BY <1>1, <1>3, IntentSteps
<1> QED
  BY <1>6, <1>7, <1>8

\* The store's effects implement the abstract protocol.
THEOREM AuthorityImplementsEffects == Spec => ImplementsExternalEffects
<1> DEFINE phase == [i \in Intents |-> Phase(i)]
           applied == [i \in Intents |-> remote[i].applied]
           ended == run.status \in TerminalStatuses
<1>1. Init => External!Init
  <2> SUFFICES ASSUME Init PROVE External!Init
    OBVIOUS
  <2>1. /\ run.status = "VALIDATING" /\ "VALIDATING" \notin TerminalStatuses
        /\ \A i \in Intents : /\ reservation[i].state = "NONE"
                              /\ remote[i].applied = 0
    BY DEF Init, NoReservation, TerminalStatuses
  <2>2. External!Init <=> /\ phase = [i \in Intents |-> "IDLE"]
                          /\ applied = [i \in Intents |-> 0]
                          /\ ended = FALSE
    BY DEF External!Init, Phase
  <2> QED
    BY <2>1, <2>2 DEF Phase
<1>2. EffectInv /\ [Next]_vars => [External!Next]_(External!ledger)
  <2> SUFFICES ASSUME EffectInv, [Next]_vars
               PROVE  External!Next \/ UNCHANGED <<phase, applied, ended>>
    BY DEF External!ledger, Phase
  <2>1. TypeOK /\ RunSound
    BY InvByIntent
  <2>2. CASE run'.status # run.status
    <3>1. /\ \A i \in Intents : Untouched(i) /\ Phase(i) # "CALLED"
          /\ ~ended
      BY <2>2, EndingSettled
    <3>2. UNCHANGED <<phase, applied>>
      BY <3>1 DEF Untouched, Phase
    <3>3. CASE ~ended'
      BY <3>1, <3>2, <3>3
    <3>4. CASE ended'
      <4>1. External!End <=> /\ ~ended
                             /\ \A i \in Intents : phase[i] # "CALLED"
                             /\ ended' = TRUE
                             /\ UNCHANGED <<phase, applied>>
        BY DEF External!End, Phase
      <4> QED
        BY <3>1, <3>2, <3>4, <4>1 DEF External!Next
    <3> QED
      BY <3>3, <3>4
  <2>3. ASSUME run'.status = run.status, NEW i \in Intents, EffectStep(i),
               \A j \in Intents \ {i} : Untouched(j)
        PROVE  External!Next \/ UNCHANGED <<phase, applied, ended>>
    <3>1. /\ phase' = [phase EXCEPT ![i] = Phase(i)']
          /\ applied' = [applied EXCEPT ![i] = remote'[i].applied]
          /\ UNCHANGED ended
          /\ phase[i] = Phase(i) /\ applied[i] = remote[i].applied
      BY <2>3, PhaseStep
    <3>2. /\ External!Call(i) <=>
               /\ ~ended /\ phase[i] = "IDLE"
               /\ phase' = [phase EXCEPT ![i] = "CALLED"]
               /\ UNCHANGED <<applied, ended>>
          /\ External!Apply(i) <=>
               /\ phase[i] # "IDLE" /\ applied[i] = 0
               /\ applied' = [applied EXCEPT ![i] = 1]
               /\ UNCHANGED <<phase, ended>>
          /\ External!SettleApplied(i) <=>
               /\ phase[i] = "CALLED" /\ applied[i] = 1
               /\ phase' = [phase EXCEPT ![i] = "APPLIED"]
               /\ UNCHANGED <<applied, ended>>
          /\ External!SettleNotApplied(i) <=>
               /\ phase[i] = "CALLED" /\ applied[i] = 0
               /\ phase' = [phase EXCEPT ![i] = "NOT_APPLIED"]
               /\ UNCHANGED <<applied, ended>>
      BY DEF External!Call, External!Apply, External!SettleApplied,
             External!SettleNotApplied, Phase
    <3>3. run.held => ~ended
      BY <2>1 DEF RunSound
    <3>4. DOMAIN phase = Intents /\ DOMAIN applied = Intents
      OBVIOUS
    <3>5. /\ Phase(i)' = phase[i] => phase' = phase
          /\ remote'[i].applied = applied[i] => applied' = applied
      BY <3>1
    <3> HIDE DEF phase, applied, ended
    <3>6. \/ External!Call(i) \/ External!Apply(i) \/ External!SettleApplied(i)
          \/ External!SettleNotApplied(i) \/ UNCHANGED <<phase, applied, ended>>
      BY <2>3, <3>1, <3>2, <3>3, <3>5, EffectStepImplements
    <3> QED
      BY <3>6 DEF External!Next
  <2>4. CASE run'.status = run.status /\ \A i \in Intents : Untouched(i)
    BY <2>4 DEF Untouched, Phase
  <2>5. ASSUME NEW i \in Intents, EffectStep(i), NEW j \in Intents \ {i}
        PROVE  Untouched(j)
    BY <2>1, <2>5, EffectStepOthers
  <2> QED
    BY <2>1, <2>2, <2>3, <2>4, <2>5, IntentSteps
<1> QED
  BY <1>1, <1>2, EffectInvariant, PTL DEF Spec, ImplementsExternalEffects, External!Spec

=============================================================================
