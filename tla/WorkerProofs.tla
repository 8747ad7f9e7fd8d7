----------------------------- MODULE WorkerProofs -----------------------------
(***************************************************************************)
(* What every run of the worker keeps to, for any catalogue and any number *)
(* of pushes, edits and interferences: its effects are gated, its receipt  *)
(* is exact, its completion is earned and its last status stays.           *)
(*                                                                         *)
(* The gate needs the order of the reads. A head and its files are read at *)
(* two moments, and the two of the attestation are compared with the two   *)
(* of the analysis. As the head only rises (HeadsRise), equal pairs leave  *)
(* no push in between: the last files were read at the head that was       *)
(* attested. The other parts follow the run from one stage to the next.    *)
(***************************************************************************)
EXTENDS Worker, ContextCollectionProofs, ValidationExecutorProofs

-----------------------------------------------------------------------------
(* The publication: PublicationInv, preserved by every step of createReview *)
(* and of others, for any number of interferences. A receipt without a     *)
(* write rests on two reads of different moments, the branch and then its  *)
(* pull request. It is true because the pull request is compared with the  *)
(* branch of its own moment, and a commit never changes: what the branch   *)
(* was at the earlier read is what it is now.                              *)

\* The branch has been at every commit it is at, and a draft on its parent is
\* remembered.
HistoryKept ==
  /\ Missing \notin heads
  /\ branch # Missing => branch \in heads
  /\ branch # Missing /\ pull = Draft(branch.parent) => branch \in reviewable

\* The base that was read is one the branch of the base has had.
BaseKnown ==
  /\ base \in Nat /\ base > 0
  /\ seenBase \in Nat
  /\ publishing \notin {"BASE", "FAILED"} => seenBase \in 1 .. base

\* The head that was found is exact, and the branch has been there.
FoundExact ==
  publishing \in {"PULL_READ", "RECOVER_PULL_READ"} => found \in heads /\ IsExact(found)

\* Whoever has made the branch has made it of its own commit.
OwnMade == publishing \in {"PULL", "RECOVER", "RECOVER_PULL_READ"} => Own \in heads

\* What is published has a receipt.
ReceiptGiven == publishing = "PUBLISHED" => receipt.outcome \in {"CREATED", "SKIPPED_EXACT"}

PublicationInv ==
  HistoryKept /\ BaseKnown /\ FoundExact /\ OwnMade /\ ReceiptGiven /\ ReceiptIsExact

\* A commit is something.
LEMMA CommitsExist == \A p, e : Commit(p, e) # Missing
<1> SUFFICES ASSUME NEW p, NEW e, Commit(p, e) = Missing PROVE FALSE
  OBVIOUS
<1>1. Commit(p, e).exists = TRUE /\ Missing.exists = FALSE
  BY DEF Commit, Missing
<1> QED
  BY <1>1

\* What a step of others, or one that moves the branch or its request, keeps of
\* the past.
LEMMA NotesKeepHistory ==
  ASSUME Notes, Missing \notin heads
  PROVE  HistoryKept' /\ heads \subseteq heads' /\ reviewable \subseteq reviewable'
BY DEF Notes, HistoryKept

LEMMA PublicationStarts == ASSUME PublicationInit PROVE PublicationInv
BY DEF PublicationInit, PublicationInv, HistoryKept, BaseKnown, FoundExact, OwnMade,
       ReceiptGiven, ReceiptIsExact

\* A step of the publisher that only gives up.
LEMMA GivesUpPreserves ==
  ASSUME PublicationInv, GivesUp, UNCHANGED <<github, seenBase>>
  PROVE  PublicationInv'
BY DEF PublicationInv, GivesUp, github, HistoryKept, BaseKnown, FoundExact, IsExact, OwnMade,
       ReceiptGiven, ReceiptIsExact

LEMMA ReadBasePreserves ==
  ASSUME PublicationInv, ReadBase
  PROVE  PublicationInv'
BY DEF PublicationInv, ReadBase, github, HistoryKept, BaseKnown, FoundExact, IsExact, OwnMade,
       ReceiptGiven, ReceiptIsExact

LEMMA MakeObjectsPreserves ==
  ASSUME PublicationInv, MakeObjects
  PROVE  PublicationInv'
BY DEF PublicationInv, MakeObjects, github, HistoryKept, BaseKnown, FoundExact, IsExact, OwnMade,
       ReceiptGiven, ReceiptIsExact

\* What Reconcile finds is the branch of that moment, which is in its history.
LEMMA ReconcilePreserves ==
  ASSUME PublicationInv, Reconcile
  PROVE  PublicationInv'
<1>1. CASE GivesUp
  BY <1>1, GivesUpPreserves DEF Reconcile
<1>2. CASE branch = Missing /\ publishing = "RECONCILE" /\ publishing' = "OBJECTS"
           /\ UNCHANGED <<found, receipt>>
  BY <1>2 DEF PublicationInv, Reconcile, github, HistoryKept, BaseKnown, FoundExact, IsExact,
       OwnMade, Own, ReceiptGiven, ReceiptIsExact
<1>3. CASE /\ branch # Missing /\ IsExact(branch)
           /\ found' = branch
           /\ publishing' = IF publishing = "RECONCILE" THEN "PULL_READ" ELSE "RECOVER_PULL_READ"
           /\ UNCHANGED receipt
  BY <1>3 DEF PublicationInv, Reconcile, github, HistoryKept, BaseKnown, FoundExact, IsExact,
       OwnMade, Own, ReceiptGiven, ReceiptIsExact
<1> QED
  BY <1>1, <1>2, <1>3 DEF Reconcile

\* The branch is still at the commit that was found, and the request is a draft
\* on its parent: the history has remembered that pair.
LEMMA ReadPullPreserves ==
  ASSUME PublicationInv, ReadPull
  PROVE  PublicationInv'
<1>1. CASE GivesUp
  BY <1>1, GivesUpPreserves DEF ReadPull
<1>2. CASE /\ ShowsExactly(found)
           /\ receipt' = Receipt(IF publishing = "PULL_READ" THEN "SKIPPED_EXACT" ELSE "CREATED",
                                 found)
           /\ publishing' = "PUBLISHED"
           /\ UNCHANGED found
  <2>1. found \in heads /\ found.exact /\ found.parent \in 1 .. base
    BY <1>2 DEF ReadPull, PublicationInv, FoundExact, IsExact, BaseKnown
  <2>2. found \in reviewable
    BY <1>2, <2>1 DEF ShowsExactly, PublicationInv, HistoryKept
  <2>3. receipt'.commit = found /\ receipt'.outcome \in {"CREATED", "SKIPPED_EXACT"}
    BY <1>2 DEF Receipt
  <2> QED
    BY <1>2, <2>1, <2>2, <2>3 DEF PublicationInv, ReadPull, github, HistoryKept, BaseKnown,
         FoundExact, OwnMade, ReceiptGiven, ReceiptIsExact
<1> QED
  BY <1>1, <1>2 DEF ReadPull

\* The commit exists before the branch is created of it.
LEMMA CreateRefPreserves ==
  ASSUME PublicationInv, CreateRef
  PROVE  PublicationInv'
<1>1. Notes /\ UNCHANGED <<base, pull, interference, seenBase, found, receipt>>
  BY DEF CreateRef
<1>2. publishing' = "FAILED" \/ (publishing' = "PULL" /\ branch' = Own)
  BY DEF CreateRef
<1>3. HistoryKept'
  BY <1>1, NotesKeepHistory DEF PublicationInv, HistoryKept, Notes
<1>4. Own' = Own /\ Own # Missing
  BY <1>1, CommitsExist DEF Own
<1>5. OwnMade'
  BY <1>1, <1>2, <1>4 DEF OwnMade, Notes
<1> QED
  BY <1>1, <1>2, <1>3, <1>5 DEF PublicationInv, CreateRef, BaseKnown, FoundExact,
       ReceiptGiven, ReceiptIsExact

\* The receipt of a created request names the commit the branch was created of,
\* whatever the branch is by now.
LEMMA CreatePullPreserves ==
  ASSUME PublicationInv, CreatePull
  PROVE  PublicationInv'
<1>1. Notes /\ UNCHANGED <<base, branch, interference, seenBase, found>>
  BY DEF CreatePull
<1>2. HistoryKept' /\ heads \subseteq heads'
  BY <1>1, NotesKeepHistory DEF PublicationInv, HistoryKept, Notes
<1>3. Own' = Own /\ Own \in heads /\ Own.exact /\ Own.parent = seenBase
  BY <1>1 DEF Own, Commit, CreatePull, PublicationInv, OwnMade
<1>4. seenBase \in 1 .. base
  BY DEF CreatePull, PublicationInv, BaseKnown
<1>5. CASE publishing' = "PUBLISHED" /\ receipt' = Receipt("CREATED", Own)
  <2>1. receipt'.outcome = "CREATED" /\ receipt'.commit = Own
    BY <1>5 DEF Receipt
  <2> QED
    BY <1>1, <1>2, <1>3, <1>4, <1>5, <2>1 DEF PublicationInv, BaseKnown, FoundExact, OwnMade,
         ReceiptGiven, ReceiptIsExact
<1>6. CASE publishing' = "RECOVER" /\ UNCHANGED receipt
  BY <1>1, <1>2, <1>3, <1>4, <1>6 DEF PublicationInv, BaseKnown, FoundExact, OwnMade,
       ReceiptGiven, ReceiptIsExact
<1> QED
  BY <1>5, <1>6 DEF CreatePull

LEMMA PublishesPreserves ==
  ASSUME PublicationInv, Publishes
  PROVE  PublicationInv'
<1>1. CASE CallFails
  BY <1>1, GivesUpPreserves DEF CallFails
<1> QED
  BY <1>1, ReadBasePreserves, ReconcilePreserves, ReadPullPreserves, MakeObjectsPreserves,
     CreateRefPreserves, CreatePullPreserves DEF Publishes

\* Others may do what they like with the branch, its request and the base.
LEMMA OthersPreserve ==
  ASSUME PublicationInv, OthersPublish \/ BaseMoves
  PROVE  PublicationInv'
<1>1. CASE OthersPublish
  <2>1. HistoryKept' /\ heads \subseteq heads' /\ reviewable \subseteq reviewable'
    BY <1>1, NotesKeepHistory DEF OthersPublish, PublicationInv, HistoryKept, Notes
  <2> QED
    BY <1>1, <2>1 DEF OthersPublish, publisher, PublicationInv, BaseKnown, FoundExact, IsExact,
         OwnMade, Own, ReceiptGiven, ReceiptIsExact
<1>2. CASE BaseMoves
  <2>1. base \in Nat /\ base' \in Nat /\ base' > 0 /\ \A n \in 1 .. base : n \in 1 .. base'
    BY <1>2 DEF BaseMoves, PublicationInv, BaseKnown
  <2>2. BaseKnown'
    BY <1>2, <2>1 DEF BaseMoves, publisher, PublicationInv, BaseKnown
  <2>3. ReceiptIsExact'
    BY <1>2, <2>1 DEF BaseMoves, publisher, PublicationInv, ReceiptIsExact
  <2> QED
    BY <1>2, <2>2, <2>3 DEF BaseMoves, publisher, PublicationInv, HistoryKept, FoundExact,
         IsExact, OwnMade, Own, ReceiptGiven
<1> QED
  BY <1>1, <1>2

-----------------------------------------------------------------------------
(* The run.                                                                *)

\* The shapes of what is read and updated by its fields.
Shapes ==
  /\ source \in [head : Nat, open : BOOLEAN]
  /\ half \in [head : Nat, open : BOOLEAN]
  /\ envelope \in [head : Nat, files : Nat]
  /\ row = [status |-> row.status, receipt |-> row.receipt]

\* What was read earlier is not newer than what is read later.
HeadsRise ==
  /\ half.head <= source.head
  /\ envelope.head <= envelope.files
  /\ envelope.files <= source.head

\* Between the two reads before the publication.
Attesting ==
  stage = "PUBLICATION_READ_FILES" =>
    half.head \in confirmed /\ envelope.files <= half.head

\* The stages after the validation.
Passed ==
  stage \in {"VALIDATED", "PUBLICATION_READ_PULL", "PUBLICATION_READ_FILES", "PUBLISH",
             "PUBLISHED", "WRITE_BACK", "WRITTEN", "FINISH"} => validated

\* The stages after the publication.
HasReceipt ==
  stage \in {"PUBLISHED", "WRITE_BACK", "WRITTEN", "FINISH"} => receipt # NoReceipt

\* What the write-back has posted and read back.
ReadBack ==
  /\ carried = [posted |-> carried.posted, read |-> carried.read]
  /\ writing \in {"WRITE_DOCUMENTS", "VERIFY_TAGS", "VERIFY_DOCUMENTS", "WRITTEN"}
       => DecisionTags \subseteq carried.posted
  /\ writing \in {"VERIFY_TAGS", "VERIFY_DOCUMENTS", "WRITTEN"} => "OURS" \in carried.posted
  /\ writing \in {"VERIFY_DOCUMENTS", "WRITTEN"} => "REVIEWED" \in carried.read
  /\ writing = "WRITTEN" => OnCandidate \cap carried.read # {}
  /\ stage \in {"WRITTEN", "FINISH"} => writing = "WRITTEN"

\* No catch block reports a completion, and a run with its last status has stopped.
LastStatus ==
  /\ failing # "COMPLETED"
  /\ row.status \in TerminalStatuses => stage = "STOPPED"

WorkerInv ==
  /\ Shapes /\ HeadsRise /\ Attesting /\ Passed /\ EffectsAreGated
  /\ HasReceipt /\ ReadBack /\ LastStatus /\ CompletedMeansDone
  /\ PublicationInv

\* A receipt is told from none by its outcome.
LEMMA ReceiptsDiffer == ASSUME receipt.outcome # "NONE" PROVE receipt # NoReceipt
BY DEF NoReceipt

LEMMA WorkerStarts == ASSUME Init PROVE WorkerInv
<1>1. Shapes /\ HeadsRise
  BY DEF Init, Shapes, HeadsRise, Envelope, NoRow
<1>2. Attesting /\ Passed /\ EffectsAreGated /\ HasReceipt
  BY DEF Init, Attesting, Passed, EffectsAreGated, HasReceipt
<1>3. ReadBack
  BY DEF Init, MemoryInit, ReadBack
<1>4. LastStatus /\ CompletedMeansDone
  BY DEF Init, LastStatus, CompletedMeansDone, NoRow, TerminalStatuses
<1>5. PublicationInv
  BY PublicationStarts DEF Init
<1> QED
  BY <1>1, <1>2, <1>3, <1>4, <1>5 DEF WorkerInv

-----------------------------------------------------------------------------
(* What the invariant needs of a step that leaves some of its parts alone. *)

\* PublicationInv is about the publication alone.
LEMMA PublicationKept ==
  ASSUME PublicationInv, UNCHANGED publicationVars
  PROVE  PublicationInv'
BY DEF PublicationInv, publicationVars, github, publisher, HistoryKept, BaseKnown, FoundExact,
       IsExact, OwnMade, Own, ReceiptGiven, ReceiptIsExact

\* The parts of the gate are about the runner alone.
Gate == Shapes /\ HeadsRise /\ Attesting /\ Passed /\ EffectsAreGated

LEMMA GateKept ==
  ASSUME Gate, UNCHANGED runner
  PROVE  Gate'
BY DEF Gate, runner, Shapes, HeadsRise, Attesting, Passed, EffectsAreGated

\* The parts of the end are about the runner, receipt and the write-back.
Ending == HasReceipt /\ ReadBack /\ LastStatus /\ CompletedMeansDone

\* A step of a part leaves the runner alone; the receipt changes only in a
\* publication.
LEMMA EndingKept ==
  ASSUME Ending, UNCHANGED runner, UNCHANGED <<writing, carried>>,
         UNCHANGED receipt \/ stage = "PUBLISH"
  PROVE  Ending'
BY DEF Ending, runner, HasReceipt, ReadBack, LastStatus, CompletedMeansDone

LEMMA InvIsParts == WorkerInv <=> Gate /\ Ending /\ PublicationInv
BY DEF WorkerInv, Gate, Ending


-----------------------------------------------------------------------------
(* The steps of the parts, which leave the runner alone.                   *)

LEMMA QuietPartsPreserve ==
  ASSUME WorkerInv,
         Collecting \/ CatalogueEdited \/ Validating \/ TimePasses \/ ValidationDisturbed
  PROVE  WorkerInv'
<1>1. UNCHANGED runner /\ UNCHANGED publicationVars /\ UNCHANGED memoryVars
  BY DEF Collecting, CatalogueEdited, Validating, TimePasses, ValidationDisturbed
<1>2. UNCHANGED <<writing, carried, receipt>>
  BY <1>1 DEF memoryVars, writer, publicationVars, publisher
<1> QED
  BY <1>1, <1>2, InvIsParts, GateKept, EndingKept, PublicationKept
     DEF Gate, Ending, WorkerInv

LEMMA PublishingPreserves ==
  ASSUME WorkerInv, Publishing \/ PublicationDisturbed
  PROVE  WorkerInv'
<1>1. UNCHANGED runner /\ UNCHANGED <<writing, carried>> /\ stage = "PUBLISH"
  BY DEF Publishing, PublicationDisturbed, memoryVars, writer
<1>2. Gate /\ Ending /\ PublicationInv
  BY DEF WorkerInv, Gate, Ending
<1>3. PublicationInv'
  BY <1>2, PublishesPreserves, OthersPreserve DEF Publishing, PublicationDisturbed
<1>4. Gate'
  BY <1>1, <1>2, GateKept
<1>5. Ending'
  BY <1>1, <1>2, EndingKept
<1> QED
  BY <1>3, <1>4, <1>5 DEF WorkerInv, Gate, Ending

\* What was posted stays posted; what was read back is what the tags and the
\* documents were when each was read, and no step after that reads less.
LEMMA WritingBackPreserves ==
  ASSUME WorkerInv, WritingBack \/ DatasetCurated
  PROVE  WorkerInv'
<1>1. UNCHANGED runner /\ UNCHANGED publicationVars /\ UNCHANGED receipt /\ stage = "WRITE_BACK"
  BY DEF WritingBack, DatasetCurated, publicationVars, publisher
<1>2. Gate /\ Ending /\ PublicationInv
  BY DEF WorkerInv, Gate, Ending
<1>3. Gate' /\ PublicationInv'
  BY <1>1, <1>2, GateKept, PublicationKept
<1>4. ReadBack'
  <2>1. stage' = "WRITE_BACK"
    BY <1>1 DEF runner
  <2>2. CASE DatasetCurated
    BY <1>2, <2>1, <2>2 DEF DatasetCurated, Curate, writer, Ending, ReadBack
  <2>3. CASE ReadTags \/ ReadDocuments \/ CallThrows
    BY <1>2, <2>1, <2>3 DEF ReadTags, ReadDocuments, CallThrows, Abandons, Ending, ReadBack
  <2>4. CASE WriteTags \/ WriteDocuments
    BY <1>2, <2>1, <2>4 DEF WriteTags, WriteDocuments, Posts, Ending, ReadBack
  <2>6. CASE VerifyTags
    BY <1>2, <2>1, <2>6 DEF VerifyTags, Abandons, Ending, ReadBack
  <2>5. CASE VerifyDocuments
    BY <1>2, <2>1, <2>5 DEF VerifyDocuments, Abandons, Ending, ReadBack
  <2> QED
    BY <2>2, <2>3, <2>4, <2>5, <2>6 DEF WritingBack, Writes
<1>5. HasReceipt' /\ LastStatus' /\ CompletedMeansDone'
  <2>1. row.status # "COMPLETED"
    BY <1>1, <1>2 DEF Ending, LastStatus, TerminalStatuses
  <2> QED
    BY <1>1, <1>2, <2>1 DEF runner, Ending, HasReceipt, LastStatus, CompletedMeansDone
<1> QED
  BY <1>3, <1>4, <1>5 DEF WorkerInv, Gate

-----------------------------------------------------------------------------
(* The ends of the four steps.                                             *)

LEMMA CollectionEndsPreserves ==
  ASSUME WorkerInv, CollectionEnds
  PROVE  WorkerInv'
<1>1. /\ stage = "COLLECT" /\ stage' \in {"COLLECTED", "CATCH"}
      /\ failing' \in {failing, "FAILED_CONTEXT"}
  BY DEF CollectionEnds, Proceeds, Catches
<1>2. UNCHANGED runnerElse /\ UNCHANGED publicationVars /\ UNCHANGED memoryVars
  BY DEF CollectionEnds
<1>3. PublicationInv'
  BY <1>2, PublicationKept DEF WorkerInv
<1>4. Gate'
  BY <1>1, <1>2 DEF WorkerInv, runnerElse, Gate, Shapes, HeadsRise, Attesting, Passed, EffectsAreGated
<1>5. Ending'
  BY <1>1, <1>2 DEF WorkerInv, runnerElse, memoryVars, writer, Ending, HasReceipt, ReadBack,
       LastStatus, CompletedMeansDone, TerminalStatuses
<1> QED
  BY <1>3, <1>4, <1>5 DEF WorkerInv, Gate, Ending

LEMMA ValidationEndsPreserves ==
  ASSUME WorkerInv, ValidationEnds
  PROVE  WorkerInv'
<1>1. /\ stage = "VALIDATE" /\ stage' \in {"VALIDATED", "CATCH"}
      /\ stage' = "VALIDATED" => validated' = TRUE
      /\ failing' \in {failing, "FAILED_VALIDATION"}
  <2>1. CASE AllPass
    BY <2>1 DEF ValidationEnds, Proceeds
  <2>2. CASE ~AllPass
    BY <2>2 DEF ValidationEnds, Catches
  <2> QED
    BY <2>1, <2>2
<1>2. UNCHANGED <<row, source, half, envelope, confirmed>> /\ UNCHANGED publicationVars
      /\ UNCHANGED memoryVars
  BY DEF ValidationEnds
<1>3. PublicationInv'
  BY <1>2, PublicationKept DEF WorkerInv
<1>4. Gate'
  BY <1>1, <1>2 DEF WorkerInv, Gate, Shapes, HeadsRise, Attesting, Passed, EffectsAreGated
<1>5. Ending'
  <2>1. row.status \notin TerminalStatuses
    BY <1>1 DEF WorkerInv, LastStatus
  <2> QED
    BY <1>1, <1>2, <2>1 DEF WorkerInv, memoryVars, writer, Ending, HasReceipt, ReadBack,
         LastStatus, CompletedMeansDone, TerminalStatuses
<1> QED
  BY <1>3, <1>4, <1>5 DEF WorkerInv, Gate, Ending

\* A publication is forgotten but for its receipt.
LEMMA PublicationEndsPreserves ==
  ASSUME WorkerInv, PublicationEnds
  PROVE  WorkerInv'
<1>1. /\ stage = "PUBLISH" /\ stage' \in {"PUBLISHED", "CATCH"}
      /\ stage' = "PUBLISHED" => publishing = "PUBLISHED"
      /\ failing' \in {failing, "FAILED_GITHUB"}
  BY DEF PublicationEnds, Proceeds, Catches
<1>2. UNCHANGED runnerElse /\ ForgetsPublication /\ UNCHANGED memoryVars
  BY DEF PublicationEnds
<1>3. PublicationInv'
  BY <1>2 DEF ForgetsPublication, PublicationInv, HistoryKept, BaseKnown, FoundExact, OwnMade,
       ReceiptGiven, ReceiptIsExact
<1>4. Gate'
  BY <1>1, <1>2 DEF WorkerInv, runnerElse, Gate, Shapes, HeadsRise, Attesting, Passed, EffectsAreGated
<1>5. HasReceipt'
  <2>1. stage' = "PUBLISHED" => receipt.outcome \in {"CREATED", "SKIPPED_EXACT"}
    BY <1>1 DEF WorkerInv, PublicationInv, ReceiptGiven
  <2>2. NoReceipt' = NoReceipt /\ receipt' = receipt
    BY <1>2 DEF NoReceipt, Missing, ForgetsPublication
  <2> QED
    BY <1>1, <2>1, <2>2, ReceiptsDiffer DEF HasReceipt
<1>6. ReadBack' /\ LastStatus' /\ CompletedMeansDone'
  BY <1>1, <1>2 DEF WorkerInv, runnerElse, memoryVars, writer, ReadBack,
       LastStatus, CompletedMeansDone, TerminalStatuses
<1> QED
  BY <1>3, <1>4, <1>5, <1>6 DEF WorkerInv, Gate

LEMMA WriteBackEndsPreserves ==
  ASSUME WorkerInv, WriteBackEnds
  PROVE  WorkerInv'
<1>1. /\ stage = "WRITE_BACK" /\ stage' \in {"WRITTEN", "CATCH"}
      /\ stage' = "WRITTEN" => writing = "WRITTEN"
      /\ failing' \in {failing, "FAILED_WRITEBACK"}
  BY DEF WriteBackEnds, Proceeds, Catches
<1>2. UNCHANGED runnerElse /\ UNCHANGED publicationVars /\ UNCHANGED memoryVars
  BY DEF WriteBackEnds, parts
<1>3. PublicationInv'
  BY <1>2, PublicationKept DEF WorkerInv
<1>4. Gate'
  BY <1>1, <1>2 DEF WorkerInv, runnerElse, Gate, Shapes, HeadsRise, Attesting, Passed, EffectsAreGated
<1>5. Ending'
  BY <1>1, <1>2 DEF WorkerInv, runnerElse, memoryVars, writer, publicationVars, publisher, Ending,
       HasReceipt, ReadBack, LastStatus, CompletedMeansDone, TerminalStatuses
<1> QED
  BY <1>3, <1>4, <1>5 DEF WorkerInv, Gate, Ending


-----------------------------------------------------------------------------
(* The steps of the runner.                                                *)

\* A step of the runner leaves the parts of the run as they are.
LEMMA PartsKept ==
  ASSUME WorkerInv, UNCHANGED parts
  PROVE  PublicationInv' /\ UNCHANGED <<receipt, writing, carried>>
<1>1. UNCHANGED publicationVars /\ UNCHANGED memoryVars
  BY DEF parts
<1> QED
  BY <1>1, PublicationKept DEF WorkerInv, publicationVars, publisher, memoryVars, writer

\* What ends a step early: the run stops, or goes to a catch block.
LEMMA LeavingPreserves ==
  ASSUME WorkerInv, UNCHANGED parts, UNCHANGED <<row, source, half, envelope, validated, confirmed>>,
         stage' \in {"STOPPED", "CATCH"}, failing' # "COMPLETED", stage # "STOPPED"
  PROVE  WorkerInv'
<1>1. PublicationInv' /\ UNCHANGED <<receipt, writing, carried>>
  BY PartsKept
<1> QED
  BY <1>1 DEF WorkerInv, Shapes, HeadsRise, Attesting, Passed, EffectsAreGated, HasReceipt,
       ReadBack, LastStatus, CompletedMeansDone

LEMMA LeavesByCatch ==
  ASSUME NEW status, Catches(status), WorkerInv, status # "COMPLETED"
  PROVE  stage' \in {"STOPPED", "CATCH"} /\ failing' # "COMPLETED"
BY DEF Catches, Stops, WorkerInv, LastStatus

\* The three reads, and the fields of each.
LEMMA SourceReadFields ==
  ASSUME NEW r \in SourceReads
  PROVE  \/ /\ r.first = "READ_PULL" /\ r.second = "READ_FILES"
            /\ r.then = "CREATE" /\ r.caught = "NONE"
         \/ /\ r.first = "VALIDATION_READ_PULL" /\ r.second = "VALIDATION_READ_FILES"
            /\ r.then = "VALIDATE" /\ r.caught = "FAILED_VALIDATION"
         \/ /\ r.first = "PUBLICATION_READ_PULL" /\ r.second = "PUBLICATION_READ_FILES"
            /\ r.then = "PUBLISH" /\ r.caught = "FAILED_GITHUB"
BY DEF SourceReads, SourceRead

LEMMA ReadSourcePullPreserves ==
  ASSUME WorkerInv, ReadSourcePull
  PROVE  WorkerInv'
<1>1. PICK r \in SourceReads :
        /\ stage = r.first /\ half' = source /\ Proceeds(r.second)
        /\ confirmed' = IF r.then = "PUBLISH" THEN {source.head} ELSE confirmed
  BY DEF ReadSourcePull
<1>2. UNCHANGED <<row, source, envelope, validated>> /\ UNCHANGED parts
  BY DEF ReadSourcePull
<1>3. PublicationInv' /\ UNCHANGED <<receipt, writing, carried>>
  BY <1>2, PartsKept
<1>4. stage' = r.second /\ failing' = failing
  BY <1>1 DEF Proceeds
<1>5. Shapes' /\ HeadsRise'
  BY <1>1, <1>2 DEF WorkerInv, Shapes, HeadsRise
<1>6. Attesting'
  BY <1>1, <1>2, <1>4, SourceReadFields DEF WorkerInv, HeadsRise, Attesting
<1>7. Passed' /\ EffectsAreGated' /\ HasReceipt' /\ ReadBack'
  BY <1>1, <1>2, <1>3, <1>4, SourceReadFields
     DEF WorkerInv, Passed, EffectsAreGated, HasReceipt, ReadBack
<1>8. row.status \notin TerminalStatuses
  BY <1>1, SourceReadFields DEF WorkerInv, LastStatus
<1>9. LastStatus' /\ CompletedMeansDone'
  BY <1>2, <1>4, <1>8 DEF WorkerInv, LastStatus, CompletedMeansDone, TerminalStatuses
<1> QED
  BY <1>3, <1>5, <1>6, <1>7, <1>9 DEF WorkerInv

\* The gate: the second pair of reads is the first one, so no push came between
\* the files of the analysis and the files of the attestation.
LEMMA ReadSourceFilesPreserves ==
  ASSUME WorkerInv, ReadSourceFiles
  PROVE  WorkerInv'
<1>1. PICK r \in SourceReads :
        /\ stage = r.second
        /\ LET observed == Envelope(half.head, source.head)
           IN IF half.open /\ (r.then # "CREATE" => NoDrift(observed))
                THEN /\ Proceeds(r.then)
                     /\ envelope' = IF r.then = "CREATE" THEN observed ELSE envelope
                ELSE Catches(r.caught) /\ UNCHANGED envelope
  BY DEF ReadSourceFiles
<1>2. UNCHANGED <<row, source, half, validated, confirmed>> /\ UNCHANGED parts
  BY DEF ReadSourceFiles
<1>3. PublicationInv' /\ UNCHANGED <<receipt, writing, carried>>
  BY <1>2, PartsKept
<1>4. CASE Catches(r.caught) /\ UNCHANGED envelope
  <2>1. stage # "STOPPED" /\ r.caught # "COMPLETED"
    BY <1>1, SourceReadFields
  <2>2. stage' \in {"STOPPED", "CATCH"} /\ failing' # "COMPLETED"
    BY <1>4, <2>1, LeavesByCatch
  <2> QED
    BY <1>2, <1>4, <2>1, <2>2, LeavingPreserves
<1>5. CASE /\ Proceeds(r.then)
           /\ r.then # "CREATE" => NoDrift(Envelope(half.head, source.head))
           /\ envelope' = IF r.then = "CREATE" THEN Envelope(half.head, source.head) ELSE envelope
  <2>1. stage' = r.then /\ failing' = failing
    BY <1>5 DEF Proceeds
  <2>2. envelope'.head = half.head /\ envelope'.files = source.head
    BY <1>5 DEF Envelope, NoDrift
  <2>3. Shapes'
    BY <1>2, <1>5 DEF WorkerInv, Shapes, Envelope
  <2>4. HeadsRise'
    BY <1>2, <2>2 DEF WorkerInv, Shapes, HeadsRise
  <2>5. Attesting' /\ Passed' /\ HasReceipt' /\ ReadBack'
    BY <1>1, <1>2, <1>3, <2>1, SourceReadFields
       DEF WorkerInv, Attesting, Passed, HasReceipt, ReadBack
  <2>6. EffectsAreGated'
    <3>1. CASE r.then = "PUBLISH"
      <4>1. stage = "PUBLICATION_READ_FILES" /\ envelope' = envelope
        BY <1>1, <1>5, <3>1, SourceReadFields
      <4>2. half.head \in confirmed /\ envelope.files <= half.head /\ validated
        BY <4>1 DEF WorkerInv, Attesting, Passed
      <4>3. envelope.head = half.head /\ envelope.files = source.head
        BY <4>1, <2>2
      <4>4. half.head \in Nat /\ source.head \in Nat /\ half.head <= source.head
        BY DEF WorkerInv, Shapes, HeadsRise
      <4>5. envelope.head = envelope.files
        BY <4>2, <4>3, <4>4
      <4> QED
        BY <1>2, <4>1, <4>2, <4>3, <4>5 DEF EffectsAreGated
    <3>2. CASE r.then # "PUBLISH"
      BY <2>1, <3>2, SourceReadFields DEF EffectsAreGated
    <3> QED
      BY <3>1, <3>2
  <2>7. row.status \notin TerminalStatuses
    BY <1>1, SourceReadFields DEF WorkerInv, LastStatus
  <2>8. LastStatus' /\ CompletedMeansDone'
    BY <1>2, <2>1, <2>7 DEF WorkerInv, LastStatus, CompletedMeansDone, TerminalStatuses
  <2> QED
    BY <1>3, <2>3, <2>4, <2>5, <2>6, <2>8 DEF WorkerInv
<1> QED
  BY <1>1, <1>4, <1>5

LEMMA SourceReadFailsPreserves ==
  ASSUME WorkerInv, SourceReadFails
  PROVE  WorkerInv'
<1>1. PICK r \in SourceReads : stage \in {r.first, r.second} /\ Catches(r.caught)
  BY DEF SourceReadFails
<1>2. stage # "STOPPED" /\ r.caught # "COMPLETED"
  BY <1>1, SourceReadFields
<1>3. stage' \in {"STOPPED", "CATCH"} /\ failing' # "COMPLETED"
  BY <1>1, <1>2, LeavesByCatch
<1> QED
  BY <1>2, <1>3, LeavingPreserves DEF SourceReadFails

LEMMA CrashPreserves ==
  ASSUME WorkerInv, Crash
  PROVE  WorkerInv'
<1>1. stage # "STOPPED" /\ stage' = "STOPPED" /\ failing' # "COMPLETED"
  BY DEF Crash, Stops, WorkerInv, LastStatus
<1> QED
  BY <1>1, LeavingPreserves DEF Crash, runnerElse


LEMMA CreateRowPreserves ==
  ASSUME WorkerInv, CreateRow
  PROVE  WorkerInv'
<1>1. /\ stage = "CREATE" /\ stage' \in {"PARSE", "STOPPED"}
      /\ failing' = failing
      /\ row' = row \/ row' = [row EXCEPT !.status = "CREATED"]
  BY DEF CreateRow, Proceeds, Catches, Stops
<1>2. UNCHANGED <<source, half, envelope, validated, confirmed>> /\ UNCHANGED parts
  BY DEF CreateRow
<1>3. PublicationInv' /\ UNCHANGED <<receipt, writing, carried>>
  BY <1>2, PartsKept
<1>4. row'.status \notin TerminalStatuses /\ row' = [status |-> row'.status, receipt |-> row'.receipt]
  BY <1>1 DEF WorkerInv, Shapes, LastStatus, TerminalStatuses
<1>5. Gate'
  BY <1>1, <1>2, <1>4 DEF WorkerInv, Gate, Shapes, HeadsRise, Attesting, Passed, EffectsAreGated
<1>6. Ending'
  BY <1>1, <1>3, <1>4 DEF WorkerInv, Ending, HasReceipt, ReadBack, LastStatus, CompletedMeansDone,
       TerminalStatuses
<1> QED
  BY <1>3, <1>5, <1>6 DEF WorkerInv, Gate, Ending

\* Of the reports only the last one is of an end, and only three go on behind
\* the validation.
LEMMA ReportOf ==
  ASSUME NEW s \in DOMAIN Reports
  PROVE  /\ s \notin {"STOPPED", "PUBLICATION_READ_FILES"}
         /\ Reports[s].caught # "COMPLETED"
         /\ Reports[s].status \in TerminalStatuses => s = "FINISH"
         /\ s = "FINISH" => Reports[s].then = "RETURN" /\ Reports[s].caught = "NONE"
         /\ \/ Reports[s].then \in {"BASELINE", "CONTEXT", "COLLECT", "DECIDE", "PLAN", "BUILD",
                                    "VALIDATION_READ_PULL", "RETURN"}
            \/ s = "VALIDATED" /\ Reports[s].then = "PUBLICATION_READ_PULL"
            \/ s = "PUBLISHED" /\ Reports[s].then = "WRITE_BACK"
            \/ s = "WRITTEN" /\ Reports[s].then = "FINISH"
<1>1. s \in {"PARSE", "BASELINE", "CONTEXT", "COLLECTED", "DECIDE", "PLAN", "BUILD", "VALIDATED",
             "PUBLISHED", "WRITTEN", "FINISH"}
  BY DEF Reports
<1>2. CASE s \in {"PARSE", "BASELINE", "CONTEXT", "COLLECTED", "DECIDE", "PLAN", "BUILD"}
  BY <1>2 DEF Reports, Report, TerminalStatuses
<1>3. CASE s \in {"VALIDATED", "PUBLISHED", "WRITTEN", "FINISH"}
  BY <1>3 DEF Reports, Report, TerminalStatuses
<1> QED
  BY <1>1, <1>2, <1>3

\* A completion is reported with the receipt, after the write-back was read
\* back, and whether it is answered or not, no catch block follows it.
LEMMA ReportStepPreserves ==
  ASSUME WorkerInv, ReportStep
  PROVE  WorkerInv'
<1> DEFINE r == Reports[stage]
<1>1. PICK done \in BOOLEAN, answered \in BOOLEAN :
        /\ row' = IF done THEN [status |-> r.status, receipt |-> receipt] ELSE row
        /\ IF done /\ answered
             THEN IF r.then = "RETURN" THEN Stops("RETURNED") ELSE Proceeds(r.then)
             ELSE Catches(r.caught)
  BY DEF ReportStep
<1>2. stage \in DOMAIN Reports /\ UNCHANGED <<source, half, envelope, validated, confirmed>>
      /\ UNCHANGED parts
  BY DEF ReportStep
<1>3. PublicationInv' /\ UNCHANGED <<receipt, writing, carried>>
  BY <1>2, PartsKept
<1>4. /\ stage \notin {"STOPPED", "PUBLICATION_READ_FILES"}
      /\ r.caught # "COMPLETED"
      /\ r.status \in TerminalStatuses => stage = "FINISH"
      /\ stage = "FINISH" => r.then = "RETURN" /\ r.caught = "NONE"
      /\ \/ r.then \in {"BASELINE", "CONTEXT", "COLLECT", "DECIDE", "PLAN", "BUILD",
                        "VALIDATION_READ_PULL", "RETURN"}
         \/ stage = "VALIDATED" /\ r.then = "PUBLICATION_READ_PULL"
         \/ stage = "PUBLISHED" /\ r.then = "WRITE_BACK"
         \/ stage = "WRITTEN" /\ r.then = "FINISH"
  BY <1>2, ReportOf
<1> HIDE DEF r
<1>5. /\ \/ stage' = r.then /\ r.then # "RETURN"
         \/ stage' \in {"STOPPED", "CATCH"}
      /\ stage = "FINISH" => stage' = "STOPPED"
      /\ failing' # "COMPLETED"
  BY <1>1, <1>4 DEF Stops, Proceeds, Catches, WorkerInv, LastStatus
<1>6. /\ row' = [status |-> row'.status, receipt |-> row'.receipt]
      /\ row'.status \in TerminalStatuses => stage = "FINISH" /\ row'.receipt = receipt
  BY <1>1, <1>4 DEF WorkerInv, Shapes, LastStatus
<1>7. Gate'
  BY <1>2, <1>4, <1>5, <1>6
     DEF WorkerInv, Gate, Shapes, HeadsRise, Attesting, Passed, EffectsAreGated
<1>8. HasReceipt' /\ ReadBack'
  BY <1>3, <1>4, <1>5 DEF WorkerInv, HasReceipt, ReadBack
<1>9. LastStatus'
  BY <1>5, <1>6 DEF LastStatus
<1>10. CompletedMeansDone'
  BY <1>2, <1>3, <1>6 DEF WorkerInv, Passed, HasReceipt, ReadBack, CompletedMeansDone, TerminalStatuses
<1> QED
  BY <1>3, <1>7, <1>8, <1>9, <1>10 DEF WorkerInv, Gate

LEMMA ReportFailurePreserves ==
  ASSUME WorkerInv, ReportFailure
  PROVE  WorkerInv'
<1>1. /\ stage = "CATCH" /\ stage' = "STOPPED" /\ failing' = failing
      /\ row' = row \/ row' = [row EXCEPT !.status = failing]
  BY DEF ReportFailure, Stops
<1>2. UNCHANGED <<source, half, envelope, validated, confirmed>> /\ UNCHANGED parts
  BY DEF ReportFailure
<1>3. PublicationInv' /\ UNCHANGED <<receipt, writing, carried>>
  BY <1>2, PartsKept
<1>4. /\ row' = [status |-> row'.status, receipt |-> row'.receipt]
      /\ row'.status # "COMPLETED"
  BY <1>1 DEF WorkerInv, Shapes, LastStatus, TerminalStatuses
<1>5. Gate'
  BY <1>1, <1>2, <1>4 DEF WorkerInv, Gate, Shapes, HeadsRise, Attesting, Passed, EffectsAreGated
<1>6. Ending'
  BY <1>1, <1>3, <1>4 DEF WorkerInv, Ending, HasReceipt, ReadBack, LastStatus, CompletedMeansDone
<1> QED
  BY <1>3, <1>5, <1>6 DEF WorkerInv, Gate, Ending

\* A push between the two reads of an attestation makes them differ, and the
\* head of the earlier one stays confirmed.
LEMMA PushPreserves ==
  ASSUME WorkerInv, Push
  PROVE  WorkerInv'
<1>1. PICK r \in SourceReads : stage \in {r.first, r.second}
  BY DEF Push
<1>2. /\ source' = [source EXCEPT !.head = @ + 1]
      /\ confirmed \subseteq confirmed'
      /\ UNCHANGED <<stage, end, failing, row, half, envelope, validated>> /\ UNCHANGED parts
  BY DEF Push
<1>3. PublicationInv' /\ UNCHANGED <<receipt, writing, carried>>
  BY <1>2, PartsKept
<1>4. Shapes' /\ HeadsRise'
  BY <1>2 DEF WorkerInv, Shapes, HeadsRise
<1>5. Attesting' /\ Passed' /\ EffectsAreGated'
  BY <1>2 DEF WorkerInv, Attesting, Passed, EffectsAreGated
<1>6. Ending'
  BY <1>2, <1>3 DEF WorkerInv, Ending, HasReceipt, ReadBack, LastStatus, CompletedMeansDone
<1> QED
  BY <1>3, <1>4, <1>5, <1>6 DEF WorkerInv, Ending

LEMMA CloseSourcePreserves ==
  ASSUME WorkerInv, CloseSource
  PROVE  WorkerInv'
<1>1. /\ source' = [source EXCEPT !.open = FALSE]
      /\ UNCHANGED <<stage, end, failing, row, half, envelope, validated, confirmed>>
      /\ UNCHANGED parts
  BY DEF CloseSource
<1>2. PublicationInv' /\ UNCHANGED <<receipt, writing, carried>>
  BY <1>1, PartsKept
<1>3. Gate'
  BY <1>1 DEF WorkerInv, Gate, Shapes, HeadsRise, Attesting, Passed, EffectsAreGated
<1>4. Ending'
  BY <1>1, <1>2 DEF WorkerInv, Ending, HasReceipt, ReadBack, LastStatus, CompletedMeansDone
<1> QED
  BY <1>2, <1>3, <1>4 DEF WorkerInv, Gate, Ending

-----------------------------------------------------------------------------

(* The collection and the validation, and everything that leaves them alone. *)

RunnerSteps ==
  ReadSourcePull \/ ReadSourceFiles \/ SourceReadFails \/ CreateRow \/ ReportStep \/ ReportFailure
  \/ WriteBackEnds \/ Push \/ CloseSource \/ Crash

LEMMA RunnerStepsKeepParts == ASSUME RunnerSteps PROVE UNCHANGED parts
BY DEF RunnerSteps, ReadSourcePull, ReadSourceFiles, SourceReadFails, CreateRow, ReportStep,
       ReportFailure, WriteBackEnds, Push, CloseSource, Crash

LEMMA CollectionStepPreserves ==
  ASSUME CollectionInv, [Next]_vars
  PROVE  CollectionInv'
<1>1. CASE Collecting
  BY <1>1, CollectsPreserves DEF Collecting
<1>2. CASE CatalogueEdited
  BY <1>2, EditorsPreserve DEF CatalogueEdited
<1>3. CASE CollectionEnds
  <2> DEFINE c == CHOOSE c \in Catalogues : TRUE
  <2>1. c \in Catalogues
    BY WorkerAssumption
  <2>2. c.listings \in [DOMAIN WantedIn -> Seq(Entries)]
    BY <2>1, WorkerAssumption DEF Entries
  <2>3. ForgetsCollection
    BY <1>3 DEF CollectionEnds
  <2>4. listings' = c.listings
    BY <2>3 DEF ForgetsCollection
  <2> HIDE DEF c
  <2>5. ListingsTyped'
    BY <2>2, <2>4 DEF ListingsTyped
  <2>6. Remembered' /\ NothingYet' /\ OwnersJudged' /\ ContextTrue' /\ Running'
    BY <2>3 DEF ForgetsCollection, Remembered, NothingYet, OwnersJudged, ContextTrue, Running
  <2>7. SeenHeld'
    BY <2>3 DEF ForgetsCollection, SeenHeld, NoMatches
  <2> QED
    BY <2>5, <2>6, <2>7 DEF CollectionInv
<1>4. CASE Validating \/ TimePasses \/ ValidationDisturbed \/ ValidationEnds \/ Publishing
           \/ PublicationDisturbed \/ PublicationEnds \/ WritingBack \/ DatasetCurated
  BY <1>4, CollectionKept DEF Validating, TimePasses, ValidationDisturbed, ValidationEnds, Publishing,
     PublicationDisturbed, PublicationEnds, WritingBack, DatasetCurated
<1>5. CASE RunnerSteps
  BY <1>5, RunnerStepsKeepParts, CollectionKept DEF parts
<1>6. CASE UNCHANGED vars
  BY <1>6, CollectionKept DEF vars, parts
<1> QED
  BY <1>1, <1>2, <1>3, <1>4, <1>5, <1>6 DEF Next, Run, Elsewhere, RunnerSteps

LEMMA ValidationStepPreserves ==
  ASSUME ValidationInv, [Next]_vars
  PROVE  ValidationInv'
<1>1. CASE Validating
  BY <1>1, ExecutorPreserves DEF Validating
<1>2. CASE TimePasses
  BY <1>2, DeadlinePreserves DEF TimePasses
<1>3. CASE ValidationDisturbed
  BY <1>3, OthersValidatePreserves DEF ValidationDisturbed
<1>4. CASE ValidationEnds
  <2>1. phase = "DONE" /\ ForgetsValidation
    BY <1>4 DEF ValidationEnds
  <2> QED
    BY <2>1 DEF ForgetsValidation, NoResults, Idle, ValidationInv, InPlace, Contents, Sealed, Earned,
         Counted, Marked, SeenGone, SandboxGone, Making, Checking, Removing
<1>5. CASE Collecting \/ CatalogueEdited \/ CollectionEnds \/ Publishing
           \/ PublicationDisturbed \/ PublicationEnds \/ WritingBack \/ DatasetCurated
  BY <1>5, ValidationKept DEF Collecting, CatalogueEdited, CollectionEnds, Publishing,
     PublicationDisturbed, PublicationEnds, WritingBack, DatasetCurated
<1>6. CASE RunnerSteps
  BY <1>6, RunnerStepsKeepParts, ValidationKept DEF parts
<1>7. CASE UNCHANGED vars
  BY <1>7, ValidationKept DEF vars, parts
<1> QED
  BY <1>1, <1>2, <1>3, <1>4, <1>5, <1>6, <1>7 DEF Next, Run, Elsewhere, RunnerSteps

-----------------------------------------------------------------------------

LEMMA StutterPreserves ==
  ASSUME WorkerInv, UNCHANGED vars
  PROVE  WorkerInv'
<1>1. UNCHANGED runner /\ UNCHANGED parts
  BY DEF vars
<1>2. PublicationInv' /\ UNCHANGED <<receipt, writing, carried>>
  BY <1>1, PartsKept
<1>3. Gate /\ Ending
  BY DEF WorkerInv, Gate, Ending
<1> QED
  BY <1>1, <1>2, <1>3, GateKept, EndingKept DEF WorkerInv, Gate, Ending

LEMMA NextPreserves ==
  ASSUME WorkerInv, [Next]_vars
  PROVE  WorkerInv'
BY QuietPartsPreserve, PublishingPreserves, WritingBackPreserves, CollectionEndsPreserves,
   ValidationEndsPreserves, PublicationEndsPreserves, WriteBackEndsPreserves,
   ReadSourcePullPreserves, ReadSourceFilesPreserves, SourceReadFailsPreserves, CrashPreserves,
   CreateRowPreserves, ReportStepPreserves, ReportFailurePreserves, PushPreserves,
   CloseSourcePreserves, StutterPreserves DEF Next, Run, Elsewhere

\* The row is written in three steps, none of which a stopped run takes.
LEMMA StoppedKeepsRow ==
  ASSUME [Next]_vars, stage = "STOPPED"
  PROVE  row' = row
<1>1. ASSUME NEW r \in SourceReads PROVE stage \notin {r.first, r.second}
  BY SourceReadFields
<1>2. stage \notin DOMAIN Reports
  BY ReportOf
<1>3. ~(ReadSourcePull \/ ReadSourceFiles \/ SourceReadFails \/ Push \/ CloseSource)
  BY <1>1 DEF ReadSourcePull, ReadSourceFiles, SourceReadFails, Push, CloseSource
<1>4. ~(ReportStep \/ ReportFailure \/ CreateRow)
  BY <1>2 DEF ReportStep, ReportFailure, CreateRow
<1>5. ~(Collecting \/ Validating \/ Publishing \/ WritingBack \/ CollectionEnds \/ ValidationEnds
        \/ PublicationEnds \/ WriteBackEnds \/ TimePasses \/ Crash)
  BY DEF Collecting, Validating, Publishing, WritingBack, CollectionEnds, ValidationEnds,
         PublicationEnds, WriteBackEnds, TimePasses, Crash
<1>6. ~(CatalogueEdited \/ ValidationDisturbed \/ PublicationDisturbed \/ DatasetCurated)
  BY DEF CatalogueEdited, ValidationDisturbed, PublicationDisturbed, DatasetCurated
<1>7. UNCHANGED vars
  BY <1>3, <1>4, <1>5, <1>6 DEF Next, Run, Elsewhere
<1> QED
  BY <1>7 DEF vars, runner

\* In every reachable state of a run of the worker its invariant holds.
THEOREM WorkerInvariant == Spec => []WorkerInv
<1>1. Init => WorkerInv
  BY WorkerStarts
<1>2. WorkerInv /\ [Next]_vars => WorkerInv'
  BY NextPreserves
<1> QED
  BY <1>1, <1>2, PTL DEF Spec

\* The worker touches the published branch and the dataset only behind the
\* validation and the second attestation of the source.
THEOREM GateHolds == Spec => []EffectsAreGated
<1>1. WorkerInv => EffectsAreGated
  BY DEF WorkerInv
<1> QED
  BY <1>1, WorkerInvariant, PTL

\* The receipt of a publication names a commit the branch really was at, exactly
\* the candidate on the base branch, whoever else published meanwhile.
THEOREM ReceiptsAreExact == Spec => []ReceiptIsExact
<1>1. WorkerInv => ReceiptIsExact
  BY DEF WorkerInv, PublicationInv
<1> QED
  BY <1>1, WorkerInvariant, PTL

\* A row says COMPLETED only of a run that was validated and published, that has
\* itself posted its three tags and its decision, and that has read back the tag
\* Reviewed and a decision on the candidate.
THEOREM CompletionsAreEarned == Spec => []CompletedMeansDone
<1>1. WorkerInv => CompletedMeansDone
  BY DEF WorkerInv
<1> QED
  BY <1>1, WorkerInvariant, PTL

\* The last status of a run is written once, although no UPDATE is guarded.
THEOREM LastStatusStays == Spec => TerminalRowStays
<1>1. WorkerInv /\ [Next]_vars => [row.status \in TerminalStatuses => row' = row]_vars
  BY StoppedKeepsRow DEF WorkerInv, LastStatus
<1> QED
  BY <1>1, WorkerInvariant, PTL DEF Spec, TerminalRowStays


\* Every relationship the context claims held while it was read, whatever was
\* edited meanwhile, but for those an answer may pass over; and what it calls
\* unowned had no owner then.
THEOREM CollectionsAreTrue == Spec => []CollectedWasTrue
<1>1. Init => CollectionInv
  <2> SUFFICES ASSUME Init PROVE CollectionInv
    OBVIOUS
  <2>1. PICK c \in Catalogues : ContextInit(c.listings, c.aspects)
    BY DEF Init
  <2>2. c.listings \in [DOMAIN WantedIn -> Seq(Entries)]
    BY WorkerAssumption DEF Entries
  <2> QED
    BY <2>1, <2>2, CollectionStarts
<1>2. CollectionInv /\ [Next]_vars => CollectionInv'
  BY CollectionStepPreserves
<1>3. CollectionInv => CollectedWasTrue
  BY CollectionIsTrue
<1> QED
  BY <1>1, <1>2, <1>3, PTL DEF Spec

\* In every reachable state the invariant of a validation holds.
THEOREM ValidationInvariant == Spec => []ValidationInv
<1>1. Init => ValidationInv
  BY ValidationStarts DEF Init
<1>2. ValidationInv /\ [Next]_vars => ValidationInv'
  BY ValidationStepPreserves
<1> QED
  BY <1>1, <1>2, PTL DEF Spec

\* Evidence covers the eight checks, and every PASS was earned by the bytes of
\* the candidate.
THEOREM EvidenceIsTrue == Spec => []EvidenceIsEarned
<1>1. ValidationInv => EvidenceIsEarned
  BY ValidationIsSound
<1> QED
  BY <1>1, ValidationInvariant, PTL

\* What a validation made is gone when it ends without saying otherwise, but for
\* what a killed child's request makes after the clean-up has looked.
THEOREM ValidationsLeaveNothing == Spec => []NothingLeftBehind
<1>1. ValidationInv => NothingLeftBehind
  BY ValidationIsSound
<1> QED
  BY <1>1, ValidationInvariant, PTL

=============================================================================
