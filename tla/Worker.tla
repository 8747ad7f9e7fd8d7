-------------------------------- MODULE Worker --------------------------------
(***************************************************************************)
(* One run of the worker as it is started today (runWorker with --once):   *)
(* it reads the source pull request, inserts a row in simple_runs, and     *)
(* takes the run through the nine steps of createAgentPipeline: context,   *)
(* risk, plan, candidate, validation, publication and write-back, with one *)
(* UPDATE of the row after each. There is no lease, no transaction and no  *)
(* retry; the row is all that is left of a run.                            *)
(*                                                                         *)
(* The collection of context, the validation, the publication and the      *)
(* write-back are the modules extended here. What others do to the things  *)
(* a step works on is interleaved while that step runs: before it nothing  *)
(* reads them and after it nothing does, so a change made then is one made *)
(* at its beginning, or is not seen.                                       *)
(***************************************************************************)
EXTENDS ContextCollection, ValidationExecutor, Publication, DecisionMemory, RunStatus

CONSTANTS
  Catalogues,  \* the states of the catalogue the run may find
  MaxPushes    \* commits pushed to the source pull request during the run

ASSUME WorkerAssumption ==
  /\ MaxPushes \in Nat
  /\ Catalogues # {}
  /\ \A c \in Catalogues : c.listings \in [DOMAIN WantedIn -> Seq(Wanted \cup {"OTHER"})]

VARIABLES
  stage,      \* where the run is
  end,        \* NONE, RETURNED, THROWN or CRASHED
  failing,    \* the status a catch block is about to write
  row,        \* simple_runs: status, and the publication's receipt
  source,     \* GitHub: the source pull request: its head, and is it open?
  half,       \* what the first of the two reads of the source gave
  envelope,   \* the identity of the source the run analyses
  validated,  \* result.validationPassed
  confirmed   \* history: heads the source had while it was attested before publication

runner == <<stage, end, failing, row, source, half, envelope, validated, confirmed>>
parts == <<contextVars, validationVars, publicationVars, memoryVars>>
vars == <<runner, parts>>

NoRow == [status |-> "NONE", receipt |-> NoReceipt]

\* The head a pull request reports, and the head whose files were listed.
Envelope(head, files) == [head |-> head, files |-> files]

Init ==
  /\ stage = "READ_PULL" /\ end = "NONE" /\ failing = "NONE" /\ row = NoRow
  /\ source = [head |-> 0, open |-> TRUE]
  /\ half = source /\ envelope = Envelope(0, 0) /\ validated = FALSE /\ confirmed = {}
  /\ \E c \in Catalogues : ContextInit(c.listings, c.aspects)
  /\ ValidationInit /\ PublicationInit /\ MemoryInit

-----------------------------------------------------------------------------

Stops(how) == stage' = "STOPPED" /\ end' = how /\ UNCHANGED failing

\* To the catch block of the step, which writes status; or out of execute.
Catches(status) ==
  IF status = "NONE" THEN Stops("THROWN")
  ELSE stage' = "CATCH" /\ failing' = status /\ UNCHANGED end

Proceeds(to) == stage' = to /\ UNCHANGED <<end, failing>>

\* One read of the source is two calls, and the source may move in between.
\* The three reads, what follows each, and the status its failure is given.
SourceRead(first, second, then, caught) ==
  [first |-> first, second |-> second, then |-> then, caught |-> caught]

SourceReads ==
  {SourceRead("READ_PULL", "READ_FILES", "CREATE", "NONE"),
   SourceRead("VALIDATION_READ_PULL", "VALIDATION_READ_FILES", "VALIDATE", "FAILED_VALIDATION"),
   SourceRead("PUBLICATION_READ_PULL", "PUBLICATION_READ_FILES", "PUBLISH", "FAILED_GITHUB")}

ReadSourcePull ==
  /\ \E r \in SourceReads :
       /\ stage = r.first
       /\ half' = source
       /\ Proceeds(r.second)
       /\ confirmed' = IF r.then = "PUBLISH" THEN {source.head} ELSE confirmed
  /\ UNCHANGED <<row, source, envelope, validated, parts>>

\* Variant: only the files are compared.
SamePatch(observed) == observed.files = envelope.files

\* buildSourceEnvelope refuses a pull request that is not open; then
\* assertNoSourceDrift compares with what the run analyses.
NoDrift(observed) == observed = envelope

ReadSourceFiles ==
  /\ \E r \in SourceReads :
       /\ stage = r.second
       /\ LET observed == Envelope(half.head, source.head)
          IN IF half.open /\ (r.then # "CREATE" => NoDrift(observed))
               THEN /\ Proceeds(r.then)
                    /\ envelope' = IF r.then = "CREATE" THEN observed ELSE envelope
               ELSE Catches(r.caught) /\ UNCHANGED envelope
  /\ UNCHANGED <<row, source, half, validated, confirmed, parts>>

SourceReadFails ==
  /\ \E r \in SourceReads :
       /\ stage \in {r.first, r.second}
       /\ Catches(r.caught)
  /\ UNCHANGED <<row, source, half, envelope, validated, confirmed, parts>>

\* INSERT: done or not, answered or not.
CreateRow ==
  /\ stage = "CREATE"
  /\ \E done, answered \in BOOLEAN :
       /\ row' = IF done THEN [row EXCEPT !.status = "CREATED"] ELSE row
       /\ IF done /\ answered THEN Proceeds("PARSE") ELSE Catches("NONE")
  /\ UNCHANGED <<source, half, envelope, validated, confirmed, parts>>

\* Variant: a COMPLETED that is not answered is caught as a failed write-back.
ReportCaught(status, then, caught) ==
  [status |-> status, then |-> then,
   caught |-> IF status = "COMPLETED" THEN "FAILED_WRITEBACK" ELSE caught]

\* What the steps report, where each goes on, and the status its catch block
\* writes. A step's own work, the language model's answer included, fails
\* like its report that is not done. A context is never allowed to pass
\* without a review (CollectedWasTrue), so step 4 never completes the run.
Report(status, then, caught) == [status |-> status, then |-> then, caught |-> caught]

Reports ==
  [PARSE     |-> Report("CHANGE_PARSED", "BASELINE", "NONE"),
   BASELINE  |-> Report("BASELINE_ASSESSED", "CONTEXT", "NONE"),
   CONTEXT   |-> Report("CONTEXT_COLLECTING", "COLLECT", "NONE"),
   COLLECTED |-> Report("CONTEXT_COLLECTED", "DECIDE", "FAILED_CONTEXT"),
   DECIDE    |-> Report("RISK_DECIDED", "PLAN", "FAILED_CONTEXT"),
   PLAN      |-> Report("MIGRATION_PLANNED", "BUILD", "FAILED_GENERATION"),
   BUILD     |-> Report("PATCH_GENERATED", "VALIDATION_READ_PULL", "FAILED_GENERATION"),
   VALIDATED |-> Report("VALIDATED", "PUBLICATION_READ_PULL", "FAILED_VALIDATION"),
   PUBLISHED |-> Report("REVIEW_ARTIFACT_CREATED", "WRITE_BACK", "FAILED_GITHUB"),
   WRITTEN   |-> Report("WRITEBACK_PENDING", "FINISH", "FAILED_WRITEBACK"),
   FINISH    |-> Report("COMPLETED", "RETURN", "NONE")]

ReportStep ==
  /\ stage \in DOMAIN Reports
  /\ LET r == Reports[stage] IN \E done, answered \in BOOLEAN :
       /\ row' = IF done THEN [status |-> r.status, receipt |-> receipt] ELSE row
       /\ IF done /\ answered
            THEN IF r.then = "RETURN" THEN Stops("RETURNED") ELSE Proceeds(r.then)
            ELSE Catches(r.caught)
  /\ UNCHANGED <<source, half, envelope, validated, confirmed, parts>>

\* A catch block writes its status too; nothing catches what it throws.
ReportFailure ==
  /\ stage = "CATCH"
  /\ \E done, answered \in BOOLEAN :
       /\ row' = IF done THEN [row EXCEPT !.status = failing] ELSE row
       /\ Stops(IF done /\ answered THEN "RETURNED" ELSE "THROWN")
  /\ UNCHANGED <<source, half, envelope, validated, confirmed, parts>>

-----------------------------------------------------------------------------
(* The four steps that are modules of their own. When one has ended, its    *)
(* result is in the runner's variables or in receipt, and the run reads     *)
(* nothing else of it: the rest is put back, so that runs that only differ  *)
(* there are one.                                                           *)

ForgetsCollection ==
  /\ LET c == CHOOSE c \in Catalogues : TRUE IN listings' = c.listings /\ aspects' = c.aspects
  /\ changes' = 0 /\ held' = {} /\ lacked' = {}
  /\ reading' = "IDLE" /\ place' = 1 /\ offset' = 0 /\ total' = 0 /\ matched' = NoMatches
  /\ seen' = {} /\ silent' = {} /\ evidence' = {} /\ collected' = FALSE

ForgetsValidation ==
  /\ phase' = "START" /\ UNCHANGED <<next, cmd, clock, verdict>>
  /\ late' = {} /\ sandbox' = "NONE" /\ bundle' = "NONE"
  /\ checkout' = [k \in Kinds |-> "NONE"] /\ sealed' = [k \in Kinds |-> "NONE"]
  /\ objects' = {} /\ attempted' = {} /\ looked' = {} /\ trouble' = {} /\ edits' = 0
  /\ database' = "NONE" /\ clients' = [c \in DOMAIN clients |-> "NONE"]
  /\ results' = NoResults

ForgetsPublication ==
  /\ base' = 1 /\ branch' = Missing /\ pull' = Missing /\ interference' = 0
  /\ heads' = {} /\ reviewable' = {}
  /\ publishing' = "BASE" /\ seenBase' = 0 /\ found' = Missing /\ UNCHANGED receipt

runnerElse == <<row, source, half, envelope, validated, confirmed>>

Collecting ==
  /\ stage = "COLLECT" /\ reading # "DONE"
  /\ Collects
  /\ UNCHANGED <<runner, validationVars, publicationVars, memoryVars>>

CollectionEnds ==
  /\ stage = "COLLECT" /\ reading = "DONE"
  /\ IF collected /\ ExactlyFour(evidence) THEN Proceeds("COLLECTED")
                                           ELSE Catches("FAILED_CONTEXT")
  /\ ForgetsCollection
  /\ UNCHANGED <<runnerElse, validationVars, publicationVars, memoryVars>>

Validating ==
  /\ stage = "VALIDATE" /\ phase # "DONE"
  /\ Executor
  /\ UNCHANGED <<runner, contextVars, publicationVars, memoryVars>>

TimePasses ==
  /\ stage = "VALIDATE"
  /\ Deadline
  /\ UNCHANGED <<runner, contextVars, publicationVars, memoryVars>>

ValidationEnds ==
  /\ stage = "VALIDATE" /\ phase = "DONE"
  /\ validated' = AllPass
  /\ IF AllPass THEN Proceeds("VALIDATED") ELSE Catches("FAILED_VALIDATION")
  /\ ForgetsValidation
  /\ UNCHANGED <<row, source, half, envelope, confirmed, contextVars, publicationVars, memoryVars>>

Publishing ==
  /\ stage = "PUBLISH"
  /\ Publishes
  /\ UNCHANGED <<runner, contextVars, validationVars, memoryVars>>

PublicationEnds ==
  /\ stage = "PUBLISH"
  /\ \/ publishing = "PUBLISHED" /\ Proceeds("PUBLISHED")
     \/ publishing = "FAILED" /\ Catches("FAILED_GITHUB")
  /\ ForgetsPublication
  /\ UNCHANGED <<runnerElse, contextVars, validationVars, memoryVars>>

WritingBack ==
  /\ stage = "WRITE_BACK"
  /\ Writes
  /\ UNCHANGED <<runner, contextVars, validationVars, publicationVars>>

WriteBackEnds ==
  /\ stage = "WRITE_BACK"
  /\ \/ writing = "WRITTEN" /\ Proceeds("WRITTEN")
     \/ writing = "FAILED" /\ Catches("FAILED_WRITEBACK")
  /\ UNCHANGED <<runnerElse, parts>>

-----------------------------------------------------------------------------
(* Others, and the crash of the worker. A crash inside a collection or a   *)
(* validation leaves the row as a crash before it does.                    *)

\* A push before the first read is another beginning of the same run.
Push ==
  /\ stage # "READ_PULL"
  /\ \E r \in SourceReads : stage \in {r.first, r.second}
  /\ source.head < MaxPushes
  /\ source' = [source EXCEPT !.head = @ + 1]
  /\ confirmed' = IF stage = "PUBLICATION_READ_FILES"
                    THEN confirmed \cup {source'.head} ELSE confirmed
  /\ UNCHANGED <<stage, end, failing, row, half, envelope, validated, parts>>

CloseSource ==
  /\ \E r \in SourceReads : stage = r.first
  /\ source.open
  /\ source' = [source EXCEPT !.open = FALSE]
  /\ UNCHANGED <<stage, end, failing, row, half, envelope, validated, confirmed, parts>>

CatalogueEdited ==
  /\ stage = "COLLECT"
  /\ Editors
  /\ UNCHANGED <<runner, validationVars, publicationVars, memoryVars>>

ValidationDisturbed ==
  /\ stage = "VALIDATE"
  /\ Others
  /\ UNCHANGED <<runner, contextVars, publicationVars, memoryVars>>

PublicationDisturbed ==
  /\ stage = "PUBLISH"
  /\ OthersPublish \/ BaseMoves
  /\ UNCHANGED <<runner, contextVars, validationVars, memoryVars>>

DatasetCurated ==
  /\ stage = "WRITE_BACK"
  /\ Curate
  /\ UNCHANGED <<runner, contextVars, validationVars, publicationVars>>

Crash ==
  /\ stage \notin {"STOPPED", "COLLECT", "VALIDATE"}
  /\ Stops("CRASHED")
  /\ UNCHANGED <<runnerElse, parts>>

-----------------------------------------------------------------------------

Run == Validating \/ Collecting \/ Publishing \/ WritingBack \/ ReportStep \/ ReportFailure
       \/ CollectionEnds \/ ValidationEnds \/ PublicationEnds \/ WriteBackEnds
       \/ ReadSourcePull \/ ReadSourceFiles \/ SourceReadFails \/ CreateRow

Elsewhere == Push \/ CloseSource \/ CatalogueEdited \/ ValidationDisturbed
             \/ PublicationDisturbed \/ DatasetCurated

Next == Run \/ TimePasses \/ Elsewhere \/ Crash

\* While the run has not ended something of its own happens: a call it awaits
\* settles, or a timer fires.
Spec == Init /\ [][Next]_vars /\ WF_vars(Run \/ TimePasses)

-----------------------------------------------------------------------------

\* The worker touches the published branch or the dataset only for a candidate
\* whose validation passed, made from the files of the head the pull request
\* reports, and only when that head was the source's once more after the
\* validation (step 7 and 8 of execute, assertNoSourceDrift at
\* BEFORE_PUBLICATION).
EffectsAreGated ==
  stage \in {"PUBLISH", "PUBLISHED", "WRITE_BACK", "WRITTEN", "FINISH"} =>
    /\ validated
    /\ envelope.head = envelope.files
    /\ envelope.head \in confirmed

\* A row says COMPLETED only when its publication has a receipt, the run has
\* itself put the three tags and its decision on the dataset, and the tag
\* Reviewed and a decision on the candidate were there when each was read for
\* the last time (step 9, the read-back of createWritebackPort). That a curator
\* had put them there is not enough.
CompletedMeansDone ==
  row.status = "COMPLETED" =>
    /\ validated
    /\ row.receipt # NoReceipt
    /\ DecisionTags \cup {"OURS"} \subseteq carried.posted
    /\ "REVIEWED" \in carried.read
    /\ OnCandidate \cap carried.read # {}

\* A row that says how the run ended never says anything else, although an
\* UPDATE may be done and its answer lost (simple_runs has no guard on status).
TerminalRowStays == [][row.status \in TerminalStatuses => row' = row]_vars

\* Every run ends: returned, thrown, or crashed.
RunEnds == <>(end # "NONE")

\* "Write tags (preserving existing)", "Write decision document (preserving
\* existing elements)", "Verify existing metadata preserved"
\* (orchestration.ts:714,736,805): a completed run, with nobody else at work on
\* the dataset, has kept what the dataset carried.
CompletedPreserves ==
  row.status = "COMPLETED" /\ curation = 0 => "CURATED" \in tags /\ "NOTE" \in documents

=============================================================================
