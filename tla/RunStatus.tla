------------------------------ MODULE RunStatus ------------------------------
(***************************************************************************)
(* The statuses of a run and the transitions between them, as the domain   *)
(* package fixes them (packages/domain/src/run.ts).  A pure module: every  *)
(* other module of the run store takes its status tables from here.        *)
(***************************************************************************)

TerminalStatuses ==
  {"COMPLETED", "CANCELLED", "FAILED_CONTEXT", "FAILED_GENERATION",
   "FAILED_VALIDATION", "FAILED_GITHUB", "FAILED_WRITEBACK"}

ActiveStatuses ==
  {"CREATED", "CHANGE_PARSED", "BASELINE_ASSESSED", "CONTEXT_COLLECTING",
   "CONTEXT_COLLECTED", "RISK_DECIDED", "MIGRATION_PLANNED",
   "PATCH_GENERATED", "VALIDATING", "VALIDATED",
   "REVIEW_ARTIFACT_CREATED", "WRITEBACK_PENDING"}

RunStatuses == ActiveStatuses \cup TerminalStatuses

\* successTransitions: the one way forward from every active status.
SuccessEdges ==
  {<<"CREATED", "CHANGE_PARSED">>,
   <<"CHANGE_PARSED", "BASELINE_ASSESSED">>,
   <<"BASELINE_ASSESSED", "CONTEXT_COLLECTING">>,
   <<"CONTEXT_COLLECTING", "CONTEXT_COLLECTED">>,
   <<"CONTEXT_COLLECTED", "RISK_DECIDED">>,
   <<"RISK_DECIDED", "MIGRATION_PLANNED">>,
   <<"MIGRATION_PLANNED", "PATCH_GENERATED">>,
   <<"PATCH_GENERATED", "VALIDATING">>,
   <<"VALIDATING", "VALIDATED">>,
   <<"VALIDATED", "REVIEW_ARTIFACT_CREATED">>,
   <<"REVIEW_ARTIFACT_CREATED", "WRITEBACK_PENDING">>,
   <<"WRITEBACK_PENDING", "COMPLETED">>}

\* failureTransitions: the failure status of each stage that has one.
FailureEdges ==
  {<<"CONTEXT_COLLECTING", "FAILED_CONTEXT">>,
   <<"CONTEXT_COLLECTED", "FAILED_CONTEXT">>,
   <<"RISK_DECIDED", "FAILED_GENERATION">>,
   <<"MIGRATION_PLANNED", "FAILED_GENERATION">>,
   <<"PATCH_GENERATED", "FAILED_GENERATION">>,
   <<"VALIDATING", "FAILED_VALIDATION">>,
   <<"VALIDATED", "FAILED_GITHUB">>,
   <<"REVIEW_ARTIFACT_CREATED", "FAILED_GITHUB">>,
   <<"WRITEBACK_PENDING", "FAILED_WRITEBACK">>}

\* isAdjacentRunStatus: nothing leaves a terminal status, and every active
\* status can be cancelled.
IsAdjacent(from, to) ==
  /\ from \in ActiveStatuses
  /\ to = "CANCELLED" \/ <<from, to>> \in SuccessEdges \cup FailureEdges

RetryOperations == {"DATAHUB_READ", "GENERATION", "GITHUB_WRITE", "DATAHUB_WRITE"}

\* retryStates: the statuses in which an operation may be put off.
RetryStates ==
  [DATAHUB_READ   |-> {"CONTEXT_COLLECTING"},
   GENERATION     |-> {"RISK_DECIDED", "MIGRATION_PLANNED"},
   GITHUB_WRITE   |-> {"VALIDATED"},
   DATAHUB_WRITE  |-> {"WRITEBACK_PENDING"}]

==============================================================================
