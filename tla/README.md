# LineageGuard: verification models

TLA+ models of LineageGuard's control logic, the TLC configurations that
model-check them, and TLAPS proofs about them. Paths are relative to the
repository root (`src/` here); `PROJECT.json` maps every definition to the lines
it translates.

- [1. The system](#1-the-system)
- [2. Modules](#2-modules)
- [3. From the code to the models](#3-from-the-code-to-the-models)
- [4. What TLC checks](#4-what-tlc-checks)
- [5. Fairness](#5-fairness)
- [6. What is proved](#6-what-is-proved)
- [7. Disagreements between code and documents](#7-disagreements-between-code-and-documents)
- [8. What is not modelled, and the plan](#8-what-is-not-modelled-and-the-plan)

## 1. The system

LineageGuard takes a proposed warehouse schema change, reads its downstream
impact from DataHub, decides deterministically whether to block it, has a model
generate a migration, validates it, publishes it as a draft pull request and
writes the decision back to DataHub.

| Component | State it keeps | Operations | What is hard about it | Modules |
|---|---|---|---|---|
| Run statuses and event gate, `packages/domain/src/run.ts` | none: tables, and a fold over the events of a run | adjacency of statuses, retry states and delays, accept or refuse an event | the gate re-reads the whole stream: one bad event makes a run unreadable for ever | `RunStatus`, `RunEvents` |
| Run store, `packages/db/src/store.ts` with the triggers of `migrations.ts` | PostgreSQL: the row of a run (status, version, lease), events, leases, records, scheduled retries | `createRun`, `claimDue`, `renewLease`, `releaseLease`, the append family, `transition`, `scheduleRetry`, `snapshot` | transactions that read before they lock; leases that end in the middle; crashes; a clock | `RunStore`, `RunLifecycle` |
| Effect authority, `store.ts`, `migrations.ts`, `packages/validation/src/attestation.ts`, `server/effect-authorization.ts` | approvals, intents, reservations, attempts, receipts; tokens in a process's memory | approve, begin, reserve, cancel, consume, record success or ambiguity, reconcile | at most one call to the outside although replies get lost, processes die and calls are applied late; a freeze of the run meanwhile | `EffectAuthority`, `ExternalEffects` |
| GitHub review port, `packages/github/src/live-adapter.ts` | none of its own: GitHub's branch and pull requests | `createMigrationReview`: verify, reconcile, create, reconcile again | every request interleaves with other callers and other users; a POST that timed out may be applied later | `GitHubReview` |
| DataHub write-back port, `packages/datahub/src/writeback.ts` | DataHub's document and tag | `write`: verify, read, consume, save the document, read, tag, read | partial failure; late mutations; two runs of one candidate share a document | `DataHubWriteback` |
| Agent pipeline, `packages/agent/src/pipeline.ts`, and the worker's start, `apps/worker/src/index.ts` | the status of the run it drives | nine steps from the source pull request to the write-back | a source that moves between reads; failures in every step; a crash | `Worker` |
| Simple run store, `packages/db/src/simple-runs.ts` | one row per run, no lease, no version | INSERT and UPDATEs | an UPDATE that is done and not answered | `Worker` |
| Worker's publication, `apps/worker/src/orchestration.ts` and `github-effect-reconciler.ts` | GitHub's branch and pull request | `createReview`, `reconcileGitHubEffect` | nothing is journalled; others work on branch and base | `Publication` |
| Worker's write-back, `orchestration.ts` | two aspects of a dataset | `createWritebackPort().write` | aspects are replaced as a whole, without compare-and-set | `DecisionMemory` |
| DataHub read path, `packages/datahub/src/canonical-*.ts` | none | fourteen reads, four of them paged, and a normaliser | completeness and truth of what was read while the catalogue is edited | `ContextCollection` |
| Risk policy, impact schemas, `packages/domain/src/*` | none | pure decisions | does an incomplete context ever block less? | `ContextCollection` |
| Validation executor, `packages/validation/src/*` | a checkout, a sealed bundle, Docker networks and containers, a database | materialize, seal, set up, eight checks, clean up | commands killed at their deadline whose work is done later; clean-up with many steps that may each fail; files that others edit | `ValidationExecutor` |
| Scenario tooling, `tools/datahub` (Python) | an append-only receipt journal under a lock; warehouse and catalogue | prepare, seed, ingest, reset and their reconciliations | a crash between an effect and its receipt; requests and child processes that outlive their sender; edits by others | `ScenarioTool` |
| Codecs, model client, web pages, scripts | none that is shared | | | none |

How they interact: a worker claims a run from the store and gets a lease guard
(generation, version, expiry). Everything it writes goes through a fenced
transaction on that row. For an effect it begins an intent, asks the authority
for a reservation and hands it to an adapter (the GitHub port, the write-back).
The adapter consumes the reservation at the authority just before it makes its
first call to the outside, and the worker then records a receipt, or ambiguity
that has to be reconciled. Triggers in the database refuse changes of the run
while such a call is unresolved.

That is the protocol of the packages. The worker that is deployed today (`pnpm
worker --once`) does not use it: it drives the pipeline over a row of
`simple_runs`, with ports of its own (`orchestration.ts`) and no authority between
them and the outside. Both are modelled: the store, the authority and the two ports
as the packages promise them, and `Worker` as the program runs.

What makes each part correct:

- *store*: one believer per lease; row and event stream agree; no stale worker's
  write gets through; a finished run never changes; every waiting run is
  eventually claimed, and not before its backoff;
- *authority*: at most one call per effect; a call only for what was validated
  and approved; no run moves on, ends or changes hands over an unresolved call;
  a completed run has exactly one true receipt of each kind;
- *review port*: each POST once over all processes; receipts true and never
  contradictory, whatever others do to the repository; every call ends;
- *write-back port*: no mutation without the consumed effect, no tag without the
  decision, and no reported decision undone by a call begun later;
- *worker*: nothing outside is touched for a candidate that was not validated or a
  source that moved; a row that says COMPLETED, and a receipt, are true; every run ends;
- *collection*: what the context claims was true while it was read;
- *validation*: evidence is about the candidate's bytes; nothing is left behind
  without saying so;
- *scenario tool*: journal and catalogue agree; nothing is deleted or overwritten
  that the tool does not own.

The hazards these properties are for are listed, each at its line, under
`hazards` in `PROJECT.json`; those without a property say why.

## 2. Modules

```
RunStatus ── RunEvents ── RunStore ──────── MCRunStore         TLC
    │                        │  implements  RunLifecycle
    │                        └── RunStoreProofs                 TLAPS
    ├── EffectAuthority ── MCEffectAuthority, EffectAuthorityProofs
    │        │ implements
    │   ExternalEffects
    │        │ implemented by
    │   GitHubReview ── MCGitHubReview, GitHubReviewProofs
    │
    └── Worker ── MCWorker, WorkerProofs
          │ composes
        ContextCollection ── ContextCollectionProofs (WorkerProofs extends both)
        ValidationExecutor ── ValidationExecutorProofs
        Publication, DecisionMemory

DataHubWriteback ── MCDataHubWriteback, DataHubWritebackProofs
ScenarioTool ── MCScenarioTool, ScenarioToolProofs
```

| Module | Models |
|---|---|
| `RunStatus` | `runStatuses`, the adjacency table and the retry tables of `run.ts` |
| `RunEvents` | the event gate of `run.ts`: what folding the stream of a run computes, and which next event it accepts |
| `RunLifecycle` | abstract: what the store promises of owners, epochs and statuses |
| `RunStore` | the run store: several workers and runs, the database clock, transactions in their parts, crashes |
| `ExternalEffects` | abstract: what an effect protocol promises of calls to the outside |
| `EffectAuthority` | one run with effects, from validation to its end |
| `GitHubReview` | `LiveGitHubPort.createMigrationReview`, the authority's promise, GitHub and its other users |
| `DataHubWriteback` | `LiveDataHubWritebackPort.write`, the authority's promise, DataHub and its curators |
| `ContextCollection` | one collection over DataHub's read tools, what the normaliser claims and the risk policy decides |
| `ValidationExecutor` | one validation: checkout, sealed bundle, Docker and PostgreSQL, eight checks, clean-up |
| `Publication` | the worker's own publication and its reconciler |
| `DecisionMemory` | the worker's own write-back |
| `Worker` | one run of the worker: the nine steps and the row, composed of the four before |
| `ScenarioTool` | the commands of the scenario tooling over warehouse, catalogue and journal |
| `MC*` | values of the constants for TLC |
| `*Proofs` | lemmas and theorems |

`ExternalEffects` ties two of them together: `EffectAuthority` shows that the
store gives out the right to call at most once and accounts for the call;
`GitHubReview` takes exactly that consumption as given (`Consume` is enabled once)
and shows that the many requests the call consists of amount to one effect.

Modules that are proved about contain no RECURSIVE operator. The event gate is
kept as a record of what its fold computes, with one `After...` operator per kind
of event, rather than as a sequence of events folded again in every state.

## 3. From the code to the models

**RunStore.** `runs[r]` is the row of `lineageguard.runs`; `version` is the
fencing version every write bumps, `generation` the lease generation. `streams[r]`
is the fold of `run_events`. `view[w][r]` is the guard worker `w` holds in its
memory from its last reply. `txn[w]` is the transaction `w` has open. A method
whose reads and writes all happen under `SELECT ... FOR UPDATE` of the row is one
action (`RenewLease`, `ReleaseLease`, `AppendPositioned`, `CreateRun`,
`Snapshot`). Three are not. `claimDue` locks a row with `SKIP LOCKED` and works
on it (`SelectDue`, `ClaimDue`). `transition` and `scheduleRetry` read clock and
stream and authorize their event before they lock the row
(`AuthorizeTransition`/`Transition`, `AuthorizeRetry`/`ScheduleRetry`); anything
may happen between the halves, also from the same worker, whose heartbeat uses
another connection. A failed check is `Rejected`, a rollback. The evidence a
gated status needs is a nondeterministic yes or no here and the subject of
`EffectAuthority`. Records (bundles, candidates, decisions) are counted, since
only whether a status was set over an unseen one is at stake. A lease is
identified by worker and generation; the token is as unguessable as the code makes it.

**EffectAuthority.** One run and its intents; the lease is its generation and the
callers know the current guard (stale guards are `RunStore`'s subject).
`reservation[i]`, `attempt[i]`, `receipts` are the rows; `invoker[i]` is what a
process can still do: it HOLDS a reservation's token, or is ARMED because it was
told that it consumed one. The capability map of the authority process is
abstracted to those tokens. `Frozen` is the trigger
`enforce_active_effect_invocation`, `Proven` the trigger
`enforce_run_effect_completion`. The approvals of a kind are the expiry of the latest;
signatures and fingerprints are what they are compared with: the candidate, the
version, the lease. A reply that is lost is the alternative of an action in which
the process learns nothing. `remote` is what the outside has received and
applied; it may apply a call long after it was given up and reconciled.

**GitHubReview.** Each await of `createMigrationReview` is a step of `call[c]`:
VERIFY, HEAD and PULLS (`reconcile`), BASE (the reads of `create`), CONSUME, POST
and WAIT (a POST before it is sent and while it is awaited), EXISTING (the read in
`createPull`). `tries` counts the reconciliations of the handler. GET requests that
are retried fold into success (the answer is of one moment) or failure
(`ReadFails`). Git objects are immutable, so everything `reconcile` and
`verifyReconciledArtifacts` compare of a commit is one fact about its sha, and a sha
is named after the process that posted it; blobs, tree and commit are visible to
nobody until a branch points at them, and are one POST. `wire` holds POSTs that
GitHub has not processed: a POST can be answered, processed unheard (also after its
sender gave up or died), refused or lost. Others push to, create or delete the
branch, open, close and edit pull requests and push to the base branch. There is
one reservation per request (the canonical fingerprint includes its id,
`authorization.ts`), so callers that share a request share it. External, modelled
from how the code uses it: GitHub's refusal of an existing branch and of a second open
pull request, and that deleting a branch closes its pull request. A closed pull
request is not reopened.

**DataHubWriteback.** Each await of `write` is a step of `call[c]`: VERIFY, BEFORE
(the first `readExact`), CONSUME, READY, SAVING, RECHECK (the read after a save that
was not answered), AFTER, TAG, TAGGING, FINAL. `wire` holds consumptions and mutations
that were sent and not processed. One `get_entities` reads dataset, document and tag
together. What `parseOfficialWritebackEntities` fingerprints of the dataset is the part
CONTENT, what DataHub last observed the part VERSION, which the check before the
write compares and the later ones do not; `moved[r]` says which of them changed since
the request of run `r` was made. A document is named after the candidate and contains
the run, so two runs of one candidate compete for one name.

**ContextCollection.** `Reads` are the fourteen reads of
`collectCanonicalObservations` in their order; `ReadPage` is one page of
`collectBoundedPages` with its checks of the total, the page limit and the single
match. `Items` is what the normaliser claims of the facts it has seen,
`Complete` what `impactContextSchema` demands of the items, `Triggered` and
`Decision` the risk policy. Names, fingerprints and shapes of responses are the success or
failure of a read. `held` and `lacked` remember what was and was not true at some
moment of the collection. A fact is what an answer shows: that a term exists and that the
field has it (`TERM_ON_FIELD`) are two, and so are the two datasets of a field path and the
path. `silent` holds the facts an answer passed over without failing the collection: the terms
of the field, which the listing may leave out (`Bindings`), and the last edge to the
dashboard, when the tool answers with no path instead of an error (`ReadPath`). The
normaliser refuses an empty field path, and expects none to the model.

**ValidationExecutor.** A command is `cmd`, a child process, and what it asked the
Docker daemon for; killed at its deadline it leaves that request in `late`, which may be
done at any later moment. `objects` are the Docker objects with our label, `attempted`
the flags `networkCreated`, ... that say what the clean-up has to look for, `trouble` the
reasons a validation ends with an error. `checkout`, `sealed`, `bundle` are the
candidate's bytes in the checkout, in the sealed copy and in the container, which
other programs may edit. The phases are the stretches of `validator.ts` between awaits; the
nested `finally` blocks are the order of the clean-up phases.

**Publication, DecisionMemory, Worker.** `Publication` names a commit by its parent
and whether its change is exactly the candidate, because the worker's commits are
deterministic; a request is done or not, answered or not. `DecisionMemory`
has the two aspects as sets; `gmsRead` answers null for every HTTP error, which is the
empty set of `AnswersTo`. The decision's three tags are three, of which the read-back looks for
one; documents are other people's notes and decisions, on this candidate or on another, and the
write drops every earlier decision. `carried` remembers what the run's own POSTs put on the
dataset and what it read there last. Curators add or remove single entries, another worker
writes a whole aspect. `Worker` has one `stage` per step; `Reports` is the table
of the statuses the nine steps write and of what their catch blocks write; a read of
the source is two calls. The four steps with many calls of their own are the modules it
extends. Others act only while the step they can disturb is running: an earlier
change is another initial state of that step (the first step of the environment), and a
later one is not read. When such a step has ended, its variables, which nothing reads
any more, are put back (`ForgetsCollection`, ...).

**ScenarioTool.** `receipts` is the latest receipt of each operation, `order` says of each
operation of the preparation chain which latest receipts do not follow its own, `created`
are the entities with a creation receipt: what the journal's readers compute from it. Commands read the journal and plan
before they take the lock, as the code does, and enter it in `Enter...` actions; each
durable step (an aspect, a deletion, a receipt) is an action, and a process may die
or fail between any two. `effects` remembers, in the same form as `order`, which of the chain's
commands last ran before which; `maker` and `touched` remember who made an entity and what
others edited while a command held the lock or a request of one was on its way. Two versions of an order, the journal's and
the history's, are kept as relations and not as sequences because every check of the code
compares two positions (`receipt_append_index`).

A request that timed out, or whose sender was killed, is `late`: it may be carried out at any
later moment, once, more often, or never (`LateEffect`), whoever has the lock by then and
whatever the journal says of it; so may the child of a killed chain command, which goes on
without the lock. `stray` remembers the operations that were carried out after a receipt had
settled them. `lineage` is the aspect the seed merges with the dbt connector's own edge
(`native`) when the plan is made; somebody else's entry for an upstream of the plan (`other`) is
superseded, any other upstream (`foreign`) stops the seed before it starts, and the preflight
does not compare it.

## 4. What TLC checks

Every run is small, and its bounds are chosen so that the interesting case still
happens; each property has a mutant in `PROJECT.json`, a plausible bug in one
definition under which TLC finds the property violated *within the same bounds*.
Deadlock is not checked: clocks, versions, streams and calls are bounded, finished
runs stop, and so the models stop where the system would go on or rest.

| Run | Instance | Question |
|---|---|---|
| `Store` | 2 workers, 1 run, 9 events, 1 record, clock 2, growing delays | Who believes to hold the run, and can anyone's stale write get through, over a change of holder and two retries? `ExclusiveLease`, `ClaimRefusedOnlyWhenFull`, `StoreInv`, `NoUnseenRecord`, `TerminalImmutable`, `BackoffHonoured`, `ImplementsLifecycle` |
| `Scheduling` | 1 worker that crashes and polls, 2 runs, 4 events | `WaitingRunIsClaimed`: a waiting run is claimed unless a waiting run's stream is full |
| `HeadOfLine` | as `Scheduling` | `AvailableRunIsClaimed`, violated (section 7) |
| `Effects` | a review and a write-back, 2 leases of 2 ticks, 9 writes, 2 candidates, clock 3 | The whole protocol, with renewals, a takeover, lost replies, crashes and late calls; and `LapsedLeaseIsReclaimed` |
| `Stuck` | 5 writes, terms of 1 | `ExpiredLeaseIsReclaimed`, violated (section 7) |
| `ReviewRaces` | 2 processes, 3 calls, 2 reconciliations, 2 changes by others | Posts, receipts, the effect and the end of calls |
| `ReviewOutcome` | 2 processes, 2 calls, no changes by others | `CreatedByThisCall`, violated (section 7) |
| `Decisions` | 2 callers of one run, 1 of another with the same candidate, 3 calls, 1 edit | `DecisionInv`: authority before mutation, decision before tag, a reported decision stays |
| `Worker` | 1 run; pages of 2 entries, 2 pages; 27 catalogues; 1 edit of the catalogue, 1 of the checkout or container, 2 steps of others on GitHub and 2 on the dataset, 2 pushes | `CollectedWasTrue`, `NothingLeftBehind`, `EvidenceIsEarned`, `ReceiptIsExact`, `EffectsAreGated`, `CompletedMeansDone`, `TerminalRowStays`, `RunEnds` |
| `Writeback` | the same with nobody else about | `CompletedPreserves`, violated (section 7) |
| `Scenario` | 2 processes, 2 observations; 6 chain commands, and 2 disturbances (deaths, failures, at most 1 edit), 7 of both together | `ToolInv`, `SettledJournalIsTrue`, `NoConflictWithoutEdits`, `NoClobber`, `OnlyOwnDeleted`, `WrittenAhead`, `WritesOnCurrentChain`; whatever is late arrives at any moment |
| `ScenarioRetry` | 1 process, no edits, 1 death | `ReconciledSeedGoesOn`, violated (section 7) |

Why the bounds are enough:

- *two workers* (processes): every race here is between a holder and one usurper;
  the store serializes on a row, and a third worker repeats one of the two roles;
- *clock 2 or 3*: a lease can be taken, run out, be taken again and run out again while an
  older transaction is still open;
- *9 events*: creation, claim, transition or release, expiry and a second claim, the retry
  pair, its reclaim and a second retry. The schema's limit is 300; `MaxEvents` is that
  limit, and reaching it is a case of its own (4 events in `Scheduling`);
- *9 writes of the run's row*: claim, candidate, validation, both intents, the moves
  to `COMPLETED`, and a renewal or a takeover among them;
- *2 candidates*: one replaces the validated one;
- *2 changes by others and 3 calls* of the review port: enough to delete a branch and create
  another under a call's feet, or push and open a pull request, and to call once more after
  two calls failed;
- *3 calls of the write-back port*: a call, its repetition while the first one's requests
  are still under way, and the other run's;
- *pages of 2 and 2 pages*: what is wanted is on the first page, on the last one
  allowed, or beyond it, and entries move between pages; each of the aspects, the binding of the
  term and the edge to the dashboard among them, and every set of owners, is missing in some catalogue;
- *2 steps on GitHub*: a branch is made and its pull request opened or closed, or the base
  moves and the branch is made on it; *2 on the dataset*: remove and restore, one of the three tags, say, or another worker's
  two aspects;
- *6 chain commands, 2 disturbances, 7 of both* of the scenario: the five commands of the chain and
  then two disturbances (an edit and a death, or a death, whose request arrives late, and the
  death of the reconciliation that follows), or a rerun of one command, with a second
  observation if it is the query, and one disturbance.

`Decisions` has 3.4 million distinct states, `Store` 1.4 million (up to a permutation of
the workers), `Scenario` 1.3 million (up to a permutation of the processes), `Worker` 1.2
million; no run needs more than three minutes with two threads.

## 5. Fairness

Safety runs use the specifications without fairness. The liveness runs assume:

- `RunStore`: strong fairness of `SelectDue` and `ClaimDue` per worker: the worker's
  loop comes back to `claimDue` whenever it is free, and not each of infinitely many
  claims is cut short by a crash; weak fairness of an open transaction's end (the
  database finishes or rolls back) and of the clock. Nothing obliges a worker to move
  a run it holds: `WaitingRunIsClaimed` is about runs nobody holds.
- `EffectAuthority`: weak fairness of the clock, of claiming, of the outside
  (a call is applied or lost), of recording what came of a call, and of
  reconciling: the recovery the specification of reviewed effects asks of the worker.
  It makes `Stuck` the stronger: the run stays stuck *although* everyone keeps trying.
- `GitHubReview`: weak fairness of each call's own steps: every await of a call has a deadline
  (`invokeTransport`, `withAuthorityDeadline`). Nothing is assumed of GitHub.
- `Worker`: weak fairness of the run's own steps and the validation's deadline together: while
  it has not ended, a call it awaits settles or a timer fires. Every fetch, tool call and
  command of the worker has a timeout, or ends with its connection: `ghFetch`, `gmsRead` and the
database client set no deadline of their own, and a peer that kept a connection open and never
answered would keep the run.

## 6. What is proved

TLAPS checks the following for all values of the constants: any number of workers, runs,
intents and callers, any lease terms, retry delays, bounds. The assumptions are the
named ASSUMEs of the modules (`EventsAssumption`, `StoreAssumption`,
`EffectAssumption`, `ReviewAssumption`, `WritebackAssumption`, `ScenarioAssumption`, `PagesAssumption`,
`MaxEditsAssumption`, `InterferenceAssumption`, `CurationAssumption`, `WorkerAssumption`): sizes
and bounds are naturals, terms and page sizes are positive, the null values are no members of
the sets they stand beside, intents and callers are finite, and there is some
catalogue to begin with, whose listings are sequences of known entries.

**The run store** (`RunStoreProofs`, which begins with the lemmas about the event
gate): `StoreInvariant`, `StoreTyped`, `StreamsStayIntact`,
`RowsMatchStreams`, `LeasesAreExclusive`, `ClaimsAreRefusedOnlyWhenFull`,
`FinishedRunsAreImmutable`, `BackoffsAreHonoured`, `NoRecordUnseen`,
`StoreImplementsLifecycle`. The inductive invariant is `StoreInv`. That a stream stays
intact is not inductive: `transition` inserts an event it authorized against an
older stream. What saves it is that an authorized event either still has the next
sequence number, and then the stream is the one it was authorized against, or has a
lower one, and then the unique index rejects it (`TransactionsAuthorized`). To
know that a claim is accepted one needs that no event lies in the future and that
the row agrees with the stream (`StreamsPast`, `RowMatchesStream`); that a lease is
exclusive follows from `LeaseKnowledge` (what a worker was told is still true, or
has expired), since a claim needs the row to have lapsed; that no status is set over
an unseen record from `VersionCoversRecords` (equal versions mean equal records).

**The effect authority** (`EffectAuthorityProofs`): `EffectInvariant`,
`EffectTyped`, `EffectsAtMostOnce`, `UnresolvedCallsHoldRuns`,
`TerminalRunsAccounted`, `CompletedRunsHaveEffects`, `CallsStayUnderReservation`,
`CallsAuthorizedAsValidated`, `LostTokensAreFinal`, `TakenOverRunsNeverComplete`,
`AuthorityImplementsEffects`. `EffectInv` adds to the safety properties that tokens are
sound (a token in memory is of a usable reservation, and if its version is still
current the candidate is still the validated one), that outcomes are (a receipt is
of a successful attempt whose effect was applied), and that the run is. One call at most
holds because an ARMED process is unique to a consumed reservation and has not
called, and an intent is never reserved again once a reservation was consumed.

**The review port** (`GitHubReviewProofs`): `ReviewInvariant`, `ReviewTyped`,
`EveryPostSentOnce`, `ReceiptsNeverDisagree`, `ReceiptsHold`,
`ReviewImplementsEffect`. `ReviewInv` says that there is one process `w` such that
everything published or on its way is `w`'s (`WorkOf`, `CallsOf`), and that a call which may
still post has not sent what it is about to send (`StagesInOrder`). A receipt is
true when it is returned although the branch was read earlier, because the pull
request read last names the head of the branch at that moment.

**The write-back port** (`DataHubWritebackProofs`): `DecisionInvariant`,
`MutationsAreAuthorized`, `NoTagWithoutDecision`, `ReportedDecisionsStand`. The
inductive invariant is `DecisionInv` itself. A request that was sent may be processed
at any later time, so whatever holds of DataHub has to hold of what the requests on their
way would make of it (`UnderAuthority`, `TagsAfterDecision`). That a reported decision
stands rests on `RivalsKnown`: a call that begins after the report reads the tag, and
with it its own document or another's, and ends either way before it saves.

**The worker** (`WorkerProofs`): `WorkerInvariant`, `GateHolds`, `ReceiptsAreExact`,
`CompletionsAreEarned`, `LastStatusStays`, and of its parts `CollectionsAreTrue`,
`ValidationInvariant`, `EvidenceIsTrue`, `ValidationsLeaveNothing`. `EffectsAreGated` is not inductive: a head
and its files are read at two moments, twice. `WorkerInv` adds that heads only rise
(`HeadsRise`) and that the head of the attestation was confirmed and is not older than the
analysis (`Attesting`); equal pairs then leave no push in between. That a receipt is exact
needs what the branch was at earlier reads (`FoundExact`, `OwnMade`) and that GitHub's
history keeps it (`HistoryKept`). That a completion is earned (its own POSTs put all three tags and its decision there, and the
tag `REVIEWED` and a decision on the candidate were read back) follows the run from
stage to stage (`Passed`, `HasReceipt`, `ReadBack`), and that the last status
stays from the fact that none is written before the run stops (`LastStatus`).

*The collection* (lemmas in `ContextCollectionProofs`): the reads are not one moment, so
`CollectionInv` says nothing of the catalogue as it is. It says that the history is
up to date while the collection reads (`Remembered`), that whatever a read has established
has held (`SeenHeld`), and that an owner that was looked for was seen or was
lacking (`OwnersJudged`). An edit takes nothing from the history, so both survive it. Nothing
but the two facts an answer may leave out is ever passed over in silence, and what is
required was seen or passed over, so a claim has held or is one of the two. The
decision then follows from what the normaliser requires, by computation (`ItemsBlock`).

*The validation* (lemmas in `ValidationExecutorProofs`): `ValidationInv` says that what ran was
sealed and is the candidate's (`Sealed`), that a bundle edited under a dbt command
is still edited when it is hashed after it (`Earned`), and that a check is
passed over only by a throw, which leaves trouble (`Counted`). For the clean-up it says that
an object is marked as attempted before the daemon is asked for it (`Marked`), and
that the clean-up passes no marked object that it has neither seen gone nor reported (`SeenGone`).

**The scenario tool** (`ScenarioToolProofs`): `ToolInvariant`, `CreationReceiptsAreTrue`,
`SettledJournalTellsTheTruth`, `NoConflictIsFoundWithoutEdits`, `NothingIsClobbered`,
`OnlyOwnIsDeleted`, `WritesAreAnnounced`, `WritesRestOnCurrentChain`. None of the properties is inductive, since a
command may die anywhere and what it knew dies with it. `ToolInv` therefore has two halves.
One is about journal and catalogue alone and has to hold at whatever point a process
dies: everything unresolved is of one kind (`OneKindUnresolved`), the receipts of the chain
are in the order in which its commands really last ran (`ChainTrue`), an entity with a creation
receipt (`CreationReceiptsTrue`), or one that a reconciliation would adopt, is the tool's (`OwnersKnown`), and with
nobody else editing a receipt that is not pending tells the truth (`JournalTrue`), but for
`stray` operations. What is late belongs to no process any more, so what holds of a
write when it is sent has to hold for as long as it may arrive (`LateHeld`): it has a receipt,
and what it would replace or delete is still nobody's, the tool's own, or was edited
meanwhile. The other is what the process in the lock knows at each of its steps (`Knows`): that its
remaining operations are still PLANNED and nothing else is unresolved, that what it is about
to write is absent, exact, its own or was edited under the lock (`EntityHeld`), that
what it is about to delete carried its marker (`ResetHeld`), or that what it has left to
settle is all there is (`ReconciliationHeld`). Plans are made before the lock is had;
`PlanFits` says what of them is still true by then, and that the journal's refusal of
an unresolved operation is what makes it so. That a write rests on a current chain follows
because the chain's receipts can only move behind the others by being done again, and while
a seed holds the lock nobody does them again.

Only model-checked: the liveness properties (`WaitingRunIsClaimed`,
`LapsedLeaseIsReclaimed`, `CallsEnd`, `RunEnds`), which are beyond the prover, and the
refutations, which are counterexamples. Every invariant and action property of the other runs is
proved, some of them as conjuncts of an invariant.

## 7. Disagreements between code and documents

- `HeadOfLine`: `claimDue` picks the first due run and fails if the gate refuses
  the claim's events. A run whose stream has reached the schema's 300 events is picked
  first, and refused, for ever; no later run is claimed, although the run store's
  specification has a worker claim one available run.
- `Stuck`: the freeze trigger refuses every change of the lease while a call is
  unresolved, and a reconciliation needs a live lease. Once the lease has run out
  with a call marked for reconciliation, neither can happen first, although "an
  expired lease can be reclaimed".
- `ReviewOutcome`: an error that precedes every POST (a consumption that was refused, say) also
  leads to the reconciliation whose finding is reported as `CREATED`, although
  `CREATED` is defined as "this call authored the commit, branch, and/or PR".
- `ScenarioRetry`: a seed that dies between an aspect of a new entity and its receipts is
  reconciled without a creation receipt, and then every later seed is refused its own
  entity, although the walkthrough says that a successful reconciliation unblocks the
  scenario.
- `Writeback`: the worker takes a failed read of an aspect for an empty one and replaces the
  whole aspect, although its comments say that existing entries are preserved.

Smaller ones, met while reading and not the subject of a run. The models contain the behaviour of
the code in the first four, and the properties say no more than it keeps:

- `tools/datahub/.../seed.py:703-708` skips lineage in the preflight, and
  `reconcile_lineage_aspect` (`:322-349`) supersedes an entry that somebody else wrote, before the
  lock too, for an upstream of the plan, although `walkthrough/README.md:151-154` has the seed
  stop with a conflict at lineage that differs from the canonical set. Only a foreign upstream
  does that, and it is what `NoClobber` protects.
- `packages/datahub/src/canonical-normalizer.ts:454-457` skips the check of the glossary binding
  when the listing leaves the terms out, and says that the binding is validated through the
  observation of the glossary's details; that observation shows that the term exists, not that
  the field has it (`CollectedWasTrue` excepts `TERM_ON_FIELD` in that case).
- `canonical-normalizer.ts:420-422` takes an answer without paths for a relationship that is
  established in another way; that is so of the model, but for the dashboard the same branch lets
  the context claim a path nothing has shown (`CollectedWasTrue` excepts `DASHBOARD_EDGE`).
- `apps/worker/src/orchestration.ts:768` calls the read-back of the decision exact; it looks for one
  tag of three and for any document on the candidate, so a completed run may have lost the other
  tags, or read another run's document (`CompletedMeansDone` claims no more). `:743` drops every
  earlier decision, on other candidates too, under a comment that promises to preserve
  existing elements.
- `packages/datahub/src/writeback.ts:291-292` says that identical runs converge on one
  remembered decision. The document's name does; its content holds the run, so
  `proofState` refuses the second run of a candidate as a conflict, and a dataset that
  another candidate's decision has tagged is refused as the "impossible tag-only" state:
  through this port a dataset takes one decision.
- `apps/worker/src/orchestration.ts:9` names `LiveDataHubWritebackPort` as the write-back; the
  worker's port is its own.
- The pipeline's statuses skip VALIDATING and do not follow the adjacency table of `run.ts`;
  `simple_runs` does not enforce it. FAILED_GITHUB may be written although the pull request
  exists (its answer was lost, or the status could not be reported).

## 8. What is not modelled, and the plan

Abstracted or left out of a model, with the reason:

- *A crash inside a collection or a validation* is not a step of `Worker`: the row says what
  it says before, and Docker objects stay that no later run removes (each run looks for its own
  label).
- *A branch pushed away and back to an earlier commit*, and edits of checkout or container that
  are undone, between two reads: no comparison by value can see them, and the code has none but those.
- *Write-back of a run by the worker twice*: a run is never resumed, so the branch of
  `createWritebackPort` that returns early is not reachable within one run.
- *A context that leads to ALLOW or REVIEW*: a complete one always blocks (`CollectedWasTrue`), so
  the early end of step 4 is not reachable with live data.
- *Late requests*: of the review port, the write-back port, the authority, the validation and the
  scenario tool they may be processed at any later time. Not so in `Worker`: an UPDATE of the row that is
  carried out after the next one, or a POST of `orchestration.ts` that is carried out after its answer
  was given up, is not modelled; it is done or not when its step ends.
- *What a late request of the scenario tool finds*: the claims of `WritesOnCurrentChain` and `WrittenAhead` are
  about sending. A write that arrives late may land on a chain that is no longer
  current, and makes the journal wrong about its operation until the next receipt of it: the
  exceptions for `stray` and `late` say so.
- *Lineage*: one dataset's aspect stands for all; that dataset is never deleted by others, and their
  edits keep the connector's own edge (without it the plan does not fit the preflight's pin, and the seed
  refuses). The connector patches lineage rather than replacing it, as far as the recipe shows.
- *The contents of a check*: that a SQL check passed means that the sealed bytes are the candidate's and
  that the command succeeded; what its queries ask of the fixture is data.
- *Two intents of one kind*: the run `Effects` has one of each; the proofs are for any number.
- *The authority's map of 1,024 handles* (`effect-authorization.ts:51`), which abandoned handles exhaust for
  the life of a process: a small bound would only restate its guard.
- *Scenario tooling*: dry runs, verification and the one-time bootstrap of the target; a reset that
  finds the live query changed (`CREATION_PROPOSAL_MISMATCH`); torn journal lines, with which
  every command refuses.
- *The evidence receipt of a validation and its transport* (`attestation.ts`, the HTTP server):
  what it binds is in `EffectAuthority`; the worker does not use it.
- *Tool schemas, response parsing, zod schemas, codecs, SQL and HTTP formatting*: no state and no order;
  they are the success or failure of a step.
- *The model client*, whose answer is a step that succeeds or fails; *the web pages* (read-only);
  *repository scripts*; the replay adapters, which answer from fixtures.

Hazards no property covers (`PROJECT.json` says why of each): a receipt that has become
unrecordable, a review left half made by a crash.

What would be next: an abstract specification that `Publication` and `DecisionMemory` implement
together with the row, an abstract journal that `ScenarioTool` implements, and several
workers of `Worker` on one candidate in place of its environment's steps.
