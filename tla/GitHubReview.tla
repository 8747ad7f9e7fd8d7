---------------------------- MODULE GitHubReview ----------------------------
(***************************************************************************)
(* LiveGitHubPort.createMigrationReview (packages/github/src/              *)
(* live-adapter.ts): the one review an authorized effect may publish, made *)
(* of Git objects, a branch with a deterministic name and one draft pull   *)
(* request.                                                                *)
(*                                                                         *)
(* Several processes may hold the same authorized request: the worker that *)
(* reserved it, the one that took over, a reconciliation.  Each request to *)
(* GitHub is a step of its own.  A POST can arrive after its sender gave   *)
(* up, or never; a process can crash between any two steps; and other      *)
(* users of the repository push, delete, edit and open at any time.        *)
(*                                                                         *)
(* Git objects are immutable: what a reader checks of a commit (message,   *)
(* the only parent, the exact tree and bytes) is one fact about its sha.   *)
(* A sha is named after the process that posted the commit.                *)
(***************************************************************************)
EXTENDS Naturals, Sequences, FiniteSets

CONSTANTS
  Callers,      \* processes that call the port with the authorized request
  MaxAttempts,  \* options.maxAttempts: reconciliations after a failed create
  MaxCalls,     \* bound: calls of the port
  MaxMeddling   \* bound: changes made by other users of the repository

ASSUME ReviewAssumption ==
  /\ IsFiniteSet(Callers)
  /\ MaxAttempts \in Nat \ {0}
  /\ {MaxCalls, MaxMeddling} \subseteq Nat
  /\ {"NONE", "OTHER"} \cap Callers = {}

VARIABLES
  authority,  \* the reservation: whether it was consumed, and what may be late
  call,       \* per process, the call it is in
  calls,      \* the calls begun so far
  returned,   \* the receipts that calls returned
  sent,       \* how often each POST was sent
  wire,       \* the POSTs GitHub has not processed
  tip,        \* the commit the deterministic branch points at
  pulls,      \* the pull requests of that branch
  base,       \* where the base branch is
  meddled     \* the changes made by others so far

remote == <<tip, pulls, base, meddled>>

vars == <<authority, call, calls, returned, sent, wire, remote>>

\* Blobs, tree and commit are invisible to everyone until a branch points at
\* them: the three requests that create them are one POST here.
Posts == {"OBJECTS", "REF", "PULL"}

Shas == Callers \cup {"NONE", "OTHER"}

Ended == {"IDLE", "RETURNED", "FAILED"}

Steps ==
  Ended \cup {"VERIFY", "HEAD", "PULLS", "BASE", "CONSUME", "POST", "WAIT",
              "EXISTING"}

\* tries: the reconciliation after the failure, 0 in the one before.
Call ==
  [step: Steps, consumed: BOOLEAN, tries: 0 .. MaxAttempts, head: Shas,
   post: Posts]

NoCall == [step |-> "IDLE", consumed |-> FALSE, tries |-> 0,
           head |-> "NONE", post |-> "OBJECTS"]

Pull ==
  [by: Callers \cup {"OTHER"}, open: BOOLEAN, exact: BOOLEAN,
   base: {"VALIDATED", "MOVED"}]

Receipt ==
  [by: Callers, outcome: {"CREATED", "SKIPPED_EXACT"}, pull: Nat, head: Shas]

Init ==
  /\ authority = [consumed |-> FALSE, late |-> FALSE, lapsed |-> FALSE]
  /\ call = [c \in Callers |-> NoCall]
  /\ calls = 0
  /\ returned = {}
  /\ sent = [p \in Posts |-> 0]
  /\ wire = {}
  /\ tip = "NONE"
  /\ pulls = << >>
  /\ base = "VALIDATED"
  /\ meddled = 0

-----------------------------------------------------------------------------
(* Steps of a call.                                                        *)

At(c, step) == call[c].step = step

Goes(c, step) == call' = [call EXCEPT ![c].step = step]

Fails(c) == Goes(c, "FAILED")

Sends(c, post) == call' = [call EXCEPT ![c].step = "POST", ![c].post = post]

\* The handler of createMigrationReview for an error that is not final.
Reconciles(c) ==
  call' = [call EXCEPT ![c].step = "HEAD", ![c].tries = 1]

Returns(c, outcome, k) ==
  /\ Goes(c, "RETURNED")
  /\ returned' = returned \cup
       {[by |-> c, outcome |-> outcome, pull |-> k, head |-> call[c].head]}

\* Variant: the head of the pull request is not compared.
FitsAnyHead(c, pull) ==
  /\ pull.open /\ pull.exact
  /\ pull.base = "VALIDATED"

\* receipt: the pull request is the authorized draft, of the commit this call
\* knows.  The head of an open pull request is where its branch is.
Fits(c, pull) ==
  /\ pull.open /\ pull.exact
  /\ pull.base = "VALIDATED"
  /\ tip = call[c].head

-----------------------------------------------------------------------------
(* Beginning: resolveAuthorization, verifyRepositoryAndBase.               *)

\* The authority can be unreachable; it refuses once the time is up.
Begin(c) ==
  /\ call[c].step \in Ended
  /\ calls < MaxCalls
  /\ calls' = calls + 1
  /\ \E step \in IF authority.lapsed THEN {"FAILED"} ELSE {"VERIFY", "FAILED"} :
       call' = [call EXCEPT ![c] =
                  [NoCall EXCEPT !.step = step, !.consumed = authority.consumed]]
  /\ UNCHANGED <<authority, returned, sent, wire, remote>>

Verify(c) ==
  /\ At(c, "VERIFY")
  /\ IF base = "VALIDATED" THEN Goes(c, "HEAD") ELSE Fails(c)
  /\ UNCHANGED <<authority, calls, returned, sent, wire, remote>>

-----------------------------------------------------------------------------
(* reconcile: first the branch and its commit, then the pull requests.     *)

\* Variant: the reconciliations are not counted.
NotFoundForever(c) ==
  \/ /\ call[c].tries = 0
     /\ IF call[c].consumed THEN Fails(c) ELSE Goes(c, "BASE")
  \/ /\ call[c].tries > 0
     /\ Goes(c, "HEAD")

\* reconcile found nothing, and what createMigrationReview makes of that.
NotFound(c) ==
  \/ /\ call[c].tries = 0
     /\ IF call[c].consumed THEN Fails(c) ELSE Goes(c, "BASE")
  \/ /\ call[c].tries \in 1 .. MaxAttempts - 1
     /\ call' = [call EXCEPT ![c].step = "HEAD", ![c].tries = @ + 1]
  \/ /\ call[c].tries = MaxAttempts
     /\ Fails(c)

\* Variant: whose commit it is is not checked.
ReadHeadUnchecked(c) ==
  /\ At(c, "HEAD")
  /\ IF tip = "NONE" THEN NotFound(c)
     ELSE call' = [call EXCEPT ![c].step = "PULLS", ![c].head = tip]
  /\ UNCHANGED <<authority, calls, returned, sent, wire, remote>>

ReadHead(c) ==
  /\ At(c, "HEAD")
  /\ \/ tip = "NONE" /\ NotFound(c)
     \/ tip = "OTHER" /\ Fails(c)
     \/ /\ tip \in Callers
        /\ call' = [call EXCEPT ![c].step = "PULLS", ![c].head = tip]
  /\ UNCHANGED <<authority, calls, returned, sent, wire, remote>>

\* A branch without a pull request may be unfinished work of this very call;
\* in the first reconciliation it cannot.
ReadPulls(c) ==
  /\ At(c, "PULLS")
  /\ CASE Len(pulls) = 0 ->
            /\ IF call[c].tries = 0 THEN Fails(c) ELSE NotFound(c)
            /\ UNCHANGED returned
       [] Len(pulls) = 1 /\ Fits(c, pulls[1]) ->
            Returns(c, IF call[c].tries = 0 THEN "SKIPPED_EXACT" ELSE "CREATED", 1)
       [] OTHER -> Fails(c) /\ UNCHANGED returned
  /\ UNCHANGED <<authority, calls, sent, wire, remote>>

\* Every attempt of a GET failed, or its answer was refused.  The reads of
\* create fail into the handler unless the error is final.
ReadFails(c) ==
  /\ call[c].step \in {"VERIFY", "HEAD", "PULLS", "BASE", "EXISTING"}
  /\ Fails(c) \/ (call[c].step \in {"BASE", "EXISTING"} /\ Reconciles(c))
  /\ UNCHANGED <<authority, calls, returned, sent, wire, remote>>

-----------------------------------------------------------------------------
(* create: the base is read, the reservation consumed, the POSTs sent.     *)

ReadBase(c) ==
  /\ At(c, "BASE")
  /\ Goes(c, "CONSUME")
  /\ UNCHANGED <<authority, calls, returned, sent, wire, remote>>

\* consumeCurrentEffect as the authority promises it.
Consume(c) ==
  /\ At(c, "CONSUME")
  /\ ~authority.consumed /\ ~authority.lapsed
  /\ authority' = [authority EXCEPT !.consumed = TRUE]
  /\ Sends(c, "OBJECTS")
  /\ UNCHANGED <<calls, returned, sent, wire, remote>>

\* Variant: an unknown outcome is taken for the right to go on.
ConsumeUnknownGoesOn(c) ==
  /\ At(c, "CONSUME")
  /\ \E late \in {authority.late, TRUE} :
       authority' = [authority EXCEPT !.late = late]
  /\ Sends(c, "OBJECTS")
  /\ UNCHANGED <<calls, returned, sent, wire, remote>>

\* Refused, or no usable answer in time: then it may still be consumed.
ConsumeFails(c) ==
  /\ At(c, "CONSUME")
  /\ \E late \in {authority.late, TRUE} :
       authority' = [authority EXCEPT !.late = late]
  /\ Reconciles(c)
  /\ UNCHANGED <<calls, returned, sent, wire, remote>>

Send(c) ==
  /\ At(c, "POST")
  /\ sent' = [sent EXCEPT ![call[c].post] = @ + 1]
  /\ wire' = wire \cup {[by |-> c, post |-> call[c].post]}
  /\ Goes(c, "WAIT")
  /\ UNCHANGED <<authority, calls, returned, remote>>

\* Variant: a POST is retried like a GET.
GiveUpAndRetry(c) ==
  /\ At(c, "WAIT")
  /\ Goes(c, "POST")
  /\ UNCHANGED <<authority, calls, returned, sent, wire, remote>>

\* The deadline passed, the transport failed or the answer is unusable.
GiveUp(c) ==
  /\ At(c, "WAIT")
  /\ Reconciles(c)
  /\ UNCHANGED <<authority, calls, returned, sent, wire, remote>>

\* createPull reads before it writes.
ReadExisting(c) ==
  /\ At(c, "EXISTING")
  /\ CASE Len(pulls) = 0 -> Sends(c, "PULL") /\ UNCHANGED returned
       [] Len(pulls) = 1 /\ Fits(c, pulls[1]) -> Returns(c, "CREATED", 1)
       [] OTHER -> Fails(c) /\ UNCHANGED returned
  /\ UNCHANGED <<authority, calls, sent, wire, remote>>

Crash(c) ==
  /\ call[c].step \notin Ended
  /\ call' = [call EXCEPT ![c] = NoCall]
  /\ UNCHANGED <<authority, calls, returned, sent, wire, remote>>

-----------------------------------------------------------------------------
(* GitHub, the authority's clock, and the other users of the repository.   *)

NoneOpen == \A k \in DOMAIN pulls : ~pulls[k].open

Accepted(post) ==
  \/ post = "OBJECTS"
  \/ post = "REF" /\ tip = "NONE"
  \/ post = "PULL" /\ tip # "NONE" /\ NoneOpen

Apply(m) ==
  /\ tip' = IF m.post = "REF" THEN m.by ELSE tip
  /\ pulls' = IF m.post # "PULL" THEN pulls
              ELSE Append(pulls, [by |-> m.by, open |-> TRUE,
                                  exact |-> TRUE, base |-> base])
  /\ UNCHANGED <<base, meddled>>

Waiting(m) == At(m.by, "WAIT") /\ call[m.by].post = m.post

\* The POST is processed and the answer reaches the call that waits for it.
Answered(m) ==
  /\ m \in wire /\ Waiting(m) /\ Accepted(m.post)
  /\ wire' = wire \ {m}
  /\ Apply(m)
  /\ CASE m.post = "OBJECTS" ->
            /\ call' = [call EXCEPT ![m.by].step = "POST",
                                    ![m.by].post = "REF", ![m.by].head = m.by]
            /\ UNCHANGED returned
       [] m.post = "REF" -> Goes(m.by, "EXISTING") /\ UNCHANGED returned
       [] m.post = "PULL" /\ Fits(m.by, pulls'[Len(pulls')]) ->
            Returns(m.by, "CREATED", Len(pulls) + 1)
       [] OTHER -> Fails(m.by) /\ UNCHANGED returned
  /\ UNCHANGED <<authority, calls, sent>>

\* It is processed and nobody learns of it: the answer is lost, or the call
\* gave up or died.
Unheard(m) ==
  /\ m \in wire
  /\ wire' = wire \ {m}
  /\ IF Accepted(m.post) THEN Apply(m) ELSE UNCHANGED remote
  /\ UNCHANGED <<authority, call, calls, returned, sent>>

\* 409 or 422 sends the call to reconciliation, 401, 403 or 404 ends it.
Refused(m) ==
  /\ m \in wire /\ Waiting(m)
  /\ wire' = wire \ {m}
  /\ (~Accepted(m.post) /\ Reconciles(m.by)) \/ Fails(m.by)
  /\ UNCHANGED <<authority, calls, returned, sent, remote>>

Lost(m) ==
  /\ m \in wire
  /\ wire' = wire \ {m}
  /\ UNCHANGED <<authority, call, calls, returned, sent, remote>>

\* The consumption of a call that gave up on it.
ConsumeLate ==
  /\ authority.late
  /\ ~authority.consumed /\ ~authority.lapsed
  /\ authority' = [authority EXCEPT !.consumed = TRUE]
  /\ UNCHANGED <<call, calls, returned, sent, wire, remote>>

\* invokeBy passes.
Lapse ==
  /\ ~authority.lapsed
  /\ authority' = [authority EXCEPT !.lapsed = TRUE]
  /\ UNCHANGED <<call, calls, returned, sent, wire, remote>>

Meddle ==
  /\ meddled < MaxMeddling
  /\ meddled' = meddled + 1
  /\ UNCHANGED <<authority, call, calls, returned, sent, wire>>

\* The branch is moved or created.
PushBranch == Meddle /\ tip' = "OTHER" /\ UNCHANGED <<pulls, base>>

\* Deleting the branch closes its pull requests.
DeleteBranch ==
  /\ Meddle
  /\ tip # "NONE" /\ tip' = "NONE"
  /\ pulls' = [k \in DOMAIN pulls |-> [pulls[k] EXCEPT !.open = FALSE]]
  /\ UNCHANGED base

OpenPull ==
  /\ Meddle
  /\ tip # "NONE" /\ NoneOpen
  /\ pulls' = Append(pulls, [by |-> "OTHER", open |-> TRUE,
                             exact |-> FALSE, base |-> base])
  /\ UNCHANGED <<tip, base>>

ClosePull ==
  /\ Meddle
  /\ \E k \in DOMAIN pulls : pulls' = [pulls EXCEPT ![k].open = FALSE]
  /\ UNCHANGED <<tip, base>>

\* The title, the body or the draft state changes.
EditPull ==
  /\ Meddle
  /\ \E k \in DOMAIN pulls : pulls' = [pulls EXCEPT ![k].exact = FALSE]
  /\ UNCHANGED <<tip, base>>

PushBase == Meddle /\ base' = "MOVED" /\ UNCHANGED <<tip, pulls>>

Others ==
  \/ PushBranch \/ DeleteBranch \/ OpenPull \/ ClosePull \/ EditPull \/ PushBase

-----------------------------------------------------------------------------

CallStep(c) ==
  \/ Verify(c) \/ ReadHead(c) \/ ReadPulls(c) \/ ReadFails(c) \/ ReadBase(c)
  \/ Consume(c) \/ ConsumeFails(c) \/ Send(c) \/ GiveUp(c) \/ ReadExisting(c)

Processed(m) == Answered(m) \/ Unheard(m) \/ Refused(m) \/ Lost(m)

Next ==
  \/ \E c \in Callers : Begin(c) \/ CallStep(c) \/ Crash(c)
  \/ \E m \in wire : Processed(m)
  \/ ConsumeLate \/ Lapse \/ Others

Spec == Init /\ [][Next]_vars

\* Every await of a call has a deadline.
FairSpec == Spec /\ \A c \in Callers : WF_vars(CallStep(c))

-----------------------------------------------------------------------------
(* Properties.                                                             *)

\* The type invariant; the reconciliations of a call never exceed
\* options.maxAttempts.
TypeOK ==
  /\ authority \in [consumed: BOOLEAN, late: BOOLEAN, lapsed: BOOLEAN]
  /\ call \in [Callers -> Call]
  /\ calls \in Nat
  /\ returned \subseteq Receipt
  /\ sent \in [Posts -> Nat]
  /\ wire \subseteq [by: Callers, post: Posts]
  /\ tip \in Shas
  /\ pulls \in Seq(Pull)
  /\ base \in {"VALIDATED", "MOVED"}
  /\ meddled \in Nat

\* "A GitHub POST is sent at most once": over all calls of all processes,
\* whatever crashes, times out or arrives late.
PostsSentOnce == \A p \in Posts : sent[p] <= 1

\* Whatever calls report, and whenever, it is the same commit and the same
\* pull request.
ReceiptsAgree ==
  \A r \in returned, q \in returned : r.head = q.head /\ r.pull = q.pull

\* A call with the right to post.
Holds(c) == call[c].step \in {"POST", "WAIT", "EXISTING"}

\* Everything published, or still on its way, is the work of w ("NONE" before
\* anyone had the right to post).
WorkOf(w) ==
  /\ \A m \in wire : m.by = w
  /\ tip \in {"NONE", "OTHER", w}
  /\ \A k \in DOMAIN pulls :
       pulls[k].by \in {"OTHER", w} /\ (pulls[k].exact => pulls[k].by = w)
  /\ \A j \in DOMAIN pulls, k \in DOMAIN pulls :
       pulls[j].by = w /\ pulls[k].by = w => j = k
  /\ sent["PULL"] = 0 \/ [by |-> w, post |-> "PULL"] \in wire =>
       \A k \in DOMAIN pulls : pulls[k].by # w
  /\ \A r \in returned :
       r.head = w /\ r.pull \in DOMAIN pulls /\ pulls[r.pull].by = w

CallsOf(w) ==
  \A c \in Callers : (Holds(c) => c = w) /\ call[c].head \in {"NONE", w}

\* A call with the right to post has not sent what is still to be sent.
StagesInOrder ==
  /\ ~authority.consumed => \A p \in Posts : sent[p] = 0
  /\ \A m \in wire : sent[m.post] > 0
  /\ \A c \in Callers :
       /\ call[c].step = "PULLS" => call[c].head # "NONE"
       /\ Holds(c) =>
            /\ call[c].step = "POST" => sent[call[c].post] = 0
            /\ call[c].step = "EXISTING" => call[c].post = "REF"
            /\ call[c].post = "OBJECTS" => sent["REF"] = 0
            /\ call[c].post # "PULL" => sent["PULL"] = 0
            /\ call[c].post # "OBJECTS" => call[c].head = c

\* The inductive invariant: one process publishes, and each POST once.
ReviewInv ==
  /\ TypeOK
  /\ PostsSentOnce
  /\ StagesInOrder
  /\ \E w \in Callers \cup {"NONE"} :
       WorkOf(w) /\ CallsOf(w) /\ (~authority.consumed => w = "NONE")

\* What a receipt says holds at once when the call returns, although the call
\* read the branch and the pull requests one after the other.
Backed(r) ==
  /\ r.head \in Callers
  /\ tip = r.head
  /\ r.pull \in DOMAIN pulls
  /\ pulls[r.pull].open /\ pulls[r.pull].exact
  /\ pulls[r.pull].base = "VALIDATED"

\* createMigrationReview returns a receipt only of a review that is, at that
\* moment, the authorized one (receipt of live-adapter.ts).
ReceiptsAreTrue ==
  [][\A c \in Callers :
       call'[c].step = "RETURNED" /\ call[c].step # "RETURNED" =>
         \E r \in returned' :
           r.by = c /\ r.head = call'[c].head /\ Backed(r)']_vars

\* The publication is one effect of ExternalEffects: it is applied only after
\* the reservation was consumed, and once.
Effect == INSTANCE ExternalEffects WITH
  Intents <- {"REVIEW"},
  phase <- [i \in {"REVIEW"} |-> IF authority.consumed THEN "CALLED" ELSE "IDLE"],
  applied <- [i \in {"REVIEW"} |->
                Cardinality({k \in DOMAIN pulls : pulls[k].by \in Callers})],
  ended <- FALSE

\* LiveGitHubPort keeps the promise of ExternalEffects.
ImplementsEffect == Effect!Spec

\* Every call ends, with a receipt or with an error: no await and no
\* reconciliation goes on for ever.
CallsEnd == \A c \in Callers : call[c].step # "IDLE" ~> call[c].step \in Ended

\* "CREATED: this call authored the commit, branch, and/or PR": a call that
\* reports CREATED is one whose process posted the commit (EffectOutcome).
CreatedByThisCall ==
  \A r \in returned : r.outcome = "CREATED" => r.head = r.by

==============================================================================
