-------------------------- MODULE ValidationExecutor --------------------------
(***************************************************************************)
(* One validation of a migration candidate: materializeCandidate writes    *)
(* its artifacts into a fresh checkout, executeValidationInOwnedDatabase   *)
(* builds two Docker networks, a disposable PostgreSQL and a dbt container *)
(* around a sealed copy of them, executeEightChecks runs the eight checks, *)
(* and everything that was made is taken down again.                       *)
(*                                                                         *)
(* A command is a child process that asks the Docker daemon: when it is    *)
(* killed at its deadline, what it asked for may still be done, later.     *)
(* Another program may edit the checkout or the container meanwhile.       *)
(***************************************************************************)
EXTENDS Integers, Sequences, FiniteSets

CONSTANT MaxEdits     \* edits by other programs in one validation

ASSUME MaxEditsAssumption == MaxEdits \in Nat

VARIABLES
  phase,      \* where the validation is
  next,       \* position in the list the phase works through
  cmd,        \* the child process that runs, or Idle
  late,       \* what killed children had asked for and may still be done
  clock,      \* of the global deadline, then of the clean-up deadline
  sandbox,    \* the directory materializeCandidate owns
  checkout,   \* kind of artifact -> its bytes in the checkout
  sealed,     \* kind of artifact -> its bytes in the sealed bundle
  bundle,     \* the copy of the bundle in the container
  objects,    \* the Docker objects with our owner label that exist
  attempted,  \* networkCreated, postgresCreated, ...: creation was tried
  database,   \* what the disposable database holds
  clients,    \* each PostgreSQL client: NONE, OPEN, DESTROYED or ENDED
  verdict,    \* of the check that runs: its exit code, and whether it is earned
  results,    \* the evidence so far: how many checks, did all pass, did they earn it
  trouble,    \* what went wrong so far
  looked,     \* history: objects the clean-up has found gone
  edits       \* edits so far

world == <<late, sandbox, checkout, bundle, objects, database, edits>>
executor == <<phase, next, cmd, clock, sealed, attempted, clients, verdict, results,
              trouble, looked>>
validationVars == <<world, executor>>

Kinds == {"MIGRATION", "ROLLBACK", "DBT"}
Containers == {"POSTGRES", "RUNNER"}
Networks == {"INTERNAL", "HOST"}
Objects == Containers \cup Networks

\* The networks each container is attached to: a network in use stays.
Members(network) == IF network = "INTERNAL" THEN Containers ELSE {"POSTGRES"}

\* A child process: what it asks the daemon for, and whether that is done.
Idle == [does |-> "NOTHING", on |-> "NOTHING", done |-> FALSE]
Command(does, on) == [does |-> does, on |-> on, done |-> FALSE]

\* The exit code of a check; history: was it the candidate's bytes that ran?
Unrun == [zero |-> FALSE, earned |-> FALSE]
Ran(zero, earned) == [zero |-> zero, earned |-> earned]
NoResults == [checks |-> 0, allPass |-> TRUE, earned |-> TRUE]

\* canonicalValidationChecks, with the artifacts each one observes.
Checks == <<"SQL_MIGRATION", "BACKFILL_EQUALITY", "DBT_PARSE", "DBT_COMPILE", "DBT_TEST",
            "OLD_CONSUMER_COMPATIBILITY", "NEW_CONSUMER_COMPATIBILITY", "ROLLBACK">>

DbtChecks == {"DBT_PARSE", "DBT_COMPILE", "DBT_TEST"}

PathsOf(check) ==
  CASE check \in {"SQL_MIGRATION", "BACKFILL_EQUALITY"} -> {"MIGRATION"}
    [] check \in DbtChecks -> {"DBT"}
    [] check = "ROLLBACK" -> {"ROLLBACK"}
    [] OTHER -> {"MIGRATION", "DBT"}

\* A check can only succeed on these contents of the database ...
Succeeds(check, contents) ==
  CASE check = "SQL_MIGRATION" -> contents = "FIXTURE"
    [] check \in {"BACKFILL_EQUALITY", "DBT_TEST", "NEW_CONSUMER_COMPATIBILITY", "ROLLBACK"} ->
         contents = "MIGRATED"
    [] OTHER -> TRUE

\* ... and leaves these. A failed statement leaves what it found.
After(check, contents) ==
  CASE check = "SQL_MIGRATION" -> "MIGRATED"
    [] check = "ROLLBACK" -> "ROLLED_BACK"
    [] OTHER -> contents

Step(does, on) == [does |-> does, on |-> on]

\* What is prepared for the checks, in order.
Setup ==
  <<Step("CREATE", "INTERNAL"), Step("IDENTIFY", "INTERNAL"),
    Step("CREATE", "HOST"), Step("IDENTIFY", "HOST"),
    Step("CREATE", "POSTGRES"), Step("IDENTIFY", "POSTGRES"),
    Step("JOIN", "POSTGRES"), Step("START", "POSTGRES"),
    Step("AWAIT", "PORT"), Step("AWAIT", "ADMIN"), Step("SQL", "ROLE"),
    Step("AWAIT", "CLIENT"), Step("SQL", "FIXTURE"),
    Step("CREATE", "RUNNER"), Step("IDENTIFY", "RUNNER"),
    Step("START", "RUNNER"), Step("INSTALL", "RUNNER")>>

Removal == <<"RUNNER", "POSTGRES", "INTERNAL", "HOST">>

ValidationInit ==
  /\ phase = "START" /\ next = 1 /\ cmd = Idle /\ late = {}
  /\ clock = "STOPPED"
  /\ sandbox = "NONE"
  /\ checkout = [k \in Kinds |-> "NONE"] /\ sealed = [k \in Kinds |-> "NONE"]
  /\ bundle = "NONE"
  /\ objects = {} /\ attempted = {} /\ looked = {}
  /\ database = "NONE" /\ clients = [c \in {"ADMIN", "CLIENT"} |-> "NONE"]
  /\ verdict = Unrun /\ results = NoResults /\ trouble = {}
  /\ edits = 0

-----------------------------------------------------------------------------
(* What several steps share.                                               *)

TimeLeft == clock \in {"RUNNING", "CLEANING"}

Goes(p) == /\ phase' = p /\ next' = 1

\* An error leaves the try block it is thrown in; the finally blocks follow.
Throws(what, p) == /\ trouble' = trouble \cup {what} /\ Goes(p)

\* snapshotMaterializedArtifacts: the files are still the ones that were
\* written, and their bytes are the candidate's.
Observed(kinds) == sandbox = "OURS" /\ \A k \in kinds : checkout[k] = "CANDIDATE"

\* The daemon carries out what a child asked for, once. It refuses a name in
\* use, a container without its network, and a network with members.
Allowed(c) ==
  CASE c.does = "CREATE" ->
         /\ c.on \notin objects
         /\ c.on = "POSTGRES" => "HOST" \in objects
         /\ c.on = "RUNNER" => "INTERNAL" \in objects
    [] c.does = "REMOVE" ->
         /\ c.on \in objects
         /\ c.on \in Networks => Members(c.on) \cap objects = {}
    [] c.does = "JOIN" -> {"POSTGRES", "INTERNAL"} \subseteq objects
    [] OTHER -> c.on \in objects

Done(c) ==
  objects' = CASE c.does = "CREATE" -> objects \cup {c.on}
               [] c.does = "REMOVE" -> objects \ {c.on}
               [] OTHER -> objects

\* The bundle is installed file by file, and its directories are closed. A part
\* of it is never checked: the command that fails there ends the set-up.
BundleAfter(c) == IF c.does = "INSTALL" THEN "SEALED" ELSE bundle

\* SpawnCommandRunner: the first of exit, deadline and output limit settles
\* the promise, and the other two find it settled. A killed child's request
\* is not withdrawn.
Killed ==
  /\ cmd' = Idle
  /\ late' = IF cmd.done THEN late ELSE late \cup {cmd}

-----------------------------------------------------------------------------
(* materializeCandidate.                                                   *)

\* Preflight, schema, base SHA, sandbox root and git pass or nothing is made.
Refuse ==
  /\ phase = "START"
  /\ Throws("MATERIALIZE", "DONE")
  /\ UNCHANGED <<world, cmd, clock, sealed, attempted, clients, verdict, results, looked>>

MakeSandbox ==
  /\ phase = "START"
  /\ sandbox' = "OURS"
  /\ Goes("CLONE")
  /\ UNCHANGED <<late, checkout, bundle, objects, database, edits,
                 cmd, clock, sealed, attempted, clients, verdict, results, trouble, looked>>

\* Clone, detached checkout and the check of HEAD; then the artifacts.
CheckOut ==
  /\ phase = "CLONE"
  /\ checkout' = [k \in Kinds |-> "BASE"]
  /\ Goes("WRITE")
  /\ UNCHANGED <<late, sandbox, bundle, objects, database, edits,
                 cmd, clock, sealed, attempted, clients, verdict, results, trouble, looked>>

WriteArtifacts ==
  /\ phase = "WRITE"
  /\ checkout' = [k \in Kinds |-> "CANDIDATE"]
  /\ Goes("LOCK")
  /\ UNCHANGED <<late, sandbox, bundle, objects, database, edits,
                 cmd, clock, sealed, attempted, clients, verdict, results, trouble, looked>>

\* Files and directories become read-only and their identities are kept.
LockArtifacts ==
  /\ phase = "LOCK"
  /\ sandbox = "OURS"
  /\ Goes("PREPARE")
  /\ UNCHANGED <<world, cmd, clock, sealed, attempted, clients, verdict, results, trouble, looked>>

\* The catch block removes the directory, if it is still the one it made;
\* what is already read-only may refuse to be removed.
MaterializeFails ==
  /\ phase \in {"CLONE", "WRITE", "LOCK"}
  /\ Goes("DONE")
  /\ \E removed \in IF sandbox # "OURS" THEN {FALSE}
                    ELSE IF phase = "LOCK" THEN BOOLEAN ELSE {TRUE} :
       /\ sandbox' = IF removed THEN "GONE" ELSE sandbox
       /\ trouble' = trouble \cup {"MATERIALIZE"} \cup IF removed THEN {} ELSE {"SANDBOX"}
  /\ UNCHANGED <<late, checkout, bundle, objects, database, edits,
                 cmd, clock, sealed, attempted, clients, verdict, results, looked>>

-----------------------------------------------------------------------------
(* executeValidationInOwnedDatabase, up to the checks.                     *)

\* Policy, tools, images, tool bindings and dbt project are right, or the
\* validation throws before it has made anything.
Prepare ==
  /\ phase = "PREPARE"
  /\ clock' = "RUNNING"
  /\ \/ Goes("SEAL") /\ UNCHANGED trouble
     \/ Throws("PREPARE", "DISCARD")
  /\ UNCHANGED <<world, cmd, sealed, attempted, clients, verdict, results, looked>>

\* createSealedValidationBundle copies a snapshot of the observed artifacts.
Seal ==
  /\ phase = "SEAL"
  /\ IF Observed(Kinds)
       THEN sealed' = checkout /\ Goes("SETUP") /\ UNCHANGED trouble
       ELSE Throws("SEAL", "DISCARD") /\ UNCHANGED sealed
  /\ UNCHANGED <<world, cmd, clock, attempted, clients, verdict, results, looked>>

Advance(list, after) ==
  IF next < Len(list) THEN next' = next + 1 /\ UNCHANGED phase ELSE Goes(after)

Prepares(does) == phase = "SETUP" /\ cmd = Idle /\ Setup[next].does \in does

\* A flag such as networkCreated is set before the command that creates.
IssueSetup ==
  /\ Prepares({"CREATE", "JOIN", "START", "INSTALL"})
  /\ attempted' = IF Setup[next].does = "CREATE" THEN attempted \cup {Setup[next].on}
                  ELSE attempted
  /\ IF TimeLeft
       THEN cmd' = Command(Setup[next].does, Setup[next].on) /\ UNCHANGED <<phase, next, trouble>>
       ELSE Throws("SETUP", "CLOSING") /\ UNCHANGED cmd
  /\ UNCHANGED <<world, clock, sealed, clients, verdict, results, looked>>

\* inspectOwnedDockerObject; then the retry loops for the published port and
\* the two clients, which only the deadline ends.
Ready(step) ==
  CASE step.does = "IDENTIFY" -> step.on \in objects
    [] OTHER -> "POSTGRES" \in objects

Identify ==
  /\ Prepares({"IDENTIFY"})
  /\ \/ TimeLeft /\ Ready(Setup[next]) /\ Advance(Setup, "FENCE") /\ UNCHANGED trouble
     \/ Throws("SETUP", "CLOSING")
  /\ UNCHANGED <<world, cmd, clock, sealed, attempted, clients, verdict, results, looked>>

Await ==
  /\ Prepares({"AWAIT"})
  /\ \/ /\ TimeLeft /\ Ready(Setup[next])
        /\ Advance(Setup, "FENCE")
        /\ clients' = IF Setup[next].on = "PORT" THEN clients
                      ELSE [clients EXCEPT ![Setup[next].on] = "OPEN"]
        /\ UNCHANGED trouble
     \/ ~TimeLeft /\ Throws("SETUP", "CLOSING") /\ UNCHANGED clients
  /\ UNCHANGED <<world, cmd, clock, sealed, attempted, verdict, results, looked>>

\* destroyPgClient, when the deadline passes with a statement unanswered.
Destroys(client) == [clients EXCEPT ![client] = "DESTROYED"]

\* The role, the database and the fixture. At the deadline the socket is
\* destroyed, and what was sent may have been done.
SetupSql ==
  /\ Prepares({"SQL"})
  /\ \E done \in BOOLEAN, answered \in BOOLEAN :
       /\ done => "POSTGRES" \in objects
       /\ database' = IF done THEN (IF Setup[next].on = "ROLE" THEN "EMPTY" ELSE "FIXTURE")
                      ELSE database
       /\ IF done /\ answered
            THEN TimeLeft /\ Advance(Setup, "FENCE") /\ UNCHANGED <<trouble, clients>>
            ELSE /\ answered \/ ~TimeLeft
                 /\ Throws("SETUP", "CLOSING")
                 /\ clients' = IF answered THEN clients
                               ELSE Destroys(IF Setup[next].on = "ROLE" THEN "ADMIN" ELSE "CLIENT")
  /\ UNCHANGED <<late, sandbox, checkout, bundle, objects, edits,
                 cmd, clock, sealed, attempted, verdict, results, looked>>

-----------------------------------------------------------------------------
(* The child process and the daemon.                                       *)

DaemonDoes ==
  /\ cmd # Idle /\ ~cmd.done /\ Allowed(cmd)
  /\ Done(cmd)
  /\ bundle' = BundleAfter(cmd)
  /\ cmd' = [cmd EXCEPT !.done = TRUE]
  /\ UNCHANGED <<late, sandbox, checkout, database, edits, phase, next, clock, sealed,
                 attempted, clients, verdict, results, trouble, looked>>

\* Variant: a removal that is not proved is passed over.
FailedQuietly ==
  IF phase = "SETUP" THEN Throws("SETUP", "CLOSING")
  ELSE /\ UNCHANGED trouble
       /\ IF next < Len(Removal) THEN phase' = "LOOK" /\ next' = next + 1 ELSE Goes("DISCARD")

\* What follows the answer: the next step of the set-up, or the inspection
\* that proves a removal. A failed removal does not stop the others.
Failed ==
  IF phase = "SETUP" THEN Throws("SETUP", "CLOSING")
  ELSE /\ trouble' = trouble \cup {"OBJECTS"}
       /\ IF next < Len(Removal) THEN phase' = "LOOK" /\ next' = next + 1 ELSE Goes("DISCARD")

ExitZero ==
  /\ cmd # Idle /\ cmd.done
  /\ cmd' = Idle
  /\ IF phase = "SETUP" THEN Advance(Setup, "FENCE") ELSE phase' = "GONE" /\ UNCHANGED next
  /\ UNCHANGED <<world, clock, sealed, attempted, clients, verdict, results, trouble, looked>>

\* Refused by the daemon, or failed in the client after it was done.
ExitNonZero ==
  /\ cmd # Idle
  /\ cmd' = Idle
  /\ Failed
  /\ UNCHANGED <<world, clock, sealed, attempted, clients, verdict, results, looked>>

\* At its deadline, or when it has written more than its limit.
Kill ==
  /\ cmd # Idle
  /\ Killed
  /\ Failed
  /\ UNCHANGED <<sandbox, checkout, bundle, objects, database, edits,
                 clock, sealed, attempted, clients, verdict, results, looked>>

\* The deadline of the validation, or of the clean-up, passes. A command is
\* not started after it.
Deadline ==
  /\ TimeLeft
  /\ clock' = IF clock = "RUNNING" THEN "EXPIRED" ELSE "OVERRUN"
  /\ UNCHANGED <<world, phase, next, cmd, sealed, attempted, clients, verdict, results,
                 trouble, looked>>

-----------------------------------------------------------------------------
(* executeEightChecks. next is the number of the check.                    *)

\* Every artifact once more before the first check and after the last.
FenceCandidate ==
  /\ phase = "FENCE"
  /\ IF Observed(Kinds) THEN Goes("OBSERVE") /\ UNCHANGED trouble
                        ELSE Throws("CHECKS", "CLOSING")
  /\ UNCHANGED <<world, cmd, clock, sealed, attempted, clients, verdict, results, looked>>

Check == Checks[next]

\* boundedResult turns any error of the command into exit code 255: once the
\* deadline has passed, the checks that are left all fail.
FailsCheck == verdict' = Ran(FALSE, FALSE)

ObserveCheck ==
  /\ phase = "OBSERVE"
  /\ IF Observed(PathsOf(Check))
       THEN /\ phase' = IF Check \in DbtChecks THEN "VERIFY" ELSE "RUN"
            /\ UNCHANGED <<next, trouble>>
       ELSE Throws("CHECKS", "CLOSING")
  /\ UNCHANGED <<world, cmd, clock, sealed, attempted, clients, verdict, results, looked>>

\* #verifyBundle hashes the copy in the container against the manifest.
Verifies == TimeLeft /\ "RUNNER" \in objects /\ bundle = "SEALED"

VerifyBundle ==
  /\ phase = "VERIFY"
  /\ \/ Verifies /\ phase' = "RUN" /\ UNCHANGED verdict
     \/ phase' = "RECORD" /\ FailsCheck
  /\ UNCHANGED <<world, next, cmd, clock, sealed, attempted, clients, results, trouble, looked>>

\* dbt reads the bundle as it is now, whatever the verification saw.
RunDbt ==
  /\ phase = "RUN" /\ Check \in DbtChecks
  /\ phase' = "REVERIFY"
  /\ \/ /\ TimeLeft /\ {"RUNNER", "POSTGRES"} \subseteq objects
        /\ Succeeds(Check, database)
        /\ verdict' = Ran(TRUE, bundle = "SEALED" /\ sealed["DBT"] = "CANDIDATE")
     \/ FailsCheck
  /\ UNCHANGED <<world, next, cmd, clock, sealed, attempted, clients, results, trouble, looked>>

\* Variant: the bundle is not looked at again after the command.
ReverifyBundleNever ==
  /\ phase = "REVERIFY"
  /\ phase' = "RECORD"
  /\ UNCHANGED <<world, next, cmd, clock, sealed, attempted, clients, verdict, results, trouble,
                 looked>>

\* In a finally block: its error replaces the result of the dbt command.
ReverifyBundle ==
  /\ phase = "REVERIFY"
  /\ phase' = "RECORD"
  /\ \/ Verifies /\ UNCHANGED verdict
     \/ FailsCheck
  /\ UNCHANGED <<world, next, cmd, clock, sealed, attempted, clients, results, trouble, looked>>

\* The sealed program, over the validation client. The statement is rejected,
\* or the deadline destroys the socket and the server may yet commit.
Program(check) == IF check = "ROLLBACK" THEN "ROLLBACK" ELSE "MIGRATION"

RunSql ==
  /\ phase = "RUN" /\ Check \notin DbtChecks
  /\ phase' = "RECORD"
  /\ \/ /\ TimeLeft /\ clients["CLIENT"] = "OPEN" /\ "POSTGRES" \in objects
        /\ Succeeds(Check, database)
        /\ database' = After(Check, database)
        /\ verdict' = Ran(TRUE, sealed[Program(Check)] = "CANDIDATE")
        /\ UNCHANGED clients
     \/ FailsCheck /\ UNCHANGED <<database, clients>>
     \/ /\ ~TimeLeft /\ clients["CLIENT"] = "OPEN"
        /\ FailsCheck
        /\ clients' = Destroys("CLIENT")
        /\ database' \in {database} \cup
             IF "POSTGRES" \in objects /\ Succeeds(Check, database)
               THEN {After(Check, database)} ELSE {}
  /\ UNCHANGED <<late, sandbox, checkout, bundle, objects, edits,
                 next, cmd, clock, sealed, attempted, results, trouble, looked>>

\* The evidence is kept only if the artifacts are still the candidate's.
RecordCheck ==
  /\ phase = "RECORD"
  /\ IF Observed(PathsOf(Check))
       THEN /\ results' = [checks  |-> results.checks + 1,
                           allPass |-> results.allPass /\ verdict.zero,
                           earned  |-> results.earned /\ (verdict.zero => verdict.earned)]
            /\ IF next < Len(Checks) THEN phase' = "OBSERVE" /\ next' = next + 1
                                     ELSE Goes("FINAL")
            /\ UNCHANGED trouble
       ELSE Throws("CHECKS", "CLOSING") /\ UNCHANGED results
  /\ verdict' = Unrun
  /\ UNCHANGED <<world, cmd, clock, sealed, attempted, clients, looked>>

ObserveAll ==
  /\ phase = "FINAL"
  /\ IF Observed(Kinds) THEN Goes("CLOSING") /\ UNCHANGED trouble
                        ELSE Throws("CHECKS", "CLOSING")
  /\ UNCHANGED <<world, cmd, clock, sealed, attempted, clients, verdict, results, looked>>

-----------------------------------------------------------------------------
(* The finally blocks.                                                     *)

\* The clean-up has a deadline of its own.
StartCleanup ==
  /\ phase = "CLOSING"
  /\ clock' = "CLEANING"
  /\ Goes("END_CLIENT")
  /\ UNCHANGED <<world, cmd, sealed, attempted, clients, verdict, results, trouble, looked>>

\* A client that could not be ended in time is destroyed.
Ends(client, p) ==
  /\ Goes(p)
  /\ \/ /\ clients[client] = "OPEN" => TimeLeft
        /\ clients' = IF clients[client] = "NONE" THEN clients
                      ELSE [clients EXCEPT ![client] = "ENDED"]
        /\ UNCHANGED trouble
     \/ /\ clients[client] # "NONE"
        /\ clients' = Destroys(client)
        /\ trouble' = trouble \cup {"DATABASE"}
  /\ UNCHANGED <<world, cmd, clock, sealed, attempted, verdict, results, looked>>

EndClient == phase = "END_CLIENT" /\ Ends("CLIENT", "DROP")

DropDatabase ==
  /\ phase = "DROP"
  /\ Goes("END_ADMIN")
  /\ \/ clients["ADMIN"] = "NONE" /\ UNCHANGED <<database, trouble>>
     \/ /\ clients["ADMIN"] = "OPEN" /\ TimeLeft /\ "POSTGRES" \in objects
        /\ database' = "NONE"
        /\ UNCHANGED trouble
     \/ /\ clients["ADMIN"] # "NONE"
        /\ trouble' = trouble \cup {"DATABASE"}
        /\ UNCHANGED database
  /\ UNCHANGED <<late, sandbox, checkout, bundle, objects, edits,
                 cmd, clock, sealed, attempted, clients, verdict, results, looked>>

\* What failed here is thrown, and the next finally block runs all the same.
EndAdmin == phase = "END_ADMIN" /\ Ends("ADMIN", "LOOK")

\* removeOwnedDockerObject: inspect, remove, inspect. Absent counts as done;
\* an inspection that proves nothing counts as failed.
AfterRemoval ==
  IF next < Len(Removal) THEN phase' = "LOOK" /\ next' = next + 1 ELSE Goes("DISCARD")

LookForObject ==
  /\ phase = "LOOK"
  /\ LET o == Removal[next] IN
     \/ /\ o \notin attempted
        /\ AfterRemoval
        /\ UNCHANGED <<cmd, trouble, looked>>
     \/ /\ o \in attempted /\ o \notin objects /\ TimeLeft
        /\ looked' = looked \cup {o}
        /\ AfterRemoval
        /\ UNCHANGED <<cmd, trouble>>
     \/ /\ o \in attempted /\ o \in objects /\ TimeLeft
        /\ cmd' = Command("REMOVE", o)
        /\ phase' = "REMOVE" /\ UNCHANGED <<next, trouble, looked>>
     \/ /\ o \in attempted
        /\ Failed
        /\ UNCHANGED <<cmd, looked>>
  /\ UNCHANGED <<world, clock, sealed, attempted, clients, verdict, results>>

ProveRemoval ==
  /\ phase = "GONE"
  /\ LET o == Removal[next] IN
     \/ /\ o \notin objects /\ TimeLeft
        /\ looked' = looked \cup {o}
        /\ AfterRemoval
        /\ UNCHANGED trouble
     \/ Failed /\ UNCHANGED looked
  /\ UNCHANGED <<world, cmd, clock, sealed, attempted, clients, verdict, results>>

\* The bundle directory, then handle.cleanup in the caller's finally block,
\* which removes only the directory whose identity it captured.
Discard ==
  /\ phase = "DISCARD"
  /\ Goes("DONE")
  /\ clock' = "STOPPED"
  /\ \/ sandbox = "OURS" /\ sandbox' = "GONE" /\ UNCHANGED trouble
     \/ trouble' = trouble \cup {"SANDBOX"} /\ UNCHANGED sandbox
  /\ UNCHANGED <<late, checkout, bundle, objects, database, edits,
                 cmd, sealed, attempted, clients, verdict, results, looked>>

-----------------------------------------------------------------------------
(* The others: the daemon, done with a killed child's request or not, and   *)
(* programs that edit what the validation works on. No edit is undone.     *)

DaemonLate ==
  /\ phase # "DONE"
  /\ \E c \in late :
       /\ late' = late \ {c}
       /\ IF Allowed(c) THEN Done(c) ELSE UNCHANGED objects
  /\ UNCHANGED <<sandbox, checkout, bundle, database, edits, executor>>

Edit == /\ phase # "DONE" /\ edits < MaxEdits /\ edits' = edits + 1

EditCheckout ==
  /\ Edit
  /\ sandbox # "NONE"
  /\ \E k \in Kinds : checkout' = [checkout EXCEPT ![k] = "EDITED"]
  /\ UNCHANGED <<late, sandbox, bundle, objects, database, executor>>

ReplaceSandbox ==
  /\ Edit
  /\ sandbox = "OURS" /\ sandbox' = "REPLACED"
  /\ UNCHANGED <<late, checkout, bundle, objects, database, executor>>

EditBundle ==
  /\ Edit
  /\ bundle = "SEALED" /\ bundle' = "EDITED"
  /\ UNCHANGED <<late, sandbox, checkout, objects, database, executor>>

\* An operator removes a container, or the daemon's host kills it.
RemoveContainer ==
  /\ Edit
  /\ \E o \in Containers \cap objects : objects' = objects \ {o}
  /\ UNCHANGED <<late, sandbox, checkout, bundle, database, executor>>

-----------------------------------------------------------------------------

Materialize == Refuse \/ MakeSandbox \/ CheckOut \/ WriteArtifacts \/ LockArtifacts
               \/ MaterializeFails
SetUp == Prepare \/ Seal \/ IssueSetup \/ Identify \/ Await \/ SetupSql
RunChecks == FenceCandidate \/ ObserveCheck \/ VerifyBundle \/ RunDbt \/ ReverifyBundle
             \/ RunSql \/ RecordCheck \/ ObserveAll
CleanUp == StartCleanup \/ EndClient \/ DropDatabase \/ EndAdmin \/ LookForObject
           \/ ProveRemoval \/ Discard
Settles == ExitZero \/ ExitNonZero \/ Kill

Executor == Materialize \/ SetUp \/ RunChecks \/ CleanUp \/ Settles

Others == DaemonDoes \/ DaemonLate \/ EditCheckout \/ ReplaceSandbox \/ EditBundle
          \/ RemoveContainer

\* The result createValidationPort returns: evidence, and whether all passed.
HasEvidence == phase = "DONE" /\ trouble = {}
AllPass == HasEvidence /\ results.allPass

-----------------------------------------------------------------------------

\* What a validation made is gone when it ends, or it says that it is not:
\* only a Docker object that came after the clean-up had looked, from the
\* request of a killed child, is left unnoticed (the finally blocks of
\* executeValidationInOwnedDatabase and createValidationPort).
NothingLeftBehind ==
  phase = "DONE" /\ trouble \cap {"DATABASE", "OBJECTS", "SANDBOX"} = {} =>
    /\ objects \subseteq looked
    /\ sandbox \in {"NONE", "GONE"}

\* Evidence covers all eight checks, and every PASS in it was earned by the
\* candidate's own bytes, whatever others did to the checkout, the sandbox and
\* the container meanwhile (the observations around executeEightChecks,
\* #verifyBundle before and after dbt).
EvidenceIsEarned == HasEvidence => results.checks = Len(Checks) /\ results.earned

=============================================================================
