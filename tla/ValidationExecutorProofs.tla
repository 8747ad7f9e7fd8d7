------------------------ MODULE ValidationExecutorProofs ------------------------
(***************************************************************************)
(* What a validation keeps to: ValidationInv, preserved by every step of   *)
(* the executor, the daemon and the programs that edit what it works on,   *)
(* for any number of edits. The worker that validates is the subject of    *)
(* WorkerProofs.                                                           *)
(*                                                                         *)
(* Evidence is earned because no error leads on to the next check, and     *)
(* because a bundle that was edited under a dbt command stays edited until *)
(* the hash after the command. Nothing is left behind because an object is *)
(* marked as attempted before the daemon is asked for it, and the clean-up *)
(* passes no attempted object that it has neither seen gone nor reported.  *)
(***************************************************************************)
EXTENDS ValidationExecutor, TLAPS

Contents == {"NONE", "BASE", "CANDIDATE", "EDITED"}

Making == {"START", "CLONE", "WRITE", "LOCK", "PREPARE", "SEAL"}
Checking == {"OBSERVE", "VERIFY", "RUN", "REVERIFY", "RECORD"}
Removing == {"LOOK", "REMOVE", "GONE"}

\* The list a phase works through is not left.
InPlace ==
  /\ next \in Nat \ {0}
  /\ phase = "SETUP" => next <= 17
  /\ phase \in Checking => next <= 8
  /\ phase \in Removing => next <= 4
  /\ cmd = [does |-> cmd.does, on |-> cmd.on, done |-> cmd.done]
  /\ cmd # Idle => phase \in {"SETUP", "REMOVE"}
  /\ cmd.does = "INSTALL" => phase = "SETUP"
  /\ sealed \in [Kinds -> {"NONE", "CANDIDATE"}]
  /\ checkout \in [Kinds -> Contents]

\* What ran was sealed, and what was sealed is the candidate's.
Sealed ==
  phase \in {"SETUP", "FENCE"} \cup Checking => \A k \in Kinds : sealed[k] = "CANDIDATE"

\* A check passes on the strength of an intact bundle, and an edit of it is
\* still there when it is looked at again.
Earned ==
  /\ phase = "REVERIFY" /\ verdict.zero => verdict.earned \/ bundle # "SEALED"
  /\ phase = "RECORD" /\ verdict.zero => verdict.earned
  /\ results.earned = TRUE

\* Without trouble every check up to here has its evidence.
Counted ==
  trouble = {} =>
    /\ phase \in Making \cup {"SETUP", "FENCE"} => results.checks = 0
    /\ phase \in Checking => results.checks = next - 1
    /\ phase \notin Making \cup {"SETUP", "FENCE"} \cup Checking => results.checks = 8

\* Nothing exists, or can come to exist, that was not marked.
Marked ==
  /\ objects \subseteq attempted
  /\ attempted \subseteq Objects
  /\ cmd.does = "CREATE" => cmd.on \in attempted
  /\ \A c \in late : c.does = "CREATE" => c.on \in attempted
  /\ phase \in Making => attempted = {}

\* Without trouble the clean-up has seen gone whatever it has passed.
PassedBy(n) == \A i \in 1 .. n : Removal[i] \in attempted => Removal[i] \in looked

SeenGone ==
  "OBJECTS" \notin trouble =>
    /\ phase \in Removing => PassedBy(next - 1)
    /\ phase \in {"DISCARD", "DONE"} => attempted \subseteq looked

SandboxGone ==
  /\ phase = "START" => sandbox = "NONE"
  /\ phase = "DONE" => "SANDBOX" \in trouble \/ sandbox \in {"NONE", "GONE"}

ValidationInv ==
  InPlace /\ Sealed /\ Earned /\ Counted /\ Marked /\ SeenGone /\ SandboxGone

\* The lists: seventeen steps of set-up, four removals, eight checks, and the
\* clean-up looks for every object the set-up may create.
LEMMA SetupKnown ==
  /\ Len(Setup) = 17 /\ Len(Removal) = 4 /\ Len(Checks) = 8
  /\ \A n \in 1 .. 17 : Setup[n].does = "CREATE" => Setup[n].on \in Objects
  /\ Objects = {Removal[i] : i \in 1 .. 4}
<1>1. Len(Setup) = 17 /\ Len(Removal) = 4 /\ Len(Checks) = 8
  BY DEF Setup, Removal, Checks
<1>2. Objects = {"RUNNER", "POSTGRES", "INTERNAL", "HOST"}
  BY DEF Objects, Containers, Networks
<1>3. ASSUME NEW n \in 1 .. 17, Setup[n].does = "CREATE" PROVE Setup[n].on \in Objects
  BY <1>2, <1>3 DEF Setup, Step
<1>4. Objects = {Removal[i] : i \in 1 .. 4}
  BY <1>2 DEF Removal
<1> QED
  BY <1>1, <1>3, <1>4

\* A validation that has not begun.
LEMMA ValidationStarts == ASSUME ValidationInit PROVE ValidationInv
BY DEF ValidationInit, ValidationInv, InPlace, Sealed, Earned, Counted, Marked, SeenGone,
       SandboxGone, Idle, NoResults, Contents, Making, Checking, Removing

\* Steps of the rest of the worker.
LEMMA ValidationKept ==
  ASSUME ValidationInv, UNCHANGED validationVars
  PROVE  ValidationInv'
BY DEF validationVars, world, executor, ValidationInv, InPlace, Sealed, Earned, Counted, Marked,
       SeenGone, SandboxGone, PassedBy

-----------------------------------------------------------------------------
(* materializeCandidate.                                                   *)

LEMMA MaterializePreserves ==
  ASSUME ValidationInv, Materialize
  PROVE  ValidationInv'
<1>1. /\ phase \in {"START", "CLONE", "WRITE", "LOCK"}
      /\ phase' \in {"CLONE", "WRITE", "LOCK", "PREPARE", "DONE"} /\ next' = 1
      /\ checkout' \in [Kinds -> Contents]
      /\ UNCHANGED <<late, bundle, objects, cmd, sealed, attempted, verdict, results, looked>>
      /\ trouble \subseteq trouble'
      /\ phase' = "DONE" => trouble' # {}
      /\ phase' # "DONE" => trouble' = trouble
  BY DEF Materialize, Refuse, MakeSandbox, CheckOut, WriteArtifacts, LockArtifacts,
         MaterializeFails, Throws, Goes, world, ValidationInv, InPlace, Contents
<1>2. phase' = "DONE" => "SANDBOX" \in trouble' \/ sandbox' \in {"NONE", "GONE"}
  BY DEF Materialize, Refuse, MakeSandbox, CheckOut, WriteArtifacts, LockArtifacts,
         MaterializeFails, Throws, Goes, world, ValidationInv, SandboxGone
<1> QED
  BY <1>1, <1>2 DEF ValidationInv, InPlace, Sealed, Earned, Counted, Marked, SeenGone, SandboxGone,
                    Making, Checking, Removing


-----------------------------------------------------------------------------
(* The set-up.                                                             *)

\* A step that throws leads behind the checks with trouble, and to the clean-up.
LEMMA PreparePreserves ==
  ASSUME ValidationInv, Prepare \/ Seal
  PROVE  ValidationInv'
<1>1. /\ phase \in {"PREPARE", "SEAL"} /\ next' = 1
      /\ UNCHANGED world /\ UNCHANGED <<cmd, attempted, verdict, results, looked>>
      /\ \/ phase' \in {"SEAL", "SETUP"} /\ trouble' = trouble
         \/ phase' = "DISCARD" /\ trouble' # {} /\ trouble \subseteq trouble'
  BY DEF Prepare, Seal, Throws, Goes
<1>2. /\ sealed' \in [Kinds -> {"NONE", "CANDIDATE"}]
      /\ phase' = "SETUP" => \A k \in Kinds : sealed'[k] = "CANDIDATE"
  BY DEF Prepare, Seal, Throws, Goes, Observed, ValidationInv, InPlace, Contents
<1> QED
  BY <1>1, <1>2 DEF world, ValidationInv, InPlace, Sealed, Earned, Counted, Marked, SeenGone,
       SandboxGone, Making, Checking, Removing

\* What a step of the set-up, or the end of its command, does to the phase.
SetupGoesOn ==
  /\ phase = "SETUP"
  /\ \/ /\ phase' = "SETUP" /\ next' \in {next, next + 1} /\ next' <= 17 /\ trouble' = trouble
     \/ phase' = "FENCE" /\ next' = 1 /\ trouble' = trouble
     \/ phase' = "CLOSING" /\ next' = 1 /\ trouble' # {} /\ trouble \subseteq trouble'

LEMMA AdvanceGoesOn ==
  ASSUME ValidationInv, phase = "SETUP", Advance(Setup, "FENCE"), trouble' = trouble
  PROVE  SetupGoesOn
<1>1. next \in Nat \ {0} /\ Len(Setup) = 17
  BY SetupKnown DEF ValidationInv, InPlace
<1> QED
  BY <1>1 DEF Advance, Goes, SetupGoesOn

LEMMA ThrowGoesOn ==
  ASSUME phase = "SETUP", Throws("SETUP", "CLOSING")
  PROVE  SetupGoesOn
BY DEF Throws, Goes, SetupGoesOn

LEMMA SetupGoesOnPreserves ==
  ASSUME ValidationInv, SetupGoesOn, UNCHANGED <<sealed, verdict, results, looked, objects>>,
         late' \subseteq late \cup {cmd}, UNCHANGED checkout, cmd' = Idle, attempted' = attempted
  PROVE  ValidationInv'
BY DEF SetupGoesOn, Idle, ValidationInv, InPlace, Sealed, Earned, Counted, Marked, SeenGone,
       SandboxGone, Making, Checking, Removing

\* An object is marked before the daemon is asked for it.
LEMMA IssueSetupPreserves ==
  ASSUME ValidationInv, IssueSetup
  PROVE  ValidationInv'
<1>1. phase = "SETUP" /\ cmd = Idle
  BY DEF IssueSetup, Prepares
<1>2. next \in 1 .. 17
  BY <1>1 DEF ValidationInv, InPlace
<1>3. attempted' \subseteq Objects /\ attempted \subseteq attempted'
  BY <1>2, SetupKnown DEF IssueSetup, ValidationInv, Marked
<1>4. UNCHANGED world /\ UNCHANGED <<sealed, verdict, results, looked>>
  BY DEF IssueSetup
<1>5. CASE cmd' = Command(Setup[next].does, Setup[next].on) /\ UNCHANGED <<phase, next, trouble>>
  <2>1. /\ cmd' = [does |-> cmd'.does, on |-> cmd'.on, done |-> cmd'.done]
        /\ cmd'.does = "CREATE" => cmd'.on \in attempted'
    BY <1>5 DEF Command, IssueSetup
  <2> QED
    BY <1>1, <1>3, <1>4, <1>5, <2>1 DEF world, ValidationInv, InPlace, Sealed, Earned, Counted,
         Marked, SeenGone, SandboxGone, Making, Checking, Removing
<1>6. CASE Throws("SETUP", "CLOSING") /\ UNCHANGED cmd
  BY <1>1, <1>3, <1>4, <1>6 DEF Throws, Goes, Idle, world, ValidationInv, InPlace, Sealed, Earned, Counted,
       Marked, SeenGone, SandboxGone, Making, Checking, Removing
<1> QED
  BY <1>5, <1>6 DEF IssueSetup

LEMMA SetUpPreserves ==
  ASSUME ValidationInv, SetUp
  PROVE  ValidationInv'
<1>1. CASE Identify
  <2>1. phase = "SETUP" /\ cmd = Idle
    BY <1>1 DEF Identify, Prepares
  <2>2. SetupGoesOn
    BY <1>1, <2>1, AdvanceGoesOn, ThrowGoesOn DEF Identify
  <2> QED
    BY <1>1, <2>1, <2>2, SetupGoesOnPreserves DEF Identify, world
<1>2. CASE Await
  <2>1. phase = "SETUP" /\ cmd = Idle
    BY <1>2 DEF Await, Prepares
  <2>2. SetupGoesOn
    BY <1>2, <2>1, AdvanceGoesOn, ThrowGoesOn DEF Await
  <2> QED
    BY <1>2, <2>1, <2>2, SetupGoesOnPreserves DEF Await, world
<1>3. CASE SetupSql
  <2>1. phase = "SETUP" /\ cmd = Idle
    BY <1>3 DEF SetupSql, Prepares
  <2>2. SetupGoesOn
    BY <1>3, <2>1, AdvanceGoesOn, ThrowGoesOn DEF SetupSql
  <2> QED
    BY <1>3, <2>1, <2>2, SetupGoesOnPreserves DEF SetupSql
<1> QED
  BY <1>1, <1>2, <1>3, PreparePreserves, IssueSetupPreserves DEF SetUp


-----------------------------------------------------------------------------
(* The eight checks.                                                       *)

LEMMA FencePreserves ==
  ASSUME ValidationInv, FenceCandidate \/ ObserveAll
  PROVE  ValidationInv'
<1>1. /\ phase \in {"FENCE", "FINAL"} /\ next' = 1
      /\ UNCHANGED world /\ UNCHANGED <<cmd, sealed, attempted, verdict, results, looked>>
      /\ \/ phase = "FENCE" /\ phase' = "OBSERVE" /\ trouble' = trouble
         \/ phase = "FINAL" /\ phase' = "CLOSING" /\ trouble' = trouble
         \/ phase' = "CLOSING" /\ trouble' # {} /\ trouble \subseteq trouble'
  BY DEF FenceCandidate, ObserveAll, Throws, Goes
<1> QED
  BY <1>1 DEF world, ValidationInv, InPlace, Sealed, Earned, Counted, Marked, SeenGone,
       SandboxGone, Making, Checking, Removing

\* An observation that fails ends the checks with trouble.
LEMMA ObserveCheckPreserves ==
  ASSUME ValidationInv, ObserveCheck
  PROVE  ValidationInv'
<1>1. /\ phase = "OBSERVE"
      /\ UNCHANGED world /\ UNCHANGED <<cmd, sealed, attempted, verdict, results, looked>>
      /\ \/ phase' \in {"VERIFY", "RUN"} /\ UNCHANGED <<next, trouble>>
         \/ phase' = "CLOSING" /\ next' = 1 /\ trouble' # {} /\ trouble \subseteq trouble'
  BY DEF ObserveCheck, Throws, Goes
<1> QED
  BY <1>1 DEF world, ValidationInv, InPlace, Sealed, Earned, Counted, Marked, SeenGone,
       SandboxGone, Making, Checking, Removing

LEMMA VerdictFields ==
  /\ Ran(TRUE, TRUE).earned = TRUE
  /\ Ran(FALSE, FALSE).zero = FALSE
BY DEF Ran

LEMMA RunCheckPreserves ==
  ASSUME ValidationInv, VerifyBundle \/ RunDbt \/ ReverifyBundle \/ RunSql
  PROVE  ValidationInv'
<1>1. /\ phase \in {"VERIFY", "RUN", "REVERIFY"} /\ phase' \in {"RUN", "REVERIFY", "RECORD"}
      /\ UNCHANGED <<late, checkout, sandbox, bundle, objects, next, cmd, sealed, attempted, results,
                     trouble, looked>>
  BY DEF VerifyBundle, RunDbt, ReverifyBundle, RunSql, world
<1>2. \A k \in Kinds : sealed[k] = "CANDIDATE"
  BY <1>1 DEF ValidationInv, Sealed, Checking
<1>3. /\ phase' = "REVERIFY" /\ verdict'.zero => verdict'.earned \/ bundle # "SEALED"
      /\ phase' = "RECORD" /\ verdict'.zero => verdict'.earned
  <2>1. CASE VerifyBundle
    BY <2>1 DEF VerifyBundle, FailsCheck, Ran
  <2>2. CASE RunDbt
    <3>1. /\ phase' = "REVERIFY"
          /\ \/ FailsCheck
             \/ verdict' = Ran(TRUE, bundle = "SEALED" /\ sealed["DBT"] = "CANDIDATE")
      BY <2>2 DEF RunDbt
    <3>2. sealed["DBT"] = "CANDIDATE"
      BY <1>2 DEF Kinds
    <3>3. CASE bundle = "SEALED"
      <4>1. FailsCheck \/ verdict' = Ran(TRUE, TRUE)
        <5>1. (bundle = "SEALED" /\ sealed["DBT"] = "CANDIDATE") = TRUE
          BY <3>2, <3>3
        <5> QED
          BY <3>1, <5>1
      <4> QED
        BY <3>1, <4>1, VerdictFields DEF FailsCheck
    <3> QED
      BY <3>1, <3>3
  <2>3. CASE ReverifyBundle
    BY <2>3 DEF ReverifyBundle, FailsCheck, Ran, Verifies, ValidationInv, Earned
  <2>4. CASE RunSql
    <3>1. /\ phase' = "RECORD"
          /\ FailsCheck \/ verdict' = Ran(TRUE, sealed[Program(Check)] = "CANDIDATE")
      BY <2>4 DEF RunSql
    <3>2. (sealed[Program(Check)] = "CANDIDATE") = TRUE
      BY <1>2 DEF Kinds, Program
    <3>3. FailsCheck \/ verdict' = Ran(TRUE, TRUE)
      BY <3>1, <3>2
    <3> QED
      BY <3>1, <3>3, VerdictFields DEF FailsCheck
  <2> QED
    BY <2>1, <2>2, <2>3, <2>4
<1> QED
  BY <1>1, <1>3 DEF ValidationInv, InPlace, Sealed, Earned, Counted, Marked, SeenGone,
       SandboxGone, Making, Checking, Removing

LEMMA RecordCheckPreserves ==
  ASSUME ValidationInv, RecordCheck
  PROVE  ValidationInv'
<1>1. /\ phase = "RECORD"
      /\ UNCHANGED world /\ UNCHANGED <<cmd, sealed, attempted, looked>>
  BY DEF RecordCheck
<1>2. next \in 1 .. 8 /\ Len(Checks) = 8
  BY <1>1, SetupKnown DEF ValidationInv, InPlace, Checking
<1>3. CASE /\ results' = [checks  |-> results.checks + 1,
                          allPass |-> results.allPass /\ verdict.zero,
                          earned  |-> results.earned /\ (verdict.zero => verdict.earned)]
           /\ IF next < Len(Checks) THEN phase' = "OBSERVE" /\ next' = next + 1
                                    ELSE Goes("FINAL")
           /\ UNCHANGED trouble
  <2>1. results'.earned = TRUE /\ results'.checks = results.checks + 1
    <3>1. results.earned = TRUE /\ (verdict.zero => verdict.earned)
      BY <1>1 DEF ValidationInv, Earned
    <3> QED
      BY <1>3, <3>1
  <2>2. trouble' = {} => results'.checks = next
    BY <1>1, <1>2, <1>3, <2>1 DEF ValidationInv, Counted, Checking
  <2>3. \/ next < 8 /\ phase' = "OBSERVE" /\ next' = next + 1
        \/ next = 8 /\ phase' = "FINAL" /\ next' = 1
    BY <1>2, <1>3 DEF Goes
  <2>4. Counted'
    BY <1>2, <2>2, <2>3 DEF Counted, Making, Checking
  <2>5. InPlace' /\ Sealed' /\ Earned'
    BY <1>1, <1>2, <2>1, <2>3 DEF world, ValidationInv, InPlace, Sealed, Earned, Checking, Removing
  <2> QED
    BY <1>1, <1>3, <2>3, <2>4, <2>5 DEF world, ValidationInv, Marked, SeenGone, SandboxGone,
         Making, Checking, Removing
<1>4. CASE Throws("CHECKS", "CLOSING") /\ UNCHANGED results
  BY <1>1, <1>4 DEF Throws, Goes, world, ValidationInv, InPlace, Sealed, Earned, Counted, Marked,
       SeenGone, SandboxGone, Making, Checking, Removing
<1> QED
  BY <1>3, <1>4 DEF RecordCheck

LEMMA RunChecksPreserve ==
  ASSUME ValidationInv, RunChecks
  PROVE  ValidationInv'
BY FencePreserves, ObserveCheckPreserves, RunCheckPreserves, RecordCheckPreserves DEF RunChecks

-----------------------------------------------------------------------------
(* The clean-up and the commands.                                          *)

LEMMA CloseDatabasePreserves ==
  ASSUME ValidationInv, StartCleanup \/ EndClient \/ DropDatabase \/ EndAdmin
  PROVE  ValidationInv'
<1>1. /\ phase \in {"CLOSING", "END_CLIENT", "DROP", "END_ADMIN"} /\ next' = 1
      /\ phase' \in {"END_CLIENT", "DROP", "END_ADMIN", "LOOK"}
      /\ UNCHANGED <<late, sandbox, checkout, bundle, objects>>
      /\ UNCHANGED <<cmd, sealed, attempted, verdict, results, looked>>
      /\ trouble' \in {trouble, trouble \cup {"DATABASE"}}
  BY DEF StartCleanup, EndClient, DropDatabase, EndAdmin, Ends, Goes, world
<1>2. PassedBy(0)' /\ next' - 1 = 0
  BY <1>1 DEF PassedBy
<1>3. InPlace' /\ Sealed' /\ Earned' /\ Counted' /\ Marked' /\ SandboxGone'
  BY <1>1 DEF ValidationInv, InPlace, Sealed, Earned, Counted, Marked, SandboxGone, Making, Checking,
       Removing
<1>4. SeenGone'
  BY <1>1, <1>2 DEF SeenGone
<1> QED
  BY <1>3, <1>4 DEF ValidationInv

\* What leaves the removal of one object: it was never attempted, it was seen
\* gone, or there is trouble.
RemovalGoesOn ==
  /\ phase \in Removing
  /\ \/ next < 4 /\ phase' = "LOOK" /\ next' = next + 1
     \/ next = 4 /\ phase' = "DISCARD" /\ next' = 1
  /\ looked \subseteq looked'
  /\ \/ trouble' = trouble \cup {"OBJECTS"}
     \/ trouble' = trouble /\ (Removal[next] \in attempted => Removal[next] \in looked')

LEMMA RemovalGoesOnPreserves ==
  ASSUME ValidationInv, RemovalGoesOn, cmd' = Idle, late' \subseteq late \cup {cmd},
         UNCHANGED <<sandbox, checkout, bundle, objects, sealed, attempted, verdict, results>>
  PROVE  ValidationInv'
<1>1. next \in 1 .. 4
  BY DEF ValidationInv, InPlace, RemovalGoesOn
<1>2. InPlace' /\ Sealed' /\ Earned' /\ Counted' /\ Marked' /\ SandboxGone'
  BY <1>1 DEF RemovalGoesOn, Idle, ValidationInv, InPlace, Sealed, Earned, Counted, Marked,
       SandboxGone, Making, Checking, Removing
<1>3. ASSUME "OBJECTS" \notin trouble'
      PROVE  \A i \in 1 .. next : Removal[i] \in attempted => Removal[i] \in looked'
  BY <1>1, <1>3 DEF RemovalGoesOn, ValidationInv, SeenGone, PassedBy
<1>4. CASE phase' = "LOOK" /\ next' = next + 1
  <2>1. next' - 1 = next
    BY <1>1, <1>4
  <2> QED
    BY <1>2, <1>3, <1>4, <2>1 DEF ValidationInv, SeenGone, PassedBy
<1>5. CASE next = 4 /\ phase' = "DISCARD"
  <2>1. ASSUME "OBJECTS" \notin trouble' PROVE attempted \subseteq looked'
    <3>1. attempted \subseteq {Removal[i] : i \in 1 .. 4}
      BY SetupKnown DEF ValidationInv, Marked
    <3> QED
      BY <1>3, <1>5, <2>1, <3>1
  <2> QED
    BY <1>2, <1>5, <2>1 DEF ValidationInv, SeenGone, Removing
<1> QED
  BY <1>4, <1>5 DEF RemovalGoesOn

LEMMA FailedGoesOn ==
  ASSUME ValidationInv, phase \in Removing, Failed, looked' = looked
  PROVE  RemovalGoesOn
<1>1. next \in 1 .. 4 /\ Len(Removal) = 4 /\ phase # "SETUP"
  BY SetupKnown DEF ValidationInv, InPlace, Removing
<1> QED
  BY <1>1 DEF Failed, Goes, RemovalGoesOn

LEMMA AfterRemovalGoesOn ==
  ASSUME ValidationInv, phase \in Removing, AfterRemoval, trouble' = trouble, looked \subseteq looked',
         Removal[next] \in attempted => Removal[next] \in looked'
  PROVE  RemovalGoesOn
<1>1. next \in 1 .. 4 /\ Len(Removal) = 4
  BY SetupKnown DEF ValidationInv, InPlace
<1> QED
  BY <1>1 DEF AfterRemoval, Goes, RemovalGoesOn

LEMMA LookForObjectPreserves ==
  ASSUME ValidationInv, LookForObject
  PROVE  ValidationInv'
<1>1. phase = "LOOK" /\ phase \in Removing /\ cmd = Idle
  BY DEF LookForObject, ValidationInv, InPlace, Removing
<1>2. UNCHANGED world /\ UNCHANGED <<sealed, attempted, verdict, results>>
  BY DEF LookForObject
<1>3. CASE RemovalGoesOn /\ UNCHANGED cmd
  BY <1>1, <1>2, <1>3, RemovalGoesOnPreserves DEF world
<1>4. CASE /\ cmd' = Command("REMOVE", Removal[next])
           /\ phase' = "REMOVE" /\ UNCHANGED <<next, trouble, looked>>
  <2>1. cmd' = [does |-> cmd'.does, on |-> cmd'.on, done |-> cmd'.done] /\ cmd'.does = "REMOVE"
    BY <1>4 DEF Command
  <2> QED
    BY <1>1, <1>2, <1>4, <2>1 DEF world, ValidationInv, InPlace, Sealed, Earned, Counted, Marked,
         SeenGone, SandboxGone, PassedBy, Making, Checking, Removing
<1> QED
  BY <1>1, <1>3, <1>4, FailedGoesOn, AfterRemovalGoesOn DEF LookForObject

LEMMA ProveRemovalPreserves ==
  ASSUME ValidationInv, ProveRemoval
  PROVE  ValidationInv'
<1>1. phase \in Removing /\ cmd = Idle
  BY DEF ProveRemoval, ValidationInv, InPlace, Removing
<1>2. RemovalGoesOn
  BY <1>1, FailedGoesOn, AfterRemovalGoesOn DEF ProveRemoval
<1> QED
  BY <1>1, <1>2, RemovalGoesOnPreserves DEF ProveRemoval, world

LEMMA DiscardPreserves ==
  ASSUME ValidationInv, Discard
  PROVE  ValidationInv'
<1>1. /\ phase = "DISCARD" /\ phase' = "DONE" /\ next' = 1
      /\ UNCHANGED <<late, checkout, bundle, objects, cmd, sealed, attempted, verdict, results, looked>>
      /\ \/ sandbox' = "GONE" /\ trouble' = trouble
         \/ trouble' = trouble \cup {"SANDBOX"} /\ sandbox' = sandbox
  BY DEF Discard, Goes
<1> QED
  BY <1>1 DEF ValidationInv, InPlace, Sealed, Earned, Counted, Marked, SeenGone, SandboxGone,
       Making, Checking, Removing

\* The answer of a command, or none: the next step of the set-up, or what a
\* removal leads to.
LEMMA SettlesPreserves ==
  ASSUME ValidationInv, Settles
  PROVE  ValidationInv'
<1>1. /\ phase \in {"SETUP", "REMOVE"} /\ cmd' = Idle /\ late' \subseteq late \cup {cmd}
      /\ UNCHANGED <<sandbox, checkout, bundle, objects, sealed, attempted, verdict, results, looked>>
  BY DEF Settles, ExitZero, ExitNonZero, Kill, Killed, world, ValidationInv, InPlace
<1>2. CASE Failed
  <2>1. CASE phase = "SETUP"
    <3>1. SetupGoesOn
      BY <1>2, <2>1, ThrowGoesOn DEF Failed
    <3> QED
      BY <1>1, <3>1, SetupGoesOnPreserves
  <2>2. CASE phase = "REMOVE"
    <3>1. RemovalGoesOn
      BY <1>1, <1>2, <2>2, FailedGoesOn DEF Removing
    <3> QED
      BY <1>1, <3>1, RemovalGoesOnPreserves
  <2> QED
    BY <1>1, <2>1, <2>2
<1>3. CASE ExitZero
  <2>1. CASE phase = "SETUP"
    <3>1. SetupGoesOn
      BY <1>3, <2>1, AdvanceGoesOn DEF ExitZero
    <3> QED
      BY <1>1, <3>1, SetupGoesOnPreserves
  <2>2. CASE phase = "REMOVE"
    <3>1. phase' = "GONE" /\ UNCHANGED <<next, trouble, late>>
      BY <1>3, <2>2 DEF ExitZero, world
    <3> QED
      BY <1>1, <2>2, <3>1 DEF Idle, ValidationInv, InPlace, Sealed, Earned, Counted, Marked,
           SeenGone, SandboxGone, PassedBy, Making, Checking, Removing
  <2> QED
    BY <1>1, <2>1, <2>2
<1> QED
  BY <1>2, <1>3 DEF Settles, ExitNonZero, Kill

LEMMA ExecutorPreserves ==
  ASSUME ValidationInv, Executor
  PROVE  ValidationInv'
BY MaterializePreserves, SetUpPreserves, RunChecksPreserve, CloseDatabasePreserves,
   LookForObjectPreserves, ProveRemovalPreserves, DiscardPreserves, SettlesPreserves
   DEF Executor, CleanUp

LEMMA DeadlinePreserves ==
  ASSUME ValidationInv, Deadline
  PROVE  ValidationInv'
BY DEF Deadline, world, ValidationInv, InPlace, Sealed, Earned, Counted, Marked, SeenGone,
       SandboxGone, PassedBy

-----------------------------------------------------------------------------
(* The daemon and the others.                                              *)

\* Only what was asked for comes to exist.
LEMMA DoneIsMarked ==
  ASSUME NEW c, Done(c), objects \subseteq attempted, c.does = "CREATE" => c.on \in attempted
  PROVE  objects' \subseteq attempted
<1>1. CASE c.does = "CREATE"
  BY <1>1 DEF Done
<1>2. CASE c.does = "REMOVE"
  BY <1>2 DEF Done
<1>3. CASE c.does \notin {"CREATE", "REMOVE"}
  BY <1>3 DEF Done
<1> QED
  BY <1>1, <1>2, <1>3

LEMMA OthersValidatePreserves ==
  ASSUME ValidationInv, Others
  PROVE  ValidationInv'
<1>1. CASE DaemonDoes
  <2>1. /\ phase \in {"SETUP", "REMOVE"} /\ cmd' = [cmd EXCEPT !.done = TRUE]
        /\ bundle' = BundleAfter(cmd)
        /\ UNCHANGED <<late, sandbox, checkout, phase, next, sealed, attempted, verdict, results,
                       trouble, looked>>
    BY <1>1 DEF DaemonDoes, ValidationInv, InPlace
  <2>2. cmd'.does = cmd.does /\ cmd'.on = cmd.on
        /\ cmd' = [does |-> cmd'.does, on |-> cmd'.on, done |-> cmd'.done]
    BY <2>1 DEF ValidationInv, InPlace
  <2>3. objects' \subseteq attempted
    BY <1>1, DoneIsMarked DEF DaemonDoes, ValidationInv, Marked
  <2> QED
    BY <2>1, <2>2, <2>3 DEF ValidationInv, InPlace, Sealed, Earned, Counted, Marked, SeenGone,
         SandboxGone, PassedBy, Making, Checking, Removing
<1>2. CASE DaemonLate
  <2>1. PICK c \in late : late' = late \ {c} /\ IF Allowed(c) THEN Done(c) ELSE UNCHANGED objects
    BY <1>2 DEF DaemonLate
  <2>2. objects' \subseteq attempted
    BY <2>1, DoneIsMarked DEF ValidationInv, Marked
  <2> QED
    BY <1>2, <2>1, <2>2 DEF DaemonLate, executor, ValidationInv, InPlace, Sealed, Earned, Counted,
         Marked, SeenGone, SandboxGone, PassedBy
<1>3. CASE EditCheckout
  <2>1. checkout' \in [Kinds -> Contents]
    BY <1>3 DEF EditCheckout, ValidationInv, InPlace, Contents
  <2> QED
    BY <1>3, <2>1 DEF EditCheckout, executor, ValidationInv, InPlace, Sealed, Earned, Counted,
         Marked, SeenGone, SandboxGone, PassedBy
<1>4. CASE ReplaceSandbox
  BY <1>4 DEF ReplaceSandbox, Edit, executor, ValidationInv, InPlace, Sealed, Earned, Counted,
       Marked, SeenGone, SandboxGone, PassedBy
<1>5. CASE EditBundle
  BY <1>5 DEF EditBundle, executor, ValidationInv, InPlace, Sealed, Earned, Counted,
       Marked, SeenGone, SandboxGone, PassedBy
<1>6. CASE RemoveContainer
  BY <1>6 DEF RemoveContainer, executor, ValidationInv, InPlace, Sealed, Earned, Counted,
       Marked, SeenGone, SandboxGone, PassedBy
<1> QED
  BY <1>1, <1>2, <1>3, <1>4, <1>5, <1>6 DEF Others

LEMMA ValidationIsSound ==
  ASSUME ValidationInv
  PROVE  NothingLeftBehind /\ EvidenceIsEarned
<1>1. NothingLeftBehind
  BY DEF ValidationInv, Marked, SeenGone, SandboxGone, NothingLeftBehind
<1>2. EvidenceIsEarned
  BY SetupKnown DEF ValidationInv, Counted, Earned, EvidenceIsEarned, HasEvidence, Making, Checking
<1> QED
  BY <1>1, <1>2

=============================================================================
