----------------------------- MODULE ScenarioTool -----------------------------
(***************************************************************************)
(* The scenario tool of tools/datahub: commands that prepare a warehouse   *)
(* and a DataHub catalog, each under one owner lock and each leaving       *)
(* receipts in an append-only journal.                                     *)
(*                                                                         *)
(* A command may die between any two of its durable steps, other people    *)
(* edit the catalog meanwhile, and what a command left unresolved has to   *)
(* be settled from the live catalog by a reconciling command.              *)
(*                                                                         *)
(* The journal is kept as what its readers see of it: the latest receipt   *)
(* of every operation, the order of the latest receipts of the preparation *)
(* chain, and the entities that have a creation receipt.  A receipt is     *)
(* reduced to the distinctions its readers make.  Two entities belong to   *)
(* the tool: "asset", which the seed writes, and "query", which the live   *)
(* query evidence writes.  "overlay" and "lineage" are aspects the seed    *)
(* adds to datasets that a connector owns, the second one merged with what *)
(* the dbt connector put there.                                            *)
(*                                                                         *)
(* A request whose answer failed, or whose sender died, is not over: the   *)
(* server may carry it out at any later moment, or never, and a child of a *)
(* killed command goes on without the lock.                                *)
(***************************************************************************)
EXTENDS Naturals, Sequences, Functions

CONSTANTS
  Procs,            \* processes running the command line tool
  NoProc,           \* the lock is free
  MaxObservations,  \* bound: how often the query is observed
  MaxChainRuns,     \* bound: how many chain commands are started
  MaxEdits,         \* bound: edits of the catalog by somebody else
  MaxDisturbances,  \* bound: such edits, and commands that die or fail under the
                    \* lock, together
  MaxEvents         \* bound: chain commands and disturbances together

ASSUME ScenarioAssumption ==
  /\ NoProc \notin Procs
  /\ MaxObservations \in Nat /\ MaxChainRuns \in Nat
  /\ MaxEdits \in Nat /\ MaxDisturbances \in Nat /\ MaxEvents \in Nat

VARIABLES
  receipts,   \* operation -> what its latest receipt says
  order,      \* chain operation -> those whose latest receipt does not follow its
              \* own, itself among them once it has one
  created,    \* entities with an ENTITY_CREATED receipt
  succeeded,  \* query aspects with a SUCCESS receipt, the latest or not
  counts,     \* counts[n]: executions that observation n of the query saw
  live,       \* the catalog: aspect -> value
  usage,      \* latest observation in the query's usage statistics, 0: none
  lock,       \* the process that holds scenario-operation.lock
  proc,       \* process -> its command and how far it is
  effects,    \* history: chain operation -> those that last ran no later than it,
              \* itself among them once it has run
  maker,      \* history: entity -> who made it come to exist
  late,       \* operations whose request or child may outlive its sender
  stray,      \* history: those carried out after their latest receipt settled them
  touched,    \* history: aspects edited by others while a command ran, or a
              \* request of one was on its way
  edits,      \* edits by others so far
  runs,       \* chain commands started so far
  failures    \* commands that died or failed under the lock so far

journal == <<receipts, order, created, succeeded, counts, stray>>
catalog == <<live, usage, maker>>
others  == <<late, touched, edits>>
counters == <<runs, failures>>
vars == <<journal, catalog, lock, proc, effects, others, counters>>

-----------------------------------------------------------------------------
(* Operations, aspects and receipts *)

Op(kind, item) == <<kind, item, 0>>

\* Observation n has an idempotency key of its own: its timestamp is hashed.
Usage(n) == <<"ingest-query", "usage", n>>

Warehouse == Op("warehouse", "canonical-schema")
Build     == Op("dbt-build", "build")
Docs      == Op("dbt-build", "docs-generate")
Artifacts == Op("dbt-build", "artifact-set")
Observed  == Op("query", "pg_stat_statements")
Postgres  == Op("ingest", "postgres")
DbtIngest == Op("ingest", "dbt")

\* The preparation chain, command by command.  Its effects are declarative:
\* a failed command is simply run again.
ChainPlan ==
  [warehouse |-> <<Warehouse>>,
   dbt       |-> <<Build, Docs, Artifacts>>,
   query     |-> <<Observed>>,
   postgres  |-> <<Postgres>>,
   dbtIngest |-> <<DbtIngest>>]

SeedPlan == <<Op("seed", "info"), Op("seed", "ownership"),
              Op("seed", "overlay"), Op("seed", "lineage"), Op("seed", "status")>>

QueryPlanFor(n) ==
  <<Op("ingest-query", "properties"), Op("ingest-query", "queryStatus"), Usage(n)>>

QueryPlan == QueryPlanFor(Len(counts))

Entities == {"asset", "query"}
Reset(e) == Op("reset", e)

ChainOps == {Warehouse, Build, Docs, Artifacts, Observed, Postgres, DbtIngest}
SeedOps  == Range(SeedPlan)
StableQueryOps == {Op("ingest-query", a) : a \in {"properties", "queryStatus"}}
QueryOps == StableQueryOps \cup {Usage(n) : n \in 1..MaxObservations}
ResetOps == {Reset(e) : e \in Entities}
EffectOps == SeedOps \cup QueryOps \cup ResetOps

Aspects(e) == IF e = "asset" THEN {"info", "ownership", "status"}
                             ELSE {"properties", "queryStatus"}
Marker(e)  == IF e = "asset" THEN "info" ELSE "properties"
Status(e)  == IF e = "asset" THEN "status" ELSE "queryStatus"
Overlays == {"overlay", "lineage"}
AllAspects == Aspects("asset") \cup Aspects("query") \cup Overlays

\* "ours" is what the plan proposes; "removed" a soft delete; for the overlay,
\* "absent" is a dataset without it and "missing" no dataset at all.  Lineage
\* is "native" with the connector's own edge alone, "other" with somebody's entry
\* for an upstream of the plan, and "foreign" with any other upstream.
Values == {"missing", "absent", "native", "ours", "other", "foreign", "removed"}

\* APPLIED: SUCCESS, or SKIPPED as exact or as found applied by a
\* reconciliation.  NOT_APPLIED: SKIPPED because found not applied.  REQUIRED:
\* RECONCILIATION_REQUIRED by the command itself, CONFLICT by a reconciliation.
Pending == {"PLANNED", "FAILURE", "REQUIRED", "CONFLICT"}
Marks == {"NONE", "APPLIED", "NOT_APPLIED"} \cup Pending

\* Operations with a live effect that has to be inspected before it is retried.
Unresolved == {o \in EffectOps : receipts[o] \in Pending}

Exists(e) == \E a \in Aspects(e) : live[a] # "absent"
Marked(e) == live[Marker(e)] = "ours"
Exact(e)  == \A a \in Aspects(e) : live[a] = "ours"

\* A soft delete is undone by the plan; every other difference is drift.
Drift(e) ==
  {a \in Aspects(e) :
     /\ live[a] \notin {"absent", "ours"}
     /\ ~(a = Status(e) /\ live[a] = "removed")}

-----------------------------------------------------------------------------
(* What the journal has to prove before a command may go on *)

Done(o) == receipts[o] = "APPLIED"

\* The operations that an order has a place for.
Placed(s) == {o \in ChainOps : o \in s[o]}

\* Variant: both were done, in whatever order.
BothDone(o1, o2) == Done(o1) /\ Done(o2)

Before(o1, o2) == Done(o1) /\ Done(o2) /\ o1 \in order[o2]

\* The three receipts of one build, after the warehouse; none of a later one.
DbtCurrent ==
  /\ Before(Warehouse, Build) /\ Before(Build, Docs) /\ Before(Docs, Artifacts)
  /\ \A o \in Placed(order) : o[1] = "dbt-build" => o \in order[Artifacts]

QueryCurrent == DbtCurrent /\ Before(Artifacts, Observed)
PostgresCurrent == QueryCurrent /\ Before(Observed, Postgres)
ChainCurrent == PostgresCurrent /\ Before(Postgres, DbtIngest)

Prerequisites(c) ==
  CASE c = "warehouse" -> TRUE
    [] c = "dbt"       -> Done(Warehouse)
    [] c = "query"     -> DbtCurrent
    [] c = "postgres"  -> QueryCurrent
    [] c = "dbtIngest" -> DbtCurrent
    [] c = "upsert"    -> PostgresCurrent
    [] c = "seed"      -> ChainCurrent

\* A reset is planned from the creation receipts.  That of the query has to
\* match the SUCCESS receipts of its aspects.
ResetPlannable ==
  /\ created # {}
  /\ "query" \in created => StableQueryOps \subseteq succeeded

ResetPlan ==
  CASE created = Entities  -> <<Reset("query"), Reset("asset")>>
    [] created = {"query"} -> <<Reset("query")>>
    [] created = {"asset"} -> <<Reset("asset")>>
    [] OTHER               -> <<>>

-----------------------------------------------------------------------------
(* Processes, the lock and the journal *)

ChainCommands == DOMAIN ChainPlan
Plans == {"seed", "upsert"}
Commands == ChainCommands \cup Plans \cup {"reset", "reconcile"}

\* "plan" are the operations a command carries out, "i" the current one; "fresh"
\* that the entity did not exist at the preflight; "todo" and "adopt" are those
\* a reconciliation has to settle and the entities it found applied.
Idle == [cmd |-> "idle", pc |-> "", plan |-> <<>>, i |-> 0, fresh |-> FALSE,
         kind |-> "", todo |-> {}, adopt |-> {}]

Current(p) == proc[p].plan[proc[p].i]

Is(p, pc) == lock = p /\ proc[p].pc = pc

\* Ends the command of p, normally or by an exception: the lock is released.
\* A command "ingest" is three sections that lock for themselves.
Stop(p) == lock' = NoProc /\ proc' = [proc EXCEPT ![p] = Idle]

NextSection(c) == CASE c = "postgres" -> "upsert" [] c = "upsert" -> "dbtIngest"
                    [] OTHER -> "idle"

Finish(p) ==
  LET next == NextSection(proc[p].cmd)
  IN  /\ lock' = NoProc
      /\ proc' = [proc EXCEPT ![p] =
                    IF next = "idle" THEN Idle
                    ELSE [Idle EXCEPT !.cmd = next, !.pc = "waiting"]]

Goto(p, pc) == proc' = [proc EXCEPT ![p].pc = pc] /\ UNCHANGED lock

\* On to the next operation of the plan, at pc; the last one ends the command.
Advance(p, pc) ==
  IF proc[p].i = Len(proc[p].plan) THEN Finish(p)
  ELSE /\ proc' = [proc EXCEPT ![p].i = @ + 1, ![p].pc = pc]
       /\ UNCHANGED lock

MovedToEnd(s, o) ==
  [q \in ChainOps |-> IF q = o THEN Placed(s) \cup {o} ELSE s[q] \ {o}]

\* One durable receipt.
Receipt(o, mark) ==
  /\ receipts' = [receipts EXCEPT ![o] = mark] /\ stray' = stray \ {o}
  /\ order' = IF o \in ChainOps THEN MovedToEnd(order, o) ELSE order

Refuse(p, o) ==
  /\ Receipt(o, "REQUIRED") /\ Stop(p)
  /\ UNCHANGED <<created, succeeded, counts, catalog, effects, others, counters>>

WithinBounds == runs + edits + failures < MaxEvents

Undisturbed == edits + failures < MaxDisturbances /\ WithinBounds

Failing == Undisturbed /\ failures' = failures + 1

Take(p, changes) ==
  /\ lock' = p
  /\ proc' = [proc EXCEPT ![p] = changes]

Init ==
  /\ receipts = [o \in ChainOps \cup EffectOps |-> "NONE"]
  /\ order = [o \in ChainOps |-> {}] /\ effects = [o \in ChainOps |-> {}]
  /\ counts = <<>>
  /\ created = {} /\ succeeded = {}
  /\ live = [a \in AllAspects |-> IF a = "overlay" THEN "missing" ELSE "absent"]
  /\ usage = 0
  /\ maker = [e \in Entities |-> "nobody"]
  /\ lock = NoProc
  /\ proc = [p \in Procs |-> Idle]
  /\ late = {} /\ stray = {} /\ touched = {} /\ edits = 0 /\ runs = 0 /\ failures = 0

-----------------------------------------------------------------------------
(* The preparation chain: warehouse, dbt-build, query and the two recipes   *)
(* of ingest, each operation PLANNED, run, and its outcome recorded.        *)

\* A command gets the lock and passes its checks; refused, it changes nothing.
EnterChain(p) ==
  \E c \in ChainCommands :
    /\ lock = NoProc /\ Unresolved = {}
    /\ \/ proc[p].pc = "waiting" /\ proc[p].cmd = c
       \/ proc[p] = Idle /\ c # "dbtIngest"
    /\ Prerequisites(c)
    /\ runs < MaxChainRuns /\ WithinBounds /\ runs' = runs + 1
    /\ Take(p, [Idle EXCEPT !.cmd = c, !.pc = "plan", !.plan = ChainPlan[c], !.i = 1])
    /\ UNCHANGED <<journal, catalog, effects, others, failures>>

PlanChainOp(p) ==
  /\ Is(p, "plan") /\ proc[p].cmd \in ChainCommands
  /\ Receipt(Current(p), "PLANNED") /\ Goto(p, "run")
  /\ UNCHANGED <<created, succeeded, counts, catalog, effects, others, counters>>

\* The PostgreSQL connector creates the dataset the overlay goes on, the dbt
\* connector adds the lineage of its own sibling to what there is.
ChainEffect(o) ==
  /\ effects' = MovedToEnd(effects, o)
  /\ live' = [live EXCEPT
       !["overlay"] = IF o = Postgres /\ @ = "missing" THEN "absent" ELSE @,
       !["lineage"] = IF o = DbtIngest /\ @ = "absent" THEN "native" ELSE @]

\* The command does its work.  A FAILURE receipt tells the readers of the chain
\* what PLANNED tells them, so a failing command is one that ends here, before
\* or after its work.
RunChainOp(p) ==
  /\ Is(p, "run") /\ proc[p].cmd \in ChainCommands
  /\ ChainEffect(Current(p)) /\ Goto(p, "record")
  /\ UNCHANGED <<journal, usage, maker, others, counters>>

\* Its success, for the query with what pg_stat_statements counted: no less than
\* the first time, 2, or less, 1, when somebody has reset it since.  Only how two
\* counts compare is read.
RecordChainOp(p) ==
  /\ Is(p, "record") /\ proc[p].cmd \in ChainCommands
  /\ IF Current(p) = Observed
     THEN /\ Len(counts) < MaxObservations
          /\ \E n \in {1, 2} : (counts = <<>> => n = 2) /\ counts' = Append(counts, n)
     ELSE UNCHANGED counts
  /\ Receipt(Current(p), "APPLIED") /\ Advance(p, "plan")
  /\ UNCHANGED <<created, succeeded, catalog, effects, others, counters>>

-----------------------------------------------------------------------------
(* metadata-seed, and the live query evidence in the middle of ingest *)

Entity(p) == IF proc[p].cmd = "seed" THEN "asset" ELSE "query"

\* Variant: nothing in the lineage there is stops a seed.
LineageNotRead == TRUE

\* The plan of a seed, and of its reconciliation, merges the lineage there is:
\* an entry for an upstream of its own is superseded, any other is refused.
LineageMergeable == live["lineage"] # "foreign"

EnterUpsert(p) ==
  /\ lock = NoProc /\ Unresolved = {}
  /\ \/ /\ proc[p] = Idle /\ Prerequisites("seed") /\ LineageMergeable
        /\ Take(p, [Idle EXCEPT !.cmd = "seed", !.pc = "plan", !.plan = SeedPlan, !.i = 1])
     \/ /\ proc[p].pc = "waiting" /\ proc[p].cmd = "upsert" /\ Prerequisites("upsert")
        /\ Take(p, [Idle EXCEPT !.cmd = "upsert", !.pc = "plan", !.plan = QueryPlan, !.i = 1])
  /\ UNCHANGED <<journal, catalog, effects, others, counters>>

\* Everything is PLANNED before the catalog is looked at.
PlanUpsert(p) ==
  /\ Is(p, "plan") /\ proc[p].cmd \in Plans
  /\ Receipt(Current(p), "PLANNED")
  /\ IF proc[p].i < Len(proc[p].plan) THEN Advance(p, "plan")
     ELSE /\ proc' = [proc EXCEPT ![p].i = 1, ![p].pc = "preflight"]
          /\ UNCHANGED lock
  /\ UNCHANGED <<created, succeeded, counts, catalog, effects, others, counters>>

\* Variant: the preflight does not look at other overlays.
OverlayNotCompared ==
  IF Exists("asset") /\ ~Exact("asset") /\ ("asset" \notin created \/ ~Marked("asset"))
  THEN {"info"}
  ELSE IF Exists("asset") /\ Drift("asset") # {} THEN Drift("asset")
  ELSE IF live["overlay"] = "missing" THEN {"overlay"}
  ELSE {}

\* What the seed finds in the way: an existing entity that is neither exactly
\* what it would write nor its own, drift of its own entity, or a connector's
\* dataset that is missing or has another overlay.  Lineage is not compared.
SeedObstacles ==
  IF Exists("asset") /\ ~Exact("asset") /\ ("asset" \notin created \/ ~Marked("asset"))
  THEN {"info"}
  ELSE IF Exists("asset") /\ Drift("asset") # {} THEN Drift("asset")
  ELSE IF live["overlay"] \in {"missing", "other"} THEN {"overlay"}
  ELSE {}

\* What the live query evidence finds: exactness does not excuse a query
\* entity without a creation receipt.
QueryObstacles ==
  IF Exists("query") /\ ("query" \notin created \/ ~Marked("query")) THEN {"properties"}
  ELSE Drift("query")

Preflight(p) ==
  /\ Is(p, "preflight")
  /\ LET obstacles == IF proc[p].cmd = "seed" THEN SeedObstacles ELSE QueryObstacles
     IN  IF obstacles # {}
         THEN \E a \in obstacles :
                Refuse(p, Op(IF proc[p].cmd = "seed" THEN "seed" ELSE "ingest-query", a))
         ELSE /\ proc' = [proc EXCEPT ![p].pc = "emit", ![p].fresh = ~Exists(Entity(p))]
              /\ UNCHANGED <<journal, catalog, lock, effects, others, counters>>

IsUsage(o) == o[2] = "usage"
InPlace(o) == IF IsUsage(o) THEN usage = o[3] ELSE live[o[2]] = "ours"

\* The statistics hold a later observation, or one that counted more.
NotMonotonic(o) ==
  /\ IsUsage(o) /\ usage # 0
  /\ usage >= o[3] \/ counts[usage] > counts[o[3]]

SkipExact(p) ==
  /\ Is(p, "emit") /\ InPlace(Current(p))
  /\ Receipt(Current(p), "APPLIED") /\ Advance(p, "emit")
  /\ UNCHANGED <<created, succeeded, counts, catalog, effects, others, counters>>

RefuseObservation(p) ==
  /\ Is(p, "emit") /\ ~InPlace(Current(p)) /\ NotMonotonic(Current(p))
  /\ Refuse(p, Current(p))

Writes(o) == IF o[1] = "seed" THEN "asset" ELSE "query"

\* The usage statistics are a time series: an earlier observation that comes
\* late does not replace the latest one.
Upsert(o) ==
  /\ live' = IF IsUsage(o) THEN live ELSE [live EXCEPT ![o[2]] = "ours"]
  /\ usage' = IF IsUsage(o) /\ usage < o[3] THEN o[3] ELSE usage
  /\ maker' = IF o[2] \in Aspects(Writes(o)) /\ ~Exists(Writes(o))
              THEN [maker EXCEPT ![Writes(o)] = "tool"] ELSE maker

ToEmit(p) == Is(p, "emit") /\ ~InPlace(Current(p)) /\ ~NotMonotonic(Current(p))

Emit(p) ==
  /\ ToEmit(p)
  /\ Upsert(Current(p)) /\ Goto(p, "record")
  /\ UNCHANGED <<journal, effects, others, counters>>

\* A request that failed, or whose sender died, is lost or on its way.
Sent(o) == late' \in {late, late \cup {o}}

EmitFails(p) ==
  /\ ToEmit(p) /\ Sent(Current(p))
  /\ Receipt(Current(p), "FAILURE") /\ Stop(p) /\ Failing
  /\ UNCHANGED <<created, succeeded, counts, catalog, effects, touched, edits, runs>>

\* The first aspect of a new entity is followed by a receipt of its creation:
\* for the seed the first it emits, for the query only the first of the plan.
CreatesEntity(p) ==
  /\ proc[p].fresh /\ Current(p)[2] \in Aspects(Entity(p))
  /\ proc[p].cmd = "upsert" => proc[p].i = 1

RecordEmit(p) ==
  /\ Is(p, "record") /\ proc[p].cmd \in Plans
  /\ Receipt(Current(p), "APPLIED")
  /\ succeeded' = succeeded \cup ({Current(p)} \cap StableQueryOps)
  /\ IF CreatesEntity(p) THEN Goto(p, "create") ELSE Advance(p, "emit")
  /\ UNCHANGED <<created, counts, catalog, effects, others, counters>>

RecordCreation(p) ==
  /\ Is(p, "create")
  /\ created' = created \cup {Entity(p)}
  /\ IF proc[p].i = Len(proc[p].plan) THEN Finish(p)
     ELSE /\ proc' = [proc EXCEPT ![p].fresh = FALSE, ![p].i = @ + 1, ![p].pc = "emit"]
          /\ UNCHANGED lock
  /\ UNCHANGED <<receipts, stray, order, succeeded, counts, catalog, effects,
                 others, counters>>

-----------------------------------------------------------------------------
(* reset: soft deletion of the entities with a creation receipt *)

\* The journal is read, and the plan made, before the command has the lock.
PlanReset(p) ==
  /\ lock = NoProc /\ proc[p] = Idle /\ ResetPlannable
  /\ proc' = [proc EXCEPT ![p] =
                [Idle EXCEPT !.cmd = "reset", !.pc = "waiting", !.plan = ResetPlan]]
  /\ UNCHANGED <<journal, catalog, lock, effects, others, counters>>

\* Variant: a reset does not ask what is unresolved.
EnterResetAnyway(p) ==
  /\ lock = NoProc
  /\ proc[p].pc = "waiting" /\ proc[p].cmd = "reset"
  /\ Take(p, [proc[p] EXCEPT !.pc = "plan", !.i = 1])
  /\ UNCHANGED <<journal, catalog, effects, others, counters>>

EnterReset(p) ==
  /\ lock = NoProc /\ Unresolved = {}
  /\ proc[p].pc = "waiting" /\ proc[p].cmd = "reset"
  /\ Take(p, [proc[p] EXCEPT !.pc = "plan", !.i = 1])
  /\ UNCHANGED <<journal, catalog, effects, others, counters>>

\* Variant: a deletion leaves no receipt before it is carried out.
PlanDeleteUnrecorded(p) ==
  /\ Is(p, "plan") /\ proc[p].cmd = "reset"
  /\ Goto(p, "check")
  /\ UNCHANGED <<journal, catalog, effects, others, counters>>

PlanDelete(p) ==
  /\ Is(p, "plan") /\ proc[p].cmd = "reset"
  /\ Receipt(Current(p), "PLANNED") /\ Goto(p, "check")
  /\ UNCHANGED <<created, succeeded, counts, catalog, effects, others, counters>>

Target(p) == Current(p)[2]

\* Variant: the creation receipt is enough to delete by.
CheckStatusOnly(p) ==
  /\ Is(p, "check")
  /\ IF live[Status(Target(p))] = "removed"
     THEN /\ Receipt(Current(p), "APPLIED") /\ Advance(p, "plan")
          /\ UNCHANGED <<created, succeeded, counts, catalog, effects, others, counters>>
     ELSE /\ Goto(p, "delete")
          /\ UNCHANGED <<journal, catalog, effects, others, counters>>

CheckTarget(p) ==
  /\ Is(p, "check")
  /\ \/ /\ live[Status(Target(p))] = "removed"
        /\ Receipt(Current(p), "APPLIED") /\ Advance(p, "plan")
        /\ UNCHANGED <<created, succeeded, counts, catalog, effects, others, counters>>
     \/ /\ live[Status(Target(p))] # "removed" /\ ~Marked(Target(p))
        /\ Refuse(p, Current(p))
     \/ /\ live[Status(Target(p))] # "removed" /\ Marked(Target(p))
        /\ Goto(p, "delete")
        /\ UNCHANGED <<journal, catalog, effects, others, counters>>

SoftDelete(e) == live' = [live EXCEPT ![Status(e)] = "removed"]

Delete(p) ==
  /\ Is(p, "delete")
  /\ SoftDelete(Target(p)) /\ Goto(p, "record")
  /\ UNCHANGED <<journal, usage, maker, effects, others, counters>>

DeleteFails(p) ==
  /\ Is(p, "delete") /\ Sent(Current(p))
  /\ Receipt(Current(p), "FAILURE") /\ Stop(p) /\ Failing
  /\ UNCHANGED <<created, succeeded, counts, catalog, effects, touched, edits, runs>>

RecordDelete(p) ==
  /\ Is(p, "record") /\ proc[p].cmd = "reset"
  /\ Receipt(Current(p), "APPLIED") /\ Advance(p, "plan")
  /\ UNCHANGED <<created, succeeded, counts, catalog, effects, others, counters>>

-----------------------------------------------------------------------------
(* reconcile-seed, reconcile-live-query and reconcile-reset: what a command *)
(* left unresolved is settled from the catalog, one operation at a time.    *)

ReconciledKinds == {"seed", "ingest-query", "reset"}

PlanOf(kind) == CASE kind = "seed" -> SeedPlan
                  [] kind = "ingest-query" -> QueryPlan
                  [] kind = "reset" -> ResetPlan

\* The journal is read, and the plan made, before the command has the lock.  An
\* operator starts the command because the last one said that it is needed.
PlanReconciliation(p) ==
  \E kind \in ReconciledKinds :
    /\ lock = NoProc /\ proc[p] = Idle
    /\ \E o \in Unresolved : o[1] = kind
    /\ kind = "seed" => LineageMergeable
    /\ kind = "ingest-query" => PostgresCurrent
    /\ kind = "reset" => ResetPlannable
    /\ proc' = [proc EXCEPT ![p] =
                  [Idle EXCEPT !.cmd = "reconcile", !.pc = "waiting",
                               !.kind = kind, !.plan = PlanOf(kind)]]
    /\ UNCHANGED <<journal, catalog, lock, effects, others, counters>>

EnterReconciliation(p) ==
  /\ lock = NoProc /\ proc[p].pc = "waiting" /\ proc[p].cmd = "reconcile"
  /\ Unresolved # {}
  /\ \A o \in Unresolved : o[1] = proc[p].kind
  /\ Take(p, [proc[p] EXCEPT !.pc = "settle", !.todo = Unresolved])
  /\ UNCHANGED <<journal, catalog, effects, others, counters>>

\* Variant: an operation that failed was not applied.
FailureNotApplied(o) ==
  /\ receipts[o] # "FAILURE"
  /\ IF o[1] = "reset" THEN live[Status(o[2])] = "removed" ELSE InPlace(o)

Applied(o) == IF o[1] = "reset" THEN live[Status(o[2])] = "removed" ELSE InPlace(o)

\* Variant: a soft-deleted status counts as somebody's edit.
OnlyMissingIsSafe(o) ==
  CASE o[1] = "reset" -> Marked(o[2])
    [] IsUsage(o)     -> usage < o[3]
    [] OTHER          -> live[o[2]] \in {"absent", "missing"} \/ o[2] = "lineage"

\* Whatever lineage there is, the plan has been merged with it.
SafelyAbsent(o) ==
  CASE o[1] = "reset" -> Marked(o[2])
    [] IsUsage(o)     -> usage < o[3]
    [] o[2] = "lineage" -> TRUE
    [] OTHER          -> live[o[2]] \in {"absent", "missing", "removed"}

\* The receipts of the query evidence have to name the plan's observation; those
\* of a conflict name none.
Settleable(p, o) ==
  o[1] = "ingest-query" =>
    /\ receipts[o] # "CONFLICT"
    /\ Usage(Len(counts)) \in Range(proc[p].plan)

\* An operation that failed and was applied all the same: its entity is the
\* tool's.  One that was only PLANNED may have found the entity there.
Adopted(o) ==
  IF receipts[o] # "FAILURE" THEN {}
  ELSE IF o[1] = "seed" /\ o[2] \in Aspects("asset") THEN {"asset"}
  ELSE IF o = Op("ingest-query", "properties") THEN {"query"}
  ELSE {}

\* The unresolved receipts are taken in the order of the plan that left them.
NextPending(p, o) ==
  \E i \in DOMAIN proc[p].plan :
    /\ o = proc[p].plan[i] /\ o \in proc[p].todo
    /\ \A j \in 1 .. i - 1 : proc[p].plan[j] \notin proc[p].todo

Settle(p) ==
  /\ Is(p, "settle")
  /\ \E o \in proc[p].todo :
       /\ NextPending(p, o)
       /\ Settleable(p, o)
       /\ \/ /\ Applied(o) \/ SafelyAbsent(o)
             /\ Receipt(o, IF Applied(o) THEN "APPLIED" ELSE "NOT_APPLIED")
             /\ proc' = [proc EXCEPT ![p].todo = @ \ {o},
                                     ![p].adopt = IF Applied(o) THEN @ \cup Adopted(o) ELSE @]
             /\ UNCHANGED lock
          \/ /\ ~Applied(o) /\ ~SafelyAbsent(o)
             /\ Receipt(o, "CONFLICT") /\ Stop(p)
  /\ UNCHANGED <<created, succeeded, counts, catalog, effects, others, counters>>

EndReconciliation(p) ==
  /\ Is(p, "settle") /\ proc[p].todo = {}
  /\ created' = created \cup {e \in proc[p].adopt : Marked(e)}
  /\ Stop(p)
  /\ UNCHANGED <<receipts, stray, order, succeeded, counts, catalog, effects, others, counters>>

-----------------------------------------------------------------------------
(* Deaths, what outlives them, and other people *)

\* What the process waits for: the answer of the server, or a program that it
\* started or a statement that the warehouse executes.
Waiting(p) ==
  \/ ToEmit(p) \/ Is(p, "delete")
  \/ Is(p, "run") /\ Current(p) # Artifacts

\* The process ends where it is: killed, refused while it waits, or on an
\* exception that leaves no receipt.  The operating system frees the lock.
End(p) ==
  /\ proc[p] # Idle
  /\ proc' = [proc EXCEPT ![p] = Idle]
  /\ IF lock = p THEN lock' = NoProc /\ Failing ELSE UNCHANGED <<lock, failures>>
  /\ UNCHANGED late \/ (Waiting(p) /\ Sent(Current(p)))
  /\ UNCHANGED <<journal, catalog, effects, touched, edits, runs>>

\* What an operation changes.
CarriedOut(o) ==
  \/ o \in ChainOps /\ ChainEffect(o) /\ UNCHANGED <<usage, maker>>
  \/ o \in ResetOps /\ SoftDelete(o[2]) /\ UNCHANGED <<usage, maker, effects>>
  \/ o \in SeedOps \cup QueryOps /\ Upsert(o) /\ UNCHANGED effects

\* What was on its way is carried out, whoever has the lock and whatever the
\* journal says of it by now.  A client that retries may have sent it twice.
LateEffect ==
  \E o \in late :
    /\ CarriedOut(o)
    /\ late' \in {late, late \ {o}}
    /\ stray' = IF receipts[o] \in Pending THEN stray ELSE stray \cup {o}
    /\ UNCHANGED <<receipts, order, created, succeeded, counts, lock, proc,
                   touched, edits, counters>>

\* Somebody else writes an aspect, deletes a dataset or soft-deletes an entity.
EditedValues(a) ==
  CASE a = "overlay" -> {"missing", "other"}
    [] a = "lineage" -> {"other", "foreign"}
    [] a \in {"status", "queryStatus"} -> {"removed"}
    [] OTHER -> {"other"}

EditElsewhere ==
  /\ Undisturbed /\ edits < MaxEdits /\ edits' = edits + 1
  /\ \E a \in AllAspects : \E v \in EditedValues(a) :
       /\ live[a] # v
       /\ v = "removed" => live[a] = "ours"
       /\ live' = [live EXCEPT ![a] = v]
       /\ touched' = IF lock = NoProc /\ late = {} THEN touched ELSE touched \cup {a}
       /\ maker' = [e \in Entities |->
                      IF a \in Aspects(e) /\ ~Exists(e) THEN "others" ELSE maker[e]]
  /\ UNCHANGED <<journal, usage, lock, proc, effects, late, counters>>

ChainStep(p) == EnterChain(p) \/ PlanChainOp(p) \/ RunChainOp(p) \/ RecordChainOp(p)

UpsertStep(p) == EnterUpsert(p) \/ PlanUpsert(p) \/ Preflight(p) \/ SkipExact(p)
                   \/ RefuseObservation(p) \/ Emit(p) \/ EmitFails(p)
                   \/ RecordEmit(p) \/ RecordCreation(p)

ResetStep(p) == PlanReset(p) \/ EnterReset(p) \/ PlanDelete(p) \/ CheckTarget(p)
                  \/ Delete(p) \/ DeleteFails(p) \/ RecordDelete(p)

ReconcileStep(p) == PlanReconciliation(p) \/ EnterReconciliation(p) \/ Settle(p)
                      \/ EndReconciliation(p)

ToolStep == \E p \in Procs : ChainStep(p) \/ UpsertStep(p) \/ ResetStep(p)
                               \/ ReconcileStep(p) \/ End(p)

Next == ToolStep \/ LateEffect \/ EditElsewhere

Spec == Init /\ [][Next]_vars

-----------------------------------------------------------------------------
(* Properties *)

Process ==
  [cmd : Commands \cup {"idle"},
   pc : {"", "waiting", "plan", "run", "record", "preflight", "emit", "create",
         "check", "delete", "settle"},
   plan : Seq(ChainOps \cup EffectOps), i : Nat, fresh : BOOLEAN,
   kind : ReconciledKinds \cup {""}, todo : SUBSET EffectOps, adopt : SUBSET Entities]

\* Every variable stays in its domain.
TypeOK ==
  /\ receipts \in [ChainOps \cup EffectOps -> Marks]
  /\ order \in [ChainOps -> SUBSET ChainOps] /\ effects \in [ChainOps -> SUBSET ChainOps]
  /\ created \subseteq Entities /\ succeeded \subseteq StableQueryOps
  /\ counts \in Seq({1, 2}) /\ Len(counts) <= MaxObservations
  /\ live \in [AllAspects -> Values] /\ usage \in 0..Len(counts)
  /\ maker \in [Entities -> {"nobody", "tool", "others"}]
  /\ lock \in Procs \cup {NoProc} /\ proc \in [Procs -> Process]
  /\ late \subseteq ChainOps \cup EffectOps /\ stray \subseteq ChainOps \cup EffectOps
  /\ touched \subseteq AllAspects /\ runs \in 0..MaxChainRuns
  /\ edits \in 0..MaxEdits /\ failures \in Nat /\ edits + failures <= MaxDisturbances

\* Only one kind of command is ever left unresolved: a reconciliation refuses a
\* journal with two kinds, and nothing else could settle it either
\* (seed.py, live_query.py, reset.py: *_RECONCILIATION_FOREIGN_OPERATION).
OneKindUnresolved ==
  \A o1, o2 \in Unresolved : o1[1] = o2[1]

\* Who has the lock is in a section of its command; the others wait for it, with
\* a plan they may have made, or do nothing.
Sections(c) ==
  CASE c \in ChainCommands -> {"plan", "run", "record"}
    [] c \in Plans -> {"plan", "preflight", "emit", "record", "create"}
    [] c = "reset" -> {"plan", "check", "delete", "record"}
    [] c = "reconcile" -> {"settle"}
    [] OTHER -> {}

InSection(p) ==
  IF lock = p
  THEN /\ proc[p].cmd # "idle" /\ proc[p].pc \in Sections(proc[p].cmd)
       /\ proc[p].cmd # "reconcile" => proc[p].i \in 1 .. Len(proc[p].plan)
  ELSE \/ proc[p] = Idle
       \/ /\ proc[p].pc = "waiting" /\ proc[p].todo = {} /\ proc[p].adopt = {}
          /\ proc[p].cmd \in {"upsert", "dbtIngest", "reset", "reconcile"}

\* Every plan is that of its command; one that was made before the lock was had
\* may be an older one.
ResetsCreated(plan) ==
  /\ plan \in {<<Reset("query"), Reset("asset")>>, <<Reset("query")>>, <<Reset("asset")>>}
  /\ \A i \in 1 .. Len(plan) : plan[i][2] \in created

PlanFits(p) ==
  /\ proc[p].cmd \in ChainCommands /\ lock = p => proc[p].plan = ChainPlan[proc[p].cmd]
  /\ proc[p].cmd = "seed" => proc[p].plan = SeedPlan
  /\ proc[p].cmd = "upsert" /\ lock = p => Len(counts) > 0 /\ proc[p].plan = QueryPlan
  /\ proc[p].cmd = "reset" => ResetsCreated(proc[p].plan)
  /\ proc[p].cmd = "reconcile" =>
       \/ proc[p].kind = "seed" /\ proc[p].plan = SeedPlan
       \/ /\ proc[p].kind = "ingest-query"
          /\ \E n \in 1 .. Len(counts) : proc[p].plan = QueryPlanFor(n)
       \/ proc[p].kind = "reset" /\ ResetsCreated(proc[p].plan)

\* The receipts of the chain are in the order in which its commands really ran,
\* but for a child that went on after its command had been run again.
ChainTrue ==
  /\ \A o \in ChainOps : Done(o) => o \in order[o] /\ o \in effects[o]
  /\ \A o1, o2 \in ChainOps : Before(o1, o2) => o1 \in effects[o2] \/ o1 \in stray
  /\ Done(Observed) => Len(counts) > 0

\* What really ran, in the order it last ran.
RanInOrder(s) ==
  /\ \A i \in 1 .. Len(s) : s[i] \in effects[s[i]]
  /\ \A i \in 1 .. Len(s) - 1 : s[i] \in effects[s[i + 1]] \/ s[i] \in stray

\* What the holder of the lock knows, command by command.
Owned(e) == maker[e] = "tool" \/ touched \cap Aspects(e) # {}

AllOf(c) == IF c = "seed" THEN Aspects("asset") \cup Overlays ELSE Aspects("query")

\* The value of an aspect that is somebody else's, not to be replaced.
Theirs(a) == IF a = "lineage" THEN "foreign" ELSE "other"

ChainHeld(p) ==
  /\ Unresolved = {}
  /\ proc[p].pc # "plan" => receipts[Current(p)] = "PLANNED"
  /\ proc[p].pc = "record" =>
       /\ Current(p) \in effects[Current(p)]
       /\ \A q \in ChainOps : Done(q) => q \in effects[Current(p)] \cup stray

\* The operations from the current one on are PLANNED, after the preflight.
StillPlanned(p, j) ==
  CASE proc[p].pc = "plan" -> j < proc[p].i
    [] proc[p].pc = "create" -> j > proc[p].i
    [] OTHER -> j >= proc[p].i

\* The entity is the tool's, or does not exist, or nothing of it will be written.
UpsertHeld(p) ==
  /\ \A o \in Unresolved : receipts[o] = "PLANNED" /\ \E j \in 1 .. Len(proc[p].plan) : o = proc[p].plan[j]
  /\ \A j \in 1 .. Len(proc[p].plan) : StillPlanned(p, j) => receipts[proc[p].plan[j]] = "PLANNED"
  /\ proc[p].pc = "preflight" => proc[p].i = 1
  /\ Prerequisites(proc[p].cmd)

\* The catalog has what the operation writes, or that was soft-deleted since.
HoldsOf(o) ==
  IF IsUsage(o) THEN usage >= o[3] ELSE live[o[2]] \in {"ours", "removed"}

EntityHeld(p) ==
  LET e == Entity(p) IN
  /\ proc[p].cmd = "seed" /\ ~LineageMergeable => "lineage" \in touched
  /\ proc[p].pc \in {"emit", "record", "create"} =>
      /\ \A a \in AllOf(proc[p].cmd) : live[a] = Theirs(a) => a \in touched
      /\ Owned(e) \/ (proc[p].fresh /\ ~Exists(e)) \/ (~proc[p].fresh /\ Exact(e))
      /\ proc[p].pc # "emit" /\ Current(p)[2] \in Aspects(e) => Exists(e)
      /\ proc[p].pc = "create" => Current(p)[2] \in Aspects(e) /\ proc[p].fresh
      /\ edits = 0 /\ proc[p].fresh => proc[p].i = 1 \/ Marked(e)
      /\ edits = 0 /\ proc[p].pc # "emit" => HoldsOf(Current(p))

ResetHeld(p) ==
  /\ Unresolved \subseteq {Current(p)}
  /\ proc[p].pc = "plan" => Unresolved = {}
  /\ proc[p].pc # "plan" => receipts[Current(p)] = "PLANNED"
  /\ proc[p].pc = "delete" => Marked(Target(p)) \/ Marker(Target(p)) \in touched

ReconciliationHeld(p) ==
  /\ proc[p].todo = Unresolved
  /\ \A o \in Unresolved : o[1] = proc[p].kind
  /\ \A e \in proc[p].adopt : Owned(e) \/ ~Marked(e)

\* What may still be carried out was in the journal before it was sent, and will
\* replace or delete nothing of somebody else that was there then.
MayArrive(o) ==
  /\ receipts[o] # "NONE"
  /\ IsUsage(o) => o[3] <= Len(counts)
  /\ o \in SeedOps \cup StableQueryOps =>
       /\ live[o[2]] = Theirs(o[2]) => o[2] \in touched
       /\ o[2] \in Aspects(Writes(o)) => Owned(Writes(o)) \/ ~Exists(Writes(o))
  /\ o \in ResetOps => o[2] \in created /\ (Marked(o[2]) \/ Marker(o[2]) \in touched)

LateHeld == \A o \in late : MayArrive(o)

Knows(p) ==
  /\ proc[p].cmd \in ChainCommands => ChainHeld(p)
  /\ proc[p].cmd \in Plans => UpsertHeld(p) /\ EntityHeld(p)
  /\ proc[p].cmd = "reset" => ResetHeld(p)
  /\ proc[p].cmd = "reconcile" => ReconciliationHeld(p)

\* A creation receipt names an entity that the tool made come to exist, unless
\* somebody edited it while a command held the lock: reset deletes by it.
CreationReceiptsTrue == \A e \in created : Owned(e)

\* Whom an entity belongs to.
OwnersKnown ==
  /\ \A e \in Entities : maker[e] = "tool" => Exists(e)
  /\ CreationReceiptsTrue
  /\ \A o \in EffectOps : \A e \in Adopted(o) : Owned(e) \/ ~Marked(e)
  /\ \A e \in Entities : receipts[Reset(e)] # "NONE" => e \in created
  /\ \A e \in Entities : live[Status(e)] # "other" /\ live[Marker(e)] # "removed"

\* What the journal says of the catalog that nobody else edits.
JournalTrue ==
  edits = 0 =>
    /\ \A a \in AllAspects : live[a] \notin {"other", "foreign"} /\ (live[a] = "native" => a = "lineage")
    /\ \A e \in created : Marked(e)
    /\ \A o \in EffectOps : receipts[o] # "CONFLICT"
    /\ \A o \in SeedOps \cup StableQueryOps :
         /\ receipts[o] = "APPLIED" => live[o[2]] \in {"ours", "removed"}
         /\ receipts[o] = "NOT_APPLIED" => live[o[2]] # "ours" \/ o \in stray
    /\ \A n \in 1 .. MaxObservations :
         /\ receipts[Usage(n)] = "APPLIED" => usage >= n
         /\ receipts[Usage(n)] = "NOT_APPLIED" => usage # n \/ Usage(n) \in stray
    /\ \A e \in Entities : live[Status(e)] = "removed" =>
         receipts[Reset(e)] = "APPLIED" \/ Reset(e) \in Unresolved \cup stray

\* All of it, in every state of journal, catalog and commands: what the
\* properties below rest on (receipts.py, ReceiptStore.scenario_operation and
\* ReceiptStore.unresolved).
ToolInv ==
  /\ TypeOK /\ OneKindUnresolved
  /\ \A p \in Procs : InSection(p) /\ PlanFits(p) /\ (lock = p => Knows(p))
  /\ LateHeld /\ ChainTrue /\ OwnersKnown /\ JournalTrue

\* The tool replaces what somebody else wrote only if that was written while a
\* command held the lock, after its preflight perhaps, or a request of one was on
\* its way (seed.py, _seed_metadata_under_lock).  Lineage is theirs when it has an
\* upstream that is neither the plan's nor the connector's; an entry of theirs for
\* an upstream of the plan is superseded, whenever it was written
\* (reconcile_lineage_aspect), although walkthrough/README.md promises a conflict.
NoClobber ==
  [][\A a \in AllAspects :
       live[a] = Theirs(a) /\ live'[a] # Theirs(a) /\ edits' = edits => a \in touched]_vars

\* A reset soft-deletes an entity only while it carries the tool's marker, or
\* if somebody edited the marker while the command held the lock or its request
\* was on its way.
OnlyOwnDeleted ==
  [][\A e \in Entities :
       live[Status(e)] # "removed" /\ live'[Status(e)] = "removed" /\ edits' = edits
         => Marked(e) \/ Marker(e) \in touched]_vars

\* The tool writes nothing that the journal does not say is under way: whoever
\* dies, at whatever step, a later command learns where to look (seed.py,
\* live_query.py, reset.py: the PLANNED receipts).  What is carried out late has
\* a receipt, if no longer that one.  What the connectors make is the one
\* exception: a failed ingestion is run again.
Affected(o) == IF o[1] = "reset" THEN Status(o[2]) ELSE o[2]

UnderWay(o) == receipts[o] = "PLANNED" \/ (o \in late /\ receipts[o] # "NONE")

WrittenAhead ==
  [][edits' = edits =>
       /\ \A a \in AllAspects : live'[a] # live[a] =>
            \/ live[a] = "missing" /\ live'[a] = "absent"
            \/ live[a] = "absent" /\ live'[a] = "native"
            \/ \E o \in EffectOps : UnderWay(o) /\ Affected(o) = a
       /\ usage' # usage => usage' \in 1 .. Len(counts) /\ UnderWay(Usage(usage'))]_vars

\* A write is sent only on top of a chain whose commands really last ran in the
\* order that makes its evidence current: seeds after everything, the query
\* evidence after the connector that followed its observation.  The exception is
\* a command whose orphaned child finished after the command had been run again.
WritesOnCurrentChain ==
  [][\A p \in Procs :
       /\ proc[p].cmd = "seed" /\ (Emit(p) \/ EmitFails(p)) =>
            RanInOrder(<<Warehouse, Build, Docs, Artifacts, Observed, Postgres, DbtIngest>>)
       /\ proc[p].cmd = "upsert" /\ (Emit(p) \/ EmitFails(p)) =>
            RanInOrder(<<Warehouse, Build, Docs, Artifacts, Observed, Postgres>>)]_vars

\* With nobody else editing, a journal in which nothing is unresolved tells the
\* truth about the catalog, whoever died on the way there.  The one thing it may
\* be wrong about is an operation whose own request was carried out after the
\* receipt that settled it, until the next receipt of that operation.
Settled == lock = NoProc /\ Unresolved = {} /\ edits = 0

SettledJournalIsTrue ==
  Settled =>
    /\ \A o \in SeedOps \cup StableQueryOps :
         /\ receipts[o] = "APPLIED" => live[o[2]] \in {"ours", "removed"}
         /\ receipts[o] = "NOT_APPLIED" => live[o[2]] # "ours" \/ o \in stray
    /\ \A n \in 1..Len(counts) :
         /\ receipts[Usage(n)] = "APPLIED" => usage >= n
         /\ receipts[Usage(n)] = "NOT_APPLIED" => usage # n \/ Usage(n) \in stray
    /\ \A e \in Entities : Reset(e) \notin stray =>
         /\ live[Status(e)] = "removed" => receipts[Reset(e)] = "APPLIED"
         /\ receipts[Reset(e)] = "NOT_APPLIED" => live[Status(e)] # "removed"

\* With nobody else editing, a reconciliation never finds a conflict: whatever
\* a command left behind can be settled, and the scenario goes on.
NoConflictWithoutEdits ==
  edits = 0 => \A o \in EffectOps : receipts[o] # "CONFLICT"

\* What walkthrough/README.md says of an interrupted seed: it blocks further
\* operations until its reconciliation succeeds.  Then, with nobody else
\* editing, the next seed is not refused the entities of the first.
ReconciledSeedGoesOn ==
  edits = 0 => \A o \in SeedOps : receipts[o] # "REQUIRED"

==============================================================================
