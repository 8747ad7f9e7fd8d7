------------------------- MODULE ScenarioToolProofs -------------------------
(***************************************************************************)
(* Safety of the scenario tool, for any number of processes, observations, *)
(* chain commands, edits and disturbances.                                 *)
(***************************************************************************)
EXTENDS ScenarioTool, TLAPS

Steps == {"", "waiting", "plan", "run", "record", "preflight", "emit", "create",
          "check", "delete", "settle"}

-----------------------------------------------------------------------------
(* Operations and plans.                                                   *)

\* The four kinds of operation with a live effect, and the chain's.
LEMMA OpsKnown ==
  /\ SeedOps = {Op("seed", a) : a \in {"info", "ownership", "overlay", "lineage", "status"}}
  /\ \A a : Op("seed", a)[1] = "seed" /\ Op("seed", a)[2] = a
  /\ \A a : Op("ingest-query", a)[1] = "ingest-query" /\ Op("ingest-query", a)[2] = a
  /\ \A n : Usage(n)[1] = "ingest-query" /\ Usage(n)[2] = "usage" /\ Usage(n)[3] = n
  /\ \A e : Reset(e)[1] = "reset" /\ Reset(e)[2] = e
<1>1. Len(SeedPlan) = 5 /\ DOMAIN SeedPlan = 1 .. 5
  BY DEF SeedPlan
<1>2. SeedPlan[1] = Op("seed", "info") /\ SeedPlan[2] = Op("seed", "ownership")
      /\ SeedPlan[3] = Op("seed", "overlay") /\ SeedPlan[4] = Op("seed", "lineage")
      /\ SeedPlan[5] = Op("seed", "status")
  BY DEF SeedPlan
<1>3. SeedOps = {SeedPlan[i] : i \in 1 .. 5}
  BY <1>1 DEF SeedOps, Range
<1>4. SeedOps = {Op("seed", a) : a \in {"info", "ownership", "overlay", "lineage", "status"}}
  BY <1>2, <1>3
<1> QED
  BY <1>4 DEF Op, Usage, Reset

\* Operations of different kinds are different.
LEMMA KindsDiffer ==
  /\ \A o \in SeedOps : o[1] = "seed" /\ o = Op("seed", o[2]) /\ o[2] \in {"info", "ownership", "overlay", "lineage", "status"}
  /\ \A o \in StableQueryOps : /\ o[1] = "ingest-query" /\ o = Op("ingest-query", o[2])
                               /\ o[2] \in {"properties", "queryStatus"}
  /\ \A o \in QueryOps \ StableQueryOps : /\ o[1] = "ingest-query" /\ o[2] = "usage"
                                          /\ o[3] \in 1 .. MaxObservations /\ o = Usage(o[3])
  /\ \A o \in QueryOps : o[1] = "ingest-query"
  /\ \A o \in ResetOps : o[1] = "reset" /\ o[2] \in Entities /\ o = Reset(o[2])
  /\ \A o \in ChainOps : o \notin EffectOps /\ o[1] \notin {"seed", "ingest-query", "reset"} /\ o[2] # "usage"
  /\ EffectOps = SeedOps \cup QueryOps \cup ResetOps
<1>1. \A o \in SeedOps : o[1] = "seed" /\ o = Op("seed", o[2]) /\ o[2] \in {"info", "ownership", "overlay", "lineage", "status"}
  BY OpsKnown
<1>2. \A o \in StableQueryOps : /\ o[1] = "ingest-query" /\ o = Op("ingest-query", o[2])
                                /\ o[2] \in {"properties", "queryStatus"}
  BY OpsKnown DEF StableQueryOps
<1>3. \A o \in QueryOps \ StableQueryOps :
        /\ o[1] = "ingest-query" /\ o[2] = "usage" /\ o[3] \in 1 .. MaxObservations /\ o = Usage(o[3])
  BY OpsKnown DEF QueryOps
<1>4. \A o \in ResetOps : o[1] = "reset" /\ o[2] \in Entities /\ o = Reset(o[2])
  BY OpsKnown DEF ResetOps
<1>5. \A o \in ChainOps : o[1] \notin {"seed", "ingest-query", "reset"} /\ o[2] # "usage"
  BY DEF ChainOps, Warehouse, Build, Docs, Artifacts, Observed, Postgres, DbtIngest, Op
<1> QED
  BY <1>1, <1>2, <1>3, <1>4, <1>5 DEF EffectOps

\* The plans, operation by operation.
LEMMA PlansKnown ==
  /\ Len(SeedPlan) = 5 /\ SeedPlan \in Seq(EffectOps)
  /\ SeedPlan[1] = Op("seed", "info") /\ SeedPlan[2] = Op("seed", "ownership")
  /\ SeedPlan[3] = Op("seed", "overlay") /\ SeedPlan[4] = Op("seed", "lineage")
  /\ SeedPlan[5] = Op("seed", "status")
  /\ \A n \in 1 .. MaxObservations :
       /\ Len(QueryPlanFor(n)) = 3 /\ QueryPlanFor(n) \in Seq(EffectOps)
       /\ QueryPlanFor(n)[1] = Op("ingest-query", "properties")
       /\ QueryPlanFor(n)[2] = Op("ingest-query", "queryStatus")
       /\ QueryPlanFor(n)[3] = Usage(n)
<1>1. /\ Len(SeedPlan) = 5
      /\ SeedPlan[1] = Op("seed", "info") /\ SeedPlan[2] = Op("seed", "ownership")
      /\ SeedPlan[3] = Op("seed", "overlay") /\ SeedPlan[4] = Op("seed", "lineage")
      /\ SeedPlan[5] = Op("seed", "status")
  BY DEF SeedPlan
<1>2. {Op("seed", "info"), Op("seed", "ownership"), Op("seed", "overlay"), Op("seed", "lineage"),
       Op("seed", "status")} \subseteq EffectOps
  BY OpsKnown DEF EffectOps
<1>3. SeedPlan \in Seq(EffectOps)
  BY <1>2 DEF SeedPlan
<1>4. ASSUME NEW n \in 1 .. MaxObservations
      PROVE  /\ Len(QueryPlanFor(n)) = 3 /\ QueryPlanFor(n) \in Seq(EffectOps)
             /\ QueryPlanFor(n)[1] = Op("ingest-query", "properties")
             /\ QueryPlanFor(n)[2] = Op("ingest-query", "queryStatus")
             /\ QueryPlanFor(n)[3] = Usage(n)
  <2>1. {Op("ingest-query", "properties"), Op("ingest-query", "queryStatus"), Usage(n)} \subseteq EffectOps
    BY DEF EffectOps, QueryOps, StableQueryOps
  <2> QED
    BY <2>1 DEF QueryPlanFor
<1> QED
  BY <1>1, <1>3, <1>4

\* The plans of the preparation chain.
LEMMA ChainPlansKnown ==
  ASSUME NEW c \in ChainCommands
  PROVE  /\ ChainPlan[c] \in Seq(ChainOps \cup EffectOps) /\ Len(ChainPlan[c]) > 0
         /\ c \in {"warehouse", "dbt", "query", "postgres", "dbtIngest"}
         /\ \A i \in 1 .. Len(ChainPlan[c]) : ChainPlan[c][i] \in ChainOps
<1>1. c \in {"warehouse", "dbt", "query", "postgres", "dbtIngest"}
  BY DEF ChainCommands, ChainPlan
<1>2. \A o \in ChainOps : <<o>> \in Seq(ChainOps \cup EffectOps) /\ Len(<<o>>) = 1 /\ <<o>>[1] = o
  OBVIOUS
<1>3. Warehouse \in ChainOps /\ Observed \in ChainOps /\ Postgres \in ChainOps /\ DbtIngest \in ChainOps
      /\ Build \in ChainOps /\ Docs \in ChainOps /\ Artifacts \in ChainOps
  BY DEF ChainOps
<1>4. CASE c = "dbt"
  <2>1. ChainPlan[c] = <<Build, Docs, Artifacts>>
    BY <1>4 DEF ChainPlan
  <2> QED
    BY <1>1, <1>3, <2>1
<1>5. CASE c # "dbt"
  <2>1. \E o \in ChainOps : ChainPlan[c] = <<o>>
    BY <1>1, <1>3, <1>5 DEF ChainPlan
  <2> QED
    BY <1>1, <1>2, <2>1
<1> QED
  BY <1>4, <1>5

\* The plan of a command that writes the catalog: what it is an operation on,
\* and that it names every operation once.
Written(c) == AllOf(c) \cup {"usage"}
KindOf(c) == IF c = "seed" THEN "seed" ELSE "ingest-query"

\* The plan of a seed or of query evidence in the lock: its operations are
\* different, of its own kind, and the first writes the marker of its entity.
LEMMA UpsertPlan ==
  ASSUME TypeOK, NEW p \in Procs, PlanFits(p), lock = p, proc[p].cmd \in Plans
  PROVE  /\ proc[p].cmd = "seed" => proc[p].plan = SeedPlan /\ Len(proc[p].plan) = 5
         /\ proc[p].cmd = "upsert" => /\ proc[p].plan = QueryPlan /\ Len(proc[p].plan) = 3
                                      /\ Len(counts) \in 1 .. MaxObservations
         /\ proc[p].plan[1] = Op(KindOf(proc[p].cmd), Marker(Entity(p)))
         /\ \A j \in 1 .. Len(proc[p].plan) :
              /\ proc[p].plan[j] \in EffectOps \ ResetOps
              /\ proc[p].plan[j][1] = KindOf(proc[p].cmd)
              /\ proc[p].plan[j] \in SeedOps \cup StableQueryOps => proc[p].plan[j][2] \in AllOf(proc[p].cmd)
              /\ proc[p].plan[j] \notin SeedOps \cup StableQueryOps =>
                   proc[p].plan[j] = Usage(Len(counts)) /\ proc[p].cmd = "upsert"
         /\ \A j, k \in 1 .. Len(proc[p].plan) : proc[p].plan[j] = proc[p].plan[k] => j = k
<1> DEFINE plan == proc[p].plan
<1>1. CASE proc[p].cmd = "seed"
  <2>0. plan = SeedPlan /\ Len(plan) = 5
    BY <1>1, PlansKnown DEF PlanFits
  <2>1. plan = SeedPlan /\ Len(plan) = 5 /\ \A j \in 1 .. Len(plan) : j \in {1, 2, 3, 4, 5}
    BY <2>0
  <2>2. \A j \in 1 .. Len(plan) : plan[j] \in SeedOps /\ plan[j][1] = "seed" /\ plan[j][2] \in AllOf("seed")
    BY <2>1, PlansKnown, OpsKnown DEF AllOf, Aspects, Overlays
  <2>3. \A j, k \in 1 .. Len(plan) : plan[j] = plan[k] => j = k
    BY <2>1, PlansKnown, OpsKnown
  <2>4. \A j \in 1 .. Len(plan) : plan[j] \in EffectOps \ ResetOps
    BY <2>2, KindsDiffer
  <2> QED
    BY <1>1, <2>1, <2>2, <2>3, <2>4, PlansKnown DEF KindOf, Marker, Entity
<1>2. CASE proc[p].cmd = "upsert"
  <2>1. Len(counts) \in 1 .. MaxObservations /\ plan = QueryPlanFor(Len(counts))
    BY <1>2, ScenarioAssumption DEF PlanFits, TypeOK, QueryPlan
  <2>9. Len(plan) = 3
    BY <2>1, PlansKnown
  <2>2. Len(plan) = 3 /\ \A j \in 1 .. Len(plan) : j \in {1, 2, 3}
    BY <2>9
  <2>3. plan[1] = Op("ingest-query", "properties") /\ plan[2] = Op("ingest-query", "queryStatus")
        /\ plan[3] = Usage(Len(counts))
    BY <2>1, PlansKnown
  <2>4. plan[1] \in StableQueryOps /\ plan[2] \in StableQueryOps /\ plan[3] \in QueryOps \ StableQueryOps
    <3>1. Usage(Len(counts)) \in QueryOps /\ Usage(Len(counts)) \notin StableQueryOps
      BY <2>1, OpsKnown, KindsDiffer DEF QueryOps
    <3> QED
      BY <2>3, <3>1 DEF StableQueryOps
  <2>5. \A j \in 1 .. Len(plan) : plan[j] \in QueryOps /\ plan[j][1] = "ingest-query"
    BY <2>2, <2>4, KindsDiffer DEF QueryOps
  <2>6. \A j \in 1 .. Len(plan) : plan[j] \in EffectOps \ ResetOps
    BY <2>5, KindsDiffer
  <2>7. \A j, k \in 1 .. Len(plan) : plan[j] = plan[k] => j = k
    BY <2>2, <2>3, OpsKnown
  <2>8. plan[1][2] \in AllOf("upsert") /\ plan[2][2] \in AllOf("upsert")
    BY <2>3, OpsKnown DEF AllOf, Aspects
  <2>a. plan[1] = Op(KindOf(proc[p].cmd), Marker(Entity(p)))
    BY <1>2, <2>3 DEF KindOf, Marker, Entity
  <2>b. \A j \in 1 .. Len(plan) :
          /\ plan[j] \in SeedOps \cup StableQueryOps => plan[j][2] \in AllOf("upsert")
          /\ plan[j] \notin SeedOps \cup StableQueryOps => plan[j] = Usage(Len(counts))
    <3>1. plan[3] \notin SeedOps
      BY <2>4, KindsDiffer
    <3> QED
      BY <3>1, <2>2, <2>3, <2>4, <2>8
  <2> QED
    BY <1>2, <2>1, <2>2, <2>5, <2>6, <2>7, <2>a, <2>b DEF KindOf, QueryPlan
<1> QED
  BY <1>1, <1>2 DEF Plans

\* A plan of a reset deletes entities that have a creation receipt.
LEMMA ResetPlanElements ==
  ASSUME NEW plan, ResetsCreated(plan), created \subseteq Entities
  PROVE  /\ plan \in Seq(ChainOps \cup EffectOps) /\ Len(plan) \in {1, 2}
         /\ \A i \in 1 .. Len(plan) : /\ plan[i] \in ResetOps /\ plan[i] = Reset(plan[i][2])
                                      /\ plan[i][2] \in created /\ plan[i][2] \in Entities
<1>1. Reset("query") \in ResetOps /\ Reset("asset") \in ResetOps /\ ResetOps \subseteq ChainOps \cup EffectOps
  BY DEF ResetOps, EffectOps, Entities
<1>2. Len(plan) \in {1, 2} /\ \A i \in 1 .. Len(plan) : i \in {1, 2} /\ plan[i] \in {Reset("query"), Reset("asset")}
  BY DEF ResetsCreated
<1>3. plan \in Seq(ChainOps \cup EffectOps)
  BY <1>1 DEF ResetsCreated
<1> QED
  BY <1>1, <1>2, <1>3, KindsDiffer DEF ResetsCreated

\* What is planned from the creation receipts fits them.
LEMMA ResetPlanFits ==
  ASSUME created \subseteq Entities, ResetPlannable
  PROVE  ResetsCreated(ResetPlan)
<1>1. created \in {Entities, {"query"}, {"asset"}}
  BY DEF ResetPlannable, Entities
<1>2. CASE created = Entities
  <2>1. ResetPlan = <<Reset("query"), Reset("asset")>>
    BY <1>2 DEF ResetPlan, Entities
  <2> QED
    BY <1>2, <2>1, OpsKnown DEF ResetsCreated, Entities
<1>3. CASE created = {"query"}
  <2>1. ResetPlan = <<Reset("query")>>
    BY <1>3 DEF ResetPlan, Entities
  <2> QED
    BY <1>3, <2>1, OpsKnown DEF ResetsCreated
<1>4. CASE created = {"asset"}
  <2>1. ResetPlan = <<Reset("asset")>>
    BY <1>4 DEF ResetPlan, Entities
  <2> QED
    BY <1>4, <2>1, OpsKnown DEF ResetsCreated
<1> QED
  BY <1>1, <1>2, <1>3, <1>4

-----------------------------------------------------------------------------
(* What a step does to the process that takes it.                          *)

\* p goes on with its command, at operation i of its plan.
Moved(p, pc, i) ==
  /\ proc' \in [Procs -> Process] /\ \A q \in Procs \ {p} : proc'[q] = proc[q]
  /\ proc'[p].cmd = proc[p].cmd /\ proc'[p].plan = proc[p].plan /\ proc'[p].kind = proc[p].kind
  /\ proc'[p].fresh = proc[p].fresh /\ proc'[p].todo = proc[p].todo /\ proc'[p].adopt = proc[p].adopt
  /\ proc'[p].pc = pc /\ proc'[p].i = i

\* The command, or its section, ends.
Released(p) ==
  /\ proc' \in [Procs -> Process] /\ \A q \in Procs \ {p} : proc'[q] = proc[q]
  /\ lock' = NoProc
  /\ \/ proc'[p] = Idle
     \/ /\ proc'[p].pc = "waiting" /\ proc'[p].todo = {} /\ proc'[p].adopt = {}
        /\ proc'[p].cmd \in {"upsert", "dbtIngest"}

\* The commands, and the sections of each.
LEMMA CommandsKnown ==
  /\ ChainCommands = {"warehouse", "dbt", "query", "postgres", "dbtIngest"}
  /\ Commands = ChainCommands \cup {"seed", "upsert", "reset", "reconcile"}
  /\ \A c \in ChainCommands : Sections(c) = {"plan", "run", "record"}
  /\ \A c \in Plans : c \notin ChainCommands /\ Sections(c) = {"plan", "preflight", "emit", "record", "create"}
  /\ Sections("reset") = {"plan", "check", "delete", "record"}
  /\ Sections("reconcile") = {"settle"} /\ Sections("idle") = {}
<1>1. ChainCommands = {"warehouse", "dbt", "query", "postgres", "dbtIngest"}
  BY DEF ChainCommands, ChainPlan
<1> QED
  BY <1>1 DEF Commands, Plans, Sections

\* A process that does nothing.
LEMMA IdleKnown ==
  /\ Idle \in Process /\ Idle.cmd = "idle" /\ Idle.pc = "" /\ Idle.plan = <<>>
  /\ Idle.fresh = FALSE /\ Idle.kind = "" /\ Idle.todo = {} /\ Idle.adopt = {}
BY CommandsKnown DEF Idle, Process

\* A process at the first operation of a plan.
Started(c, plan) == [Idle EXCEPT !.cmd = c, !.pc = "plan", !.plan = plan, !.i = 1]

\* A command that has just taken the lock, at its first operation.
LEMMA StartedKnown ==
  ASSUME NEW c \in Commands, NEW plan \in Seq(ChainOps \cup EffectOps)
  PROVE  /\ Started(c, plan) \in Process /\ Started(c, plan).cmd = c
         /\ Started(c, plan).pc = "plan" /\ Started(c, plan).plan = plan
         /\ Started(c, plan).i = 1
BY DEF Idle, Process, Started

\* A step of one process is a step of no other.
LEMMA ProcessSet ==
  ASSUME TypeOK, NEW p \in Procs, NEW r \in Process, proc' = [proc EXCEPT ![p] = r]
  PROVE  /\ proc' \in [Procs -> Process] /\ proc'[p] = r
         /\ \A q \in Procs \ {p} : proc'[q] = proc[q]
BY DEF TypeOK

\* A change of section and place in the plan changes nothing else of a process.
LEMMA MovedTo ==
  ASSUME TypeOK, NEW p \in Procs, NEW pc \in Steps, NEW i \in Nat,
         proc' = [proc EXCEPT ![p] = [proc[p] EXCEPT !.i = i, !.pc = pc]]
  PROVE  Moved(p, pc, i)
<1>1. proc[p] \in Process
  BY DEF TypeOK
<1> DEFINE r == [proc[p] EXCEPT !.i = i, !.pc = pc]
<1>2. /\ r \in Process /\ r.pc = pc /\ r.i = i
      /\ r.cmd = proc[p].cmd /\ r.plan = proc[p].plan /\ r.kind = proc[p].kind
      /\ r.fresh = proc[p].fresh /\ r.todo = proc[p].todo /\ r.adopt = proc[p].adopt
  BY <1>1 DEF Process, Steps
<1> HIDE DEF r
<1>3. proc' \in [Procs -> Process] /\ proc'[p] = r /\ \A q \in Procs \ {p} : proc'[q] = proc[q]
  BY <1>2, ProcessSet DEF r
<1> QED
  BY <1>2, <1>3 DEF Moved

\* Goto keeps the lock and the plan.
LEMMA GotoMoves ==
  ASSUME TypeOK, NEW p \in Procs, NEW pc \in Steps, Goto(p, pc)
  PROVE  Moved(p, pc, proc[p].i) /\ lock' = lock
<1>1. proc[p] \in Process
  BY DEF TypeOK
<1>2. [proc[p] EXCEPT !.i = proc[p].i, !.pc = pc] = [proc[p] EXCEPT !.pc = pc]
  BY <1>1 DEF Process
<1>3. proc' = [proc EXCEPT ![p] = [proc[p] EXCEPT !.i = proc[p].i, !.pc = pc]]
  BY <1>2 DEF Goto, TypeOK
<1>4. proc[p].i \in Nat
  BY <1>1 DEF Process
<1> QED
  BY <1>3, <1>4, MovedTo DEF Goto

\* Stop frees the lock, and the process is idle.
LEMMA StopReleases ==
  ASSUME TypeOK, NEW p \in Procs, Stop(p)
  PROVE  Released(p)
BY IdleKnown, ProcessSet DEF Stop, Released

\* Finish frees the lock; of ingest another section may wait.
LEMMA FinishReleases ==
  ASSUME TypeOK, NEW p \in Procs, Finish(p)
  PROVE  Released(p)
<1>1. NextSection(proc[p].cmd) \in {"upsert", "dbtIngest", "idle"}
  BY DEF NextSection
<1> DEFINE next == NextSection(proc[p].cmd)
           r == IF next = "idle" THEN Idle ELSE [Idle EXCEPT !.cmd = next, !.pc = "waiting"]
<1>2. /\ r \in Process
      /\ \/ r = Idle
         \/ r.pc = "waiting" /\ r.todo = {} /\ r.adopt = {} /\ r.cmd \in {"upsert", "dbtIngest"}
  BY <1>1, CommandsKnown, IdleKnown DEF Idle, Process
<1>3. proc' = [proc EXCEPT ![p] = r] /\ lock' = NoProc
  BY DEF Finish
<1> HIDE DEF r
<1> QED
  BY <1>2, <1>3, ProcessSet DEF Released

\* Advance goes on to the next operation, or is the end of the command.
LEMMA AdvanceMoves ==
  ASSUME TypeOK, NEW p \in Procs, NEW pc \in Steps, Advance(p, pc),
         proc[p].i \in 1 .. Len(proc[p].plan)
  PROVE  \/ Released(p)
         \/ /\ lock' = lock /\ proc[p].i + 1 \in 1 .. Len(proc[p].plan)
            /\ Moved(p, pc, proc[p].i + 1)
<1>1. CASE proc[p].i = Len(proc[p].plan)
  BY <1>1, FinishReleases DEF Advance
<1>2. CASE proc[p].i # Len(proc[p].plan)
  <2>1. proc[p] \in Process
    BY DEF TypeOK
  <2>2. proc[p].i \in Nat /\ Len(proc[p].plan) \in Nat
    <3>1. proc[p].i \in Nat /\ proc[p].plan \in Seq(ChainOps \cup EffectOps)
      BY <2>1 DEF Process
    <3> QED
      BY <3>1
  <2>3. lock' = lock /\ proc' = [proc EXCEPT ![p] = [proc[p] EXCEPT !.i = proc[p].i + 1, !.pc = pc]]
    BY <1>2, <2>1 DEF Advance, TypeOK
  <2>4. proc[p].i + 1 \in Nat /\ proc[p].i + 1 \in 1 .. Len(proc[p].plan)
    BY <1>2, <2>2
  <2> QED
    BY <2>3, <2>4, MovedTo
<1> QED
  BY <1>1, <1>2

-----------------------------------------------------------------------------
(* Where a step leaves the processes.                                      *)

\* What the plans rest on only grows.
JournalGrows ==
  /\ created \subseteq created' /\ created' \subseteq Entities
  /\ counts' \in Seq({1, 2}) /\ Len(counts) <= Len(counts')

\* Creation receipts are never taken back: a plan of deletions stays one.
LEMMA ResetsStayCreated ==
  ASSUME NEW plan, ResetsCreated(plan), created \subseteq created'
  PROVE  ResetsCreated(plan)'
BY DEF ResetsCreated

\* A command that has ended or waits knows nothing that could be wrong.
LEMMA ReleasedKeeps ==
  ASSUME NEW p \in Procs, Released(p)
  PROVE  InSection(p)' /\ PlanFits(p)' /\ lock' # p
<1>1. lock' # p
  BY ScenarioAssumption DEF Released
<1>2. proc'[p].cmd \in {"idle", "upsert", "dbtIngest"}
  BY IdleKnown DEF Released
<1>3. proc'[p] = Idle \/ (proc'[p].pc = "waiting" /\ proc'[p].todo = {} /\ proc'[p].adopt = {}
                         /\ proc'[p].cmd \in {"upsert", "dbtIngest"})
  BY DEF Released
<1> QED
  BY <1>1, <1>2, <1>3 DEF InSection, PlanFits

\* A command that goes on in the lock is in a section and at an operation.
LEMMA MovedKeeps ==
  ASSUME TypeOK, NEW p \in Procs, NEW pc, NEW i, Moved(p, pc, i), JournalGrows,
         PlanFits(p), lock = p, lock' = p, InSection(p),
         pc \in Sections(proc[p].cmd), i \in 1 .. Len(proc[p].plan),
         proc[p].cmd = "upsert" => counts' = counts
  PROVE  InSection(p)' /\ PlanFits(p)'
<1>1. /\ proc'[p].cmd = proc[p].cmd /\ proc'[p].plan = proc[p].plan /\ proc'[p].kind = proc[p].kind
      /\ proc'[p].pc = pc /\ proc'[p].i = i
  BY DEF Moved
<1>2. InSection(p)'
  BY <1>1 DEF InSection
<1>3. proc[p].cmd = "upsert" => QueryPlan' = QueryPlan
  BY DEF QueryPlan, QueryPlanFor, Usage, Op
<1>4. \A n \in 1 .. Len(counts) : n \in 1 .. Len(counts')
  BY DEF TypeOK, JournalGrows
<1>5. ResetsCreated(proc[p].plan) => ResetsCreated(proc[p].plan)'
  BY <1>1 DEF ResetsCreated, JournalGrows
<1> QED
  BY <1>1, <1>2, <1>3, <1>4, <1>5 DEF PlanFits

\* The others wait, or do nothing; only the journal under their plans has grown.
LEMMA OthersStay ==
  ASSUME TypeOK, NEW p \in Procs, lock \in {p, NoProc}, lock' \in {p, NoProc},
         JournalGrows, NEW q \in Procs, q # p, proc'[q] = proc[q], InSection(q), PlanFits(q)
  PROVE  InSection(q)' /\ PlanFits(q)' /\ lock' # q
<1>1. lock # q /\ lock' # q
  BY ScenarioAssumption
<1>2. InSection(q)'
  BY <1>1 DEF InSection
<1>3. \A n \in 1 .. Len(counts) : n \in 1 .. Len(counts')
  BY DEF TypeOK, JournalGrows
<1>4. ResetsCreated(proc[q].plan) => ResetsCreated(proc[q].plan)'
  BY DEF ResetsCreated, JournalGrows
<1>5. proc[q].cmd # "seed" \/ proc'[q].plan = SeedPlan
  BY DEF PlanFits
<1> QED
  BY <1>1, <1>2, <1>3, <1>4, <1>5 DEF PlanFits

\* What is left to show of a step of p.
LEMMA StepKeeps ==
  ASSUME ToolInv, NEW p \in Procs, lock \in {p, NoProc}, lock' \in {p, NoProc},
         JournalGrows, \A q \in Procs \ {p} : proc'[q] = proc[q],
         InSection(p)', PlanFits(p)', lock' = p => Knows(p)',
         TypeOK', OneKindUnresolved', LateHeld', ChainTrue', OwnersKnown', JournalTrue'
  PROVE  ToolInv'
<1>1. \A q \in Procs \ {p} : InSection(q)' /\ PlanFits(q)' /\ lock' # q
  BY OthersStay DEF ToolInv
<1> QED
  BY <1>1 DEF ToolInv

-----------------------------------------------------------------------------
(* What a receipt does.                                                    *)

\* The rest of the world, while a receipt is written.
WorldStays == UNCHANGED <<created, counts, catalog, effects, others, counters>>

\* A receipt is of one operation only.
LEMMA ReceiptTypes ==
  ASSUME TypeOK, NEW o \in ChainOps \cup EffectOps, NEW mark \in Marks, Receipt(o, mark)
  PROVE  /\ receipts' \in [ChainOps \cup EffectOps -> Marks]
         /\ receipts'[o] = mark /\ \A q \in (ChainOps \cup EffectOps) \ {o} : receipts'[q] = receipts[q]
         /\ order' \in [ChainOps -> SUBSET ChainOps] /\ stray' = stray \ {o}
<1>1. receipts' = [receipts EXCEPT ![o] = mark]
  BY DEF Receipt
<1>2. CASE o \in ChainOps
  BY <1>2 DEF Receipt, MovedToEnd, Placed, TypeOK
<1>3. CASE o \notin ChainOps
  BY <1>3 DEF Receipt, TypeOK
<1> QED
  BY <1>1, <1>2, <1>3 DEF TypeOK, Receipt

\* What stays unresolved.
LEMMA ReceiptUnresolved ==
  ASSUME TypeOK, NEW o \in ChainOps \cup EffectOps, NEW mark \in Marks, Receipt(o, mark)
  PROVE  /\ o \in ChainOps => Unresolved' = Unresolved
         /\ o \in EffectOps /\ mark \in Pending => Unresolved' = Unresolved \cup {o}
         /\ o \in EffectOps /\ mark \notin Pending => Unresolved' = Unresolved \ {o}
<1>1. /\ receipts'[o] = mark /\ \A q \in (ChainOps \cup EffectOps) \ {o} : receipts'[q] = receipts[q]
  BY ReceiptTypes
<1> QED
  BY <1>1, KindsDiffer DEF Unresolved

\* A receipt of an operation with a live effect says nothing of the chain.
LEMMA ReceiptChain ==
  ASSUME TypeOK, ChainTrue, NEW o \in EffectOps, NEW mark \in Marks, Receipt(o, mark),
         effects' = effects, Len(counts') = Len(counts)
  PROVE  ChainTrue'
<1>1. order' = order /\ \A q \in ChainOps : receipts'[q] = receipts[q] /\ (q \in stray' <=> q \in stray)
  BY KindsDiffer, ReceiptTypes DEF Receipt
<1>2. Observed \in ChainOps
  BY DEF ChainOps
<1> QED
  BY <1>1, <1>2 DEF ChainTrue, Before, Done

\* The order of the chain stays true while journal and history are the same.
LEMMA ChainStays ==
  ASSUME ChainTrue, receipts' = receipts, order' = order, effects' = effects, stray' = stray,
         Len(counts') = Len(counts)
  PROVE  ChainTrue'
BY DEF ChainTrue, Before, Done

\* The receipts of the chain and their order.
ChainReceiptsStay == order' = order /\ \A q \in ChainOps : receipts'[q] = receipts[q]

\* What a command may rest on, while they are the same.
LEMMA PrerequisitesStay ==
  ASSUME ChainReceiptsStay, NEW c \in Plans
  PROVE  Prerequisites(c)' <=> Prerequisites(c)
<1>1. \A o \in ChainOps : Done(o)' <=> Done(o)
  BY DEF ChainReceiptsStay, Done
<1>2. {Warehouse, Build, Docs, Artifacts, Observed, Postgres, DbtIngest} \subseteq ChainOps
  BY DEF ChainOps
<1>3. \A o1, o2 \in ChainOps : Before(o1, o2)' <=> Before(o1, o2)
  BY <1>1 DEF ChainReceiptsStay, Before
<1>4. DbtCurrent' <=> DbtCurrent
  BY <1>2, <1>3 DEF DbtCurrent, Placed, ChainReceiptsStay
<1>5. (PostgresCurrent' <=> PostgresCurrent) /\ (ChainCurrent' <=> ChainCurrent)
  BY <1>2, <1>3, <1>4 DEF QueryCurrent, PostgresCurrent, ChainCurrent
<1> QED
  BY <1>5 DEF Prerequisites, Plans

\* The aspects of the entities.
LEMMA AspectsKnown ==
  /\ Entities = {"asset", "query"}
  /\ \A e \in Entities : /\ Aspects(e) \subseteq AllAspects /\ Marker(e) \in Aspects(e) /\ Status(e) \in Aspects(e)
                         /\ Marker(e) # Status(e)
  /\ Aspects("asset") = {"info", "ownership", "status"} /\ Aspects("query") = {"properties", "queryStatus"}
  /\ Marker("asset") = "info" /\ Marker("query") = "properties"
  /\ Status("asset") = "status" /\ Status("query") = "queryStatus"
  /\ AllAspects = {"info", "ownership", "status", "properties", "queryStatus", "overlay", "lineage"}
  /\ \A o \in SeedOps \cup StableQueryOps : o[2] \in AllAspects
<1>1. /\ Aspects("asset") = {"info", "ownership", "status"} /\ Aspects("query") = {"properties", "queryStatus"}
      /\ Marker("asset") = "info" /\ Marker("query") = "properties"
      /\ Status("asset") = "status" /\ Status("query") = "queryStatus"
  BY DEF Aspects, Marker, Status
<1>2. AllAspects = {"info", "ownership", "status", "properties", "queryStatus", "overlay", "lineage"}
  BY <1>1 DEF AllAspects, Overlays
<1>3. \A o \in SeedOps \cup StableQueryOps : o[2] \in AllAspects
  BY <1>2, KindsDiffer
<1> QED
  BY <1>1, <1>2, <1>3 DEF Entities

\* The kinds of operation that can leave something unresolved.
LEMMA EffectKinds ==
  ASSUME NEW o \in EffectOps
  PROVE  /\ \/ o \in SeedOps \cup StableQueryOps /\ o[2] \in AllAspects /\ o[2] # "usage"
            \/ o \in QueryOps \ StableQueryOps /\ o = Usage(o[3]) /\ o[3] \in 1 .. MaxObservations /\ o[2] = "usage"
            \/ o \in ResetOps /\ o = Reset(o[2]) /\ o[2] \in Entities
         /\ o \in SeedOps => o[1] = "seed" /\ o \notin QueryOps /\ o \notin ResetOps
         /\ o \in QueryOps => o[1] = "ingest-query" /\ o \notin SeedOps /\ o \notin ResetOps
         /\ o \in ResetOps => o[1] = "reset" /\ o \notin SeedOps /\ o \notin QueryOps
<1>1. StableQueryOps \subseteq QueryOps
  BY DEF QueryOps
<1>2. \A op \in SeedOps \cup StableQueryOps : op[2] \in AllAspects /\ op[2] # "usage"
  BY AspectsKnown, KindsDiffer
<1> QED
  BY <1>1, <1>2, KindsDiffer

\* An operation is known by what it writes.
LEMMA AspectNamesOp ==
  ASSUME NEW o1 \in SeedOps \cup StableQueryOps, NEW o2 \in SeedOps \cup StableQueryOps, o1[2] = o2[2]
  PROVE  o1 = o2
BY KindsDiffer

\* What the catalog says of entities, while nobody writes it.
LEMMA CatalogStays ==
  ASSUME UNCHANGED <<live, maker, touched>>
  PROVE  \A e : (Owned(e)' <=> Owned(e)) /\ (Marked(e)' <=> Marked(e))
                /\ (Exists(e)' <=> Exists(e)) /\ (Exact(e)' <=> Exact(e))
BY DEF Owned, Marked, Exists, Exact

\* What may arrive, while the catalog is the same and the journal grows.
LEMMA ArrivalStays ==
  ASSUME TypeOK, UNCHANGED <<live, maker, touched>>, JournalGrows,
         NEW o \in ChainOps \cup EffectOps, MayArrive(o), receipts'[o] # "NONE"
  PROVE  MayArrive(o)'
<1>1. \A e : (Owned(e)' <=> Owned(e)) /\ (Marked(e)' <=> Marked(e)) /\ (Exists(e)' <=> Exists(e))
  BY CatalogStays
<1>2. Len(counts) \in Nat /\ Len(counts') \in Nat /\ Len(counts) <= Len(counts') /\ created \subseteq created'
  BY DEF TypeOK, JournalGrows
<1>3. IsUsage(o) => o[3] <= Len(counts')
  <2>1. CASE o \in ChainOps
    BY <2>1, KindsDiffer DEF IsUsage
  <2>2. CASE o \in EffectOps /\ IsUsage(o)
    <3>1. o[3] \in Nat
      BY <2>2, EffectKinds, ScenarioAssumption DEF IsUsage, Entities
    <3> QED
      BY <1>2, <2>2, <3>1 DEF MayArrive
  <2> QED
    BY <2>1, <2>2
<1> QED
  BY <1>1, <1>2, <1>3 DEF MayArrive

\* What may arrive late, likewise.
LEMMA LateStays ==
  ASSUME TypeOK, LateHeld, UNCHANGED <<live, maker, touched, late>>, JournalGrows,
         \A o \in late : receipts[o] # "NONE" => receipts'[o] # "NONE"
  PROVE  LateHeld'
<1> SUFFICES ASSUME NEW o \in late PROVE MayArrive(o)'
  BY DEF LateHeld
<1>1. MayArrive(o) /\ receipts'[o] # "NONE" /\ o \in ChainOps \cup EffectOps
  BY DEF LateHeld, MayArrive, TypeOK
<1> QED
  BY <1>1, ArrivalStays

\* A receipt takes no entity from its owner, nor does the FAILURE of a write that may
\* arrive.
LEMMA ReceiptOwners ==
  ASSUME TypeOK, OwnersKnown, NEW o \in ChainOps \cup EffectOps, NEW mark \in Marks, Receipt(o, mark),
         UNCHANGED <<live, maker, touched, created>>, mark # "FAILURE" \/ MayArrive(o),
         o \in ResetOps => o[2] \in created
  PROVE  OwnersKnown'
<1>1. /\ receipts'[o] = mark /\ \A q \in (ChainOps \cup EffectOps) \ {o} : receipts'[q] = receipts[q]
  BY ReceiptTypes
<1>2. \A q \in EffectOps \ {o} : Adopted(q)' \subseteq Adopted(q)
  BY <1>1 DEF Adopted
<1>5. o \in EffectOps => \A e \in Adopted(o)' : e \in Entities /\ (Owned(e) \/ ~Marked(e))
  <2> SUFFICES ASSUME o \in EffectOps, NEW e \in Adopted(o)' PROVE e \in Entities /\ (Owned(e) \/ ~Marked(e))
    OBVIOUS
  <2>1. mark = "FAILURE" /\ MayArrive(o)
    BY <1>1 DEF Adopted
  <2>2. o \in SeedOps \cup StableQueryOps /\ e = Writes(o) /\ o[2] \in Aspects(e) /\ e \in Entities
    <3>1. CASE o[1] = "seed" /\ o[2] \in Aspects("asset")
      BY <3>1, EffectKinds DEF Adopted, Writes, Entities
    <3>2. CASE o = Op("ingest-query", "properties")
      <4>1. o[1] = "ingest-query" /\ o[2] = "properties" /\ o \in StableQueryOps
        BY <3>2, OpsKnown DEF StableQueryOps
      <4> QED
        BY <3>2, <4>1, AspectsKnown DEF Adopted, Writes, Entities
    <3> QED
      BY <3>1, <3>2 DEF Adopted
  <2>3. Owned(e) \/ ~Exists(e)
    BY <2>1, <2>2 DEF MayArrive
  <2>4. Marked(e) => Exists(e)
    BY <2>2, AspectsKnown DEF Marked, Exists
  <2> QED
    BY <2>2, <2>3, <2>4
<1>3. \A e \in Entities : receipts'[Reset(e)] # "NONE" => e \in created'
  <2> SUFFICES ASSUME NEW e \in Entities, receipts'[Reset(e)] # "NONE"
               PROVE  e \in created'
    OBVIOUS
  <2>1. Reset(e) \in ResetOps /\ Reset(e) \in EffectOps /\ Reset(e)[2] = e
    BY OpsKnown DEF ResetOps, EffectOps
  <2> QED
    BY <1>1, <2>1 DEF OwnersKnown, CreationReceiptsTrue
<1>4. \A e : (Owned(e)' <=> Owned(e)) /\ (Marked(e)' <=> Marked(e)) /\ (Exists(e)' <=> Exists(e))
  BY CatalogStays
<1> QED
  BY <1>2, <1>3, <1>4, <1>5 DEF OwnersKnown, CreationReceiptsTrue

\* What a receipt may say of a catalog that nobody else edits.
JournalAllows(o, mark) ==
  edits = 0 =>
    /\ mark # "CONFLICT"
    /\ o \in SeedOps \cup StableQueryOps =>
         /\ mark = "APPLIED" => live[o[2]] \in {"ours", "removed"}
         /\ mark = "NOT_APPLIED" => live[o[2]] # "ours"
    /\ o \in QueryOps \ StableQueryOps =>
         /\ mark = "APPLIED" => usage >= o[3]
         /\ mark = "NOT_APPLIED" => usage # o[3]
    /\ o \in ResetOps /\ mark = "NOT_APPLIED" => live[Status(o[2])] # "removed"

\* A receipt that is allowed leaves the journal true.
LEMMA ReceiptJournal ==
  ASSUME TypeOK, JournalTrue, NEW o \in ChainOps \cup EffectOps, NEW mark \in Marks \ {"NONE"}, Receipt(o, mark),
         UNCHANGED <<live, usage, edits, created>>,
         o \in EffectOps => JournalAllows(o, mark)
  PROVE  JournalTrue'
<1>1. /\ receipts'[o] = mark /\ \A q \in (ChainOps \cup EffectOps) \ {o} : receipts'[q] = receipts[q]
      /\ stray' = stray \ {o}
  BY ReceiptTypes
<1> SUFFICES ASSUME edits = 0 PROVE JournalTrue'
  BY DEF JournalTrue
<1>2. \A a \in AllAspects : live'[a] \notin {"other", "foreign"} /\ (live'[a] = "native" => a = "lineage")
  BY DEF JournalTrue
<1>3. \A e \in created' : Marked(e)'
  BY DEF JournalTrue, Marked
<1>4. \A q \in EffectOps : receipts'[q] # "CONFLICT"
  BY <1>1 DEF JournalTrue, JournalAllows
<1>5. \A q \in SeedOps \cup StableQueryOps :
         /\ receipts'[q] = "APPLIED" => live'[q[2]] \in {"ours", "removed"}
         /\ receipts'[q] = "NOT_APPLIED" => live'[q[2]] # "ours" \/ q \in stray'
  <2>1. \A q \in SeedOps \cup StableQueryOps : q \in EffectOps /\ (q \in stray' <=> q # o /\ q \in stray)
    BY <1>1 DEF EffectOps, QueryOps
  <2> QED
    BY <1>1, <2>1 DEF JournalTrue, JournalAllows
<1>6. \A n \in 1 .. MaxObservations :
         /\ receipts'[Usage(n)] = "APPLIED" => usage' >= n
         /\ receipts'[Usage(n)] = "NOT_APPLIED" => usage' # n \/ Usage(n) \in stray'
  <2> SUFFICES ASSUME NEW n \in 1 .. MaxObservations
               PROVE  /\ receipts'[Usage(n)] = "APPLIED" => usage' >= n
                      /\ receipts'[Usage(n)] = "NOT_APPLIED" => usage' # n \/ Usage(n) \in stray'
    OBVIOUS
  <2>1. Usage(n) \in QueryOps \ StableQueryOps /\ Usage(n) \in EffectOps /\ Usage(n)[3] = n
    BY OpsKnown, KindsDiffer DEF QueryOps
  <2> QED
    BY <1>1, <2>1 DEF JournalTrue, JournalAllows
<1>7. \A e \in Entities : live'[Status(e)] = "removed" =>
         receipts'[Reset(e)] = "APPLIED" \/ Reset(e) \in Unresolved' \cup stray'
  <2> SUFFICES ASSUME NEW e \in Entities, live'[Status(e)] = "removed"
               PROVE  receipts'[Reset(e)] = "APPLIED" \/ Reset(e) \in Unresolved' \cup stray'
    OBVIOUS
  <2>1. Reset(e) \in ResetOps /\ Reset(e) \in EffectOps /\ Reset(e)[2] = e
    BY OpsKnown DEF ResetOps, EffectOps
  <2>2. CASE Reset(e) = o
    <3>1. mark # "NOT_APPLIED"
      BY <2>1, <2>2 DEF JournalAllows
    <3> QED
      BY <1>1, <2>1, <2>2, <3>1 DEF Unresolved, Marks
  <2>3. CASE Reset(e) # o
    BY <1>1, <2>1, <2>3 DEF JournalTrue, Unresolved
  <2> QED
    BY <2>2, <2>3
<1> QED
  BY <1>2, <1>3, <1>4, <1>5, <1>6, <1>7 DEF JournalTrue

\* Everything together, for a receipt of an operation with a live effect.
LEMMA ReceiptKeeps ==
  ASSUME ToolInv, NEW o \in EffectOps, NEW mark \in Marks \ {"NONE", "FAILURE"}, Receipt(o, mark), WorldStays,
         o \in ResetOps => o[2] \in created, JournalAllows(o, mark),
         \A q \in Unresolved : q[1] = o[1]
  PROVE  /\ ChainTrue' /\ OwnersKnown' /\ JournalTrue' /\ OneKindUnresolved' /\ LateHeld' /\ JournalGrows
         /\ ChainReceiptsStay
         /\ mark \in Pending => Unresolved' = Unresolved \cup {o}
         /\ mark \notin Pending => Unresolved' = Unresolved \ {o}
         /\ receipts'[o] = mark /\ \A q \in (ChainOps \cup EffectOps) \ {o} : receipts'[q] = receipts[q]
<1>1. TypeOK /\ ChainTrue /\ OwnersKnown /\ JournalTrue /\ OneKindUnresolved
  BY DEF ToolInv
<1>2. ChainTrue' /\ OwnersKnown' /\ JournalTrue'
  BY <1>1, ReceiptChain, ReceiptOwners, ReceiptJournal DEF WorldStays, catalog, others
<1>3. /\ mark \in Pending => Unresolved' = Unresolved \cup {o}
      /\ mark \notin Pending => Unresolved' = Unresolved \ {o}
  BY <1>1, ReceiptUnresolved
<1>4. OneKindUnresolved'
  BY <1>3 DEF OneKindUnresolved
<1>5. JournalGrows
  BY <1>1 DEF JournalGrows, WorldStays, TypeOK
<1>6. ChainReceiptsStay
  BY <1>1, ReceiptTypes, KindsDiffer DEF Receipt, ChainReceiptsStay
<1>7. LateHeld'
  <2>1. \A q \in late : receipts[q] # "NONE" => receipts'[q] # "NONE"
    BY <1>1, ReceiptTypes DEF TypeOK
  <2> QED
    BY <1>1, <1>5, <2>1, LateStays DEF ToolInv, WorldStays, catalog, others
<1> QED
  BY <1>1, <1>2, <1>3, <1>4, <1>5, <1>6, <1>7, ReceiptTypes

-----------------------------------------------------------------------------
(* The preparation chain.                                                  *)

\* Nothing but processes and the lock changes: the journal and the catalog still
\* agree.
LEMMA WorldKeeps ==
  ASSUME ToolInv, UNCHANGED <<journal, catalog, effects, touched, edits>>
  PROVE  /\ ChainTrue' /\ OwnersKnown' /\ JournalTrue' /\ OneKindUnresolved' /\ JournalGrows
         /\ Unresolved' = Unresolved /\ ChainReceiptsStay
         /\ \A o \in late : MayArrive(o)'
         /\ late' = late => LateHeld'
<1>1. TypeOK /\ ChainTrue /\ OwnersKnown /\ JournalTrue /\ OneKindUnresolved
  BY DEF ToolInv
<1>2. Unresolved' = Unresolved
  BY DEF journal, Unresolved
<1>3. ChainTrue'
  BY <1>1, ChainStays DEF journal
<1>4. \A e : (Owned(e)' <=> Owned(e)) /\ (Marked(e)' <=> Marked(e)) /\ (Exists(e)' <=> Exists(e))
  BY CatalogStays DEF catalog
<1>5. \A o : Adopted(o)' = Adopted(o)
  BY DEF Adopted, journal
<1>6. OwnersKnown'
  BY <1>1, <1>4, <1>5 DEF OwnersKnown, CreationReceiptsTrue, journal, catalog
<1>7. JournalTrue'
  BY <1>1, <1>2, <1>4 DEF JournalTrue, journal, catalog
<1>8. OneKindUnresolved'
  BY <1>1, <1>2 DEF OneKindUnresolved
<1>9. \A o \in late : MayArrive(o)'
  BY <1>4 DEF ToolInv, LateHeld, MayArrive, journal, catalog
<1> QED
  BY <1>1, <1>2, <1>3, <1>6, <1>7, <1>8, <1>9 DEF JournalGrows, journal, TypeOK, LateHeld, ChainReceiptsStay

-----------------------------------------------------------------------------
(* What carrying an operation out does, early or late.                     *)

\* The catalog and the history of the chain after an operation: each of them goes
\* one way only, and nothing of somebody else comes to be.
CatalogMoves(o) ==
  /\ live' \in [AllAspects -> Values] /\ usage' \in 0 .. Len(counts)
  /\ maker' \in [Entities -> {"nobody", "tool", "others"}]
  /\ effects' \in [ChainOps -> SUBSET ChainOps]
  /\ \A a \in AllAspects : live'[a] # live[a] =>
       \/ live[a] = "missing" /\ live'[a] = "absent" /\ a = "overlay"
       \/ live[a] = "absent" /\ live'[a] = "native" /\ a = "lineage"
       \/ live'[a] = "ours" /\ o \in SeedOps \cup StableQueryOps /\ a = o[2]
       \/ live'[a] = "removed" /\ o \in ResetOps /\ a = Status(o[2])
  /\ usage' # usage => o \in QueryOps \ StableQueryOps /\ usage' = o[3] /\ usage' > usage
  /\ \A x \in Entities : /\ Exists(x) => Exists(x)'
                         /\ Owned(x) => Owned(x)'
                         /\ Marked(x) => Marked(x)'
                         /\ Exists(x)' => Exists(x) \/ Owned(x)'
                         /\ Marked(x)' => Marked(x) \/ Owned(x)'
                         /\ Exact(x) => Exact(x)' \/ Owned(x)'
                         /\ maker'[x] = "tool" => Exists(x)'

\* A write of an aspect.
LEMMA AspectWritten ==
  ASSUME TypeOK, OwnersKnown, NEW o \in SeedOps \cup StableQueryOps, Upsert(o), touched' = touched,
         o[2] \in Aspects(Writes(o)) => Owned(Writes(o)) \/ ~Exists(Writes(o)), effects' = effects
  PROVE  /\ CatalogMoves(o) /\ live'[o[2]] = "ours" /\ usage' = usage
         /\ o[2] \in Aspects(Writes(o)) => Exists(Writes(o))'
<1>0. PICK e : e = Writes(o)
  OBVIOUS
<1>1. e \in Entities /\ o[2] \in AllAspects /\ ~IsUsage(o)
  <2>1. o \in EffectOps
    BY DEF EffectOps, QueryOps
  <2> QED
    BY <1>0, <2>1, KindsDiffer, AspectsKnown DEF Writes, Entities, IsUsage
<1>2. /\ live' = [live EXCEPT ![o[2]] = "ours"] /\ usage' = usage
      /\ maker' = IF o[2] \in Aspects(e) /\ ~Exists(e) THEN [maker EXCEPT ![e] = "tool"] ELSE maker
  BY <1>0, <1>1 DEF Upsert
<1>3. live'[o[2]] = "ours" /\ \A a \in AllAspects \ {o[2]} : live'[a] = live[a]
  BY <1>1, <1>2 DEF TypeOK
<1>4. live' \in [AllAspects -> Values] /\ maker' \in [Entities -> {"nobody", "tool", "others"}]
  BY <1>2 DEF TypeOK, Values
<1>5. \A x \in Entities : Aspects(x) \subseteq AllAspects /\ Marker(x) \in Aspects(x)
                          /\ (x # e /\ o[2] \in Aspects(e) => o[2] \notin Aspects(x))
  BY <1>1, AspectsKnown
<1>6. /\ o[2] \in Aspects(e) => Exists(e)' /\ Owned(e)'
      /\ \A x \in Entities : /\ maker[x] = "tool" => maker'[x] = "tool"
                             /\ maker'[x] = "tool" => maker[x] = "tool" \/ (x = e /\ o[2] \in Aspects(e))
  <2>1. \A x \in Entities : /\ maker[x] = "tool" => maker'[x] = "tool"
                            /\ maker'[x] = "tool" => maker[x] = "tool" \/ (x = e /\ o[2] \in Aspects(e))
    BY <1>2 DEF TypeOK
  <2>2. ASSUME o[2] \in Aspects(e) PROVE Exists(e)' /\ Owned(e)'
    <3>1. Exists(e)'
      BY <1>3, <2>2 DEF Exists
    <3>2. CASE Owned(e)
      BY <1>1, <2>1, <3>1, <3>2 DEF Owned
    <3>3. CASE ~Exists(e)
      <4>1. maker'[e] = "tool"
        BY <1>1, <1>2, <2>2, <3>3 DEF TypeOK
      <4> QED
        BY <3>1, <4>1 DEF Owned
    <3> QED
      BY <1>0, <2>2, <3>2, <3>3
  <2> QED
    BY <2>1, <2>2
<1>7. ASSUME NEW x \in Entities
      PROVE  /\ Exists(x) => Exists(x)'
             /\ Owned(x) => Owned(x)'
             /\ Marked(x) => Marked(x)'
             /\ Exists(x)' => Exists(x) \/ Owned(x)'
             /\ Marked(x)' => Marked(x) \/ Owned(x)'
             /\ Exact(x) => Exact(x)' \/ Owned(x)'
             /\ maker'[x] = "tool" => Exists(x)'
  <2>1. (Exists(x) => Exists(x)') /\ (Marked(x) => Marked(x)') /\ (Exact(x) => Exact(x)')
    BY <1>3, <1>5 DEF Exists, Marked, Exact
  <2>2. Owned(x) => Owned(x)'
    BY <1>6 DEF Owned
  <2>3. o[2] \notin Aspects(x) => (Exists(x)' <=> Exists(x)) /\ (Marked(x)' <=> Marked(x))
    BY <1>3, <1>5 DEF Exists, Marked
  <2>4. maker'[x] = "tool" => Exists(x)'
    BY <1>6, <2>1 DEF OwnersKnown, CreationReceiptsTrue
  <2>5. o[2] \in Aspects(x) => x = e
    <3>1. o[2] \in Aspects(e) \/ o[2] \notin Aspects("asset") \cup Aspects("query")
      BY <1>0, <1>1, KindsDiffer, AspectsKnown DEF Writes
    <3> QED
      BY <1>5, <3>1, AspectsKnown
  <2> QED
    BY <1>6, <2>1, <2>2, <2>3, <2>4, <2>5
<1> QED
  BY <1>0, <1>2, <1>3, <1>4, <1>6, <1>7 DEF CatalogMoves, TypeOK

\* A catalog whose entities are as they were.
LEMMA EntitiesStay ==
  ASSUME TypeOK, OwnersKnown, NEW o, maker' = maker, touched' = touched, effects' = effects \/ effects' \in [ChainOps -> SUBSET ChainOps],
         live' \in [AllAspects -> Values], usage' \in 0 .. Len(counts),
         \A a \in AllAspects : live'[a] # live[a] => a \in Overlays,
         \A a \in AllAspects : live'[a] # live[a] =>
           \/ live[a] = "missing" /\ live'[a] = "absent" /\ a = "overlay"
           \/ live[a] = "absent" /\ live'[a] = "native" /\ a = "lineage",
         usage' # usage => o \in QueryOps \ StableQueryOps /\ usage' = o[3] /\ usage' > usage
  PROVE  CatalogMoves(o)
<1>1. \A x \in Entities : \A a \in Aspects(x) : a \in AllAspects /\ live'[a] = live[a]
  BY AspectsKnown DEF Overlays
<1>2. \A x \in Entities : Marker(x) \in Aspects(x)
  BY AspectsKnown
<1>3. \A x \in Entities : (Exists(x)' <=> Exists(x)) /\ (Marked(x)' <=> Marked(x)) /\ (Exact(x)' <=> Exact(x))
                          /\ (Owned(x)' <=> Owned(x))
  BY <1>1, <1>2 DEF Exists, Marked, Exact, Owned
<1> QED
  BY <1>3 DEF CatalogMoves, TypeOK, OwnersKnown, CreationReceiptsTrue

\* An observation that comes late does not replace a later one.
LEMMA ObservationWritten ==
  ASSUME TypeOK, OwnersKnown, NEW o \in QueryOps \ StableQueryOps, Upsert(o), touched' = touched,
         o[3] <= Len(counts), effects' = effects
  PROVE  CatalogMoves(o) /\ usage' >= o[3] /\ live' = live
<1>1. IsUsage(o) /\ o[3] \in 1 .. MaxObservations /\ o[2] \notin Aspects(Writes(o))
  <2>1. o[2] = "usage" /\ o[3] \in 1 .. MaxObservations
    BY KindsDiffer
  <2>2. Writes(o) \in Entities
    BY DEF Writes, Entities
  <2> QED
    BY <2>1, <2>2, AspectsKnown DEF IsUsage
<1>2. live' = live /\ maker' = maker /\ usage' = IF usage < o[3] THEN o[3] ELSE usage
  BY <1>1 DEF Upsert
<1>3. usage \in Nat /\ Len(counts) \in Nat /\ usage <= Len(counts) /\ o[3] \in Nat
  BY <1>1, ScenarioAssumption DEF TypeOK
<1>4. usage' \in 0 .. Len(counts) /\ usage' >= o[3] /\ (usage' # usage => usage' = o[3] /\ usage' > usage)
  BY <1>2, <1>3
<1> QED
  BY <1>2, <1>4, EntitiesStay DEF TypeOK

\* A soft deletion of an entity that has a creation receipt.
LEMMA EntityDeleted ==
  ASSUME TypeOK, OwnersKnown, NEW o \in ResetOps, SoftDelete(o[2]), UNCHANGED <<usage, maker, touched, effects>>,
         o[2] \in created
  PROVE  CatalogMoves(o)
<1>0. PICK t \in Entities : t = o[2]
  BY KindsDiffer
<1>1. live' = [live EXCEPT ![Status(t)] = "removed"] /\ Status(t) \in AllAspects /\ Owned(t)
  BY <1>0, AspectsKnown DEF SoftDelete, OwnersKnown, CreationReceiptsTrue
<1>2. live'[Status(t)] = "removed" /\ \A a \in AllAspects \ {Status(t)} : live'[a] = live[a]
  BY <1>1 DEF TypeOK
<1>3. live' \in [AllAspects -> Values]
  BY <1>1 DEF TypeOK, Values
<1>4. ASSUME NEW x \in Entities
      PROVE  /\ Exists(x) => Exists(x)'
             /\ Owned(x)' <=> Owned(x)
             /\ Marked(x)' <=> Marked(x)
             /\ x # t => (Exists(x)' <=> Exists(x)) /\ (Exact(x)' <=> Exact(x))
             /\ maker'[x] = "tool" => Exists(x)'
  <2>1. /\ Aspects(x) \subseteq AllAspects /\ Marker(x) \in AllAspects \ {Status(t)}
        /\ x # t => Status(t) \notin Aspects(x)
    BY AspectsKnown
  <2>2. /\ Exists(x) => Exists(x)'
        /\ Marked(x)' <=> Marked(x)
        /\ x # t => (Exists(x)' <=> Exists(x)) /\ (Exact(x)' <=> Exact(x))
    BY <1>2, <2>1 DEF Exists, Marked, Exact
  <2> QED
    BY <2>2 DEF Owned, OwnersKnown, CreationReceiptsTrue
<1> QED
  BY <1>0, <1>1, <1>2, <1>3, <1>4 DEF CatalogMoves, TypeOK

\* The work of a chain command.
LEMMA ChainMoved ==
  ASSUME TypeOK, OwnersKnown, NEW o \in ChainOps, ChainEffect(o), UNCHANGED <<usage, maker, touched>>
  PROVE  CatalogMoves(o) /\ effects' = [q \in ChainOps |-> IF q = o THEN Placed(effects) \cup {o} ELSE effects[q] \ {o}]
<1>1. /\ effects' = [q \in ChainOps |-> IF q = o THEN Placed(effects) \cup {o} ELSE effects[q] \ {o}]
      /\ live' \in [AllAspects -> Values]
      /\ \A a \in AllAspects : live'[a] # live[a] =>
           \/ live[a] = "missing" /\ live'[a] = "absent" /\ a = "overlay"
           \/ live[a] = "absent" /\ live'[a] = "native" /\ a = "lineage"
  BY AspectsKnown DEF ChainEffect, MovedToEnd, TypeOK, Values
<1>2. \A a \in AllAspects : live'[a] # live[a] => a \in Overlays
  BY <1>1 DEF Overlays
<1>3. effects' \in [ChainOps -> SUBSET ChainOps]
  BY <1>1 DEF TypeOK, Placed
<1> QED
  BY <1>1, <1>2, <1>3, EntitiesStay DEF TypeOK

\* Whatever is carried out.
LEMMA CarriedOutMoves ==
  ASSUME TypeOK, OwnersKnown, NEW o \in ChainOps \cup EffectOps, MayArrive(o), CarriedOut(o), touched' = touched
  PROVE  /\ CatalogMoves(o)
         /\ o \in ChainOps => effects' = [q \in ChainOps |-> IF q = o THEN Placed(effects) \cup {o} ELSE effects[q] \ {o}]
         /\ o \notin ChainOps => effects' = effects
<1>1. CASE o \in ChainOps
  <2>1. o \notin EffectOps /\ o \notin ResetOps /\ o \notin SeedOps /\ o \notin QueryOps
    BY <1>1, KindsDiffer DEF EffectOps
  <2> QED
    BY <1>1, <2>1, ChainMoved DEF CarriedOut
<1>2. CASE o \in ResetOps
  <2>1. o \notin ChainOps /\ o \notin SeedOps /\ o \notin QueryOps
    BY <1>2, KindsDiffer, EffectKinds DEF EffectOps
  <2> QED
    BY <1>2, <2>1, EntityDeleted DEF CarriedOut, MayArrive
<1>3. CASE o \in SeedOps \cup StableQueryOps
  <2>1. o \in EffectOps /\ o \notin ChainOps /\ o \notin ResetOps
    BY <1>3, KindsDiffer, EffectKinds DEF EffectOps, QueryOps
  <2> QED
    BY <1>3, <2>1, AspectWritten DEF CarriedOut, MayArrive
<1>4. CASE o \in QueryOps \ StableQueryOps
  <2>1. o \in EffectOps /\ o \notin ChainOps /\ o \notin ResetOps /\ IsUsage(o)
    BY <1>4, KindsDiffer, EffectKinds DEF EffectOps, IsUsage
  <2> QED
    BY <1>4, <2>1, ObservationWritten DEF CarriedOut, MayArrive
<1> QED
  BY <1>1, <1>2, <1>3, <1>4 DEF EffectOps

\* Carrying an operation out leaves the journal true, and what may still arrive
\* is as it was.
LEMMA CarriedOutKeeps ==
  ASSUME ToolInv, NEW o \in ChainOps \cup EffectOps, MayArrive(o), CarriedOut(o),
         UNCHANGED <<receipts, order, created, succeeded, counts, touched, edits>>,
         stray' = IF receipts[o] \in Pending THEN stray ELSE stray \cup {o}
  PROVE  /\ ChainTrue' /\ OwnersKnown' /\ JournalTrue' /\ OneKindUnresolved' /\ JournalGrows
         /\ Unresolved' = Unresolved /\ ChainReceiptsStay
         /\ \A q \in ChainOps \cup EffectOps : MayArrive(q) => MayArrive(q)'
         /\ late' \subseteq late => LateHeld'
<1>1. TypeOK /\ ChainTrue /\ OwnersKnown /\ JournalTrue /\ OneKindUnresolved /\ LateHeld
  BY DEF ToolInv
<1>2. /\ CatalogMoves(o)
      /\ o \in ChainOps => effects' = [q \in ChainOps |-> IF q = o THEN Placed(effects) \cup {o} ELSE effects[q] \ {o}]
      /\ o \notin ChainOps => effects' = effects
  BY <1>1, CarriedOutMoves
<1>3. Unresolved' = Unresolved /\ stray \subseteq stray'
  BY DEF Unresolved
<1>4. ChainTrue'
  <2>1. \A q \in ChainOps : (Done(q)' <=> Done(q)) /\ (Done(q) /\ q = o => o \in stray')
    BY DEF Done, Pending
  <2>2. \A o1, o2 : Before(o1, o2)' <=> Before(o1, o2)
    BY DEF Before, Done
  <2>3. \A q \in ChainOps : Done(q) => q \in effects'[q]
    BY <1>1, <1>2 DEF ChainTrue
  <2>4. ASSUME NEW o1 \in ChainOps, NEW o2 \in ChainOps, Before(o1, o2)
        PROVE  o1 \in effects'[o2] \/ o1 \in stray'
    <3>1. Done(o1) /\ Done(o2)
      BY <2>4 DEF Before
    <3>2. CASE o1 = o
      BY <2>1, <3>1, <3>2
    <3>3. CASE o1 # o /\ o2 = o
      <4>1. o1 \in Placed(effects)
        BY <1>1, <3>1 DEF ChainTrue, Placed
      <4> QED
        BY <1>2, <3>3, <4>1
    <3>4. CASE o1 # o /\ o2 # o
      BY <1>1, <1>2, <1>3, <2>4, <3>4 DEF ChainTrue
    <3> QED
      BY <3>2, <3>3, <3>4
  <2>5. Observed \in ChainOps
    BY DEF ChainOps
  <2> QED
    BY <1>1, <2>1, <2>2, <2>3, <2>4, <2>5 DEF ChainTrue
<1>5. OwnersKnown'
  <2>1. \A q : Adopted(q)' = Adopted(q) /\ Adopted(q) \subseteq Entities
    BY DEF Adopted, Entities
  <2>2. \A e \in Entities : live'[Status(e)] # "other" /\ live'[Marker(e)] # "removed"
    <3>1. \A e \in Entities : /\ Status(e) \in AllAspects /\ Marker(e) \in AllAspects
                              /\ \A x \in Entities : Marker(e) # Status(x)
      BY AspectsKnown
    <3>2. o \in ResetOps => o[2] \in Entities
      BY KindsDiffer
    <3> QED
      BY <1>1, <1>2, <3>1, <3>2 DEF OwnersKnown, CreationReceiptsTrue, CatalogMoves
  <2>3. \A e \in Entities : Owned(e) \/ ~Marked(e) => Owned(e)' \/ ~Marked(e)'
    BY <1>2 DEF CatalogMoves
  <2>4. \A e \in created' : e \in Entities /\ Owned(e)'
    BY <1>1, <1>2 DEF OwnersKnown, CreationReceiptsTrue, CatalogMoves, TypeOK
  <2> QED
    BY <1>1, <1>2, <2>1, <2>2, <2>3, <2>4 DEF OwnersKnown, CreationReceiptsTrue, CatalogMoves
<1>6. JournalTrue'
  <2> SUFFICES ASSUME edits = 0 PROVE JournalTrue'
    BY DEF JournalTrue
  <2>1. \A a \in AllAspects : live'[a] \notin {"other", "foreign"} /\ (live'[a] = "native" => a = "lineage")
    BY <1>1, <1>2 DEF JournalTrue, CatalogMoves
  <2>2. \A x \in created' : Marked(x)'
    BY <1>1, <1>2 DEF JournalTrue, CatalogMoves, TypeOK
  <2>3. \A q \in EffectOps : receipts'[q] # "CONFLICT"
    BY <1>1 DEF JournalTrue
  <2>4. ASSUME NEW q \in SeedOps \cup StableQueryOps
        PROVE  /\ receipts'[q] = "APPLIED" => live'[q[2]] \in {"ours", "removed"}
               /\ receipts'[q] = "NOT_APPLIED" => live'[q[2]] # "ours" \/ q \in stray'
    <3>1. q[2] \in AllAspects
      BY AspectsKnown
    <3>2. live'[q[2]] = "ours" /\ live[q[2]] # "ours" => q = o
      BY <1>2, <3>1, AspectNamesOp DEF CatalogMoves
    <3>3. receipts'[q] = "NOT_APPLIED" /\ q = o => q \in stray'
      BY DEF Pending
    <3> QED
      BY <1>1, <1>2, <1>3, <3>1, <3>2, <3>3 DEF JournalTrue, CatalogMoves
  <2>5. ASSUME NEW n \in 1 .. MaxObservations
        PROVE  /\ receipts'[Usage(n)] = "APPLIED" => usage' >= n
               /\ receipts'[Usage(n)] = "NOT_APPLIED" => usage' # n \/ Usage(n) \in stray'
    <3>1. usage \in Nat /\ usage' \in Nat /\ n \in Nat /\ Len(counts) \in Nat
      BY <1>1, <1>2, ScenarioAssumption DEF TypeOK, CatalogMoves
    <3>2. usage' = usage \/ (o = Usage(usage') /\ usage' > usage)
      BY <1>2, KindsDiffer DEF CatalogMoves
    <3>3. receipts'[Usage(n)] = "NOT_APPLIED" /\ Usage(n) = o => Usage(n) \in stray'
      BY DEF Pending
    <3>4. receipts[Usage(n)] = "APPLIED" => usage >= n
      BY <1>1 DEF JournalTrue
    <3>5. receipts[Usage(n)] = "NOT_APPLIED" => usage # n \/ Usage(n) \in stray
      BY <1>1 DEF JournalTrue
    <3>6. receipts'[Usage(n)] = "APPLIED" => usage' >= n
      BY <3>1, <3>2, <3>4
    <3>7. receipts'[Usage(n)] = "NOT_APPLIED" => usage' # n \/ Usage(n) \in stray'
      BY <1>3, <3>2, <3>3, <3>5
    <3> QED
      BY <3>6, <3>7
  <2>6. ASSUME NEW e \in Entities, live'[Status(e)] = "removed"
        PROVE  receipts'[Reset(e)] = "APPLIED" \/ Reset(e) \in Unresolved' \cup stray'
    <3>1. Status(e) \in AllAspects /\ \A x \in Entities : Status(x) = Status(e) => x = e
      BY AspectsKnown
    <3>2. live[Status(e)] = "removed" \/ o = Reset(e)
      BY <1>2, <2>6, <3>1, KindsDiffer DEF CatalogMoves
    <3>3. Reset(e) \in EffectOps
      BY DEF ResetOps, EffectOps
    <3>4. CASE o = Reset(e)
      BY <1>3, <3>3, <3>4 DEF Unresolved
    <3>5. CASE live[Status(e)] = "removed"
      BY <1>1, <1>3, <3>5 DEF JournalTrue
    <3> QED
      BY <3>2, <3>4, <3>5
  <2> QED
    BY <2>1, <2>2, <2>3, <2>4, <2>5, <2>6 DEF JournalTrue
<1>7. OneKindUnresolved' /\ JournalGrows /\ ChainReceiptsStay
  BY <1>1, <1>3 DEF OneKindUnresolved, JournalGrows, TypeOK, ChainReceiptsStay
<1>8. ASSUME NEW q \in ChainOps \cup EffectOps, MayArrive(q)
      PROVE  MayArrive(q)'
  <2>1. q \in SeedOps \cup StableQueryOps =>
          /\ live'[q[2]] = Theirs(q[2]) => live[q[2]] = Theirs(q[2])
          /\ Writes(q) \in Entities
    <3>1. q \in SeedOps \cup StableQueryOps => q[2] \in AllAspects
      BY AspectsKnown
    <3> QED
      BY <1>2, <3>1 DEF CatalogMoves, Theirs, Writes, Entities
  <2>2. \A x \in Entities : Owned(x) \/ ~Exists(x) => Owned(x)' \/ ~Exists(x)'
    BY <1>2 DEF CatalogMoves
  <2>3. \A x \in created : Marked(x) => Marked(x)'
    BY <1>1, <1>2 DEF CatalogMoves, TypeOK
  <2> QED
    BY <1>8, <2>1, <2>2, <2>3 DEF MayArrive
<1>9. late' \subseteq late => LateHeld'
  BY <1>1, <1>8 DEF LateHeld, TypeOK
<1> QED
  BY <1>3, <1>4, <1>5, <1>6, <1>7, <1>8, <1>9

-----------------------------------------------------------------------------
(* The commands of the chain.                                              *)

\* A command whose section has begun, at the first operation of its plan.
LEMMA EnterChainKeeps ==
  ASSUME ToolInv, NEW p \in Procs, EnterChain(p)
  PROVE  ToolInv'
<1>1. TypeOK /\ lock = NoProc /\ lock' = p /\ Unresolved = {}
  BY DEF ToolInv, EnterChain, Take
<1>2. PICK c \in ChainCommands :
        /\ runs < MaxChainRuns /\ runs' = runs + 1
        /\ proc' = [proc EXCEPT ![p] = [Idle EXCEPT !.cmd = c, !.pc = "plan", !.plan = ChainPlan[c], !.i = 1]]
  BY DEF EnterChain, Take
<1>3. UNCHANGED <<journal, catalog, effects, others, failures>>
  BY DEF EnterChain
<1> DEFINE r == Started(c, ChainPlan[c])
<1>4. /\ r \in Process /\ r.cmd = c /\ r.pc = "plan" /\ r.plan = ChainPlan[c] /\ r.i = 1
  <2>1. c \in Commands /\ ChainPlan[c] \in Seq(ChainOps \cup EffectOps)
    BY ChainPlansKnown, CommandsKnown
  <2> QED
    BY <2>1, StartedKnown
<1>5. proc' \in [Procs -> Process] /\ proc'[p] = r /\ \A q \in Procs \ {p} : proc'[q] = proc[q]
  <2>1. proc' = [proc EXCEPT ![p] = r]
    BY <1>2 DEF Started
  <2> HIDE DEF r
  <2> QED
    BY <1>1, <1>4, <2>1, ProcessSet
<1> HIDE DEF r
<1>6. TypeOK'
  BY <1>1, <1>2, <1>3, <1>5, ScenarioAssumption DEF TypeOK, journal, catalog, others
<1>7. InSection(p)' /\ PlanFits(p)'
  BY <1>1, <1>4, <1>5, ChainPlansKnown, CommandsKnown DEF InSection, PlanFits
<1>8. /\ ChainTrue' /\ OwnersKnown' /\ JournalTrue' /\ OneKindUnresolved' /\ LateHeld' /\ JournalGrows
      /\ Unresolved' = Unresolved
  BY <1>3, WorldKeeps DEF others
<1>9. Knows(p)'
  BY <1>1, <1>4, <1>5, <1>8, CommandsKnown DEF Knows, ChainHeld
<1> QED
  BY <1>1, <1>5, <1>6, <1>7, <1>8, <1>9, StepKeeps

\* The holder of the lock, in a chain command.
LEMMA ChainCurrentOp ==
  ASSUME ToolInv, NEW p \in Procs, lock = p, proc[p].cmd \in ChainCommands
  PROVE  /\ Current(p) \in ChainOps /\ proc[p].i \in 1 .. Len(proc[p].plan)
         /\ proc[p].pc \in Sections(proc[p].cmd) /\ proc[p].plan = ChainPlan[proc[p].cmd]
         /\ ChainHeld(p) /\ InSection(p) /\ PlanFits(p) /\ TypeOK
<1>1. /\ InSection(p) /\ PlanFits(p) /\ ChainHeld(p) /\ TypeOK
  BY DEF ToolInv, Knows
<1>2. proc[p].i \in 1 .. Len(proc[p].plan) /\ proc[p].plan = ChainPlan[proc[p].cmd]
      /\ proc[p].pc \in Sections(proc[p].cmd)
  BY <1>1, CommandsKnown DEF InSection, PlanFits
<1> QED
  BY <1>1, <1>2, ChainPlansKnown DEF Current

\* What a chain command records as PLANNED no longer counts as done.
LEMMA PlanChainOpKeeps ==
  ASSUME ToolInv, NEW p \in Procs, PlanChainOp(p)
  PROVE  ToolInv'
<1> DEFINE o == Current(p)
<1>1. /\ lock = p /\ proc[p].cmd \in ChainCommands /\ Receipt(o, "PLANNED") /\ Goto(p, "run")
      /\ UNCHANGED <<created, succeeded, counts, catalog, effects, others, counters>>
  BY DEF PlanChainOp, Is
<1>2. /\ o \in ChainOps /\ proc[p].i \in 1 .. Len(proc[p].plan) /\ ChainHeld(p)
      /\ InSection(p) /\ PlanFits(p) /\ TypeOK
  BY <1>1, ChainCurrentOp
<1>3. Moved(p, "run", proc[p].i) /\ lock' = p
  BY <1>1, <1>2, GotoMoves DEF Steps
<1> HIDE DEF o
<1>4. /\ receipts' \in [ChainOps \cup EffectOps -> Marks] /\ order' \in [ChainOps -> SUBSET ChainOps]
      /\ receipts'[o] = "PLANNED" /\ \A q \in (ChainOps \cup EffectOps) \ {o} : receipts'[q] = receipts[q]
      /\ stray' = stray \ {o}
  BY <1>1, <1>2, ReceiptTypes DEF Marks, Pending
<1>5. TypeOK'
  BY <1>1, <1>2, <1>3, <1>4 DEF TypeOK, Moved, catalog, others, counters
<1>6. Unresolved' = Unresolved
  BY <1>1, <1>2, ReceiptUnresolved DEF Marks, Pending
<1>7. OwnersKnown' /\ JournalTrue' /\ OneKindUnresolved' /\ LateHeld' /\ JournalGrows
  <2>1. o \notin EffectOps /\ o \notin ResetOps
    BY <1>2, KindsDiffer DEF EffectOps
  <2>2. TypeOK /\ OwnersKnown /\ JournalTrue /\ OneKindUnresolved
    BY DEF ToolInv
  <2>3. "PLANNED" \in Marks \ {"NONE"}
    BY DEF Marks, Pending
  <2>4. JournalGrows /\ \A q \in late : receipts[q] # "NONE" => receipts'[q] # "NONE"
    BY <1>1, <1>2, <1>4 DEF JournalGrows, TypeOK
  <2>5. LateHeld'
    BY <1>1, <1>2, <2>4, LateStays DEF ToolInv, catalog, others
  <2> QED
    BY <1>1, <1>2, <1>6, <2>1, <2>2, <2>3, <2>4, <2>5, ReceiptOwners, ReceiptJournal
    DEF OneKindUnresolved, TypeOK, catalog, others
<1>8. ChainTrue'
  <2>1. ChainTrue /\ Observed \in ChainOps
    BY DEF ToolInv, ChainOps
  <2>2. \A q \in ChainOps : Done(q)' => q # o /\ Done(q)
    BY <1>2, <1>4 DEF Done
  <2>3. \A q \in ChainOps : q # o => order'[q] = order[q] \ {o}
    BY <1>1, <1>2 DEF Receipt, MovedToEnd
  <2> QED
    BY <1>1, <1>4, <2>1, <2>2, <2>3 DEF ChainTrue, Before
<1>9. InSection(p)' /\ PlanFits(p)'
  BY <1>1, <1>2, <1>3, <1>7, MovedKeeps, CommandsKnown DEF InSection
<1>10. Knows(p)'
  <2>1. Current(p)' = o /\ proc'[p].pc = "run" /\ proc'[p].cmd = proc[p].cmd
    BY <1>3 DEF Moved, Current, o
  <2> QED
    BY <1>1, <1>2, <1>4, <1>6, <2>1, CommandsKnown DEF Knows, ChainHeld
<1>11. \A q \in Procs \ {p} : proc'[q] = proc[q]
  BY <1>3 DEF Moved
<1> QED
  BY <1>1, <1>3, <1>5, <1>7, <1>8, <1>9, <1>10, <1>11, StepKeeps

\* The work of a chain command: it has now run after everything else.
LEMMA RunChainOpKeeps ==
  ASSUME ToolInv, NEW p \in Procs, RunChainOp(p)
  PROVE  ToolInv'
<1> DEFINE o == Current(p)
<1>1. /\ lock = p /\ proc[p].pc = "run" /\ proc[p].cmd \in ChainCommands /\ ChainEffect(o) /\ Goto(p, "record")
      /\ UNCHANGED <<journal, usage, maker, others, counters>>
  BY DEF RunChainOp, Is
<1>2. /\ o \in ChainOps /\ proc[p].i \in 1 .. Len(proc[p].plan) /\ ChainHeld(p)
      /\ InSection(p) /\ PlanFits(p) /\ TypeOK
  BY <1>1, ChainCurrentOp
<1>3. Moved(p, "record", proc[p].i) /\ lock' = p
  BY <1>1, <1>2, GotoMoves DEF Steps
<1>4. receipts[o] = "PLANNED" /\ Unresolved = {} /\ receipts' = receipts /\ Unresolved' = {}
  BY <1>1, <1>2 DEF ChainHeld, journal, Unresolved
<1>5. Current(p)' = o
  BY <1>3 DEF Moved, Current
<1> HIDE DEF o
<1>6. CarriedOut(o) /\ MayArrive(o)
  <2>1. o \notin EffectOps /\ ~IsUsage(o)
    BY <1>2, KindsDiffer DEF IsUsage
  <2> QED
    BY <1>1, <1>2, <1>4, <2>1 DEF CarriedOut, MayArrive, EffectOps, QueryOps
<1>7. /\ ChainTrue' /\ OwnersKnown' /\ JournalTrue' /\ OneKindUnresolved' /\ LateHeld' /\ JournalGrows
  BY <1>1, <1>2, <1>4, <1>6, CarriedOutKeeps DEF journal, others, Pending
<1>8. CatalogMoves(o) /\ effects' = [q \in ChainOps |-> IF q = o THEN Placed(effects) \cup {o} ELSE effects[q] \ {o}]
  BY <1>1, <1>2, <1>6, CarriedOutMoves DEF ToolInv, others
<1>9. TypeOK'
  BY <1>1, <1>2, <1>3, <1>8 DEF TypeOK, Moved, CatalogMoves, journal, others, counters
<1>10. o \in effects'[o] /\ \A q \in ChainOps : Done(q)' => q \in effects'[o]
  <2>1. \A q \in ChainOps : Done(q)' => q \in effects[q]
    BY <1>4 DEF Done, ToolInv, ChainTrue
  <2> QED
    BY <1>2, <1>8, <2>1 DEF Placed
<1>11. InSection(p)' /\ PlanFits(p)'
  BY <1>1, <1>2, <1>3, <1>7, MovedKeeps, CommandsKnown DEF journal
<1>12. Knows(p)'
  BY <1>1, <1>3, <1>4, <1>5, <1>10, CommandsKnown DEF Knows, ChainHeld, Moved
<1>13. \A q \in Procs \ {p} : proc'[q] = proc[q]
  BY <1>3 DEF Moved
<1> QED
  BY <1>1, <1>3, <1>7, <1>9, <1>11, <1>12, <1>13, StepKeeps

\* Its receipt is the last of the chain, as its work was: nobody else had the
\* lock in between.
LEMMA RecordChainOpKeeps ==
  ASSUME ToolInv, NEW p \in Procs, RecordChainOp(p)
  PROVE  ToolInv'
<1> DEFINE o == Current(p)
<1>1. /\ lock = p /\ proc[p].pc = "record" /\ proc[p].cmd \in ChainCommands
      /\ Receipt(o, "APPLIED") /\ Advance(p, "plan")
      /\ UNCHANGED <<created, succeeded, catalog, effects, others, counters>>
  BY DEF RecordChainOp, Is
<1>2. /\ o \in ChainOps /\ proc[p].i \in 1 .. Len(proc[p].plan) /\ ChainHeld(p)
      /\ InSection(p) /\ PlanFits(p) /\ TypeOK
  BY <1>1, ChainCurrentOp
<1>3. \/ Released(p)
      \/ /\ lock' = p /\ proc[p].i + 1 \in 1 .. Len(proc[p].plan) /\ Moved(p, "plan", proc[p].i + 1)
  BY <1>1, <1>2, AdvanceMoves DEF Steps
<1>4. /\ counts' \in Seq({1, 2}) /\ Len(counts) <= Len(counts') /\ Len(counts') <= MaxObservations
      /\ o = Observed => Len(counts') > 0
  <2>1. CASE o = Observed
    <3>1. PICK n \in {1, 2} : counts' = Append(counts, n) /\ Len(counts) < MaxObservations
      BY <2>1 DEF RecordChainOp
    <3>2. Len(counts') = Len(counts) + 1 /\ counts' \in Seq({1, 2}) /\ Len(counts) \in Nat
      BY <1>2, <3>1 DEF TypeOK
    <3> QED
      BY <3>1, <3>2, ScenarioAssumption
  <2>2. CASE o # Observed
    BY <1>2, <2>2 DEF RecordChainOp, TypeOK
  <2> QED
    BY <2>1, <2>2
<1> HIDE DEF o
<1>5. /\ receipts' \in [ChainOps \cup EffectOps -> Marks] /\ order' \in [ChainOps -> SUBSET ChainOps]
      /\ receipts'[o] = "APPLIED" /\ \A q \in (ChainOps \cup EffectOps) \ {o} : receipts'[q] = receipts[q]
      /\ stray' = stray \ {o}
  BY <1>1, <1>2, ReceiptTypes DEF Marks, Pending
<1>6. TypeOK'
  <2>1. usage \in 0 .. Len(counts')
    BY <1>2, <1>4 DEF TypeOK
  <2>2. lock' \in Procs \cup {NoProc} /\ proc' \in [Procs -> Process]
    BY <1>3 DEF Moved, Released
  <2> QED
    BY <1>1, <1>2, <1>4, <1>5, <2>1, <2>2 DEF TypeOK, catalog, others, counters
<1>7. Unresolved' = Unresolved /\ Unresolved = {}
  BY <1>1, <1>2, ReceiptUnresolved DEF Marks, Pending, ChainHeld
<1>8. OwnersKnown' /\ JournalTrue' /\ OneKindUnresolved' /\ LateHeld' /\ JournalGrows
  <2>1. o \notin EffectOps /\ o \notin ResetOps
    BY <1>2, KindsDiffer DEF EffectOps
  <2>2. TypeOK /\ OwnersKnown /\ JournalTrue /\ OneKindUnresolved
    BY DEF ToolInv
  <2>3. "APPLIED" \in Marks \ {"NONE"}
    BY DEF Marks, Pending
  <2>4. JournalGrows /\ \A q \in late : receipts[q] # "NONE" => receipts'[q] # "NONE"
    BY <1>1, <1>2, <1>4, <1>5 DEF JournalGrows, TypeOK
  <2>5. LateHeld'
    BY <1>1, <1>2, <2>4, LateStays DEF ToolInv, catalog, others
  <2> QED
    BY <1>1, <1>2, <1>4, <1>7, <2>1, <2>2, <2>3, <2>4, <2>5, ReceiptOwners, ReceiptJournal
    DEF OneKindUnresolved, TypeOK, catalog, others
<1>9. ChainTrue'
  <2>1. ChainTrue /\ o \in effects[o] /\ \A q \in ChainOps : Done(q) => q \in effects[o] \cup stray
    BY <1>1, <1>2 DEF ToolInv, ChainHeld, o
  <2>2. \A q \in ChainOps : Done(q)' <=> (q = o \/ Done(q))
    BY <1>2, <1>5 DEF Done
  <2>3. order' = [q \in ChainOps |-> IF q = o THEN Placed(order) \cup {o} ELSE order[q] \ {o}]
    BY <1>1, <1>2 DEF Receipt, MovedToEnd
  <2>4. \A q \in ChainOps : Done(q)' => q \in order'[q] /\ q \in effects'[q]
    BY <1>1, <2>1, <2>2, <2>3 DEF ChainTrue
  <2>5. ASSUME NEW o1 \in ChainOps, NEW o2 \in ChainOps, Before(o1, o2)'
        PROVE  o1 \in effects'[o2] \/ o1 \in stray'
    <3>1. Done(o1)' /\ Done(o2)' /\ o1 \in order'[o2]
      BY <2>5 DEF Before
    <3>2. CASE o2 = o
      BY <1>1, <1>5, <2>1, <2>2, <3>1, <3>2
    <3>3. CASE o2 # o
      <4>1. o1 # o /\ o1 \in order[o2] /\ Done(o1) /\ Done(o2)
        BY <2>2, <2>3, <3>1, <3>3
      <4> QED
        BY <1>1, <1>5, <2>1, <4>1 DEF ChainTrue, Before
    <3> QED
      BY <3>2, <3>3
  <2>6. Done(Observed)' => Len(counts') > 0
    <3>1. Observed \in ChainOps /\ Len(counts) \in Nat /\ Len(counts') \in Nat
      BY <1>2, <1>4 DEF ChainOps, TypeOK
    <3> QED
      BY <1>4, <2>1, <2>2, <3>1 DEF ChainTrue
  <2> QED
    BY <2>4, <2>5, <2>6 DEF ChainTrue
<1>10. CASE Released(p)
  <2>1. InSection(p)' /\ PlanFits(p)' /\ lock' # p
    BY <1>10, ReleasedKeeps
  <2>2. lock' = NoProc /\ \A q \in Procs \ {p} : proc'[q] = proc[q]
    BY <1>10 DEF Released
  <2> QED
    BY <1>1, <1>6, <1>8, <1>9, <2>1, <2>2, StepKeeps
<1>11. CASE lock' = p /\ proc[p].i + 1 \in 1 .. Len(proc[p].plan) /\ Moved(p, "plan", proc[p].i + 1)
  <2>1. InSection(p)' /\ PlanFits(p)'
    BY <1>1, <1>2, <1>8, <1>11, MovedKeeps, CommandsKnown
  <2>2. Knows(p)'
    BY <1>1, <1>7, <1>11, CommandsKnown DEF Knows, ChainHeld, Moved
  <2>3. \A q \in Procs \ {p} : proc'[q] = proc[q]
    BY <1>11 DEF Moved
  <2> QED
    BY <1>1, <1>6, <1>8, <1>9, <1>11, <2>1, <2>2, <2>3, StepKeeps
<1> QED
  BY <1>3, <1>10, <1>11

-----------------------------------------------------------------------------
(* Receipts of operations with a live effect.                              *)

\* A pending receipt claims nothing of the catalog.
LEMMA PendingAllowed ==
  ASSUME NEW o, NEW mark \in {"PLANNED", "FAILURE", "REQUIRED"}
  PROVE  JournalAllows(o, mark) /\ mark \in Marks \ {"NONE"} /\ mark \in Pending
BY DEF JournalAllows, Marks, Pending

\* A receipt, and nothing else of journal and catalog, keeps the types.
LEMMA ReceiptTypeOK ==
  ASSUME TypeOK, NEW o \in ChainOps \cup EffectOps, NEW mark \in Marks, Receipt(o, mark), WorldStays,
         succeeded' \subseteq StableQueryOps,
         proc' \in [Procs -> Process], lock' \in Procs \cup {NoProc}
  PROVE  TypeOK'
<1>1. receipts' \in [ChainOps \cup EffectOps -> Marks] /\ order' \in [ChainOps -> SUBSET ChainOps] /\ stray' = stray \ {o}
  BY ReceiptTypes
<1> QED
  BY <1>1 DEF TypeOK, WorldStays, catalog, others, counters

\* A receipt, and the command or its section ends.
LEMMA ReleaseAfterReceipt ==
  ASSUME ToolInv, NEW p \in Procs, lock = p, Released(p),
         NEW o \in EffectOps, NEW mark \in Marks \ {"NONE", "FAILURE"}, Receipt(o, mark), WorldStays,
         succeeded' \subseteq StableQueryOps,
         o \in ResetOps => o[2] \in created, JournalAllows(o, mark),
         \A q \in Unresolved : q[1] = o[1]
  PROVE  ToolInv'
<1>1. ChainTrue' /\ OwnersKnown' /\ JournalTrue' /\ OneKindUnresolved' /\ LateHeld' /\ JournalGrows
  BY ReceiptKeeps
<1>2. InSection(p)' /\ PlanFits(p)' /\ lock' # p
  BY ReleasedKeeps
<1>3. lock' = NoProc /\ proc' \in [Procs -> Process] /\ \A q \in Procs \ {p} : proc'[q] = proc[q]
  BY DEF Released
<1>4. TypeOK'
  BY <1>3, ReceiptTypeOK DEF ToolInv
<1> QED
  BY <1>1, <1>2, <1>3, <1>4, StepKeeps

\* A receipt, and the command goes on.
LEMMA GoOnAfterReceipt ==
  ASSUME ToolInv, NEW p \in Procs, lock = p, lock' = p, NEW pc, NEW i, Moved(p, pc, i),
         pc \in Sections(proc[p].cmd), i \in 1 .. Len(proc[p].plan),
         NEW o \in EffectOps, NEW mark \in Marks \ {"NONE", "FAILURE"}, Receipt(o, mark), WorldStays,
         succeeded' \subseteq StableQueryOps,
         o \in ResetOps => o[2] \in created, JournalAllows(o, mark),
         \A q \in Unresolved : q[1] = o[1],
         Knows(p)'
  PROVE  ToolInv'
<1>1. ChainTrue' /\ OwnersKnown' /\ JournalTrue' /\ OneKindUnresolved' /\ LateHeld' /\ JournalGrows
  BY ReceiptKeeps
<1>2. TypeOK /\ InSection(p) /\ PlanFits(p) /\ counts' = counts
  BY DEF ToolInv, WorldStays
<1>3. InSection(p)' /\ PlanFits(p)'
  BY <1>1, <1>2, MovedKeeps
<1>4. proc' \in [Procs -> Process] /\ \A q \in Procs \ {p} : proc'[q] = proc[q]
  BY DEF Moved
<1>5. TypeOK'
  BY <1>2, <1>4, ReceiptTypeOK
<1> QED
  BY <1>1, <1>3, <1>4, <1>5, StepKeeps

\* A command that asks for reconciliation.
LEMMA RefuseKeeps ==
  ASSUME ToolInv, NEW p \in Procs, lock = p, NEW o \in EffectOps, Refuse(p, o),
         o \in ResetOps => o[2] \in created, \A q \in Unresolved : q[1] = o[1]
  PROVE  ToolInv'
<1>1. Released(p)
  BY StopReleases DEF ToolInv, Refuse
<1>2. /\ Receipt(o, "REQUIRED") /\ JournalAllows(o, "REQUIRED")
      /\ "REQUIRED" \in Marks \ {"NONE", "FAILURE"} /\ WorldStays
  BY PendingAllowed DEF Refuse, WorldStays
<1>3. succeeded' \subseteq StableQueryOps
  BY DEF Refuse, ToolInv, TypeOK
<1> QED
  BY <1>1, <1>2, <1>3, ReleaseAfterReceipt

-----------------------------------------------------------------------------
(* metadata-seed and the live query evidence.                              *)

\* What a seed or query evidence in the lock knows.
LEMMA UpsertHolder ==
  ASSUME ToolInv, NEW p \in Procs, lock = p, proc[p].cmd \in Plans
  PROVE  /\ TypeOK /\ InSection(p) /\ PlanFits(p) /\ UpsertHeld(p) /\ EntityHeld(p)
         /\ proc[p].i \in 1 .. Len(proc[p].plan) /\ Len(proc[p].plan) \in Nat
         /\ proc[p].pc \in Sections(proc[p].cmd)
         /\ Current(p) \in EffectOps /\ Current(p) \notin ResetOps /\ Current(p)[1] = KindOf(proc[p].cmd)
         /\ \A q \in Unresolved : q[1] = KindOf(proc[p].cmd) /\ receipts[q] = "PLANNED"
         /\ Entity(p) \in Entities /\ proc[p].cmd \notin ChainCommands
<1>1. TypeOK /\ InSection(p) /\ PlanFits(p) /\ UpsertHeld(p) /\ EntityHeld(p)
  BY DEF ToolInv, Knows
<1>2. proc[p].i \in 1 .. Len(proc[p].plan) /\ proc[p].pc \in Sections(proc[p].cmd)
  BY <1>1 DEF InSection, Plans
<1>3. \A j \in 1 .. Len(proc[p].plan) : proc[p].plan[j] \in EffectOps \ ResetOps /\ proc[p].plan[j][1] = KindOf(proc[p].cmd)
  BY <1>1, UpsertPlan
<1>4. Len(proc[p].plan) \in Nat
  BY <1>1, UpsertPlan DEF Plans
<1>5. \A q \in Unresolved : q[1] = KindOf(proc[p].cmd) /\ receipts[q] = "PLANNED"
  BY <1>1, <1>3 DEF UpsertHeld
<1> QED
  BY <1>1, <1>2, <1>3, <1>4, <1>5, CommandsKnown DEF Current, Entity, Entities

\* Some steps tell whose they are.
LEMMA StepNamesCommand ==
  ASSUME ToolInv, NEW p \in Procs, lock = p
  PROVE  /\ proc[p].pc \in {"preflight", "emit", "create"} => proc[p].cmd \in Plans
         /\ proc[p].pc \in {"check", "delete"} => proc[p].cmd = "reset"
         /\ proc[p].pc = "settle" => proc[p].cmd = "reconcile"
<1>1. InSection(p) /\ TypeOK
  BY DEF ToolInv
<1>2. proc[p].pc \in Sections(proc[p].cmd) /\ proc[p].cmd \in Commands \cup {"idle"}
  BY <1>1 DEF InSection, TypeOK, Process
<1> QED
  BY <1>2, CommandsKnown DEF Plans

\* The chain's receipts, in order, tell the order in which it ran.
LEMMA ChainRan ==
  ASSUME ChainTrue
  PROVE  /\ ChainCurrent => RanInOrder(<<Warehouse, Build, Docs, Artifacts, Observed, Postgres, DbtIngest>>)
         /\ PostgresCurrent => /\ RanInOrder(<<Warehouse, Build, Docs, Artifacts, Observed, Postgres>>)
                               /\ Len(counts) > 0
<1>1. \A o \in ChainOps : Done(o) => o \in effects[o]
  BY DEF ChainTrue
<1>2. \A o1, o2 \in ChainOps : Before(o1, o2) => (o1 \in effects[o2] \/ o1 \in stray) /\ Done(o1) /\ Done(o2)
  BY DEF ChainTrue, Before
<1>3. {Warehouse, Build, Docs, Artifacts, Observed, Postgres, DbtIngest} \subseteq ChainOps
  BY DEF ChainOps
<1>4. ASSUME PostgresCurrent
      PROVE  /\ Before(Warehouse, Build) /\ Before(Build, Docs) /\ Before(Docs, Artifacts)
             /\ Before(Artifacts, Observed) /\ Before(Observed, Postgres)
  BY <1>4 DEF PostgresCurrent, QueryCurrent, DbtCurrent
<1>5. ASSUME PostgresCurrent
      PROVE  RanInOrder(<<Warehouse, Build, Docs, Artifacts, Observed, Postgres>>)
  <2> DEFINE s == <<Warehouse, Build, Docs, Artifacts, Observed, Postgres>>
  <2>1. Len(s) = 6 /\ s[1] = Warehouse /\ s[2] = Build /\ s[3] = Docs /\ s[4] = Artifacts
        /\ s[5] = Observed /\ s[6] = Postgres
    OBVIOUS
  <2> HIDE DEF s
  <2>2. \A i \in 1 .. 6 : s[i] \in effects[s[i]]
    BY <1>1, <1>2, <1>3, <1>4, <1>5, <2>1
  <2>3. \A i \in 1 .. 5 : s[i] \in effects[s[i + 1]] \/ s[i] \in stray
    BY <1>2, <1>3, <1>4, <1>5, <2>1
  <2>4. RanInOrder(s)
    BY <2>1, <2>2, <2>3 DEF RanInOrder
  <2> QED
    BY <2>4 DEF s
<1>6. ASSUME ChainCurrent
      PROVE  RanInOrder(<<Warehouse, Build, Docs, Artifacts, Observed, Postgres, DbtIngest>>)
  <2> DEFINE s == <<Warehouse, Build, Docs, Artifacts, Observed, Postgres, DbtIngest>>
  <2>1. Len(s) = 7 /\ s[1] = Warehouse /\ s[2] = Build /\ s[3] = Docs /\ s[4] = Artifacts
        /\ s[5] = Observed /\ s[6] = Postgres /\ s[7] = DbtIngest
    OBVIOUS
  <2>2. PostgresCurrent /\ Before(Postgres, DbtIngest)
    BY <1>6 DEF ChainCurrent
  <2> HIDE DEF s
  <2>3. \A i \in 1 .. 7 : s[i] \in effects[s[i]]
    BY <1>1, <1>2, <1>3, <1>4, <2>1, <2>2
  <2>4. \A i \in 1 .. 6 : s[i] \in effects[s[i + 1]] \/ s[i] \in stray
    BY <1>2, <1>3, <1>4, <2>1, <2>2
  <2>5. RanInOrder(s)
    BY <2>1, <2>3, <2>4 DEF RanInOrder
  <2> QED
    BY <2>5 DEF s
<1>7. PostgresCurrent => Len(counts) > 0
  BY <1>4 DEF ChainTrue, Before
<1> QED
  BY <1>5, <1>6, <1>7

\* A seed or query evidence enters on a journal with nothing unresolved.
LEMMA EnterUpsertKeeps ==
  ASSUME ToolInv, NEW p \in Procs, EnterUpsert(p)
  PROVE  ToolInv'
<1>1. /\ TypeOK /\ ChainTrue /\ lock = NoProc /\ Unresolved = {}
      /\ UNCHANGED <<journal, catalog, effects, others, counters>>
  BY DEF ToolInv, EnterUpsert
<1>2. PICK c \in Plans :
        /\ Prerequisites(c) /\ (c = "seed" => LineageMergeable)
        /\ Take(p, Started(c, IF c = "seed" THEN SeedPlan ELSE QueryPlan))
  BY DEF EnterUpsert, Plans, Started
<1> DEFINE plan == IF c = "seed" THEN SeedPlan ELSE QueryPlan
           r == Started(c, plan)
<1>3. c = "upsert" => Len(counts) \in 1 .. MaxObservations
  <2>1. Len(counts) \in Nat /\ Len(counts) <= MaxObservations
    BY <1>1 DEF TypeOK
  <2>2. c = "upsert" => Len(counts) > 0
    BY <1>1, <1>2, ChainRan DEF Prerequisites
  <2> QED
    BY <2>1, <2>2, ScenarioAssumption
<1>4. plan \in Seq(ChainOps \cup EffectOps) /\ Len(plan) > 0 /\ Len(plan) \in Nat
  <2>1. Seq(EffectOps) \subseteq Seq(ChainOps \cup EffectOps)
    OBVIOUS
  <2>2. plan \in Seq(EffectOps) /\ Len(plan) \in {3, 5}
    BY <1>3, PlansKnown DEF Plans, QueryPlan
  <2> QED
    BY <2>1, <2>2
<1> HIDE DEF plan
<1>5. r \in Process /\ r.cmd = c /\ r.pc = "plan" /\ r.plan = plan /\ r.i = 1
  BY <1>4, StartedKnown, CommandsKnown DEF Plans
<1> HIDE DEF r
<1>6. proc' \in [Procs -> Process] /\ proc'[p] = r /\ lock' = p /\ \A q \in Procs \ {p} : proc'[q] = proc[q]
  BY <1>1, <1>2, <1>5, ProcessSet DEF Take, r, plan
<1>7. TypeOK'
  BY <1>1, <1>6 DEF TypeOK, journal, catalog, others, counters
<1>8. /\ ChainTrue' /\ OwnersKnown' /\ JournalTrue' /\ OneKindUnresolved' /\ LateHeld' /\ JournalGrows
      /\ Unresolved' = {} /\ ChainReceiptsStay
  BY <1>1, WorldKeeps DEF others
<1>9. InSection(p)' /\ PlanFits(p)'
  <2>1. QueryPlan' = QueryPlan /\ counts' = counts
    BY <1>1 DEF journal, QueryPlan, QueryPlanFor, Usage, Op
  <2>2. c = "seed" \/ c = "upsert"
    BY DEF Plans
  <2> QED
    BY <1>3, <1>4, <1>5, <1>6, <2>1, <2>2, CommandsKnown DEF InSection, PlanFits, plan, Plans
<1>10. Knows(p)'
  <2>1. \A j \in 1 .. Len(proc'[p].plan) : ~StillPlanned(p, j)'
    BY <1>4, <1>5, <1>6 DEF StillPlanned
  <2>2. UpsertHeld(p)'
    BY <1>2, <1>5, <1>6, <1>8, <2>1, PrerequisitesStay DEF UpsertHeld
  <2>3. EntityHeld(p)'
    BY <1>1, <1>2, <1>5, <1>6 DEF EntityHeld, LineageMergeable, catalog
  <2> QED
    BY <1>5, <1>6, <2>2, <2>3, CommandsKnown DEF Knows, Plans
<1> QED
  BY <1>1, <1>6, <1>7, <1>8, <1>9, <1>10, StepKeeps

\* The plan is the same, and so is what was known of the chain.
LEMMA HeldFrame ==
  ASSUME ToolInv, NEW p \in Procs, lock = p, proc[p].cmd \in Plans, ChainReceiptsStay,
         proc'[p].cmd = proc[p].cmd, proc'[p].plan = proc[p].plan,
         \A o \in Unresolved' : receipts'[o] = "PLANNED" /\ \E j \in 1 .. Len(proc[p].plan) : o = proc[p].plan[j],
         \A j \in 1 .. Len(proc[p].plan) : StillPlanned(p, j)' => receipts'[proc[p].plan[j]] = "PLANNED",
         proc'[p].pc = "preflight" => proc'[p].i = 1
  PROVE  UpsertHeld(p)'
BY UpsertHolder, PrerequisitesStay DEF UpsertHeld

\* All operations are PLANNED one by one.
LEMMA PlanUpsertKeeps ==
  ASSUME ToolInv, NEW p \in Procs, PlanUpsert(p)
  PROVE  ToolInv'
<1> DEFINE o == Current(p)
           plan == proc[p].plan
<1>1. /\ lock = p /\ proc[p].cmd \in Plans /\ proc[p].pc = "plan" /\ Receipt(o, "PLANNED")
      /\ succeeded' = succeeded /\ WorldStays
  BY DEF PlanUpsert, Is, WorldStays
<1>2. /\ TypeOK /\ UpsertHeld(p) /\ EntityHeld(p) /\ PlanFits(p) /\ proc[p].i \in 1 .. Len(plan) /\ Len(plan) \in Nat
      /\ o \in EffectOps /\ o \notin ResetOps /\ o[1] = KindOf(proc[p].cmd) /\ proc[p].cmd \notin ChainCommands
      /\ \A q \in Unresolved : q[1] = KindOf(proc[p].cmd) /\ receipts[q] = "PLANNED"
  BY <1>1, UpsertHolder
<1>3. JournalAllows(o, "PLANNED") /\ "PLANNED" \in Marks \ {"NONE", "FAILURE"} /\ "PLANNED" \in Pending
      /\ succeeded' \subseteq StableQueryOps
  BY <1>1, <1>2, PendingAllowed DEF TypeOK
<1>4. PICK pc \in {"plan", "preflight"}, i \in 1 .. Len(plan) :
        /\ lock' = p /\ Moved(p, pc, i)
        /\ pc = "plan" => i = proc[p].i + 1
        /\ pc = "preflight" => i = 1 /\ proc[p].i = Len(plan)
  <2>1. CASE proc[p].i < Len(plan)
    <3>1. Advance(p, "plan") /\ ~(proc[p].i = Len(plan))
      BY <1>2, <2>1 DEF PlanUpsert
    <3>2. proc[p] \in Process /\ proc[p].i + 1 \in Nat
      BY <1>2 DEF TypeOK
    <3>3. lock' = lock /\ proc' = [proc EXCEPT ![p] = [proc[p] EXCEPT !.i = proc[p].i + 1, !.pc = "plan"]]
      BY <1>2, <3>1, <3>2 DEF Advance, TypeOK
    <3>4. Moved(p, "plan", proc[p].i + 1)
      BY <1>2, <3>2, <3>3, MovedTo DEF Steps
    <3> QED
      BY <1>1, <1>2, <2>1, <3>3, <3>4
  <2>2. CASE ~(proc[p].i < Len(plan))
    <3>1. lock' = lock /\ proc' = [proc EXCEPT ![p] = [proc[p] EXCEPT !.i = 1, !.pc = "preflight"]]
      BY <1>2, <2>2 DEF PlanUpsert, TypeOK
    <3>2. "preflight" \in Steps /\ 1 \in Nat
      BY DEF Steps
    <3>3. Moved(p, "preflight", 1)
      BY <1>2, <3>1, <3>2, MovedTo
    <3> QED
      BY <1>1, <1>2, <2>2, <3>1, <3>3
  <2> QED
    BY <2>1, <2>2
<1>5. /\ Unresolved' = Unresolved \cup {o} /\ receipts'[o] = "PLANNED" /\ ChainReceiptsStay
      /\ \A q \in (ChainOps \cup EffectOps) \ {o} : receipts'[q] = receipts[q]
  BY <1>1, <1>2, <1>3, ReceiptKeeps
<1>6. Knows(p)'
  <2>1. proc'[p].cmd = proc[p].cmd /\ proc'[p].plan = plan /\ proc'[p].pc = pc /\ proc'[p].i = i
    BY <1>4 DEF Moved
  <2>2. \A j \in 1 .. Len(plan) : StillPlanned(p, j)' => j = proc[p].i \/ StillPlanned(p, j)
    BY <1>1, <1>2, <1>4, <2>1 DEF StillPlanned
  <2>3. \A j \in 1 .. Len(plan) : plan[j] \in EffectOps
    BY <1>1, <1>2, UpsertPlan
  <2>4. \A j \in 1 .. Len(plan) : StillPlanned(p, j)' => receipts'[plan[j]] = "PLANNED"
    BY <1>2, <1>5, <2>2, <2>3 DEF UpsertHeld, Current
  <2>5. \A q \in Unresolved' : receipts'[q] = "PLANNED" /\ \E j \in 1 .. Len(plan) : q = plan[j]
    BY <1>2, <1>5 DEF UpsertHeld, Current, Unresolved
  <2>6. UpsertHeld(p)'
    BY <1>1, <1>4, <1>5, <2>1, <2>4, <2>5, HeldFrame
  <2>7. EntityHeld(p)'
    BY <1>1, <1>2, <1>4, <2>1 DEF EntityHeld, LineageMergeable, WorldStays, catalog, others
  <2> QED
    BY <1>1, <1>2, <2>1, <2>6, <2>7, CommandsKnown DEF Knows, Plans
<1>7. pc \in Sections(proc[p].cmd)
  BY <1>1, CommandsKnown
<1>8. \A q \in Unresolved : q[1] = o[1]
  BY <1>2
<1> HIDE DEF o
<1> QED
  BY <1>1, <1>2, <1>3, <1>4, <1>6, <1>7, <1>8, GoOnAfterReceipt

\* What the preflight finds in the way names an operation of the plan's kind.
LEMMA ObstaclesKnown ==
  /\ \A a \in SeedObstacles : Op("seed", a) \in EffectOps /\ Op("seed", a) \notin ResetOps
  /\ \A a \in QueryObstacles : Op("ingest-query", a) \in EffectOps /\ Op("ingest-query", a) \notin ResetOps
<1>1. SeedObstacles \subseteq {"info", "ownership", "overlay", "lineage", "status"}
  BY AspectsKnown DEF SeedObstacles, Drift
<1>2. QueryObstacles \subseteq {"properties", "queryStatus"}
  BY AspectsKnown DEF QueryObstacles, Drift
<1>3. \A a \in {"info", "ownership", "overlay", "lineage", "status"} : Op("seed", a) \in SeedOps
  BY OpsKnown
<1>4. \A a \in {"properties", "queryStatus"} : Op("ingest-query", a) \in QueryOps
  BY DEF QueryOps, StableQueryOps
<1> QED
  BY <1>1, <1>2, <1>3, <1>4, EffectKinds DEF EffectOps

\* A preflight that finds nothing leaves nothing of others in the way.
LEMMA PreflightClear ==
  ASSUME TypeOK, OwnersKnown,
         NEW c \in Plans, NEW e, e = (IF c = "seed" THEN "asset" ELSE "query"),
         (IF c = "seed" THEN SeedObstacles ELSE QueryObstacles) = {}
  PROVE  /\ \A a \in AllOf(c) \ {"lineage"} : live[a] # "other"
         /\ Exists(e) => Owned(e) \/ Exact(e)
<1>1. \A x \in created : Owned(x)
  BY DEF OwnersKnown, CreationReceiptsTrue
<1>2. ASSUME NEW x \in Entities, NEW a \in Aspects(x), live[a] = "other"
      PROVE  Exists(x) /\ a \in Drift(x)
  BY <1>2 DEF Exists, Drift
<1>3. CASE c = "seed"
  <2>1. SeedObstacles = {} /\ e = "asset"
    BY <1>3
  <2>2. Exists("asset") => Exact("asset") \/ "asset" \in created
    BY <2>1 DEF SeedObstacles
  <2>3. Exists("asset") => Drift("asset") = {}
    BY <2>1 DEF SeedObstacles
  <2>4. live["overlay"] # "other"
    <3>1. ~(Exists("asset") /\ ~Exact("asset") /\ ("asset" \notin created \/ ~Marked("asset")))
      BY <2>1 DEF SeedObstacles
    <3>2. ~(Exists("asset") /\ Drift("asset") # {})
      BY <2>3
    <3> QED
      BY <2>1, <3>1, <3>2 DEF SeedObstacles
  <2> QED
    BY <1>1, <1>2, <1>3, <2>1, <2>2, <2>3, <2>4 DEF AllOf, Entities, Overlays
<1>4. CASE c # "seed"
  <2>1. QueryObstacles = {} /\ e = "query"
    BY <1>4
  <2>2. Exists("query") => "query" \in created
    BY <2>1 DEF QueryObstacles
  <2>3. Drift("query") = {}
    <3>1. ~(Exists("query") /\ ("query" \notin created \/ ~Marked("query")))
      BY <2>1 DEF QueryObstacles
    <3> QED
      BY <2>1, <3>1 DEF QueryObstacles
  <2> QED
    BY <1>1, <1>2, <1>4, <2>1, <2>2, <2>3 DEF AllOf, Entities
<1> QED
  BY <1>3, <1>4

\* The preflight passes only what is new, exact, or the tool's own.
LEMMA PreflightKeeps ==
  ASSUME ToolInv, NEW p \in Procs, Preflight(p)
  PROVE  ToolInv'
<1> DEFINE obstacles == IF proc[p].cmd = "seed" THEN SeedObstacles ELSE QueryObstacles
<1>0. PICK e : e = Entity(p)
  OBVIOUS
<1>1. lock = p /\ proc[p].pc = "preflight"
  BY DEF Preflight, Is
<1>2. proc[p].cmd \in Plans
  BY <1>1, StepNamesCommand
<1>3. /\ TypeOK /\ InSection(p) /\ UpsertHeld(p) /\ EntityHeld(p) /\ PlanFits(p) /\ proc[p].i \in 1 .. Len(proc[p].plan)
      /\ e \in Entities /\ proc[p].cmd \notin ChainCommands
      /\ \A q \in Unresolved : q[1] = KindOf(proc[p].cmd)
  BY <1>0, <1>1, <1>2, UpsertHolder
<1>4. CASE obstacles # {}
  <2>1. PICK a \in obstacles : Refuse(p, Op(IF proc[p].cmd = "seed" THEN "seed" ELSE "ingest-query", a))
    BY <1>4 DEF Preflight
  <2>2. Refuse(p, Op(KindOf(proc[p].cmd), a))
    BY <2>1 DEF KindOf
  <2>3. /\ Op(KindOf(proc[p].cmd), a) \in EffectOps /\ Op(KindOf(proc[p].cmd), a) \notin ResetOps
        /\ Op(KindOf(proc[p].cmd), a)[1] = KindOf(proc[p].cmd)
    BY ObstaclesKnown DEF KindOf, Op
  <2> QED
    BY <1>1, <1>3, <2>2, <2>3, RefuseKeeps
<1>5. CASE obstacles = {}
  <2>1. /\ proc' = [proc EXCEPT ![p].pc = "emit", ![p].fresh = ~Exists(e)]
        /\ UNCHANGED <<journal, catalog, lock, effects, others, counters>>
    BY <1>0, <1>5 DEF Preflight
  <2> DEFINE r == [proc[p] EXCEPT !.pc = "emit", !.fresh = ~Exists(e)]
  <2>2. proc[p] \in Process
    BY <1>3 DEF TypeOK
  <2>11. (~Exists(e)) \in BOOLEAN
    OBVIOUS
  <2>3. /\ r \in Process /\ r.cmd = proc[p].cmd /\ r.pc = "emit" /\ r.plan = proc[p].plan
        /\ r.i = proc[p].i /\ r.fresh = ~Exists(e)
    BY <2>2, <2>11 DEF Process
  <2>4. proc' = [proc EXCEPT ![p] = r]
    BY <2>1, <1>3 DEF TypeOK
  <2> HIDE DEF r
  <2>5. proc' \in [Procs -> Process] /\ proc'[p] = r /\ \A q \in Procs \ {p} : proc'[q] = proc[q]
    BY <1>3, <2>3, <2>4, ProcessSet
  <2>6. TypeOK'
    BY <1>3, <2>1, <2>5 DEF TypeOK, journal, catalog, others, counters
  <2>7. /\ ChainTrue' /\ OwnersKnown' /\ JournalTrue' /\ OneKindUnresolved' /\ LateHeld' /\ JournalGrows
        /\ Unresolved' = Unresolved /\ receipts' = receipts /\ counts' = counts /\ ChainReceiptsStay
    BY <2>1, WorldKeeps DEF journal, others
  <2>8. InSection(p)' /\ PlanFits(p)'
    <3>1. QueryPlan' = QueryPlan
      BY <2>7 DEF QueryPlan, QueryPlanFor, Usage, Op
    <3> QED
      BY <1>1, <1>2, <1>3, <2>1, <2>3, <2>5, <2>7, <3>1, CommandsKnown DEF InSection, PlanFits, Plans
  <2>9. UpsertHeld(p)'
    <3>1. \A j \in 1 .. Len(proc[p].plan) : StillPlanned(p, j)' => StillPlanned(p, j)
      BY <1>1, <2>3, <2>5 DEF StillPlanned
    <3>2. \A j \in 1 .. Len(proc[p].plan) : StillPlanned(p, j)' => receipts'[proc[p].plan[j]] = "PLANNED"
      BY <1>3, <2>7, <3>1 DEF UpsertHeld
    <3>3. \A q \in Unresolved' : receipts'[q] = "PLANNED" /\ \E j \in 1 .. Len(proc[p].plan) : q = proc[p].plan[j]
      BY <1>3, <2>7 DEF UpsertHeld
    <3> QED
      BY <1>1, <1>2, <2>3, <2>5, <2>7, <3>2, <3>3, HeldFrame
  <2>10. EntityHeld(p)'
    <3>1. /\ \A a \in AllOf(proc[p].cmd) \ {"lineage"} : live[a] # "other"
          /\ Exists(e) => Owned(e) \/ Exact(e)
      BY <1>2, <1>3, <1>5, PreflightClear, <1>0 DEF ToolInv, Entity
    <3>6. proc[p].cmd = "seed" /\ live["lineage"] = "foreign" => "lineage" \in touched
      BY <1>3 DEF EntityHeld, LineageMergeable
    <3>7. \A a \in AllOf(proc[p].cmd) : live[a] = Theirs(a) => a \in touched
      <4>1. proc[p].cmd = "seed" \/ "lineage" \notin AllOf(proc[p].cmd)
        BY AspectsKnown DEF AllOf
      <4> QED
        BY <3>1, <3>6, <4>1 DEF Theirs
    <3>2. (Owned(e)' <=> Owned(e)) /\ (Exists(e)' <=> Exists(e)) /\ (Exact(e)' <=> Exact(e)) /\ (Marked(e)' <=> Marked(e))
      BY <2>1, CatalogStays DEF catalog, others
    <3>3. Entity(p)' = e /\ proc'[p].pc = "emit" /\ proc'[p].cmd = proc[p].cmd /\ proc'[p].i = 1
          /\ (proc'[p].fresh <=> ~Exists(e))
      BY <1>0, <1>1, <1>3, <2>3, <2>5 DEF Entity, UpsertHeld
    <3>4. ~Exists(e) => ~Marked(e)
      BY <1>3, AspectsKnown DEF Exists, Marked
    <3>5. live' = live /\ touched' = touched /\ edits' = edits
      BY <2>1 DEF catalog, others
    <3> QED
      BY <3>1, <3>2, <3>3, <3>4, <3>5, <3>6, <3>7 DEF EntityHeld, LineageMergeable, Theirs
  <2> QED
    BY <1>1, <1>2, <1>3, <2>1, <2>3, <2>5, <2>6, <2>7, <2>8, <2>9, <2>10, StepKeeps, CommandsKnown DEF Knows, Plans
<1> QED
  BY <1>4, <1>5

\* A receipt of success for the current operation leaves those behind it PLANNED.
LEMMA AppliedHeld ==
  ASSUME ToolInv, NEW p \in Procs, lock = p, proc[p].cmd \in Plans, ChainReceiptsStay,
         proc[p].pc \in {"emit", "record"},
         NEW pc, NEW i \in 1 .. Len(proc[p].plan), Moved(p, pc, i),
         (pc = "emit" /\ i = proc[p].i + 1) \/ (pc = "create" /\ i = proc[p].i),
         Unresolved' = Unresolved \ {Current(p)},
         \A q \in (ChainOps \cup EffectOps) \ {Current(p)} : receipts'[q] = receipts[q]
  PROVE  UpsertHeld(p)'
<1> DEFINE plan == proc[p].plan
<1>1. /\ TypeOK /\ UpsertHeld(p) /\ PlanFits(p) /\ proc[p].i \in 1 .. Len(plan) /\ Len(plan) \in Nat
  BY UpsertHolder
<1>2. proc'[p].cmd = proc[p].cmd /\ proc'[p].plan = plan /\ proc'[p].pc = pc /\ proc'[p].i = i
  BY DEF Moved
<1>3. /\ \A j \in 1 .. Len(plan) : plan[j] \in EffectOps
      /\ \A j, k \in 1 .. Len(plan) : plan[j] = plan[k] => j = k
  BY <1>1, UpsertPlan
<1>4. \A j \in 1 .. Len(plan) : StillPlanned(p, j)' => StillPlanned(p, j) /\ j # proc[p].i
  BY <1>1, <1>2 DEF StillPlanned
<1>5. \A j \in 1 .. Len(plan) : StillPlanned(p, j)' => receipts'[plan[j]] = "PLANNED"
  BY <1>1, <1>3, <1>4 DEF UpsertHeld, Current
<1>6. \A q \in Unresolved' : receipts'[q] = "PLANNED" /\ \E j \in 1 .. Len(plan) : q = plan[j]
  BY <1>1 DEF UpsertHeld, Unresolved
<1> QED
  BY <1>2, <1>5, <1>6, HeldFrame

\* Success may be written of what the catalog has.
LEMMA HeldAllowed ==
  ASSUME TypeOK, NEW o \in EffectOps, o \notin ResetOps, edits = 0 => HoldsOf(o)
  PROVE  JournalAllows(o, "APPLIED")
<1>1. CASE o \in SeedOps \cup StableQueryOps
  <2>1. o[2] # "usage" /\ o \notin QueryOps \ StableQueryOps
    BY <1>1, EffectKinds
  <2> QED
    BY <1>1, <2>1 DEF JournalAllows, HoldsOf, IsUsage
<1>2. CASE o \in QueryOps \ StableQueryOps
  <2>1. o[2] = "usage" /\ o[3] \in 1 .. MaxObservations /\ o \notin SeedOps \cup StableQueryOps
    BY <1>2, EffectKinds
  <2> QED
    BY <1>2, <2>1 DEF JournalAllows, HoldsOf, IsUsage
<1> QED
  BY <1>1, <1>2, EffectKinds

\* The entity of a command after a step that leaves the catalog alone.
LEMMA EntityStays ==
  ASSUME NEW p \in Procs, EntityHeld(p), UNCHANGED <<live, usage, maker, touched, edits>>,
         proc[p].pc \in {"emit", "record"},
         NEW pc, NEW i, Moved(p, pc, i),
         \/ pc = "emit" /\ (edits = 0 /\ proc[p].fresh => Marked(Entity(p)))
         \/ pc = "create" /\ proc[p].pc = "record" /\ i = proc[p].i /\ proc[p].fresh
              /\ Current(p)[2] \in Aspects(Entity(p))
  PROVE  EntityHeld(p)'
<1>0. PICK e : e = Entity(p)
  OBVIOUS
<1>1. (Owned(e)' <=> Owned(e)) /\ (Exists(e)' <=> Exists(e)) /\ (Exact(e)' <=> Exact(e)) /\ (Marked(e)' <=> Marked(e))
  BY CatalogStays
<1>2. proc'[p].cmd = proc[p].cmd /\ proc'[p].pc = pc /\ proc'[p].i = i /\ proc'[p].fresh = proc[p].fresh
      /\ proc'[p].plan = proc[p].plan /\ Entity(p)' = e
  BY <1>0 DEF Moved, Entity
<1>3. PICK o : o = Current(p)
  OBVIOUS
<1>4. pc = "create" => Current(p)' = o
  BY <1>2, <1>3 DEF Current
<1>5. HoldsOf(o)' <=> HoldsOf(o)
  BY DEF HoldsOf
<1> QED
  BY <1>0, <1>1, <1>2, <1>3, <1>4, <1>5 DEF EntityHeld, LineageMergeable, Theirs

\* An aspect that is there already needs only a receipt.
LEMMA SkipExactKeeps ==
  ASSUME ToolInv, NEW p \in Procs, SkipExact(p)
  PROVE  ToolInv'
<1>0. PICK o : o = Current(p)
  OBVIOUS
<1>1. /\ lock = p /\ proc[p].pc = "emit" /\ InPlace(o) /\ Receipt(o, "APPLIED") /\ Advance(p, "emit")
      /\ succeeded' = succeeded /\ WorldStays
  BY <1>0 DEF SkipExact, Is, WorldStays
<1>2. proc[p].cmd \in Plans
  BY <1>1, StepNamesCommand
<1>3. /\ TypeOK /\ UpsertHeld(p) /\ EntityHeld(p) /\ PlanFits(p) /\ proc[p].i \in 1 .. Len(proc[p].plan)
      /\ o \in EffectOps /\ o \notin ResetOps /\ o[1] = KindOf(proc[p].cmd)
      /\ \A q \in Unresolved : q[1] = KindOf(proc[p].cmd)
      /\ proc[p].cmd \notin ChainCommands
  BY <1>0, <1>1, <1>2, UpsertHolder
<1>4. /\ JournalAllows(o, "APPLIED") /\ "APPLIED" \in Marks \ {"NONE", "FAILURE"} /\ "APPLIED" \notin Pending
      /\ succeeded' \subseteq StableQueryOps
  <2>1. usage \in Nat
    BY <1>3, ScenarioAssumption DEF TypeOK
  <2>2. HoldsOf(o)
    BY <1>1, <2>1 DEF InPlace, HoldsOf
  <2> QED
    BY <1>1, <1>3, <2>2, HeldAllowed DEF Marks, Pending, TypeOK
<1>5. \/ Released(p)
      \/ /\ lock' = p /\ proc[p].i + 1 \in 1 .. Len(proc[p].plan) /\ Moved(p, "emit", proc[p].i + 1)
  BY <1>1, <1>3, AdvanceMoves DEF Steps
<1>6. CASE Released(p)
  BY <1>1, <1>3, <1>4, <1>6, ReleaseAfterReceipt
<1>7. CASE lock' = p /\ proc[p].i + 1 \in 1 .. Len(proc[p].plan) /\ Moved(p, "emit", proc[p].i + 1)
  <2>1. /\ Unresolved' = Unresolved \ {o} /\ receipts'[o] = "APPLIED" /\ ChainReceiptsStay
        /\ \A q \in (ChainOps \cup EffectOps) \ {o} : receipts'[q] = receipts[q]
    BY <1>1, <1>3, <1>4, ReceiptKeeps
  <2>2. UpsertHeld(p)'
    BY <1>0, <1>1, <1>2, <1>7, <2>1, AppliedHeld
  <2>3. edits = 0 /\ proc[p].fresh => Marked(Entity(p))
    <3>1. proc[p].plan[1] = Op(KindOf(proc[p].cmd), Marker(Entity(p))) /\ Entity(p) \in Entities
      BY <1>1, <1>2, <1>3, UpsertPlan DEF Entity, Entities
    <3>2. edits = 0 /\ proc[p].fresh => o[2] = Marker(Entity(p)) \/ Marked(Entity(p))
      BY <1>0, <1>1, <1>3, <3>1, OpsKnown DEF EntityHeld, Current, Op
    <3>3. Marker(Entity(p)) # "usage"
      BY <3>1, AspectsKnown
    <3> QED
      BY <1>1, <3>2, <3>3 DEF InPlace, IsUsage, Marked
  <2>4. EntityHeld(p)'
    BY <1>1, <1>3, <1>7, <2>3, EntityStays DEF WorldStays, catalog, others
  <2>5. Knows(p)' /\ "emit" \in Sections(proc[p].cmd)
    BY <1>2, <1>3, <1>7, <2>2, <2>4, CommandsKnown DEF Knows, Moved, Plans
  <2> QED
    BY <1>1, <1>3, <1>4, <1>7, <2>5, GoOnAfterReceipt
<1> QED
  BY <1>5, <1>6, <1>7

\* An observation that is older than the catalog's is left unresolved.
LEMMA RefuseObservationKeeps ==
  ASSUME ToolInv, NEW p \in Procs, RefuseObservation(p)
  PROVE  ToolInv'
<1>1. lock = p /\ proc[p].pc = "emit" /\ Refuse(p, Current(p))
  BY DEF RefuseObservation, Is
<1>2. proc[p].cmd \in Plans
  BY <1>1, StepNamesCommand
<1>3. /\ Current(p) \in EffectOps /\ Current(p) \notin ResetOps
      /\ \A q \in Unresolved : q[1] = Current(p)[1]
  BY <1>1, <1>2, UpsertHolder
<1> QED
  BY <1>1, <1>3, RefuseKeeps

\* The command that is about to write its current operation.
LEMMA Emitting ==
  ASSUME ToolInv, NEW p \in Procs, ToEmit(p), NEW o, o = Current(p)
  PROVE  /\ lock = p /\ proc[p].pc = "emit" /\ proc[p].cmd \in Plans /\ ~InPlace(o) /\ ~NotMonotonic(o)
         /\ TypeOK /\ UpsertHeld(p) /\ EntityHeld(p) /\ PlanFits(p) /\ proc[p].i \in 1 .. Len(proc[p].plan)
         /\ o \in EffectOps /\ o \notin ResetOps /\ o[1] = KindOf(proc[p].cmd) /\ receipts[o] = "PLANNED"
         /\ o \in Unresolved /\ Entity(p) \in Entities /\ proc[p].cmd \notin ChainCommands
         /\ \A q \in Unresolved : q[1] = KindOf(proc[p].cmd) /\ receipts[q] = "PLANNED"
         /\ \/ IsUsage(o) /\ o[3] = Len(counts) /\ o \in QueryOps \ StableQueryOps
            \/ ~IsUsage(o) /\ o[2] \in AllOf(proc[p].cmd) /\ o \in SeedOps \cup StableQueryOps
         /\ Writes(o) = Entity(p) /\ MayArrive(o)
<1>1. lock = p /\ proc[p].pc = "emit" /\ ~InPlace(o) /\ ~NotMonotonic(o)
  BY DEF ToEmit, Is
<1>2. proc[p].cmd \in Plans
  BY <1>1, StepNamesCommand
<1>3. /\ TypeOK /\ UpsertHeld(p) /\ EntityHeld(p) /\ PlanFits(p) /\ proc[p].i \in 1 .. Len(proc[p].plan)
      /\ o \in EffectOps /\ o \notin ResetOps /\ o[1] = KindOf(proc[p].cmd)
      /\ Entity(p) \in Entities /\ proc[p].cmd \notin ChainCommands
      /\ \A q \in Unresolved : q[1] = KindOf(proc[p].cmd) /\ receipts[q] = "PLANNED"
  BY <1>1, <1>2, UpsertHolder
<1>4. receipts[o] = "PLANNED"
  <2>1. StillPlanned(p, proc[p].i)
    BY <1>1, <1>3 DEF StillPlanned
  <2> QED
    BY <1>3, <2>1 DEF UpsertHeld, Current
<1>5. o \in Unresolved
  BY <1>3, <1>4 DEF Unresolved, Pending
<1>6. /\ o \in SeedOps \cup StableQueryOps => o[2] \in AllOf(proc[p].cmd)
      /\ o \notin SeedOps \cup StableQueryOps => o = Usage(Len(counts))
  BY <1>1, <1>2, <1>3, UpsertPlan DEF Current
<1>7. \/ IsUsage(o) /\ o[3] = Len(counts) /\ o \in QueryOps \ StableQueryOps
      \/ ~IsUsage(o) /\ o[2] \in AllOf(proc[p].cmd) /\ o \in SeedOps \cup StableQueryOps
  BY <1>3, <1>6, EffectKinds, OpsKnown DEF IsUsage
<1>8. Exact(Entity(p)) => o[2] \notin Aspects(Entity(p))
  <2>1. "usage" \notin Aspects(Entity(p))
    BY <1>3, AspectsKnown
  <2> QED
    BY <1>1, <2>1 DEF Exact, InPlace, IsUsage
<1>9. Writes(o) = Entity(p)
  BY <1>2, <1>3 DEF Writes, Entity, KindOf, Plans
<1>10. o[2] \in Aspects(Entity(p)) => Owned(Entity(p)) \/ ~Exists(Entity(p))
  BY <1>1, <1>3, <1>8 DEF EntityHeld
<1>11. MayArrive(o)
  <2>1. IsUsage(o) => o[3] <= Len(counts)
    BY <1>3, <1>7 DEF TypeOK
  <2>2. o \in SeedOps \cup StableQueryOps => (live[o[2]] = Theirs(o[2]) => o[2] \in touched)
    BY <1>1, <1>3, <1>6 DEF EntityHeld
  <2> QED
    BY <1>3, <1>4, <1>9, <1>10, <2>1, <2>2 DEF MayArrive
<1> QED
  BY <1>1, <1>2, <1>3, <1>4, <1>5, <1>7, <1>9, <1>11

\* A request that failed: the catalog is as it was, and the request may arrive.
LEMMA FailureKeeps ==
  ASSUME ToolInv, NEW p \in Procs, lock = p, NEW o \in EffectOps, o \in Unresolved, MayArrive(o),
         Receipt(o, "FAILURE"), Stop(p), Failing, Sent(o),
         UNCHANGED <<created, succeeded, counts, catalog, effects, touched, edits, runs>>
  PROVE  ToolInv'
<1>1. TypeOK /\ ChainTrue /\ OwnersKnown /\ JournalTrue /\ OneKindUnresolved /\ LateHeld
  BY DEF ToolInv
<1>2. Released(p)
  BY <1>1, StopReleases
<1>3. "FAILURE" \in Marks \ {"NONE"} /\ "FAILURE" \in Pending /\ JournalAllows(o, "FAILURE")
  BY PendingAllowed
<1>4. /\ receipts' \in [ChainOps \cup EffectOps -> Marks] /\ order' \in [ChainOps -> SUBSET ChainOps]
      /\ stray' = stray \ {o}
      /\ receipts'[o] = "FAILURE" /\ \A q \in (ChainOps \cup EffectOps) \ {o} : receipts'[q] = receipts[q]
  BY <1>1, <1>3, ReceiptTypes
<1>5. o \in ResetOps => o[2] \in created
  BY DEF MayArrive
<1>6. ChainTrue' /\ OwnersKnown' /\ JournalTrue'
  BY <1>1, <1>3, <1>5, ReceiptChain, ReceiptOwners, ReceiptJournal DEF catalog
<1>7. Unresolved' = Unresolved /\ OneKindUnresolved'
  <2>1. Unresolved' = Unresolved \cup {o}
    BY <1>1, <1>3, ReceiptUnresolved
  <2> QED
    BY <1>1, <2>1 DEF OneKindUnresolved
<1>8. JournalGrows
  BY <1>1 DEF JournalGrows, TypeOK
<1>9. LateHeld'
  <2>1. late' \subseteq late \cup {o}
    BY DEF Sent
  <2> SUFFICES ASSUME NEW q \in late \cup {o} PROVE MayArrive(q)'
    BY <2>1 DEF LateHeld
  <2>2. q \in ChainOps \cup EffectOps /\ MayArrive(q)
    BY <1>1 DEF LateHeld, TypeOK
  <2>3. receipts'[q] # "NONE"
    BY <1>4, <2>2 DEF MayArrive
  <2> QED
    BY <1>1, <1>8, <2>2, <2>3, ArrivalStays DEF catalog
<1>10. TypeOK'
  <2>1. failures' \in Nat /\ edits + failures' <= MaxDisturbances
    BY <1>1, ScenarioAssumption DEF TypeOK, Failing, Undisturbed
  <2>2. lock' \in Procs \cup {NoProc} /\ proc' \in [Procs -> Process]
    BY <1>2 DEF Released
  <2>3. late' \subseteq ChainOps \cup EffectOps
    BY <1>1 DEF Sent, TypeOK
  <2> QED
    BY <1>1, <1>4, <2>1, <2>2, <2>3 DEF TypeOK, catalog
<1>11. InSection(p)' /\ PlanFits(p)' /\ lock' # p
  BY <1>2, ReleasedKeeps
<1>12. lock' = NoProc /\ \A q \in Procs \ {p} : proc'[q] = proc[q]
  BY <1>2 DEF Released
<1> QED
  BY <1>6, <1>7, <1>8, <1>9, <1>10, <1>11, <1>12, StepKeeps

\* What a seed or query evidence knows of its entity outlives whatever is carried
\* out.
LEMMA EntityMoves ==
  ASSUME TypeOK, NEW p \in Procs, PlanFits(p), lock = p, proc[p].cmd \in Plans, EntityHeld(p),
         proc[p].i \in 1 .. Len(proc[p].plan),
         NEW e, e = Entity(p), NEW c, c = Current(p),
         NEW o, CatalogMoves(o), touched' = touched, edits' = edits
  PROVE  /\ proc[p].cmd = "seed" /\ live'["lineage"] = "foreign" => "lineage" \in touched
         /\ proc[p].pc \in {"emit", "record", "create"} =>
              /\ \A a \in AllOf(proc[p].cmd) : live'[a] = Theirs(a) => a \in touched
              /\ Owned(e)' \/ (proc[p].fresh /\ ~Exists(e)') \/ (~proc[p].fresh /\ Exact(e)')
              /\ proc[p].pc # "emit" /\ c[2] \in Aspects(e) => Exists(e)'
              /\ edits = 0 /\ proc[p].fresh => proc[p].i = 1 \/ Marked(e)'
              /\ edits = 0 /\ proc[p].pc # "emit" => HoldsOf(c)'
<1>1. e \in Entities /\ AllOf(proc[p].cmd) \subseteq AllAspects /\ "lineage" \in AllAspects
  BY AspectsKnown DEF Entity, AllOf, Entities, Overlays
<1>2. /\ live'["lineage"] = "foreign" => live["lineage"] = "foreign"
      /\ \A a \in AllAspects : live'[a] = Theirs(a) => live[a] = Theirs(a)
      /\ \A a \in AllAspects : live[a] \in {"ours", "removed"} => live'[a] \in {"ours", "removed"}
  BY <1>1 DEF CatalogMoves, Theirs
<1>3. /\ Exists(e) => Exists(e)'
      /\ Owned(e) => Owned(e)'
      /\ Marked(e) => Marked(e)'
      /\ Exists(e)' => Exists(e) \/ Owned(e)'
      /\ Exact(e) => Exact(e)' \/ Owned(e)'
  BY <1>1 DEF CatalogMoves
<1>4. HoldsOf(c) => HoldsOf(c)'
  <2>1. c \in EffectOps /\ c \notin ResetOps
    BY UpsertPlan DEF Current
  <2>2. CASE IsUsage(c)
    <3>1. usage \in Nat /\ usage' \in Nat /\ usage' >= usage /\ c[3] \in Nat
      BY <2>1, <2>2, EffectKinds, ScenarioAssumption DEF TypeOK, CatalogMoves, IsUsage
    <3> QED
      BY <2>2, <3>1 DEF HoldsOf
  <2>3. CASE ~IsUsage(c)
    <3>1. c[2] \in AllAspects
      BY <2>1, <2>3, EffectKinds DEF IsUsage
    <3> QED
      BY <1>2, <2>3, <3>1 DEF HoldsOf
  <2> QED
    BY <2>2, <2>3
<1>5. proc[p].cmd = "seed" /\ live'["lineage"] = "foreign" => "lineage" \in touched
  BY <1>2 DEF EntityHeld, LineageMergeable
<1>6. ASSUME proc[p].pc \in {"emit", "record", "create"}
      PROVE  /\ \A a \in AllOf(proc[p].cmd) : live[a] = Theirs(a) => a \in touched
             /\ Owned(e) \/ (proc[p].fresh /\ ~Exists(e)) \/ (~proc[p].fresh /\ Exact(e))
             /\ proc[p].pc # "emit" /\ c[2] \in Aspects(e) => Exists(e)
             /\ edits = 0 /\ proc[p].fresh => proc[p].i = 1 \/ Marked(e)
             /\ edits = 0 /\ proc[p].pc # "emit" => HoldsOf(c)
  BY <1>6 DEF EntityHeld
<1> QED
  BY <1>1, <1>2, <1>3, <1>4, <1>5, <1>6

\* An aspect is written.
LEMMA EmitKeeps ==
  ASSUME ToolInv, NEW p \in Procs, Emit(p)
  PROVE  ToolInv'
<1>0. PICK o : o = Current(p)
  OBVIOUS
<1>1. /\ ToEmit(p) /\ Upsert(o) /\ Goto(p, "record")
      /\ UNCHANGED <<journal, effects, others, counters>>
  BY <1>0 DEF Emit
<1>2. /\ lock = p /\ proc[p].cmd \in Plans /\ proc[p].pc = "emit"
      /\ TypeOK /\ UpsertHeld(p) /\ EntityHeld(p) /\ PlanFits(p) /\ o \in EffectOps /\ o \notin ResetOps
      /\ proc[p].i \in 1 .. Len(proc[p].plan) /\ Entity(p) \in Entities /\ proc[p].cmd \notin ChainCommands
      /\ \/ IsUsage(o) /\ o[3] = Len(counts) /\ o \in QueryOps \ StableQueryOps
         \/ ~IsUsage(o) /\ o[2] \in AllOf(proc[p].cmd) /\ o \in SeedOps \cup StableQueryOps
      /\ receipts[o] = "PLANNED" /\ MayArrive(o) /\ Writes(o) = Entity(p)
  BY <1>0, <1>1, Emitting
<1>3. PICK e \in Entities : e = Entity(p)
  BY <1>2
<1>4. Moved(p, "record", proc[p].i) /\ lock' = p
  BY <1>1, <1>2, GotoMoves DEF Steps
<1>5. /\ ChainTrue' /\ OwnersKnown' /\ JournalTrue' /\ OneKindUnresolved' /\ LateHeld' /\ JournalGrows
      /\ Unresolved' = Unresolved /\ ChainReceiptsStay /\ CatalogMoves(o)
  <2>1. CarriedOut(o) /\ o \in ChainOps \cup EffectOps
    BY <1>1, <1>2 DEF CarriedOut, EffectOps
  <2>2. CatalogMoves(o)
    BY <1>1, <1>2, <2>1, CarriedOutMoves DEF ToolInv, others
  <2> QED
    BY <1>1, <1>2, <2>1, <2>2, CarriedOutKeeps DEF journal, others, Pending
<1>6. TypeOK'
  BY <1>1, <1>2, <1>4, <1>5 DEF TypeOK, Moved, CatalogMoves, journal, others, counters
<1>7. InSection(p)' /\ PlanFits(p)'
  <2>1. "record" \in Sections(proc[p].cmd) /\ InSection(p) /\ counts' = counts
    BY <1>1, <1>2, CommandsKnown DEF ToolInv, journal
  <2> QED
    BY <1>2, <1>4, <1>5, <2>1, MovedKeeps
<1>8. proc'[p].cmd = proc[p].cmd /\ proc'[p].plan = proc[p].plan /\ proc'[p].pc = "record"
      /\ proc'[p].i = proc[p].i /\ proc'[p].fresh = proc[p].fresh
  BY <1>4 DEF Moved
<1>9. UpsertHeld(p)'
  <2>1. \A j \in 1 .. Len(proc[p].plan) : StillPlanned(p, j)' => StillPlanned(p, j)
    BY <1>2, <1>8 DEF StillPlanned
  <2>2. receipts' = receipts
    BY <1>1 DEF journal
  <2>3. \A j \in 1 .. Len(proc[p].plan) : StillPlanned(p, j)' => receipts'[proc[p].plan[j]] = "PLANNED"
    BY <1>2, <2>1, <2>2 DEF UpsertHeld
  <2>4. \A q \in Unresolved' : receipts'[q] = "PLANNED" /\ \E j \in 1 .. Len(proc[p].plan) : q = proc[p].plan[j]
    BY <1>2, <1>5, <2>2 DEF UpsertHeld
  <2> QED
    BY <1>2, <1>5, <1>8, <2>3, <2>4, HeldFrame
<1>10. EntityHeld(p)'
  <2>1. /\ proc[p].cmd = "seed" /\ live'["lineage"] = "foreign" => "lineage" \in touched
        /\ \A a \in AllOf(proc[p].cmd) : live'[a] = Theirs(a) => a \in touched
        /\ Owned(e)' \/ (proc[p].fresh /\ ~Exists(e)') \/ (~proc[p].fresh /\ Exact(e)')
        /\ edits = 0 /\ proc[p].fresh => proc[p].i = 1 \/ Marked(e)'
    BY <1>0, <1>1, <1>2, <1>3, <1>5, EntityMoves DEF others
  <2>2. Entity(p)' = e /\ Current(p)' = o
    BY <1>0, <1>3, <1>8 DEF Entity, Current
  <2>3. HoldsOf(o)' /\ (o[2] \in Aspects(e) => Exists(e)')
    <3>1. OwnersKnown /\ touched' = touched /\ effects' = effects
      BY <1>1 DEF ToolInv, others
    <3>2. CASE o \in SeedOps \cup StableQueryOps
      <4>1. o[2] \in Aspects(Writes(o)) => Owned(Writes(o)) \/ ~Exists(Writes(o))
        BY <1>2, <3>2 DEF MayArrive
      <4>2. live'[o[2]] = "ours" /\ (o[2] \in Aspects(Writes(o)) => Exists(Writes(o))')
        BY <1>1, <1>2, <3>1, <3>2, <4>1, AspectWritten
      <4>3. ~IsUsage(o)
        BY <1>2, <3>2, EffectKinds DEF IsUsage, QueryOps
      <4>4. \A x : x = Writes(o) => (Exists(x)' <=> Exists(Writes(o))')
        BY <1>2 DEF Exists, Writes
      <4> QED
        BY <1>2, <1>3, <4>2, <4>3, <4>4 DEF HoldsOf
    <3>3. CASE o \in QueryOps \ StableQueryOps
      <4>3. IsUsage(o)
        BY <3>3, KindsDiffer DEF IsUsage
      <4>4. o[3] <= Len(counts)
        BY <1>2, <4>3 DEF MayArrive
      <4>1. usage' >= o[3] /\ IsUsage(o)
        BY <1>1, <1>2, <3>1, <3>3, <4>3, <4>4, ObservationWritten
      <4>2. o[2] \notin Aspects(e)
        BY <1>3, <4>1, AspectsKnown DEF IsUsage
      <4> QED
        BY <4>1, <4>2 DEF HoldsOf
    <3> QED
      BY <1>2, <3>2, <3>3
  <2>4. touched' = touched /\ edits' = edits
    BY <1>1 DEF others
  <2> QED
    BY <1>8, <2>1, <2>2, <2>3, <2>4 DEF EntityHeld, LineageMergeable, Theirs
<1>11. \A q \in Procs \ {p} : proc'[q] = proc[q]
  BY <1>4 DEF Moved
<1>12. Knows(p)'
  BY <1>2, <1>8, <1>9, <1>10, CommandsKnown DEF Knows, Plans
<1> QED
  BY <1>2, <1>4, <1>5, <1>6, <1>7, <1>11, <1>12, StepKeeps

\* A write that failed leaves a FAILURE receipt: an entity that it makes when it
\* arrives is the tool's by the time a reconciliation can adopt it.
LEMMA EmitFailsKeeps ==
  ASSUME ToolInv, NEW p \in Procs, EmitFails(p)
  PROVE  ToolInv'
<1>0. PICK o : o = Current(p)
  OBVIOUS
<1>1. /\ ToEmit(p) /\ Sent(o) /\ Receipt(o, "FAILURE") /\ Stop(p) /\ Failing
      /\ UNCHANGED <<created, succeeded, counts, catalog, effects, touched, edits, runs>>
  BY <1>0 DEF EmitFails
<1>2. lock = p /\ o \in EffectOps /\ o \in Unresolved /\ MayArrive(o)
  BY <1>0, <1>1, Emitting
<1> QED
  BY <1>1, <1>2, FailureKeeps

\* The receipt of what was written, followed by that of the creation if the
\* write made the entity.
LEMMA RecordEmitKeeps ==
  ASSUME ToolInv, NEW p \in Procs, RecordEmit(p)
  PROVE  ToolInv'
<1>0. PICK o : o = Current(p)
  OBVIOUS
<1>1. /\ lock = p /\ proc[p].pc = "record" /\ proc[p].cmd \in Plans /\ Receipt(o, "APPLIED")
      /\ succeeded' = succeeded \cup ({o} \cap StableQueryOps)
      /\ IF CreatesEntity(p) THEN Goto(p, "create") ELSE Advance(p, "emit")
      /\ WorldStays
  BY <1>0 DEF RecordEmit, Is, WorldStays
<1>2. /\ TypeOK /\ UpsertHeld(p) /\ EntityHeld(p) /\ PlanFits(p) /\ proc[p].i \in 1 .. Len(proc[p].plan)
      /\ o \in EffectOps /\ o \notin ResetOps /\ o[1] = KindOf(proc[p].cmd)
      /\ \A q \in Unresolved : q[1] = KindOf(proc[p].cmd)
      /\ proc[p].cmd \notin ChainCommands
  BY <1>0, <1>1, UpsertHolder
<1>3. /\ JournalAllows(o, "APPLIED") /\ "APPLIED" \in Marks \ {"NONE", "FAILURE"} /\ "APPLIED" \notin Pending
      /\ succeeded' \subseteq StableQueryOps
  <2>1. edits = 0 => HoldsOf(o)
    BY <1>0, <1>1, <1>2 DEF EntityHeld
  <2> QED
    BY <1>1, <1>2, <2>1, HeldAllowed DEF Marks, Pending, TypeOK
<1>4. /\ Unresolved' = Unresolved \ {o} /\ receipts'[o] = "APPLIED" /\ ChainReceiptsStay
      /\ \A q \in (ChainOps \cup EffectOps) \ {o} : receipts'[q] = receipts[q]
  BY <1>1, <1>2, <1>3, ReceiptKeeps
<1>5. edits = 0 /\ proc[p].fresh => CreatesEntity(p) \/ Marked(Entity(p))
  <2>1. edits = 0 /\ proc[p].fresh => proc[p].i = 1 \/ Marked(Entity(p))
    BY <1>1, <1>2 DEF EntityHeld
  <2>2. proc[p].plan[1] = Op(KindOf(proc[p].cmd), Marker(Entity(p))) /\ Entity(p) \in Entities
    BY <1>1, <1>2, UpsertPlan DEF Entity, Entities
  <2>3. proc[p].i = 1 => Current(p)[2] \in Aspects(Entity(p))
    BY <2>2, AspectsKnown DEF Current, Op
  <2> QED
    BY <2>1, <2>3 DEF CreatesEntity
<1>6. UNCHANGED <<live, usage, maker, touched, edits>> /\ effects' = effects
  BY <1>1 DEF WorldStays, catalog, others
<1>7. CASE CreatesEntity(p)
  <2>1. Moved(p, "create", proc[p].i) /\ lock' = p
    BY <1>1, <1>2, <1>7, GotoMoves DEF Steps
  <2>2. UpsertHeld(p)'
    BY <1>0, <1>1, <1>2, <1>4, <2>1, AppliedHeld
  <2>3. EntityHeld(p)'
    BY <1>1, <1>2, <1>6, <1>7, <2>1, EntityStays DEF CreatesEntity
  <2>4. Knows(p)' /\ "create" \in Sections(proc[p].cmd)
    BY <1>1, <1>2, <2>1, <2>2, <2>3, CommandsKnown DEF Knows, Moved, Plans
  <2> QED
    BY <1>1, <1>2, <1>3, <2>1, <2>4, GoOnAfterReceipt
<1>8. CASE ~CreatesEntity(p)
  <2>1. \/ Released(p)
        \/ /\ lock' = p /\ proc[p].i + 1 \in 1 .. Len(proc[p].plan) /\ Moved(p, "emit", proc[p].i + 1)
    BY <1>1, <1>2, <1>8, AdvanceMoves DEF Steps
  <2>2. CASE Released(p)
    BY <1>1, <1>2, <1>3, <2>2, ReleaseAfterReceipt
  <2>3. CASE lock' = p /\ proc[p].i + 1 \in 1 .. Len(proc[p].plan) /\ Moved(p, "emit", proc[p].i + 1)
    <3>1. UpsertHeld(p)'
      BY <1>0, <1>1, <1>4, <2>3, AppliedHeld
    <3>2. EntityHeld(p)'
      BY <1>1, <1>2, <1>5, <1>6, <1>8, <2>3, EntityStays
    <3>3. Knows(p)' /\ "emit" \in Sections(proc[p].cmd)
      BY <1>1, <1>2, <2>3, <3>1, <3>2, CommandsKnown DEF Knows, Moved, Plans
    <3> QED
      BY <1>1, <1>2, <1>3, <2>3, <3>3, GoOnAfterReceipt
  <2> QED
    BY <2>1, <2>2, <2>3
<1> QED
  BY <1>7, <1>8

\* A creation receipt is written only of what the tool made, or what was edited
\* meanwhile.
LEMMA RecordCreationKeeps ==
  ASSUME ToolInv, NEW p \in Procs, RecordCreation(p)
  PROVE  ToolInv'
<1>0. PICK o : o = Current(p)
  OBVIOUS
<1>1. /\ lock = p /\ proc[p].pc = "create"
      /\ created' = created \cup {Entity(p)}
      /\ UNCHANGED <<receipts, stray, order, succeeded, counts, catalog, effects, others, counters>>
  BY DEF RecordCreation, Is
<1>2. proc[p].cmd \in Plans
  BY <1>1, StepNamesCommand
<1>3. /\ TypeOK /\ InSection(p) /\ UpsertHeld(p) /\ EntityHeld(p) /\ PlanFits(p) /\ Entity(p) \in Entities
      /\ proc[p].cmd \notin ChainCommands /\ proc[p].i \in 1 .. Len(proc[p].plan) /\ Len(proc[p].plan) \in Nat
  BY <1>1, <1>2, UpsertHolder
<1>4. PICK e \in Entities : e = Entity(p)
  BY <1>3
<1>5. Owned(e) /\ (edits = 0 => Marked(e))
  <2>1. /\ proc[p].fresh /\ o[2] \in Aspects(e) /\ Exists(e)
        /\ edits = 0 => HoldsOf(o) /\ (proc[p].i = 1 \/ Marked(e))
    BY <1>0, <1>1, <1>3, <1>4 DEF EntityHeld
  <2>2. Owned(e)
    BY <1>1, <1>3, <1>4, <2>1 DEF EntityHeld
  <2>3. proc[p].plan[1] = Op(KindOf(proc[p].cmd), Marker(e))
    BY <1>1, <1>2, <1>3, <1>4, UpsertPlan
  <2>4. proc[p].i = 1 => o[2] = Marker(e) /\ ~IsUsage(o)
    BY <1>0, <2>1, <2>3, AspectsKnown DEF Current, Op, IsUsage
  <2>5. live[Marker(e)] # "removed"
    BY DEF ToolInv, OwnersKnown, CreationReceiptsTrue
  <2> QED
    BY <2>1, <2>2, <2>4, <2>5 DEF HoldsOf, Marked
<1>6. JournalGrows
  BY <1>1, <1>3 DEF TypeOK, JournalGrows
<1>7. Unresolved' = Unresolved /\ OneKindUnresolved' /\ ChainReceiptsStay
  BY <1>1 DEF ToolInv, Unresolved, OneKindUnresolved, ChainReceiptsStay
<1>8. ChainTrue'
  BY <1>1, ChainStays DEF ToolInv
<1>9. \A x : (Owned(x)' <=> Owned(x)) /\ (Marked(x)' <=> Marked(x)) /\ (Exists(x)' <=> Exists(x))
             /\ (Exact(x)' <=> Exact(x))
  BY <1>1, CatalogStays DEF catalog, others
<1>10. OwnersKnown'
  <2>1. OwnersKnown /\ \A q : Adopted(q)' = Adopted(q)
    BY <1>1 DEF ToolInv, Adopted
  <2> QED
    BY <1>1, <1>4, <1>5, <1>9, <2>1 DEF OwnersKnown, CreationReceiptsTrue, catalog
<1>11. JournalTrue'
  <2>1. JournalTrue
    BY DEF ToolInv
  <2> QED
    BY <1>1, <1>4, <1>5, <1>7, <1>9, <2>1 DEF JournalTrue, catalog, others
<1>12. LateHeld'
  BY <1>1, <1>3, <1>6, LateStays DEF ToolInv, catalog, others
<1>13. TypeOK' <=> proc' \in [Procs -> Process] /\ lock' \in Procs \cup {NoProc}
  BY <1>1, <1>3, <1>4 DEF TypeOK, catalog, others, counters
<1>14. CASE proc[p].i = Len(proc[p].plan)
  <2>1. Released(p)
    BY <1>3, <1>14, FinishReleases DEF RecordCreation
  <2>2. lock' = NoProc /\ proc' \in [Procs -> Process] /\ \A q \in Procs \ {p} : proc'[q] = proc[q]
    BY <2>1 DEF Released
  <2> QED
    BY <1>1, <1>6, <1>7, <1>8, <1>10, <1>11, <1>12, <1>13, <2>1, <2>2, ReleasedKeeps, StepKeeps
<1>15. CASE proc[p].i # Len(proc[p].plan)
  <2>1. PICK n \in Nat : n = proc[p].i + 1 /\ n \in 1 .. Len(proc[p].plan)
    <3>1. proc[p].i \in Nat
      BY <1>3 DEF TypeOK, Process
    <3>2. proc[p].i + 1 \in Nat /\ proc[p].i + 1 \in 1 .. Len(proc[p].plan)
      BY <1>3, <1>15, <3>1
    <3> QED
      BY <3>2
  <2> DEFINE r == [proc[p] EXCEPT !.fresh = FALSE, !.i = n, !.pc = "emit"]
  <2>2. proc[p] \in Process
    BY <1>3 DEF TypeOK
  <2>3. /\ r \in Process /\ r.cmd = proc[p].cmd /\ r.plan = proc[p].plan /\ r.kind = proc[p].kind
        /\ r.pc = "emit" /\ r.i = n /\ r.fresh = FALSE
    BY <2>2 DEF Process
  <2>4. proc' = [proc EXCEPT ![p] = r] /\ lock' = lock
    <3>1. proc' = [proc EXCEPT ![p] = [proc[p] EXCEPT !.fresh = FALSE, !.i = proc[p].i + 1, !.pc = "emit"]]
          /\ lock' = lock
      BY <1>15, <2>2, <1>3 DEF RecordCreation, TypeOK
    <3> QED
      BY <2>1, <3>1
  <2> HIDE DEF r
  <2>5. proc' \in [Procs -> Process] /\ proc'[p] = r /\ \A q \in Procs \ {p} : proc'[q] = proc[q]
    BY <1>3, <2>3, <2>4, ProcessSet
  <2>6. InSection(p)' /\ PlanFits(p)'
    <3>1. QueryPlan' = QueryPlan
      BY <1>1 DEF QueryPlan, QueryPlanFor, Usage, Op
    <3>2. "emit" \in Sections(proc[p].cmd) /\ proc[p].cmd \notin {"idle", "reset", "reconcile"}
      BY <1>2, CommandsKnown DEF Plans
    <3> QED
      BY <1>1, <1>3, <2>1, <2>3, <2>4, <2>5, <3>1, <3>2 DEF InSection, PlanFits
  <2>7. UpsertHeld(p)'
    <3>1. \A j \in 1 .. Len(proc[p].plan) : StillPlanned(p, j)' => StillPlanned(p, j)
      BY <1>1, <1>3, <2>1, <2>3, <2>5 DEF StillPlanned
    <3>2. \A j \in 1 .. Len(proc[p].plan) : StillPlanned(p, j)' => receipts'[proc[p].plan[j]] = "PLANNED"
      BY <1>1, <1>3, <3>1 DEF UpsertHeld
    <3>3. \A q \in Unresolved' : receipts'[q] = "PLANNED" /\ \E j \in 1 .. Len(proc[p].plan) : q = proc[p].plan[j]
      BY <1>1, <1>3, <1>7 DEF UpsertHeld
    <3> QED
      BY <1>1, <1>2, <1>7, <2>3, <2>5, <3>2, <3>3, HeldFrame
  <2>8. EntityHeld(p)'
    <3>1. Entity(p)' = e
      BY <1>4, <2>3, <2>5 DEF Entity
    <3>2. /\ proc[p].cmd = "seed" /\ live["lineage"] = "foreign" => "lineage" \in touched
          /\ \A a \in AllOf(proc[p].cmd) : live[a] = Theirs(a) => a \in touched
      BY <1>1, <1>3 DEF EntityHeld, LineageMergeable
    <3> QED
      BY <1>1, <1>5, <1>9, <2>3, <2>5, <3>1, <3>2 DEF EntityHeld, LineageMergeable, Theirs, catalog, others
  <2>9. Knows(p)'
    BY <1>2, <1>3, <2>3, <2>5, <2>7, <2>8, CommandsKnown DEF Knows, Plans
  <2> QED
    BY <1>1, <1>6, <1>7, <1>8, <1>10, <1>11, <1>12, <1>13, <2>4, <2>5, <2>6, <2>9, StepKeeps
<1> QED
  BY <1>14, <1>15

-----------------------------------------------------------------------------
(* reset.                                                                  *)

\* The receipts, processes and plans of a command that has made its plan and
\* waits for the lock.
LEMMA WaitingKeeps ==
  ASSUME ToolInv, NEW p \in Procs, lock = NoProc, lock' = lock,
         NEW r \in Process, proc' = [proc EXCEPT ![p] = r],
         r.pc = "waiting", r.todo = {}, r.adopt = {}, r.cmd \in {"reset", "reconcile"},
         r.cmd = "reset" => ResetsCreated(r.plan),
         r.cmd = "reconcile" =>
           \/ r.kind = "seed" /\ r.plan = SeedPlan
           \/ r.kind = "ingest-query" /\ Len(counts) \in 1 .. Len(counts) /\ r.plan = QueryPlanFor(Len(counts))
           \/ r.kind = "reset" /\ ResetsCreated(r.plan),
         UNCHANGED <<journal, catalog, effects, others, counters>>
  PROVE  ToolInv'
<1>1. TypeOK
  BY DEF ToolInv
<1>2. proc' \in [Procs -> Process] /\ proc'[p] = r /\ \A q \in Procs \ {p} : proc'[q] = proc[q]
  BY <1>1, ProcessSet
<1>3. /\ ChainTrue' /\ OwnersKnown' /\ JournalTrue' /\ OneKindUnresolved' /\ LateHeld' /\ JournalGrows
  BY WorldKeeps DEF others
<1>4. TypeOK'
  BY <1>1, <1>2 DEF TypeOK, journal, catalog, others, counters
<1>5. lock' # p
  BY ScenarioAssumption
<1>6. InSection(p)'
  BY <1>2, <1>5 DEF InSection
<1>7. PlanFits(p)'
  <2>1. counts' = counts /\ created' = created
    BY DEF journal
  <2>2. ResetsCreated(r.plan)' <=> ResetsCreated(r.plan)
    BY <2>1 DEF ResetsCreated
  <2>3. ResetsCreated(proc[p].plan)' <=> ResetsCreated(r.plan)
    BY <1>2, <2>1 DEF ResetsCreated
  <2>4. r.cmd \notin ChainCommands
    BY CommandsKnown
  <2> QED
    BY <1>2, <1>5, <2>1, <2>3, <2>4 DEF PlanFits
<1> QED
  BY <1>2, <1>3, <1>4, <1>5, <1>6, <1>7, StepKeeps

\* A reset is planned without the lock, from creation receipts.
LEMMA PlanResetKeeps ==
  ASSUME ToolInv, NEW p \in Procs, PlanReset(p)
  PROVE  ToolInv'
<1> DEFINE r == [Idle EXCEPT !.cmd = "reset", !.pc = "waiting", !.plan = ResetPlan]
<1>1. /\ lock = NoProc /\ lock' = lock /\ ResetPlannable /\ proc' = [proc EXCEPT ![p] = r]
      /\ UNCHANGED <<journal, catalog, effects, others, counters>>
  BY DEF PlanReset
<1>2. ResetsCreated(ResetPlan) /\ ResetPlan \in Seq(ChainOps \cup EffectOps)
  BY <1>1, ResetPlanFits, ResetPlanElements DEF ToolInv, TypeOK
<1>3. /\ r \in Process /\ r.pc = "waiting" /\ r.todo = {} /\ r.adopt = {} /\ r.cmd = "reset" /\ r.plan = ResetPlan
  BY <1>2, CommandsKnown DEF Process, Idle
<1> HIDE DEF r
<1> QED
  BY <1>1, <1>2, <1>3, WaitingKeeps

\* A reset enters with nothing unresolved; its plan may be an older one.
LEMMA EnterResetKeeps ==
  ASSUME ToolInv, NEW p \in Procs, EnterReset(p)
  PROVE  ToolInv'
<1>1. /\ TypeOK /\ lock = NoProc /\ Unresolved = {} /\ proc[p].pc = "waiting" /\ proc[p].cmd = "reset" /\ lock' = p
      /\ proc' = [proc EXCEPT ![p] = [proc[p] EXCEPT !.pc = "plan", !.i = 1]]
      /\ UNCHANGED <<journal, catalog, effects, others, counters>>
  BY DEF ToolInv, EnterReset, Take
<1> DEFINE r == [proc[p] EXCEPT !.pc = "plan", !.i = 1]
<1>2. proc[p] \in Process
  BY <1>1 DEF TypeOK
<1>3. r \in Process /\ r.cmd = "reset" /\ r.pc = "plan" /\ r.i = 1 /\ r.plan = proc[p].plan
  BY <1>1, <1>2 DEF Process
<1> HIDE DEF r
<1>4. proc' \in [Procs -> Process] /\ proc'[p] = r /\ \A q \in Procs \ {p} : proc'[q] = proc[q]
  BY <1>1, <1>3, ProcessSet DEF r
<1>5. /\ ChainTrue' /\ OwnersKnown' /\ JournalTrue' /\ OneKindUnresolved' /\ LateHeld' /\ JournalGrows
      /\ Unresolved' = {}
  BY <1>1, WorldKeeps DEF others
<1>6. TypeOK'
  BY <1>1, <1>4 DEF TypeOK, journal, catalog, others, counters
<1>7. ResetsCreated(proc[p].plan) /\ Len(proc[p].plan) \in {1, 2}
  <2>1. ResetsCreated(proc[p].plan)
    BY <1>1 DEF ToolInv, PlanFits
  <2> QED
    BY <1>1, <2>1, ResetPlanElements DEF TypeOK
<1>8. InSection(p)' /\ PlanFits(p)'
  <2>1. ResetsCreated(proc[p].plan)'
    BY <1>3, <1>4, <1>5, <1>7 DEF ResetsCreated, JournalGrows
  <2>2. 1 \in 1 .. Len(r.plan)
    <3>1. \A n \in {1, 2} : 1 \in 1 .. n
      OBVIOUS
    <3> QED
      BY <1>3, <1>7, <3>1
  <2> QED
    BY <1>1, <1>3, <1>4, <2>1, <2>2, CommandsKnown DEF InSection, PlanFits
<1>9. Knows(p)'
  BY <1>3, <1>4, <1>5, CommandsKnown DEF Knows, ResetHeld, Plans
<1> QED
  BY <1>1, <1>4, <1>5, <1>6, <1>8, <1>9, StepKeeps

\* What a reset in the lock knows.
LEMMA ResetHolder ==
  ASSUME ToolInv, NEW p \in Procs, lock = p, proc[p].cmd = "reset", NEW o, o = Current(p), NEW t, t = Target(p)
  PROVE  /\ TypeOK /\ InSection(p) /\ PlanFits(p) /\ ResetHeld(p)
         /\ proc[p].i \in 1 .. Len(proc[p].plan)
         /\ o \in ResetOps /\ o \in EffectOps /\ o = Reset(t) /\ o[2] = t /\ t \in created /\ t \in Entities
         /\ \A q \in Unresolved : q[1] = o[1]
<1>1. TypeOK /\ InSection(p) /\ PlanFits(p) /\ ResetHeld(p)
  BY CommandsKnown DEF ToolInv, Knows
<1>2. proc[p].i \in 1 .. Len(proc[p].plan) /\ ResetsCreated(proc[p].plan)
  BY <1>1 DEF InSection, PlanFits
<1>3. /\ o \in ResetOps /\ o = Reset(o[2]) /\ o[2] \in created /\ o[2] \in Entities
  BY <1>1, <1>2, ResetPlanElements DEF Current, TypeOK
<1>4. \A q \in Unresolved : q[1] = o[1]
  BY <1>1 DEF ResetHeld
<1> QED
  BY <1>1, <1>2, <1>3, <1>4 DEF Target, EffectOps

\* A deletion is PLANNED before the target is checked.
LEMMA PlanDeleteKeeps ==
  ASSUME ToolInv, NEW p \in Procs, PlanDelete(p)
  PROVE  ToolInv'
<1>0. PICK o : o = Current(p)
  OBVIOUS
<1>1. /\ lock = p /\ proc[p].cmd = "reset" /\ proc[p].pc = "plan" /\ Receipt(o, "PLANNED") /\ Goto(p, "check")
      /\ succeeded' = succeeded /\ WorldStays
  BY <1>0 DEF PlanDelete, Is, WorldStays
<1>2. /\ TypeOK /\ ResetHeld(p) /\ proc[p].i \in 1 .. Len(proc[p].plan)
      /\ o \in ResetOps /\ o \in EffectOps /\ o[2] \in created /\ \A q \in Unresolved : q[1] = o[1]
  BY <1>0, <1>1, ResetHolder
<1>3. JournalAllows(o, "PLANNED") /\ "PLANNED" \in Marks \ {"NONE", "FAILURE"} /\ "PLANNED" \in Pending
      /\ succeeded' \subseteq StableQueryOps
  BY <1>1, <1>2, PendingAllowed DEF TypeOK
<1>4. Moved(p, "check", proc[p].i) /\ lock' = p
  BY <1>1, <1>2, GotoMoves DEF Steps
<1>5. Unresolved' = Unresolved \cup {o} /\ receipts'[o] = "PLANNED"
  BY <1>1, <1>2, <1>3, ReceiptKeeps
<1>6. Current(p)' = o /\ proc'[p].pc = "check" /\ proc'[p].cmd = "reset"
  BY <1>0, <1>1, <1>4 DEF Moved, Current
<1>7. Knows(p)' /\ "check" \in Sections(proc[p].cmd)
  BY <1>1, <1>2, <1>5, <1>6, CommandsKnown DEF Knows, ResetHeld, Plans
<1> QED
  BY <1>1, <1>2, <1>3, <1>4, <1>7, GoOnAfterReceipt

\* The receipt of a deletion that is in place, and on to the next.
LEMMA DeletedKeeps ==
  ASSUME ToolInv, NEW p \in Procs, lock = p, proc[p].cmd = "reset", NEW o, o = Current(p),
         Receipt(o, "APPLIED"), Advance(p, "plan"), succeeded' = succeeded, WorldStays
  PROVE  ToolInv'
<1>1. /\ TypeOK /\ ResetHeld(p) /\ proc[p].i \in 1 .. Len(proc[p].plan)
      /\ o \in ResetOps /\ o \in EffectOps /\ o[2] \in created /\ \A q \in Unresolved : q[1] = o[1]
  BY ResetHolder
<1>2. JournalAllows(o, "APPLIED")
  <2>1. o \notin SeedOps /\ o \notin QueryOps /\ o \notin StableQueryOps
    BY <1>1, EffectKinds DEF QueryOps
  <2> QED
    BY <2>1 DEF JournalAllows
<1>3. "APPLIED" \in Marks \ {"NONE", "FAILURE"} /\ "APPLIED" \notin Pending /\ succeeded' \subseteq StableQueryOps
  BY <1>1 DEF Marks, Pending, TypeOK
<1>4. \/ Released(p)
      \/ /\ lock' = p /\ proc[p].i + 1 \in 1 .. Len(proc[p].plan) /\ Moved(p, "plan", proc[p].i + 1)
  BY <1>1, AdvanceMoves DEF Steps
<1>5. CASE Released(p)
  BY <1>1, <1>2, <1>3, <1>5, ReleaseAfterReceipt
<1>6. CASE lock' = p /\ proc[p].i + 1 \in 1 .. Len(proc[p].plan) /\ Moved(p, "plan", proc[p].i + 1)
  <2>1. Unresolved' = {}
    <3>1. Unresolved' = Unresolved \ {o}
      BY <1>1, <1>2, <1>3, ReceiptKeeps
    <3> QED
      BY <1>1, <3>1 DEF ResetHeld
  <2>2. Knows(p)' /\ "plan" \in Sections(proc[p].cmd)
    BY <1>6, <2>1, CommandsKnown DEF Knows, ResetHeld, Plans, Moved
  <2> QED
    BY <1>1, <1>2, <1>3, <1>6, <2>2, GoOnAfterReceipt
<1> QED
  BY <1>4, <1>5, <1>6

\* What is deleted next carried the marker when it was checked.
LEMMA CheckTargetKeeps ==
  ASSUME ToolInv, NEW p \in Procs, CheckTarget(p)
  PROVE  ToolInv'
<1>0. PICK o, t : o = Current(p) /\ t = Target(p)
  OBVIOUS
<1>1. lock = p /\ proc[p].pc = "check" /\ proc[p].cmd = "reset"
  BY StepNamesCommand DEF CheckTarget, Is
<1>2. /\ TypeOK /\ InSection(p) /\ PlanFits(p) /\ ResetHeld(p) /\ proc[p].i \in 1 .. Len(proc[p].plan)
      /\ o \in ResetOps /\ o \in EffectOps /\ o[2] \in created /\ \A q \in Unresolved : q[1] = o[1]
  BY <1>0, <1>1, ResetHolder
<1>3. CASE live[Status(t)] = "removed"
  <2>1. Receipt(o, "APPLIED") /\ Advance(p, "plan") /\ succeeded' = succeeded /\ WorldStays
    BY <1>0, <1>3 DEF CheckTarget, WorldStays
  <2> QED
    BY <1>0, <1>1, <2>1, DeletedKeeps
<1>4. CASE live[Status(t)] # "removed" /\ ~Marked(t)
  <2>1. Refuse(p, o)
    BY <1>0, <1>4 DEF CheckTarget
  <2> QED
    BY <1>1, <1>2, <2>1, RefuseKeeps
<1>5. CASE live[Status(t)] # "removed" /\ Marked(t)
  <2>1. Goto(p, "delete") /\ UNCHANGED <<journal, catalog, effects, others, counters>>
    BY <1>0, <1>5 DEF CheckTarget
  <2>2. Moved(p, "delete", proc[p].i) /\ lock' = p
    BY <1>1, <1>2, <2>1, GotoMoves DEF Steps
  <2>3. /\ ChainTrue' /\ OwnersKnown' /\ JournalTrue' /\ OneKindUnresolved' /\ LateHeld' /\ JournalGrows
        /\ Unresolved' = Unresolved /\ receipts' = receipts
    BY <2>1, WorldKeeps DEF journal, others
  <2>4. TypeOK'
    BY <1>2, <2>1, <2>2 DEF TypeOK, Moved, journal, catalog, others, counters
  <2>5. InSection(p)' /\ PlanFits(p)'
    BY <1>1, <1>2, <2>2, <2>3, MovedKeeps, CommandsKnown
  <2>6. Current(p)' = o /\ Target(p)' = t /\ proc'[p].pc = "delete" /\ proc'[p].cmd = "reset"
    BY <1>0, <1>1, <2>2 DEF Moved, Current, Target
  <2>7. Marked(t)'
    BY <1>5, <2>1 DEF Marked, catalog
  <2>8. Unresolved \subseteq {o} /\ receipts[o] = "PLANNED"
    BY <1>0, <1>1, <1>2 DEF ResetHeld
  <2>9. Knows(p)'
    BY <2>3, <2>6, <2>7, <2>8, CommandsKnown DEF Knows, ResetHeld, Plans
  <2>10. \A q \in Procs \ {p} : proc'[q] = proc[q]
    BY <2>2 DEF Moved
  <2> QED
    BY <1>1, <2>2, <2>3, <2>4, <2>5, <2>9, <2>10, StepKeeps
<1> QED
  BY <1>3, <1>4, <1>5

\* The receipt of a deletion that was carried out.
LEMMA RecordDeleteKeeps ==
  ASSUME ToolInv, NEW p \in Procs, RecordDelete(p)
  PROVE  ToolInv'
<1>1. PICK o : o = Current(p)
  OBVIOUS
<1>2. /\ lock = p /\ proc[p].cmd = "reset" /\ Receipt(o, "APPLIED") /\ Advance(p, "plan")
      /\ succeeded' = succeeded /\ WorldStays
  BY <1>1 DEF RecordDelete, Is, WorldStays
<1> QED
  BY <1>1, <1>2, DeletedKeeps

\* What is deleted now was planned, and may be deleted at any later time as well.
LEMMA Deleting ==
  ASSUME ToolInv, NEW p \in Procs, lock = p, proc[p].cmd = "reset", proc[p].pc = "delete", NEW o, o = Current(p)
  PROVE  /\ o \in EffectOps /\ o \in ResetOps /\ o \in Unresolved /\ receipts[o] = "PLANNED" /\ MayArrive(o)
<1>1. PICK t : t = Target(p)
  OBVIOUS
<1>2. ResetHeld(p) /\ o \in ResetOps /\ o \in EffectOps /\ o[2] = t /\ t \in created
  BY <1>1, ResetHolder
<1>3. receipts[o] = "PLANNED" /\ (Marked(o[2]) \/ Marker(o[2]) \in touched)
  BY <1>1, <1>2 DEF ResetHeld
<1>4. ~IsUsage(o) /\ o \notin SeedOps \cup StableQueryOps
  <2>1. o \notin SeedOps /\ o \notin QueryOps
    BY <1>2, EffectKinds
  <2>3. o[2] \in Entities
    BY <1>2, KindsDiffer
  <2>2. o[2] # "usage"
    BY <2>3 DEF Entities
  <2> QED
    BY <2>1, <2>2 DEF IsUsage, QueryOps
<1> QED
  BY <1>2, <1>3, <1>4 DEF MayArrive, Unresolved, Pending

\* A soft deletion that was answered.
LEMMA DeleteKeeps ==
  ASSUME ToolInv, NEW p \in Procs, Delete(p)
  PROVE  ToolInv'
<1>0. PICK o, t : o = Current(p) /\ t = Target(p)
  OBVIOUS
<1>1. /\ lock = p /\ proc[p].pc = "delete" /\ proc[p].cmd = "reset"
      /\ SoftDelete(t) /\ Goto(p, "record")
      /\ UNCHANGED <<journal, usage, maker, effects, others, counters>>
  BY <1>0, StepNamesCommand DEF Delete, Is
<1>2. /\ TypeOK /\ InSection(p) /\ PlanFits(p) /\ ResetHeld(p) /\ proc[p].i \in 1 .. Len(proc[p].plan)
      /\ o \in EffectOps /\ o \in ResetOps /\ receipts[o] = "PLANNED" /\ MayArrive(o) /\ o[2] = t
  BY <1>0, <1>1, ResetHolder, Deleting
<1>3. Moved(p, "record", proc[p].i) /\ lock' = p
  BY <1>1, <1>2, GotoMoves DEF Steps
<1>4. /\ ChainTrue' /\ OwnersKnown' /\ JournalTrue' /\ OneKindUnresolved' /\ LateHeld' /\ JournalGrows
      /\ Unresolved' = Unresolved /\ CatalogMoves(o)
  <2>1. CarriedOut(o) /\ o \in ChainOps \cup EffectOps
    BY <1>1, <1>2 DEF CarriedOut
  <2>2. CatalogMoves(o)
    BY <1>1, <1>2, <2>1, CarriedOutMoves DEF ToolInv, others
  <2> QED
    BY <1>1, <1>2, <2>1, <2>2, CarriedOutKeeps DEF journal, others, Pending
<1>5. TypeOK'
  BY <1>1, <1>2, <1>3, <1>4 DEF TypeOK, Moved, CatalogMoves, journal, others, counters
<1>6. InSection(p)' /\ PlanFits(p)'
  BY <1>1, <1>2, <1>3, <1>4, MovedKeeps, CommandsKnown
<1>7. Knows(p)'
  <2>1. Current(p)' = o /\ proc'[p].pc = "record" /\ proc'[p].cmd = "reset"
    BY <1>0, <1>1, <1>3 DEF Moved, Current
  <2>2. Unresolved \subseteq {o} /\ receipts' = receipts
    BY <1>0, <1>1, <1>2 DEF ResetHeld, journal
  <2> QED
    BY <1>2, <1>4, <2>1, <2>2, CommandsKnown DEF Knows, ResetHeld, Plans
<1>8. \A q \in Procs \ {p} : proc'[q] = proc[q]
  BY <1>3 DEF Moved
<1> QED
  BY <1>1, <1>3, <1>4, <1>5, <1>6, <1>7, <1>8, StepKeeps

\* A soft deletion that failed is lost, or comes later.
LEMMA DeleteFailsKeeps ==
  ASSUME ToolInv, NEW p \in Procs, DeleteFails(p)
  PROVE  ToolInv'
<1>0. PICK o : o = Current(p)
  OBVIOUS
<1>1. /\ lock = p /\ proc[p].pc = "delete" /\ proc[p].cmd = "reset"
      /\ Sent(o) /\ Receipt(o, "FAILURE") /\ Stop(p) /\ Failing
      /\ UNCHANGED <<created, succeeded, counts, catalog, effects, touched, edits, runs>>
  BY <1>0, StepNamesCommand DEF DeleteFails, Is
<1>2. o \in EffectOps /\ o \in Unresolved /\ MayArrive(o)
  BY <1>0, <1>1, Deleting
<1> QED
  BY <1>1, <1>2, FailureKeeps

-----------------------------------------------------------------------------
(* The reconciliations.                                                    *)

\* A reconciliation is planned without the lock, for a kind left unresolved.
LEMMA PlanReconciliationKeeps ==
  ASSUME ToolInv, NEW p \in Procs, PlanReconciliation(p)
  PROVE  ToolInv'
<1>1. PICK kind \in ReconciledKinds :
        /\ lock = NoProc /\ lock' = lock
        /\ kind = "ingest-query" => PostgresCurrent
        /\ kind = "reset" => ResetPlannable
        /\ proc' = [proc EXCEPT ![p] = [Idle EXCEPT !.cmd = "reconcile", !.pc = "waiting",
                                                    !.kind = kind, !.plan = PlanOf(kind)]]
        /\ UNCHANGED <<journal, catalog, effects, others, counters>>
  BY DEF PlanReconciliation
<1> DEFINE plan == PlanOf(kind)
           r == [Idle EXCEPT !.cmd = "reconcile", !.pc = "waiting", !.kind = kind, !.plan = plan]
<1>2. TypeOK /\ ChainTrue
  BY DEF ToolInv
<1>3. /\ plan \in Seq(ChainOps \cup EffectOps)
      /\ \/ kind = "seed" /\ plan = SeedPlan
         \/ kind = "ingest-query" /\ Len(counts) \in 1 .. Len(counts) /\ plan = QueryPlanFor(Len(counts))
         \/ kind = "reset" /\ ResetsCreated(plan)
  <2>1. Seq(EffectOps) \subseteq Seq(ChainOps \cup EffectOps)
    OBVIOUS
  <2>2. CASE kind = "seed"
    <3>1. plan = SeedPlan
      BY <2>2 DEF PlanOf
    <3> QED
      BY <2>1, <2>2, <3>1, PlansKnown
  <2>3. CASE kind = "ingest-query"
    <3>1. plan = QueryPlanFor(Len(counts))
      BY <2>3 DEF PlanOf, QueryPlan
    <3>2. Len(counts) \in 1 .. MaxObservations /\ Len(counts) \in 1 .. Len(counts)
      <4>1. Len(counts) \in Nat /\ Len(counts) <= MaxObservations
        BY <1>2 DEF TypeOK
      <4>2. Len(counts) > 0
        BY <1>1, <1>2, <2>3, ChainRan
      <4> QED
        BY <4>1, <4>2, ScenarioAssumption
    <3>3. plan \in Seq(EffectOps)
      BY <3>1, <3>2, PlansKnown
    <3> QED
      BY <2>1, <2>3, <3>1, <3>2, <3>3
  <2>4. CASE kind = "reset"
    <3>1. plan = ResetPlan
      BY <2>4 DEF PlanOf
    <3>2. ResetsCreated(ResetPlan) /\ ResetPlan \in Seq(ChainOps \cup EffectOps)
      BY <1>1, <1>2, <2>4, ResetPlanFits, ResetPlanElements DEF TypeOK
    <3> QED
      BY <2>4, <3>1, <3>2
  <2> QED
    BY <2>2, <2>3, <2>4 DEF ReconciledKinds
<1> HIDE DEF plan
<1>4. /\ r \in Process /\ r.pc = "waiting" /\ r.todo = {} /\ r.adopt = {} /\ r.cmd = "reconcile"
      /\ r.kind = kind /\ r.plan = plan
  BY <1>3, CommandsKnown DEF Process, Idle
<1>5. proc' = [proc EXCEPT ![p] = r]
  BY <1>1 DEF plan
<1> HIDE DEF r
<1> QED
  BY <1>1, <1>3, <1>4, <1>5, WaitingKeeps

\* It enters if all that is unresolved is of its kind.
LEMMA EnterReconciliationKeeps ==
  ASSUME ToolInv, NEW p \in Procs, EnterReconciliation(p)
  PROVE  ToolInv'
<1>1. /\ TypeOK /\ lock = NoProc /\ proc[p].pc = "waiting" /\ proc[p].cmd = "reconcile" /\ lock' = p
      /\ \A o \in Unresolved : o[1] = proc[p].kind
      /\ proc' = [proc EXCEPT ![p] = [proc[p] EXCEPT !.pc = "settle", !.todo = Unresolved]]
      /\ UNCHANGED <<journal, catalog, effects, others, counters>>
  BY DEF ToolInv, EnterReconciliation, Take
<1> DEFINE r == [proc[p] EXCEPT !.pc = "settle", !.todo = Unresolved]
<1>2. proc[p] \in Process /\ Unresolved \in SUBSET EffectOps
  BY <1>1 DEF TypeOK, Unresolved
<1>3. proc[p].adopt = {} /\ PlanFits(p)
  BY <1>1, ScenarioAssumption, IdleKnown DEF ToolInv, InSection
<1>4. /\ r \in Process /\ r.cmd = "reconcile" /\ r.pc = "settle" /\ r.plan = proc[p].plan /\ r.kind = proc[p].kind
      /\ r.todo = Unresolved /\ r.adopt = {}
  BY <1>1, <1>2, <1>3 DEF Process
<1>5. proc' = [proc EXCEPT ![p] = r]
  BY <1>1
<1> HIDE DEF r
<1>6. proc' \in [Procs -> Process] /\ proc'[p] = r /\ \A q \in Procs \ {p} : proc'[q] = proc[q]
  BY <1>1, <1>4, <1>5, ProcessSet
<1>7. /\ ChainTrue' /\ OwnersKnown' /\ JournalTrue' /\ OneKindUnresolved' /\ LateHeld' /\ JournalGrows
      /\ Unresolved' = Unresolved
  BY <1>1, WorldKeeps DEF others
<1>8. TypeOK'
  BY <1>1, <1>6 DEF TypeOK, journal, catalog, others, counters
<1>9. InSection(p)' /\ PlanFits(p)'
  <2>1. counts' = counts /\ created' = created
    BY <1>1 DEF journal
  <2>2. ResetsCreated(proc[p].plan)' <=> ResetsCreated(proc[p].plan)
    BY <1>4, <1>6, <2>1 DEF ResetsCreated
  <2>3. "reconcile" \notin ChainCommands /\ "settle" \in Sections("reconcile")
    BY CommandsKnown
  <2> QED
    BY <1>1, <1>3, <1>4, <1>6, <2>1, <2>2, <2>3 DEF InSection, PlanFits
<1>10. Knows(p)'
  <2>1. ReconciliationHeld(p)'
    BY <1>1, <1>4, <1>6, <1>7 DEF ReconciliationHeld
  <2> QED
    BY <1>4, <1>6, <2>1, CommandsKnown DEF Knows, Plans
<1> QED
  BY <1>1, <1>6, <1>7, <1>8, <1>9, <1>10, StepKeeps

\* What a reconciliation in the lock knows.
LEMMA ReconcileHolder ==
  ASSUME ToolInv, NEW p \in Procs, Is(p, "settle")
  PROVE  /\ lock = p /\ proc[p].pc = "settle" /\ proc[p].cmd = "reconcile"
         /\ TypeOK /\ InSection(p) /\ PlanFits(p) /\ ReconciliationHeld(p) /\ OwnersKnown /\ JournalTrue
<1>1. lock = p /\ proc[p].pc = "settle" /\ proc[p].cmd = "reconcile"
  BY StepNamesCommand DEF Is
<1> QED
  BY <1>1, CommandsKnown DEF ToolInv, Knows

\* Without edits, what is not applied is safely absent.
LEMMA NoConflict ==
  ASSUME TypeOK, OwnersKnown, JournalTrue, NEW p \in Procs, PlanFits(p), proc[p].cmd = "reconcile",
         NEW o \in Unresolved, o \in Range(proc[p].plan), Settleable(p, o), ~Applied(o), ~SafelyAbsent(o)
  PROVE  edits # 0
<1> SUFFICES ASSUME edits = 0 PROVE FALSE
  OBVIOUS
<1>1. o \in EffectOps /\ receipts[o] # "NONE"
  BY DEF Unresolved, Pending
<1>2. CASE o \in ResetOps
  <2>1. o[1] = "reset" /\ o = Reset(o[2]) /\ o[2] \in Entities
    BY <1>2, EffectKinds, KindsDiffer
  <2>2. o[2] \in created
    BY <1>1, <2>1 DEF OwnersKnown, CreationReceiptsTrue
  <2>3. Marked(o[2])
    BY <2>2 DEF JournalTrue
  <2> QED
    BY <2>1, <2>3 DEF SafelyAbsent, IsUsage, Entities
<1>3. CASE o \in QueryOps \ StableQueryOps
  <2>1. o[1] = "ingest-query" /\ o[2] = "usage" /\ o[3] \in 1 .. MaxObservations /\ o = Usage(o[3]) /\ IsUsage(o)
    BY <1>3, KindsDiffer DEF IsUsage
  <2>2. Usage(Len(counts)) \in Range(proc[p].plan)
    BY <2>1 DEF Settleable
  <2>3. Len(counts) \in Nat /\ Len(counts) <= MaxObservations /\ usage <= Len(counts) /\ usage \in Nat
    BY DEF TypeOK
  <2>4. PICK n \in 1 .. MaxObservations : proc[p].plan = QueryPlanFor(n)
    <3>1. ~(proc[p].kind = "seed" /\ proc[p].plan = SeedPlan)
      <4>1. ASSUME proc[p].plan = SeedPlan PROVE FALSE
        <5>1. o \in SeedOps
          BY <4>1 DEF SeedOps
        <5> QED
          BY <1>1, <1>3, <5>1, EffectKinds
      <4> QED
        BY <4>1
    <3>2. ~ResetsCreated(proc[p].plan)
      <4>1. ASSUME ResetsCreated(proc[p].plan) PROVE FALSE
        <5>1. proc[p].plan \in Seq(ChainOps \cup EffectOps)
              /\ \A i \in 1 .. Len(proc[p].plan) : proc[p].plan[i] \in ResetOps
          BY <4>1, ResetPlanElements DEF TypeOK
        <5>2. o \in ResetOps
          BY <5>1 DEF Range
        <5> QED
          BY <1>1, <1>3, <5>2, EffectKinds
      <4> QED
        BY <4>1
    <3> QED
      BY <2>3, <3>1, <3>2, ScenarioAssumption DEF PlanFits
  <2>5. \A x \in Range(proc[p].plan) : x[2] = "usage" => x = Usage(n)
    <3>1. /\ Len(proc[p].plan) = 3 /\ proc[p].plan \in Seq(EffectOps)
          /\ proc[p].plan[1] = Op("ingest-query", "properties")
          /\ proc[p].plan[2] = Op("ingest-query", "queryStatus")
          /\ proc[p].plan[3] = Usage(n)
      BY <2>4, PlansKnown
    <3>2. DOMAIN proc[p].plan = 1 .. 3
      BY <3>1
    <3>3. \A x \in Range(proc[p].plan) : x \in {proc[p].plan[1], proc[p].plan[2], proc[p].plan[3]}
      BY <3>2 DEF Range
    <3> QED
      BY <3>1, <3>3, OpsKnown
  <2>6. o[3] = n /\ Len(counts) = n
    BY <2>1, <2>2, <2>5, OpsKnown
  <2>7. usage # o[3] /\ ~(usage < o[3])
    BY <2>1 DEF Applied, SafelyAbsent, InPlace
  <2> QED
    BY <2>3, <2>6, <2>7
<1>4. CASE o \in SeedOps \cup StableQueryOps
  <2>1. o[2] \in AllAspects /\ o[1] # "reset" /\ ~IsUsage(o)
    BY <1>1, <1>4, EffectKinds, KindsDiffer DEF IsUsage
  <2>2. live[o[2]] \in Values \ {"other", "foreign"} /\ (live[o[2]] = "native" => o[2] = "lineage")
    BY <2>1 DEF TypeOK, JournalTrue
  <2> QED
    BY <2>1, <2>2 DEF Applied, SafelyAbsent, InPlace, Values
<1> QED
  BY <1>1, <1>2, <1>3, <1>4, EffectKinds

\* An operation is settled from the catalog: found applied, found safely absent,
\* or a conflict, which only edits by others can make.
LEMMA SettleKeeps ==
  ASSUME ToolInv, NEW p \in Procs, Settle(p)
  PROVE  ToolInv'
<1>1. /\ lock = p /\ proc[p].pc = "settle" /\ proc[p].cmd = "reconcile"
      /\ TypeOK /\ InSection(p) /\ PlanFits(p) /\ ReconciliationHeld(p) /\ OwnersKnown /\ JournalTrue
  BY ReconcileHolder DEF Settle
<1>2. PICK o \in proc[p].todo :
        /\ NextPending(p, o) /\ Settleable(p, o)
        /\ \/ /\ Applied(o) \/ SafelyAbsent(o)
              /\ Receipt(o, IF Applied(o) THEN "APPLIED" ELSE "NOT_APPLIED")
              /\ proc' = [proc EXCEPT ![p].todo = @ \ {o},
                                      ![p].adopt = IF Applied(o) THEN @ \cup Adopted(o) ELSE @]
              /\ UNCHANGED lock
           \/ /\ ~Applied(o) /\ ~SafelyAbsent(o)
              /\ Receipt(o, "CONFLICT") /\ Stop(p)
  BY DEF Settle
<1>3. WorldStays /\ succeeded' = succeeded /\ succeeded' \subseteq StableQueryOps
  BY <1>1 DEF Settle, WorldStays, TypeOK
<1>4. /\ o \in Unresolved /\ o \in EffectOps /\ o \in Range(proc[p].plan) /\ receipts[o] # "NONE"
      /\ \A q \in Unresolved : q[1] = o[1]
  BY <1>1, <1>2 DEF ReconciliationHeld, NextPending, Range, Unresolved, Pending
<1>5. o \in ResetOps => o[2] \in created
  BY <1>1, <1>4, KindsDiffer DEF OwnersKnown, CreationReceiptsTrue
<1>6. CASE Applied(o) \/ SafelyAbsent(o)
  <2>1. PICK mark \in {"APPLIED", "NOT_APPLIED"} : mark = IF Applied(o) THEN "APPLIED" ELSE "NOT_APPLIED"
    OBVIOUS
  <2>2. /\ Receipt(o, mark) /\ lock' = p
        /\ proc' = [proc EXCEPT ![p].todo = @ \ {o}, ![p].adopt = IF Applied(o) THEN @ \cup Adopted(o) ELSE @]
    BY <1>1, <1>2, <1>6, <2>1
  <2>3. mark \in Marks \ {"NONE", "FAILURE"} /\ mark \notin Pending
    BY DEF Marks, Pending
  <2>4. JournalAllows(o, mark)
    <3>1. CASE o \in SeedOps \cup StableQueryOps
      <4>1. ~IsUsage(o) /\ o[1] # "reset" /\ o \notin QueryOps \ StableQueryOps /\ o \notin ResetOps
        BY <1>4, <3>1, EffectKinds, KindsDiffer DEF IsUsage
      <4> QED
        BY <2>1, <3>1, <4>1 DEF JournalAllows, Applied, InPlace
    <3>2. CASE o \in QueryOps \ StableQueryOps
      <4>1. IsUsage(o) /\ o[1] # "reset" /\ o \notin SeedOps \cup StableQueryOps /\ o \notin ResetOps
            /\ o[3] \in Nat /\ usage \in Nat
        BY <1>1, <1>4, <3>2, EffectKinds, KindsDiffer, ScenarioAssumption DEF IsUsage, TypeOK
      <4> QED
        BY <2>1, <3>2, <4>1 DEF JournalAllows, Applied, InPlace
    <3>3. CASE o \in ResetOps
      <4>1. o[1] = "reset" /\ o \notin SeedOps \cup StableQueryOps /\ o \notin QueryOps
        BY <1>4, <3>3, EffectKinds, KindsDiffer DEF QueryOps
      <4> QED
        BY <2>1, <3>3, <4>1 DEF JournalAllows, Applied
    <3> QED
      BY <1>4, <3>1, <3>2, <3>3, EffectKinds
  <2>5. /\ ChainTrue' /\ OwnersKnown' /\ JournalTrue' /\ OneKindUnresolved' /\ LateHeld' /\ JournalGrows
        /\ Unresolved' = Unresolved \ {o}
    BY <1>3, <1>4, <1>5, <2>2, <2>3, <2>4, ReceiptKeeps
  <2> DEFINE adopted == IF Applied(o) THEN proc[p].adopt \cup Adopted(o) ELSE proc[p].adopt
             r == [proc[p] EXCEPT !.todo = proc[p].todo \ {o}, !.adopt = adopted]
  <2>6. proc[p] \in Process /\ proc[p].adopt \subseteq Entities /\ Adopted(o) \subseteq Entities
    BY <1>1 DEF TypeOK, Process, Adopted, Entities
  <2>7. adopted \in SUBSET Entities /\ adopted \subseteq proc[p].adopt \cup Adopted(o)
    BY <2>6
  <2>8. proc' = [proc EXCEPT ![p] = r]
    BY <1>1, <2>2, <2>6 DEF TypeOK
  <2> HIDE DEF adopted
  <2>9. /\ r \in Process /\ r.cmd = "reconcile" /\ r.pc = "settle" /\ r.plan = proc[p].plan /\ r.kind = proc[p].kind
        /\ r.todo = proc[p].todo \ {o} /\ r.adopt = adopted
    BY <1>1, <2>6, <2>7 DEF Process
  <2> HIDE DEF r
  <2>10. proc' \in [Procs -> Process] /\ proc'[p] = r /\ \A q \in Procs \ {p} : proc'[q] = proc[q]
    BY <1>1, <2>8, <2>9, ProcessSet
  <2>11. TypeOK'
    BY <1>1, <1>3, <1>4, <2>2, <2>3, <2>10, ReceiptTypeOK
  <2>12. counts' = counts /\ created' = created
    BY <1>3 DEF WorldStays
  <2>13. InSection(p)' /\ PlanFits(p)'
    <3>1. ResetsCreated(proc[p].plan)' <=> ResetsCreated(proc[p].plan)
      BY <2>9, <2>10, <2>12 DEF ResetsCreated
    <3>2. "reconcile" \notin ChainCommands /\ "settle" \in Sections("reconcile")
      BY CommandsKnown
    <3> QED
      BY <1>1, <2>2, <2>9, <2>10, <2>12, <3>1, <3>2 DEF InSection, PlanFits
  <2>14. Knows(p)'
    <3>1. \A e \in adopted : Owned(e) \/ ~Marked(e)
      BY <1>1, <1>4, <2>7 DEF ReconciliationHeld, OwnersKnown, CreationReceiptsTrue
    <3>2. \A e : (Owned(e)' <=> Owned(e)) /\ (Marked(e)' <=> Marked(e))
      BY <1>3, CatalogStays DEF WorldStays, catalog, others
    <3>3. ReconciliationHeld(p)'
      BY <1>1, <2>5, <2>9, <2>10, <3>1, <3>2 DEF ReconciliationHeld
    <3> QED
      BY <2>9, <2>10, <3>3, CommandsKnown DEF Knows, Plans
  <2> QED
    BY <1>1, <2>2, <2>5, <2>10, <2>11, <2>13, <2>14, StepKeeps
<1>7. CASE ~Applied(o) /\ ~SafelyAbsent(o)
  <2>1. edits # 0
    BY <1>1, <1>2, <1>4, <1>7, NoConflict
  <2>2. JournalAllows(o, "CONFLICT") /\ "CONFLICT" \in Marks \ {"NONE", "FAILURE"}
    BY <2>1 DEF JournalAllows, Marks, Pending
  <2>3. Receipt(o, "CONFLICT") /\ Released(p)
    BY <1>1, <1>2, <1>7, StopReleases
  <2> QED
    BY <1>1, <1>3, <1>4, <1>5, <2>2, <2>3, ReleaseAfterReceipt
<1> QED
  BY <1>6, <1>7

\* Entities are adopted that a failed write made and that carry the marker.
LEMMA EndReconciliationKeeps ==
  ASSUME ToolInv, NEW p \in Procs, EndReconciliation(p)
  PROVE  ToolInv'
<1>1. /\ lock = p /\ proc[p].todo = {} /\ created' = created \cup {e \in proc[p].adopt : Marked(e)} /\ Stop(p)
      /\ TypeOK /\ ReconciliationHeld(p) /\ OwnersKnown /\ JournalTrue
      /\ UNCHANGED <<receipts, stray, order, succeeded, counts, catalog, effects, others, counters>>
  BY ReconcileHolder DEF EndReconciliation, Is
<1>2. Released(p)
  BY <1>1, StopReleases
<1>3. proc[p].adopt \subseteq Entities
  BY <1>1 DEF TypeOK, Process
<1>4. TypeOK' /\ JournalGrows
  BY <1>1, <1>2, <1>3 DEF TypeOK, JournalGrows, Released, catalog, others, counters
<1>5. Unresolved' = Unresolved /\ OneKindUnresolved'
  BY <1>1 DEF ToolInv, Unresolved, OneKindUnresolved
<1>6. ChainTrue'
  BY <1>1, ChainStays DEF ToolInv
<1>7. \A x : (Owned(x)' <=> Owned(x)) /\ (Marked(x)' <=> Marked(x)) /\ (Exists(x)' <=> Exists(x))
  BY <1>1, CatalogStays DEF catalog, others
<1>8. \A e \in created' : e \in created \/ (Owned(e) /\ Marked(e))
  BY <1>1 DEF ReconciliationHeld
<1>9. OwnersKnown'
  <2>1. \A q : Adopted(q)' = Adopted(q)
    BY <1>1 DEF Adopted
  <2> QED
    BY <1>1, <1>7, <1>8, <2>1 DEF OwnersKnown, CreationReceiptsTrue, catalog
<1>10. JournalTrue'
  BY <1>1, <1>5, <1>7, <1>8 DEF JournalTrue, catalog, others
<1>13. LateHeld'
  BY <1>1, <1>4, LateStays DEF ToolInv, catalog, others
<1>11. InSection(p)' /\ PlanFits(p)' /\ lock' # p
  BY <1>2, ReleasedKeeps
<1>12. lock' = NoProc /\ \A q \in Procs \ {p} : proc'[q] = proc[q]
  BY <1>2 DEF Released
<1> QED
  BY <1>1, <1>4, <1>5, <1>6, <1>9, <1>10, <1>11, <1>12, <1>13, StepKeeps

-----------------------------------------------------------------------------
(* Deaths, what outlives them, and other people.                           *)

\* Nothing that a process knows has changed, but the process that ends.
LEMMA BystanderStays ==
  ASSUME ToolInv, NEW q \in Procs, proc'[q] = proc[q],
         UNCHANGED <<journal, catalog, effects, touched, edits>>,
         lock' = lock \/ (lock # q /\ lock' # q)
  PROVE  InSection(q)' /\ PlanFits(q)' /\ (lock' = q => Knows(q)')
<1>1. InSection(q) /\ PlanFits(q) /\ (lock = q => Knows(q)) /\ (lock' = q <=> lock = q)
  BY DEF ToolInv
<1>2. counts' = counts /\ created' = created /\ receipts' = receipts /\ live' = live /\ usage' = usage
      /\ touched' = touched /\ edits' = edits /\ maker' = maker /\ stray' = stray /\ ChainReceiptsStay
  BY DEF journal, catalog, ChainReceiptsStay
<1>3. \A e : (Owned(e)' <=> Owned(e)) /\ (Marked(e)' <=> Marked(e)) /\ (Exists(e)' <=> Exists(e)) /\ (Exact(e)' <=> Exact(e))
  BY <1>2, CatalogStays
<1>4. InSection(q)'
  BY <1>1 DEF InSection
<1>5. PlanFits(q)'
  <2>1. QueryPlan' = QueryPlan
    BY <1>2 DEF QueryPlan, QueryPlanFor, Usage, Op
  <2>2. ResetsCreated(proc[q].plan)' <=> ResetsCreated(proc[q].plan)
    BY <1>2 DEF ResetsCreated
  <2> QED
    BY <1>1, <1>2, <2>1, <2>2 DEF PlanFits
<1>6. ASSUME lock = q PROVE Knows(q)'
  <2>1. Knows(q) /\ Unresolved' = Unresolved
    BY <1>1, <1>2, <1>6 DEF Unresolved
  <2>2. PICK o, t, e : o = Current(q) /\ t = Target(q) /\ e = Entity(q)
    OBVIOUS
  <2>3. Current(q)' = o /\ Target(q)' = t /\ Entity(q)' = e
    BY <2>2 DEF Current, Target, Entity
  <2>4. ChainHeld(q) => ChainHeld(q)'
    BY <1>2, <2>1, <2>2, <2>3 DEF ChainHeld, Done
  <2>5. proc[q].cmd \in Plans /\ UpsertHeld(q) => UpsertHeld(q)'
    <3>1. \A j : StillPlanned(q, j)' <=> StillPlanned(q, j)
      BY DEF StillPlanned
    <3> QED
      BY <1>2, <1>6, <2>1, <3>1, HeldFrame DEF UpsertHeld
  <2>6. EntityHeld(q) => EntityHeld(q)'
    <3>1. HoldsOf(o)' <=> HoldsOf(o)
      BY <1>2 DEF HoldsOf
    <3> QED
      BY <1>2, <1>3, <2>2, <2>3, <3>1 DEF EntityHeld, LineageMergeable
  <2>7. ResetHeld(q) => ResetHeld(q)'
    BY <1>2, <1>3, <2>1, <2>2, <2>3 DEF ResetHeld
  <2>8. ReconciliationHeld(q) => ReconciliationHeld(q)'
    BY <1>2, <1>3, <2>1 DEF ReconciliationHeld
  <2> QED
    BY <2>1, <2>4, <2>5, <2>6, <2>7, <2>8 DEF Knows
<1> QED
  BY <1>1, <1>4, <1>5, <1>6

\* What a process waits for may come after it has died.
LEMMA WaitedForMayArrive ==
  ASSUME ToolInv, NEW p \in Procs, Waiting(p)
  PROVE  Current(p) \in ChainOps \cup EffectOps /\ MayArrive(Current(p)) /\ receipts[Current(p)] # "NONE"
<1>1. PICK o : o = Current(p)
  OBVIOUS
<1>2. CASE ToEmit(p)
  BY <1>1, <1>2, Emitting
<1>3. CASE Is(p, "delete")
  <2>1. lock = p /\ proc[p].pc = "delete" /\ proc[p].cmd = "reset"
    BY <1>3, StepNamesCommand DEF Is
  <2> QED
    BY <1>1, <2>1, Deleting
<1>4. CASE Is(p, "run")
  <2>1. lock = p /\ proc[p].pc = "run" /\ proc[p].cmd \in ChainCommands
    <3>1. proc[p].pc \in Sections(proc[p].cmd)
      BY <1>4 DEF ToolInv, InSection, Is
    <3> QED
      BY <1>4, <3>1 DEF Sections, Is, Plans
  <2>2. o \in ChainOps /\ receipts[o] = "PLANNED"
    BY <1>1, <2>1, ChainCurrentOp DEF ChainHeld
  <2>3. o \notin EffectOps /\ ~IsUsage(o)
    BY <2>2, KindsDiffer DEF IsUsage
  <2> QED
    BY <1>1, <2>2, <2>3 DEF MayArrive, EffectOps, QueryOps
<1> QED
  BY <1>1, <1>2, <1>3, <1>4 DEF Waiting, MayArrive

\* A process may die at any of its steps: what it knew is no longer needed.
LEMMA EndKeeps ==
  ASSUME ToolInv, NEW p \in Procs, End(p)
  PROVE  ToolInv'
<1>1. /\ TypeOK /\ proc' = [proc EXCEPT ![p] = Idle]
      /\ IF lock = p THEN lock' = NoProc /\ Failing ELSE UNCHANGED <<lock, failures>>
      /\ UNCHANGED late \/ (Waiting(p) /\ Sent(Current(p)))
      /\ UNCHANGED <<journal, catalog, effects, touched, edits, runs>>
  BY DEF ToolInv, End
<1>2. proc' \in [Procs -> Process] /\ proc'[p] = Idle /\ \A q \in Procs \ {p} : proc'[q] = proc[q]
  BY <1>1, IdleKnown, ProcessSet
<1>3. /\ ChainTrue' /\ OwnersKnown' /\ JournalTrue' /\ OneKindUnresolved' /\ JournalGrows
      /\ \A o \in late : MayArrive(o)'
  BY <1>1, WorldKeeps
<1>8. LateHeld' /\ late' \subseteq ChainOps \cup EffectOps
  <2>1. CASE late' = late
    BY <1>1, <1>3, <2>1 DEF LateHeld, TypeOK
  <2>2. CASE Waiting(p) /\ Sent(Current(p))
    <3>1. PICK o \in ChainOps \cup EffectOps : o = Current(p) /\ MayArrive(o) /\ receipts[o] # "NONE"
      BY <2>2, WaitedForMayArrive
    <3>2. MayArrive(o)'
      BY <1>1, <1>3, <3>1, ArrivalStays DEF journal, catalog
    <3>3. late' \subseteq late \cup {o}
      BY <2>2, <3>1 DEF Sent
    <3> QED
      BY <1>1, <1>3, <3>1, <3>2, <3>3 DEF LateHeld, TypeOK
  <2> QED
    BY <1>1, <2>1, <2>2
<1>4. TypeOK'
  <2>1. failures' \in Nat /\ edits + failures' <= MaxDisturbances
    BY <1>1, ScenarioAssumption DEF TypeOK, Failing, Undisturbed
  <2>2. lock' \in Procs \cup {NoProc}
    BY <1>1 DEF TypeOK
  <2> QED
    BY <1>1, <1>2, <1>8, <2>1, <2>2 DEF TypeOK, journal, catalog
<1>5. lock' # p
  BY <1>1, ScenarioAssumption
<1>6. InSection(p)' /\ PlanFits(p)'
  BY <1>2, <1>5, IdleKnown, CommandsKnown DEF InSection, PlanFits
<1>7. ASSUME NEW q \in Procs, q # p
      PROVE  InSection(q)' /\ PlanFits(q)' /\ (lock' = q => Knows(q)')
  <2>1. lock' = lock \/ (lock # q /\ lock' # q)
    BY <1>1, <1>7, ScenarioAssumption
  <2> QED
    BY <1>1, <1>2, <1>7, <2>1, BystanderStays
<1> QED
  BY <1>3, <1>4, <1>5, <1>6, <1>7, <1>8 DEF ToolInv

\* What the holder of the lock knows is not undone by what comes late.
LEMMA KnowsOutlivesLateEffect ==
  ASSUME ToolInv, NEW o \in late, CarriedOut(o), NEW p \in Procs, lock = p,
         UNCHANGED <<receipts, order, created, succeeded, counts, lock, proc, touched, edits>>,
         stray' = IF receipts[o] \in Pending THEN stray ELSE stray \cup {o}
  PROVE  Knows(p)'
<1>1. /\ TypeOK /\ OwnersKnown /\ ChainTrue /\ InSection(p) /\ PlanFits(p) /\ Knows(p)
      /\ o \in ChainOps \cup EffectOps /\ MayArrive(o)
  BY DEF ToolInv, LateHeld, TypeOK
<1>2. /\ CatalogMoves(o)
      /\ o \in ChainOps => effects' = [q \in ChainOps |-> IF q = o THEN Placed(effects) \cup {o} ELSE effects[q] \ {o}]
      /\ o \notin ChainOps => effects' = effects
  BY <1>1, CarriedOutMoves
<1>3. Unresolved' = Unresolved /\ ChainReceiptsStay
  BY DEF Unresolved, ChainReceiptsStay
<1>4. PICK c, t, e : c = Current(p) /\ t = Target(p) /\ e = Entity(p)
  OBVIOUS
<1>5. Current(p)' = c /\ Target(p)' = t /\ Entity(p)' = e
  BY <1>4 DEF Current, Target, Entity
<1>6. ASSUME proc[p].cmd \in ChainCommands PROVE ChainHeld(p)'
  <2>1. ChainHeld(p) /\ c \in ChainOps
    BY <1>4, <1>6, ChainCurrentOp
  <2>2. ASSUME proc[p].pc = "record"
        PROVE  c \in effects'[c] /\ \A q \in ChainOps : Done(q)' => q \in effects'[c] \cup stray'
    <3>1. c \in effects[c] /\ \A q \in ChainOps : Done(q) => q \in effects[c] \cup stray /\ q \in effects[q]
      BY <1>1, <1>4, <2>1, <2>2 DEF ChainHeld, ChainTrue
    <3>2. \A q \in ChainOps : Done(q)' <=> Done(q)
      BY DEF Done
    <3>3. stray \subseteq stray' /\ (Done(o) => o \in stray')
      BY DEF Done, Pending
    <3>4. CASE o \notin ChainOps
      BY <1>2, <3>1, <3>2, <3>3, <3>4
    <3>5. CASE o \in ChainOps /\ o = c
      BY <1>2, <3>1, <3>2, <3>5 DEF Placed
    <3>6. CASE o \in ChainOps /\ o # c
      BY <1>2, <2>1, <3>1, <3>2, <3>3, <3>6
    <3> QED
      BY <3>4, <3>5, <3>6
  <2> QED
    BY <1>3, <1>4, <1>5, <2>1, <2>2 DEF ChainHeld
<1>7. ASSUME proc[p].cmd \in Plans PROVE UpsertHeld(p)' /\ EntityHeld(p)'
  <2>1. UpsertHeld(p) /\ EntityHeld(p) /\ proc[p].i \in 1 .. Len(proc[p].plan)
    BY <1>7, UpsertHolder
  <2>2. UpsertHeld(p)'
    <3>1. \A j : StillPlanned(p, j)' <=> StillPlanned(p, j)
      BY DEF StillPlanned
    <3> QED
      BY <1>3, <1>7, <2>1, <3>1, HeldFrame DEF UpsertHeld
  <2>3. EntityHeld(p)'
    BY <1>1, <1>2, <1>4, <1>5, <1>7, <2>1, EntityMoves DEF EntityHeld, LineageMergeable, Theirs
  <2> QED
    BY <2>2, <2>3
<1>8. ASSUME proc[p].cmd = "reset" PROVE ResetHeld(p)'
  <2>1. ResetHeld(p) /\ t \in Entities
    BY <1>4, <1>8, ResetHolder
  <2>2. Marked(t) => Marked(t)'
    BY <1>2, <2>1 DEF CatalogMoves
  <2> QED
    BY <1>3, <1>4, <1>5, <2>1, <2>2 DEF ResetHeld
<1>9. ReconciliationHeld(p) => ReconciliationHeld(p)'
  <2>1. proc[p].adopt \subseteq Entities
    BY <1>1 DEF TypeOK, Process
  <2> QED
    BY <1>2, <1>3, <2>1 DEF ReconciliationHeld, CatalogMoves
<1> QED
  BY <1>1, <1>6, <1>7, <1>8, <1>9 DEF Knows

\* Requests and children outlive their commands: they are carried out whoever has
\* the lock, and whatever the journal says of them by then.
LEMMA LateEffectKeeps ==
  ASSUME ToolInv, LateEffect
  PROVE  ToolInv'
<1>1. PICK o \in late :
        /\ CarriedOut(o) /\ late' \in {late, late \ {o}}
        /\ stray' = IF receipts[o] \in Pending THEN stray ELSE stray \cup {o}
        /\ UNCHANGED <<receipts, order, created, succeeded, counts, lock, proc, touched, edits, counters>>
  BY DEF LateEffect
<1>2. TypeOK /\ OwnersKnown /\ o \in ChainOps \cup EffectOps /\ MayArrive(o)
  BY DEF ToolInv, LateHeld, TypeOK
<1>3. /\ ChainTrue' /\ OwnersKnown' /\ JournalTrue' /\ OneKindUnresolved' /\ JournalGrows /\ LateHeld'
  BY <1>1, <1>2, CarriedOutKeeps
<1>4. TypeOK'
  <2>1. CatalogMoves(o)
    BY <1>1, <1>2, CarriedOutMoves
  <2> QED
    BY <1>1, <1>2, <2>1 DEF TypeOK, CatalogMoves, counters
<1>5. ASSUME NEW q \in Procs
      PROVE  InSection(q)' /\ PlanFits(q)' /\ (lock' = q => Knows(q)')
  <2>1. InSection(q) /\ PlanFits(q)
    BY DEF ToolInv
  <2>2. InSection(q)'
    BY <1>1, <2>1 DEF InSection
  <2>3. PlanFits(q)'
    <3>1. QueryPlan' = QueryPlan
      BY <1>1 DEF QueryPlan, QueryPlanFor, Usage, Op
    <3>2. ResetsCreated(proc[q].plan)' <=> ResetsCreated(proc[q].plan)
      BY <1>1 DEF ResetsCreated
    <3> QED
      BY <1>1, <2>1, <3>1, <3>2 DEF PlanFits
  <2>4. lock = q => Knows(q)'
    BY <1>1, KnowsOutlivesLateEffect
  <2> QED
    BY <1>1, <2>2, <2>3, <2>4
<1> QED
  BY <1>3, <1>4, <1>5 DEF ToolInv

\* What an edit does to the catalog.
LEMMA EditWrites ==
  ASSUME ToolInv, EditElsewhere
  PROVE  /\ live' \in [AllAspects -> Values] /\ touched' \subseteq AllAspects /\ touched \subseteq touched'
         /\ maker' \in [Entities -> {"nobody", "tool", "others"}]
         /\ \A a \in AllAspects : live'[a] # live[a] =>
              /\ live'[a] \notin {"absent", "ours"} /\ (lock # NoProc \/ late # {} => a \in touched')
              /\ \A e \in Entities : /\ a = Status(e) => live'[a] = "removed"
                                     /\ a = Marker(e) => live'[a] # "removed"
         /\ \A e \in Entities : /\ Exists(e) => Exists(e)'
                                /\ Marked(e)' => Marked(e)
                                /\ maker[e] = "tool" => maker'[e] = "tool"
                                /\ maker'[e] = "tool" => Exists(e)'
                                /\ Owned(e) => Owned(e)'
<1>1. TypeOK /\ OwnersKnown
  BY DEF ToolInv
<1>a. PICK a \in AllAspects : \E v \in EditedValues(a) :
        /\ live' = [live EXCEPT ![a] = v]
        /\ touched' = IF lock = NoProc /\ late = {} THEN touched ELSE touched \cup {a}
        /\ maker' = [e \in Entities |-> IF a \in Aspects(e) /\ ~Exists(e) THEN "others" ELSE maker[e]]
  BY DEF EditElsewhere
<1>2. PICK v \in EditedValues(a) :
        /\ live' = [live EXCEPT ![a] = v]
        /\ touched' = IF lock = NoProc /\ late = {} THEN touched ELSE touched \cup {a}
        /\ maker' = [e \in Entities |-> IF a \in Aspects(e) /\ ~Exists(e) THEN "others" ELSE maker[e]]
  BY <1>a
<1>3. /\ v \in {"missing", "other", "foreign", "removed"} /\ v \in Values
      /\ \A e \in Entities : (a = Status(e) => v = "removed") /\ (a = Marker(e) => v # "removed")
  BY AspectsKnown DEF EditedValues, Values
<1>4. live' \in [AllAspects -> Values] /\ live'[a] = v /\ \A b \in AllAspects \ {a} : live'[b] = live[b]
  BY <1>1, <1>2, <1>3 DEF TypeOK
<1>5. touched' \subseteq AllAspects /\ touched \subseteq touched' /\ (lock # NoProc \/ late # {} => a \in touched')
  BY <1>1, <1>2 DEF TypeOK
<1>6. ASSUME NEW e \in Entities
      PROVE  /\ Exists(e) => Exists(e)'
             /\ Marked(e)' => Marked(e)
             /\ maker[e] = "tool" => maker'[e] = "tool"
             /\ maker'[e] = "tool" => Exists(e)'
             /\ Owned(e) => Owned(e)'
  <2>1. Aspects(e) \subseteq AllAspects /\ Marker(e) \in AllAspects
    BY AspectsKnown
  <2>2. (Exists(e) => Exists(e)') /\ (Marked(e)' => Marked(e))
    BY <1>3, <1>4, <2>1 DEF Exists, Marked
  <2>3. (maker[e] = "tool" => Exists(e)) /\ maker'[e] \in {"others", maker[e]}
        /\ (Exists(e) => maker'[e] = maker[e])
    BY <1>1, <1>2 DEF OwnersKnown, CreationReceiptsTrue
  <2>4. Owned(e) => Owned(e)'
    BY <1>5, <2>3 DEF Owned
  <2> QED
    BY <2>2, <2>3, <2>4
<1>7. maker' \in [Entities -> {"nobody", "tool", "others"}]
  BY <1>1, <1>2 DEF TypeOK
<1> QED
  BY <1>3, <1>4, <1>5, <1>6, <1>7

\* An edit by somebody else at any moment, under a command or not.
LEMMA EditElsewhereKeeps ==
  ASSUME ToolInv, EditElsewhere
  PROVE  ToolInv'
<1>1. TypeOK /\ ChainTrue /\ OwnersKnown /\ OneKindUnresolved
  BY DEF ToolInv
<1>2. /\ live' \in [AllAspects -> Values] /\ touched' \subseteq AllAspects /\ touched \subseteq touched'
      /\ maker' \in [Entities -> {"nobody", "tool", "others"}]
      /\ \A a \in AllAspects : live'[a] # live[a] =>
           /\ live'[a] \notin {"absent", "ours"} /\ (lock # NoProc \/ late # {} => a \in touched')
           /\ \A e \in Entities : /\ a = Status(e) => live'[a] = "removed"
                                  /\ a = Marker(e) => live'[a] # "removed"
      /\ \A e \in Entities : /\ Exists(e) => Exists(e)'
                             /\ Marked(e)' => Marked(e)
                             /\ maker[e] = "tool" => maker'[e] = "tool"
                             /\ maker'[e] = "tool" => Exists(e)'
                             /\ Owned(e) => Owned(e)'
  BY EditWrites
<1>3. edits' = edits + 1 /\ edits < MaxEdits /\ edits + failures < MaxDisturbances
      /\ UNCHANGED <<journal, usage, lock, proc, effects, late, counters>>
  BY DEF EditElsewhere, Undisturbed
<1>4. edits' \in 0 .. MaxEdits /\ edits' # 0 /\ edits' + failures <= MaxDisturbances
  BY <1>1, <1>3, ScenarioAssumption DEF TypeOK
<1>5. TypeOK'
  BY <1>1, <1>2, <1>3, <1>4 DEF TypeOK, journal, counters
<1>6. Unresolved' = Unresolved /\ receipts' = receipts /\ created' = created /\ counts' = counts /\ created \subseteq Entities
      /\ stray' = stray /\ ChainReceiptsStay
  BY <1>1, <1>3 DEF journal, Unresolved, TypeOK, ChainReceiptsStay
<1>7. OneKindUnresolved' /\ ChainTrue'
  BY <1>1, <1>3, <1>6, ChainStays DEF OneKindUnresolved, journal
<1>8. OwnersKnown'
  <2>1. \A q : Adopted(q)' = Adopted(q) /\ Adopted(q) \subseteq Entities
    BY <1>6 DEF Adopted, Entities
  <2>2. \A e \in Entities : live'[Status(e)] # "other" /\ live'[Marker(e)] # "removed"
    BY <1>1, <1>2, AspectsKnown DEF OwnersKnown, CreationReceiptsTrue
  <2> QED
    BY <1>1, <1>2, <1>6, <2>1, <2>2 DEF OwnersKnown, CreationReceiptsTrue
<1>9. JournalTrue'
  BY <1>4 DEF JournalTrue
<1>10. ASSUME NEW p \in Procs
       PROVE  InSection(p)' /\ PlanFits(p)' /\ (lock' = p => Knows(p)')
  <2>1. InSection(p) /\ PlanFits(p) /\ (lock = p => Knows(p))
    BY DEF ToolInv
  <2>2. InSection(p)'
    BY <1>3, <2>1 DEF InSection
  <2>3. PlanFits(p)'
    <3>1. QueryPlan' = QueryPlan
      BY <1>6 DEF QueryPlan, QueryPlanFor, Usage, Op
    <3>2. ResetsCreated(proc[p].plan)' <=> ResetsCreated(proc[p].plan)
      BY <1>3, <1>6 DEF ResetsCreated
    <3> QED
      BY <1>3, <1>6, <2>1, <3>1, <3>2 DEF PlanFits
  <2>4. ASSUME lock = p PROVE Knows(p)'
    <3>1. Knows(p) /\ lock # NoProc
      BY <2>1, <2>4, ScenarioAssumption
    <3>2. PICK o, t, e : o = Current(p) /\ t = Target(p) /\ e = Entity(p)
      OBVIOUS
    <3>3. Current(p)' = o /\ Target(p)' = t /\ Entity(p)' = e
      BY <1>3, <3>2 DEF Current, Target, Entity
    <3>4. ChainHeld(p) => ChainHeld(p)'
      BY <1>3, <1>6, <3>2, <3>3 DEF ChainHeld, Done
    <3>5. proc[p].cmd \in Plans /\ UpsertHeld(p) => UpsertHeld(p)'
      <4>1. \A j : StillPlanned(p, j)' <=> StillPlanned(p, j)
        BY <1>3 DEF StillPlanned
      <4> QED
        BY <1>3, <1>6, <2>4, <4>1, HeldFrame DEF UpsertHeld
    <3>6. EntityHeld(p) => EntityHeld(p)'
      <4> SUFFICES ASSUME EntityHeld(p) PROVE EntityHeld(p)'
        OBVIOUS
      <4>1. /\ e \in Entities /\ Aspects(e) \subseteq AllAspects /\ AllOf(proc[p].cmd) \subseteq AllAspects
            /\ "lineage" \in AllAspects
        BY <3>2, AspectsKnown DEF Entity, AllOf, Overlays
      <4>2. proc[p].cmd = "seed" /\ live'["lineage"] = "foreign" => "lineage" \in touched'
        BY <1>2, <3>1, <4>1 DEF EntityHeld, LineageMergeable
      <4> SUFFICES ASSUME proc[p].pc \in {"emit", "record", "create"}
                   PROVE  /\ \A a \in AllOf(proc[p].cmd) : live'[a] = Theirs(a) => a \in touched'
                          /\ Owned(e)' \/ (proc[p].fresh /\ ~Exists(e)') \/ (~proc[p].fresh /\ Exact(e)')
                          /\ proc[p].pc # "emit" /\ o[2] \in Aspects(e) => Exists(e)'
                          /\ proc[p].pc = "create" => o[2] \in Aspects(e) /\ proc[p].fresh
        BY <1>3, <1>4, <3>3, <4>2 DEF EntityHeld, LineageMergeable, Theirs
      <4>3. /\ Owned(e) \/ (proc[p].fresh /\ ~Exists(e)) \/ (~proc[p].fresh /\ Exact(e))
            /\ \A a \in AllOf(proc[p].cmd) : live[a] = Theirs(a) => a \in touched
            /\ proc[p].pc # "emit" /\ o[2] \in Aspects(e) => Exists(e)
            /\ proc[p].pc = "create" => o[2] \in Aspects(e) /\ proc[p].fresh
        BY <3>2 DEF EntityHeld
      <4>4. Owned(e)' \/ (proc[p].fresh /\ ~Exists(e)') \/ (~proc[p].fresh /\ Exact(e)')
        <5>1. CASE \E a \in Aspects(e) : live'[a] # live[a]
          BY <1>2, <3>1, <4>1, <5>1 DEF Owned
        <5>2. CASE \A a \in Aspects(e) : live'[a] = live[a]
          <6>1. (Exists(e)' <=> Exists(e)) /\ (Exact(e)' <=> Exact(e))
            BY <5>2 DEF Exists, Exact
          <6> QED
            BY <1>2, <4>1, <4>3, <6>1
        <5> QED
          BY <5>1, <5>2
      <4> QED
        BY <1>2, <3>1, <4>1, <4>3, <4>4
    <3>7. proc[p].cmd = "reset" /\ ResetHeld(p) => ResetHeld(p)'
      <4> SUFFICES ASSUME proc[p].cmd = "reset", ResetHeld(p) PROVE ResetHeld(p)'
        OBVIOUS
      <4>1. t \in Entities
        BY <2>4, <3>2, ResetHolder
      <4>2. Marker(t) \in AllAspects
        BY <4>1, AspectsKnown
      <4>3. Marked(t) => Marked(t)' \/ Marker(t) \in touched'
        BY <1>2, <3>1, <4>2 DEF Marked
      <4> QED
        BY <1>2, <1>3, <1>4, <1>6, <3>2, <3>3, <4>3 DEF ResetHeld
    <3>8. ReconciliationHeld(p) => ReconciliationHeld(p)'
      <4>1. proc[p].adopt \subseteq Entities
        BY <1>1 DEF TypeOK, Process
      <4> QED
        BY <1>2, <1>3, <1>6, <4>1 DEF ReconciliationHeld
    <3> QED
      BY <1>3, <3>1, <3>4, <3>5, <3>6, <3>7, <3>8 DEF Knows
  <2> QED
    BY <1>3, <2>2, <2>3, <2>4
<1>11. ASSUME NEW o \in late PROVE MayArrive(o)'
  <2>1. MayArrive(o) /\ late # {}
    BY DEF ToolInv, LateHeld
  <2>2. ASSUME NEW a \in AllAspects, live'[a] # live[a] PROVE a \in touched'
    BY <1>2, <2>1, <2>2
  <2>3. ASSUME o \in SeedOps \cup StableQueryOps
        PROVE  /\ live'[o[2]] = Theirs(o[2]) => o[2] \in touched'
               /\ o[2] \in Aspects(Writes(o)) => Owned(Writes(o))' \/ ~Exists(Writes(o))'
    <3>1. PICK e \in Entities : e = Writes(o)
      BY DEF Writes, Entities
    <3>2. o[2] \in AllAspects /\ Aspects(e) \subseteq AllAspects
      BY <2>3, AspectsKnown
    <3>3. Owned(e) \/ ~Exists(e) => Owned(e)' \/ ~Exists(e)'
      <4>1. CASE \E a \in Aspects(e) : live'[a] # live[a]
        BY <2>2, <3>2, <4>1 DEF Owned
      <4>2. CASE \A a \in Aspects(e) : live'[a] = live[a]
        <5>1. Exists(e)' <=> Exists(e)
          BY <4>2 DEF Exists
        <5> QED
          BY <1>2, <5>1
      <4> QED
        BY <4>1, <4>2
    <3>4. Writes(o)' = e
      BY <3>1 DEF Writes
    <3> QED
      BY <1>2, <2>1, <2>2, <2>3, <3>1, <3>2, <3>3, <3>4 DEF MayArrive
  <2>4. ASSUME o \in ResetOps
        PROVE  o[2] \in created' /\ (Marked(o[2])' \/ Marker(o[2]) \in touched')
    <3>1. o[2] \in Entities /\ Marker(o[2]) \in AllAspects /\ o[2] \in created
          /\ (Marked(o[2]) \/ Marker(o[2]) \in touched)
      BY <2>1, <2>4, KindsDiffer, AspectsKnown DEF MayArrive
    <3> QED
      BY <1>2, <1>6, <2>2, <3>1 DEF Marked
  <2> QED
    BY <1>6, <2>1, <2>3, <2>4 DEF MayArrive, Theirs
<1>12. LateHeld'
  BY <1>3, <1>11 DEF LateHeld
<1> QED
  BY <1>5, <1>7, <1>8, <1>9, <1>10, <1>12 DEF ToolInv

-----------------------------------------------------------------------------
(* The invariant.                                                          *)

\* Before any command has run there is nothing to be wrong about.
LEMMA InitHolds ==
  ASSUME Init
  PROVE  ToolInv
<1>1. TypeOK
  <2>1. Idle \in Process /\ 0 \in Nat
    BY IdleKnown DEF Idle
  <2>2. counts \in Seq({1, 2}) /\ Len(counts) = 0
    BY DEF Init
  <2>3. live \in [AllAspects -> Values]
    BY DEF Init, Values
  <2>4. receipts \in [ChainOps \cup EffectOps -> Marks]
    BY DEF Init, Marks
  <2> QED
    BY <2>1, <2>2, <2>3, <2>4, ScenarioAssumption DEF Init, TypeOK
<1>2. Unresolved = {}
  BY DEF Init, Unresolved, Pending
<1>3. \A p \in Procs : InSection(p) /\ PlanFits(p) /\ lock # p
  BY IdleKnown, CommandsKnown, ScenarioAssumption DEF Init, InSection, PlanFits, Idle
<1>4. ChainTrue
  BY DEF Init, ChainTrue, Done, Before, ChainOps
<1>5. \A e \in Entities : ~Exists(e) /\ ~Marked(e) /\ live[Status(e)] = "absent"
                        /\ live[Marker(e)] = "absent"
  BY AspectsKnown DEF Init, Exists, Marked
<1>6. OwnersKnown
  <2>1. \A o \in EffectOps : Adopted(o) = {}
    BY DEF Init, Adopted
  <2>2. \A e \in Entities : receipts[Reset(e)] = "NONE"
    BY DEF Init, EffectOps, ResetOps
  <2> QED
    BY <1>5, <2>1, <2>2 DEF Init, OwnersKnown, CreationReceiptsTrue
<1>7. JournalTrue
  <2>1. \A o \in EffectOps : receipts[o] = "NONE"
    BY DEF Init
  <2>2. SeedOps \cup StableQueryOps \subseteq EffectOps
    BY DEF EffectOps, QueryOps
  <2>3. \A n \in 1 .. MaxObservations : Usage(n) \in EffectOps
    BY DEF EffectOps, QueryOps
  <2>4. \A a \in AllAspects : live[a] \in {"absent", "missing"}
    BY DEF Init
  <2> QED
    BY <1>5, <2>1, <2>2, <2>3, <2>4 DEF Init, JournalTrue
<1> QED
  BY <1>1, <1>2, <1>3, <1>4, <1>6, <1>7 DEF Init, ToolInv, OneKindUnresolved, LateHeld

\* A step that changes nothing breaks nothing.
LEMMA StutterKeeps ==
  ASSUME ToolInv, UNCHANGED vars
  PROVE  ToolInv'
<1>1. /\ UNCHANGED <<journal, catalog, effects, others>> /\ UNCHANGED <<lock, proc, runs, failures>>
      /\ TypeOK
  BY DEF ToolInv, vars, counters
<1>2. TypeOK'
  BY <1>1 DEF TypeOK, journal, catalog, others
<1>3. \A q \in Procs : InSection(q)' /\ PlanFits(q)' /\ (lock' = q => Knows(q)')
  BY <1>1, BystanderStays DEF others
<1> QED
  BY <1>1, <1>2, <1>3, WorldKeeps DEF ToolInv, others

\* The invariant is inductive.
LEMMA StepHolds ==
  ASSUME ToolInv, [Next]_vars
  PROVE  ToolInv'
<1>1. ASSUME NEW p \in Procs, ChainStep(p) PROVE ToolInv'
  BY <1>1, EnterChainKeeps, PlanChainOpKeeps, RunChainOpKeeps, RecordChainOpKeeps DEF ChainStep
<1>2. ASSUME NEW p \in Procs, UpsertStep(p) PROVE ToolInv'
  BY <1>2, EnterUpsertKeeps, PlanUpsertKeeps, PreflightKeeps, SkipExactKeeps, RefuseObservationKeeps,
     EmitKeeps, EmitFailsKeeps, RecordEmitKeeps, RecordCreationKeeps DEF UpsertStep
<1>3. ASSUME NEW p \in Procs, ResetStep(p) PROVE ToolInv'
  BY <1>3, PlanResetKeeps, EnterResetKeeps, PlanDeleteKeeps, CheckTargetKeeps, DeleteKeeps,
     DeleteFailsKeeps, RecordDeleteKeeps DEF ResetStep
<1>4. ASSUME NEW p \in Procs, ReconcileStep(p) PROVE ToolInv'
  BY <1>4, PlanReconciliationKeeps, EnterReconciliationKeeps, SettleKeeps, EndReconciliationKeeps
     DEF ReconcileStep
<1> QED
  BY <1>1, <1>2, <1>3, <1>4, EndKeeps, LateEffectKeeps, EditElsewhereKeeps, StutterKeeps DEF Next, ToolStep

\* In every reachable state the journal, the catalog, the commands and the requests
\* under way fit together: whatever the order of commands, deaths, failed and late
\* requests, edits and reconciliations (receipts.py, seed.py, live_query.py,
\* reset.py).
THEOREM ToolInvariant == Spec => []ToolInv
<1>1. Init => ToolInv
  BY InitHolds
<1>2. ToolInv /\ [Next]_vars => ToolInv'
  BY StepHolds
<1> QED
  BY <1>1, <1>2, PTL DEF Spec

\* A reset deletes by creation receipts: each names an entity that the tool
\* made, unless somebody edited that entity while a command held the lock or a
\* request was on its way (seed.py, live_query.py: ENTITY_CREATED; reset.py:
\* build_reset_plan).
THEOREM CreationReceiptsAreTrue == Spec => []CreationReceiptsTrue
<1>1. ToolInv => CreationReceiptsTrue
  BY DEF ToolInv, OwnersKnown
<1> QED
  BY <1>1, ToolInvariant, PTL

\* With nobody else editing, a journal with nothing unresolved says of every
\* aspect, observation and deletion what the catalog says, however many commands
\* died or failed on the way, but for an operation that was carried out after its
\* latest receipt had settled it (reconciliation of seed.py, live_query.py,
\* reset.py).
THEOREM SettledJournalTellsTheTruth == Spec => []SettledJournalIsTrue
<1>1. ASSUME ToolInv PROVE SettledJournalIsTrue
  <2> SUFFICES ASSUME Settled PROVE SettledJournalIsTrue
    BY DEF SettledJournalIsTrue
  <2>1. TypeOK /\ JournalTrue /\ Unresolved = {} /\ edits = 0
    BY <1>1 DEF ToolInv, Settled
  <2>2. \A n \in 1 .. Len(counts) : n \in 1 .. MaxObservations
    BY <2>1, ScenarioAssumption DEF TypeOK
  <2>3. \A e \in Entities : Reset(e) \notin stray =>
          (live[Status(e)] = "removed" => receipts[Reset(e)] = "APPLIED")
    BY <2>1 DEF JournalTrue
  <2>4. \A e \in Entities : Reset(e) \notin stray =>
          (receipts[Reset(e)] = "NOT_APPLIED" => live[Status(e)] # "removed")
    BY <2>3
  <2> QED
    BY <2>1, <2>2, <2>3, <2>4 DEF SettledJournalIsTrue, JournalTrue
<1> QED
  BY <1>1, ToolInvariant, PTL

\* With nobody else editing, no reconciliation ever has to record a conflict:
\* what an interrupted command left is always found applied or safely absent.
THEOREM NoConflictIsFoundWithoutEdits == Spec => []NoConflictWithoutEdits
<1>1. ToolInv => NoConflictWithoutEdits
  BY DEF ToolInv, JournalTrue, NoConflictWithoutEdits
<1> QED
  BY <1>1, ToolInvariant, PTL

-----------------------------------------------------------------------------
(* What a step may never do to the catalog.                                *)

\* Who writes the catalog: a command, what outlives one, or somebody else.
LEMMA Writers ==
  ASSUME Next, live' # live \/ usage' # usage, edits' = edits, TypeOK
  PROVE  (\E p \in Procs : RunChainOp(p) \/ Emit(p) \/ Delete(p)) \/ LateEffect
<1>1. ~EditElsewhere
  BY DEF EditElsewhere, TypeOK
<1>2. SUFFICES ASSUME NEW p \in Procs, ChainStep(p) \/ UpsertStep(p) \/ ResetStep(p) \/ ReconcileStep(p) \/ End(p)
               PROVE  RunChainOp(p) \/ Emit(p) \/ Delete(p)
  BY <1>1 DEF Next, ToolStep
<1>3. ~End(p)
  BY DEF End, catalog
<1>4. CASE ChainStep(p)
  BY <1>4 DEF ChainStep, EnterChain, PlanChainOp, RecordChainOp, catalog
<1>5. CASE UpsertStep(p)
  BY <1>5 DEF UpsertStep, EnterUpsert, PlanUpsert, Preflight, SkipExact, RefuseObservation, EmitFails,
              RecordEmit, RecordCreation, Refuse, catalog
<1>6. CASE ResetStep(p)
  BY <1>6 DEF ResetStep, PlanReset, EnterReset, PlanDelete, CheckTarget, DeleteFails, RecordDelete, Refuse, catalog
<1>7. CASE ReconcileStep(p)
  BY <1>7 DEF ReconcileStep, PlanReconciliation, EnterReconciliation, Settle, EndReconciliation, catalog
<1> QED
  BY <1>2, <1>3, <1>4, <1>5, <1>6, <1>7

\* Whatever is written has a receipt that says so, or had one when it was sent.
LEMMA WriteIsCarriedOut ==
  ASSUME ToolInv, Next, live' # live \/ usage' # usage, edits' = edits
  PROVE  \E o \in ChainOps \cup EffectOps : UnderWay(o) /\ MayArrive(o) /\ CatalogMoves(o)
<1>1. TypeOK /\ OwnersKnown /\ LateHeld
  BY DEF ToolInv
<1>2. CASE LateEffect
  <2>1. PICK o \in late : CarriedOut(o) /\ touched' = touched
    BY <1>2 DEF LateEffect
  <2>2. o \in ChainOps \cup EffectOps /\ MayArrive(o)
    BY <1>1 DEF TypeOK, LateHeld
  <2>3. CatalogMoves(o)
    BY <1>1, <2>1, <2>2, CarriedOutMoves
  <2> QED
    BY <2>2, <2>3 DEF UnderWay, MayArrive
<1>3. ASSUME NEW p \in Procs, RunChainOp(p) \/ Emit(p) \/ Delete(p)
      PROVE  \E o \in ChainOps \cup EffectOps : UnderWay(o) /\ MayArrive(o) /\ CatalogMoves(o)
  <2>1. PICK o : o = Current(p)
    OBVIOUS
  <2>2. CASE RunChainOp(p)
    <3>1. /\ lock = p /\ proc[p].pc = "run" /\ proc[p].cmd \in ChainCommands /\ ChainEffect(o)
          /\ UNCHANGED <<usage, maker, touched>>
      BY <2>1, <2>2 DEF RunChainOp, Is, others
    <3>2. o \in ChainOps /\ receipts[o] = "PLANNED"
      BY <2>1, <3>1, ChainCurrentOp DEF ChainHeld
    <3>3. MayArrive(o)
      <4>1. o \notin EffectOps /\ ~IsUsage(o)
        BY <3>2, KindsDiffer DEF IsUsage
      <4> QED
        BY <3>2, <4>1 DEF MayArrive, EffectOps, QueryOps
    <3> QED
      BY <1>1, <3>1, <3>2, <3>3, ChainMoved DEF UnderWay
  <2>3. CASE Emit(p)
    <3>1. ToEmit(p) /\ Upsert(o) /\ effects' = effects /\ touched' = touched
      BY <2>1, <2>3 DEF Emit, others
    <3>2. o \in EffectOps /\ receipts[o] = "PLANNED" /\ MayArrive(o) /\ o \notin ResetOps
      BY <2>1, <3>1, Emitting
    <3>3. CarriedOut(o)
      BY <3>1, <3>2 DEF CarriedOut, EffectOps
    <3> QED
      BY <1>1, <3>1, <3>2, <3>3, CarriedOutMoves DEF UnderWay
  <2>4. CASE Delete(p)
    <3>1. /\ lock = p /\ proc[p].pc = "delete" /\ proc[p].cmd = "reset" /\ SoftDelete(o[2])
          /\ UNCHANGED <<usage, maker, effects, touched>>
      BY <2>1, <2>4, StepNamesCommand DEF Delete, Is, Target, others
    <3>2. o \in EffectOps /\ o \in ResetOps /\ receipts[o] = "PLANNED" /\ MayArrive(o)
      BY <2>1, <3>1, Deleting
    <3>3. CarriedOut(o)
      BY <3>1, <3>2 DEF CarriedOut
    <3> QED
      BY <1>1, <3>1, <3>2, <3>3, CarriedOutMoves DEF UnderWay
  <2> QED
    BY <1>3, <2>2, <2>3, <2>4
<1> QED
  BY <1>1, <1>2, <1>3, Writers

\* What is written, aspect by aspect.
LEMMA WhatIsWritten ==
  ASSUME NEW a \in AllAspects, ToolInv, Next, live'[a] # live[a], edits' = edits
  PROVE  \/ live[a] = "missing" /\ live'[a] = "absent"
         \/ live[a] = "absent" /\ live'[a] = "native"
         \/ /\ live'[a] = "ours" /\ (live[a] = Theirs(a) => a \in touched)
            /\ \E o \in EffectOps : UnderWay(o) /\ Affected(o) = a
         \/ \E e \in Entities : /\ a = Status(e) /\ live'[a] = "removed"
                                /\ Marked(e) \/ Marker(e) \in touched
                                /\ \E o \in EffectOps : UnderWay(o) /\ Affected(o) = a
<1>1. live' # live
  OBVIOUS
<1>2. PICK o \in ChainOps \cup EffectOps : UnderWay(o) /\ MayArrive(o) /\ CatalogMoves(o)
  BY <1>1, WriteIsCarriedOut
<1>3. CASE live'[a] = "ours" /\ o \in SeedOps \cup StableQueryOps /\ a = o[2]
  <2>1. o \in EffectOps /\ o[1] # "reset"
    BY <1>3, KindsDiffer DEF EffectOps, QueryOps
  <2> QED
    BY <1>2, <1>3, <2>1 DEF MayArrive, Affected
<1>4. CASE live'[a] = "removed" /\ o \in ResetOps /\ a = Status(o[2])
  <2>1. o \in EffectOps /\ o[1] = "reset" /\ o[2] \in Entities
    BY <1>4, KindsDiffer DEF EffectOps
  <2>2. PICK e \in Entities : e = o[2]
    BY <2>1
  <2> QED
    BY <1>2, <1>4, <2>1, <2>2 DEF MayArrive, Affected
<1> QED
  BY <1>2, <1>3, <1>4 DEF CatalogMoves

\* A seed or query evidence replaces somebody's value only if it was written
\* under the lock, after the preflight perhaps, or while a request was on its way
\* (seed.py, live_query.py: the preflight and the upserts).
THEOREM NothingIsClobbered == Spec => NoClobber
<1>1. ASSUME ToolInv, [Next]_vars, NEW a \in AllAspects, live[a] = Theirs(a), live'[a] # Theirs(a), edits' = edits
      PROVE  a \in touched
  <2>1. OwnersKnown /\ Theirs(a) \in {"other", "foreign"}
    BY <1>1 DEF ToolInv, Theirs
  <2>2. \A e \in Entities : a # Status(e)
    <3>1. \A e \in Entities : Status(e) # "lineage"
      BY AspectsKnown
    <3> QED
      BY <1>1, <2>1, <3>1 DEF OwnersKnown, CreationReceiptsTrue, Theirs
  <2>3. Next
    BY <1>1 DEF vars, catalog
  <2> QED
    BY <1>1, <2>1, <2>2, <2>3, WhatIsWritten
<1>2. ToolInv /\ [Next]_vars =>
        [\A a \in AllAspects :
           live[a] = Theirs(a) /\ live'[a] # Theirs(a) /\ edits' = edits => a \in touched]_vars
  BY <1>1
<1> QED
  BY <1>2, ToolInvariant, PTL DEF Spec, NoClobber

\* A reset deletes nothing that does not carry the tool's marker, unless the
\* marker was edited after the check: under the lock, or while the request was on
\* its way (reset.py).
THEOREM OnlyOwnIsDeleted == Spec => OnlyOwnDeleted
<1>1. ASSUME ToolInv, [Next]_vars, NEW e \in Entities,
             live[Status(e)] # "removed", live'[Status(e)] = "removed", edits' = edits
      PROVE  Marked(e) \/ Marker(e) \in touched
  <2>1. Status(e) \in AllAspects /\ \A x \in Entities : Status(x) = Status(e) => x = e
    BY AspectsKnown
  <2>2. Next
    BY <1>1 DEF vars, catalog
  <2> QED
    BY <1>1, <2>1, <2>2, WhatIsWritten
<1>2. ToolInv /\ [Next]_vars =>
        [\A e \in Entities :
           live[Status(e)] # "removed" /\ live'[Status(e)] = "removed" /\ edits' = edits
             => Marked(e) \/ Marker(e) \in touched]_vars
  BY <1>1
<1> QED
  BY <1>2, ToolInvariant, PTL DEF Spec, OnlyOwnDeleted

\* Who writes the usage statistics: the observation has a receipt.
LEMMA UsageWritten ==
  ASSUME ToolInv, Next, usage' # usage, edits' = edits
  PROVE  usage' \in 1 .. Len(counts) /\ UnderWay(Usage(usage'))
<1>1. TypeOK
  BY DEF ToolInv
<1>2. PICK o \in ChainOps \cup EffectOps : UnderWay(o) /\ MayArrive(o) /\ CatalogMoves(o)
  BY WriteIsCarriedOut
<1>3. o \in QueryOps \ StableQueryOps /\ usage' = o[3]
  BY <1>2 DEF CatalogMoves
<1>4. o = Usage(o[3]) /\ o[3] \in 1 .. MaxObservations /\ o[3] <= Len(counts)
  BY <1>2, <1>3, KindsDiffer DEF MayArrive, IsUsage
<1> QED
  BY <1>1, <1>2, <1>3, <1>4, ScenarioAssumption DEF TypeOK

\* Every write of the catalog was announced by a PLANNED receipt that still
\* stands, so a death at any step leaves an operation unresolved; what comes late
\* has a receipt at least (seed.py, live_query.py, reset.py: the receipts before
\* the effects).
THEOREM WritesAreAnnounced == Spec => WrittenAhead
<1>1. ASSUME ToolInv, [Next]_vars, edits' = edits
      PROVE  /\ \A a \in AllAspects : live'[a] # live[a] =>
                  \/ live[a] = "missing" /\ live'[a] = "absent"
                  \/ live[a] = "absent" /\ live'[a] = "native"
                  \/ \E o \in EffectOps : UnderWay(o) /\ Affected(o) = a
             /\ usage' # usage => usage' \in 1 .. Len(counts) /\ UnderWay(Usage(usage'))
  <2>1. ASSUME NEW a \in AllAspects, live'[a] # live[a]
        PROVE  \/ live[a] = "missing" /\ live'[a] = "absent"
               \/ live[a] = "absent" /\ live'[a] = "native"
               \/ \E o \in EffectOps : UnderWay(o) /\ Affected(o) = a
    <3>1. Next
      BY <1>1, <2>1 DEF vars, catalog
    <3> QED
      BY <1>1, <2>1, <3>1, WhatIsWritten
  <2>2. ASSUME usage' # usage
        PROVE  usage' \in 1 .. Len(counts) /\ UnderWay(Usage(usage'))
    <3>1. Next
      BY <1>1, <2>2 DEF vars, catalog
    <3> QED
      BY <1>1, <2>2, <3>1, UsageWritten
  <2> QED
    BY <2>1, <2>2
<1>2. ToolInv /\ [Next]_vars =>
        [edits' = edits =>
           /\ \A a \in AllAspects : live'[a] # live[a] =>
                \/ live[a] = "missing" /\ live'[a] = "absent"
                \/ live[a] = "absent" /\ live'[a] = "native"
                \/ \E o \in EffectOps : UnderWay(o) /\ Affected(o) = a
           /\ usage' # usage => usage' \in 1 .. Len(counts) /\ UnderWay(Usage(usage'))]_vars
  BY <1>1
<1> QED
  BY <1>2, ToolInvariant, PTL DEF Spec, WrittenAhead

\* What is sent rests on a chain that really last ran in the order that makes its
\* evidence current, unless an orphan of an earlier command finished late (seed.py,
\* live_query.py: the prerequisites).
THEOREM WritesRestOnCurrentChain == Spec => WritesOnCurrentChain
<1>1. ASSUME ToolInv, NEW p \in Procs, Emit(p) \/ EmitFails(p)
      PROVE  /\ proc[p].cmd = "seed" =>
                  RanInOrder(<<Warehouse, Build, Docs, Artifacts, Observed, Postgres, DbtIngest>>)
             /\ proc[p].cmd = "upsert" =>
                  RanInOrder(<<Warehouse, Build, Docs, Artifacts, Observed, Postgres>>)
  <2>1. ToEmit(p) /\ ChainTrue
    BY <1>1 DEF Emit, EmitFails, ToolInv
  <2>2. Prerequisites(proc[p].cmd)
    BY <1>1, <2>1, Emitting DEF UpsertHeld
  <2>3. (proc[p].cmd = "seed" => ChainCurrent) /\ (proc[p].cmd = "upsert" => PostgresCurrent)
    BY <2>2 DEF Prerequisites
  <2> QED
    BY <2>1, <2>3, ChainRan
<1>2. ToolInv =>
        [\A p \in Procs :
           /\ proc[p].cmd = "seed" /\ (Emit(p) \/ EmitFails(p)) =>
                RanInOrder(<<Warehouse, Build, Docs, Artifacts, Observed, Postgres, DbtIngest>>)
           /\ proc[p].cmd = "upsert" /\ (Emit(p) \/ EmitFails(p)) =>
                RanInOrder(<<Warehouse, Build, Docs, Artifacts, Observed, Postgres>>)]_vars
  BY <1>1
<1> QED
  BY <1>2, ToolInvariant, PTL DEF WritesOnCurrentChain

==============================================================================
