---------------------------- MODULE RunLifecycle ----------------------------
(***************************************************************************)
(* What the run store promises, without clocks, versions, events or        *)
(* transactions (docs/specs/2026-08-04-durable-run-store.md, "Required     *)
(* behavior"): a run is worked on by one owner at a time, ownership is     *)
(* granted in numbered epochs, only an owned run moves, it moves along the *)
(* edges of the domain's tables, and a run that ended is owned by nobody   *)
(* and never changes again.                                                *)
(***************************************************************************)
EXTENDS Naturals, RunStatus

CONSTANTS Runs, Workers, NoWorker

VARIABLES phase, owner, epoch

lifecycleVars == <<phase, owner, epoch>>

LifecycleInit ==
  /\ phase = [r \in Runs |-> "ABSENT"]
  /\ owner = [r \in Runs |-> NoWorker]
  /\ epoch = [r \in Runs |-> 0]

Submit(r) ==
  /\ phase[r] = "ABSENT"
  /\ phase' = [phase EXCEPT ![r] = "CREATED"]
  /\ UNCHANGED <<owner, epoch>>

\* An unfinished run passes to a worker, from nobody or from a lapsed owner.
Grant(r, w) ==
  /\ phase[r] \in ActiveStatuses
  /\ owner' = [owner EXCEPT ![r] = w]
  /\ epoch' = [epoch EXCEPT ![r] = epoch[r] + 1]
  /\ UNCHANGED phase

\* The owner gives an unfinished run back, at once or to be retried.
Yield(r) ==
  /\ owner[r] # NoWorker
  /\ owner' = [owner EXCEPT ![r] = NoWorker]
  /\ UNCHANGED <<phase, epoch>>

Advance(r, to) ==
  /\ owner[r] # NoWorker
  /\ IsAdjacent(phase[r], to)
  /\ phase' = [phase EXCEPT ![r] = to]
  /\ owner' = [owner EXCEPT ![r] =
       IF to \in TerminalStatuses THEN NoWorker ELSE owner[r]]
  /\ UNCHANGED epoch

LifecycleNext ==
  \E r \in Runs :
    \/ Submit(r)
    \/ Yield(r)
    \/ \E w \in Workers : Grant(r, w)
    \/ \E to \in RunStatuses : Advance(r, to)

LifecycleSpec == LifecycleInit /\ [][LifecycleNext]_lifecycleVars

==============================================================================
