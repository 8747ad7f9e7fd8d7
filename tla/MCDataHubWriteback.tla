-------------------------- MODULE MCDataHubWriteback --------------------------
(***************************************************************************)
(* Values of the constants of DataHubWriteback: the call of one run twice, *)
(* and that of another run which made the same candidate.                  *)
(***************************************************************************)
EXTENDS DataHubWriteback

RunOfCallers == [a1 |-> "A", a2 |-> "A", b |-> "B"]
OneCandidate == [A |-> "candidate", B |-> "candidate"]

=============================================================================
