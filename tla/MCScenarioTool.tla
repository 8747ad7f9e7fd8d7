--------------------------- MODULE MCScenarioTool ---------------------------
(***************************************************************************)
(* Symmetry for the model-checking runs of ScenarioTool.                   *)
(***************************************************************************)
EXTENDS ScenarioTool, TLC

Symmetric == Permutations(Procs)

==============================================================================
