------------------------- MODULE MCEffectAuthority -------------------------
(***************************************************************************)
(* Values of the constants of EffectAuthority for its model-checking runs. *)
(***************************************************************************)
EXTENDS EffectAuthority

\* One intent of each kind, as the worker derives its keys.
OnePerKind == {"review", "writeback"}
OnePerKindKind ==
  [i \in OnePerKind |->
     IF i = "review" THEN "GITHUB_REVIEW" ELSE "DATAHUB_WRITEBACK"]

==============================================================================
