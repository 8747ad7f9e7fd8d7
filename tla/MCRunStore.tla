----------------------------- MODULE MCRunStore -----------------------------
(***************************************************************************)
(* Values of the constants of RunStore for its model-checking runs.        *)
(***************************************************************************)
EXTENDS RunStore, TLC

\* Backoffs that keep their order and their distinctness from "now" while a
\* short clock still reaches the end of each.
ShortDelays == [a \in 1..MaxRetries |-> 1]
GrowingDelays == [a \in 1..MaxRetries |-> IF a = 1 THEN 1 ELSE 2]

\* Workers are interchangeable; the properties checked under it have no
\* liveness part.
Symmetric == Permutations(Workers)

==============================================================================
