--------------------------- MODULE MCGitHubReview ---------------------------
(* Instances of GitHubReview for TLC. *)
EXTENDS GitHubReview, TLC

Symmetry == Permutations(Callers)

==============================================================================
