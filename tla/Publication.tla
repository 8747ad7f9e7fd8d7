------------------------------ MODULE Publication ------------------------------
(***************************************************************************)
(* How the in-process pipeline publishes a migration candidate: one branch *)
(* named after the candidate, one commit on the base branch, one draft     *)
(* pull request (createGitHubPort), all of it found again when a worker    *)
(* that ran earlier, or runs at the same time, has published the same      *)
(* candidate (reconcileGitHubEffect). Nothing is journalled: what GitHub   *)
(* holds is the only record.                                               *)
(*                                                                         *)
(* A commit has one parent, numbered by its place in the base branch's     *)
(* history and 0 for any commit outside it, and its change is exactly the  *)
(* candidate's artifacts, or not. The commit a worker makes is a function  *)
(* of the candidate and the parent, so two workers make the same one. A    *)
(* call may be answered, lost, or done with its answer lost.               *)
(***************************************************************************)
EXTENDS Naturals

CONSTANT MaxInterference   \* steps of others on the branch, the request and the base

ASSUME InterferenceAssumption == MaxInterference \in Nat

VARIABLES
  base,         \* GitHub: head of the base branch
  branch,       \* GitHub: head of the candidate's branch, or Missing
  pull,         \* GitHub: the open pull request of the branch, or Missing
  interference, \* steps of others so far
  heads,        \* history: what the branch has been
  reviewable,   \* history: commits a draft pull request on their own parent has shown
  publishing,   \* where createReview is
  seenBase,     \* the base it read
  found,        \* the head the reconciliation read, and proved exact
  receipt       \* what it returns

github == <<base, branch, pull, interference, heads, reviewable>>
publisher == <<publishing, seenBase, found, receipt>>
publicationVars == <<github, publisher>>

Missing == [exists |-> FALSE]
Commit(parent, exact) == [exists |-> TRUE, parent |-> parent, exact |-> exact]
Draft(on) == [exists |-> TRUE, draft |-> TRUE, base |-> on]
ReadyPull(on) == [exists |-> TRUE, draft |-> FALSE, base |-> on]

NoReceipt == [outcome |-> "NONE", commit |-> Missing]
Receipt(outcome, commit) == [outcome |-> outcome, commit |-> commit]

\* The commit this worker makes of the base it read.
Own == Commit(seenBase, TRUE)

\* Variant: only the parent of the commit is compared.
ShowsParent(commit) == pull = Draft(commit.parent)

\* readExactDraftPullRequest: open, a draft, of this very commit on its parent.
ShowsExactly(commit) ==
  /\ commit = branch
  /\ pull = Draft(commit.parent)

PublicationInit ==
  /\ base = 1 /\ branch = Missing /\ pull = Missing /\ interference = 0
  /\ heads = {} /\ reviewable = {}
  /\ publishing = "BASE" /\ seenBase = 0 /\ found = Missing /\ receipt = NoReceipt

\* What the history variables remember of a step.
Notes ==
  /\ heads' = heads \cup ({branch'} \ {Missing})
  /\ reviewable' = reviewable \cup
       IF branch' # Missing /\ pull' = Draft(branch'.parent) THEN {branch'} ELSE {}

-----------------------------------------------------------------------------

GivesUp == publishing' = "FAILED" /\ UNCHANGED <<found, receipt>>

ReadBase ==
  /\ publishing = "BASE"
  /\ seenBase' = base
  /\ publishing' = "RECONCILE"
  /\ UNCHANGED <<github, found, receipt>>

\* The head is read once; its commit, trees and blobs are read by hash and
\* cannot change: one parent in the history of the base, the exact change.
IsExact(commit) == commit.exact /\ commit.parent \in 1 .. seenBase

Reconcile ==
  /\ publishing \in {"RECONCILE", "RECOVER"}
  /\ \/ /\ branch = Missing /\ publishing = "RECONCILE"
        /\ publishing' = "OBJECTS"
        /\ UNCHANGED <<found, receipt>>
     \/ /\ branch # Missing /\ IsExact(branch)
        /\ found' = branch
        /\ publishing' = IF publishing = "RECONCILE" THEN "PULL_READ" ELSE "RECOVER_PULL_READ"
        /\ UNCHANGED receipt
     \/ /\ branch = Missing => publishing = "RECOVER"
        /\ branch # Missing => ~IsExact(branch)
        /\ GivesUp
  /\ UNCHANGED <<github, seenBase>>

\* After a lost POST the commit must be this worker's own.
ReadPull ==
  /\ publishing \in {"PULL_READ", "RECOVER_PULL_READ"}
  /\ \/ /\ ShowsExactly(found)
        /\ publishing = "RECOVER_PULL_READ" => found = Own
        /\ receipt' = Receipt(IF publishing = "PULL_READ" THEN "SKIPPED_EXACT" ELSE "CREATED", found)
        /\ publishing' = "PUBLISHED"
        /\ UNCHANGED found
     \/ /\ ShowsExactly(found) => publishing = "RECOVER_PULL_READ" /\ found # Own
        /\ GivesUp
  /\ UNCHANGED <<github, seenBase>>

\* The base commit, the blobs, the tree and the commit: objects nobody sees.
MakeObjects ==
  /\ publishing = "OBJECTS"
  /\ publishing' = "REF"
  /\ UNCHANGED <<github, seenBase, found, receipt>>

\* POST /git/refs creates; it never moves a branch that exists.
CreateRef ==
  /\ publishing = "REF"
  /\ \E done, answered \in BOOLEAN :
       /\ done => branch = Missing
       /\ branch' = IF done THEN Own ELSE branch
       /\ publishing' = IF done /\ answered THEN "PULL" ELSE "FAILED"
  /\ UNCHANGED <<base, pull, interference, seenBase, found, receipt>>
  /\ Notes

\* POST /pulls names the branch, not the commit; GitHub refuses a second one.
CreatePull ==
  /\ publishing = "PULL"
  /\ \E done, answered \in BOOLEAN :
       /\ done => branch # Missing /\ pull = Missing
       /\ pull' = IF done THEN Draft(base) ELSE pull
       /\ IF done /\ answered
            THEN publishing' = "PUBLISHED" /\ receipt' = Receipt("CREATED", Own)
            ELSE publishing' = "RECOVER" /\ UNCHANGED receipt
  /\ UNCHANGED <<base, branch, interference, seenBase, found>>
  /\ Notes

\* A read or a POST of objects fails.
CallFails ==
  /\ publishing \in {"BASE", "RECONCILE", "RECOVER", "PULL_READ", "RECOVER_PULL_READ", "OBJECTS"}
  /\ GivesUp
  /\ UNCHANGED <<github, seenBase>>

Publishes == ReadBase \/ Reconcile \/ ReadPull \/ MakeObjects \/ CreateRef \/ CreatePull \/ CallFails

-----------------------------------------------------------------------------
(* Others: a worker on the same candidate, and people.                     *)

Interferes == interference < MaxInterference /\ interference' = interference + 1

\* They push to the branch, delete it, open, close, or mark ready its request.
OthersPublish ==
  /\ Interferes
  /\ branch' \in {Missing} \cup {Commit(parent, exact) : parent \in 0 .. base, exact \in BOOLEAN}
  /\ pull' \in IF branch' = Missing THEN {Missing} ELSE {Missing, pull, Draft(base), ReadyPull(base)}
  /\ Notes
  /\ UNCHANGED <<base, publisher>>

BaseMoves ==
  /\ Interferes
  /\ base' = base + 1
  /\ UNCHANGED <<branch, pull, heads, reviewable, publisher>>

-----------------------------------------------------------------------------

\* A receipt names a commit that is exactly the candidate on one commit of the
\* base branch and that the branch has really been at; when nothing was
\* written (SKIPPED_EXACT), an open draft pull request has shown that very
\* commit on that very base, at one moment (reconcileGitHubEffect, createReview).
ReceiptIsExact ==
  publishing = "PUBLISHED" =>
    /\ receipt.commit \in heads
    /\ receipt.commit.exact /\ receipt.commit.parent \in 1 .. base
    /\ receipt.outcome = "SKIPPED_EXACT" => receipt.commit \in reviewable

=============================================================================
