---------------------------- MODULE MCWorktrees ----------------------------
(* Instances of Worktrees for TLC. *)
EXTENDS Worktrees, TLC

\* The handlers do not tell requests apart.
SameRequests == Permutations(Requests)
=============================================================================
