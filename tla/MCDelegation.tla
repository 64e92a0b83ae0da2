---------------------------- MODULE MCDelegation ----------------------------
(* Instances of Delegation for TLC. *)
EXTENDS Delegation, TLC

\* Task and run ids are uuids: the code only compares them.
Ids == Permutations(Tasks) \cup Permutations(Runs)
=============================================================================
