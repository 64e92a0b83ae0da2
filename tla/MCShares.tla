------------------------------ MODULE MCShares ------------------------------
(* Instances of Shares for TLC. *)
EXTENDS Shares, TLC

\* Askers are told apart by nothing but their name.
SameAskers == Permutations(Askers)
=============================================================================
