------------------------------- MODULE MCNotes -------------------------------
(* Instances of Notes for TLC. *)
EXTENDS Notes, TLC
CONSTANTS a, b

Windows == Permutations({a, b})
=============================================================================
