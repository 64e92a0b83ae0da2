----------------------------- MODULE MCRequests -----------------------------
(* Instances for TLC of the two parts whose requests overtake each other in  *)
(* the hub, the questions to a share and the merges of worktrees.  They      *)
(* share no state: a behaviour is one of either part, and the other one      *)
(* stays as it is.                                                           *)
EXTENDS Shares, TLC
CONSTANTS Tasks, Requests, Conflicting, Discardable, MaxCommits

VARIABLES part, task, orphans, tree, baseAt, midMerge, lock, req, hubs, touched

W == INSTANCE Worktrees WITH restarts <- hubs

ASSUME WorktreesPart == W!WorktreesAssumption

merges == <<task, orphans, tree, baseAt, midMerge, lock, req, hubs, touched>>

RequestsInit ==
  /\ part \in {"shares", "worktrees"}
  /\ Init
  /\ IF part = "worktrees" THEN W!Init
     ELSE /\ task = None /\ orphans = None /\ tree = None /\ baseAt = None /\ midMerge = None
          /\ lock = None /\ req = None /\ hubs = None /\ touched = None

RequestsNext ==
  \/ part = "shares" /\ UNCHANGED <<part, merges>> /\ Next
  \/ part = "worktrees" /\ UNCHANGED <<part, vars>> /\ W!Next

RequestsSpec == RequestsInit /\ [][RequestsNext]_<<part, vars, merges>>

\* Askers and requests are told apart by nothing but their name.
Alike == Permutations(Askers) \cup Permutations(Requests)
MergesAlone       == part = "worktrees" => W!MergesAlone
MergedIsSafe      == part = "worktrees" => W!MergedIsSafe
NothingLeftBehind == part = "worktrees" => W!NothingLeftBehind
=============================================================================
