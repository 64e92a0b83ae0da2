----------------------------- MODULE MCCommands -----------------------------
(* Instances for TLC of four parts that wait for what others do: a merge for *)
(* git, the tunnel for ngrok, an implementation request for its task, the    *)
(* trail for a model.  They share no state, so a behaviour is one of one     *)
(* part, and the others stay as they are.                                    *)
EXTENDS Worktrees, TLC
CONSTANTS
  MaxProcs, MaxGenerations, MaxLives,                        \* Tunnel
  MaxContinues, MaxFaults,                                          \* ShareTasks
  Sessions, Silent, Window, MaxTurns, MaxWindows, EveryStop, MaxDays, MaxFailures  \* Trail

VARIABLES part,
  state, child, generation, wanted, installed, call, proc, pidfile, reap, life,
  share, knocking, shared, request, continues, faults,
  total, ended, owed, last, first, told, day, queue, woken, work, failures, crashes

N == INSTANCE Tunnel WITH Calls <- Tasks
I == INSTANCE ShareTasks WITH task <- shared
T == INSTANCE Trail WITH MaxFaults <- MaxFailures, faults <- failures

ASSUME TunnelPart     == N!TunnelAssumption
ASSUME ShareTasksPart == I!ShareTasksAssumption
ASSUME TrailPart      == T!TrailAssumption

tunnel    == <<state, child, generation, wanted, installed, call, proc, pidfile, reap, life>>
implement == <<share, knocking, shared, request, continues, faults>>
trail     == <<total, ended, owed, last, first, told, day, queue, woken, work, failures, crashes>>
all       == <<part, vars, tunnel, implement, trail>>

InWorktrees == part = "worktrees" /\ UNCHANGED <<part, tunnel, implement, trail>>
InTunnel    == part = "tunnel"    /\ UNCHANGED <<part, vars, implement, trail>>
InImplement == part = "implement" /\ UNCHANGED <<part, vars, tunnel, trail>>
InTrail     == part = "trail"     /\ UNCHANGED <<part, vars, tunnel, implement>>

CommandsInit ==
  /\ part \in {"worktrees", "tunnel", "implement", "trail"}
  /\ Init /\ (part = "worktrees" \/ baseAt = "main")
  /\ N!Init /\ (part = "tunnel" \/ installed)
  /\ I!Init /\ T!Init

CommandsNext ==
  \/ InWorktrees /\ Next
  \/ InTunnel /\ N!Next
  \/ InImplement /\ I!Next
  \/ InTrail /\ T!Next

\* The fairness of each part, in the behaviours of that part.
CommandsSpec ==
  /\ CommandsInit /\ [][CommandsNext]_all
  /\ \A q \in Requests : WF_vars(part = "worktrees" /\ Answers(q))
  /\ \A t \in Tasks : /\ WF_vars(part = "worktrees" /\ AgentEnds(t))
                      /\ SF_vars(part = "worktrees" /\ \E q \in Requests : MergeAccepted(q, t))
  /\ WF_tunnel(part = "tunnel" /\ N!InstallEnds) /\ WF_tunnel(part = "tunnel" /\ (N!Reap \/ N!Reaped))
  /\ \A c \in Tasks : WF_tunnel(part = "tunnel" /\ N!Advances(c))
  /\ \A p \in 1..MaxProcs : WF_tunnel(part = "tunnel" /\ proc[p].status = "dying" /\ N!Ends(p))
  /\ \A t \in Tasks : /\ WF_implement(part = "implement" /\ \E ok \in BOOLEAN : I!Ends(t, ok))
                      /\ WF_implement(part = "implement" /\ I!Poll(t))
  /\ WF_trail(part = "trail" /\ T!Drain) /\ WF_trail(part = "trail" /\ T!Works)

\* The value of MaxTurns in the instance that is checked.
FourTurns == [s \in Sessions |-> 4]

PublicOnlyAsAsked == N!PublicOnlyAsAsked
StartSettles      == N!StartSettles
OneImplementation == I!OneImplementation
RequestSettles    == I!RequestSettles
TurnsOnce         == T!TurnsOnce
NoTurnSkipped     == T!NoTurnSkipped
EndIsSummarised   == T!EndIsSummarised
=============================================================================
