-------------------------------- MODULE Tunnel --------------------------------
(***************************************************************************)
(* The ngrok tunnel of the share endpoint (tunnel.ts).  startTunnel        *)
(* installs ngrok when there is none, closes every ngrok it finds, starts  *)
(* one and waits 15 s for its address; stopTunnel may come at any await,   *)
(* and so may another start.  A start is current as long as the generation *)
(* it took is the newest.  The pid of the process is kept in a file, from  *)
(* which the next hub closes what a crash has left behind.                 *)
(***************************************************************************)
EXTENDS Naturals

CONSTANTS
  Calls,          \* requests POST /shares/tunnel/start under way at a time
  MaxProcs,       \* bound: processes ever started
  MaxGenerations, \* bound: starts and stops of one hub
  MaxLives,       \* bound: hubs, one after another
  None

TunnelAssumption ==
  /\ MaxProcs \in Nat /\ MaxGenerations \in Nat /\ MaxLives \in Nat \ {0}
  /\ None \notin 1..MaxProcs

VARIABLES
  state,      \* runtime.state
  child,      \* runtime.child
  generation, \* runtime.generation
  installed,  \* findNgrokBinary finds one
  wanted,     \* history: the last command the hub took was a start
  call,       \* where each startTunnel is
  proc,       \* the ngrok processes, and the hub that started each
  pidfile,
  reap,       \* reapLeftoverNgrok: the process it is closing
  life

vars == <<state, child, generation, wanted, installed, call, proc, pidfile, reap, life>>

Procs == 1..MaxProcs

\* An awaited call: victims are the processes it still has to close, target
\* the one it waits for, or in the end the one it has started.
Call == [step : {"idle", "install", "list", "close", "await", "wait"},
         gen : 0..MaxGenerations, victims : SUBSET Procs, target : Procs \cup {None}]

\* failed: it could not be started; dying: a signal was sent; exited: the hub
\* has not seen its exit event.
Proc == [status : {"none", "failed", "alive", "dying", "exited", "gone"}, life : 0..MaxLives]

Inactive == [step |-> "idle", gen |-> 0, victims |-> {}, target |-> None]

TypeOK ==
  /\ state \in {"stopped", "installing", "starting", "running", "error"}
  /\ child \in Procs \cup {None}
  /\ generation \in 0..MaxGenerations
  /\ installed \in BOOLEAN /\ wanted \in BOOLEAN
  /\ call \in [Calls -> Call]
  /\ proc \in [Procs -> Proc]
  /\ pidfile \in Procs \cup {None} /\ reap \in Procs \cup {None}
  /\ life \in 1..MaxLives

Init ==
  /\ state = "stopped" /\ child = None /\ generation = 0
  /\ installed \in BOOLEAN /\ wanted = FALSE
  /\ call = [c \in Calls |-> Inactive]
  /\ proc = [p \in Procs |-> [status |-> "none", life |-> 0]]
  /\ pidfile = None /\ reap = None
  /\ life = 1

Runs(p) == p # None /\ proc[p].status \in {"alive", "dying"}

\* The processes after SIGTERM for p.
Signalled(p) == IF p # None /\ proc[p].status = "alive"
                THEN [proc EXCEPT ![p].status = "dying"] ELSE proc

-----------------------------------------------------------------------------
(* startTunnel *)

\* The static domain of the settings is no host name.
BadDomain(calls) == state' = "error" /\ call' = calls

\* killRunningNgrok begins with the process of the pid file.
Closing(calls, c, gen) ==
  call' = [calls EXCEPT ![c] = [step |-> "list", gen |-> gen, target |-> None,
                                victims |-> {p \in {pidfile} : Runs(p)}]]

Start(c) ==
  /\ call[c].step = "idle" /\ state \notin {"running", "starting", "installing"}
  /\ generation < MaxGenerations
  /\ generation' = generation + 1 /\ wanted' = TRUE
  /\ \/ /\ ~installed /\ state' = "installing"
        /\ call' = [call EXCEPT ![c] = [Inactive EXCEPT !.step = "install", !.gen = generation + 1]]
     \/ installed /\ BadDomain(call)
     \/ installed /\ Closing(call, c, generation + 1) /\ UNCHANGED state
  /\ UNCHANGED <<child, installed, proc, pidfile, reap, life>>

Installing == {c \in Calls : call[c].step = "install"}
Current(c) == call[c].gen = generation

\* Mutant of InstallEnds: a download that fails says nothing.
InstallEnds_Silent ==
  LET rest == [c \in Calls |-> IF c \in Installing THEN Inactive ELSE call[c]] IN
  /\ Installing # {}
  /\ \/ installed' \in {installed, TRUE} /\ call' = rest /\ UNCHANGED state
     \/ /\ installed' = TRUE
        /\ \E c \in Installing : Current(c) /\ state = "installing" /\ Closing(rest, c, generation)
        /\ UNCHANGED state
  /\ UNCHANGED <<child, generation, wanted, proc, pidfile, reap, life>>

\* The one download every call waits for has ended; the calls that are no
\* longer current return.
InstallEnds ==
  LET rest == [c \in Calls |-> IF c \in Installing THEN Inactive ELSE call[c]] IN
  /\ Installing # {}
  /\ \/ /\ \E c \in Installing : Current(c)
        /\ BadDomain(rest)   \* or the download has failed
        /\ installed' \in {installed, TRUE}
     \/ /\ installed' = TRUE
        /\ \E c \in Installing : Current(c) /\ state = "installing" /\ Closing(rest, c, generation)
        /\ UNCHANGED state
     \/ /\ ~ \E c \in Installing : Current(c)
        /\ installed' \in {installed, TRUE}
        /\ call' = rest /\ UNCHANGED state
  /\ UNCHANGED <<child, generation, wanted, proc, pidfile, reap, life>>

\* Every victim is closed: ngrok is started, unless there was a stop or
\* another start meanwhile.  Its error event follows when that fails.
Ready(c, pid) ==
  \/ /\ ~Current(c)
     /\ pidfile' = pid /\ call' = [call EXCEPT ![c] = Inactive]
     /\ UNCHANGED <<state, child, proc>>
  \/ /\ Current(c)
     /\ \E p \in Procs, status \in {"alive", "failed"} :
          /\ proc[p].status = "none" /\ \A q \in Procs : q < p => proc[q].status # "none"
          /\ proc' = [proc EXCEPT ![p] = [status |-> status, life |-> life]]
          /\ state' = "starting" /\ child' = p
          /\ pidfile' = IF status = "alive" THEN p ELSE pid
          /\ call' = [call EXCEPT ![c] = [Inactive EXCEPT !.step = "wait", !.target = p]]

\* The list of processes is there: the running ones, or none when it failed or
\* names no path (Linux).
List(c) ==
  /\ call[c].step = "list"
  /\ \E listed \in {{}, {p \in Procs : Runs(p)}} :
       LET victims == call[c].victims \cup listed IN
       IF victims = {} THEN Ready(c, pidfile)
       ELSE /\ call' = [call EXCEPT ![c].step = "close", ![c].victims = victims]
            /\ UNCHANGED <<state, child, proc, pidfile>>
  /\ UNCHANGED <<generation, wanted, installed, reap, life>>

CloseOne(c) ==
  /\ call[c].step = "close"
  /\ \E p \in call[c].victims :
       /\ proc' = Signalled(p)
       /\ call' = [call EXCEPT ![c].step = "await", ![c].target = p]
  /\ UNCHANGED <<state, child, generation, wanted, installed, pidfile, reap, life>>

\* It has exited, or 5 s have passed.
Closed(c) ==
  LET left == call[c].victims \ {call[c].target} IN
  /\ call[c].step = "await"
  /\ IF left = {} THEN Ready(c, None)
     ELSE /\ call' = [call EXCEPT ![c].step = "close", ![c].victims = left]
          /\ UNCHANGED <<state, child, proc, pidfile>>
  /\ UNCHANGED <<generation, wanted, installed, reap, life>>

Waits(c) == state = "starting" /\ child = call[c].target

Returns(c) ==
  /\ call[c].step = "wait" /\ ~Waits(c)
  /\ call' = [call EXCEPT ![c] = Inactive]
  /\ UNCHANGED <<state, child, generation, wanted, installed, proc, pidfile, reap, life>>

\* No address in 15 s.
Deadline(c) ==
  /\ call[c].step = "wait" /\ Waits(c)
  /\ state' = "error" /\ proc' = Signalled(child)
  /\ call' = [call EXCEPT ![c] = Inactive]
  /\ UNCHANGED <<child, generation, wanted, installed, pidfile, reap, life>>

-----------------------------------------------------------------------------
(* The process *)

Ours(p) == proc[p].life = life

\* The line with the address; also of a process that is being closed.
Address(p) ==
  /\ child = p /\ proc[p].status \in {"alive", "dying", "exited"}
  /\ state' = "running"
  /\ UNCHANGED <<child, generation, wanted, installed, call, proc, pidfile, reap, life>>

\* It ends, by itself or after the signal.
Ends(p) ==
  /\ Runs(p)
  /\ proc' = [proc EXCEPT ![p].status = IF Ours(p) THEN "exited" ELSE "gone"]
  /\ UNCHANGED <<state, child, generation, wanted, installed, call, pidfile, reap, life>>

\* The error event, or the exit event: that one removes the pid file, whatever
\* process the file names.
Event(p) ==
  /\ proc[p].status \in {"failed", "exited"}
  /\ pidfile' = IF proc[p].status = "exited" THEN None ELSE pidfile
  /\ proc' = [proc EXCEPT ![p].status = "gone"]
  /\ IF child = p THEN state' = "error" /\ child' = None ELSE UNCHANGED <<state, child>>
  /\ UNCHANGED <<generation, wanted, installed, call, reap, life>>

-----------------------------------------------------------------------------
(* stopTunnel, and the end of the hub *)

\* Mutant of Stop: a stop does not outdate the start that is under way.
Stop_KeepsGeneration ==
  /\ state' = "stopped" /\ child' = None /\ wanted' = FALSE
  /\ proc' = Signalled(child) /\ pidfile' = None
  /\ UNCHANGED <<generation, installed, call, reap, life>>

Stop ==
  /\ generation < MaxGenerations /\ generation' = generation + 1
  /\ state' = "stopped" /\ child' = None /\ wanted' = FALSE
  /\ proc' = Signalled(child) /\ pidfile' = None
  /\ UNCHANGED <<installed, call, reap, life>>

\* The next hub; its events are not those of the old one.
Boots(procs, pid) ==
  /\ life < MaxLives /\ life' = life + 1
  /\ state' = "stopped" /\ child' = None /\ generation' = 0 /\ wanted' = FALSE
  /\ call' = [c \in Calls |-> Inactive]
  /\ proc' = [p \in Procs |-> IF procs[p].status \in {"failed", "exited"}
                              THEN [procs[p] EXCEPT !.status = "gone"] ELSE procs[p]]
  /\ reap' = IF Runs(pid) THEN pid ELSE None
  /\ pidfile' = reap'
  /\ UNCHANGED installed

Quit == Boots(Signalled(child), None)

Crash == Boots(proc, pidfile)

\* reapLeftoverNgrok
Reap ==
  /\ reap # None /\ proc[reap].status = "alive"
  /\ proc' = Signalled(reap)
  /\ UNCHANGED <<state, child, generation, wanted, installed, call, pidfile, reap, life>>

Reaped ==
  /\ reap # None /\ proc[reap].status # "alive"
  /\ reap' = None /\ pidfile' = None
  /\ UNCHANGED <<state, child, generation, wanted, installed, call, proc, life>>

-----------------------------------------------------------------------------
Next ==
  \/ \E c \in Calls : Start(c)
  \/ InstallEnds
  \/ \E c \in Calls : List(c)
  \/ \E c \in Calls : CloseOne(c)
  \/ \E c \in Calls : Closed(c)
  \/ \E c \in Calls : Returns(c)
  \/ \E c \in Calls : Deadline(c)
  \/ \E p \in Procs : Address(p)
  \/ \E p \in Procs : Ends(p)
  \/ \E p \in Procs : Event(p)
  \/ Stop
  \/ Quit
  \/ Crash
  \/ Reap
  \/ Reaped

Spec == Init /\ [][Next]_vars

\* A download is given up after 3 min, a list of processes after 10 s, a
\* process after 5 s, a start after 15 s; a process that was signalled ends.
Advances(c) == List(c) \/ CloseOne(c) \/ Closed(c) \/ Returns(c) \/ Deadline(c)

FairSpec ==
  /\ Spec
  /\ WF_vars(InstallEnds)
  /\ \A c \in Calls : WF_vars(Advances(c))
  /\ WF_vars(Reap \/ Reaped)
  /\ \A p \in Procs : WF_vars(proc[p].status = "dying" /\ Ends(p))

-----------------------------------------------------------------------------
(* Properties *)

\* The share is never public against the owner's last word: an ngrok this hub
\* has started and not closed is the one its status shows, and there is none
\* after a stop, whatever starts, stops, timeouts and late events fell between
\* the awaits of startTunnel (the generation, tunnel.ts).
PublicOnlyAsAsked ==
  \A p \in Procs : proc[p].status = "alive" /\ Ours(p)
    => wanted /\ child = p /\ state \in {"starting", "running"}

\* A start ends: the status does not stay at "installing" or "starting",
\* where every further start returns at once.
StartSettles == state \in {"installing", "starting"} ~> state \notin {"installing", "starting"}
=============================================================================
