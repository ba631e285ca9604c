---------------------------- MODULE DaemonSpawn ----------------------------
(***************************************************************************)
(* How disk daemons come and go.  A PHP request that cannot connect to     *)
(* SOCKNAME executes diskdaemon.pl and tries again until it is connected   *)
(* (helpers/bubba_socket_helper.php); a new daemon replaces whatever is at *)
(* SOCKNAME; an idle one removes PIDFILE and SOCKNAME and kills what       *)
(* PIDFILE names (HUNTSMAN in diskdaemon.pl).  Nothing locks, so several   *)
(* incarnations of the daemon can exist at once.                           *)
(*                                                                         *)
(* What a daemon does for its clients is cut down to what matters between  *)
(* incarnations: it accepts a job unless its own worker works.  DiskDaemon *)
(* has the details of one incarnation.                                     *)
(***************************************************************************)
CONSTANTS
  Client,      \* PHP requests that may be at work at the same time
  Daemon,      \* incarnations of the daemon that may exist at the same time
  None         \* no file at a path, or no connection

ASSUME SpawnAssumption == None \notin Daemon

VARIABLES
  phase,     \* where each daemon stands in diskdaemon.pl
  working,   \* the daemons whose worker process is at work
  sock,      \* the daemon that has bound the file at SOCKNAME, dead or alive
  pidfile,   \* the daemon that PIDFILE names
  at,        \* where each client stands in BubbaSocket
  conn,      \* the daemon each client is connected to, or has executed
  crowded,   \* history: the daemons that have lived beside another one
  struck     \* history: those that were interrupted with a job at work

daemonVars == <<phase, working>>
history == <<crowded, struck>>
clientVars == <<at, conn>>
vars == <<phase, working, sock, pidfile, at, conn, crowded, struck>>

(* gone:     there is no such process                                      *)
(* init:     executed, PIDFILE written, the main program begins            *)
(* unlinked: the main program has removed SOCKNAME, listen comes next      *)
(* serving:  in its loop and bound to SOCKNAME                             *)
(* deaf:     in its loop although listen has failed                        *)
(* leaving, nopid, nosock: in HUNTSMAN before it removes PIDFILE, before   *)
(*           it removes SOCKNAME, before it calls Kill_Daemon              *)
Phase == {"gone", "init", "unlinked", "serving", "deaf", "leaving", "nopid", "nosock"}

TypeOK ==
  /\ phase \in [Daemon -> Phase]
  /\ working \subseteq Daemon
  /\ sock \in Daemon \cup {None}
  /\ pidfile \in Daemon \cup {None}
  /\ at \in [Client -> {"idle", "exec", "retry", "connected"}]
  /\ conn \in [Client -> Daemon \cup {None}]
  /\ \A c \in Client : conn[c] = None <=> at[c] \in {"idle", "exec"}
  /\ crowded \subseteq Daemon /\ struck \subseteq Daemon

Init ==
  /\ phase = [d \in Daemon |-> "gone"]
  /\ working = {}
  /\ sock = None
  /\ pidfile = None
  /\ at = [c \in Client |-> "idle"]
  /\ conn = [c \in Client |-> None]
  /\ crowded = {} /\ struck = {}

-----------------------------------------------------------------------------
(* A connect succeeds as long as the process that has bound the path has   *)
(* not exited, whether or not it will ever accept.                         *)
Listening == sock # None /\ phase[sock] \in {"serving", "leaving", "nopid"}

Move(c, to, d) ==
  /\ at' = [at EXCEPT ![c] = to]
  /\ conn' = [conn EXCEPT ![c] = d]

(* The constructor of BubbaSocket.                                         *)
Connect(c) ==
  /\ at[c] = "idle"
  /\ IF Listening THEN Move(c, "connected", sock) ELSE Move(c, "exec", None)
  /\ UNCHANGED <<daemonVars, history, sock, pidfile>>

(* A process number that nothing refers to any more.                       *)
Unused(d) ==
  /\ phase[d] = "gone" /\ d \notin working
  /\ sock # d /\ pidfile # d /\ \A c \in Client : conn[c] # d

Alive == {d \in Daemon : phase[d] # "gone"}

(* Proc::Daemon has written PIDFILE when the exec returns.                 *)
Exec(c) ==
  /\ at[c] = "exec"
  /\ \E d \in Daemon :
       /\ Unused(d)
       /\ phase' = [phase EXCEPT ![d] = "init"]
       /\ pidfile' = d
       /\ Move(c, "retry", d)
       /\ crowded' = IF Alive = {} THEN crowded \ {d} ELSE crowded \cup Alive \cup {d}
       /\ struck' = struck \ {d}
  /\ UNCHANGED <<working, sock>>

(* while(!connect): no socket and no listener are both tried again.        *)
Retry(c) ==
  /\ at[c] = "retry"
  /\ IF Listening THEN Move(c, "connected", sock) ELSE UNCHANGED clientVars
  /\ UNCHANGED <<daemonVars, history, sock, pidfile>>

(* Mutant: a closed socket keeps its connection.                           *)
CloseNothing(c) == Move(c, "idle", conn[c])

Close(c) == Move(c, "idle", None)

(* Mutant: HUNTSMAN does not stop the loop.                                *)
SayJobLate(c) ==
  /\ at[c] = "connected"
  /\ phase[conn[c]] \in {"serving", "leaving", "nopid", "nosock"}
  /\ working' = working \cup {conn[c]}
  /\ Close(c)
  /\ UNCHANGED <<phase, history, sock, pidfile>>

(* A job is said and its answer read: accepted, or "allready running".     *)
SayJob(c) ==
  /\ at[c] = "connected"
  /\ phase[conn[c]] = "serving"
  /\ working' = working \cup {conn[c]}
  /\ Close(c)
  /\ UNCHANGED <<phase, history, sock, pidfile>>

(* A query, or a connection that the daemon did not live to serve.         *)
SayQuery(c) ==
  /\ at[c] = "connected"
  /\ phase[conn[c]] \in {"serving", "gone"}
  /\ Close(c)
  /\ UNCHANGED <<daemonVars, history, sock, pidfile>>

-----------------------------------------------------------------------------
Goto(d, from, to) == phase[d] = from /\ phase' = [phase EXCEPT ![d] = to]

(* Mutant: the main program leaves what is at SOCKNAME alone.              *)
UnlinkNothing(d) ==
  /\ Goto(d, "init", "unlinked")
  /\ UNCHANGED <<working, sock, pidfile, clientVars, history>>

(* The main program, from "unlink SOCKNAME" to loop_forever.               *)
UnlinkStale(d) ==
  /\ Goto(d, "init", "unlinked")
  /\ sock' = None
  /\ UNCHANGED <<working, pidfile, clientVars, history>>

Listen(d) ==
  /\ IF sock = None
       THEN Goto(d, "unlinked", "serving") /\ sock' = d
       ELSE Goto(d, "unlinked", "deaf") /\ UNCHANGED sock
  /\ UNCHANGED <<working, pidfile, clientVars, history>>

(* The worker returns; if its daemon is alive, on_return clears is_running.*)
JobEnds(d) ==
  /\ d \in working
  /\ working' = working \ {d}
  /\ UNCHANGED <<phase, sock, pidfile, clientVars, history>>

(* The worker is killed: on_error dies out of the loop, and the daemon     *)
(* leaves both of its files behind.                                        *)
WorkerKilled(d) ==
  /\ d \in working
  /\ Goto(d, "serving", "gone")
  /\ working' = working \ {d}
  /\ UNCHANGED <<sock, pidfile, clientVars, history>>

(* HUNTSMAN begins.                                                        *)
Leave(d) ==
  /\ phase[d] \in {"serving", "deaf"}
  /\ phase' = [phase EXCEPT ![d] = "leaving"]
  /\ UNCHANGED <<working, sock, pidfile, clientVars>>

(* Mutant: on_expire does not look at is_running.                          *)
ExpireUnchecked(d) == Leave(d) /\ UNCHANGED history

(* on_expire finds the daemon idle and calls HUNTSMAN.                     *)
Expire(d) == d \notin working /\ Leave(d) /\ UNCHANGED history

(* SIGINT calls HUNTSMAN, idle or not; a worker at work goes on until its  *)
(* next store to the status that is no longer shared.                      *)
Interrupt(d) ==
  /\ Leave(d)
  /\ struck' = struck \cup ({d} \cap working)
  /\ UNCHANGED crowded

UnlinkPidfile(d) ==
  /\ Goto(d, "leaving", "nopid")
  /\ pidfile' = None
  /\ UNCHANGED <<working, sock, clientVars, history>>

UnlinkSock(d) ==
  /\ Goto(d, "nopid", "nosock")
  /\ sock' = None
  /\ UNCHANGED <<working, pidfile, clientVars, history>>

(* Kill_Daemon kills the process that PIDFILE names now; the program ends. *)
KillDaemon(d) ==
  /\ phase[d] = "nosock"
  /\ phase' = [e \in Daemon |-> IF e \in {d, pidfile} THEN "gone" ELSE phase[e]]
  /\ UNCHANGED <<working, sock, pidfile, clientVars, history>>

ClientStep(c) == Connect(c) \/ Exec(c) \/ Retry(c) \/ SayJob(c) \/ SayQuery(c)

Startup(d) == UnlinkStale(d) \/ Listen(d)

Huntsman(d) == UnlinkPidfile(d) \/ UnlinkSock(d) \/ KillDaemon(d)

Next ==
  \/ \E c \in Client : ClientStep(c)
  \/ \E d \in Daemon :
       \/ Startup(d) \/ Huntsman(d)
       \/ JobEnds(d) \/ WorkerKilled(d) \/ Expire(d) \/ Interrupt(d)

(* Processes run.  Jobs may take any time, daemons may stay for ever.      *)
Fairness ==
  /\ \A d \in Daemon : WF_vars(Startup(d)) /\ WF_vars(Huntsman(d))
  /\ \A c \in Client : WF_vars(Exec(c)) /\ WF_vars(Retry(c))

Spec == Init /\ [][Next]_vars

FairSpec == Spec /\ Fairness

-----------------------------------------------------------------------------
(* The answer "allready running" keeps a second job from starting, also    *)
(* when the first was accepted by an earlier incarnation: disk jobs never  *)
(* work at the same time.                                                  *)
OneJobAtATime == \A d, e \in working : d = e

(* What is true of it: where two jobs work at the same time, one of their  *)
(* daemons has lived beside another daemon, or was interrupted with its    *)
(* job at work.  Daemons that come one after the other, in whatever state  *)
(* the last one left SOCKNAME and PIDFILE, keep their jobs apart.          *)
JobsKeepApart ==
  \A d, e \in working : d = e \/ {d, e} \cap (crowded \cup struck) # {}

(* A daemon that has lived beside no other is, while it is in its loop,    *)
(* the one that clients connect to and that PIDFILE names; and its worker, *)
(* unless it was interrupted, has it in its loop: whoever asks for the     *)
(* progress of that job is connected to the daemon that has it.            *)
JobsAreReachable ==
  \A d \in Daemon \ crowded :
    /\ phase[d] = "serving" => sock = d /\ pidfile = d
    /\ d \in working \ struck => phase[d] = "serving"

Left == {d \in Daemon : phase[d] \in {"leaving", "nopid", "nosock", "gone"}}

(* The loop of the constructor ends: a request that has executed a daemon  *)
(* gets its connection, whatever lay at SOCKNAME, unless that daemon has   *)
(* met another one, or has come and gone before the request tried again.   *)
ConnectReturns ==
  \A c \in Client :
    []<>(at[c] = "retry" => conn[c] \in crowded \cup Left)
=============================================================================
