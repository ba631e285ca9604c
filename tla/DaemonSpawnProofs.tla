------------------------- MODULE DaemonSpawnProofs -------------------------
(***************************************************************************)
(* Proofs about DaemonSpawn, for any clients and any supply of process     *)
(* numbers, with daemons that start, exit and are killed in any order.     *)
(* What is proved of a daemon that has lived beside no other rests on      *)
(* where it stands saying what is at SOCKNAME and PIDFILE.                 *)
(***************************************************************************)
EXTENDS DaemonSpawn, TLAPS

(* Daemons that live at the same time are crowded.                         *)
Crowds ==
  \A d, e \in Alive : d = e \/ {d, e} \subseteq crowded

(* The paths that lead to a daemon which is not.                           *)
Paths ==
  \A d \in Daemon \ crowded :
    /\ phase[d] # "deaf"
    /\ phase[d] \in {"init", "unlinked", "serving", "leaving"} => pidfile = d
    /\ phase[d] \in {"serving", "leaving", "nopid"} => sock = d
    /\ phase[d] = "unlinked" => sock = None

(* The worker of such a daemon has it in its loop.                         *)
Watched ==
  \A d \in Daemon \ crowded : d \in working \ struck => phase[d] = "serving"

Inv == Crowds /\ Paths /\ Watched

-----------------------------------------------------------------------------
USE SpawnAssumption

(* Types.                                                                  *)
THEOREM TypeCorrect == Spec => []TypeOK
<1>1. Init => TypeOK
  BY DEF Init, TypeOK, Phase
<1>2. TypeOK /\ [Next]_vars => TypeOK'
  <2> SUFFICES ASSUME TypeOK, [Next]_vars PROVE TypeOK'
    OBVIOUS
  <2> USE DEF TypeOK, Phase, daemonVars, clientVars, history, Goto, Move
  <2>1. ASSUME NEW c \in Client, ClientStep(c) PROVE TypeOK'
    <3>1. CASE Connect(c)
      BY <3>1 DEF Connect, Listening
    <3>2. CASE Exec(c)
      BY <3>2 DEF Exec, Alive
    <3>3. CASE Retry(c)
      BY <3>3 DEF Retry, Listening
    <3>4. CASE SayJob(c)
      BY <3>4 DEF SayJob, Close
    <3>5. CASE SayQuery(c)
      BY <3>5 DEF SayQuery, Close
    <3> QED
      BY <2>1, <3>1, <3>2, <3>3, <3>4, <3>5 DEF ClientStep
  <2>2. ASSUME NEW d \in Daemon, Startup(d) \/ Huntsman(d) PROVE TypeOK'
    BY <2>2 DEF Startup, UnlinkStale, Listen, Huntsman, UnlinkPidfile, UnlinkSock, KillDaemon
  <2>3. ASSUME NEW d \in Daemon, JobEnds(d) \/ WorkerKilled(d) PROVE TypeOK'
    BY <2>3 DEF JobEnds, WorkerKilled
  <2>5. ASSUME NEW d \in Daemon, Expire(d) \/ Interrupt(d) PROVE TypeOK'
    BY <2>5 DEF Expire, Interrupt, Leave
  <2>4. CASE UNCHANGED vars
    BY <2>4 DEF vars
  <2> QED
    BY <2>1, <2>2, <2>3, <2>4, <2>5 DEF Next
<1> QED
  BY <1>1, <1>2, PTL DEF Spec

-----------------------------------------------------------------------------
USE DEF Inv, Crowds, Paths, Watched, Alive

(* Before the first connect no daemon runs and no file is there.           *)
LEMMA InitInv == Init => Inv
BY DEF Init

(* A request executes a daemon: it is alone, or all that live are crowded. *)
LEMMA ExecInv ==
  ASSUME TypeOK, Inv, NEW c \in Client, Exec(c)
  PROVE  Inv'
<1> USE DEF TypeOK
<1>1. PICK d \in Daemon :
        /\ Unused(d) /\ phase' = [phase EXCEPT ![d] = "init"] /\ pidfile' = d
        /\ crowded' = IF Alive = {} THEN crowded \ {d} ELSE crowded \cup Alive \cup {d}
        /\ struck' = struck \ {d} /\ UNCHANGED <<working, sock>>
  BY DEF Exec
<1>2. d \notin working /\ phase'[d] = "init"
  BY <1>1 DEF Unused
<1>3. \A e \in Daemon : e # d => phase'[e] = phase[e]
  BY <1>1
<1>4. CASE Alive = {}
  <2>1. \A e \in Daemon : e # d => phase'[e] = "gone"
    BY <1>3, <1>4
  <2> QED
    BY <1>1, <1>2, <1>4, <2>1
<1>5. CASE Alive # {}
  <2>1. \A e \in Daemon \ crowded' : phase'[e] = "gone" /\ phase[e] = "gone" /\ e \notin crowded
    BY <1>1, <1>3, <1>5
  <2>2. Crowds'
    BY <1>1, <1>3, <1>5
  <2>3. Paths' /\ Watched'
    BY <1>1, <1>2, <2>1
  <2> QED
    BY <2>2, <2>3
<1> QED
  BY <1>4, <1>5

(* A step of a request.                                                    *)
LEMMA ClientInv ==
  ASSUME TypeOK, Inv, NEW c \in Client, ClientStep(c)
  PROVE  Inv'
<1> USE DEF TypeOK, Phase, daemonVars, clientVars, history, Move
<1>1. CASE Connect(c) \/ Retry(c) \/ SayQuery(c)
  BY <1>1 DEF Connect, Retry, SayQuery, Close
<1>2. CASE Exec(c)
  BY <1>2, ExecInv
<1>3. CASE SayJob(c)
  BY <1>3 DEF SayJob, Close
<1> QED
  BY <1>1, <1>2, <1>3 DEF ClientStep

(* A step of a daemon or of its worker.  A daemon that lives beside        *)
(* another is crowded, and so is the other, whatever it does to its files. *)
LEMMA DaemonInv ==
  ASSUME TypeOK, Inv, NEW d \in Daemon,
         \/ Startup(d) \/ Huntsman(d)
         \/ JobEnds(d) \/ WorkerKilled(d) \/ Expire(d) \/ Interrupt(d)
  PROVE  Inv'
<1> USE DEF TypeOK, Phase, daemonVars, clientVars, history, Goto
<1>1. CASE UnlinkStale(d)
  BY <1>1 DEF UnlinkStale
<1>2. CASE Listen(d)
  BY <1>2 DEF Listen
<1>3. CASE UnlinkPidfile(d)
  BY <1>3 DEF UnlinkPidfile
<1>4. CASE UnlinkSock(d)
  BY <1>4 DEF UnlinkSock
<1>5. CASE KillDaemon(d)
  BY <1>5 DEF KillDaemon
<1>6. CASE JobEnds(d)
  BY <1>6 DEF JobEnds
<1>7. CASE WorkerKilled(d)
  BY <1>7 DEF WorkerKilled
<1>8. CASE Expire(d)
  BY <1>8 DEF Expire, Leave
<1>9. CASE Interrupt(d)
  BY <1>9 DEF Interrupt, Leave
<1> QED
  BY <1>1, <1>2, <1>3, <1>4, <1>5, <1>6, <1>7, <1>8, <1>9 DEF Startup, Huntsman

(* The invariant holds, whatever daemons come and go beside each other.    *)
LEMMA Invariance == Spec => []Inv
<1>1. TypeOK /\ Inv /\ [Next]_vars => Inv'
  <2> SUFFICES ASSUME TypeOK, Inv, [Next]_vars PROVE Inv'
    OBVIOUS
  <2>1. CASE UNCHANGED vars
    BY <2>1 DEF vars
  <2>2. CASE Next
    BY <2>2, ClientInv, DaemonInv DEF Next
  <2> QED
    BY <2>1, <2>2
<1> HIDE DEF Inv
<1> QED
  BY <1>1, InitInv, TypeCorrect, PTL DEF Spec

-----------------------------------------------------------------------------
(* Where two jobs work at the same time, one of their daemons has lived    *)
(* beside another, or was interrupted with its job at work.                *)
THEOREM JobsKeepApartHolds == Spec => []JobsKeepApart
<1>1. Inv /\ TypeOK => JobsKeepApart
  BY DEF JobsKeepApart, TypeOK
<1> HIDE DEF Inv
<1> QED
  BY <1>1, Invariance, TypeCorrect, PTL

(* A daemon in its loop that has lived beside no other is the one that     *)
(* SOCKNAME and PIDFILE lead to, and the worker of one that was not        *)
(* interrupted has it in its loop.                                         *)
THEOREM JobsAreReachableHolds == Spec => []JobsAreReachable
<1>1. Inv => JobsAreReachable
  BY DEF JobsAreReachable
<1> HIDE DEF Inv
<1> QED
  BY <1>1, Invariance, PTL
=============================================================================
