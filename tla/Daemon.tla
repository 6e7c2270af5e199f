------------------------------- MODULE Daemon -------------------------------
(***************************************************************************)
(* System::startDaemon: the daemon forks the server, waits for its end and *)
(* forks the next.  Both handle SIGINT: the daemon passes it on to the     *)
(* child in its static pid and exits, the server leaves its main.  The     *)
(* server runs the up and down scripts as children of its own (Process).   *)
(*                                                                         *)
(* A SIGINT may come at any moment: from the service manager to the daemon *)
(* alone, from a terminal to the whole group.  A child inherits the        *)
(* daemon's handler and its pid until it sets its own.                     *)
(***************************************************************************)
EXTENDS Process, Integers, FiniteSets

CONSTANT Servers   \* ids of the server processes

ASSUME TwoServers == Cardinality(Servers) >= 2

Nobody == "nobody"   \* pid is -1, or not assigned yet

VARIABLES
  daemon,     \* fork, assign, install, wait, pause; gone, or done
  handler,    \* the daemon's SIGINT handler is installed
  pid,        \* its static pid
  server,     \* of each id: free, forked, new, serving, leaving or zombie
  stopped,    \* ghost: the daemon has been told to stop
  unarmed     \* ghost: it was told between a fork and the handler or the id

daemonVars == <<daemon, handler, pid, server, stopped, unarmed>>
systemVars == <<procVars, daemonVars>>

SystemInit ==
  /\ ProcInit
  /\ daemon = "fork" /\ handler = FALSE /\ pid = Nobody
  /\ server = [v \in Servers |-> "free"]
  /\ stopped = FALSE /\ unarmed = FALSE

Alive(v) == server[v] \in {"forked", "new", "serving", "leaving"}
Running == \E v \in Servers : server[v] \in {"serving", "leaving"}

Child == CHOOSE v \in Servers : server[v] # "free"

DaemonStep(from, to) == daemon = from /\ daemon' = to

(* fork; the id of a reaped child may be given again. *)
Fork(v) ==
  /\ DaemonStep("fork", "assign")
  /\ server[v] = "free"
  /\ server' = [server EXCEPT ![v] = "forked"]
  /\ UNCHANGED <<handler, pid, stopped, unarmed, procVars>>

ForkFails ==
  /\ DaemonStep("fork", "pause")
  /\ pid' = Nobody
  /\ UNCHANGED <<handler, server, stopped, unarmed, procVars>>

(* Mutant: the child's id is not kept after the first time. *)
Assign_Once ==
  /\ DaemonStep("assign", "install")
  /\ pid' = IF handler THEN pid ELSE Child
  /\ UNCHANGED <<handler, server, stopped, unarmed, procVars>>

(* fork's result is assigned to pid in the daemon ... *)
Assign ==
  /\ DaemonStep("assign", "install")
  /\ pid' = Child
  /\ UNCHANGED <<handler, server, stopped, unarmed, procVars>>

(* ... and in the child. *)
ChildAssigns(v) ==
  /\ server[v] = "forked"
  /\ server' = [server EXCEPT ![v] = "new"]
  /\ UNCHANGED <<daemon, handler, pid, stopped, unarmed, procVars>>

Install ==
  /\ DaemonStep("install", "wait")
  /\ handler' = TRUE
  /\ UNCHANGED <<pid, server, stopped, unarmed, procVars>>

(* main sets the server's own handler. *)
ServerInstalls(v) ==
  /\ server[v] = "new"
  /\ server' = [server EXCEPT ![v] = "serving"]
  /\ UNCHANGED <<daemon, handler, pid, stopped, unarmed, procVars>>

(* Mutant: an ended child ends the daemon's loop. *)
Reap_Once ==
  /\ DaemonStep("wait", "done")
  /\ pid \in Servers /\ server[pid] = "zombie"
  /\ server' = [server EXCEPT ![pid] = "free"]
  /\ UNCHANGED <<handler, pid, stopped, unarmed, procVars>>

Reap ==
  /\ DaemonStep("wait", "pause")
  /\ pid \in Servers /\ server[pid] = "zombie"
  /\ server' = [server EXCEPT ![pid] = "free"]
  /\ UNCHANGED <<handler, pid, stopped, unarmed, procVars>>

(* Three seconds after a child, one second after a failure. *)
Wake ==
  /\ DaemonStep("pause", "fork")
  /\ UNCHANGED <<handler, pid, server, stopped, unarmed, procVars>>

(* A child that has ended waits for the daemon; without it init reaps it.  *)
EndedState(parent) == IF parent = "gone" THEN "free" ELSE "zombie"

(* The servers after those told get a SIGINT: the server's own handler     *)
(* lets it leave and is set only once; the daemon's, inherited, exits, and *)
(* so does the default.                                                    *)
AfterSigint(told, parent) ==
  [v \in Servers |->
     CASE server[v] = "zombie"                         -> EndedState(parent)
       [] v \in told /\ server[v] = "serving"          -> "leaving"
       [] v \in told /\ server[v] \in {"forked", "new"} -> EndedState(parent)
       [] OTHER                                        -> server[v]]

(* The daemon, its handler installed, passes the signal to pid and exits;  *)
(* before that it is ended by default.                                     *)
Passed == IF handler THEN {pid} \cap Servers ELSE {}

Interrupted(servers) ==
  /\ daemon # "gone"
  /\ daemon' = "gone"
  /\ server' = AfterSigint(servers, "gone")
  /\ stopped' = TRUE
  /\ unarmed' = (daemon = "assign" \/ ~handler)
  /\ UNCHANGED <<handler, pid, procVars>>

(* To the daemon alone: ExecStop of the service. *)
StopService == Interrupted(Passed)

(* To the whole group; the scripts may end. *)
TerminalInterrupt == Interrupted(Servers)

(* The server leaves main, or crashes; with it go its threads.             *)
ServerEnds(v) ==
  /\ Alive(v)
  /\ server' = [server EXCEPT ![v] = EndedState(daemon)]
  /\ IF server[v] \in {"serving", "leaving"} THEN ParentEnds ELSE UNCHANGED procVars
  /\ UNCHANGED <<daemon, handler, pid, stopped, unarmed>>

Scripts ==
  /\ Running /\ \E o \in Objects : UserStep(o)
  /\ UNCHANGED daemonVars

Pollers ==
  /\ Running /\ \E p \in Pids : PollerStep(p)
  /\ UNCHANGED daemonVars

ScriptStarts(p) == RunChildProcess(p) /\ UNCHANGED daemonVars
ScriptEnds(p) == Ends(p) /\ UNCHANGED daemonVars

Daemon == Assign \/ Install \/ Reap \/ Wake

SystemNext ==
  \/ \E v \in Servers : Fork(v) \/ ChildAssigns(v) \/ ServerInstalls(v) \/ ServerEnds(v)
  \/ ForkFails \/ Daemon
  \/ StopService \/ TerminalInterrupt
  \/ Scripts \/ Pollers \/ \E p \in Pids : ScriptStarts(p) \/ ScriptEnds(p)

SystemSpec == SystemInit /\ [][SystemNext]_systemVars

(* The daemon's loop runs on, and fork does not fail for ever; the server's *)
(* timers fire and a KILL ends its child.                                   *)
SystemFairSpec ==
  /\ SystemSpec
  /\ WF_systemVars(Daemon)
  /\ SF_systemVars(\E v \in Servers : Fork(v))
  /\ \A p \in Pids :
       /\ WF_systemVars(Running /\ PollerStep(p) /\ UNCHANGED daemonVars)
       /\ WF_systemVars(life[p] = "dying" /\ ScriptEnds(p))

(***************************************************************************)
(* Properties.                                                             *)
(***************************************************************************)
(* Nothing of the program runs on when the daemon has been told to stop:   *)
(* every server is gone or has been told, whichever of them the daemon had *)
(* forked last and whatever the server had set up by then.  Excused is a   *)
(* signal between a fork and the assignment of its result, or before the   *)
(* first handler (System.cpp:52-73, main.cpp:96-100).                      *)
StoppedTogether ==
  stopped /\ ~unarmed => \A v \in Servers : server[v] \in {"free", "leaving"}

(* A server that has ended is followed by another, as long as the daemon   *)
(* is not told to stop and however often fork fails (System.cpp:52-88).    *)
Restarted == (\A v \in Servers : ~Alive(v)) ~> stopped \/ \E v \in Servers : Alive(v)
=============================================================================
