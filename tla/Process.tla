------------------------------ MODULE Process -------------------------------
(***************************************************************************)
(* Process: a child that is run, waited for and killed.  Each object is    *)
(* used by one thread; a kill that is not forced leaves a task behind on a *)
(* poller, which looks after the child two seconds later, when the object  *)
(* may be gone.  A child may end at any time, and need not end for a TERM. *)
(*                                                                         *)
(* The kernel is taken not to give an id again while an object or a task   *)
(* remembers it.                                                           *)
(***************************************************************************)
CONSTANTS
  Objects,   \* Process objects
  Pids,      \* process ids for the children
  NoPid      \* -1

ASSUME NoPidAssumption == NoPid \notin Pids

VARIABLES
  life,      \* of each id: free, cloned (not yet its command), running,
             \* dying (got KILL), zombie, orphan
  _pid,      \* of each object
  busy,      \* what its thread is in: none, run, wait or reap
  checks,    \* children with a delayed task that looks after them
  forced     \* children a poller has killed and waits for

procVars == <<life, _pid, busy, checks, forced>>

ProcInit ==
  /\ life = [p \in Pids |-> "free"]
  /\ _pid = [o \in Objects |-> NoPid]
  /\ busy = [o \in Objects |-> "none"]
  /\ checks = {} /\ forced = {}

(* A child that nothing has killed yet. *)
Young == {"cloned", "running"}

Remembered(p) == p \in checks \cup forced \/ \E o \in Objects : _pid[o] = p

(* Mutant: the child is told to end, and nobody looks after it. *)
Terminate_Forgets(p) == UNCHANGED <<life, checks>>

(* s_kill without force: TERM, and a task that looks after the child; none *)
(* when it has been reaped.                                                *)
Terminate(p) ==
  /\ checks' = IF life[p] = "free" THEN checks ELSE checks \cup {p}
  /\ UNCHANGED life

(* Mutant: the object goes on using the child it has told to end. *)
Kill_KeepsId(o) ==
  /\ busy[o] = "none" /\ _pid[o] # NoPid
  /\ Terminate(_pid[o])
  /\ UNCHANGED <<_pid, busy, forced>>

(* Process::kill, the destructor's too. *)
Kill(o) ==
  /\ busy[o] = "none" /\ _pid[o] # NoPid
  /\ Terminate(_pid[o])
  /\ _pid' = [_pid EXCEPT ![o] = NoPid]
  /\ UNCHANGED <<busy, forced>>

(* With force: KILL, and its thread waits for the end; a child that has    *)
(* been reaped is left alone.                                              *)
KillForced(o) ==
  /\ busy[o] = "none" /\ _pid[o] # NoPid
  /\ IF life[_pid[o]] = "free"
     THEN /\ _pid' = [_pid EXCEPT ![o] = NoPid]
          /\ UNCHANGED <<life, busy>>
     ELSE /\ life' = [life EXCEPT ![_pid[o]] = IF @ = "zombie" THEN @ ELSE "dying"]
          /\ busy' = [busy EXCEPT ![o] = "reap"]
          /\ UNCHANGED _pid
  /\ UNCHANGED <<checks, forced>>

KillReaps(o) ==
  /\ busy[o] = "reap" /\ life[_pid[o]] = "zombie"
  /\ life' = [life EXCEPT ![_pid[o]] = "free"]
  /\ _pid' = [_pid EXCEPT ![o] = NoPid]
  /\ busy' = [busy EXCEPT ![o] = "none"]
  /\ UNCHANGED <<checks, forced>>

(* run kills the child there is, then clones. *)
Run(o) ==
  /\ busy[o] = "none"
  /\ busy' = [busy EXCEPT ![o] = "run"]
  /\ IF _pid[o] = NoPid THEN UNCHANGED <<life, checks>> ELSE Terminate(_pid[o])
  /\ _pid' = [_pid EXCEPT ![o] = NoPid]
  /\ UNCHANGED forced

Clone(o, p) ==
  /\ busy[o] = "run"
  /\ life[p] = "free" /\ ~Remembered(p)
  /\ life' = [life EXCEPT ![p] = "cloned"]
  /\ _pid' = [_pid EXCEPT ![o] = p]
  /\ busy' = [busy EXCEPT ![o] = "none"]
  /\ UNCHANGED <<checks, forced>>

CloneFails(o) ==
  /\ busy[o] = "run"
  /\ busy' = [busy EXCEPT ![o] = "none"]
  /\ UNCHANGED <<life, _pid, checks, forced>>

(* wait, blocking: it returns when the child has ended and is reaped, or   *)
(* had been before; the id is kept.                                        *)
Wait(o) ==
  /\ busy[o] = "none" /\ _pid[o] # NoPid
  /\ busy' = [busy EXCEPT ![o] = "wait"]
  /\ UNCHANGED <<life, _pid, checks, forced>>

WaitReturns(o) ==
  /\ busy[o] = "wait" /\ life[_pid[o]] \in {"free", "zombie"}
  /\ life' = [life EXCEPT ![_pid[o]] = "free"]
  /\ busy' = [busy EXCEPT ![o] = "none"]
  /\ UNCHANGED <<_pid, checks, forced>>

(* wait that does not block reaps a child that has ended. *)
Poll(o) ==
  /\ busy[o] = "none" /\ _pid[o] # NoPid
  /\ life[_pid[o]] = "zombie"
  /\ life' = [life EXCEPT ![_pid[o]] = "free"]
  /\ UNCHANGED <<_pid, busy, checks, forced>>

(* The delayed task: what has ended is reaped, what still runs is killed,  *)
(* and the poller waits for its end.                                       *)
Check(p) ==
  /\ p \in checks
  /\ checks' = checks \ {p}
  /\ CASE life[p] = "zombie"  -> life' = [life EXCEPT ![p] = "free"] /\ UNCHANGED forced
       [] life[p] \in Young    -> life' = [life EXCEPT ![p] = "dying"] /\ forced' = forced \cup {p}
       [] OTHER               -> UNCHANGED <<life, forced>>
  /\ UNCHANGED <<_pid, busy>>

ForcedReaps(p) ==
  /\ p \in forced /\ life[p] = "zombie"
  /\ life' = [life EXCEPT ![p] = "free"]
  /\ forced' = forced \ {p}
  /\ UNCHANGED <<_pid, busy, checks>>

(* The cloned child resets its signals, turns its output to the log file   *)
(* and executes the command; it ends when that is not possible.  What it   *)
(* does with its copy of the memory is not seen by its parent.             *)
RunChildProcess(p) ==
  /\ life[p] = "cloned"
  /\ \E outcome \in {"running", "zombie"} : life' = [life EXCEPT ![p] = outcome]
  /\ UNCHANGED <<_pid, busy, checks, forced>>

(* The child ends by itself, for the TERM or for the KILL.  Without its    *)
(* parent it is reaped by init.                                            *)
Ends(p) ==
  /\ life[p] \in Young \cup {"dying", "orphan"}
  /\ life' = [life EXCEPT ![p] = IF @ = "orphan" THEN "free" ELSE "zombie"]
  /\ UNCHANGED <<_pid, busy, checks, forced>>

(* The process with the objects and the pollers ends. *)
ParentEnds ==
  /\ life' = [p \in Pids |-> IF life[p] \in {"free", "zombie"} THEN "free" ELSE "orphan"]
  /\ _pid' = [o \in Objects |-> NoPid]
  /\ busy' = [o \in Objects |-> "none"]
  /\ checks' = {} /\ forced' = {}

UserStep(o) ==
  \/ Run(o) \/ (\E p \in Pids : Clone(o, p)) \/ CloneFails(o)
  \/ Wait(o) \/ WaitReturns(o) \/ Poll(o)
  \/ Kill(o) \/ KillForced(o) \/ KillReaps(o)

PollerStep(p) == Check(p) \/ ForcedReaps(p)

(***************************************************************************)
(* Properties.                                                             *)
(***************************************************************************)
(* A child whose object has killed it, replaced it or been destroyed is    *)
(* ended and reaped, even if it ignores TERM, unless the whole program     *)
(* ends before: no child runs on or stays a zombie for good                *)
(* (Process.cpp:269-334).                                                  *)
ForgottenEnd ==
  \A p \in Pids :
    life[p] \in Young \cup {"dying", "zombie"} /\ (\A o \in Objects : _pid[o] # p)
      ~> life[p] \in {"free", "orphan"}

(* A child is reaped only by the one that is responsible for it: nobody    *)
(* waits for an id that has been reaped under its hands and may be another *)
(* process's by now (Process.cpp:189-235, 294-311).                        *)
OneReaper ==
  \A p \in Pids :
    /\ p \in checks \cup forced => \A o \in Objects : _pid[o] # p
    /\ p \in forced => p \notin checks /\ life[p] \in {"dying", "zombie"}
    /\ \A o \in Objects : _pid[o] = p /\ busy[o] # "none" => life[p] # "free" \/ busy[o] = "wait"
=============================================================================
