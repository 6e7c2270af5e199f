----------------------------- MODULE TunServer ------------------------------
(***************************************************************************)
(* The tunnel server: websocket sessions (TunWsSession.h) that take an     *)
(* address of the pool (TunAddrAlloc.h), install a routing rule for it     *)
(* (TalusTunInterface::AddDispatcher) and exchange packets with the tun    *)
(* device, whose packets the tun poller dispatches by destination.         *)
(*                                                                         *)
(* Every session runs its handlers on its own poller thread, the tun       *)
(* poller is one more thread.  Between two accesses to what they share     *)
(* (m_currIndex, m_allocAddr, m_routerRules) any other thread may run: a   *)
(* handler is a sequence of steps told apart by pc.  m_allocAddrMtx is     *)
(* held by the thread whose pc is name or store; AllocAddr writes          *)
(* m_currIndex once without it.  What a session posts                      *)
(* with getPoller()->async waits in tasks until the session's thread has   *)
(* finished the handler it is in.                                          *)
(***************************************************************************)
EXTENDS Integers, Sequences

CONSTANTS
  Sessions,     \* connections that completed the websocket upgrade
  Begin, End,   \* addr_alloc begin and end: the last octets of the pool
  ConfigIpOk,   \* the configured ip matches the regex of AllocAddr
  Garbage,      \* what an uninitialised sockaddr_storage may hold
  Dests,        \* destinations of the packets read from the tun device
  TunQCap,      \* bound on the tasks waiting on the tun poller
  TaskCap       \* bound on the packets waiting on one session's poller

Addrs  == Begin..End
NoAddr == -1    \* the empty string AllocAddr returns when it fails

ASSUME PoolAssumption == Begin \in Nat /\ End \in Nat
ASSUME GarbageAssumption == Garbage \subseteq Int
ASSUME DestsAssumption == Dests \subseteq Int
ASSUME ConfigAssumption == ConfigIpOk \in BOOLEAN
ASSUME CapAssumption == TunQCap \in Nat \ {0} /\ TaskCap \in Nat \ {0}

VARIABLES
  up,           \* the server process runs
  m_currIndex,  \* TunAddrAlloc: where the next search starts
  m_allocAddr,  \* TunAddrAlloc: the keys of the map of allocated addresses
  rules,        \* TalusTunInterface::m_routerRules: records key, addr, sess
  tunQ,         \* tasks waiting on the tun poller
  conn,         \* life of each session: none, open, closing, errored, gone
  m_config,     \* TunWsSession: the peer has asked for its configuration
  m_addr,       \* TunWsSession: the address it was given last
  pc,           \* where in its handler the session's thread is
  idx,          \* AllocAddr's loop variable i, at store the number in allocIp;
                \* -1 outside the loop
  tasks,        \* destinations of the packets posted to the session's poller
  replied,      \* ghost: addresses the peer has been told it has
  delivered,    \* ghost: destinations of the packets sent to the peer
  leaked,       \* ghost: addresses overwritten in m_addr, never given back
  ever,         \* ghost: addresses handed out since the process started
  failed,       \* ghost: some AllocAddr returned the empty string
  raced         \* ghost: m_currIndex was changed under a thread with the lock

poolVars  == <<m_currIndex, m_allocAddr, ever, raced>>
tunVars   == <<rules, tunQ>>
ghostVars == <<replied, delivered, leaked, failed>>
sessVars  == <<conn, m_config, m_addr, pc, idx, tasks>>
vars == <<up, m_currIndex, m_allocAddr, rules, tunQ, conn, m_config, m_addr,
          pc, idx, tasks, replied, delivered, leaked, ever, failed, raced>>

Live(s) == conn[s] \in {"open", "closing"}

Rule == [key : Int, addr : Int, sess : Sessions]

Init ==
  /\ up = TRUE
  /\ m_currIndex = -1
  /\ m_allocAddr = {}
  /\ rules = {}
  /\ tunQ = <<>>
  /\ conn = [s \in Sessions |-> "none"]
  /\ m_config = [s \in Sessions |-> FALSE]
  /\ m_addr = [s \in Sessions |-> NoAddr]
  /\ pc = [s \in Sessions |-> "idle"]
  /\ idx = [s \in Sessions |-> -1]
  /\ tasks = [s \in Sessions |-> <<>>]
  /\ replied = [s \in Sessions |-> {}]
  /\ delivered = [s \in Sessions |-> {}]
  /\ leaked = [s \in Sessions |-> {}]
  /\ ever = {}
  /\ failed = FALSE
  /\ raced = FALSE

(***************************************************************************)
(* A session's thread.                                                     *)
(***************************************************************************)
At(s, label) == pc[s] = label
Goto(s, label) == pc' = [pc EXCEPT ![s] = label]

(* The upgrade succeeded: the session object is made and attached. *)
Accept(s) ==
  /\ conn[s] = "none"
  /\ conn' = [conn EXCEPT ![s] = "open"]
  /\ UNCHANGED <<up, poolVars, tunVars, ghostVars, m_config, m_addr, pc, idx, tasks>>

(* onRecv of GetTalusTunConfig, up to the call of AllocAddr. *)
RecvConfigRequest(s) ==
  /\ conn[s] = "open" /\ At(s, "idle")
  /\ m_config' = [m_config EXCEPT ![s] = TRUE]
  /\ Goto(s, "check")
  /\ UNCHANGED <<up, poolVars, tunVars, ghostVars, conn, m_addr, idx, tasks>>

(* onRecv of anything else: a packet for the tun device.  Before the       *)
(* configuration it is dropped, which changes nothing.                     *)
RecvData(s) ==
  /\ conn[s] = "open" /\ At(s, "idle")
  /\ m_config[s]
  /\ Len(tunQ) < TunQCap
  /\ tunQ' = Append(tunQ, [op |-> "write", dst |-> NoAddr])
  /\ UNCHANGED <<up, poolVars, rules, ghostVars, sessVars>>

(* AllocAddr reads m_currIndex without the lock ... *)
CheckCursor(s) ==
  /\ At(s, "check")
  /\ Goto(s, IF m_currIndex < 0 THEN "init" ELSE "snap")
  /\ UNCHANGED <<up, poolVars, tunVars, ghostVars, conn, m_config, m_addr, idx, tasks>>

(* A thread that has m_allocAddrMtx and has found its address. *)
Inside(s) == pc[s] \in {"name", "store"}

LockFree == \A s \in Sessions : ~Inside(s)

(* ... writes it without the lock ... *)
InitCursor(s) ==
  /\ At(s, "init")
  /\ m_currIndex' = Begin
  /\ raced' = (raced \/ (m_currIndex # Begin /\ ~LockFree))
  /\ Goto(s, "snap")
  /\ UNCHANGED <<up, m_allocAddr, ever, tunVars, ghostVars, conn, m_config, m_addr, idx, tasks>>

(* The address the session held is forgotten when m_addr is assigned. *)
Overwrite(s, a) ==
  /\ m_addr' = [m_addr EXCEPT ![s] = a]
  /\ leaked' = [leaked EXCEPT ![s] = @ \cup ({m_addr[s]} \ {NoAddr})]

(* AllocAddr returns the empty string. *)
AllocFails(s) ==
  /\ Overwrite(s, NoAddr)
  /\ failed' = TRUE
  /\ Goto(s, "rule")

(* ... and copies it into the loop variable, unless the configured ip is   *)
(* no dotted quad.                                                         *)
SnapCursor(s) ==
  /\ At(s, "snap")
  /\ IF ConfigIpOk
     THEN /\ idx' = [idx EXCEPT ![s] = m_currIndex]
          /\ Goto(s, "loop")
          /\ UNCHANGED <<m_addr, leaked, failed>>
     ELSE AllocFails(s) /\ UNCHANGED idx
  /\ UNCHANGED <<up, poolVars, tunVars, replied, delivered, conn, m_config, tasks>>

(* Mutant: the lock is taken only after the search. *)
TakeIndex_Unlocked(s) ==
  /\ At(s, "loop") /\ idx[s] <= End
  /\ LockFree
  /\ m_currIndex' = idx[s]
  /\ Goto(s, "name")
  /\ UNCHANGED <<up, m_allocAddr, ever, raced, tunVars, ghostVars, conn, m_config, m_addr, idx, tasks>>

(* One turn of the loop, under the lock: the address is free, and the      *)
(* cursor is set to it ...                                                 *)
TakeIndex(s) ==
  /\ At(s, "loop") /\ idx[s] <= End
  /\ LockFree
  /\ idx[s] \notin m_allocAddr
  /\ m_currIndex' = idx[s]
  /\ Goto(s, "name")
  /\ UNCHANGED <<up, m_allocAddr, ever, raced, tunVars, ghostVars, conn, m_config, m_addr, idx, tasks>>

(* ... the cursor is read again for the address ... *)
NameAddr(s) ==
  /\ At(s, "name")
  /\ idx' = [idx EXCEPT ![s] = m_currIndex]
  /\ Goto(s, "store")
  /\ UNCHANGED <<up, poolVars, tunVars, ghostVars, conn, m_config, m_addr, tasks>>

(* ... and once more for the key; the lock is released. *)
StoreAddr(s) ==
  /\ At(s, "store")
  /\ m_allocAddr' = m_allocAddr \cup {m_currIndex}
  /\ ever' = ever \cup {idx[s]}
  /\ Overwrite(s, idx[s])
  /\ idx' = [idx EXCEPT ![s] = -1]
  /\ Goto(s, "rule")
  /\ UNCHANGED <<up, m_currIndex, raced, tunVars, replied, delivered, failed, conn, m_config, tasks>>

(* Mutant: the loop's step is two. *)
SkipIndex_ByTwo(s) ==
  /\ At(s, "loop") /\ idx[s] <= End
  /\ LockFree
  /\ idx[s] \in m_allocAddr
  /\ idx' = [idx EXCEPT ![s] = @ + 2]
  /\ UNCHANGED <<up, poolVars, tunVars, ghostVars, conn, m_config, m_addr, pc, tasks>>

(* Mutant: the loop does not step. *)
SkipIndex_Stuck(s) ==
  /\ At(s, "loop") /\ idx[s] <= End
  /\ LockFree
  /\ idx[s] \in m_allocAddr
  /\ UNCHANGED vars

(* ... or it is taken and the next one is tried, under a new lock. *)
SkipIndex(s) ==
  /\ At(s, "loop") /\ idx[s] <= End
  /\ LockFree
  /\ idx[s] \in m_allocAddr
  /\ idx' = [idx EXCEPT ![s] = @ + 1]
  /\ UNCHANGED <<up, poolVars, tunVars, ghostVars, conn, m_config, m_addr, pc, tasks>>

(* The loop ran past the end of the range. *)
Exhaust(s) ==
  /\ At(s, "loop") /\ idx[s] > End
  /\ idx' = [idx EXCEPT ![s] = -1]
  /\ AllocFails(s)
  /\ UNCHANGED <<up, poolVars, tunVars, replied, delivered, conn, m_config, tasks>>

(* Mutant: map::insert, which leaves a rule that is there. *)
AddDispatcher_Insert(s, k, a) ==
  rules' = IF \E r \in rules : r.key = k THEN rules
           ELSE rules \cup {[key |-> k, addr |-> a, sess |-> s]}

(* m_routerRules[k] = dispatcher, for a dispatcher to session s with m_addr a *)
AddDispatcher(s, k, a) ==
  rules' = {r \in rules : r.key # k} \cup {[key |-> k, addr |-> a, sess |-> s]}

(* makeDispatcher and AddDispatcher each resolve the address: for the      *)
(* empty string getDomainIP fails and leaves the storage uninitialised.    *)
InstallRule(s) ==
  /\ At(s, "rule")
  /\ IF m_addr[s] # NoAddr
     THEN AddDispatcher(s, m_addr[s], m_addr[s])
     ELSE \E k, a \in Garbage : AddDispatcher(s, k, a)
  /\ Goto(s, "reply")
  /\ UNCHANGED <<up, poolVars, tunQ, ghostVars, conn, m_config, m_addr, idx, tasks>>

(* The configuration is sent; the handler returns. *)
SendReply(s) ==
  /\ At(s, "reply")
  /\ replied' = [replied EXCEPT ![s] = @ \cup ({m_addr[s]} \ {NoAddr})]
  /\ Goto(s, "idle")
  /\ UNCHANGED <<up, poolVars, tunVars, delivered, leaked, failed, conn, m_config, m_addr, idx, tasks>>

(* A packet posted by the dispatcher's callback is sent to the peer; once  *)
(* the socket has failed, send does nothing.                               *)
RunTask(s) ==
  /\ Live(s) /\ At(s, "idle")
  /\ tasks[s] # <<>>
  /\ delivered' = [delivered EXCEPT ![s] =
                     IF conn[s] = "open" THEN @ \cup {Head(tasks[s])} ELSE @]
  /\ tasks' = [tasks EXCEPT ![s] = Tail(@)]
  /\ UNCHANGED <<up, poolVars, tunVars, replied, leaked, failed, conn, m_config, m_addr, pc, idx>>

(* The task holds a raw this and the session is destroyed: the process     *)
(* crashes or the packet is lost.                                          *)
StaleTask(s) ==
  /\ conn[s] = "gone"
  /\ tasks[s] # <<>>
  /\ tasks' = [tasks EXCEPT ![s] = Tail(@)]
  /\ up' \in BOOLEAN
  /\ UNCHANGED <<poolVars, tunVars, ghostVars, conn, m_config, m_addr, pc, idx>>

(* The peer closes or the socket fails: onError is posted. *)
PeerCloses(s) ==
  /\ conn[s] = "open" /\ At(s, "idle")
  /\ conn' = [conn EXCEPT ![s] = "closing"]
  /\ UNCHANGED <<up, poolVars, tunVars, ghostVars, m_config, m_addr, pc, idx, tasks>>

(* The two-second timer finds ten seconds passed without a request.  The   *)
(* clock is abstract: they may have passed at any call.                    *)
OnManager(s) ==
  /\ conn[s] = "open" /\ At(s, "idle")
  /\ ~m_config[s]
  /\ conn' = [conn EXCEPT ![s] = "closing"]
  /\ UNCHANGED <<up, poolVars, tunVars, ghostVars, m_config, m_addr, pc, idx, tasks>>

(* Mutant: the regex of releaseAddr rejects every address. *)
ReleaseAddr_Rejects(a) == UNCHANGED m_allocAddr

(* releaseAddr: the empty string is rejected by the regex. *)
ReleaseAddr(a) == m_allocAddr' = m_allocAddr \ {a}

(* onError: neither the rule nor m_config is touched. *)
OnError(s) ==
  /\ conn[s] = "closing" /\ At(s, "idle")
  /\ m_config[s] /\ m_addr[s] # NoAddr => LockFree
  /\ IF m_config[s] THEN ReleaseAddr(m_addr[s]) ELSE UNCHANGED m_allocAddr
  /\ conn' = [conn EXCEPT ![s] = "errored"]
  /\ UNCHANGED <<up, m_currIndex, ever, raced, tunVars, ghostVars, m_config, m_addr, pc, idx, tasks>>

(* The server drops the last reference to the session. *)
Destroy(s) ==
  /\ conn[s] = "errored"
  /\ conn' = [conn EXCEPT ![s] = "gone"]
  /\ UNCHANGED <<up, poolVars, tunVars, ghostVars, m_config, m_addr, pc, idx, tasks>>

(***************************************************************************)
(* The tun device and its poller.                                          *)
(***************************************************************************)
(* The reader thread hands a packet to the tun poller. *)
TunRead(d) ==
  /\ Len(tunQ) < TunQCap
  /\ tunQ' = Append(tunQ, [op |-> "dispatch", dst |-> d])
  /\ UNCHANGED <<up, poolVars, rules, ghostVars, sessVars>>

(* TunIO::Send: a session's packet is written to the device. *)
TunWrite ==
  /\ tunQ # <<>> /\ Head(tunQ).op = "write"
  /\ tunQ' = Tail(tunQ)
  /\ UNCHANGED <<up, poolVars, rules, ghostVars, sessVars>>

(* Mutant: the mask of a rule is 0 where it should be 32. *)
FirstMatch_AnyAddress(d) == {r \in rules : \A q \in rules : r.key <= q.key}

(* The rule the loop of Dispatch stops at: the first in key order whose    *)
(* address is the destination (every session's mask is 32).                *)
FirstMatch(d) ==
  {r \in rules : /\ r.addr = d
                 /\ \A q \in rules : q.addr = d => r.key <= q.key}

(* A session's callback on the tun poller, its object still there. *)
Callback(s, d) ==
  /\ Len(tasks[s]) < TaskCap
  /\ tasks' = [tasks EXCEPT ![s] = IF m_config[s] THEN Append(@, d) ELSE @]
  /\ UNCHANGED up

(* The callback reads a destroyed session: the process crashes or the      *)
(* packet is lost.                                                         *)
DanglingCallback == up' \in BOOLEAN /\ UNCHANGED tasks

Dispatch ==
  /\ tunQ # <<>> /\ Head(tunQ).op = "dispatch"
  /\ tunQ' = Tail(tunQ)
  /\ LET d == Head(tunQ).dst
     IN \/ FirstMatch(d) = {} /\ UNCHANGED <<up, tasks>>
        \/ \E r \in FirstMatch(d) :
             IF conn[r.sess] # "gone" THEN Callback(r.sess, d) ELSE DanglingCallback
  /\ UNCHANGED <<poolVars, rules, ghostVars, conn, m_config, m_addr, pc, idx>>

(* startDaemon forks a new server; every connection is gone with the old. *)
Restart ==
  /\ ~up
  /\ up' = TRUE
  /\ m_currIndex' = -1
  /\ m_allocAddr' = {}
  /\ rules' = {}
  /\ tunQ' = <<>>
  /\ conn' = [s \in Sessions |-> "none"]
  /\ m_config' = [s \in Sessions |-> FALSE]
  /\ m_addr' = [s \in Sessions |-> NoAddr]
  /\ pc' = [s \in Sessions |-> "idle"]
  /\ idx' = [s \in Sessions |-> -1]
  /\ tasks' = [s \in Sessions |-> <<>>]
  /\ replied' = [s \in Sessions |-> {}]
  /\ delivered' = [s \in Sessions |-> {}]
  /\ leaked' = [s \in Sessions |-> {}]
  /\ ever' = {}
  /\ failed' = FALSE
  /\ raced' = FALSE

(***************************************************************************)
(* The specification.                                                      *)
(***************************************************************************)
Handler(s) ==
  \/ CheckCursor(s) \/ InitCursor(s) \/ SnapCursor(s)
  \/ TakeIndex(s) \/ NameAddr(s) \/ StoreAddr(s) \/ SkipIndex(s) \/ Exhaust(s)
  \/ InstallRule(s) \/ SendReply(s)

SessionStep(s) ==
  \/ Accept(s) \/ RecvConfigRequest(s) \/ RecvData(s) \/ Handler(s)
  \/ RunTask(s) \/ StaleTask(s)
  \/ PeerCloses(s) \/ OnManager(s) \/ OnError(s) \/ Destroy(s)

TunStep == TunWrite \/ Dispatch \/ \E d \in Dests : TunRead(d)

Next ==
  \/ up /\ \E s \in Sessions : SessionStep(s)
  \/ up /\ TunStep
  \/ Restart

Spec == Init /\ [][Next]_vars

(* A thread in a handler runs on, and the daemon starts a dead server.     *)
Fairness ==
  /\ \A s \in Sessions : WF_vars(up /\ Handler(s))
  /\ WF_vars(Restart)

FairSpec == Spec /\ Fairness

(***************************************************************************)
(* Properties.                                                             *)
(***************************************************************************)
(* The types of the variables, that a thread is inside a handler only      *)
(* while its connection is open (TunWsSession.h:30-78), and one at most    *)
(* has the lock (TunAddrAlloc.h:37).                                       *)
TypeOK ==
  /\ up \in BOOLEAN
  /\ m_currIndex \in Addrs \cup {-1, Begin}
  /\ m_allocAddr \in SUBSET Addrs
  /\ rules \in SUBSET Rule
  /\ tunQ \in Seq([op : {"write", "dispatch"}, dst : Dests \cup {NoAddr}])
  /\ conn \in [Sessions -> {"none", "open", "closing", "errored", "gone"}]
  /\ m_config \in [Sessions -> BOOLEAN]
  /\ m_addr \in [Sessions -> Addrs \cup {NoAddr}]
  /\ pc \in [Sessions -> {"idle", "check", "init", "snap", "loop",
                      "name", "store", "rule", "reply"}]
  /\ idx \in [Sessions -> Int]
  /\ tasks \in [Sessions -> Seq(Dests \cup {NoAddr})]
  /\ replied \in [Sessions -> SUBSET Addrs]
  /\ delivered \in [Sessions -> SUBSET (Dests \cup {NoAddr})]
  /\ leaked \in [Sessions -> SUBSET Addrs]
  /\ ever \in SUBSET Addrs
  /\ failed \in BOOLEAN /\ raced \in BOOLEAN
  /\ \A s, t \in Sessions : Inside(s) /\ Inside(t) => s = t
  /\ \A s \in Sessions : pc[s] # "idle" => conn[s] = "open" /\ m_config[s]

(* Until m_currIndex has been changed between TunAddrAlloc.h:39 and :41 of *)
(* another thread, no two live sessions have the same address, whatever    *)
(* the order in which their threads search, take and release addresses     *)
(* (TunAddrAlloc.h:23-59).                                                 *)
UniqueAddr ==
  ~raced =>
    \A s, t \in Sessions :
      s # t /\ Live(s) /\ Live(t) /\ m_addr[s] # NoAddr => m_addr[s] # m_addr[t]

(* What session s has taken from the pool and not given back: its address  *)
(* while it lives, and what a repeated request made it forget.             *)
HeldBy(s) == leaked[s] \cup (IF Live(s) THEN {m_addr[s]} \ {NoAddr} ELSE {})

(* Until then the map holds the addresses of the live sessions and the     *)
(* forgotten ones, and nothing else: an address comes back when its        *)
(* session ends, and none comes back that is still in use                  *)
(* (TunWsSession.h:42-44, 73-78).                                          *)
AllocatedIsHeld ==
  ~raced =>
    \A a \in Addrs : a \in m_allocAddr <=> \E s \in Sessions : a \in HeldBy(s)

(* Until then, and until an allocation fails, the packets for a configured *)
(* session's address go to that session, whatever rules dead sessions left *)
(* behind (TalusTunInterface.h:86-90, TalusTunInterface.cpp:142-168).      *)
RouteOwner ==
  ~failed /\ ~raced =>
    \A s \in Sessions :
      Live(s) /\ m_config[s] /\ At(s, "idle") =>
        FirstMatch(m_addr[s]) = {[key |-> m_addr[s], addr |-> m_addr[s], sess |-> s]}

(* Until an allocation fails, a peer is sent only packets for addresses it *)
(* was given, and only after it was told: the callback posts to the        *)
(* session's poller, behind the reply (TunWsSession.h:50-64).              *)
OnlyOwnPackets ==
  ~failed => \A s \in Sessions : delivered[s] \subseteq replied[s]

(* A request is refused only after every address of the range was handed   *)
(* out at least once: no thread's search jumps over a fresh address, and   *)
(* m_currIndex, raced or not, never runs ahead (TunAddrAlloc.h:27-45).     *)
RefusedOnlyWhenUsedUp == ConfigIpOk /\ failed => Addrs \subseteq ever

(* The server implements the pool's promise (AddrPool).                    *)
Pool == INSTANCE AddrPool WITH
          Holders <- Sessions, held <- [s \in Sessions |-> HeldBy(s)], unsound <- raced
PoolSpec == Pool!Spec

(* Every configuration request is answered: the search ends even while     *)
(* other threads take and release addresses (TunAddrAlloc.h:36-45).        *)
RequestAnswered ==
  \A s \in Sessions : ~At(s, "idle") ~> At(s, "idle")
=============================================================================
