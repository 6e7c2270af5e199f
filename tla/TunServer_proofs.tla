-------------------------- MODULE TunServer_proofs --------------------------
(***************************************************************************)
(* Theorems about the tunnel server, for every set of sessions, every pool *)
(* and every queue bound.                                                  *)
(***************************************************************************)
EXTENDS TunServer, Daemon, SequenceTheorems, TLAPS

Labels == {"idle", "check", "init", "snap", "loop", "name", "store", "rule", "reply"}

(* The cursor: once a thread is past the check it is set, the search of a  *)
(* thread in the loop stays above the range's lower end, and what a thread *)
(* with the lock works on is in the range.                                 *)
CursorInv ==
  \A s \in Sessions :
    /\ At(s, "snap") => m_currIndex \in Addrs \cup {Begin}
    /\ At(s, "loop") => idx[s] >= Begin
    /\ Inside(s) => idx[s] \in Addrs /\ m_currIndex \in Addrs

TInv == TypeOK /\ CursorInv

TunTask == [op : {"write", "dispatch"}, dst : Dests \cup {NoAddr}]

LEMMA EmptyQueues ==
  <<>> \in Seq(TunTask) /\ <<>> \in Seq(Dests \cup {NoAddr})
OBVIOUS

LEMMA InitTInv == Init => TInv
<1> SUFFICES ASSUME Init PROVE TInv
  OBVIOUS
<1>1. tasks \in [Sessions -> Seq(Dests \cup {NoAddr})] /\ tunQ \in Seq(TunTask)
  BY EmptyQueues DEF Init
<1>2. m_addr \in [Sessions -> Addrs \cup {NoAddr}] /\ idx \in [Sessions -> Int]
  BY DEF Init
<1> QED
  BY <1>1, <1>2 DEF Init, TInv, TypeOK, CursorInv, At, Inside, TunTask

LEMMA NextTInv == TInv /\ [Next]_vars => TInv'
<1> SUFFICES ASSUME TInv, [Next]_vars PROVE TInv'
  OBVIOUS
<1> USE PoolAssumption, DestsAssumption, GarbageAssumption DEF TInv
<1>1. ASSUME NEW s \in Sessions, Accept(s) PROVE TInv'
  BY <1>1 DEF Accept, poolVars, tunVars, ghostVars, TypeOK, CursorInv, At, Inside
<1>2. ASSUME NEW s \in Sessions, RecvConfigRequest(s) PROVE TInv'
  BY <1>2 DEF RecvConfigRequest, poolVars, tunVars, ghostVars, TypeOK, CursorInv, At, Inside, Goto
<1>3. ASSUME NEW s \in Sessions, RecvData(s) PROVE TInv'
  BY <1>3 DEF RecvData, poolVars, sessVars, ghostVars, TypeOK, CursorInv, At, Inside
<1>4. ASSUME NEW s \in Sessions, CheckCursor(s) PROVE TInv'
  BY <1>4 DEF CheckCursor, poolVars, tunVars, ghostVars, TypeOK, CursorInv, At, Inside, Goto, Addrs
<1>5. ASSUME NEW s \in Sessions, InitCursor(s) PROVE TInv'
  BY <1>5 DEF InitCursor, tunVars, ghostVars, TypeOK, CursorInv, At, Inside, Goto, Addrs
<1>6. ASSUME NEW s \in Sessions, SnapCursor(s) PROVE TInv'
  <2>1. CASE ConfigIpOk
    <3>1. m_currIndex \in Int /\ m_currIndex >= Begin
      BY <1>6 DEF SnapCursor, TypeOK, CursorInv, At, Inside, Addrs
    <3>2. TypeOK'
      <4>1. /\ idx' = [idx EXCEPT ![s] = m_currIndex]
            /\ pc' = [pc EXCEPT ![s] = "loop"]
            /\ m_addr' = m_addr /\ leaked' = leaked /\ failed' = failed
        BY <1>6, <2>1 DEF SnapCursor, Goto
      <4>2. up' = up /\ replied' = replied /\ delivered' = delivered
            /\ conn' = conn /\ m_config' = m_config /\ tasks' = tasks /\ pc[s] = "snap"
        BY <1>6 DEF SnapCursor, At
      <4>3. UNCHANGED <<m_currIndex, m_allocAddr, ever, raced, rules, tunQ>>
        BY <1>6 DEF SnapCursor, poolVars, tunVars
      <4> QED
        BY <3>1, <4>1, <4>2, <4>3 DEF TypeOK, Inside
    <3>3. CursorInv'
      <4>1. /\ idx' = [idx EXCEPT ![s] = m_currIndex]
            /\ pc' = [pc EXCEPT ![s] = "loop"]
            /\ m_currIndex' = m_currIndex
        BY <1>6, <2>1 DEF SnapCursor, Goto, poolVars
      <4>2. /\ pc \in [Sessions -> Labels]
            /\ idx \in [Sessions -> Int]
        BY DEF TypeOK, Labels
      <4> QED
        BY <3>1, <4>1, <4>2 DEF CursorInv, At, Inside
    <3> QED
      BY <3>2, <3>3
  <2>2. CASE ~ConfigIpOk
    <3>1. TypeOK'
      <4>1. /\ m_addr' = [m_addr EXCEPT ![s] = NoAddr]
            /\ leaked' = [leaked EXCEPT ![s] = @ \cup ({m_addr[s]} \ {NoAddr})]
            /\ pc' = [pc EXCEPT ![s] = "rule"]
            /\ failed' = TRUE /\ idx' = idx
        BY <1>6, <2>2 DEF SnapCursor, AllocFails, Overwrite, Goto
      <4>2. up' = up /\ replied' = replied /\ delivered' = delivered
            /\ conn' = conn /\ m_config' = m_config /\ tasks' = tasks /\ pc[s] = "snap"
        BY <1>6 DEF SnapCursor, At
      <4>3. UNCHANGED <<m_currIndex, m_allocAddr, ever, raced, rules, tunQ>>
        BY <1>6 DEF SnapCursor, poolVars, tunVars
      <4> QED
        BY <4>1, <4>2, <4>3 DEF TypeOK, NoAddr, Inside
    <3>2. CursorInv'
      BY <1>6, <2>2 DEF SnapCursor, AllocFails, poolVars, TypeOK, CursorInv, At, Inside, Goto
    <3> QED
      BY <3>1, <3>2
  <2> QED
    BY <2>1, <2>2
<1>7. ASSUME NEW s \in Sessions, TakeIndex(s) PROVE TInv'
  <2>1. idx[s] \in Addrs /\ m_currIndex' = idx[s]
    BY <1>7 DEF TakeIndex, TypeOK, CursorInv, At, Inside, Addrs
  <2>2. /\ pc[s] = "loop" /\ pc' = [pc EXCEPT ![s] = "name"]
        /\ \A t \in Sessions : ~Inside(t)
        /\ UNCHANGED <<up, m_allocAddr, ever, raced, tunVars, ghostVars,
                       conn, m_config, m_addr, idx, tasks>>
    BY <1>7 DEF TakeIndex, At, Goto, LockFree
  <2> QED
    BY <2>1, <2>2 DEF tunVars, ghostVars, TypeOK, CursorInv, At, Inside, Addrs
<1>23. ASSUME NEW s \in Sessions, NameAddr(s) PROVE TInv'
  <2>1. m_currIndex \in Addrs /\ idx' = [idx EXCEPT ![s] = m_currIndex]
    BY <1>23 DEF NameAddr, CursorInv, At, Inside
  <2>2. /\ pc[s] = "name" /\ pc' = [pc EXCEPT ![s] = "store"]
        /\ UNCHANGED <<up, poolVars, tunVars, ghostVars, conn, m_config, m_addr, tasks>>
    BY <1>23 DEF NameAddr, At, Goto
  <2> QED
    BY <2>1, <2>2 DEF poolVars, tunVars, ghostVars, TypeOK, CursorInv, At, Inside, Addrs
<1>24. ASSUME NEW s \in Sessions, StoreAddr(s) PROVE TInv'
  <2>1. idx[s] \in Addrs /\ m_currIndex \in Addrs
    BY <1>24 DEF StoreAddr, CursorInv, At, Inside
  <2>2. /\ m_allocAddr' \in SUBSET Addrs
        /\ ever' \in SUBSET Addrs
        /\ m_addr' \in [Sessions -> Addrs \cup {NoAddr}]
        /\ leaked' \in [Sessions -> SUBSET Addrs]
        /\ idx' = [idx EXCEPT ![s] = -1]
    BY <1>24, <2>1 DEF StoreAddr, Overwrite, TypeOK, NoAddr
  <2>3. /\ pc[s] = "store" /\ pc' = [pc EXCEPT ![s] = "rule"]
        /\ UNCHANGED <<up, m_currIndex, raced, tunVars, replied, delivered, failed,
                       conn, m_config, tasks>>
    BY <1>24 DEF StoreAddr, At, Goto
  <2> QED
    BY <2>2, <2>3 DEF tunVars, TypeOK, CursorInv, At, Inside
<1>8. ASSUME NEW s \in Sessions, SkipIndex(s) PROVE TInv'
  BY <1>8 DEF SkipIndex, poolVars, tunVars, ghostVars, TypeOK, CursorInv, At, Inside
<1>9. ASSUME NEW s \in Sessions, Exhaust(s) PROVE TInv'
  BY <1>9 DEF Exhaust, AllocFails, Overwrite, poolVars, tunVars, TypeOK, CursorInv, At, Inside, Goto, NoAddr
<1>10. ASSUME NEW s \in Sessions, InstallRule(s) PROVE TInv'
  <2>1. /\ rules \in SUBSET Rule /\ m_addr[s] \in Addrs \cup {NoAddr} /\ Addrs \subseteq Int
    BY DEF TypeOK, Addrs
  <2>2. PICK k, a \in Int : AddDispatcher(s, k, a)
    BY <1>10, <2>1, GarbageAssumption DEF InstallRule
  <2>3. rules' \in SUBSET Rule
    BY <2>1, <2>2 DEF AddDispatcher, Rule
  <2>4. /\ pc' = [pc EXCEPT ![s] = "reply"] /\ pc[s] = "rule"
        /\ UNCHANGED <<up, poolVars, tunQ, ghostVars, conn, m_config, m_addr, idx, tasks>>
    BY <1>10 DEF InstallRule, Goto, At
  <2>5. TypeOK'
    BY <2>3, <2>4 DEF TypeOK, Inside, poolVars, ghostVars
  <2>6. CursorInv'
    BY <2>4 DEF TypeOK, CursorInv, At, Inside, poolVars
  <2> QED
    BY <2>5, <2>6
<1>11. ASSUME NEW s \in Sessions, SendReply(s) PROVE TInv'
  BY <1>11 DEF SendReply, poolVars, tunVars, TypeOK, CursorInv, At, Inside, Goto, NoAddr
<1>12. ASSUME NEW s \in Sessions, RunTask(s) PROVE TInv'
  BY <1>12 DEF RunTask, poolVars, tunVars, TypeOK, CursorInv, At, Inside
<1>13. ASSUME NEW s \in Sessions, StaleTask(s) PROVE TInv'
  BY <1>13 DEF StaleTask, poolVars, tunVars, ghostVars, TypeOK, CursorInv, At, Inside
<1>14. ASSUME NEW s \in Sessions, PeerCloses(s) PROVE TInv'
  BY <1>14 DEF PeerCloses, poolVars, tunVars, ghostVars, TypeOK, CursorInv, At, Inside
<1>15. ASSUME NEW s \in Sessions, OnManager(s) PROVE TInv'
  BY <1>15 DEF OnManager, poolVars, tunVars, ghostVars, TypeOK, CursorInv, At, Inside
<1>16. ASSUME NEW s \in Sessions, OnError(s) PROVE TInv'
  BY <1>16 DEF OnError, ReleaseAddr, tunVars, ghostVars, TypeOK, CursorInv, At, Inside
<1>17. ASSUME NEW s \in Sessions, Destroy(s) PROVE TInv'
  BY <1>17 DEF Destroy, poolVars, tunVars, ghostVars, TypeOK, CursorInv, At, Inside
<1>18. CASE TunWrite
  BY <1>18 DEF TunWrite, poolVars, sessVars, ghostVars, TypeOK, CursorInv, At, Inside
<1>19. CASE Dispatch
  <2>1. Head(tunQ) \in TunTask /\ tunQ' \in Seq(TunTask)
    BY <1>19, HeadTailProperties DEF Dispatch, TypeOK, TunTask
  <2>2. up' \in BOOLEAN /\ tasks' \in [Sessions -> Seq(Dests \cup {NoAddr})]
    <3>1. CASE UNCHANGED <<up, tasks>>
      BY <3>1 DEF TypeOK
    <3>2. ASSUME NEW r \in FirstMatch(Head(tunQ).dst), Callback(r.sess, Head(tunQ).dst)
          PROVE  up' \in BOOLEAN /\ tasks' \in [Sessions -> Seq(Dests \cup {NoAddr})]
      BY <3>2, <2>1 DEF Callback, FirstMatch, TypeOK, Rule, TunTask
    <3>3. CASE DanglingCallback
      BY <3>3 DEF DanglingCallback, TypeOK
    <3> QED
      BY <1>19, <3>1, <3>2, <3>3 DEF Dispatch
  <2> QED
    BY <1>19, <2>1, <2>2 DEF Dispatch, poolVars, ghostVars, TypeOK, CursorInv, At, Inside, TunTask
<1>20. ASSUME NEW d \in Dests, TunRead(d) PROVE TInv'
  BY <1>20 DEF TunRead, poolVars, sessVars, ghostVars, TypeOK, CursorInv, At, Inside
<1>21. CASE Restart
  <2>1. tasks' \in [Sessions -> Seq(Dests \cup {NoAddr})] /\ tunQ' \in Seq(TunTask)
    BY <1>21, EmptyQueues DEF Restart
  <2>2. m_addr' \in [Sessions -> Addrs \cup {NoAddr}] /\ idx' \in [Sessions -> Int]
    BY <1>21 DEF Restart
  <2> QED
    BY <1>21, <2>1, <2>2 DEF Restart, TypeOK, CursorInv, At, Inside, TunTask
<1>22. CASE UNCHANGED vars
  BY <1>22 DEF vars, TypeOK, CursorInv, At, Inside
<1> QED
  BY <1>1, <1>2, <1>3, <1>4, <1>5, <1>6, <1>7, <1>8, <1>9, <1>10, <1>11, <1>12,
     <1>13, <1>14, <1>15, <1>16, <1>17, <1>18, <1>19, <1>20, <1>21, <1>22, <1>23, <1>24
  DEF Next, SessionStep, Handler, TunStep

(* In every reachable state each variable has its type and a thread is in  *)
(* a handler only while its connection is open (TunWsSession.h:30-78).     *)
THEOREM TypeCorrect == Spec => []TypeOK
<1>1. TInv => TypeOK
  BY DEF TInv
<1> QED
  BY <1>1, InitTInv, NextTInv, PTL DEF Spec

(***************************************************************************)
(* The pool.  As long as the cursor has not been changed under a thread    *)
(* with the lock: what the sessions hold is pairwise disjoint, and it is   *)
(* what the allocator's map holds; a session's address is not one of those *)
(* it forgot; the thread with the lock stores the address it has found.    *)
(* A session that never asked has no address.                              *)
(***************************************************************************)
HeldDisjoint ==
  ~raced => \A s, t \in Sessions : s # t => HeldBy(s) \cap HeldBy(t) = {}

LockInv ==
  ~raced => \A s \in Sessions : Inside(s) => m_currIndex = idx[s] /\ idx[s] \notin m_allocAddr

SessionInv ==
  \A s \in Sessions :
    /\ ~raced /\ Live(s) => m_addr[s] \notin leaked[s]
    /\ ~m_config[s] => m_addr[s] = NoAddr
    /\ conn[s] = "none" => ~m_config[s]

AllocInv == TInv /\ LockInv /\ AllocatedIsHeld /\ HeldDisjoint /\ SessionInv

(* What a step does to the holdings; once the cursor has been changed the  *)
(* map no longer follows them.                                             *)
Same(t) == HeldBy(t)' = HeldBy(t)

HoldingsSame ==
  /\ raced => raced'
  /\ raced \/ m_allocAddr' = m_allocAddr
  /\ \A t \in Sessions : Same(t)

HoldingsTaken(s, a) ==
  /\ raced' = raced
  /\ raced \/ (a \notin m_allocAddr /\ m_allocAddr' = m_allocAddr \cup {a})
  /\ HeldBy(s)' = HeldBy(s) \cup {a}
  /\ \A t \in Sessions \ {s} : Same(t)

HoldingsGiven(s, a) ==
  /\ raced' = raced
  /\ raced \/ m_allocAddr' = m_allocAddr \ {a}
  /\ a \in HeldBy(s)
  /\ HeldBy(s)' = HeldBy(s) \ {a}
  /\ \A t \in Sessions \ {s} : Same(t)

HoldingsReset == ~raced' /\ m_allocAddr' = {} /\ \A t \in Sessions : HeldBy(t)' = {}

HoldingsStep ==
  \/ HoldingsSame
  \/ HoldingsReset
  \/ \E s \in Sessions, a \in Addrs : HoldingsTaken(s, a) \/ HoldingsGiven(s, a)

LEMMA SteadyHoldings ==
  ASSUME TypeOK, raced => raced', UNCHANGED <<m_allocAddr, m_addr, leaked>>,
         \A t \in Sessions : Live(t)' <=> Live(t)
  PROVE  HoldingsSame
BY DEF HoldingsSame, Same, HeldBy

LEMMA NextHoldings == AllocInv /\ [Next]_vars => HoldingsStep
<1> SUFFICES ASSUME AllocInv, [Next]_vars PROVE HoldingsStep
  OBVIOUS
<1> USE DEF AllocInv, TInv, HoldingsStep
<1>1. ASSUME NEW s \in Sessions, Accept(s) PROVE HoldingsSame
  BY <1>1 DEF Accept, poolVars, ghostVars, TypeOK, SessionInv, Live, HeldBy, Same, HoldingsSame
<1>2. ASSUME NEW s \in Sessions,
             \/ RecvConfigRequest(s) \/ RecvData(s) \/ CheckCursor(s) \/ TakeIndex(s)
             \/ NameAddr(s) \/ SkipIndex(s) \/ InstallRule(s) \/ SendReply(s)
             \/ RunTask(s) \/ StaleTask(s)
      PROVE  HoldingsSame
  BY <1>2, SteadyHoldings
  DEF RecvConfigRequest, RecvData, CheckCursor, TakeIndex, NameAddr, SkipIndex,
      InstallRule, SendReply, RunTask, StaleTask, poolVars, ghostVars, sessVars, Live
<1>13. ASSUME NEW s \in Sessions, InitCursor(s) PROVE HoldingsSame
  <2>1. raced => raced'
    BY <1>13 DEF InitCursor
  <2> QED
    BY <1>13, <2>1, SteadyHoldings DEF InitCursor, ghostVars, Live
<1>3. ASSUME NEW s \in Sessions, PeerCloses(s) \/ OnManager(s) PROVE HoldingsSame
  <2>1. \A t \in Sessions : Live(t)' <=> Live(t)
    BY <1>3 DEF PeerCloses, OnManager, TypeOK, Live
  <2> QED
    BY <1>3, <2>1, SteadyHoldings DEF PeerCloses, OnManager, poolVars, ghostVars
<1>4. ASSUME NEW s \in Sessions, Destroy(s) PROVE HoldingsSame
  <2>1. \A t \in Sessions : Live(t)' <=> Live(t)
    BY <1>4 DEF Destroy, TypeOK, Live
  <2> QED
    BY <1>4, <2>1, SteadyHoldings DEF Destroy, poolVars, ghostVars
<1>5. ASSUME NEW s \in Sessions, AllocFails(s), At(s, "snap") \/ At(s, "loop"),
             UNCHANGED <<m_allocAddr, raced, conn>>
      PROVE  HoldingsSame
  BY <1>5 DEF AllocFails, Overwrite, TypeOK, At, Live, HeldBy, Same, HoldingsSame, NoAddr, Addrs
<1>6. ASSUME NEW s \in Sessions, SnapCursor(s) PROVE HoldingsSame
  <2>1. CASE ConfigIpOk
    BY <1>6, <2>1, SteadyHoldings DEF SnapCursor, poolVars, Live
  <2>2. CASE ~ConfigIpOk
    BY <1>5, <1>6, <2>2 DEF SnapCursor, poolVars
  <2> QED
    BY <2>1, <2>2
<1>7. ASSUME NEW s \in Sessions, Exhaust(s) PROVE HoldingsSame
  BY <1>5, <1>7 DEF Exhaust, poolVars
<1>8. ASSUME NEW s \in Sessions, StoreAddr(s) PROVE HoldingsTaken(s, idx[s]) /\ idx[s] \in Addrs
  <2>1. /\ idx[s] \in Addrs /\ conn[s] = "open" /\ conn' = conn
        /\ raced \/ (m_currIndex = idx[s] /\ idx[s] \notin m_allocAddr)
    BY <1>8 DEF StoreAddr, LockInv, TypeOK, CursorInv, At, Inside
  <2>2. HeldBy(s)' = HeldBy(s) \cup {idx[s]}
    BY <1>8, <2>1, PoolAssumption DEF StoreAddr, Overwrite, TypeOK, Live, HeldBy, NoAddr, Addrs
  <2>3. \A t \in Sessions \ {s} : Same(t)
    BY <1>8, <2>1 DEF StoreAddr, Overwrite, TypeOK, Live, HeldBy, Same
  <2> QED
    BY <1>8, <2>1, <2>2, <2>3 DEF StoreAddr, HoldingsTaken
<1>9. ASSUME NEW s \in Sessions, OnError(s) PROVE HoldingsStep
  <2>1. /\ raced' = raced
        /\ \A t \in Sessions \ {s} : Same(t)
    BY <1>9 DEF OnError, ghostVars, TypeOK, Live, HeldBy, Same
  <2>2. /\ HeldBy(s) = leaked[s] \cup ({m_addr[s]} \ {NoAddr})
        /\ HeldBy(s)' = leaked[s]
    BY <1>9 DEF OnError, ghostVars, TypeOK, Live, HeldBy
  <2>3. CASE m_addr[s] \notin leaked[s] /\ m_config[s] /\ m_addr[s] # NoAddr
    <3>1. HoldingsGiven(s, m_addr[s]) /\ m_addr[s] \in Addrs
      BY <1>9, <2>1, <2>2, <2>3 DEF OnError, ReleaseAddr, TypeOK, HoldingsGiven
    <3> QED
      BY <3>1
  <2>4. CASE m_addr[s] = NoAddr
    <3>0. NoAddr \notin m_allocAddr
      BY PoolAssumption DEF TypeOK, Addrs, NoAddr
    <3>1. m_allocAddr' = m_allocAddr
      BY <1>9, <2>4, <3>0 DEF OnError, ReleaseAddr
    <3>2. HeldBy(s)' = HeldBy(s)
      BY <2>2, <2>4
    <3> QED
      BY <2>1, <3>1, <3>2 DEF HoldingsSame, Same
  <2>5. CASE raced /\ m_addr[s] \in leaked[s]
    BY <2>1, <2>2, <2>5 DEF HoldingsSame, Same
  <2>6. raced \/ m_addr[s] \notin leaked[s]
    BY <1>9 DEF OnError, SessionInv, Live
  <2> QED
    BY <2>3, <2>4, <2>5, <2>6 DEF SessionInv, TypeOK
<1>10. ASSUME TunStep PROVE HoldingsSame
  <2>1. UNCHANGED <<m_allocAddr, raced, m_addr, leaked, conn>>
    BY <1>10 DEF TunStep, TunWrite, Dispatch, TunRead, poolVars, ghostVars, sessVars
  <2> QED
    BY <2>1, SteadyHoldings DEF Live
<1>11. CASE Restart
  BY <1>11 DEF Restart, Live, HeldBy, HoldingsReset
<1>12. CASE UNCHANGED vars
  BY <1>12, SteadyHoldings DEF vars, Live
<1> QED
  BY <1>1, <1>2, <1>3, <1>4, <1>6, <1>7, <1>8, <1>9, <1>10, <1>11, <1>12, <1>13
  DEF Next, SessionStep, Handler

LEMMA InitAllocInv == Init => AllocInv
<1> SUFFICES ASSUME Init PROVE AllocInv
  OBVIOUS
<1>1. \A s \in Sessions : HeldBy(s) = {}
  BY DEF Init, HeldBy, Live
<1> QED
  BY <1>1, InitTInv DEF Init, AllocInv, LockInv, AllocatedIsHeld, HeldDisjoint, SessionInv, Live, Inside

(* The thread with the lock stores what it has found, unless line 28 of    *)
(* another thread lands in between.                                        *)
LEMMA NextLockInv == TInv /\ LockInv /\ [Next]_vars => LockInv'
<1> SUFFICES ASSUME TInv, LockInv, [Next]_vars PROVE LockInv'
  OBVIOUS
<1> USE DEF TInv, LockInv, Inside
<1>1. ASSUME NEW s \in Sessions,
             \/ Accept(s) \/ RecvData(s) \/ RunTask(s) \/ StaleTask(s)
             \/ PeerCloses(s) \/ OnManager(s) \/ Destroy(s)
      PROVE  LockInv'
  BY <1>1
  DEF Accept, RecvData, RunTask, StaleTask, PeerCloses, OnManager, Destroy,
      poolVars, sessVars
<1>2. ASSUME NEW s \in Sessions,
             RecvConfigRequest(s) \/ CheckCursor(s) \/ InstallRule(s) \/ SendReply(s)
      PROVE  LockInv'
  BY <1>2 DEF RecvConfigRequest, CheckCursor, InstallRule, SendReply, Goto, TypeOK, poolVars
<1>3. ASSUME NEW s \in Sessions, OnError(s) PROVE LockInv'
  BY <1>3 DEF OnError, ReleaseAddr
<1>4. ASSUME NEW s \in Sessions, InitCursor(s) PROVE LockInv'
  BY <1>4 DEF InitCursor, LockFree, Goto, TypeOK
<1>5. ASSUME NEW s \in Sessions, SkipIndex(s) PROVE LockInv'
  BY <1>5 DEF SkipIndex, LockFree, poolVars
<1>6. ASSUME NEW s \in Sessions, SnapCursor(s) PROVE LockInv'
  <2>1. /\ UNCHANGED poolVars
        /\ \A t \in Sessions : Inside(t)' => Inside(t) /\ idx'[t] = idx[t]
    BY <1>6 DEF SnapCursor, AllocFails, Goto, At, TypeOK
  <2> QED
    BY <2>1 DEF poolVars
<1>7. ASSUME NEW s \in Sessions, TakeIndex(s) PROVE LockInv'
  BY <1>7 DEF TakeIndex, LockFree, Goto, TypeOK
<1>8. ASSUME NEW s \in Sessions, NameAddr(s) PROVE LockInv'
  BY <1>8 DEF NameAddr, Goto, At, TypeOK, poolVars
<1>9. ASSUME NEW s \in Sessions, StoreAddr(s) PROVE LockInv'
  <2>1. \A t \in Sessions : ~Inside(t)'
    BY <1>9 DEF StoreAddr, Goto, At, TypeOK
  <2> QED
    BY <2>1
<1>10. ASSUME NEW s \in Sessions, Exhaust(s) PROVE LockInv'
  <2>1. /\ UNCHANGED poolVars
        /\ \A t \in Sessions : Inside(t)' => Inside(t) /\ idx'[t] = idx[t]
    BY <1>10 DEF Exhaust, AllocFails, Goto, At, TypeOK
  <2> QED
    BY <2>1 DEF poolVars
<1>11. ASSUME TunStep PROVE LockInv'
  <2>1. UNCHANGED <<m_currIndex, m_allocAddr, raced, pc, idx>>
    BY <1>11 DEF TunStep, TunWrite, Dispatch, TunRead, poolVars, sessVars
  <2> QED
    BY <2>1
<1>12. CASE Restart
  BY <1>12 DEF Restart
<1>13. CASE UNCHANGED vars
  BY <1>13 DEF vars
<1> QED
  BY <1>1, <1>2, <1>3, <1>4, <1>5, <1>6, <1>7, <1>8, <1>9, <1>10, <1>11, <1>12, <1>13
  DEF Next, SessionStep, Handler

LEMMA NextAllocInv == AllocInv /\ [Next]_vars => AllocInv'
<1> SUFFICES ASSUME AllocInv, [Next]_vars PROVE AllocInv'
  OBVIOUS
<1>1. TInv'
  BY NextTInv DEF AllocInv
<1>2. HoldingsStep
  BY NextHoldings
<1>3. AllocatedIsHeld' /\ HeldDisjoint'
  <2>1. CASE HoldingsSame
    BY <2>1 DEF HoldingsSame, Same, AllocInv, AllocatedIsHeld, HeldDisjoint
  <2>2. CASE HoldingsReset
    BY <2>2 DEF HoldingsReset, AllocatedIsHeld, HeldDisjoint
  <2>3. ASSUME NEW s \in Sessions, NEW a \in Addrs, HoldingsTaken(s, a)
        PROVE  AllocatedIsHeld' /\ HeldDisjoint'
    BY <2>3 DEF HoldingsTaken, Same, AllocInv, AllocatedIsHeld, HeldDisjoint
  <2>4. ASSUME NEW s \in Sessions, NEW a \in Addrs, HoldingsGiven(s, a)
        PROVE  AllocatedIsHeld' /\ HeldDisjoint'
    BY <2>4 DEF HoldingsGiven, Same, AllocInv, AllocatedIsHeld, HeldDisjoint
  <2> QED
    BY <1>2, <2>1, <2>2, <2>3, <2>4 DEF HoldingsStep
<1>5. LockInv'
  BY NextLockInv DEF AllocInv
<1>4. SessionInv'
  <2> USE DEF AllocInv, TInv, SessionInv
  <2>1. ASSUME NEW s \in Sessions, Accept(s) PROVE SessionInv'
    BY <2>1, PoolAssumption DEF Accept, poolVars, ghostVars, TypeOK, Live, Addrs, NoAddr
  <2>2. ASSUME NEW s \in Sessions, RecvConfigRequest(s) PROVE SessionInv'
    BY <2>2 DEF RecvConfigRequest, poolVars, ghostVars, TypeOK, Live
  <2>3. ASSUME NEW s \in Sessions,
               \/ RecvData(s) \/ CheckCursor(s) \/ TakeIndex(s)
               \/ NameAddr(s) \/ SkipIndex(s) \/ InstallRule(s) \/ SendReply(s)
               \/ RunTask(s) \/ StaleTask(s)
        PROVE  SessionInv'
    BY <2>3
    DEF RecvData, CheckCursor, TakeIndex, NameAddr, SkipIndex, InstallRule,
        SendReply, RunTask, StaleTask, poolVars, ghostVars, sessVars, Live
  <2>13. ASSUME NEW s \in Sessions, InitCursor(s) PROVE SessionInv'
    <3>1. raced => raced'
      BY <2>13 DEF InitCursor
    <3> QED
      BY <2>13, <3>1 DEF InitCursor, ghostVars, Live
  <2>4. ASSUME NEW s \in Sessions, PeerCloses(s) \/ OnManager(s) PROVE SessionInv'
    BY <2>4 DEF PeerCloses, OnManager, poolVars, ghostVars, TypeOK, Live
  <2>5. ASSUME NEW s \in Sessions, OnError(s) \/ Destroy(s) PROVE SessionInv'
    BY <2>5 DEF OnError, Destroy, poolVars, ghostVars, TypeOK, Live
  <2>6. ASSUME NEW s \in Sessions, AllocFails(s), UNCHANGED <<raced, conn, m_config>>
        PROVE  SessionInv'
    BY <2>6, PoolAssumption DEF AllocFails, Overwrite, TypeOK, Live, Addrs, NoAddr
  <2>7. ASSUME NEW s \in Sessions, SnapCursor(s) PROVE SessionInv'
    <3>1. CASE ConfigIpOk
      BY <2>7, <3>1 DEF SnapCursor, poolVars, Live
    <3>2. CASE ~ConfigIpOk
      BY <2>6, <2>7, <3>2 DEF SnapCursor, poolVars
    <3> QED
      BY <3>1, <3>2
  <2>8. ASSUME NEW s \in Sessions, Exhaust(s) PROVE SessionInv'
    BY <2>6, <2>8 DEF Exhaust, poolVars
  <2>9. ASSUME NEW s \in Sessions, StoreAddr(s) PROVE SessionInv'
    <3>1. /\ idx[s] \in Addrs /\ conn[s] = "open" /\ m_config[s]
          /\ raced \/ idx[s] \notin m_allocAddr
      BY <2>9 DEF StoreAddr, LockInv, TypeOK, CursorInv, At, Inside
    <3>2. raced \/ idx[s] \notin HeldBy(s)
      BY <3>1 DEF AllocatedIsHeld
    <3>3. raced \/ (idx[s] \notin leaked[s] /\ idx[s] # m_addr[s])
      BY <3>1, <3>2, PoolAssumption DEF HeldBy, Live, Addrs, NoAddr
    <3> QED
      BY <2>9, <3>1, <3>3 DEF StoreAddr, Overwrite, TypeOK, Live
  <2>10. ASSUME TunStep PROVE SessionInv'
    <3>1. UNCHANGED <<raced, conn, m_config, m_addr, leaked>>
      BY <2>10 DEF TunStep, TunWrite, Dispatch, TunRead, poolVars, ghostVars, sessVars
    <3> QED
      BY <3>1 DEF Live
  <2>11. CASE Restart
    BY <2>11 DEF Restart, Live
  <2>12. CASE UNCHANGED vars
    BY <2>12 DEF vars, Live
  <2> QED
    BY <2>1, <2>2, <2>3, <2>4, <2>5, <2>7, <2>8, <2>9, <2>10, <2>11, <2>12, <2>13
    DEF Next, SessionStep, Handler
<1> QED
  BY <1>1, <1>3, <1>4, <1>5 DEF AllocInv

(* The inductive invariant of the pool holds in every reachable state: the *)
(* map, the holdings and the searches under way agree                      *)
(* (TunAddrAlloc.h:23-59, TunWsSession.h:42-44, 73-78).                    *)
THEOREM AllocInvariant == Spec => []AllocInv
BY InitAllocInv, NextAllocInv, PTL DEF Spec

(* No two live sessions have the same address, however their threads       *)
(* interleave in AllocAddr and releaseAddr, apart from the one place where *)
(* line 28 of one changes the cursor between lines 39 and 41 of another    *)
(* (TunAddrAlloc.h:23-59).                                                 *)
THEOREM AddressesUnique == Spec => []UniqueAddr
<1>1. AllocInv => UniqueAddr
  BY DEF AllocInv, TInv, TypeOK, HeldDisjoint, UniqueAddr, HeldBy
<1> QED
  BY <1>1, AllocInvariant, PTL

(* Apart from that place the allocator's map holds what the sessions hold  *)
(* and nothing else: no address is lost but by a repeated request, and     *)
(* none is freed in use (TunWsSession.h:42-44, 73-78).                     *)
THEOREM NoAddressLost == Spec => []AllocatedIsHeld
<1>1. AllocInv => AllocatedIsHeld
  BY DEF AllocInv
<1> QED
  BY <1>1, AllocInvariant, PTL

(* The server implements the abstract pool: what its sessions hold changes *)
(* only by taking an address, a free one unless the cursor was changed     *)
(* under the lock, giving a held one back, or a restart.                   *)
THEOREM ImplementsPool == Spec => PoolSpec
<1> DEFINE held == [s \in Sessions |-> HeldBy(s)]
<1>1. Init => Pool!Init
  BY DEF Init, Pool!Init, HeldBy, Live
<1>2. AllocInv /\ [Next]_vars => [Pool!Next]_<<held, raced>>
  <2> SUFFICES ASSUME AllocInv, HoldingsStep, raced \in BOOLEAN, raced' \in BOOLEAN
               PROVE  [Pool!Next]_<<held, raced>>
    BY NextHoldings, NextTInv DEF AllocInv, TInv, TypeOK
  <2>1. CASE HoldingsSame
    <3>1. held' = held /\ (raced' = raced \/ raced' = TRUE)
      BY <2>1 DEF HoldingsSame, Same
    <3> QED
      BY <3>1 DEF Pool!Next, Pool!Race
  <2>2. CASE HoldingsReset
    BY <2>2 DEF HoldingsReset, Pool!Next, Pool!Reset
  <2>3. ASSUME NEW s \in Sessions, NEW a \in Addrs, HoldingsTaken(s, a)
        PROVE  Pool!Acquire(s, a)
    BY <2>3 DEF HoldingsTaken, Same, AllocInv, AllocatedIsHeld, Pool!Acquire
  <2>4. ASSUME NEW s \in Sessions, NEW a \in Addrs, HoldingsGiven(s, a)
        PROVE  Pool!Release(s, a)
    BY <2>4 DEF HoldingsGiven, Same, Pool!Release
  <2> QED
    BY <2>1, <2>2, <2>3, <2>4 DEF HoldingsStep, Pool!Next
<1> QED
  BY <1>1, <1>2, AllocInvariant, PTL DEF Spec, PoolSpec, Pool!Spec, Pool!vars

(***************************************************************************)
(* The search.  Everything below m_currIndex, and everything a thread in   *)
(* the loop has gone past, was handed out before; so was the key the       *)
(* thread with the lock stores, if it is not the address it hands out.     *)
(***************************************************************************)
UsedBelow(i) == \A a \in Addrs : a < i => a \in ever

UsedInv ==
  /\ m_allocAddr \subseteq ever
  /\ UsedBelow(m_currIndex)
  /\ \A s \in Sessions : At(s, "loop") \/ Inside(s) => UsedBelow(idx[s])
  /\ \A s \in Sessions : Inside(s) => m_currIndex \in ever \cup {idx[s]}
  /\ RefusedOnlyWhenUsedUp

LEMMA NextUsedInv == TInv /\ UsedInv /\ [Next]_vars => UsedInv'
<1> SUFFICES ASSUME TInv, UsedInv, [Next]_vars PROVE UsedInv'
  OBVIOUS
<1> USE PoolAssumption DEF TInv, UsedInv, UsedBelow, RefusedOnlyWhenUsedUp, At, Inside
<1>1. ASSUME NEW s \in Sessions,
             \/ Accept(s) \/ RecvData(s) \/ RunTask(s) \/ StaleTask(s)
             \/ PeerCloses(s) \/ OnManager(s) \/ Destroy(s)
      PROVE  UsedInv'
  BY <1>1
  DEF Accept, RecvData, RunTask, StaleTask, PeerCloses, OnManager, Destroy,
      poolVars, ghostVars, sessVars
<1>2. ASSUME NEW s \in Sessions,
             RecvConfigRequest(s) \/ CheckCursor(s) \/ InstallRule(s) \/ SendReply(s)
      PROVE  UsedInv'
  <2>1. UNCHANGED <<m_currIndex, m_allocAddr, ever, idx, failed>>
    BY <1>2 DEF RecvConfigRequest, CheckCursor, InstallRule, SendReply, poolVars, ghostVars
  <2>2. \A t \in Sessions : /\ pc'[t] = "loop" => pc[t] = "loop"
                            /\ Inside(t)' => Inside(t)
    BY <1>2 DEF RecvConfigRequest, CheckCursor, InstallRule, SendReply, Goto, TypeOK
  <2> QED
    BY <2>1, <2>2
<1>3. ASSUME NEW s \in Sessions, OnError(s) PROVE UsedInv'
  BY <1>3 DEF OnError, ReleaseAddr, ghostVars
<1>4. ASSUME NEW s \in Sessions, InitCursor(s) PROVE UsedInv'
  <2>1. /\ m_currIndex' = Begin
        /\ UNCHANGED <<m_allocAddr, ever, idx, failed>>
        /\ \A t \in Sessions : /\ pc'[t] = "loop" => pc[t] = "loop"
                               /\ Inside(t)' => Inside(t)
    BY <1>4 DEF InitCursor, ghostVars, Goto, TypeOK
  <2>2. \A t \in Sessions : Inside(t) => Begin \in ever \cup {idx[t]}
    BY DEF CursorInv, Addrs
  <2> QED
    BY <2>1, <2>2 DEF Addrs
<1>5. ASSUME NEW s \in Sessions, SkipIndex(s) PROVE UsedInv'
  <2>1. UsedBelow(idx[s] + 1)
    BY <1>5 DEF SkipIndex, TypeOK, Addrs
  <2> QED
    BY <1>5, <2>1 DEF SkipIndex, poolVars, ghostVars, TypeOK
<1>6. ASSUME NEW s \in Sessions, SnapCursor(s) PROVE UsedInv'
  <2>1. UNCHANGED <<m_currIndex, m_allocAddr, ever>>
    BY <1>6 DEF SnapCursor, poolVars
  <2>2. CASE ConfigIpOk
    <3>1. /\ failed' = failed
          /\ \A t \in Sessions : Inside(t)' => Inside(t) /\ idx'[t] = idx[t]
          /\ \A t \in Sessions :
               pc'[t] = "loop" => \/ pc[t] = "loop" /\ idx'[t] = idx[t]
                                  \/ idx'[t] = m_currIndex
      BY <1>6, <2>2 DEF SnapCursor, Goto, TypeOK
    <3> QED
      BY <2>1, <3>1
  <2>3. CASE ~ConfigIpOk
    <3>1. /\ idx' = idx
          /\ \A t \in Sessions : /\ pc'[t] = "loop" => pc[t] = "loop"
                                 /\ Inside(t)' => Inside(t)
      BY <1>6, <2>3 DEF SnapCursor, AllocFails, Goto, TypeOK
    <3> QED
      BY <2>1, <2>3, <3>1
  <2> QED
    BY <2>2, <2>3
<1>7. ASSUME NEW s \in Sessions, TakeIndex(s) PROVE UsedInv'
  <2>1. /\ m_currIndex' = idx[s] /\ UsedBelow(idx[s])
        /\ UNCHANGED <<m_allocAddr, ever, idx, failed>>
        /\ \A t \in Sessions : /\ pc'[t] = "loop" => pc[t] = "loop"
                               /\ Inside(t)' => t = s
    BY <1>7 DEF TakeIndex, LockFree, ghostVars, Goto, TypeOK
  <2> QED
    BY <2>1
<1>12. ASSUME NEW s \in Sessions, NameAddr(s) PROVE UsedInv'
  <2>1. /\ UNCHANGED <<m_currIndex, m_allocAddr, ever, failed>>
        /\ idx' = [idx EXCEPT ![s] = m_currIndex] /\ idx \in [Sessions -> Int]
        /\ \A t \in Sessions : /\ pc'[t] = "loop" => pc[t] = "loop"
                               /\ Inside(t)' => t = s
    BY <1>12 DEF NameAddr, poolVars, ghostVars, Goto, TypeOK
  <2> QED
    BY <1>12, <2>1 DEF NameAddr, Goto, TypeOK
<1>13. ASSUME NEW s \in Sessions, StoreAddr(s) PROVE UsedInv'
  <2>1. /\ UNCHANGED <<m_currIndex, failed>> /\ ever' = ever \cup {idx[s]}
        /\ m_allocAddr' \subseteq ever'
        /\ \A t \in Sessions : /\ pc'[t] = "loop" => pc[t] = "loop" /\ idx'[t] = idx[t]
                               /\ ~Inside(t)'
    BY <1>13 DEF StoreAddr, Overwrite, Goto, TypeOK
  <2> QED
    BY <2>1
<1>8. ASSUME NEW s \in Sessions, Exhaust(s) PROVE UsedInv'
  <2>1. Addrs \subseteq ever
    BY <1>8 DEF Exhaust, TypeOK, Addrs
  <2>2. /\ UNCHANGED <<m_currIndex, m_allocAddr, ever>>
        /\ \A t \in Sessions : /\ pc'[t] = "loop" => pc[t] = "loop" /\ idx'[t] = idx[t]
                               /\ Inside(t)' => Inside(t) /\ idx'[t] = idx[t]
    BY <1>8 DEF Exhaust, AllocFails, poolVars, Goto, TypeOK
  <2> QED
    BY <2>1, <2>2
<1>9. ASSUME TunStep PROVE UsedInv'
  <2>1. UNCHANGED <<m_currIndex, m_allocAddr, ever, pc, idx, failed>>
    BY <1>9 DEF TunStep, TunWrite, Dispatch, TunRead, poolVars, ghostVars, sessVars
  <2> QED
    BY <2>1
<1>10. CASE Restart
  BY <1>10 DEF Restart, Addrs
<1>11. CASE UNCHANGED vars
  BY <1>11 DEF vars
<1> QED
  BY <1>1, <1>2, <1>3, <1>4, <1>5, <1>6, <1>7, <1>8, <1>9, <1>10, <1>11, <1>12, <1>13
  DEF Next, SessionStep, Handler

(* A request is refused only after every address of the range was handed   *)
(* out: the cursor, which concurrent searches may move back, even under    *)
(* the lock, never runs forward over a fresh one (TunAddrAlloc.h:27-45).   *)
THEOREM NoFreshAddressRefused == Spec => []RefusedOnlyWhenUsedUp
<1>1. Init => UsedInv
  BY PoolAssumption DEF Init, UsedInv, UsedBelow, RefusedOnlyWhenUsedUp, At, Inside, Addrs
<1>2. UsedInv => RefusedOnlyWhenUsedUp
  BY DEF UsedInv
<1> QED
  BY <1>1, <1>2, InitTInv, NextTInv, NextUsedInv, PTL DEF Spec

---------------------------------------------------------------------------
(* Packets reach the session that has the address, and only it, as long as *)
(* no allocation has failed.  That a rule is there rests on the            *)
(* allocator's invariant: rules of different live sessions share no key.   *)

RuleOf(s) == [key |-> m_addr[s], addr |-> m_addr[s], sess |-> s]

(* Rules are a map keyed by the address they match. *)
RulesInv ==
  /\ \A r \in rules : r.key = r.addr
  /\ \A r, q \in rules : r.key = q.key => r = q

(* A session past its search has an address, and past AddDispatcher the    *)
(* rule for it, unless the cursor was changed under the lock.              *)
ConfiguredInv ==
  \A s \in Sessions :
    Live(s) /\ m_config[s] =>
      /\ pc[s] \in {"rule", "reply", "idle"} => m_addr[s] # NoAddr
      /\ ~raced /\ pc[s] \in {"reply", "idle"} => RuleOf(s) \in rules

(* The peer knows the address, or will before its session's thread does    *)
(* anything else.                                                          *)
Told(s, a) == a \in replied[s] \/ (pc[s] = "reply" /\ a = m_addr[s])

ToldInv ==
  /\ \A r \in rules : Told(r.sess, r.addr)
  /\ \A s \in Sessions : \A i \in 1..Len(tasks[s]) : Told(s, tasks[s][i])
  /\ \A s \in Sessions : delivered[s] \subseteq replied[s]

RoutesInv == ~failed => RulesInv /\ ConfiguredInv /\ ToldInv

LEMMA InitRoutesInv == Init => RoutesInv
  BY DEF Init, RoutesInv, RulesInv, ConfiguredInv, ToldInv, Told, Live

(* A step that leaves rules, addresses, replies, tasks and deliveries      *)
(* alone, and moves no thread to or from a place the invariant speaks of.  *)
LEMMA SteadyRoutes ==
  ASSUME TypeOK, RoutesInv, raced => raced',
         UNCHANGED <<rules, m_addr, m_config, replied, delivered, tasks, failed>>,
         \A s \in Sessions : pc'[s] = pc[s] \/ pc'[s] \notin {"rule", "reply", "idle"},
         \A s \in Sessions : pc[s] = "reply" => pc'[s] = "reply",
         \A s \in Sessions : Live(s)' /\ m_config[s] => Live(s)
  PROVE  RoutesInv'
  <1>1. \A s \in Sessions : RuleOf(s)' = RuleOf(s)
    BY DEF RuleOf
  <1>2. ASSUME NEW s \in Sessions, NEW a, Told(s, a) PROVE Told(s, a)'
    BY <1>2 DEF Told
  <1> SUFFICES ASSUME ~failed PROVE RulesInv' /\ ConfiguredInv' /\ ToldInv'
    BY DEF RoutesInv
  <1>3. RulesInv'
    BY DEF RoutesInv, RulesInv
  <1>4. ConfiguredInv'
    BY <1>1 DEF RoutesInv, ConfiguredInv
  <1>5. ToldInv'
    <2>1. \A r \in rules' : r.sess \in Sessions
      BY DEF TypeOK, Rule
    <2>2. \A r \in rules' : Told(r.sess, r.addr)'
      BY <1>2, <2>1 DEF RoutesInv, ToldInv
    <2>3. \A s \in Sessions : \A i \in 1..Len(tasks'[s]) : Told(s, tasks[s][i])'
      BY <1>2 DEF RoutesInv, ToldInv
    <2>4. \A s \in Sessions : delivered'[s] \subseteq replied'[s]
      BY DEF RoutesInv, ToldInv
    <2> QED
      BY <2>2, <2>3, <2>4 DEF ToldInv
  <1> QED
    BY <1>3, <1>4, <1>5

(* The new rule replaces none of another live session: their addresses     *)
(* differ.                                                                 *)
LEMMA InstallRuleRoutes ==
  ASSUME TInv, UniqueAddr, RoutesInv, NEW s \in Sessions, InstallRule(s), ~failed
  PROVE  RulesInv' /\ ConfiguredInv' /\ ToldInv'
  <1>1. /\ conn[s] = "open" /\ m_config[s] /\ pc[s] = "rule"
        /\ pc' = [pc EXCEPT ![s] = "reply"]
        /\ UNCHANGED <<raced, conn, m_config, m_addr, replied, delivered, tasks>>
    BY DEF InstallRule, TInv, TypeOK, At, Goto, poolVars, ghostVars
  <1>2. m_addr[s] # NoAddr
    BY <1>1 DEF RoutesInv, ConfiguredInv, Live
  <1>3. rules' = {r \in rules : r.key # m_addr[s]} \cup {RuleOf(s)}
    BY <1>2 DEF InstallRule, AddDispatcher, RuleOf
  <1>4. \A r \in rules : r.sess \in Sessions
    BY DEF TInv, TypeOK, Rule
  <1>5. pc \in [Sessions -> Labels]
    BY DEF TInv, TypeOK, Labels
  <1>6. RulesInv'
    BY <1>3 DEF RoutesInv, RulesInv, RuleOf
  <1>7. ConfiguredInv'
    <2> SUFFICES ASSUME NEW t \in Sessions, Live(t), m_config[t], pc'[t] \in {"rule", "reply", "idle"}
                 PROVE  /\ m_addr[t] # NoAddr
                        /\ ~raced /\ pc'[t] \in {"reply", "idle"} => RuleOf(t) \in rules'
      BY <1>1 DEF ConfiguredInv, Live, RuleOf
    <2>1. CASE t = s
      BY <1>2, <1>3, <2>1
    <2>2. CASE t # s
      <3>1. m_addr[t] # NoAddr /\ (~raced /\ pc'[t] \in {"reply", "idle"} => RuleOf(t) \in rules)
        BY <1>1, <1>5, <2>2 DEF RoutesInv, ConfiguredInv
      <3>2. raced \/ m_addr[t] # m_addr[s]
        BY <1>1, <2>2, <3>1 DEF UniqueAddr, Live
      <3> QED
        BY <1>3, <3>1, <3>2 DEF RuleOf
    <2> QED
      BY <2>1, <2>2
  <1>8. ToldInv'
    <2>1. ASSUME NEW t \in Sessions, NEW a, Told(t, a) PROVE Told(t, a)'
      BY <1>1, <1>5, <2>1 DEF Told
    <2>2. Told(s, m_addr[s])'
      BY <1>1, <1>5 DEF Told
    <2>3. ASSUME NEW r \in rules' PROVE Told(r.sess, r.addr)'
      <3>1. CASE r \in rules
        BY <1>4, <2>1, <3>1 DEF RoutesInv, ToldInv
      <3>2. CASE r = RuleOf(s)
        <4>1. r.sess = s /\ r.addr = m_addr[s]
          BY <3>2 DEF RuleOf
        <4> QED
          BY <1>1, <1>5, <4>1 DEF Told
      <3> QED
        BY <1>3, <3>1, <3>2
    <2>4. \A t \in Sessions : \A i \in 1..Len(tasks'[t]) : Told(t, tasks[t][i])'
      BY <1>1, <2>1 DEF RoutesInv, ToldInv
    <2>5. \A t \in Sessions : delivered'[t] \subseteq replied'[t]
      BY <1>1 DEF RoutesInv, ToldInv
    <2> QED
      BY <1>1, <2>3, <2>4, <2>5 DEF ToldInv
  <1> QED
    BY <1>6, <1>7, <1>8

LEMMA SendReplyRoutes ==
  ASSUME TInv, RoutesInv, NEW s \in Sessions, SendReply(s), ~failed
  PROVE  RulesInv' /\ ConfiguredInv' /\ ToldInv'
  <1>1. /\ conn[s] = "open" /\ m_config[s] /\ pc[s] = "reply"
        /\ pc' = [pc EXCEPT ![s] = "idle"]
        /\ UNCHANGED <<rules, raced, conn, m_config, m_addr, delivered, tasks>>
    BY DEF SendReply, TInv, TypeOK, At, Goto, poolVars, tunVars
  <1>2. m_addr[s] # NoAddr
    BY <1>1 DEF RoutesInv, ConfiguredInv, Live
  <1>3. replied' = [replied EXCEPT ![s] = @ \cup {m_addr[s]}]
    BY <1>2 DEF SendReply
  <1>4. pc \in [Sessions -> Labels] /\ replied \in [Sessions -> SUBSET Addrs]
        /\ \A r \in rules : r.sess \in Sessions
    BY DEF TInv, TypeOK, Rule, Labels
  <1>5. RulesInv'
    BY <1>1 DEF RoutesInv, RulesInv
  <1>6. ConfiguredInv'
    <2>1. \A t \in Sessions : RuleOf(t)' = RuleOf(t)
      BY <1>1 DEF RuleOf
    <2>2. \A t \in Sessions : t # s => pc'[t] = pc[t]
      BY <1>1, <1>4
    <2> QED
      BY <1>1, <1>2, <2>1, <2>2 DEF RoutesInv, ConfiguredInv, Live
  <1>7. ToldInv'
    <2>1. ASSUME NEW t \in Sessions, NEW a, Told(t, a) PROVE Told(t, a)'
      BY <1>1, <1>3, <1>4, <2>1 DEF Told
    <2>2. \A r \in rules' : Told(r.sess, r.addr)'
      BY <1>1, <1>4, <2>1 DEF RoutesInv, ToldInv
    <2>3. \A t \in Sessions : \A i \in 1..Len(tasks'[t]) : Told(t, tasks[t][i])'
      BY <1>1, <2>1 DEF RoutesInv, ToldInv
    <2>4. \A t \in Sessions : delivered'[t] \subseteq replied'[t]
      BY <1>1, <1>3, <1>4 DEF RoutesInv, ToldInv
    <2> QED
      BY <1>1, <2>2, <2>3, <2>4 DEF ToldInv
  <1> QED
    BY <1>5, <1>6, <1>7

(* Packets posted before the reply was sent wait behind it. *)
LEMMA TaskRoutes ==
  ASSUME TInv, RoutesInv, NEW s \in Sessions, RunTask(s) \/ StaleTask(s), ~failed
  PROVE  RulesInv' /\ ConfiguredInv' /\ ToldInv'
  <1>1. /\ tasks[s] # <<>> /\ tasks' = [tasks EXCEPT ![s] = Tail(@)]
        /\ UNCHANGED <<rules, raced, conn, m_config, m_addr, replied, pc>>
    BY DEF RunTask, StaleTask, poolVars, tunVars, ghostVars
  <1>2. tasks \in [Sessions -> Seq(Dests \cup {NoAddr})]
    BY DEF TInv, TypeOK
  <1>3. /\ \A i \in 1..Len(tasks'[s]) : tasks'[s][i] = tasks[s][i + 1] /\ i + 1 \in 1..Len(tasks[s])
        /\ Head(tasks[s]) = tasks[s][1] /\ 1 \in 1..Len(tasks[s])
    BY <1>1, <1>2, HeadTailProperties, EmptySeq, LenProperties
  <1>4. RulesInv' /\ ConfiguredInv'
    BY <1>1 DEF RoutesInv, RulesInv, ConfiguredInv, Live, RuleOf
  <1>5. ToldInv'
    <2>1. \A r \in rules' : Told(r.sess, r.addr)'
      BY <1>1 DEF RoutesInv, ToldInv, Told
    <2>2. ASSUME NEW t \in Sessions, NEW i \in 1..Len(tasks'[t]) PROVE Told(t, tasks[t][i])'
      <3>1. CASE t = s
        <4>1. tasks'[s][i] = tasks[s][i + 1] /\ i + 1 \in 1..Len(tasks[s])
          BY <1>3, <3>1
        <4>2. Told(s, tasks[s][i + 1])
          BY <4>1 DEF RoutesInv, ToldInv
        <4> QED
          BY <1>1, <3>1, <4>1, <4>2 DEF Told
      <3>2. CASE t # s
        BY <1>1, <1>2, <3>2 DEF RoutesInv, ToldInv, Told
      <3> QED
        BY <3>1, <3>2
    <2>3. ASSUME NEW t \in Sessions PROVE delivered'[t] \subseteq replied'[t]
      <3>1. delivered[t] \subseteq replied[t]
        BY DEF RoutesInv, ToldInv
      <3>2. CASE StaleTask(s)
        BY <1>1, <3>1, <3>2 DEF StaleTask, ghostVars
      <3>3. CASE RunTask(s)
        <4>1. Head(tasks[s]) \in replied[s]
          BY <1>3, <3>3 DEF RunTask, At, RoutesInv, ToldInv, Told
        <4>2. delivered' = [delivered EXCEPT ![s] =
                              IF conn[s] = "open" THEN @ \cup {Head(tasks[s])} ELSE @]
          BY <3>3 DEF RunTask
        <4>3. delivered \in [Sessions -> SUBSET (Dests \cup {NoAddr})]
          BY DEF TInv, TypeOK
        <4> QED
          BY <1>1, <3>1, <4>1, <4>2, <4>3
      <3> QED
        BY <3>2, <3>3
    <2> QED
      BY <2>1, <2>2, <2>3 DEF ToldInv
  <1> QED
    BY <1>4, <1>5

LEMMA StoreAddrRoutes ==
  ASSUME TInv, RoutesInv, NEW s \in Sessions, StoreAddr(s), ~failed
  PROVE  RulesInv' /\ ConfiguredInv' /\ ToldInv'
  <1>1. /\ pc[s] = "store" /\ pc' = [pc EXCEPT ![s] = "rule"]
        /\ m_addr' = [m_addr EXCEPT ![s] = idx[s]]
        /\ UNCHANGED <<rules, raced, conn, m_config, replied, delivered, tasks>>
    BY DEF StoreAddr, Overwrite, At, Goto, tunVars
  <1>2. idx[s] # NoAddr
    BY <1>1, PoolAssumption DEF TInv, CursorInv, At, Inside, Addrs, NoAddr
  <1>3. /\ pc \in [Sessions -> Labels] /\ m_addr \in [Sessions -> Addrs \cup {NoAddr}]
        /\ \A r \in rules : r.sess \in Sessions
    BY DEF TInv, TypeOK, Rule, Labels
  <1>4. RulesInv'
    BY <1>1 DEF RoutesInv, RulesInv
  <1>5. ConfiguredInv'
    <2>1. \A t \in Sessions : t # s => pc'[t] = pc[t] /\ RuleOf(t)' = RuleOf(t) /\ m_addr'[t] = m_addr[t]
      BY <1>1, <1>3 DEF RuleOf
    <2> QED
      BY <1>1, <1>2, <1>3, <2>1 DEF RoutesInv, ConfiguredInv, Live
  <1>6. ToldInv'
    <2>1. ASSUME NEW t \in Sessions, NEW a, Told(t, a) PROVE Told(t, a)'
      BY <1>1, <1>3, <2>1 DEF Told
    <2>2. \A r \in rules' : Told(r.sess, r.addr)'
      BY <1>1, <1>3, <2>1 DEF RoutesInv, ToldInv
    <2>3. \A t \in Sessions : \A i \in 1..Len(tasks'[t]) : Told(t, tasks[t][i])'
      BY <1>1, <2>1 DEF RoutesInv, ToldInv
    <2> QED
      BY <1>1, <2>2, <2>3 DEF RoutesInv, ToldInv
  <1> QED
    BY <1>4, <1>5, <1>6

(* A packet is posted only to the session of a rule, whose address it has. *)
LEMMA DispatchRoutes ==
  ASSUME TInv, RoutesInv, Dispatch, ~failed
  PROVE  RulesInv' /\ ConfiguredInv' /\ ToldInv'
  <1> DEFINE d == Head(tunQ).dst
  <1>1. UNCHANGED <<rules, raced, conn, m_config, m_addr, pc, replied, delivered>>
    BY DEF Dispatch, poolVars, ghostVars
  <1>2. RulesInv' /\ ConfiguredInv'
    BY <1>1 DEF RoutesInv, RulesInv, ConfiguredInv, Live, RuleOf
  <1>3. ASSUME NEW t \in Sessions, NEW a, Told(t, a) PROVE Told(t, a)'
    BY <1>1, <1>3 DEF Told
  <1>4. ASSUME NEW t \in Sessions, NEW i \in 1..Len(tasks'[t]) PROVE Told(t, tasks[t][i])'
    <2>1. CASE UNCHANGED tasks
      BY <1>3, <2>1 DEF RoutesInv, ToldInv
    <2>2. ASSUME NEW r \in FirstMatch(d), Callback(r.sess, d) PROVE Told(t, tasks[t][i])'
      <3>1. r \in rules /\ r.addr = d /\ r.sess \in Sessions
        BY DEF FirstMatch, TInv, TypeOK, Rule
      <3>2. tasks \in [Sessions -> Seq(Dests \cup {NoAddr})] /\ d \in Dests \cup {NoAddr}
        <4>1. tunQ # <<>> /\ tunQ \in Seq(TunTask)
          BY DEF Dispatch, TInv, TypeOK, TunTask
        <4>2. Head(tunQ) \in TunTask
          BY <4>1, HeadTailProperties
        <4> QED
          BY <4>2 DEF TInv, TypeOK, TunTask
      <3>3. Told(r.sess, d)
        BY <3>1 DEF RoutesInv, ToldInv
      <3>4. CASE t # r.sess \/ ~m_config[r.sess]
        <4>1. tasks'[t] = tasks[t]
          BY <2>2, <3>1, <3>2, <3>4 DEF Callback
        <4> QED
          BY <1>1, <4>1 DEF RoutesInv, ToldInv, Told
      <3>5. CASE t = r.sess /\ m_config[r.sess]
        <4>1. tasks'[t] = Append(tasks[t], d)
          BY <2>2, <3>1, <3>2, <3>5 DEF Callback
        <4>2. tasks'[t][i] = d \/ (i \in 1..Len(tasks[t]) /\ tasks'[t][i] = tasks[t][i])
          BY <3>2, <4>1, AppendProperties
        <4> QED
          BY <1>1, <3>3, <3>5, <4>2 DEF RoutesInv, ToldInv, Told
      <3> QED
        BY <3>4, <3>5
    <2>3. CASE DanglingCallback
      BY <1>3, <2>3 DEF DanglingCallback, RoutesInv, ToldInv
    <2> QED
      BY <2>1, <2>2, <2>3 DEF Dispatch
  <1>5. \A r \in rules' : Told(r.sess, r.addr)'
    BY <1>1 DEF RoutesInv, ToldInv, Told
  <1> QED
    BY <1>1, <1>2, <1>4, <1>5 DEF RoutesInv, ToldInv

LEMMA UniqueFromAlloc == AllocInv => UniqueAddr
  BY DEF AllocInv, TInv, TypeOK, HeldDisjoint, UniqueAddr, HeldBy

LEMMA NextRoutesInv == AllocInv /\ RoutesInv /\ [Next]_vars => RoutesInv'
  <1> SUFFICES ASSUME AllocInv, RoutesInv, [Next]_vars PROVE RoutesInv'
    OBVIOUS
  <1>0. TInv /\ TypeOK /\ UniqueAddr /\ pc \in [Sessions -> Labels]
    BY UniqueFromAlloc DEF AllocInv, TInv, TypeOK, Labels
  <1>1. ASSUME NEW s \in Sessions, Accept(s) PROVE RoutesInv'
    <2>1. \A t \in Sessions : Live(t)' /\ m_config[t] => Live(t)
      BY <1>0, <1>1 DEF Accept, AllocInv, SessionInv, TypeOK, Live
    <2> QED
      BY <1>0, <1>1, <2>1, SteadyRoutes DEF Accept, poolVars, tunVars, ghostVars
  <1>2. ASSUME NEW s \in Sessions, RecvConfigRequest(s) PROVE RoutesInv'
    <2>1. /\ pc[s] = "idle" /\ pc' = [pc EXCEPT ![s] = "check"]
          /\ m_config' = [m_config EXCEPT ![s] = TRUE]
          /\ UNCHANGED <<rules, raced, conn, m_addr, replied, delivered, tasks, failed>>
      BY <1>2 DEF RecvConfigRequest, At, Goto, poolVars, tunVars, ghostVars
    <2> SUFFICES ASSUME ~failed PROVE RulesInv' /\ ConfiguredInv' /\ ToldInv'
      BY <2>1 DEF RoutesInv
    <2>2. RulesInv'
      BY <2>1 DEF RoutesInv, RulesInv
    <2>3. ConfiguredInv'
      <3>1. \A t \in Sessions : t # s => pc'[t] = pc[t] /\ m_config'[t] = m_config[t]
        BY <1>0, <2>1 DEF TypeOK
      <3>2. pc'[s] = "check" /\ \A t \in Sessions : RuleOf(t)' = RuleOf(t)
        BY <1>0, <2>1 DEF RuleOf
      <3> QED
        BY <2>1, <3>1, <3>2 DEF RoutesInv, ConfiguredInv, Live
    <2>4. ToldInv'
      <3>1. ASSUME NEW t \in Sessions, NEW a, Told(t, a) PROVE Told(t, a)'
        BY <1>0, <2>1, <3>1 DEF Told
      <3>2. \A r \in rules : r.sess \in Sessions
        BY <1>0 DEF TypeOK, Rule
      <3>3. \A r \in rules' : Told(r.sess, r.addr)'
        BY <2>1, <3>1, <3>2 DEF RoutesInv, ToldInv
      <3>4. \A t \in Sessions : \A i \in 1..Len(tasks'[t]) : Told(t, tasks[t][i])'
        BY <2>1, <3>1 DEF RoutesInv, ToldInv
      <3> QED
        BY <2>1, <3>3, <3>4 DEF RoutesInv, ToldInv
    <2> QED
      BY <2>2, <2>3, <2>4
  <1>3. ASSUME NEW s \in Sessions, RecvData(s) \/ SkipIndex(s) PROVE RoutesInv'
    BY <1>0, <1>3, SteadyRoutes DEF RecvData, SkipIndex, poolVars, tunVars, ghostVars, sessVars, Live
  <1>4. ASSUME NEW s \in Sessions, CheckCursor(s) \/ InitCursor(s) \/ TakeIndex(s) \/ NameAddr(s)
        PROVE  RoutesInv'
    <2>1. \A t \in Sessions : /\ pc'[t] = pc[t] \/ pc'[t] \notin {"rule", "reply", "idle"}
                              /\ pc[t] = "reply" => pc'[t] = "reply"
      BY <1>0, <1>4 DEF CheckCursor, InitCursor, TakeIndex, NameAddr, At, Goto
    <2>2. raced => raced'
      BY <1>4 DEF CheckCursor, InitCursor, TakeIndex, NameAddr, poolVars
    <2> QED
      BY <1>0, <1>4, <2>1, <2>2, SteadyRoutes
      DEF CheckCursor, InitCursor, TakeIndex, NameAddr, tunVars, ghostVars, Live
  <1>5. ASSUME NEW s \in Sessions, SnapCursor(s) PROVE RoutesInv'
    <2>1. CASE ConfigIpOk
      <3>1. \A t \in Sessions : /\ pc'[t] = pc[t] \/ pc'[t] \notin {"rule", "reply", "idle"}
                                /\ pc[t] = "reply" => pc'[t] = "reply"
        BY <1>0, <1>5, <2>1 DEF SnapCursor, At, Goto
      <3> QED
        BY <1>0, <1>5, <2>1, <3>1, SteadyRoutes DEF SnapCursor, poolVars, tunVars, Live
    <2>2. CASE ~ConfigIpOk
      BY <1>5, <2>2 DEF SnapCursor, AllocFails, RoutesInv
    <2> QED
      BY <2>1, <2>2
  <1>6. ASSUME NEW s \in Sessions, Exhaust(s) PROVE RoutesInv'
    BY <1>6 DEF Exhaust, AllocFails, RoutesInv
  <1>7. ASSUME NEW s \in Sessions, StoreAddr(s) PROVE RoutesInv'
    BY <1>0, <1>7, StoreAddrRoutes DEF RoutesInv, StoreAddr
  <1>8. ASSUME NEW s \in Sessions, InstallRule(s) PROVE RoutesInv'
    BY <1>0, <1>8, InstallRuleRoutes DEF RoutesInv, InstallRule, ghostVars
  <1>9. ASSUME NEW s \in Sessions, SendReply(s) PROVE RoutesInv'
    BY <1>0, <1>9, SendReplyRoutes DEF RoutesInv, SendReply
  <1>10. ASSUME NEW s \in Sessions, RunTask(s) \/ StaleTask(s) PROVE RoutesInv'
    <2>1. failed' = failed
      BY <1>10 DEF RunTask, StaleTask, ghostVars
    <2> QED
      BY <1>0, <1>10, <2>1, TaskRoutes DEF RoutesInv
  <1>11. ASSUME NEW s \in Sessions, PeerCloses(s) \/ OnManager(s) \/ OnError(s) \/ Destroy(s)
         PROVE  RoutesInv'
    <2>1. \A t \in Sessions : Live(t)' => Live(t)
      BY <1>0, <1>11 DEF PeerCloses, OnManager, OnError, Destroy, TypeOK, Live
    <2> QED
      BY <1>0, <1>11, <2>1, SteadyRoutes
      DEF PeerCloses, OnManager, OnError, Destroy, poolVars, tunVars, ghostVars
  <1>12. CASE Dispatch
    BY <1>0, <1>12, DispatchRoutes DEF RoutesInv, Dispatch, ghostVars
  <1>13. ASSUME TunWrite \/ \E d \in Dests : TunRead(d) PROVE RoutesInv'
    <2>1. UNCHANGED <<rules, raced, conn, m_addr, m_config, replied, delivered, tasks, failed, pc>>
      BY <1>13 DEF TunWrite, TunRead, poolVars, ghostVars, sessVars
    <2> QED
      BY <1>0, <2>1, SteadyRoutes DEF Live
  <1>14. CASE Restart
    BY <1>14 DEF Restart, RoutesInv, RulesInv, ConfiguredInv, ToldInv, Told, Live
  <1>15. CASE UNCHANGED vars
    BY <1>0, <1>15, SteadyRoutes DEF vars, Live
  <1> QED
    BY <1>1, <1>2, <1>3, <1>4, <1>5, <1>6, <1>7, <1>8, <1>9, <1>10, <1>11, <1>12,
       <1>13, <1>14, <1>15
    DEF Next, SessionStep, Handler, TunStep

LEMMA RoutesInvariant == Spec => [](AllocInv /\ RoutesInv)
  BY InitAllocInv, NextAllocInv, InitRoutesInv, NextRoutesInv, PTL DEF Spec

(* For every set of sessions and every pool: until an allocation fails or  *)
(* the cursor is changed under the lock, the rule that matches a           *)
(* configured session's address is its own, though the rules of dead       *)
(* sessions are never removed                                              *)
(* (TalusTunInterface.h:86-90, TalusTunInterface.cpp:142-168).             *)
THEOREM RoutesToOwner == Spec => []RouteOwner
  <1>1. AllocInv /\ RoutesInv => RouteOwner
    <2> SUFFICES ASSUME AllocInv, RulesInv, ConfiguredInv,
                        ~raced, NEW s \in Sessions, Live(s), m_config[s], At(s, "idle")
                 PROVE  FirstMatch(m_addr[s]) = {RuleOf(s)}
      BY DEF RouteOwner, RoutesInv, RuleOf
    <2>1. RuleOf(s) \in rules
      BY DEF ConfiguredInv, At
    <2>2. \A r \in rules : r.addr = m_addr[s] => r = RuleOf(s)
      BY <2>1 DEF RulesInv, RuleOf
    <2>3. m_addr[s] \in Int
      BY PoolAssumption DEF AllocInv, TInv, TypeOK, Addrs, NoAddr
    <2>4. RuleOf(s).key = m_addr[s] /\ RuleOf(s).addr = m_addr[s]
      BY DEF RuleOf
    <2> QED
      BY <2>1, <2>2, <2>3, <2>4 DEF FirstMatch
  <1> QED
    BY <1>1, RoutesInvariant, PTL

(* For every set of sessions and every pool: until an allocation fails, a  *)
(* peer is sent only packets for addresses it has been told are its own    *)
(* (TunWsSession.h:50-64).                                                 *)
THEOREM OnlyOwnPacketsSent == Spec => []OnlyOwnPackets
  <1>1. RoutesInv => OnlyOwnPackets
    BY DEF RoutesInv, ToldInv, OnlyOwnPackets
  <1> QED
    BY <1>1, RoutesInvariant, PTL

(***************************************************************************)
(* The daemon that runs the server, and its child processes: each child    *)
(* has one reaper, and nothing of the program runs on once the daemon is   *)
(* told to stop.                                                           *)
(***************************************************************************)
(***************************************************************************)
(* Children.                                                               *)
(***************************************************************************)
ProcTypes ==
  /\ life \in [Pids -> {"free", "cloned", "running", "dying", "zombie", "orphan"}]
  /\ _pid \in [Objects -> Pids \cup {NoPid}]
  /\ busy \in [Objects -> {"none", "run", "wait", "reap"}]
  /\ checks \in SUBSET Pids
  /\ forced \in SUBSET Pids

(* What a task or a poller looks after belongs to no object, a child has   *)
(* one object, and what somebody waits for has not been reaped by another. *)
TasksOwn == \A p \in checks \cup forced : \A o \in Objects : _pid[o] # p

ForcedEnding == \A p \in forced : p \notin checks /\ life[p] \in {"dying", "zombie"}

OneObject == \A o, q \in Objects : _pid[o] = _pid[q] /\ _pid[o] # NoPid => o = q

BusyOwn ==
  \A o \in Objects :
    /\ busy[o] = "run" => _pid[o] = NoPid
    /\ busy[o] \in {"wait", "reap"} => _pid[o] # NoPid
    /\ busy[o] = "reap" => life[_pid[o]] \in {"dying", "zombie"}

ProcInv == ProcTypes /\ TasksOwn /\ ForcedEnding /\ OneObject /\ BusyOwn

LEMMA ProcStart == ProcInit => ProcInv
  BY NoPidAssumption
  DEF ProcInit, ProcInv, ProcTypes, TasksOwn, ForcedEnding, OneObject, BusyOwn

(* One thread's step with its object. *)
LEMMA UserKeeps ==
  ASSUME ProcInv, NEW o \in Objects, UserStep(o)
  PROVE  ProcInv'
<1> USE NoPidAssumption DEF ProcInv, ProcTypes, TasksOwn, ForcedEnding, OneObject, BusyOwn
<1>1. CASE Run(o)
  BY <1>1 DEF Run, Terminate
<1>2. ASSUME NEW p \in Pids, Clone(o, p)
      PROVE  ProcInv'
  BY <1>2 DEF Clone, Remembered
<1>3. CASE CloneFails(o)
  BY <1>3 DEF CloneFails
<1>4. CASE Wait(o)
  BY <1>4 DEF Wait
<1>5. CASE WaitReturns(o)
  BY <1>5 DEF WaitReturns
<1>6. CASE Poll(o)
  BY <1>6 DEF Poll
<1>7. CASE Kill(o)
  BY <1>7 DEF Kill, Terminate
<1>8. CASE KillForced(o)
  BY <1>8 DEF KillForced
<1>9. CASE KillReaps(o)
  BY <1>9 DEF KillReaps
<1> QED
  BY <1>1, <1>2, <1>3, <1>4, <1>5, <1>6, <1>7, <1>8, <1>9 DEF UserStep

(* A poller's step, and what a child does by itself. *)
LEMMA ChildKeeps ==
  ASSUME ProcInv, NEW p \in Pids, PollerStep(p) \/ RunChildProcess(p) \/ Ends(p)
  PROVE  ProcInv'
<1> USE NoPidAssumption DEF ProcInv, ProcTypes, TasksOwn, ForcedEnding, OneObject, BusyOwn
<1>1. CASE Check(p)
  BY <1>1 DEF Check, Young
<1>2. CASE ForcedReaps(p)
  BY <1>2 DEF ForcedReaps
<1>3. CASE RunChildProcess(p)
  BY <1>3 DEF RunChildProcess
<1>4. CASE Ends(p)
  BY <1>4 DEF Ends, Young
<1> QED
  BY <1>1, <1>2, <1>3, <1>4 DEF PollerStep

LEMMA ParentKeeps ==
  ASSUME ProcInv, ParentEnds
  PROVE  ProcInv'
  BY NoPidAssumption
  DEF ParentEnds, ProcInv, ProcTypes, TasksOwn, ForcedEnding, OneObject, BusyOwn

LEMMA OthersKeep ==
  ASSUME ProcInv, UNCHANGED procVars
  PROVE  ProcInv'
  BY DEF procVars, ProcInv, ProcTypes, TasksOwn, ForcedEnding, OneObject, BusyOwn

LEMMA ProcStep == ProcInv /\ [SystemNext]_systemVars => ProcInv'
<1> SUFFICES ASSUME ProcInv, [SystemNext]_systemVars
             PROVE  ProcInv'
  OBVIOUS
<1>1. ASSUME NEW v \in Servers, Fork(v) \/ ChildAssigns(v) \/ ServerInstalls(v)
      PROVE  ProcInv'
  BY <1>1, OthersKeep DEF Fork, ChildAssigns, ServerInstalls
<1>2. ASSUME NEW v \in Servers, ServerEnds(v)
      PROVE  ProcInv'
  BY <1>2, ParentKeeps, OthersKeep DEF ServerEnds
<1>3. CASE ForkFails \/ Daemon
  BY <1>3, OthersKeep DEF ForkFails, Daemon, Assign, Install, Reap, Wake
<1>4. CASE StopService \/ TerminalInterrupt
  BY <1>4, OthersKeep DEF StopService, TerminalInterrupt, Interrupted
<1>5. CASE Scripts
  BY <1>5, UserKeeps DEF Scripts
<1>6. CASE Pollers
  BY <1>6, ChildKeeps DEF Pollers
<1>7. ASSUME NEW p \in Pids, ScriptStarts(p) \/ ScriptEnds(p)
      PROVE  ProcInv'
  BY <1>7, ChildKeeps DEF ScriptStarts, ScriptEnds
<1>8. CASE UNCHANGED systemVars
  BY <1>8, OthersKeep DEF systemVars
<1> QED
  BY <1>1, <1>2, <1>3, <1>4, <1>5, <1>6, <1>7, <1>8 DEF SystemNext

(* A child is reaped by one only: the object that runs it, the task that   *)
(* looks after it or the poller that has killed it (Process.cpp:189-235,   *)
(* 294-311).                                                               *)
THEOREM ReapedByOne == SystemSpec => []OneReaper
<1>1. SystemInit => ProcInv
  BY ProcStart DEF SystemInit
<1>2. ProcInv => OneReaper
  BY NoPidAssumption
  DEF ProcInv, ProcTypes, TasksOwn, ForcedEnding, BusyOwn, OneReaper
<1> QED
  BY <1>1, <1>2, ProcStep, PTL DEF SystemSpec

(***************************************************************************)
(* The daemon and its servers.                                             *)
(***************************************************************************)
ServerStates == {"free", "forked", "new", "serving", "leaving", "zombie"}

AllFree == \A v \in Servers : server[v] = "free"

OnlyServer(v) == \A w \in Servers : server[w] # "free" => w = v

(* Which server there can be, by what the daemon does next. *)
DaemonPlace ==
  /\ daemon \in {"fork", "assign", "install", "wait", "pause", "gone"}
  /\ daemon \in {"fork", "pause"} => AllFree
  /\ daemon = "assign" => \E v \in Servers : server[v] # "free" /\ OnlyServer(v)
  /\ daemon \in {"install", "wait"} => pid \in Servers /\ OnlyServer(pid)

ServerTypes == server \in [Servers -> ServerStates]

StopInv ==
  /\ ServerTypes
  /\ DaemonPlace
  /\ stopped => daemon = "gone"
  /\ StoppedTogether

LEMMA StopStart == SystemInit => StopInv
  BY DEF SystemInit, StopInv, ServerTypes, ServerStates, DaemonPlace, AllFree, StoppedTogether

(* A signal that reaches the one server there can be stops it, or it is    *)
(* gone with the signal.                                                   *)
LEMMA Signalled ==
  ASSUME ServerTypes,
         NEW told \in SUBSET Servers,
         \A v \in Servers : server[v] # "free" => v \in told
  PROVE  \A v \in Servers : AfterSigint(told, "gone")[v] \in {"free", "leaving"}
<1> SUFFICES ASSUME NEW v \in Servers
             PROVE  AfterSigint(told, "gone")[v] \in {"free", "leaving"}
  OBVIOUS
<1>1. server[v] \in ServerStates /\ (server[v] # "free" => v \in told)
  BY DEF ServerTypes
<1> QED
  BY <1>1 DEF AfterSigint, EndedState, ServerStates

(* It gives every id a state again. *)
LEMMA SignalTypes ==
  ASSUME ServerTypes, NEW told \in SUBSET Servers
  PROVE  AfterSigint(told, "gone") \in [Servers -> ServerStates]
<1>1. ASSUME NEW v \in Servers
      PROVE  AfterSigint(told, "gone")[v] \in ServerStates
  <2>1. server[v] \in ServerStates
    BY DEF ServerTypes
  <2> QED
    BY <2>1 DEF AfterSigint, EndedState, ServerStates
<1> QED
  BY <1>1 DEF AfterSigint

LEMMA ToldKeeps ==
  ASSUME StopInv, NEW told \in SUBSET Servers, Interrupted(told),
         unarmed' \/ \A v \in Servers : server[v] # "free" => v \in told
  PROVE  StopInv'
<1>1. ServerTypes'
  BY SignalTypes DEF StopInv, Interrupted, ServerTypes
<1>2. StoppedTogether'
  BY Signalled DEF StopInv, Interrupted, StoppedTogether
<1> QED
  BY <1>1, <1>2 DEF StopInv, Interrupted, DaemonPlace

(* The fork's result is the one server there is. *)
LEMMA ChildIsServer ==
  ASSUME NEW v \in Servers, server[v] # "free", OnlyServer(v)
  PROVE  Child \in Servers /\ OnlyServer(Child)
<1>1. Child \in Servers /\ server[Child] # "free"
  BY DEF Child
<1> QED
  BY <1>1 DEF OnlyServer

LEMMA StopStep == StopInv /\ [SystemNext]_systemVars => StopInv'
<1> SUFFICES ASSUME StopInv, [SystemNext]_systemVars
             PROVE  StopInv'
  OBVIOUS
<1> USE DEF StopInv, ServerTypes, ServerStates, DaemonPlace, AllFree, OnlyServer, StoppedTogether
<1>1. ASSUME NEW v \in Servers, Fork(v)
      PROVE  StopInv'
  BY <1>1 DEF Fork, DaemonStep
<1>2. ASSUME NEW v \in Servers, ChildAssigns(v) \/ ServerInstalls(v)
      PROVE  StopInv'
  BY <1>2 DEF ChildAssigns, ServerInstalls
<1>3. ASSUME NEW v \in Servers, ServerEnds(v)
      PROVE  StopInv'
  BY <1>3 DEF ServerEnds, Alive, EndedState
<1>4. CASE ForkFails
  BY <1>4 DEF ForkFails, DaemonStep
<1>5. CASE Assign
  BY <1>5, ChildIsServer DEF Assign, DaemonStep
<1>6. CASE Install \/ Reap \/ Wake
  BY <1>6 DEF Install, Reap, Wake, DaemonStep
<1>7. CASE StopService
  <2>1. unarmed' \/ \A v \in Servers : server[v] # "free" => v \in Passed
    BY <1>7 DEF StopService, Interrupted, Passed
  <2> QED
    BY <1>7, <2>1, ToldKeeps DEF StopService, Passed
<1>8. CASE TerminalInterrupt
  BY <1>8, ToldKeeps DEF TerminalInterrupt
<1>9. ASSUME NEW p \in Pids, ScriptStarts(p) \/ ScriptEnds(p)
      PROVE  StopInv'
  BY <1>9 DEF ScriptStarts, ScriptEnds, daemonVars
<1>10. CASE Scripts \/ Pollers \/ UNCHANGED systemVars
  BY <1>10 DEF Scripts, Pollers, systemVars, daemonVars
<1> QED
  BY <1>1, <1>2, <1>3, <1>4, <1>5, <1>6, <1>7, <1>8, <1>9, <1>10 DEF SystemNext, Daemon

(* Told to stop, the daemon leaves no server behind that has not been told *)
(* too, for any number of ids and whatever the signal meets, apart from    *)
(* the window between a fork and its assignment (System.cpp:52-73,         *)
(* main.cpp:96-100).                                                       *)
THEOREM NothingRunsOn == SystemSpec => []StoppedTogether
<1>1. StopInv => StoppedTogether
  BY DEF StopInv
<1> QED
  BY <1>1, StopStart, StopStep, PTL DEF SystemSpec
=============================================================================
