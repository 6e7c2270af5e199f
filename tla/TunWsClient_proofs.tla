------------------------- MODULE TunWsClient_proofs --------------------------
(***************************************************************************)
(* Proofs that the safety properties of TunWsClient hold for every bound   *)
(* on waiting packets.                                                     *)
(***************************************************************************)
EXTENDS TunWsClient, DataFilter, TunReader, SequenceTheorems, TLAPS

(* What an attempt's variables say of each other: the websocket is open    *)
(* only behind a handshake whose header has been received, and the sends   *)
(* lead to it only once it has sent its request.                           *)
AttemptInv ==
  /\ onRecv => headerRecved /\ sock \in {"connected", "failing"}
  /\ onRecv => cbCurrent
  /\ cbCurrent => first = "request"
  /\ first # "packet"

(* m_config is only set once the server has replied on this connection,    *)
(* after its decoy.                                                        *)
ConfigAfterReply == m_config => answered = "reply"

CInv ==
  /\ TypeOK /\ OneDriver /\ AttemptInv /\ ConfigWhileOpen /\ TunnelWhenConfigured
  /\ ConfigAfterReply /\ OnlyPacketsWritten

LEMMA InitCInv == Init => CInv
  <1> SUFFICES ASSUME Init PROVE CInv
    OBVIOUS
  <1>1. TypeOK
    <2>1. 0 \in 0..TaskCap
      BY BoundAssumption DEF BoundAssumption
    <2> QED
      BY <2>1 DEF Init, TypeOK, FAKE_HEADER
  <1>2. OneDriver
    BY DEF Init, OneDriver
  <1>3. AttemptInv /\ ConfigWhileOpen /\ TunnelWhenConfigured
    BY DEF Init, AttemptInv, ConfigWhileOpen, TunnelWhenConfigured
  <1>4. ConfigAfterReply /\ OnlyPacketsWritten
    BY DEF Init, ConfigAfterReply, OnlyPacketsWritten, FAKE_HEADER
  <1> QED
    BY <1>1, <1>2, <1>3, <1>4 DEF CInv

(* The two halves of the type invariant, proved apart. *)
CountersOK == timers \in Nat /\ tasks \in 0..TaskCap

FlagsOK ==
  /\ sock \in {"none", "connecting", "connected", "failing"}
  /\ headerRecved \in BOOLEAN /\ onRecv \in BOOLEAN /\ m_config \in BOOLEAN
  /\ cbCurrent \in BOOLEAN /\ rule \in BOOLEAN /\ tunUp \in BOOLEAN
  /\ checked \in BOOLEAN /\ short \in BOOLEAN /\ odd \in BOOLEAN
  /\ first \in {"none", "request", "packet"}
  /\ answered \in {"nothing", "decoy", "reply"}
  /\ written \in {"nothing", FAKE_HEADER, "packet"}

LEMMA StepCounters == CountersOK /\ [Next]_vars => CountersOK'
  <1> SUFFICES ASSUME CountersOK, [Next]_vars PROVE CountersOK'
    OBVIOUS
  <1> USE BoundAssumption DEF BoundAssumption, CountersOK, attemptVars, pktVars
  <1>1. CASE Retry
    BY <1>1 DEF Retry, StartWebSocket, StartWsClient
  <1>2. CASE ConnectFails \/ OpenLost \/ HandshakeLost
    BY <1>2 DEF ConnectFails, OpenLost, HandshakeLost, ScheduleRetry
  <1>3. CASE ConnectOk \/ HeaderTimeout \/ HandshakeRefused \/ HandshakeOk
             \/ Disconnected \/ ConfigTimeout
    BY <1>3 DEF ConnectOk, HeaderTimeout, HandshakeRefused, HandshakeOk, Disconnected, ConfigTimeout
  <1>4. CASE Redirected
    BY <1>4 DEF Redirected
  <1>5. CASE RecvOther \/ RecvConfig \/ RecvShortConfig \/ RecvBadConfig
    BY <1>5 DEF RecvOther, RecvConfig, RecvShortConfig, RecvBadConfig, unlessAnswered
  <1>6. CASE CallbackChecks \/ UNCHANGED vars
    BY <1>6 DEF CallbackChecks, vars
  <1>7. CASE CallbackPosts
    BY <1>7 DEF CallbackPosts
  <1>8. CASE SendPacket
    BY <1>8 DEF SendPacket
  <1> QED
    BY <1>1, <1>2, <1>3, <1>4, <1>5, <1>6, <1>7, <1>8 DEF Next

LEMMA StepFlags == FlagsOK /\ [Next]_vars => FlagsOK'
  <1> SUFFICES ASSUME FlagsOK, [Next]_vars PROVE FlagsOK'
    OBVIOUS
  <1> USE DEF FlagsOK, FAKE_HEADER, Fail, attemptVars, tunVars, pktVars
  <1>1. CASE Retry
    BY <1>1 DEF Retry, StartWebSocket, StartWsClient
  <1>2. CASE ConnectFails \/ ConnectOk \/ HeaderTimeout \/ Disconnected \/ ConfigTimeout
    BY <1>2 DEF ConnectFails, ConnectOk, HeaderTimeout, Disconnected, ConfigTimeout
  <1>3. CASE Redirected
    BY <1>3 DEF Redirected
  <1>11. CASE HandshakeRefused
    BY <1>11 DEF HandshakeRefused
  <1>4. CASE HandshakeOk
    BY <1>4 DEF HandshakeOk, SendWs
  <1>5. CASE RecvOther
    BY <1>5 DEF RecvOther, Follows, unlessAnswered
  <1>6. CASE RecvConfig \/ RecvShortConfig \/ RecvBadConfig
    <2>1. UNCHANGED <<unlessAnswered, written>> /\ m_config' = TRUE /\ answered' = "reply"
      BY <1>6 DEF RecvConfig, RecvShortConfig, RecvBadConfig, Follows
    <2>2. sock' \in {sock, "failing"} /\ checked' = checked
      BY <1>6 DEF RecvConfig, RecvShortConfig, RecvBadConfig
    <2>3. rule' \in BOOLEAN /\ tunUp' \in BOOLEAN /\ short' \in BOOLEAN
      BY <1>6 DEF RecvConfig, RecvShortConfig, RecvBadConfig
    <2>4. /\ UNCHANGED <<headerRecved, odd, onRecv, cbCurrent, first, written, checked>>
          /\ m_config' = TRUE /\ answered' = "reply"
      BY <2>1, <2>2 DEF unlessAnswered
    <2>5. /\ headerRecved' \in BOOLEAN /\ onRecv' \in BOOLEAN /\ m_config' \in BOOLEAN
          /\ cbCurrent' \in BOOLEAN /\ checked' \in BOOLEAN /\ odd' \in BOOLEAN
      BY <2>4
    <2>6. /\ sock' \in {"none", "connecting", "connected", "failing"}
          /\ first' \in {"none", "request", "packet"}
          /\ answered' \in {"nothing", "decoy", "reply"}
          /\ written' \in {"nothing", FAKE_HEADER, "packet"}
      BY <2>2, <2>4
    <2> QED
      BY <2>3, <2>5, <2>6
  <1>7. CASE OpenLost \/ HandshakeLost
    <2>1. /\ sock' = "none" /\ onRecv' \in BOOLEAN /\ m_config' \in BOOLEAN
          /\ UNCHANGED <<headerRecved, odd, cbCurrent, first, short, answered, tunVars, checked>>
      <3>1. CASE OpenLost
        BY <3>1 DEF OpenLost
      <3>2. CASE HandshakeLost
        BY <3>2 DEF HandshakeLost
      <3> QED
        BY <1>7, <3>1, <3>2
    <2> QED
      BY <2>1
  <1>8. CASE CallbackChecks \/ CallbackPosts
    <2>1. checked' \in BOOLEAN /\ UNCHANGED <<sock, attemptVars, m_config, tunVars>>
      BY <1>8 DEF CallbackChecks, CallbackPosts
    <2> QED
      BY <2>1
  <1>9. CASE UNCHANGED vars
    BY <1>9 DEF vars
  <1>10. CASE SendPacket
    BY <1>10 DEF SendPacket, SendWs
  <1> QED
    BY <1>1, <1>2, <1>3, <1>4, <1>5, <1>6, <1>7, <1>8, <1>9, <1>10, <1>11 DEF Next

LEMMA StepTypeOK == TypeOK /\ [Next]_vars => TypeOK'
  <1> SUFFICES ASSUME TypeOK, [Next]_vars PROVE TypeOK'
    OBVIOUS
  <1>1. CountersOK' /\ FlagsOK'
    BY StepCounters, StepFlags DEF TypeOK, CountersOK, FlagsOK
  <1> QED
    BY <1>1 DEF TypeOK, CountersOK, FlagsOK

(* Only the end of an attempt starts a timer, and only the timer starts an *)
(* attempt.                                                                *)
LEMMA StepOneDriver == CInv /\ [Next]_vars => OneDriver'
  <1> SUFFICES ASSUME TypeOK, OneDriver, [Next]_vars PROVE OneDriver'
    BY DEF CInv
  <1> USE DEF TypeOK, OneDriver, Fail, ScheduleRetry, InHandshake, Receiving,
          Follows, unlessAnswered, attemptVars, tunVars, pktVars
  <1>1. CASE Retry
    <2>1. timers = 1 /\ timers' = 0 /\ sock' = "connecting"
      BY <1>1 DEF Retry, StartWebSocket, StartWsClient
    <2> QED
      BY <2>1
  <1>2. CASE ConnectFails \/ OpenLost \/ HandshakeLost
    <2>1. timers = 0 /\ timers' = 1 /\ sock' = "none"
      BY <1>2 DEF ConnectFails, OpenLost, HandshakeLost
    <2> QED
      BY <2>1
  <1>3. CASE ConnectOk \/ HeaderTimeout \/ Redirected \/ HandshakeRefused \/ HandshakeOk
             \/ RecvOther \/ RecvConfig \/ RecvShortConfig \/ RecvBadConfig \/ Disconnected \/ ConfigTimeout
    <2>1. timers' = timers /\ sock # "none" /\ sock' # "none"
      BY <1>3 DEF ConnectOk, HeaderTimeout, Redirected, HandshakeRefused, HandshakeOk,
                  RecvOther, RecvConfig, RecvShortConfig, RecvBadConfig, Disconnected, ConfigTimeout
    <2> QED
      BY <2>1
  <1>4. CASE CallbackChecks \/ CallbackPosts \/ SendPacket \/ UNCHANGED vars
    BY <1>4 DEF CallbackChecks, CallbackPosts, SendPacket, vars
  <1> QED
    BY <1>1, <1>2, <1>3, <1>4 DEF Next

LEMMA StepAttemptInv == CInv /\ [Next]_vars => AttemptInv'
  <1> SUFFICES ASSUME TypeOK, OneDriver, AttemptInv, [Next]_vars PROVE AttemptInv'
    BY DEF CInv
  <1> USE DEF TypeOK, AttemptInv, Fail, SendWs, InHandshake, Receiving,
          Follows, unlessAnswered, attemptVars, tunVars, pktVars
  <1>1. CASE Retry
    BY <1>1 DEF Retry, StartWebSocket, StartWsClient
  <1>2. CASE ConnectFails \/ ConnectOk \/ HeaderTimeout \/ Redirected \/ HandshakeRefused
    BY <1>2 DEF ConnectFails, ConnectOk, HeaderTimeout, Redirected, HandshakeRefused
  <1>3. CASE HandshakeOk
    BY <1>3 DEF HandshakeOk
  <1>4. CASE RecvOther \/ RecvConfig \/ RecvShortConfig \/ RecvBadConfig \/ Disconnected
             \/ ConfigTimeout
    BY <1>4 DEF RecvOther, RecvConfig, RecvShortConfig, RecvBadConfig, Disconnected, ConfigTimeout
  <1>5. CASE OpenLost \/ HandshakeLost
    BY <1>5 DEF OpenLost, HandshakeLost
  <1>6. CASE CallbackChecks \/ CallbackPosts \/ UNCHANGED vars
    BY <1>6 DEF CallbackChecks, CallbackPosts, vars
  <1>7. CASE SendPacket
    BY <1>7 DEF SendPacket
  <1> QED
    BY <1>1, <1>2, <1>3, <1>4, <1>5, <1>6, <1>7 DEF Next

(* A configuration belongs to an open websocket: no step ends or replaces  *)
(* one without resetting it.                                               *)
LEMMA StepConfig == CInv /\ [Next]_vars => ConfigWhileOpen' /\ TunnelWhenConfigured'
  <1> SUFFICES ASSUME TypeOK, OneDriver, AttemptInv, ConfigWhileOpen, TunnelWhenConfigured,
                      [Next]_vars
               PROVE  ConfigWhileOpen' /\ TunnelWhenConfigured'
    BY DEF CInv
  <1> USE DEF TypeOK, AttemptInv, ConfigWhileOpen, TunnelWhenConfigured, Fail, InHandshake,
          Receiving, Follows, unlessAnswered, attemptVars, tunVars, pktVars
  <1>1. CASE Retry
    <2>1. sock = "none" /\ ~m_config
      BY <1>1 DEF Retry, OneDriver
    <2> QED
      BY <1>1, <2>1 DEF Retry, StartWebSocket, StartWsClient
  <1>2. CASE ConnectFails \/ ConnectOk \/ Redirected \/ HandshakeRefused \/ HandshakeOk
    <2>1. ~m_config /\ ~m_config'
      BY <1>2 DEF ConnectFails, ConnectOk, Redirected, HandshakeRefused, HandshakeOk
    <2> QED
      BY <2>1
  <1>3. CASE RecvOther \/ RecvConfig \/ RecvShortConfig \/ RecvBadConfig
    BY <1>3 DEF RecvOther, RecvConfig, RecvShortConfig, RecvBadConfig
  <1>4. CASE HeaderTimeout \/ Disconnected \/ ConfigTimeout
    BY <1>4 DEF HeaderTimeout, Disconnected, ConfigTimeout
  <1>5. CASE OpenLost \/ HandshakeLost
    BY <1>5 DEF OpenLost, HandshakeLost
  <1>6. CASE CallbackChecks \/ CallbackPosts \/ SendPacket \/ UNCHANGED vars
    BY <1>6 DEF CallbackChecks, CallbackPosts, SendPacket, vars
  <1> QED
    BY <1>1, <1>2, <1>3, <1>4, <1>5, <1>6 DEF Next

(* The decoy comes first on a connection, so it never meets m_config.      *)
LEMMA StepDecoy == CInv /\ [Next]_vars => ConfigAfterReply' /\ OnlyPacketsWritten'
  <1> SUFFICES ASSUME TypeOK, OneDriver, ConfigWhileOpen, ConfigAfterReply, OnlyPacketsWritten,
                      [Next]_vars
               PROVE  ConfigAfterReply' /\ OnlyPacketsWritten'
    BY DEF CInv
  <1> USE DEF TypeOK, ConfigAfterReply, OnlyPacketsWritten, Follows, unlessAnswered,
          attemptVars, tunVars, pktVars, FAKE_HEADER
  <1>1. CASE Retry
    <2>1. ~m_config
      BY <1>1 DEF Retry, OneDriver, ConfigWhileOpen
    <2> QED
      BY <1>1, <2>1 DEF Retry, StartWebSocket, StartWsClient
  <1>2. CASE RecvOther
    BY <1>2 DEF RecvOther
  <1>3. CASE RecvConfig \/ RecvShortConfig \/ RecvBadConfig
    BY <1>3 DEF RecvConfig, RecvShortConfig, RecvBadConfig
  <1>4. CASE ConnectFails \/ ConnectOk \/ HeaderTimeout \/ Redirected \/ HandshakeRefused
             \/ HandshakeOk
    BY <1>4 DEF ConnectFails, ConnectOk, HeaderTimeout, Redirected, HandshakeRefused, HandshakeOk
  <1>5. CASE Disconnected \/ ConfigTimeout \/ OpenLost \/ HandshakeLost
    BY <1>5 DEF Disconnected, ConfigTimeout, OpenLost, HandshakeLost
  <1>6. CASE CallbackChecks \/ CallbackPosts \/ SendPacket \/ UNCHANGED vars
    BY <1>6 DEF CallbackChecks, CallbackPosts, SendPacket, vars
  <1> QED
    BY <1>1, <1>2, <1>3, <1>4, <1>5, <1>6 DEF Next

LEMMA ClientInvariant == Spec => []CInv
  <1>1. CInv /\ [Next]_vars => CInv'
    BY StepTypeOK, StepOneDriver, StepAttemptInv, StepConfig, StepDecoy DEF CInv
  <1> QED
    BY InitCInv, <1>1, PTL DEF Spec

(* The client has an attempt or exactly one pending retry, in every        *)
(* behaviour and for every bound: no way an attempt ends is forgotten or   *)
(* counted twice (TunWsClient.h:64-92).                                    *)
THEOREM AttemptOrRetry == Spec => []OneDriver
  <1>1. CInv => OneDriver
    BY DEF CInv
  <1> QED
    BY ClientInvariant, <1>1, PTL

(* A new connection always starts unconfigured: m_config never outlives    *)
(* the websocket that set it (TunWsClient.h:29, 66).                       *)
THEOREM ConfigBelongsToConnection == Spec => []ConfigWhileOpen
  <1>1. CInv => ConfigWhileOpen
    BY DEF CInv
  <1> QED
    BY ClientInvariant, <1>1, PTL

(* The configuration request precedes every packet on every connection,    *)
(* whatever was posted during earlier ones (TunWsClient.h:44-50, 88-91).   *)
THEOREM RequestPrecedesPackets == Spec => []RequestFirst
  <1>1. CInv => RequestFirst
    BY DEF CInv, AttemptInv, RequestFirst
  <1> QED
    BY ClientInvariant, <1>1, PTL

(* A configured client on a working connection has its tunnel, but for the *)
(* reply without an address (TunWsClient.h:29-54).                         *)
THEOREM ConfiguredHasTunnel == Spec => []TunnelWhenConfigured
  <1>1. CInv => TunnelWhenConfigured
    BY DEF CInv
  <1> QED
    BY ClientInvariant, <1>1, PTL

(* Nothing but packets is ever written to the device, though the client    *)
(* cannot tell a decoy from a packet (TunWsClient.h:55-60).                *)
THEOREM DecoyNeverWritten == Spec => []OnlyPacketsWritten
  <1>1. CInv => OnlyPacketsWritten
    BY DEF CInv
  <1> QED
    BY ClientInvariant, <1>1, PTL

---------------------------------------------------------------------------
(* The filter that both ends apply to packets.                             *)

LEMMA XorTwice ==
  ASSUME NEW w \in Words, NEW v \in Words
  PROVE  Xor(Xor(w, v), v) = w /\ Xor(w, v) \in Words
<1>1. Xor(w, v) \in Words
  BY Zenon DEF Xor, Words
<1>2. ASSUME NEW b \in Bits PROVE Xor(Xor(w, v), v)[b] = w[b]
  <2>1. w[b] \in BOOLEAN /\ v[b] \in BOOLEAN
    BY DEF Words
  <2>2. Xor(Xor(w, v), v)[b] = ((w[b] # v[b]) # v[b])
    BY Zenon DEF Xor
  <2>3. QED
    BY <2>1, <2>2
<1>3. Xor(Xor(w, v), v) \in Words
  BY Zenon DEF Xor, Words
<1>4. QED
  BY <1>1, <1>2, <1>3 DEF Words

(* A packet filtered by one end and filtered again by the other, with the  *)
(* same password, is the packet that was sent, whatever its size           *)
(* (DataFilter.h:17-28, TunWsSession.h:31, 57, TunWsClient.h:25, 48).      *)
THEOREM FilterTwice ==
  ASSUME NEW digest \in [hp : Words, lp : Words], NEW packet \in Packets
  PROVE  Filter(digest, Filter(digest, packet)) = packet
<1> DEFINE once == Filter(digest, packet)
           twice == Filter(digest, once)
<1>1. Pass(digest, packet.size) \in Words
  BY DEF Pass
<1>2. /\ once.size = packet.size
      /\ once.words = [i \in Nat |-> IF Filtered(i, packet.size)
                                     THEN Xor(packet.words[i], Pass(digest, packet.size))
                                     ELSE packet.words[i]]
      /\ once \in Packets
  <2>1. \A i \in Nat : Xor(packet.words[i], Pass(digest, packet.size)) \in Words
    BY <1>1, XorTwice DEF Packets
  <2>2. QED
    BY <2>1 DEF Packets, Filter
<1>3. twice \in Packets /\ twice.size = packet.size
  <2>1. \A i \in Nat : Xor(once.words[i], Pass(digest, packet.size)) \in Words
    BY <1>1, <1>2, XorTwice DEF Packets
  <2>2. QED
    BY <1>2, <2>1 DEF Packets, Filter
<1>4. ASSUME NEW i \in Nat PROVE twice.words[i] = packet.words[i]
  <2>1. twice.words[i] = IF Filtered(i, packet.size)
                         THEN Xor(once.words[i], Pass(digest, packet.size))
                         ELSE once.words[i]
    BY <1>2 DEF Packets, Filter
  <2>2. QED
    BY <1>1, <1>2, <2>1, XorTwice DEF Packets
<1>5. twice.words = packet.words
  BY <1>3, <1>4 DEF Packets
<1>6. QED
  BY <1>3, <1>5 DEF Packets

(***************************************************************************)
(* The threads that read the device the client configures, for every set   *)
(* of readers and any number of packets.                                   *)
(***************************************************************************)
Labels == {"none", "test", "read", "copy", "gone"}
Started == {"test", "read", "copy", "gone"}

ReaderTypes ==
  /\ thr \in [Readers -> Labels]
  /\ arrived \in Nat
  /\ device \in Seq(Nat)
  /\ vector \in Nat
  /\ posted \in Seq(Nat)

(* Packets the device has yielded: those that wait in it are the next.     *)
Yielded == arrived - Len(device)

DeviceInOrder ==
  /\ Len(device) <= arrived
  /\ \A i \in 1..Len(device) : device[i] = Yielded + i

(* Nothing is posted, or about to be, that the device has not yielded.     *)
ReadBefore ==
  /\ \A r \in Readers : At(r, "copy") => vector \in 1..Yielded
  /\ \A i \in 1..Len(posted) : posted[i] \in 1..Yielded

(* A single reader posts what it has read before it reads again.           *)
Copying == \E r \in Readers : At(r, "copy")

SinglePosts ==
  AtMostOne(Started) =>
    /\ \A i \in 1..Len(posted) : posted[i] = i
    /\ Len(posted) = IF Copying THEN Yielded - 1 ELSE Yielded
    /\ Copying => vector = Yielded

ReaderInv == ReaderTypes /\ DeviceInOrder /\ ReadBefore /\ SinglePosts

LEMMA ReaderStart == ReaderInit => ReaderInv
<1> SUFFICES ASSUME ReaderInit PROVE ReaderInv
  OBVIOUS
<1>1. device \in Seq(Nat) /\ posted \in Seq(Nat) /\ Len(device) = 0 /\ Len(posted) = 0
  BY EmptySeq DEF ReaderInit
<1>2. arrived = 0 /\ vector = 0 /\ thr = [r \in Readers |-> "none"]
  BY DEF ReaderInit, Empty
<1>3. Yielded = 0 /\ ~Copying
  BY <1>1, <1>2 DEF Yielded, Copying, At
<1> QED
  BY <1>1, <1>2, <1>3 DEF Labels, ReaderInv, ReaderTypes, DeviceInOrder, ReadBefore, At, SinglePosts

(* A step that starts no reader and posts nothing keeps the single reader. *)
LEMMA SingleBefore ==
  ASSUME ReaderTypes, AtMostOne(Started)',
         \A r \in Readers : thr[r] # "none" => thr'[r] \in Started
  PROVE  AtMostOne(Started)
BY DEF AtMostOne, ReaderTypes, Labels, Started

LEMMA ReaderStep == ReaderInv /\ [ReaderNext]_readerVars => ReaderInv'
<1> SUFFICES ASSUME ReaderInv, [ReaderNext]_readerVars PROVE ReaderInv'
  OBVIOUS
<1> USE DEF ReaderInv
<1>1. ASSUME UNCHANGED <<thr, arrived, ioVars>> PROVE ReaderInv'
  BY <1>1 DEF ioVars, ReaderTypes, Yielded, DeviceInOrder, ReadBefore, At, Copying,
              SinglePosts, AtMostOne
<1>2. ASSUME NEW r \in Readers, Spawn(r) PROVE ReaderInv'
  <2>1. /\ thr[r] = "none" /\ thr' = [thr EXCEPT ![r] = "test"]
        /\ UNCHANGED <<arrived, device, vector, posted>>
    BY <1>2 DEF Spawn, ioVars
  <2>2. ReaderTypes' /\ DeviceInOrder'
    BY <2>1 DEF ReaderTypes, Labels, DeviceInOrder, Yielded
  <2>3. \A q \in Readers : At(q, "copy")' <=> At(q, "copy")
    BY <2>1 DEF At, ReaderTypes
  <2>4. ReadBefore'
    BY <2>1, <2>3 DEF ReadBefore, Yielded
  <2>5. SinglePosts'
    <3> SUFFICES ASSUME AtMostOne(Started)' PROVE SinglePosts'
      BY DEF SinglePosts
    <3>1. AtMostOne(Started)
      BY <2>1, SingleBefore DEF ReaderTypes, Labels, Started
    <3> QED
      BY <2>1, <2>3, <3>1 DEF SinglePosts, Copying, Yielded
  <2> QED
    BY <2>2, <2>4, <2>5
<1>3. CASE Arrive
  <2>1. /\ arrived' = arrived + 1
        /\ device' = Append(device, arrived + 1)
        /\ UNCHANGED <<thr, vector, posted>>
    BY <1>3 DEF Arrive
  <2>2. /\ device' \in Seq(Nat) /\ Len(device') = Len(device) + 1
        /\ \A i \in 1..Len(device) : device'[i] = device[i]
        /\ device'[Len(device) + 1] = arrived + 1
    BY <2>1, AppendProperties DEF ReaderTypes
  <2>3. Yielded' = Yielded /\ Len(device) \in Nat
    BY <2>1, <2>2 DEF ReaderTypes, Yielded
  <2>4. ReaderTypes'
    BY <2>1, <2>2 DEF ReaderTypes
  <2>5. DeviceInOrder'
    <3>1. device'[Len(device) + 1] = Yielded + (Len(device) + 1)
      BY <2>2 DEF Yielded, ReaderTypes
    <3>2. Len(device') <= arrived'
      BY <2>1, <2>2 DEF DeviceInOrder, ReaderTypes
    <3>3. \A i \in 1..Len(device') : i \in 1..Len(device) \/ i = Len(device) + 1
      BY <2>2, <2>3
    <3> QED
      BY <2>2, <2>3, <3>1, <3>2, <3>3 DEF DeviceInOrder
  <2>6. ReadBefore' /\ SinglePosts'
    <3>1. UNCHANGED <<thr, vector, posted, Yielded>>
      BY <2>1, <2>3
    <3> QED
      BY <3>1 DEF ReadBefore, SinglePosts, Copying, At, AtMostOne
  <2> QED
    BY <2>4, <2>5, <2>6
<1>4. ASSUME NEW r \in Readers, NEW label \in {"test", "read", "gone"},
             ~At(r, "none"), ~At(r, "copy"), Goto(r, label),
             UNCHANGED <<arrived, device, vector, posted>>
      PROVE  ReaderInv'
  <2>1. thr' = [thr EXCEPT ![r] = label]
    BY <1>4 DEF Goto
  <2>2. ReaderTypes' /\ DeviceInOrder'
    BY <1>4, <2>1 DEF ReaderTypes, Labels, DeviceInOrder, Yielded
  <2>3. \A q \in Readers : At(q, "copy")' <=> At(q, "copy")
    BY <1>4, <2>1 DEF At, ReaderTypes
  <2>4. ReadBefore'
    BY <1>4, <2>3 DEF ReadBefore, Yielded
  <2>5. SinglePosts'
    <3> SUFFICES ASSUME AtMostOne(Started)' PROVE SinglePosts'
      BY DEF SinglePosts
    <3>1. AtMostOne(Started)
      BY <2>1, SingleBefore DEF ReaderTypes, Labels, Started
    <3> QED
      BY <1>4, <2>3, <3>1 DEF SinglePosts, Copying, Yielded
  <2> QED
    BY <2>2, <2>4, <2>5
<1>5. ASSUME NEW r \in Readers, TestFlag(r) PROVE ReaderInv'
  <2>1. \E label \in {"test", "read", "gone"} : Goto(r, label)
    BY <1>5 DEF TestFlag
  <2> QED
    BY <1>4, <1>5, <2>1 DEF TestFlag, At, ioVars
<1>6. ASSUME NEW r \in Readers, ReadFails(r) PROVE ReaderInv'
  BY <1>4, <1>6 DEF ReadFails, At, ioVars
<1>7. ASSUME NEW r \in Readers, ReadPacket(r) PROVE ReaderInv'
  <2>1. /\ At(r, "read") /\ device # <<>>
        /\ vector' = Head(device) /\ device' = Tail(device)
        /\ thr' = [thr EXCEPT ![r] = "copy"]
        /\ UNCHANGED <<arrived, posted>>
    BY <1>7 DEF ReadPacket, Goto
  <2>2. /\ device' \in Seq(Nat) /\ Len(device') = Len(device) - 1
        /\ \A i \in 1..Len(device') : device'[i] = device[i + 1]
        /\ Len(device) \in Nat \ {0} /\ vector' = device[1]
    BY <2>1, HeadTailProperties, EmptySeq DEF ReaderTypes
  <2>3. Yielded' = Yielded + 1 /\ vector' = Yielded + 1 /\ Yielded \in Nat
    BY <2>1, <2>2 DEF ReaderTypes, DeviceInOrder, Yielded
  <2>4. ReaderTypes' /\ DeviceInOrder'
    BY <2>1, <2>2, <2>3 DEF ReaderTypes, Labels, DeviceInOrder, Yielded
  <2>5. ReadBefore'
    BY <2>1, <2>3 DEF ReadBefore
  <2>6. SinglePosts'
    <3> SUFFICES ASSUME AtMostOne(Started)' PROVE SinglePosts'
      BY DEF SinglePosts
    <3>1. AtMostOne(Started)
      BY <2>1, SingleBefore DEF ReaderTypes, Labels, Started
    <3>2. ~Copying
      BY <2>1, <3>1 DEF Copying, At, AtMostOne, Started
    <3>3. Copying'
      BY <2>1 DEF Copying, At, ReaderTypes
    <3> QED
      BY <2>1, <2>3, <3>1, <3>2, <3>3 DEF SinglePosts
  <2> QED
    BY <2>4, <2>5, <2>6
<1>8. ASSUME NEW r \in Readers, CopyAndPost(r) PROVE ReaderInv'
  <2>1. /\ At(r, "copy")
        /\ posted' = Append(posted, vector)
        /\ thr' = [thr EXCEPT ![r] = "test"]
        /\ UNCHANGED <<arrived, device, vector>>
    BY <1>8 DEF CopyAndPost, Goto
  <2>2. /\ posted' \in Seq(Nat) /\ Len(posted') = Len(posted) + 1 /\ Len(posted) \in Nat
        /\ \A i \in 1..Len(posted) : posted'[i] = posted[i]
        /\ posted'[Len(posted) + 1] = vector
    BY <2>1, AppendProperties DEF ReaderTypes
  <2>3. Yielded' = Yielded /\ vector \in 1..Yielded /\ Yielded \in Int
    BY <2>1 DEF ReadBefore, Yielded, ReaderTypes
  <2>4. ReaderTypes' /\ DeviceInOrder'
    BY <2>1, <2>2 DEF ReaderTypes, Labels, DeviceInOrder, Yielded
  <2>5. ReadBefore'
    BY <2>1, <2>2, <2>3 DEF ReadBefore, At, ReaderTypes
  <2>6. SinglePosts'
    <3> SUFFICES ASSUME AtMostOne(Started)' PROVE SinglePosts'
      BY DEF SinglePosts
    <3>1. AtMostOne(Started)
      BY <2>1, SingleBefore DEF ReaderTypes, Labels, Started
    <3>2. Copying
      BY <2>1 DEF Copying
    <3>3. ~Copying'
      BY <2>1, <3>1 DEF Copying, At, AtMostOne, Started, ReaderTypes
    <3> QED
      BY <2>1, <2>2, <2>3, <3>1, <3>2, <3>3 DEF SinglePosts
  <2> QED
    BY <2>4, <2>5, <2>6
<1>9. CASE BeginConfig
  BY <1>1, <1>9 DEF BeginConfig
<1>10. CASE Control
  BY <1>1, <1>2, <1>10 DEF Control, ClearFlag, Join, Down, Config, Up, SetFlag, Detach
<1>11. CASE UNCHANGED readerVars
  BY <1>1, <1>11 DEF readerVars, ioVars
<1> QED
  BY <1>3, <1>5, <1>6, <1>7, <1>8, <1>9, <1>10, <1>11 DEF ReaderNext, Reader

(* Whatever threads are left over, nothing is posted that the device did   *)
(* not yield (TalusTunInterface.cpp:131-140).                              *)
THEOREM PostedWasRead == ReaderSpec => []OnlyReadContent
<1>1. ReaderInv => OnlyReadContent
  <2> SUFFICES ASSUME ReaderInv, NEW i \in 1..Len(posted)
               PROVE  posted[i] \in 1..arrived /\ ~Contains(device, posted[i])
    BY DEF OnlyReadContent
  <2>1. posted[i] \in 1..Yielded /\ Len(device) \in Nat
    BY DEF ReaderInv, ReadBefore, ReaderTypes
  <2>2. ~Contains(device, posted[i])
    BY <2>1 DEF Contains, ReaderInv, ReaderTypes, DeviceInOrder, Yielded
  <2> QED
    BY <2>1, <2>2 DEF ReaderInv, ReaderTypes, Yielded
<1> QED
  BY <1>1, ReaderStart, ReaderStep, PTL DEF ReaderSpec

(* A single reader's packets reach the poller in the order the device      *)
(* yielded them, once each, although all readers share one buffer          *)
(* (TalusTunInterface.cpp:27-42, 131-140).                                 *)
THEOREM SingleReaderInOrder == ReaderSpec => []PostedInOrder
<1>1. ReaderInv => PostedInOrder
  BY DEF ReaderInv, SinglePosts, PostedInOrder, Started
<1> QED
  BY <1>1, ReaderStart, ReaderStep, PTL DEF ReaderSpec
=============================================================================
