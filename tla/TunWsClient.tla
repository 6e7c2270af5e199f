---------------------------- MODULE TunWsClient -----------------------------
(***************************************************************************)
(* The tunnel client's life: TunWsClient (the delegate) on top of one      *)
(* HttpWsClient per attempt, on top of HttpClient, on top of the toolkit's *)
(* TcpClient and Socket.  All of it runs on one poller thread, a handler   *)
(* at a time.  The tun poller is a second thread: the dispatcher's         *)
(* callback reads m_config there and posts the packet to the first one.    *)
(*                                                                         *)
(* The Socket is external: a connection attempt either fails, once, or     *)
(* succeeds; a socket that fails or is shut down calls onErr once, later,  *)
(* and nothing else.                                                       *)
(***************************************************************************)
EXTENDS Naturals

CONSTANT
  TaskCap         \* bound on the packets posted and not yet sent

ASSUME BoundAssumption == TaskCap \in Nat \ {0}

VARIABLES
  sock,        \* the attempt's socket: none, connecting, connected, failing
  headerRecved,\* HttpClient::_header_recved
  odd,         \* ghost: this attempt's redirections so far are odd in number
  onRecv,      \* HttpWsClient::_onRecv is set: the handshake succeeded
  timers,      \* retry tasks pending, one second from being run
  m_config,    \* TunWsClient::m_config
  cbCurrent,   \* the before-send callback's HttpWsClient is this attempt's
  rule,        \* the dispatcher for 0.0.0.0/0 is installed
  tunUp,       \* the interface was configured and started
  checked,     \* the tun poller has seen m_config set and not yet posted
  tasks,       \* packets posted to the client's poller
  first,       \* ghost: the first message sent on this websocket
  short,       \* ghost: this connection got a configuration without address
  answered,    \* ghost: what the server has sent on this websocket
  written      \* ghost: the kind of message last written to the device

vars == <<sock, headerRecved, odd, onRecv, timers, m_config, cbCurrent,
          rule, tunUp, checked, tasks, first, short, answered, written>>
attemptVars == <<headerRecved, odd, onRecv, cbCurrent, first, short, answered>>
tunVars     == <<rule, tunUp, written>>
pktVars     == <<checked, tasks>>

(* The decoy a server sends ahead of its reply, unfiltered: the beginning  *)
(* of a disk image.  All that matters of it is that it is no packet.       *)
FAKE_HEADER == "fakeHeader"

(* Mutant: sends are routed to the new attempt from its start. *)
StartWebSocket_EarlyCallback ==
  /\ sock' = "connecting"
  /\ headerRecved' = FALSE
  /\ odd' = FALSE
  /\ onRecv' = FALSE
  /\ cbCurrent' = TRUE
  /\ first' = "none"
  /\ short' = FALSE
  /\ answered' = "nothing"

(* Nothing of the new attempt is upgraded, whose request is to be sent. *)
StartWsClient ==
  /\ onRecv' = FALSE
  /\ sock' = "connecting"
  /\ headerRecved' = FALSE
  /\ odd' = FALSE

(* startWebSocket replaces the HttpWsClient and sends its request, which   *)
(* begins a connection.  What the old one's socket still does is ignored.  *)
StartWebSocket ==
  /\ StartWsClient
  /\ cbCurrent' = FALSE
  /\ first' = "none"
  /\ short' = FALSE
  /\ answered' = "nothing"

Init ==
  /\ sock = "connecting"
  /\ headerRecved = FALSE
  /\ odd = FALSE
  /\ onRecv = FALSE
  /\ timers = 0
  /\ m_config = FALSE
  /\ cbCurrent = FALSE
  /\ rule = FALSE
  /\ tunUp = FALSE
  /\ checked = FALSE
  /\ tasks = 0
  /\ first = "none"
  /\ short = FALSE
  /\ answered = "nothing"
  /\ written = "nothing"

(* TunWsClient::onErr and onConnect(ex) both do this. *)
ScheduleRetry == timers' = timers + 1

(* Mutant: the delayed task returns its delay and is run again. *)
Retry_Repeats ==
  /\ timers > 0 /\ timers < 2
  /\ StartWebSocket
  /\ UNCHANGED <<timers, m_config, tunVars, pktVars>>

(* Mutant: the delayed task is run again and again and starts nothing. *)
Retry_Idle == timers > 0 /\ UNCHANGED vars

(* The delayed task of ScheduleRetry. *)
Retry ==
  /\ timers > 0
  /\ timers' = timers - 1
  /\ StartWebSocket
  /\ UNCHANGED <<m_config, tunVars, pktVars>>

(* Whatever HttpWsClient's handler does, a send goes out only if the       *)
(* callback leads to this attempt and its socket still works.              *)
SendWs(msg) ==
  first' = IF sock = "connected" /\ first = "none" THEN msg ELSE first

ConnectFails ==
  /\ sock = "connecting"
  /\ sock' = "none"
  /\ ScheduleRetry
  /\ UNCHANGED <<attemptVars, m_config, tunVars, pktVars>>

(* The upgrade request is sent. *)
ConnectOk ==
  /\ sock = "connecting"
  /\ sock' = "connected"
  /\ UNCHANGED <<attemptVars, timers, m_config, tunVars, pktVars>>

(* shutdown, the peer's closing or an error: onErr is on its way. *)
Fail == sock' = "failing"

(* Mutant: the timeout covers the connection, not the handshake. *)
HeaderTimeout_ConnectOnly ==
  /\ sock = "connecting"
  /\ ~onRecv /\ ~headerRecved
  /\ Fail
  /\ UNCHANGED <<attemptVars, timers, m_config, tunVars, pktVars>>

(* HttpClient::onManager, called every two seconds while connecting or in  *)
(* the handshake.  The clock is abstract: the five seconds may have passed *)
(* at any call.                                                            *)
HeaderTimeout ==
  /\ sock \in {"connecting", "connected"}
  /\ ~onRecv /\ ~headerRecved
  /\ Fail
  /\ UNCHANGED <<attemptVars, timers, m_config, tunVars, pktVars>>

InHandshake == sock = "connected" /\ ~headerRecved

(* 301 or 302: sendRequest to the new url, on this socket if the host is   *)
(* the same, else on a new one; as often as the server asks for it.        *)
Redirected ==
  /\ InHandshake
  /\ odd' = ~odd
  /\ sock' \in {"connected", "connecting"}
  /\ UNCHANGED <<headerRecved, onRecv, cbCurrent, first, short, answered, timers, m_config, tunVars, pktVars>>

(* Another status, a wrong Sec-WebSocket-Accept, or a redirection without  *)
(* a usable url, which throws.                                             *)
HandshakeRefused ==
  /\ InHandshake
  /\ headerRecved' \in BOOLEAN
  /\ Fail
  /\ UNCHANGED <<odd, onRecv, cbCurrent, first, short, answered, timers, m_config, tunVars, pktVars>>

(* 101: sends are routed to this attempt, the delegate's onConnect asks    *)
(* for the configuration, then what is received is decoded.                *)
HandshakeOk ==
  /\ InHandshake
  /\ headerRecved' = TRUE
  /\ cbCurrent' = TRUE
  /\ SendWs("request")
  /\ onRecv' = TRUE
  /\ UNCHANGED <<sock, odd, timers, short, answered, m_config, tunVars, pktVars>>

Receiving == sock = "connected" /\ onRecv

(* What the server sends: asked once, it sends the decoy, then its reply,  *)
(* then packets (TunWsSession.h:37, 64, 58).                               *)
Follows(now, next) ==
  /\ Receiving /\ first = "request"
  /\ answered = now
  /\ answered' = next

unlessAnswered == <<headerRecved, odd, onRecv, cbCurrent, first>>

(* A message that is no configuration is written to the device if the      *)
(* client is configured.                                                   *)
RecvOther ==
  \E msg \in {FAKE_HEADER, "packet"} :
    /\ IF msg = FAKE_HEADER THEN Follows("nothing", "decoy") ELSE Follows("reply", "reply")
    /\ written' = IF m_config THEN msg ELSE written
    /\ UNCHANGED <<sock, unlessAnswered, short, timers, m_config, rule, tunUp, pktVars>>

(* TalusTunConfig with four fields: the interface is stopped, configured   *)
(* and started.                                                            *)
RecvConfig ==
  /\ Follows("decoy", "reply")
  /\ m_config' = TRUE
  /\ rule' = TRUE
  /\ tunUp' = TRUE
  /\ UNCHANGED <<sock, unlessAnswered, short, timers, written, pktVars>>

(* TalusTunConfig with an empty address: split yields three fields. *)
RecvShortConfig ==
  /\ Follows("decoy", "reply")
  /\ m_config' = TRUE
  /\ short' = TRUE
  /\ UNCHANGED <<sock, unlessAnswered, timers, tunVars, pktVars>>

(* Mutant: the exception is caught and logged. *)
RecvBadConfig_Caught ==
  /\ Follows("decoy", "reply")
  /\ m_config' = TRUE
  /\ tunUp' = FALSE
  /\ UNCHANGED <<sock, unlessAnswered, short, timers, rule, written, pktVars>>

(* TalusTunConfig with a bad address, mask or mtu: an exception after Stop *)
(* and Down, and the toolkit shuts the connection.                         *)
RecvBadConfig ==
  /\ Follows("decoy", "reply")
  /\ m_config' = TRUE
  /\ tunUp' = FALSE
  /\ Fail
  /\ UNCHANGED <<unlessAnswered, short, timers, rule, written, pktVars>>

(* The peer closes, the socket fails, or a CLOSE frame comes. *)
Disconnected ==
  /\ sock = "connected"
  /\ Fail
  /\ UNCHANGED <<attemptVars, timers, m_config, tunVars, pktVars>>

(* TunWsClient::onManager: ten seconds without a configuration. *)
ConfigTimeout ==
  /\ Receiving
  /\ ~m_config
  /\ Fail
  /\ UNCHANGED <<attemptVars, timers, m_config, tunVars, pktVars>>

(* Mutant: m_config is not reset. *)
OpenLost_KeepsConfig ==
  /\ sock = "failing" /\ onRecv
  /\ sock' = "none"
  /\ onRecv' = FALSE
  /\ ScheduleRetry
  /\ UNCHANGED <<headerRecved, odd, cbCurrent, first, short, answered, m_config, tunVars, pktVars>>

(* onErr after the handshake: TunWsClient::onErr. *)
OpenLost ==
  /\ sock = "failing" /\ onRecv
  /\ sock' = "none"
  /\ onRecv' = FALSE
  /\ m_config' = FALSE
  /\ ScheduleRetry
  /\ UNCHANGED <<headerRecved, odd, cbCurrent, first, short, answered, tunVars, pktVars>>

(* onErr before the end of the handshake: TunWsClient::onConnect(ex). *)
HandshakeLost ==
  /\ sock = "failing" /\ ~onRecv
  /\ sock' = "none"
  /\ ScheduleRetry
  /\ UNCHANGED <<attemptVars, m_config, tunVars, pktVars>>

(* The tun poller: a packet from the device reaches the callback ... *)
CallbackChecks ==
  /\ rule /\ ~checked
  /\ m_config
  /\ checked' = TRUE
  /\ UNCHANGED <<sock, attemptVars, timers, m_config, tunVars, tasks>>

(* ... which posts it, whatever has happened since. *)
CallbackPosts ==
  /\ checked /\ tasks < TaskCap
  /\ checked' = FALSE
  /\ tasks' = tasks + 1
  /\ UNCHANGED <<sock, attemptVars, timers, m_config, tunVars>>

(* The packet is sent through the before-send callback: to this attempt's  *)
(* websocket, or to one that is gone and drops it.                         *)
SendPacket ==
  /\ tasks > 0
  /\ tasks' = tasks - 1
  /\ IF cbCurrent THEN SendWs("packet") ELSE UNCHANGED first
  /\ UNCHANGED <<sock, headerRecved, odd, onRecv, cbCurrent, short, answered, timers, m_config, tunVars, checked>>

Next ==
  \/ Retry
  \/ ConnectFails \/ ConnectOk \/ HeaderTimeout
  \/ Redirected \/ HandshakeRefused \/ HandshakeOk
  \/ RecvOther \/ RecvConfig \/ RecvShortConfig \/ RecvBadConfig
  \/ Disconnected \/ ConfigTimeout \/ OpenLost \/ HandshakeLost
  \/ CallbackChecks \/ CallbackPosts \/ SendPacket

Spec == Init /\ [][Next]_vars

(* Timers fire and posted errors are delivered; the wait for the header    *)
(* runs out unless redirections start it again for ever.  Nothing is       *)
(* assumed of the server or the network.                                   *)
FairSpec ==
  /\ Spec
  /\ WF_vars(Retry)
  /\ WF_vars(HeaderTimeout) \/ []<><<Redirected>>_vars
  /\ WF_vars(ConfigTimeout)
  /\ WF_vars(OpenLost \/ HandshakeLost)

(***************************************************************************)
(* Properties.                                                             *)
(***************************************************************************)
(* The types of the variables (TunWsClient.h:96-98, WebSocketClient.h:345).*)
TypeOK ==
  /\ sock \in {"none", "connecting", "connected", "failing"}
  /\ headerRecved \in BOOLEAN
  /\ odd \in BOOLEAN
  /\ onRecv \in BOOLEAN
  /\ timers \in Nat
  /\ m_config \in BOOLEAN
  /\ cbCurrent \in BOOLEAN
  /\ rule \in BOOLEAN
  /\ tunUp \in BOOLEAN
  /\ checked \in BOOLEAN
  /\ tasks \in 0..TaskCap
  /\ first \in {"none", "request", "packet"}
  /\ short \in BOOLEAN
  /\ answered \in {"nothing", "decoy", "reply"}
  /\ written \in {"nothing", FAKE_HEADER, "packet"}

(* The client is never left without an attempt or a pending retry, and     *)
(* never has two of them: each of the ways an attempt ends schedules one   *)
(* retry, and a second would silently replace a working connection         *)
(* (TunWsClient.h:64-92, WebSocketClient.h:302-343, 393-399).              *)
OneDriver == timers = IF sock = "none" THEN 1 ELSE 0

(* m_config is set only while this attempt's websocket is open, so a new   *)
(* connection starts unconfigured and its timeout is armed                 *)
(* (TunWsClient.h:29, 66, 74, WebSocketClient.h:334-338).                  *)
ConfigWhileOpen == m_config => onRecv /\ sock \in {"connected", "failing"}

(* The first message of every websocket connection is the configuration    *)
(* request: a packet posted during an earlier connection may be sent late  *)
(* on this one, but never before it (TunWsClient.h:44-50, 88-91,           *)
(* WebSocketClient.h:307-324).                                             *)
RequestFirst == first # "packet" /\ (onRecv => first = "request")

(* A client that counts itself configured on a working connection has its  *)
(* tunnel up; the one exception is the reply of a server without a free    *)
(* address, after which nothing ends the connection                        *)
(* (TunWsClient.h:29-54).                                                  *)
TunnelWhenConfigured ==
  m_config /\ sock = "connected" /\ ~short => tunUp /\ rule

(* Only packets reach the device: the decoy of every connection meets a    *)
(* client that is not configured and drops it, though the client itself    *)
(* cannot tell the two apart (TunWsClient.h:55-60, TunWsSession.h:36-37).  *)
OnlyPacketsWritten == written # FAKE_HEADER

(* A lost connection is followed by a new attempt (TunWsClient.h:67-70,    *)
(* 82-85).                                                                 *)
KeepsTrying == sock = "none" ~> sock = "connecting"

Waiting == sock # "none" /\ ~onRecv

(* No wait is for ever: the websocket opens, the attempt is given up, or   *)
(* the server redirects it once more (HttpClient.cpp:96-109, 178-191,      *)
(* 297-303, WebSocketClient.h:165-174).                                    *)
AttemptEnds ==
  \A b \in BOOLEAN : Waiting /\ odd = b ~> ~Waiting \/ odd # b
=============================================================================
