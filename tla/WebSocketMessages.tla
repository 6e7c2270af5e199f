------------------------- MODULE WebSocketMessages --------------------------
(***************************************************************************)
(* What the endpoints make of decoded frames, on top of the decoder itself *)
(* (WebSocketSplitter), whose callbacks they are: WebSocketSessionBase on  *)
(* the server and HttpWsClient on the client collect the payload of a      *)
(* frame and the fragments of a message, answer PING and CLOSE, and hand   *)
(* messages to the tunnel.  They differ in one thing: the server changes a *)
(* copy of the frame's header, the client the header itself, which an      *)
(* empty frame's second completion reads again.                            *)
(*                                                                         *)
(* Frames have two more fields, op and fin.                                *)
(***************************************************************************)
EXTENDS WebSocketSplitter

CONSTANT MaxWsPacket     \* MAX_WS_PACKET

DataOps == {"text", "binary", "continuation"}
Ops     == DataOps \cup {"ping", "pong", "close"}

ASSUME OpAssumption ==
  \A f \in FrameKinds : f.op \in Ops /\ f.fin \in BOOLEAN /\ (f.op \in DataOps \/ f.fin)
ASSUME PacketAssumption == MaxWsPacket \in Nat \ {0}

VARIABLES
  endpoint,        \* server or client
  _opcode,         \* of the header the decoder holds
  _payload_section,\* payload of the frame being received
  _payload_cache,  \* fragments collected so far
  messages,        \* what onRecv of the session or client was given
  pongs,           \* the PONG frames sent: head and payload
  sock             \* open, closing (shut down, onError posted) or closed

msgVars == <<endpoint, _opcode, _payload_section, _payload_cache, messages, pongs, sock>>

MsgInit ==
  /\ Init
  /\ endpoint \in {"server", "client"}
  /\ _opcode = "text"
  /\ _payload_section = <<>>
  /\ _payload_cache = <<>>
  /\ messages = <<>>
  /\ pongs = <<>>
  /\ sock = "open"

(* The state DecodeComplete works on, as one value. *)
State == [op |-> _opcode, section |-> _payload_section, cache |-> _payload_cache,
          out |-> messages, pongs |-> pongs, sock |-> sock]

Becomes(st) ==
  /\ _opcode' = st.op
  /\ _payload_section' = st.section
  /\ _payload_cache' = st.cache
  /\ messages' = st.out
  /\ pongs' = st.pongs
  /\ sock' = st.sock
  /\ UNCHANGED endpoint

(* The frame a PONG is sent as: whatever the PING was, the client masks    *)
(* what it sends and the server does not.                                  *)
Pong(payload) == [head |-> Encoded(Len(payload), endpoint = "client"), payload |-> payload]

(* Mutant: the answer has no payload. *)
CompletePing_Bare(st) == [st EXCEPT !.pongs = Append(@, Pong(<<>>))]

(* A PING is answered with its payload. *)
CompletePing(st) ==
  [st EXCEPT !.pongs = Append(@, Pong(st.section)),
             !.op = IF endpoint = "client" THEN "pong" ELSE @]

CompleteClose(st) == [st EXCEPT !.sock = "closing"]

(* A fragment is kept while the cache stays below the limit.  The last one *)
(* is delivered behind what was kept, and so is one that reaches the       *)
(* limit, a second time: append leaves the section as it was.              *)
CompleteData(st, n) ==
  LET fin  == stream[n].fin
      kept == IF fin THEN st.cache ELSE st.cache \o st.section
  IN IF ~fin /\ Len(kept) < MaxWsPacket
     THEN [st EXCEPT !.cache = kept]
     ELSE [st EXCEPT !.cache = <<>>, !.out = Append(@, kept \o st.section)]

Complete(st, n) ==
  CASE st.op = "ping"    -> CompletePing(st)
    [] st.op = "close"   -> CompleteClose(st)
    [] st.op \in DataOps -> CompleteData(st, n)
    [] OTHER             -> st

DecodeComplete(st, n) == [Complete(st, n) EXCEPT !.section = <<>>]

(* A read, unless the socket has gone. *)
Recv(n) ==
  /\ sock # "closed"
  /\ Input(n)
  /\ UNCHANGED msgVars

Waits == (HeaderShort \/ NoPayload) /\ UNCHANGED msgVars

(* onWebSocketDecodeHeader, and the completion of an empty frame. *)
DecodeHeader ==
  /\ HeaderRead
  /\ LET f  == stream[cur']
         st == [State EXCEPT !.op = f.op, !.section = <<>>]
     IN Becomes(IF f.plen = 0 THEN DecodeComplete(st, cur') ELSE st)

(* onWebSocketDecodePayload. *)
WithPayload == [State EXCEPT !.section = @ \o Unmasked(SubSeq(data, 1, Slice))]

DecodePayload == PayloadPart /\ Becomes(WithPayload)

(* Frames behind a CLOSE in the same chunk are still decoded. *)
DecodeEnd == PayloadEnd /\ Becomes(DecodeComplete(WithPayload, cur))

(* The posted onError is run, or the peer is gone. *)
Closed ==
  /\ pc = "idle" /\ sock # "closed"
  /\ sock' = "closed"
  /\ UNCHANGED <<vars, endpoint, _opcode, _payload_section, _payload_cache, messages, pongs>>

MsgNext ==
  \/ \E n \in 1..MaxChunk : Recv(n)
  \/ Waits \/ DecodeHeader \/ DecodePayload \/ DecodeEnd
  \/ Closed

MsgSpec == MsgInit /\ [][MsgNext]_<<vars, msgVars>>

(***************************************************************************)
(* Properties.                                                             *)
(***************************************************************************)
Payload(f, n) ==
  [i \in 1..f.plen |-> [byte |-> [frame |-> n, at |-> HeaderLen(f) + i],
                        key  |-> IF f.mask THEN (i - 1) % 4 ELSE 0]]

(* What the peer meant with one more frame: the message it goes on with,   *)
(* those that are whole, its PINGs, whether one reached the limit early.   *)
MeantWith(sofar, f, n) ==
  LET unit == sofar.pending \o Payload(f, n)
  IN CASE f.op = "ping"              -> [sofar EXCEPT !.pings = Append(@, Payload(f, n))]
       [] f.op \in DataOps /\ f.fin  -> [sofar EXCEPT !.pending = <<>>, !.whole = Append(@, unit)]
       [] f.op \in DataOps /\ ~f.fin -> [sofar EXCEPT !.pending = unit,
                                           !.flooded = @ \/ Len(unit) >= MaxWsPacket]
       [] OTHER                      -> sofar

(* What it meant with the first n frames, for each n.                      *)
MeantBy(frames) ==
  LET meant[n \in 0..Len(frames)] ==
        IF n = 0
        THEN [pending |-> <<>>, whole |-> <<>>, pings |-> <<>>, flooded |-> FALSE]
        ELSE MeantWith(meant[n-1], frames[n], n)
  IN meant

(* The last frame that is complete: all before it are to have been.        *)
Done == IF completed = <<>> THEN 0 ELSE Last(completed)

Meant == MeantBy(stream)[Done]

NonEmpty(ms) ==
  LET kept[i \in 0..Len(ms)] ==
        IF i = 0 THEN <<>>
        ELSE IF ms[i] = <<>> THEN kept[i-1] ELSE Append(kept[i-1], ms[i])
  IN kept[Len(ms)]

(* The tunnel gets the messages the peer sent, byte by byte, each byte     *)
(* unmasked with its own byte of the key, whole and in order: however they *)
(* were cut into fragments, the frames into reads, and whatever control    *)
(* frames came between; as long as no message reaches the limit, and empty *)
(* messages aside (WebSocketSession.h:153-218, WebSocketClient.h:219-290,  *)
(* WebSocketSplitter.cpp:58-151).                                          *)
MessagesWhole == LET meant == Meant IN
  ~meant.flooded => NonEmpty(messages) = NonEmpty(meant.whole)

(* Each PING is answered with its payload, in order, an empty one at least *)
(* once, in a frame whose header announces it, masked by the client and    *)
(* only by it (WebSocketSession.h:166-185, WebSocketClient.h:239-257,      *)
(* WebSocketSplitter.cpp:153-196).                                         *)
PingsAnswered == LET meant == Meant IN
  /\ NonEmpty([i \in DOMAIN pongs |-> pongs[i].payload]) = NonEmpty(meant.pings)
  /\ Len(pongs) >= Len(meant.pings)
  /\ \A i \in DOMAIN pongs :
       /\ pongs[i].head.plen = Len(pongs[i].payload)
       /\ pongs[i].head.mask <=> endpoint = "client"

(* WebSocketSession.h:191: fragments are kept and put out once, when all   *)
(* of them have come.                                                      *)
OnlyWholeMessages == LET meant == Meant IN
  \A i \in 1..Len(messages) : messages[i] # <<>> => Contains(meant.whole, messages[i])
=============================================================================
