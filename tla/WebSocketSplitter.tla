------------------------- MODULE WebSocketSplitter --------------------------
(***************************************************************************)
(* WebSocketSplitter::decode: the bytes of a TCP stream arrive in chunks   *)
(* cut anywhere and are told apart into websocket frames.  A byte is known *)
(* by the frame it belongs to and its place in it; one call of decode is a *)
(* sequence of steps, from a chunk's arrival until pc is idle again.       *)
(***************************************************************************)
EXTENDS Integers, Sequences, SequencesExt

CONSTANTS
  FrameKinds,   \* frames a peer may send: records ext, mask, plen
  MaxFrames,    \* bound on the frames of the stream
  MaxChunk      \* bound on the bytes one read returns

ASSUME FrameAssumption ==
  \A f \in FrameKinds : f.ext \in {0, 2, 8} /\ f.mask \in BOOLEAN /\ f.plen \in Nat
ASSUME BoundAssumption == MaxFrames \in Nat /\ MaxChunk \in Nat \ {0}

VARIABLES
  stream,           \* the frames the peer sends
  sent,             \* number of their bytes that have arrived
  pc,               \* idle, begin (at begin_decode) or payload
  data,             \* bytes not yet consumed by this call: ptr to data + len
  _remain_data,     \* bytes kept for the next call
  _got_header,
  _payload_offset,
  _mask_offset,
  cur,              \* the frame whose header was read last
  completed         \* ghost: frames given to onWebSocketDecodeComplete, in order

vars == <<stream, sent, pc, data, _remain_data, _got_header, _payload_offset,
          _mask_offset, cur, completed>>

(* Two bytes, the extended length, the masking key. *)
HeaderLen(f) == 2 + f.ext + (IF f.mask THEN 4 ELSE 0)
FrameLen(f)  == HeaderLen(f) + f.plen

(* encode: the frame a message becomes, header and payload in two pieces.  *)
(* There is always a key to mask it with: the last one received, and one   *)
(* of the constructor's until then.                                        *)
Encoded(len, maskFlag) ==
  [ext  |-> IF len < 126 THEN 0 ELSE IF len <= 65535 THEN 2 ELSE 8,
   mask |-> maskFlag,
   plen |-> len]

FrameBytes(frames, n) == [i \in 1..FrameLen(frames[n]) |-> [frame |-> n, at |-> i]]
BytesOf(frames) == FlattenSeq([n \in 1..Len(frames) |-> FrameBytes(frames, n)])
Bytes == BytesOf(stream)

Drop(s, n) == SubSeq(s, n + 1, Len(s))

Init ==
  /\ stream \in SeqOf(FrameKinds, MaxFrames)
  /\ sent = 0
  /\ pc = "idle"
  /\ data = <<>>
  /\ _remain_data = <<>>
  /\ _got_header = FALSE
  /\ _payload_offset = 0
  /\ _mask_offset = 0
  /\ cur = 0
  /\ completed = <<>>

(* decode is called with a chunk; what was kept goes before it. *)
Input(n) ==
  /\ pc = "idle"
  /\ sent + n <= Len(Bytes)
  /\ sent' = sent + n
  /\ LET chunk == SubSeq(Bytes, sent + 1, sent + n)
     IN IF _got_header
        THEN /\ data' = chunk
             /\ pc' = "payload"
             /\ UNCHANGED _remain_data
        ELSE /\ data' = _remain_data \o chunk
             /\ pc' = "begin"
             /\ _remain_data' = IF _remain_data = <<>> THEN <<>> ELSE data'
  /\ UNCHANGED <<stream, _got_header, _payload_offset, _mask_offset, cur, completed>>

HeaderOf(byte) == stream[byte.frame]

(* CHECK_LEN: the header is not all there; it is read again from its start *)
(* when more has come.                                                     *)
HeaderShort ==
  /\ pc = "begin"
  /\ Len(data) < HeaderLen(HeaderOf(Head(data)))
  /\ _remain_data' = IF _remain_data = <<>> THEN data ELSE _remain_data
  /\ data' = <<>>
  /\ pc' = "idle"
  /\ UNCHANGED <<stream, sent, _got_header, _payload_offset, _mask_offset, cur, completed>>

(* Mutant: an empty frame is left to the payload's code. *)
HeaderRead_NoEmpty ==
  /\ pc = "begin"
  /\ LET f == Head(data).frame
     IN /\ Len(data) >= HeaderLen(stream[f])
        /\ cur' = f
        /\ data' = Drop(data, HeaderLen(stream[f]))
  /\ _got_header' = TRUE
  /\ _mask_offset' = 0
  /\ _payload_offset' = 0
  /\ pc' = "payload"
  /\ UNCHANGED <<stream, sent, _remain_data, completed>>

(* The header is read; an empty frame is complete. *)
HeaderRead ==
  /\ pc = "begin"
  /\ LET f == Head(data).frame
     IN /\ Len(data) >= HeaderLen(stream[f])
        /\ cur' = f
        /\ data' = Drop(data, HeaderLen(stream[f]))
        /\ completed' = IF stream[f].plen = 0 THEN Append(completed, f) ELSE completed
  /\ _got_header' = TRUE
  /\ _mask_offset' = 0
  /\ _payload_offset' = 0
  /\ pc' = "payload"
  /\ UNCHANGED <<stream, sent, _remain_data>>

(* What onPayloadData passes on: each byte and the byte of the key it was  *)
(* combined with.                                                          *)
Unmasked(slice) ==
  [i \in 1..Len(slice) |->
     [byte |-> slice[i],
      key  |-> IF stream[cur].mask THEN (i - 1 + _mask_offset) % 4 ELSE 0]]

(* No byte is left for the payload. *)
NoPayload ==
  /\ pc = "payload"
  /\ data = <<>>
  /\ _remain_data' = <<>>
  /\ pc' = "idle"
  /\ UNCHANGED <<stream, sent, data, _got_header, _payload_offset, _mask_offset, cur, completed>>

Slice ==
  LET left == stream[cur].plen - _payload_offset
  IN IF Len(data) > left THEN left ELSE Len(data)

(* Mutant: every chunk begins with the first byte of the key. *)
PassPayload_FixedKey ==
  /\ pc = "payload"
  /\ data # <<>>
  /\ _payload_offset' = _payload_offset + Slice
  /\ UNCHANGED _mask_offset

PassPayload ==
  /\ pc = "payload"
  /\ data # <<>>
  /\ _payload_offset' = _payload_offset + Slice
  /\ _mask_offset' = IF stream[cur].mask THEN (_mask_offset + Slice) % 4 ELSE _mask_offset

(* The payload goes on in a later chunk. *)
PayloadPart ==
  /\ PassPayload
  /\ _payload_offset' < stream[cur].plen
  /\ data' = <<>>
  /\ _remain_data' = <<>>
  /\ pc' = "idle"
  /\ UNCHANGED <<stream, sent, _got_header, cur, completed>>

(* The frame is complete; what follows is the next one. *)
PayloadEnd ==
  /\ PassPayload
  /\ _payload_offset' = stream[cur].plen
  /\ completed' = Append(completed, cur)
  /\ _got_header' = FALSE
  /\ data' = Drop(data, Slice)
  /\ _remain_data' = data'
  /\ pc' = IF data' = <<>> THEN "idle" ELSE "begin"
  /\ UNCHANGED <<stream, sent, cur>>

Next ==
  \/ \E n \in 1..MaxChunk : Input(n)
  \/ HeaderShort \/ HeaderRead \/ NoPayload \/ PayloadPart \/ PayloadEnd

Spec == Init /\ [][Next]_vars

(***************************************************************************)
(* Properties.                                                             *)
(***************************************************************************)
(* When decode returns, each frame that has arrived in full has been       *)
(* completed, and no other: nothing waits for a later frame to push it out *)
(* (WebSocketSplitter.cpp:101-140).                                        *)
ArrivedCompleted ==
  pc = "idle" =>
    \A n \in 1..Len(stream) :
      Contains(completed, n) <=>
        ToSet(FrameBytes(stream, n)) \subseteq ToSet(SubSeq(Bytes, 1, sent))
=============================================================================
