------------------------ MODULE HttpRequestSplitter -------------------------
(***************************************************************************)
(* HttpRequestSplitter::input: the bytes of a stream arrive in chunks cut  *)
(* anywhere and are told apart into headers and their contents, HTTP       *)
(* requests and responses as well as the chunks of a chunked body.  A      *)
(* subclass's onRecvHeader answers with the length of the content: none, a *)
(* number, or everything that is still to come, as for a websocket.        *)
(*                                                                         *)
(* A byte is known by its message and its place in it.  One call of input  *)
(* is a sequence of steps, from a chunk's arrival until pc is idle again.  *)
(***************************************************************************)
EXTENDS Integers, Sequences, FiniteSetsExt, SequencesExt

CONSTANTS
  Messages,       \* messages a peer may send: records head, body
  MaxMessages,    \* bound on the messages of the stream
  MaxChunk,       \* bound on the bytes one read returns
  RestLen,        \* bytes the peer sends behind a header without end
  kMaxCacheSize

Unlimited == -1

ASSUME MessageAssumption ==
  \A m \in Messages : m.head \in Nat \ {0} /\ m.body \in Nat \cup {Unlimited}
ASSUME BoundAssumption ==
  /\ MaxMessages \in Nat /\ RestLen \in Nat
  /\ MaxChunk \in Nat \ {0} /\ kMaxCacheSize \in Nat \ {0}

VARIABLES
  stream,             \* the messages the peer sends
  sent,               \* number of their bytes that have arrived
  pc,                 \* idle, search (at splitPacket), rest, or thrown
  data,               \* bytes not yet consumed by this call
  _remain_data,       \* bytes kept for the next call
  _remain_data_size,
  _content_len,
  headers,            \* ghost: what onRecvHeader was given, in order
  contents            \* ghost: bytes onRecvContent was given, in order

vars == <<stream, sent, pc, data, _remain_data, _remain_data_size,
          _content_len, headers, contents>>

BodyLen(m) == IF m.body = Unlimited THEN RestLen ELSE m.body

(* The n-th message, its header and its content, and all of a stream.      *)
Message(ms, n) == [i \in 1..(ms[n].head + BodyLen(ms[n])) |-> [msg |-> n, at |-> i]]
HeadOf(ms, n)  == SubSeq(Message(ms, n), 1, ms[n].head)
BodyOf(ms, n)  == SubSeq(Message(ms, n), ms[n].head + 1, ms[n].head + BodyLen(ms[n]))
BytesOf(ms)    == FlattenSeq([n \in 1..Len(ms) |-> Message(ms, n)])

Bytes == BytesOf(stream)

Drop(s, n) == SubSeq(s, n + 1, Len(s))

(* A header without end is the last message of its stream. *)
Init ==
  /\ stream \in SeqOf(Messages, MaxMessages)
  /\ \A n \in 1..(Len(stream) - 1) : stream[n].body # Unlimited
  /\ sent = 0
  /\ pc = "idle"
  /\ data = <<>>
  /\ _remain_data = <<>>
  /\ _remain_data_size = 0
  /\ _content_len = 0
  /\ headers = <<>>
  /\ contents = <<>>

(* Mutant: one more read must fit, too. *)
CacheFull_WithNext == _remain_data_size + MaxChunk > kMaxCacheSize

(* Too much is kept from the calls before. *)
CacheFull == _remain_data_size > kMaxCacheSize

(* reset, and an exception: the toolkit shuts the connection. *)
InputThrows ==
  /\ pc = "idle"
  /\ sent < Len(Bytes)
  /\ CacheFull
  /\ _remain_data' = <<>>
  /\ _remain_data_size' = 0
  /\ _content_len' = 0
  /\ pc' = "thrown"
  /\ UNCHANGED <<stream, sent, data, headers, contents>>

(* input is called with a chunk; what was kept goes before it. *)
Input(n) ==
  /\ pc = "idle"
  /\ sent + n <= Len(Bytes)
  /\ ~CacheFull
  /\ sent' = sent + n
  /\ data' = _remain_data \o SubSeq(Bytes, sent + 1, sent + n)
  /\ _remain_data' = IF _remain_data = <<>> THEN <<>> ELSE data'
  /\ _remain_data_size' = Len(data')
  /\ pc' = "search"
  /\ UNCHANGED <<stream, _content_len, headers, contents>>

(* Where the header at the front of the data ends: onSearchPacketTail      *)
(* finds the first end of a header there is, and 0 if there is none.       *)
Tails == {i \in 1..Len(data) : data[i].at = stream[data[i].msg].head}
PacketTail == IF Tails = {} THEN 0 ELSE Min(Tails)

(* What onRecvHeader of the subclasses answers. *)
ContentLen(header) == stream[header[1].msg].body

RecvHeader ==
  /\ pc = "search"
  /\ _content_len = 0 /\ PacketTail > 0
  /\ headers' = Append(headers, SubSeq(data, 1, PacketTail))
  /\ _content_len' = ContentLen(data)
  /\ data' = Drop(data, PacketTail)
  /\ _remain_data_size' = Len(data')
  /\ UNCHANGED <<stream, sent, pc, _remain_data, contents>>

NoMoreHeader ==
  /\ pc = "search"
  /\ _content_len # 0 \/ PacketTail = 0
  /\ pc' = "rest"
  /\ UNCHANGED <<stream, sent, data, _remain_data, _remain_data_size, _content_len, headers, contents>>

Keep(bytes) == _remain_data' = bytes

(* Nothing is left of the data. *)
AllConsumed ==
  /\ pc = "rest"
  /\ data = <<>>
  /\ Keep(<<>>)
  /\ pc' = "idle"
  /\ UNCHANGED <<stream, sent, data, _remain_data_size, _content_len, headers, contents>>

(* Mutant: only a content is kept, the start of a header is not. *)
KeepPart_ContentOnly ==
  /\ pc = "rest"
  /\ data # <<>>
  /\ _content_len >= 0
  /\ _content_len = 0 \/ Len(data) < _content_len
  /\ Keep(IF _content_len = 0 THEN <<>> ELSE data)
  /\ data' = <<>>
  /\ pc' = "idle"
  /\ UNCHANGED <<stream, sent, _remain_data_size, _content_len, headers, contents>>

(* A header or a content that is not all there. *)
KeepPart ==
  /\ pc = "rest"
  /\ data # <<>>
  /\ _content_len >= 0
  /\ _content_len = 0 \/ Len(data) < _content_len
  /\ Keep(data)
  /\ data' = <<>>
  /\ pc' = "idle"
  /\ UNCHANGED <<stream, sent, _remain_data_size, _content_len, headers, contents>>

(* Mutant: what follows a content is left for the next call. *)
RecvContent_Returns ==
  /\ pc = "rest"
  /\ data # <<>>
  /\ _content_len > 0 /\ Len(data) >= _content_len
  /\ contents' = contents \o SubSeq(data, 1, _content_len)
  /\ data' = <<>>
  /\ Keep(Drop(data, _content_len))
  /\ _remain_data_size' = Len(_remain_data')
  /\ _content_len' = 0
  /\ pc' = "idle"
  /\ UNCHANGED <<stream, sent, headers>>

(* A content is complete; what follows is a header. *)
RecvContent ==
  /\ pc = "rest"
  /\ data # <<>>
  /\ _content_len > 0 /\ Len(data) >= _content_len
  /\ contents' = contents \o SubSeq(data, 1, _content_len)
  /\ data' = Drop(data, _content_len)
  /\ Keep(data')
  /\ _remain_data_size' = Len(data')
  /\ _content_len' = 0
  /\ pc' = IF data' = <<>> THEN "idle" ELSE "search"
  /\ UNCHANGED <<stream, sent, headers>>

(* A content without end takes all there is; _remain_data_size is left.    *)
RecvRest ==
  /\ pc = "rest"
  /\ data # <<>>
  /\ _content_len < 0
  /\ contents' = contents \o data
  /\ data' = <<>>
  /\ Keep(<<>>)
  /\ pc' = "idle"
  /\ UNCHANGED <<stream, sent, _remain_data_size, _content_len, headers>>

Next ==
  \/ InputThrows
  \/ \E n \in 1..MaxChunk : Input(n)
  \/ RecvHeader \/ NoMoreHeader \/ AllConsumed
  \/ KeepPart \/ RecvContent \/ RecvRest

Spec == Init /\ [][Next]_vars

(***************************************************************************)
(* Properties.                                                             *)
(***************************************************************************)
BodiesOf(ms) == FlattenSeq([n \in 1..Len(ms) |-> BodyOf(ms, n)])

Heads  == [n \in 1..Len(stream) |-> HeadOf(stream, n)]
Bodies == BodiesOf(stream)

(* However the stream is cut, the headers and the content bytes are handed *)
(* on as the peer sent them: none lost, repeated, out of order or taken    *)
(* for the other (HttpRequestSplitter.cpp:22-117).                         *)
MessagesIntact == IsPrefix(headers, Heads) /\ IsPrefix(contents, Bodies)

(* When input returns, each header and each content that has arrived in    *)
(* full has been handed on: none waits for bytes behind it                 *)
(* (HttpRequestSplitter.cpp:53-66, 87-116).                                *)
ArrivedHandedOn ==
  pc = "idle" =>
    LET arrived == ToSet(SubSeq(Bytes, 1, sent))
    IN \A n \in 1..Len(stream) :
         /\ ToSet(HeadOf(stream, n)) \subseteq arrived => Len(headers) >= n
         /\ ToSet(Message(stream, n)) \subseteq arrived =>
              ToSet(BodyOf(stream, n)) \subseteq ToSet(contents)

(* A connection is given up only for a header or a content that is larger  *)
(* than the limit, as long as one read is not                              *)
(* (HttpRequestSplitter.cpp:24-29).                                        *)
RejectsOnlyHuge ==
  pc = "thrown" /\ MaxChunk <= kMaxCacheSize =>
    \E n \in 1..Len(stream) :
      stream[n].head > kMaxCacheSize \/ stream[n].body > kMaxCacheSize
=============================================================================
