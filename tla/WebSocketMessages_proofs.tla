---------------------- MODULE WebSocketMessages_proofs ----------------------
(***************************************************************************)
(* Proofs about the websocket decoder and about what the endpoints make of *)
(* its frames: whatever frames come, cut into whatever reads.              *)
(***************************************************************************)
EXTENDS WebSocketMessages, SequenceLemmas

(***************************************************************************)
(* The stream: where each frame starts in it.                              *)
(***************************************************************************)
Byte == [frame : Nat, at : Nat]

FramesOf(frames) == [n \in 1..Len(frames) |-> FrameBytes(frames, n)]
StartOf(frames)  == CHOOSE start : LaidOut(BytesOf(frames), FramesOf(frames), start)

LEMMA FrameLens ==
  ASSUME NEW f \in FrameKinds
  PROVE  /\ HeaderLen(f) \in Nat /\ 2 <= HeaderLen(f) /\ f.plen \in Nat
         /\ FrameLen(f) = HeaderLen(f) + f.plen
BY FrameAssumption DEF HeaderLen, FrameLen

StreamFacts(frames, start, bytes) ==
  /\ bytes \in Seq(Byte)
  /\ start \in [1..(Len(frames) + 1) -> Nat]
  /\ start[1] = 0
  /\ \A n \in 1..Len(frames) : start[n+1] = start[n] + FrameLen(frames[n])
  /\ Len(bytes) = start[Len(frames) + 1]
  /\ \A n \in 1..Len(frames) : \A i \in 1..FrameLen(frames[n]) :
       bytes[start[n] + i] = [frame |-> n, at |-> i]
  /\ \A m \in 1..(Len(frames) + 1), n \in 1..(Len(frames) + 1) : m <= n => start[m] <= start[n]
  /\ \A p \in 1..Len(bytes) : \E n \in 1..Len(frames) : \E i \in 1..FrameLen(frames[n]) :
       p = start[n] + i

LEMMA StreamLaidOut ==
  ASSUME NEW frames \in Seq(FrameKinds)
  PROVE  StreamFacts(frames, StartOf(frames), BytesOf(frames))
<1>0. PICK L \in Nat : L = Len(frames) /\ \A n \in 1..L : frames[n] \in FrameKinds
  OBVIOUS
<1> DEFINE ss == FramesOf(frames)
<1>1. \A n \in 1..L : FrameLen(frames[n]) \in Nat
  BY <1>0, FrameLens
<1>2. ASSUME NEW n \in 1..L
      PROVE  /\ ss[n] \in Seq(Byte) /\ Len(ss[n]) = FrameLen(frames[n])
             /\ \A i \in 1..FrameLen(frames[n]) : ss[n][i] = [frame |-> n, at |-> i]
  <2>1. ss[n] = [i \in 1..FrameLen(frames[n]) |-> [frame |-> n, at |-> i]]
    BY <1>0 DEF FramesOf, FrameBytes
  <2>2. PICK k \in Nat : k = FrameLen(frames[n])
    BY <1>1
  <2>3. [i \in 1..k |-> [frame |-> n, at |-> i]] \in Seq(Byte)
        /\ Len([i \in 1..k |-> [frame |-> n, at |-> i]]) = k
    BY DEF Byte
  <2> QED BY <2>1, <2>2, <2>3
<1>3. ss \in Seq(Seq(Byte)) /\ Len(ss) = L
  <2>1. ss = [n \in 1..L |-> FrameBytes(frames, n)] /\ \A n \in 1..L : ss[n] = FrameBytes(frames, n)
    BY <1>0 DEF FramesOf
  <2>2. \A n \in 1..L : FrameBytes(frames, n) \in Seq(Byte)
    BY <1>2, <2>1
  <2> HIDE DEF ss
  <2> QED BY <2>1, <2>2
<1>4. BytesOf(frames) = FlattenSeq(ss)
  BY DEF BytesOf, FramesOf
<1> HIDE DEF ss
<1>5. BytesOf(frames) \in Seq(Byte) /\ \E start : LaidOut(BytesOf(frames), ss, start)
  BY <1>3, <1>4, FlattenLaidOut
<1>6. LaidOut(BytesOf(frames), ss, StartOf(frames))
  BY <1>5 DEF StartOf, ss
<1> DEFINE bytes == BytesOf(frames)
           start == StartOf(frames)
<1> HIDE DEF bytes, start
<1>7. /\ start \in [1..(L + 1) -> Nat] /\ start[1] = 0
      /\ \A n \in 1..L : start[n+1] = start[n] + Len(ss[n])
      /\ Len(bytes) = start[L + 1]
      /\ \A n \in 1..L : \A i \in 1..Len(ss[n]) : bytes[start[n] + i] = ss[n][i]
  BY <1>3, <1>6 DEF LaidOut, bytes, start
<1>8. /\ \A m \in 1..(L + 1), n \in 1..(L + 1) : m <= n => start[m] <= start[n]
      /\ \A p \in 1..Len(bytes) : \E n \in 1..L : \E i \in 1..Len(ss[n]) : p = start[n] + i
  <2>1. /\ \A m \in 1..(Len(ss) + 1), n \in 1..(Len(ss) + 1) : m <= n => start[m] <= start[n]
        /\ \A p \in 1..Len(bytes) : \E n \in 1..Len(ss) : \E i \in 1..Len(ss[n]) : p = start[n] + i
    <3>1. LaidOut(bytes, ss, start)
      BY <1>6 DEF bytes, start
    <3>2. ss \in Seq(Seq(Byte))
      BY <1>3
    <3>3. Covered(bytes, ss, start)
      BY ONLY <3>1, <3>2, LaidOutCovers
    <3> QED BY <3>3 DEF Covered
  <2> QED BY <1>3, <2>1
<1>9. \A n \in 1..L : start[n+1] = start[n] + FrameLen(frames[n])
  <2> TAKE n \in 1..L
  <2>1. Len(ss[n]) = FrameLen(frames[n])
    BY <1>2
  <2> QED BY <1>7, <2>1
<1>10. \A n \in 1..L : \A i \in 1..FrameLen(frames[n]) : bytes[start[n] + i] = [frame |-> n, at |-> i]
  <2> TAKE n \in 1..L
  <2>1. \A i \in 1..Len(ss[n]) : bytes[start[n] + i] = ss[n][i]
    BY <1>7
  <2> QED BY <1>2, <2>1
<1>11. \A p \in 1..Len(bytes) : \E n \in 1..L : \E i \in 1..FrameLen(frames[n]) : p = start[n] + i
  BY <1>2, <1>8
<1>12. StreamFacts(frames, start, bytes)
  BY <1>0, <1>5, <1>7, <1>8, <1>9, <1>10, <1>11 DEF StreamFacts, bytes
<1> QED BY <1>12 DEF start, bytes

(***************************************************************************)
(* The decoder's invariant: the frames before the one that is being read   *)
(* are complete, and what it holds are the bytes behind its position.      *)
(***************************************************************************)
Start       == StartOf(stream)
HeaderEnd(n) == Start[n] + HeaderLen(stream[n])
Behind(p)   == SubSeq(Bytes, p + 1, sent)

(* The first byte that is not yet decoded comes behind this place.         *)
Position == IF _got_header THEN HeaderEnd(cur) + _payload_offset ELSE Start[Done + 1]

DecoderTypes ==
  /\ stream \in Seq(FrameKinds)
  /\ sent \in Nat /\ sent <= Len(Bytes)
  /\ pc \in {"idle", "begin", "payload"}
  /\ _got_header \in BOOLEAN
  /\ _payload_offset \in Nat
  /\ completed \in Seq(Nat)
  /\ Done \in 0..Len(stream)

CompletedInOrder == \A n \in 1..Len(stream) : Contains(completed, n) <=> n <= Done

(* An empty frame is complete with its header, any other with its payload. *)
InFrame ==
  /\ cur \in 1..Len(stream)
  /\ _payload_offset <= stream[cur].plen
  /\ stream[cur].plen = 0 => cur = Done
  /\ stream[cur].plen # 0 => cur = Done + 1 /\ _payload_offset < stream[cur].plen
  /\ _mask_offset = IF stream[cur].mask THEN _payload_offset % 4 ELSE 0

Idle ==
  /\ data = <<>>
  /\ _got_header => _remain_data = <<>> /\ Position = sent
  /\ ~_got_header => /\ _remain_data = Behind(Position)
                     /\ Position < sent => sent < HeaderEnd(Done + 1)

AtHeader ==
  /\ ~_got_header /\ Position < sent
  /\ data = Behind(Position)
  /\ _remain_data = <<>> \/ _remain_data = data

AtPayload == _got_header /\ data = Behind(Position)

DecoderInv ==
  /\ DecoderTypes
  /\ CompletedInOrder
  /\ _got_header => InFrame
  /\ Position <= sent
  /\ pc = "idle"    => Idle
  /\ pc = "begin"   => AtHeader
  /\ pc = "payload" => AtPayload

LEMMA StreamKept ==
  ASSUME stream' = stream
  PROVE  Start' = Start /\ Bytes' = Bytes /\ \A n : HeaderEnd(n)' = HeaderEnd(n)
BY DEF Start, Bytes, HeaderEnd, HeaderLen

LEMMA BytesInPlace ==
  ASSUME DecoderTypes
  PROVE  /\ StreamFacts(stream, Start, Bytes)
         /\ Len(stream) \in Nat
         /\ \A n \in 1..Len(stream) :
              /\ stream[n] \in FrameKinds
              /\ stream[n].plen \in Nat /\ HeaderLen(stream[n]) \in Nat /\ 2 <= HeaderLen(stream[n])
              /\ Start[n] \in Nat /\ HeaderEnd(n) \in Nat /\ Start[n+1] \in Nat
              /\ HeaderEnd(n) = Start[n] + HeaderLen(stream[n])
              /\ Start[n+1] = HeaderEnd(n) + stream[n].plen
<1>1. StreamFacts(stream, Start, Bytes)
  BY StreamLaidOut DEF DecoderTypes, Start, Bytes
<1>2. PICK L \in Nat : L = Len(stream) /\ \A n \in 1..L : stream[n] \in FrameKinds
  BY DEF DecoderTypes
<1>3. ASSUME NEW n \in 1..L
      PROVE  /\ stream[n] \in FrameKinds
             /\ stream[n].plen \in Nat /\ HeaderLen(stream[n]) \in Nat /\ 2 <= HeaderLen(stream[n])
             /\ Start[n] \in Nat /\ HeaderEnd(n) \in Nat /\ Start[n+1] \in Nat
             /\ HeaderEnd(n) = Start[n] + HeaderLen(stream[n])
             /\ Start[n+1] = HeaderEnd(n) + stream[n].plen
  <2>1. /\ HeaderLen(stream[n]) \in Nat /\ 2 <= HeaderLen(stream[n]) /\ stream[n].plen \in Nat
        /\ FrameLen(stream[n]) = HeaderLen(stream[n]) + stream[n].plen
    BY <1>2, FrameLens
  <2>2. n \in 1..(L + 1) /\ n + 1 \in 1..(L + 1)
    OBVIOUS
  <2>3. Start[n] \in Nat /\ Start[n+1] \in Nat /\ Start[n+1] = Start[n] + FrameLen(stream[n])
    BY <1>1, <1>2, <2>2 DEF StreamFacts
  <2>4. HeaderEnd(n) = Start[n] + HeaderLen(stream[n])
    BY DEF HeaderEnd
  <2> QED BY <1>2, <2>1, <2>3, <2>4
<1> QED BY <1>1, <1>2, <1>3

(* Where the decoder is.                                                   *)
LEMMA PositionIs ==
  ASSUME DecoderInv
  PROVE  /\ Position \in Nat
         /\ _got_header =>
              /\ cur \in 1..Len(stream)
              /\ Position = HeaderEnd(cur) + _payload_offset
              /\ Position <= Start[cur+1]
              /\ Start[cur+1] = Position + (stream[cur].plen - _payload_offset)
         /\ ~_got_header =>
              /\ Position = Start[Done + 1]
              /\ Position < sent => Done + 1 \in 1..Len(stream)
<1>1. DecoderTypes /\ (_got_header => InFrame)
  BY DEF DecoderInv
<1>2. CASE _got_header
  <2>1. Position = HeaderEnd(cur) + _payload_offset
    BY <1>2 DEF Position
  <2>2. cur \in 1..Len(stream) /\ _payload_offset \in Nat /\ _payload_offset <= stream[cur].plen
    BY <1>1, <1>2 DEF InFrame, DecoderTypes
  <2>3. /\ HeaderEnd(cur) \in Nat /\ stream[cur].plen \in Nat
        /\ Start[cur+1] = HeaderEnd(cur) + stream[cur].plen
    BY <1>1, <2>2, BytesInPlace
  <2>4. Position \in Nat /\ Position <= Start[cur+1]
    BY <2>1, <2>2, <2>3
  <2>5. Start[cur+1] = Position + (stream[cur].plen - _payload_offset)
    BY <2>1, <2>2, <2>3
  <2> QED BY <1>2, <2>1, <2>2, <2>4, <2>5
<1>3. CASE ~_got_header
  <2>1. Position = Start[Done + 1]
    BY <1>3 DEF Position
  <2>2. PICK L \in Nat : L = Len(stream) /\ Done \in 0..L
    BY <1>1, BytesInPlace DEF DecoderTypes
  <2>3. Start \in [1..(L + 1) -> Nat] /\ Len(Bytes) = Start[L + 1] /\ sent <= Len(Bytes)
    BY <1>1, <2>2, BytesInPlace DEF StreamFacts, DecoderTypes
  <2>4. Position \in Nat
    <3>1. Done + 1 \in 1..(L + 1)
      BY <2>2
    <3> QED BY <2>1, <2>3, <3>1
  <2>5. Position < sent => Done + 1 \in 1..L
    <3>1. CASE Done = L
      <4>1. Position = Len(Bytes) /\ sent \in Nat
        BY <1>1, <2>1, <2>3, <3>1 DEF DecoderTypes
      <4> QED BY <2>3, <2>4, <4>1
    <3>2. CASE Done # L
      BY <2>2, <3>2
    <3> QED BY <3>1, <3>2
  <2> QED BY <1>3, <2>1, <2>2, <2>4, <2>5
<1> QED BY <1>1, <1>2, <1>3 DEF DecoderTypes

(* The bytes behind a place that has been reached.                         *)
LEMMA BehindIs ==
  ASSUME DecoderTypes, NEW p \in Nat, p <= sent
  PROVE  /\ Behind(p) \in Seq(Byte)
         /\ Len(Behind(p)) = sent - p
         /\ \A i \in 1..(sent - p) : Behind(p)[i] = Bytes[p + i]
         /\ Behind(p) = <<>> <=> p = sent
         /\ \A k \in 0..(sent - p) : Drop(Behind(p), k) = Behind(p + k)
<1>1. Bytes \in Seq(Byte) /\ sent \in Nat /\ sent <= Len(Bytes)
  BY BytesInPlace DEF StreamFacts, DecoderTypes
<1>2. /\ Behind(p) \in Seq(Byte)
      /\ Len(Behind(p)) = sent - p
      /\ \A i \in 1..(sent - p) : Behind(p)[i] = Bytes[p + i]
      /\ Behind(p) = <<>> <=> p = sent
  BY <1>1, Cut DEF Behind
<1>3. ASSUME NEW k \in 0..(sent - p) PROVE Drop(Behind(p), k) = Behind(p + k)
  <2>1. k \in Nat /\ sent - p \in Nat /\ k <= sent - p /\ p + (sent - p) = sent
    BY <1>1
  <2>2. SubSeq(SubSeq(Bytes, p + 1, sent), k + 1, sent - p) = SubSeq(Bytes, (p + k) + 1, p + (sent - p))
    BY <1>1, <2>1, CutAgain
  <2>3. Drop(Behind(p), k) = SubSeq(Behind(p), k + 1, sent - p)
    BY <1>2 DEF Drop
  <2> QED BY <2>1, <2>2, <2>3 DEF Behind
<1> QED BY <1>2, <1>3

(* What no step changes, or only by the frames it completes.               *)
LEMMA SameCompleted ==
  ASSUME DecoderInv, stream' = stream, completed' = completed
  PROVE  /\ Done' = Done /\ CompletedInOrder'
         /\ stream' \in Seq(FrameKinds) /\ completed' \in Seq(Nat) /\ Done' \in 0..Len(stream')
<1>1. Done' = Done
  BY DEF Done
<1> QED BY <1>1 DEF DecoderInv, DecoderTypes, CompletedInOrder

LEMMA MoreCompleted ==
  ASSUME DecoderInv, stream' = stream, NEW n \in 1..Len(stream), n = Done \/ n = Done + 1,
         completed' = Append(completed, n)
  PROVE  /\ Done' = n /\ CompletedInOrder'
         /\ stream' \in Seq(FrameKinds) /\ completed' \in Seq(Nat) /\ Done' \in 0..Len(stream')
<1>1. completed \in Seq(Nat) /\ n \in Nat /\ stream \in Seq(FrameKinds) /\ Done \in Nat
  BY DEF DecoderInv, DecoderTypes
<1>2. PICK k \in Nat : k = Len(completed)
  BY <1>1
<1>3. /\ completed' \in Seq(Nat) /\ completed' # <<>> /\ Len(completed') = k + 1
      /\ \A i \in 1..k : completed'[i] = completed[i]
      /\ completed'[k + 1] = n
  <2>1. PICK cs, more : cs = completed /\ more = Append(cs, n)
    OBVIOUS
  <2>2. cs \in Seq(Nat) /\ n \in Nat /\ Len(cs) = k
    BY <1>1, <1>2, <2>1
  <2>3. /\ more \in Seq(Nat) /\ more # <<>> /\ Len(more) = k + 1
        /\ \A i \in 1..k : more[i] = cs[i]
        /\ more[k + 1] = n
    <3>1. /\ Append(cs, n) \in Seq(Nat) /\ Append(cs, n) # <<>> /\ Len(Append(cs, n)) = Len(cs) + 1
          /\ \A i \in 1..Len(cs) : Append(cs, n)[i] = cs[i]
          /\ Append(cs, n)[Len(cs) + 1] = n
      BY ONLY <2>2, AppendProperties
    <3> QED BY ONLY <2>1, <2>2, <3>1
  <2>4. completed' = more
    BY <2>1
  <2> QED BY <2>1, <2>3, <2>4
<1>4. Done' = n
  BY <1>3 DEF Done, Last
<1>5. ASSUME NEW m \in 1..Len(stream) PROVE Contains(completed', m) <=> m <= n
  <2>1. Contains(completed, m) <=> m <= Done
    BY DEF DecoderInv, CompletedInOrder
  <2>2. Contains(completed', m) <=> Contains(completed, m) \/ m = n
    <3>1. \A i \in 1..(k + 1) : i \in 1..k \/ i = k + 1
      OBVIOUS
    <3>2. 1..k \subseteq 1..(k + 1) /\ k + 1 \in 1..(k + 1)
      OBVIOUS
    <3> QED BY <1>2, <1>3, <3>1, <3>2 DEF Contains
  <2> QED BY <1>1, <2>1, <2>2
<1> QED BY <1>1, <1>3, <1>4, <1>5 DEF CompletedInOrder

LEMMA InputKeeps ==
  ASSUME DecoderInv, NEW n \in 1..MaxChunk, Input(n)
  PROVE  DecoderInv'
<1>1. /\ pc = "idle" /\ sent + n <= Len(Bytes) /\ sent' = sent + n
      /\ stream' = stream /\ _got_header' = _got_header /\ _payload_offset' = _payload_offset
      /\ _mask_offset' = _mask_offset /\ cur' = cur /\ completed' = completed
  BY DEF Input
<1>2. DecoderTypes /\ Position <= sent /\ Idle /\ n \in Nat /\ 1 <= n
  BY <1>1, BoundAssumption DEF DecoderInv
<1>3. Start' = Start /\ Bytes' = Bytes /\ \A m : HeaderEnd(m)' = HeaderEnd(m)
  BY <1>1, StreamKept
<1>4. Done' = Done /\ CompletedInOrder' /\ stream' \in Seq(FrameKinds)
      /\ completed' \in Seq(Nat) /\ Done' \in 0..Len(stream')
  BY <1>1, SameCompleted
<1>5. Position' = Position
  BY <1>1, <1>3, <1>4 DEF Position, HeaderEnd
<1>6. _got_header' => InFrame'
  BY <1>1, <1>4 DEF DecoderInv, InFrame
<1>7. Bytes \in Seq(Byte) /\ sent \in Nat /\ Position \in Nat
  BY <1>2, BytesInPlace, PositionIs DEF StreamFacts, DecoderTypes
<1>8. /\ sent' \in Nat /\ sent' <= Len(Bytes') /\ Position' < sent' /\ Position' <= sent'
  BY <1>1, <1>2, <1>3, <1>5, <1>7
<1> DEFINE chunk == SubSeq(Bytes, sent + 1, sent + n)
<1>9. Behind(Position)' = SubSeq(Bytes, Position + 1, sent + n)
  BY <1>1, <1>3, <1>5 DEF Behind
<1>10. CASE _got_header
  <2>1. data' = chunk /\ pc' = "payload" /\ Position = sent
    BY <1>2, <1>10 DEF Input, Idle
  <2>2. AtPayload'
    BY <1>1, <1>9, <1>10, <2>1 DEF AtPayload
  <2> QED
    BY <1>1, <1>4, <1>6, <1>8, <2>1, <2>2, <1>2 DEF DecoderInv, DecoderTypes
<1>11. CASE ~_got_header
  <2>1. /\ data' = _remain_data \o chunk /\ pc' = "begin"
        /\ _remain_data' = <<>> \/ _remain_data' = data'
    BY <1>11 DEF Input
  <2>2. _remain_data = SubSeq(Bytes, Position + 1, sent)
    BY <1>2, <1>11 DEF Idle, Behind
  <2>3. _remain_data \o chunk = SubSeq(Bytes, Position + 1, sent + n)
    <3>1. Bytes \in Seq(Byte) /\ Position \in Nat /\ sent \in Nat /\ sent + n \in Nat
      BY <1>2, <1>7
    <3>2. Position <= sent /\ sent <= sent + n /\ sent + n <= Len(Bytes)
      BY <1>1, <1>2, <1>7
    <3>3. SubSeq(Bytes, Position + 1, sent) \o SubSeq(Bytes, sent + 1, sent + n)
          = SubSeq(Bytes, Position + 1, sent + n)
      BY ONLY <3>1, <3>2, CutJoin
    <3> QED BY <2>2, <3>3
  <2>4. AtHeader'
    BY <1>1, <1>8, <1>9, <1>11, <2>1, <2>3 DEF AtHeader
  <2> QED
    BY <1>1, <1>4, <1>6, <1>8, <2>1, <2>4, <1>2 DEF DecoderInv, DecoderTypes
<1> QED BY <1>10, <1>11

(* The byte a header begins with is the first of the next frame.           *)
LEMMA HeadIsNext ==
  ASSUME DecoderInv, AtHeader
  PROVE  /\ Done + 1 \in 1..Len(stream)
         /\ Head(data).frame = Done + 1
         /\ Len(data) \in Nat /\ sent = Position + Len(data)
         /\ Position \in Nat /\ sent \in Nat /\ Position = Start[Done + 1]
<1>1. /\ ~_got_header /\ Position < sent /\ data = Behind(Position)
      /\ DecoderTypes /\ Done \in Nat /\ sent \in Nat
  BY DEF DecoderInv, AtHeader, DecoderTypes
<1>2. Position \in Nat /\ Position = Start[Done + 1] /\ Done + 1 \in 1..Len(stream)
  BY <1>1, PositionIs
<1>3. /\ data \in Seq(Byte) /\ Len(data) = sent - Position
      /\ \A i \in 1..(sent - Position) : data[i] = Bytes[Position + i]
  <2>1. Position <= sent
    BY <1>1, <1>2
  <2> QED BY <1>1, <1>2, <2>1, BehindIs
<1>4. 1 \in 1..(sent - Position) /\ 1 \in 1..FrameLen(stream[Done + 1])
  <2>1. FrameLen(stream[Done+1]) \in Nat /\ 2 <= FrameLen(stream[Done+1])
    <3>1. stream[Done + 1] \in FrameKinds
      BY <1>1, <1>2, BytesInPlace
    <3> QED BY <3>1, FrameLens
  <2> QED BY <1>1, <1>2, <2>1
<1>5. data[1] = Bytes[Start[Done + 1] + 1]
  BY <1>2, <1>3, <1>4
<1>6. Bytes[Start[Done + 1] + 1] = [frame |-> Done + 1, at |-> 1]
  BY <1>1, <1>2, <1>4, BytesInPlace DEF StreamFacts
<1>7. Head(data).frame = Done + 1
  <2>1. Head(data) = data[1]
    BY <1>3
  <2> QED BY <1>5, <1>6, <2>1
<1> QED BY <1>1, <1>2, <1>3, <1>7

LEMMA HeaderShortKeeps ==
  ASSUME DecoderInv, HeaderShort
  PROVE  DecoderInv'
<1>1. /\ pc = "begin" /\ Len(data) < HeaderLen(stream[Head(data).frame])
      /\ _remain_data' = (IF _remain_data = <<>> THEN data ELSE _remain_data)
      /\ data' = <<>> /\ pc' = "idle" /\ sent' = sent
      /\ stream' = stream /\ _got_header' = _got_header /\ _payload_offset' = _payload_offset
      /\ _mask_offset' = _mask_offset /\ cur' = cur /\ completed' = completed
  BY DEF HeaderShort, HeaderOf
<1>2. DecoderTypes /\ Position <= sent /\ AtHeader
  BY <1>1 DEF DecoderInv
<1>3. Start' = Start /\ Bytes' = Bytes /\ \A m : HeaderEnd(m)' = HeaderEnd(m)
  BY <1>1, StreamKept
<1>4. Done' = Done /\ CompletedInOrder' /\ stream' \in Seq(FrameKinds)
      /\ completed' \in Seq(Nat) /\ Done' \in 0..Len(stream')
  BY <1>1, SameCompleted
<1>5. Position' = Position /\ Behind(Position)' = Behind(Position)
  BY <1>1, <1>3, <1>4 DEF Position, HeaderEnd, Behind
<1>6. ~_got_header' /\ _remain_data' = data
  BY <1>1, <1>2 DEF AtHeader
<1>7. sent < HeaderEnd(Done + 1)
  <2>1. /\ Done + 1 \in 1..Len(stream) /\ Head(data).frame = Done + 1 /\ Len(data) \in Nat
        /\ sent = Position + Len(data) /\ Position \in Nat /\ Position = Start[Done + 1]
    BY <1>2, HeadIsNext
  <2>2. HeaderEnd(Done + 1) = Position + HeaderLen(stream[Done + 1]) /\ HeaderLen(stream[Done + 1]) \in Nat
    BY <1>2, <2>1, BytesInPlace
  <2> QED BY <1>1, <2>1, <2>2
<1>8. Idle'
  <2>1. HeaderEnd(Done + 1)' = HeaderEnd(Done + 1)
    BY <1>1, <1>3, <1>4 DEF HeaderEnd
  <2> QED BY <1>1, <1>2, <1>5, <1>6, <1>7, <2>1 DEF Idle, AtHeader
<1> QED
  BY <1>1, <1>2, <1>3, <1>4, <1>5, <1>6, <1>8 DEF DecoderInv, DecoderTypes

LEMMA HeaderReadKeeps ==
  ASSUME DecoderInv, HeaderRead
  PROVE  DecoderInv' /\ cur' = Done + 1 /\ Done + 1 \in 1..Len(stream)
<1>0. PICK n, k : n = Done + 1 /\ k = HeaderLen(stream[n])
  OBVIOUS
<1>1. AtHeader /\ DecoderTypes /\ Position <= sent
  BY DEF HeaderRead, DecoderInv
<1>2. /\ n \in 1..Len(stream) /\ Head(data).frame = n
      /\ Len(data) \in Nat /\ sent = Position + Len(data)
      /\ Position \in Nat /\ sent \in Nat /\ Position = Start[n]
  BY <1>0, <1>1, HeadIsNext
<1>3. /\ Len(data) >= k /\ cur' = n /\ data' = Drop(data, k)
      /\ completed' = (IF stream[n].plen = 0 THEN Append(completed, n) ELSE completed)
      /\ _got_header' = TRUE /\ _mask_offset' = 0 /\ _payload_offset' = 0 /\ pc' = "payload"
      /\ stream' = stream /\ sent' = sent
  BY <1>0, <1>2 DEF HeaderRead
<1>4. Start' = Start /\ Bytes' = Bytes /\ HeaderEnd(n)' = HeaderEnd(n)
  BY <1>2, <1>3, StreamKept DEF HeaderEnd
<1>5. k \in Nat /\ HeaderEnd(n) = Position + k /\ stream[n].plen \in Nat
  BY <1>0, <1>1, <1>2, BytesInPlace
<1>6. /\ CompletedInOrder' /\ stream' \in Seq(FrameKinds)
      /\ completed' \in Seq(Nat) /\ Done' \in 0..Len(stream')
      /\ Done' = IF stream[n].plen = 0 THEN n ELSE Done
  <2>1. CASE stream[n].plen = 0
    BY <1>0, <1>2, <1>3, <2>1, MoreCompleted
  <2>2. CASE stream[n].plen # 0
    BY <1>3, <2>2, SameCompleted
  <2> QED BY <2>1, <2>2
<1>7. Position' = Position + k
  <2>1. Position' = (HeaderEnd(cur) + _payload_offset)'
    BY <1>3 DEF Position
  <2>2. HeaderEnd(cur)' = HeaderEnd(n)
    BY <1>3, <1>4 DEF HeaderEnd
  <2> QED BY <1>2, <1>3, <1>5, <2>1, <2>2
<1>8. Position' <= sent' /\ data' = Behind(Position)'
  <2>1. k \in 0..(sent - Position) /\ Position + k <= sent
    <3>1. /\ k <= Len(data) /\ Len(data) \in Nat /\ sent = Position + Len(data)
          /\ Position \in Nat /\ k \in Nat
      BY <1>2, <1>3, <1>5
    <3> QED BY ONLY <3>1
  <2>2. data = Behind(Position)
    BY <1>1 DEF AtHeader
  <2>3. Drop(Behind(Position), k) = Behind(Position + k)
    BY <1>1, <1>2, <2>1, BehindIs
  <2>4. Behind(Position)' = Behind(Position + k)
    BY <1>3, <1>4, <1>7 DEF Behind
  <2> QED BY <1>3, <1>7, <2>1, <2>2, <2>3, <2>4
<1>9. InFrame'
  <2>1. 0 % 4 = 0
    OBVIOUS
  <2>2. /\ cur' \in 1..Len(stream') /\ _payload_offset' <= stream'[cur'].plen
        /\ stream'[cur'].plen = 0 => cur' = Done'
        /\ stream'[cur'].plen # 0 => cur' = Done' + 1 /\ _payload_offset' < stream'[cur'].plen
    BY <1>0, <1>2, <1>3, <1>5, <1>6
  <2> QED BY <1>3, <2>1, <2>2 DEF InFrame
<1>10. AtPayload'
  BY <1>3, <1>8 DEF AtPayload
<1>11. DecoderTypes'
  BY <1>1, <1>3, <1>4, <1>6 DEF DecoderTypes
<1> QED
  BY <1>0, <1>2, <1>3, <1>6, <1>8, <1>9, <1>10, <1>11 DEF DecoderInv

LEMMA NoPayloadKeeps ==
  ASSUME DecoderInv, NoPayload
  PROVE  DecoderInv'
<1>1. /\ pc = "payload" /\ data = <<>> /\ _remain_data' = <<>> /\ pc' = "idle" /\ sent' = sent
      /\ data' = data
      /\ stream' = stream /\ _got_header' = _got_header /\ _payload_offset' = _payload_offset
      /\ _mask_offset' = _mask_offset /\ cur' = cur /\ completed' = completed
  BY DEF NoPayload
<1>2. DecoderTypes /\ Position <= sent /\ AtPayload /\ InFrame
  BY <1>1 DEF DecoderInv, AtPayload
<1>3. Start' = Start /\ Bytes' = Bytes /\ \A m : HeaderEnd(m)' = HeaderEnd(m)
  BY <1>1, StreamKept
<1>4. Done' = Done /\ CompletedInOrder' /\ stream' \in Seq(FrameKinds)
      /\ completed' \in Seq(Nat) /\ Done' \in 0..Len(stream')
  BY <1>1, SameCompleted
<1>5. Position' = Position
  BY <1>1, <1>3, <1>4 DEF Position, HeaderEnd
<1>6. Position = sent
  BY <1>1, <1>2, PositionIs, BehindIs DEF AtPayload
<1>7. InFrame'
  BY <1>1, <1>2, <1>4 DEF InFrame
<1>8. Idle'
  BY <1>1, <1>2, <1>5, <1>6 DEF Idle, AtPayload
<1> QED
  BY <1>1, <1>2, <1>3, <1>4, <1>5, <1>7, <1>8 DEF DecoderInv, DecoderTypes

(* What one call passes on of a payload.                                   *)
LEMMA SliceIs ==
  ASSUME DecoderInv, pc = "payload"
  PROVE  /\ AtPayload /\ InFrame /\ DecoderTypes
         /\ Slice \in Nat /\ Slice <= Len(data) /\ Slice <= stream[cur].plen - _payload_offset
         /\ Len(data) \in Nat /\ sent = Position + Len(data)
         /\ stream[cur].plen \in Nat /\ Position \in Nat
         /\ Slice = Len(data) \/ Slice = stream[cur].plen - _payload_offset
<1>1. AtPayload /\ InFrame /\ DecoderTypes /\ Position <= sent /\ sent \in Nat
  BY DEF DecoderInv, AtPayload, DecoderTypes
<1>2. Position \in Nat /\ cur \in 1..Len(stream)
  BY <1>1, PositionIs DEF AtPayload
<1>3. Len(data) = sent - Position
  BY <1>1, <1>2, BehindIs DEF AtPayload
<1>4. stream[cur].plen \in Nat /\ _payload_offset \in Nat /\ _payload_offset <= stream[cur].plen
  BY <1>1, <1>2, BytesInPlace DEF InFrame, DecoderTypes
<1>5. PICK left \in Nat, len \in Nat : left = stream[cur].plen - _payload_offset /\ len = Len(data)
  BY <1>1, <1>2, <1>3, <1>4
<1>6. Slice = IF len > left THEN left ELSE len
  BY <1>5 DEF Slice
<1>7. /\ Slice \in Nat /\ Slice <= len /\ Slice <= left
      /\ Slice = len \/ Slice = left
  BY <1>6
<1> QED BY <1>1, <1>2, <1>3, <1>4, <1>5, <1>7

(* The key goes on with the payload.                                       *)
LEMMA MaskGoesOn ==
  ASSUME DecoderInv, pc = "payload", PassPayload, stream' = stream, cur' = cur
  PROVE  _mask_offset' = IF stream'[cur'].mask THEN _payload_offset' % 4 ELSE 0
<1>1. PICK m \in Nat, k \in Nat : m = _payload_offset /\ k = Slice
  BY SliceIs DEF DecoderTypes
<1>2. _mask_offset = IF stream[cur].mask THEN m % 4 ELSE 0
  BY <1>1, SliceIs DEF InFrame
<1>3. /\ _payload_offset' = m + k
      /\ _mask_offset' = IF stream[cur].mask THEN (_mask_offset + k) % 4 ELSE _mask_offset
  BY <1>1 DEF PassPayload
<1>4. ((m % 4) + k) % 4 = (m + k) % 4
  OBVIOUS
<1>5. CASE stream[cur].mask
  BY <1>2, <1>3, <1>4, <1>5
<1>6. CASE ~stream[cur].mask
  BY <1>2, <1>3, <1>6
<1> QED BY <1>5, <1>6

LEMMA PayloadPartKeeps ==
  ASSUME DecoderInv, PayloadPart
  PROVE  DecoderInv'
<1>1. /\ pc = "payload" /\ _payload_offset' = _payload_offset + Slice
      /\ _payload_offset' < stream[cur].plen
      /\ data' = <<>> /\ _remain_data' = <<>> /\ pc' = "idle" /\ sent' = sent
      /\ stream' = stream /\ _got_header' = _got_header
      /\ cur' = cur /\ completed' = completed /\ PassPayload
  BY DEF PayloadPart, PassPayload
<1>2. /\ AtPayload /\ InFrame /\ DecoderTypes /\ Position \in Nat /\ _payload_offset \in Nat
      /\ Slice \in Nat /\ sent = Position + Slice
  <2>1. PICK plen \in Nat, off \in Nat, slice \in Nat, len \in Nat :
          plen = stream[cur].plen /\ off = _payload_offset /\ slice = Slice /\ len = Len(data)
    BY <1>1, SliceIs DEF DecoderTypes
  <2>2. slice = len \/ slice = plen - off
    BY <1>1, <2>1, SliceIs
  <2>3. off + slice < plen
    BY <1>1, <2>1
  <2>4. slice = len
    BY <2>2, <2>3
  <2> QED BY <1>1, <2>1, <2>4, SliceIs
<1>3. Start' = Start /\ Bytes' = Bytes /\ HeaderEnd(cur)' = HeaderEnd(cur)
  BY <1>1, StreamKept DEF HeaderEnd
<1>4. Done' = Done /\ CompletedInOrder' /\ stream' \in Seq(FrameKinds)
      /\ completed' \in Seq(Nat) /\ Done' \in 0..Len(stream')
  BY <1>1, SameCompleted DEF DecoderInv
<1>5. _got_header /\ Position = HeaderEnd(cur) + _payload_offset /\ HeaderEnd(cur) \in Nat
  BY <1>2, PositionIs, BytesInPlace DEF AtPayload
<1>6. Position' = sent'
  <2>1. Position' = HeaderEnd(cur) + (_payload_offset + Slice)
    BY <1>1, <1>3, <1>5 DEF Position
  <2> QED BY <1>1, <1>2, <1>5, <2>1
<1>7. InFrame'
  <2>1. _mask_offset' = IF stream'[cur'].mask THEN _payload_offset' % 4 ELSE 0
    BY <1>1, MaskGoesOn
  <2>2. stream[cur].plen \in Nat /\ _payload_offset' \in Nat
    BY <1>1, <1>2, SliceIs
  <2>3. stream[cur].plen # 0 /\ _payload_offset' <= stream[cur].plen
    BY <1>1, <2>2
  <2> QED BY <1>1, <1>2, <1>4, <2>1, <2>3 DEF InFrame
<1>8. Idle'
  BY <1>1, <1>5, <1>6 DEF Idle
<1>9. DecoderTypes' /\ Position' <= sent'
  BY <1>1, <1>2, <1>3, <1>4, <1>6 DEF DecoderTypes
<1> QED
  BY <1>1, <1>4, <1>7, <1>8, <1>9 DEF DecoderInv

LEMMA PayloadEndKeeps ==
  ASSUME DecoderInv, PayloadEnd
  PROVE  DecoderInv'
<1>1. /\ pc = "payload" /\ _payload_offset' = _payload_offset + Slice
      /\ _payload_offset' = stream[cur].plen
      /\ completed' = Append(completed, cur) /\ _got_header' = FALSE
      /\ data' = Drop(data, Slice) /\ _remain_data' = data'
      /\ pc' = (IF data' = <<>> THEN "idle" ELSE "begin")
      /\ stream' = stream /\ sent' = sent /\ cur' = cur
  BY DEF PayloadEnd, PassPayload
<1>2. /\ AtPayload /\ InFrame /\ DecoderTypes /\ Position \in Nat /\ _payload_offset \in Nat
      /\ Slice \in Nat /\ stream[cur].plen \in Nat /\ Slice <= Len(data)
      /\ Len(data) \in Nat /\ sent = Position + Len(data)
  BY <1>1, SliceIs DEF DecoderTypes
<1>3. cur \in 1..Len(stream) /\ (cur = Done \/ cur = Done + 1)
  BY <1>2 DEF InFrame
<1>4. /\ Done' = cur /\ CompletedInOrder' /\ stream' \in Seq(FrameKinds)
      /\ completed' \in Seq(Nat) /\ Done' \in 0..Len(stream')
  <2>1. PICK n \in 1..Len(stream) : n = cur
    BY <1>3
  <2> QED BY <1>1, <1>3, <2>1, MoreCompleted
<1>5. Start' = Start /\ Bytes' = Bytes
  BY <1>1, StreamKept
<1>6. Position' = Position + Slice
  <2>1. Start[cur+1] = Position + (stream[cur].plen - _payload_offset)
    BY <1>2, PositionIs DEF AtPayload
  <2>2. stream[cur].plen - _payload_offset = Slice
    BY <1>1, <1>2
  <2>3. Position' = Start[cur + 1]
    BY <1>1, <1>4, <1>5 DEF Position
  <2> QED BY <2>1, <2>2, <2>3
<1>7. data' = Behind(Position)'
  <2>1. Slice \in 0..(sent - Position) /\ Position <= sent
    BY <1>2
  <2>2. Drop(Behind(Position), Slice) = Behind(Position + Slice)
    BY <1>2, <2>1, BehindIs
  <2>3. Behind(Position)' = Behind(Position + Slice)
    BY <1>1, <1>5, <1>6 DEF Behind
  <2> QED BY <1>1, <1>2, <2>2, <2>3 DEF AtPayload
<1>8. Position' \in Nat /\ Position' <= sent' /\ sent' \in Nat
  BY <1>1, <1>2, <1>6
<1>9. DecoderTypes'
  BY <1>1, <1>2, <1>4, <1>5 DEF DecoderTypes
<1>10. data' = <<>> <=> Position' = sent'
  <2>1. Behind(Position + Slice) = <<>> <=> Position + Slice = sent
    <3>1. Position + Slice \in Nat /\ Position + Slice <= sent
      BY <1>1, <1>6, <1>8
    <3> QED BY <1>2, <3>1, BehindIs
  <2>2. Behind(Position)' = Behind(Position + Slice)
    BY <1>1, <1>5, <1>6 DEF Behind
  <2> QED BY <1>1, <1>6, <1>7, <2>1, <2>2
<1>11. CASE data' = <<>>
  <2>1. Idle'
    <3>1. ~(Position' < sent')
      BY <1>8, <1>10, <1>11
    <3> QED BY <1>1, <1>7, <1>11, <3>1 DEF Idle
  <2> QED BY <1>1, <1>4, <1>8, <1>9, <1>11, <2>1 DEF DecoderInv
<1>12. CASE data' # <<>>
  <2>1. AtHeader'
    <3>1. Position' < sent'
      BY <1>8, <1>10, <1>12
    <3> QED BY <1>1, <1>7, <3>1 DEF AtHeader
  <2> QED BY <1>1, <1>4, <1>8, <1>9, <1>12, <2>1 DEF DecoderInv
<1> QED BY <1>11, <1>12

LEMMA DecoderStart == Init => DecoderInv
<1> SUFFICES ASSUME Init PROVE DecoderInv
  OBVIOUS
<1>1. /\ sent = 0 /\ pc = "idle" /\ data = <<>> /\ _remain_data = <<>> /\ _got_header = FALSE
      /\ _payload_offset = 0 /\ completed = <<>>
  BY DEF Init
<1>2. stream \in Seq(FrameKinds)
  BY SeqDef DEF Init, SeqOf
<1>3. Done = 0 /\ completed \in Seq(Nat) /\ \A n : ~Contains(completed, n)
  BY <1>1 DEF Done, Contains
<1>4. StreamFacts(stream, Start, Bytes) /\ Len(stream) \in Nat
  BY <1>2, StreamLaidOut DEF Start, Bytes
<1>5. Len(Bytes) \in Nat
  BY <1>4 DEF StreamFacts
<1>6. DecoderTypes
  <2>1. sent \in Nat /\ sent <= Len(Bytes) /\ Done \in 0..Len(stream)
    BY <1>1, <1>3, <1>4, <1>5
  <2> QED BY <1>1, <1>2, <1>3, <2>1 DEF DecoderTypes
<1>7. Position = 0
  BY <1>1, <1>3, <1>4 DEF Position, StreamFacts
<1>8. Behind(0) = <<>>
  <2>1. 0 \in Nat /\ 0 <= sent /\ 0 = sent
    BY <1>1
  <2> QED BY <1>6, <2>1, BehindIs
<1>9. Idle
  BY <1>1, <1>7, <1>8 DEF Idle
<1>10. CompletedInOrder
  BY <1>3 DEF CompletedInOrder
<1> QED BY <1>1, <1>6, <1>7, <1>9, <1>10 DEF DecoderInv

LEMMA DecoderStep == DecoderInv /\ [Next]_vars => DecoderInv'
<1> SUFFICES ASSUME DecoderInv, [Next]_vars PROVE DecoderInv'
  OBVIOUS
<1>1. ASSUME NEW n \in 1..MaxChunk, Input(n) PROVE DecoderInv'
  BY <1>1, InputKeeps
<1>2. CASE HeaderShort
  BY <1>2, HeaderShortKeeps
<1>3. CASE HeaderRead
  BY <1>3, HeaderReadKeeps
<1>4. CASE NoPayload
  BY <1>4, NoPayloadKeeps
<1>5. CASE PayloadPart
  BY <1>5, PayloadPartKeeps
<1>6. CASE PayloadEnd
  BY <1>6, PayloadEndKeeps
<1>7. CASE UNCHANGED vars
  <2>1. /\ sent' = sent /\ pc' = pc /\ data' = data /\ _remain_data' = _remain_data
        /\ _got_header' = _got_header /\ _payload_offset' = _payload_offset
        /\ _mask_offset' = _mask_offset /\ cur' = cur /\ completed' = completed /\ stream' = stream
    BY <1>7 DEF vars
  <2>2. Start' = Start /\ Bytes' = Bytes /\ Done' = Done
    BY <2>1, StreamKept DEF Done
  <2>3. Position' = Position /\ HeaderEnd(Done + 1)' = HeaderEnd(Done + 1)
        /\ Behind(Position)' = Behind(Position)
    BY <2>1, <2>2 DEF Position, HeaderEnd, Behind
  <2>4. DecoderTypes' /\ CompletedInOrder' /\ (_got_header => InFrame)'
    BY <2>1, <2>2 DEF DecoderInv, DecoderTypes, CompletedInOrder, InFrame
  <2>5. (pc = "idle" => Idle)' /\ (pc = "begin" => AtHeader)' /\ (pc = "payload" => AtPayload)'
    BY <2>1, <2>3 DEF DecoderInv, Idle, AtHeader, AtPayload
  <2> QED BY <2>1, <2>3, <2>4, <2>5 DEF DecoderInv
<1> QED BY <1>1, <1>2, <1>3, <1>4, <1>5, <1>6, <1>7 DEF Next

(* When decode has returned, what has arrived ends within the next frame.  *)
LEMMA ArrivedWithinNext ==
  ASSUME DecoderInv, pc = "idle"
  PROVE  /\ Start[Done + 1] <= sent
         /\ Done + 1 \in 1..Len(stream) => sent < Start[(Done + 1) + 1]
<1>1. DecoderTypes /\ Idle /\ Position <= sent /\ sent \in Nat /\ (_got_header => InFrame)
  BY DEF DecoderInv, DecoderTypes
<1>2. PICK L \in Nat, d \in 0..Len(stream) : L = Len(stream) /\ d = Done
  BY <1>1, BytesInPlace DEF DecoderTypes
<1>3. \A n \in 1..(L + 1) : Start[n] \in Nat
  BY <1>1, <1>2, BytesInPlace DEF StreamFacts
<1>4. d + 1 \in 1..(L + 1)
  BY <1>2
<1>5. CASE ~_got_header
  <2>1. Position = Start[d + 1] /\ (Position < sent => sent < HeaderEnd(d + 1))
    BY <1>1, <1>2, <1>5, PositionIs DEF Idle
  <2>2. ASSUME d + 1 \in 1..L PROVE sent < Start[(d + 1) + 1]
    <3>1. /\ Start[d+1] \in Nat /\ HeaderEnd(d+1) \in Nat /\ Start[(d+1)+1] \in Nat
          /\ Start[d+1] < HeaderEnd(d+1) /\ HeaderEnd(d+1) <= Start[(d+1)+1]
      <4>1. PICK h, l : h = HeaderLen(stream[d+1]) /\ l = stream[d+1].plen
        OBVIOUS
      <4>2. /\ h \in Nat /\ 2 <= h /\ l \in Nat /\ Start[d+1] \in Nat
            /\ HeaderEnd(d+1) = Start[d+1] + h /\ Start[(d+1)+1] = HeaderEnd(d+1) + l
        BY <1>1, <1>2, <2>2, <4>1, BytesInPlace
      <4> QED BY <4>2
    <3> QED BY <1>1, <2>1, <3>1
  <2> QED BY <1>1, <1>2, <2>1, <2>2
<1>6. CASE _got_header
  <2>1. /\ cur \in 1..L /\ sent = Position
        /\ Position = HeaderEnd(cur) + _payload_offset
        /\ Start[cur+1] = Position + (stream[cur].plen - _payload_offset)
    BY <1>1, <1>2, <1>6, PositionIs DEF Idle
  <2>2. PICK h, l, off : h = HeaderLen(stream[cur]) /\ l = stream[cur].plen /\ off = _payload_offset
    OBVIOUS
  <2>3. /\ h \in Nat /\ 2 <= h /\ l \in Nat /\ off \in Nat /\ off <= l
        /\ Start[cur] \in Nat /\ HeaderEnd(cur) = Start[cur] + h
    BY <1>1, <1>2, <1>6, <2>1, <2>2, BytesInPlace DEF InFrame, DecoderTypes
  <2>4. CASE l = 0
    <3>1. cur = d /\ off = 0
      BY <1>1, <1>2, <1>6, <2>2, <2>3, <2>4 DEF InFrame
    <3>2. sent = Start[d + 1]
      BY <1>1, <2>1, <2>2, <2>4, <3>1
    <3>3. ASSUME d + 1 \in 1..L PROVE Start[d + 1] < Start[(d + 1) + 1]
      <4>1. PICK h2, l2 : h2 = HeaderLen(stream[d+1]) /\ l2 = stream[d+1].plen
        OBVIOUS
      <4>2. /\ h2 \in Nat /\ 2 <= h2 /\ l2 \in Nat /\ Start[d+1] \in Nat
            /\ HeaderEnd(d+1) = Start[d+1] + h2 /\ Start[(d+1)+1] = HeaderEnd(d+1) + l2
        BY <1>1, <1>2, <3>3, <4>1, BytesInPlace
      <4> QED BY <4>2
    <3> QED BY <1>1, <1>2, <3>2, <3>3
  <2>5. CASE l # 0
    <3>1. cur = d + 1 /\ off < l
      BY <1>1, <1>2, <1>6, <2>2, <2>5 DEF InFrame
    <3>2. sent = (Start[cur] + h) + off /\ Start[cur+1] = sent + (l - off)
      BY <2>1, <2>2, <2>3
    <3>3. Start[cur] <= sent /\ sent < Start[cur + 1]
      <4>1. /\ sent \in Nat /\ Start[cur] \in Nat /\ h \in Nat /\ 2 <= h /\ off \in Nat /\ l \in Nat
            /\ off < l /\ sent = (Start[cur] + h) + off /\ Start[cur+1] = sent + (l - off)
        BY <1>1, <2>3, <3>1, <3>2
      <4> QED BY ONLY <4>1
    <3> QED BY <1>2, <3>1, <3>3
  <2> QED BY <2>4, <2>5
<1> QED BY <1>5, <1>6

(* What the decoder's invariant says of the bytes that have arrived.       *)
LEMMA InvArrived == DecoderInv => ArrivedCompleted
<1> SUFFICES ASSUME DecoderInv, pc = "idle", NEW n \in 1..Len(stream)
             PROVE  Contains(completed, n) <=>
                      ToSet(FrameBytes(stream, n)) \subseteq ToSet(SubSeq(Bytes, 1, sent))
  BY DEF ArrivedCompleted
<1>1. DecoderTypes /\ sent \in Nat
  BY DEF DecoderInv, DecoderTypes
<1>2. PICK L \in Nat, d \in 0..Len(stream) : L = Len(stream) /\ d = Done
  BY <1>1, BytesInPlace DEF DecoderTypes
<1>3. /\ Bytes \in Seq(Byte) /\ Start \in [1..(L + 1) -> Nat] /\ sent <= Len(Bytes)
      /\ \A m \in 1..L : Start[m+1] = Start[m] + FrameLen(stream[m])
      /\ \A m \in 1..L : \A i \in 1..FrameLen(stream[m]) : Bytes[Start[m] + i] = [frame |-> m, at |-> i]
      /\ \A i \in 1..(L + 1), j \in 1..(L + 1) : i <= j => Start[i] <= Start[j]
      /\ \A p \in 1..Len(Bytes) : \E m \in 1..L : \E i \in 1..FrameLen(stream[m]) : p = Start[m] + i
  BY <1>1, <1>2, BytesInPlace DEF StreamFacts, DecoderTypes
<1>4. /\ Start[d + 1] <= sent
      /\ d + 1 \in 1..L => sent < Start[(d + 1) + 1]
  BY <1>2, ArrivedWithinNext
<1>5. PICK k : k = FrameLen(stream[n])
  OBVIOUS
<1>6. k \in Nat /\ 1 <= k /\ k \in 1..k
  <2>1. stream[n] \in FrameKinds
    BY <1>1, BytesInPlace
  <2> QED BY <1>5, <2>1, FrameLens
<1>7. /\ Start[n] \in Nat /\ Start[n+1] \in Nat /\ Start[n+1] = Start[n] + k
      /\ \A i \in 1..k : Bytes[Start[n] + i] = [frame |-> n, at |-> i]
  <2>1. n \in 1..L /\ n \in 1..(L+1) /\ n + 1 \in 1..(L+1)
    BY <1>2
  <2> QED BY <1>3, <1>5, <2>1
<1>8. ToSet(FrameBytes(stream, n)) = {[frame |-> n, at |-> i] : i \in 1..k}
  BY <1>5 DEF FrameBytes, ToSet
<1>9. ToSet(SubSeq(Bytes, 1, sent)) = {Bytes[p] : p \in 1..sent}
  <2>1. PICK arrived : arrived = SubSeq(Bytes, 0 + 1, sent)
    OBVIOUS
  <2>2. /\ arrived \in Seq(Byte) /\ Len(arrived) = sent - 0
        /\ \A i \in 1..(sent - 0) : arrived[i] = Bytes[0 + i]
    BY <1>1, <1>3, <2>1, Cut
  <2>3. /\ DOMAIN arrived = 1..sent /\ \A i \in 1..sent : arrived[i] = Bytes[i]
    BY <1>1, <2>2
  <2>4. 0 + 1 = 1
    OBVIOUS
  <2> QED BY <2>1, <2>3, <2>4 DEF ToSet
<1>10. Contains(completed, n) <=> n <= d
  BY <1>2 DEF DecoderInv, CompletedInOrder
<1>11. CASE n <= d
  <2>1. Start[n+1] <= Start[d+1] /\ Start[d+1] \in Nat
    <3>1. n + 1 \in 1..(L + 1) /\ d + 1 \in 1..(L + 1) /\ n + 1 <= d + 1
      BY <1>2, <1>11
    <3> QED BY <1>3, <3>1
  <2>2. ASSUME NEW i \in 1..k PROVE [frame |-> n, at |-> i] \in {Bytes[p] : p \in 1..sent}
    <3>1. Start[n] + i \in 1..sent
      <4>1. Start[n+1] <= sent
        BY <1>1, <1>4, <1>7, <2>1
      <4>2. /\ sent \in Nat /\ k \in Nat /\ Start[n] \in Nat /\ Start[n] + k <= sent /\ i \in 1..k
        BY <1>1, <1>6, <1>7, <4>1
      <4> QED BY ONLY <4>2
    <3>2. Bytes[Start[n] + i] = [frame |-> n, at |-> i]
      BY <1>7
    <3> QED BY <3>1, <3>2
  <2> QED BY <1>8, <1>9, <1>10, <1>11, <2>2
<1>12. CASE ~(n <= d)
  <2>1. sent < Start[n+1]
    <3>1. d + 1 \in 1..L /\ (d + 1) + 1 \in 1..(L + 1) /\ n + 1 \in 1..(L + 1) /\ (d + 1) + 1 <= n + 1
      BY <1>2, <1>12
    <3>2. Start[(d + 1) + 1] <= Start[n + 1] /\ Start[(d + 1) + 1] \in Nat
      BY <1>3, <3>1
    <3> QED BY <1>1, <1>4, <1>7, <3>1, <3>2
  <2>2. ASSUME NEW p \in 1..sent, Bytes[p] = [frame |-> n, at |-> k] PROVE FALSE
    <3>1. p \in 1..Len(Bytes)
      BY <1>1, <1>3
    <3>2. PICK m \in 1..L : \E i \in 1..FrameLen(stream[m]) : p = Start[m] + i
      BY <1>3, <3>1
    <3>3. PICK i \in 1..FrameLen(stream[m]) : p = Start[m] + i
      BY <3>2
    <3>4. Bytes[p] = [frame |-> m, at |-> i]
      BY <1>3, <3>3
    <3>5. m = n /\ i = k
      BY <2>2, <3>4
    <3> QED BY <1>1, <1>6, <1>7, <2>1, <3>3, <3>5
  <2> QED BY <1>6, <1>8, <1>9, <1>10, <1>12, <2>2
<1> QED BY <1>11, <1>12

(* However the stream is cut: when decode has returned, exactly the frames *)
(* that have arrived in full are complete (WebSocketSplitter.cpp:101-140). *)
THEOREM FramesComplete == Spec => []ArrivedCompleted
<1>1. Spec => []DecoderInv
  BY DecoderStart, DecoderStep, PTL DEF Spec
<1> QED BY <1>1, InvArrived, PTL

(***************************************************************************)
(* NonEmpty, one message further.                                          *)
(***************************************************************************)
KeepSteps(S, ms) ==
  [i \in 1..Len(ms) |->
     [s \in Seq(Seq(S)) |-> IF ms[i] = <<>> THEN s ELSE Append(s, ms[i])]]

LEMMA NonEmptyIs ==
  ASSUME NEW S, NEW ms \in Seq(Seq(S))
  PROVE  \E f : /\ f \in [0..Len(ms) -> Seq(Seq(S))]
                /\ f[0] = <<>>
                /\ \A i \in 1..Len(ms) : f[i] = IF ms[i] = <<>> THEN f[i-1] ELSE Append(f[i-1], ms[i])
                /\ NonEmpty(ms) = f[Len(ms)]
<1>0. PICK L \in Nat : L = Len(ms) /\ \A i \in 1..L : ms[i] \in Seq(S)
  OBVIOUS
<1> DEFINE T == Seq(Seq(S))
<1>1. KeepSteps(S, ms) \in [1..L -> [T -> T]] /\ <<>> \in T
  <2>1. \A i \in 1..L : \A s \in T : Append(s, ms[i]) \in T
    BY <1>0
  <2> HIDE DEF T
  <2>2. \A i \in 1..L : \A s \in T : (IF ms[i] = <<>> THEN s ELSE Append(s, ms[i])) \in T
    BY <2>1
  <2>3. KeepSteps(S, ms) = [i \in 1..L |->
           [s \in T |-> IF ms[i] = <<>> THEN s ELSE Append(s, ms[i])]]
    BY <1>0 DEF KeepSteps, T
  <2> QED BY <2>2, <2>3 DEF T
<1> HIDE DEF T
<1>2. PICK f : FollowsSteps(f, T, L, <<>>, KeepSteps(S, ms))
  BY <1>1, Recursion
<1>3. /\ f \in [0..L -> T] /\ f[0] = <<>>
      /\ \A i \in 1..L : f[i] = IF ms[i] = <<>> THEN f[i-1] ELSE Append(f[i-1], ms[i])
  <2>1. f \in [0..L -> T] /\ f[0] = <<>> /\ \A i \in 1..L : f[i] = KeepSteps(S, ms)[i][f[i-1]]
    BY <1>2 DEF FollowsSteps
  <2>2. ASSUME NEW i \in 1..L
        PROVE  f[i] = IF ms[i] = <<>> THEN f[i-1] ELSE Append(f[i-1], ms[i])
    <3>1. i - 1 \in 0..L /\ i \in 1..Len(ms)
      BY <1>0
    <3>2. f[i-1] \in Seq(Seq(S))
      BY <2>1, <3>1 DEF T
    <3>3. KeepSteps(S, ms)[i][f[i-1]] = IF ms[i] = <<>> THEN f[i-1] ELSE Append(f[i-1], ms[i])
      BY <3>1, <3>2 DEF KeepSteps
    <3> QED BY <2>1, <3>3
  <2> QED BY <2>1, <2>2
<1> DEFINE Kept(g) == g = [i \in 0..L |->
                             IF i = 0 THEN <<>>
                             ELSE IF ms[i] = <<>> THEN g[i-1] ELSE Append(g[i-1], ms[i])]
<1>4. Kept(f)
  <2>1. ASSUME NEW i \in 0..L
        PROVE  f[i] = IF i = 0 THEN <<>>
                      ELSE IF ms[i] = <<>> THEN f[i-1] ELSE Append(f[i-1], ms[i])
    <3>1. i = 0 \/ i \in 1..L
      OBVIOUS
    <3> QED BY <1>3, <3>1
  <2> QED BY <1>3, <2>1
<1> DEFINE g == CHOOSE g : Kept(g)
<1>5. NonEmpty(ms) = g[L]
  BY <1>0 DEF NonEmpty
<1>6. Kept(g)
  BY <1>4
<1> HIDE DEF g
<1>7. \A i \in 0..L : f[i] = g[i]
  <2>1. f[0] = g[0]
    BY <1>3, <1>6
  <2>2. ASSUME NEW i \in 1..L, f[i-1] = g[i-1] PROVE f[i] = g[i]
    <3>1. i \in 0..L /\ i # 0
      OBVIOUS
    <3>2. g[i] = IF ms[i] = <<>> THEN g[i-1] ELSE Append(g[i-1], ms[i])
      BY <1>6, <3>1
    <3> QED BY <1>3, <2>2, <3>2
  <2>3. StepsAgree(L, f, g)
    BY <2>1, <2>2 DEF StepsAgree
  <2>4. AgreeUpto(L, f, g)
    BY ONLY <2>3, L \in Nat, SameSteps
  <2> QED BY <2>4 DEF AgreeUpto
<1>8. NonEmpty(ms) = f[L]
  BY <1>5, <1>7
<1> QED BY <1>0, <1>3, <1>8 DEF T

LEMMA NonEmptyAppend ==
  ASSUME NEW S, NEW ms \in Seq(Seq(S)), NEW m \in Seq(S)
  PROVE  /\ NonEmpty(ms) \in Seq(Seq(S))
         /\ NonEmpty(Append(ms, m)) = IF m = <<>> THEN NonEmpty(ms) ELSE Append(NonEmpty(ms), m)
<1>0. PICK L \in Nat : L = Len(ms)
  OBVIOUS
<1>1. PICK f : /\ f \in [0..L -> Seq(Seq(S))] /\ f[0] = <<>>
               /\ \A i \in 1..L : f[i] = IF ms[i] = <<>> THEN f[i-1] ELSE Append(f[i-1], ms[i])
               /\ NonEmpty(ms) = f[L]
  BY <1>0, NonEmptyIs
<1>2. PICK more : more = Append(ms, m)
  OBVIOUS
<1>3. /\ more \in Seq(Seq(S)) /\ Len(more) = L + 1 /\ more[L + 1] = m
      /\ \A i \in 1..L : more[i] = ms[i]
  BY <1>0, <1>2, AppendProperties
<1>4. PICK g : /\ g[0] = <<>>
               /\ \A i \in 1..(L + 1) : g[i] = IF more[i] = <<>> THEN g[i-1] ELSE Append(g[i-1], more[i])
               /\ NonEmpty(more) = g[L + 1]
  <2>1. \E g : /\ g \in [0..Len(more) -> Seq(Seq(S))]
               /\ g[0] = <<>>
               /\ \A i \in 1..Len(more) : g[i] = IF more[i] = <<>> THEN g[i-1] ELSE Append(g[i-1], more[i])
               /\ NonEmpty(more) = g[Len(more)]
    BY <1>3, NonEmptyIs
  <2> QED BY <1>3, <2>1
<1>5. \A i \in 0..L : f[i] = g[i]
  <2>1. ASSUME NEW i \in 1..L, f[i-1] = g[i-1] PROVE f[i] = g[i]
    <3>1. i \in 1..(L + 1)
      OBVIOUS
    <3> QED BY <1>1, <1>3, <1>4, <2>1, <3>1
  <2>2. f[0] = g[0]
    BY <1>1, <1>4
  <2>3. StepsAgree(L, f, g)
    BY <2>1, <2>2 DEF StepsAgree
  <2>4. AgreeUpto(L, f, g)
    BY ONLY <2>3, L \in Nat, SameSteps
  <2> QED BY <2>4 DEF AgreeUpto
<1>6. g[L + 1] = IF m = <<>> THEN g[L] ELSE Append(g[L], m)
  <2>1. L + 1 \in 1..(L + 1) /\ (L + 1) - 1 = L
    OBVIOUS
  <2> QED BY <1>3, <1>4, <2>1
<1>7. g[L] = NonEmpty(ms) /\ NonEmpty(ms) \in Seq(Seq(S))
  BY <1>1, <1>5
<1> QED BY <1>2, <1>4, <1>6, <1>7

(***************************************************************************)
(* What the peer meant, one frame further.                                 *)
(***************************************************************************)
Got       == [byte : Byte, key : Nat]
MeantSet  == [pending : Seq(Got), whole : Seq(Seq(Got)), pings : Seq(Seq(Got)), flooded : BOOLEAN]
NoneMeant == [pending |-> <<>>, whole |-> <<>>, pings |-> <<>>, flooded |-> FALSE]

LEMMA PayloadIs ==
  ASSUME NEW f \in FrameKinds, NEW n \in Nat
  PROVE  /\ Payload(f, n) \in Seq(Got) /\ Len(Payload(f, n)) = f.plen
         /\ \A i \in 1..f.plen :
              Payload(f, n)[i] = [byte |-> [frame |-> n, at |-> HeaderLen(f) + i],
                                  key  |-> IF f.mask THEN (i - 1) % 4 ELSE 0]
<1>1. PICK l \in Nat, h \in Nat : l = f.plen /\ h = HeaderLen(f)
  BY FrameLens
<1> DEFINE at(i) == [byte |-> [frame |-> n, at |-> h + i],
                     key  |-> IF f.mask THEN (i - 1) % 4 ELSE 0]
<1>2. Payload(f, n) = [i \in 1..l |-> at(i)]
  BY <1>1 DEF Payload
<1>3. ASSUME NEW i \in 1..l PROVE at(i) \in Got
  <2>1. (i - 1) % 4 \in Nat /\ h + i \in Nat
    BY <1>1
  <2> QED BY <2>1 DEF Got, Byte
<1> HIDE DEF at
<1>4. [i \in 1..l |-> at(i)] \in Seq(Got) /\ Len([i \in 1..l |-> at(i)]) = l
  BY <1>3
<1> QED BY <1>1, <1>2, <1>4 DEF at

LEMMA MeantWithType ==
  ASSUME NEW m \in MeantSet, NEW f \in FrameKinds, NEW n \in Nat
  PROVE  MeantWith(m, f, n) \in MeantSet
<1>1. PICK p \in Seq(Got) : p = Payload(f, n)
  BY PayloadIs
<1>2. PICK unit : unit = m.pending \o p
  OBVIOUS
<1>3. /\ m.pending \in Seq(Got) /\ m.whole \in Seq(Seq(Got)) /\ m.pings \in Seq(Seq(Got))
      /\ m.flooded \in BOOLEAN /\ unit \in Seq(Got) /\ <<>> \in Seq(Got)
  BY <1>2 DEF MeantSet
<1>4. Append(m.pings, p) \in Seq(Seq(Got)) /\ Append(m.whole, unit) \in Seq(Seq(Got))
  BY <1>3
<1>5. CASE f.op = "ping"
  <2>1. MeantWith(m, f, n) = [m EXCEPT !.pings = Append(m.pings, p)]
    BY <1>1, <1>5 DEF MeantWith, DataOps
  <2> QED BY <1>4, <2>1 DEF MeantSet
<1>6. CASE f.op # "ping" /\ f.op \notin DataOps
  BY <1>6 DEF MeantWith, DataOps
<1>7. CASE f.op \in DataOps /\ f.fin
  <2>1. MeantWith(m, f, n) = [m EXCEPT !.pending = <<>>, !.whole = Append(m.whole, unit)]
    BY <1>1, <1>2, <1>7 DEF MeantWith, DataOps
  <2> QED BY <1>3, <1>4, <2>1 DEF MeantSet
<1>8. CASE f.op \in DataOps /\ ~f.fin
  <2>1. MeantWith(m, f, n) = [m EXCEPT !.pending = unit,
                                 !.flooded = m.flooded \/ Len(unit) >= MaxWsPacket]
    BY <1>1, <1>2, <1>8 DEF MeantWith, DataOps
  <2>2. (m.flooded \/ Len(unit) >= MaxWsPacket) \in BOOLEAN
    OBVIOUS
  <2> QED BY <1>3, <2>1, <2>2 DEF MeantSet
<1> QED BY <1>5, <1>6, <1>7, <1>8

MeantSteps(frames) ==
  [n \in 1..Len(frames) |-> [m \in MeantSet |-> MeantWith(m, frames[n], n)]]

LEMMA MeantByIs ==
  ASSUME NEW frames \in Seq(FrameKinds)
  PROVE  /\ MeantBy(frames)[0] = NoneMeant
         /\ \A n \in 0..Len(frames) : MeantBy(frames)[n] \in MeantSet
         /\ \A n \in 1..Len(frames) :
              MeantBy(frames)[n] = MeantWith(MeantBy(frames)[n-1], frames[n], n)
<1>0. PICK L \in Nat : L = Len(frames) /\ \A n \in 1..L : frames[n] \in FrameKinds
  OBVIOUS
<1>1. NoneMeant \in MeantSet
  BY DEF NoneMeant, MeantSet
<1>2. MeantSteps(frames) \in [1..L -> [MeantSet -> MeantSet]]
  <2>1. \A n \in 1..L : \A m \in MeantSet : MeantWith(m, frames[n], n) \in MeantSet
    BY <1>0, MeantWithType
  <2> QED BY <1>0, <2>1 DEF MeantSteps
<1>3. PICK f : FollowsSteps(f, MeantSet, L, NoneMeant, MeantSteps(frames))
  BY <1>1, <1>2, Recursion
<1>4. /\ f \in [0..L -> MeantSet] /\ f[0] = NoneMeant
      /\ \A n \in 1..L : f[n] = MeantWith(f[n-1], frames[n], n)
  <2>1. /\ f \in [0..L -> MeantSet] /\ f[0] = NoneMeant
        /\ \A n \in 1..L : f[n] = MeantSteps(frames)[n][f[n-1]]
    BY <1>3 DEF FollowsSteps
  <2>2. ASSUME NEW n \in 1..L PROVE f[n] = MeantWith(f[n-1], frames[n], n)
    <3>1. n - 1 \in 0..L /\ n \in 1..Len(frames)
      BY <1>0
    <3>2. f[n-1] \in MeantSet
      BY <2>1, <3>1
    <3>3. MeantSteps(frames)[n][f[n-1]] = MeantWith(f[n-1], frames[n], n)
      BY <3>1, <3>2 DEF MeantSteps
    <3> QED BY <2>1, <3>3
  <2> QED BY <2>1, <2>2
<1> DEFINE Rec(g) == g = [n \in 0..L |-> IF n = 0 THEN NoneMeant ELSE MeantWith(g[n-1], frames[n], n)]
<1>5. Rec(f)
  <2>1. ASSUME NEW n \in 0..L
        PROVE  f[n] = IF n = 0 THEN NoneMeant ELSE MeantWith(f[n-1], frames[n], n)
    <3>1. n = 0 \/ n \in 1..L
      OBVIOUS
    <3> QED BY <1>4, <3>1
  <2> QED BY <1>4, <2>1
<1> DEFINE g == CHOOSE g : Rec(g)
<1>6. MeantBy(frames) = g
  BY <1>0 DEF MeantBy, NoneMeant
<1>7. Rec(g)
  BY <1>5
<1> HIDE DEF g
<1>8. ASSUME NEW n \in 1..L PROVE g[n] = MeantWith(g[n-1], frames[n], n)
  <2>1. n \in 0..L /\ n # 0
    OBVIOUS
  <2> QED BY <1>7, <2>1
<1>9. g[0] = NoneMeant
  BY <1>7
<1>10. \A n \in 0..L : f[n] = g[n]
  <2>1. f[0] = g[0]
    BY <1>4, <1>9
  <2>2. ASSUME NEW n \in 1..L, f[n-1] = g[n-1] PROVE f[n] = g[n]
    BY <1>4, <1>8, <2>2
  <2>3. StepsAgree(L, f, g)
    BY <2>1, <2>2 DEF StepsAgree
  <2>4. AgreeUpto(L, f, g)
    BY ONLY <2>3, L \in Nat, SameSteps
  <2> QED BY <2>4 DEF AgreeUpto
<1>11. \A n \in 0..L : g[n] \in MeantSet
  BY <1>4, <1>10
<1> HIDE DEF Rec
<1> QED BY <1>0, <1>6, <1>8, <1>9, <1>11

(***************************************************************************)
(* The endpoint's state against what was meant.                            *)
(***************************************************************************)
Ponged   == [head : [ext : {0, 2, 8}, mask : BOOLEAN, plen : Nat], payload : Seq(Got)]
StateSet == [op : Ops, section : Seq(Got), cache : Seq(Got), out : Seq(Seq(Got)),
             pongs : Seq(Ponged), sock : {"open", "closing", "closed"}]

Payloads(ps) == [i \in DOMAIN ps |-> ps[i].payload]

Fits(p)      == p.head.plen = Len(p.payload) /\ (p.head.mask <=> endpoint = "client")
HeadsFit(ps) == \A i \in DOMAIN ps : Fits(ps[i])

(* What is kept is what is pending and what was put out what is whole, as  *)
(* long as no message has reached the limit; the PONGs are those meant.    *)
Agrees(st, meant) ==
  /\ ~meant.flooded =>
       /\ st.cache = meant.pending
       /\ Len(meant.pending) < MaxWsPacket
       /\ NonEmpty(st.out) = NonEmpty(meant.whole)
  /\ NonEmpty(Payloads(st.pongs)) = NonEmpty(meant.pings)
  /\ Len(st.pongs) >= Len(meant.pings)
  /\ HeadsFit(st.pongs)

LEMMA PayloadsAppend ==
  ASSUME NEW ps \in Seq(Ponged), NEW p \in Ponged
  PROVE  /\ Payloads(ps) \in Seq(Seq(Got)) /\ p.payload \in Seq(Got)
         /\ Payloads(Append(ps, p)) = Append(Payloads(ps), p.payload)
         /\ HeadsFit(ps) /\ Fits(p) => HeadsFit(Append(ps, p))
<1>0. PICK k \in Nat : k = Len(ps) /\ DOMAIN ps = 1..k /\ \A i \in 1..k : ps[i] \in Ponged
  OBVIOUS
<1>1. p.payload \in Seq(Got) /\ \A i \in 1..k : ps[i].payload \in Seq(Got)
  BY <1>0 DEF Ponged
<1>2. Payloads(ps) = [i \in 1..k |-> ps[i].payload]
  BY <1>0 DEF Payloads
<1>3. Payloads(ps) \in Seq(Seq(Got)) /\ Len(Payloads(ps)) = k
  BY <1>1, <1>2
<1>4. PICK more : more = Append(ps, p)
  OBVIOUS
<1>5. /\ more \in Seq(Ponged) /\ Len(more) = k + 1 /\ more[k + 1] = p /\ DOMAIN more = 1..(k + 1)
      /\ \A i \in 1..k : more[i] = ps[i]
  BY <1>0, <1>4, AppendProperties
<1>6. \A i \in 1..(k + 1) : i \in 1..k \/ i = k + 1
  OBVIOUS
<1>7. Payloads(more) = Append(Payloads(ps), p.payload)
  <2>0. Append(Payloads(ps), p.payload) \in Seq(Seq(Got))
    BY ONLY <1>1, <1>3, AppendProperties
  <2>1. PICK a \in Seq(Seq(Got)) : a = Append(Payloads(ps), p.payload)
    BY <2>0
  <2>2. Len(a) = k + 1 /\ a[k + 1] = p.payload /\ \A i \in 1..k : a[i] = ps[i].payload
    <3>1. /\ Len(a) = k + 1 /\ a[k + 1] = p.payload /\ \A i \in 1..k : a[i] = Payloads(ps)[i]
      BY <1>1, <1>3, <2>1, AppendProperties
    <3>2. \A i \in 1..k : Payloads(ps)[i] = ps[i].payload
      BY <1>2
    <3> QED BY <3>1, <3>2
  <2>3. Payloads(more) = [i \in 1..(k + 1) |-> more[i].payload]
    BY <1>5 DEF Payloads
  <2>4. \A i \in 1..(k + 1) : more[i].payload \in Seq(Got)
    BY <1>1, <1>5, <1>6
  <2>5. Payloads(more) \in Seq(Seq(Got)) /\ Len(Payloads(more)) = k + 1
    BY <2>3, <2>4
  <2>6. \A i \in 1..(k + 1) : Payloads(more)[i] = a[i]
    <3> TAKE i \in 1..(k + 1)
    <3>1. Payloads(more)[i] = more[i].payload
      BY <2>3
    <3>2. more[i].payload = a[i]
      BY <1>5, <1>6, <2>2
    <3> QED BY <3>1, <3>2
  <2>7. Payloads(more) = a
    BY <2>2, <2>5, <2>6, SeqEqual
  <2> QED BY <2>1, <2>7
<1>8. HeadsFit(ps) /\ Fits(p) => HeadsFit(more)
  <2>1. SUFFICES ASSUME HeadsFit(ps), Fits(p), NEW i \in 1..(k + 1)
                 PROVE  Fits(more[i])
    BY <1>5 DEF HeadsFit
  <2>2. CASE i \in 1..k
    BY <1>0, <1>5, <2>1, <2>2 DEF HeadsFit
  <2>3. CASE i = k + 1
    BY <1>5, <2>1, <2>3
  <2> QED BY <1>6, <2>2, <2>3
<1> QED BY <1>1, <1>3, <1>4, <1>7, <1>8

LEMMA PongIs ==
  ASSUME NEW p \in Seq(Got)
  PROVE  Pong(p) \in Ponged /\ Pong(p).payload = p /\ Fits(Pong(p))
<1>1. PICK l \in Nat : l = Len(p)
  OBVIOUS
<1>2. PICK flag \in BOOLEAN : flag <=> (endpoint = "client")
  OBVIOUS
<1>3. (endpoint = "client") = flag
  BY <1>2
<1>4. Pong(p) = [head |-> Encoded(l, flag), payload |-> p]
  BY <1>1, <1>3 DEF Pong
<1>5. Encoded(l, flag) \in [ext : {0, 2, 8}, mask : BOOLEAN, plen : Nat]
  <2>1. (IF l < 126 THEN 0 ELSE IF l <= 65535 THEN 2 ELSE 8) \in {0, 2, 8}
    OBVIOUS
  <2> QED BY <2>1 DEF Encoded
<1>6. Encoded(l, flag).plen = l /\ Encoded(l, flag).mask = flag
  BY DEF Encoded
<1> QED BY <1>1, <1>2, <1>4, <1>5, <1>6 DEF Ponged, Fits

(* The completion of a frame that has just been received in full.          *)
LEMMA CompletionAgrees ==
  ASSUME NEW f \in FrameKinds, NEW n \in Nat, f = stream[n],
         NEW st \in StateSet, st.op = f.op, st.section = Payload(f, n),
         NEW meant \in MeantSet, Agrees(st, meant)
  PROVE  /\ DecodeComplete(st, n) \in StateSet
         /\ Agrees(DecodeComplete(st, n), MeantWith(meant, f, n))
         /\ DecodeComplete(st, n).section = <<>>
         /\ \/ DecodeComplete(st, n).op = f.op
            \/ f.op = "ping" /\ DecodeComplete(st, n).op = "pong"
<1>1. PICK p \in Seq(Got) : p = Payload(f, n)
  BY PayloadIs
<1>2. /\ st.op \in Ops /\ st.section \in Seq(Got) /\ st.cache \in Seq(Got) /\ st.out \in Seq(Seq(Got))
      /\ st.pongs \in Seq(Ponged) /\ st.sock \in {"open", "closing", "closed"}
      /\ <<>> \in Seq(Got) /\ st.section = p
  BY <1>1 DEF StateSet
<1>3. /\ meant.pending \in Seq(Got) /\ meant.whole \in Seq(Seq(Got)) /\ meant.pings \in Seq(Seq(Got))
      /\ meant.flooded \in BOOLEAN
  BY DEF MeantSet
<1>4. f.fin \in BOOLEAN /\ f.op \in Ops /\ MaxWsPacket \in Nat \ {0}
  BY OpAssumption, PacketAssumption
<1>5. CASE f.op = "ping"
  <2>1. PICK pong \in Ponged :
          pong = Pong(p) /\ pong.payload = p /\ Fits(pong)
    BY PongIs
  <2>2. PICK op \in {f.op, "pong"} : op = IF endpoint = "client" THEN "pong" ELSE st.op
    OBVIOUS
  <2>3. DecodeComplete(st, n) =
          [st EXCEPT !.pongs = Append(st.pongs, pong), !.op = op, !.section = <<>>]
    <3>1. Complete(st, n) = CompletePing(st)
      BY <1>5 DEF Complete, DataOps
    <3>2. PICK st1 : st1 = CompletePing(st)
      OBVIOUS
    <3>3. st1 = [st EXCEPT !.pongs = Append(st.pongs, pong), !.op = op]
      BY <1>2, <2>1, <2>2, <3>2 DEF CompletePing
    <3>4. DecodeComplete(st, n) = [st1 EXCEPT !.section = <<>>]
      BY <3>1, <3>2 DEF DecodeComplete
    <3> HIDE DEF DecodeComplete
    <3> QED BY <3>3, <3>4 DEF StateSet
  <2>4. Append(st.pongs, pong) \in Seq(Ponged)
    BY <1>2, AppendProperties
  <2>5. "pong" \in Ops /\ op \in Ops
    BY <1>4 DEF Ops
  <2>6. DecodeComplete(st, n) \in StateSet
    BY <1>2, <2>3, <2>4, <2>5 DEF StateSet
  <2>7. MeantWith(meant, f, n) = [meant EXCEPT !.pings = Append(meant.pings, p)]
    BY <1>1, <1>5 DEF MeantWith, DataOps
  <2>8. /\ Payloads(Append(st.pongs, pong)) = Append(Payloads(st.pongs), p)
        /\ Payloads(st.pongs) \in Seq(Seq(Got)) /\ HeadsFit(Append(st.pongs, pong))
    BY <1>2, <2>1, PayloadsAppend DEF Agrees
  <2>9. NonEmpty(Append(Payloads(st.pongs), p)) = NonEmpty(Append(meant.pings, p))
    <3>1. /\ NonEmpty(Append(Payloads(st.pongs), p)) =
               IF p = <<>> THEN NonEmpty(Payloads(st.pongs)) ELSE Append(NonEmpty(Payloads(st.pongs)), p)
      BY <2>8, NonEmptyAppend
    <3>2. NonEmpty(Append(meant.pings, p)) =
               IF p = <<>> THEN NonEmpty(meant.pings) ELSE Append(NonEmpty(meant.pings), p)
      BY <1>3, NonEmptyAppend
    <3>3. NonEmpty(Payloads(st.pongs)) = NonEmpty(meant.pings)
      BY DEF Agrees
    <3> QED BY <3>1, <3>2, <3>3
  <2>10. Len(Append(st.pongs, pong)) >= Len(Append(meant.pings, p))
    <3>1. Len(Append(st.pongs, pong)) = Len(st.pongs) + 1 /\ Len(st.pongs) \in Nat
      BY <1>2, AppendProperties
    <3>2. Len(Append(meant.pings, p)) = Len(meant.pings) + 1 /\ Len(meant.pings) \in Nat
      BY <1>3, AppendProperties
    <3>3. Len(st.pongs) >= Len(meant.pings)
      BY DEF Agrees
    <3> QED BY ONLY <3>1, <3>2, <3>3
  <2>11. PICK st2, m2 : st2 = DecodeComplete(st, n) /\ m2 = MeantWith(meant, f, n)
    OBVIOUS
  <2>12. /\ st2.cache = st.cache /\ st2.out = st.out /\ st2.pongs = Append(st.pongs, pong)
         /\ st2.section = <<>> /\ st2.op = op
    BY <2>3, <2>11 DEF StateSet
  <2>13. /\ m2.flooded = meant.flooded /\ m2.pending = meant.pending /\ m2.whole = meant.whole
         /\ m2.pings = Append(meant.pings, p)
    BY <2>7, <2>11 DEF MeantSet
  <2>14. Agrees(st2, m2)
    BY <2>8, <2>9, <2>10, <2>12, <2>13 DEF Agrees
  <2> QED BY <1>5, <2>6, <2>11, <2>12, <2>14
<1>6. CASE f.op = "close" \/ f.op = "pong"
  <2>1. PICK sk \in {"open", "closing", "closed"} : sk = IF f.op = "close" THEN "closing" ELSE st.sock
    BY <1>2
  <2>2. DecodeComplete(st, n) = [st EXCEPT !.sock = sk, !.section = <<>>]
    BY <1>6, <2>1 DEF DecodeComplete, Complete, CompleteClose, StateSet, DataOps
  <2>3. DecodeComplete(st, n) \in StateSet
    BY <1>2, <2>2 DEF StateSet
  <2>4. MeantWith(meant, f, n) = meant
    BY <1>6 DEF MeantWith, DataOps
  <2>5. PICK st2 : st2 = DecodeComplete(st, n)
    OBVIOUS
  <2>6. /\ st2.cache = st.cache /\ st2.out = st.out /\ st2.pongs = st.pongs
        /\ st2.section = <<>> /\ st2.op = st.op
    BY <2>2, <2>5 DEF StateSet
  <2>7. Agrees(st2, meant)
    BY <2>6 DEF Agrees
  <2> QED BY <2>3, <2>4, <2>5, <2>6, <2>7
<1>7. CASE f.op \in DataOps
  <2>0. meant.pending \o p \in Seq(Got) /\ st.cache \o p \in Seq(Got)
    BY ONLY <1>2, <1>3, p \in Seq(Got), ConcatProperties
  <2>1. PICK unit \in Seq(Got) : unit = meant.pending \o p
    BY ONLY <2>0
  <2>2. PICK kept \in Seq(Got) : kept = IF f.fin THEN st.cache ELSE st.cache \o p
    BY ONLY <1>2, <2>0
  <2>3. st.op # "ping" /\ st.op # "close" /\ st.op \in DataOps /\ f.op # "ping"
    BY <1>7 DEF DataOps
  <2>4. CASE ~f.fin /\ Len(kept) < MaxWsPacket
    <3>1. DecodeComplete(st, n) = [st EXCEPT !.cache = kept, !.section = <<>>]
      BY <1>2, <2>2, <2>3, <2>4 DEF DecodeComplete, Complete, CompleteData, StateSet
    <3>2. DecodeComplete(st, n) \in StateSet
      BY <1>2, <3>1 DEF StateSet
    <3>3. MeantWith(meant, f, n) = [meant EXCEPT !.pending = unit,
                                      !.flooded = meant.flooded \/ Len(unit) >= MaxWsPacket]
      BY <1>1, <1>7, <2>1, <2>3, <2>4 DEF MeantWith
    <3>4. PICK st2, m2 : st2 = DecodeComplete(st, n) /\ m2 = MeantWith(meant, f, n)
      OBVIOUS
    <3>5. /\ st2.cache = kept /\ st2.out = st.out /\ st2.pongs = st.pongs
          /\ st2.section = <<>> /\ st2.op = st.op
      BY <3>1, <3>4 DEF StateSet
    <3>6. /\ m2.pending = unit /\ m2.whole = meant.whole /\ m2.pings = meant.pings
          /\ m2.flooded = (meant.flooded \/ Len(unit) >= MaxWsPacket)
      BY <3>3, <3>4 DEF MeantSet
    <3>7. ~m2.flooded => st2.cache = m2.pending /\ Len(m2.pending) < MaxWsPacket
                         /\ NonEmpty(st2.out) = NonEmpty(m2.whole)
      <4>1. SUFFICES ASSUME ~m2.flooded
                     PROVE  st2.cache = m2.pending /\ Len(m2.pending) < MaxWsPacket
                            /\ NonEmpty(st2.out) = NonEmpty(m2.whole)
        OBVIOUS
      <4>2. ~meant.flooded /\ ~(Len(unit) >= MaxWsPacket)
        BY <3>6, <4>1
      <4>3. st.cache = meant.pending /\ NonEmpty(st.out) = NonEmpty(meant.whole)
        BY <4>2 DEF Agrees
      <4>4. kept = unit
        BY <2>1, <2>2, <2>4, <4>3
      <4> QED BY <2>4, <3>5, <3>6, <4>3, <4>4
    <3>8. Agrees(st2, m2)
      BY <3>5, <3>6, <3>7 DEF Agrees
    <3> QED BY <3>2, <3>4, <3>5, <3>8
  <2>5. CASE ~(~f.fin /\ Len(kept) < MaxWsPacket)
    <3>1. DecodeComplete(st, n) =
            [st EXCEPT !.cache = <<>>, !.out = Append(st.out, kept \o p), !.section = <<>>]
      BY <1>2, <2>2, <2>3, <2>5 DEF DecodeComplete, Complete, CompleteData, StateSet
    <3>2. kept \o p \in Seq(Got) /\ Append(st.out, kept \o p) \in Seq(Seq(Got))
      <4>1. kept \o p \in Seq(Got)
        OBVIOUS
      <4> QED BY <1>2, <4>1, AppendProperties
    <3>3. DecodeComplete(st, n) \in StateSet
      BY <1>2, <3>1, <3>2 DEF StateSet
    <3>4. PICK st2, m2 : st2 = DecodeComplete(st, n) /\ m2 = MeantWith(meant, f, n)
      OBVIOUS
    <3>5. /\ st2.cache = <<>> /\ st2.out = Append(st.out, kept \o p) /\ st2.pongs = st.pongs
          /\ st2.section = <<>> /\ st2.op = st.op
      BY <3>1, <3>4 DEF StateSet
    <3>6. m2.pings = meant.pings
      <4>1. CASE f.fin
        BY <1>7, <2>3, <3>4, <4>1 DEF MeantWith, MeantSet
      <4>2. CASE ~f.fin
        BY <1>7, <2>3, <3>4, <4>2 DEF MeantWith, MeantSet
      <4> QED BY <4>1, <4>2
    <3>7. ASSUME ~m2.flooded
          PROVE  st2.cache = m2.pending /\ Len(m2.pending) < MaxWsPacket
                 /\ NonEmpty(st2.out) = NonEmpty(m2.whole)
      <4>1. CASE ~f.fin
        <5>1. MeantWith(meant, f, n) = [meant EXCEPT !.pending = unit,
                                          !.flooded = meant.flooded \/ Len(unit) >= MaxWsPacket]
          BY <1>1, <1>7, <2>1, <2>3, <4>1 DEF MeantWith
        <5>2. m2.flooded = (meant.flooded \/ Len(unit) >= MaxWsPacket)
          BY <3>4, <5>1 DEF MeantSet
        <5>3. ~meant.flooded /\ ~(Len(unit) >= MaxWsPacket)
          BY <3>7, <5>2
        <5>4. kept = unit
          BY <2>1, <2>2, <4>1, <5>3 DEF Agrees
        <5>5. ~(Len(kept) < MaxWsPacket) /\ Len(kept) \in Nat
          BY <2>5, <4>1
        <5> QED BY <1>4, <5>3, <5>4, <5>5
      <4>2. CASE f.fin
        <5>1. MeantWith(meant, f, n) = [meant EXCEPT !.pending = <<>>, !.whole = Append(meant.whole, unit)]
          BY <1>1, <1>7, <2>1, <2>3, <4>2 DEF MeantWith
        <5>2. m2.flooded = meant.flooded /\ m2.pending = <<>> /\ m2.whole = Append(meant.whole, unit)
          BY <3>4, <5>1 DEF MeantSet
        <5>3. st.cache = meant.pending /\ NonEmpty(st.out) = NonEmpty(meant.whole)
          BY <3>7, <5>2 DEF Agrees
        <5>4. kept \o p = unit
          BY <2>1, <2>2, <4>2, <5>3
        <5>5. NonEmpty(Append(st.out, unit)) =
                IF unit = <<>> THEN NonEmpty(st.out) ELSE Append(NonEmpty(st.out), unit)
          BY <1>2, NonEmptyAppend
        <5>6. NonEmpty(Append(meant.whole, unit)) =
                IF unit = <<>> THEN NonEmpty(meant.whole) ELSE Append(NonEmpty(meant.whole), unit)
          BY <1>3, NonEmptyAppend
        <5>7. NonEmpty(st2.out) = NonEmpty(m2.whole)
          BY <3>5, <5>2, <5>3, <5>4, <5>5, <5>6
        <5>8. Len(<<>>) = 0 /\ 0 < MaxWsPacket
          BY <1>4
        <5> QED BY <3>5, <5>2, <5>7, <5>8
      <4> QED BY <4>1, <4>2
    <3>8. Agrees(st2, m2)
      BY <3>5, <3>6, <3>7 DEF Agrees
    <3> QED BY <3>3, <3>4, <3>5, <3>8
  <2> QED BY <2>4, <2>5
<1> QED BY <1>4, <1>5, <1>6, <1>7 DEF Ops

(* An empty frame is completed a second time, by its payload's code.       *)
LEMMA AgainAgrees ==
  ASSUME NEW f \in FrameKinds, NEW n \in Nat, f = stream[n],
         NEW st \in StateSet, st.section = <<>>,
         st.op = f.op \/ (f.op = "ping" /\ st.op = "pong"),
         NEW meant \in MeantSet, Agrees(st, meant),
         f.op \in DataOps /\ f.fin => meant.pending = <<>>
  PROVE  /\ DecodeComplete(st, n) \in StateSet
         /\ Agrees(DecodeComplete(st, n), meant)
<1>1. /\ st.op \in Ops /\ st.section \in Seq(Got) /\ st.cache \in Seq(Got) /\ st.out \in Seq(Seq(Got))
      /\ st.pongs \in Seq(Ponged) /\ st.sock \in {"open", "closing", "closed"}
      /\ <<>> \in Seq(Got)
  BY DEF StateSet
<1>2. meant.pending \in Seq(Got) /\ meant.pings \in Seq(Seq(Got)) /\ meant.flooded \in BOOLEAN
  BY DEF MeantSet
<1>3. f.fin \in BOOLEAN /\ f.op \in Ops /\ MaxWsPacket \in Nat \ {0}
  BY OpAssumption, PacketAssumption
<1>4. PICK st2 : st2 = DecodeComplete(st, n)
  OBVIOUS
<1>5. CASE st.op = "ping"
  <2>1. PICK pong \in Ponged :
          pong = Pong(<<>>) /\ pong.payload = <<>> /\ Fits(pong)
    BY <1>1, PongIs
  <2>2. PICK op \in {st.op, "pong"} : op = IF endpoint = "client" THEN "pong" ELSE st.op
    OBVIOUS
  <2>3. st2 = [st EXCEPT !.pongs = Append(st.pongs, pong), !.op = op, !.section = <<>>]
    <3>1. Complete(st, n) = CompletePing(st)
      BY <1>5 DEF Complete, DataOps
    <3>2. PICK st1 : st1 = CompletePing(st)
      OBVIOUS
    <3>3. st1 = [st EXCEPT !.pongs = Append(st.pongs, pong), !.op = op]
      BY <1>1, <2>1, <2>2, <3>2 DEF CompletePing
    <3>4. st2 = [st1 EXCEPT !.section = <<>>]
      BY <1>4, <3>1, <3>2 DEF DecodeComplete
    <3> QED BY <3>3, <3>4 DEF StateSet
  <2>4. Append(st.pongs, pong) \in Seq(Ponged) /\ Len(Append(st.pongs, pong)) = Len(st.pongs) + 1
    BY <1>1, AppendProperties
  <2>5. st2 \in StateSet
    <3>1. "pong" \in Ops /\ op \in Ops
      BY <1>1 DEF Ops
    <3> QED BY <1>1, <2>3, <2>4, <3>1 DEF StateSet
  <2>6. st2.cache = st.cache /\ st2.out = st.out /\ st2.pongs = Append(st.pongs, pong)
    BY <2>3 DEF StateSet
  <2>7. /\ Payloads(Append(st.pongs, pong)) = Append(Payloads(st.pongs), <<>>)
        /\ Payloads(st.pongs) \in Seq(Seq(Got)) /\ HeadsFit(Append(st.pongs, pong))
    BY <1>1, <2>1, PayloadsAppend DEF Agrees
  <2>8. NonEmpty(Append(Payloads(st.pongs), <<>>)) = NonEmpty(Payloads(st.pongs))
    BY <1>1, <2>7, NonEmptyAppend
  <2>9. Len(st2.pongs) >= Len(meant.pings)
    <3>1. Len(st.pongs) >= Len(meant.pings) /\ Len(st.pongs) \in Nat /\ Len(meant.pings) \in Nat
      BY <1>1, <1>2 DEF Agrees
    <3> QED BY <2>4, <2>6, <3>1
  <2>10. Agrees(st2, meant)
    BY <2>6, <2>7, <2>8, <2>9 DEF Agrees
  <2> QED BY <1>4, <2>5, <2>10
<1>6. CASE st.op = "close" \/ st.op = "pong"
  <2>1. PICK sk \in {"open", "closing", "closed"} : sk = IF st.op = "close" THEN "closing" ELSE st.sock
    BY <1>1
  <2>2. st2 = [st EXCEPT !.sock = sk, !.section = <<>>]
    BY <1>4, <1>6, <2>1 DEF DecodeComplete, Complete, CompleteClose, StateSet, DataOps
  <2>3. st2 \in StateSet
    BY <1>1, <2>2 DEF StateSet
  <2>4. st2.cache = st.cache /\ st2.out = st.out /\ st2.pongs = st.pongs
    BY <2>2 DEF StateSet
  <2>5. Agrees(st2, meant)
    BY <2>4 DEF Agrees
  <2> QED BY <1>4, <2>3, <2>5
<1>7. CASE st.op \in DataOps
  <2>0. st.cache \o <<>> = st.cache
    BY ONLY <1>1, ConcatEmptySeq
  <2>1. f.op = st.op /\ st.op # "ping" /\ st.op # "close"
    BY <1>7 DEF DataOps
  <2>2. CASE ~f.fin /\ Len(st.cache) < MaxWsPacket
    <3>1. st2 = [st EXCEPT !.cache = st.cache, !.section = <<>>]
      BY <1>1, <1>4, <1>7, <2>0, <2>1, <2>2 DEF DecodeComplete, Complete, CompleteData, StateSet
    <3>2. st2 \in StateSet
      BY <1>1, <3>1 DEF StateSet
    <3>3. st2.cache = st.cache /\ st2.out = st.out /\ st2.pongs = st.pongs
      BY <3>1 DEF StateSet
    <3>4. Agrees(st2, meant)
      BY <3>3 DEF Agrees
    <3> QED BY <1>4, <3>2, <3>4
  <2>3. CASE ~(~f.fin /\ Len(st.cache) < MaxWsPacket)
    <3>1. st2 = [st EXCEPT !.cache = <<>>, !.out = Append(st.out, st.cache), !.section = <<>>]
      BY <1>1, <1>4, <1>7, <2>0, <2>1, <2>3 DEF DecodeComplete, Complete, CompleteData, StateSet
    <3>2. st2 \in StateSet
      <4>1. Append(st.out, st.cache) \in Seq(Seq(Got))
        BY <1>1, AppendProperties
      <4> QED BY <1>1, <3>1, <4>1 DEF StateSet
    <3>3. st2.cache = <<>> /\ st2.out = Append(st.out, st.cache) /\ st2.pongs = st.pongs
      BY <3>1 DEF StateSet
    <3>4. ASSUME ~meant.flooded
          PROVE  /\ st2.cache = meant.pending /\ Len(meant.pending) < MaxWsPacket
                 /\ NonEmpty(st2.out) = NonEmpty(meant.whole)
      <4>1. /\ st.cache = meant.pending /\ Len(meant.pending) < MaxWsPacket
            /\ NonEmpty(st.out) = NonEmpty(meant.whole)
        BY <3>4 DEF Agrees
      <4>2. f.fin
        BY <2>3, <4>1
      <4>3. meant.pending = <<>>
        BY <1>7, <2>1, <4>2
      <4>4. NonEmpty(Append(st.out, <<>>)) = NonEmpty(st.out)
        BY <1>1, NonEmptyAppend
      <4> QED BY <3>3, <4>1, <4>3, <4>4
    <3>5. Agrees(st2, meant)
      BY <3>3, <3>4 DEF Agrees
    <3> QED BY <1>4, <3>2, <3>5
  <2> QED BY <2>2, <2>3
<1> QED BY <1>1, <1>5, <1>6, <1>7 DEF Ops

(***************************************************************************)
(* The endpoint's invariant, above the decoder's.                          *)
(***************************************************************************)
(* The payload that has come so far; an empty PING that the client has     *)
(* answered has become a PONG.                                             *)
FrameInHand ==
  /\ _payload_section = SubSeq(Payload(stream[cur], cur), 1, _payload_offset)
  /\ \/ _opcode = stream[cur].op
     \/ stream[cur].plen = 0 /\ stream[cur].op = "ping" /\ _opcode = "pong"

MessageInv ==
  /\ State \in StateSet
  /\ Agrees(State, Meant)
  /\ _got_header => FrameInHand

LEMMA BecomesIs ==
  ASSUME NEW st \in StateSet, Becomes(st)
  PROVE  State' = st /\ endpoint' = endpoint
BY DEF Becomes, State, StateSet

(* The endpoint is the same one throughout.                                *)
LEMMA AgreesThen ==
  ASSUME endpoint' = endpoint, Agrees(State', Meant')
  PROVE  Agrees(State, Meant)'
BY DEF Agrees, Payloads, HeadsFit, Fits

(* The bytes of one call go on where the payload stood, each with its own  *)
(* byte of the key.                                                        *)
LEMMA UnmaskedIs ==
  ASSUME DecoderInv, pc = "payload"
  PROVE  /\ Unmasked(SubSeq(data, 1, Slice)) \in Seq(Got)
         /\ SubSeq(Payload(stream[cur], cur), 1, _payload_offset) \o Unmasked(SubSeq(data, 1, Slice))
              = SubSeq(Payload(stream[cur], cur), 1, _payload_offset + Slice)
<1>0. PICK f, n, h, l, off, k, m, start :
        /\ f = stream[cur] /\ n = cur /\ h = HeaderLen(f) /\ l = f.plen
        /\ off = _payload_offset /\ k = Slice /\ m = _mask_offset /\ start = Start[cur]
  OBVIOUS
<1>1. /\ AtPayload /\ InFrame /\ DecoderTypes
      /\ k \in Nat /\ k <= Len(data) /\ k <= l - off /\ l \in Nat /\ off \in Nat
      /\ Len(data) \in Nat /\ sent = Position + Len(data) /\ Position \in Nat
  BY <1>0, SliceIs DEF DecoderTypes
<1>2. /\ n \in 1..Len(stream) /\ n \in Nat /\ f \in FrameKinds /\ h \in Nat /\ start \in Nat
      /\ m = IF f.mask THEN off % 4 ELSE 0
      /\ Position = start + h + off
  <2>1. n \in 1..Len(stream) /\ m = IF f.mask THEN off % 4 ELSE 0
    BY <1>0, <1>1 DEF InFrame
  <2>2. f \in FrameKinds /\ h \in Nat /\ start \in Nat /\ HeaderEnd(n) = start + h
    BY <1>0, <1>1, <2>1, BytesInPlace
  <2>3. Position = HeaderEnd(n) + off
    BY <1>0, <1>1, PositionIs DEF AtPayload
  <2> QED BY <2>1, <2>2, <2>3, BytesInPlace, <1>1
<1>3. PICK p \in Seq(Got) :
        /\ p = Payload(f, n) /\ Len(p) = l
        /\ \A i \in 1..l : p[i] = [byte |-> [frame |-> n, at |-> h + i],
                                   key  |-> IF f.mask THEN (i - 1) % 4 ELSE 0]
  <2>1. /\ Payload(f, n) \in Seq(Got) /\ Len(Payload(f, n)) = f.plen
        /\ \A i \in 1..f.plen :
             Payload(f, n)[i] = [byte |-> [frame |-> n, at |-> HeaderLen(f) + i],
                                 key  |-> IF f.mask THEN (i - 1) % 4 ELSE 0]
    BY <1>2, PayloadIs
  <2>2. l = f.plen /\ h = HeaderLen(f)
    BY <1>0
  <2>3. PICK q : q = Payload(f, n)
    OBVIOUS
  <2>4. /\ q \in Seq(Got) /\ q = Payload(f, n) /\ Len(q) = l
        /\ \A i \in 1..l : q[i] = [byte |-> [frame |-> n, at |-> h + i],
                                   key  |-> IF f.mask THEN (i - 1) % 4 ELSE 0]
    BY <2>1, <2>2, <2>3
  <2> QED BY ONLY <2>4
<1>4. PICK slice : slice = SubSeq(data, 0 + 1, k)
  OBVIOUS
<1>5. /\ data \in Seq(Byte) /\ \A i \in 1..Len(data) : data[i] = Bytes[Position + i]
  <2>1. Position <= sent /\ sent - Position = Len(data)
    BY <1>1
  <2> QED BY <1>1, <2>1, BehindIs DEF AtPayload
<1>6. slice \in Seq(Byte) /\ Len(slice) = k /\ \A i \in 1..k : slice[i] = data[0 + i]
  <2>1. k - 0 = k /\ 0 <= k /\ 0 \in Nat
    BY <1>1
  <2> QED BY <1>1, <1>4, <1>5, <2>1, Cut
<1>7. PICK part : part = SubSeq(p, off + 1, off + k)
  OBVIOUS
<1>8. part \in Seq(Got) /\ Len(part) = k /\ \A i \in 1..k : part[i] = p[off + i]
  <2>1. off + k \in Nat /\ off <= off + k /\ off + k <= Len(p) /\ (off + k) - off = k
    BY <1>1, <1>3
  <2> QED BY <1>1, <1>7, <2>1, Cut
<1>9. ASSUME NEW i \in 1..k
      PROVE  slice[i] = [frame |-> n, at |-> h + (off + i)]
  <2>1. i \in 1..Len(data) /\ 0 + i = i /\ off + i \in 1..l
    BY <1>1
  <2>2. slice[i] = Bytes[Position + i]
    BY <1>5, <1>6, <2>1
  <2>3. FrameLen(f) = h + l
    BY <1>0, <1>2, FrameLens
  <2>4. h + (off + i) \in 1..FrameLen(f)
    BY <1>1, <1>2, <2>1, <2>3
  <2>5. Bytes[start + (h + (off + i))] = [frame |-> n, at |-> h + (off + i)]
    BY <1>0, <1>1, <1>2, <2>4, BytesInPlace DEF StreamFacts
  <2>6. Position + i = start + (h + (off + i))
    BY <1>1, <1>2
  <2> QED BY <2>2, <2>5, <2>6
<1>10. Unmasked(slice) =
         [i \in 1..k |-> [byte |-> slice[i], key |-> IF f.mask THEN (i - 1 + m) % 4 ELSE 0]]
  BY <1>0, <1>6 DEF Unmasked
<1>11. ASSUME NEW i \in 1..k
       PROVE  [byte |-> slice[i], key |-> IF f.mask THEN (i - 1 + m) % 4 ELSE 0] = part[i]
  <2>1. off + i \in 1..l
    BY <1>1
  <2>2. part[i] = [byte |-> [frame |-> n, at |-> h + (off + i)],
                   key  |-> IF f.mask THEN ((off + i) - 1) % 4 ELSE 0]
    BY <1>3, <1>8, <2>1
  <2>3. (i - 1 + (off % 4)) % 4 = ((off + i) - 1) % 4
    BY <1>1
  <2>4. (IF f.mask THEN (i - 1 + m) % 4 ELSE 0) = (IF f.mask THEN ((off + i) - 1) % 4 ELSE 0)
    BY <1>2, <2>3
  <2> QED BY <1>9, <2>2, <2>4
<1>12. Unmasked(slice) = part
  <2>1. Unmasked(slice) = [i \in 1..k |-> part[i]]
    BY <1>10, <1>11
  <2>2. part = [i \in 1..k |-> part[i]]
    BY <1>8
  <2> QED BY <2>1, <2>2
<1>13. SubSeq(p, 0 + 1, off) \o part = SubSeq(p, 0 + 1, off + k)
  <2>1. 0 \in Nat /\ off + k \in Nat /\ 0 <= off /\ off <= off + k /\ off + k <= Len(p)
    BY <1>1, <1>3
  <2>2. SubSeq(p, 0 + 1, off) \o SubSeq(p, off + 1, off + k) = SubSeq(p, 0 + 1, off + k)
    BY ONLY <1>1, <2>1, p \in Seq(Got), CutJoin
  <2> QED BY <1>7, <2>2
<1>14. 0 + 1 = 1
  OBVIOUS
<1>15. Unmasked(SubSeq(data, 1, Slice)) = part
  BY <1>0, <1>4, <1>12, <1>14
<1>16. SubSeq(Payload(stream[cur], cur), 1, _payload_offset) = SubSeq(p, 0 + 1, off)
  BY <1>0, <1>3, <1>14
<1>17. SubSeq(Payload(stream[cur], cur), 1, _payload_offset + Slice) = SubSeq(p, 0 + 1, off + k)
  BY <1>0, <1>3, <1>14
<1> QED BY ONLY <1>8, <1>13, <1>15, <1>16, <1>17

LEMMA MessageStart == MsgInit => MessageInv
<1> SUFFICES ASSUME MsgInit PROVE MessageInv
  OBVIOUS
<1>1. /\ completed = <<>> /\ _got_header = FALSE /\ _opcode = "text" /\ _payload_section = <<>>
      /\ _payload_cache = <<>> /\ messages = <<>> /\ pongs = <<>> /\ sock = "open"
  BY DEF MsgInit, Init
<1>2. stream \in Seq(FrameKinds)
  BY DecoderStart DEF MsgInit, DecoderInv, DecoderTypes
<1>3. Meant = NoneMeant
  <2>1. Done = 0
    BY <1>1 DEF Done
  <2> QED BY <1>2, <2>1, MeantByIs DEF Meant
<1>4. State = [op |-> "text", section |-> <<>>, cache |-> <<>>, out |-> <<>>,
               pongs |-> <<>>, sock |-> "open"]
  BY <1>1 DEF State
<1>5. State \in StateSet
  <2>1. <<>> \in Seq(Got) /\ <<>> \in Seq(Seq(Got)) /\ <<>> \in Seq(Ponged)
    OBVIOUS
  <2>2. "text" \in Ops
    BY DEF Ops, DataOps
  <2> QED BY <1>4, <2>1, <2>2 DEF StateSet
<1>6. Payloads(<<>>) = <<>> /\ HeadsFit(<<>>)
  BY DEF Payloads, HeadsFit
<1>7. 0 < MaxWsPacket
  BY PacketAssumption
<1>8. PICK st : st = State
  OBVIOUS
<1>9. st.cache = <<>> /\ st.out = <<>> /\ st.pongs = <<>>
  BY <1>4, <1>8
<1>10. Agrees(st, NoneMeant)
  BY <1>6, <1>7, <1>9 DEF Agrees, NoneMeant
<1> QED BY <1>1, <1>3, <1>5, <1>8, <1>10 DEF MessageInv

(* A step that completes no frame and passes on no byte.                   *)
LEMMA UntouchedKeeps ==
  ASSUME MessageInv, stream' = stream, completed' = completed, _got_header' = _got_header,
         cur' = cur, _payload_offset' = _payload_offset, _opcode' = _opcode,
         _payload_section' = _payload_section, _payload_cache' = _payload_cache,
         messages' = messages, pongs' = pongs, endpoint' = endpoint, sock' \in {sock, "closed"}
  PROVE  MessageInv'
<1>1. Meant' = Meant
  BY DEF Meant, Done
<1>2. State' = [State EXCEPT !.sock = sock']
  BY DEF State
<1>3. State' \in StateSet
  <2>1. State.sock = sock /\ State \in StateSet
    BY DEF State, MessageInv
  <2>2. sock' \in {"open", "closing", "closed"}
    BY <2>1 DEF StateSet
  <2> QED BY <1>2, <2>1, <2>2 DEF StateSet
<1>4. Agrees(State', Meant)
  <2>1. PICK st, st2 : st = State /\ st2 = State'
    OBVIOUS
  <2>2. st2.cache = st.cache /\ st2.out = st.out /\ st2.pongs = st.pongs /\ Agrees(st, Meant)
    BY <2>1 DEF State, MessageInv
  <2> QED BY <2>1, <2>2 DEF Agrees
<1>5. (_got_header => FrameInHand)'
  BY DEF MessageInv, FrameInHand
<1>6. Agrees(State, Meant)'
  BY <1>1, <1>4, AgreesThen
<1> QED BY <1>3, <1>5, <1>6 DEF MessageInv

(* The frame that has just been completed is meant, too.                   *)
LEMMA MeantNext ==
  ASSUME DecoderTypes, NEW n \in 1..Len(stream)
  PROVE  /\ MeantBy(stream)[n] = MeantWith(MeantBy(stream)[n-1], stream[n], n)
         /\ MeantBy(stream)[n-1] \in MeantSet /\ MeantBy(stream)[n] \in MeantSet
<1>1. stream \in Seq(FrameKinds) /\ Len(stream) \in Nat
  BY BytesInPlace DEF DecoderTypes
<1>2. n \in 0..Len(stream) /\ n - 1 \in 0..Len(stream)
  BY <1>1
<1> QED BY <1>1, <1>2, MeantByIs

LEMMA DecodeHeaderKeeps ==
  ASSUME DecoderInv, MessageInv, DecodeHeader
  PROVE  MessageInv'
<1>0. PICK n, f : n = Done + 1 /\ f = stream[n]
  OBVIOUS
<1>1. /\ HeaderRead /\ DecoderTypes
      /\ n \in 1..Len(stream) /\ n \in Nat /\ cur' = n /\ f \in FrameKinds /\ f.plen \in Nat /\ Done \in Nat
  <2>1. HeaderRead /\ DecoderTypes
    BY DEF DecodeHeader, DecoderInv
  <2>2. n \in 1..Len(stream) /\ cur' = n /\ Done \in Nat
    BY <1>0, <2>1, HeaderReadKeeps DEF DecoderTypes
  <2> QED BY <1>0, <2>1, <2>2, BytesInPlace
<1>2. /\ stream' = stream /\ _payload_offset' = 0 /\ _got_header' = TRUE
      /\ completed' = IF f.plen = 0 THEN Append(completed, n) ELSE completed
  <2>1. Head(data).frame = n
    BY <1>0, <1>1, HeadIsNext DEF HeaderRead, DecoderInv
  <2> QED BY <1>0, <1>1, <2>1 DEF HeaderRead
<1>3. PICK st : st = [State EXCEPT !.op = f.op, !.section = <<>>]
  OBVIOUS
<1>4. PICK st0 \in StateSet, m0 \in MeantSet : st0 = State /\ m0 = Meant /\ Agrees(st0, m0)
  <2>1. Meant \in MeantSet
    BY <1>1, MeantByIs DEF Meant, DecoderTypes
  <2> QED BY <2>1 DEF MessageInv
<1>5. st \in StateSet /\ st.op = f.op /\ st.section = <<>>
  <2>1. f.op \in Ops /\ <<>> \in Seq(Got)
    BY <1>1, OpAssumption
  <2> QED BY <1>3, <1>4, <2>1 DEF StateSet
<1>6. Agrees(st, m0)
  <2>1. st.cache = st0.cache /\ st.out = st0.out /\ st.pongs = st0.pongs
    BY <1>3, <1>4 DEF StateSet
  <2> QED BY <1>4, <2>1 DEF Agrees
<1>7. Becomes(IF f.plen = 0 THEN DecodeComplete(st, n) ELSE st)
  BY <1>0, <1>1, <1>3 DEF DecodeHeader
<1>8. PICK p \in Seq(Got) : p = Payload(f, n) /\ Len(p) = f.plen
  BY <1>1, PayloadIs
<1>9. SubSeq(p, 1, 0) = <<>>
  BY <1>8
<1>10. CASE f.plen = 0
  <2>1. Done' = n
    BY <1>0, <1>1, <1>2, <1>10, MoreCompleted
  <2>2. st.section = Payload(f, n)
    BY <1>5, <1>8, <1>10
  <2>3. PICK st2 : st2 = DecodeComplete(st, n)
    OBVIOUS
  <2>4. /\ st2 \in StateSet /\ Agrees(st2, MeantWith(m0, f, n)) /\ st2.section = <<>>
        /\ st2.op = f.op \/ (f.op = "ping" /\ st2.op = "pong")
    BY <1>0, <1>1, <1>4, <1>5, <1>6, <2>2, <2>3, CompletionAgrees
  <2>5. State' = st2 /\ endpoint' = endpoint
    BY <1>7, <1>10, <2>3, <2>4, BecomesIs
  <2>6. Meant' = MeantWith(m0, f, n)
    <3>1. Meant' = MeantBy(stream)[n]
      BY <1>2, <2>1 DEF Meant
    <3>2. m0 = MeantBy(stream)[n-1]
      <4>1. n - 1 = Done
        BY <1>0, <1>1
      <4> QED BY <1>4, <4>1 DEF Meant
    <3> QED BY <1>0, <1>1, <3>1, <3>2, MeantNext
  <2>7. Agrees(State, Meant)'
    <3>1. Agrees(State', Meant')
      BY <2>4, <2>5, <2>6
    <3> QED BY <3>1, <2>5, AgreesThen
  <2>8. FrameInHand'
    <3>1. _opcode' = st2.op /\ _payload_section' = <<>>
      BY <2>4, <2>5 DEF State
    <3>2. stream'[cur'] = f /\ Payload(stream'[cur'], cur') = p /\ _payload_offset' = 0
      BY <1>0, <1>1, <1>2, <1>8
    <3>3. Payload(stream[cur], cur)' = p
      BY <3>2 DEF Payload, HeaderLen
    <3> QED BY <1>9, <1>10, <2>4, <3>1, <3>2, <3>3 DEF FrameInHand
  <2> QED BY <2>4, <2>5, <2>7, <2>8 DEF MessageInv
<1>11. CASE f.plen # 0
  <2>1. Meant' = m0
    BY <1>2, <1>4, <1>11 DEF Meant, Done
  <2>2. State' = st /\ endpoint' = endpoint
    BY <1>5, <1>7, <1>11, BecomesIs
  <2>3. Agrees(State, Meant)'
    <3>1. Agrees(State', Meant')
      BY <1>6, <2>1, <2>2
    <3> QED BY <3>1, <2>2, AgreesThen
  <2>4. FrameInHand'
    <3>1. _opcode' = f.op /\ _payload_section' = <<>>
      BY <1>5, <2>2 DEF State
    <3>2. stream'[cur'] = f /\ _payload_offset' = 0
      BY <1>0, <1>1, <1>2
    <3>3. Payload(stream[cur], cur)' = p
      BY <1>1, <1>8, <3>2 DEF Payload, HeaderLen
    <3> QED BY <1>9, <3>1, <3>2, <3>3 DEF FrameInHand
  <2> QED BY <1>5, <2>2, <2>3, <2>4 DEF MessageInv
<1> QED BY <1>10, <1>11

(* The endpoint's state with the bytes of one more call.                   *)
LEMMA WithPayloadIs ==
  ASSUME DecoderInv, MessageInv, pc = "payload"
  PROVE  /\ WithPayload \in StateSet
         /\ WithPayload.op = _opcode
         /\ WithPayload.section = SubSeq(Payload(stream[cur], cur), 1, _payload_offset + Slice)
         /\ Agrees(WithPayload, Meant)
         /\ FrameInHand
<1>0. PICK more \in Seq(Got) : more = Unmasked(SubSeq(data, 1, Slice))
  <2>1. Unmasked(SubSeq(data, 1, Slice)) \in Seq(Got)
    BY UnmaskedIs
  <2> QED BY <2>1
<1>1. FrameInHand
  BY DEF DecoderInv, AtPayload, MessageInv
<1>2. PICK st \in StateSet : st = State /\ Agrees(st, Meant)
  BY DEF MessageInv
<1>3. st.section = _payload_section /\ st.op = _opcode /\ st.section \in Seq(Got)
  BY <1>2 DEF State, StateSet
<1>4. PICK st2 : st2 = [st EXCEPT !.section = st.section \o more]
  OBVIOUS
<1>5. WithPayload = st2
  BY <1>0, <1>2, <1>4 DEF WithPayload, StateSet
<1>6. st.section \o more \in Seq(Got)
  BY <1>3, ConcatProperties
<1>7. /\ st2 \in StateSet /\ st2.op = st.op /\ st2.section = st.section \o more
      /\ st2.cache = st.cache /\ st2.out = st.out /\ st2.pongs = st.pongs
  BY <1>4, <1>6 DEF StateSet
<1>8. st2.section = SubSeq(Payload(stream[cur], cur), 1, _payload_offset + Slice)
  BY <1>0, <1>1, <1>3, <1>7, UnmaskedIs DEF FrameInHand
<1>9. Agrees(st2, Meant)
  BY <1>2, <1>7 DEF Agrees
<1> QED BY <1>1, <1>3, <1>5, <1>7, <1>8, <1>9

LEMMA DecodePayloadKeeps ==
  ASSUME DecoderInv, MessageInv, DecodePayload
  PROVE  MessageInv'
<1>1. /\ pc = "payload" /\ Becomes(WithPayload) /\ _payload_offset' = _payload_offset + Slice
      /\ stream' = stream /\ completed' = completed /\ cur' = cur
  BY DEF DecodePayload, PayloadPart, PassPayload
<1>2. PICK st \in StateSet :
        /\ st = WithPayload /\ st.op = _opcode /\ Agrees(st, Meant)
        /\ st.section = SubSeq(Payload(stream[cur], cur), 1, _payload_offset + Slice)
  BY <1>1, WithPayloadIs
<1>3. State' = st /\ endpoint' = endpoint
  BY <1>1, <1>2, BecomesIs
<1>4. Meant' = Meant
  BY <1>1 DEF Meant, Done
<1>5. Agrees(State, Meant)'
  <2>1. Agrees(State', Meant')
    BY <1>2, <1>3, <1>4
  <2> QED BY <2>1, <1>3, AgreesThen
<1>6. FrameInHand'
  <2>1. _opcode' = _opcode /\ _payload_section' = st.section
    BY <1>2, <1>3 DEF State
  <2>2. Payload(stream[cur], cur)' = Payload(stream[cur], cur)
    BY <1>1 DEF Payload, HeaderLen
  <2>3. FrameInHand
    BY <1>1, WithPayloadIs
  <2> QED BY <1>1, <1>2, <2>1, <2>2, <2>3 DEF FrameInHand
<1> QED BY <1>2, <1>3, <1>5, <1>6 DEF MessageInv

LEMMA DecodeEndKeeps ==
  ASSUME DecoderInv, MessageInv, DecodeEnd
  PROVE  MessageInv'
<1>0. PICK n, f : n = cur /\ f = stream[cur]
  OBVIOUS
<1>1. /\ pc = "payload" /\ Becomes(DecodeComplete(WithPayload, n)) /\ _payload_offset + Slice = f.plen
      /\ stream' = stream /\ completed' = Append(completed, n) /\ _got_header' = FALSE
  BY <1>0 DEF DecodeEnd, PayloadEnd, PassPayload
<1>2. /\ DecoderTypes /\ InFrame /\ FrameInHand /\ n \in 1..Len(stream) /\ n \in Nat
      /\ f \in FrameKinds /\ f.plen \in Nat /\ _payload_offset \in Nat /\ Slice \in Nat
  <2>1. DecoderTypes /\ InFrame /\ FrameInHand /\ Slice \in Nat
    BY <1>1, SliceIs, WithPayloadIs
  <2>2. n \in 1..Len(stream) /\ _payload_offset \in Nat
    BY <1>0, <2>1 DEF InFrame, DecoderTypes
  <2> QED BY <1>0, <2>1, <2>2, BytesInPlace
<1>3. PICK st \in StateSet :
        /\ st = WithPayload /\ st.op = _opcode /\ Agrees(st, Meant)
        /\ st.section = SubSeq(Payload(f, n), 1, f.plen)
  BY <1>0, <1>1, WithPayloadIs
<1>4. PICK p \in Seq(Got) : p = Payload(f, n) /\ Len(p) = f.plen
  BY <1>2, PayloadIs
<1>5. st.section = p
  <2>1. SubSeq(p, 1, Len(p)) = p
    BY SubSeqFull
  <2> QED BY <1>3, <1>4, <2>1
<1>6. PICK st2 : st2 = DecodeComplete(st, n)
  OBVIOUS
<1>7. Becomes(st2)
  BY <1>1, <1>3, <1>6
<1>8. PICK m0 \in MeantSet : m0 = Meant
  <2>1. Meant \in MeantSet
    BY <1>2, MeantByIs DEF Meant, DecoderTypes
  <2> QED BY <2>1
<1>9. Done' = n
  BY <1>0, <1>1, <1>2, MoreCompleted DEF InFrame
<1>10. Meant' = MeantBy(stream)[n]
  BY <1>1, <1>9 DEF Meant
<1>11. CASE f.plen # 0
  <2>1. n = Done + 1 /\ st.op = f.op
    BY <1>0, <1>2, <1>3, <1>11 DEF InFrame, FrameInHand
  <2>2. st2 \in StateSet /\ Agrees(st2, MeantWith(m0, f, n))
    BY <1>0, <1>2, <1>3, <1>4, <1>5, <1>6, <1>8, <2>1, CompletionAgrees
  <2>3. MeantBy(stream)[n] = MeantWith(m0, f, n)
    <3>1. n - 1 = Done
      BY <1>2, <2>1 DEF DecoderTypes
    <3> QED BY <1>0, <1>2, <1>8, <3>1, MeantNext DEF Meant
  <2>4. State' = st2 /\ endpoint' = endpoint
    BY <1>7, <2>2, BecomesIs
  <2>5. Agrees(State, Meant)'
    <3>1. Agrees(State', Meant')
      BY <1>10, <2>2, <2>3, <2>4
    <3> QED BY <3>1, <2>4, AgreesThen
  <2> QED BY <1>1, <2>2, <2>4, <2>5 DEF MessageInv
<1>12. CASE f.plen = 0
  <2>1. n = Done /\ (st.op = f.op \/ (f.op = "ping" /\ st.op = "pong"))
    BY <1>0, <1>2, <1>3, <1>12 DEF InFrame, FrameInHand
  <2>2. st.section = <<>>
    BY <1>4, <1>5, <1>12
  <2>3. m0 = MeantBy(stream)[n]
    BY <1>8, <2>1 DEF Meant
  <2>4. f.op \in DataOps /\ f.fin => m0.pending = <<>>
    <3>1. SUFFICES ASSUME f.op \in DataOps, f.fin PROVE m0.pending = <<>>
      OBVIOUS
    <3>2. PICK before \in MeantSet : before = MeantBy(stream)[n-1] /\ m0 = MeantWith(before, f, n)
      BY <1>0, <1>2, <2>3, MeantNext
    <3>3. f.op # "ping"
      BY <3>1 DEF DataOps
    <3>4. m0 = [before EXCEPT !.pending = <<>>,
                              !.whole = Append(before.whole, before.pending \o Payload(f, n))]
      BY <3>1, <3>2, <3>3 DEF MeantWith
    <3> QED BY <3>4 DEF MeantSet
  <2>5. st2 \in StateSet /\ Agrees(st2, m0)
    BY <1>0, <1>2, <1>3, <1>6, <1>8, <2>1, <2>2, <2>4, AgainAgrees
  <2>6. State' = st2 /\ endpoint' = endpoint
    BY <1>7, <2>5, BecomesIs
  <2>7. Agrees(State, Meant)'
    <3>1. Agrees(State', Meant')
      BY <1>10, <2>3, <2>5, <2>6
    <3> QED BY <3>1, <2>6, AgreesThen
  <2> QED BY <1>1, <2>5, <2>6, <2>7 DEF MessageInv
<1> QED BY <1>11, <1>12

(* Every step of an endpoint is one of its decoder, or none.               *)
LEMMA MsgStepDecodes == [MsgNext]_<<vars, msgVars>> => [Next]_vars
<1> SUFFICES ASSUME [MsgNext]_<<vars, msgVars>> PROVE [Next]_vars
  OBVIOUS
<1>1. ASSUME NEW n \in 1..MaxChunk, Recv(n) PROVE [Next]_vars
  BY <1>1 DEF Recv, Next
<1>2. CASE Waits
  BY <1>2 DEF Waits, Next
<1>3. CASE DecodeHeader
  BY <1>3 DEF DecodeHeader, Next
<1>4. CASE DecodePayload
  BY <1>4 DEF DecodePayload, Next
<1>5. CASE DecodeEnd
  BY <1>5 DEF DecodeEnd, Next
<1>6. CASE Closed
  BY <1>6 DEF Closed
<1>7. CASE UNCHANGED <<vars, msgVars>>
  BY <1>7
<1> QED BY <1>1, <1>2, <1>3, <1>4, <1>5, <1>6, <1>7 DEF MsgNext

LEMMA MessageStep ==
  DecoderInv /\ MessageInv /\ [MsgNext]_<<vars, msgVars>> => MessageInv'
<1> SUFFICES ASSUME DecoderInv, MessageInv, [MsgNext]_<<vars, msgVars>> PROVE MessageInv'
  OBVIOUS
<1>1. ASSUME NEW n \in 1..MaxChunk, Recv(n) PROVE MessageInv'
  BY <1>1, UntouchedKeeps DEF Recv, Input, msgVars
<1>2. CASE Waits
  BY <1>2, UntouchedKeeps DEF Waits, HeaderShort, NoPayload, msgVars
<1>3. CASE DecodeHeader
  BY <1>3, DecodeHeaderKeeps
<1>4. CASE DecodePayload
  BY <1>4, DecodePayloadKeeps
<1>5. CASE DecodeEnd
  BY <1>5, DecodeEndKeeps
<1>6. CASE Closed
  BY <1>6, UntouchedKeeps DEF Closed, vars
<1>7. CASE UNCHANGED <<vars, msgVars>>
  BY <1>7, UntouchedKeeps DEF vars, msgVars
<1> QED BY <1>1, <1>2, <1>3, <1>4, <1>5, <1>6, <1>7 DEF MsgNext

LEMMA MsgInvariant == MsgSpec => [](DecoderInv /\ MessageInv)
<1>1. MsgInit => DecoderInv /\ MessageInv
  BY DecoderStart, MessageStart DEF MsgInit
<1>2. DecoderInv /\ MessageInv /\ [MsgNext]_<<vars, msgVars>> => DecoderInv' /\ MessageInv'
  BY MsgStepDecodes, DecoderStep, MessageStep
<1> QED BY <1>1, <1>2, PTL DEF MsgSpec

(* With what an endpoint does at each completion, too: exactly the frames  *)
(* that have arrived in full are complete when decode has returned         *)
(* (WebSocketSplitter.cpp:101-140).                                        *)
THEOREM EndpointFramesComplete == MsgSpec => []ArrivedCompleted
<1>1. DecoderInv /\ MessageInv => ArrivedCompleted
  BY InvArrived
<1> QED BY <1>1, MsgInvariant, PTL

(* The tunnel gets the messages the peer sent, whole, unmasked and in      *)
(* order, as long as none reaches the limit (WebSocketSession.h:153-218,   *)
(* WebSocketClient.h:219-290).                                             *)
THEOREM MessagesArriveWhole == MsgSpec => []MessagesWhole
<1>1. DecoderInv /\ MessageInv => MessagesWhole
  <2>1. State.out = messages
    BY DEF State
  <2> QED BY <2>1 DEF MessageInv, Agrees, MessagesWhole
<1> QED BY <1>1, MsgInvariant, PTL

(* Each PING is answered with its payload, in order, in a frame the client *)
(* masks and the server does not (WebSocketSession.h:166-185,              *)
(* WebSocketClient.h:239-257).                                             *)
THEOREM PingsAreAnswered == MsgSpec => []PingsAnswered
<1>1. DecoderInv /\ MessageInv => PingsAnswered
  <2>1. State.pongs = pongs
    BY DEF State
  <2> QED BY <2>1 DEF MessageInv, Agrees, PingsAnswered, Payloads, HeadsFit, Fits
<1> QED BY <1>1, MsgInvariant, PTL
=============================================================================
