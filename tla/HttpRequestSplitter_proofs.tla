--------------------- MODULE HttpRequestSplitter_proofs ---------------------
(***************************************************************************)
(* Proofs about HttpRequestSplitter: whatever messages come, cut into      *)
(* whatever reads.                                                         *)
(***************************************************************************)
EXTENDS HttpRequestSplitter, SequenceLemmas

(***************************************************************************)
(* The stream: where each message starts in it, and each content among the *)
(* contents.                                                               *)
(***************************************************************************)
Byte == [msg : Nat, at : Nat]

LEMMA MessageParts ==
  ASSUME NEW ms \in Seq(Messages), NEW n \in 1..Len(ms)
  PROVE  /\ ms[n] \in Messages /\ ms[n].head \in Nat /\ 1 <= ms[n].head /\ BodyLen(ms[n]) \in Nat
         /\ Message(ms, n) \in Seq(Byte) /\ Len(Message(ms, n)) = ms[n].head + BodyLen(ms[n])
         /\ \A i \in 1..(ms[n].head + BodyLen(ms[n])) : Message(ms, n)[i] = [msg |-> n, at |-> i]
         /\ HeadOf(ms, n) \in Seq(Byte) /\ Len(HeadOf(ms, n)) = ms[n].head
         /\ \A i \in 1..ms[n].head : HeadOf(ms, n)[i] = [msg |-> n, at |-> i]
         /\ BodyOf(ms, n) \in Seq(Byte) /\ Len(BodyOf(ms, n)) = BodyLen(ms[n])
         /\ \A i \in 1..BodyLen(ms[n]) : BodyOf(ms, n)[i] = [msg |-> n, at |-> ms[n].head + i]
<1>1. ms[n] \in Messages /\ ms[n].head \in Nat /\ 1 <= ms[n].head /\ BodyLen(ms[n]) \in Nat
  BY MessageAssumption, BoundAssumption DEF BodyLen, Unlimited
<1>2. PICK h \in Nat, b \in Nat : h = ms[n].head /\ b = BodyLen(ms[n])
  BY <1>1
<1>3. PICK msg : msg = Message(ms, n)
  OBVIOUS
<1>4. msg \in Seq(Byte) /\ Len(msg) = h + b /\ \A i \in 1..(h + b) : msg[i] = [msg |-> n, at |-> i]
  <2>1. msg = [i \in 1..(h + b) |-> [msg |-> n, at |-> i]]
    BY <1>2, <1>3 DEF Message
  <2>2. \A i \in 1..(h + b) : [msg |-> n, at |-> i] \in Byte
    BY DEF Byte
  <2> QED BY <2>1, <2>2
<1>5. /\ HeadOf(ms, n) \in Seq(Byte) /\ Len(HeadOf(ms, n)) = h
      /\ \A i \in 1..h : HeadOf(ms, n)[i] = [msg |-> n, at |-> i]
  <2>1. PICK head : head = SubSeq(msg, 0 + 1, h)
    OBVIOUS
  <2>2. /\ head \in Seq(Byte) /\ Len(head) = h - 0
        /\ \A i \in 1..(h - 0) : head[i] = msg[0 + i]
    BY <1>4, <2>1, Cut
  <2>3. ASSUME NEW i \in 1..h PROVE head[i] = [msg |-> n, at |-> i]
    BY <1>4, <2>2, <2>3
  <2>4. HeadOf(ms, n) = head
    BY <1>2, <1>3, <2>1 DEF HeadOf
  <2> QED BY <2>2, <2>3, <2>4
<1>6. /\ BodyOf(ms, n) \in Seq(Byte) /\ Len(BodyOf(ms, n)) = b
      /\ \A i \in 1..b : BodyOf(ms, n)[i] = [msg |-> n, at |-> h + i]
  <2>1. PICK body : body = SubSeq(msg, h + 1, h + b)
    OBVIOUS
  <2>2. /\ body \in Seq(Byte) /\ Len(body) = (h + b) - h
        /\ \A i \in 1..((h + b) - h) : body[i] = msg[h + i]
    <3>1. h + b \in Nat /\ h <= h + b /\ h + b <= Len(msg)
      BY <1>4
    <3> QED BY <1>4, <2>1, <3>1, Cut
  <2>3. ASSUME NEW i \in 1..b PROVE body[i] = [msg |-> n, at |-> h + i]
    <3>1. i \in 1..((h + b) - h) /\ h + i \in 1..(h + b)
      OBVIOUS
    <3> QED BY <1>4, <2>2, <3>1
  <2>4. BodyOf(ms, n) = body
    BY <1>2, <1>3, <2>1 DEF BodyOf
  <2> QED BY <2>2, <2>3, <2>4
<1> QED BY <1>1, <1>2, <1>3, <1>4, <1>5, <1>6

MessagesOf(ms)  == [n \in 1..Len(ms) |-> Message(ms, n)]
ContentsOf(ms)  == [n \in 1..Len(ms) |-> BodyOf(ms, n)]
StartOf(ms)     == CHOOSE start : LaidOut(BytesOf(ms), MessagesOf(ms), start)
BodyStartOf(ms) == CHOOSE start : LaidOut(BodiesOf(ms), ContentsOf(ms), start)

StreamFacts(ms, start, bytes) ==
  /\ bytes \in Seq(Byte)
  /\ start \in [1..(Len(ms) + 1) -> Nat]
  /\ start[1] = 0
  /\ \A n \in 1..Len(ms) : start[n+1] = start[n] + (ms[n].head + BodyLen(ms[n]))
  /\ Len(bytes) = start[Len(ms) + 1]
  /\ \A n \in 1..Len(ms) : \A i \in 1..(ms[n].head + BodyLen(ms[n])) :
       bytes[start[n] + i] = [msg |-> n, at |-> i]
  /\ \A m \in 1..(Len(ms) + 1), n \in 1..(Len(ms) + 1) : m <= n => start[m] <= start[n]
  /\ \A p \in 1..Len(bytes) : \E n \in 1..Len(ms) : \E i \in 1..(ms[n].head + BodyLen(ms[n])) :
       p = start[n] + i

BodyFacts(ms, start, bodies) ==
  /\ bodies \in Seq(Byte)
  /\ start \in [1..(Len(ms) + 1) -> Nat]
  /\ start[1] = 0
  /\ \A n \in 1..Len(ms) : start[n+1] = start[n] + BodyLen(ms[n])
  /\ Len(bodies) = start[Len(ms) + 1]
  /\ \A n \in 1..Len(ms) : \A i \in 1..BodyLen(ms[n]) :
       bodies[start[n] + i] = [msg |-> n, at |-> ms[n].head + i]
  /\ \A m \in 1..(Len(ms) + 1), n \in 1..(Len(ms) + 1) : m <= n => start[m] <= start[n]

(* Pieces laid out one behind the other, and all there is to know of them. *)
PieceFacts(S, ss, start, all) ==
  /\ all \in Seq(S)
  /\ LaidOut(all, ss, start)
  /\ Covered(all, ss, start)

LEMMA PiecesLaidOut ==
  ASSUME NEW S, NEW ss \in Seq(Seq(S)), NEW all, all = FlattenSeq(ss)
  PROVE  PieceFacts(S, ss, CHOOSE start : LaidOut(all, ss, start), all)
<1>1. all \in Seq(S) /\ \E start : LaidOut(all, ss, start)
  BY FlattenLaidOut
<1>2. PICK start : start = CHOOSE x : LaidOut(all, ss, x)
  OBVIOUS
<1>3. LaidOut(all, ss, start)
  BY <1>1, <1>2
<1>4. Covered(all, ss, start)
  BY <1>3, LaidOutCovers
<1> QED BY <1>1, <1>2, <1>3, <1>4 DEF PieceFacts

LEMMA StreamLaidOut ==
  ASSUME NEW ms \in Seq(Messages)
  PROVE  StreamFacts(ms, StartOf(ms), BytesOf(ms))
<1>0. PICK L \in Nat : L = Len(ms)
  OBVIOUS
<1>1. PICK ss, start, bytes : ss = MessagesOf(ms) /\ start = StartOf(ms) /\ bytes = BytesOf(ms)
  OBVIOUS
<1>2. ASSUME NEW n \in 1..L
      PROVE  /\ ss[n] \in Seq(Byte) /\ Len(ss[n]) = ms[n].head + BodyLen(ms[n])
             /\ \A i \in 1..(ms[n].head + BodyLen(ms[n])) : ss[n][i] = [msg |-> n, at |-> i]
  <2>1. ss[n] = Message(ms, n)
    BY <1>0, <1>1 DEF MessagesOf
  <2>2. /\ Message(ms, n) \in Seq(Byte) /\ Len(Message(ms, n)) = ms[n].head + BodyLen(ms[n])
        /\ \A i \in 1..(ms[n].head + BodyLen(ms[n])) : Message(ms, n)[i] = [msg |-> n, at |-> i]
    BY <1>0, MessageParts
  <2> QED BY <2>1, <2>2
<1>3. ss \in Seq(Seq(Byte)) /\ Len(ss) = L
  <2>1. ss = [n \in 1..L |-> ss[n]]
    BY <1>0, <1>1 DEF MessagesOf
  <2>2. \A n \in 1..L : ss[n] \in Seq(Byte)
    BY <1>2
  <2> QED BY <2>1, <2>2
<1>4. PieceFacts(Byte, ss, start, bytes)
  <2>1. bytes = FlattenSeq(ss)
    BY <1>1 DEF BytesOf, MessagesOf
  <2>2. start = CHOOSE x : LaidOut(bytes, ss, x)
    BY <1>1 DEF StartOf
  <2> QED BY <1>3, <2>1, <2>2, PiecesLaidOut
<1>5. /\ bytes \in Seq(Byte) /\ start \in [1..(L + 1) -> Nat] /\ start[1] = 0
      /\ \A n \in 1..L : start[n+1] = start[n] + Len(ss[n])
      /\ Len(bytes) = start[L + 1]
      /\ \A n \in 1..L : \A i \in 1..Len(ss[n]) : bytes[start[n] + i] = ss[n][i]
  BY <1>3, <1>4 DEF PieceFacts, LaidOut
<1>6. /\ \A m \in 1..(L + 1), n \in 1..(L + 1) : m <= n => start[m] <= start[n]
      /\ \A p \in 1..Len(bytes) : \E n \in 1..L : \E i \in 1..Len(ss[n]) : p = start[n] + i
  BY <1>3, <1>4 DEF PieceFacts, Covered
<1>7. \A n \in 1..L : start[n+1] = start[n] + (ms[n].head + BodyLen(ms[n]))
  BY <1>2, <1>5
<1>8. \A n \in 1..L : \A i \in 1..(ms[n].head + BodyLen(ms[n])) : bytes[start[n] + i] = [msg |-> n, at |-> i]
  <2> TAKE n \in 1..L
  <2>1. \A i \in 1..Len(ss[n]) : bytes[start[n] + i] = ss[n][i]
    BY <1>5
  <2> QED BY <1>2, <2>1
<1>9. \A p \in 1..Len(bytes) : \E n \in 1..L : \E i \in 1..(ms[n].head + BodyLen(ms[n])) : p = start[n] + i
  <2> TAKE p \in 1..Len(bytes)
  <2>1. PICK n \in 1..L : \E i \in 1..Len(ss[n]) : p = start[n] + i
    BY <1>6
  <2>2. Len(ss[n]) = ms[n].head + BodyLen(ms[n])
    BY <1>2
  <2> QED BY <2>1, <2>2
<1>10. StreamFacts(ms, start, bytes)
  BY <1>0, <1>5, <1>6, <1>7, <1>8, <1>9 DEF StreamFacts
<1> QED BY <1>1, <1>10

LEMMA BodiesLaidOut ==
  ASSUME NEW ms \in Seq(Messages)
  PROVE  BodyFacts(ms, BodyStartOf(ms), BodiesOf(ms))
<1>0. PICK L \in Nat : L = Len(ms)
  OBVIOUS
<1>1. PICK ss, start, bodies : ss = ContentsOf(ms) /\ start = BodyStartOf(ms) /\ bodies = BodiesOf(ms)
  OBVIOUS
<1>2. ASSUME NEW n \in 1..L
      PROVE  /\ ss[n] \in Seq(Byte) /\ Len(ss[n]) = BodyLen(ms[n])
             /\ \A i \in 1..BodyLen(ms[n]) : ss[n][i] = [msg |-> n, at |-> ms[n].head + i]
  <2>1. ss[n] = BodyOf(ms, n)
    BY <1>0, <1>1 DEF ContentsOf
  <2>2. /\ BodyOf(ms, n) \in Seq(Byte) /\ Len(BodyOf(ms, n)) = BodyLen(ms[n])
        /\ \A i \in 1..BodyLen(ms[n]) : BodyOf(ms, n)[i] = [msg |-> n, at |-> ms[n].head + i]
    BY <1>0, MessageParts
  <2> QED BY <2>1, <2>2
<1>3. ss \in Seq(Seq(Byte)) /\ Len(ss) = L
  <2>1. ss = [n \in 1..L |-> ss[n]]
    BY <1>0, <1>1 DEF ContentsOf
  <2>2. \A n \in 1..L : ss[n] \in Seq(Byte)
    BY <1>2
  <2> QED BY <2>1, <2>2
<1>4. PieceFacts(Byte, ss, start, bodies)
  <2>1. bodies = FlattenSeq(ss)
    BY <1>1 DEF BodiesOf, ContentsOf
  <2>2. start = CHOOSE x : LaidOut(bodies, ss, x)
    BY <1>1 DEF BodyStartOf
  <2> QED BY <1>3, <2>1, <2>2, PiecesLaidOut
<1>5. /\ bodies \in Seq(Byte) /\ start \in [1..(L + 1) -> Nat] /\ start[1] = 0
      /\ \A n \in 1..L : start[n+1] = start[n] + Len(ss[n])
      /\ Len(bodies) = start[L + 1]
      /\ \A n \in 1..L : \A i \in 1..Len(ss[n]) : bodies[start[n] + i] = ss[n][i]
  BY <1>3, <1>4 DEF PieceFacts, LaidOut
<1>6. \A m \in 1..(L + 1), n \in 1..(L + 1) : m <= n => start[m] <= start[n]
  BY <1>3, <1>4 DEF PieceFacts, Covered
<1>7. \A n \in 1..L : start[n+1] = start[n] + BodyLen(ms[n])
  BY <1>2, <1>5
<1>8. \A n \in 1..L : \A i \in 1..BodyLen(ms[n]) : bodies[start[n] + i] = [msg |-> n, at |-> ms[n].head + i]
  <2> TAKE n \in 1..L
  <2>1. \A i \in 1..Len(ss[n]) : bodies[start[n] + i] = ss[n][i]
    BY <1>5
  <2> QED BY <1>2, <2>1
<1>9. BodyFacts(ms, start, bodies)
  BY <1>0, <1>5, <1>6, <1>7, <1>8 DEF BodyFacts
<1> QED BY <1>1, <1>9

HeadEnd(ms, n) == StartOf(ms)[n] + ms[n].head

(* Where a header ends and its content, which is empty, counted or without *)
(* end.                                                                    *)
LEMMA MessageIs ==
  ASSUME NEW ms \in Seq(Messages), NEW n \in 1..Len(ms)
  PROVE  /\ Len(ms) \in Nat /\ n + 1 \in 1..(Len(ms) + 1) /\ n \in 1..(Len(ms) + 1)
         /\ ms[n].head \in Nat /\ 1 <= ms[n].head /\ BodyLen(ms[n]) \in Nat
         /\ ms[n].body = Unlimited \/ (ms[n].body \in Nat /\ BodyLen(ms[n]) = ms[n].body)
         /\ StartOf(ms)[n] \in Nat /\ StartOf(ms)[n+1] \in Nat /\ HeadEnd(ms, n) \in Nat
         /\ HeadEnd(ms, n) = StartOf(ms)[n] + ms[n].head
         /\ StartOf(ms)[n+1] = HeadEnd(ms, n) + BodyLen(ms[n])
         /\ BodyStartOf(ms)[n] \in Nat /\ BodyStartOf(ms)[n+1] \in Nat
         /\ BodyStartOf(ms)[n+1] = BodyStartOf(ms)[n] + BodyLen(ms[n])
         /\ StartOf(ms)[n+1] <= Len(BytesOf(ms)) /\ BodyStartOf(ms)[n+1] <= Len(BodiesOf(ms))
<1>0. PICK L \in Nat : L = Len(ms)
  OBVIOUS
<1>1. n + 1 \in 1..(L + 1) /\ n \in 1..(L + 1) /\ L + 1 \in 1..(L + 1) /\ n \in 1..L /\ n + 1 <= L + 1
  BY <1>0
<1>2. ms[n] \in Messages /\ ms[n].head \in Nat /\ 1 <= ms[n].head /\ BodyLen(ms[n]) \in Nat
  BY MessageParts
<1>3. ms[n].body = Unlimited \/ (ms[n].body \in Nat /\ BodyLen(ms[n]) = ms[n].body)
  BY <1>2, MessageAssumption DEF BodyLen, Unlimited
<1>4. PICK h, b, start, bstart :
        h = ms[n].head /\ b = BodyLen(ms[n]) /\ start = StartOf(ms) /\ bstart = BodyStartOf(ms)
  OBVIOUS
<1>5. /\ start[n] \in Nat /\ start[n+1] \in Nat /\ start[n+1] = start[n] + (h + b)
      /\ start[n+1] <= Len(BytesOf(ms))
  <2>1. StreamFacts(ms, start, BytesOf(ms))
    BY <1>4, StreamLaidOut
  <2> QED BY <1>0, <1>1, <1>4, <2>1 DEF StreamFacts
<1>6. /\ bstart[n] \in Nat /\ bstart[n+1] \in Nat /\ bstart[n+1] = bstart[n] + b
      /\ bstart[n+1] <= Len(BodiesOf(ms))
  <2>1. BodyFacts(ms, bstart, BodiesOf(ms))
    BY <1>4, BodiesLaidOut
  <2> QED BY <1>0, <1>1, <1>4, <2>1 DEF BodyFacts
<1>7. HeadEnd(ms, n) = start[n] + h
  BY <1>4 DEF HeadEnd
<1>8. h \in Nat /\ b \in Nat
  BY <1>2, <1>4
<1>9. start[n] + h \in Nat /\ start[n+1] = (start[n] + h) + b
  BY <1>5, <1>8
<1> QED BY <1>0, <1>1, <1>2, <1>3, <1>4, <1>5, <1>6, <1>7, <1>9

LastOnly(ms) == \A n \in 1..(Len(ms) - 1) : ms[n].body # Unlimited

(* The splitter has consumed p bytes: with no content length it is at the  *)
(* start of a message, with one behind its header, and without end         *)
(* anywhere in the content of the last message.                            *)
AtPlace(ms, len, h, c, p) ==
  /\ h \in 0..Len(ms)
  /\ len = 0 => p = StartOf(ms)[h+1] /\ c = BodyStartOf(ms)[h+1]
  /\ len > 0 => /\ h >= 1 /\ len = ms[h].body
                /\ p = HeadEnd(ms, h) /\ c = BodyStartOf(ms)[h]
  /\ len < 0 => /\ h >= 1 /\ h = Len(ms) /\ ms[h].body = Unlimited
                /\ HeadEnd(ms, h) <= p /\ c = BodyStartOf(ms)[h] + (p - HeadEnd(ms, h))

(* What it waits for ends behind the first q bytes.                        *)
PartLeft(ms, len, h, q) ==
  /\ len = 0 /\ h < Len(ms) => q < HeadEnd(ms, h + 1)
  /\ len > 0 => q < StartOf(ms)[h+1]

LEMMA HeaderNext ==
  ASSUME NEW ms \in Seq(Messages), LastOnly(ms), NEW h \in Nat, h < Len(ms),
         NEW c \in Nat, NEW p \in Nat, NEW q \in Int,
         AtPlace(ms, 0, h, c, p), PartLeft(ms, 0, h, q)
  PROVE  /\ AtPlace(ms, ms[h+1].body, h + 1, c, p + ms[h+1].head)
         /\ PartLeft(ms, ms[h+1].body, h + 1, q)
         /\ p + ms[h+1].head = HeadEnd(ms, h + 1)
         /\ ms[h+1].body \in Int
<1>0. PICK L, n : L = Len(ms) /\ n = h + 1
  OBVIOUS
<1>1. n \in 1..L /\ n \in 1..Len(ms) /\ n \in 0..L /\ L \in Nat
  BY <1>0
<1>2. PICK hd, b, bl, e, s, s2, bs, bs2 :
        /\ hd = ms[n].head /\ b = ms[n].body /\ bl = BodyLen(ms[n]) /\ e = HeadEnd(ms, n)
        /\ s = StartOf(ms)[n] /\ s2 = StartOf(ms)[n+1]
        /\ bs = BodyStartOf(ms)[n] /\ bs2 = BodyStartOf(ms)[n+1]
  OBVIOUS
<1>3. /\ hd \in Nat /\ 1 <= hd /\ bl \in Nat /\ s \in Nat /\ s2 \in Nat /\ e \in Nat
      /\ e = s + hd /\ s2 = e + bl /\ bs \in Nat /\ bs2 \in Nat /\ bs2 = bs + bl
      /\ b = -1 \/ (b \in Nat /\ bl = b)
  BY <1>1, <1>2, MessageIs DEF Unlimited
<1>4. p = s /\ c = bs /\ q < e
  <2>1. p = StartOf(ms)[h+1] /\ c = BodyStartOf(ms)[h+1]
    BY DEF AtPlace
  <2>2. q < HeadEnd(ms, h + 1)
    BY DEF PartLeft
  <2> QED BY <1>0, <1>2, <2>1, <2>2
<1>5. AtPlace(ms, b, n, c, p + hd)
  <2>1. b < 0 => n = L
    <3>1. ms[n].body = Unlimited => ~(n \in 1..(L - 1))
      BY <1>0 DEF LastOnly
    <3>2. b < 0 => ms[n].body = Unlimited
      BY <1>2, <1>3 DEF Unlimited
    <3>3. n \in 1..L /\ L \in Nat /\ ~(n \in 1..(L - 1)) => n = L
      OBVIOUS
    <3> QED BY <1>1, <3>1, <3>2, <3>3
  <2>2. b = 0 => p + hd = s2 /\ c = bs2
    BY <1>3, <1>4
  <2>3. p + hd = e /\ n >= 1 /\ c = bs /\ (p + hd) - e = 0 /\ bs + 0 = bs /\ e <= p + hd
    BY <1>1, <1>3, <1>4
  <2>4. b < 0 => b = Unlimited
    BY <1>3 DEF Unlimited
  <2>5. b > 0 => n >= 1 /\ b = ms[n].body /\ p + hd = HeadEnd(ms, n) /\ c = BodyStartOf(ms)[n]
    BY <1>2, <2>3
  <2>6. b < 0 => /\ n >= 1 /\ n = Len(ms) /\ ms[n].body = Unlimited /\ HeadEnd(ms, n) <= p + hd
                 /\ c = BodyStartOf(ms)[n] + ((p + hd) - HeadEnd(ms, n))
    <3>1. c = bs + ((p + hd) - e)
      BY <2>3
    <3> QED BY <1>0, <1>2, <2>1, <2>3, <2>4, <3>1
  <2>7. b = 0 => p + hd = StartOf(ms)[n+1] /\ c = BodyStartOf(ms)[n+1]
    BY <1>2, <2>2
  <2> QED BY <1>0, <1>1, <2>5, <2>6, <2>7 DEF AtPlace
<1>6. PartLeft(ms, b, n, q)
  <2>1. q < s2
    BY <1>3, <1>4
  <2>2. ASSUME n < L PROVE q < HeadEnd(ms, n + 1)
    <3>1. n + 1 \in 1..Len(ms)
      BY <1>0, <1>1, <2>2
    <3>2. HeadEnd(ms, n + 1) = s2 + ms[n+1].head /\ ms[n+1].head \in Nat
      BY <1>2, <3>1, MessageIs
    <3> QED BY <1>3, <2>1, <3>2
  <2> QED BY <1>0, <1>2, <2>1, <2>2 DEF PartLeft
<1>7. b \in Int
  BY <1>3
<1> QED BY <1>0, <1>2, <1>3, <1>4, <1>5, <1>6, <1>7

LEMMA ContentNext ==
  ASSUME NEW ms \in Seq(Messages), NEW len \in Int, len > 0, NEW h \in Nat,
         NEW c \in Nat, NEW p \in Nat, NEW q \in Int,
         AtPlace(ms, len, h, c, p), PartLeft(ms, len, h, q)
  PROVE  AtPlace(ms, 0, h, c + len, p + len) /\ PartLeft(ms, 0, h, q)
<1>1. /\ h \in 1..Len(ms) /\ len = ms[h].body /\ p = HeadEnd(ms, h) /\ c = BodyStartOf(ms)[h]
      /\ q < StartOf(ms)[h+1] /\ h \in 0..Len(ms)
  BY DEF AtPlace, PartLeft
<1>2. PICK e, s2, bs, bs2 :
        /\ e = HeadEnd(ms, h) /\ s2 = StartOf(ms)[h+1]
        /\ bs = BodyStartOf(ms)[h] /\ bs2 = BodyStartOf(ms)[h+1]
  OBVIOUS
<1>3. e \in Nat /\ s2 \in Nat /\ s2 = e + len /\ bs2 = bs + len
  <2>1. BodyLen(ms[h]) = len
    BY <1>1, MessageIs DEF Unlimited
  <2> QED BY <1>1, <1>2, <2>1, MessageIs
<1>4. AtPlace(ms, 0, h, c + len, p + len)
  BY <1>1, <1>2, <1>3 DEF AtPlace
<1>5. ASSUME h < Len(ms) PROVE q < HeadEnd(ms, h + 1)
  <2>1. h + 1 \in 1..Len(ms)
    BY <1>1, <1>5
  <2>2. HeadEnd(ms, h + 1) = s2 + ms[h+1].head /\ ms[h+1].head \in Nat
    BY <1>2, <2>1, MessageIs
  <2> QED BY <1>1, <1>2, <1>3, <2>2
<1> QED BY <1>4, <1>5 DEF PartLeft

LEMMA RestNext ==
  ASSUME NEW ms \in Seq(Messages), NEW len \in Int, len < 0, NEW h \in Nat,
         NEW c \in Nat, NEW p \in Nat, NEW k \in Nat, AtPlace(ms, len, h, c, p)
  PROVE  AtPlace(ms, len, h, c + k, p + k)
<1>1. /\ h \in 1..Len(ms) /\ h = Len(ms) /\ ms[h].body = Unlimited
      /\ HeadEnd(ms, h) <= p /\ c = BodyStartOf(ms)[h] + (p - HeadEnd(ms, h))
  BY DEF AtPlace
<1>2. PICK e, bs : e = HeadEnd(ms, h) /\ bs = BodyStartOf(ms)[h]
  OBVIOUS
<1>3. e \in Nat /\ bs \in Nat
  BY <1>1, <1>2, MessageIs
<1>4. e <= p + k /\ c + k = bs + ((p + k) - e)
  <2>1. e <= p /\ c = bs + (p - e)
    BY <1>1, <1>2
  <2> QED BY <1>3, <2>1
<1> QED BY <1>1, <1>2, <1>4 DEF AtPlace

(* The bytes that are handed on as content are those of the contents.      *)
ContentFits(ms, len, h, c, p, k) ==
  /\ AtPlace(ms, len, h, c, p)
  /\ len # 0 /\ (len > 0 => k <= len)
  /\ p + k <= Len(BytesOf(ms))

SameContent(ms, c, p, k) ==
  /\ c + k <= Len(BodiesOf(ms))
  /\ \A i \in 1..k : BytesOf(ms)[p + i] = BodiesOf(ms)[c + i]

LEMMA ContentBytes ==
  ASSUME NEW ms \in Seq(Messages), NEW len \in Int, NEW h \in Nat, NEW c \in Nat, NEW p \in Nat,
         NEW k \in Nat, ContentFits(ms, len, h, c, p, k)
  PROVE  SameContent(ms, c, p, k)
<1>0. /\ len # 0 /\ AtPlace(ms, len, h, c, p) /\ (len > 0 => k <= len) /\ p + k <= Len(BytesOf(ms))
  BY DEF ContentFits
<1>1. h \in 1..Len(ms)
  BY <1>0 DEF AtPlace
<1>2. PICK e, s, s2, bs, bs2, hd, bl, off :
        /\ e = HeadEnd(ms, h) /\ s = StartOf(ms)[h] /\ s2 = StartOf(ms)[h+1]
        /\ bs = BodyStartOf(ms)[h] /\ bs2 = BodyStartOf(ms)[h+1]
        /\ hd = ms[h].head /\ bl = BodyLen(ms[h]) /\ off = p - e
  OBVIOUS
<1>3. /\ hd \in Nat /\ bl \in Nat /\ s \in Nat /\ s2 \in Nat /\ e \in Nat /\ bs \in Nat /\ bs2 \in Nat
      /\ e = s + hd /\ s2 = e + bl /\ bs2 = bs + bl /\ bs2 <= Len(BodiesOf(ms))
  BY <1>1, <1>2, MessageIs
<1>4. e <= p /\ c = bs + (p - e) /\ p + k <= s2
  <2>1. CASE len > 0
    <3>1. p = e /\ c = bs /\ len = ms[h].body
      BY <1>0, <1>2, <2>1 DEF AtPlace
    <3>2. bl = len
      BY <1>1, <1>2, <2>1, <3>1, MessageIs DEF Unlimited
    <3>3. bs = bs + (p - e) /\ e <= p /\ p + k <= e + len
      BY <1>0, <1>3, <2>1, <3>1
    <3> QED BY <1>3, <3>1, <3>2, <3>3
  <2>2. CASE len < 0
    <3>1. h = Len(ms) /\ e <= p /\ c = bs + (p - e)
      BY <1>0, <1>2, <2>2 DEF AtPlace
    <3>2. s2 = Len(BytesOf(ms))
      BY <1>2, <3>1, StreamLaidOut DEF StreamFacts
    <3> QED BY <1>0, <3>1, <3>2
  <2> QED BY <1>0, <2>1, <2>2
<1>5. off \in Nat /\ p = s + (hd + off) /\ c = bs + off /\ off + k <= bl
  <2>1. off = p - e
    BY <1>2
  <2> QED BY <1>3, <1>4, <2>1
<1>6. PICK bodies : bodies = BodiesOf(ms)
  OBVIOUS
<1>7. Len(bodies) \in Nat
  BY <1>6, BodiesLaidOut DEF BodyFacts
<1>8. c + k <= Len(bodies)
  BY <1>3, <1>5, <1>6, <1>7
<1>9. ASSUME NEW i \in 1..k PROVE BytesOf(ms)[p + i] = bodies[c + i]
  <2>1. off + i \in 1..bl /\ hd + (off + i) \in 1..(hd + bl)
    BY <1>3, <1>5
  <2>2. BytesOf(ms)[s + (hd + (off + i))] = [msg |-> h, at |-> hd + (off + i)]
    BY <1>1, <1>2, <2>1, StreamLaidOut DEF StreamFacts
  <2>3. bodies[bs + (off + i)] = [msg |-> h, at |-> hd + (off + i)]
    BY <1>1, <1>2, <1>6, <2>1, BodiesLaidOut DEF BodyFacts
  <2>4. p + i = s + (hd + (off + i)) /\ c + i = bs + (off + i)
    BY <1>3, <1>5
  <2> QED BY <2>2, <2>3, <2>4
<1> QED BY <1>6, <1>8, <1>9 DEF SameContent

(***************************************************************************)
(* The invariant.                                                          *)
(***************************************************************************)
Behind(p) == SubSeq(Bytes, p + 1, sent)

SplitterTypes ==
  /\ stream \in Seq(Messages) /\ LastOnly(stream)
  /\ sent \in Nat /\ sent <= Len(Bytes)
  /\ pc \in {"idle", "search", "rest", "thrown"}
  /\ _content_len \in Int
  /\ headers \in Seq(Seq(Byte)) /\ Len(headers) <= Len(stream)
  /\ contents \in Seq(Byte)

(* What has been handed on is what the peer sent. *)
Handed(ms, hs, cs) ==
  /\ \A n \in 1..Len(hs) : hs[n] = HeadOf(ms, n)
  /\ Len(cs) <= Len(BodiesOf(ms)) /\ \A i \in 1..Len(cs) : cs[i] = BodiesOf(ms)[i]

At(p) == AtPlace(stream, _content_len, Len(headers), Len(contents), p)
Left(q) == PartLeft(stream, _content_len, Len(headers), q)

(* Between two calls what is kept is all that has come of the next part.   *)
Idle == \E p \in 0..sent :
  /\ At(p)
  /\ _remain_data = Behind(p)
  /\ Left(sent)
  /\ _content_len < 0 => p = sent /\ _remain_data_size <= MaxChunk
  /\ _content_len >= 0 => _remain_data_size = sent - p
  /\ _remain_data_size \in Nat

(* Within a call, part of the last read is not consumed yet, nor was the   *)
(* part it waits for there before that read.                               *)
Working == \E p \in 0..sent :
  /\ At(p)
  /\ data = Behind(p)
  /\ Left(sent - MaxChunk)
  /\ _content_len < 0 => sent - p <= MaxChunk
  /\ _remain_data_size = sent - p
  /\ pc = "rest" /\ _content_len = 0 => Left(sent)

SplitterInv ==
  /\ SplitterTypes
  /\ Handed(stream, headers, contents)
  /\ pc = "idle" => Idle
  /\ pc \in {"search", "rest"} => Working
  /\ RejectsOnlyHuge

LEMMA BehindIs ==
  ASSUME SplitterTypes, NEW p \in 0..sent
  PROVE  /\ Bytes \in Seq(Byte) /\ Len(Bytes) \in Nat /\ sent \in Nat /\ p \in Nat
         /\ Behind(p) \in Seq(Byte)
         /\ Len(Behind(p)) = sent - p
         /\ \A i \in 1..(sent - p) : Behind(p)[i] = Bytes[p + i]
         /\ Behind(p) = <<>> <=> p = sent
         /\ \A k \in 0..(sent - p) : /\ Drop(Behind(p), k) = Behind(p + k)
                                     /\ SubSeq(Behind(p), 1, k) = SubSeq(Bytes, p + 1, p + k)
<1>1. Bytes \in Seq(Byte) /\ sent \in Nat /\ sent <= Len(Bytes) /\ Len(Bytes) \in Nat
  BY StreamLaidOut DEF StreamFacts, SplitterTypes, Bytes
<1>2. p \in Nat /\ p <= sent
  BY <1>1
<1>3. /\ Behind(p) \in Seq(Byte)
      /\ Len(Behind(p)) = sent - p
      /\ \A i \in 1..(sent - p) : Behind(p)[i] = Bytes[p + i]
      /\ Behind(p) = <<>> <=> p = sent
  BY <1>1, <1>2, Cut DEF Behind
<1>4. ASSUME NEW k \in 0..(sent - p)
      PROVE  /\ Drop(Behind(p), k) = Behind(p + k)
             /\ SubSeq(Behind(p), 1, k) = SubSeq(Bytes, p + 1, p + k)
  <2>1. k \in Nat /\ sent - p \in Nat /\ k <= sent - p /\ p + (sent - p) = sent
    BY <1>1, <1>2
  <2>2. SubSeq(SubSeq(Bytes, p + 1, sent), k + 1, sent - p) = SubSeq(Bytes, (p + k) + 1, p + (sent - p))
    BY <1>1, <1>2, <2>1, CutAgain
  <2>3. Drop(Behind(p), k) = SubSeq(Behind(p), k + 1, sent - p)
    BY <1>3 DEF Drop
  <2>4. SubSeq(SubSeq(Bytes, p + 1, sent), 0 + 1, k) = SubSeq(Bytes, (p + 0) + 1, p + k)
    <3>1. 0 \in Nat /\ 0 <= k
      BY <2>1
    <3> QED BY <1>1, <1>2, <2>1, <3>1, CutAgain
  <2>5. 0 + 1 = 1 /\ p + 0 = p
    BY <1>2
  <2> QED BY <2>1, <2>2, <2>3, <2>4, <2>5 DEF Behind
<1> QED BY <1>1, <1>2, <1>3, <1>4

LEMMA InputThrowsKeeps ==
  ASSUME SplitterInv, InputThrows
  PROVE  SplitterInv'
<1>1. /\ pc = "idle" /\ sent < Len(Bytes) /\ _remain_data_size > kMaxCacheSize
      /\ _content_len' = 0 /\ pc' = "thrown"
      /\ stream' = stream /\ sent' = sent /\ headers' = headers /\ contents' = contents
  BY DEF InputThrows, CacheFull
<1>2. SplitterTypes /\ Idle /\ Handed(stream, headers, contents)
  BY <1>1 DEF SplitterInv
<1>3. SplitterTypes' /\ Handed(stream, headers, contents)'
  <2>1. Bytes' = Bytes
    BY <1>1 DEF Bytes
  <2>2. 0 \in Int
    OBVIOUS
  <2> QED BY <1>1, <1>2, <2>1, <2>2 DEF SplitterTypes
<1>4. PICK p \in 0..sent :
        /\ At(p) /\ Left(sent)
        /\ _content_len < 0 => _remain_data_size <= MaxChunk
        /\ _content_len >= 0 => _remain_data_size = sent - p
        /\ _remain_data_size \in Nat
  BY <1>2 DEF Idle
<1>5. ASSUME MaxChunk <= kMaxCacheSize
      PROVE  \E n \in 1..Len(stream) : stream[n].head > kMaxCacheSize \/ stream[n].body > kMaxCacheSize
  <2>0. PICK h, size : h = Len(headers) /\ size = _remain_data_size
    OBVIOUS
  <2>1. /\ h \in 0..Len(stream) /\ h \in Nat /\ sent \in Nat /\ p \in Nat /\ Len(stream) \in Nat
        /\ kMaxCacheSize \in Nat /\ MaxChunk \in Nat /\ size \in Nat /\ size > kMaxCacheSize
    BY <1>1, <1>2, <1>4, <2>0, BoundAssumption DEF SplitterTypes
  <2>2. _content_len >= 0 /\ size = sent - p /\ _content_len \in Int
    BY <1>2, <1>4, <1>5, <2>0, <2>1 DEF SplitterTypes
  <2>3. CASE _content_len = 0
    <3>1. p = StartOf(stream)[h+1]
      BY <1>4, <2>0, <2>3 DEF At, AtPlace
    <3>2. h < Len(stream)
      <4>1. SUFFICES ASSUME h = Len(stream) PROVE FALSE
        BY <2>1
      <4>2. p = Len(Bytes)
        BY <1>2, <3>1, <4>1, StreamLaidOut DEF StreamFacts, Bytes, SplitterTypes
      <4> QED BY <1>1, <2>1, <4>2
    <3>3. sent < HeadEnd(stream, h + 1)
      BY <1>4, <2>0, <2>3, <3>2 DEF Left, PartLeft
    <3>4. PICK n \in 1..Len(stream) : n = h + 1
      BY <2>1, <3>2
    <3>5. HeadEnd(stream, n) = p + stream[n].head /\ stream[n].head \in Nat
      BY <1>2, <3>1, <3>4, MessageIs DEF SplitterTypes
    <3>6. stream[n].head > kMaxCacheSize
      BY <2>1, <2>2, <3>3, <3>4, <3>5
    <3> QED BY <3>6
  <2>4. CASE _content_len > 0
    <3>1. h \in 1..Len(stream) /\ _content_len = stream[h].body /\ p = HeadEnd(stream, h)
      BY <1>4, <2>0, <2>1, <2>4 DEF At, AtPlace
    <3>2. sent < StartOf(stream)[h+1]
      BY <1>4, <2>0, <2>4 DEF Left, PartLeft
    <3>3. StartOf(stream)[h+1] = p + stream[h].body /\ stream[h].body \in Nat
      <4>1. BodyLen(stream[h]) = stream[h].body /\ stream[h].body \in Nat
        <5>1. stream[h].body = Unlimited \/ (stream[h].body \in Nat /\ BodyLen(stream[h]) = stream[h].body)
          BY <1>2, <3>1, MessageIs DEF SplitterTypes
        <5>2. stream[h].body > 0
          BY <2>4, <3>1
        <5> QED BY ONLY <5>1, <5>2 DEF Unlimited
      <4>2. StartOf(stream)[h+1] = HeadEnd(stream, h) + BodyLen(stream[h])
        BY <1>2, <3>1, MessageIs DEF SplitterTypes
      <4> QED BY <3>1, <4>1, <4>2
    <3>4. stream[h].body > kMaxCacheSize
      BY <2>1, <2>2, <3>2, <3>3
    <3> QED BY <3>1, <3>4
  <2> QED BY <2>2, <2>3, <2>4
<1>6. RejectsOnlyHuge'
  BY <1>1, <1>5 DEF RejectsOnlyHuge
<1> QED BY <1>1, <1>3, <1>6 DEF SplitterInv

LEMMA InputKeeps ==
  ASSUME SplitterInv, NEW n \in 1..MaxChunk, Input(n)
  PROVE  SplitterInv'
<1>1. /\ pc = "idle" /\ sent + n <= Len(Bytes) /\ sent' = sent + n
      /\ data' = _remain_data \o SubSeq(Bytes, sent + 1, sent + n)
      /\ _remain_data_size' = Len(data') /\ pc' = "search"
      /\ stream' = stream /\ _content_len' = _content_len
      /\ headers' = headers /\ contents' = contents
  BY DEF Input
<1>2. SplitterTypes /\ Idle /\ Handed(stream, headers, contents)
  BY <1>1 DEF SplitterInv
<1>3. n \in Nat /\ n <= MaxChunk /\ MaxChunk \in Nat /\ sent \in Nat
  BY <1>2, BoundAssumption DEF SplitterTypes
<1>4. Bytes' = Bytes
  BY <1>1 DEF Bytes
<1>5. SplitterTypes'
  BY <1>1, <1>2, <1>3, <1>4 DEF SplitterTypes
<1>6. PICK p \in 0..sent :
        /\ At(p) /\ Left(sent) /\ _remain_data = Behind(p)
        /\ _content_len < 0 => p = sent
  BY <1>2 DEF Idle
<1>7. p \in Nat /\ p <= sent /\ p \in 0..(sent + n) /\ p \in 0..sent'
  BY <1>1, <1>3
<1>8. data' = SubSeq(Bytes, p + 1, sent + n)
  <2>1. Bytes \in Seq(Byte) /\ sent + n \in Nat /\ sent <= sent + n
    BY <1>2, <1>3, BehindIs, <1>6
  <2>2. SubSeq(Bytes, p + 1, sent) \o SubSeq(Bytes, sent + 1, sent + n) = SubSeq(Bytes, p + 1, sent + n)
    BY <1>1, <1>3, <1>7, <2>1, CutJoin
  <2> QED BY <1>1, <1>6, <2>2 DEF Behind
<1>9. data' = Behind(p)' /\ Len(data') = sent' - p
  <2>1. data' = Behind(p)'
    BY <1>1, <1>4, <1>8 DEF Behind
  <2>2. Bytes \in Seq(Byte) /\ sent + n \in Nat /\ p <= sent + n
    BY <1>2, <1>3, <1>6, <1>7, BehindIs
  <2>3. Len(SubSeq(Bytes, p + 1, sent + n)) = (sent + n) - p
    BY <1>1, <1>7, <2>2, Cut
  <2> QED BY <1>1, <1>8, <2>1, <2>3
<1>10. /\ AtPlace(stream', _content_len', Len(headers'), Len(contents'), p)
       /\ PartLeft(stream', _content_len', Len(headers'), sent' - MaxChunk)
  <2>1. AtPlace(stream', _content_len', Len(headers'), Len(contents'), p)
    BY <1>1, <1>6 DEF At
  <2>2. PICK q \in Int : q = sent' - MaxChunk /\ q <= sent
    BY <1>1, <1>3
  <2>3. PartLeft(stream, _content_len, Len(headers), q)
    <3>1. PartLeft(stream, _content_len, Len(headers), sent)
      BY <1>6 DEF Left
    <3>2. ASSUME _content_len = 0, Len(headers) < Len(stream) PROVE q < HeadEnd(stream, Len(headers) + 1)
      <4>1. sent < HeadEnd(stream, Len(headers) + 1)
        BY <3>1, <3>2 DEF PartLeft
      <4>2. Len(headers) + 1 \in 1..Len(stream)
        BY <1>2, <3>2 DEF SplitterTypes
      <4>3. HeadEnd(stream, Len(headers) + 1) \in Nat
        BY <1>2, <4>2, MessageIs DEF SplitterTypes
      <4> QED BY <1>3, <2>2, <4>1, <4>3
    <3>3. ASSUME _content_len > 0 PROVE q < StartOf(stream)[Len(headers) + 1]
      <4>1. sent < StartOf(stream)[Len(headers) + 1]
        BY <3>1, <3>3 DEF PartLeft
      <4>2. Len(headers) \in 1..Len(stream)
        BY <1>2, <1>6, <3>3 DEF SplitterTypes, At, AtPlace
      <4>3. StartOf(stream)[Len(headers) + 1] \in Nat
        BY <1>2, <4>2, MessageIs DEF SplitterTypes
      <4> QED BY <1>3, <2>2, <4>1, <4>3
    <3> QED BY <3>2, <3>3 DEF PartLeft
  <2> QED BY <1>1, <2>1, <2>2, <2>3
<1>11. _content_len' < 0 => sent' - p <= MaxChunk
  BY <1>1, <1>3, <1>6
<1>12. Working'
  BY <1>1, <1>7, <1>9, <1>10, <1>11 DEF Working, At, Left
<1>13. RejectsOnlyHuge' /\ Handed(stream, headers, contents)'
  BY <1>1, <1>2 DEF RejectsOnlyHuge
<1> QED BY <1>1, <1>5, <1>12, <1>13 DEF SplitterInv

(* A tail is found if, and only if, the next header is all there: the      *)
(* first one is its own.                                                   *)
LEMMA TailIs ==
  ASSUME SplitterTypes, NEW p \in 0..sent, data = Behind(p), _content_len = 0, At(p)
  PROVE  /\ PacketTail = 0 => Left(sent)
         /\ PacketTail # 0 => /\ Len(headers) < Len(stream)
                              /\ PacketTail = stream[Len(headers) + 1].head
                              /\ PacketTail \in 0..(sent - p)
<1>0. PICK h, n : h = Len(headers) /\ n = h + 1
  OBVIOUS
<1>1. /\ h \in Nat /\ h <= Len(stream) /\ Len(stream) \in Nat /\ sent \in Nat /\ p \in Nat /\ p <= sent
      /\ p = StartOf(stream)[n] /\ sent <= Len(Bytes)
  BY <1>0, BehindIs DEF SplitterTypes, At, AtPlace
<1>2. Len(data) = sent - p /\ \A i \in 1..(sent - p) : data[i] = Bytes[p + i]
  BY BehindIs
<1>3. CASE h = Len(stream)
  <2>1. p = Len(Bytes)
    BY <1>0, <1>1, <1>3, StreamLaidOut DEF StreamFacts, Bytes, SplitterTypes
  <2>2. Len(data) = 0
    BY <1>1, <1>2, <2>1
  <2>3. Tails = {}
    BY <2>2 DEF Tails
  <2>4. PacketTail = 0
    BY <2>3 DEF PacketTail
  <2>5. Left(sent)
    BY <1>0, <1>1, <1>3 DEF Left, PartLeft
  <2> QED BY <2>4, <2>5
<1>4. CASE h < Len(stream)
  <2>1. n \in 1..Len(stream)
    BY <1>0, <1>1, <1>4
  <2>2. PICK hd, bl : hd = stream[n].head /\ bl = BodyLen(stream[n])
    OBVIOUS
  <2>3. hd \in Nat /\ 1 <= hd /\ bl \in Nat /\ HeadEnd(stream, n) = p + hd
    BY <1>1, <2>1, <2>2, MessageIs DEF SplitterTypes
  <2>4. ASSUME NEW i \in 1..(sent - p), i <= hd PROVE data[i] = [msg |-> n, at |-> i]
    <3>1. i \in 1..(hd + bl)
      BY <2>3, <2>4
    <3>2. BytesOf(stream)[StartOf(stream)[n] + i] = [msg |-> n, at |-> i]
      BY <2>1, <2>2, <3>1, StreamLaidOut DEF StreamFacts, SplitterTypes
    <3> QED BY <1>1, <1>2, <3>2 DEF Bytes
  <2>5. \A i \in Tails : i \in 1..(sent - p) /\ hd <= i
    <3>1. SUFFICES ASSUME NEW i \in Tails, ~(hd <= i) PROVE FALSE
      BY <1>2 DEF Tails
    <3>2. i \in 1..(sent - p) /\ data[i].at = stream[data[i].msg].head
      BY <1>2 DEF Tails
    <3>3. i < hd
      BY <2>3, <3>1, <3>2
    <3>4. data[i] = [msg |-> n, at |-> i]
      BY <2>3, <2>4, <3>2, <3>3
    <3> QED BY <2>2, <2>3, <3>2, <3>3, <3>4
  <2>6. CASE hd <= sent - p
    <3>1. hd \in 1..(sent - p)
      BY <1>1, <2>3, <2>6
    <3>2. hd \in Tails
      <4>1. data[hd] = [msg |-> n, at |-> hd]
        BY <2>3, <2>4, <3>1
      <4> QED BY <1>2, <2>2, <3>1, <4>1 DEF Tails
    <3>3. Min(Tails) \in Tails /\ Min(Tails) <= hd
      BY <2>5, <3>2 DEF Min
    <3>4. Min(Tails) = hd
      <4>1. hd <= Min(Tails) /\ Min(Tails) \in Int
        BY <2>5, <3>3
      <4> QED BY <2>3, <3>3, <4>1
    <3>5. PacketTail = hd
      BY <3>2, <3>4 DEF PacketTail
    <3> QED BY <1>0, <1>4, <2>2, <2>3, <3>1, <3>5
  <2>7. CASE ~(hd <= sent - p)
    <3>1. Tails = {}
      BY <1>1, <2>3, <2>5, <2>7
    <3>2. PacketTail = 0
      BY <3>1 DEF PacketTail
    <3>3. sent < HeadEnd(stream, n)
      BY <1>1, <2>3, <2>7
    <3>4. Left(sent)
      BY <1>0, <3>3 DEF Left, PartLeft
    <3> QED BY <3>2, <3>4
  <2> QED BY <2>6, <2>7
<1> QED BY <1>1, <1>3, <1>4

LEMMA WorkingAt ==
  ASSUME SplitterInv, pc \in {"search", "rest"}
  PROVE  /\ SplitterTypes /\ Handed(stream, headers, contents)
         /\ sent \in Nat /\ MaxChunk \in Nat /\ _content_len \in Int
         /\ \E p \in 0..sent :
              /\ At(p)
              /\ data = Behind(p) /\ Len(data) = sent - p
              /\ Left(sent - MaxChunk)
              /\ _content_len < 0 => sent - p <= MaxChunk
              /\ _remain_data_size = sent - p
              /\ pc = "rest" /\ _content_len = 0 => Left(sent)
<1>1. SplitterTypes /\ Handed(stream, headers, contents) /\ Working
  BY DEF SplitterInv
<1>2. PICK p \in 0..sent :
        /\ At(p)
        /\ data = Behind(p)
        /\ Left(sent - MaxChunk)
        /\ _content_len < 0 => sent - p <= MaxChunk
        /\ _remain_data_size = sent - p
        /\ pc = "rest" /\ _content_len = 0 => Left(sent)
  BY <1>1 DEF Working
<1>3. Len(data) = sent - p
  BY <1>1, <1>2, BehindIs
<1> QED BY <1>1, <1>2, <1>3, BoundAssumption DEF SplitterTypes

LEMMA RecvHeaderKeeps ==
  ASSUME SplitterInv, RecvHeader
  PROVE  SplitterInv'
<1>0. PICK h, n, hd, b, c, q :
        /\ h = Len(headers) /\ n = h + 1 /\ hd = stream[n].head /\ b = stream[n].body
        /\ c = Len(contents) /\ q = sent - MaxChunk
  OBVIOUS
<1>1. /\ pc = "search" /\ pc' = "search" /\ _content_len = 0 /\ PacketTail > 0
      /\ headers' = Append(headers, SubSeq(data, 1, PacketTail))
      /\ _content_len' = stream[data[1].msg].body
      /\ data' = Drop(data, PacketTail) /\ _remain_data_size' = Len(data')
      /\ stream' = stream /\ sent' = sent /\ contents' = contents
  BY DEF RecvHeader, ContentLen
<1>2. /\ SplitterTypes /\ Handed(stream, headers, contents) /\ sent \in Nat /\ MaxChunk \in Nat
      /\ stream \in Seq(Messages) /\ LastOnly(stream) /\ Len(stream) \in Nat
      /\ headers \in Seq(Seq(Byte)) /\ h \in Nat /\ c \in Nat /\ q \in Int
  <2>1. SplitterTypes /\ Handed(stream, headers, contents) /\ sent \in Nat /\ MaxChunk \in Nat
    BY <1>1, WorkingAt
  <2>2. /\ stream \in Seq(Messages) /\ LastOnly(stream) /\ Len(stream) \in Nat
        /\ headers \in Seq(Seq(Byte)) /\ Len(headers) \in Nat /\ Len(contents) \in Nat
    BY <2>1 DEF SplitterTypes
  <2> QED BY <1>0, <2>1, <2>2
<1>3. PICK p \in 0..sent : /\ At(p) /\ data = Behind(p) /\ Len(data) = sent - p /\ Left(q)
  BY <1>0, <1>1, WorkingAt
<1>4. /\ h < Len(stream) /\ PacketTail = hd /\ hd \in 0..(sent - p) /\ n \in 1..Len(stream)
      /\ p \in Nat /\ p <= sent
  <2>1. h < Len(stream) /\ PacketTail = hd /\ hd \in 0..(sent - p)
    <3>1. data = Behind(p) /\ At(p) /\ _content_len = 0 /\ SplitterTypes
      BY <1>1, <1>2, <1>3
    <3>2. /\ Len(headers) < Len(stream) /\ PacketTail = stream[Len(headers) + 1].head
          /\ PacketTail \in 0..(sent - p)
      <4>1. PacketTail # 0
        BY <1>1
      <4> QED BY ONLY <3>1, <4>1, p \in 0..sent, TailIs
    <3> QED BY <1>0, <3>2
  <2> QED BY <1>0, <1>2, <2>1
<1>5. /\ AtPlace(stream, 0, h, c, p) /\ PartLeft(stream, 0, h, q)
  BY <1>0, <1>1, <1>3 DEF At, Left
<1>6. /\ AtPlace(stream, b, n, c, p + hd) /\ PartLeft(stream, b, n, q)
      /\ p + hd = HeadEnd(stream, n) /\ b \in Int
  BY <1>0, <1>2, <1>4, <1>5, HeaderNext
<1>7. hd \in Nat /\ 1 <= hd /\ p = StartOf(stream)[n] /\ BodyLen(stream[n]) \in Nat
  <2>1. p = StartOf(stream)[n]
    BY <1>0, <1>5 DEF AtPlace
  <2> QED BY <1>0, <1>2, <1>4, <2>1, MessageIs
<1>8. Bytes \in Seq(Byte) /\ Len(Bytes) \in Nat /\ sent <= Len(Bytes)
  BY <1>2, <1>3, BehindIs DEF SplitterTypes
<1>9. ASSUME NEW i \in 1..hd PROVE Bytes[p + i] = [msg |-> n, at |-> i]
  <2>1. i \in 1..(hd + BodyLen(stream[n]))
    BY <1>7
  <2>2. BytesOf(stream)[StartOf(stream)[n] + i] = [msg |-> n, at |-> i]
    BY <1>0, <1>2, <1>4, <2>1, StreamLaidOut DEF StreamFacts
  <2> QED BY <1>7, <2>2 DEF Bytes
<1>10. _content_len' = b
  <2>1. 1 \in 1..hd /\ 1 \in 1..(sent - p)
    BY <1>2, <1>4, <1>7
  <2>2. data[1] = Bytes[p + 1]
    BY <1>2, <1>3, <2>1, BehindIs
  <2>3. data[1] = [msg |-> n, at |-> 1]
    BY <1>9, <2>1, <2>2
  <2> QED BY <1>0, <1>1, <2>3
<1>11. PICK head : head = SubSeq(data, 1, hd)
  OBVIOUS
<1>12. head = HeadOf(stream, n) /\ head \in Seq(Byte)
  <2>1. head = SubSeq(Bytes, p + 1, p + hd)
    BY <1>2, <1>3, <1>4, <1>11, BehindIs
  <2>2. p + hd \in Nat /\ p <= p + hd /\ p + hd <= Len(Bytes) /\ (p + hd) - p = hd
    <3>1. hd <= sent - p /\ sent \in Nat /\ p \in Nat /\ hd \in Nat /\ sent <= Len(Bytes) /\ Len(Bytes) \in Nat
      BY <1>2, <1>4, <1>7, <1>8
    <3> QED BY ONLY <3>1
  <2>3. head \in Seq(Byte) /\ Len(head) = hd /\ \A i \in 1..hd : head[i] = Bytes[p + i]
    BY <1>4, <1>8, <2>1, <2>2, Cut
  <2>4. /\ HeadOf(stream, n) \in Seq(Byte) /\ Len(HeadOf(stream, n)) = hd
        /\ \A i \in 1..hd : HeadOf(stream, n)[i] = [msg |-> n, at |-> i]
    BY <1>0, <1>2, <1>4, MessageParts
  <2>5. \A i \in 1..hd : head[i] = HeadOf(stream, n)[i]
    BY <1>9, <2>3, <2>4
  <2>6. PICK head2 \in Seq(Byte) : head2 = HeadOf(stream, n)
    BY <2>4
  <2>7. Len(head) = Len(head2) /\ \A i \in 1..Len(head) : head[i] = head2[i]
    BY <2>3, <2>4, <2>5, <2>6
  <2>8. head = head2
    BY <2>3, <2>7, SeqEqual
  <2> QED BY <2>3, <2>6, <2>8
<1>13. /\ headers' \in Seq(Seq(Byte)) /\ Len(headers') = n
       /\ \A i \in 1..n : headers'[i] = HeadOf(stream, i)
  <2>1. headers' = Append(headers, head)
    BY <1>1, <1>4, <1>11
  <2>2. /\ headers' \in Seq(Seq(Byte)) /\ Len(headers') = h + 1 /\ headers'[h + 1] = head
        /\ \A i \in 1..h : headers'[i] = headers[i]
    BY <1>0, <1>2, <1>12, <2>1, AppendProperties
  <2>3. ASSUME NEW i \in 1..n PROVE headers'[i] = HeadOf(stream, i)
    <3>1. CASE i \in 1..h
      BY <1>0, <1>2, <2>2, <3>1 DEF Handed
    <3>2. CASE i = n
      BY <1>0, <1>12, <2>2, <3>2
    <3>3. i \in 1..h \/ i = n
      BY <1>0, <1>2
    <3> QED BY <3>1, <3>2, <3>3
  <2> QED BY <1>0, <2>2, <2>3
<1>14. Bytes' = Bytes /\ BodiesOf(stream') = BodiesOf(stream)
  BY <1>1 DEF Bytes
<1>15. SplitterTypes'
  BY <1>1, <1>2, <1>4, <1>6, <1>10, <1>13, <1>14 DEF SplitterTypes
<1>16. Handed(stream, headers, contents)'
  <2>1. Handed(stream, headers', contents)
    BY <1>2, <1>13 DEF Handed
  <2> QED BY <1>1, <2>1
<1>17. p + hd \in 0..sent /\ p + hd \in 0..sent'
  <2>1. hd <= sent - p /\ p \in Nat /\ hd \in Nat /\ sent \in Nat
    BY <1>2, <1>4, <1>7
  <2>2. p + hd \in 0..sent
    BY ONLY <2>1
  <2> QED BY <1>1, <2>2
<1>18. data' = Behind(p + hd)' /\ Len(data') = sent' - (p + hd)
  <2>1. data' = Behind(p + hd)
    BY <1>1, <1>2, <1>3, <1>4, BehindIs
  <2>2. Behind(p + hd)' = Behind(p + hd)
    BY <1>1, <1>14 DEF Behind
  <2>3. Len(Behind(p + hd)) = sent - (p + hd)
    BY <1>2, <1>17, BehindIs
  <2> QED BY <1>1, <2>1, <2>2, <2>3
<1>19. q < p + hd
  BY <1>0, <1>4, <1>5, <1>6 DEF PartLeft
<1>20. sent - (p + hd) <= MaxChunk
  <2>1. q < p + hd /\ q \in Int /\ q = sent - MaxChunk /\ MaxChunk \in Nat /\ sent \in Nat /\ p \in Nat /\ hd \in Nat
    BY <1>0, <1>2, <1>4, <1>7, <1>19
  <2> QED BY ONLY <2>1
<1>21. /\ AtPlace(stream', _content_len', Len(headers'), Len(contents'), p + hd)
       /\ PartLeft(stream', _content_len', Len(headers'), sent' - MaxChunk)
  BY <1>0, <1>1, <1>6, <1>10, <1>13
<1>22. Working'
  BY <1>1, <1>17, <1>18, <1>20, <1>21 DEF Working, At, Left
<1>23. RejectsOnlyHuge'
  BY <1>1 DEF RejectsOnlyHuge
<1> QED BY <1>1, <1>15, <1>16, <1>22, <1>23 DEF SplitterInv

LEMMA NoMoreHeaderKeeps ==
  ASSUME SplitterInv, NoMoreHeader
  PROVE  SplitterInv'
<1>1. /\ pc = "search" /\ pc' = "rest" /\ (_content_len # 0 \/ PacketTail = 0)
      /\ stream' = stream /\ sent' = sent /\ data' = data /\ _remain_data_size' = _remain_data_size
      /\ _content_len' = _content_len /\ headers' = headers /\ contents' = contents
  BY DEF NoMoreHeader
<1>2. SplitterTypes /\ Handed(stream, headers, contents)
  BY <1>1, WorkingAt
<1>3. PICK p \in 0..sent :
        /\ At(p) /\ data = Behind(p) /\ Left(sent - MaxChunk)
        /\ _content_len < 0 => sent - p <= MaxChunk
        /\ _remain_data_size = sent - p
  BY <1>1, WorkingAt
<1>4. _content_len = 0 => Left(sent)
  BY <1>1, <1>2, <1>3, TailIs
<1>5. Bytes' = Bytes
  BY <1>1 DEF Bytes
<1>6. SplitterTypes' /\ Handed(stream, headers, contents)'
  BY <1>1, <1>2, <1>5 DEF SplitterTypes
<1>7. Working'
  <2>1. p \in 0..sent' /\ data' = Behind(p)'
    BY <1>1, <1>3, <1>5 DEF Behind
  <2>2. /\ AtPlace(stream', _content_len', Len(headers'), Len(contents'), p)
        /\ PartLeft(stream', _content_len', Len(headers'), sent' - MaxChunk)
        /\ _content_len' = 0 => PartLeft(stream', _content_len', Len(headers'), sent')
    BY <1>1, <1>3, <1>4 DEF At, Left
  <2> QED BY <1>1, <1>3, <2>1, <2>2 DEF Working, At, Left
<1>8. RejectsOnlyHuge'
  BY <1>1 DEF RejectsOnlyHuge
<1> QED BY <1>1, <1>6, <1>7, <1>8 DEF SplitterInv

(* What ends a call with nothing of the data left to consume.              *)
LEMMA CallEnds ==
  ASSUME SplitterInv, pc = "rest", pc' = "idle", stream' = stream, sent' = sent,
         headers' = headers, contents' = contents, _content_len' = _content_len,
         _remain_data_size' = _remain_data_size, _remain_data' = data,
         _content_len = 0 \/ (_content_len > 0 => Len(data) < _content_len),
         _content_len < 0 => data = <<>>
  PROVE  SplitterInv'
<1>2. SplitterTypes /\ Handed(stream, headers, contents) /\ _content_len \in Int /\ sent \in Nat
  BY WorkingAt
<1>3. PICK p \in 0..sent :
        /\ At(p) /\ data = Behind(p) /\ Len(data) = sent - p
        /\ _content_len < 0 => sent - p <= MaxChunk
        /\ _remain_data_size = sent - p
        /\ _content_len = 0 => Left(sent)
  BY WorkingAt
<1>4. Bytes' = Bytes
  BY DEF Bytes
<1>5. SplitterTypes' /\ Handed(stream, headers, contents)'
  BY <1>2, <1>4 DEF SplitterTypes
<1>6. Left(sent)
  <2>1. CASE _content_len = 0
    BY <1>3, <2>1
  <2>2. CASE _content_len > 0
    <3>1. PICK h : h = Len(headers)
      OBVIOUS
    <3>2. /\ h \in 1..Len(stream) /\ _content_len = stream[h].body /\ p = HeadEnd(stream, h)
      BY <1>2, <1>3, <2>2, <3>1 DEF At, AtPlace, SplitterTypes
    <3>3. BodyLen(stream[h]) = _content_len
      <4>1. stream \in Seq(Messages)
        BY <1>2 DEF SplitterTypes
      <4>2. stream[h].body = -1 \/ BodyLen(stream[h]) = stream[h].body
        BY <3>2, <4>1, MessageIs DEF Unlimited
      <4> QED BY <2>2, <3>2, <4>2
    <3>4. StartOf(stream)[h+1] = p + _content_len
      BY <1>2, <3>2, <3>3, MessageIs DEF SplitterTypes
    <3>5. sent < StartOf(stream)[h+1]
      BY <1>2, <1>3, <2>2, <3>4
    <3> QED BY <2>2, <3>1, <3>5 DEF Left, PartLeft
  <2>3. CASE _content_len < 0
    BY <1>2, <2>3 DEF Left, PartLeft
  <2> QED BY <1>2, <2>1, <2>2, <2>3
<1>7. _content_len < 0 => p = sent
  BY <1>2, <1>3, BehindIs
<1>8. Idle'
  <2>1. /\ AtPlace(stream', _content_len', Len(headers'), Len(contents'), p)
        /\ PartLeft(stream', _content_len', Len(headers'), sent')
    BY <1>3, <1>6 DEF At, Left
  <2>2. _remain_data' = Behind(p)' /\ p \in 0..sent'
    BY <1>3, <1>4 DEF Behind
  <2>3. sent - p \in Nat
    BY <1>2
  <2> QED BY <1>3, <1>7, <2>1, <2>2, <2>3 DEF Idle, At, Left
<1>9. RejectsOnlyHuge'
  BY DEF RejectsOnlyHuge
<1> QED BY <1>5, <1>8, <1>9 DEF SplitterInv

LEMMA AllConsumedKeeps ==
  ASSUME SplitterInv, AllConsumed
  PROVE  SplitterInv'
<1>1. /\ pc = "rest" /\ pc' = "idle" /\ data = <<>> /\ _remain_data' = data
      /\ stream' = stream /\ sent' = sent /\ headers' = headers /\ contents' = contents
      /\ _content_len' = _content_len /\ _remain_data_size' = _remain_data_size
  BY DEF AllConsumed, Keep
<1>2. _content_len > 0 => Len(data) < _content_len
  <2>1. Len(<<>>) = 0
    OBVIOUS
  <2> QED BY <1>1, <2>1
<1> QED BY <1>1, <1>2, CallEnds

LEMMA KeepPartKeeps ==
  ASSUME SplitterInv, KeepPart
  PROVE  SplitterInv'
<1>1. /\ pc = "rest" /\ pc' = "idle" /\ _remain_data' = data
      /\ _content_len >= 0 /\ (_content_len = 0 \/ Len(data) < _content_len)
      /\ stream' = stream /\ sent' = sent /\ headers' = headers /\ contents' = contents
      /\ _content_len' = _content_len /\ _remain_data_size' = _remain_data_size
  BY DEF KeepPart, Keep
<1>2. ~(_content_len < 0)
  <2>1. _content_len \in Int
    BY <1>1, WorkingAt
  <2> QED BY <1>1, <2>1
<1> QED BY <1>1, <1>2, CallEnds

(* The first k bytes of the data are handed on as content.                 *)
LEMMA HandOn ==
  ASSUME SplitterTypes, Handed(stream, headers, contents), NEW p \in 0..sent, At(p),
         NEW k \in 0..(sent - p), _content_len # 0, _content_len > 0 => k <= _content_len,
         stream' = stream, headers' = headers, data = Behind(p),
         contents' = contents \o SubSeq(data, 1, k)
  PROVE  /\ contents' \in Seq(Byte) /\ Len(contents') = Len(contents) + k
         /\ Handed(stream, headers, contents)'
<1>0. PICK c, part : c = Len(contents) /\ part = SubSeq(Bytes, p + 1, p + k)
  OBVIOUS
<1>1. /\ contents \in Seq(Byte) /\ c \in Nat /\ sent \in Nat /\ sent <= Len(Bytes) /\ p \in Nat /\ k \in Nat
      /\ Bytes \in Seq(Byte) /\ Len(Bytes) \in Nat /\ p + k \in Nat /\ p <= p + k /\ p + k <= Len(Bytes)
      /\ (p + k) - p = k
  <2>1. contents \in Seq(Byte) /\ c \in Nat /\ sent <= Len(Bytes)
    BY <1>0 DEF SplitterTypes
  <2>2. Bytes \in Seq(Byte) /\ Len(Bytes) \in Nat /\ sent \in Nat /\ p \in Nat
    BY BehindIs
  <2>3. k \in Nat /\ k <= sent - p
    BY <2>2
  <2>4. p + k \in Nat /\ p <= p + k /\ p + k <= Len(Bytes) /\ (p + k) - p = k
    BY ONLY <2>1, <2>2, <2>3
  <2> QED BY <2>1, <2>2, <2>3, <2>4
<1>2. part \in Seq(Byte) /\ Len(part) = k /\ \A i \in 1..k : part[i] = Bytes[p + i]
  <2>1. PICK e : e = p + k /\ e \in Nat /\ p <= e /\ e <= Len(Bytes) /\ e - p = k
    BY ONLY <1>1
  <2>2. /\ SubSeq(Bytes, p + 1, e) \in Seq(Byte) /\ Len(SubSeq(Bytes, p + 1, e)) = e - p
        /\ \A i \in 1..(e - p) : SubSeq(Bytes, p + 1, e)[i] = Bytes[p + i]
    <3>1. PICK bytes, x : bytes = Bytes /\ x = p
      OBVIOUS
    <3>2. bytes \in Seq(Byte) /\ x \in Nat /\ e \in Nat /\ x <= e /\ e <= Len(bytes)
      BY ONLY <1>1, <2>1, <3>1
    <3>3. /\ SubSeq(bytes, x + 1, e) \in Seq(Byte) /\ Len(SubSeq(bytes, x + 1, e)) = e - x
          /\ \A i \in 1..(e - x) : SubSeq(bytes, x + 1, e)[i] = bytes[x + i]
      BY ONLY <3>2, Cut
    <3> QED BY ONLY <3>1, <3>3
  <2> QED BY ONLY <1>0, <2>1, <2>2
<1>3. contents' = contents \o part
  BY <1>0, BehindIs
<1>4. /\ contents' \in Seq(Byte) /\ Len(contents') = c + k
      /\ \A i \in 1..c : contents'[i] = contents[i]
      /\ \A i \in 1..k : contents'[c + i] = part[i]
  <2>1. PICK cs, all : cs = contents /\ all = cs \o part
    OBVIOUS
  <2>2. cs \in Seq(Byte) /\ Len(cs) = c /\ contents' = all
    BY <1>0, <1>1, <1>3, <2>1
  <2>3. /\ cs \o part \in Seq(Byte) /\ Len(cs \o part) = Len(cs) + Len(part)
        /\ \A i \in 1..Len(cs) : (cs \o part)[i] = cs[i]
        /\ \A i \in 1..Len(part) : (cs \o part)[Len(cs) + i] = part[i]
    <3>1. cs \in Seq(Byte) /\ part \in Seq(Byte)
      BY <1>2, <2>2
    <3>2. cs \o part \in Seq(Byte) /\ Len(cs \o part) = Len(cs) + Len(part)
      BY ONLY <3>1, ConcatAt
    <3>3. \A i \in 1..Len(cs) : (cs \o part)[i] = cs[i]
      BY ONLY <3>1, ConcatAt
    <3>4. \A i \in 1..Len(part) : (cs \o part)[Len(cs) + i] = part[i]
      BY ONLY <3>1, ConcatAt
    <3> QED BY ONLY <3>2, <3>3, <3>4
  <2> QED BY <1>2, <2>1, <2>2, <2>3
<1>5. /\ c + k <= Len(Bodies)
      /\ \A i \in 1..k : Bytes[p + i] = Bodies[c + i]
  <2>1. AtPlace(stream, _content_len, Len(headers), c, p)
    BY <1>0 DEF At
  <2>2. Len(headers) \in Nat /\ _content_len \in Int /\ stream \in Seq(Messages)
    BY DEF SplitterTypes
  <2>3. PICK ms, len, h : ms = stream /\ len = _content_len /\ h = Len(headers)
    OBVIOUS
  <2>4. /\ ms \in Seq(Messages) /\ len \in Int /\ len # 0 /\ h \in Nat /\ AtPlace(ms, len, h, c, p)
        /\ len > 0 => k <= len
        /\ Bytes = BytesOf(ms) /\ Bodies = BodiesOf(ms)
    BY <2>1, <2>2, <2>3 DEF Bytes, Bodies
  <2>5. p + k <= Len(BytesOf(ms))
    BY <1>1, <2>4
  <2>6. /\ c + k <= Len(BodiesOf(ms))
        /\ \A i \in 1..k : BytesOf(ms)[p + i] = BodiesOf(ms)[c + i]
    <3>1. c \in Nat /\ p \in Nat /\ k \in Nat
      BY <1>1
    <3>2. ms \in Seq(Messages) /\ len \in Int /\ h \in Nat
      BY <2>4
    <3>3. ContentFits(ms, len, h, c, p, k)
      BY <2>4, <2>5 DEF ContentFits
    <3>4. SameContent(ms, c, p, k)
      BY ONLY <3>1, <3>2, <3>3, ContentBytes
    <3> QED BY <3>4 DEF SameContent
  <2> QED BY <2>4, <2>6
<1>6. ASSUME NEW i \in 1..(c + k) PROVE contents'[i] = Bodies[i]
  <2>1. CASE i \in 1..c
    BY <1>0, <1>4, <2>1 DEF Handed, Bodies
  <2>2. CASE ~(i \in 1..c)
    <3>1. i - c \in 1..k /\ c + (i - c) = i
      BY <1>1, <2>2
    <3>2. contents'[c + (i - c)] = Bodies[c + (i - c)]
      BY <1>2, <1>4, <1>5, <3>1
    <3> QED BY <3>1, <3>2
  <2> QED BY <2>1, <2>2
<1>7. Handed(stream, headers, contents')
  BY <1>4, <1>5, <1>6 DEF Handed, Bodies
<1> QED BY <1>0, <1>4, <1>7

LEMMA RecvContentKeeps ==
  ASSUME SplitterInv, RecvContent
  PROVE  SplitterInv'
<1>0. PICK h, len, c, q :
        h = Len(headers) /\ len = _content_len /\ c = Len(contents) /\ q = sent - MaxChunk
  OBVIOUS
<1>1. /\ pc = "rest" /\ len > 0 /\ Len(data) >= len
      /\ contents' = contents \o SubSeq(data, 1, len)
      /\ data' = Drop(data, len) /\ _remain_data' = data' /\ _remain_data_size' = Len(data')
      /\ _content_len' = 0 /\ pc' = (IF data' = <<>> THEN "idle" ELSE "search")
      /\ stream' = stream /\ sent' = sent /\ headers' = headers
  BY <1>0 DEF RecvContent, Keep
<1>2. /\ SplitterTypes /\ Handed(stream, headers, contents) /\ sent \in Nat /\ MaxChunk \in Nat
      /\ stream \in Seq(Messages) /\ Len(stream) \in Nat
      /\ h \in Nat /\ c \in Nat /\ len \in Int /\ q \in Int
  <2>1. /\ SplitterTypes /\ Handed(stream, headers, contents) /\ sent \in Nat /\ MaxChunk \in Nat
        /\ _content_len \in Int
    BY <1>1, WorkingAt
  <2>2. stream \in Seq(Messages) /\ Len(stream) \in Nat /\ Len(headers) \in Nat /\ Len(contents) \in Nat
    BY <2>1 DEF SplitterTypes
  <2> QED BY <1>0, <2>1, <2>2
<1>3. PICK p \in 0..sent : /\ At(p) /\ data = Behind(p) /\ Len(data) = sent - p /\ Left(q)
  BY <1>0, <1>1, WorkingAt
<1>4. len \in Nat /\ len \in 0..(sent - p) /\ p \in Nat /\ p + len \in 0..sent /\ p + len \in Nat
  BY <1>1, <1>2, <1>3
<1>5. contents' \in Seq(Byte) /\ Len(contents') = c + len /\ Handed(stream, headers, contents)'
  <2>1. _content_len # 0 /\ (_content_len > 0 => len <= _content_len)
    BY <1>0, <1>1, <1>2
  <2> QED BY <1>0, <1>1, <1>2, <1>3, <1>4, <2>1, HandOn
<1>6. AtPlace(stream, 0, h, c + len, p + len) /\ PartLeft(stream, 0, h, q)
  <2>1. AtPlace(stream, len, h, c, p) /\ PartLeft(stream, len, h, q)
    BY <1>0, <1>3 DEF At, Left
  <2> QED BY <1>1, <1>2, <1>4, <2>1, ContentNext
<1>7. Bytes' = Bytes
  BY <1>1 DEF Bytes
<1>8. SplitterTypes'
  <2>1. pc' \in {"idle", "search", "rest", "thrown"} /\ 0 \in Int
    BY <1>1
  <2> QED BY <1>1, <1>2, <1>5, <1>7, <2>1 DEF SplitterTypes
<1>9. /\ data' = Behind(p + len)' /\ Len(data') = sent - (p + len)
      /\ data' = <<>> <=> p + len = sent
  <2>1. data' = Behind(p + len)
    BY <1>1, <1>2, <1>3, <1>4, BehindIs
  <2>2. Behind(p + len)' = Behind(p + len)
    BY <1>1, <1>7 DEF Behind
  <2>3. /\ Len(Behind(p + len)) = sent - (p + len)
        /\ Behind(p + len) = <<>> <=> p + len = sent
    BY <1>2, <1>4, BehindIs
  <2> QED BY <2>1, <2>2, <2>3
<1>10. AtPlace(stream', _content_len', Len(headers'), Len(contents'), p + len)
  BY <1>0, <1>1, <1>5, <1>6
<1>11. CASE data' = <<>>
  <2>1. p + len = sent
    BY <1>9, <1>11
  <2>2. PartLeft(stream, 0, h, sent)
    <3>1. ASSUME h < Len(stream) PROVE sent < HeadEnd(stream, h + 1)
      <4>1. h + 1 \in 1..Len(stream)
        BY <1>2, <3>1
      <4>2. sent = StartOf(stream)[h+1]
        BY <1>6, <2>1 DEF AtPlace
      <4>3. /\ HeadEnd(stream, h + 1) = sent + stream[h+1].head
            /\ stream[h+1].head \in Nat /\ 1 <= stream[h+1].head
        BY <1>2, <4>1, <4>2, MessageIs
      <4> QED BY <1>2, <4>3
    <3> QED BY <3>1 DEF PartLeft
  <2>3. PartLeft(stream', _content_len', Len(headers'), sent')
    BY <1>0, <1>1, <2>2
  <2>4. _remain_data_size' = sent' - (p + len) /\ _remain_data_size' \in Nat
    <3>1. sent - (p + len) \in Nat
      BY <1>2, <1>4
    <3> QED BY <1>1, <1>9, <3>1
  <2>5. Idle'
    BY <1>1, <1>4, <1>9, <1>10, <2>3, <2>4 DEF Idle, At, Left
  <2>6. RejectsOnlyHuge'
    BY <1>1, <1>11 DEF RejectsOnlyHuge
  <2> QED BY <1>1, <1>5, <1>8, <1>11, <2>5, <2>6 DEF SplitterInv
<1>12. CASE data' # <<>>
  <2>1. PartLeft(stream', _content_len', Len(headers'), sent' - MaxChunk)
    BY <1>0, <1>1, <1>6
  <2>2. Working'
    BY <1>1, <1>4, <1>9, <1>10, <1>12, <2>1 DEF Working, At, Left
  <2>3. RejectsOnlyHuge'
    BY <1>1, <1>12 DEF RejectsOnlyHuge
  <2> QED BY <1>1, <1>5, <1>8, <1>12, <2>2, <2>3 DEF SplitterInv
<1> QED BY <1>11, <1>12

LEMMA RecvRestKeeps ==
  ASSUME SplitterInv, RecvRest
  PROVE  SplitterInv'
<1>1. /\ pc = "rest" /\ _content_len < 0 /\ contents' = contents \o data
      /\ _remain_data' = <<>> /\ pc' = "idle"
      /\ stream' = stream /\ sent' = sent /\ headers' = headers
      /\ _content_len' = _content_len /\ _remain_data_size' = _remain_data_size
  BY DEF RecvRest, Keep
<1>2. /\ SplitterTypes /\ Handed(stream, headers, contents) /\ sent \in Nat
      /\ _content_len \in Int /\ stream \in Seq(Messages)
      /\ Len(headers) \in Nat /\ Len(contents) \in Nat
  BY <1>1, WorkingAt DEF SplitterTypes
<1>3. PICK p \in 0..sent :
        /\ At(p) /\ data = Behind(p) /\ _remain_data_size = sent - p
        /\ sent - p <= MaxChunk
  BY <1>1, WorkingAt
<1>4. PICK k \in Nat : k = sent - p
  BY <1>2
<1>5. p \in Nat /\ k \in 0..(sent - p) /\ p + k = sent /\ sent \in 0..sent
  BY <1>2, <1>4
<1>6. SubSeq(data, 1, k) = data
  BY <1>2, <1>3, <1>5, BehindIs DEF Behind
<1>7. /\ contents' \in Seq(Byte) /\ Len(contents') = Len(contents) + k
      /\ Handed(stream, headers, contents)'
  <2>1. _content_len # 0 /\ (_content_len > 0 => k <= _content_len)
    BY <1>1, <1>2
  <2> QED BY <1>1, <1>2, <1>3, <1>5, <1>6, <2>1, HandOn
<1>8. Bytes' = Bytes
  BY <1>1 DEF Bytes
<1>9. SplitterTypes'
  BY <1>1, <1>2, <1>7, <1>8 DEF SplitterTypes
<1>10. AtPlace(stream', _content_len', Len(headers'), Len(contents'), sent)
  <2>1. AtPlace(stream, _content_len, Len(headers), Len(contents) + k, p + k)
    BY <1>1, <1>2, <1>3, <1>5, RestNext DEF At
  <2> QED BY <1>1, <1>5, <1>7, <2>1
<1>11. PartLeft(stream', _content_len', Len(headers'), sent')
  BY <1>1, <1>2 DEF PartLeft
<1>12. _remain_data' = Behind(sent)'
  <2>1. Behind(sent) = <<>>
    BY <1>2, <1>5, BehindIs
  <2>2. Behind(sent)' = Behind(sent)
    BY <1>1, <1>8 DEF Behind
  <2> QED BY <1>1, <2>1, <2>2
<1>13. Idle'
  <2>1. _remain_data_size' <= MaxChunk /\ _remain_data_size' \in Nat /\ ~(_content_len' >= 0)
    BY <1>1, <1>2, <1>3, <1>4
  <2> QED BY <1>1, <1>5, <1>10, <1>11, <1>12, <2>1 DEF Idle, At, Left
<1>14. RejectsOnlyHuge'
  BY <1>1 DEF RejectsOnlyHuge
<1> QED BY <1>1, <1>7, <1>9, <1>13, <1>14 DEF SplitterInv

LEMMA SplitterStart == Init => SplitterInv
<1> SUFFICES ASSUME Init PROVE SplitterInv
  OBVIOUS
<1>1. /\ sent = 0 /\ pc = "idle" /\ _remain_data = <<>> /\ _remain_data_size = 0
      /\ _content_len = 0 /\ headers = <<>> /\ contents = <<>> /\ LastOnly(stream)
  BY DEF Init, LastOnly
<1>2. stream \in Seq(Messages)
  BY SeqDef DEF Init, SeqOf
<1>3. /\ StreamFacts(stream, StartOf(stream), Bytes)
      /\ BodyFacts(stream, BodyStartOf(stream), BodiesOf(stream))
      /\ Len(stream) \in Nat
  BY <1>2, StreamLaidOut, BodiesLaidOut DEF Bytes
<1>4. /\ StartOf(stream)[1] = 0 /\ BodyStartOf(stream)[1] = 0
      /\ Len(Bytes) \in Nat /\ Len(BodiesOf(stream)) \in Nat
  BY <1>3 DEF StreamFacts, BodyFacts
<1>5. Len(headers) = 0 /\ Len(contents) = 0
  BY <1>1
<1>6. SplitterTypes
  BY <1>1, <1>2, <1>3, <1>4, <1>5 DEF SplitterTypes
<1>7. Handed(stream, headers, contents)
  BY <1>4, <1>5 DEF Handed
<1>8. AtPlace(stream, 0, 0, 0, 0)
  BY <1>3, <1>4 DEF AtPlace
<1>9. PartLeft(stream, 0, 0, 0)
  <2>1. ASSUME 0 < Len(stream) PROVE 0 < HeadEnd(stream, 0 + 1)
    <3>1. 1 \in 1..Len(stream)
      BY <1>3, <2>1
    <3>2. stream[1].head \in Nat /\ 1 <= stream[1].head /\ HeadEnd(stream, 1) = 0 + stream[1].head
      BY <1>2, <1>4, <3>1, MessageIs
    <3> QED BY <3>2
  <2> QED BY <2>1 DEF PartLeft
<1>10. Behind(0) = <<>>
  <2>1. 0 \in 0..sent /\ 0 = sent
    BY <1>1
  <2> QED BY <1>6, <2>1, BehindIs
<1>11. Idle
  <2>1. 0 \in 0..sent /\ sent - 0 = 0
    BY <1>1
  <2>2. At(0) /\ Left(sent)
    BY <1>1, <1>5, <1>8, <1>9 DEF At, Left
  <2>3. /\ 0 \in 0..sent /\ _remain_data_size = sent - 0 /\ _remain_data_size \in Nat
        /\ ~(_content_len < 0) /\ _remain_data = Behind(0)
    BY <1>1, <1>10, <2>1
  <2> QED BY <1>1, <2>2, <2>3 DEF Idle
<1>12. RejectsOnlyHuge
  BY <1>1 DEF RejectsOnlyHuge
<1> QED BY <1>1, <1>6, <1>7, <1>11, <1>12 DEF SplitterInv

LEMMA SplitterStep == SplitterInv /\ [Next]_vars => SplitterInv'
<1> SUFFICES ASSUME SplitterInv, [Next]_vars PROVE SplitterInv'
  OBVIOUS
<1>1. CASE InputThrows
  BY <1>1, InputThrowsKeeps
<1>2. ASSUME NEW n \in 1..MaxChunk, Input(n) PROVE SplitterInv'
  BY <1>2, InputKeeps
<1>3. CASE RecvHeader
  BY <1>3, RecvHeaderKeeps
<1>4. CASE NoMoreHeader
  BY <1>4, NoMoreHeaderKeeps
<1>5. CASE AllConsumed
  BY <1>5, AllConsumedKeeps
<1>6. CASE KeepPart
  BY <1>6, KeepPartKeeps
<1>7. CASE RecvContent
  BY <1>7, RecvContentKeeps
<1>8. CASE RecvRest
  BY <1>8, RecvRestKeeps
<1>9. CASE UNCHANGED vars
  <2>1. /\ stream' = stream /\ sent' = sent /\ pc' = pc /\ data' = data /\ _remain_data' = _remain_data
        /\ _remain_data_size' = _remain_data_size /\ _content_len' = _content_len
        /\ headers' = headers /\ contents' = contents
    BY <1>9 DEF vars
  <2>2. Bytes' = Bytes
    BY <2>1 DEF Bytes
  <2>3. SplitterTypes' /\ Handed(stream, headers, contents)' /\ RejectsOnlyHuge'
    BY <2>1, <2>2 DEF SplitterInv, SplitterTypes, RejectsOnlyHuge
  <2>4. (pc = "idle" => Idle)'
    BY <2>1, <2>2 DEF SplitterInv, Idle, At, Left, Behind
  <2>5. (pc \in {"search", "rest"} => Working)'
    BY <2>1, <2>2 DEF SplitterInv, Working, At, Left, Behind
  <2> QED BY <2>3, <2>4, <2>5 DEF SplitterInv
<1> QED BY <1>1, <1>2, <1>3, <1>4, <1>5, <1>6, <1>7, <1>8, <1>9 DEF Next

LEMMA SplitterInvariant == Spec => []SplitterInv
BY SplitterStart, SplitterStep, PTL DEF Spec

(***************************************************************************)
(* What has arrived when input returns has been handed on.                 *)
(***************************************************************************)
LEMMA HeadEndAt ==
  ASSUME NEW ms \in Seq(Messages), NEW n \in 1..Len(ms)
  PROVE  /\ HeadEnd(ms, n) \in Nat /\ StartOf(ms)[n] \in Nat
         /\ StartOf(ms)[n] <= HeadEnd(ms, n)
<1>1. PICK s, hd : s = StartOf(ms)[n] /\ hd = ms[n].head
  OBVIOUS
<1>2. s \in Nat /\ hd \in Nat
  BY <1>1, MessageIs
<1>3. HeadEnd(ms, n) = s + hd
  BY <1>1 DEF HeadEnd
<1> QED BY <1>1, <1>2, <1>3

LEMMA HeadEndsAscend ==
  ASSUME NEW ms \in Seq(Messages), NEW m \in 1..Len(ms), NEW n \in 1..Len(ms), m <= n
  PROVE  HeadEnd(ms, m) <= HeadEnd(ms, n)
<1>1. HeadEnd(ms, m) \in Nat /\ HeadEnd(ms, n) \in Nat
  BY MessageIs
<1>2. CASE m = n
  BY <1>1, <1>2
<1>3. CASE m < n
  <2>1. HeadEnd(ms, m) <= StartOf(ms)[m+1] /\ StartOf(ms)[m+1] \in Nat
    BY MessageIs
  <2>2. m + 1 \in 1..(Len(ms) + 1) /\ n \in 1..(Len(ms) + 1) /\ m + 1 <= n
    BY <1>3
  <2>3. StartOf(ms)[m+1] <= StartOf(ms)[n]
    BY <2>2, StreamLaidOut DEF StreamFacts
  <2>4. StartOf(ms)[n] <= HeadEnd(ms, n) /\ StartOf(ms)[n] \in Nat
    BY HeadEndAt
  <2> QED BY <1>1, <2>1, <2>3, <2>4
<1> QED BY <1>2, <1>3

(* A byte has arrived only at its place in the stream. *)
LEMMA ArrivedAt ==
  ASSUME SplitterTypes, NEW n \in 1..Len(stream),
         NEW i \in 1..(stream[n].head + BodyLen(stream[n])),
         [msg |-> n, at |-> i] \in ToSet(SubSeq(Bytes, 1, sent))
  PROVE  StartOf(stream)[n] + i <= sent
<1>1. StreamFacts(stream, StartOf(stream), Bytes) /\ sent \in Nat /\ sent <= Len(Bytes)
  BY StreamLaidOut DEF SplitterTypes, Bytes
<1>2. PICK arrived : arrived = SubSeq(Bytes, 0 + 1, sent)
  OBVIOUS
<1>3. /\ arrived \in Seq(Byte) /\ Len(arrived) = sent - 0
      /\ \A q \in 1..(sent - 0) : arrived[q] = Bytes[0 + q]
  <2>1. Bytes \in Seq(Byte)
    BY <1>1 DEF StreamFacts
  <2> QED BY <1>1, <1>2, <2>1, Cut
<1>4. PICK q \in 1..sent : Bytes[q] = [msg |-> n, at |-> i]
  <2>1. DOMAIN arrived = 1..sent /\ \A q \in 1..sent : arrived[q] = Bytes[q]
    BY <1>1, <1>3
  <2>2. 0 + 1 = 1
    OBVIOUS
  <2> QED BY <1>2, <2>1, <2>2 DEF ToSet
<1>5. q \in 1..Len(Bytes)
  BY <1>1
<1>6. \E m \in 1..Len(stream) : \E j \in 1..(stream[m].head + BodyLen(stream[m])) : q = StartOf(stream)[m] + j
  BY <1>1, <1>5 DEF StreamFacts
<1>7. PICK m \in 1..Len(stream) : \E j \in 1..(stream[m].head + BodyLen(stream[m])) : q = StartOf(stream)[m] + j
  BY <1>6
<1>8. PICK j \in 1..(stream[m].head + BodyLen(stream[m])) : q = StartOf(stream)[m] + j
  BY <1>7
<1>9. Bytes[q] = [msg |-> m, at |-> j]
  BY <1>1, <1>8 DEF StreamFacts
<1>10. [msg |-> m, at |-> j] = [msg |-> n, at |-> i]
  BY <1>4, <1>9
<1>11. m = n /\ j = i
  BY ONLY <1>10
<1> QED BY <1>4, <1>8, <1>11

(* A header that has come to its end has been handed on. *)
LEMMA HeadHandedOn ==
  ASSUME SplitterTypes, NEW p \in Nat, At(p), Left(sent),
         NEW n \in 1..Len(stream), HeadEnd(stream, n) <= sent
  PROVE  n <= Len(headers)
<1>1. PICK h, L : h = Len(headers) /\ L = Len(stream)
  OBVIOUS
<1>2. h \in Nat /\ L \in Nat /\ n \in 1..L /\ sent \in Nat /\ _content_len \in Int
  BY <1>1 DEF SplitterTypes
<1>3. SUFFICES ASSUME h < n PROVE FALSE
  BY <1>1, <1>2
<1>4. h + 1 \in 1..Len(stream) /\ h + 1 <= n /\ h < L /\ h # L
  BY <1>1, <1>2, <1>3
<1>5. HeadEnd(stream, h + 1) <= HeadEnd(stream, n)
  BY <1>4, HeadEndsAscend DEF SplitterTypes
<1>6. /\ HeadEnd(stream, h + 1) \in Nat /\ HeadEnd(stream, n) \in Nat
      /\ StartOf(stream)[h+1] <= HeadEnd(stream, h + 1) /\ StartOf(stream)[h+1] \in Nat
  BY <1>4, HeadEndAt DEF SplitterTypes
<1>7. CASE _content_len = 0
  <2>1. sent < HeadEnd(stream, h + 1)
    BY <1>1, <1>4, <1>7 DEF Left, PartLeft
  <2> QED BY <1>2, <1>5, <1>6, <2>1
<1>8. CASE _content_len > 0
  <2>1. sent < StartOf(stream)[h+1]
    BY <1>1, <1>8 DEF Left, PartLeft
  <2> QED BY <1>2, <1>5, <1>6, <2>1
<1>9. CASE _content_len < 0
  <2>1. h = L
    BY <1>1, <1>9 DEF At, AtPlace
  <2> QED BY <1>4, <2>1
<1> QED BY <1>2, <1>7, <1>8, <1>9

(* Of a message that has come to its end the content has. *)
LEMMA ContentHandedOn ==
  ASSUME SplitterTypes, NEW p \in 0..sent, At(p), Left(sent), _content_len < 0 => p = sent,
         NEW n \in 1..Len(stream), StartOf(stream)[n+1] <= sent
  PROVE  BodyStartOf(stream)[n+1] <= Len(contents)
<1>1. PICK h, L, c : h = Len(headers) /\ L = Len(stream) /\ c = Len(contents)
  OBVIOUS
<1>2. /\ h \in Nat /\ L \in Nat /\ n \in 1..L /\ sent \in Nat /\ _content_len \in Int
      /\ h <= L /\ c \in Nat /\ p \in Nat
  BY <1>1 DEF SplitterTypes
<1>3. /\ HeadEnd(stream, n) \in Nat /\ StartOf(stream)[n+1] \in Nat /\ BodyLen(stream[n]) \in Nat
      /\ StartOf(stream)[n+1] = HeadEnd(stream, n) + BodyLen(stream[n])
      /\ BodyStartOf(stream)[n] \in Nat /\ BodyStartOf(stream)[n+1] \in Nat
      /\ BodyStartOf(stream)[n+1] = BodyStartOf(stream)[n] + BodyLen(stream[n])
  BY MessageIs DEF SplitterTypes
<1>4. n <= h
  <2>1. HeadEnd(stream, n) <= sent
    BY <1>2, <1>3
  <2> QED BY <1>1, <1>2, <2>1, HeadHandedOn
<1>5. h \in 1..L /\ h \in 1..(L + 1) /\ h + 1 \in 1..(L + 1) /\ n + 1 \in 1..(L + 1) /\ n + 1 <= h + 1
  BY <1>2, <1>4
<1>6. BodyFacts(stream, BodyStartOf(stream), BodiesOf(stream))
  BY BodiesLaidOut DEF SplitterTypes
<1>7. \A i \in 1..(L + 1), j \in 1..(L + 1) : i <= j => BodyStartOf(stream)[i] <= BodyStartOf(stream)[j]
  BY <1>1, <1>6 DEF BodyFacts
<1>8. CASE _content_len = 0
  <2>1. c = BodyStartOf(stream)[h+1]
    BY <1>1, <1>8 DEF At, AtPlace
  <2> QED BY <1>1, <1>5, <1>7, <2>1
<1>9. CASE _content_len > 0
  <2>1. c = BodyStartOf(stream)[h] /\ sent < StartOf(stream)[h+1]
    BY <1>1, <1>9 DEF At, AtPlace, Left, PartLeft
  <2>2. n # h
    <3>1. SUFFICES ASSUME n = h PROVE FALSE
      OBVIOUS
    <3>2. sent < StartOf(stream)[n+1]
      BY <2>1, <3>1
    <3> QED BY <1>2, <1>3, <3>2
  <2>3. n + 1 <= h
    BY <1>2, <1>4, <2>2
  <2> QED BY <1>1, <1>5, <1>7, <2>1, <2>3
<1>10. CASE _content_len < 0
  <2>1. c = BodyStartOf(stream)[h] + (sent - HeadEnd(stream, h)) /\ HeadEnd(stream, h) <= sent
    BY <1>1, <1>10 DEF At, AtPlace
  <2>2. HeadEnd(stream, h) \in Nat /\ BodyStartOf(stream)[h] \in Nat
    BY <1>1, <1>5, MessageIs DEF SplitterTypes
  <2>3. CASE n = h
    <3>1. c = BodyStartOf(stream)[n] + (sent - HeadEnd(stream, n))
      BY <2>1, <2>3
    <3>2. sent - HeadEnd(stream, n) >= BodyLen(stream[n])
      BY <1>2, <1>3
    <3>3. BodyStartOf(stream)[n+1] <= c
      BY ONLY <1>2, <1>3, <3>1, <3>2
    <3> QED BY <1>1, <3>3
  <2>4. CASE n # h
    <3>1. n + 1 <= h
      BY <1>2, <1>4, <2>4
    <3>2. BodyStartOf(stream)[n+1] <= BodyStartOf(stream)[h]
      BY <1>5, <1>7, <3>1
    <3>3. BodyStartOf(stream)[h] <= c
      BY <1>2, <2>1, <2>2
    <3> QED BY <1>1, <1>2, <1>3, <2>2, <3>2, <3>3
  <2> QED BY <2>3, <2>4
<1> QED BY <1>2, <1>8, <1>9, <1>10

LEMMA InvArrived == SplitterInv => ArrivedHandedOn
<1> SUFFICES ASSUME SplitterInv, pc = "idle", NEW n \in 1..Len(stream)
             PROVE  /\ ToSet(HeadOf(stream, n)) \subseteq ToSet(SubSeq(Bytes, 1, sent)) =>
                         Len(headers) >= n
                    /\ ToSet(Message(stream, n)) \subseteq ToSet(SubSeq(Bytes, 1, sent)) =>
                         ToSet(BodyOf(stream, n)) \subseteq ToSet(contents)
  BY DEF ArrivedHandedOn
<1>1. SplitterTypes /\ Idle /\ Handed(stream, headers, contents)
  BY DEF SplitterInv
<1>2. PICK p \in 0..sent : At(p) /\ Left(sent) /\ (_content_len < 0 => p = sent)
  BY <1>1 DEF Idle
<1>3. PICK hd, bl : hd = stream[n].head /\ bl = BodyLen(stream[n])
  OBVIOUS
<1>4. /\ stream \in Seq(Messages) /\ hd \in Nat /\ 1 <= hd /\ bl \in Nat
      /\ Len(headers) \in Nat /\ p \in Nat /\ sent \in Nat
  BY <1>1, <1>3, MessageParts DEF SplitterTypes
<1>5. ASSUME ToSet(HeadOf(stream, n)) \subseteq ToSet(SubSeq(Bytes, 1, sent))
      PROVE  Len(headers) >= n
  <2>1. Len(HeadOf(stream, n)) = hd /\ HeadOf(stream, n)[hd] = [msg |-> n, at |-> hd]
    <3>1. hd \in 1..hd
      BY <1>4
    <3> QED BY <1>3, <1>4, <3>1, MessageParts
  <2>2. [msg |-> n, at |-> hd] \in ToSet(HeadOf(stream, n))
    <3>1. HeadOf(stream, n) \in Seq(Byte)
      BY <1>4, MessageParts
    <3>2. hd \in DOMAIN HeadOf(stream, n)
      BY <1>4, <2>1, <3>1
    <3> QED BY <2>1, <3>2 DEF ToSet
  <2>3. hd \in 1..(stream[n].head + BodyLen(stream[n]))
    BY <1>3, <1>4
  <2>4. StartOf(stream)[n] + hd <= sent
    BY <1>1, <1>5, <2>2, <2>3, ArrivedAt
  <2>5. HeadEnd(stream, n) <= sent
    BY <1>3, <2>4 DEF HeadEnd
  <2>6. n <= Len(headers)
    BY <1>1, <1>2, <1>4, <2>5, HeadHandedOn
  <2> QED BY <1>4, <2>6
<1>6. ASSUME ToSet(Message(stream, n)) \subseteq ToSet(SubSeq(Bytes, 1, sent))
      PROVE  ToSet(BodyOf(stream, n)) \subseteq ToSet(contents)
  <2>0. hd + bl \in 1..(hd + bl)
    BY <1>4
  <2>1. Len(Message(stream, n)) = hd + bl /\ Message(stream, n)[hd + bl] = [msg |-> n, at |-> hd + bl]
    BY <1>3, <1>4, <2>0, MessageParts
  <2>2. [msg |-> n, at |-> hd + bl] \in ToSet(Message(stream, n))
    <3>1. Message(stream, n) \in Seq(Byte)
      BY <1>4, MessageParts
    <3>2. hd + bl \in DOMAIN Message(stream, n)
      BY <2>0, <2>1, <3>1
    <3> QED BY <2>1, <3>2 DEF ToSet
  <2>3. StartOf(stream)[n] + (hd + bl) <= sent
    BY <1>1, <1>3, <1>6, <2>0, <2>2, ArrivedAt
  <2>4. StartOf(stream)[n+1] = StartOf(stream)[n] + (hd + bl)
    <3>1. StreamFacts(stream, StartOf(stream), BytesOf(stream))
      BY <1>4, StreamLaidOut
    <3> QED BY <1>3, <3>1 DEF StreamFacts
  <2>5. BodyStartOf(stream)[n+1] <= Len(contents)
    <3>1. StartOf(stream)[n+1] <= sent
      BY <2>3, <2>4
    <3> QED BY <1>1, <1>2, <3>1, ContentHandedOn
  <2>6. PICK bs \in Nat : bs = BodyStartOf(stream)[n] /\ bs + bl <= Len(contents)
    <3>1. BodyStartOf(stream)[n] \in Nat /\ BodyStartOf(stream)[n+1] = BodyStartOf(stream)[n] + bl
      BY <1>3, <1>4, MessageIs
    <3> QED BY <2>5, <3>1
  <2>7. contents \in Seq(Byte) /\ Len(contents) \in Nat
    BY <1>1 DEF SplitterTypes
  <2>8. ASSUME NEW i \in 1..bl PROVE BodyOf(stream, n)[i] \in ToSet(contents)
    <3>1. bs + i \in 1..Len(contents) /\ i \in 1..BodyLen(stream[n])
      BY <1>3, <1>4, <2>6, <2>7
    <3>2. contents[bs + i] = BodiesOf(stream)[bs + i]
      BY <1>1, <3>1 DEF Handed
    <3>3. BodyFacts(stream, BodyStartOf(stream), BodiesOf(stream))
      BY <1>4, BodiesLaidOut
    <3>4. BodiesOf(stream)[bs + i] = [msg |-> n, at |-> stream[n].head + i]
      BY <2>6, <3>1, <3>3 DEF BodyFacts
    <3>5. BodyOf(stream, n)[i] = [msg |-> n, at |-> stream[n].head + i]
      BY <1>4, <3>1, MessageParts
    <3>6. bs + i \in DOMAIN contents
      BY <2>7, <3>1
    <3> QED BY <3>2, <3>4, <3>5, <3>6 DEF ToSet
  <2>9. BodyOf(stream, n) \in Seq(Byte) /\ Len(BodyOf(stream, n)) = bl
    BY <1>3, <1>4, MessageParts
  <2>10. DOMAIN BodyOf(stream, n) = 1..bl
    BY <2>9
  <2> QED BY <2>8, <2>10 DEF ToSet
<1> QED BY <1>5, <1>6

LEMMA InvIntact == SplitterInv => MessagesIntact
<1> SUFFICES ASSUME SplitterInv PROVE MessagesIntact
  OBVIOUS
<1>1. SplitterTypes /\ Handed(stream, headers, contents)
  BY DEF SplitterInv
<1>2. PICK k \in Nat, L \in Nat : k = Len(headers) /\ L = Len(stream) /\ k <= L
  BY <1>1 DEF SplitterTypes
<1>3. IsPrefix(headers, Heads)
  <2>1. Heads = [n \in 1..L |-> HeadOf(stream, n)]
    BY <1>2 DEF Heads
  <2>2. Heads \in Seq(Seq(Byte)) /\ Len(Heads) = L
    <3>1. \A n \in 1..L : HeadOf(stream, n) \in Seq(Byte)
      BY <1>1, <1>2, MessageParts DEF SplitterTypes
    <3> QED BY <2>1, <3>1
  <2>3. headers \in Seq(Seq(Byte))
    BY <1>1 DEF SplitterTypes
  <2>4. \A n \in 1..k : headers[n] = Heads[n]
    BY <1>1, <1>2, <2>1 DEF Handed
  <2> QED BY <1>2, <2>2, <2>3, <2>4, PrefixIs
<1>4. IsPrefix(contents, Bodies)
  <2>1. Bodies \in Seq(Byte)
    BY <1>1, BodiesLaidOut DEF BodyFacts, Bodies, SplitterTypes
  <2>2. contents \in Seq(Byte)
    BY <1>1 DEF SplitterTypes
  <2>3. Len(contents) <= Len(Bodies) /\ \A i \in 1..Len(contents) : contents[i] = Bodies[i]
    BY <1>1 DEF Handed, Bodies
  <2> QED BY <2>1, <2>2, <2>3, PrefixIs
<1> QED BY <1>3, <1>4 DEF MessagesIntact

(* However the stream is cut, the headers and the content bytes are handed *)
(* on as the peer sent them: none lost, repeated, out of order or taken    *)
(* for the other (HttpRequestSplitter.cpp:22-117).                         *)
THEOREM HandedOnIntact == Spec => []MessagesIntact
BY InvIntact, SplitterInvariant, PTL

(* When input returns, each header and each content that has arrived in    *)
(* full has been handed on (HttpRequestSplitter.cpp:53-66, 87-116).        *)
THEOREM HandedOnWhenArrived == Spec => []ArrivedHandedOn
BY InvArrived, SplitterInvariant, PTL

(* A connection is given up only for a header or a content larger than the *)
(* limit, as long as one read is not (HttpRequestSplitter.cpp:24-29).      *)
THEOREM GivenUpOnlyForHuge == Spec => []RejectsOnlyHuge
<1>1. SplitterInv => RejectsOnlyHuge
  BY DEF SplitterInv
<1> QED BY <1>1, SplitterInvariant, PTL
=============================================================================
