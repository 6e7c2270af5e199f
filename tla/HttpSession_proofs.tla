------------------------- MODULE HttpSession_proofs -------------------------
(***************************************************************************)
(* Proofs about a connection of the HTTP server whose peer waits for each  *)
(* answer: for any requests, files of any length, and a kernel that takes  *)
(* any number of parts.                                                    *)
(***************************************************************************)
EXTENDS HttpSession, SequenceTheorems, TLAPS

N == Len(requests)

Parts == [of : Nat, at : Nat]

Tasks ==
  [task : {"data"}, of : Nat, buf : Nat] \cup
  [task : {"close"}, why : {"completed", "timeout"}]

Sender == [offset : Nat, _read_complete : BOOLEAN]

Headers == [of : 1..N, code : Nat, length : Nat, close : BOOLEAN]

SessionTypes ==
  /\ conn \in {"open", "completed", "timeout", "lost"}
  /\ requests \in Seq(Requests)
  /\ _contentCallBack \in {"none", "whole", "unlimited", "websocket"}
  /\ headers \subseteq Headers
  /\ sender \in Seq(Sender) /\ Len(sender) = N
  /\ tasks \in Seq(Tasks)
  /\ onFlush \in 0..N
  /\ watched \in BOOLEAN
  /\ received \in Seq(Parts) /\ kernel \in Seq(Parts) /\ buffered \in Seq(Parts)
  /\ Len(kernel) <= KernelCap
  /\ frames \in Nat

Answered(n) == \E h \in headers : h.of = n

(* An answer has one header, which announces the length of the body; that  *)
(* of a GET keeps to the peer's wish.                                      *)
HeadersTrue ==
  \A h \in headers :
    /\ h.length = requests[h.of].chunks
    /\ requests[h.of].method = "GET" => h.close = requests[h.of].close
    /\ \A g \in headers : g.of = h.of => g = h

(* What the connection waits for is of the last request, and that has no   *)
(* answer yet.                                                             *)
Waiting ==
  /\ requests = <<>> => _contentCallBack = "none" /\ headers = {}
  /\ requests # <<>> =>
       /\ requests[N].method = "UPGRADE" <=> Upgraded
       /\ _contentCallBack = "whole" => requests[N].method = "POST" /\ ~Answered(N)
       /\ _contentCallBack = "unlimited" => requests[N].method = "HUGE_POST"
       /\ requests[N].method = "HUGE_POST" => ~Answered(N)
       /\ requests[N].method \notin {"POST", "HUGE_POST"} => Answered(N)
  /\ frames # 0 => Upgraded

(* Requests before the last were answered to the end, and the answer kept  *)
(* the connection.                                                         *)
EarlierDone ==
  \A n \in 1..(N - 1) :
    /\ requests[n].method # "UPGRADE"
    /\ requests[n].method = "GET" => ~requests[n].close
    /\ Contains(received, Part(n, requests[n].has))
    /\ sender[n].offset = requests[n].has

(* Only files are pumped.                                                  *)
Pumped(n) == n \in 1..N /\ requests[n].method = "GET"

PumpsFiles ==
  /\ onFlush # 0 => Pumped(onFlush)
  /\ \A i \in DOMAIN tasks : tasks[i].task = "data" => Pumped(tasks[i].of)

(* The last part sent, if any of the last answer.                          *)
SentTo == IF Answered(N) THEN Stream[Len(Stream)].at ELSE 0

(* While the connection is open the stream ends in the last answer, or in  *)
(* the one before when that is not begun.                                  *)
StreamEnds ==
  /\ Answered(N) => Stream # <<>> /\ Stream[Len(Stream)] = Part(N, SentTo)
  /\ ~Answered(N) =>
       /\ kernel = <<>> /\ buffered = <<>>
       /\ Stream = <<>> => N = 1
       /\ Stream # <<>> =>
            N > 1 /\ Stream[Len(Stream)] = Part(N - 1, requests[N - 1].has)
  /\ SentTo <= LastPart(N)
  /\ Upgraded => SentTo = frames

PartAt(queue, i) == queue[i].task = "data" /\ queue[i].buf # 0
EndAt(queue, n, i) == queue[i].task = "data" /\ queue[i].of = n /\ queue[i].buf = 0

(* The parts read and not yet sent wait in the queue, each once and in     *)
(* order, and behind them the end; a sender that is complete has none.     *)
Waits(queue, n, sent, s, has) ==
  /\ \A i \in DOMAIN queue : PartAt(queue, i) =>
       queue[i].of = n /\ sent < queue[i].buf /\ queue[i].buf <= s.offset
  /\ \A i, j \in DOMAIN queue :
       PartAt(queue, i) /\ PartAt(queue, j) /\ i < j => queue[i].buf < queue[j].buf
  /\ \A b \in (sent + 1)..s.offset : \E i \in DOMAIN queue : PartAt(queue, i) /\ queue[i].buf = b
  /\ \A i, j \in DOMAIN queue : EndAt(queue, n, i) /\ PartAt(queue, j) => j < i
  /\ \A i \in DOMAIN queue : EndAt(queue, n, i) => s.offset = has
  /\ s._read_complete => s.offset = has /\ \A i \in DOMAIN queue : ~PartAt(queue, i)
  /\ s.offset <= has

PartsWait ==
  /\ Waits(tasks, N, SentTo, sender[N], requests[N].has)
  /\ ~Upgraded => SentTo <= sender[N].offset
  /\ ~Answered(N) => sender[N].offset = 0

CloseIn(queue) == \E i \in DOMAIN queue : queue[i].task = "close" /\ queue[i].why = "completed"

(* The last answer is on its way and announced the end, or there is none.  *)
Finished ==
  /\ requests # <<>> /\ buffered = <<>>
  /\ \/ requests[N].method = "HUGE_POST"
     \/ /\ \E h \in headers : h.of = N /\ h.close
        /\ Stream # <<>> /\ Stream[Len(Stream)] = Part(N, requests[N].has)

Closing ==
  \/ conn = "completed"
  \/ CloseIn(tasks)

SessionInv ==
  /\ SessionTypes
  /\ HeadersTrue /\ Waiting /\ EarlierDone
  /\ ResponsesInOrder
  /\ \A i \in DOMAIN Stream : Stream[i].of \in 1..N
  /\ conn = "open" => PumpsFiles
  /\ conn = "open" /\ requests # <<>> => StreamEnds /\ PartsWait
  /\ conn # "open" => tasks = <<>> /\ buffered = <<>>
  /\ Closing /\ ~Upgraded => Finished

---------------------------------------------------------------------------
(* The queue. *)

LEMMA QueueAppend ==
  ASSUME NEW queue \in Seq(Tasks), NEW t \in Tasks
  PROVE  LET longer == Append(queue, t)
         IN /\ longer \in Seq(Tasks)
            /\ DOMAIN queue = 1..Len(queue) /\ Len(queue) \in Nat
            /\ DOMAIN longer = 1..(Len(queue) + 1)
            /\ \A i \in DOMAIN queue : longer[i] = queue[i]
            /\ longer[Len(queue) + 1] = t
  BY AppendProperties, LenProperties

LEMMA QueueTail ==
  ASSUME NEW queue \in Seq(Tasks), queue # <<>>
  PROVE  /\ Tail(queue) \in Seq(Tasks)
         /\ DOMAIN queue = 1..Len(queue) /\ Len(queue) \in Nat \ {0}
         /\ DOMAIN Tail(queue) = 1..(Len(queue) - 1)
         /\ \A i \in DOMAIN Tail(queue) : i + 1 \in DOMAIN queue /\ Tail(queue)[i] = queue[i + 1]
         /\ Head(queue) = queue[1] /\ Head(queue) \in Tasks
         /\ \A i \in DOMAIN queue : queue[i] \in Tasks
  BY HeadTailProperties, LenProperties, ElementOfSeq, EmptySeq

LEMMA TaskTypes ==
  ASSUME NEW n \in Nat, NEW k \in Nat, NEW why \in {"completed", "timeout"}
  PROVE  Data(n, k) \in Tasks /\ Close(why) \in Tasks
  BY DEF Tasks, Data, Close

(* Shutting down adds nothing but the end of the connection.               *)
LEMMA ShutdownWaits ==
  ASSUME NEW queue \in Seq(Tasks), NEW why \in {"completed", "timeout"}
  PROVE  LET longer == Shutdown(queue, why)
         IN /\ longer \in Seq(Tasks)
            /\ \A n, sent, s, has :
                 Waits(queue, n, sent, s, has) => Waits(longer, n, sent, s, has)
            /\ \A i \in DOMAIN longer : longer[i].task = "data" =>
                 i \in DOMAIN queue /\ queue[i] = longer[i]
            /\ CloseIn(longer) => CloseIn(queue) \/ why = "completed"
<1> DEFINE longer == Append(queue, Close(why))
<1>1. CASE Shutdown(queue, why) = queue
  BY <1>1
<1>2. CASE Shutdown(queue, why) = longer
  <2>1. /\ longer \in Seq(Tasks) /\ DOMAIN queue = 1..Len(queue) /\ Len(queue) \in Nat
        /\ DOMAIN longer = 1..(Len(queue) + 1)
        /\ \A i \in DOMAIN queue : longer[i] = queue[i]
        /\ longer[Len(queue) + 1] = Close(why)
    BY QueueAppend, TaskTypes
  <2>2. /\ Close(why).task = "close" /\ Close(why).why = why
    BY DEF Close
  <2> HIDE DEF longer
  <2>3. \A i \in DOMAIN longer : longer[i].task = "data" => i \in DOMAIN queue
    BY <2>1, <2>2
  <2>4. \A i \in DOMAIN longer : PartAt(longer, i) => i \in DOMAIN queue /\ PartAt(queue, i)
    BY <2>1, <2>3 DEF PartAt
  <2>5. \A i \in DOMAIN queue : i \in DOMAIN longer /\ (PartAt(queue, i) => PartAt(longer, i))
    BY <2>1 DEF PartAt
  <2>6. \A n : \A i \in DOMAIN longer : EndAt(longer, n, i) => i \in DOMAIN queue /\ EndAt(queue, n, i)
    BY <2>1, <2>3 DEF EndAt
  <2>7. ASSUME NEW n, NEW sent, NEW s, NEW has, Waits(queue, n, sent, s, has)
        PROVE  Waits(longer, n, sent, s, has)
    BY <2>1, <2>4, <2>5, <2>6, <2>7 DEF Waits
  <2>8. CloseIn(longer) => CloseIn(queue) \/ why = "completed"
    BY <2>1, <2>2 DEF CloseIn
  <2> QED
    BY <1>2, <2>1, <2>3, <2>7, <2>8
<1> QED
  BY <1>1, <1>2 DEF Shutdown

(* The first task is the next part, or none is before the end.             *)
LEMMA PopPart ==
  ASSUME NEW queue \in Seq(Tasks), queue # <<>>, PartAt(queue, 1),
         NEW n \in Nat, NEW sent \in Nat, NEW s \in Sender, NEW has \in Nat,
         Waits(queue, n, sent, s, has)
  PROVE  /\ Head(queue).of = n /\ Head(queue).buf = sent + 1 /\ ~s._read_complete
         /\ sent + 1 <= s.offset
         /\ Waits(Tail(queue), n, sent + 1, s, has)
<1> DEFINE rest == Tail(queue)
<1>1. /\ DOMAIN queue = 1..Len(queue) /\ Len(queue) \in Nat \ {0}
      /\ DOMAIN rest = 1..(Len(queue) - 1)
      /\ \A i \in DOMAIN rest : i + 1 \in DOMAIN queue /\ rest[i] = queue[i + 1]
      /\ Head(queue) = queue[1]
      /\ \A i \in DOMAIN queue : queue[i] \in Tasks
  BY QueueTail
<1> HIDE DEF rest
<1>2. \A i \in DOMAIN rest : (PartAt(rest, i) <=> PartAt(queue, i + 1)) /\ (EndAt(rest, n, i) <=> EndAt(queue, n, i + 1))
  BY <1>1 DEF PartAt, EndAt
<1>3. 1 \in DOMAIN queue /\ queue[1].buf \in Nat
  BY <1>1 DEF PartAt, Tasks
<1>3a. queue[1].of = n /\ sent < queue[1].buf /\ queue[1].buf <= s.offset /\ s.offset \in Nat
  BY <1>3 DEF Waits, Sender
<1>3b. sent + 1 \in (sent + 1)..s.offset
  BY <1>3, <1>3a
<1>4. PICK own \in DOMAIN queue : PartAt(queue, own) /\ queue[own].buf = sent + 1
  BY <1>3b DEF Waits
<1>5. queue[1].buf = sent + 1
  <2>1. CASE own = 1
    BY <1>4, <2>1
  <2>2. CASE own # 1
    <3>1. 1 < own
      BY <1>1, <2>2
    <3>2. queue[1].buf < queue[own].buf
      BY <1>3, <1>4, <3>1 DEF Waits
    <3> QED
      BY <1>3, <1>3a, <1>4, <3>2
  <2> QED
    BY <2>1, <2>2
<1>6. \A i \in DOMAIN rest : PartAt(rest, i) => sent + 1 < rest[i].buf
  <2>1. ASSUME NEW i \in DOMAIN rest, PartAt(rest, i)
        PROVE  queue[1].buf < queue[i + 1].buf
    <3>1. i + 1 \in DOMAIN queue /\ 1 < i + 1 /\ PartAt(queue, i + 1)
      BY <1>1, <1>2, <2>1
    <3> QED
      BY <1>3, <3>1 DEF Waits
  <2> QED
    BY <1>1, <1>5, <2>1
<1>7. \A b \in (sent + 2)..s.offset : \E i \in DOMAIN rest : PartAt(rest, i) /\ rest[i].buf = b
  <2> TAKE b \in (sent + 2)..s.offset
  <2>1. PICK i \in DOMAIN queue : PartAt(queue, i) /\ queue[i].buf = b
    BY DEF Waits, Sender
  <2>2. i # 1 /\ i - 1 \in DOMAIN rest /\ rest[i - 1] = queue[i]
    BY <1>1, <1>5, <2>1
  <2> QED
    BY <1>1, <1>2, <2>1, <2>2 DEF PartAt
<1>8. Waits(rest, n, sent + 1, s, has)
  <2>1. \A i \in DOMAIN rest : PartAt(rest, i) => rest[i].of = n /\ sent + 1 < rest[i].buf /\ rest[i].buf <= s.offset
    BY <1>1, <1>2, <1>6 DEF Waits
  <2>2. \A i, j \in DOMAIN rest : PartAt(rest, i) /\ PartAt(rest, j) /\ i < j => rest[i].buf < rest[j].buf
    BY <1>1, <1>2 DEF Waits
  <2>3. \A i, j \in DOMAIN rest : EndAt(rest, n, i) /\ PartAt(rest, j) => j < i
    BY <1>1, <1>2 DEF Waits
  <2>4. \A i \in DOMAIN rest : EndAt(rest, n, i) => s.offset = has
    BY <1>1, <1>2 DEF Waits
  <2>5. s._read_complete => s.offset = has /\ \A i \in DOMAIN rest : ~PartAt(rest, i)
    BY <1>1 DEF Waits
  <2>6. (sent + 1) + 1 = sent + 2 /\ s.offset <= has
    BY DEF Waits
  <2> QED
    BY <1>7, <2>1, <2>2, <2>3, <2>4, <2>5, <2>6 DEF Waits
<1> QED
  BY <1>1, <1>3, <1>3a, <1>5, <1>8 DEF Waits, rest

(* The end of the body comes when nothing of it is left in the queue, and  *)
(* what is there of other bodies is their end.                             *)
LEMMA PopOther ==
  ASSUME NEW queue \in Seq(Tasks), queue # <<>>, ~PartAt(queue, 1),
         NEW n, NEW sent, NEW s, NEW has,
         Waits(queue, n, sent, s, has)
  PROVE  /\ Waits(Tail(queue), n, sent, s, has)
         /\ EndAt(queue, n, 1) =>
              s.offset = has /\ \A i \in DOMAIN Tail(queue) : ~PartAt(Tail(queue), i)
<1> DEFINE rest == Tail(queue)
<1>1. /\ DOMAIN queue = 1..Len(queue) /\ Len(queue) \in Nat \ {0}
      /\ DOMAIN rest = 1..(Len(queue) - 1)
      /\ \A i \in DOMAIN rest : i + 1 \in DOMAIN queue /\ rest[i] = queue[i + 1]
  BY QueueTail
<1> HIDE DEF rest
<1>2. \A i \in DOMAIN rest : (PartAt(rest, i) <=> PartAt(queue, i + 1)) /\ (EndAt(rest, n, i) <=> EndAt(queue, n, i + 1))
  BY <1>1 DEF PartAt, EndAt
<1>3. ASSUME NEW b \in (sent + 1)..s.offset
      PROVE  \E i \in DOMAIN rest : PartAt(rest, i) /\ rest[i].buf = b
  <2>1. PICK i \in DOMAIN queue : PartAt(queue, i) /\ queue[i].buf = b
    BY <1>3 DEF Waits
  <2>2. i # 1 /\ i - 1 \in DOMAIN rest /\ rest[i - 1] = queue[i]
    BY <1>1, <2>1
  <2> QED
    BY <2>1, <2>2 DEF PartAt
<1>4. Waits(rest, n, sent, s, has)
  <2>1. \A i \in DOMAIN rest : PartAt(rest, i) => rest[i].of = n /\ sent < rest[i].buf /\ rest[i].buf <= s.offset
    BY <1>1, <1>2 DEF Waits
  <2>2. \A i, j \in DOMAIN rest : PartAt(rest, i) /\ PartAt(rest, j) /\ i < j => rest[i].buf < rest[j].buf
    BY <1>1, <1>2 DEF Waits
  <2>3. \A i, j \in DOMAIN rest : EndAt(rest, n, i) /\ PartAt(rest, j) => j < i
    BY <1>1, <1>2 DEF Waits
  <2>4. \A i \in DOMAIN rest : EndAt(rest, n, i) => s.offset = has
    BY <1>1, <1>2 DEF Waits
  <2>5. s._read_complete => s.offset = has /\ \A i \in DOMAIN rest : ~PartAt(rest, i)
    BY <1>1, <1>2 DEF Waits
  <2> QED
    BY <1>3, <2>1, <2>2, <2>3, <2>4, <2>5 DEF Waits
<1>5. EndAt(queue, n, 1) => s.offset = has /\ \A i \in DOMAIN rest : ~PartAt(rest, i)
  <2>1. 1 \in DOMAIN queue
    BY <1>1
  <2>2. ASSUME EndAt(queue, n, 1), NEW i \in DOMAIN rest, PartAt(rest, i) PROVE FALSE
    <3>1. i + 1 < 1
      BY <1>1, <1>2, <2>1, <2>2 DEF Waits
    <3> QED
      BY <1>1, <3>1
  <2> QED
    BY <2>1, <2>2 DEF Waits
<1> QED
  BY <1>4, <1>5 DEF rest

(* The next part, or the end, is put behind what waits.                    *)
NextPart(s, has) == IF s.offset < has THEN s.offset + 1 ELSE 0

LEMMA PumpOwn ==
  ASSUME NEW queue \in Seq(Tasks), NEW n \in Nat, NEW sent \in Nat,
         NEW s \in Sender, NEW has \in Nat, sent <= s.offset, ~s._read_complete,
         Waits(queue, n, sent, s, has),
         NEW r \in Sender, r._read_complete = s._read_complete,
         r.offset = IF NextPart(s, has) = 0 THEN s.offset ELSE NextPart(s, has)
  PROVE  Waits(Append(queue, Data(n, NextPart(s, has))), n, sent, r, has)
<1> DEFINE t == Data(n, NextPart(s, has))
           longer == Append(queue, t)
           last == Len(queue) + 1
<1>0. s.offset \in Nat /\ r.offset \in Nat /\ NextPart(s, has) \in Nat
  BY DEF Sender, NextPart
<1>1. /\ longer \in Seq(Tasks) /\ DOMAIN queue = 1..Len(queue) /\ Len(queue) \in Nat
      /\ DOMAIN longer = 1..last
      /\ \A i \in DOMAIN queue : longer[i] = queue[i]
      /\ longer[last] = t
  BY <1>0, QueueAppend, TaskTypes
<1>2. t.task = "data" /\ t.of = n /\ t.buf = NextPart(s, has)
  BY DEF Data
<1>3. s.offset <= has
  BY DEF Waits
<1> HIDE DEF t, longer
<1>4. \A i \in DOMAIN queue :
        /\ i \in DOMAIN longer /\ i # last /\ i < last
        /\ PartAt(longer, i) <=> PartAt(queue, i)
        /\ EndAt(longer, n, i) <=> EndAt(queue, n, i)
  BY <1>1 DEF PartAt, EndAt
<1>5. \A i \in DOMAIN longer : i = last \/ i \in DOMAIN queue
  BY <1>1
<1>6. /\ PartAt(longer, last) <=> s.offset < has
      /\ EndAt(longer, n, last) <=> s.offset = has
  BY <1>0, <1>1, <1>2, <1>3 DEF PartAt, EndAt, NextPart
<1>7. CASE s.offset < has
  <2>1. r.offset = s.offset + 1 /\ t.buf = s.offset + 1 /\ r.offset <= has
    BY <1>0, <1>2, <1>7 DEF NextPart
  <2>2. \A i \in DOMAIN longer : ~EndAt(longer, n, i)
    BY <1>0, <1>4, <1>5, <1>6, <1>7 DEF Waits
  <2>3. \A i \in DOMAIN longer : PartAt(longer, i) =>
          longer[i].of = n /\ sent < longer[i].buf /\ longer[i].buf <= r.offset
    <3>1. \A i \in DOMAIN queue : PartAt(longer, i) =>
            longer[i].of = n /\ sent < longer[i].buf /\ longer[i].buf <= s.offset /\ longer[i].buf \in Nat
      BY <1>1, <1>4, ElementOfSeq DEF Waits, PartAt, Tasks
    <3> QED
      BY <1>0, <1>1, <1>2, <1>5, <2>1, <3>1
  <2>4. \A i, j \in DOMAIN longer : PartAt(longer, i) /\ PartAt(longer, j) /\ i < j => longer[i].buf < longer[j].buf
    <3>1. \A i, j \in DOMAIN queue : PartAt(longer, i) /\ PartAt(longer, j) /\ i < j => longer[i].buf < longer[j].buf
      BY <1>1, <1>4 DEF Waits
    <3>2. \A i \in DOMAIN queue : PartAt(longer, i) => longer[i].buf <= s.offset /\ longer[i].buf \in Nat
      BY <1>1, <1>4, ElementOfSeq DEF Waits, PartAt, Tasks
    <3>3. \A i \in DOMAIN queue : PartAt(longer, i) => longer[i].buf < longer[last].buf
      BY <1>0, <1>1, <2>1, <3>2
    <3>4. \A i, j \in DOMAIN longer : i < j => i \in DOMAIN queue
      BY <1>1
    <3> QED
      BY <1>5, <3>1, <3>3, <3>4
  <2>5. \A b \in (sent + 1)..r.offset : \E i \in DOMAIN longer : PartAt(longer, i) /\ longer[i].buf = b
    <3> TAKE b \in (sent + 1)..r.offset
    <3>1. CASE b = r.offset
      <4>1. last \in DOMAIN longer
        BY <1>1
      <4> QED
        BY <1>1, <1>6, <1>7, <2>1, <3>1, <4>1
    <3>2. CASE b # r.offset
      <4>1. b \in (sent + 1)..s.offset
        BY <1>0, <2>1, <3>2
      <4>2. PICK i \in DOMAIN queue : PartAt(queue, i) /\ queue[i].buf = b
        BY <4>1 DEF Waits
      <4> QED
        BY <1>1, <1>4, <4>2
    <3> QED
      BY <3>1, <3>2
  <2> QED
    BY <2>1, <2>2, <2>3, <2>4, <2>5 DEF Waits, t, longer
<1>8. CASE s.offset = has
  <2>1. r.offset = s.offset /\ ~PartAt(longer, last)
    BY <1>6, <1>8, <1>0 DEF NextPart
  <2>2. \A i \in DOMAIN longer : PartAt(longer, i) => i \in DOMAIN queue /\ PartAt(queue, i) /\ longer[i] = queue[i]
    BY <1>1, <1>4, <1>5, <2>1
  <2>3. \A b \in (sent + 1)..r.offset : \E i \in DOMAIN longer : PartAt(longer, i) /\ longer[i].buf = b
    BY <1>1, <1>4, <2>1 DEF Waits
  <2>4. \A i, j \in DOMAIN longer : EndAt(longer, n, i) /\ PartAt(longer, j) => j < i
    BY <1>4, <1>5, <2>2 DEF Waits
  <2>5. \A i, j \in DOMAIN longer : PartAt(longer, i) /\ PartAt(longer, j) /\ i < j => longer[i].buf < longer[j].buf
    BY <2>2 DEF Waits
  <2>6. \A i \in DOMAIN longer : PartAt(longer, i) =>
          longer[i].of = n /\ sent < longer[i].buf /\ longer[i].buf <= r.offset
    BY <2>1, <2>2 DEF Waits
  <2> QED
    BY <1>3, <1>8, <2>1, <2>3, <2>4, <2>5, <2>6 DEF Waits, t, longer
<1> QED
  BY <1>0, <1>3, <1>7, <1>8

(* The end of another body changes nothing for this one.                   *)
LEMMA PumpEarlier ==
  ASSUME NEW queue \in Seq(Tasks), NEW m \in Nat, NEW n, m # n, NEW sent, NEW s, NEW has,
         Waits(queue, n, sent, s, has)
  PROVE  Waits(Append(queue, Data(m, 0)), n, sent, s, has)
<1> DEFINE longer == Append(queue, Data(m, 0))
<1>1. /\ DOMAIN queue = 1..Len(queue) /\ Len(queue) \in Nat
      /\ DOMAIN longer = 1..(Len(queue) + 1)
      /\ \A i \in DOMAIN queue : longer[i] = queue[i]
      /\ longer[Len(queue) + 1] = Data(m, 0)
  BY QueueAppend, TaskTypes
<1> HIDE DEF longer
<1>2. \A i \in DOMAIN queue : i \in DOMAIN longer /\ (PartAt(longer, i) <=> PartAt(queue, i))
  BY <1>1 DEF PartAt
<1>3. \A i \in DOMAIN longer : PartAt(longer, i) => i \in DOMAIN queue
  BY <1>1 DEF PartAt, Data
<1>4. \A i \in DOMAIN longer : EndAt(longer, n, i) => i \in DOMAIN queue /\ EndAt(queue, n, i)
  BY <1>1 DEF EndAt, Data
<1> QED
  BY <1>1, <1>2, <1>3, <1>4 DEF Waits, longer

---------------------------------------------------------------------------
(* Senders and the stream. *)

LEMMA RequestTypes ==
  ASSUME SessionTypes, NEW n \in 1..N
  PROVE  /\ requests[n] \in Requests
         /\ requests[n].chunks \in Nat /\ requests[n].has \in Nat
         /\ requests[n].has <= requests[n].chunks /\ requests[n].close \in BOOLEAN
         /\ requests[n].method # "GET" => requests[n].chunks = 0 /\ requests[n].has = 0
         /\ sender[n] \in Sender
         /\ N \in Nat
         /\ LastPart(n) \in Nat
<1>1. requests[n] \in Requests /\ sender[n] \in Sender /\ N \in Nat
  BY ElementOfSeq, LenProperties DEF SessionTypes, N
<1>2. requests[n].chunks \in Nat /\ requests[n].has \in Nat /\ requests[n].has <= requests[n].chunks
      /\ requests[n].close \in BOOLEAN /\ (requests[n].method # "GET" => requests[n].chunks = 0)
  BY <1>1, RequestAssumption
<1> QED
  BY <1>1, <1>2 DEF LastPart, SessionTypes

LEMMA SenderRead ==
  ASSUME NEW senders \in Seq(Sender), NEW n \in 1..Len(senders), NEW k \in Nat
  PROVE  LET read == [senders EXCEPT ![n].offset = k]
         IN /\ read \in Seq(Sender) /\ Len(read) = Len(senders)
            /\ read[n] \in Sender
            /\ read[n].offset = k /\ read[n]._read_complete = senders[n]._read_complete
            /\ \A m \in 1..Len(senders) : m # n => read[m] = senders[m]
<1> DEFINE one == [senders[n] EXCEPT !.offset = k]
<1>1. senders[n] \in Sender
  BY ElementOfSeq
<1>2. one \in Sender /\ one.offset = k /\ one._read_complete = senders[n]._read_complete
  BY <1>1 DEF Sender
<1>3. [senders EXCEPT ![n].offset = k] = [senders EXCEPT ![n] = one]
  OBVIOUS
<1> HIDE DEF one
<1> QED
  BY <1>2, <1>3, ExceptSeq

LEMMA SenderEnds ==
  ASSUME NEW senders \in Seq(Sender), NEW n \in 1..Len(senders)
  PROVE  LET ended == [senders EXCEPT ![n]._read_complete = TRUE]
         IN /\ ended \in Seq(Sender) /\ Len(ended) = Len(senders)
            /\ ended[n] \in Sender
            /\ ended[n].offset = senders[n].offset /\ ended[n]._read_complete = TRUE
            /\ \A m \in 1..Len(senders) : m # n => ended[m] = senders[m]
<1> DEFINE one == [senders[n] EXCEPT !._read_complete = TRUE]
<1>1. senders[n] \in Sender
  BY ElementOfSeq
<1>2. one \in Sender /\ one.offset = senders[n].offset /\ one._read_complete = TRUE
  BY <1>1 DEF Sender
<1> DEFINE ended == [senders EXCEPT ![n] = one]
<1>3. [senders EXCEPT ![n]._read_complete = TRUE] = ended
  OBVIOUS
<1>4. ended \in Seq(Sender) /\ Len(ended) = Len(senders)
      /\ \A m \in 1..Len(senders) : ended[m] = IF m = n THEN one ELSE senders[m]
  BY <1>2, ExceptSeq
<1> HIDE DEF one, ended
<1> QED
  BY <1>2, <1>3, <1>4

LEMMA StreamTyped ==
  ASSUME SessionTypes
  PROVE  /\ Stream \in Seq(Parts) /\ Len(Stream) \in Nat
         /\ Len(Stream) = Len(received) + Len(kernel) + Len(buffered)
         /\ DOMAIN Stream = 1..Len(Stream)
         /\ \A i \in DOMAIN Stream : Stream[i] \in Parts
         /\ Stream # <<>> => Len(Stream) \in DOMAIN Stream
         /\ \A i \in 1..Len(received) : Stream[i] = received[i]
         /\ buffered = <<>> => Stream = received \o kernel
<1>1. received \o kernel \in Seq(Parts) /\ Len(received \o kernel) = Len(received) + Len(kernel)
      /\ \A i \in 1..Len(received) : (received \o kernel)[i] = received[i]
      /\ Len(received) \in Nat /\ Len(kernel) \in Nat /\ Len(buffered) \in Nat
  BY ConcatProperties, LenProperties DEF SessionTypes
<1>2. Stream \in Seq(Parts) /\ Len(Stream) = Len(received \o kernel) + Len(buffered)
      /\ \A i \in 1..Len(received \o kernel) : Stream[i] = (received \o kernel)[i]
  BY <1>1, ConcatProperties DEF SessionTypes, Stream
<1>3. buffered = <<>> => Stream = received \o kernel
  BY <1>1, ConcatEmptySeq DEF Stream
<1>4. Len(Stream) \in Nat /\ DOMAIN Stream = 1..Len(Stream)
      /\ \A i \in DOMAIN Stream : Stream[i] \in Parts
      /\ (Stream # <<>> => Len(Stream) \in Nat \ {0})
  BY <1>2, LenProperties, ElementOfSeq, EmptySeq
<1>5. \A i \in 1..Len(received) : i \in 1..Len(received \o kernel) /\ Stream[i] = received[i]
  BY <1>1, <1>2
<1>6. Len(Stream) = Len(received) + Len(kernel) + Len(buffered)
  BY <1>1, <1>2
<1> QED
  BY <1>2, <1>3, <1>4, <1>5, <1>6

LEMMA AppendConcat ==
  ASSUME NEW a \in Seq(Parts), NEW b \in Seq(Parts), NEW part \in Parts
  PROVE  a \o Append(b, part) = Append(a \o b, part)
<1>1. <<part>> \in Seq(Parts)
  OBVIOUS
<1>2. Append(b, part) = b \o <<part>>
  BY AppendIsConcat
<1>3. a \o b \in Seq(Parts)
  BY ConcatProperties
<1>4. Append(a \o b, part) = (a \o b) \o <<part>>
  BY <1>3, AppendIsConcat
<1>5. (a \o b) \o <<part>> = a \o (b \o <<part>>)
  BY <1>1, ConcatAssociative
<1> QED
  BY <1>2, <1>4, <1>5

LEMMA SendStream ==
  ASSUME SessionTypes, NEW part \in Parts, Send(part), received' = received
  PROVE  /\ Stream' = Append(Stream, part)
         /\ kernel' \in Seq(Parts) /\ Len(kernel') <= KernelCap
         /\ buffered' \in Seq(Parts) /\ watched' \in BOOLEAN
         /\ buffered' = <<>> => buffered = <<>>
         /\ buffered = <<>> /\ kernel = <<>> => buffered' = <<>>
<1> USE DEF SessionTypes
<1>1. CASE buffered = <<>> /\ Len(kernel) < KernelCap
  <2>1. kernel' = Append(kernel, part) /\ buffered' = buffered /\ watched' = watched
    BY <1>1 DEF Send
  <2>2. kernel' \in Seq(Parts) /\ Len(kernel') <= KernelCap
    <3>1. kernel' \in Seq(Parts) /\ Len(kernel') = Len(kernel) + 1 /\ Len(kernel) \in Nat
      BY <2>1, AppendProperties, LenProperties
    <3> QED
      BY <1>1, <3>1, BoundAssumption
  <2>3. Stream = received \o kernel /\ Stream' = received \o kernel'
    BY <1>1, <2>1, <2>2, ConcatProperties, ConcatEmptySeq DEF Stream
  <2>4. Stream' = Append(Stream, part)
    BY <2>1, <2>3, AppendConcat
  <2> QED
    BY <1>1, <2>1, <2>2, <2>4
<1>2. CASE ~(buffered = <<>> /\ Len(kernel) < KernelCap)
  <2>1. kernel' = kernel /\ buffered' = Append(buffered, part) /\ watched' = TRUE
    BY <1>2 DEF Send
  <2>2. buffered' \in Seq(Parts) /\ buffered' # <<>>
    BY <2>1, AppendProperties
  <2>3. received \o kernel \in Seq(Parts)
    BY ConcatProperties
  <2>4. Stream' = Append(Stream, part)
    BY <2>1, <2>3, AppendConcat DEF Stream
  <2>5. kernel = <<>> => Len(kernel) < KernelCap
    BY BoundAssumption
  <2> QED
    BY <1>2, <2>1, <2>2, <2>4, <2>5
<1> QED
  BY <1>1, <1>2

(* A part that follows the last one keeps the stream in order.             *)
LEMMA OrderGrows ==
  ASSUME SessionTypes, ResponsesInOrder, N' \in Nat, N <= N',
         \A i \in DOMAIN Stream : Stream[i].of \in 1..N,
         \A n \in 1..N : LastPart(n)' \in Nat /\ LastPart(n) <= LastPart(n)',
         \A n \in 1..(N - 1) : LastPart(n)' = LastPart(n),
         NEW part \in Parts, part.of \in 1..N', Stream' = Append(Stream, part),
         Stream = <<>> => part = Part(1, 0),
         \A last : Stream # <<>> /\ last = Stream[Len(Stream)] =>
              \/ part.of = last.of /\ part.at = last.at + 1 /\ part.at <= LastPart(part.of)'
              \/ part.of = last.of + 1 /\ part.at = 0 /\ last.at = LastPart(last.of)'
  PROVE  ResponsesInOrder' /\ (\A i \in DOMAIN Stream : Stream[i].of \in 1..N)'
<1>0. /\ Stream \in Seq(Parts) /\ Len(Stream) \in Nat /\ DOMAIN Stream = 1..Len(Stream)
      /\ \A i \in DOMAIN Stream : Stream[i] \in Parts
      /\ N \in Nat /\ \A n \in 1..N : LastPart(n) \in Nat
      /\ (Stream # <<>> => Len(Stream) \in DOMAIN Stream)
  BY StreamTyped, RequestTypes, LenProperties DEF SessionTypes, N
<1>1. /\ Len(Stream') = Len(Stream) + 1 /\ DOMAIN Stream' = 1..(Len(Stream) + 1)
      /\ \A i \in 1..Len(Stream) : Stream'[i] = Stream[i]
      /\ Stream'[Len(Stream) + 1] = part
  BY <1>0, AppendProperties, LenProperties
<1>2. \A i \in 1..Len(Stream') : Stream'[i].of \in 1..N'
  BY <1>0, <1>1
<1>3. Stream'[1] = Part(1, 0)
  <2>1. CASE Stream = <<>>
    BY <1>1, <2>1
  <2>2. CASE Stream # <<>>
    BY <1>0, <1>1, <2>2 DEF ResponsesInOrder
  <2> QED
    BY <2>1, <2>2
<1>4. ASSUME NEW i \in 1..(Len(Stream) - 1)
      PROVE  Follows(Stream[i], Stream[i + 1])'
  <2>1. /\ Follows(Stream[i], Stream[i + 1])
        /\ i \in DOMAIN Stream /\ i + 1 \in DOMAIN Stream
        /\ Stream'[i] = Stream[i] /\ Stream'[i + 1] = Stream[i + 1]
    BY <1>0, <1>1 DEF ResponsesInOrder
  <2>2. Stream[i].of \in 1..N /\ Stream[i + 1].of \in 1..N /\ Stream[i + 1].at \in Nat
    BY <1>0, <2>1 DEF Parts
  <2>3. CASE Stream[i + 1].of = Stream[i].of
    <3>1. /\ Stream[i + 1].at = Stream[i].at + 1
          /\ Stream[i + 1].at <= LastPart(Stream[i + 1].of)
      BY <1>0, <2>1, <2>2, <2>3 DEF Follows
    <3>2. PICK m \in 1..N : m = Stream[i + 1].of
      BY <2>2
    <3>3. Stream[i + 1].at <= LastPart(m)'
      <4>1. LastPart(m) \in Nat /\ LastPart(m)' \in Nat /\ LastPart(m) <= LastPart(m)'
        BY <1>0
      <4>2. Stream[i + 1].at <= LastPart(m)
        BY <3>1, <3>2
      <4> QED
        BY <2>2, <4>1, <4>2
    <3> QED
      BY <2>1, <2>3, <3>1, <3>2, <3>3 DEF Follows
  <2>4. CASE Stream[i + 1].of # Stream[i].of
    <3>1. /\ Stream[i + 1].of = Stream[i].of + 1 /\ Stream[i + 1].at = 0
          /\ Stream[i].at = LastPart(Stream[i].of)
      BY <2>1, <2>4 DEF Follows
    <3>2. PICK m \in 1..(N - 1) : m = Stream[i].of
      BY <1>0, <2>2, <3>1
    <3>3. Stream[i].at = LastPart(m)'
      BY <3>1, <3>2
    <3> QED
      BY <2>1, <3>1, <3>2, <3>3 DEF Follows
  <2> QED
    BY <2>3, <2>4
<1>5. ASSUME Stream # <<>>, NEW i, i = Len(Stream) PROVE Follows(Stream[i], Stream[i + 1])'
  <2>1. Stream'[i] = Stream[i] /\ Stream'[i + 1] = part
    BY <1>0, <1>1, <1>5
  <2>2. PICK last : last = Stream[i]
    OBVIOUS
  <2>3. \/ part.of = last.of /\ part.at = last.at + 1 /\ part.at <= LastPart(part.of)'
        \/ part.of = last.of + 1 /\ part.at = 0 /\ last.at = LastPart(last.of)'
    BY <1>5, <2>2
  <2>4. Stream'[i] = last
    BY <2>1, <2>2
  <2> QED
    BY <2>1, <2>3, <2>4 DEF Follows
<1>6. \A i \in 1..(Len(Stream') - 1) : Follows(Stream[i], Stream[i + 1])'
  <2> TAKE i \in 1..(Len(Stream') - 1)
  <2>1. CASE i = Len(Stream)
    <3>1. Stream # <<>>
      BY <2>1
    <3> QED
      BY <1>1, <1>5, <2>1, <3>1
  <2>2. CASE i # Len(Stream)
    <3>1. i \in 1..(Len(Stream) - 1)
      <4>1. Len(Stream) \in Nat /\ Len(Stream') - 1 = Len(Stream)
        BY <1>0, <1>1
      <4> QED
        BY <2>2, <4>1
    <3> QED
      BY <1>4, <3>1
  <2> QED
    BY <2>1, <2>2
<1> QED
  BY <1>1, <1>2, <1>3, <1>6 DEF ResponsesInOrder

---------------------------------------------------------------------------
(* Steps on the last request. *)

LEMMA SentTyped ==
  ASSUME SessionInv, conn = "open", requests # <<>>
  PROVE  /\ N \in Nat \ {0} /\ N \in 1..N /\ SentTo \in Nat /\ requests \in Seq(Requests)
         /\ StreamEnds /\ PartsWait /\ PumpsFiles
<1>1. N \in Nat \ {0}
  BY EmptySeq, LenProperties DEF SessionInv, SessionTypes, N
<1>2. StreamEnds /\ PartsWait /\ PumpsFiles
  BY DEF SessionInv
<1>3. Stream # <<>> => Stream[Len(Stream)] \in Parts
  BY StreamTyped DEF SessionInv
<1>4. SentTo \in Nat
  BY <1>2, <1>3 DEF StreamEnds, SentTo, Parts
<1> QED
  BY <1>1, <1>2, <1>4 DEF SessionInv, SessionTypes

LEMMA SteadyKeeps ==
  ASSUME SessionInv, UNCHANGED <<requests, headers, _contentCallBack>>,
         frames' = frames \/ Upgraded,
         \A part : Contains(received, part) => Contains(received, part)',
         \A n \in 1..(N - 1) : sender'[n].offset = sender[n].offset
  PROVE  /\ HeadersTrue' /\ Waiting' /\ EarlierDone'
         /\ N' = N /\ (Answered(N)' <=> Answered(N)) /\ (Upgraded' <=> Upgraded)
<1>1. N' = N
  BY DEF N
<1>2. \A n : Answered(n)' = Answered(n)
  BY DEF Answered
<1>3. HeadersTrue'
  BY DEF SessionInv, HeadersTrue
<1>4. Waiting'
  BY <1>1, <1>2 DEF SessionInv, Waiting, Upgraded
<1>5. EarlierDone'
  BY <1>1 DEF SessionInv, EarlierDone
<1> QED
  BY <1>1, <1>2, <1>3, <1>4, <1>5 DEF Upgraded, Answered

(* The poller's tasks, without the first perhaps, and a pump that reads.   *)
LEMMA Pump ==
  ASSUME SessionInv, conn = "open", NEW n, Pumped(n), NEW queue \in Seq(Tasks), NEW sent \in Nat,
         Waits(queue, N, sent, sender[N], requests[N].has),
         \A i \in DOMAIN queue : queue[i].task = "data" => Pumped(queue[i].of),
         n = N /\ ~sender[N]._read_complete => sent <= sender[N].offset,
         OnSocketFlushed(n, queue), UNCHANGED requests
  PROVE  /\ tasks' \in Seq(Tasks) /\ sender' \in Seq(Sender) /\ Len(sender') = N
         /\ Waits(tasks', N, sent, sender'[N], requests[N].has)
         /\ \A i \in DOMAIN tasks' : tasks'[i].task = "data" => Pumped(tasks'[i].of)
         /\ \A m \in 1..(N - 1) : sender'[m].offset = sender[m].offset
         /\ sender[N].offset <= sender'[N].offset
         /\ CloseIn(tasks') =>
              \/ CloseIn(queue)
              \/ n = N /\ sender[N]._read_complete /\ requests[N].close
<1>0. /\ n \in 1..N /\ N \in Nat /\ N \in 1..N /\ requests[n].method = "GET"
      /\ sender \in Seq(Sender) /\ Len(sender) = N
      /\ sender[n] \in Sender /\ sender[N] \in Sender
      /\ requests[n].has \in Nat /\ requests[N].has \in Nat
  <2>1. N \in Nat /\ n \in 1..N /\ requests[n].method = "GET"
    BY LenProperties DEF SessionInv, SessionTypes, N, Pumped
  <2>2. N \in 1..N
    BY <2>1
  <2> QED
    BY <2>1, <2>2, RequestTypes DEF SessionInv, SessionTypes
<1>1. CASE sender[n]._read_complete
  <2>1. sender' = sender
        /\ tasks' = IF requests[n].close THEN Shutdown(queue, "completed") ELSE queue
    BY <1>1 DEF OnSocketFlushed
  <2>2. n # N => ~requests[n].close
    BY <1>0 DEF SessionInv, EarlierDone
  <2>3. /\ tasks' \in Seq(Tasks)
        /\ Waits(tasks', N, sent, sender[N], requests[N].has)
        /\ \A i \in DOMAIN tasks' : tasks'[i].task = "data" => i \in DOMAIN queue /\ queue[i] = tasks'[i]
    BY <2>1, ShutdownWaits
  <2>4. sender[N].offset <= sender[N].offset
    BY <1>0 DEF Sender
  <2>5. CloseIn(tasks') => CloseIn(queue) \/ (n = N /\ sender[N]._read_complete /\ requests[N].close)
    BY <1>1, <2>1, <2>2
  <2>6. \A i \in DOMAIN tasks' : tasks'[i].task = "data" => Pumped(tasks'[i].of)
    BY <2>3
  <2> QED
    BY <1>0, <2>1, <2>3, <2>4, <2>5, <2>6
<1>2. CASE ~sender[n]._read_complete
  <2> DEFINE next == NextPart(sender[n], requests[n].has)
             k == IF next = 0 THEN sender[n].offset ELSE next
  <2>1. ReadData(n) = next /\ next \in Nat /\ k \in Nat /\ sender[n].offset <= k
    <3>1. PICK offset \in Nat : offset = sender[n].offset
      BY <1>0 DEF Sender
    <3>2. next = IF offset < requests[n].has THEN offset + 1 ELSE 0
      BY <3>1 DEF NextPart
    <3>3. ReadData(n) = next
      BY <3>1, <3>2 DEF ReadData
    <3> HIDE DEF next
    <3> QED
      BY <1>0, <3>1, <3>2, <3>3
  <2>2. tasks' = Append(queue, Data(n, next)) /\ sender' = [sender EXCEPT ![n].offset = k]
    BY <1>2, <2>1 DEF OnSocketFlushed
  <2>3. /\ sender' \in Seq(Sender) /\ Len(sender') = N
        /\ sender'[n] \in Sender
        /\ sender'[n].offset = k /\ sender'[n]._read_complete = sender[n]._read_complete
        /\ \A m \in 1..N : m # n => sender'[m] = sender[m]
    <3>1. n \in 1..Len(sender) /\ k \in Nat
      BY <1>0, <2>1
    <3>2. sender \in Seq(Sender) /\ Len(sender) = N /\ sender' = [sender EXCEPT ![n].offset = k]
      BY <1>0, <2>2
    <3> HIDE DEF k
    <3> QED
      BY ONLY <3>1, <3>2, SenderRead
  <2>4. /\ tasks' \in Seq(Tasks)
        /\ DOMAIN tasks' = 1..(Len(queue) + 1) /\ DOMAIN queue = 1..Len(queue) /\ Len(queue) \in Nat
        /\ \A i \in DOMAIN queue : tasks'[i] = queue[i]
        /\ tasks'[Len(queue) + 1] = Data(n, next)
    <3>1. Data(n, next) \in Tasks
      BY <1>0, <2>1, TaskTypes
    <3> HIDE DEF next
    <3> QED
      BY <2>2, <3>1, QueueAppend
  <2>5. Data(n, next).task = "data" /\ Data(n, next).of = n
    BY DEF Data
  <2> HIDE DEF next, k
  <2>6. \A i \in DOMAIN tasks' : i \in DOMAIN queue \/ i = Len(queue) + 1
    BY <2>4
  <2>7. \A i \in DOMAIN tasks' : tasks'[i].task = "data" => Pumped(tasks'[i].of)
    BY <2>4, <2>5, <2>6
  <2>8. CloseIn(tasks') => CloseIn(queue)
    BY <2>4, <2>5, <2>6 DEF CloseIn
  <2>9. CASE n = N
    <3>1. Waits(tasks', N, sent, sender'[N], requests[N].has)
      <4>1. /\ sender[N] \in Sender /\ sender'[N] \in Sender /\ N \in Nat
            /\ ~sender[N]._read_complete /\ sender'[N]._read_complete = sender[N]._read_complete
            /\ sent <= sender[N].offset /\ requests[N].has \in Nat
            /\ Waits(queue, N, sent, sender[N], requests[N].has)
        BY <1>0, <1>2, <2>3, <2>9
      <4>2. sender'[N].offset = IF NextPart(sender[N], requests[N].has) = 0
                                THEN sender[N].offset ELSE NextPart(sender[N], requests[N].has)
        BY <2>3, <2>9 DEF next, k
      <4>3. tasks' = Append(queue, Data(N, NextPart(sender[N], requests[N].has)))
        BY <2>2, <2>9 DEF next
      <4> QED
        BY <4>1, <4>2, <4>3, PumpOwn
    <3> QED
      BY <1>0, <2>1, <2>3, <2>4, <2>7, <2>8, <2>9, <3>1
  <2>10. CASE n # N
    <3>1. sender[n].offset = requests[n].has
      BY <1>0, <2>10 DEF SessionInv, EarlierDone
    <3>2. next = 0 /\ k = sender[n].offset
      BY <1>0, <3>1 DEF next, k, NextPart
    <3>3. Waits(tasks', N, sent, sender'[N], requests[N].has)
      BY <1>0, <2>2, <2>3, <2>10, <3>2, PumpEarlier
    <3>4. sender[N].offset <= sender'[N].offset
      BY <1>0, <2>3, <2>10 DEF Sender
    <3>5. \A m \in 1..(N - 1) : sender'[m].offset = sender[m].offset
      BY <1>0, <2>3, <3>2
    <3> QED
      BY <2>3, <2>4, <2>7, <2>8, <3>3, <3>4, <3>5
  <2> QED
    BY <2>9, <2>10
<1> QED
  BY <1>1, <1>2

InStream == \A i \in DOMAIN Stream : Stream[i].of \in 1..N

(* The stream is as it was.                                                *)
LEMMA StreamSame ==
  ASSUME SessionInv, UNCHANGED <<requests, Stream>>,
         \A n \in 1..N : LastPart(n)' = LastPart(n)
  PROVE  ResponsesInOrder' /\ InStream'
<1>1. N' = N /\ \A i \in DOMAIN Stream : Stream[i].of \in 1..N /\ Stream'[i] = Stream[i]
  BY DEF SessionInv, N
<1>2. DOMAIN Stream = 1..Len(Stream) /\ Len(Stream) \in Nat
  BY StreamTyped DEF SessionInv
<1>3. ASSUME NEW i \in 1..(Len(Stream) - 1) PROVE Follows(Stream[i], Stream[i + 1])'
  <2>1. i \in DOMAIN Stream /\ i + 1 \in DOMAIN Stream
    BY <1>2
  <2>2. PICK m \in 1..N, k \in 1..N : m = Stream[i].of /\ k = Stream[i + 1].of
    BY <1>1, <2>1
  <2>3. LastPart(m)' = LastPart(m) /\ LastPart(k)' = LastPart(k)
    OBVIOUS
  <2>4. Follows(Stream[i], Stream[i + 1])
    BY DEF SessionInv, ResponsesInOrder
  <2> QED
    BY <1>1, <2>1, <2>2, <2>3, <2>4 DEF Follows
<1> QED
  BY <1>1, <1>2, <1>3 DEF InStream, ResponsesInOrder, SessionInv

LEMMA PartSent == SessionInv /\ OnRequestData => SessionInv'
<1> SUFFICES ASSUME SessionInv, OnRequestData PROVE SessionInv'
  OBVIOUS
<1>1. /\ conn = "open" /\ tasks # <<>> /\ PartAt(tasks, 1) /\ tasks \in Seq(Tasks)
      /\ Head(tasks) = tasks[1] /\ 1 \in DOMAIN tasks
      /\ Tail(tasks) \in Seq(Tasks)
  BY QueueTail DEF OnRequestData, SessionInv, SessionTypes, PartAt
<1>2. /\ UNCHANGED <<conn, requests, _contentCallBack, headers, onFlush, received, frames>>
      /\ Send(Part(Head(tasks).of, Head(tasks).buf))
      /\ IF SocketBusy(buffered')
         THEN tasks' = Tail(tasks) /\ sender' = sender
         ELSE OnSocketFlushed(Head(tasks).of, Tail(tasks))
  BY DEF OnRequestData, input
<1>3. requests # <<>> /\ Pumped(Head(tasks).of)
  <2>1. Pumped(Head(tasks).of)
    BY <1>1 DEF SessionInv, PumpsFiles, PartAt
  <2>2. requests # <<>>
    BY <2>1, EmptySeq DEF Pumped, N
  <2> QED
    BY <2>1, <2>2
<1>4. /\ N \in Nat \ {0} /\ N \in 1..N /\ SentTo \in Nat
      /\ StreamEnds /\ PartsWait /\ PumpsFiles
  BY <1>1, <1>3, SentTyped
<1>5. requests[N].has \in Nat /\ sender[N] \in Sender /\ \A n \in 1..N : LastPart(n) \in Nat
  BY <1>4, RequestTypes DEF SessionInv
<1>6. /\ Head(tasks).of = N /\ Head(tasks).buf = SentTo + 1 /\ ~sender[N]._read_complete
      /\ SentTo + 1 <= sender[N].offset /\ sender[N].offset <= requests[N].has
      /\ Waits(Tail(tasks), N, SentTo + 1, sender[N], requests[N].has)
  <2>1. Waits(tasks, N, SentTo, sender[N], requests[N].has)
    BY <1>4 DEF PartsWait
  <2>2. sender[N].offset <= requests[N].has
    BY <2>1 DEF Waits
  <2> QED
    BY <1>1, <1>4, <1>5, <2>1, <2>2, PopPart
<1>7. requests[N].method = "GET" /\ ~Upgraded /\ LastPart(N) = requests[N].has
  BY <1>3, <1>6, <1>4 DEF Pumped, SessionInv, Waiting, LastPart
<1>8. Answered(N) /\ Stream # <<>> /\ Stream[Len(Stream)] = Part(N, SentTo)
  BY <1>3, <1>4, <1>7 DEF SessionInv, Waiting, StreamEnds
<1>9. PICK part \in Parts : part = Part(N, SentTo + 1)
  <2>1. Part(N, SentTo + 1) \in Parts
    BY <1>4 DEF Parts, Part
  <2> QED
    BY <2>1
<1>10. /\ Stream' = Append(Stream, part)
       /\ kernel' \in Seq(Parts) /\ Len(kernel') <= KernelCap
         /\ buffered' \in Seq(Parts) /\ watched' \in BOOLEAN
  BY <1>2, <1>6, <1>9, SendStream DEF SessionInv
<1>11. \A i \in DOMAIN Tail(tasks) : Tail(tasks)[i].task = "data" => Pumped(Tail(tasks)[i].of)
  BY <1>1, <1>4, QueueTail DEF PumpsFiles
<1>12. /\ tasks' \in Seq(Tasks) /\ sender' \in Seq(Sender) /\ Len(sender') = N
       /\ Waits(tasks', N, SentTo + 1, sender'[N], requests[N].has)
       /\ \A i \in DOMAIN tasks' : tasks'[i].task = "data" => Pumped(tasks'[i].of)
       /\ \A m \in 1..(N - 1) : sender'[m].offset = sender[m].offset
       /\ sender[N].offset <= sender'[N].offset
       /\ CloseIn(tasks') => CloseIn(Tail(tasks))
  <2>1. CASE SocketBusy(buffered')
    <3>1. tasks' = Tail(tasks) /\ sender' = sender /\ sender[N].offset <= sender[N].offset
      BY <1>2, <1>5, <2>1 DEF Sender
    <3> QED
      BY <1>1, <1>6, <1>11, <3>1 DEF SessionInv, SessionTypes
  <2>2. CASE ~SocketBusy(buffered')
    <3>1. OnSocketFlushed(N, Tail(tasks)) /\ SentTo + 1 \in Nat /\ Pumped(N)
      BY <1>2, <1>3, <1>4, <1>6, <2>2
    <3> QED
      BY <1>1, <1>2, <1>6, <1>11, <3>1, Pump
  <2> QED
    BY <2>1, <2>2
<1>13. HeadersTrue' /\ Waiting' /\ EarlierDone' /\ N' = N /\ Answered(N)' /\ ~Upgraded'
  <2>1. \A p : Contains(received, p) => Contains(received, p)'
    BY <1>2 DEF Contains
  <2> QED
    BY <1>2, <1>7, <1>8, <1>12, <2>1, SteadyKeeps
<1>14. \A n \in 1..N : LastPart(n)' = LastPart(n)
  BY <1>2 DEF LastPart
<1>15. ResponsesInOrder' /\ InStream'
  <2>1. \A n \in 1..N : LastPart(n)' \in Nat /\ LastPart(n) <= LastPart(n)'
    BY <1>5, <1>14
  <2>2. part.of = N /\ part.at = SentTo + 1 /\ part.at <= LastPart(part.of)'
    BY <1>4, <1>6, <1>7, <1>9, <1>14, <1>5 DEF Part, Sender
  <2>3. Stream[Len(Stream)].of = N /\ Stream[Len(Stream)].at = SentTo
    BY <1>8 DEF Part
  <2> QED
    BY <1>4, <1>8, <1>10, <1>13, <1>14, <2>1, <2>2, <2>3, OrderGrows DEF SessionInv, InStream
<1>16. SentTo' = SentTo + 1 /\ Stream' # <<>> /\ Stream'[Len(Stream')] = Part(N, SentTo + 1)
  <2>1. Stream \in Seq(Parts)
    BY StreamTyped DEF SessionInv
  <2>2. Stream' # <<>> /\ Stream'[Len(Stream')] = part
    BY <1>10, <2>1, AppendProperties
  <2> QED
    BY <1>9, <1>13, <2>2 DEF SentTo, Part
<1>17. StreamEnds'
  <2>1. SentTo' <= LastPart(N)'
    BY <1>4, <1>5, <1>6, <1>7, <1>13, <1>14, <1>16 DEF Sender
  <2> QED
    BY <1>13, <1>16, <2>1 DEF StreamEnds
<1>18. PartsWait'
  <2>1. SentTo' <= sender'[N].offset
    <3>1. sender'[N].offset \in Nat
      <4>1. sender'[N] \in Sender
        BY <1>4, <1>12, ElementOfSeq
      <4> QED
        BY <4>1 DEF Sender
    <3> QED
      BY <1>4, <1>5, <1>6, <1>12, <1>16, <3>1 DEF Sender
  <2> QED
    BY <1>2, <1>12, <1>13, <1>16, <2>1 DEF PartsWait
<1>19. PumpsFiles'
  BY <1>2, <1>4, <1>12, <1>13 DEF PumpsFiles, Pumped
<1>20. ~Closing'
  <2>1. CloseIn(Tail(tasks)) => CloseIn(tasks)
    BY <1>1, QueueTail DEF CloseIn
  <2>2. ~CloseIn(tasks)
    <3> SUFFICES ASSUME CloseIn(tasks) PROVE FALSE
      OBVIOUS
    <3>1. Part(N, SentTo) = Part(N, requests[N].has)
      BY <1>7, <1>8 DEF SessionInv, Closing, Finished
    <3> QED
      BY <1>4, <1>5, <1>6, <3>1 DEF Part, Sender
  <2> QED
    BY <1>1, <1>2, <1>12, <2>1, <2>2 DEF Closing
<1>21. SessionTypes'
  BY <1>2, <1>10, <1>12, <1>13 DEF SessionInv, SessionTypes, Headers
<1> QED
  BY <1>1, <1>2, <1>13, <1>15, <1>17, <1>18, <1>19, <1>20, <1>21 DEF SessionInv, InStream

(* Steps that send nothing.                                                *)
LEMMA QuietKeeps ==
  ASSUME SessionInv, SessionTypes', conn = "open", conn' = "open",
         UNCHANGED <<requests, headers, Stream, frames, received>>, Waiting', Upgraded' <=> Upgraded,
         buffered = <<>> => buffered' = <<>>, kernel = <<>> /\ buffered = <<>> => kernel' = <<>>,
         \A n \in 1..(N - 1) : sender'[n].offset = sender[n].offset,
         requests # <<>> =>
           /\ Waits(tasks', N, SentTo, sender'[N], requests[N].has)
           /\ sender[N].offset <= sender'[N].offset
           /\ ~Answered(N) => sender'[N].offset = 0,
         PumpsFiles',
         CloseIn(tasks') /\ ~Upgraded => CloseIn(tasks) \/ Finished'
  PROVE  SessionInv'
<1>1. N' = N /\ \A n : Answered(n)' <=> Answered(n)
  BY DEF N, Answered
<1>2. \A n \in 1..N : LastPart(n)' = LastPart(n)
  BY DEF LastPart
<1>3. ResponsesInOrder' /\ InStream'
  BY <1>2, StreamSame
<1>4. HeadersTrue' /\ EarlierDone'
  BY <1>1 DEF SessionInv, HeadersTrue, EarlierDone, Contains
<1>5. ASSUME requests # <<>> PROVE StreamEnds' /\ PartsWait'
  <2>1. /\ N \in Nat \ {0} /\ N \in 1..N /\ SentTo \in Nat /\ StreamEnds /\ PartsWait
    BY <1>5, SentTyped
  <2>2. SentTo' = SentTo
    BY <1>1 DEF SentTo
  <2>3. sender[N] \in Sender /\ sender'[N] \in Sender
    BY <1>1, <2>1, RequestTypes, ElementOfSeq DEF SessionInv, SessionTypes
  <2>4. sender[N].offset \in Nat /\ sender'[N].offset \in Nat
    BY <2>3 DEF Sender
  <2>5. ~Upgraded => SentTo <= sender'[N].offset
    BY <1>5, <2>1, <2>4 DEF PartsWait
  <2>6. PartsWait'
    BY <1>1, <1>5, <2>2, <2>5 DEF PartsWait
  <2>7. LastPart(N)' = LastPart(N)
    BY <1>1 DEF LastPart
  <2>8. StreamEnds'
    BY <1>1, <2>1, <2>2, <2>7 DEF StreamEnds
  <2> QED
    BY <2>6, <2>8
<1>6. Closing' /\ ~Upgraded' => Finished'
  <2>1. Closing' => CloseIn(tasks')
    BY DEF Closing
  <2>2. CloseIn(tasks) /\ ~Upgraded => Finished
    BY DEF SessionInv, Closing
  <2>3. Finished => Finished'
    BY <1>1 DEF Finished
  <2> QED
    BY <2>1, <2>2, <2>3
<1> QED
  BY <1>3, <1>4, <1>5, <1>6 DEF SessionInv, InStream

LEMMA EndRead == SessionInv /\ OnRequestDataEnd => SessionInv'
<1> SUFFICES ASSUME SessionInv, OnRequestDataEnd PROVE SessionInv'
  OBVIOUS
<1> DEFINE n == Head(tasks).of
<1>1. /\ conn = "open" /\ tasks # <<>> /\ tasks \in Seq(Tasks)
      /\ Head(tasks) = tasks[1] /\ 1 \in DOMAIN tasks
      /\ Head(tasks).task = "data" /\ Head(tasks).buf = 0
      /\ Tail(tasks) \in Seq(Tasks)
  BY QueueTail DEF OnRequestDataEnd, SessionInv, SessionTypes
<1>2. /\ UNCHANGED <<conn, requests, _contentCallBack, headers, onFlush, buffered, kernel, watched,
                     received, frames>>
      /\ sender' = [sender EXCEPT ![n]._read_complete = TRUE]
      /\ tasks' = IF ~SocketBusy(buffered) /\ requests[n].close
                  THEN Shutdown(Tail(tasks), "completed") ELSE Tail(tasks)
  BY DEF OnRequestDataEnd, input, wire
<1>3. requests # <<>> /\ Pumped(n)
  <2>1. Pumped(n)
    BY <1>1 DEF SessionInv, PumpsFiles
  <2>2. requests # <<>>
    BY <2>1, EmptySeq DEF Pumped, N
  <2> QED
    BY <2>1, <2>2
<1>4. /\ N \in Nat \ {0} /\ N \in 1..N /\ SentTo \in Nat
      /\ StreamEnds /\ PartsWait /\ PumpsFiles
  BY <1>1, <1>3, SentTyped
<1>5. n \in 1..N /\ requests[n].method = "GET" /\ sender \in Seq(Sender) /\ Len(sender) = N
  BY <1>3 DEF Pumped, SessionInv, SessionTypes
<1> HIDE DEF n
<1>6. /\ sender' \in Seq(Sender) /\ Len(sender') = N
      /\ sender'[n].offset = sender[n].offset /\ sender'[n]._read_complete = TRUE
      /\ \A m \in 1..N : m # n => sender'[m] = sender[m]
  BY <1>2, <1>5, SenderEnds
<1>7. /\ Waits(Tail(tasks), N, SentTo, sender[N], requests[N].has)
      /\ n = N => sender[N].offset = requests[N].has
                  /\ \A i \in DOMAIN Tail(tasks) : ~PartAt(Tail(tasks), i)
  <2>1. ~PartAt(tasks, 1) /\ (n = N => EndAt(tasks, N, 1))
    BY <1>1 DEF PartAt, EndAt, n
  <2>2. Waits(tasks, N, SentTo, sender[N], requests[N].has)
    BY <1>4 DEF PartsWait
  <2> QED
    BY <1>1, <2>1, <2>2, PopOther
<1>8. Waits(Tail(tasks), N, SentTo, sender'[N], requests[N].has)
  <2>1. CASE n = N
    BY <1>4, <1>6, <1>7, <2>1 DEF Waits
  <2>2. CASE n # N
    BY <1>4, <1>6, <1>7, <2>2
  <2> QED
    BY <2>1, <2>2
<1>9. /\ tasks' \in Seq(Tasks)
      /\ Waits(tasks', N, SentTo, sender'[N], requests[N].has)
      /\ \A i \in DOMAIN tasks' : tasks'[i].task = "data" =>
           i \in DOMAIN Tail(tasks) /\ Tail(tasks)[i] = tasks'[i]
  <2>1. CASE ~SocketBusy(buffered) /\ requests[n].close
    <3>1. tasks' = Shutdown(Tail(tasks), "completed")
      BY <1>2, <2>1
    <3> QED
      BY <1>1, <1>8, <3>1, ShutdownWaits
  <2>2. CASE ~(~SocketBusy(buffered) /\ requests[n].close)
    <3>1. tasks' = Tail(tasks)
      BY <1>2, <2>2
    <3> QED
      BY <1>1, <1>8, <3>1
  <2> QED
    BY <2>1, <2>2
<1>10. PumpsFiles'
  <2>1. \A i \in DOMAIN Tail(tasks) : Tail(tasks)[i].task = "data" => Pumped(Tail(tasks)[i].of)
    BY <1>1, <1>4, QueueTail DEF PumpsFiles
  <2>2. \A i \in DOMAIN tasks' : tasks'[i].task = "data" => Pumped(tasks'[i].of)
    BY <1>9, <2>1
  <2> QED
    BY <1>2, <1>4, <2>2 DEF PumpsFiles, Pumped, N
<1>11. CloseIn(tasks') => CloseIn(tasks) \/ Finished'
  <2>1. CloseIn(Tail(tasks)) => CloseIn(tasks)
    BY <1>1, QueueTail DEF CloseIn
  <2>2. CASE ~SocketBusy(buffered) /\ requests[n].close
    <3>1. n = N
      BY <1>4, <1>5, <2>2 DEF SessionInv, EarlierDone
    <3>2. buffered' = <<>> /\ Stream' = Stream /\ N' = N
      BY <1>2, <2>2 DEF SocketBusy, Stream, N
    <3>3. requests[N].has \in Nat /\ LastPart(N) = requests[N].has
      BY <1>4, <1>5, <3>1, RequestTypes DEF LastPart, SessionInv
    <3>4. Answered(N)
      BY <1>3, <1>5, <3>1 DEF SessionInv, Waiting
    <3>5. \E h \in headers : h.of = N /\ h.close
      BY <1>5, <2>2, <3>1, <3>4 DEF Answered, SessionInv, HeadersTrue
    <3>6. SentTo = requests[N].has
      <4>1. SentTo <= requests[N].has /\ sender[N].offset = requests[N].has
        BY <1>4, <1>7, <3>1, <3>3 DEF StreamEnds
      <4>2. ~(SentTo + 1 <= requests[N].has)
        <5> SUFFICES ASSUME SentTo + 1 <= requests[N].has PROVE FALSE
          OBVIOUS
        <5>1. requests[N].has \in (SentTo + 1)..sender[N].offset
          BY <1>4, <3>3, <4>1
        <5> QED
          BY <1>7, <3>1, <5>1 DEF Waits
      <4> QED
        BY <1>4, <3>3, <4>1, <4>2
    <3>7. Stream # <<>> /\ Stream[Len(Stream)] = Part(N, requests[N].has)
      BY <1>4, <3>4, <3>6 DEF StreamEnds
    <3> QED
      BY <1>2, <1>3, <3>2, <3>5, <3>7 DEF Finished
  <2>3. CASE ~(~SocketBusy(buffered) /\ requests[n].close)
    BY <1>2, <2>1, <2>3
  <2> QED
    BY <2>2, <2>3
<1>12. SessionTypes'
  BY <1>2, <1>6, <1>9 DEF SessionInv, SessionTypes, N, Headers
<1>13. Waiting' /\ (Upgraded' <=> Upgraded) /\ Stream' = Stream
  BY <1>2 DEF SessionInv, Waiting, Upgraded, Answered, N, Stream
<1>14. /\ \A m \in 1..(N - 1) : sender'[m].offset = sender[m].offset
       /\ sender'[N].offset = sender[N].offset /\ sender[N].offset \in Nat
  <2>1. sender[N] \in Sender
    BY <1>4, RequestTypes DEF SessionInv
  <2>2. \A m \in 1..N : sender'[m].offset = sender[m].offset
    BY <1>6
  <2> QED
    BY <1>4, <2>1, <2>2 DEF Sender
<1>15. ~Answered(N) => sender'[N].offset = 0
  BY <1>4, <1>14 DEF PartsWait
<1> QED
  BY <1>1, <1>2, <1>9, <1>10, <1>11, <1>12, <1>13, <1>14, <1>15, QuietKeeps

LEMMA WriteEventKeeps == SessionInv /\ WriteEvent => SessionInv'
<1> SUFFICES ASSUME SessionInv, WriteEvent PROVE SessionInv'
  OBVIOUS
<1> DEFINE room == KernelCap - Len(kernel)
<1>1. /\ conn = "open" /\ watched
      /\ UNCHANGED <<conn, requests, _contentCallBack, headers, received, frames>>
      /\ \/ /\ Len(buffered) > room
            /\ kernel' = kernel \o SubSeq(buffered, 1, room)
            /\ buffered' = SubSeq(buffered, room + 1, Len(buffered))
            /\ UNCHANGED <<sender, tasks, onFlush, watched>>
         \/ /\ ~(Len(buffered) > room)
            /\ kernel' = kernel \o buffered
            /\ buffered' = <<>>
            /\ watched' = FALSE
            /\ IF onFlush = 0
               THEN UNCHANGED <<sender, tasks, onFlush>>
               ELSE /\ OnSocketFlushed(onFlush, tasks)
                    /\ onFlush' = IF sender[onFlush]._read_complete THEN 0 ELSE onFlush
  BY DEF WriteEvent, input
<1>2. /\ buffered \in Seq(Parts) /\ kernel \in Seq(Parts) /\ received \in Seq(Parts)
      /\ Len(buffered) \in Nat /\ Len(kernel) \in Nat /\ tasks \in Seq(Tasks)
      /\ sender \in Seq(Sender) /\ Len(sender) = N
      /\ Len(kernel) <= KernelCap /\ KernelCap \in Nat
  BY LenProperties, BoundAssumption DEF SessionInv, SessionTypes
<1>3. /\ buffered' \in Seq(Parts) /\ kernel' \in Seq(Parts) /\ Len(kernel') <= KernelCap
      /\ kernel' \o buffered' = kernel \o buffered
      /\ buffered = <<>> => buffered' = <<>>
      /\ kernel = <<>> /\ buffered = <<>> => kernel' = <<>>
  <2>1. CASE Len(buffered) > room /\ kernel' = kernel \o SubSeq(buffered, 1, room)
             /\ buffered' = SubSeq(buffered, room + 1, Len(buffered))
    <3>1. buffered # <<>> /\ room \in Nat
      <4>1. room \in Nat
        BY <1>2
      <4>2. buffered # <<>>
        BY <1>2, <2>1, <4>1
      <4> QED
        BY <4>1, <4>2
    <3> HIDE DEF room
    <3> DEFINE first == SubSeq(buffered, 1, room)
               rest == SubSeq(buffered, room + 1, Len(buffered))
    <3>2. \A i \in 1..Len(buffered) : buffered[i] \in Parts
      BY <1>2, ElementOfSeq
    <3>3. first \in Seq(Parts) /\ rest \in Seq(Parts)
      <4>1. \A i \in 1..room : buffered[i] \in Parts
        BY <1>2, <2>1, <3>1, <3>2
      <4>2. \A i \in (room + 1)..Len(buffered) : buffered[i] \in Parts
        BY <1>2, <2>1, <3>1, <3>2
      <4> QED
        BY <1>2, <3>1, <4>1, <4>2, SubSeqProperties
    <3>4. first \o rest = buffered
      <4>1. first \o rest = SubSeq(buffered, 1, Len(buffered))
        <5>1. /\ 1 \in 1..(Len(buffered) + 1) /\ room \in (1 - 1)..Len(buffered)
              /\ Len(buffered) \in room..Len(buffered)
          BY <1>2, <2>1, <3>1
        <5> QED
          BY <1>2, <5>1, ConcatAdjacentSubSeq
      <4> QED
        BY <1>2, <4>1, SubSeqFull
    <3>5. (kernel \o first) \o rest = kernel \o (first \o rest)
      <4>1. PICK a, b, c : a = kernel /\ b = first /\ c = rest
        OBVIOUS
      <4> HIDE DEF first, rest
      <4>2. a \in Seq(Parts) /\ b \in Seq(Parts) /\ c \in Seq(Parts)
        BY <1>2, <3>3, <4>1
      <4>3. (a \o b) \o c = a \o (b \o c)
        BY ONLY <4>2, ConcatAssociative
      <4> QED
        BY <4>1, <4>3
    <3>6. kernel \o first \in Seq(Parts) /\ Len(kernel \o first) = Len(kernel) + Len(first)
      BY <1>2, <3>3, ConcatProperties
    <3>7. Len(first) = room
      <4>1. \A i \in 1..room : buffered[i] \in Parts
        BY <1>2, <2>1, <3>1, <3>2
      <4> QED
        BY <3>1, <4>1, SubSeqProperties
    <3>8. Len(kernel \o first) <= KernelCap
      BY <1>2, <3>6, <3>7 DEF room
    <3> QED
      BY <2>1, <3>1, <3>3, <3>4, <3>5, <3>6, <3>8
  <2>2. CASE ~(Len(buffered) > room) /\ kernel' = kernel \o buffered /\ buffered' = <<>>
    <3>0. kernel' \in Seq(Parts) /\ Len(kernel') = Len(kernel) + Len(buffered) /\ buffered' \in Seq(Parts)
      BY <1>2, <2>2, ConcatProperties
    <3>1. kernel' \in Seq(Parts) /\ buffered' \in Seq(Parts) /\ Len(kernel') <= KernelCap
      BY <1>2, <2>2, <3>0
    <3>2. kernel' \o buffered' = kernel \o buffered
      BY <2>2, <3>1, ConcatEmptySeq
    <3>3. kernel = <<>> /\ buffered = <<>> => kernel' = <<>>
      BY <1>2, <2>2, ConcatEmptySeq
    <3> QED
      BY <2>2, <3>1, <3>2, <3>3
  <2> QED
    BY <1>1, <2>1, <2>2
<1>4. Stream' = Stream
  <2>0. \A a, b, c \in Seq(Parts) : (a \o b) \o c = a \o (b \o c)
    BY ConcatAssociative
  <2>1. Stream = received \o (kernel \o buffered)
    BY <1>2, <2>0 DEF Stream
  <2>2. Stream' = received \o (kernel' \o buffered')
    BY <1>1, <1>2, <1>3, <2>0 DEF Stream
  <2> QED
    BY <1>3, <2>1, <2>2
<1>5. Waiting' /\ (Upgraded' <=> Upgraded) /\ N' = N
  BY <1>1 DEF SessionInv, Waiting, Upgraded, Answered, N
<1>6. PumpsFiles
  BY <1>1 DEF SessionInv
<1>7. CASE UNCHANGED <<sender, tasks, onFlush>>
  <2>1. SessionTypes'
    BY <1>1, <1>3, <1>7 DEF SessionInv, SessionTypes, N, Headers
  <2>2. PumpsFiles'
    BY <1>1, <1>6, <1>7 DEF PumpsFiles, Pumped, N
  <2>3. requests # <<>> => /\ Waits(tasks', N, SentTo, sender'[N], requests[N].has)
                           /\ sender[N].offset <= sender'[N].offset
                           /\ ~Answered(N) => sender'[N].offset = 0
    <3> SUFFICES ASSUME requests # <<>>
                 PROVE  /\ Waits(tasks', N, SentTo, sender'[N], requests[N].has)
                        /\ sender[N].offset <= sender'[N].offset
                        /\ ~Answered(N) => sender'[N].offset = 0
      OBVIOUS
    <3>1. N \in 1..N /\ PartsWait
      BY <1>1, SentTyped
    <3>2. sender[N] \in Sender
      BY <3>1, RequestTypes DEF SessionInv
    <3> QED
      BY <1>7, <3>1, <3>2 DEF PartsWait, Sender
  <2> QED
    BY <1>1, <1>3, <1>4, <1>5, <1>7, <2>1, <2>2, <2>3, QuietKeeps
<1>8. CASE ~UNCHANGED <<sender, tasks, onFlush>>
  <2>1. /\ onFlush # 0 /\ OnSocketFlushed(onFlush, tasks) /\ buffered' = <<>> /\ watched' = FALSE
        /\ onFlush' = 0 \/ onFlush' = onFlush
    BY <1>1, <1>8
  <2>2. requests # <<>> /\ Pumped(onFlush)
    <3>1. Pumped(onFlush)
      BY <1>6, <2>1 DEF PumpsFiles
    <3>2. requests # <<>>
      BY <3>1, EmptySeq DEF Pumped, N
    <3> QED
      BY <3>1, <3>2
  <2>3. /\ N \in Nat \ {0} /\ N \in 1..N /\ SentTo \in Nat /\ StreamEnds /\ PartsWait
        /\ Waits(tasks, N, SentTo, sender[N], requests[N].has)
    BY <1>1, <2>2, SentTyped DEF PartsWait
  <2>4. PICK n \in 1..N : n = onFlush /\ requests[n].method = "GET"
    BY <2>2 DEF Pumped
  <2>5. n = N => /\ ~Upgraded /\ Answered(N) /\ SentTo <= sender[N].offset
                 /\ LastPart(N) = requests[N].has
    BY <2>2, <2>3, <2>4 DEF PartsWait, SessionInv, Waiting, LastPart
  <2>6. /\ tasks' \in Seq(Tasks) /\ sender' \in Seq(Sender) /\ Len(sender') = N
        /\ Waits(tasks', N, SentTo, sender'[N], requests[N].has)
        /\ \A i \in DOMAIN tasks' : tasks'[i].task = "data" => Pumped(tasks'[i].of)
        /\ \A m \in 1..(N - 1) : sender'[m].offset = sender[m].offset
        /\ sender[N].offset <= sender'[N].offset
        /\ CloseIn(tasks') =>
             \/ CloseIn(tasks)
             \/ n = N /\ sender[N]._read_complete /\ requests[N].close
    <3>1. OnSocketFlushed(n, tasks) /\ Pumped(n)
      BY <2>1, <2>2, <2>4
    <3> QED
      BY <1>1, <1>2, <1>6, <2>3, <2>5, <3>1, Pump DEF PumpsFiles
  <2>7. SessionTypes'
    <3>1. onFlush' \in 0..N
      BY <2>1, <2>3, <2>4
    <3> QED
      BY <1>1, <1>3, <1>5, <2>1, <2>6, <3>1 DEF SessionInv, SessionTypes, Headers
  <2>8. PumpsFiles'
    BY <1>1, <1>5, <1>6, <2>1, <2>6 DEF PumpsFiles, Pumped
  <2>9. ~Answered(N) => sender'[N].offset = 0
    <3>1. ~Answered(N) => n # N
      BY <2>5
    <3>2. ~Answered(N) => requests[N].has = 0
      <4>1. ~Answered(N) => requests[N].method # "GET"
        BY <2>2 DEF SessionInv, Waiting
      <4> QED
        BY <2>3, <4>1, RequestTypes DEF SessionInv
    <3>3. sender'[N] \in Sender
      BY <2>3, <2>6, ElementOfSeq
    <3>4. sender'[N].offset <= requests[N].has
      BY <2>6 DEF Waits
    <3> QED
      BY <3>2, <3>3, <3>4 DEF Sender
  <2>10. CloseIn(tasks') => CloseIn(tasks) \/ Finished'
    <3> SUFFICES ASSUME n = N, sender[N]._read_complete, requests[N].close PROVE Finished'
      BY <2>6
    <3>1. Answered(N) /\ requests[N].method = "GET"
      BY <2>4, <2>5
    <3>2. \E h \in headers : h.of = N /\ h.close
      BY <3>1 DEF Answered, SessionInv, HeadersTrue
    <3>3. requests[N].has \in Nat
      BY <2>3, RequestTypes DEF SessionInv
    <3>4. SentTo = requests[N].has
      <4>1. sender[N].offset = requests[N].has /\ SentTo <= requests[N].has
        BY <2>3, <2>5 DEF Waits, StreamEnds
      <4>2. ~(SentTo + 1 <= requests[N].has)
        <5> SUFFICES ASSUME SentTo + 1 <= requests[N].has PROVE FALSE
          OBVIOUS
        <5>1. requests[N].has \in (SentTo + 1)..sender[N].offset
          BY <2>3, <3>3, <4>1
        <5> QED
          BY <2>3, <5>1 DEF Waits
      <4> QED
        BY <2>3, <3>3, <4>1, <4>2
    <3>5. Stream # <<>> /\ Stream[Len(Stream)] = Part(N, requests[N].has)
      BY <2>3, <3>1, <3>4 DEF StreamEnds
    <3> QED
      BY <1>1, <1>4, <1>5, <2>1, <2>2, <3>2, <3>5 DEF Finished
  <2> QED
    BY <1>1, <1>3, <1>4, <1>5, <2>1, <2>6, <2>7, <2>8, <2>9, <2>10, QuietKeeps
<1> QED
  BY <1>7, <1>8

LEMMA PeerReadsKeeps == SessionInv /\ PeerReads => SessionInv'
<1> SUFFICES ASSUME SessionInv, PeerReads PROVE SessionInv'
  OBVIOUS
<1>1. /\ UNCHANGED <<conn, requests, _contentCallBack, headers, sender, tasks, onFlush, watched,
                     buffered, frames>>
      /\ kernel # <<>> /\ received' = Append(received, Head(kernel)) /\ kernel' = Tail(kernel)
  BY DEF PeerReads, input
<1>2. /\ buffered \in Seq(Parts) /\ kernel \in Seq(Parts) /\ received \in Seq(Parts)
      /\ Head(kernel) \in Parts /\ Tail(kernel) \in Seq(Parts)
      /\ Len(Tail(kernel)) <= KernelCap
  <2>1. kernel \in Seq(Parts) /\ Len(kernel) <= KernelCap /\ Len(kernel) \in Nat
    BY LenProperties DEF SessionInv, SessionTypes
  <2>2. Len(Tail(kernel)) = Len(kernel) - 1 /\ Head(kernel) \in Parts /\ Tail(kernel) \in Seq(Parts)
    BY <1>1, <2>1, HeadTailProperties
  <2>3. Len(Tail(kernel)) <= KernelCap
    BY <2>1, <2>2, BoundAssumption
  <2> QED
    BY <2>1, <2>2, <2>3 DEF SessionInv, SessionTypes
<1>3. received' \in Seq(Parts)
  BY <1>1, <1>2, AppendProperties
<1>4. received' \o kernel' = received \o kernel
  <2>1. kernel = <<Head(kernel)>> \o Tail(kernel)
    BY <1>1, <1>2
  <2>2. received' = received \o <<Head(kernel)>>
    BY <1>1, <1>2, AppendIsConcat
  <2>3. <<Head(kernel)>> \in Seq(Parts)
    BY <1>2
  <2>4. \A a, b, c \in Seq(Parts) : (a \o b) \o c = a \o (b \o c)
    BY ConcatAssociative
  <2> QED
    BY <1>1, <1>2, <2>1, <2>2, <2>3, <2>4
<1>5. Stream' = Stream
  BY <1>1, <1>4 DEF Stream
<1>6. \A part : Contains(received, part) => Contains(received, part)'
  <2>1. Len(received) \in Nat /\ Len(received') = Len(received) + 1
        /\ \A i \in 1..Len(received) : received'[i] = received[i]
    BY <1>1, <1>2, AppendProperties, LenProperties
  <2> QED
    BY <2>1 DEF Contains
<1>7. HeadersTrue' /\ Waiting' /\ EarlierDone' /\ N' = N
  <2>1. \A n \in 1..(N - 1) : sender'[n].offset = sender[n].offset
    BY <1>1
  <2> QED
    BY <1>1, <1>6, <2>1, SteadyKeeps
<1>8. ResponsesInOrder' /\ InStream'
  BY <1>1, <1>5, StreamSame DEF LastPart
<1>9. SessionTypes'
  BY <1>1, <1>2, <1>3, <1>7 DEF SessionInv, SessionTypes, Headers
<1>10. ASSUME conn = "open" PROVE PumpsFiles' /\ (requests # <<>> => StreamEnds' /\ PartsWait')
  <2>1. PumpsFiles'
    BY <1>1, <1>7, <1>10 DEF SessionInv, PumpsFiles, Pumped
  <2>2. (Answered(N)' <=> Answered(N)) /\ SentTo' = SentTo /\ LastPart(N)' = LastPart(N)
    BY <1>1, <1>5, <1>7 DEF Answered, SentTo, LastPart
  <2>3. requests # <<>> => StreamEnds'
    BY <1>1, <1>5, <1>7, <1>10, <2>2 DEF SessionInv, StreamEnds, Upgraded
  <2>4. requests # <<>> => PartsWait'
    BY <1>1, <1>7, <1>10, <2>2 DEF SessionInv, PartsWait, Upgraded
  <2> QED
    BY <2>1, <2>3, <2>4
<1>11. Closing' /\ ~Upgraded' => Finished'
  BY <1>1, <1>5, <1>7 DEF SessionInv, Closing, Finished, Upgraded
<1> QED
  BY <1>1, <1>7, <1>8, <1>9, <1>10, <1>11 DEF SessionInv, InStream

(* The session is gone, and what the kernel had not taken is lost.         *)
LEMMA EndedKeeps ==
  ASSUME SessionInv, conn = "open", NEW why \in {"completed", "timeout", "lost"}, Ended(why),
         UNCHANGED <<requests, _contentCallBack, headers, sender, kernel, received, frames>>,
         why = "completed" => Closing
  PROVE  SessionInv'
<1>1. conn' = why /\ tasks' = <<>> /\ buffered' = <<>> /\ watched' = FALSE /\ onFlush' = 0
  BY DEF Ended
<1>2. HeadersTrue' /\ Waiting' /\ EarlierDone' /\ N' = N
  BY SteadyKeeps DEF Contains
<1>3. SessionTypes'
  <2>1. <<>> \in Seq(Tasks) /\ <<>> \in Seq(Parts) /\ N \in Nat
    BY EmptySeq, LenProperties DEF N, SessionInv, SessionTypes
  <2> QED
    <3>0. onFlush' \in 0..N
      BY <1>1, <2>1
    <3>a. tasks' \in Seq(Tasks) /\ buffered' \in Seq(Parts)
      BY <1>1, <2>1, Zenon
    <3>b. conn' \in {"open", "completed", "timeout", "lost"} /\ watched' \in BOOLEAN
      BY <1>1
    <3>1. onFlush' \in 0..N /\ tasks' \in Seq(Tasks) /\ buffered' \in Seq(Parts)
          /\ conn' \in {"open", "completed", "timeout", "lost"} /\ watched' \in BOOLEAN
      BY <3>0, <3>a, <3>b
    <3>2. SessionTypes
      BY DEF SessionInv
    <3> QED
      BY <1>2, <3>1, <3>2 DEF SessionTypes, Headers
<1>4. /\ Len(Stream') \in Nat /\ Len(Stream') <= Len(Stream) /\ Len(Stream) \in Nat
      /\ DOMAIN Stream' = 1..Len(Stream') /\ DOMAIN Stream = 1..Len(Stream)
      /\ \A i \in 1..Len(Stream') : Stream'[i] = Stream[i]
  <2>1. /\ received \o kernel \in Seq(Parts) /\ buffered \in Seq(Parts)
    BY ConcatProperties DEF SessionInv, SessionTypes
  <2>2. Stream' = received \o kernel
    BY <1>1, <2>1, ConcatEmptySeq DEF Stream
  <2>3. /\ Len(Stream) = Len(received \o kernel) + Len(buffered)
        /\ \A i \in 1..(Len(received \o kernel) + Len(buffered)) :
             Stream[i] = IF i <= Len(received \o kernel) THEN (received \o kernel)[i]
                         ELSE buffered[i - Len(received \o kernel)]
    BY <2>1, ConcatProperties DEF Stream
  <2>4. Len(buffered) \in Nat /\ Len(received \o kernel) \in Nat
        /\ DOMAIN (received \o kernel) = 1..Len(received \o kernel)
    BY <2>1, LenProperties
  <2>5. DOMAIN Stream = 1..Len(Stream)
    BY StreamTyped DEF SessionInv
  <2> QED
    BY <2>2, <2>3, <2>4, <2>5
<1>5. ResponsesInOrder' /\ InStream'
  <2>1. \A n : LastPart(n)' = LastPart(n)
    BY DEF LastPart
  <2>2. ASSUME NEW i \in 1..(Len(Stream') - 1) PROVE Follows(Stream[i], Stream[i + 1])'
    <3>1. /\ i \in 1..(Len(Stream) - 1) /\ Stream'[i] = Stream[i] /\ Stream'[i + 1] = Stream[i + 1]
      BY <1>4
    <3>2. Follows(Stream[i], Stream[i + 1])
      BY <3>1 DEF SessionInv, ResponsesInOrder
    <3> QED
      BY <3>1, <3>2 DEF Follows, LastPart
  <2>3. Stream' # <<>> => Stream'[1] = Part(1, 0)
    <3> SUFFICES ASSUME Stream' # <<>> PROVE Stream'[1] = Part(1, 0)
      OBVIOUS
    <3>1. Stream' \in Seq(Parts)
      BY <1>3, ConcatProperties DEF SessionTypes, Stream
    <3>2. 1 \in 1..Len(Stream') /\ Stream # <<>>
      BY <1>4, <3>1, EmptySeq
    <3> QED
      BY <1>4, <3>2 DEF SessionInv, ResponsesInOrder
  <2>4. InStream'
    BY <1>2, <1>4 DEF SessionInv, InStream
  <2> QED
    BY <2>2, <2>3, <2>4 DEF ResponsesInOrder
<1>6. Closing' /\ ~Upgraded' => Finished'
  <2> SUFFICES ASSUME Closing', ~Upgraded' PROVE Finished'
    OBVIOUS
  <2>1. Finished
    BY <1>1 DEF Closing, CloseIn, SessionInv, Upgraded
  <2>2. buffered = <<>>
    BY <2>1 DEF Finished
  <2>3. Stream' = Stream
    BY <1>1, <2>2 DEF Stream
  <2> QED
    BY <1>1, <1>2, <2>1, <2>3 DEF Finished
<1> QED
  BY <1>1, <1>2, <1>3, <1>5, <1>6 DEF SessionInv, InStream

LEMMA EndsKeep == SessionInv /\ (RunClose \/ PeerCloses) => SessionInv'
<1>1. ASSUME SessionInv, PeerCloses PROVE SessionInv'
  BY <1>1, EndedKeeps DEF PeerCloses, input
<1>2. ASSUME SessionInv, RunClose PROVE SessionInv'
  <2>1. /\ conn = "open" /\ Head(tasks).task = "close" /\ Ended(Head(tasks).why)
        /\ UNCHANGED <<requests, _contentCallBack, headers, sender, kernel, received, frames>>
    BY <1>2 DEF RunClose, input
  <2>2. /\ Head(tasks) = tasks[1] /\ 1 \in DOMAIN tasks /\ Head(tasks) \in Tasks
    BY <1>2, QueueTail DEF RunClose, SessionInv, SessionTypes
  <2>3. PICK why \in {"completed", "timeout"} : why = Head(tasks).why
    BY <2>1, <2>2 DEF Tasks
  <2>4. why = "completed" => Closing
    BY <2>1, <2>2, <2>3 DEF Closing, CloseIn
  <2> QED
    BY <1>2, <2>1, <2>3, <2>4, EndedKeeps
<1> QED
  BY <1>1, <1>2

---------------------------------------------------------------------------
(* A new request. *)

(* When a peer that waits sends a request, all it has asked for is there.  *)
LEMMA AllReceived ==
  ASSUME SessionInv, ~Pipelining, NEW r \in Requests, RecvHeader(r)
  PROVE  /\ conn = "open" /\ N \in Nat /\ N' = N + 1 /\ requests' \in Seq(Requests)
         /\ \A n \in 1..N : requests'[n] = requests[n]
         /\ requests'[N + 1] = r
         /\ kernel = <<>> /\ buffered = <<>> /\ ~Closing /\ frames = 0 /\ ~Upgraded
         /\ Stream = <<>> <=> N = 0
         /\ Stream # <<>> => Stream[Len(Stream)] = Part(N, requests[N].has)
         /\ \A n \in 1..N :
              /\ requests[n].method # "UPGRADE"
              /\ requests[n].method = "GET" => ~requests[n].close
              /\ Contains(received, Part(n, requests[n].has))
              /\ sender[n].offset = requests[n].has
         /\ \A i \in DOMAIN tasks : ~PartAt(tasks, i)
<1>1. /\ conn = "open" /\ _contentCallBack = "none" /\ requests' = Append(requests, r)
      /\ PeerMaySend
  BY DEF RecvHeader
<1>2. /\ requests \in Seq(Requests) /\ N \in Nat /\ N' = N + 1 /\ requests' \in Seq(Requests)
      /\ \A n \in 1..N : requests'[n] = requests[n]
      /\ requests'[N + 1] = r
      /\ (requests = <<>> <=> N = 0)
  BY <1>1, AppendProperties, LenProperties, EmptySeq DEF SessionInv, SessionTypes, N
<1>3. ~Upgraded /\ frames = 0
  BY <1>1 DEF SessionInv, Waiting, Upgraded
<1>4. /\ Stream \in Seq(Parts) /\ Len(Stream) \in Nat /\ DOMAIN Stream = 1..Len(Stream)
      /\ Len(Stream) = Len(received) + Len(kernel) + Len(buffered)
      /\ \A i \in DOMAIN Stream : Stream[i] \in Parts /\ Stream[i].of \in 1..N
      /\ \A i \in 1..Len(received) : Stream[i] = received[i]
      /\ received \in Seq(Parts) /\ kernel \in Seq(Parts) /\ buffered \in Seq(Parts)
      /\ Len(received) \in Nat /\ Len(kernel) \in Nat /\ Len(buffered) \in Nat
  BY StreamTyped, LenProperties DEF SessionInv, SessionTypes
<1>5. CASE requests = <<>>
  <2>1. N = 0 /\ Stream = <<>>
    <3>1. N = 0
      BY <1>2, <1>5
    <3>2. DOMAIN Stream = {}
      <4>1. ASSUME NEW i \in DOMAIN Stream PROVE FALSE
        <5>1. Stream[i].of \in 1..N
          BY <1>4
        <5> QED
          BY <3>1, <5>1
      <4> QED
        BY <4>1
    <3> QED
      BY <1>4, <3>1, <3>2, EmptySeq
  <2>2. kernel = <<>> /\ buffered = <<>>
    <3>1. Len(Stream) = 0
      BY <2>1
    <3>2. Len(kernel) = 0 /\ Len(buffered) = 0
      <4>1. Len(received) + Len(kernel) + Len(buffered) = 0
        BY <1>4, <3>1
      <4>2. Len(received) \in Nat /\ Len(kernel) \in Nat /\ Len(buffered) \in Nat
        BY <1>4
      <4> QED
        BY <4>1, <4>2
    <3> QED
      BY <1>4, <3>2, EmptySeq
  <2>3. \A i \in DOMAIN tasks : ~PartAt(tasks, i)
    BY <1>1, <2>1 DEF SessionInv, PumpsFiles, PartAt, Pumped
  <2>4. ~Closing
    BY <1>3, <1>5 DEF SessionInv, Finished
  <2> QED
    BY <1>1, <1>2, <1>3, <2>1, <2>2, <2>3, <2>4
<1>6. CASE requests # <<>>
  <2>1. /\ N \in Nat \ {0} /\ N \in 1..N /\ SentTo \in Nat
        /\ StreamEnds /\ PartsWait /\ PumpsFiles
    BY <1>1, <1>6, SentTyped
  <2>2. PICK h \in headers :
          h.of = N /\ ~h.close /\ received # <<>> /\ Last(received) = Part(N, h.length)
    BY <1>1, <1>6 DEF PeerMaySend, N
  <2>3. h.length = requests[N].chunks /\ Answered(N)
    BY <2>2 DEF SessionInv, HeadersTrue, Answered
  <2>4. /\ requests[N].chunks \in Nat /\ requests[N].has \in Nat
        /\ requests[N].has <= requests[N].chunks
        /\ sender[N] \in Sender
    BY <2>1, RequestTypes DEF SessionInv
  <2>5. requests[N].method # "UPGRADE" /\ LastPart(N) = requests[N].has
    BY <1>3, <1>6 DEF SessionInv, Waiting, LastPart
  <2> DEFINE last == Len(received)
  <2>6. /\ last \in DOMAIN Stream /\ last >= 1 /\ Stream[last] = Part(N, requests[N].chunks)
        /\ last \in 1..Len(received) /\ received[last] = Part(N, requests[N].chunks)
    <3>1. last \in Nat \ {0} /\ last \in 1..Len(received)
      BY <1>4, <2>2, EmptySeq
    <3>2. received[last] = Part(N, requests[N].chunks)
      BY <2>2, <2>3 DEF Last
    <3> HIDE DEF last
    <3>3. last \in DOMAIN Stream /\ Stream[last] = received[last]
      BY <1>4, <3>1
    <3> QED
      BY <3>1, <3>2, <3>3
  <2> HIDE DEF last
  <2>7. last = Len(Stream)
    <3> SUFFICES ASSUME last # Len(Stream) PROVE FALSE
      OBVIOUS
    <3>1. last \in 1..(Len(Stream) - 1) /\ last + 1 \in DOMAIN Stream
      BY <1>4, <2>6
    <3>2. Follows(Stream[last], Stream[last + 1])
      BY <3>1 DEF SessionInv, ResponsesInOrder
    <3>3. Stream[last].of = N /\ Stream[last].at = requests[N].chunks
      BY <2>6 DEF Part
    <3>4. Stream[last + 1].of # N + 1
      <4>1. Stream[last + 1].of \in 1..N
        BY <1>4, <3>1
      <4> QED
        BY <1>2, <4>1
    <3>5. Stream[last + 1].of = N /\ Stream[last + 1].at = requests[N].chunks + 1
          /\ Stream[last + 1].at <= LastPart(Stream[last + 1].of)
      BY <3>2, <3>3, <3>4 DEF Follows
    <3>6. requests[N].chunks + 1 <= requests[N].has
      BY <2>5, <3>5
    <3> QED
      BY <2>4, <3>6
  <2>8. kernel = <<>> /\ buffered = <<>>
    <3>1. Len(kernel) = 0 /\ Len(buffered) = 0
      BY <1>4, <2>7 DEF last
    <3> QED
      BY <1>4, <3>1, EmptySeq
  <2>9. SentTo = requests[N].has /\ requests[N].chunks = requests[N].has
    <3>1. SentTo = requests[N].chunks /\ SentTo <= requests[N].has
      BY <2>1, <2>3, <2>5, <2>6, <2>7 DEF StreamEnds, Part
    <3> QED
      BY <2>4, <3>1
  <2>10. /\ Stream # <<>> /\ Stream[Len(Stream)] = Part(N, requests[N].has)
         /\ Contains(received, Part(N, requests[N].has))
    <3>1. Stream # <<>> /\ Stream[Len(Stream)] = Part(N, requests[N].has)
      BY <2>1, <2>3, <2>9 DEF StreamEnds
    <3>2. last \in 1..Len(received) /\ received[last] = Part(N, requests[N].has)
      BY ONLY <2>6, <2>9
    <3> QED
      BY <3>1, <3>2 DEF Contains
  <2>11. sender[N].offset = requests[N].has /\ \A i \in DOMAIN tasks : ~PartAt(tasks, i)
    <3>1. sender[N].offset <= requests[N].has /\ SentTo <= sender[N].offset
      BY <1>3, <2>1 DEF PartsWait, Waits
    <3>2. sender[N].offset = requests[N].has
      BY <2>4, <2>9, <3>1 DEF Sender
    <3>3. \A i \in DOMAIN tasks : PartAt(tasks, i) =>
            SentTo < tasks[i].buf /\ tasks[i].buf <= sender[N].offset /\ tasks[i].buf \in Nat
      BY <2>1, ElementOfSeq, LenProperties DEF PartsWait, Waits, PartAt, Tasks, SessionInv, SessionTypes
    <3> QED
      BY <2>4, <2>9, <3>2, <3>3
  <2>12. requests[N].method = "GET" => ~requests[N].close
    BY <2>2 DEF SessionInv, HeadersTrue
  <2>13. ~Closing
    <3> SUFFICES ASSUME Closing PROVE FALSE
      OBVIOUS
    <3>1. requests[N].method = "HUGE_POST" \/ \E g \in headers : g.of = N /\ g.close
      BY <1>3 DEF SessionInv, Finished
    <3>2. requests[N].method # "HUGE_POST"
      BY <1>6, <2>3 DEF SessionInv, Waiting
    <3> QED
      BY <2>2, <3>1, <3>2 DEF SessionInv, HeadersTrue
  <2>14. ASSUME NEW n \in 1..N
         PROVE  /\ requests[n].method # "UPGRADE"
                /\ requests[n].method = "GET" => ~requests[n].close
                /\ Contains(received, Part(n, requests[n].has))
                /\ sender[n].offset = requests[n].has
    <3>1. CASE n = N
      BY <2>5, <2>10, <2>11, <2>12, <3>1
    <3>2. CASE n # N
      <4>1. n \in 1..(N - 1)
        BY <2>1, <3>2
      <4> QED
        BY <4>1 DEF SessionInv, EarlierDone
    <3> QED
      BY <3>1, <3>2
  <2> QED
    BY <1>1, <1>2, <1>3, <2>1, <2>8, <2>10, <2>11, <2>13, <2>14
<1> QED
  BY <1>5, <1>6

(* Nothing of the new answer waits yet, whatever the length of its file.   *)
LEMMA NewWaits ==
  ASSUME SessionInv, conn = "open", N \in Nat,
         \A i \in DOMAIN tasks : ~PartAt(tasks, i),
         NEW has \in Nat, NEW s \in Sender, s.offset = 0, s._read_complete => has = 0
  PROVE  Waits(tasks, N + 1, 0, s, has)
<1>1. \A i \in DOMAIN tasks : ~EndAt(tasks, N + 1, i)
  BY DEF SessionInv, PumpsFiles, Pumped, EndAt
<1> QED
  BY <1>1 DEF Waits

(* The sessions answers at once.                                           *)
LEMMA AnsweredNew ==
  ASSUME SessionInv, ~Pipelining, NEW r \in Requests, RecvHeader(r),
         r.method \notin {"POST", "HUGE_POST"},
         NEW code \in Nat, NEW close \in BOOLEAN, r.method = "GET" => close = r.close,
         SendHeader(Len(requests'), code, r.chunks, close),
         NEW s \in Sender, sender' = Append(sender, s),
         tasks' \in Seq(Tasks), Waits(tasks', N + 1, 0, s, r.has),
         PumpsFiles', onFlush' \in 0..(N + 1),
         CloseIn(tasks') => CloseIn(tasks) \/ (close /\ r.has = 0),
         _contentCallBack' = IF r.method = "UPGRADE" THEN "websocket" ELSE "none",
         UNCHANGED <<conn, received, frames>>
  PROVE  SessionInv'
<1>1. /\ conn = "open" /\ N \in Nat /\ N' = N + 1 /\ requests' \in Seq(Requests)
      /\ \A n \in 1..N : requests'[n] = requests[n]
      /\ requests'[N + 1] = r
      /\ kernel = <<>> /\ buffered = <<>> /\ ~Closing /\ frames = 0 /\ ~Upgraded
      /\ Stream = <<>> <=> N = 0
      /\ Stream # <<>> => Stream[Len(Stream)] = Part(N, requests[N].has)
      /\ \A n \in 1..N :
           /\ requests[n].method # "UPGRADE"
           /\ requests[n].method = "GET" => ~requests[n].close
           /\ Contains(received, Part(n, requests[n].has))
           /\ sender[n].offset = requests[n].has
  BY AllReceived
<1> DEFINE h == [of |-> N + 1, code |-> code, length |-> r.chunks, close |-> close]
<1>2. headers' = headers \cup {h} /\ Send(Part(N + 1, 0))
  BY <1>1 DEF SendHeader, N
<1>3. h.of = N + 1 /\ h.length = r.chunks /\ h.close = close
  OBVIOUS
<1>4. r.chunks \in Nat /\ r.has \in 0..r.chunks
  BY RequestAssumption
<1>5. headers' \subseteq [of : 1..(N + 1), code : Nat, length : Nat, close : BOOLEAN]
      /\ headers \subseteq Headers
  <2>1. h \in [of : 1..(N + 1), code : Nat, length : Nat, close : BOOLEAN]
    BY <1>1, <1>4
  <2>2. headers \subseteq Headers
    BY DEF SessionInv, SessionTypes
  <2>3. Headers \subseteq [of : 1..(N + 1), code : Nat, length : Nat, close : BOOLEAN]
    BY <1>1 DEF Headers
  <2> HIDE DEF h
  <2> QED
    BY <1>2, <2>1, <2>2, <2>3
<1> HIDE DEF h
<1>6. \A g \in headers : g.of \in 1..N /\ g.of # N + 1
  BY <1>1, <1>5 DEF Headers
<1>7. HeadersTrue'
  <2>1. ASSUME NEW g \in headers'
        PROVE  /\ g.length = requests'[g.of].chunks
               /\ requests'[g.of].method = "GET" => g.close = requests'[g.of].close
               /\ \A f \in headers' : f.of = g.of => f = g
    <3>1. CASE g = h
      BY <1>1, <1>2, <1>3, <1>6, <3>1
    <3>2. CASE g \in headers
      <4>1. \A f \in headers' : f.of = g.of => f \in headers
        BY <1>2, <1>3, <1>6, <3>2
      <4> QED
        BY <1>1, <1>6, <3>2, <4>1 DEF SessionInv, HeadersTrue
    <3> QED
      BY <1>2, <3>1, <3>2
  <2> QED
    BY <2>1 DEF HeadersTrue
<1>8. Answered(N)' /\ requests' # <<>>
  <2>1. requests' # <<>>
    BY <1>1, EmptySeq DEF N
  <2> QED
    BY <1>1, <1>2, <1>3, <2>1 DEF Answered
<1>9. Waiting'
  BY <1>1, <1>8 DEF Waiting, Upgraded
<1>10. /\ sender' \in Seq(Sender) /\ Len(sender') = N + 1
       /\ \A n \in 1..N : sender'[n] = sender[n]
       /\ sender'[N + 1] = s
  BY <1>1, AppendProperties DEF SessionInv, SessionTypes
<1>11. EarlierDone'
  <2>1. N' - 1 = N
    BY <1>1
  <2>2. ASSUME NEW n \in 1..N
        PROVE  /\ requests'[n].method # "UPGRADE"
               /\ requests'[n].method = "GET" => ~requests'[n].close
               /\ Contains(received', Part(n, requests'[n].has))
               /\ sender'[n].offset = requests'[n].has
    BY <1>1, <1>10
  <2> QED
    BY <2>1, <2>2 DEF EarlierDone
<1>12. PICK part \in Parts : part = Part(N + 1, 0)
  <2>1. Part(N + 1, 0) \in Parts
    BY <1>1 DEF Parts, Part
  <2> QED
    BY <2>1
<1>13. /\ Stream' = Append(Stream, part)
       /\ kernel' \in Seq(Parts) /\ Len(kernel') <= KernelCap
       /\ buffered' = <<>> /\ buffered' \in Seq(Parts) /\ watched' \in BOOLEAN
  BY <1>1, <1>2, <1>12, SendStream DEF SessionInv
<1>14. ResponsesInOrder' /\ InStream'
  <2>1. \A n \in 1..N : LastPart(n) \in Nat /\ LastPart(n)' = LastPart(n)
    BY <1>1, RequestTypes DEF LastPart, SessionInv
  <2>2. \A n \in 1..N : LastPart(n)' \in Nat /\ LastPart(n) <= LastPart(n)'
    BY <2>1
  <2>3. Stream = <<>> => part = Part(1, 0)
    BY <1>1, <1>12
  <2>4. ASSUME NEW last, Stream # <<>>, last = Stream[Len(Stream)]
        PROVE  part.of = last.of + 1 /\ part.at = 0 /\ last.at = LastPart(last.of)'
    <3>1. PICK m \in 1..N : m = N
      BY <1>1, <2>4
    <3>2. last.of = m /\ last.at = requests[m].has
      BY <1>1, <2>4, <3>1 DEF Part
    <3>3. LastPart(m)' = requests[m].has
      BY <1>1, <2>1 DEF LastPart
    <3> QED
      BY <1>12, <3>1, <3>2, <3>3 DEF Part
  <2>5. N <= N' /\ part.of \in 1..N'
    BY <1>1, <1>12 DEF Part
  <2>6. ASSUME NEW n \in 1..(N - 1) PROVE LastPart(n)' = LastPart(n)
    <3>1. n \in 1..N
      BY <1>1
    <3> QED
      BY <2>1, <3>1
  <2>7. N' \in Nat /\ SessionTypes /\ ResponsesInOrder
        /\ \A i \in DOMAIN Stream : Stream[i].of \in 1..N
    BY <1>1 DEF SessionInv
  <2>8. ResponsesInOrder' /\ (\A i \in DOMAIN Stream : Stream[i].of \in 1..N)'
    BY <2>7, <1>13, <2>2, <2>3, <2>4, <2>5, <2>6, OrderGrows
  <2> QED
    BY <2>8 DEF InStream
<1>15. Stream' # <<>> /\ Stream'[Len(Stream')] = Part(N + 1, 0) /\ SentTo' = 0
  <2>1. Stream \in Seq(Parts)
    BY StreamTyped DEF SessionInv
  <2>2. Stream' # <<>> /\ Stream'[Len(Stream')] = part
    BY <1>13, <2>1, AppendProperties
  <2>3. Stream'[Len(Stream')].at = 0
    BY <1>12, <2>2 DEF Part
  <2>4. SentTo' = Stream'[Len(Stream')].at
    BY <1>8 DEF SentTo
  <2> QED
    BY <1>12, <2>2, <2>3, <2>4
<1>16. StreamEnds'
  <2>1. LastPart(N)' \in Nat /\ 0 <= LastPart(N)'
    BY <1>1, <1>4 DEF LastPart
  <2> QED
    BY <1>1, <1>8, <1>15, <2>1 DEF StreamEnds
<1>17. PartsWait'
  <2>1. 0 <= s.offset
    BY DEF Sender
  <2> QED
    BY <1>1, <1>8, <1>10, <1>15, <2>1 DEF PartsWait
<1>18. Closing' /\ ~Upgraded' => Finished'
  <2> SUFFICES ASSUME Closing' PROVE Finished'
    OBVIOUS
  <2>1. close /\ r.has = 0
    BY <1>1 DEF Closing
  <2>2. h \in headers' /\ h.of = N' /\ h.close
    BY <1>1, <1>2, <1>3, <2>1
  <2> QED
    BY <1>1, <1>8, <1>13, <1>15, <2>1, <2>2 DEF Finished
<1>19. SessionTypes'
  <2>1. headers' \subseteq Headers' /\ onFlush' \in 0..N' /\ Len(sender') = N'
    BY <1>1, <1>5, <1>10 DEF Headers
  <2>2. _contentCallBack' \in {"none", "whole", "unlimited", "websocket"}
    OBVIOUS
  <2>3. frames' \in Nat /\ conn' \in {"open", "completed", "timeout", "lost"}
    BY <1>1
  <2>4. received' \in Seq(Parts)
    BY DEF SessionInv, SessionTypes
  <2> QED
    BY <1>1, <1>10, <1>13, <2>1, <2>2, <2>3, <2>4 DEF SessionTypes
<1> QED
  BY <1>1, <1>7, <1>9, <1>11, <1>14, <1>16, <1>17, <1>18, <1>19 DEF SessionInv, InStream

LEMMA PumpsGrow ==
  ASSUME SessionInv, ~Pipelining, NEW r \in Requests, RecvHeader(r), tasks' \in Seq(Tasks),
         \A i \in DOMAIN tasks' : tasks'[i].task = "data" =>
           \/ i \in DOMAIN tasks /\ tasks[i] = tasks'[i]
           \/ tasks'[i].of = N + 1 /\ r.method = "GET",
         onFlush' = onFlush \/ (onFlush' = N + 1 /\ r.method = "GET")
  PROVE  PumpsFiles' /\ onFlush' \in 0..(N + 1)
<1>1. /\ conn = "open" /\ N \in Nat /\ N' = N + 1
      /\ \A n \in 1..N : requests'[n] = requests[n]
      /\ requests'[N + 1] = r
  BY AllReceived
<1>2. PumpsFiles /\ onFlush \in 0..N
  BY <1>1 DEF SessionInv, SessionTypes
<1>3. onFlush' \in 0..(N + 1)
  BY <1>1, <1>2
<1>4. onFlush' # 0 => onFlush' \in 1..(N + 1) /\ requests'[onFlush'].method = "GET"
  BY <1>1, <1>2 DEF PumpsFiles, Pumped
<1>5. ASSUME NEW i \in DOMAIN tasks', tasks'[i].task = "data"
      PROVE  tasks'[i].of \in 1..(N + 1) /\ requests'[tasks'[i].of].method = "GET"
  BY <1>1, <1>2, <1>5 DEF PumpsFiles, Pumped
<1> QED
  BY <1>1, <1>3, <1>4, <1>5 DEF PumpsFiles, Pumped

LEMMA NoSenderTyped == NoSender \in Sender /\ NoSender.offset = 0
  BY DEF NoSender, Sender

LEMMA BodilessKeeps ==
  ASSUME SessionInv, ~Pipelining, NEW r \in Requests, NEW method, NEW code \in Nat,
         NEW close \in BOOLEAN, Bodiless(r, method, code, close),
         method \notin {"POST", "HUGE_POST", "UPGRADE"}, r.chunks = 0,
         method = "GET" => close = r.close
  PROVE  SessionInv'
<1>1. /\ RecvHeader(r) /\ r.method = method
      /\ SendHeader(Len(requests'), code, r.chunks, close)
      /\ tasks' = IF close THEN Shutdown(tasks, "completed") ELSE tasks
      /\ sender' = Append(sender, NoSender)
      /\ UNCHANGED <<conn, _contentCallBack, onFlush, received, frames>>
  BY DEF Bodiless, SendBodiless
<1>2. /\ conn = "open" /\ N \in Nat
      /\ \A i \in DOMAIN tasks : ~PartAt(tasks, i)
      /\ tasks \in Seq(Tasks)
  BY <1>1, AllReceived DEF SessionInv, SessionTypes
<1>3. r.has = 0
  BY RequestAssumption
<1>4. Waits(tasks, N + 1, 0, NoSender, 0)
  BY <1>2, NoSenderTyped, NewWaits
<1>5. /\ tasks' \in Seq(Tasks) /\ Waits(tasks', N + 1, 0, NoSender, r.has)
      /\ \A i \in DOMAIN tasks' : tasks'[i].task = "data" => i \in DOMAIN tasks /\ tasks[i] = tasks'[i]
      /\ CloseIn(tasks') => CloseIn(tasks) \/ (close /\ r.has = 0)
  <2>1. CASE close
    BY <1>1, <1>2, <1>3, <1>4, <2>1, ShutdownWaits
  <2>2. CASE ~close
    <3>1. tasks' = tasks
      BY <1>1, <2>2
    <3> QED
      BY <1>2, <1>3, <1>4, <3>1
  <2> QED
    BY <2>1, <2>2
<1>6. PumpsFiles' /\ onFlush' \in 0..(N + 1)
  BY <1>1, <1>5, PumpsGrow
<1>7. _contentCallBack' = "none" /\ r.method \notin {"POST", "HUGE_POST", "UPGRADE"}
  BY <1>1 DEF RecvHeader
<1> QED
  BY <1>1, <1>5, <1>6, <1>7, NoSenderTyped, AnsweredNew

LEMMA UpgradeKeeps ==
  ASSUME SessionInv, ~Pipelining, NEW r \in Requests, CheckWebSocket(r)
  PROVE  SessionInv'
<1>1. /\ RecvHeader(r) /\ r.method = "UPGRADE"
      /\ SendHeader(Len(requests'), 101, 0, FALSE)
      /\ _contentCallBack' = "websocket"
      /\ sender' = Append(sender, NoSender)
      /\ UNCHANGED <<conn, tasks, onFlush, received, frames>>
  BY DEF CheckWebSocket
<1>2. /\ conn = "open" /\ N \in Nat
      /\ \A i \in DOMAIN tasks : ~PartAt(tasks, i)
      /\ tasks \in Seq(Tasks)
  BY <1>1, AllReceived DEF SessionInv, SessionTypes
<1>3. r.has = 0 /\ r.chunks = 0
  BY <1>1, RequestAssumption
<1>4. Waits(tasks, N + 1, 0, NoSender, 0)
  BY <1>2, NoSenderTyped, NewWaits
<1>5. PumpsFiles' /\ onFlush' \in 0..(N + 1)
  BY <1>1, <1>2, PumpsGrow
<1>6. /\ tasks' \in Seq(Tasks) /\ Waits(tasks', N + 1, 0, NoSender, r.has)
      /\ CloseIn(tasks') => CloseIn(tasks)
  BY <1>1, <1>2, <1>3, <1>4
<1>7. 101 \in Nat /\ FALSE \in BOOLEAN /\ r.method \notin {"POST", "HUGE_POST"} /\ r.method # "GET"
  BY <1>1
<1> QED
  BY <1>1, <1>3, <1>5, <1>6, <1>7, NoSenderTyped, AnsweredNew

LEMMA GetKeeps ==
  ASSUME SessionInv, ~Pipelining, NEW r \in Requests, Handle_Req_GET(r)
  PROVE  SessionInv'
<1> DEFINE k == IF r.has > 0 THEN 1 ELSE 0
           s == [NewSender EXCEPT !.offset = k]
<1>1. /\ RecvHeader(r) /\ r.method = "GET"
      /\ SendHeader(Len(requests'), 200, r.chunks, r.close)
      /\ onFlush' = Len(requests') /\ sender' = Append(sender, s)
      /\ tasks' = Append(tasks, Data(Len(requests'), k))
      /\ UNCHANGED <<conn, _contentCallBack, received, frames>>
  BY DEF Handle_Req_GET, SendBody
<1>2. /\ conn = "open" /\ N \in Nat /\ N' = N + 1 /\ ~Closing
      /\ \A i \in DOMAIN tasks : ~PartAt(tasks, i)
      /\ tasks \in Seq(Tasks)
  BY <1>1, AllReceived DEF SessionInv, SessionTypes
<1>3. r.has \in Nat /\ r.close \in BOOLEAN /\ k \in Nat
  BY RequestAssumption
<1>4. NewSender \in Sender /\ NewSender.offset = 0 /\ ~NewSender._read_complete
  BY DEF NewSender, Sender
<1>5. /\ s \in Sender /\ s.offset = k /\ s._read_complete = NewSender._read_complete
      /\ NextPart(NewSender, r.has) = k
  <2>1. s.offset = k /\ s._read_complete = NewSender._read_complete
    BY DEF NewSender
  <2>2. s \in Sender
    <3> HIDE DEF k
    <3> QED
      BY <1>3 DEF NewSender, Sender
  <2>3. NextPart(NewSender, r.has) = k
    <3>1. CASE r.has > 0
      BY <1>3, <1>4, <3>1 DEF NextPart
    <3>2. CASE r.has = 0
      BY <1>4, <3>2 DEF NextPart
    <3> HIDE DEF k
    <3> QED
      BY <1>3, <3>1, <3>2
  <2> QED
    BY <2>1, <2>2, <2>3
<1>6. tasks' = Append(tasks, Data(N + 1, k))
  BY <1>1, <1>2 DEF N
<1> HIDE DEF k, s
<1>7. Waits(tasks, N + 1, 0, NewSender, r.has)
  BY <1>2, <1>3, <1>4, NewWaits
<1>8. Waits(tasks', N + 1, 0, s, r.has)
  <2>1. s.offset = IF NextPart(NewSender, r.has) = 0 THEN NewSender.offset
                   ELSE NextPart(NewSender, r.has)
    BY <1>4, <1>5
  <2>2. N + 1 \in Nat /\ 0 <= NewSender.offset
    BY <1>2, <1>4
  <2> QED
    BY <1>2, <1>3, <1>4, <1>5, <1>6, <1>7, <2>1, <2>2, PumpOwn
<1>9. /\ tasks' \in Seq(Tasks)
      /\ DOMAIN tasks' = 1..(Len(tasks) + 1) /\ DOMAIN tasks = 1..Len(tasks) /\ Len(tasks) \in Nat
      /\ \A i \in DOMAIN tasks : tasks'[i] = tasks[i]
      /\ tasks'[Len(tasks) + 1] = Data(N + 1, k)
  <2>1. Data(N + 1, k) \in Tasks
    BY <1>2, <1>3, TaskTypes
  <2> QED
    BY <1>2, <1>6, <2>1, QueueAppend
<1>10. Data(N + 1, k).task = "data" /\ Data(N + 1, k).of = N + 1
  BY DEF Data
<1>11. \A i \in DOMAIN tasks' : i \in DOMAIN tasks \/ i = Len(tasks) + 1
  BY <1>9
<1>12. PumpsFiles' /\ onFlush' \in 0..(N + 1)
  <2>1. \A i \in DOMAIN tasks' :
          (i \in DOMAIN tasks /\ tasks[i] = tasks'[i]) \/ tasks'[i].of = N + 1
    BY <1>9, <1>10, <1>11
  <2>2. onFlush' = N + 1
    BY <1>1, <1>2 DEF N
  <2> QED
    BY <1>1, <1>9, <2>1, <2>2, PumpsGrow
<1>13. CloseIn(tasks') => CloseIn(tasks)
  BY <1>9, <1>10, <1>11 DEF CloseIn
<1>14. _contentCallBack' = IF r.method = "UPGRADE" THEN "websocket" ELSE "none"
  BY <1>1 DEF RecvHeader
<1>15. 200 \in Nat /\ r.method \notin {"POST", "HUGE_POST"}
  BY <1>1
<1> QED
  BY <1>1, <1>3, <1>5, <1>8, <1>9, <1>12, <1>13, <1>14, <1>15, AnsweredNew

(* The answer to a POST waits for the content.                             *)
LEMMA PostKeeps ==
  ASSUME SessionInv, ~Pipelining, NEW r \in Requests, Handle_Req_POST(r)
  PROVE  SessionInv'
<1>1. /\ RecvHeader(r) /\ r.method \in {"POST", "HUGE_POST"}
      /\ _contentCallBack' = IF r.method = "POST" THEN "whole" ELSE "unlimited"
      /\ sender' = Append(sender, NoSender)
      /\ UNCHANGED <<conn, headers, tasks, onFlush, buffered, kernel, watched, received, frames>>
  BY DEF Handle_Req_POST, wire
<1>2. /\ conn = "open" /\ N \in Nat /\ N' = N + 1 /\ requests' \in Seq(Requests)
      /\ \A n \in 1..N : requests'[n] = requests[n]
      /\ requests'[N + 1] = r
      /\ kernel = <<>> /\ buffered = <<>> /\ ~Closing /\ frames = 0 /\ ~Upgraded
      /\ Stream = <<>> <=> N = 0
      /\ Stream # <<>> => Stream[Len(Stream)] = Part(N, requests[N].has)
      /\ \A n \in 1..N :
           /\ requests[n].method # "UPGRADE"
           /\ requests[n].method = "GET" => ~requests[n].close
           /\ Contains(received, Part(n, requests[n].has))
           /\ sender[n].offset = requests[n].has
      /\ \A i \in DOMAIN tasks : ~PartAt(tasks, i)
  BY <1>1, AllReceived
<1>3. r.has = 0 /\ r.chunks = 0
  BY <1>1, RequestAssumption
<1>4. \A h \in headers : h.of \in 1..N /\ h.of # N + 1
  BY <1>2 DEF SessionInv, SessionTypes, Headers
<1>5. HeadersTrue'
  BY <1>1, <1>2, <1>4 DEF SessionInv, HeadersTrue
<1>6. ~Answered(N)' /\ requests' # <<>>
  <2>1. requests' # <<>>
    BY <1>2, EmptySeq DEF N
  <2> QED
    BY <1>1, <1>2, <1>4, <2>1 DEF Answered
<1>7. Waiting' /\ ~Upgraded'
  BY <1>1, <1>2, <1>6 DEF Waiting, Upgraded
<1>8. /\ sender' \in Seq(Sender) /\ Len(sender') = N + 1
      /\ \A n \in 1..N : sender'[n] = sender[n]
      /\ sender'[N + 1] = NoSender
  BY <1>1, <1>2, NoSenderTyped, AppendProperties DEF SessionInv, SessionTypes
<1>9. EarlierDone'
  <2>1. N' - 1 = N
    BY <1>2
  <2>2. ASSUME NEW n \in 1..N
        PROVE  /\ requests'[n].method # "UPGRADE"
               /\ requests'[n].method = "GET" => ~requests'[n].close
               /\ Contains(received', Part(n, requests'[n].has))
               /\ sender'[n].offset = requests'[n].has
    BY <1>1, <1>2, <1>8
  <2> QED
    BY <2>1, <2>2 DEF EarlierDone
<1>10. Stream' = Stream
  BY <1>1 DEF Stream
<1>11. ResponsesInOrder' /\ InStream'
  <2>1. /\ DOMAIN Stream = 1..Len(Stream) /\ Len(Stream) \in Nat
        /\ \A i \in DOMAIN Stream : Stream[i].of \in 1..N
    BY StreamTyped DEF SessionInv
  <2>2. \A n \in 1..N : LastPart(n)' = LastPart(n)
    BY <1>1, <1>2 DEF LastPart
  <2>3. ASSUME NEW i \in 1..(Len(Stream) - 1) PROVE Follows(Stream[i], Stream[i + 1])'
    <3>1. i \in DOMAIN Stream /\ i + 1 \in DOMAIN Stream
      BY <2>1
    <3>2. PICK m \in 1..N, k \in 1..N : m = Stream[i].of /\ k = Stream[i + 1].of
      BY <2>1, <3>1
    <3>3. LastPart(m)' = LastPart(m) /\ LastPart(k)' = LastPart(k)
      BY <2>2
    <3>4. Follows(Stream[i], Stream[i + 1])
      BY DEF SessionInv, ResponsesInOrder
    <3> QED
      BY <1>10, <3>1, <3>2, <3>3, <3>4 DEF Follows
  <2>4. \A i \in DOMAIN Stream : Stream[i].of \in 1..(N + 1)
    BY <1>2, <2>1
  <2> QED
    BY <1>2, <1>10, <2>1, <2>3, <2>4 DEF InStream, ResponsesInOrder, SessionInv
<1>12. PumpsFiles' /\ onFlush' \in 0..(N + 1)
  <2>1. tasks' \in Seq(Tasks)
    BY <1>1 DEF SessionInv, SessionTypes
  <2> QED
    BY <1>1, <2>1, PumpsGrow
<1>13. SentTo' = 0
  BY <1>6 DEF SentTo
<1>14. StreamEnds'
  <2>1. LastPart(N)' = 0
    BY <1>1, <1>2, <1>3 DEF LastPart
  <2>2. Stream # <<>> => N + 1 > 1 /\ requests'[(N + 1) - 1].has = requests[N].has
    BY <1>2
  <2>3. (N + 1) - 1 = N
    BY <1>2
  <2> QED
    BY <1>1, <1>2, <1>6, <1>7, <1>10, <1>13, <2>1, <2>2, <2>3 DEF StreamEnds
<1>15. PartsWait'
  <2>1. Waits(tasks, N + 1, 0, NoSender, 0)
    BY <1>2, NoSenderTyped, NewWaits
  <2> QED
    BY <1>1, <1>2, <1>3, <1>6, <1>8, <1>13, <2>1, NoSenderTyped DEF PartsWait
<1>16. ~Closing'
  BY <1>1, <1>2 DEF Closing, CloseIn
<1>17. SessionTypes'
  <2>1. SessionTypes
    BY DEF SessionInv
  <2>2. headers' \subseteq Headers'
    BY <1>1, <1>2, <1>4, <2>1 DEF SessionTypes, Headers
  <2>3. onFlush' \in 0..N' /\ Len(sender') = N'
    BY <1>2, <1>8, <1>12
  <2> QED
    BY <1>1, <1>2, <1>8, <2>1, <2>2, <2>3 DEF SessionTypes
<1> QED
  BY <1>2, <1>5, <1>7, <1>9, <1>11, <1>12, <1>14, <1>15, <1>16, <1>17, <1>1 DEF SessionInv, InStream

(* The content of a POST has come, and its answer goes out.                *)
LEMMA ContentKeeps == SessionInv /\ RecvContent => SessionInv'
<1> SUFFICES ASSUME SessionInv, RecvContent PROVE SessionInv'
  OBVIOUS
<1>1. /\ conn = "open" /\ _contentCallBack = "whole" /\ _contentCallBack' = "none"
      /\ ~Upgraded /\ ~Upgraded' /\ requests # <<>>
      /\ UNCHANGED <<conn, requests, sender, onFlush, received, frames>>
  BY DEF RecvContent, Upgraded, SessionInv, Waiting
<1>2. /\ N \in Nat \ {0} /\ N \in 1..N /\ StreamEnds /\ PartsWait /\ PumpsFiles
      /\ N' = N /\ requests[N].method = "POST" /\ ~Answered(N)
      /\ SessionTypes /\ HeadersTrue /\ EarlierDone /\ ResponsesInOrder
  BY <1>1, SentTyped DEF SessionInv, Waiting, N
<1>3. requests[N] \in Requests /\ requests[N].has = 0 /\ requests[N].chunks = 0
      /\ requests[N].close \in BOOLEAN
  <2>1. requests[N] \in Requests
    BY <1>2, RequestTypes
  <2> QED
    BY <1>2, <2>1, RequestAssumption
<1> DEFINE close == requests[N].close
           h == [of |-> N, code |-> 404, length |-> 0, close |-> close]
<1>4. /\ Send(Part(N, 0)) /\ headers' = headers \cup {h}
      /\ tasks' = IF close THEN Shutdown(tasks, "completed") ELSE tasks
  <2>1. Last(requests) = requests[N]
    BY DEF Last, N
  <2> QED
    BY <2>1 DEF RecvContent, SendBodiless, SendHeader, N
<1>5. /\ h.of = N /\ h.length = 0 /\ h.close = close /\ h \in Headers
      /\ headers \subseteq Headers /\ \A g \in headers : g.of \in 1..N /\ g.of # N
  <2>1. h \in Headers
    BY <1>2, <1>3 DEF Headers
  <2>2. headers \subseteq Headers
    BY <1>2 DEF SessionTypes
  <2> QED
    BY <1>2, <2>1, <2>2 DEF Answered, Headers
<1> HIDE DEF h
<1>6. headers' \subseteq Headers' /\ Answered(N)'
  <2>1. Headers' = Headers
    BY <1>2 DEF Headers
  <2> QED
    BY <1>2, <1>4, <1>5, <2>1 DEF Answered
<1>7. HeadersTrue'
  <2>1. ASSUME NEW g \in headers'
        PROVE  /\ g.length = requests[g.of].chunks
               /\ requests[g.of].method = "GET" => g.close = requests[g.of].close
               /\ \A f \in headers' : f.of = g.of => f = g
    <3>1. CASE g = h
      BY <1>2, <1>3, <1>4, <1>5, <3>1
    <3>2. CASE g \in headers
      <4>1. \A f \in headers' : f.of = g.of => f \in headers
        BY <1>4, <1>5, <3>2
      <4> QED
        BY <1>2, <3>2, <4>1 DEF HeadersTrue
    <3> QED
      BY <1>4, <3>1, <3>2
  <2> QED
    BY <1>1, <2>1 DEF HeadersTrue
<1>8. Waiting'
  BY <1>1, <1>2 DEF SessionInv, Waiting, Upgraded
<1>9. EarlierDone'
  BY <1>1, <1>2 DEF EarlierDone
<1>10. /\ kernel = <<>> /\ buffered = <<>> /\ SentTo = 0
       /\ Stream = <<>> => N = 1
       /\ Stream # <<>> => N > 1 /\ Stream[Len(Stream)] = Part(N - 1, requests[N - 1].has)
  BY <1>2 DEF StreamEnds, SentTo
<1>11. PICK part \in Parts : part = Part(N, 0)
  <2>1. Part(N, 0) \in Parts
    BY <1>2 DEF Parts, Part
  <2> QED
    BY <2>1
<1>12. /\ Stream' = Append(Stream, part)
       /\ kernel' \in Seq(Parts) /\ Len(kernel') <= KernelCap
       /\ buffered' = <<>> /\ buffered' \in Seq(Parts) /\ watched' \in BOOLEAN
  BY <1>1, <1>2, <1>4, <1>10, <1>11, SendStream
<1>13. ResponsesInOrder' /\ InStream'
  <2>1. \A n \in 1..N : LastPart(n) \in Nat /\ LastPart(n)' = LastPart(n)
    BY <1>1, <1>2, RequestTypes DEF LastPart, SessionInv
  <2>2. \A n \in 1..N : LastPart(n)' \in Nat /\ LastPart(n) <= LastPart(n)'
    BY <2>1
  <2>3. Stream = <<>> => part = Part(1, 0)
    BY <1>10, <1>11
  <2>4. ASSUME NEW last, Stream # <<>>, last = Stream[Len(Stream)]
        PROVE  part.of = last.of + 1 /\ part.at = 0 /\ last.at = LastPart(last.of)'
    <3>1. PICK m \in 1..(N - 1) : m = N - 1
      BY <1>2, <1>10, <2>4
    <3>2. last.of = m /\ last.at = requests[m].has /\ requests[m].method # "UPGRADE"
      BY <1>2, <1>10, <2>4, <3>1 DEF Part, EarlierDone
    <3>3. LastPart(m)' = requests[m].has
      BY <1>1, <3>2 DEF LastPart
    <3> QED
      BY <1>2, <1>11, <3>1, <3>2, <3>3 DEF Part
  <2>5. N <= N' /\ part.of \in 1..N' /\ N' \in Nat
    BY <1>2, <1>11 DEF Part
  <2>6. ASSUME NEW n \in 1..(N - 1) PROVE LastPart(n)' = LastPart(n)
    <3>1. n \in 1..N
      BY <1>2
    <3> QED
      BY <2>1, <3>1
  <2>7. SessionTypes /\ ResponsesInOrder /\ \A i \in DOMAIN Stream : Stream[i].of \in 1..N
    BY DEF SessionInv
  <2> QED
    BY <2>7, <1>12, <2>2, <2>3, <2>4, <2>5, <2>6, OrderGrows DEF InStream
<1>14. Stream' # <<>> /\ Stream'[Len(Stream')] = Part(N, 0) /\ SentTo' = 0
  <2>1. Stream \in Seq(Parts)
    BY <1>2, StreamTyped
  <2>2. Stream' # <<>> /\ Stream'[Len(Stream')] = part
    BY <1>12, <2>1, AppendProperties
  <2> QED
    BY <1>2, <1>6, <1>11, <2>2 DEF SentTo, Part
<1>15. StreamEnds'
  <2>1. LastPart(N)' = 0
    BY <1>1, <1>2, <1>3 DEF LastPart
  <2> QED
    BY <1>1, <1>2, <1>6, <1>14, <2>1 DEF StreamEnds
<1>16. /\ tasks' \in Seq(Tasks) /\ Waits(tasks', N, 0, sender[N], 0)
       /\ \A i \in DOMAIN tasks' : tasks'[i].task = "data" => i \in DOMAIN tasks /\ tasks[i] = tasks'[i]
       /\ CloseIn(tasks') => CloseIn(tasks) \/ close
  <2>1. tasks \in Seq(Tasks) /\ Waits(tasks, N, 0, sender[N], 0)
    BY <1>2, <1>3, <1>10 DEF SessionTypes, PartsWait
  <2>2. CASE close
    BY <1>4, <2>1, <2>2, ShutdownWaits
  <2>3. CASE ~close
    BY <1>4, <2>1, <2>3
  <2> QED
    BY <2>2, <2>3
<1>17. PartsWait'
  <2>1. sender[N].offset = 0
    BY <1>2 DEF PartsWait
  <2> QED
    BY <1>1, <1>2, <1>3, <1>6, <1>14, <1>16, <2>1 DEF PartsWait
<1>18. PumpsFiles' /\ onFlush' \in 0..N'
  BY <1>1, <1>2, <1>16 DEF PumpsFiles, Pumped, SessionTypes
<1>19. Closing' /\ ~Upgraded' => Finished'
  <2> SUFFICES ASSUME Closing' PROVE Finished'
    OBVIOUS
  <2>1. ~Closing
    BY <1>1, <1>2 DEF SessionInv, Finished, Answered
  <2>2. close
    BY <1>1, <1>16, <2>1 DEF Closing
  <2>3. h \in headers' /\ h.of = N' /\ h.close
    BY <1>2, <1>4, <1>5, <2>2
  <2> QED
    BY <1>1, <1>2, <1>3, <1>12, <1>14, <2>3 DEF Finished
<1>20. SessionTypes'
  <2>1. Len(sender') = N' /\ sender' \in Seq(Sender) /\ received' \in Seq(Parts)
        /\ frames' \in Nat /\ requests' \in Seq(Requests)
    BY <1>1, <1>2 DEF SessionTypes
  <2> QED
    BY <1>1, <1>6, <1>12, <1>16, <1>18, <2>1 DEF SessionTypes
<1> QED
  BY <1>1, <1>2, <1>7, <1>8, <1>9, <1>13, <1>15, <1>17, <1>18, <1>19, <1>20
  DEF SessionInv, InStream

LEMMA UnlimitedKeeps == SessionInv /\ RecvUnlimitedContent => SessionInv'
<1> SUFFICES ASSUME SessionInv, RecvUnlimitedContent PROVE SessionInv'
  OBVIOUS
<1>1. /\ conn = "open" /\ _contentCallBack = "unlimited"
      /\ _contentCallBack' \in {"none", "unlimited"}
      /\ tasks' = Shutdown(tasks, "completed")
      /\ UNCHANGED <<conn, requests, headers, sender, onFlush, wire, received, frames>>
      /\ UNCHANGED Stream
  BY DEF RecvUnlimitedContent, wire, Stream
<1>2. ~Upgraded /\ ~Upgraded' /\ requests # <<>>
  BY <1>1 DEF Upgraded, SessionInv, Waiting
<1>3. /\ N \in 1..N /\ StreamEnds /\ PartsWait /\ PumpsFiles /\ N' = N
      /\ requests[N].method = "HUGE_POST" /\ ~Answered(N) /\ ~Answered(N)'
      /\ SessionTypes /\ buffered = <<>>
  <2>1. /\ N \in 1..N /\ StreamEnds /\ PartsWait /\ PumpsFiles /\ N' = N
        /\ requests[N].method = "HUGE_POST" /\ ~Answered(N) /\ SessionTypes
    BY <1>1, <1>2, SentTyped DEF SessionInv, Waiting, N
  <2> QED
    BY <1>1, <2>1 DEF Answered, StreamEnds
<1>4. /\ tasks' \in Seq(Tasks)
      /\ Waits(tasks', N, SentTo, sender[N], requests[N].has)
      /\ \A i \in DOMAIN tasks' : tasks'[i].task = "data" => i \in DOMAIN tasks /\ tasks[i] = tasks'[i]
  BY <1>1, <1>3, ShutdownWaits DEF SessionTypes, PartsWait
<1>5. PumpsFiles'
  BY <1>1, <1>3, <1>4 DEF PumpsFiles, Pumped
<1>6. Waiting'
  BY <1>1, <1>2, <1>3 DEF SessionInv, Waiting, Upgraded
<1>7. SessionTypes'
  <2>1. Headers' = Headers
    BY <1>3 DEF Headers
  <2> QED
    BY <1>1, <1>3, <1>4, <2>1 DEF SessionTypes, wire
<1>8. Finished'
  BY <1>1, <1>2, <1>3 DEF Finished, wire
<1>9. sender[N].offset <= sender[N].offset
  BY <1>3, RequestTypes DEF Sender
<1>10. /\ UNCHANGED <<requests, headers, Stream, frames, received>>
       /\ buffered' = buffered /\ kernel' = kernel /\ sender' = sender /\ conn' = "open"
  BY <1>1 DEF wire
<1>11. ~Answered(N) => sender[N].offset = 0
  BY <1>3 DEF PartsWait
<1> QED
  BY <1>1, <1>2, <1>4, <1>5, <1>6, <1>7, <1>8, <1>9, <1>10, <1>11, QuietKeeps

LEMMA ManagerKeeps == SessionInv /\ OnManager => SessionInv'
<1> SUFFICES ASSUME SessionInv, OnManager PROVE SessionInv'
  OBVIOUS
<1>1. /\ conn = "open" /\ conn' = "open" /\ tasks' = Shutdown(tasks, "timeout")
      /\ UNCHANGED <<input, headers, sender, onFlush, wire, received, frames>>
      /\ UNCHANGED Stream
      /\ Upgraded' <=> Upgraded
  BY DEF OnManager, HttpManaged, wire, Stream, Upgraded, input
<1>2. SessionTypes /\ PumpsFiles /\ tasks \in Seq(Tasks)
  BY <1>1 DEF SessionInv, SessionTypes
<1>3. /\ tasks' \in Seq(Tasks)
      /\ \A n, sent, s, has : Waits(tasks, n, sent, s, has) => Waits(tasks', n, sent, s, has)
      /\ \A i \in DOMAIN tasks' : tasks'[i].task = "data" => i \in DOMAIN tasks /\ tasks[i] = tasks'[i]
      /\ CloseIn(tasks') => CloseIn(tasks)
  BY <1>1, <1>2, ShutdownWaits
<1>4. /\ UNCHANGED <<requests, headers, frames, received, _contentCallBack, onFlush, watched>>
      /\ buffered' = buffered /\ kernel' = kernel /\ sender' = sender
  BY <1>1 DEF wire, input
<1>5. PumpsFiles'
  BY <1>2, <1>3, <1>4 DEF PumpsFiles, Pumped, N
<1>6. Waiting'
  BY <1>4 DEF SessionInv, Waiting, Upgraded, Answered, N
<1>7. SessionTypes'
  <2>1. Headers' = Headers /\ N' = N
    BY <1>4 DEF Headers, N
  <2> QED
    BY <1>1, <1>2, <1>3, <1>4, <2>1 DEF SessionTypes
<1>8. requests # <<>> =>
        /\ Waits(tasks', N, SentTo, sender[N], requests[N].has)
        /\ sender[N].offset <= sender[N].offset
        /\ ~Answered(N) => sender[N].offset = 0
  <2> SUFFICES ASSUME requests # <<>>
               PROVE  /\ Waits(tasks', N, SentTo, sender[N], requests[N].has)
                      /\ sender[N].offset <= sender[N].offset
                      /\ ~Answered(N) => sender[N].offset = 0
    OBVIOUS
  <2>1. N \in 1..N /\ PartsWait
    BY <1>1, SentTyped
  <2>2. sender[N].offset <= sender[N].offset
    BY <1>2, <2>1, RequestTypes DEF Sender
  <2> QED
    BY <1>3, <2>1, <2>2 DEF PartsWait
<1>9. /\ UNCHANGED <<requests, headers, Stream, frames, received>>
      /\ buffered = <<>> => buffered' = <<>>
      /\ kernel = <<>> /\ buffered = <<>> => kernel' = <<>>
      /\ \A n \in 1..(N - 1) : sender'[n].offset = sender[n].offset
  BY <1>1, <1>4
<1>10. CloseIn(tasks') /\ ~Upgraded => CloseIn(tasks) \/ Finished'
  BY <1>3
<1>11. requests # <<>> =>
         /\ Waits(tasks', N, SentTo, sender'[N], requests[N].has)
         /\ sender[N].offset <= sender'[N].offset
         /\ ~Answered(N) => sender'[N].offset = 0
  BY <1>4, <1>8
<1> QED
  BY <1>1, <1>5, <1>6, <1>7, <1>9, <1>10, <1>11, QuietKeeps

(* A frame goes out, and perhaps the connection's end behind it.           *)
LEMMA FrameSent ==
  ASSUME SessionInv, conn = "open", Upgraded, frames' = frames + 1,
         Send(Part(Len(requests), frames')),
         tasks' = tasks \/ tasks' = Shutdown(tasks, "completed"),
         UNCHANGED <<conn, input, headers, sender, onFlush, received>>
  PROVE  SessionInv'
<1>1. UNCHANGED <<requests, headers, _contentCallBack>>
  BY DEF input
<1>2. /\ requests # <<>> /\ N \in Nat \ {0} /\ N \in 1..N /\ StreamEnds /\ PartsWait /\ PumpsFiles
      /\ SessionTypes /\ requests[N].method = "UPGRADE" /\ Answered(N)
      /\ frames \in Nat /\ SentTo = frames /\ frames' \in Nat
  <2>1. requests # <<>> /\ SessionTypes
    BY DEF SessionInv, Waiting, Upgraded
  <2>2. N \in Nat \ {0} /\ N \in 1..N /\ StreamEnds /\ PartsWait /\ PumpsFiles
    BY <2>1, SentTyped
  <2>3. requests[N].method = "UPGRADE" /\ Answered(N)
    BY <2>1 DEF SessionInv, Waiting
  <2> QED
    BY <2>1, <2>2, <2>3 DEF StreamEnds, SessionTypes
<1>3. /\ HeadersTrue' /\ Waiting' /\ EarlierDone'
      /\ N' = N /\ Answered(N)' /\ Upgraded'
  BY <1>1, <1>2, SteadyKeeps
<1>4. requests[N].has = 0
  BY <1>2, RequestTypes
<1>5. PICK part \in Parts : part = Part(N, frames + 1)
  <2>1. Part(N, frames + 1) \in Parts
    BY <1>2 DEF Parts, Part
  <2> QED
    BY <2>1
<1>6. /\ Stream' = Append(Stream, part)
      /\ kernel' \in Seq(Parts) /\ Len(kernel') <= KernelCap
      /\ buffered' \in Seq(Parts) /\ watched' \in BOOLEAN
  <2>1. Send(part)
    BY <1>5 DEF N
  <2> QED
    BY <1>2, <2>1, SendStream
<1>7. ResponsesInOrder' /\ InStream'
  <2>1. ASSUME NEW n \in 1..(N - 1) PROVE LastPart(n)' = LastPart(n)
    <3>1. requests[n].method # "UPGRADE"
      BY DEF SessionInv, EarlierDone
    <3> QED
      BY <1>1, <3>1 DEF LastPart
  <2>2. ASSUME NEW n \in 1..N PROVE LastPart(n)' \in Nat /\ LastPart(n) <= LastPart(n)'
    <3>1. CASE n = N
      BY <1>1, <1>2, <3>1 DEF LastPart
    <3>2. CASE n # N
      <4>1. n \in 1..(N - 1) /\ LastPart(n) \in Nat
        BY <1>2, <3>2, RequestTypes
      <4> QED
        BY <2>1, <4>1
    <3> QED
      BY <3>1, <3>2
  <2>3. Stream # <<>> /\ Stream[Len(Stream)] = Part(N, frames)
    BY <1>2 DEF StreamEnds
  <2>4. ASSUME NEW last, last = Stream[Len(Stream)]
        PROVE  part.of = last.of /\ part.at = last.at + 1 /\ part.at <= LastPart(part.of)'
    <3>1. PICK m \in 1..N : m = N
      BY <1>2
    <3>2. LastPart(m)' = frames + 1
      BY <1>1, <1>2, <3>1 DEF LastPart
    <3> QED
      BY <1>2, <1>5, <2>3, <2>4, <3>1, <3>2 DEF Part
  <2>5. N' \in Nat /\ N <= N' /\ part.of \in 1..N'
    BY <1>2, <1>3, <1>5 DEF Part
  <2>6. SessionTypes /\ ResponsesInOrder /\ \A i \in DOMAIN Stream : Stream[i].of \in 1..N
    BY DEF SessionInv
  <2> QED
    BY <1>6, <2>1, <2>2, <2>3, <2>4, <2>5, <2>6, OrderGrows DEF InStream
<1>8. Stream' # <<>> /\ Stream'[Len(Stream')] = Part(N, frames + 1) /\ SentTo' = frames + 1
  <2>1. Stream \in Seq(Parts)
    BY <1>2, StreamTyped
  <2>2. Stream' # <<>> /\ Stream'[Len(Stream')] = part
    BY <1>6, <2>1, AppendProperties
  <2> QED
    BY <1>3, <1>5, <2>2 DEF SentTo, Part
<1>9. StreamEnds'
  <2>1. LastPart(N)' = frames + 1
    BY <1>1, <1>2, <1>3 DEF LastPart
  <2> QED
    BY <1>2, <1>3, <1>8, <2>1 DEF StreamEnds
<1>10. Waits(tasks, N, frames + 1, sender[N], requests[N].has)
  <2>1. Waits(tasks, N, frames, sender[N], 0) /\ sender[N].offset \in Nat
    BY <1>2, <1>4, RequestTypes DEF PartsWait, Sender
  <2>2. sender[N].offset = 0
    BY <2>1 DEF Waits
  <2>3. tasks \in Seq(Tasks)
    BY <1>2 DEF SessionTypes
  <2>4. ASSUME NEW i \in DOMAIN tasks PROVE ~PartAt(tasks, i)
    <3>1. SUFFICES ASSUME PartAt(tasks, i) PROVE FALSE
      OBVIOUS
    <3>2. tasks[i] \in Tasks
      BY <2>3, ElementOfSeq
    <3>3. tasks[i].buf \in Nat
      BY <3>1, <3>2 DEF PartAt, Tasks
    <3>4. frames < tasks[i].buf /\ tasks[i].buf <= 0
      BY <2>1, <2>2, <3>1 DEF Waits
    <3> QED
      BY <1>2, <3>3, <3>4
  <2>5. \A b \in (frames + 1 + 1)..0 : FALSE
    BY <1>2
  <2> QED
    BY <1>4, <2>1, <2>2, <2>4, <2>5 DEF Waits
<1>11. /\ tasks' \in Seq(Tasks) /\ Waits(tasks', N, frames + 1, sender[N], requests[N].has)
       /\ \A i \in DOMAIN tasks' : tasks'[i].task = "data" => i \in DOMAIN tasks /\ tasks[i] = tasks'[i]
  <2>1. tasks \in Seq(Tasks)
    BY <1>2 DEF SessionTypes
  <2>2. CASE tasks' = tasks
    BY <1>10, <2>1, <2>2
  <2>3. CASE tasks' = Shutdown(tasks, "completed")
    BY <1>10, <2>1, <2>3, ShutdownWaits
  <2> QED
    BY <2>2, <2>3
<1>12. PartsWait'
  BY <1>1, <1>3, <1>8, <1>11 DEF PartsWait
<1>13. PumpsFiles'
  BY <1>1, <1>2, <1>3, <1>11 DEF PumpsFiles, Pumped
<1>14. SessionTypes'
  <2>1. Headers' = Headers
    BY <1>3 DEF Headers
  <2>2. /\ Len(sender') = N' /\ sender' \in Seq(Sender) /\ received' \in Seq(Parts)
        /\ requests' \in Seq(Requests) /\ headers' \subseteq Headers' /\ onFlush' \in 0..N'
        /\ _contentCallBack' \in {"none", "whole", "unlimited", "websocket"}
        /\ conn' \in {"open", "completed", "timeout", "lost"}
    BY <1>1, <1>2, <1>3, <2>1 DEF SessionTypes
  <2> QED
    BY <1>2, <1>6, <1>11, <2>2 DEF SessionTypes
<1> QED
  BY <1>3, <1>7, <1>9, <1>12, <1>13, <1>14 DEF SessionInv, InStream

LEMMA FramesKeep == SessionInv /\ (SendFrame \/ RecvCloseFrame) => SessionInv'
<1> SUFFICES ASSUME SessionInv, SendFrame \/ RecvCloseFrame PROVE SessionInv'
  OBVIOUS
<1>1. /\ conn = "open" /\ Upgraded /\ frames' = frames + 1
      /\ Send(Part(Len(requests), frames'))
      /\ UNCHANGED <<conn, input, headers, sender, onFlush, received>>
      /\ tasks' = tasks \/ tasks' = Shutdown(tasks, "completed")
  BY DEF SendFrame, RecvCloseFrame
<1> QED
  BY <1>1, FrameSent

LEMMA SessionInit == Init => SessionInv
<1> SUFFICES ASSUME Init PROVE SessionInv
  OBVIOUS
<1>1. /\ conn = "open" /\ requests = <<>> /\ sender = <<>>
      /\ _contentCallBack = "none" /\ headers = {} /\ tasks = <<>> /\ onFlush = 0 /\ watched = TRUE
      /\ buffered = <<>> /\ kernel = <<>> /\ received = <<>> /\ frames = 0
  BY DEF Init
<1>2. N = 0 /\ Len(kernel) = 0 /\ Len(sender) = 0
  BY <1>1, EmptySeq DEF N
<1>3. Stream = <<>>
  BY <1>1, ConcatEmptySeq DEF Stream
<1>4. SessionTypes
  <2>1. /\ requests \in Seq(Requests) /\ sender \in Seq(Sender) /\ tasks \in Seq(Tasks)
        /\ buffered \in Seq(Parts) /\ kernel \in Seq(Parts) /\ received \in Seq(Parts)
    BY <1>1, EmptySeq
  <2>2. 0 <= KernelCap
    BY BoundAssumption
  <2> QED
    BY <1>1, <1>2, <2>1, <2>2 DEF SessionTypes
<1>5. HeadersTrue /\ Waiting /\ EarlierDone
  BY <1>1, <1>2 DEF HeadersTrue, Waiting, EarlierDone
<1>6. ResponsesInOrder /\ InStream
  BY <1>3, EmptySeq DEF ResponsesInOrder, InStream
<1>7. PumpsFiles /\ ~Closing
  BY <1>1 DEF PumpsFiles, Closing, CloseIn
<1> QED
  BY <1>1, <1>4, <1>5, <1>6, <1>7 DEF SessionInv, InStream

LEMMA SessionStep ==
  ASSUME ~Pipelining, SessionInv, [Next]_vars
  PROVE  SessionInv'
<1>1. ASSUME NEW r \in Requests, RecvUnknown(r) PROVE SessionInv'
  <2>1. Bodiless(r, "DELETE", 405, TRUE) /\ r.method = "DELETE"
    <3>1. Bodiless(r, "DELETE", 405, TRUE)
      BY <1>1 DEF RecvUnknown
    <3> QED
      BY <3>1 DEF Bodiless
  <2>2. r.chunks = 0
    BY <2>1, RequestAssumption
  <2>3. 405 \in Nat /\ TRUE \in BOOLEAN /\ "DELETE" \notin {"POST", "HUGE_POST", "UPGRADE", "GET"}
    OBVIOUS
  <2>4. PICK method, code, close : method = "DELETE" /\ code = 405 /\ close = TRUE
    OBVIOUS
  <2>5. /\ code \in Nat /\ close \in BOOLEAN /\ Bodiless(r, method, code, close)
        /\ method \notin {"POST", "HUGE_POST", "UPGRADE"} /\ method # "GET"
    BY <2>1, <2>3, <2>4
  <2> QED
    BY ONLY SessionInv, ~Pipelining, r \in Requests, <2>2, <2>5, BodilessKeeps
<1>2. ASSUME NEW r \in Requests, Handle_Req_HEAD(r) PROVE SessionInv'
  <2>1. Bodiless(r, "HEAD", 200, FALSE) /\ r.method = "HEAD"
    <3>1. Bodiless(r, "HEAD", 200, FALSE)
      BY <1>2 DEF Handle_Req_HEAD
    <3> QED
      BY <3>1 DEF Bodiless
  <2>2. r.chunks = 0
    BY <2>1, RequestAssumption
  <2>3. 200 \in Nat /\ FALSE \in BOOLEAN /\ "HEAD" \notin {"POST", "HUGE_POST", "UPGRADE", "GET"}
    OBVIOUS
  <2>4. PICK method, code, close : method = "HEAD" /\ code = 200 /\ close = FALSE
    OBVIOUS
  <2>5. /\ code \in Nat /\ close \in BOOLEAN /\ Bodiless(r, method, code, close)
        /\ method \notin {"POST", "HUGE_POST", "UPGRADE"} /\ method # "GET"
    BY <2>1, <2>3, <2>4
  <2> QED
    BY ONLY SessionInv, ~Pipelining, r \in Requests, <2>2, <2>5, BodilessKeeps
<1>3. ASSUME NEW r \in Requests, Handle_Req_OPTIONS(r) PROVE SessionInv'
  <2>1. Bodiless(r, "OPTIONS", 200, TRUE) /\ r.method = "OPTIONS"
    <3>1. Bodiless(r, "OPTIONS", 200, TRUE)
      BY <1>3 DEF Handle_Req_OPTIONS
    <3> QED
      BY <3>1 DEF Bodiless
  <2>2. r.chunks = 0
    BY <2>1, RequestAssumption
  <2>3. 200 \in Nat /\ TRUE \in BOOLEAN /\ "OPTIONS" \notin {"POST", "HUGE_POST", "UPGRADE", "GET"}
    OBVIOUS
  <2>4. PICK method, code, close : method = "OPTIONS" /\ code = 200 /\ close = TRUE
    OBVIOUS
  <2>5. /\ code \in Nat /\ close \in BOOLEAN /\ Bodiless(r, method, code, close)
        /\ method \notin {"POST", "HUGE_POST", "UPGRADE"} /\ method # "GET"
    BY <2>1, <2>3, <2>4
  <2> QED
    BY ONLY SessionInv, ~Pipelining, r \in Requests, <2>2, <2>5, BodilessKeeps
<1>4. ASSUME NEW r \in Requests, GetEmptyFile(r) PROVE SessionInv'
  <2>1. Bodiless(r, "GET", 200, r.close) /\ r.chunks = 0
    BY <1>4 DEF GetEmptyFile
  <2>2. r.close \in BOOLEAN
    BY RequestAssumption
  <2> QED
    BY <2>1, <2>2, BodilessKeeps
<1>5. CASE UNCHANGED vars
  <2>1. UNCHANGED <<conn, requests, _contentCallBack, headers, sender, tasks, onFlush, watched,
                    buffered, kernel, received, frames>>
    BY <1>5 DEF vars
  <2>2. UNCHANGED <<Stream, N, Headers>>
    BY <2>1 DEF Stream, N, Headers
  <2>3. SessionTypes'
    BY <2>1, <2>2 DEF SessionInv, SessionTypes
  <2>4. /\ HeadersTrue' /\ Waiting' /\ EarlierDone'
        /\ \A n : Answered(n)' <=> Answered(n)
        /\ \A n \in 1..N : LastPart(n)' = LastPart(n)
    BY <2>1, <2>2 DEF SessionInv, HeadersTrue, Waiting, EarlierDone, Answered, Upgraded, Contains,
       LastPart
  <2>5. ResponsesInOrder' /\ InStream'
    BY <2>1, <2>2, <2>4, StreamSame
  <2>6. PumpsFiles <=> PumpsFiles'
    BY <2>1, <2>2 DEF PumpsFiles, Pumped
  <2>7. ASSUME conn = "open", requests # <<>> PROVE StreamEnds' /\ PartsWait'
    <3>1. N \in 1..N /\ StreamEnds /\ PartsWait
      BY <2>7, SentTyped
    <3>2. SentTo' = SentTo /\ LastPart(N)' = LastPart(N)
      BY <2>1, <2>2, <2>4, <3>1 DEF SentTo, LastPart
    <3> QED
      BY <2>1, <2>2, <2>4, <3>1, <3>2 DEF StreamEnds, PartsWait, Upgraded
  <2>8. Closing' /\ ~Upgraded' => Finished'
    BY <2>1, <2>2 DEF SessionInv, Closing, CloseIn, Upgraded, Finished
  <2> QED
    BY <2>1, <2>3, <2>4, <2>5, <2>6, <2>7, <2>8 DEF SessionInv, InStream
<1> QED
  BY <1>1, <1>2, <1>3, <1>4, <1>5, GetKeeps, PostKeeps, UpgradeKeeps, ContentKeeps, UnlimitedKeeps,
     PartSent, EndRead, EndsKeep, WriteEventKeeps, FramesKeep, ManagerKeeps, PeerReadsKeeps
  DEF Next, RunTask

LEMMA SessionInvariant == ASSUME ~Pipelining PROVE Spec => []SessionInv
<1> ~Pipelining
  OBVIOUS
<1>1. Init => SessionInv
  BY SessionInit
<1>2. SessionInv /\ [Next]_vars => SessionInv'
  BY SessionStep
<1> QED
  BY <1>1, <1>2, PTL DEF Spec

---------------------------------------------------------------------------
(* To a peer that waits for each answer, headers and the parts of bodies   *)
(* go out in the order of the requests and of the file, none twice and     *)
(* none left out, though a body is pumped from the task queue and from the *)
(* socket's flush handler at once (HttpSession.cpp:213-257, 368-377).      *)
THEOREM AnswersInOrder == ASSUME ~Pipelining PROVE Spec => []ResponsesInOrder
<1>1. SessionInv => ResponsesInOrder
  BY DEF SessionInv
<1> QED
  BY <1>1, SessionInvariant, PTL

(* When the server closes an HTTP connection because an answer is          *)
(* complete, every answer has left the socket's buffer to its last part    *)
(* (HttpSession.cpp:214-219, 252-256, 352).                                *)
THEOREM ClosedAfterLast == ASSUME ~Pipelining PROVE Spec => []CloseAfterLast
<1>1. SessionInv => CloseAfterLast
  <2> SUFFICES ASSUME SessionInv, conn = "completed", ~Upgraded, NEW h \in headers
               PROVE  Contains(received \o kernel, Part(h.of, LastPart(h.of)))
    BY DEF CloseAfterLast
  <2>1. Finished /\ SessionTypes
    BY DEF SessionInv, Closing
  <2>2. h.of \in 1..N /\ N \in Nat
    BY <2>1, LenProperties DEF SessionTypes, Headers, N
  <2>3. /\ Stream = received \o kernel /\ DOMAIN Stream = 1..Len(Stream) /\ Len(Stream) \in Nat
        /\ \A i \in 1..Len(received) : i \in DOMAIN Stream /\ Stream[i] = received[i]
        /\ Stream # <<>> => Len(Stream) \in DOMAIN Stream
        /\ Len(received) \in Nat
    <3>1. Len(received) \in Nat /\ Len(kernel) \in Nat /\ Len(buffered) \in Nat
      BY <2>1, LenProperties DEF SessionTypes
    <3> QED
      BY <2>1, <3>1, StreamTyped DEF Finished
  <2>4. CASE h.of = N
    <3>1. requests[N].method # "HUGE_POST"
      BY <2>1, <2>2, <2>4 DEF SessionInv, Waiting, Answered, Finished
    <3>2. requests[N].method # "UPGRADE"
      BY <2>1 DEF SessionInv, Waiting, Finished
    <3>3. Stream # <<>> /\ Stream[Len(Stream)] = Part(N, requests[N].has)
      BY <2>1, <3>1 DEF Finished
    <3> QED
      BY <2>3, <2>4, <3>2, <3>3 DEF Contains, LastPart
  <2>5. CASE h.of # N
    <3>1. h.of \in 1..(N - 1)
      BY <2>2, <2>5
    <3>2. Contains(received, Part(h.of, requests[h.of].has)) /\ requests[h.of].method # "UPGRADE"
      BY <3>1 DEF SessionInv, EarlierDone
    <3>3. Contains(Stream, Part(h.of, requests[h.of].has))
      <4>1. DOMAIN received = 1..Len(received)
        BY <2>1, LenProperties DEF SessionTypes
      <4> QED
        BY <2>3, <3>2, <4>1 DEF Contains
    <3> QED
      BY <2>3, <3>2, <3>3 DEF LastPart
  <2> QED
    BY <2>4, <2>5
<1> QED
  BY <1>1, SessionInvariant, PTL

(* The server closes a connection behind an answer only when that answer   *)
(* said so: a next request on a connection said to be kept is not lost     *)
(* (HttpSession.cpp:214-219, 302, 352-357).                                *)
THEOREM AnnouncedClose == ASSUME ~Pipelining PROVE Spec => []ClosedAsAnnounced
<1>1. SessionInv => ClosedAsAnnounced
  BY DEF SessionInv, Closing, Finished, ClosedAsAnnounced, Last, N
<1> QED
  BY <1>1, SessionInvariant, PTL
=============================================================================
