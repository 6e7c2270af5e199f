----------------------------- MODULE HttpSession -----------------------------
(***************************************************************************)
(* One HTTP connection of the server: requests, the responses sendResponse *)
(* writes, and the bodies AsyncSender pumps into the socket behind them.   *)
(*                                                                         *)
(* Everything here runs on the connection's own poller thread, but not in  *)
(* one go: each part of a body is read in one step and sent in a later     *)
(* one, as a task of the poller, and a body has two pumps at once: the     *)
(* task that finds the socket free goes on reading, and so does the flush  *)
(* handler of the socket.  What the socket cannot take it buffers, and     *)
(* calls the handler when all of that has been written; shutdown is itself *)
(* a task, and drops the buffer.                                           *)
(***************************************************************************)
EXTENDS Integers, Sequences, SequencesExt

CONSTANTS
  Requests,     \* what a peer may ask for: see RequestAssumption
  MaxRequests,  \* bound on the requests of a connection
  MaxFrames,    \* bound on the frames sent after an upgrade
  KernelCap,    \* parts the kernel takes before the peer reads
  Pipelining    \* whether the peer sends a request before it has the answer
                \* to the last one

(* chunks: parts of the body the header announces; has: those the file     *)
(* still has when it is read; close: the peer's Connection header.         *)
ASSUME RequestAssumption ==
  \A r \in Requests :
    /\ r.method \in {"GET", "HEAD", "OPTIONS", "POST", "HUGE_POST", "UPGRADE", "DELETE"}
    /\ r.chunks \in Nat /\ r.has \in 0..r.chunks /\ r.close \in BOOLEAN
    /\ r.method # "GET" => r.chunks = 0
ASSUME BoundAssumption ==
  /\ MaxRequests \in Nat /\ MaxFrames \in Nat
  /\ KernelCap \in Nat \ {0} /\ Pipelining \in BOOLEAN

VARIABLES
  conn,       \* open, or how it ended: completed, timeout, lost
  requests,   \* the requests so far; a response has its request's number
  _contentCallBack, \* what takes the content that follows a header, if any
  headers,    \* the headers sent so far
  sender,     \* the AsyncSenderData of each response
  tasks,      \* the poller's tasks, in order
  onFlush,    \* response whose sender is the socket's flush handler, or 0
  watched,    \* whether the poller waits for the socket to be writable
  buffered,   \* parts in the socket's own buffer
  kernel,     \* parts the kernel has taken
  received,   \* parts the peer has read
  frames      \* frames sent after an upgrade

wire == <<buffered, kernel, watched>>
input == <<requests, _contentCallBack>>
vars == <<conn, requests, _contentCallBack, headers, sender, tasks, onFlush, watched, buffered,
          kernel, received, frames>>

(* Part 0 of a response is its header. *)
Part(n, k) == [of |-> n, at |-> k]

NoSender == [offset |-> 0, _read_complete |-> TRUE]
NewSender == [offset |-> 0, _read_complete |-> FALSE]

Data(n, k) == [task |-> "data", of |-> n, buf |-> k]
Close(why) == [task |-> "close", why |-> why]

(* A watch for the first write event is set when the socket is accepted.   *)
Init ==
  /\ conn = "open"
  /\ requests = <<>> /\ sender = <<>>
  /\ _contentCallBack = "none" /\ headers = {}
  /\ tasks = <<>>
  /\ onFlush = 0
  /\ watched = TRUE
  /\ buffered = <<>> /\ kernel = <<>> /\ received = <<>>
  /\ frames = 0

Upgraded == _contentCallBack = "websocket"

---------------------------------------------------------------------------
(* The socket. *)

(* send: the kernel takes the part, or the socket becomes or stays busy.   *)
Send(part) ==
  IF buffered = <<>> /\ Len(kernel) < KernelCap
  THEN /\ kernel' = Append(kernel, part)
       /\ UNCHANGED <<buffered, watched>>
  ELSE /\ buffered' = Append(buffered, part)
       /\ watched' = TRUE
       /\ UNCHANGED kernel

SocketBusy(buf) == buf # <<>>

(* The first shutdown counts. *)
Shutdown(queue, why) ==
  IF \E i \in DOMAIN queue : queue[i].task = "close" THEN queue ELSE Append(queue, Close(why))

(* The session is destroyed and with it what it had still to do. *)
Ended(why) ==
  /\ conn' = why
  /\ tasks' = <<>> /\ buffered' = <<>>
  /\ watched' = FALSE /\ onFlush' = 0

PeerReads ==
  /\ conn # "lost" /\ kernel # <<>>
  /\ received' = Append(received, Head(kernel))
  /\ kernel' = Tail(kernel)
  /\ UNCHANGED <<conn, input, headers, sender, tasks, onFlush, watched, buffered, frames>>

PeerCloses ==
  /\ conn = "open"
  /\ Ended("lost")
  /\ UNCHANGED <<input, headers, sender, kernel, received, frames>>

---------------------------------------------------------------------------
(* AsyncSender. *)

(* Mutant: the connection is closed after every body. *)
OnRequestDataEnd_Closes ==
  /\ conn = "open" /\ tasks # <<>> /\ Head(tasks).task = "data" /\ Head(tasks).buf = 0
  /\ sender' = [sender EXCEPT ![Head(tasks).of]._read_complete = TRUE]
  /\ tasks' = IF SocketBusy(buffered) THEN Tail(tasks) ELSE Shutdown(Tail(tasks), "completed")
  /\ UNCHANGED <<conn, input, headers, onFlush, wire, received, frames>>

(* The next part of a file, or 0 when there is none. *)
ReadData(n) == IF sender[n].offset < requests[n].has THEN sender[n].offset + 1 ELSE 0

(* Mutant: the part is posted before the tasks that wait already. *)
OnSocketFlushed_First(n, queue) ==
  IF sender[n]._read_complete
  THEN /\ tasks' = IF requests[n].close THEN Shutdown(queue, "completed") ELSE queue
       /\ UNCHANGED sender
  ELSE /\ tasks' = <<Data(n, ReadData(n))>> \o queue
       /\ sender' = [sender EXCEPT ![n].offset = IF ReadData(n) = 0 THEN @ ELSE ReadData(n)]

(* onSocketFlushed with the tasks that are waiting: reads a part and posts *)
(* it, or shuts the connection once all has been read.                     *)
OnSocketFlushed(n, queue) ==
  IF sender[n]._read_complete
  THEN /\ tasks' = IF requests[n].close THEN Shutdown(queue, "completed") ELSE queue
       /\ UNCHANGED sender
  ELSE /\ tasks' = Append(queue, Data(n, ReadData(n)))
       /\ sender' = [sender EXCEPT ![n].offset = IF ReadData(n) = 0 THEN @ ELSE ReadData(n)]

(* Mutant: goes on reading only from the flush handler. *)
OnRequestData_FlushOnly ==
  /\ conn = "open" /\ tasks # <<>> /\ Head(tasks).task = "data" /\ Head(tasks).buf # 0
  /\ Send(Part(Head(tasks).of, Head(tasks).buf))
  /\ tasks' = Tail(tasks)
  /\ UNCHANGED <<conn, input, headers, sender, onFlush, received, frames>>

(* onRequestData with a part of a body. *)
OnRequestData ==
  /\ conn = "open" /\ tasks # <<>> /\ Head(tasks).task = "data" /\ Head(tasks).buf # 0
  /\ LET n == Head(tasks).of
     IN /\ Send(Part(n, Head(tasks).buf))
        /\ IF SocketBusy(buffered')
           THEN tasks' = Tail(tasks) /\ UNCHANGED sender
           ELSE OnSocketFlushed(n, Tail(tasks))
  /\ UNCHANGED <<conn, input, headers, onFlush, received, frames>>

(* Mutant: closes without looking at the socket. *)
OnRequestDataEnd_Busy ==
  /\ conn = "open" /\ tasks # <<>> /\ Head(tasks).task = "data" /\ Head(tasks).buf = 0
  /\ LET n == Head(tasks).of
     IN /\ sender' = [sender EXCEPT ![n]._read_complete = TRUE]
        /\ tasks' = IF requests[n].close THEN Shutdown(Tail(tasks), "completed") ELSE Tail(tasks)
  /\ UNCHANGED <<conn, input, headers, onFlush, wire, received, frames>>

(* onRequestData with nothing: the body has been read. *)
OnRequestDataEnd ==
  /\ conn = "open" /\ tasks # <<>> /\ Head(tasks).task = "data" /\ Head(tasks).buf = 0
  /\ LET n == Head(tasks).of
     IN /\ sender' = [sender EXCEPT ![n]._read_complete = TRUE]
        /\ tasks' = IF ~SocketBusy(buffered) /\ requests[n].close
                    THEN Shutdown(Tail(tasks), "completed") ELSE Tail(tasks)
  /\ UNCHANGED <<conn, input, headers, onFlush, wire, received, frames>>

RunClose ==
  /\ conn = "open" /\ tasks # <<>> /\ Head(tasks).task = "close"
  /\ Ended(Head(tasks).why)
  /\ UNCHANGED <<input, headers, sender, kernel, received, frames>>

(* The socket is writable: what was buffered is written, and when nothing  *)
(* is left the flush handler is called, and dropped if it answers false.   *)
WriteEvent ==
  /\ conn = "open" /\ watched
  /\ buffered = <<>> \/ Len(kernel) < KernelCap
  /\ LET room == KernelCap - Len(kernel)
     IN IF Len(buffered) > room
        THEN /\ kernel' = kernel \o SubSeq(buffered, 1, room)
             /\ buffered' = SubSeq(buffered, room + 1, Len(buffered))
             /\ UNCHANGED <<sender, tasks, onFlush, watched>>
        ELSE /\ kernel' = kernel \o buffered
             /\ buffered' = <<>>
             /\ watched' = FALSE
             /\ IF onFlush = 0
                THEN UNCHANGED <<sender, tasks, onFlush>>
                ELSE /\ OnSocketFlushed(onFlush, tasks)
                     /\ onFlush' = IF sender[onFlush]._read_complete THEN 0 ELSE onFlush
  /\ UNCHANGED <<conn, input, headers, received, frames>>

---------------------------------------------------------------------------
(* Requests. *)

(* A peer that does not pipeline waits for the whole answer to its last    *)
(* request, and asks for nothing on a connection that is being closed.     *)
PeerMaySend ==
  \/ Pipelining \/ requests = <<>>
  \/ /\ requests # <<>>
     /\ received # <<>>
     /\ \E h \in headers :
          h.of = Len(requests) /\ ~h.close /\ Last(received) = Part(h.of, h.length)

(* A header has come: the handler of its method is run. *)
RecvHeader(r) ==
  /\ conn = "open" /\ _contentCallBack = "none"
  /\ Len(requests) < MaxRequests
  /\ PeerMaySend
  /\ requests' = Append(requests, r)

(* The header of response n: its code, the length it announces and whether *)
(* it announces that the connection is closed.                             *)
SendHeader(n, code, length, close) ==
  /\ Send(Part(n, 0))
  /\ headers' = headers \cup {[of |-> n, code |-> code, length |-> length, close |-> close]}

(* sendResponse without a body. *)
SendBodiless(n, code, close) ==
  /\ SendHeader(n, code, 0, close)
  /\ tasks' = IF close THEN Shutdown(tasks, "completed") ELSE tasks

Bodiless(r, method, code, close) ==
  /\ RecvHeader(r) /\ r.method = method
  /\ SendBodiless(Len(requests'), code, close)
  /\ sender' = Append(sender, NoSender)
  /\ UNCHANGED <<conn, _contentCallBack, onFlush, received, frames>>

RecvUnknown(r) == Bodiless(r, "DELETE", 405, TRUE)
Handle_Req_HEAD(r) == Bodiless(r, "HEAD", 200, FALSE)
Handle_Req_OPTIONS(r) == Bodiless(r, "OPTIONS", 200, TRUE)
GetEmptyFile(r) == r.chunks = 0 /\ Bodiless(r, "GET", 200, r.close)

(* The sender of a body becomes the flush handler whoever is, and its      *)
(* first part is read and posted.                                          *)
SendBody(n, body) ==
  LET firstPart == IF body.has > 0 THEN 1 ELSE 0
  IN /\ onFlush' = n
     /\ sender' = Append(sender, [NewSender EXCEPT !.offset = firstPart])
     /\ tasks' = Append(tasks, Data(n, firstPart))

(* A GET of a file or page. *)
Handle_Req_GET(r) ==
  /\ RecvHeader(r)
  /\ r.method = "GET" /\ r.chunks > 0
  /\ SendHeader(Len(requests'), 200, r.chunks, r.close)
  /\ SendBody(Len(requests'), r)
  /\ UNCHANGED <<conn, _contentCallBack, received, frames>>

(* A POST is answered when its content has come; one that is too long, or  *)
(* of unknown length, has a handler of its own for the content.            *)
Handle_Req_POST(r) ==
  /\ RecvHeader(r)
  /\ r.method \in {"POST", "HUGE_POST"}
  /\ _contentCallBack' = IF r.method = "POST" THEN "whole" ELSE "unlimited"
  /\ sender' = Append(sender, NoSender)
  /\ UNCHANGED <<conn, headers, tasks, onFlush, wire, received, frames>>

(* The content, all of it at once: nobody listens for the event, so 404.   *)
RecvContent ==
  /\ conn = "open" /\ _contentCallBack = "whole"
  /\ SendBodiless(Len(requests), 404, Last(requests).close)
  /\ _contentCallBack' = "none"
  /\ UNCHANGED <<conn, requests, sender, onFlush, received, frames>>

(* Content of any length, a piece at a time: the connection is shut; the   *)
(* last piece of a known length lets a header follow on one kept open.     *)
RecvUnlimitedContent ==
  /\ conn = "open" /\ _contentCallBack = "unlimited"
  /\ \E last \in BOOLEAN :
       _contentCallBack' = IF last /\ ~Last(requests).close THEN "none" ELSE "unlimited"
  /\ tasks' = Shutdown(tasks, "completed")
  /\ UNCHANGED <<conn, requests, headers, sender, onFlush, wire, received, frames>>

(* The upgrade to a websocket: 101, and frames from then on. *)
CheckWebSocket(r) ==
  /\ RecvHeader(r)
  /\ r.method = "UPGRADE"
  /\ SendHeader(Len(requests'), 101, 0, FALSE)
  /\ _contentCallBack' = "websocket"
  /\ sender' = Append(sender, NoSender)
  /\ UNCHANGED <<conn, tasks, onFlush, received, frames>>

SendFrame ==
  /\ conn = "open" /\ Upgraded /\ frames < MaxFrames
  /\ frames' = frames + 1
  /\ Send(Part(Len(requests), frames'))
  /\ UNCHANGED <<conn, input, headers, sender, tasks, onFlush, received>>

(* The peer's CLOSE frame is answered and the connection shut. *)
RecvCloseFrame ==
  /\ conn = "open" /\ Upgraded /\ frames < MaxFrames
  /\ frames' = frames + 1
  /\ Send(Part(Len(requests), frames'))
  /\ tasks' = Shutdown(tasks, "completed")
  /\ UNCHANGED <<conn, input, headers, sender, onFlush, received>>

(* Once upgraded, the websocket's session looks after the time. *)
HttpManaged == conn = "open" /\ ~Upgraded

(* Nothing has happened for keepAliveSec: no task waits either. *)
OnManager ==
  /\ HttpManaged /\ tasks = <<>>
  /\ tasks' = Shutdown(tasks, "timeout")
  /\ UNCHANGED <<conn, input, headers, sender, onFlush, wire, received, frames>>

RunTask == OnRequestData \/ OnRequestDataEnd \/ RunClose

Next ==
  \/ \E r \in Requests :
       \/ RecvUnknown(r) \/ Handle_Req_HEAD(r) \/ Handle_Req_OPTIONS(r) \/ GetEmptyFile(r)
       \/ Handle_Req_GET(r) \/ Handle_Req_POST(r) \/ CheckWebSocket(r)
  \/ RecvContent \/ RecvUnlimitedContent
  \/ RunTask \/ WriteEvent
  \/ SendFrame \/ RecvCloseFrame \/ OnManager
  \/ PeerReads \/ PeerCloses

(* The poller runs its tasks and sees the socket become writable; the      *)
(* promises about transfers are made to a peer that reads.                 *)
Fairness == WF_vars(RunTask) /\ WF_vars(WriteEvent) /\ WF_vars(PeerReads)

Spec == Init /\ [][Next]_vars /\ Fairness

(***************************************************************************)
(* Properties.                                                             *)
(***************************************************************************)
Stream == received \o kernel \o buffered

(* The last part of the answer to request n, and what may come after a     *)
(* part: the answer's next one, or the header of the next answer.          *)
LastPart(n) == IF requests[n].method = "UPGRADE" THEN frames ELSE requests[n].has

Follows(part, next) ==
  \/ next.of = part.of /\ next.at = part.at + 1 /\ next.at <= LastPart(next.of)
  \/ next.of = part.of + 1 /\ next.at = 0 /\ part.at = LastPart(part.of)

(* The two pumps of a body, the next response and a websocket's frames     *)
(* never mix up the stream: headers and parts come in the order of the     *)
(* requests and of the file, none twice or missing, as long as the peer    *)
(* does not pipeline (HttpSession.cpp:213-257, 368-377).                   *)
ResponsesInOrder ==
  /\ Stream # <<>> => Stream[1] = Part(1, 0)
  /\ \A i \in 1..(Len(Stream) - 1) : Follows(Stream[i], Stream[i + 1])

(* When the server itself closes an HTTP connection because an answer is   *)
(* complete, every answer has gone to the kernel to its last part:         *)
(* shutdown never drops some from the socket's buffer                      *)
(* (HttpSession.cpp:214-219, 252-256, 352).                                *)
CloseAfterLast ==
  conn = "completed" /\ ~Upgraded =>
    \A h \in headers : Contains(received \o kernel, Part(h.of, LastPart(h.of)))

(* The server closes a connection after an answer only if that answer      *)
(* announced it: the next request on a connection said to be kept is not   *)
(* lost (HttpSession.cpp:214-219, 302, 352-357).  Excused is content that  *)
(* is too long, which has no answer.                                       *)
ClosedAsAnnounced ==
  conn = "completed" /\ ~Upgraded /\ Last(requests).method # "HUGE_POST"
    => \E h \in headers : h.of = Len(requests) /\ h.close

(* A sender that has not read its body to the end will go on: its next     *)
(* part is waiting in a task, or it is the handler of a flush to come      *)
(* (HttpSession.cpp:244-251: the file is not finished, more must be sent). *)
SenderDriven ==
  conn = "open" =>
    \A n \in DOMAIN sender :
      \/ sender[n]._read_complete
      \/ \E i \in DOMAIN tasks : tasks[i].task = "data" /\ tasks[i].of = n
      \/ onFlush = n /\ watched

Delivered(n) == n \in DOMAIN requests /\ Contains(received, Part(n, requests[n].has))

(* A peer that reads gets all there is of every answer, unless the         *)
(* connection ends, however often the socket is busy in between            *)
(* (HttpSession.cpp:213-257).                                              *)
TransferCompletes ==
  \A n \in 1..MaxRequests :
    (\E h \in headers : h.of = n) ~> (conn # "open" \/ Delivered(n))
=============================================================================
