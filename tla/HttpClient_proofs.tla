-------------------------- MODULE HttpClient_proofs --------------------------
(***************************************************************************)
(* Proofs about HttpClient: for any servers, responses of any length and   *)
(* with any headers, any number of requests and redirections.              *)
(***************************************************************************)
EXTENDS HttpClient, SequenceTheorems, TLAPS

Pieces == [of : Nat, part : {"head", "data", "last"}]

Ahead == input \o wire

NoHead(s) == \A i \in DOMAIN s : s[i].part # "head"

ClientTypes ==
  /\ user \in {"requester", "downloader"}
  /\ sock \in {"none", "connecting", "connected", "failing"}
  /\ asked \in BOOLEAN /\ unlimited \in BOOLEAN /\ chunked \in BOOLEAN
  /\ _complete \in BOOLEAN /\ calling \in BOOLEAN /\ _on_result \in BOOLEAN
  /\ wire \in Seq(Pieces) /\ input \in Seq(Pieces) /\ remain \in Seq(Pieces)
  /\ saved \in Seq(Pieces)
  /\ _recved_body_size \in Nat /\ _total_body_size \in Int
  /\ starts \in 0..MaxStarts /\ redirects \in 0..MaxRedirects /\ last \in Nat
  /\ kind \in [Requests -> Kinds \cup {NoKind}]

(* Every request of the user leaves room for its redirections.             *)
Counted ==
  /\ last <= starts * (MaxRedirects + 1)
  /\ last # 0 => last + MaxRedirects <= starts * (MaxRedirects + 1) + redirects

(* Nothing comes but from a connection that is up, which is set up for a   *)
(* request.                                                                *)
Flow ==
  /\ sock # "connected" => wire = <<>> /\ input = <<>> /\ ~asked
  /\ sock = "connecting" => ~_complete /\ ~unlimited /\ last # 0

(* What the splitter keeps is no head, and nothing while there is content. *)
Kept == NoHead(remain) /\ (unlimited => remain = <<>>)

(* The request is answered once: until then, and until the head has been   *)
(* read, it is not complete.                                               *)
Pending ==
  /\ asked => NoHead(Ahead)
  /\ asked \/ ~NoHead(Ahead) => ~_complete /\ last # 0

(* What of a response k to the last request is behind a position: so many  *)
(* units of content, and the last chunk.                                   *)
Holds(s, at, units, k) ==
  /\ Len(s) = at + units + (IF k.frame = "chunked" THEN 1 ELSE 0)
  /\ \A i \in (at + 1)..Len(s) : s[i] = Token(last, IF i <= at + units THEN "data" ELSE "last")

HeadOf(s, at) ==
  /\ at \in 1..Len(s) /\ s[at] = Token(last, "head")
  /\ \A i \in 1..(at - 1) : s[i].part # "head"

(* A head on its way is that of the last request, and its content follows. *)
Arriving ==
  ~unlimited /\ ~NoHead(Ahead) =>
    /\ kind[last] \in Kinds
    /\ kind[last].frame = "moved" => redirects < MaxRedirects
    /\ \E at \in Nat : HeadOf(remain \o Ahead, at) /\ Holds(remain \o Ahead, at, kind[last].sent, kind[last])

(* Content that is counted is that of the last request: what is saved and  *)
(* what is ahead make it up.                                               *)
Framed == unlimited /\ (chunked \/ _total_body_size # -1) /\ ~_complete

Counting ==
  Framed =>
    /\ ~asked /\ NoHead(Ahead)
    /\ last \in Requests /\ kind[last] \in Kinds
    /\ chunked <=> kind[last].frame = "chunked"
    /\ chunked => _total_body_size = -1
    /\ ~chunked => _total_body_size = kind[last].stated
    /\ Len(saved) = _recved_body_size
    /\ \A i \in DOMAIN saved : saved[i] = Token(last, "data")
    /\ sock = "connected" => /\ _recved_body_size <= kind[last].sent
                             /\ Holds(Ahead, 0, kind[last].sent - _recved_body_size, kind[last])

(* Before a header has been read nothing is stated, nor saved in the file. *)
Unread ==
  ~unlimited => /\ _total_body_size = 0
                /\ user = "downloader" /\ ~_complete => saved = <<>>

Reporting ==
  /\ ~_complete => results = <<>>
  /\ OneEnd /\ WholeBody
  /\ calling => _complete

Jar ==
  /\ \A c \in jar : {"host", "key"} \subseteq DOMAIN c /\ <<c.host, c.key>> \in given
  /\ peer = _last_host
  /\ OwnCookies

ClientInv ==
  /\ ClientTypes /\ Counted /\ Flow /\ Kept /\ Pending /\ Arriving /\ Counting /\ Unread
  /\ Reporting /\ Jar

---------------------------------------------------------------------------
(* Sequences. *)

LEMMA NoHeadEmpty == NoHead(<<>>) /\ <<>> \in Seq(Pieces) /\ Len(<<>>) = 0
  BY EmptySeq DEF NoHead

LEMMA Joined ==
  ASSUME NEW a \in Seq(Pieces), NEW b \in Seq(Pieces)
  PROVE  /\ a \o b \in Seq(Pieces) /\ Len(a \o b) = Len(a) + Len(b)
         /\ Len(a) \in Nat /\ Len(b) \in Nat
         /\ DOMAIN a = 1..Len(a) /\ DOMAIN b = 1..Len(b) /\ DOMAIN (a \o b) = 1..(Len(a) + Len(b))
         /\ \A i \in 1..Len(a) : (a \o b)[i] = a[i]
         /\ \A i \in 1..Len(b) : (a \o b)[Len(a) + i] = b[i]
         /\ NoHead(a \o b) <=> NoHead(a) /\ NoHead(b)
<1>1. /\ a \o b \in Seq(Pieces) /\ Len(a \o b) = Len(a) + Len(b)
      /\ Len(a) \in Nat /\ Len(b) \in Nat
      /\ DOMAIN a = 1..Len(a) /\ DOMAIN b = 1..Len(b) /\ DOMAIN (a \o b) = 1..(Len(a) + Len(b))
  BY ConcatProperties, LenProperties
<1>2. \A i \in 1..Len(a) : (a \o b)[i] = a[i]
  BY <1>1, ConcatProperties
<1>3. \A i \in 1..Len(b) : (a \o b)[Len(a) + i] = b[i]
  <2> SUFFICES ASSUME NEW i \in 1..Len(b) PROVE (a \o b)[Len(a) + i] = b[i]
    OBVIOUS
  <2>1. Len(a) + i \in 1..(Len(a) + Len(b)) /\ ~(Len(a) + i <= Len(a)) /\ (Len(a) + i) - Len(a) = i
    BY <1>1
  <2> QED
    BY <1>1, <2>1, ConcatProperties
<1>4. NoHead(a \o b) => NoHead(a) /\ NoHead(b)
  <2>1. \A i \in 1..Len(a) : i \in 1..(Len(a) + Len(b))
    BY <1>1
  <2>2. \A i \in 1..Len(b) : Len(a) + i \in 1..(Len(a) + Len(b))
    BY <1>1
  <2> QED
    BY <1>1, <1>2, <1>3, <2>1, <2>2 DEF NoHead
<1>5. NoHead(a) /\ NoHead(b) => NoHead(a \o b)
  <2> SUFFICES ASSUME NoHead(a), NoHead(b), NEW i \in 1..(Len(a) + Len(b))
               PROVE  (a \o b)[i].part # "head"
    BY <1>1 DEF NoHead
  <2>1. CASE i \in 1..Len(a)
    BY <1>1, <1>2, <2>1 DEF NoHead
  <2>2. CASE ~(i \in 1..Len(a))
    <3>1. PICK j \in 1..Len(b) : i = Len(a) + j
      <4>1. i - Len(a) \in 1..Len(b) /\ i = Len(a) + (i - Len(a))
        BY <1>1, <2>2
      <4> QED
        BY <4>1
    <3> QED
      BY <1>1, <1>3, <3>1 DEF NoHead
  <2> QED
    BY <2>1, <2>2
<1> QED
  BY <1>1, <1>2, <1>3, <1>4, <1>5

LEMMA Cut ==
  ASSUME NEW s \in Seq(Pieces), NEW n \in 1..Len(s)
  PROVE  LET front == SubSeq(s, 1, n)
             rest  == SubSeq(s, n + 1, Len(s))
         IN /\ front \in Seq(Pieces) /\ rest \in Seq(Pieces)
            /\ front \o rest = s
            /\ Len(s) \in Nat /\ Len(rest) = Len(s) - n
            /\ \A i \in 1..(Len(s) - n) : rest[i] = s[n + i]
<1> DEFINE front == SubSeq(s, 1, n)
           rest  == SubSeq(s, n + 1, Len(s))
<1>0. Len(s) \in Nat /\ n \in Nat /\ \A i \in 1..Len(s) : s[i] \in Pieces
  BY LenProperties, ElementOfSeq
<1>1. /\ front \in Seq(Pieces) /\ Len(front) = n
      /\ \A i \in 1..n : front[i] = s[i]
  <2>1. \A i \in 1..n : s[i] \in Pieces
    BY <1>0
  <2>2. front = [i \in 1..n |-> s[i]]
    BY <1>0, SubSeqProperties
  <2>3. front \in Seq(Pieces) /\ Len(front) = n
    BY <1>0, <2>1, SubSeqProperties
  <2> QED
    BY <2>2, <2>3
<1>2. /\ rest \in Seq(Pieces) /\ Len(rest) = Len(s) - n
      /\ \A i \in 1..(Len(s) - n) : rest[i] = s[n + i]
  <2>1. \A i \in (n + 1)..Len(s) : s[i] \in Pieces
    BY <1>0
  <2>2. rest \in Seq(Pieces) /\ Len(rest) = IF n + 1 <= Len(s) THEN Len(s) - (n + 1) + 1 ELSE 0
    BY <1>0, <2>1, SubSeqProperties
  <2>3. \A i \in 1..(Len(s) - n) : rest[i] = s[(n + 1) + i - 1] /\ (n + 1) + i - 1 = n + i
    BY <1>0, SubSeqProperties
  <2>4. Len(rest) = Len(s) - n
    BY <1>0, <2>2
  <2> QED
    BY <2>2, <2>3, <2>4
<1> HIDE DEF front, rest
<1>3. /\ front \o rest \in Seq(Pieces) /\ Len(front \o rest) = Len(s)
      /\ \A i \in 1..n : (front \o rest)[i] = s[i]
      /\ \A i \in 1..(Len(s) - n) : (front \o rest)[n + i] = s[n + i]
  <2>1. /\ front \o rest \in Seq(Pieces) /\ Len(front \o rest) = Len(front) + Len(rest)
        /\ \A i \in 1..Len(front) : (front \o rest)[i] = front[i]
        /\ \A i \in 1..Len(rest) : (front \o rest)[Len(front) + i] = rest[i]
    BY <1>1, <1>2, Joined
  <2>2. Len(front \o rest) = Len(s)
    BY <1>0, <1>1, <1>2, <2>1
  <2> QED
    BY <1>1, <1>2, <2>1, <2>2
<1>4. \A i \in 1..Len(s) : (front \o rest)[i] = s[i]
  <2> SUFFICES ASSUME NEW i \in 1..Len(s), ~(i \in 1..n) PROVE (front \o rest)[i] = s[i]
    BY <1>3
  <2>1. i - n \in 1..(Len(s) - n) /\ n + (i - n) = i
    BY <1>0
  <2> QED
    BY <1>3, <2>1
<1>5. front \o rest = s
  BY <1>3, <1>4, SeqEqual
<1> QED
  BY <1>0, <1>1, <1>2, <1>5 DEF front, rest

LEMMA FirstOff ==
  ASSUME NEW s \in Seq(Pieces), s # <<>>
  PROVE  /\ Head(s) \in Pieces /\ Head(s) = s[1] /\ Tail(s) \in Seq(Pieces)
         /\ Len(s) \in Nat \ {0} /\ Len(Tail(s)) = Len(s) - 1
         /\ \A i \in 1..(Len(s) - 1) : Tail(s)[i] = s[i + 1]
<1>1. Len(s) \in Nat \ {0}
  BY LenProperties, EmptySeq
<1>2. /\ Head(s) \in Pieces /\ Head(s) = s[1] /\ Tail(s) \in Seq(Pieces)
      /\ Len(Tail(s)) = Len(s) - 1
      /\ \A i \in 1..Len(Tail(s)) : Tail(s)[i] = s[i + 1]
  BY HeadTailProperties
<1> QED
  BY <1>1, <1>2

LEMMA AheadTyped ==
  ASSUME ClientTypes
  PROVE  /\ Ahead \in Seq(Pieces) /\ Len(Ahead) = Len(input) + Len(wire)
         /\ Len(input) \in Nat /\ Len(wire) \in Nat
         /\ NoHead(Ahead) <=> NoHead(input) /\ NoHead(wire)
         /\ \A i \in 1..Len(input) : Ahead[i] = input[i]
         /\ \A i \in 1..Len(wire) : Ahead[Len(input) + i] = wire[i]
         /\ input = <<>> => Ahead = wire
         /\ wire = <<>> => Ahead = input
<1>1. input \in Seq(Pieces) /\ wire \in Seq(Pieces)
  BY DEF ClientTypes
<1>2. input = <<>> => Ahead = wire
  BY <1>1, ConcatEmptySeq DEF Ahead
<1>3. wire = <<>> => Ahead = input
  BY <1>1, ConcatEmptySeq DEF Ahead
<1> HIDE DEF Ahead
<1> QED
  BY <1>1, <1>2, <1>3, Joined DEF Ahead

---------------------------------------------------------------------------
(* What most steps leave as it is. *)

LEMMA StillArriving ==
  UNCHANGED <<remain, Ahead, unlimited, last, kind, redirects>> => (Arriving' <=> Arriving)
  BY DEF Arriving, HeadOf, Holds, NoHead

LEMMA StillJar ==
  ASSUME Jar, UNCHANGED <<jar, peer, _last_host, carried, given>>
  PROVE  Jar'
  BY DEF Jar, OwnCookies

LEMMA StillReporting ==
  ASSUME Reporting, UNCHANGED <<results, last>>, kind' = kind \/ results = <<>>,
         _complete' = _complete, calling' = calling \/ ~calling'
  PROVE  Reporting'
<1>1. OneEnd' /\ (~_complete' => results' = <<>>) /\ (calling' => _complete')
  BY DEF Reporting, OneEnd
<1>2. WholeBody'
  <2>1. CASE kind' = kind
    BY <2>1 DEF Reporting, WholeBody
  <2>2. CASE results = <<>>
    BY <2>2, EmptySeq DEF WholeBody
  <2> QED
    BY <2>1, <2>2
<1> QED
  BY <1>1, <1>2 DEF Reporting

(* The end of a request that is not complete is handed on, and is a        *)
(* success of stated length only with the content of the response.         *)
LEMMA CompletedEnds ==
  ASSUME ClientInv, NEW success \in BOOLEAN, NEW body \in Seq(Pieces), NEW recved \in Nat,
         NEW total \in Int, Completed(success, body, recved, total), UNCHANGED <<last, kind>>,
         ~_complete /\ total # -1 /\ (success \/ (total > 0 /\ recved >= total)) =>
           /\ \A j \in 1..Len(body) : body[j] = Token(last, "data")
           /\ Len(body) >= kind[last].stated
  PROVE  /\ _complete' /\ _complete' \in BOOLEAN /\ calling' \in BOOLEAN /\ _on_result' = _on_result
         /\ saved' \in Seq(Pieces) /\ Reporting'
<1>1. CASE _complete
  <2>1. UNCHANGED <<_complete, _on_result, calling, results>> /\ saved' = body
    BY <1>1 DEF Completed, resultVars
  <2>2. Reporting'
    BY <2>1, StillReporting DEF ClientInv
  <2> QED
    BY <1>1, <2>1, <2>2 DEF ClientInv, ClientTypes
<1>2. CASE ~_complete
  <2> DEFINE r == [ok     |-> success \/ (total > 0 /\ recved >= total) \/ (total = -1 /\ recved > 0),
                   stated |-> total # -1,
                   body   |-> body]
  <2>1. /\ _complete' = TRUE /\ results' = Append(results, r) /\ calling' = _on_result
        /\ saved' = (IF user = "requester" THEN <<>> ELSE body) /\ _on_result' = _on_result
    BY <1>2 DEF Completed
  <2>2. /\ r.ok <=> success \/ (total > 0 /\ recved >= total) \/ (total = -1 /\ recved > 0)
        /\ r.stated <=> total # -1
        /\ r.body = body
    OBVIOUS
  <2> HIDE DEF r
  <2>3. results = <<>>
    BY <1>2 DEF ClientInv, Reporting
  <2>4. Len(results') = 1 /\ results'[1] = r
    <3>1. results \in Seq({r}) /\ Len(results) = 0
      BY <2>3, EmptySeq
    <3> QED
      BY <2>1, <3>1, AppendProperties
  <2>5. WholeBody'
    <3>1. ASSUME r.ok, r.stated
          PROVE  (\A j \in 1..Len(body) : body[j] = Token(last, "data")) /\ Len(body) >= kind[last].stated
      BY <1>2, <2>2, <3>1
    <3>2. \A i \in 1..Len(results') : results'[i] = r
      BY <2>4
    <3> QED
      BY <2>2, <3>1, <3>2 DEF WholeBody
  <2>6. Reporting'
    BY <2>1, <2>4, <2>5 DEF Reporting, OneEnd
  <2>7. saved' \in Seq(Pieces)
    BY <2>1, NoHeadEmpty
  <2> QED
    BY <2>1, <2>6, <2>7 DEF ClientInv, ClientTypes
<1> QED
  BY <1>1, <1>2

---------------------------------------------------------------------------
(* Requests. *)

LEMMA SendKeeps ==
  ASSUME ClientInv, NEW url \in Urls, SendRequest(url), NoHead(wire), Counted',
         starts' \in 0..MaxStarts, redirects' \in 0..MaxRedirects,
         results' = <<>>, saved' \in Seq(Pieces), user = "downloader" => saved' = <<>>,
         ~calling', calling' \in BOOLEAN, _on_result' \in BOOLEAN, UNCHANGED <<user, kind, given>>
  PROVE  ClientInv'
<1>1. /\ remain' = <<>> /\ unlimited' = FALSE /\ _complete' = FALSE
      /\ _recved_body_size' = 0 /\ _total_body_size' = 0 /\ chunked' = FALSE
      /\ input' = <<>> /\ last' = last + 1
      /\ carried' = GetCookies(jar, url.host, url.path)
      /\ jar' = KeptCookies(jar, url.host, url.path)
      /\ _last_host' = url.host
      /\ Connect(url.host)
  BY DEF SendRequest, ClearResponse
<1>2. /\ sock' \in {"none", "connecting", "connected", "failing"} /\ asked' \in BOOLEAN
      /\ wire' \in Seq(Pieces) /\ NoHead(wire') /\ peer' = url.host
      /\ sock' # "connected" => wire' = <<>> /\ ~asked'
  <2>1. CASE _last_host = url.host /\ sock = "connected"
    <3>1. asked' = TRUE /\ UNCHANGED <<sock, wire, peer>>
      BY <1>1, <2>1 DEF Connect
    <3> QED
      BY <2>1, <3>1 DEF ClientInv, ClientTypes, Jar
  <2>2. CASE ~(_last_host = url.host /\ sock = "connected")
    <3>1. sock' = "connecting" /\ asked' = FALSE /\ wire' = <<>> /\ peer' = url.host
      BY <1>1, <2>2 DEF Connect
    <3> QED
      BY <3>1, NoHeadEmpty
  <2> QED
    BY <2>1, <2>2
<1>3. last' \in Nat /\ last' # 0
  BY <1>1 DEF ClientInv, ClientTypes
<1>4. ClientTypes'
  <2>1. kind' \in [Requests -> Kinds \cup {NoKind}] /\ user' \in {"requester", "downloader"}
    BY DEF ClientInv, ClientTypes
  <2>2. /\ remain' \in Seq(Pieces) /\ input' \in Seq(Pieces)
        /\ unlimited' \in BOOLEAN /\ chunked' \in BOOLEAN /\ _complete' \in BOOLEAN
        /\ _recved_body_size' \in Nat /\ _total_body_size' \in Int
    <3>1. unlimited' \in BOOLEAN /\ chunked' \in BOOLEAN /\ _complete' \in BOOLEAN
      BY <1>1
    <3>2. _recved_body_size' \in Nat /\ _total_body_size' \in Int
      BY <1>1
    <3>3. remain' \in Seq(Pieces) /\ input' \in Seq(Pieces)
      BY <1>1, NoHeadEmpty
    <3> QED
      BY <3>1, <3>2, <3>3
  <2> QED
    BY <1>2, <1>3, <2>1, <2>2 DEF ClientTypes
<1>5. Flow' /\ Kept'
  BY <1>1, <1>2, <1>3, NoHeadEmpty DEF Flow, Kept
<1>6. NoHead(Ahead)'
  BY <1>1, <1>2, ConcatEmptySeq DEF Ahead
<1>7. Pending' /\ Arriving' /\ Counting' /\ Unread'
  BY <1>1, <1>3, <1>6 DEF Pending, Arriving, Counting, Framed, Unread
<1>8. Reporting'
  BY <1>1, EmptySeq DEF Reporting, OneEnd, WholeBody
<1>9. Jar'
  <2>1. jar' \subseteq jar /\ given' = given
    BY <1>1 DEF KeptCookies
  <2>2. \A c \in carried' : c \in jar /\ c.host = url.host
    BY <1>1 DEF GetCookies, Covered
  <2> QED
    BY <1>1, <1>2, <2>1, <2>2 DEF ClientInv, Jar, OwnCookies
<1> QED
  BY <1>4, <1>5, <1>7, <1>8, <1>9 DEF ClientInv

(* Counting: arithmetic on its own.                                        *)
LEMMA OneMore ==
  ASSUME NEW n \in Nat, NEW s \in Nat, NEW r \in Nat, NEW d \in 0..r,
         n <= s * (r + 1), n # 0 => n + r <= s * (r + 1) + d
  PROVE  /\ n + 1 <= (s + 1) * (r + 1)
         /\ n + 1 + r <= (s + 1) * (r + 1) + 0
<1>1. (s + 1) * (r + 1) = s * (r + 1) + r + 1 /\ s * (r + 1) \in Nat
  OBVIOUS
<1> DEFINE p == s * (r + 1)
<1> HIDE DEF p
<1>2. (s + 1) * (r + 1) = p + r + 1 /\ p \in Nat /\ n <= p
  BY <1>1 DEF p
<1> QED
  BY <1>2

LEMMA WithinRequests ==
  ASSUME NEW n \in Nat \ {0}, NEW s \in 0..MaxStarts, n <= s * (MaxRedirects + 1)
  PROVE  n \in Requests
<1>1. s * (MaxRedirects + 1) <= MaxStarts * (MaxRedirects + 1)
  <2>1. PICK a \in Nat, r \in Nat : a = MaxStarts - s /\ r = MaxRedirects + 1
    BY BoundsAssumption
  <2>2. (s + a) * r = s * r + a * r /\ a * r \in Nat /\ s * r \in Nat
    BY <2>1
  <2>3. s + a = MaxStarts
    BY <2>1, BoundsAssumption
  <2> DEFINE x == s * r
             y == a * r
  <2>4. x <= x + y
    <3>1. x \in Nat /\ y \in Nat
      BY <2>2
    <3> HIDE DEF x, y
    <3> QED
      BY <3>1
  <2> QED
    BY <2>1, <2>2, <2>3, <2>4
<1>2. MaxStarts * (MaxRedirects + 1) \in Nat /\ s * (MaxRedirects + 1) \in Nat
  BY BoundsAssumption
<1> DEFINE bound == MaxStarts * (MaxRedirects + 1)
           p == s * (MaxRedirects + 1)
<1>3. n <= p /\ p <= bound /\ bound \in Nat /\ p \in Nat
  BY <1>1, <1>2
<1> HIDE DEF bound, p
<1>4. n \in 1..bound
  BY <1>3
<1> QED
  BY <1>4 DEF Requests, bound

LEMMA StartKeeps ==
  ASSUME ClientInv, NEW url \in Urls, Start(url) \/ StartInside(url)
  PROVE  ClientInv'
<1>1. /\ StartRequest(url) /\ _complete
      /\ ~calling' /\ calling' \in BOOLEAN /\ _on_result' \in BOOLEAN
  <2>1. CASE Start(url)
    BY <2>1 DEF Start, Idle, ClientInv, ClientTypes
  <2>2. CASE StartInside(url)
    BY <2>2 DEF StartInside, ClientInv, Reporting
  <2> QED
    BY <2>1, <2>2
<1>2. /\ starts < MaxStarts /\ starts' = starts + 1 /\ redirects' = 0
      /\ saved' = (IF user = "downloader" THEN <<>> ELSE saved)
      /\ results' = <<>> /\ SendRequest(url) /\ UNCHANGED <<user, kind, given>>
  BY <1>1 DEF StartRequest
<1>3. NoHead(wire)
  BY <1>1, AheadTyped DEF ClientInv, Pending
<1>4. /\ last \in Nat /\ starts \in Nat /\ MaxRedirects \in Nat /\ redirects \in 0..MaxRedirects
      /\ starts' \in 0..MaxStarts
  BY <1>2, BoundsAssumption DEF ClientInv, ClientTypes
<1>5. last' = last + 1
  BY <1>2 DEF SendRequest
<1>6. Counted'
  <2>1. /\ last + 1 <= (starts + 1) * (MaxRedirects + 1)
        /\ last + 1 + MaxRedirects <= (starts + 1) * (MaxRedirects + 1) + 0
    BY <1>4, OneMore DEF ClientInv, Counted
  <2> QED
    BY <1>2, <1>5, <2>1 DEF Counted
<1>7. saved' \in Seq(Pieces) /\ (user = "downloader" => saved' = <<>>)
  BY <1>2, NoHeadEmpty DEF ClientInv, ClientTypes
<1> QED
  BY <1>1, <1>2, <1>3, <1>4, <1>6, <1>7, SendKeeps

---------------------------------------------------------------------------
(* The connection. *)

LEMMA NothingAhead ==
  ASSUME input' = <<>>, wire' = <<>>
  PROVE  Ahead' = <<>> /\ NoHead(Ahead)'
<1>1. Ahead' = <<>>
  BY ConcatEmptySeq DEF Ahead
<1> QED
  BY <1>1, NoHeadEmpty

LEMMA FailKeeps ==
  ASSUME ClientInv, Fail, _recved_body_size' \in Nat, saved' \in Seq(Pieces),
         UNCHANGED <<remain, unlimited, _total_body_size, chunked, resultVars, userVars, sentVars>>,
         ~unlimited => saved' = saved,
         Framed => /\ Len(saved') = _recved_body_size'
                   /\ \A i \in DOMAIN saved' : saved'[i] = Token(last, "data")
  PROVE  ClientInv'
<1>1. sock' = "failing" /\ asked' = FALSE /\ wire' = <<>> /\ input' = <<>>
  BY DEF Fail
<1>2. UNCHANGED <<remain, unlimited, _total_body_size, chunked, _complete, _on_result, calling,
                  results, user, starts, redirects, last, _last_host, peer, carried, jar, given,
                  kind>>
  BY DEF resultVars, userVars, sentVars, askVars, cookieVars
<1>3. Ahead' = <<>> /\ NoHead(Ahead)'
  BY <1>1, NothingAhead
<1>4. ClientTypes'
  BY <1>1, <1>2, NoHeadEmpty DEF ClientInv, ClientTypes
<1>5. Counted' /\ Flow' /\ Kept' /\ Pending' /\ Arriving' /\ Unread'
  BY <1>1, <1>2, <1>3 DEF ClientInv, Counted, Flow, Kept, Pending, Arriving, Unread, NoHead
<1>6. Counting'
  BY <1>1, <1>2, <1>3 DEF ClientInv, Counting, Framed
<1>7. Reporting' /\ Jar'
  BY <1>2, StillReporting, StillJar DEF ClientInv
<1> QED
  BY <1>4, <1>5, <1>6, <1>7 DEF ClientInv

LEMMA FailsKeep ==
  ASSUME ClientInv, PeerCloses \/ OnManager
  PROVE  ClientInv'
<1>1. Fail /\ UNCHANGED <<parseVars, resultVars, saved, userVars, sentVars>>
  BY DEF PeerCloses, OnManager
<1>2. UNCHANGED <<remain, unlimited, _total_body_size, chunked, _recved_body_size, saved>>
  BY <1>1 DEF parseVars
<1>3. _recved_body_size' \in Nat /\ saved' \in Seq(Pieces)
  BY <1>2 DEF ClientInv, ClientTypes
<1>4. Framed => /\ Len(saved') = _recved_body_size'
                /\ \A i \in DOMAIN saved' : saved'[i] = Token(last, "data")
  BY <1>2 DEF ClientInv, Counting
<1> QED
  BY <1>1, <1>2, <1>3, <1>4, FailKeeps

LEMMA SocketEndsKeeps == ClientInv /\ SocketEnds => ClientInv'
<1> SUFFICES ASSUME ClientInv, SocketEnds PROVE ClientInv'
  OBVIOUS
<1>1. /\ input = <<>> /\ input' = <<>> /\ sock' = "none" /\ asked' = FALSE /\ wire' = <<>>
      /\ Completed(FALSE, saved, _recved_body_size, _total_body_size)
  BY DEF SocketEnds, Idle
<1>2. UNCHANGED <<remain, unlimited, _recved_body_size, _total_body_size, chunked,
                  user, starts, redirects, last, _last_host, peer, carried, jar, given, kind>>
  BY DEF SocketEnds, parseVars, userVars, sentVars, askVars, cookieVars
<1>3. ASSUME ~_complete, _total_body_size # -1, _total_body_size > 0,
             _recved_body_size >= _total_body_size
      PROVE  /\ \A j \in 1..Len(saved) : saved[j] = Token(last, "data")
             /\ Len(saved) >= kind[last].stated
  <2>1. Framed
    BY <1>3 DEF Framed, ClientInv, Unread
  <2>2. Len(saved) = _recved_body_size /\ _total_body_size = kind[last].stated
    BY <1>3, <2>1 DEF ClientInv, Counting
  <2>3. DOMAIN saved = 1..Len(saved)
    BY LenProperties DEF ClientInv, ClientTypes
  <2> QED
    BY <1>3, <2>1, <2>2, <2>3 DEF ClientInv, Counting
<1>4. /\ saved \in Seq(Pieces) /\ _recved_body_size \in Nat /\ _total_body_size \in Int
      /\ FALSE \in BOOLEAN
  BY DEF ClientInv, ClientTypes
<1>5. /\ _complete' /\ _complete' \in BOOLEAN /\ calling' \in BOOLEAN /\ _on_result' = _on_result
      /\ saved' \in Seq(Pieces) /\ Reporting'
  BY <1>1, <1>2, <1>3, <1>4, CompletedEnds
<1>6. Ahead' = <<>> /\ NoHead(Ahead)'
  BY <1>1, NothingAhead
<1>7. ClientTypes'
  BY <1>1, <1>2, <1>5, NoHeadEmpty DEF ClientInv, ClientTypes
<1>8. Counted' /\ Flow' /\ Kept' /\ Pending' /\ Arriving' /\ Unread'
  BY <1>1, <1>2, <1>5, <1>6 DEF ClientInv, Counted, Flow, Kept, Pending, Arriving, Unread, NoHead
<1>9. Counting'
  BY <1>5 DEF Counting, Framed
<1>10. Jar'
  BY <1>2, StillJar DEF ClientInv
<1> QED
  BY <1>5, <1>7, <1>8, <1>9, <1>10 DEF ClientInv

(* Nothing of what is on its way changes.                                  *)
LEMMA QuietKeeps ==
  ASSUME ClientInv, ClientTypes', Flow', Jar', calling' = calling \/ ~calling',
         UNCHANGED <<remain, Ahead, unlimited, _recved_body_size, _total_body_size, chunked,
                     _complete, results, saved, user, starts, redirects, last, kind>>,
         asked' => NoHead(Ahead) /\ (asked \/ (~_complete /\ last # 0 /\ ~Framed)),
         sock' = "connected" => sock = "connected" \/ ~Framed
  PROVE  ClientInv'
<1>1. Arriving'
  BY StillArriving DEF ClientInv
<1>2. Counted' /\ Kept' /\ Unread'
  BY DEF ClientInv, Counted, Kept, Unread, NoHead
<1>3. NoHead(Ahead)' <=> NoHead(Ahead)
  BY DEF NoHead
<1>4. Pending'
  BY <1>3 DEF ClientInv, Pending
<1>5. Counting'
  <2>1. CASE ~Framed
    BY <2>1 DEF Counting, Framed
  <2>2. CASE Framed
    BY <1>3, <2>2 DEF ClientInv, Counting, Framed, Holds
  <2> QED
    BY <2>1, <2>2
<1>6. Reporting'
  BY StillReporting DEF ClientInv
<1> QED
  BY <1>1, <1>2, <1>4, <1>5, <1>6 DEF ClientInv

LEMMA ConnectOkKeeps == ClientInv /\ ConnectOk => ClientInv'
<1> SUFFICES ASSUME ClientInv, ConnectOk PROVE ClientInv'
  OBVIOUS
<1>1. /\ sock = "connecting" /\ sock' = "connected" /\ asked' = TRUE
      /\ UNCHANGED <<wire, input, remain, unlimited, _recved_body_size, _total_body_size, chunked,
                     _complete, _on_result, calling, results, saved, user, starts, redirects,
                     last, _last_host, peer, carried, jar, given, kind>>
      /\ UNCHANGED Ahead
  BY DEF ConnectOk, parseVars, resultVars, userVars, sentVars, askVars, cookieVars, Ahead
<1>2. /\ ~_complete /\ last # 0 /\ ~Framed /\ input = <<>> /\ wire = <<>>
      /\ NoHead(Ahead)
  <2>1. ~_complete /\ last # 0 /\ ~Framed /\ input = <<>> /\ wire = <<>>
    BY <1>1 DEF ClientInv, Flow, Framed
  <2> QED
    BY <2>1, AheadTyped, NoHeadEmpty DEF ClientInv
<1>3. ClientTypes'
  BY <1>1 DEF ClientInv, ClientTypes
<1>4. Flow' /\ Jar'
  BY <1>1, StillJar DEF ClientInv, Flow
<1> QED
  BY <1>1, <1>2, <1>3, <1>4, QuietKeeps

LEMMA ReadKeeps ==
  ASSUME ClientInv, NEW n \in 1..Len(wire), Read(n)
  PROVE  ClientInv'
<1>1. /\ input = <<>> /\ sock = "connected" /\ sock' = sock /\ asked' = asked
      /\ input' = SubSeq(wire, 1, n) /\ wire' = SubSeq(wire, n + 1, Len(wire))
      /\ UNCHANGED <<remain, unlimited, _recved_body_size, _total_body_size, chunked,
                     _complete, _on_result, calling, results, saved, user, starts, redirects,
                     last, _last_host, peer, carried, jar, given, kind>>
  BY DEF Read, Idle, parseVars, resultVars, userVars, sentVars, askVars, cookieVars
<1>2. wire \in Seq(Pieces)
  BY DEF ClientInv, ClientTypes
<1>3. input' \in Seq(Pieces) /\ wire' \in Seq(Pieces) /\ input' \o wire' = wire
  BY <1>1, <1>2, Cut
<1>4. Ahead' = Ahead
  BY <1>1, <1>3, AheadTyped DEF ClientInv, Ahead
<1>5. ClientTypes'
  BY <1>1, <1>3 DEF ClientInv, ClientTypes
<1>6. Flow' /\ Jar'
  BY <1>1, StillJar DEF ClientInv, Flow
<1>7. asked' => NoHead(Ahead) /\ asked
  BY <1>1 DEF ClientInv, Pending
<1> QED
  BY <1>1, <1>4, <1>5, <1>6, <1>7, QuietKeeps

LEMMA ExpiresKeeps ==
  ASSUME ClientInv, NEW c \in jar, CookieExpires(c)
  PROVE  ClientInv'
<1>1. /\ jar' = (jar \ {c}) \cup {[c EXCEPT !.live = FALSE]}
      /\ UNCHANGED <<sock, asked, wire, input, remain, unlimited, _recved_body_size,
                     _total_body_size, chunked, _complete, _on_result, calling, results, saved,
                     user, starts, redirects, last, _last_host, peer, carried, given, kind>>
      /\ UNCHANGED Ahead
  BY DEF CookieExpires, sockVars, parseVars, resultVars, userVars, askVars, Ahead
<1>2. Jar'
  <2> DEFINE d == [c EXCEPT !.live = FALSE]
  <2>1. {"host", "key"} \subseteq DOMAIN c /\ <<c.host, c.key>> \in given
    BY DEF ClientInv, Jar
  <2>2. DOMAIN d = DOMAIN c /\ d.host = c.host /\ d.key = c.key
    BY <2>1
  <2>3. {"host", "key"} \subseteq DOMAIN d /\ <<d.host, d.key>> \in given
    BY <2>1, <2>2
  <2> HIDE DEF d
  <2>4. \A e \in jar' : e \in jar \/ e = d
    BY <1>1 DEF d
  <2> QED
    BY <1>1, <2>3, <2>4 DEF ClientInv, Jar, OwnCookies
<1>3. ClientTypes' /\ Flow'
  BY <1>1 DEF ClientInv, ClientTypes, Flow
<1>4. asked' => NoHead(Ahead) /\ asked
  BY <1>1 DEF ClientInv, Pending
<1> QED
  BY <1>1, <1>2, <1>3, <1>4, QuietKeeps

LEMMA ReturnsKeeps == ClientInv /\ ResultReturns => ClientInv'
<1> SUFFICES ASSUME ClientInv, ResultReturns PROVE ClientInv'
  OBVIOUS
<1>1. /\ calling' = FALSE /\ _on_result' = FALSE
      /\ UNCHANGED <<sock, asked, wire, input, remain, unlimited, _recved_body_size,
                     _total_body_size, chunked, _complete, results, saved,
                     user, starts, redirects, last, _last_host, peer, carried, jar, given, kind>>
      /\ UNCHANGED Ahead
  BY DEF ResultReturns, sockVars, parseVars, userVars, sentVars, askVars, cookieVars, Ahead
<1>2. ClientTypes' /\ Flow' /\ Jar'
  BY <1>1, StillJar DEF ClientInv, ClientTypes, Flow
<1>3. asked' => NoHead(Ahead) /\ asked
  BY <1>1 DEF ClientInv, Pending
<1> QED
  BY <1>1, <1>2, <1>3, QuietKeeps

---------------------------------------------------------------------------
(* Responses. *)

LEMMA TokensForm ==
  ASSUME NEW n \in Nat, NEW k, k.sent \in Nat
  PROVE  LET s == Tokens(n, k)
             ends == IF k.frame = "chunked" THEN 1 ELSE 0
         IN /\ s \in Seq(Pieces) /\ Len(s) = 1 + k.sent + ends
            /\ s[1] = Token(n, "head")
            /\ \A i \in 2..Len(s) : s[i] = Token(n, IF i <= 1 + k.sent THEN "data" ELSE "last")
<1> DEFINE head == <<Token(n, "head")>>
           content == [i \in 1..k.sent |-> Token(n, "data")]
           end == IF k.frame = "chunked" THEN <<Token(n, "last")>> ELSE <<>>
           ends == IF k.frame = "chunked" THEN 1 ELSE 0
           front == head \o content
           s == front \o end
<1>1. Token(n, "head") \in Pieces /\ Token(n, "data") \in Pieces /\ Token(n, "last") \in Pieces
  BY DEF Token, Pieces
<1>2. head \in Seq(Pieces) /\ Len(head) = 1 /\ head[1] = Token(n, "head")
  BY <1>1
<1>3. content \in Seq(Pieces) /\ Len(content) = k.sent /\ \A i \in 1..k.sent : content[i] = Token(n, "data")
  BY <1>1
<1>4. end \in Seq(Pieces) /\ Len(end) = ends /\ \A i \in 1..ends : end[i] = Token(n, "last")
  <2>1. CASE k.frame = "chunked"
    BY <1>1, <2>1
  <2>2. CASE k.frame # "chunked"
    BY <2>2, NoHeadEmpty
  <2> QED
    BY <2>1, <2>2
<1>5. ends \in Nat
  OBVIOUS
<1> HIDE DEF head, content, end, ends
<1>6. /\ front \in Seq(Pieces) /\ Len(front) = 1 + k.sent
      /\ front[1] = Token(n, "head")
      /\ \A i \in 2..(1 + k.sent) : front[i] = Token(n, "data")
  <2>0. /\ front \in Seq(Pieces) /\ Len(front) = Len(head) + Len(content)
        /\ \A i \in 1..Len(head) : front[i] = head[i]
        /\ \A i \in 1..Len(content) : front[Len(head) + i] = content[i]
    BY <1>2, <1>3, Joined
  <2>1. /\ front \in Seq(Pieces) /\ Len(front) = 1 + k.sent
        /\ \A i \in 1..1 : front[i] = head[i]
        /\ \A i \in 1..k.sent : front[1 + i] = content[i]
    BY <1>2, <1>3, <2>0
  <2>2. ASSUME NEW i \in 2..(1 + k.sent) PROVE front[i] = Token(n, "data")
    <3>1. i - 1 \in 1..k.sent /\ 1 + (i - 1) = i
      OBVIOUS
    <3> QED
      BY <1>3, <2>1, <3>1
  <2>3. front[1] = Token(n, "head")
    BY <1>2, <2>1
  <2> QED
    BY <2>1, <2>2, <2>3
<1> HIDE DEF front
<1>7. /\ s \in Seq(Pieces) /\ Len(s) = 1 + k.sent + ends
      /\ \A i \in 1..(1 + k.sent) : s[i] = front[i]
      /\ \A i \in 1..ends : s[1 + k.sent + i] = end[i]
  <2>1. /\ s \in Seq(Pieces) /\ Len(s) = Len(front) + Len(end)
        /\ \A i \in 1..Len(front) : s[i] = front[i]
        /\ \A i \in 1..Len(end) : s[Len(front) + i] = end[i]
    BY <1>4, <1>6, Joined
  <2> QED
    BY <1>4, <1>6, <2>1
<1> HIDE DEF s
<1>8. ASSUME NEW i \in 2..Len(s)
      PROVE  s[i] = Token(n, IF i <= 1 + k.sent THEN "data" ELSE "last")
  <2>1. CASE i <= 1 + k.sent
    <3>1. i \in 1..(1 + k.sent) /\ i \in 2..(1 + k.sent)
      BY <2>1
    <3> QED
      BY <1>6, <1>7, <2>1, <3>1
  <2>2. CASE ~(i <= 1 + k.sent)
    <3>1. i - (1 + k.sent) \in 1..ends /\ 1 + k.sent + (i - (1 + k.sent)) = i
      BY <1>5, <1>7, <2>2
    <3> QED
      BY <1>4, <1>7, <2>2, <3>1
  <2> QED
    BY <2>1, <2>2
<1>9. s[1] = Token(n, "head")
  BY <1>6, <1>7
<1> QED
  BY <1>7, <1>8, <1>9 DEF s, front, head, content, end, ends, Tokens

(* The request that is waited for is one of the bounded number.            *)
LEMMA LastAsked ==
  ASSUME ClientInv, last # 0
  PROVE  last \in Requests
<1>1. last \in Nat \ {0} /\ starts \in 0..MaxStarts /\ last <= starts * (MaxRedirects + 1)
  BY DEF ClientInv, ClientTypes, Counted
<1> QED
  BY <1>1, WithinRequests

LEMMA AnswerKeeps ==
  ASSUME ClientInv, NEW k \in Kinds, Answer(k)
  PROVE  ClientInv'
<1>1. /\ sock = "connected" /\ asked /\ (k.frame = "moved" => redirects < MaxRedirects)
      /\ asked' = FALSE /\ wire' = wire \o Tokens(last, k)
      /\ kind' = [kind EXCEPT ![last] = k]
      /\ UNCHANGED <<sock, input, remain, unlimited, _recved_body_size, _total_body_size, chunked,
                     _complete, _on_result, calling, results, saved, user, starts, redirects,
                     last, _last_host, peer, carried, jar, given>>
  BY DEF Answer, parseVars, resultVars, userVars, askVars, cookieVars
<1>2. /\ ~_complete /\ last # 0 /\ NoHead(Ahead) /\ NoHead(remain) /\ ~Framed /\ results = <<>>
      /\ last \in Requests /\ last \in Nat
      /\ wire \in Seq(Pieces) /\ input \in Seq(Pieces) /\ remain \in Seq(Pieces)
  BY <1>1, LastAsked DEF ClientInv, Pending, Kept, Counting, Reporting, ClientTypes
<1>3. kind' \in [Requests -> Kinds \cup {NoKind}] /\ kind'[last] = k
  BY <1>1, <1>2 DEF ClientInv, ClientTypes
<1> DEFINE s == Tokens(last, k)
           ends == IF k.frame = "chunked" THEN 1 ELSE 0
<1>4. k.sent \in Nat /\ ends \in Nat
  BY KindsAssumption
<1>5. /\ s \in Seq(Pieces) /\ Len(s) = 1 + k.sent + ends
      /\ s[1] = Token(last, "head")
      /\ \A i \in 2..Len(s) : s[i] = Token(last, IF i <= 1 + k.sent THEN "data" ELSE "last")
  BY <1>2, <1>4, TokensForm
<1>6. wire' = wire \o s /\ wire' \in Seq(Pieces)
  <2>1. wire' = wire \o s
    BY <1>1
  <2> HIDE DEF s
  <2> QED
    BY <1>2, <1>5, <2>1, Joined
<1> HIDE DEF s, ends
<1> DEFINE before == remain \o Ahead
<1>7. before \in Seq(Pieces) /\ NoHead(before) /\ remain \o Ahead' = before \o s
  <2>1. Ahead \in Seq(Pieces)
    BY AheadTyped DEF ClientInv
  <2>2. \A a, b, c \in Seq(Pieces) : (a \o b) \o c = a \o (b \o c)
    BY ConcatAssociative
  <2>3. Ahead' = Ahead \o s
    <3>1. Ahead' = input \o (wire \o s)
      BY <1>1, <1>6 DEF Ahead
    <3>2. (input \o wire) \o s = input \o (wire \o s)
      BY ONLY <1>2, <1>5, <2>2, Zenon
    <3> QED
      BY <3>1, <3>2 DEF Ahead
  <2>4. remain \o Ahead' = before \o s
    <3>1. remain \o (Ahead \o s) = (remain \o Ahead) \o s
      BY ONLY <1>2, <1>5, <2>1, <2>2, ZenonT(40)
    <3> QED
      BY ONLY <2>3, <3>1, Zenon
  <2> QED
    BY <1>2, <2>1, <2>4, Joined
<1> HIDE DEF before
<1>8. PICK at \in Nat : at = Len(before) + 1
  <2>1. Len(before) \in Nat
    BY <1>7, LenProperties
  <2> QED
    BY <2>1
<1>9. PICK all \in Seq(Pieces) : all = before \o s
  BY <1>5, <1>7, Joined
<1>10. /\ Len(all) = Len(before) + Len(s) /\ Len(before) \in Nat
       /\ \A i \in 1..Len(before) : all[i] = before[i]
       /\ \A i \in 1..Len(s) : all[Len(before) + i] = s[i]
       /\ DOMAIN before = 1..Len(before)
  BY <1>5, <1>7, <1>9, Joined
<1>11. /\ Len(s) \in Nat /\ 1 \in 1..Len(s) /\ at \in 1..Len(all)
       /\ Len(all) = at + k.sent + ends /\ at - 1 = Len(before)
  <2>1. Len(s) = 1 + k.sent + ends /\ Len(all) = Len(before) + Len(s) /\ Len(before) \in Nat
    BY <1>5, <1>10
  <2>2. PICK m \in Nat, e \in Nat, b \in Nat : m = k.sent /\ e = ends /\ b = Len(before)
    BY <1>4, <2>1
  <2>3. Len(s) = 1 + m + e /\ Len(all) = b + (1 + m + e) /\ at = b + 1
    BY <1>8, <2>1, <2>2
  <2>4. Len(s) \in Nat /\ 1 \in 1..Len(s) /\ at \in 1..Len(all) /\ at - 1 = b
    BY <2>3
  <2>5. Len(all) = at + m + e
    BY <2>3
  <2> QED
    BY <2>2, <2>4, <2>5
<1>12. HeadOf(all, at)
  <2>1. all[at] = Token(last, "head")
    BY <1>5, <1>8, <1>10, <1>11
  <2>2. \A i \in 1..(at - 1) : all[i].part # "head"
    BY <1>7, <1>10, <1>11 DEF NoHead
  <2> QED
    BY <1>11, <2>1, <2>2 DEF HeadOf
<1>13. Holds(all, at, k.sent, k)
  <2>1. ASSUME NEW i \in (at + 1)..Len(all)
        PROVE  all[i] = Token(last, IF i <= at + k.sent THEN "data" ELSE "last")
    <3>1. PICK j \in 2..Len(s) : i = Len(before) + j
      <4>1. i - Len(before) \in 2..Len(s) /\ i = Len(before) + (i - Len(before))
        <5>1. Len(all) = Len(before) + Len(s) /\ Len(before) \in Nat
          BY <1>10
        <5> QED
          BY <1>8, <1>11, <5>1
      <4> QED
        BY <4>1
    <3>2. j \in 1..Len(s) /\ (i <= at + k.sent <=> j <= 1 + k.sent)
      <4>1. Len(before) \in Nat
        BY <1>10
      <4> QED
        BY <1>4, <1>8, <1>11, <3>1, <4>1
    <3>3. all[i] = s[j]
      BY <1>10, <3>1, <3>2
    <3> QED
      BY <1>5, <3>2, <3>3
  <2>2. Len(all) = at + k.sent + (IF k.frame = "chunked" THEN 1 ELSE 0)
    BY <1>11 DEF ends
  <2> QED
    BY <2>1, <2>2 DEF Holds
<1>14. Arriving'
  <2>1. HeadOf(all, at)' /\ Holds(all, at, k.sent, k)'
    <3>1. last' = last
      BY <1>1
    <3> QED
      BY <1>12, <1>13, <3>1 DEF HeadOf, Holds
  <2>2. (remain \o Ahead)' = all /\ kind'[last'] = k /\ redirects' = redirects
    BY <1>1, <1>3, <1>7, <1>9
  <2>3. Holds(all, at, kind[last].sent, kind[last])'
    BY <2>1, <2>2
  <2> QED
    BY <1>1, <2>1, <2>2, <2>3 DEF Arriving
<1>15. ClientTypes'
  BY <1>1, <1>3, <1>6 DEF ClientInv, ClientTypes
<1>16. Counted' /\ Flow' /\ Kept' /\ Pending' /\ Unread'
  BY <1>1, <1>2 DEF ClientInv, Counted, Flow, Kept, Pending, Unread, NoHead
<1>17. Counting'
  BY <1>1, <1>2 DEF Counting, Framed
<1>18. Reporting' /\ Jar'
  BY <1>1, <1>2, StillReporting, StillJar DEF ClientInv
<1> QED
  BY <1>14, <1>15, <1>16, <1>17, <1>18 DEF ClientInv

---------------------------------------------------------------------------
(* The splitter. *)

LEMMA HeldTyped ==
  ASSUME ClientInv
  PROVE  /\ Held \in Seq(Pieces) /\ wire \in Seq(Pieces) /\ Len(Held) \in Nat
         /\ DOMAIN Held = 1..Len(Held)
         /\ NoHead(Held) <=> NoHead(input)
         /\ remain \o Ahead = Held \o wire
         /\ Heads = {} <=> NoHead(Held)
<1>1. input \in Seq(Pieces) /\ wire \in Seq(Pieces) /\ remain \in Seq(Pieces) /\ NoHead(remain)
  BY DEF ClientInv, ClientTypes, Kept
<1>2. Held \in Seq(Pieces)
  BY <1>1, Joined DEF Held
<1>3. Held \in Seq(Pieces) /\ (NoHead(Held) <=> NoHead(input))
  <2>1. NoHead(Held) <=> NoHead(remain) /\ NoHead(input)
    BY <1>1, Joined DEF Held
  <2> QED
    BY <1>1, <1>2, <2>1
<1>4. Len(Held) \in Nat /\ DOMAIN Held = 1..Len(Held)
  BY <1>3, LenProperties
<1>5. remain \o Ahead = Held \o wire
  <2>1. \A a, b, c \in Seq(Pieces) : (a \o b) \o c = a \o (b \o c)
    BY ConcatAssociative
  <2> QED
    BY ONLY <1>1, <2>1, Zenon DEF Ahead, Held
<1>6. Heads = {} <=> NoHead(Held)
  BY <1>4 DEF Heads, NoHead
<1> QED
  BY <1>1, <1>3, <1>4, <1>5, <1>6

LEMMA KeepRestKeeps == ClientInv /\ KeepRest => ClientInv'
<1> SUFFICES ASSUME ClientInv, KeepRest PROVE ClientInv'
  OBVIOUS
<1>1. /\ Heads = {} /\ ~unlimited /\ remain' = Held /\ input' = <<>>
      /\ UNCHANGED <<sock, asked, wire, unlimited, _recved_body_size, _total_body_size, chunked,
                     _complete, _on_result, calling, results, saved, user, starts, redirects,
                     last, _last_host, peer, carried, jar, given, kind>>
  BY DEF KeepRest, Searching, sockVars, resultVars, userVars, sentVars, askVars, cookieVars
<1>2. /\ Held \in Seq(Pieces) /\ NoHead(Held) /\ NoHead(input)
      /\ remain \o Ahead = Held \o wire /\ Ahead' = wire /\ wire \in Seq(Pieces)
  <2>1. Ahead' = wire
    BY <1>1, ConcatEmptySeq DEF ClientInv, ClientTypes, Ahead
  <2> QED
    BY <1>1, <2>1, HeldTyped
<1>3. (remain \o Ahead)' = remain \o Ahead
  BY <1>1, <1>2
<1>4. NoHead(Ahead)' <=> NoHead(Ahead)
  BY <1>2, AheadTyped DEF ClientInv
<1>5. Arriving'
  <2> SUFFICES ASSUME ~NoHead(Ahead)
               PROVE  /\ kind[last] \in Kinds
                      /\ kind[last].frame = "moved" => redirects < MaxRedirects
                      /\ \E at \in Nat : HeadOf(remain \o Ahead, at)' /\
                           Holds(remain \o Ahead, at, kind[last].sent, kind[last])'
    BY <1>1, <1>4 DEF Arriving
  <2>1. PICK at \in Nat : HeadOf(remain \o Ahead, at)
                            /\ Holds(remain \o Ahead, at, kind[last].sent, kind[last])
    BY <1>1 DEF ClientInv, Arriving
  <2>2. HeadOf(remain \o Ahead, at)' /\ Holds(remain \o Ahead, at, kind[last].sent, kind[last])'
    BY <1>1, <1>3, <2>1 DEF HeadOf, Holds
  <2> QED
    BY <1>1, <2>2 DEF ClientInv, Arriving
<1>6. ClientTypes'
  BY <1>1, <1>2, NoHeadEmpty DEF ClientInv, ClientTypes
<1>7. Counted' /\ Flow' /\ Unread'
  BY <1>1 DEF ClientInv, Counted, Flow, Unread
<1>8. Kept'
  BY <1>1, <1>2 DEF Kept
<1>9. Pending'
  BY <1>1, <1>4 DEF ClientInv, Pending
<1>10. Counting'
  BY <1>1 DEF Counting, Framed
<1>11. Reporting' /\ Jar'
  BY <1>1, StillReporting, StillJar DEF ClientInv
<1> QED
  BY <1>5, <1>6, <1>7, <1>8, <1>9, <1>10, <1>11 DEF ClientInv

LEMMA StrayKeeps == ClientInv /\ RecvStray => ClientInv'
<1> SUFFICES ASSUME ClientInv, RecvStray PROVE ClientInv'
  OBVIOUS
<1>1. /\ input # <<>> /\ ~unlimited /\ user = "requester"
      /\ input' = Tail(Held) /\ remain' = <<>> /\ chunked' = FALSE
      /\ _recved_body_size' = 0 /\ _total_body_size' = -1 /\ unlimited' = TRUE
      /\ saved' = <<>>
      /\ UNCHANGED <<sock, asked, wire, _complete, _on_result, calling, results, user, starts,
                     redirects, last, _last_host, peer, carried, jar, given, kind>>
  BY DEF RecvStray, Searching, sockVars, resultVars, userVars, sentVars, askVars, cookieVars
<1>2. Held \in Seq(Pieces) /\ (NoHead(Held) <=> NoHead(input)) /\ Held # <<>>
      /\ DOMAIN Held = 1..Len(Held) /\ Len(Held) \in Nat /\ wire \in Seq(Pieces)
  <2>1. Len(Held) = Len(remain) + Len(input) /\ Len(remain) \in Nat /\ Len(input) \in Nat
    BY Joined DEF ClientInv, ClientTypes, Held
  <2>2. Len(input) # 0
    BY <1>1, EmptySeq DEF ClientInv, ClientTypes
  <2>3. Held # <<>>
    BY <2>1, <2>2, EmptySeq
  <2> QED
    BY <2>3, HeldTyped
<1>3. input' \in Seq(Pieces) /\ (NoHead(Held) => NoHead(input'))
  <2>1. /\ input' \in Seq(Pieces) /\ Len(input') = Len(Held) - 1
        /\ \A i \in 1..(Len(Held) - 1) : input'[i] = Held[i + 1]
    BY <1>1, <1>2, FirstOff
  <2>2. DOMAIN input' = 1..(Len(Held) - 1)
    BY <2>1, LenProperties
  <2>3. \A i \in 1..(Len(Held) - 1) : i + 1 \in DOMAIN Held
    BY <1>2
  <2> QED
    BY <2>1, <2>2, <2>3 DEF NoHead
<1>4. NoHead(Ahead) => NoHead(Ahead)'
  <2>1. NoHead(Ahead) => NoHead(input') /\ NoHead(wire')
    BY <1>1, <1>2, <1>3, AheadTyped DEF ClientInv
  <2>2. NoHead(input') /\ NoHead(wire') => NoHead(input' \o wire')
    BY <1>1, <1>2, <1>3, Joined
  <2> QED
    BY <2>1, <2>2 DEF Ahead
<1>5. ClientTypes'
  <2>1. _total_body_size' \in Int /\ _recved_body_size' \in Nat
    BY <1>1
  <2>2. saved' \in Seq(Pieces) /\ remain' \in Seq(Pieces)
    BY <1>1, NoHeadEmpty
  <2> QED
    BY <1>1, <1>3, <2>1, <2>2 DEF ClientInv, ClientTypes
<1>6. sock = "connected" /\ Counted' /\ Flow' /\ Unread' /\ Arriving'
  BY <1>1 DEF ClientInv, Counted, Flow, Unread, Arriving
<1>7. Kept'
  BY <1>1, NoHeadEmpty DEF Kept
<1>8. Pending'
  BY <1>1, <1>4 DEF ClientInv, Pending
<1>9. Counting'
  BY <1>1 DEF Counting, Framed
<1>10. Reporting' /\ Jar'
  BY <1>1, StillReporting, StillJar DEF ClientInv
<1> QED
  BY <1>5, <1>6, <1>7, <1>8, <1>9, <1>10 DEF ClientInv

(* The head that is found is that of the last request, and all behind it   *)
(* is its content.                                                         *)
LEMMA HeadFound ==
  ASSUME ClientInv, Searching, Heads # {}
  PROVE  /\ Head1.of = last /\ kind[last] \in Kinds /\ last \in Requests
         /\ kind[last].frame = "moved" => redirects < MaxRedirects
         /\ ~_complete /\ ~asked /\ sock = "connected"
         /\ Behind \in Seq(Pieces)
         /\ NoHead(wire)
         /\ Holds(Behind \o wire, 0, kind[last].sent, kind[last])
         /\ NoHead(Behind \o wire)
<1>1. /\ Held \in Seq(Pieces) /\ wire \in Seq(Pieces) /\ Len(Held) \in Nat /\ Len(wire) \in Nat
      /\ DOMAIN Held = 1..Len(Held)
      /\ remain \o Ahead = Held \o wire
      /\ ~NoHead(Ahead) /\ ~unlimited
  <2>1. ~NoHead(Held)
    BY HeldTyped
  <2>2. ~NoHead(Ahead)
    BY <2>1, HeldTyped, AheadTyped DEF ClientInv
  <2> QED
    BY <2>2, HeldTyped, LenProperties DEF Searching
<1>2. /\ kind[last] \in Kinds /\ (kind[last].frame = "moved" => redirects < MaxRedirects)
      /\ ~_complete /\ last # 0 /\ ~asked
  BY <1>1 DEF ClientInv, Arriving, Pending
<1>3. sock = "connected"
  BY DEF ClientInv, Flow, Searching
<1>4. PICK all \in Seq(Pieces) : all = Held \o wire
  BY <1>1, Joined
<1>5. /\ Len(all) = Len(Held) + Len(wire)
      /\ \A i \in 1..Len(Held) : all[i] = Held[i]
      /\ \A i \in 1..Len(wire) : all[Len(Held) + i] = wire[i]
  BY <1>1, <1>4, Joined
<1>6. PICK at \in Nat : HeadOf(all, at) /\ Holds(all, at, kind[last].sent, kind[last])
  BY <1>1, <1>4 DEF ClientInv, Arriving
<1>7. \A i \in 1..Len(all) : all[i].part = "head" => i = at
  <2> SUFFICES ASSUME NEW i \in 1..Len(all), all[i].part = "head", i # at PROVE FALSE
    OBVIOUS
  <2>1. CASE i < at
    <3>1. i \in 1..(at - 1)
      BY <1>6, <2>1
    <3> QED
      BY <1>6, <3>1 DEF HeadOf
  <2>2. CASE i > at
    <3>1. i \in (at + 1)..Len(all)
      BY <1>6, <2>2
    <3>2. all[i] = Token(last, IF i <= at + kind[last].sent THEN "data" ELSE "last")
      BY <1>6, <3>1 DEF Holds
    <3>3. all[i].part \in {"data", "last"}
      BY <3>2 DEF Token
    <3> QED
      BY <3>3
  <2> QED
    BY <1>6, <2>1, <2>2
<1>8. Heads = {at} /\ at \in 1..Len(Held)
  <2>1. \A i \in Heads : i \in 1..Len(Held) /\ Held[i].part = "head"
    BY DEF Heads
  <2>2. \A i \in Heads : i \in 1..Len(all) /\ all[i].part = "head"
    BY <1>1, <1>5, <2>1
  <2> QED
    BY <1>7, <2>1, <2>2
<1>9. HeadAt = at
  <2>1. \A j \in Heads : at <= j
    BY <1>8
  <2> QED
    BY <1>8, <2>1 DEF HeadAt
<1>10. Head1.of = last
  <2>1. all[at] = Token(last, "head") /\ Held[at] = all[at]
    BY <1>5, <1>6, <1>8 DEF HeadOf
  <2> QED
    BY <1>9, <2>1 DEF Head1, Token
<1>11. /\ Behind \in Seq(Pieces) /\ Len(Behind) = Len(Held) - at
       /\ \A i \in 1..(Len(Held) - at) : Behind[i] = Held[at + i]
  BY <1>1, <1>8, <1>9, Cut DEF Behind
<1>12. PICK rest \in Seq(Pieces) : rest = Behind \o wire
  BY <1>1, <1>11, Joined
<1>13. /\ Len(rest) = Len(Behind) + Len(wire) /\ Len(rest) \in Nat
       /\ \A i \in 1..Len(Behind) : rest[i] = Behind[i]
       /\ \A i \in 1..Len(wire) : rest[Len(Behind) + i] = wire[i]
       /\ DOMAIN rest = 1..Len(rest)
       /\ NoHead(rest) => NoHead(wire)
  <2>1. Len(rest) \in Nat /\ DOMAIN rest = 1..Len(rest)
    BY <1>12, LenProperties
  <2>2. /\ Len(rest) = Len(Behind) + Len(wire)
        /\ \A i \in 1..Len(Behind) : rest[i] = Behind[i]
        /\ \A i \in 1..Len(wire) : rest[Len(Behind) + i] = wire[i]
    <3>1. Behind \in Seq(Pieces) /\ wire \in Seq(Pieces)
      BY <1>1, <1>11
    <3>2. /\ Len(Behind \o wire) = Len(Behind) + Len(wire)
          /\ \A i \in 1..Len(Behind) : (Behind \o wire)[i] = Behind[i]
          /\ \A i \in 1..Len(wire) : (Behind \o wire)[Len(Behind) + i] = wire[i]
      BY <3>1, Joined
    <3> QED
      BY <1>12, <3>2
  <2>3. NoHead(rest) <=> NoHead(Behind) /\ NoHead(wire)
    BY <1>1, <1>11, <1>12, Joined
  <2> QED
    BY <2>1, <2>2, <2>3
<1>14. Len(rest) = Len(all) - at
  BY <1>1, <1>5, <1>8, <1>11, <1>13
<1>15. ASSUME NEW i \in 1..Len(rest) PROVE rest[i] = all[at + i]
  <2>1. CASE i <= Len(Behind)
    <3>1. i \in 1..Len(Behind) /\ i \in 1..(Len(Held) - at) /\ at + i \in 1..Len(Held)
      BY <1>1, <1>8, <1>11, <2>1
    <3> QED
      BY <1>5, <1>11, <1>13, <3>1
  <2>2. CASE ~(i <= Len(Behind))
    <3>1. PICK j \in 1..Len(wire) : i = Len(Behind) + j
      <4>1. i - Len(Behind) \in 1..Len(wire) /\ i = Len(Behind) + (i - Len(Behind))
        BY <1>1, <1>8, <1>11, <1>13, <2>2
      <4> QED
        BY <4>1
    <3>2. at + i = Len(Held) + j
      BY <1>1, <1>8, <1>11, <3>1
    <3> QED
      BY <1>5, <1>13, <3>1, <3>2
  <2> QED
    BY <2>1, <2>2
<1>16. kind[last].sent \in Nat
  BY <1>2, KindsAssumption
<1>17. Holds(rest, 0, kind[last].sent, kind[last])
  <2>1. Len(rest) = 0 + kind[last].sent + (IF kind[last].frame = "chunked" THEN 1 ELSE 0)
    <3>1. Len(all) = at + kind[last].sent + (IF kind[last].frame = "chunked" THEN 1 ELSE 0)
      BY <1>6 DEF Holds
    <3> QED
      BY <1>14, <1>16, <3>1
  <2>2. ASSUME NEW i \in (0 + 1)..Len(rest)
        PROVE  rest[i] = Token(last, IF i <= 0 + kind[last].sent THEN "data" ELSE "last")
    <3>1. i \in 1..Len(rest) /\ at + i \in (at + 1)..Len(all)
      BY <1>13, <1>14
    <3>2. at + i <= at + kind[last].sent <=> i <= 0 + kind[last].sent
      BY <1>13, <1>16
    <3> QED
      BY <1>6, <1>15, <3>1, <3>2 DEF Holds
  <2> QED
    BY <2>1, <2>2 DEF Holds
<1>18. NoHead(rest)
  <2>1. \A i \in 1..Len(rest) : rest[i].part \in {"data", "last"}
    BY <1>17 DEF Holds, Token
  <2> QED
    BY <1>13, <2>1 DEF NoHead
<1> QED
  BY <1>2, <1>3, <1>10, <1>11, <1>12, <1>13, <1>17, <1>18, LastAsked

LEMMA RedirectKeeps ==
  ASSUME ClientInv, NEW url \in Urls, Redirect(url)
  PROVE  ClientInv'
<1>1. /\ Searching /\ Heads # {} /\ kind[Head1.of].frame = "moved" /\ ~calling
      /\ redirects' = redirects + 1 /\ SendRequest(url)
      /\ UNCHANGED <<_on_result, calling, results, saved, user, starts, kind, given>>
  BY DEF Redirect, Moved, Searching
<1>2. /\ Head1.of = last /\ ~_complete /\ NoHead(wire)
      /\ kind[last].frame = "moved" => redirects < MaxRedirects
  BY <1>1, HeadFound
<1>3. /\ last \in Nat /\ starts \in Nat /\ MaxRedirects \in Nat
      /\ redirects \in 0..MaxRedirects /\ redirects' \in 0..MaxRedirects
      /\ starts' \in 0..MaxStarts
  BY <1>1, <1>2, BoundsAssumption DEF ClientInv, ClientTypes
<1>4. last' = last + 1 /\ last # 0
  BY <1>1, <1>2, HeadFound, LastAsked DEF SendRequest, Requests
<1>5. Counted'
  <2> DEFINE p == starts * (MaxRedirects + 1)
  <2>1. p \in Nat /\ p' = p
    BY <1>1, <1>3
  <2>2. last <= p /\ last + MaxRedirects <= p + redirects
    BY <1>4 DEF ClientInv, Counted
  <2> HIDE DEF p
  <2>3. last + 1 <= p /\ last + 1 + MaxRedirects <= p + (redirects + 1)
    BY <1>1, <1>2, <1>3, <2>1, <2>2
  <2> QED
    BY <1>1, <1>4, <2>1, <2>3 DEF Counted, p
<1>6. results = <<>> /\ (user = "downloader" => saved = <<>>)
  BY <1>1, <1>2 DEF ClientInv, Reporting, Unread, Searching
<1>7. saved' \in Seq(Pieces) /\ calling' \in BOOLEAN /\ _on_result' \in BOOLEAN
  BY <1>1 DEF ClientInv, ClientTypes
<1> QED
  BY <1>1, <1>2, <1>3, <1>5, <1>6, <1>7, SendKeeps

(* Cookies are stored under the host that gives them.                      *)
LEMMA CookiesKept ==
  ASSUME Jar, NEW headers, CheckCookie(headers), UNCHANGED <<peer, _last_host, carried>>
  PROVE  Jar'
<1> DEFINE cookies == Cookies(headers)
<1>1. /\ jar' = SetCookies(jar, cookies)
      /\ given' = given \cup {<<peer, h.key>> : h \in ToSet(headers)}
  BY DEF CheckCookie
<1>2. ASSUME NEW i \in DOMAIN cookies
      PROVE  /\ {"host", "key"} \subseteq DOMAIN cookies[i]
             /\ <<cookies[i].host, cookies[i].key>> \in given'
  <2>1. i \in 1..Len(headers) /\ cookies[i] = ReadCookie(_last_host, headers[i])
    BY DEF Cookies
  <2> DEFINE c == ReadCookie(_last_host, headers[i])
  <2>2. DOMAIN c = {"host", "path", "key", "live"} /\ c.host = _last_host /\ c.key = headers[i].key
    BY DEF ReadCookie, SetExpires, NewCookie
  <2>3. headers[i] \in ToSet(headers)
    BY <2>1 DEF ToSet
  <2> QED
    BY <1>1, <2>1, <2>2, <2>3 DEF Jar
<1>3. ASSUME NEW c \in jar'
      PROVE  {"host", "key"} \subseteq DOMAIN c /\ <<c.host, c.key>> \in given'
  <2>1. CASE c \in jar
    BY <1>1, <2>1 DEF Jar
  <2>2. CASE c \notin jar
    <3>1. PICK i \in DOMAIN cookies : c = cookies[i]
      BY <1>1, <2>2 DEF SetCookies
    <3> QED
      BY <1>2, <3>1
  <2> QED
    BY <2>1, <2>2
<1> QED
  BY <1>1, <1>3 DEF Jar, OwnCookies

(* What throws in front of the content leaves the connection with nothing  *)
(* on it.                                                                  *)
LEMMA HeaderThrowsKeeps == ClientInv /\ HeaderThrows => ClientInv'
<1> SUFFICES ASSUME ClientInv, HeaderThrows PROVE ClientInv'
  OBVIOUS
<1>1. /\ sock' = "failing" /\ asked' = FALSE /\ wire' = <<>> /\ input' = <<>>
      /\ UNCHANGED <<_on_result, calling, results, saved, user, starts, redirects,
                     last, _last_host, peer, carried, kind>>
      /\ Searching /\ ~unlimited
  BY DEF HeaderThrows, Fail, Searching, userVars, askVars
<1>2. \/ UNCHANGED <<remain, unlimited, _recved_body_size, _total_body_size, chunked, _complete>>
      \/ /\ remain' = <<>> /\ unlimited' = FALSE /\ _recved_body_size' = 0
         /\ _total_body_size' = 0 /\ chunked' = FALSE /\ _complete' = FALSE /\ ~_complete
  <2>1. CASE Moved /\ ClearResponse
    BY <1>1, <2>1, HeadFound DEF Moved, ClearResponse
  <2>2. CASE UNCHANGED <<parseVars, _complete>>
    BY <2>2 DEF parseVars
  <2> QED
    BY <2>1, <2>2 DEF HeaderThrows
<1>3. Jar'
  <2>1. CASE UNCHANGED cookieVars
    BY <1>1, <2>1, StillJar DEF ClientInv, cookieVars
  <2>2. ASSUME NEW headers, CheckCookie(headers) PROVE Jar'
    BY <1>1, <2>2, CookiesKept DEF ClientInv
  <2> QED
    BY <2>1, <2>2 DEF HeaderThrows
<1>4. Ahead' = <<>> /\ NoHead(Ahead)'
  BY <1>1, NothingAhead
<1>5. ~Framed'
  BY <1>1, <1>2 DEF Framed
<1>6. ClientTypes'
  <2>1. /\ remain' \in Seq(Pieces) /\ unlimited' \in BOOLEAN /\ chunked' \in BOOLEAN
        /\ _complete' \in BOOLEAN
    BY <1>2, NoHeadEmpty DEF ClientInv, ClientTypes
  <2>2. _recved_body_size' \in Nat /\ _total_body_size' \in Int
    BY <1>2 DEF ClientInv, ClientTypes
  <2> QED
    BY <1>1, <2>1, <2>2, NoHeadEmpty DEF ClientInv, ClientTypes
<1>7. Counted' /\ Flow' /\ Pending' /\ Arriving'
  BY <1>1, <1>4 DEF ClientInv, Counted, Flow, Pending, Arriving, NoHead
<1>8. Kept' /\ Unread'
  BY <1>1, <1>2, NoHeadEmpty DEF ClientInv, Kept, Unread
<1>9. Counting'
  BY <1>5 DEF Counting
<1>10. Reporting'
  <2>1. _complete' = _complete
    BY <1>2 DEF ClientInv, ClientTypes
  <2> QED
    BY <1>1, <2>1, StillReporting DEF ClientInv
<1> QED
  BY <1>3, <1>6, <1>7, <1>8, <1>9, <1>10 DEF ClientInv

LEMMA HeaderKeeps == ClientInv /\ RecvHeader => ClientInv'
<1> SUFFICES ASSUME ClientInv, RecvHeader PROVE ClientInv'
  OBVIOUS
<1> DEFINE k == kind[last]
           total == IF k.frame \in {"length", "moved"} THEN k.stated ELSE -1
<1>1. /\ Head1.of = last /\ k \in Kinds /\ last \in Requests
      /\ ~_complete /\ ~asked /\ sock = "connected" /\ ~unlimited
      /\ Behind \in Seq(Pieces) /\ wire \in Seq(Pieces)
      /\ Holds(Behind \o wire, 0, k.sent, k)
      /\ NoHead(Behind \o wire)
  BY HeadFound DEF RecvHeader, Searching, ClientInv, ClientTypes
<1>2. /\ CheckCookie(k.headers)
      /\ input' = Behind /\ remain' = <<>>
      /\ chunked' = (k.frame = "chunked")
      /\ _recved_body_size' = 0
      /\ _total_body_size' = total
      /\ unlimited' = (_total_body_size' # 0)
      /\ IF _total_body_size' = 0
         THEN Completed(TRUE, OnResponseHeader, 0, 0)
         ELSE saved' = OnResponseHeader /\ UNCHANGED resultVars
      /\ UNCHANGED <<sockVars, userVars, askVars, kind>>
  BY <1>1 DEF RecvHeader
<1>3. /\ k.frame \in {"length", "chunked", "close", "moved"}
      /\ k.stated \in Nat /\ k.sent \in Nat
  BY <1>1, KindsAssumption
<1> HIDE DEF k
<1>4. UNCHANGED <<sock, asked, wire, user, starts, redirects, last, _last_host, peer, carried, kind>>
  BY <1>2 DEF sockVars, userVars, askVars
<1>5. OnResponseHeader = <<>>
  BY <1>1 DEF OnResponseHeader, ClientInv, Unread, ClientTypes
<1>6. /\ total \in Int /\ (total = -1 \/ total \in Nat)
      /\ chunked' \in BOOLEAN /\ unlimited' \in BOOLEAN
      /\ k.frame = "chunked" => total = -1
      /\ total # -1 => total = k.stated
  BY <1>2, <1>3
<1> HIDE DEF total
<1>7. /\ saved' = <<>> \/ (_total_body_size' = 0 /\ saved' \in Seq(Pieces))
      /\ _complete' \in BOOLEAN /\ calling' \in BOOLEAN /\ _on_result' \in BOOLEAN
      /\ Reporting'
      /\ total = 0 => _complete'
      /\ total # 0 => saved' = <<>> /\ _complete' = _complete
  <2>1. CASE total = 0
    <3>1. Completed(TRUE, <<>>, 0, 0)
      BY <1>2, <1>5, <2>1
    <3>2. (\A j \in 1..Len(<<>>) : <<>>[j] = Token(last, "data")) /\ Len(<<>>) >= kind[last].stated
      BY <1>3, <1>6, <2>1, NoHeadEmpty DEF k
    <3>3. TRUE \in BOOLEAN /\ <<>> \in Seq(Pieces) /\ 0 \in Nat /\ 0 \in Int
      BY NoHeadEmpty
    <3>4. /\ _complete' /\ _complete' \in BOOLEAN /\ calling' \in BOOLEAN /\ _on_result' = _on_result
          /\ saved' \in Seq(Pieces) /\ Reporting'
      BY <1>4, <3>1, <3>2, <3>3, CompletedEnds
    <3> QED
      BY <1>2, <2>1, <3>4 DEF ClientInv, ClientTypes
  <2>2. CASE total # 0
    <3>1. saved' = <<>> /\ UNCHANGED <<_complete, _on_result, calling, results>>
      BY <1>2, <1>5, <2>2 DEF resultVars
    <3>2. Reporting'
      BY <1>4, <3>1, StillReporting DEF ClientInv
    <3> QED
      BY <2>2, <3>1, <3>2 DEF ClientInv, ClientTypes
  <2> QED
    BY <2>1, <2>2
<1>8. ClientTypes'
  <2>1. saved' \in Seq(Pieces) /\ remain' \in Seq(Pieces)
    BY <1>2, <1>7, NoHeadEmpty
  <2>2. _recved_body_size' \in Nat /\ _total_body_size' \in Int
    BY <1>2, <1>6
  <2> QED
    BY <1>1, <1>2, <1>4, <1>6, <1>7, <2>1, <2>2 DEF ClientInv, ClientTypes
<1>9. Ahead' = Behind \o wire /\ NoHead(Ahead)'
  BY <1>1, <1>2, <1>4 DEF Ahead
<1>10. Counted' /\ Flow' /\ Pending' /\ Arriving'
  BY <1>1, <1>4, <1>9 DEF ClientInv, Counted, Flow, Pending, Arriving
<1>11. Kept'
  BY <1>2, NoHeadEmpty DEF Kept
<1>12. Unread'
  BY <1>2, <1>7 DEF Unread
<1>13. Counting'
  <2> SUFFICES ASSUME Framed', total # 0 PROVE Counting'
    BY <1>2, <1>7 DEF Counting, Framed
  <2>1. saved' = <<>> /\ Len(saved') = 0 /\ DOMAIN saved' = {} /\ _recved_body_size' = 0
    BY <1>2, <1>7, NoHeadEmpty, EmptySeq
  <2>2. kind'[last'] = k /\ last' = last
    BY <1>4 DEF k
  <2>3. Holds(Ahead, 0, k.sent - 0, k)'
    <3>1. k.sent - 0 = k.sent
      BY <1>3
    <3>2. Ahead' = Behind \o wire /\ k' = k /\ last' = last
      BY <1>4, <1>9 DEF k
    <3> QED
      BY <1>1, <3>1, <3>2 DEF Holds
  <2>4. chunked' <=> k.frame = "chunked"
    BY <1>2
  <2>5. ~chunked' => _total_body_size' = k.stated
    BY <1>2, <1>6, <2>4 DEF Framed
  <2>6. chunked' => _total_body_size' = -1
    BY <1>2, <1>6, <2>4
  <2>7. 0 <= k.sent
    BY <1>3
  <2>8. k' = k
    BY <1>4 DEF k
  <2>9. Holds(Ahead, 0, kind[last].sent - _recved_body_size, kind[last])'
    BY <2>1, <2>2, <2>3, <2>8
  <2> QED
    BY <1>1, <1>4, <1>9, <2>1, <2>2, <2>4, <2>5, <2>6, <2>7, <2>9 DEF Counting
<1>14. Jar'
  BY <1>2, <1>4, CookiesKept DEF ClientInv
<1> QED
  BY <1>7, <1>8, <1>10, <1>11, <1>12, <1>13, <1>14 DEF ClientInv

---------------------------------------------------------------------------
(* Content. *)

(* The read at hand holds the next of the content that is counted.         *)
LEMMA NextContent ==
  ASSUME ClientInv, Framed, input # <<>>
  PROVE  LET k == kind[last]
             left == k.sent - _recved_body_size
         IN /\ sock = "connected" /\ ~asked /\ NoHead(Ahead) /\ k \in Kinds
            /\ last \in Requests
            /\ _recved_body_size <= k.sent /\ k.sent \in Nat /\ k.stated \in Nat
            /\ Len(input) \in Nat \ {0} /\ Len(wire) \in Nat
            /\ Len(input) + Len(wire) = left + (IF k.frame = "chunked" THEN 1 ELSE 0)
            /\ \A i \in 1..Len(input) :
                 input[i] = Token(last, IF i <= left THEN "data" ELSE "last")
            /\ \A i \in 1..Len(wire) :
                 wire[i] = Token(last, IF Len(input) + i <= left THEN "data" ELSE "last")
<1> DEFINE k == kind[last]
           left == k.sent - _recved_body_size
           ends == IF k.frame = "chunked" THEN 1 ELSE 0
<1>1. /\ sock = "connected" /\ ~asked /\ NoHead(Ahead) /\ k \in Kinds /\ last \in Requests
      /\ _recved_body_size <= k.sent /\ Holds(Ahead, 0, left, k)
      /\ _recved_body_size \in Nat /\ input \in Seq(Pieces)
  BY DEF ClientInv, ClientTypes, Flow, Counting
<1>2. k.sent \in Nat /\ k.stated \in Nat
  BY <1>1, KindsAssumption
<1>3. /\ Len(Ahead) = Len(input) + Len(wire) /\ Len(input) \in Nat \ {0} /\ Len(wire) \in Nat
      /\ \A i \in 1..Len(input) : Ahead[i] = input[i]
      /\ \A i \in 1..Len(wire) : Ahead[Len(input) + i] = wire[i]
  BY <1>1, AheadTyped, EmptySeq DEF ClientInv
<1>4. left \in Nat /\ ends \in Nat
  BY <1>1, <1>2
<1> HIDE DEF left, ends
<1>5. /\ Len(input) + Len(wire) = left + ends
      /\ \A i \in 1..(Len(input) + Len(wire)) :
           Ahead[i] = Token(last, IF i <= left THEN "data" ELSE "last")
  <2>1. /\ Len(Ahead) = 0 + left + ends
        /\ \A i \in (0 + 1)..Len(Ahead) :
             Ahead[i] = Token(last, IF i <= 0 + left THEN "data" ELSE "last")
    BY <1>1 DEF Holds, ends
  <2>2. 0 + left = left /\ 0 + 1 = 1
    BY <1>4
  <2> QED
    BY <1>3, <1>4, <2>1, <2>2
<1>6. \A i \in 1..Len(input) : input[i] = Token(last, IF i <= left THEN "data" ELSE "last")
  <2>1. \A i \in 1..Len(input) : i \in 1..(Len(input) + Len(wire))
    BY <1>3
  <2> QED
    BY <1>3, <1>5, <2>1
<1>7. \A i \in 1..Len(wire) : wire[i] = Token(last, IF Len(input) + i <= left THEN "data" ELSE "last")
  <2>1. \A i \in 1..Len(wire) : Len(input) + i \in 1..(Len(input) + Len(wire))
    BY <1>3
  <2> QED
    BY <1>3, <1>5, <2>1
<1> QED
  BY <1>1, <1>2, <1>3, <1>5, <1>6, <1>7 DEF left, ends

(* Content of a stated length is saved as it comes.                        *)
LEMMA SavedGrows ==
  ASSUME ClientInv, Framed, ~chunked, input # <<>>
  PROVE  /\ Written(input) \in Seq(Pieces) /\ Len(Written(input)) = Got
         /\ \A i \in DOMAIN Written(input) : Written(input)[i] = Token(last, "data")
         /\ \A i \in 1..Len(input) : input[i] = Token(last, "data")
<1> DEFINE k == kind[last]
           left == k.sent - _recved_body_size
<1>1. /\ k.frame # "chunked" /\ Len(saved) = _recved_body_size
      /\ \A i \in DOMAIN saved : saved[i] = Token(last, "data")
      /\ saved \in Seq(Pieces) /\ input \in Seq(Pieces) /\ ~_complete
  BY DEF ClientInv, Counting, ClientTypes, Framed
<1>2. /\ _recved_body_size <= k.sent /\ k.sent \in Nat
      /\ Len(input) \in Nat \ {0} /\ Len(wire) \in Nat
      /\ Len(input) + Len(wire) = left
      /\ \A i \in 1..Len(input) : input[i] = Token(last, IF i <= left THEN "data" ELSE "last")
  BY <1>1, NextContent, LenProperties DEF ClientInv, ClientTypes
<1> HIDE DEF left
<1>3. \A i \in 1..Len(input) : input[i] = Token(last, "data")
  BY <1>2
<1>4. Written(input) = saved \o input
  BY <1>1 DEF Written, FileClosed
<1>5. /\ saved \o input \in Seq(Pieces) /\ Len(saved \o input) = Len(saved) + Len(input)
      /\ \A i \in 1..Len(saved) : (saved \o input)[i] = saved[i]
      /\ \A i \in 1..Len(input) : (saved \o input)[Len(saved) + i] = input[i]
      /\ DOMAIN saved = 1..Len(saved) /\ DOMAIN (saved \o input) = 1..(Len(saved) + Len(input))
      /\ Len(saved) \in Nat
  BY <1>1, Joined
<1>6. ASSUME NEW i \in 1..(Len(saved) + Len(input)) PROVE (saved \o input)[i] = Token(last, "data")
  <2>1. CASE i <= Len(saved)
    <3>1. i \in 1..Len(saved)
      BY <2>1
    <3> QED
      BY <1>1, <1>5, <3>1
  <2>2. CASE ~(i <= Len(saved))
    <3>1. i - Len(saved) \in 1..Len(input) /\ Len(saved) + (i - Len(saved)) = i
      BY <1>2, <1>5, <2>2
    <3> QED
      BY <1>3, <1>5, <3>1
  <2> QED
    BY <2>1, <2>2
<1> QED
  BY <1>1, <1>3, <1>4, <1>5, <1>6 DEF Got

LEMMA WrittenTyped ==
  ASSUME ClientInv
  PROVE  Written(input) \in Seq(Pieces) /\ Got \in Nat
<1>1. input \in Seq(Pieces) /\ saved \in Seq(Pieces) /\ _recved_body_size \in Nat
  BY DEF ClientInv, ClientTypes
<1>2. saved \o input \in Seq(Pieces) /\ Len(input) \in Nat
  BY <1>1, Joined
<1> QED
  BY <1>1, <1>2 DEF Written, Got

LEMMA TooMuchKeeps == ClientInv /\ RecvTooMuch => ClientInv'
<1> SUFFICES ASSUME ClientInv, RecvTooMuch PROVE ClientInv'
  OBVIOUS
<1>1. /\ input # <<>> /\ unlimited /\ ~chunked /\ Fail
      /\ _recved_body_size' = Got /\ saved' = Written(input)
      /\ UNCHANGED <<remain, unlimited, _total_body_size, chunked, resultVars, userVars, sentVars>>
  BY DEF RecvTooMuch, Receiving
<1>2. saved' \in Seq(Pieces) /\ _recved_body_size' \in Nat
  BY <1>1, WrittenTyped
<1>3. Framed => /\ Len(saved') = _recved_body_size'
                /\ \A i \in DOMAIN saved' : saved'[i] = Token(last, "data")
  BY <1>1, SavedGrows
<1> QED
  BY <1>1, <1>2, <1>3, FailKeeps

LEMMA ContentKeeps == ClientInv /\ RecvContent => ClientInv'
<1> SUFFICES ASSUME ClientInv, RecvContent PROVE ClientInv'
  OBVIOUS
<1>1. /\ input # <<>> /\ unlimited /\ ~chunked
      /\ input' = <<>> /\ _recved_body_size' = Got
      /\ IF _total_body_size > 0 /\ Whole
         THEN Completed(TRUE, Written(input), Got, _total_body_size)
         ELSE saved' = Written(input) /\ UNCHANGED resultVars
      /\ UNCHANGED <<sock, asked, wire, remain, unlimited, _total_body_size, chunked, user, starts,
                     redirects, last, _last_host, peer, carried, jar, given, kind>>
  BY DEF RecvContent, Receiving, sockVars, userVars, sentVars, askVars, cookieVars
<1>2. /\ Written(input) \in Seq(Pieces) /\ Got \in Nat /\ wire \in Seq(Pieces)
      /\ _total_body_size \in Int /\ sock = "connected" /\ DOMAIN wire = 1..Len(wire)
  BY <1>1, WrittenTyped, LenProperties DEF ClientInv, ClientTypes, Flow
<1>3. /\ saved' \in Seq(Pieces) /\ _complete' \in BOOLEAN /\ calling' \in BOOLEAN
      /\ _on_result' \in BOOLEAN /\ Reporting'
      /\ _complete => _complete'
      /\ ~_complete' => saved' = Written(input)
  <2>1. CASE _total_body_size > 0 /\ Whole
    <3>1. ASSUME ~_complete
          PROVE  /\ \A j \in 1..Len(Written(input)) : Written(input)[j] = Token(last, "data")
                 /\ Len(Written(input)) >= kind[last].stated
      <4>1. Framed /\ _total_body_size = kind[last].stated
        BY <1>1, <1>2, <2>1, <3>1 DEF Framed, ClientInv, Counting
      <4>2. /\ Len(Written(input)) = Got
            /\ \A i \in DOMAIN Written(input) : Written(input)[i] = Token(last, "data")
        BY <1>1, <4>1, SavedGrows
      <4>3. DOMAIN Written(input) = 1..Len(Written(input))
        BY <1>2, LenProperties
      <4> QED
        BY <1>2, <2>1, <4>1, <4>2, <4>3 DEF Whole
    <3>2. Completed(TRUE, Written(input), Got, _total_body_size) /\ TRUE \in BOOLEAN
          /\ last' = last /\ kind' = kind
      BY <1>1, <2>1
    <3>3. /\ _complete' /\ _complete' \in BOOLEAN /\ calling' \in BOOLEAN /\ _on_result' = _on_result
          /\ saved' \in Seq(Pieces) /\ Reporting'
      BY <1>2, <3>1, <3>2, CompletedEnds
    <3> QED
      BY <3>3 DEF ClientInv, ClientTypes
  <2>2. CASE ~(_total_body_size > 0 /\ Whole)
    <3>1. saved' = Written(input) /\ UNCHANGED <<_complete, _on_result, calling, results>>
      BY <1>1, <2>2 DEF resultVars
    <3>2. Reporting'
      BY <1>1, <3>1, StillReporting DEF ClientInv
    <3> QED
      BY <1>2, <3>1, <3>2 DEF ClientInv, ClientTypes
  <2> QED
    BY <2>1, <2>2
<1>4. Ahead' = wire /\ (NoHead(Ahead) => NoHead(wire))
  <2>1. Ahead' = wire
    BY <1>1, <1>2, ConcatEmptySeq DEF Ahead
  <2> QED
    BY <2>1, AheadTyped DEF ClientInv
<1>5. ClientTypes'
  BY <1>1, <1>2, <1>3, NoHeadEmpty DEF ClientInv, ClientTypes
<1>6. Counted' /\ Flow' /\ Kept' /\ Arriving' /\ Unread'
  BY <1>1, <1>2 DEF ClientInv, Counted, Flow, Kept, Arriving, Unread, NoHead
<1>7. ~asked /\ NoHead(Ahead) => Pending'
  BY <1>1, <1>4 DEF Pending
<1>8. Pending'
  <2>1. CASE Framed
    BY <1>7, <2>1 DEF ClientInv, Counting
  <2>2. CASE ~Framed
    <3>1. _complete' = _complete
      <4>1. CASE _complete
        BY <1>3, <4>1 DEF ClientInv, ClientTypes
      <4>2. CASE ~_complete
        <5>1. _total_body_size = -1
          BY <1>1, <2>2, <4>2 DEF Framed
        <5>2. UNCHANGED resultVars
          BY <1>1, <5>1
        <5> QED
          BY <5>2 DEF resultVars
      <4> QED
        BY <4>1, <4>2
    <3> QED
      BY <1>1, <1>4, <3>1 DEF ClientInv, Pending
  <2> QED
    BY <2>1, <2>2
<1>9. Counting'
  <2> SUFFICES ASSUME Framed' PROVE Counting'
    BY DEF Counting
  <2>1. Framed /\ ~_complete'
    BY <1>1, <1>3 DEF Framed
  <2>2. /\ saved' = Written(input) /\ Len(saved') = _recved_body_size'
        /\ \A i \in DOMAIN saved' : saved'[i] = Token(last, "data")
    BY <1>1, <1>3, <2>1, SavedGrows
  <2> DEFINE k == kind[last]
             left == k.sent - _recved_body_size
  <2>3. k.frame # "chunked" /\ ~asked /\ NoHead(Ahead) /\ _total_body_size = k.stated
    BY <1>1, <2>1 DEF ClientInv, Counting
  <2>4. /\ last \in Requests /\ k \in Kinds
        /\ _recved_body_size <= k.sent /\ k.sent \in Nat
        /\ Len(input) \in Nat \ {0} /\ Len(wire) \in Nat
        /\ Len(input) + Len(wire) = left
        /\ \A i \in 1..Len(wire) : wire[i] = Token(last, IF Len(input) + i <= left THEN "data" ELSE "last")
    <3>1. /\ last \in Requests /\ k \in Kinds
          /\ _recved_body_size <= k.sent /\ k.sent \in Nat
          /\ Len(input) \in Nat \ {0} /\ Len(wire) \in Nat
          /\ Len(input) + Len(wire) = left + (IF k.frame = "chunked" THEN 1 ELSE 0)
          /\ \A i \in 1..Len(wire) :
               wire[i] = Token(last, IF Len(input) + i <= left THEN "data" ELSE "last")
      BY <1>1, <2>1, NextContent
    <3>2. _recved_body_size \in Nat
      BY DEF ClientInv, ClientTypes
    <3>3. left \in Nat
      BY <3>1, <3>2
    <3> HIDE DEF k, left
    <3>4. Len(input) + Len(wire) = left
      BY <2>3, <3>1, <3>3
    <3> QED
      BY <3>1, <3>4
  <2>5. _recved_body_size \in Nat /\ left \in Nat
    BY <2>4 DEF ClientInv, ClientTypes
  <2>6. Got <= k.sent /\ Len(wire) = k.sent - Got
    BY <2>4, <2>5 DEF Got
  <2>7. \A i \in 1..Len(wire) : wire[i] = Token(last, "data")
    <3> HIDE DEF left
    <3>1. \A i \in 1..Len(wire) : Len(input) + i <= left
      BY <2>4, <2>5
    <3> QED
      BY <2>4, <3>1
  <2> DEFINE more == k.sent - Got
  <2>8. Len(wire) = more /\ more \in Nat
    BY <2>4, <2>6
  <2> HIDE DEF more, left
  <2>9. Holds(wire, 0, more, k)
    <3>1. Len(wire) = 0 + more + 0 /\ \A i \in (0 + 1)..Len(wire) : i \in 1..Len(wire) /\ i <= 0 + more
      BY <2>8
    <3> QED
      BY <2>3, <2>7, <3>1 DEF Holds
  <2>10. Holds(Ahead, 0, kind[last].sent - _recved_body_size, kind[last])'
    <3>1. Ahead' = wire /\ last' = last /\ kind' = kind /\ _recved_body_size' = Got
      BY <1>1, <1>4
    <3> QED
      BY <2>9, <3>1 DEF Holds, more, k
  <2>11. NoHead(Ahead)'
    BY <1>4, <2>3
  <2> QED
    BY <1>1, <2>2, <2>3, <2>4, <2>6, <2>10, <2>11 DEF Counting
<1>10. Jar'
  BY <1>1, StillJar DEF ClientInv
<1> QED
  BY <1>3, <1>5, <1>6, <1>8, <1>9, <1>10 DEF ClientInv

LEMMA ChunkKeeps == ClientInv /\ RecvChunk => ClientInv'
<1> SUFFICES ASSUME ClientInv, RecvChunk PROVE ClientInv'
  OBVIOUS
<1>1. /\ input # <<>> /\ unlimited /\ chunked /\ input' = Tail(input)
      /\ UNCHANGED <<sock, asked, wire, remain, unlimited, chunked, user, starts,
                     redirects, last, _last_host, peer, carried, jar, given, kind>>
  BY DEF RecvChunk, Receiving, sockVars, userVars, sentVars, askVars, cookieVars
<1>2. \/ /\ Head(input).part = "data"
         /\ _recved_body_size' = _recved_body_size + 1
         /\ saved' = Written(<<Head(input)>>)
         /\ UNCHANGED <<_total_body_size, _complete, _on_result, calling, results>>
      \/ /\ Head(input).part # "data"
         /\ _total_body_size' = _recved_body_size
         /\ UNCHANGED _recved_body_size
         /\ Completed(TRUE, saved, _recved_body_size, _recved_body_size)
  BY DEF RecvChunk, resultVars
<1>3. /\ sock = "connected" /\ input \in Seq(Pieces) /\ wire \in Seq(Pieces)
      /\ saved \in Seq(Pieces) /\ _recved_body_size \in Nat /\ _total_body_size \in Int
      /\ last \in Nat
  BY <1>1 DEF ClientInv, ClientTypes, Flow
<1>4. /\ Head(input) \in Pieces /\ Head(input) = input[1] /\ input' \in Seq(Pieces)
      /\ Len(input) \in Nat \ {0} /\ Len(input') = Len(input) - 1
      /\ \A i \in 1..(Len(input) - 1) : input'[i] = input[i + 1]
  BY <1>1, <1>3, FirstOff
<1>5. DOMAIN input' = 1..(Len(input) - 1) /\ DOMAIN input = 1..Len(input)
  BY <1>3, <1>4, LenProperties
<1>6. NoHead(Ahead) => NoHead(Ahead)'
  <2>1. NoHead(Ahead) => NoHead(input) /\ NoHead(wire)
    BY AheadTyped DEF ClientInv
  <2>2. \A i \in 1..(Len(input) - 1) : i + 1 \in 1..Len(input)
    BY <1>4
  <2>3. NoHead(input) => NoHead(input')
    BY <1>4, <1>5, <2>2 DEF NoHead
  <2>4. NoHead(input') /\ NoHead(wire) => NoHead(input' \o wire)
    BY <1>3, <1>4, Joined
  <2>5. Ahead' = input' \o wire
    BY <1>1 DEF Ahead
  <2> QED
    BY <2>1, <2>3, <2>4, <2>5
<1> DEFINE k == kind[last]
           left == k.sent - _recved_body_size
<1>7. ASSUME ~_complete
      PROVE  /\ Framed /\ ~asked /\ NoHead(Ahead) /\ last \in Requests /\ k \in Kinds
             /\ k.frame = "chunked" /\ _total_body_size = -1
             /\ Len(saved) = _recved_body_size
             /\ \A i \in DOMAIN saved : saved[i] = Token(last, "data")
             /\ left \in Nat /\ k.sent \in Nat /\ k.stated = k.sent
             /\ Len(wire) \in Nat /\ Len(input) + Len(wire) = left + 1
             /\ \A i \in 1..Len(input) :
                  input[i] = Token(last, IF i <= left THEN "data" ELSE "last")
             /\ \A i \in 1..Len(wire) :
                  wire[i] = Token(last, IF Len(input) + i <= left THEN "data" ELSE "last")
  <2>1. Framed
    BY <1>1, <1>7 DEF Framed
  <2>2. /\ ~asked /\ NoHead(Ahead) /\ last \in Requests /\ k \in Kinds
        /\ k.frame = "chunked" /\ _total_body_size = -1
        /\ Len(saved) = _recved_body_size
        /\ \A i \in DOMAIN saved : saved[i] = Token(last, "data")
    BY <1>1, <2>1 DEF ClientInv, Counting
  <2>3. k.stated = k.sent
    BY <2>2, KindsAssumption
  <2>4. /\ _recved_body_size <= k.sent /\ k.sent \in Nat /\ Len(wire) \in Nat
        /\ Len(input) + Len(wire) = left + (IF k.frame = "chunked" THEN 1 ELSE 0)
        /\ \A i \in 1..Len(input) :
             input[i] = Token(last, IF i <= left THEN "data" ELSE "last")
        /\ \A i \in 1..Len(wire) :
             wire[i] = Token(last, IF Len(input) + i <= left THEN "data" ELSE "last")
    BY <1>1, <2>1, NextContent
  <2>5. left \in Nat
    BY <1>3, <2>4
  <2> HIDE DEF k, left
  <2>6. Len(input) + Len(wire) = left + 1
    BY <2>2, <2>4
  <2> QED
    BY <2>1, <2>2, <2>3, <2>4, <2>5, <2>6
<1>8. ASSUME ~_complete, Head(input).part # "data" PROVE left = 0
  <2>1. input[1] = Token(last, IF 1 <= left THEN "data" ELSE "last") /\ left \in Nat
    BY <1>4, <1>7, <1>8
  <2> HIDE DEF left
  <2> QED
    BY <1>4, <1>8, <2>1 DEF Token
<1>9. ASSUME ~_complete, Head(input).part = "data"
      PROVE  left > 0 /\ Head(input) = Token(last, "data")
  <2>1. input[1] = Token(last, IF 1 <= left THEN "data" ELSE "last") /\ left \in Nat
    BY <1>4, <1>7, <1>9
  <2> HIDE DEF left
  <2>2. 1 <= left
    BY <1>4, <1>9, <2>1 DEF Token
  <2> QED
    BY <1>4, <2>1, <2>2
<1>10. ASSUME ~_complete, Head(input).part = "data"
       PROVE  /\ saved' \in Seq(Pieces) /\ Len(saved') = _recved_body_size + 1
              /\ \A i \in DOMAIN saved' : saved'[i] = Token(last, "data")
  <2>1. saved' = saved \o <<Head(input)>>
    BY <1>2, <1>10 DEF Written, FileClosed
  <2>2. saved' = Append(saved, Head(input))
    BY <1>3, <1>4, <2>1, AppendIsConcat
  <2>3. /\ saved' \in Seq(Pieces) /\ Len(saved') = Len(saved) + 1
        /\ \A i \in 1..Len(saved) : saved'[i] = saved[i]
        /\ saved'[Len(saved) + 1] = Head(input)
    BY <1>3, <1>4, <2>2, AppendProperties
  <2>4. DOMAIN saved = 1..Len(saved) /\ DOMAIN saved' = 1..(Len(saved) + 1) /\ Len(saved) \in Nat
    BY <1>3, <2>3, LenProperties
  <2>5. \A i \in DOMAIN saved' : i \in DOMAIN saved \/ i = Len(saved) + 1
    BY <2>4
  <2> QED
    BY <1>7, <1>9, <1>10, <2>3, <2>4, <2>5
<1>11. /\ saved' \in Seq(Pieces) /\ _complete' \in BOOLEAN /\ calling' \in BOOLEAN
       /\ _on_result' \in BOOLEAN /\ Reporting'
       /\ _recved_body_size' \in Nat /\ _total_body_size' \in Int
       /\ _complete => _complete'
       /\ Head(input).part # "data" => _complete'
       /\ Head(input).part = "data" => _complete' = _complete
  <2>1. CASE Head(input).part = "data"
    <3>1. /\ saved' = Written(<<Head(input)>>)
          /\ UNCHANGED <<_total_body_size, _complete, _on_result, calling, results>>
          /\ _recved_body_size' = _recved_body_size + 1
      BY <1>2, <2>1
    <3>2. saved' \in Seq(Pieces)
      <4>1. <<Head(input)>> \in Seq(Pieces)
        BY <1>4
      <4>2. saved \o <<Head(input)>> \in Seq(Pieces)
        BY <1>3, <4>1, Joined
      <4> QED
        BY <1>3, <3>1, <4>2 DEF Written
    <3>3. Reporting'
      BY <1>1, <3>1, StillReporting DEF ClientInv
    <3> QED
      BY <1>3, <2>1, <3>1, <3>2, <3>3 DEF ClientInv, ClientTypes
  <2>2. CASE Head(input).part # "data"
    <3>1. /\ Completed(TRUE, saved, _recved_body_size, _recved_body_size) /\ TRUE \in BOOLEAN
          /\ last' = last /\ kind' = kind /\ _recved_body_size \in Int
          /\ _total_body_size' = _recved_body_size /\ _recved_body_size' = _recved_body_size
      <4>1. /\ Completed(TRUE, saved, _recved_body_size, _recved_body_size)
            /\ _total_body_size' = _recved_body_size /\ UNCHANGED _recved_body_size
        BY <1>2, <2>2
      <4>2. _recved_body_size \in Int
        BY <1>3
      <4>3. last' = last /\ kind' = kind
        BY <1>1
      <4> HIDE DEF k, left
      <4> QED
        BY ONLY <4>1, <4>2, <4>3
    <3>2. ASSUME ~_complete
          PROVE  /\ \A j \in 1..Len(saved) : saved[j] = Token(last, "data")
                 /\ Len(saved) >= kind[last].stated
      <4>1. left = 0
        BY <1>8, <2>2, <3>2
      <4>2. Len(saved) = _recved_body_size /\ k.stated = k.sent /\ k.sent \in Nat
            /\ DOMAIN saved = 1..Len(saved)
        BY <1>3, <1>7, <3>2, LenProperties
      <4>3. Len(saved) >= k.stated
        BY <1>3, <4>1, <4>2
      <4> QED
        BY <1>7, <3>2, <4>2, <4>3
    <3>3. /\ _complete' /\ _complete' \in BOOLEAN /\ calling' \in BOOLEAN /\ _on_result' = _on_result
          /\ saved' \in Seq(Pieces) /\ Reporting'
      BY <1>3, <3>1, <3>2, CompletedEnds
    <3> QED
      BY <1>3, <2>2, <3>1, <3>3 DEF ClientInv, ClientTypes
  <2> QED
    BY <2>1, <2>2
<1>12. ClientTypes'
  BY <1>1, <1>4, <1>11 DEF ClientInv, ClientTypes
<1>13. Counted' /\ Flow' /\ Kept' /\ Arriving' /\ Unread'
  BY <1>1, <1>3 DEF ClientInv, Counted, Flow, Kept, Arriving, Unread, NoHead
<1>14. Pending'
  <2>1. CASE ~_complete
    BY <1>1, <1>6, <1>7, <2>1 DEF Pending
  <2>2. CASE _complete
    BY <1>1, <1>6, <2>2 DEF ClientInv, Pending
  <2> QED
    BY <2>1, <2>2
<1>15. Counting'
  <2> SUFFICES ASSUME Framed' PROVE Counting'
    BY DEF Counting
  <2>1. ~_complete /\ Head(input).part = "data"
    BY <1>11 DEF Framed
  <2>2. /\ _recved_body_size' = _recved_body_size + 1 /\ _total_body_size' = _total_body_size
        /\ saved' \in Seq(Pieces) /\ Len(saved') = _recved_body_size + 1
        /\ \A i \in DOMAIN saved' : saved'[i] = Token(last, "data")
    BY <1>2, <1>10, <2>1
  <2> DEFINE more == left - 1
  <2>3. more \in Nat /\ _recved_body_size + 1 <= k.sent /\ more = k.sent - (_recved_body_size + 1)
    <3>1. left \in Nat /\ left > 0 /\ k.sent \in Nat /\ left = k.sent - _recved_body_size
      BY <1>7, <1>9, <2>1
    <3>2. PICK sent \in Nat : sent = k.sent
      BY <3>1
    <3>3. more = (sent - _recved_body_size) - 1 /\ sent - _recved_body_size > 0
      BY <3>1, <3>2
    <3> HIDE DEF more, left, k
    <3> QED
      BY <1>3, <3>2, <3>3
  <2>4. /\ Len(input) + Len(wire) = more + 2 /\ Len(wire) \in Nat
        /\ \A i \in 1..Len(input) :
             input[i] = Token(last, IF i <= more + 1 THEN "data" ELSE "last")
        /\ \A i \in 1..Len(wire) :
             wire[i] = Token(last, IF Len(input) + i <= more + 1 THEN "data" ELSE "last")
    <3>1. left = more + 1
      BY <1>7, <2>1
    <3> HIDE DEF left, more
    <3> QED
      BY <1>7, <2>1, <2>3, <3>1
  <2> HIDE DEF more, left, k
  <2>5. PICK rest \in Seq(Pieces) : rest = input' \o wire
    BY <1>3, <1>4, Joined
  <2>6. /\ Len(input' \o wire) = Len(input') + Len(wire)
        /\ \A i \in 1..Len(input') : (input' \o wire)[i] = input'[i]
        /\ \A i \in 1..Len(wire) : (input' \o wire)[Len(input') + i] = wire[i]
    BY <1>3, <1>4, Joined
  <2>7. Len(rest) = more + 1
    <3>1. Len(rest) = Len(input') + Len(wire) /\ Len(input') = Len(input) - 1
      BY <1>4, <2>5, <2>6
    <3> QED
      BY <1>4, <2>3, <2>4, <3>1
  <2>8. ASSUME NEW i \in 1..Len(rest)
        PROVE  rest[i] = Token(last, IF i <= more THEN "data" ELSE "last")
    <3>1. CASE i <= Len(input')
      <4>1. i \in 1..Len(input') /\ i \in 1..(Len(input) - 1) /\ i + 1 \in 1..Len(input)
        BY <1>4, <3>1
      <4>2. rest[i] = input[i + 1]
        BY <1>4, <2>5, <2>6, <4>1
      <4>3. i + 1 <= more + 1 <=> i <= more
        BY <2>3
      <4> QED
        BY <2>4, <4>1, <4>2, <4>3
    <3>2. CASE ~(i <= Len(input'))
      <4>1. PICK j \in 1..Len(wire) : i = Len(input') + j
        <5>1. i - Len(input') \in 1..Len(wire) /\ i = Len(input') + (i - Len(input'))
          BY <1>4, <2>4, <2>5, <2>6, <3>2
        <5> QED
          BY <5>1
      <4>2. rest[i] = wire[j]
        BY <2>5, <2>6, <4>1
      <4>3. Len(input) + j <= more + 1 <=> i <= more
        BY <1>4, <2>3, <4>1
      <4> QED
        BY <2>4, <4>1, <4>2, <4>3
    <3> QED
      BY <3>1, <3>2
  <2>9. k.frame = "chunked"
    BY <1>7, <2>1
  <2>10. Holds(rest, 0, more, k)
    <3>1. Len(rest) = 0 + more + 1 /\ \A i \in (0 + 1)..Len(rest) : i \in 1..Len(rest)
      BY <2>3, <2>7
    <3>2. 0 + more = more
      BY <2>3
    <3> QED
      BY <2>8, <2>9, <3>1, <3>2 DEF Holds
  <2>11. Holds(Ahead, 0, kind[last].sent - _recved_body_size, kind[last])'
    <3>1. Ahead' = rest /\ last' = last /\ kind' = kind /\ _recved_body_size' = _recved_body_size + 1
      BY <1>1, <2>2, <2>5 DEF Ahead
    <3> QED
      BY <2>3, <2>10, <3>1 DEF Holds, k
  <2>12. /\ ~asked' /\ NoHead(Ahead)' /\ last \in Requests /\ k \in Kinds /\ _total_body_size = -1
    BY <1>1, <1>6, <1>7, <2>1
  <2> QED
    BY <1>1, <2>2, <2>3, <2>9, <2>11, <2>12 DEF Counting, k
<1>16. Jar'
  BY <1>1, StillJar DEF ClientInv
<1> QED
  BY <1>11, <1>12, <1>13, <1>14, <1>15, <1>16 DEF ClientInv

---------------------------------------------------------------------------

LEMMA ClientInit == Init => ClientInv
<1> SUFFICES ASSUME Init PROVE ClientInv
  OBVIOUS
<1>1. /\ user \in {"requester", "downloader"}
      /\ sock = "none" /\ asked = FALSE /\ wire = <<>> /\ input = <<>>
      /\ remain = <<>> /\ unlimited = FALSE
      /\ _recved_body_size = 0 /\ _total_body_size = 0
      /\ chunked = FALSE
      /\ _complete = TRUE /\ _on_result = FALSE /\ calling = FALSE /\ results = <<>>
      /\ saved = <<>> /\ starts = 0 /\ redirects = 0
      /\ _last_host = "" /\ peer = "" /\ jar = {} /\ given = {} /\ carried = {}
      /\ last = 0 /\ kind = [n \in Requests |-> NoKind]
  BY DEF Init
<1>2. ClientTypes
  <2>1. 0 \in 0..MaxStarts /\ 0 \in 0..MaxRedirects
    BY BoundsAssumption
  <2>2. kind \in [Requests -> Kinds \cup {NoKind}]
    BY <1>1
  <2>3. /\ wire \in Seq(Pieces) /\ input \in Seq(Pieces) /\ remain \in Seq(Pieces)
        /\ saved \in Seq(Pieces)
    BY <1>1, NoHeadEmpty
  <2>4. _recved_body_size \in Nat /\ _total_body_size \in Int /\ last \in Nat
    <3>1. _recved_body_size = 0 /\ _total_body_size = 0 /\ last = 0
      BY <1>1
    <3> QED
      BY ONLY <3>1
  <2>5. starts \in 0..MaxStarts /\ redirects \in 0..MaxRedirects
    BY <1>1, <2>1
  <2> QED
    BY <1>1, <2>2, <2>3, <2>4, <2>5 DEF ClientTypes
<1>3. NoHead(Ahead)
  BY <1>1, NoHeadEmpty, ConcatEmptySeq DEF Ahead
<1>4. Counted
  <2>1. 0 <= 0 * (MaxRedirects + 1)
    BY BoundsAssumption
  <2> QED
    BY <1>1, <2>1 DEF Counted
<1>5. Flow /\ Kept /\ Pending /\ Arriving /\ Counting /\ Unread
  BY <1>1, <1>3, NoHeadEmpty DEF Flow, Kept, Pending, Arriving, Counting, Framed, Unread
<1>6. Reporting /\ Jar
  <2>1. results = <<>> /\ Len(<<>>) = 0
    <3>1. results = <<>>
      BY <1>1
    <3> QED
      BY <3>1, NoHeadEmpty
  <2>4. OneEnd /\ WholeBody
    BY ONLY <2>1 DEF OneEnd, WholeBody
  <2>2. Reporting
    BY <1>1, <2>1, <2>4 DEF Reporting
  <2>3. Jar
    BY <1>1 DEF Jar, OwnCookies
  <2> QED
    BY <2>2, <2>3
<1> QED
  BY <1>2, <1>4, <1>5, <1>6 DEF ClientInv

LEMMA ClientStep == ClientInv /\ [Next]_vars => ClientInv'
<1> SUFFICES ASSUME ClientInv, [Next]_vars PROVE ClientInv'
  OBVIOUS
<1>1. CASE Next
  <2>1. ASSUME Client PROVE ClientInv'
    BY <2>1, ReturnsKeeps, KeepRestKeeps, StrayKeeps, RedirectKeeps, HeaderThrowsKeeps, HeaderKeeps,
       ContentKeeps, TooMuchKeeps, ChunkKeeps DEF Client
  <2>2. ASSUME ConnectOk \/ SocketEnds \/ PeerCloses \/ OnManager PROVE ClientInv'
    BY <2>2, ConnectOkKeeps, SocketEndsKeeps, FailsKeep
  <2>3. ASSUME NEW url \in Urls, Start(url) \/ StartInside(url) PROVE ClientInv'
    BY <2>3, StartKeeps
  <2>4. ASSUME NEW k \in Kinds, Answer(k) PROVE ClientInv'
    BY <2>4, AnswerKeeps
  <2>5. ASSUME NEW n \in 1..Len(wire), Read(n) PROVE ClientInv'
    BY <2>5, ReadKeeps
  <2>6. ASSUME NEW c \in jar, CookieExpires(c) PROVE ClientInv'
    BY <2>6, ExpiresKeeps
  <2> QED
    BY <1>1, <2>1, <2>2, <2>3, <2>4, <2>5, <2>6 DEF Next
<1>2. CASE UNCHANGED vars
  <2>1. UNCHANGED <<sock, asked, wire, input, remain, unlimited, _recved_body_size,
                    _total_body_size, chunked, _complete, _on_result, calling, results, saved,
                    user, starts, redirects, last, _last_host, peer, carried, jar, given, kind>>
    BY <1>2 DEF vars, sockVars, parseVars, resultVars, userVars, sentVars, askVars, cookieVars
  <2>2. UNCHANGED Ahead
    BY <2>1 DEF Ahead
  <2>3. ClientTypes' /\ Flow' /\ Jar'
    BY <2>1, StillJar DEF ClientInv, ClientTypes, Flow
  <2>4. asked' => NoHead(Ahead) /\ asked
    BY <2>1 DEF ClientInv, Pending
  <2> QED
    BY <2>1, <2>2, <2>3, <2>4, QuietKeeps
<1> QED
  BY <1>1, <1>2

LEMMA ClientInvariant == Spec => []ClientInv
  BY ClientInit, ClientStep, PTL DEF Spec

(* A success of stated length has the whole content of the response to the *)
(* last request sent, and nothing else, however reads cut the responses    *)
(* (HttpClient.cpp:98-109, 183-266, 312-340, HttpRequester.cpp:18-25).     *)
THEOREM SuccessIsWhole == Spec => []WholeBody
<1>1. ClientInv => WholeBody
  BY DEF ClientInv, Reporting
<1> QED
  BY <1>1, ClientInvariant, PTL

(* Of each request one end is handed on at most, though the last byte, a   *)
(* timeout and the socket's error may all come (HttpClient.cpp:312-317).   *)
THEOREM OneEndOnly == Spec => []OneEnd
<1>1. ClientInv => OneEnd
  BY DEF ClientInv, Reporting
<1> QED
  BY <1>1, ClientInvariant, PTL

(* A request carries cookies of the host it goes to and of no other        *)
(* (HttpClient.cpp:68-87, 350-385, HttpCookie.cpp:89-124).                 *)
THEOREM CookiesGoHome == Spec => []OwnCookies
<1>1. ClientInv => OwnCookies
  BY DEF ClientInv, Jar
<1> QED
  BY <1>1, ClientInvariant, PTL
=============================================================================
