----------------------------- MODULE HttpClient -----------------------------
(***************************************************************************)
(* HttpClient under its two users, HttpRequester and HttpDownloader: a     *)
(* request, its redirections, and the response as reads cut it.  All of it *)
(* runs on one poller thread; a read is handled in steps during which      *)
(* nothing else of the client runs.                                        *)
(*                                                                         *)
(* A response is a sequence of tokens: its head, units of content, and     *)
(* the chunk of size 0 that ends a chunked one.  A read takes any number   *)
(* of those that have arrived; a token cut by a read counts with the read  *)
(* that ends it.  The socket is external, as in TunWsClient.               *)
(***************************************************************************)
EXTENDS Integers, Sequences, SequencesExt, HttpCookie

CONSTANTS
  Urls,           \* what is asked for: [host, path]
  Kinds,          \* responses a server gives: [frame, stated, sent, headers]
  MaxStarts,      \* bound on the user's requests
  MaxRedirects    \* bound on the redirections one request is given

(* A chunked response states by its last chunk what it has sent.           *)
ASSUME KindsAssumption ==
  \A k \in Kinds :
    /\ k.frame \in {"length", "chunked", "close", "moved"}
    /\ k.stated \in Nat /\ k.sent \in Nat
    /\ k.frame = "chunked" => k.stated = k.sent
    /\ \A i \in 1..Len(k.headers) : k.headers[i].name \in STRING
ASSUME BoundsAssumption == MaxStarts \in Nat /\ MaxRedirects \in Nat

VARIABLES
  user,           \* requester, or downloader of a new file
  sock,           \* none, connecting, connected or failing
  asked,          \* the server has a request to answer
  wire,           \* what it has sent and the client has not read
  input,          \* what the read at hand still holds
  remain,         \* HttpRequestSplitter's _remain_data
  unlimited,      \* its _content_len is -1, not 0
  _complete, _header_recved, _recved_body_size, _total_body_size,
  chunked,        \* _chunked_splitter is set
  _on_result,     \* it is set
  calling,        \* it is being called
  saved,          \* _res_body, or what was written to the file
  starts,         \* requests by the user
  redirects,      \* redirections of the last of them
  last,           \* the number of the last request sent
  _last_host,
  jar,            \* the HttpCookieStorage of the program
  kind,           \* ghost: the response to each
  peer,           \* ghost: the host the connection leads to
  given,          \* ghost: the cookies that hosts have given, with the host
  carried,        \* ghost: the cookies of the last request
  results         \* ghost: the ends of that request that were handed on

sockVars   == <<sock, asked, wire>>
parseVars  == <<remain, unlimited, _header_recved, _recved_body_size, _total_body_size, chunked>>
userVars   == <<user, starts, redirects>>
resultVars == <<_complete, _on_result, calling, results>>
askVars    == <<last, _last_host, peer, carried>>
cookieVars == <<jar, given>>
sentVars   == <<askVars, cookieVars, kind>>
vars == <<sockVars, input, parseVars, resultVars, saved, userVars, sentVars>>

Requests == 1..MaxStarts * (MaxRedirects + 1)
NoKind == [frame |-> "none", stated |-> 0, sent |-> 0, headers |-> <<>>]

Token(n, part) == [of |-> n, part |-> part]
Tokens(n, k) ==
  <<Token(n, "head")>> \o [i \in 1..k.sent |-> Token(n, "data")]
    \o (IF k.frame = "chunked" THEN <<Token(n, "last")>> ELSE <<>>)

Init ==
  /\ user \in {"requester", "downloader"}
  /\ sock = "none" /\ asked = FALSE /\ wire = <<>> /\ input = <<>>
  /\ remain = <<>> /\ unlimited = FALSE
  /\ _header_recved = FALSE /\ _recved_body_size = 0 /\ _total_body_size = 0
  /\ chunked = FALSE
  /\ _complete = TRUE /\ _on_result = FALSE /\ calling = FALSE /\ results = <<>>
  /\ saved = <<>> /\ starts = 0 /\ redirects = 0
  /\ _last_host = "" /\ peer = "" /\ jar = {} /\ given = {} /\ carried = {}
  /\ last = 0 /\ kind = [n \in Requests |-> NoKind]

Idle == input = <<>> /\ ~calling

(* Mutant: what the last response left is not cleared. *)
ClearResponse_KeepsCounts ==
  /\ remain' = <<>> /\ unlimited' = FALSE
  /\ _complete' = FALSE /\ _header_recved' = FALSE
  /\ chunked' = FALSE
  /\ UNCHANGED <<_recved_body_size, _total_body_size>>

ClearResponse ==
  /\ remain' = <<>> /\ unlimited' = FALSE
  /\ _complete' = FALSE /\ _header_recved' = FALSE
  /\ _recved_body_size' = 0 /\ _total_body_size' = 0
  /\ chunked' = FALSE

(* On the connection there is if the host is the same, else on a new one.  *)
(* What the read at hand still holds is dropped, what is yet to be read of *)
(* the same connection is not.                                             *)
Connect(host) ==
  IF _last_host = host /\ sock = "connected"
  THEN asked' = TRUE /\ UNCHANGED <<sock, wire, peer>>
  ELSE sock' = "connecting" /\ asked' = FALSE /\ wire' = <<>> /\ peer' = host

(* Mutant: the cookies are those of the host before. *)
SendRequest_OldHost(url) ==
  /\ ClearResponse
  /\ input' = <<>>
  /\ last' = last + 1
  /\ carried' = GetCookies(jar, _last_host, url.path)
  /\ jar' = KeptCookies(jar, _last_host, url.path)
  /\ _last_host' = url.host
  /\ Connect(url.host)

SendRequest(url) ==
  /\ ClearResponse
  /\ input' = <<>>
  /\ last' = last + 1
  /\ _last_host' = url.host
  /\ carried' = GetCookies(jar, url.host, url.path)
  /\ jar' = KeptCookies(jar, url.host, url.path)
  /\ Connect(url.host)

(* startRequester and startDownload, which opens the file anew. *)
StartRequest(url) ==
  /\ starts < MaxStarts
  /\ starts' = starts + 1 /\ redirects' = 0
  /\ saved' = IF user = "downloader" THEN <<>> ELSE saved
  /\ results' = <<>>
  /\ SendRequest(url)
  /\ UNCHANGED <<user, kind, given>>

Start(url) ==
  /\ Idle /\ _complete
  /\ _on_result' = TRUE
  /\ StartRequest(url)
  /\ UNCHANGED calling

(* From within _on_result, which is then cleared; not at the end of a      *)
(* chunked response, whose splitter would be destroyed under its call.     *)
StartInside(url) ==
  /\ calling /\ ~chunked
  /\ _on_result' = FALSE /\ calling' = FALSE
  /\ StartRequest(url)

ResultReturns ==
  /\ calling
  /\ calling' = FALSE /\ _on_result' = FALSE
  /\ UNCHANGED <<_complete, results, sockVars, input, parseVars, saved, userVars, sentVars>>

(* Mutant: a second end of a request is handed on. *)
Completed_Again(success, body, recved, total) ==
  /\ _complete' = TRUE
  /\ results' = Append(results,
       [ok     |-> success \/ (total > 0 /\ recved >= total) \/ (total = -1 /\ recved > 0),
        stated |-> total # -1,
        body   |-> body])
  /\ calling' = _on_result
  /\ saved' = IF user = "requester" THEN <<>> ELSE body
  /\ UNCHANGED _on_result

(* onResponseCompleted_l and the user's onResponseCompleted, with the      *)
(* counts as they are by then.  A doubtful failure is a success when all   *)
(* that was stated has come, or anything when nothing was stated.          *)
Completed(success, body, recved, total) ==
  IF _complete
  THEN saved' = body /\ UNCHANGED resultVars
  ELSE /\ _complete' = TRUE
       /\ results' = Append(results,
            [ok     |-> success \/ (total > 0 /\ recved >= total) \/ (total = -1 /\ recved > 0),
             stated |-> total # -1,
             body   |-> body])
       /\ calling' = _on_result
       /\ saved' = IF user = "requester" THEN <<>> ELSE body
       /\ UNCHANGED _on_result

ConnectOk ==
  /\ Idle /\ sock = "connecting"
  /\ sock' = "connected" /\ asked' = TRUE
  /\ UNCHANGED <<wire, input, parseVars, resultVars, saved, userVars, sentVars>>

(* onConnect(ex), or onErr: the socket is gone. *)
SocketEnds ==
  /\ Idle /\ sock \in {"connecting", "failing"}
  /\ sock' = "none" /\ asked' = FALSE /\ wire' = <<>>
  /\ Completed(FALSE, saved, _recved_body_size, _total_body_size)
  /\ UNCHANGED <<input, parseVars, userVars, sentVars>>

(* onErr is on its way, and nothing is read before it. *)
Fail == sock' = "failing" /\ asked' = FALSE /\ wire' = <<>> /\ input' = <<>>

PeerCloses ==
  /\ sock = "connected" /\ input = <<>>
  /\ Fail
  /\ UNCHANGED <<parseVars, resultVars, saved, userVars, sentVars>>

Answer(k) ==
  /\ sock = "connected" /\ asked
  /\ k.frame = "moved" => redirects < MaxRedirects
  /\ asked' = FALSE
  /\ wire' = wire \o Tokens(last, k)
  /\ kind' = [kind EXCEPT ![last] = k]
  /\ UNCHANGED <<sock, input, parseVars, resultVars, saved, userVars, askVars, cookieVars>>

(* Mutant: only the header is waited for, whatever was set. *)
Overdue_HeaderOnly == ~_header_recved

(* The requester's whole time; else the header's, then the content's,      *)
(* which goes on when the content is complete.                             *)
Overdue == IF user = "requester" THEN ~_complete ELSE TRUE

(* onManager, every two seconds; the times may have passed at any call.    *)
OnManager ==
  /\ Idle /\ sock \in {"connecting", "connected"}
  /\ Overdue
  /\ Fail
  /\ UNCHANGED <<parseVars, resultVars, saved, userVars, sentVars>>

Read(n) ==
  /\ Idle /\ sock = "connected"
  /\ n \in 1..Len(wire)
  /\ input' = SubSeq(wire, 1, n) /\ wire' = SubSeq(wire, n + 1, Len(wire))
  /\ UNCHANGED <<sock, asked, parseVars, resultVars, saved, userVars, sentVars>>

(***************************************************************************)
(* The splitter looks for a head in what it kept and the read.             *)
(***************************************************************************)
Searching == input # <<>> /\ ~unlimited /\ ~calling
Held == remain \o input
Heads == {i \in 1..Len(Held) : Held[i].part = "head"}
HeadAt == CHOOSE i \in Heads : \A j \in Heads : i <= j
Head1 == Held[HeadAt]
Behind == SubSeq(Held, HeadAt + 1, Len(Held))

KeepRest ==
  /\ Searching /\ Heads = {}
  /\ remain' = Held /\ input' = <<>>
  /\ UNCHANGED <<unlimited, _header_recved, _recved_body_size, _total_body_size, chunked,
                 sockVars, resultVars, saved, userVars, sentVars>>

(* The content of a redirection in front of a head spoils its first line,  *)
(* if there is a blank in it.                                              *)
Spoiled == IF HeadAt > 1 THEN BOOLEAN ELSE {FALSE}

(* The content of a redirection with a blank line in it is a head of its   *)
(* own, without a length.                                                  *)
Stray == Held[1].part # "head"

RecvStray ==
  /\ Searching /\ Stray /\ user = "requester"
  /\ input' = Tail(Held) /\ remain' = <<>>
  /\ _header_recved' = TRUE /\ chunked' = FALSE
  /\ _recved_body_size' = 0 /\ _total_body_size' = -1 /\ unlimited' = TRUE
  /\ saved' = <<>>
  /\ UNCHANGED <<sockVars, resultVars, userVars, sentVars>>

(* 301 or 302, and its first line is read as that. *)
Moved == Heads # {} /\ kind[Head1.of].frame = "moved" /\ FALSE \in Spoiled

(* To any url, as often as it is asked for; what cookies it gives are lost.*)
Redirect(url) ==
  /\ Searching /\ Moved
  /\ redirects' = redirects + 1
  /\ SendRequest(url)
  /\ UNCHANGED <<_on_result, calling, results, saved, user, starts, kind, given>>

(* The user's onResponseHeader. *)
OnResponseHeader == IF user = "requester" THEN <<>> ELSE saved

(* All that is behind the first Set-Cookie in the order of the names is    *)
(* taken for one.                                                          *)
Cookies(headers) ==
  LET taken == {i \in 1..Len(headers) : \E j \in 1..i : headers[j].name = "Set-Cookie"}
  IN [i \in taken |-> ReadCookie(_last_host, headers[i])]

CheckCookie(headers) ==
  /\ jar' = SetCookies(jar, Cookies(headers))
  /\ given' = given \cup {<<peer, h.key>> : h \in ToSet(headers)}

(* An exception closes the connection: a redirection without Location, or  *)
(* to a url that is none, which sendRequest finds after clearResponse; for *)
(* the downloader, once the cookies are stored, a status other than 200    *)
(* and 206.                                                                *)
HeaderThrows ==
  /\ Searching
  /\ \/ /\ Moved
        /\ UNCHANGED <<parseVars, _complete>> \/ ClearResponse
        /\ UNCHANGED cookieVars
     \/ /\ user = "downloader"
        /\ \/ Stray /\ UNCHANGED cookieVars
           \/ /\ Heads # {} /\ (kind[Head1.of].frame = "moved" => TRUE \in Spoiled)
              /\ CheckCookie(kind[Head1.of].headers)
        /\ UNCHANGED <<parseVars, _complete>>
  /\ Fail
  /\ UNCHANGED <<_on_result, calling, results, saved, userVars, askVars, kind>>

(* The framing by the head; without content the response is complete.      *)
RecvHeader ==
  /\ Searching /\ Heads # {}
  /\ LET k == kind[Head1.of]
     IN /\ k.frame = "moved" => TRUE \in Spoiled /\ user = "requester"
        /\ CheckCookie(k.headers)
        /\ input' = Behind /\ remain' = <<>>
        /\ _header_recved' = TRUE
        /\ chunked' = (k.frame = "chunked")
        /\ _recved_body_size' = 0
        /\ _total_body_size' = IF k.frame \in {"length", "moved"} THEN k.stated ELSE -1
        /\ unlimited' = (_total_body_size' # 0)
        /\ IF _total_body_size' = 0
           THEN Completed(TRUE, OnResponseHeader, 0, 0)
           ELSE saved' = OnResponseHeader /\ UNCHANGED resultVars
  /\ UNCHANGED <<sockVars, userVars, askVars, kind>>

(***************************************************************************)
(* onRecvContent gets all the read holds.                                  *)
(***************************************************************************)
Receiving == input # <<>> /\ unlimited /\ ~calling
Got == _recved_body_size + Len(input)

(* The downloader's file is closed once the request is complete. *)
FileClosed == user = "downloader" /\ _complete

Written(tokens) == IF FileClosed THEN saved ELSE saved \o tokens

Whole == Got = _total_body_size

RecvContent ==
  /\ Receiving /\ ~chunked
  /\ _total_body_size < 0 \/ Got <= _total_body_size
  /\ input' = <<>>
  /\ _recved_body_size' = Got
  /\ IF _total_body_size > 0 /\ Whole
     THEN Completed(TRUE, Written(input), Got, _total_body_size)
     ELSE saved' = Written(input) /\ UNCHANGED resultVars
  /\ UNCHANGED <<sockVars, remain, unlimited, _header_recved, _total_body_size, chunked,
                 userVars, sentVars>>

(* More than was stated: what came is handed on, and an exception closes   *)
(* the connection.                                                         *)
RecvTooMuch ==
  /\ Receiving /\ ~chunked
  /\ _total_body_size > 0 /\ Got > _total_body_size
  /\ _recved_body_size' = Got
  /\ saved' = Written(input)
  /\ Fail
  /\ UNCHANGED <<remain, unlimited, _header_recved, _total_body_size, chunked,
                 resultVars, userVars, sentVars>>

(* The chunks one by one, the last of size 0. *)
RecvChunk ==
  /\ Receiving /\ chunked
  /\ input' = Tail(input)
  /\ IF Head(input).part = "data"
     THEN /\ _recved_body_size' = _recved_body_size + 1
          /\ saved' = Written(<<Head(input)>>)
          /\ UNCHANGED <<_total_body_size, resultVars>>
     ELSE /\ _total_body_size' = _recved_body_size
          /\ UNCHANGED _recved_body_size
          /\ Completed(TRUE, saved, _recved_body_size, _recved_body_size)
  /\ UNCHANGED <<sockVars, remain, unlimited, _header_recved, chunked, userVars, sentVars>>

(* Its time comes; the jar keeps it until it is looked at. *)
CookieExpires(c) ==
  /\ Idle /\ c.live
  /\ jar' = (jar \ {c}) \cup {[c EXCEPT !.live = FALSE]}
  /\ UNCHANGED <<sockVars, input, parseVars, resultVars, saved, userVars, askVars, given, kind>>

Client ==
  \/ ResultReturns
  \/ KeepRest \/ RecvStray \/ (\E url \in Urls : Redirect(url)) \/ HeaderThrows \/ RecvHeader
  \/ RecvContent \/ RecvTooMuch \/ RecvChunk

Next ==
  \/ \E url \in Urls : Start(url) \/ StartInside(url)
  \/ Client \/ ConnectOk \/ SocketEnds \/ PeerCloses \/ OnManager
  \/ \E k \in Kinds : Answer(k)
  \/ \E n \in 1..Len(wire) : Read(n)
  \/ \E c \in jar : CookieExpires(c)

Spec == Init /\ [][Next]_vars

(* What starts the downloader's wait for content again: any read of it.    *)
Trickle == user = "downloader" /\ _header_recved /\ \E n \in 1..Len(wire) : Read(n)

(* What is read is handled and errors are delivered.  A timer fires unless *)
(* it is started again for ever, by redirections or by reads.  Nothing is  *)
(* assumed of the server or the network.                                   *)
FairSpec ==
  /\ Spec
  /\ WF_vars(Client)
  /\ WF_vars(OnManager) \/ []<><<Trickle \/ \E url \in Urls : Redirect(url)>>_vars
  /\ WF_vars(sock = "failing" /\ SocketEnds)

(***************************************************************************)
(* Properties.                                                             *)
(***************************************************************************)
(* A success whose length was stated has the whole content of the response *)
(* to the last request sent and nothing else: nothing an earlier request   *)
(* left on the connection or in the user's buffer, nothing of a            *)
(* redirection, and nothing missing, however the reads cut the response    *)
(* and whichever of the two paths called it a success                      *)
(* (HttpClient.cpp:98-109, 183-266, 312-340, HttpRequester.cpp:18-25).     *)
WholeBody ==
  \A i \in 1..Len(results) :
    results[i].ok /\ results[i].stated =>
      LET body == results[i].body
      IN /\ \A j \in 1..Len(body) : body[j] = Token(last, "data")
         /\ Len(body) >= kind[last].stated

(* Of each of the user's requests one end is handed on, though the last    *)
(* byte, a timeout and the socket's error may all come to end it           *)
(* (HttpClient.cpp:312-317).                                               *)
OneEnd == Len(results) <= 1

(* The cookies a request carries were given by the host it goes to, though *)
(* the jar is one for all hosts, redirections lead from host to host and   *)
(* a connection is used again for as long as the host is the same          *)
(* (HttpClient.cpp:68-87, 350-385, HttpCookie.cpp:89-124).                 *)
OwnCookies == \A c \in carried : <<peer, c.key>> \in given

(* A callback that is set is called: each request the user's one leads to  *)
(* is reported or redirected once more, whatever the server does, unless   *)
(* it feeds a downloader for ever.  A callback set within the call of the  *)
(* one before is cleared by its return and never called                    *)
(* (HttpClient.cpp:96-109, 174-191, 284-310, HttpRequester.cpp:26-32,      *)
(* HttpDownloader.cpp:59-65).                                              *)
Reported ==
  \/ \A n \in Requests : _on_result /\ ~calling /\ last = n ~> calling \/ last # n
  \/ []<><<Trickle>>_vars
=============================================================================
