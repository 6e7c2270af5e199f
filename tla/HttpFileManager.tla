-------------------------- MODULE HttpFileManager ---------------------------
(***************************************************************************)
(* HttpFileManager::onAccessPath: a GET for a file or a directory, from    *)
(* the decoding of its path to the body that is sent.  canAccessPath looks *)
(* for a cookie, by the header and then by the user id, and asks the       *)
(* listener of kBroadcastHttpAccess when there is none that answers; the   *)
(* listener may answer at once or later, from any thread, and what it says *)
(* may be kept in a cookie.  Sessions run in threads of their own and meet *)
(* in HttpCookieManager and in the table of mapped files.                  *)
(*                                                                         *)
(* The program installs no listener (listening is FALSE); the module also  *)
(* keeps the promises canAccessPath makes to one that is.                  *)
(***************************************************************************)
EXTENDS HttpCookieManager, SharedMmap, FolderMenu

CONSTANT MaxRequests   \* bound on the requests

Sessions == Holders

(* Only files have bodies that are mapped, one for each session.           *)
ASSUME BodyAssumption == Users = Sessions /\ Files = {p \in Paths : Kind[p] = "file"}

VARIABLES
  asked,        \* number of requests so far
  listening,    \* whether there is a listener for kBroadcastHttpAccess
  pc,           \* of each session
  req,          \* its request: menu, meant, url, file, uid, cookie
  found,        \* the cookie canAccessPath has found
  out,          \* what the callback is given: err, cookie
  code,         \* the answer to the request, or 0
  allowed       \* ghost: whether the listener has allowed this request

accessVars == <<asked, listening, pc, req, found, out, code, allowed>>
vars == <<accessVars, cookieVars, mmapVars>>

NoRequest == [menu |-> <<>>, meant |-> <<>>, url |-> <<>>, file |-> NoFile,
              uid |-> NoUid, cookie |-> NoCookie]
NoOut == [err |-> FALSE, cookie |-> NoCookie]

Init ==
  /\ CookieInit /\ MmapInit
  /\ asked = 0
  /\ listening \in BOOLEAN
  /\ pc = [s \in Sessions |-> "idle"]
  /\ req = [s \in Sessions |-> NoRequest]
  /\ found = [s \in Sessions |-> NoCookie]
  /\ out = [s \in Sessions |-> NoOut]
  /\ code = [s \in Sessions |-> 0]
  /\ allowed = [s \in Sessions |-> FALSE]

At(s, state) == pc[s] = state
Go(s, state) == pc' = [pc EXCEPT ![s] = state]

SendNotFound(s) == code' = [code EXCEPT ![s] = 404] /\ Go(s, "sending")

(* HttpSession::urlDecode: the path as the request arrives.                *)
Url(ask) == UrlDecode(ask.link)

(* A file or a directory is asked for; one with an index file stands       *)
(* for that file.                                                          *)
OnAccessPath(s, ask, uid, cookie) ==
  LET url     == Url(ask)
      named   == GetFilePath(url)
      indexed == KindOf(named) = "index"
      target  == IF indexed THEN [names |-> Append(named.names, IndexFile), slash |-> FALSE]
                 ELSE named
  IN /\ At(s, "idle") /\ at[s] = "none"
     /\ asked < MaxRequests /\ asked' = asked + 1
     /\ req' = [req EXCEPT ![s] =
          [menu |-> ask.menu, meant |-> ask.meant,
           url  |-> IF indexed THEN PathCat(url, IndexFile) ELSE url, file |-> target,
           uid  |-> uid, cookie |-> cookie]]
     /\ IF FileExist(target)
        THEN Go(s, "cookie") /\ UNCHANGED code
        ELSE SendNotFound(s)
     /\ UNCHANGED <<listening, allowed, found, out, cookieVars, mmapVars>>

---------------------------------------------------------------------------
(* canAccessPath *)

(* By the header's cookie. *)
ByCookie(s, expired) ==
  /\ At(s, "cookie")
  /\ GetCookie(s, req[s].cookie, expired)
  /\ found' = [found EXCEPT ![s] = IF Found(req[s].cookie, expired) THEN req[s].cookie ELSE NoCookie]
  /\ Go(s, IF found'[s] = NoCookie /\ req[s].uid # NoUid THEN "uid" ELSE "decide")
  /\ UNCHANGED <<asked, listening, req, out, code, allowed, mmapVars>>

(* getCookieByUid: the index is read, and then the map. *)
OldestOfUid(s) ==
  /\ At(s, "uid")
  /\ found' = [found EXCEPT ![s] = GetOldestCookie(req[s].uid, 1)]
  /\ Go(s, IF found'[s] = NoCookie THEN "decide" ELSE "byuid")
  /\ UNCHANGED <<asked, listening, req, out, code, allowed, cookieVars, mmapVars>>

ByUid(s, expired) ==
  /\ At(s, "byuid")
  /\ GetCookie(s, found[s], expired)
  /\ found' = [found EXCEPT ![s] = IF Found(@, expired) THEN @ ELSE NoCookie]
  /\ Go(s, "decide")
  /\ UNCHANGED <<asked, listening, req, out, code, allowed, mmapVars>>

Callback(s, err, cookie) ==
  /\ out' = [out EXCEPT ![s] = [err |-> err, cookie |-> cookie]]
  /\ Go(s, IF At(s, "orphan") THEN "nobody" ELSE "callback")

(* Mutant: the directory a cookie is good for is not looked at. *)
InScope_Anywhere(s) == found[s] # NoCookie

InScope(s) == found[s] # NoCookie /\ IsPrefix(attach[found[s]]._path, req[s].url)

(* The cookie says that its user may. *)
Allowed(s) ==
  /\ At(s, "decide") /\ InScope(s) /\ ~attach[found[s]]._err_msg
  /\ Callback(s, FALSE, found[s])
  /\ UNCHANGED <<asked, listening, req, found, code, allowed, cookieVars, mmapVars>>

Repeated(s) ==
  /\ InScope(s) /\ attach[found[s]]._err_msg
  /\ req[s].uid = NoUid \/ req[s].uid = attach[found[s]].uid

(* It says he may not, and the request is the same as then; the cookie is  *)
(* sent again only when it was found by the user id.                       *)
Refused(s) ==
  /\ At(s, "decide") /\ Repeated(s)
  /\ Callback(s, TRUE, IF found[s] = req[s].cookie THEN NoCookie ELSE found[s])
  /\ UNCHANGED <<asked, listening, req, found, code, allowed, cookieVars, mmapVars>>

(* Nothing is known of this request: an old cookie is deleted, and the     *)
(* listener asked; without one everything is allowed.                      *)
Broadcast(s) ==
  /\ At(s, "decide")
  /\ InScope(s) => attach[found[s]]._err_msg /\ ~Repeated(s)
  /\ DelCookie(found[s])
  /\ IF listening THEN Go(s, "asked") /\ UNCHANGED out ELSE Callback(s, FALSE, NoCookie)
  /\ UNCHANGED <<asked, listening, req, found, code, allowed, mmapVars>>

(* The listener keeps the invoker for later, and canAccessPath returns. *)
Returns(s) ==
  /\ At(s, "asked")
  /\ LetGo(s)
  /\ Go(s, "waiting")
  /\ UNCHANGED <<asked, listening, req, found, out, code, allowed, mmapVars>>

Decides(s, err) == allowed' = [allowed EXCEPT ![s] = ~err]

(* A menu's URL, with a slash at its end or without; a file's up to its    *)
(* name.                                                                   *)
OwnScope(s) == IF KindOf(req[s].file) = "menu" THEN req[s].url ELSE Directory(req[s].url)

(* accessPathInvoker: what the listener decides is kept in a cookie for    *)
(* the directory it names or else the request's own, or not kept.          *)
InvokeForLife(s, err, root, later) ==
  LET scope == IF root THEN <<Slash>> ELSE OwnScope(s)
  IN /\ pc[s] \in {"asked", "waiting", "orphan"}
     /\ AddCookie(s, req[s].uid, scope, err, later)
     /\ Callback(s, err, Len(attach'))
     /\ Decides(s, err)
     /\ UNCHANGED <<asked, listening, req, found, code, mmapVars>>

InvokeOnce(s, err) ==
  /\ pc[s] \in {"asked", "waiting", "orphan"}
  /\ Callback(s, err, NoCookie)
  /\ Decides(s, err)
  /\ UNCHANGED <<asked, listening, req, found, code, cookieVars, mmapVars>>

---------------------------------------------------------------------------
(* The answer. *)

Answer(s, status) == code' = [code EXCEPT ![s] = status]

(* The callback returns, and with it canAccessPath or the invoker. *)
CallbackEnds(s) ==
  /\ LetGo(s)
  /\ found' = [found EXCEPT ![s] = NoCookie]
  /\ out' = [out EXCEPT ![s] = NoOut]
  /\ UNCHANGED <<asked, listening, req, allowed, mmapVars>>

(* A menu, or the refusal of one or of a file. *)
AnswerText(s) ==
  /\ At(s, "callback")
  /\ KindOf(req[s].file) = "menu" \/ out[s].err
  /\ Answer(s, IF out[s].err THEN 401 ELSE 200)
  /\ Go(s, "sending")
  /\ CallbackEnds(s)

(* The session has died: nothing is to be answered. *)
AnswerNobody(s) ==
  /\ At(s, "nobody")
  /\ Go(s, "gone")
  /\ CallbackEnds(s)
  /\ UNCHANGED code

(* A file is answered only when no cookie came with the permission; with   *)
(* one the callback ends without an answer.                                *)
AnswerFile(s) ==
  /\ At(s, "callback")
  /\ KindOf(req[s].file) = "file" /\ ~out[s].err
  /\ Go(s, IF out[s].cookie = NoCookie THEN "body" ELSE "silent")
  /\ CallbackEnds(s)
  /\ UNCHANGED code

(* responseFile: the body maps the file, or reads it, and is sent. *)
BodyShares(s) ==
  /\ At(s, "body")
  /\ Share(s, req[s].file.names)
  /\ Answer(s, 200) /\ Go(s, "sending")
  /\ UNCHANGED <<asked, listening, req, found, out, allowed, cookieVars>>

BodyOpens(s) ==
  /\ At(s, "body")
  /\ Miss(s, req[s].file.names)
  /\ UNCHANGED <<accessVars, cookieVars>>

BodyMaps(s, a) ==
  /\ At(s, "body")
  /\ Map(s, a)
  /\ UNCHANGED <<accessVars, cookieVars>>

BodyRegisters(s) ==
  /\ At(s, "body")
  /\ Register(s)
  /\ Answer(s, 200) /\ Go(s, "sending")
  /\ UNCHANGED <<asked, listening, req, found, out, allowed, cookieVars>>

(* The file has gone since it was looked for, or it cannot be mapped.      *)
BodyMapFails(s) ==
  /\ At(s, "body")
  /\ MapFails(s)
  /\ \E status \in {404, 200} : Answer(s, status)
  /\ Go(s, "sending")
  /\ UNCHANGED <<asked, listening, req, found, out, allowed, cookieVars>>

(* The answer and its body's last buffer are dropped: sent, or the peer is *)
(* gone.                                                                   *)
BodyDropped(s) ==
  /\ At(s, "sending")
  /\ IF at[s] = "using" THEN Release(s) ELSE UNCHANGED mmapVars
  /\ Go(s, "idle")
  /\ req' = [req EXCEPT ![s] = NoRequest]
  /\ code' = [code EXCEPT ![s] = 0]
  /\ allowed' = [allowed EXCEPT ![s] = FALSE]
  /\ UNCHANGED <<asked, listening, found, out, cookieVars>>

Deleter(s) ==
  /\ Munmap(s) \/ DelSharedMmap(s)
  /\ UNCHANGED <<accessVars, cookieVars>>

(* The peer goes while its session waits for the listener, whose answer    *)
(* then finds no session.                                                  *)
PeerGone(s) ==
  /\ At(s, "waiting")
  /\ Go(s, "orphan")
  /\ UNCHANGED <<asked, listening, req, found, out, code, allowed, cookieVars, mmapVars>>

CookieTimer ==
  /\ OnManager
  /\ UNCHANGED <<accessVars, mmapVars>>

Handle(s) ==
  \/ \E expired \in BOOLEAN : ByCookie(s, expired) \/ ByUid(s, expired)
  \/ OldestOfUid(s)
  \/ Allowed(s) \/ Refused(s) \/ Broadcast(s) \/ Returns(s)
  \/ AnswerText(s) \/ AnswerFile(s) \/ AnswerNobody(s)
  \/ BodyShares(s) \/ BodyOpens(s) \/ BodyRegisters(s) \/ BodyMapFails(s)
  \/ \E a \in Addrs : BodyMaps(s, a)

Invoke(s) ==
  \/ \E err, root, later \in BOOLEAN : InvokeForLife(s, err, root, later)
  \/ \E err \in BOOLEAN : InvokeOnce(s, err)

Requests(s, asks) ==
  \E ask \in asks, uid \in Uids \cup {NoUid}, c \in Issued \cup {NoCookie} :
    OnAccessPath(s, ask, uid, c)

Next ==
  \/ \E s \in Sessions :
       \/ Requests(s, Typed) \/ Requests(s, Clicked)
       \/ Handle(s) \/ Invoke(s) \/ BodyDropped(s) \/ Deleter(s) \/ PeerGone(s)
  \/ CookieTimer

Spec == Init /\ [][Next]_vars

(***************************************************************************)
(* Properties.                                                             *)
(***************************************************************************)
(* What is sent was allowed: by the listener for this very request, or for *)
(* an earlier one whose cookie, or whose user's, covers the URL; whatever  *)
(* other cookies are made, deleted, expired or evicted in between.  Of the *)
(* file it says so as far as the URL is its own name: one with ".." in it, *)
(* or a backslash, may be covered while the directory of its file is not   *)
(* (HttpFileManager.cpp:224-298, 383-404).                                 *)
GrantedOnly ==
  listening =>
    \A s \in Sessions :
      code[s] = 200 /\ ~allowed[s] =>
        \E c \in Issued :
          /\ ~attach[c]._err_msg /\ IsPrefix(attach[c]._path, req[s].url)
          /\ \/ c = req[s].cookie
             \/ req[s].uid # NoUid /\ attach[c].uid = req[s].uid

(* A request made with the link of a menu arrives as one for the entry, or *)
(* for the index of its directory, whatever signs its name has and those   *)
(* on the way to it: coding and decoding are done once each.  Except for   *)
(* the menu of a directory that was asked for without its slash and under  *)
(* a name that needs coding, or by "." or ".."                             *)
(* (HttpFileManager.cpp:76-82, 127, 143-152, HttpSession.cpp:65).          *)
LinksLead ==
  \A s \in Sessions :
    LinksWritten(req[s].menu) =>
      req[s].url = req[s].meant \/ req[s].url = PathCat(req[s].meant, IndexFile)
=============================================================================
