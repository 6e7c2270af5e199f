------------------------- MODULE HttpCookieManager --------------------------
(***************************************************************************)
(* HttpCookieManager: the cookies the HTTP server has handed out, each     *)
(* with what its user may see, and the index of a user's cookies by the    *)
(* millisecond of their making, which keeps a user to MaxClient cookies.   *)
(*                                                                         *)
(* A lock makes every operation one step, but a cookie lives on while a    *)
(* request holds it: only when the last holder lets go is it taken out of  *)
(* the index, long after it was erased from the map.                       *)
(*                                                                         *)
(* Time is only looked at where it counts: a cookie may be found expired   *)
(* whenever it is looked up, and is then erased; updateTime, which puts    *)
(* that off, changes nothing here.                                         *)
(***************************************************************************)
EXTENDS Integers, Sequences, FiniteSetsExt

CONSTANTS
  Holders,      \* requests that may hold a cookie
  Uids, NoUid,  \* user ids, and a request without one
  MaxClient,    \* max_client of addCookie
  MaxCookies    \* bound on the cookies made

ASSUME CookieAssumption ==
  /\ MaxClient \in Nat \ {0} /\ MaxCookies \in Nat
  /\ NoUid \notin Uids

VARIABLES
  _map_cookie,         \* the valid cookies
  _map_uid_to_cookie,  \* the index: records uid, at, cookie
  _obtained,           \* the generator's strings in use
  attach,              \* of each cookie made: uid, _path, _err_msg
  held,                \* cookies each request holds
  now,                 \* the millisecond of the newest cookie
  excused              \* ghost: users whose limit is not promised any more

cookieVars == <<_map_cookie, _map_uid_to_cookie, _obtained, attach, held, now, excused>>

NoCookie == 0
Issued == DOMAIN attach

CookieInit ==
  /\ _map_cookie = {} /\ _map_uid_to_cookie = {} /\ _obtained = {}
  /\ attach = <<>>
  /\ held = [h \in Holders |-> {}]
  /\ now = 0 /\ excused = {}

Referenced(map, holds) == map \cup UNION {holds[h] : h \in Holders}

(* Mutant: the destructor leaves the index alone. *)
OnDelCookie_KeepsIndex(index, gone) == index

(* The destructor of the cookies nobody refers to any more. *)
OnDelCookie(index, gone) == {e \in index : e.cookie \notin gone}

(* The generator's string may be used again. *)
Released(used, gone) == used \ gone

(* One that is in use is not given; strings are as good as numbers here.   *)
Obtain(used, cookie) == used \cup {cookie}

Settle(map, holds) ==
  LET gone == Referenced(_map_cookie, held) \ Referenced(map, holds)
  IN /\ _map_cookie' = map
     /\ held' = holds
     /\ _obtained' = Released(_obtained, gone)
     /\ _map_uid_to_cookie' = OnDelCookie(_map_uid_to_cookie, gone)

CookiesOf(user) == {e \in _map_uid_to_cookie : e.uid = user}

(* The user's first cookie, once there are as many as allowed. *)
GetOldestCookie(user, max) ==
  IF Cardinality(CookiesOf(user)) < max
  THEN NoCookie
  ELSE (CHOOSE e \in CookiesOf(user) : \A f \in CookiesOf(user) : e.at <= f.at).cookie

(* Mutant: the old cookie is not deleted. *)
DelOldest_Never(old) == _map_cookie

DelOldest(old) == _map_cookie \ {old}

(* One cookie per user and millisecond: a later one takes the place. *)
Same(user, time) == {e \in CookiesOf(user) : e.at = time}

OnAddCookie(index, user, time, cookie) ==
  (index \ Same(user, time)) \cup {[uid |-> user, at |-> time, cookie |-> cookie]}

(* A new cookie for the user, in the same millisecond as the last one or   *)
(* later, in place of the user's oldest; without a user id it is its own   *)
(* user.                                                                   *)
AddCookie(h, uid, path, err, later) ==
  LET cookie == Len(attach) + 1
      user   == IF uid = NoUid THEN cookie ELSE uid
      old    == GetOldestCookie(user, MaxClient)
      map    == DelOldest(old)
      gone   == Referenced(_map_cookie, held) \ Referenced(map, held)
      time   == IF later /\ attach # <<>> THEN now + 1 ELSE now
  IN /\ cookie <= MaxCookies
     /\ attach' = Append(attach, [uid |-> user, _path |-> path, _err_msg |-> err])
     /\ _map_cookie' = map \cup {cookie}
     /\ held' = [held EXCEPT ![h] = @ \cup {cookie}]
     /\ _obtained' = Obtain(Released(_obtained, gone), cookie)
     /\ _map_uid_to_cookie' =
          OnAddCookie(OnDelCookie(_map_uid_to_cookie, gone), user, time, cookie)
     /\ excused' = IF old \in Issued \ _map_cookie \/ \E e \in Same(user, time) : e.cookie \in map
                   THEN excused \cup {user} ELSE excused
     /\ now' = time

(* getCookie: the request holds the cookie it finds; one that has expired  *)
(* is erased.                                                              *)
Found(cookie, expired) == cookie \in _map_cookie /\ ~expired

GetCookie(h, cookie, expired) ==
  /\ IF Found(cookie, expired)
     THEN Settle(_map_cookie, [held EXCEPT ![h] = @ \cup {cookie}])
     ELSE Settle(_map_cookie \ {cookie}, held)
  /\ UNCHANGED <<attach, now, excused>>

DelCookie(cookie) ==
  /\ Settle(_map_cookie \ {cookie}, held)
  /\ UNCHANGED <<attach, now, excused>>

(* The request's references go out of scope. *)
LetGo(h) ==
  /\ Settle(_map_cookie, [held EXCEPT ![h] = {}])
  /\ UNCHANGED <<attach, now, excused>>

(* The timer's turn: what has expired is erased. *)
OnManager ==
  /\ \E expired \in SUBSET _map_cookie \ {{}} : Settle(_map_cookie \ expired, held)
  /\ UNCHANGED <<attach, now, excused>>

(***************************************************************************)
(* Properties.                                                             *)
(***************************************************************************)
(* The generator and the index know no cookie that is gone: each of their  *)
(* entries is a cookie in the map or in the hands of a request, so neither *)
(* grows without end, whoever lets go of a cookie last                     *)
(* (HttpCookieManager.cpp:32-37, 205-244).                                 *)
NoLeak ==
  /\ _obtained = Referenced(_map_cookie, held)
  /\ \A e \in _map_uid_to_cookie : e.cookie \in _obtained

(* A user has no more than MaxClient valid cookies, while other requests   *)
(* of the user come and go.  Two cases are excused, from then on: a cookie *)
(* is made while the one that would have to go has been erased but is      *)
(* still held, and two are made within one millisecond                     *)
(* (HttpCookieManager.h:139-142: one account, at most so many devices).    *)
ClientLimit ==
  \A u \in Uids \ excused :
    Cardinality({c \in _map_cookie : attach[c].uid = u}) <= MaxClient
=============================================================================
