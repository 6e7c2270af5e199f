----------------------------- MODULE HttpCookie -----------------------------
(***************************************************************************)
(* The client's cookies: how a response gives one, and HttpCookieStorage,  *)
(* which keeps those of all hosts in one place.  A path is the sequence of *)
(* its parts; of the time a cookie expires at, only whether it has come.   *)
(***************************************************************************)
EXTENDS Integers, Sequences, SequencesExt

Root == <<>>

NewCookie(host) == [host |-> host, path |-> Root, key |-> "", live |-> FALSE]

(* operator bool: a cookie that states no time has expired from the start. *)
IsValid(cookie) == cookie.key # "" /\ cookie.live

(* Whether the date is later than now, by the server's own date if it sent *)
(* one.  One that cannot be read leaves the time as the stack had it.      *)
SetExpires(cookie, later) == [cookie EXCEPT !.live = later]

(* Of the fields behind a cookie's name and value the last of a name       *)
(* counts.  A blank in front of the name is part of it, and the field is   *)
(* not known.                                                              *)
LastField(fields, name, default) ==
  LET at == {i \in DOMAIN fields : fields[i].name = name}
  IN IF at = {} THEN default ELSE fields[CHOOSE i \in at : \A j \in at : j <= i].val

ReadCookie(host, header) ==
  SetExpires([NewCookie(host) EXCEPT !.key = header.key,
                                     !.path = LastField(header.fields, "path", Root)],
             LastField(header.fields, "expires", FALSE))

Place(cookie) == <<cookie.host, cookie.path, cookie.key>>

(* Cookies set in the order of their numbers: one that is valid takes the  *)
(* place of the one there is, one that is not leaves it.                   *)
SetCookies(jar, cookies) ==
  LET set  == {i \in DOMAIN cookies : IsValid(cookies[i])}
      stay == {i \in set : \A j \in set : j > i => Place(cookies[j]) # Place(cookies[i])}
  IN {c \in jar : \A i \in set : Place(c) # Place(cookies[i])} \cup {cookies[i] : i \in stay}

Covered(jar, host, path) == {c \in jar : c.host = host /\ IsPrefix(c.path, path)}

(* Those of the host under a path in front of the one asked for; what has  *)
(* expired there is erased.                                                *)
GetCookies(jar, host, path) == {c \in Covered(jar, host, path) : IsValid(c)}

KeptCookies(jar, host, path) ==
  jar \ {c \in Covered(jar, host, path) : ~IsValid(c)}
=============================================================================
