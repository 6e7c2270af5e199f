---------------------------- MODULE MCHttpClient ----------------------------
(***************************************************************************)
(* Two hosts.  A response of each kind; a cookie for all paths, one for    *)
(* those under "x" and one whose time has passed, and a header behind it   *)
(* that is none.                                                           *)
(***************************************************************************)
EXTENDS HttpClient

MCUrls == { [host |-> "a", path |-> <<"x">>], [host |-> "b", path |-> Root] }

Kind(frame, stated, sent, headers) ==
  [frame |-> frame, stated |-> stated, sent |-> sent, headers |-> headers]

Header(name, key, fields) == [name |-> name, key |-> key, fields |-> fields]
Field(name, val) == [name |-> name, val |-> val]
Later == Field("expires", TRUE)

MCKinds ==
  { Kind("length", 0, 0, <<Header("Set-Cookie", "id", <<Later>>)>>),
    Kind("length", 2, 2, <<Header("Server", "s", <<Later>>),
                           Header("Set-Cookie", "x", <<Later, Field("path", <<"x">>)>>)>>),
    Kind("length", 1, 2, <<>>),
    Kind("chunked", 1, 1, <<Header("Set-Cookie", "id", <<Field(" path", <<"x">>)>>),
                            Header("Transfer-Encoding", "", <<>>)>>),
    Kind("close", 0, 1, <<>>),
    Kind("moved", 1, 1, <<Header("Set-Cookie", "moved", <<Later>>)>>) }
=============================================================================
