----------------------- MODULE MCHttpRequestSplitter ------------------------
(* Instances of HttpRequestSplitter for TLC. *)
EXTENDS HttpRequestSplitter

(* A request without content, one with, one larger than the limit, and the *)
(* upgrade to a websocket.                                                 *)
SomeMessages ==
  { [head |-> 2, body |-> 0],
    [head |-> 2, body |-> 3],
    [head |-> 3, body |-> 7],
    [head |-> 2, body |-> Unlimited] }
=============================================================================
