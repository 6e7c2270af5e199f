------------------------ MODULE MCWebSocketMessages -------------------------
(* Instances of WebSocketMessages for TLC. *)
EXTENDS WebSocketMessages

Frame(ext, mask, plen, op, fin) ==
  [ext |-> ext, mask |-> mask, plen |-> plen, op |-> op, fin |-> fin]

(* Masked and unmasked, short and extended, empty and longer than the key; *)
(* fragments and last parts, control frames with and without payload.      *)
SomeFrames ==
  { Frame(0, TRUE,  5, "binary",       FALSE),
    Frame(8, TRUE,  1, "continuation", TRUE),
    Frame(0, FALSE, 0, "continuation", FALSE),
    Frame(0, FALSE, 0, "ping",         TRUE),
    Frame(0, TRUE,  2, "ping",         TRUE),
    Frame(2, FALSE, 1, "close",        TRUE) }
=============================================================================
