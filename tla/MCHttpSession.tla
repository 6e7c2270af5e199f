--------------------------- MODULE MCHttpSession ----------------------------
(* Instances of HttpSession for TLC. *)
EXTENDS HttpSession

Request(method, chunks, has, close) ==
  [method |-> method, chunks |-> chunks, has |-> has, close |-> close]

(* Files of two and three parts, one with the peer's wish to close, one    *)
(* that shrinks before it is read to the end, and every other request.     *)
EveryRequest ==
  { Request("GET", 3, 3, FALSE), Request("GET", 2, 2, TRUE), Request("GET", 2, 1, FALSE),
    Request("GET", 0, 0, TRUE), Request("HEAD", 0, 0, FALSE), Request("OPTIONS", 0, 0, FALSE),
    Request("POST", 0, 0, FALSE), Request("HUGE_POST", 0, 0, FALSE),
    Request("UPGRADE", 0, 0, FALSE),
    Request("DELETE", 0, 0, FALSE) }

(* What a browser asks for on one connection. *)
TwoFiles == { Request("GET", 3, 3, FALSE), Request("GET", 2, 2, FALSE) }
=============================================================================
