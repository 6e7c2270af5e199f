---------------------------- MODULE MCTunServer -----------------------------
(* Instances of TunServer for TLC. *)
EXTENDS TunServer

CONSTANTS s1, s2

TwoSessions == {s1, s2}
=============================================================================
