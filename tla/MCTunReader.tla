---------------------------- MODULE MCTunReader -----------------------------
(* Instances of TunReader for TLC. *)
EXTENDS TunReader

CONSTANTS r1, r2, r3

TwoReaders   == {r1, r2}
ThreeReaders == {r1, r2, r3}
=============================================================================
