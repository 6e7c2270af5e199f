----------------------------- MODULE DataFilter -----------------------------
(***************************************************************************)
(* DataFilter::Filter, which both ends of the tunnel apply to each packet: *)
(* its words of eight bytes are combined with one of two words of the      *)
(* password's digest, by the parity of the packet's size.  The last bytes, *)
(* at most eight, stay as they are.                                        *)
(***************************************************************************)
EXTENDS Integers

WordBytes == 8
Bits == 0..8 * WordBytes - 1
Words == [Bits -> BOOLEAN]

(* A packet: its words, those that reach past the size included. *)
Packets == [size : Nat, words : [Nat -> Words]]

Xor(w, v) == [b \in Bits |-> w[b] # v[b]]

(* hp and lp, the digest's halves. *)
Pass(digest, size) == IF size % 2 = 1 THEN digest.hp ELSE digest.lp

Filtered(i, size) == WordBytes * i + WordBytes < size

Filter(digest, packet) ==
  [packet EXCEPT !.words =
     [i \in Nat |-> IF Filtered(i, packet.size)
                    THEN Xor(packet.words[i], Pass(digest, packet.size))
                    ELSE packet.words[i]]]
=============================================================================
