------------------------------ MODULE AddrPool ------------------------------
(***************************************************************************)
(* What the tunnel server's address allocator promises to its sessions: an *)
(* address of the configured range is acquired only while nobody holds it, *)
(* as long as the allocator is sound, and only its holder gives it back,   *)
(* sound or not.  TunServer implements this.                               *)
(***************************************************************************)
CONSTANTS Holders,      \* the sessions
          Addrs         \* last octets of the configured range

VARIABLES held,         \* held[h]: the addresses h has acquired and not given back
          unsound       \* the allocator has lost track of what is free

vars == <<held, unsound>>

Init ==
  /\ held = [h \in Holders |-> {}]
  /\ unsound = FALSE

Acquire(h, a) ==
  /\ unsound \/ \A g \in Holders : a \notin held[g]
  /\ held' = [held EXCEPT ![h] = @ \cup {a}]
  /\ UNCHANGED unsound

Release(h, a) ==
  /\ a \in held[h]
  /\ held' = [held EXCEPT ![h] = @ \ {a}]
  /\ UNCHANGED unsound

(* The allocator loses track; nobody's holdings change. *)
Race == unsound' = TRUE /\ UNCHANGED held

(* The server process died: all it had handed out is forgotten at once. *)
Reset ==
  /\ held' = [h \in Holders |-> {}]
  /\ unsound' = FALSE

Next ==
  \/ Reset \/ Race
  \/ \E h \in Holders, a \in Addrs : Acquire(h, a) \/ Release(h, a)

Spec == Init /\ [][Next]_vars
=============================================================================
