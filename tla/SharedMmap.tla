----------------------------- MODULE SharedMmap -----------------------------
(***************************************************************************)
(* getSharedMmap: bodies of the same file share one mapping, through a     *)
(* table with a weak pointer to it.  The table has a lock, the opening and *)
(* the closing of a file happen outside it: two threads may map one file   *)
(* at once, and the deleter unmaps first and clears the table later, when  *)
(* the kernel may have given the address to somebody else.                 *)
(***************************************************************************)
CONSTANTS
  Users,     \* bodies, each in a thread of its own
  Files,
  Addrs,     \* addresses mmap may choose
  Blocks,    \* control blocks of shared pointers
  None

ASSUME NoneAssumption == None \notin Files \cup Addrs \cup Blocks

VARIABLES
  s_shared_mmap,  \* of each file None or its record: ptr and the weak block
  memory,         \* what file an address maps, or None
  block,          \* of each control block: ptr and who shares it
  at,             \* where a body is: none, open, register, using, unmap, del
  file,           \* the file it wants
  mine            \* its shared pointer's block

mmapVars == <<s_shared_mmap, memory, block, at, file, mine>>

MmapInit ==
  /\ s_shared_mmap = [f \in Files |-> None]
  /\ memory = [a \in Addrs |-> None]
  /\ block = [b \in Blocks |-> [ptr |-> None, users |-> {}]]
  /\ at = [u \in Users |-> "none"]
  /\ file = [u \in Users |-> None]
  /\ mine = [u \in Users |-> None]

(* Mutant: the weak pointer is taken for granted. *)
Hit_Expired(f) == s_shared_mmap[f] # None

(* lock() succeeds while somebody shares the mapping. *)
Hit(f) == s_shared_mmap[f] # None /\ block[s_shared_mmap[f].weak].users # {}

(* The body asks for the file and finds it mapped. *)
Share(u, f) ==
  /\ at[u] = "none" /\ Hit(f)
  /\ block' = [block EXCEPT ![s_shared_mmap[f].weak].users = @ \cup {u}]
  /\ at' = [at EXCEPT ![u] = "using"]
  /\ file' = [file EXCEPT ![u] = f]
  /\ mine' = [mine EXCEPT ![u] = s_shared_mmap[f].weak]
  /\ UNCHANGED <<s_shared_mmap, memory>>

Miss(u, f) ==
  /\ at[u] = "none" /\ ~Hit(f)
  /\ at' = [at EXCEPT ![u] = "open"]
  /\ file' = [file EXCEPT ![u] = f]
  /\ UNCHANGED <<s_shared_mmap, memory, block, mine>>

(* The file is gone, or mmap fails. *)
MapFails(u) ==
  /\ at[u] = "open"
  /\ at' = [at EXCEPT ![u] = "none"]
  /\ file' = [file EXCEPT ![u] = None]
  /\ UNCHANGED <<s_shared_mmap, memory, block, mine>>

(* A control block nobody shares, is destroying or weakly refers to. *)
FreeBlock(b) ==
  /\ block[b].users = {}
  /\ \A u \in Users : mine[u] # b
  /\ \A f \in Files : s_shared_mmap[f] # None => s_shared_mmap[f].weak # b

Map(u, a) ==
  /\ at[u] = "open"
  /\ memory[a] = None
  /\ memory' = [memory EXCEPT ![a] = file[u]]
  /\ \E b \in Blocks : FreeBlock(b)
  /\ LET b == CHOOSE b \in Blocks : FreeBlock(b)
     IN /\ block' = [block EXCEPT ![b] = [ptr |-> a, users |-> {u}]]
        /\ mine' = [mine EXCEPT ![u] = b]
  /\ at' = [at EXCEPT ![u] = "register"]
  /\ UNCHANGED <<s_shared_mmap, file>>

(* Whatever the table says by now is overwritten. *)
Register(u) ==
  /\ at[u] = "register"
  /\ s_shared_mmap' =
       [s_shared_mmap EXCEPT ![file[u]] = [ptr |-> block[mine[u]].ptr, weak |-> mine[u]]]
  /\ at' = [at EXCEPT ![u] = "using"]
  /\ UNCHANGED <<memory, block, file, mine>>

(* The body and its buffers are gone; the last one runs the deleter. *)
Release(u) ==
  /\ at[u] = "using"
  /\ block' = [block EXCEPT ![mine[u]].users = @ \ {u}]
  /\ IF block[mine[u]].users = {u}
     THEN /\ at' = [at EXCEPT ![u] = "unmap"]
          /\ UNCHANGED <<file, mine>>
     ELSE /\ at' = [at EXCEPT ![u] = "none"]
          /\ file' = [file EXCEPT ![u] = None]
          /\ mine' = [mine EXCEPT ![u] = None]
  /\ UNCHANGED <<s_shared_mmap, memory>>

Munmap(u) ==
  /\ at[u] = "unmap"
  /\ memory' = [memory EXCEPT ![block[mine[u]].ptr] = None]
  /\ at' = [at EXCEPT ![u] = "del"]
  /\ UNCHANGED <<s_shared_mmap, block, file, mine>>

(* Mutant: only a record that can still be shared is removed. *)
Recorded_Live(f, ptr) == s_shared_mmap[f] # None /\ s_shared_mmap[f].ptr = ptr /\ Hit(f)

Recorded(f, ptr) == s_shared_mmap[f] # None /\ s_shared_mmap[f].ptr = ptr

DelSharedMmap(u) ==
  /\ at[u] = "del"
  /\ s_shared_mmap' =
       IF Recorded(file[u], block[mine[u]].ptr)
       THEN [s_shared_mmap EXCEPT ![file[u]] = None] ELSE s_shared_mmap
  /\ at' = [at EXCEPT ![u] = "none"]
  /\ file' = [file EXCEPT ![u] = None]
  /\ block' = [block EXCEPT ![mine[u]].ptr = None]
  /\ mine' = [mine EXCEPT ![u] = None]
  /\ UNCHANGED memory

MmapNext ==
  \E u \in Users :
    \/ \E f \in Files : Share(u, f) \/ Miss(u, f)
    \/ MapFails(u)
    \/ \E a \in Addrs : Map(u, a)
    \/ Register(u) \/ Release(u) \/ Munmap(u) \/ DelSharedMmap(u)

MmapSpec == MmapInit /\ [][MmapNext]_mmapVars

(***************************************************************************)
(* Properties.                                                             *)
(***************************************************************************)
(* While a body uses its mapping, the address maps the file it asked for:  *)
(* no other body's deleter has unmapped it, and no new mapping has taken   *)
(* its place (HttpBody.cpp:60-132).                                        *)
MappedWhileUsed ==
  \A u \in Users :
    at[u] \in {"register", "using"} => memory[block[mine[u]].ptr] = file[u]

(* The table does not keep the record of a mapping that is gone: unless it *)
(* is shared, somebody is on the way to remove it (HttpBody.cpp:63-69,     *)
(* 111-114).                                                               *)
NoStaleRecord ==
  \A f \in Files :
    s_shared_mmap[f] # None =>
      \/ Hit(f)
      \/ \E u \in Users :
           /\ at[u] \in {"unmap", "del"}
           /\ file[u] = f /\ block[mine[u]].ptr = s_shared_mmap[f].ptr
=============================================================================
