------------------------- MODULE MCHttpFileManager --------------------------
(* Instances of HttpFileManager for TLC. *)
EXTENDS HttpFileManager, TLC

CONSTANTS s1, s2

Symmetry == Permutations(Sessions) \cup Permutations(Addrs)

(* Names: "www", "index", and one that is the code of "A".               *)
Www   == <<119, 119, 119>>
Index == <<105, 110, 100, 101, 120>>
P41   == <<37, 52, 49>>

(* The root with its menu, and in it a directory with an index file, whose *)
(* name needs coding.  The menu is asked for, and the index by its link.   *)
Tree  == (<<>> :> "menu") @@ (<<P41>> :> "index") @@ (<<P41, Index>> :> "file")
Leaf  == {<<P41, Index>>}
MCUrls == {<<Slash>>}
=============================================================================
