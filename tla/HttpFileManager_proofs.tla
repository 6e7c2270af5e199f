----------------------- MODULE HttpFileManager_proofs -----------------------
(***************************************************************************)
(* Theorems about access to files: the cookies, the permissions they carry *)
(* and the mappings of the bodies, for any number of sessions, users,      *)
(* cookies and files; and about bodies that are read in pieces.            *)
(***************************************************************************)
EXTENDS HttpFileManager, HttpBody, SequenceLemmas, FiniteSetTheorems

---------------------------------------------------------------------------
(* The mappings of files that bodies share.                                *)

Places == {"none", "open", "register", "using", "unmap", "del"}

MmapTypes ==
  /\ s_shared_mmap \in [Files -> [ptr : Addrs \cup {None}, weak : Blocks] \cup {None}]
  /\ memory \in [Addrs -> Files \cup {None}]
  /\ block \in [Blocks -> [ptr : Addrs \cup {None}, users : SUBSET Users]]
  /\ at \in [Users -> Places]
  /\ file \in [Users -> Files \cup {None}]
  /\ mine \in [Users -> Blocks \cup {None}]

(* A body has a block and a file exactly while it uses one or ends one. *)
OwnBlock ==
  \A u \in Users :
    /\ at[u] \in {"none", "open"} <=> mine[u] = None
    /\ at[u] # "none" => file[u] \in Files

(* The users of a block are those who have it and are not destroying it. *)
CountedUsers ==
  \A u \in Users : \A b \in Blocks :
    u \in block[b].users <=> mine[u] = b /\ at[u] \in {"register", "using"}

(* The last user destroys the block alone. *)
LastAlone ==
  \A u, v \in Users : at[u] \in {"unmap", "del"} /\ mine[v] = mine[u] => u = v

(* A block is of one file: all who have it wanted that, and a record that  *)
(* refers to it is that file's.                                            *)
OneFile ==
  /\ \A u, v \in Users : mine[u] = mine[v] /\ mine[u] # None => file[u] = file[v]
  /\ \A f \in Files : \A u \in Users :
       s_shared_mmap[f] # None /\ mine[u] = s_shared_mmap[f].weak => file[u] = f

(* What is not yet unmapped maps its body's file, at an address of its own.*)
StillMapped ==
  \A u \in Users :
    at[u] \in {"register", "using", "unmap"} =>
      /\ block[mine[u]].ptr \in Addrs
      /\ memory[block[mine[u]].ptr] = file[u]

OwnAddress ==
  \A u, v \in Users :
    at[u] \in {"register", "using", "unmap"} /\ at[v] \in {"register", "using", "unmap"} =>
      (block[mine[u]].ptr = block[mine[v]].ptr => mine[u] = mine[v])

MmapInv ==
  /\ MmapTypes /\ OwnBlock /\ CountedUsers /\ LastAlone
  /\ OneFile /\ StillMapped /\ OwnAddress

LEMMA MmapStart == MmapInit => MmapInv
  BY NoneAssumption
  DEF MmapInit, MmapInv, MmapTypes, Places, OwnBlock, CountedUsers, LastAlone,
      OneFile, StillMapped, OwnAddress

LEMMA MmapStep == MmapInv /\ [MmapNext]_mmapVars => MmapInv'
<1> SUFFICES ASSUME MmapInv, [MmapNext]_mmapVars
             PROVE  MmapInv'
  OBVIOUS
<1> USE NoneAssumption DEF MmapInv, MmapTypes, Places, OwnBlock, CountedUsers, LastAlone,
            OneFile, StillMapped, OwnAddress
<1>1. ASSUME NEW u \in Users, NEW f \in Files, Share(u, f)
      PROVE  MmapInv'
  BY <1>1, SMTT(40) DEF Share, Hit
<1>2. ASSUME NEW u \in Users, NEW f \in Files, Miss(u, f)
      PROVE  MmapInv'
  BY <1>2 DEF Miss
<1>3. ASSUME NEW u \in Users, MapFails(u)
      PROVE  MmapInv'
  BY <1>3 DEF MapFails
<1>4. ASSUME NEW u \in Users, NEW a \in Addrs, Map(u, a)
      PROVE  MmapInv'
  <2> DEFINE b == CHOOSE b \in Blocks : FreeBlock(b)
  <2>1. b \in Blocks /\ FreeBlock(b)
    BY <1>4 DEF Map
  <2>2. /\ at[u] = "open" /\ memory[a] = None
        /\ memory' = [memory EXCEPT ![a] = file[u]]
        /\ block' = [block EXCEPT ![b] = [ptr |-> a, users |-> {u}]]
        /\ mine' = [mine EXCEPT ![u] = b]
        /\ at' = [at EXCEPT ![u] = "register"]
        /\ UNCHANGED <<s_shared_mmap, file>>
    BY <1>4 DEF Map
  <2> HIDE DEF b
  <2>3. /\ block[b].users = {}
        /\ \A v \in Users : mine[v] # b
        /\ \A f \in Files : s_shared_mmap[f] # None => s_shared_mmap[f].weak # b
    BY <2>1 DEF FreeBlock
  <2>4. (MmapTypes /\ OwnBlock /\ CountedUsers)'
    BY <2>1, <2>2, <2>3
  <2>5. (LastAlone /\ OneFile)'
    BY <2>1, <2>2, <2>3
  <2>6. (StillMapped /\ OwnAddress)'
    BY <2>1, <2>2, <2>3
  <2> QED
    BY <2>4, <2>5, <2>6
<1>5. ASSUME NEW u \in Users, Register(u)
      PROVE  MmapInv'
  BY <1>5 DEF Register
<1>6. ASSUME NEW u \in Users, Release(u)
      PROVE  MmapInv'
  <2>1. mine[u] \in Blocks
    BY <1>6 DEF Release
  <2>2. block' = [block EXCEPT ![mine[u]].users = @ \ {u}]
    BY <1>6 DEF Release
  <2>3. \A b \in Blocks :
          /\ block'[b] \in [ptr : Addrs \cup {None}, users : SUBSET Users]
          /\ block'[b].ptr = block[b].ptr
    <3>1. ASSUME NEW b \in Blocks
          PROVE  block[b] \in [ptr : Addrs \cup {None}, users : SUBSET Users]
      OBVIOUS
    <3> QED
      BY <2>1, <2>2, <3>1
  <2>4. MmapTypes'
    <3>1. block' \in [Blocks -> [ptr : Addrs \cup {None}, users : SUBSET Users]]
      BY <2>2, <2>3
    <3>2. s_shared_mmap' = s_shared_mmap
      BY <1>6 DEF Release
    <3>3. at' \in [Users -> Places] /\ memory' \in [Addrs -> Files \cup {None}]
      BY <1>6 DEF Release
    <3>4. /\ file' = file \/ file' = [file EXCEPT ![u] = None]
          /\ mine' = mine \/ mine' = [mine EXCEPT ![u] = None]
      BY <1>6 DEF Release
    <3>5. file' \in [Users -> Files \cup {None}]
      BY <3>4
    <3>6. mine' \in [Users -> Blocks \cup {None}]
      BY <3>4
    <3> QED
      BY <3>1, <3>2, <3>3, <3>5, <3>6
  <2>5. (OwnBlock /\ CountedUsers)'
    BY <1>6 DEF Release
  <2>6. LastAlone'
    BY <1>6 DEF Release
  <2>7. OneFile'
    <3>1. \A v \in Users : v # u => mine'[v] = mine[v] /\ file'[v] = file[v]
      BY <1>6 DEF Release
    <3>2. (mine'[u] = mine[u] /\ file'[u] = file[u]) \/ mine'[u] = None
      BY <1>6 DEF Release
    <3>3. s_shared_mmap' = s_shared_mmap
          /\ \A f \in Files : s_shared_mmap[f] # None => s_shared_mmap[f].weak \in Blocks
      BY <1>6 DEF Release
    <3> QED
      BY <3>1, <3>2, <3>3
  <2>8. (StillMapped /\ OwnAddress)'
    BY <1>6, <2>1, <2>3 DEF Release
  <2> QED
    BY <2>4, <2>5, <2>6, <2>7, <2>8
<1>7. ASSUME NEW u \in Users, Munmap(u)
      PROVE  MmapInv'
  BY <1>7 DEF Munmap
<1>8. ASSUME NEW u \in Users, DelSharedMmap(u)
      PROVE  MmapInv'
  <2>1. /\ at[u] = "del" /\ mine[u] \in Blocks /\ file[u] \in Files
        /\ at' = [at EXCEPT ![u] = "none"] /\ file' = [file EXCEPT ![u] = None]
        /\ mine' = [mine EXCEPT ![u] = None] /\ memory' = memory
        /\ block' = [block EXCEPT ![mine[u]].ptr = None]
    BY <1>8 DEF DelSharedMmap
  <2>2. \A f \in Files : s_shared_mmap'[f] = s_shared_mmap[f] \/ s_shared_mmap'[f] = None
    BY <1>8 DEF DelSharedMmap
  <2>3. MmapTypes'
    <3>1. s_shared_mmap' \in [Files -> [ptr : Addrs \cup {None}, weak : Blocks] \cup {None}]
      BY <1>8 DEF DelSharedMmap
    <3>2. block' \in [Blocks -> [ptr : Addrs \cup {None}, users : SUBSET Users]]
      BY <2>1
    <3>3. /\ at' \in [Users -> Places] /\ file' \in [Users -> Files \cup {None}]
          /\ mine' \in [Users -> Blocks \cup {None}] /\ memory' \in [Addrs -> Files \cup {None}]
      BY <2>1
    <3> QED
      BY <3>1, <3>2, <3>3
  <2>4. \A b \in Blocks : block'[b].users = block[b].users
    BY <2>1
  <2>5. (OwnBlock /\ CountedUsers)'
    BY <2>1, <2>4
  <2>6. (LastAlone /\ OneFile)'
    BY <2>1, <2>2
  <2>7. (StillMapped /\ OwnAddress)'
    BY <2>1
  <2> QED
    BY <2>3, <2>5, <2>6, <2>7
<1>9. CASE UNCHANGED mmapVars
  BY <1>9 DEF mmapVars
<1> QED
  BY <1>1, <1>2, <1>3, <1>4, <1>5, <1>6, <1>7, <1>8, <1>9 DEF MmapNext

(* While a body uses its mapping, the address maps the file it asked for,  *)
(* for any number of bodies, files and addresses (HttpBody.cpp:60-132).    *)
THEOREM UsedIsMapped == MmapSpec => []MappedWhileUsed
<1>1. MmapInv => MappedWhileUsed
  BY DEF MmapInv, StillMapped, MappedWhileUsed
<1> QED
  BY <1>1, MmapStart, MmapStep, PTL DEF MmapSpec

(* A record tells its block's address, and somebody has that block.        *)
RecordHeld ==
  \A f \in Files :
    s_shared_mmap[f] # None =>
      /\ block[s_shared_mmap[f].weak].ptr = s_shared_mmap[f].ptr
      /\ \E u \in Users : mine[u] = s_shared_mmap[f].weak

LEMMA RecordStart == MmapInit => RecordHeld
  BY DEF MmapInit, RecordHeld

LEMMA RecordStep == MmapInv /\ RecordHeld /\ [MmapNext]_mmapVars => RecordHeld'
<1> SUFFICES ASSUME MmapInv, RecordHeld, [MmapNext]_mmapVars
             PROVE  RecordHeld'
  OBVIOUS
<1> USE NoneAssumption DEF MmapInv, MmapTypes, RecordHeld, OwnBlock
<1>1. ASSUME NEW u \in Users, NEW f \in Files, Share(u, f)
      PROVE  RecordHeld'
  BY <1>1 DEF Share, Hit
<1>2. ASSUME NEW u \in Users, NEW f \in Files, Miss(u, f)
      PROVE  RecordHeld'
  BY <1>2 DEF Miss
<1>3. ASSUME NEW u \in Users, MapFails(u)
      PROVE  RecordHeld'
  BY <1>3 DEF MapFails
<1>4. ASSUME NEW u \in Users, NEW a \in Addrs, Map(u, a)
      PROVE  RecordHeld'
  <2> DEFINE b == CHOOSE b \in Blocks : FreeBlock(b)
  <2>1. b \in Blocks /\ FreeBlock(b)
    BY <1>4 DEF Map
  <2>2. /\ at[u] = "open"
        /\ block' = [block EXCEPT ![b] = [ptr |-> a, users |-> {u}]]
        /\ mine' = [mine EXCEPT ![u] = b]
        /\ s_shared_mmap' = s_shared_mmap
    BY <1>4 DEF Map
  <2> HIDE DEF b
  <2> QED
    BY <2>1, <2>2 DEF FreeBlock
<1>5. ASSUME NEW u \in Users, Register(u)
      PROVE  RecordHeld'
  BY <1>5 DEF Register
<1>6. ASSUME NEW u \in Users, Release(u)
      PROVE  RecordHeld'
  <2>1. mine[u] \in Blocks /\ s_shared_mmap' = s_shared_mmap
    BY <1>6 DEF Release
  <2>2. \A b \in Blocks : block'[b].ptr = block[b].ptr
    BY <1>6, <2>1 DEF Release
  <2>3. ASSUME NEW v \in Users
        PROVE  \E w \in Users : mine'[w] = mine[v] \/ mine[v] = None
    <3>1. CASE v # u
      BY <1>6, <3>1 DEF Release
    <3>2. CASE v = u /\ block[mine[u]].users = {u}
      BY <1>6, <3>2 DEF Release
    <3>3. CASE v = u /\ block[mine[u]].users # {u}
      <4>1. u \in block[mine[u]].users
        BY <1>6, <2>1 DEF Release, CountedUsers
      <4>2. block[mine[u]].users \in SUBSET Users
        BY <2>1
      <4>3. PICK w \in Users : w # u /\ w \in block[mine[u]].users
        BY <3>3, <4>1, <4>2
      <4> QED
        BY <1>6, <2>1, <3>3, <4>3 DEF Release, CountedUsers
    <3> QED
      BY <3>1, <3>2, <3>3
  <2> QED
    BY <2>1, <2>2, <2>3
<1>7. ASSUME NEW u \in Users, Munmap(u)
      PROVE  RecordHeld'
  BY <1>7 DEF Munmap
<1>8. ASSUME NEW u \in Users, DelSharedMmap(u)
      PROVE  RecordHeld'
  <2>1. ASSUME NEW f \in Files, s_shared_mmap'[f] # None
        PROVE  /\ s_shared_mmap'[f] = s_shared_mmap[f]
               /\ s_shared_mmap[f].weak # mine[u]
    BY <1>8, <2>1 DEF DelSharedMmap, Recorded, OneFile
  <2>2. mine[u] \in Blocks
        /\ \A b \in Blocks : b # mine[u] => block'[b].ptr = block[b].ptr
    BY <1>8 DEF DelSharedMmap
  <2> QED
    BY <1>8, <2>1, <2>2 DEF DelSharedMmap
<1>9. CASE UNCHANGED mmapVars
  BY <1>9 DEF mmapVars
<1> QED
  BY <1>1, <1>2, <1>3, <1>4, <1>5, <1>6, <1>7, <1>8, <1>9 DEF MmapNext

(* The table never keeps the record of a mapping that is gone, unless      *)
(* somebody is on the way to remove it (HttpBody.cpp:63-69, 111-114).      *)
THEOREM RecordsRemoved == MmapSpec => []NoStaleRecord
<1>1. MmapInv /\ RecordHeld => NoStaleRecord
  <2> SUFFICES ASSUME MmapInv, RecordHeld, NEW f \in Files, s_shared_mmap[f] # None, ~Hit(f)
               PROVE  \E u \in Users :
                        /\ at[u] \in {"unmap", "del"}
                        /\ file[u] = f /\ block[mine[u]].ptr = s_shared_mmap[f].ptr
    BY DEF NoStaleRecord
  <2>1. s_shared_mmap[f].weak \in Blocks
    BY DEF MmapInv, MmapTypes
  <2>2. PICK u \in Users : mine[u] = s_shared_mmap[f].weak
    BY DEF RecordHeld
  <2>3. at[u] \notin {"register", "using"}
    BY <2>1, <2>2 DEF Hit, MmapInv, CountedUsers
  <2>4. at[u] \in {"unmap", "del"}
    BY <2>1, <2>2, <2>3, NoneAssumption DEF MmapInv, MmapTypes, Places, OwnBlock
  <2> QED
    BY <2>2, <2>4 DEF MmapInv, OneFile, RecordHeld
<1> QED
  BY <1>1, MmapStart, MmapStep, RecordStart, RecordStep, PTL DEF MmapSpec

---------------------------------------------------------------------------
(* Cookies. *)

CookieTypes ==
  /\ \E S : attach \in Seq(S)
  /\ _map_cookie \subseteq Issued
  /\ held \in [Holders -> SUBSET Issued]
  /\ now \in Nat
  /\ \A e \in _map_uid_to_cookie : e.at \in Nat
  /\ IsFiniteSet(_map_uid_to_cookie)

(* An entry of the index is of the user its cookie was made for.           *)
IndexOwner ==
  \A e \in _map_uid_to_cookie : e.cookie \in Issued /\ e.uid = attach[e.cookie].uid

(* A valid cookie of a user whose limit is promised is in the index.       *)
ValidOf(u) == {c \in _map_cookie : attach[c].uid = u}

IndexComplete ==
  \A u \in Uids \ excused : \A c \in ValidOf(u) :
    \E e \in CookiesOf(u) : e.cookie = c

CookieInv == CookieTypes /\ IndexOwner /\ NoLeak /\ IndexComplete /\ ClientLimit

(* A user has at most as many valid cookies as entries in the index.       *)
LEMMA ValidCounted ==
  ASSUME CookieTypes, IndexComplete, NEW u \in Uids \ excused
  PROVE  /\ IsFiniteSet(ValidOf(u)) /\ IsFiniteSet(CookiesOf(u))
         /\ Cardinality(CookiesOf(u)) \in Nat
         /\ Cardinality(ValidOf(u)) \in Nat
         /\ Cardinality(ValidOf(u)) <= Cardinality(CookiesOf(u))
<1> DEFINE T == {e.cookie : e \in CookiesOf(u)}
<1> DEFINE f == [e \in CookiesOf(u) |-> e.cookie]
<1>1. IsFiniteSet(CookiesOf(u))
  BY FS_Subset DEF CookieTypes, CookiesOf
<1>2. f \in Surjection(CookiesOf(u), T)
  BY DEF Surjection
<1>3. IsFiniteSet(T) /\ Cardinality(T) <= Cardinality(CookiesOf(u))
  BY <1>1, <1>2, FS_Surjection
<1>4. ValidOf(u) \subseteq T
  BY DEF IndexComplete, ValidOf
<1>5. IsFiniteSet(ValidOf(u)) /\ Cardinality(ValidOf(u)) <= Cardinality(T)
  BY <1>3, <1>4, FS_Subset
<1>6. /\ Cardinality(CookiesOf(u)) \in Nat /\ Cardinality(T) \in Nat
      /\ Cardinality(ValidOf(u)) \in Nat
  BY <1>1, <1>3, <1>5, FS_CardinalityType
<1> QED
  BY <1>1, <1>3, <1>5, <1>6

LEMMA CookieStart == CookieInit => CookieInv
<1> SUFFICES ASSUME CookieInit PROVE CookieInv
  OBVIOUS
<1>1. attach = <<>> /\ Issued = {} /\ _map_cookie = {} /\ _map_uid_to_cookie = {}
  BY DEF CookieInit, Issued
<1>2. CookieTypes
  BY <1>1, EmptySeq, FS_EmptySet DEF CookieInit, CookieTypes
<1>3. NoLeak
  BY DEF CookieInit, NoLeak, Referenced
<1>4. ClientLimit
  <2>1. ASSUME NEW u PROVE {c \in _map_cookie : attach[c].uid = u} = {}
    BY <1>1
  <2> QED
    BY <2>1, FS_EmptySet, CookieAssumption DEF ClientLimit
<1> QED
  BY <1>1, <1>2, <1>3, <1>4 DEF CookieInv, IndexOwner, IndexComplete, ValidOf

(* What holds when cookies are erased from the map, and requests take      *)
(* those that are valid or let go of theirs.                               *)
LEMMA SettleKeeps ==
  ASSUME CookieInv, NEW map, NEW holds, Settle(map, holds),
         map \subseteq _map_cookie,
         holds \in [Holders -> SUBSET Issued],
         Referenced(map, holds) \subseteq Referenced(_map_cookie, held),
         UNCHANGED <<attach, now, excused>>
  PROVE  CookieInv'
<1> DEFINE gone == Referenced(_map_cookie, held) \ Referenced(map, holds)
<1>1. /\ _map_cookie' = map /\ held' = holds
      /\ _obtained' = _obtained \ gone
      /\ _map_uid_to_cookie' = {e \in _map_uid_to_cookie : e.cookie \notin gone}
  BY DEF Settle, Released, OnDelCookie
<1>2. Issued' = Issued
  BY DEF Issued
<1>3. CookieTypes'
  <2>1. IsFiniteSet(_map_uid_to_cookie')
    BY <1>1, FS_Subset DEF CookieInv, CookieTypes
  <2> QED
    BY <1>1, <1>2, <2>1 DEF CookieInv, CookieTypes
<1>4. IndexOwner'
  BY <1>1, <1>2 DEF CookieInv, IndexOwner
<1>5. NoLeak'
  <2>1. Referenced(_map_cookie, held)' = Referenced(map, holds)
    BY <1>1 DEF Referenced
  <2>2. _obtained = Referenced(_map_cookie, held)
    BY DEF CookieInv, NoLeak
  <2>3. _obtained' = Referenced(map, holds)
    BY <1>1, <2>2
  <2> QED
    BY <1>1, <2>1, <2>2, <2>3 DEF CookieInv, NoLeak
<1>6. ASSUME NEW u \in Uids \ excused
      PROVE  ValidOf(u)' \subseteq ValidOf(u)
  BY <1>1 DEF ValidOf
<1>7. IndexComplete'
  <2> SUFFICES ASSUME NEW u \in Uids \ excused, NEW c \in ValidOf(u)'
               PROVE  \E e \in CookiesOf(u)' : e.cookie = c
    BY DEF IndexComplete
  <2>1. c \in ValidOf(u) /\ c \in map
    BY <1>1, <1>6 DEF ValidOf
  <2>2. c \notin gone
    BY <2>1 DEF Referenced
  <2>3. PICK e \in CookiesOf(u) : e.cookie = c
    BY <2>1 DEF CookieInv, IndexComplete
  <2> QED
    BY <1>1, <2>2, <2>3 DEF CookiesOf
<1>8. ClientLimit'
  <2> SUFFICES ASSUME NEW u \in Uids \ excused
               PROVE  Cardinality(ValidOf(u)') <= MaxClient
    BY DEF ClientLimit, ValidOf
  <2>1. IsFiniteSet(ValidOf(u)) /\ Cardinality(ValidOf(u)) \in Nat
    BY ValidCounted DEF CookieInv
  <2>2. IsFiniteSet(ValidOf(u)') /\ Cardinality(ValidOf(u)') <= Cardinality(ValidOf(u))
    BY <1>6, <2>1, FS_Subset
  <2>3. Cardinality(ValidOf(u)') \in Nat
    BY <2>2, FS_CardinalityType
  <2> QED
    BY <2>1, <2>2, <2>3, CookieAssumption DEF CookieInv, ClientLimit, ValidOf
<1> QED
  BY <1>3, <1>4, <1>5, <1>7, <1>8 DEF CookieInv
LEMMA GetCookieKeeps ==
  ASSUME CookieInv, NEW h \in Holders, NEW cookie, NEW expired, GetCookie(h, cookie, expired)
  PROVE  CookieInv'
<1>1. CASE Found(cookie, expired)
  <2> DEFINE holds == [held EXCEPT ![h] = @ \cup {cookie}]
  <2>1. Settle(_map_cookie, holds) /\ cookie \in _map_cookie
    BY <1>1 DEF GetCookie, Found
  <2>2. held \in [Holders -> SUBSET Issued] /\ cookie \in Issued
    BY <2>1 DEF CookieInv, CookieTypes
  <2>3. /\ holds \in [Holders -> SUBSET Issued]
        /\ \A g \in Holders : holds[g] \subseteq held[g] \cup {cookie}
    BY <2>2
  <2>4. Referenced(_map_cookie, holds) \subseteq Referenced(_map_cookie, held)
    BY <2>1, <2>3 DEF Referenced
  <2> QED
    BY <2>1, <2>3, <2>4, SettleKeeps DEF GetCookie
<1>2. CASE ~Found(cookie, expired)
  <2>1. Settle(_map_cookie \ {cookie}, held)
    BY <1>2 DEF GetCookie
  <2>2. Referenced(_map_cookie \ {cookie}, held) \subseteq Referenced(_map_cookie, held)
    BY DEF Referenced
  <2>3. held \in [Holders -> SUBSET Issued]
    BY DEF CookieInv, CookieTypes
  <2> QED
    BY <2>1, <2>2, <2>3, SettleKeeps DEF GetCookie
<1> QED
  BY <1>1, <1>2

LEMMA DelCookieKeeps ==
  ASSUME CookieInv, NEW cookie, DelCookie(cookie)
  PROVE  CookieInv'
<1>1. Referenced(_map_cookie \ {cookie}, held) \subseteq Referenced(_map_cookie, held)
  BY DEF Referenced
<1>2. held \in [Holders -> SUBSET Issued]
  BY DEF CookieInv, CookieTypes
<1> QED
  BY <1>1, <1>2, SettleKeeps DEF DelCookie

LEMMA LetGoKeeps ==
  ASSUME CookieInv, NEW h \in Holders, LetGo(h)
  PROVE  CookieInv'
<1> DEFINE holds == [held EXCEPT ![h] = {}]
<1>1. held \in [Holders -> SUBSET Issued]
  BY DEF CookieInv, CookieTypes
<1>2. /\ holds \in [Holders -> SUBSET Issued]
      /\ \A g \in Holders : holds[g] \subseteq held[g]
  BY <1>1
<1>3. Referenced(_map_cookie, holds) \subseteq Referenced(_map_cookie, held)
  BY <1>2 DEF Referenced
<1> QED
  BY <1>2, <1>3, SettleKeeps DEF LetGo

LEMMA OnManagerKeeps ==
  ASSUME CookieInv, OnManager
  PROVE  CookieInv'
<1>1. PICK expired \in SUBSET _map_cookie : Settle(_map_cookie \ expired, held)
  BY DEF OnManager
<1> DEFINE rest == _map_cookie \ expired
<1>2. Referenced(rest, held) \subseteq Referenced(_map_cookie, held)
  BY DEF Referenced
<1>3. held \in [Holders -> SUBSET Issued]
  BY DEF CookieInv, CookieTypes
<1>4. Settle(rest, held) /\ rest \subseteq _map_cookie /\ UNCHANGED <<attach, now, excused>>
  BY <1>1 DEF OnManager
<1> HIDE DEF rest
<1> QED
  BY <1>2, <1>3, <1>4, SettleKeeps

(* The cookie that makes room is the oldest of the user's index.           *)
LEMMA OldestInIndex ==
  ASSUME CookieTypes, NEW user, NEW max \in Nat \ {0},
         Cardinality(CookiesOf(user)) >= max
  PROVE  \E e \in CookiesOf(user) : GetOldestCookie(user, max) = e.cookie
<1> DEFINE times == {e.at : e \in CookiesOf(user)}
<1> DEFINE less == {ss \in Nat \X Nat : ss[1] < ss[2]}
<1>1. IsFiniteSet(CookiesOf(user)) /\ Cardinality(CookiesOf(user)) \in Nat
  BY FS_Subset, FS_CardinalityType DEF CookieTypes, CookiesOf
<1>2. CookiesOf(user) # {}
  BY <1>1, FS_EmptySet
<1>3. times # {} /\ times \subseteq Nat
  BY <1>2 DEF CookieTypes, CookiesOf
<1>4. PICK t \in times : \A s \in times : ~(<<s, t>> \in less)
  <2>1. IsWellFoundedOn(less, Nat)
    BY NatLessThanWellFounded DEF OpToRel
  <2> HIDE DEF times, less
  <2> QED
    BY <1>3, <2>1, WFMin
<1>5. \A s \in times : t <= s
  <2>1. \A a, b \in Nat : a < b => <<a, b>> \in less
    OBVIOUS
  <2> HIDE DEF times, less
  <2>2. ASSUME NEW s \in times PROVE s \in Nat /\ t \in Nat /\ ~(s < t)
    BY <1>3, <1>4, <2>1
  <2> QED
    BY <2>2
<1>6. \E e \in CookiesOf(user) : \A f \in CookiesOf(user) : e.at <= f.at
  BY <1>5
<1>7. (CHOOSE e \in CookiesOf(user) : \A f \in CookiesOf(user) : e.at <= f.at) \in CookiesOf(user)
  BY <1>6
<1>8. ~(Cardinality(CookiesOf(user)) < max)
  BY <1>1
<1> QED
  BY <1>7, <1>8 DEF GetOldestCookie
LEMMA AddCookieKeeps ==
  ASSUME CookieInv, NEW h \in Holders, NEW uid, NEW path,
         NEW err, NEW later \in BOOLEAN, AddCookie(h, uid, path, err, later)
  PROVE  CookieInv'
<1> DEFINE cookie == Len(attach) + 1
           user   == IF uid = NoUid THEN cookie ELSE uid
           old    == GetOldestCookie(user, MaxClient)
           map    == _map_cookie \ {old}
           gone   == Referenced(_map_cookie, held) \ Referenced(map, held)
           time   == IF later /\ attach # <<>> THEN now + 1 ELSE now
           rec    == [uid |-> user, _path |-> path, _err_msg |-> err]
           new    == [uid |-> user, at |-> time, cookie |-> cookie]
           kept   == {e \in _map_uid_to_cookie : e.cookie \notin gone}
<1>1. /\ attach' = Append(attach, rec)
      /\ _map_cookie' = map \cup {cookie}
      /\ held' = [held EXCEPT ![h] = @ \cup {cookie}]
      /\ _obtained' = (_obtained \ gone) \cup {cookie}
      /\ _map_uid_to_cookie' = (kept \ Same(user, time)) \cup {new}
      /\ excused' = IF old \in Issued \ _map_cookie \/ \E e \in Same(user, time) : e.cookie \in map
                    THEN excused \cup {user} ELSE excused
      /\ now' = time
  BY DEF AddCookie, DelOldest, Obtain, Released, OnAddCookie, OnDelCookie
<1>2. /\ Issued = 1..Len(attach) /\ Len(attach) \in Nat
      /\ Issued' = Issued \cup {cookie} /\ cookie \notin Issued /\ cookie \in Nat
      /\ \A c \in Issued : attach'[c] = attach[c]
      /\ attach'[cookie] = rec /\ (\E S : attach' \in Seq(S))
  <2>1. PICK S : attach \in Seq(S)
    BY DEF CookieInv, CookieTypes
  <2>2. attach \in Seq(S \cup {rec})
    BY <2>1, SeqMonotonic
  <2> HIDE DEF rec
  <2>3. /\ attach' \in Seq(S \cup {rec}) /\ Len(attach') = Len(attach) + 1
        /\ \A i \in 1..Len(attach) : attach'[i] = attach[i]
        /\ attach'[Len(attach) + 1] = rec
    BY <1>1, <2>2, AppendProperties
  <2>4. /\ Issued = 1..Len(attach) /\ Len(attach) \in Nat /\ Issued' = 1..Len(attach')
    BY <2>2, <2>3, LenProperties DEF Issued
  <2> QED
    BY <2>3, <2>4
<1>3. time \in Nat
  BY DEF CookieInv, CookieTypes
<1>4. kept \subseteq _map_uid_to_cookie
  OBVIOUS
<1> HIDE DEF cookie, user, old, map, gone, time, rec, new, kept
<1>5. CookieTypes'
  <2>1. IsFiniteSet(_map_uid_to_cookie')
    <3>1. IsFiniteSet(kept \ Same(user, time))
      BY <1>4, FS_Subset DEF CookieInv, CookieTypes
    <3> QED
      BY <1>1, <3>1, FS_AddElement
  <2>2. held' \in [Holders -> SUBSET Issued']
    BY <1>1, <1>2 DEF CookieInv, CookieTypes
  <2>3. _map_cookie' \subseteq Issued'
    BY <1>1, <1>2 DEF CookieInv, CookieTypes, map
  <2>4. \A e \in _map_uid_to_cookie' : e.at \in Nat
    BY <1>1, <1>3, <1>4 DEF CookieInv, CookieTypes, new
  <2> QED
    BY <1>1, <1>2, <1>3, <2>1, <2>2, <2>3, <2>4 DEF CookieTypes
<1>6. IndexOwner'
  <2>1. new.cookie = cookie /\ new.uid = user /\ attach'[cookie].uid = user
    BY <1>2 DEF new, rec
  <2>2. ASSUME NEW e \in kept
        PROVE  e.cookie \in Issued' /\ e.uid = attach'[e.cookie].uid
    BY <1>2, <1>4 DEF CookieInv, IndexOwner
  <2> QED
    BY <1>1, <1>2, <2>1, <2>2 DEF IndexOwner
<1>7. NoLeak'
  <2>1. held \in [Holders -> SUBSET Issued]
    BY DEF CookieInv, CookieTypes
  <2>2. Referenced(_map_cookie, held)' = Referenced(map, held) \cup {cookie}
    BY <1>1, <2>1 DEF Referenced
  <2>3. Referenced(map, held) \subseteq Referenced(_map_cookie, held)
    BY DEF Referenced, map
  <2>4. _obtained = Referenced(_map_cookie, held)
    BY DEF CookieInv, NoLeak
  <2>5. _obtained' = Referenced(map, held) \cup {cookie}
    BY <1>1, <2>3, <2>4 DEF gone
  <2>6. \A e \in _map_uid_to_cookie' : e.cookie \in _obtained'
    BY <1>1 DEF CookieInv, NoLeak, kept, new
  <2> QED
    BY <2>2, <2>5, <2>6 DEF NoLeak
<1>8. /\ \A u \in Uids \ excused' : u \notin excused
      /\ user \notin excused' => /\ old \notin Issued \ _map_cookie
                                /\ \A e \in Same(user, time) : e.cookie \notin map
  BY <1>1
<1>9. \A c \in map : c \notin gone /\ c \in Issued
  BY DEF map, gone, Referenced, CookieInv, CookieTypes
<1>10. ASSUME NEW u PROVE ValidOf(u)' = {c \in map : attach[c].uid = u} \cup {c \in {cookie} : user = u}
  <2>1. \A c \in map : attach'[c].uid = attach[c].uid
    BY <1>2, <1>9
  <2>2. attach'[cookie].uid = user
    BY <1>2 DEF rec
  <2> QED
    BY <1>1, <2>1, <2>2 DEF ValidOf
<1>11. IndexComplete'
  <2> SUFFICES ASSUME NEW u \in Uids \ excused', NEW c \in ValidOf(u)'
               PROVE  \E e \in CookiesOf(u)' : e.cookie = c
    BY DEF IndexComplete
  <2>1. CASE c = cookie
    <3>1. user = u
      BY <1>2, <1>9, <1>10, <2>1
    <3>2. new.uid = u /\ new.cookie = c
      BY <2>1, <3>1 DEF new
    <3> QED
      BY <1>1, <3>2 DEF CookiesOf
  <2>2. CASE c # cookie
    <3>1. c \in map /\ c \in ValidOf(u)
      BY <1>10, <2>2 DEF ValidOf, map
    <3>2. PICK e \in CookiesOf(u) : e.cookie = c
      BY <1>8, <3>1 DEF CookieInv, IndexComplete
    <3>3. e \in kept
      BY <1>9, <3>1, <3>2 DEF kept, CookiesOf
    <3>4. e \notin Same(user, time)
      BY <1>8, <3>1, <3>2 DEF Same, CookiesOf
    <3> QED
      BY <1>1, <3>2, <3>3, <3>4 DEF CookiesOf
  <2> QED
    BY <2>1, <2>2
<1>12. ClientLimit'
  <2> SUFFICES ASSUME NEW u \in Uids \ excused'
               PROVE  Cardinality(ValidOf(u)') <= MaxClient
    BY DEF ClientLimit, ValidOf
  <2> DEFINE rest == {c \in map : attach[c].uid = u}
  <2>1. /\ IsFiniteSet(ValidOf(u)) /\ IsFiniteSet(CookiesOf(u))
        /\ Cardinality(CookiesOf(u)) \in Nat /\ Cardinality(ValidOf(u)) \in Nat
        /\ Cardinality(ValidOf(u)) <= Cardinality(CookiesOf(u))
    BY <1>8, ValidCounted DEF CookieInv
  <2>2. Cardinality(ValidOf(u)) <= MaxClient /\ MaxClient \in Nat \ {0}
    BY <1>8, CookieAssumption DEF CookieInv, ClientLimit, ValidOf
  <2>3. rest \subseteq ValidOf(u)
    BY DEF ValidOf, map
  <2>4. IsFiniteSet(rest) /\ Cardinality(rest) \in Nat /\ Cardinality(rest) <= Cardinality(ValidOf(u))
    BY <2>1, <2>3, FS_Subset, FS_CardinalityType
  <2>5. CASE u # user
    <3>1. ValidOf(u)' = rest
      BY <1>10, <2>5
    <3> QED
      BY <2>1, <2>2, <2>4, <3>1
  <2>6. CASE u = user
    <3>1. ValidOf(u)' = rest \cup {cookie}
      BY <1>10, <2>6
    <3>2. /\ Cardinality(ValidOf(u)') \in Nat
          /\ Cardinality(ValidOf(u)') <= Cardinality(rest) + 1
      <4> HIDE DEF rest
      <4>1. /\ IsFiniteSet(rest \cup {cookie})
            /\ Cardinality(rest \cup {cookie}) =
                 IF cookie \in rest THEN Cardinality(rest) ELSE Cardinality(rest) + 1
        BY <2>4, FS_AddElement
      <4> QED
        BY <2>4, <3>1, <4>1
    <3>3. CASE Cardinality(CookiesOf(u)) < MaxClient
      BY <2>1, <2>2, <2>4, <3>2, <3>3
    <3>4. CASE ~(Cardinality(CookiesOf(u)) < MaxClient)
      <4>1. PICK e \in CookiesOf(u) : old = e.cookie
        BY <2>1, <2>2, <2>6, <3>4, OldestInIndex DEF CookieInv, old
      <4>2. old \in Issued /\ attach[old].uid = u
        BY <4>1 DEF CookieInv, IndexOwner, CookiesOf
      <4>3. old \in ValidOf(u) /\ old \notin rest
        BY <1>8, <2>6, <4>2 DEF ValidOf, map
      <4>4. rest \subseteq ValidOf(u) \ {old}
        BY <2>3, <4>3
      <4>5. /\ IsFiniteSet(ValidOf(u) \ {old})
            /\ Cardinality(ValidOf(u) \ {old}) = Cardinality(ValidOf(u)) - 1
        BY <2>1, <4>3, FS_RemoveElement
      <4>6. Cardinality(rest) <= Cardinality(ValidOf(u)) - 1
        BY <4>4, <4>5, FS_Subset
      <4> QED
        BY <2>1, <2>2, <2>4, <3>2, <4>6
    <3> QED
      BY <3>3, <3>4
  <2> QED
    BY <2>5, <2>6
<1> QED
  BY <1>5, <1>6, <1>7, <1>11, <1>12 DEF CookieInv
LEMMA CookieStutter ==
  ASSUME CookieInv, UNCHANGED cookieVars
  PROVE  CookieInv'
BY DEF cookieVars, CookieInv, CookieTypes, IndexOwner, NoLeak, Referenced, IndexComplete,
       ClientLimit, ValidOf, CookiesOf, Issued

LEMMA CookieStep == CookieInv /\ [Next]_vars => CookieInv'
<1> SUFFICES ASSUME CookieInv, [Next]_vars PROVE CookieInv'
  OBVIOUS
<1>1. ASSUME NEW s \in Sessions, NEW asks, Requests(s, asks)
      PROVE  CookieInv'
  BY <1>1, CookieStutter DEF Requests, OnAccessPath
<1>2. ASSUME NEW s \in Sessions, Handle(s) PROVE CookieInv'
  <2>1. ASSUME NEW expired, ByCookie(s, expired) \/ ByUid(s, expired)
        PROVE  CookieInv'
    BY <2>1, GetCookieKeeps DEF ByCookie, ByUid, Sessions
  <2>2. CASE Broadcast(s)
    BY <2>2, DelCookieKeeps DEF Broadcast
  <2>3. CASE Returns(s)
    BY <2>3, LetGoKeeps DEF Returns, Sessions
  <2>4. CASE AnswerText(s) \/ AnswerFile(s) \/ AnswerNobody(s)
    BY <2>4, LetGoKeeps DEF AnswerText, AnswerFile, AnswerNobody, CallbackEnds, Sessions
  <2>5. CASE OldestOfUid(s) \/ Allowed(s) \/ Refused(s)
    BY <2>5, CookieStutter DEF OldestOfUid, Allowed, Refused
  <2>6. CASE BodyShares(s) \/ BodyOpens(s) \/ BodyRegisters(s) \/ BodyMapFails(s)
    BY <2>6, CookieStutter DEF BodyShares, BodyOpens, BodyRegisters, BodyMapFails
  <2>7. ASSUME NEW a \in Addrs, BodyMaps(s, a) PROVE CookieInv'
    BY <2>7, CookieStutter DEF BodyMaps
  <2> QED
    BY <1>2, <2>1, <2>2, <2>3, <2>4, <2>5, <2>6, <2>7 DEF Handle
<1>3. ASSUME NEW s \in Sessions, Invoke(s) PROVE CookieInv'
  <2>1. ASSUME NEW err \in BOOLEAN, NEW root \in BOOLEAN, NEW later \in BOOLEAN,
               InvokeForLife(s, err, root, later)
        PROVE  CookieInv'
    <3>1. PICK scope : AddCookie(s, req[s].uid, scope, err, later)
      BY <2>1 DEF InvokeForLife
    <3> QED
      BY <3>1, AddCookieKeeps DEF Sessions
  <2>2. ASSUME NEW err \in BOOLEAN, InvokeOnce(s, err) PROVE CookieInv'
    BY <2>2, CookieStutter DEF InvokeOnce
  <2> QED
    BY <1>3, <2>1, <2>2 DEF Invoke
<1>4. ASSUME NEW s \in Sessions, BodyDropped(s) \/ Deleter(s) \/ PeerGone(s) PROVE CookieInv'
  BY <1>4, CookieStutter DEF BodyDropped, Deleter, PeerGone
<1>5. CASE CookieTimer
  BY <1>5, OnManagerKeeps DEF CookieTimer
<1>6. CASE UNCHANGED vars
  BY <1>6, CookieStutter DEF vars
<1> QED
  BY <1>1, <1>2, <1>3, <1>4, <1>5, <1>6 DEF Next
(* The generator and the index know no cookie that is gone, whoever lets   *)
(* go of one last (HttpCookieManager.cpp:32-37, 205-244).                  *)
THEOREM NothingLeaks == Spec => []NoLeak
<1>1. Init => CookieInv
  BY CookieStart DEF Init
<1>2. CookieInv => NoLeak
  BY DEF CookieInv
<1> QED
  BY <1>1, <1>2, CookieStep, PTL DEF Spec

(* A user has at most MaxClient valid cookies, the two excused cases aside,*)
(* while others come and go (HttpCookieManager.h:139-142).                 *)
THEOREM LimitKept == Spec => []ClientLimit
<1>1. Init => CookieInv
  BY CookieStart DEF Init
<1>2. CookieInv => ClientLimit
  BY DEF CookieInv
<1> QED
  BY <1>1, <1>2, CookieStep, PTL DEF Spec

---------------------------------------------------------------------------
(* Permissions. *)

(* A cookie that says this request is allowed.                             *)
Granted(s) ==
  \E c \in Issued :
    /\ ~attach[c]._err_msg /\ IsPrefix(attach[c]._path, req[s].url)
    /\ \/ c = req[s].cookie
       \/ req[s].uid # NoUid /\ attach[c].uid = req[s].uid

Permitted(s) == listening => allowed[s] \/ Granted(s)

States == {"idle", "cookie", "uid", "byuid", "decide", "asked", "waiting", "orphan",
           "callback", "nobody", "gone", "body", "silent", "sending"}

AccessTypes ==
  /\ pc \in [Sessions -> States]
  /\ DOMAIN req = Sessions /\ DOMAIN found = Sessions /\ DOMAIN out = Sessions
  /\ DOMAIN code = Sessions
  /\ allowed \in [Sessions -> BOOLEAN]

(* A cookie found for a request is the request's own or its user's.        *)
FoundOwn(s) ==
  found[s] # NoCookie =>
    /\ found[s] \in Issued
    /\ \/ found[s] = req[s].cookie
       \/ req[s].uid # NoUid /\ attach[found[s]].uid = req[s].uid
    /\ pc[s] \notin {"idle", "cookie", "uid", "body", "sending"}

(* Permission is there from the callback on, until the answer is sent.     *)
Cleared(s) ==
  \/ pc[s] = "callback" /\ ~out[s].err
  \/ pc[s] \in {"body", "silent"}
  \/ code[s] = 200

AccessAt(s) ==
  /\ FoundOwn(s)
  /\ Cleared(s) => Permitted(s)
  /\ code[s] # 0 => pc[s] = "sending"
  /\ pc[s] = "uid" => req[s].uid # NoUid
  /\ pc[s] = "body" => req[s].file.names \in Files

AccessInv == AccessTypes /\ \A s \in Sessions : AccessAt(s)

LEMMA AccessStart == Init => AccessInv
BY DEF Init, AccessInv, AccessTypes, AccessAt, FoundOwn, Cleared, States, NoCookie

(* Cookies are added, never changed.                                       *)
LEMMA AttachGrows ==
  ASSUME CookieInv, [Next]_vars
  PROVE  Issued \subseteq Issued' /\ \A c \in Issued : attach'[c] = attach[c]
<1>1. CASE UNCHANGED attach
  BY <1>1 DEF Issued
<1>2. ASSUME NEW x, attach' = Append(attach, x)
      PROVE  Issued \subseteq Issued' /\ \A c \in Issued : attach'[c] = attach[c]
  <2>1. PICK S : attach \in Seq(S)
    BY DEF CookieInv, CookieTypes
  <2>2. attach \in Seq(S \cup {x})
    BY <2>1, SeqMonotonic
  <2>3. /\ attach' \in Seq(S \cup {x}) /\ Len(attach') = Len(attach) + 1
        /\ \A i \in 1..Len(attach) : attach'[i] = attach[i]
    BY <1>2, <2>2, AppendProperties
  <2>4. /\ Issued = 1..Len(attach) /\ Len(attach) \in Nat /\ Issued' = 1..Len(attach')
    BY <2>2, <2>3, LenProperties DEF Issued
  <2> QED
    BY <2>3, <2>4
<1>3. ASSUME NEW s \in Sessions, Invoke(s)
      PROVE  (\E x : attach' = Append(attach, x)) \/ UNCHANGED attach
  BY <1>3 DEF Invoke, InvokeForLife, InvokeOnce, AddCookie, cookieVars
<1>4. ASSUME NEW s \in Sessions, Handle(s)
      PROVE  UNCHANGED attach
  BY <1>4 DEF Handle, ByCookie, ByUid, GetCookie, OldestOfUid, Allowed, Refused, Broadcast,
              DelCookie, Returns, LetGo, AnswerText, AnswerFile, AnswerNobody, CallbackEnds,
              BodyShares, BodyOpens, BodyRegisters, BodyMapFails, BodyMaps, cookieVars
<1>5. ASSUME NEW s \in Sessions, BodyDropped(s) \/ Deleter(s) \/ PeerGone(s)
      PROVE  UNCHANGED attach
  BY <1>5 DEF BodyDropped, Deleter, PeerGone, cookieVars
<1>6. ASSUME NEW s \in Sessions, NEW asks, Requests(s, asks) PROVE UNCHANGED attach
  BY <1>6 DEF Requests, OnAccessPath, cookieVars
<1>7. CookieTimer \/ UNCHANGED vars => UNCHANGED attach
  BY DEF CookieTimer, OnManager, vars, cookieVars
<1> QED
  BY <1>1, <1>2, <1>3, <1>4, <1>5, <1>6, <1>7 DEF Next
LEMMA GrantKept ==
  ASSUME CookieInv, [Next]_vars, NEW t \in Sessions, req'[t] = req[t], Granted(t)
  PROVE  Granted(t)'
BY AttachGrows DEF Granted

LEMMA SteadySession ==
  ASSUME CookieInv, AccessInv, [Next]_vars, NEW t \in Sessions,
         listening' = listening, pc'[t] = pc[t], req'[t] = req[t], found'[t] = found[t],
         out'[t] = out[t], code'[t] = code[t], allowed'[t] = allowed[t]
  PROVE  AccessAt(t)'
<1>1. FoundOwn(t)'
  BY AttachGrows DEF AccessInv, AccessAt, FoundOwn
<1>2. Permitted(t) => Permitted(t)'
  BY GrantKept DEF Permitted
<1> QED
  BY <1>1, <1>2 DEF AccessInv, AccessAt, Cleared

LEMMA AccessStep == CookieInv /\ AccessInv /\ [Next]_vars => AccessInv'
<1> SUFFICES ASSUME CookieInv, AccessInv, [Next]_vars PROVE AccessInv'
  OBVIOUS
<1>0. ASSUME UNCHANGED accessVars PROVE AccessInv'
  <2>1. \A t \in Sessions : AccessAt(t)'
    BY <1>0, SteadySession DEF accessVars
  <2> QED
    BY <1>0, <2>1 DEF accessVars, AccessInv, AccessTypes
(* It is enough to look at the session that acts.                          *)
<1>1. ASSUME NEW s \in Sessions, AccessTypes', AccessAt(s)', listening' = listening,
             \A t \in Sessions \ {s} :
               /\ pc'[t] = pc[t] /\ req'[t] = req[t] /\ found'[t] = found[t]
               /\ out'[t] = out[t] /\ code'[t] = code[t] /\ allowed'[t] = allowed[t]
      PROVE  AccessInv'
  <2>1. ASSUME NEW t \in Sessions \ {s} PROVE AccessAt(t)'
    BY <1>1, <2>1, SteadySession
  <2> QED
    BY <1>1, <2>1 DEF AccessInv
<1> USE DEF AccessInv, AccessTypes, States, At, Go
<1>2. ASSUME NEW s \in Sessions, NEW asks, Requests(s, asks) PROVE AccessInv'
  <2>1. /\ \/ pc' = [pc EXCEPT ![s] = "cookie"] /\ code' = code
           \/ pc' = [pc EXCEPT ![s] = "sending"] /\ code' = [code EXCEPT ![s] = 404]
        /\ \E r : req' = [req EXCEPT ![s] = r]
    <3>1. PICK ask, uid, c : OnAccessPath(s, ask, uid, c)
      BY <1>2 DEF Requests
    <3>2. PICK target :
            IF FileExist(target)
            THEN pc' = [pc EXCEPT ![s] = "cookie"] /\ UNCHANGED code
            ELSE code' = [code EXCEPT ![s] = 404] /\ pc' = [pc EXCEPT ![s] = "sending"]
      BY <3>1, Zenon DEF OnAccessPath, SendNotFound
    <3>3. \E r : req' = [req EXCEPT ![s] = r]
      BY <3>1, Zenon DEF OnAccessPath
    <3> QED BY <3>2, <3>3
  <2>2. pc[s] = "idle" /\ UNCHANGED <<listening, allowed, found, out>>
    BY <1>2 DEF Requests, OnAccessPath
  <2>3. found[s] = NoCookie /\ code[s] = 0
    BY <2>2 DEF AccessAt, FoundOwn
  <2> QED
    BY <1>1, <2>1, <2>2, <2>3 DEF AccessAt, FoundOwn, Cleared
<1>3. ASSUME NEW s \in Sessions, NEW expired, ByCookie(s, expired) PROVE AccessInv'
  <2>1. req[s].cookie \in _map_cookie => req[s].cookie \in Issued
    BY DEF CookieInv, CookieTypes
  <2>2. Issued \subseteq Issued'
    BY AttachGrows
  <2>3. /\ pc[s] = "cookie" /\ UNCHANGED <<listening, req, out, code, allowed>>
        /\ found' = [found EXCEPT ![s] =
                       IF Found(req[s].cookie, expired) THEN req[s].cookie ELSE NoCookie]
        /\ pc' = [pc EXCEPT ![s] =
                    IF found'[s] = NoCookie /\ req[s].uid # NoUid THEN "uid" ELSE "decide"]
    BY <1>3 DEF ByCookie
  <2>4. AccessAt(s)'
    BY <2>1, <2>2, <2>3 DEF Found, AccessAt, FoundOwn, Cleared
  <2> QED
    BY <1>1, <2>3, <2>4
<1>4. ASSUME NEW s \in Sessions, OldestOfUid(s) PROVE AccessInv'
  <2>1. /\ pc[s] = "uid" /\ UNCHANGED <<listening, req, out, code, allowed, attach>>
        /\ found' = [found EXCEPT ![s] = GetOldestCookie(req[s].uid, 1)]
        /\ pc' = [pc EXCEPT ![s] = IF found'[s] = NoCookie THEN "decide" ELSE "byuid"]
    BY <1>4 DEF OldestOfUid, cookieVars
  <2>2. ASSUME GetOldestCookie(req[s].uid, 1) # NoCookie
        PROVE  /\ GetOldestCookie(req[s].uid, 1) \in Issued
               /\ attach[GetOldestCookie(req[s].uid, 1)].uid = req[s].uid
    <3>1. ~(Cardinality(CookiesOf(req[s].uid)) < 1)
      BY <2>2 DEF GetOldestCookie
    <3>2. Cardinality(CookiesOf(req[s].uid)) >= 1
      BY <3>1, FS_Subset, FS_CardinalityType DEF CookieInv, CookieTypes, CookiesOf
    <3>3. PICK e \in CookiesOf(req[s].uid) : GetOldestCookie(req[s].uid, 1) = e.cookie
      BY <3>2, OldestInIndex DEF CookieInv
    <3> QED
      BY <3>3 DEF CookieInv, IndexOwner, CookiesOf
  <2>3. Issued' = Issued
    BY <2>1 DEF Issued
  <2>4. AccessAt(s)'
    BY <2>1, <2>2, <2>3 DEF AccessAt, FoundOwn, Cleared
  <2> QED
    BY <1>1, <2>1, <2>4
<1>5. ASSUME NEW s \in Sessions, NEW expired, ByUid(s, expired) PROVE AccessInv'
  <2>1. /\ pc[s] = "byuid" /\ UNCHANGED <<listening, req, out, code, allowed, attach>>
        /\ found' = [found EXCEPT ![s] = IF Found(@, expired) THEN @ ELSE NoCookie]
        /\ pc' = [pc EXCEPT ![s] = "decide"]
    BY <1>5 DEF ByUid, GetCookie
  <2>2. Issued' = Issued
    BY <2>1 DEF Issued
  <2>3. AccessAt(s)'
    BY <2>1, <2>2 DEF AccessAt, FoundOwn, Cleared
  <2> QED
    BY <1>1, <2>1, <2>3
(* The callback is given an error, or a permission.                        *)
<1>6. ASSUME NEW s \in Sessions, NEW err, NEW cookie, Callback(s, err, cookie),
             ~At(s, "sending"), FoundOwn(s)' \/ UNCHANGED <<req, found>>,
             UNCHANGED <<listening, req, found, code>>, allowed' \in [Sessions -> BOOLEAN],
             \A t \in Sessions \ {s} : allowed'[t] = allowed[t],
             ~At(s, "idle"), ~At(s, "cookie"), ~At(s, "uid"), ~At(s, "body"),
             ~err => Permitted(s)'
      PROVE  AccessInv'
  <2>1. \E state \in {"nobody", "callback"} :
          /\ pc' = [pc EXCEPT ![s] = state]
          /\ out' = [out EXCEPT ![s] = [err |-> err, cookie |-> cookie]]
    BY <1>6 DEF Callback
  <2>2. Issued \subseteq Issued' /\ \A c \in Issued : attach'[c] = attach[c]
    BY AttachGrows
  <2>3. AccessAt(s)'
    BY <1>6, <2>1, <2>2 DEF AccessAt, FoundOwn, Cleared
  <2> QED
    BY <1>1, <1>6, <2>1, <2>3
<1>7. ASSUME NEW s \in Sessions, Allowed(s) PROVE AccessInv'
  <2>1. /\ pc[s] = "decide" /\ found[s] # NoCookie
        /\ IsPrefix(attach[found[s]]._path, req[s].url) /\ ~attach[found[s]]._err_msg
        /\ UNCHANGED <<listening, req, found, code, allowed, attach>>
        /\ Callback(s, FALSE, found[s])
    BY <1>7 DEF Allowed, InScope, cookieVars
  <2>2. Granted(s)
    BY <2>1 DEF AccessAt, FoundOwn, Granted
  <2>3. Permitted(s)'
    BY <2>1, <2>2, GrantKept DEF Permitted
  <2> QED
    BY <1>6, <2>1, <2>3
<1>8. ASSUME NEW s \in Sessions, Refused(s) PROVE AccessInv'
  <2>1. pc[s] = "decide" /\ UNCHANGED <<listening, req, found, code, allowed>>
    BY <1>8 DEF Refused
  <2>2. \E cookie : Callback(s, TRUE, cookie)
    BY <1>8 DEF Refused
  <2> QED
    BY <1>6, <2>1, <2>2
<1>9. ASSUME NEW s \in Sessions, Broadcast(s) PROVE AccessInv'
  <2>1. pc[s] = "decide" /\ UNCHANGED <<listening, req, found, code, allowed, attach>>
    BY <1>9 DEF Broadcast, DelCookie
  <2>2. CASE listening
    <3>1. pc' = [pc EXCEPT ![s] = "asked"] /\ out' = out /\ Issued' = Issued
      BY <1>9, <2>1, <2>2 DEF Broadcast, Issued
    <3>2. AccessAt(s)'
      BY <2>1, <3>1 DEF AccessAt, FoundOwn, Cleared
    <3> QED
      BY <1>1, <2>1, <3>1, <3>2
  <2>3. CASE ~listening
    <3>1. Callback(s, FALSE, NoCookie)
      BY <1>9, <2>3 DEF Broadcast
    <3>2. Permitted(s)'
      BY <2>1, <2>3 DEF Permitted
    <3> QED
      BY <1>6, <2>1, <3>1, <3>2
  <2> QED
    BY <2>2, <2>3
<1>10. ASSUME NEW s \in Sessions, NEW from \in {"asked", "waiting"}, NEW to \in {"waiting", "orphan"},
              pc[s] = from, pc' = [pc EXCEPT ![s] = to],
              UNCHANGED <<listening, req, found, out, code, allowed>>
       PROVE  AccessInv'
  <2>1. Issued \subseteq Issued' /\ \A c \in Issued : attach'[c] = attach[c]
    BY AttachGrows
  <2>2. AccessAt(s)'
    BY <1>10, <2>1 DEF AccessAt, FoundOwn, Cleared
  <2> QED
    BY <1>1, <1>10, <2>2
<1>11. ASSUME NEW s \in Sessions, Returns(s) \/ PeerGone(s) PROVE AccessInv'
  BY <1>10, <1>11 DEF Returns, PeerGone
<1>12. ASSUME NEW s \in Sessions, NEW err \in BOOLEAN, NEW cookie,
              pc[s] \in {"asked", "waiting", "orphan"}, Callback(s, err, cookie), Decides(s, err),
              UNCHANGED <<listening, req, found, code>>
       PROVE  AccessInv'
  <2>1. /\ allowed' \in [Sessions -> BOOLEAN] /\ (~err => allowed'[s])
        /\ \A t \in Sessions \ {s} : allowed'[t] = allowed[t]
    BY <1>12 DEF Decides
  <2>2. ~err => Permitted(s)'
    BY <2>1 DEF Permitted
  <2> QED
    BY <1>6, <1>12, <2>1, <2>2
<1>13. ASSUME NEW s \in Sessions, Invoke(s) PROVE AccessInv'
  BY <1>12, <1>13 DEF Invoke, InvokeForLife, InvokeOnce
(* The end of the callback, and the answer.                                *)
<1>14. ASSUME NEW s \in Sessions, NEW state \in {"sending", "gone", "body", "silent"},
              pc' = [pc EXCEPT ![s] = state], CallbackEnds(s),
              DOMAIN code' = Sessions, \A t \in Sessions \ {s} : code'[t] = code[t],
              code'[s] # 0 => state = "sending",
              state \in {"body", "silent"} \/ code'[s] = 200 => Cleared(s),
              state = "body" => req[s].file.names \in Files
       PROVE  AccessInv'
  <2>1. /\ UNCHANGED <<listening, req, allowed>>
        /\ found' = [found EXCEPT ![s] = NoCookie]
        /\ out' = [out EXCEPT ![s] = NoOut]
    BY <1>14 DEF CallbackEnds
  <2>2. Permitted(s) => Permitted(s)'
    BY <2>1, GrantKept DEF Permitted
  <2>3. AccessAt(s)'
    BY <1>14, <2>1, <2>2 DEF AccessAt, FoundOwn, Cleared
  <2> QED
    BY <1>1, <1>14, <2>1, <2>3
<1>15. ASSUME NEW s \in Sessions, AnswerText(s) PROVE AccessInv'
  <2>1. /\ pc[s] = "callback" /\ CallbackEnds(s)
        /\ code' = [code EXCEPT ![s] = IF out[s].err THEN 401 ELSE 200]
        /\ pc' = [pc EXCEPT ![s] = "sending"]
    BY <1>15 DEF AnswerText, Answer
  <2>2. code'[s] = 200 => Cleared(s)
    BY <2>1 DEF Cleared
  <2>3. DOMAIN code' = Sessions /\ \A t \in Sessions \ {s} : code'[t] = code[t]
    BY <2>1
  <2>4. pc' = [pc EXCEPT ![s] = "sending"] /\ CallbackEnds(s)
    BY <2>1
  <2> HIDE DEF AccessInv, AccessTypes
  <2> QED
    BY <1>14, <2>2, <2>3, <2>4
<1>16. ASSUME NEW s \in Sessions, AnswerFile(s) PROVE AccessInv'
  <2>1. /\ pc[s] = "callback" /\ ~out[s].err /\ CallbackEnds(s) /\ code' = code
        /\ pc' = [pc EXCEPT ![s] = IF out[s].cookie = NoCookie THEN "body" ELSE "silent"]
    BY <1>16 DEF AnswerFile
  <2>2. req[s].file.names \in Files
    BY <1>16, BodyAssumption DEF AnswerFile, KindOf
  <2>3. code[s] = 0
    BY <2>1 DEF AccessAt
  <2> QED
    BY <1>14, <2>1, <2>2, <2>3 DEF Cleared
<1>17. ASSUME NEW s \in Sessions, AnswerNobody(s) PROVE AccessInv'
  <2>1. /\ pc[s] = "nobody" /\ CallbackEnds(s) /\ code' = code
        /\ pc' = [pc EXCEPT ![s] = "gone"]
    BY <1>17 DEF AnswerNobody
  <2>2. code[s] = 0
    BY <2>1 DEF AccessAt
  <2>3. DOMAIN code' = Sessions /\ code'[s] = 0 /\ \A t \in Sessions \ {s} : code'[t] = code[t]
    BY <2>1, <2>2
  <2>4. code'[s] # 200
    BY <2>3
  <2> HIDE DEF AccessInv, AccessTypes
  <2> QED
    BY <1>14, <2>1, <2>3, <2>4
<1>18. ASSUME NEW s \in Sessions, BodyShares(s) \/ BodyRegisters(s) \/ BodyMapFails(s)
       PROVE  AccessInv'
  <2>1. \E status \in {200, 404} :
          /\ pc[s] = "body" /\ pc' = [pc EXCEPT ![s] = "sending"]
          /\ code' = [code EXCEPT ![s] = status]
          /\ UNCHANGED <<listening, req, found, out, allowed, attach>>
    BY <1>18 DEF BodyShares, BodyRegisters, BodyMapFails, Answer, cookieVars
  <2>2. Permitted(s)' /\ found[s] = NoCookie
    BY <2>1, GrantKept DEF AccessAt, FoundOwn, Cleared, Permitted
  <2>3. AccessAt(s)'
    BY <2>1, <2>2 DEF AccessAt, FoundOwn, Cleared
  <2> QED
    BY <1>1, <2>1, <2>3
<1>19. ASSUME NEW s \in Sessions, BodyDropped(s) PROVE AccessInv'
  <2>1. /\ pc[s] = "sending" /\ pc' = [pc EXCEPT ![s] = "idle"]
        /\ req' = [req EXCEPT ![s] = NoRequest]
        /\ code' = [code EXCEPT ![s] = 0]
        /\ allowed' = [allowed EXCEPT ![s] = FALSE]
        /\ UNCHANGED <<listening, found, out>>
    BY <1>19 DEF BodyDropped
  <2>2. found[s] = NoCookie
    BY <2>1 DEF AccessAt, FoundOwn
  <2>3. AccessAt(s)'
    BY <2>1, <2>2 DEF AccessAt, FoundOwn, Cleared
  <2> QED
    BY <1>1, <2>1, <2>3
<1>20. ASSUME NEW s \in Sessions, Deleter(s) \/ BodyOpens(s) \/ (\E a \in Addrs : BodyMaps(s, a))
       PROVE  AccessInv'
  BY <1>0, <1>20 DEF Deleter, BodyOpens, BodyMaps
<1>21. CASE CookieTimer \/ UNCHANGED vars
  BY <1>0, <1>21 DEF CookieTimer, vars
<1> QED
  BY <1>2, <1>3, <1>4, <1>5, <1>7, <1>8, <1>9, <1>11, <1>13, <1>15, <1>16, <1>17, <1>18, <1>19,
     <1>20, <1>21 DEF Next, Handle

(* What is sent was allowed, for this request or by a cookie that covers   *)
(* the URL it is for, whatever other cookies come and go                   *)
(* (HttpFileManager.cpp:224-298).                                          *)
THEOREM SentWasGranted == Spec => []GrantedOnly
<1>1. Init => CookieInv /\ AccessInv
  BY CookieStart, AccessStart DEF Init
<1>2. AccessInv => GrantedOnly
  BY DEF AccessInv, AccessAt, Cleared, Permitted, Granted, GrantedOnly
<1> QED
  BY <1>1, <1>2, CookieStep, AccessStep, PTL DEF Spec

---------------------------------------------------------------------------
(* The bodies' mappings. *)

LEMMA MmapRefined == AccessInv /\ [Next]_vars => [MmapNext]_mmapVars
<1> SUFFICES ASSUME AccessInv, [Next]_vars PROVE [MmapNext]_mmapVars
  OBVIOUS
<1> USE BodyAssumption DEF Sessions
<1>1. ASSUME NEW s \in Sessions, BodyShares(s) \/ BodyOpens(s) PROVE MmapNext
  <2>1. req[s].file.names \in Files
    BY <1>1 DEF AccessInv, AccessAt, BodyShares, BodyOpens, At
  <2> QED
    BY <1>1, <2>1 DEF BodyShares, BodyOpens, MmapNext
<1>2. ASSUME NEW s \in Sessions, NEW a \in Addrs, BodyMaps(s, a) PROVE MmapNext
  BY <1>2 DEF BodyMaps, MmapNext
<1>3. ASSUME NEW s \in Sessions, BodyRegisters(s) \/ BodyMapFails(s) \/ Deleter(s) PROVE MmapNext
  BY <1>3 DEF BodyRegisters, BodyMapFails, Deleter, MmapNext
<1>4. ASSUME NEW s \in Sessions, BodyDropped(s) PROVE MmapNext \/ UNCHANGED mmapVars
  BY <1>4 DEF BodyDropped, MmapNext
<1>5. ASSUME NEW s \in Sessions, Invoke(s) \/ PeerGone(s) PROVE UNCHANGED mmapVars
  BY <1>5 DEF Invoke, InvokeForLife, InvokeOnce, PeerGone
<1>6. ASSUME NEW s \in Sessions, NEW asks, Requests(s, asks) PROVE UNCHANGED mmapVars
  BY <1>6 DEF Requests, OnAccessPath
<1>7. ASSUME NEW s \in Sessions, Handle(s) PROVE MmapNext \/ UNCHANGED mmapVars
  <2>1. ASSUME NEW expired, ByCookie(s, expired) \/ ByUid(s, expired) PROVE UNCHANGED mmapVars
    BY <2>1 DEF ByCookie, ByUid
  <2>2. ASSUME OldestOfUid(s) \/ Allowed(s) \/ Refused(s) \/ Broadcast(s) \/ Returns(s)
        PROVE  UNCHANGED mmapVars
    BY <2>2 DEF OldestOfUid, Allowed, Refused, Broadcast, Returns
  <2>3. ASSUME AnswerText(s) \/ AnswerFile(s) \/ AnswerNobody(s) PROVE UNCHANGED mmapVars
    BY <2>3 DEF AnswerText, AnswerFile, AnswerNobody, CallbackEnds
  <2> QED
    BY <1>1, <1>2, <1>3, <1>7, <2>1, <2>2, <2>3 DEF Handle
<1>8. CookieTimer \/ UNCHANGED vars => UNCHANGED mmapVars
  BY DEF CookieTimer, vars, mmapVars
<1> QED
  BY <1>3, <1>4, <1>5, <1>6, <1>7, <1>8 DEF Next

(* The sessions use the table of mapped files as its own specification     *)
(* lets them: each of a body's steps is one of the table's                 *)
(* (HttpFileManager.cpp:447-480, HttpBody.cpp:60-132).                     *)
THEOREM ImplementsMmap == Spec => MmapSpec
<1>1. Init => CookieInv /\ AccessInv
  BY CookieStart, AccessStart DEF Init
<1>2. Init => MmapInit
  BY DEF Init
<1> QED
  BY <1>1, <1>2, CookieStep, AccessStep, MmapRefined, PTL DEF Spec, MmapSpec

(* So a body that is sent is mapped, and no record of a mapping that is    *)
(* gone is left (HttpBody.cpp:60-132).                                     *)
THEOREM SentIsMapped == Spec => [](MappedWhileUsed /\ NoStaleRecord)
BY ImplementsMmap, UsedIsMapped, RecordsRemoved, PTL

(***************************************************************************)
(* The bodies themselves, read in pieces, for all sizes.                   *)
(***************************************************************************)
Bodies == [_file_offset : Nat, _read_to : Nat]

IsBody(body) == body \in Bodies /\ body._file_offset <= body._read_to

(* The pieces of a text or of a mapped file follow each other without a    *)
(* gap, none is longer than asked for, none reaches past the end, and only *)
(* the end gives nothing (HttpBody.cpp:43-56, 201-235).                    *)
THEOREM PiecesFollow ==
  ASSUME NEW body, IsBody(body), NEW size \in Nat \ {0}
  PROVE  LET piece == Piece(body, size)
             rest  == ReadMapped(body, size)
         IN /\ IsBody(rest)
            /\ rest._read_to = body._read_to
            /\ piece.size <= size
            /\ rest._file_offset = body._file_offset + piece.size
            /\ piece.size # 0 => piece.from = body._file_offset
            /\ piece.size = 0 <=> RemainSize(body) = 0
  BY DEF IsBody, Bodies, Piece, ReadMapped, ReadSize, RemainSize, Smaller, NoPiece

(* A range that lies in the file is answered with exactly the bytes that   *)
(* Content-Range names; an end of 0 means the end of the file, so of the   *)
(* first byte alone the whole file is sent                                 *)
(* (HttpFileManager.cpp:510-525, HttpBody.cpp:161-167).                    *)
THEOREM RangeSent ==
  ASSUME NEW size \in Nat \ {0}, NEW first \in Nat, NEW last \in Nat,
         first < size, last < size, last = 0 \/ first <= last
  PROVE  LET body == Ranged(first, last, size)
             says == ContentRange(first, last, size)
         IN /\ IsBody(body)
            /\ body._file_offset = says.first
            /\ body._read_to = says.last + 1
            /\ body._read_to <= size
            /\ RemainSize(body) = says.last - says.first + 1
            /\ first = 0 /\ last = 0 => RemainSize(body) = size
  BY DEF IsBody, Bodies, Ranged, ContentRange, SetRange, LastByte, RemainSize

Forms ==
  [_bodyPrefix : Nat, file : Bodies, _bodySuffix : Nat, _offset : Nat, _totalSize : Nat]

IsForm(form) == form \in Forms /\ IsBody(form.file)

(* What is left to read is what the form's parts still hold. *)
Accounted(form) ==
  FormRemain(form) = form._bodyPrefix + RemainSize(form.file) + form._bodySuffix

LEMMA FormStarts ==
  ASSUME NEW prefix \in Nat, NEW size \in Nat, NEW suffix \in Nat
  PROVE  IsForm(Form(prefix, size, suffix)) /\ Accounted(Form(prefix, size, suffix))
  BY DEF IsForm, Forms, IsBody, Bodies, Accounted, Form, Whole, FormRemain, RemainSize

LEMMA FormTyped ==
  ASSUME NEW form \in Forms, NEW offset \in Nat
  PROVE  LET noPrefix == [form EXCEPT !._offset = offset, !._bodyPrefix = 0]
             noSuffix == [form EXCEPT !._offset = offset, !._bodySuffix = 0]
         IN /\ noPrefix \in Forms /\ noPrefix.file = form.file
            /\ noSuffix \in Forms /\ noSuffix.file = form.file
  BY DEF Forms

(* While the file has what it had, what a form announced as its length is  *)
(* what its pieces add up to: each read takes from the length what it      *)
(* takes from the parts, and takes something until nothing is left         *)
(* (HttpBody.cpp:256-287, HttpClient.cpp:63-66, 270).                      *)
THEOREM FormReads ==
  ASSUME NEW form, IsForm(form), Accounted(form),
         NEW size \in Nat \ {0}, NEW has \in Nat, form.file._read_to <= has
  PROVE  LET rest == ReadForm(form, size, has)
         IN /\ IsForm(rest) /\ Accounted(rest)
            /\ rest._totalSize = form._totalSize
            /\ FormRemain(form) > 0 => FormRemain(rest) < FormRemain(form)
            /\ FormRemain(form) = 0 => rest = form
<1> DEFINE rest == ReadForm(form, size, has)
           part == form.file
<1>1. /\ form._bodyPrefix \in Nat /\ form._bodySuffix \in Nat
      /\ form._offset \in Nat /\ form._totalSize \in Nat
      /\ part \in Bodies
      /\ part._file_offset <= part._read_to
      /\ form._totalSize - form._offset =
           form._bodyPrefix + (part._read_to - part._file_offset) + form._bodySuffix
  BY DEF IsForm, Forms, IsBody, Accounted, FormRemain, RemainSize
<1>2. CASE form._bodyPrefix > 0
  <2>1. rest = [form EXCEPT !._offset = form._offset + form._bodyPrefix, !._bodyPrefix = 0]
    BY <1>2 DEF ReadForm
  <2>2. PICK offset \in Nat : offset = form._offset + form._bodyPrefix
    BY <1>1
  <2>3. IsForm(rest)
    <3>1. rest = [form EXCEPT !._offset = offset, !._bodyPrefix = 0] /\ form \in Forms
      BY <2>1, <2>2 DEF IsForm
    <3>2. rest \in Forms /\ rest.file = form.file
      <4> HIDE DEF rest
      <4>1. LET noPrefix == [form EXCEPT !._offset = offset, !._bodyPrefix = 0]
            IN noPrefix \in Forms /\ noPrefix.file = form.file
        BY <3>1, FormTyped
      <4> QED
        BY <3>1, <4>1
    <3> QED
      <4>1. IsBody(form.file)
        BY DEF IsForm
      <4> HIDE DEF rest
      <4> QED
        BY <3>2, <4>1 DEF IsForm
  <2>4. /\ rest._bodyPrefix = 0 /\ rest._offset = form._offset + form._bodyPrefix
        /\ rest._totalSize = form._totalSize /\ rest.file = part
        /\ rest._bodySuffix = form._bodySuffix
    BY <2>1 DEF IsForm, Forms
  <2>5. Accounted(rest) /\ FormRemain(rest) < FormRemain(form) /\ FormRemain(form) > 0
    <3>1. part._file_offset \in Nat /\ part._read_to \in Nat
      BY <1>1 DEF Bodies
    <3> HIDE DEF rest
    <3>2. Accounted(rest)
      <4>1. FormRemain(rest) = form._totalSize - (form._offset + form._bodyPrefix)
        BY <2>4 DEF FormRemain
      <4>2. RemainSize(rest.file) = part._read_to - part._file_offset
        BY <2>4 DEF RemainSize
      <4> QED
        BY <1>1, <2>4, <3>1, <4>1, <4>2 DEF Accounted
    <3>3. FormRemain(rest) < FormRemain(form) /\ FormRemain(form) > 0
      BY <1>1, <1>2, <2>4, <3>1 DEF FormRemain
    <3> QED
      BY <3>2, <3>3
  <2> QED
    BY <2>3, <2>4, <2>5
<1>3. CASE form._bodyPrefix = 0 /\ RemainSize(part) # 0
  <2> DEFINE read == ReadFile(part, size, has)
  <2>1. /\ ReadSize(part, size) # 0 /\ has > part._file_offset
        /\ read \in Bodies
        /\ read._read_to = part._read_to
        /\ read._file_offset > part._file_offset
        /\ read._file_offset <= part._read_to
    BY <1>1, <1>3 DEF Bodies, RemainSize, ReadFile, ReadSize, Smaller
  <2>2. rest = [form EXCEPT !.file = read,
                            !._offset = form._offset + read._file_offset - part._file_offset]
    BY <1>3, <2>1 DEF ReadForm
  <2> form._offset + read._file_offset - part._file_offset \in Nat
    BY <1>1, <2>1 DEF Bodies
  <2> HIDE DEF read
  <2>3. IsForm(rest)
    BY <1>1, <2>1, <2>2 DEF IsForm, Forms, IsBody
  <2>4. Accounted(rest) /\ rest._totalSize = form._totalSize
    BY <1>1, <2>1, <2>2 DEF Bodies, Forms, IsForm, Accounted, FormRemain, RemainSize
  <2>5. FormRemain(rest) < FormRemain(form) /\ FormRemain(form) > 0
    BY <1>1, <1>3, <2>1, <2>2 DEF Bodies, Forms, IsForm, FormRemain, RemainSize
  <2>6. QED
    BY <2>3, <2>4, <2>5
<1>4. CASE form._bodyPrefix = 0 /\ RemainSize(part) = 0 /\ form._bodySuffix > 0
  <2>1. rest = [form EXCEPT !._offset = form._totalSize, !._bodySuffix = 0]
    BY <1>4 DEF ReadForm
  <2>2. IsForm(rest)
    BY <1>1, <1>4, <2>1 DEF Bodies, Forms, IsForm, Accounted, FormRemain, RemainSize
  <2>3. Accounted(rest) /\ rest._totalSize = form._totalSize
    <3>1. /\ rest._offset = form._totalSize /\ rest._totalSize = form._totalSize
          /\ rest._bodyPrefix = 0 /\ rest.file = part /\ rest._bodySuffix = 0
      BY <1>4, <2>1 DEF IsForm, Forms
    <3>2. QED
      BY <1>1, <1>4, <3>1 DEF Bodies, Accounted, FormRemain, RemainSize
  <2>4. FormRemain(rest) < FormRemain(form) /\ FormRemain(form) > 0
    BY <1>1, <1>4, <2>1 DEF Bodies, Forms, IsForm, FormRemain, RemainSize
  <2>5. QED
    BY <2>2, <2>3, <2>4
<1>5. CASE form._bodyPrefix = 0 /\ RemainSize(part) = 0 /\ form._bodySuffix = 0
  <2>1. rest = form
    BY <1>5 DEF ReadForm
  <2>2. FormRemain(form) = 0
    BY <1>1, <1>5 DEF Bodies, FormRemain, RemainSize
  <2>3. QED
    BY <2>1, <2>2
<1>6. QED
  BY <1>1, <1>2, <1>3, <1>4, <1>5

(***************************************************************************)
(* Links: what UrlEncode does to a name, UrlDecode undoes, and the link of *)
(* a menu is put together of such names.                                   *)
(***************************************************************************)
LEMMA FlattenOne ==
  ASSUME NEW S, NEW s \in Seq(S)
  PROVE  FlattenSeq([i \in 1..1 |-> s]) = s
<1>1. PICK ss : ss = [i \in 1..1 |-> s]
  OBVIOUS
<1>2. ss \in Seq(Seq(S)) /\ Len(ss) = 1 /\ ss[1] = s
  BY <1>1
<1>3. PICK f \in [0..1 -> Seq(S)] :
        f[0] = <<>> /\ f[1] = f[1-1] \o ss[1] /\ FlattenSeq(ss) = f[1]
  <2>1. \E f \in [0..Len(ss) -> Seq(S)] :
          /\ f[0] = <<>>
          /\ \A i \in 1..Len(ss) : f[i] = f[i-1] \o ss[i]
          /\ FlattenSeq(ss) = f[Len(ss)]
    BY <1>2, FlattenIs
  <2>2. 1 \in 1..1
    OBVIOUS
  <2> QED BY <1>2, <2>1, <2>2
<1>4. FlattenSeq(ss) = <<>> \o s
  <2>1. 1 - 1 = 0
    OBVIOUS
  <2> QED BY <1>2, <1>3, <2>1
<1>5. <<>> \o s = s
  OBVIOUS
<1> QED BY <1>1, <1>4, <1>5

LEMMA FlattenConcat ==
  ASSUME NEW S, NEW ss, NEW tt, ss \in Seq(Seq(S)), tt \in Seq(Seq(S))
  PROVE  FlattenSeq(ss \o tt) = FlattenSeq(ss) \o FlattenSeq(tt)
<1>0. \A a, b, c \in Seq(S) : (a \o b) \o c = a \o (b \o c)
  BY ONLY ConcatAssociative
<1>1. PICK L \in Nat, M \in Nat : L = Len(ss) /\ M = Len(tt)
  OBVIOUS
<1> DEFINE uu == ss \o tt
<1>2. /\ uu \in Seq(Seq(S)) /\ Len(uu) = L + M
      /\ \A i \in 1..L : uu[i] = ss[i]
      /\ \A i \in 1..M : uu[L + i] = tt[i]
  BY <1>1, ConcatAt
<1> HIDE DEF uu
<1>3. PICK f \in [0..L -> Seq(S)] :
        f[0] = <<>> /\ (\A i \in 1..L : f[i] = f[i-1] \o ss[i]) /\ FlattenSeq(ss) = f[L]
  BY <1>1, FlattenIs
<1>4. PICK g \in [0..M -> Seq(S)] :
        g[0] = <<>> /\ (\A i \in 1..M : g[i] = g[i-1] \o tt[i]) /\ FlattenSeq(tt) = g[M]
  BY <1>1, FlattenIs
<1>5. PICK h \in [0..(L + M) -> Seq(S)] :
        /\ h[0] = <<>> /\ \A i \in 1..(L + M) : h[i] = h[i-1] \o uu[i]
        /\ FlattenSeq(uu) = h[L + M]
  <2>1. \E h \in [0..Len(uu) -> Seq(S)] :
          /\ h[0] = <<>> /\ \A i \in 1..Len(uu) : h[i] = h[i-1] \o uu[i]
          /\ FlattenSeq(uu) = h[Len(uu)]
    BY <1>2, FlattenIs
  <2> QED BY <1>2, <2>1
<1>6. \A i \in 0..L : h[i] = f[i]
  <2>1. ASSUME NEW i \in 1..L, h[i-1] = f[i-1] PROVE h[i] = f[i]
    <3>1. i \in 1..(L + M)
      OBVIOUS
    <3> QED BY <1>2, <1>3, <1>5, <2>1, <3>1
  <2>2. StepsAgree(L, h, f)
    BY <1>3, <1>5, <2>1 DEF StepsAgree
  <2>3. AgreeUpto(L, h, f)
    BY <2>2, SameSteps
  <2> QED BY <2>3 DEF AgreeUpto
<1> DEFINE G == {k \in Nat : k <= M => h[L + k] = f[L] \o g[k]}
<1>7. 0 \in G
  <2>1. h[L] = f[L] /\ f[L] \in Seq(S) /\ L + 0 = L
    BY <1>6
  <2>2. f[L] \o <<>> = f[L]
    BY <2>1
  <2>3. h[L + 0] = f[L] \o g[0]
    BY <1>4, <2>1, <2>2
  <2> QED BY <2>3
<1>8. ASSUME NEW k \in Nat, k \in G PROVE k + 1 \in G
  <2>0. k + 1 \in Nat
    OBVIOUS
  <2>1. SUFFICES ASSUME k + 1 <= M PROVE h[L + (k + 1)] = f[L] \o g[k+1]
    BY <2>0, Zenon
  <2>2. /\ k + 1 \in 1..M /\ (k + 1) - 1 = k /\ L + (k + 1) \in 1..(L + M)
        /\ (L + (k + 1)) - 1 = L + k /\ k \in 0..M /\ L \in 0..L
    BY <2>1
  <2>3. h[L + (k + 1)] = h[L + k] \o uu[L + (k + 1)] /\ uu[L + (k + 1)] = tt[k+1]
    BY <1>2, <1>5, <2>2
  <2>4. g[k+1] = g[k] \o tt[k+1] /\ h[L + k] = f[L] \o g[k]
    <3>1. k <= M
      BY <2>1
    <3> QED BY <1>4, <1>8, <2>2, <3>1 DEF G
  <2>5. f[L] \in Seq(S) /\ g[k] \in Seq(S) /\ tt[k+1] \in Seq(S)
    <3>1. tt[k+1] \in Seq(S)
      BY <1>1, <2>2
    <3> QED BY <2>2, <3>1
  <2>6. (f[L] \o g[k]) \o tt[k+1] = f[L] \o (g[k] \o tt[k+1])
    <3>1. PICK a, b, c : a = f[L] /\ b = g[k] /\ c = tt[k+1]
      OBVIOUS
    <3>2. a \in Seq(S) /\ b \in Seq(S) /\ c \in Seq(S)
      BY <2>5, <3>1
    <3>3. (a \o b) \o c = a \o (b \o c)
      BY ONLY <1>0, <3>2, Zenon
    <3> QED BY <3>1, <3>3
  <2> QED BY <2>3, <2>4, <2>6
<1>9. \A k \in Nat : k \in G
  <2> HIDE DEF G
  <2> QED BY <1>7, <1>8, Induction
<1>10. h[L + M] = f[L] \o g[M]
  <2>1. M \in G /\ M <= M
    <3> HIDE DEF G
    <3> QED BY <1>9
  <2> QED BY <2>1, Zenon
<1> QED BY <1>1, <1>3, <1>4, <1>5, <1>10 DEF uu

Char == 0..255
Coded(ch) == IF isalnum(ch) THEN <<ch>>
             ELSE <<Percent, HexDigit(ch \div 16), HexDigit(ch % 16)>>
Linked(ch) == IF ch = Slash THEN <<Slash>> ELSE Coded(ch)

LEMMA OneCoded ==
  ASSUME NEW ch \in Char
  PROVE  UrlEncode(<<ch>>) = Coded(ch) /\ Coded(ch) \in Seq(Nat)
<1>1. ch \in Nat /\ ch \div 16 \in Nat /\ ch % 16 \in Nat
  BY DEF Char
<1>2. HexDigit(ch \div 16) \in Nat /\ HexDigit(ch % 16) \in Nat /\ Percent \in Nat
  BY <1>1 DEF HexDigit, Percent
<1>3. Coded(ch) \in Seq(Nat)
  BY <1>1, <1>2 DEF Coded
<1>4. PICK str : str = <<ch>>
  OBVIOUS
<1>5. Len(str) = 1 /\ str[1] = ch
  BY <1>4
<1>6. UrlEncode(str) = FlattenSeq([i \in 1..1 |-> Coded(ch)])
  <2>1. \A i \in 1..Len(str) : str[i] = ch
    BY <1>5
  <2>2. [i \in 1..Len(str) |->
           IF isalnum(str[i]) THEN <<str[i]>>
           ELSE <<Percent, HexDigit(str[i] \div 16), HexDigit(str[i] % 16)>>] =
        [i \in 1..1 |-> Coded(ch)]
    BY <1>5, <2>1 DEF Coded
  <2> QED BY <2>2 DEF UrlEncode
<1> QED BY <1>3, <1>4, <1>6, FlattenOne

LEMMA DigitRead ==
  ASSUME NEW d \in 0..15
  PROVE  CharToInt(HexDigit(d)) = d
<1>1. CASE d < 10
  <2>1. HexDigit(d) = 48 + d /\ 48 + d \in Digit
    BY <1>1 DEF HexDigit, Digit
  <2>2. CharToInt(48 + d) = (48 + d) - 48
    BY <2>1 DEF CharToInt, Digit
  <2> QED BY <2>1, <2>2
<1>2. CASE ~(d < 10)
  <2>1. HexDigit(d) = 55 + d /\ 55 + d \in 65..70 /\ 55 + d \notin 97..102 /\ 55 + d \notin Digit
    BY <1>2 DEF HexDigit, Digit
  <2>2. CharToInt(55 + d) = (55 + d) - 55
    BY <2>1 DEF CharToInt
  <2> QED BY <2>1, <2>2
<1> QED BY <1>1, <1>2

(* A byte is written as itself or as a code that is read back.            *)
Writes(piece, ch) ==
  \/ Len(piece) = 1 /\ piece[1] = ch /\ ch # Percent
  \/ Len(piece) = 3 /\ piece[1] = Percent /\ StrToBin(piece[2], piece[3]) = ch

LEMMA OneWritten ==
  ASSUME NEW ch \in Char
  PROVE  /\ Coded(ch) \in Seq(Nat) /\ Writes(Coded(ch), ch)
         /\ Linked(ch) \in Seq(Nat) /\ Writes(Linked(ch), ch)
<1>1. Coded(ch) \in Seq(Nat)
  BY OneCoded
<1>2. Writes(<<Slash>>, Slash) /\ <<Slash>> \in Seq(Nat)
  BY DEF Writes, Slash, Percent
<1>3. CASE isalnum(ch)
  <2>1. Coded(ch) = <<ch>>
    BY <1>3 DEF Coded
  <2>2. ch # Percent
    BY <1>3 DEF Percent, isalnum, Digit, Upper, Lower
  <2>3. Writes(Coded(ch), ch)
    BY <2>1, <2>2 DEF Writes
  <2> QED BY <1>1, <1>2, <2>3 DEF Linked
<1>4. CASE ~isalnum(ch)
  <2>1. PICK hi, lo : hi = ch \div 16 /\ lo = ch % 16
    OBVIOUS
  <2>2. hi \in 0..15 /\ lo \in 0..15 /\ ch = hi * 16 + lo
    BY <2>1 DEF Char
  <2>3. Coded(ch) = <<Percent, HexDigit(hi), HexDigit(lo)>>
    BY <1>4, <2>1 DEF Coded
  <2>4. CharToInt(HexDigit(hi)) = hi /\ CharToInt(HexDigit(lo)) = lo
    BY <2>2, DigitRead
  <2>5. StrToBin(HexDigit(hi), HexDigit(lo)) = ((hi * 16) % 256) + lo
    <3>1. lo # 255
      BY <2>2
    <3> QED BY <2>4, <3>1 DEF StrToBin
  <2>6. (hi * 16) % 256 = hi * 16
    BY <2>2
  <2>7. Writes(Coded(ch), ch)
    BY <2>2, <2>3, <2>5, <2>6 DEF Writes
  <2> QED BY <1>1, <1>2, <2>7 DEF Linked
<1> QED BY <1>3, <1>4

(* A link that writes a text, byte by byte.                                *)
InPieces(link, text, ss) ==
  /\ ss \in Seq(Seq(Nat)) /\ Len(ss) = Len(text)
  /\ link = FlattenSeq(ss)
  /\ \A i \in 1..Len(text) : Writes(ss[i], text[i])

Spells(link, text) == text \in Seq(Char) /\ \E ss : InPieces(link, text, ss)

LEMMA SpelledBytes ==
  ASSUME NEW link, NEW text, Spells(link, text)
  PROVE  link \in Seq(Nat)
BY FlattenLaidOut DEF Spells, InPieces

LEMMA SpellsJoin ==
  ASSUME NEW a, NEW s, Spells(a, s), NEW b, NEW t, Spells(b, t)
  PROVE  Spells(a \o b, s \o t)
<1>1. PICK ss : InPieces(a, s, ss)
  BY DEF Spells
<1>2. PICK tt : InPieces(b, t, tt)
  BY DEF Spells
<1>3. s \in Seq(Char) /\ t \in Seq(Char) /\ ss \in Seq(Seq(Nat)) /\ tt \in Seq(Seq(Nat))
  BY <1>1, <1>2 DEF Spells, InPieces
<1>4. PICK L \in Nat, M \in Nat : L = Len(s) /\ L = Len(ss) /\ M = Len(t) /\ M = Len(tt)
  BY <1>1, <1>2, <1>3 DEF InPieces
<1>5. PICK st, uu : st = s \o t /\ uu = ss \o tt
  OBVIOUS
<1>6. /\ st \in Seq(Char) /\ Len(st) = L + M
      /\ \A i \in 1..L : st[i] = s[i]
      /\ \A i \in 1..M : st[L + i] = t[i]
  <2>1. /\ s \o t \in Seq(Char) /\ Len(s \o t) = Len(s) + Len(t)
        /\ \A i \in 1..Len(s) : (s \o t)[i] = s[i]
        /\ \A i \in 1..Len(t) : (s \o t)[Len(s) + i] = t[i]
    BY <1>3, ConcatAt
  <2> QED BY <1>4, <1>5, <2>1
<1>7. /\ uu \in Seq(Seq(Nat)) /\ Len(uu) = L + M
      /\ \A i \in 1..L : uu[i] = ss[i]
      /\ \A i \in 1..M : uu[L + i] = tt[i]
  BY <1>3, <1>4, <1>5, ConcatAt
<1>8. a \o b = FlattenSeq(uu)
  <2>1. FlattenSeq(ss \o tt) = FlattenSeq(ss) \o FlattenSeq(tt)
    BY ONLY <1>3, FlattenConcat
  <2> QED BY <1>1, <1>2, <1>5, <2>1 DEF InPieces
<1>9. ASSUME NEW i \in 1..(L + M) PROVE Writes(uu[i], st[i])
  <2>1. CASE i <= L
    <3>1. i \in 1..L
      BY <2>1
    <3> QED BY <1>1, <1>4, <1>6, <1>7, <3>1 DEF InPieces
  <2>2. CASE ~(i <= L)
    <3>1. PICK j \in 1..M : i = L + j
      <4>1. i - L \in 1..M /\ i = L + (i - L)
        BY <2>2
      <4> QED BY <4>1
    <3> QED BY <1>2, <1>4, <1>6, <1>7, <3>1 DEF InPieces
  <2> QED BY <2>1, <2>2
<1>10. InPieces(a \o b, st, uu)
  BY <1>6, <1>7, <1>8, <1>9 DEF InPieces
<1> QED BY <1>5, <1>6, <1>10 DEF Spells

LEMMA EscapedSpells ==
  ASSUME NEW text \in Seq(Char)
  PROVE  Spells(Escaped(text), text)
<1>1. PICK ss : ss = [i \in 1..Len(text) |-> Linked(text[i])]
  OBVIOUS
<1>2. \A i \in 1..Len(text) : text[i] \in Char
  OBVIOUS
<1>3. ss \in Seq(Seq(Nat)) /\ Len(ss) = Len(text)
  <2>1. \A i \in 1..Len(text) : Linked(text[i]) \in Seq(Nat)
    BY <1>2, OneWritten
  <2> QED BY <1>1, <2>1
<1>4. Escaped(text) = FlattenSeq(ss)
  <2>1. \A i \in 1..Len(text) : UrlEncode(<<text[i]>>) = Coded(text[i])
    BY <1>2, OneCoded
  <2>2. [i \in 1..Len(text) |-> IF text[i] = Slash THEN <<Slash>> ELSE UrlEncode(<<text[i]>>)] = ss
    BY <1>1, <2>1 DEF Linked
  <2> QED BY <2>2 DEF Escaped
<1>5. \A i \in 1..Len(text) : Writes(ss[i], text[i])
  BY <1>1, <1>2, OneWritten
<1> QED BY <1>3, <1>4, <1>5 DEF Spells, InPieces

LEMMA EncodedSpells ==
  ASSUME NEW text \in Seq(Char)
  PROVE  Spells(UrlEncode(text), text)
<1>1. PICK ss : ss = [i \in 1..Len(text) |-> Coded(text[i])]
  OBVIOUS
<1>2. \A i \in 1..Len(text) : text[i] \in Char
  OBVIOUS
<1>3. ss \in Seq(Seq(Nat)) /\ Len(ss) = Len(text)
  <2>1. \A i \in 1..Len(text) : Coded(text[i]) \in Seq(Nat)
    BY <1>2, OneWritten
  <2> QED BY <1>1, <2>1
<1>4. UrlEncode(text) = FlattenSeq(ss)
  BY <1>1 DEF UrlEncode, Coded
<1>5. \A i \in 1..Len(text) : Writes(ss[i], text[i])
  BY <1>1, <1>2, OneWritten
<1> QED BY <1>3, <1>4, <1>5 DEF Spells, InPieces

LEMMA SlashSpells == Spells(<<Slash>>, <<Slash>>) /\ Spells(<<>>, <<>>)
<1>1. PICK ss : ss = [i \in 1..1 |-> <<Slash>>]
  OBVIOUS
<1>2. <<Slash>> \in Seq(Char) /\ <<Slash>> \in Seq(Nat)
  BY DEF Slash, Char
<1>3. ss \in Seq(Seq(Nat)) /\ Len(ss) = 1 /\ ss[1] = <<Slash>>
  BY <1>1, <1>2
<1>4. FlattenSeq(ss) = <<Slash>>
  BY <1>1, <1>2, FlattenOne
<1>5. Writes(<<Slash>>, Slash)
  BY DEF Writes, Slash, Percent
<1>6. PICK text : text = <<Slash>>
  OBVIOUS
<1>7. Len(text) = 1 /\ text[1] = Slash
  BY <1>6
<1>8. InPieces(text, text, ss)
  <2>1. \A i \in 1..Len(text) : i = 1
    BY <1>7
  <2> QED BY <1>3, <1>4, <1>5, <1>6, <1>7, <2>1 DEF InPieces
<1>9. Spells(<<>>, <<>>)
  <2>1. PICK e : e = <<>>
    OBVIOUS
  <2>2. e \in Seq(Char) /\ e \in Seq(Seq(Nat)) /\ Len(e) = 0
    BY <2>1
  <2>3. FlattenSeq(e) = e
    <3>1. PICK f \in [0..Len(e) -> Seq(Nat)] : f[0] = <<>> /\ FlattenSeq(e) = f[Len(e)]
      BY <2>2, FlattenIs
    <3> QED BY <2>1, <2>2, <3>1
  <2>4. InPieces(e, e, e)
    BY <2>2, <2>3 DEF InPieces
  <2> QED BY <2>1, <2>2, <2>4 DEF Spells
<1> QED BY <1>2, <1>6, <1>8, <1>9 DEF Spells

(* What UrlDecode makes of the text from its i-th byte on.                 *)
ByteAt(str, i) == IF i <= Len(str) THEN str[i] ELSE 0
DecodedFrom(str, from, i) ==
  IF i > Len(str) THEN <<>>
  ELSE IF str[i] # Percent THEN <<str[i]>> \o from[i + 1]
  ELSE IF Len(str) >= 3 /\ i > Len(str) - 2 THEN <<>>
  ELSE <<StrToBin(ByteAt(str, i + 1), ByteAt(str, i + 2))>> \o from[i + 3]

LEMMA SameFrom ==
  ASSUME NEW str, Len(str) \in Nat, NEW from, NEW other, NEW i \in Nat,
         i <= Len(str) => from[i+1] = other[i+1] /\ from[i+3] = other[i+3]
  PROVE  DecodedFrom(str, from, i) = DecodedFrom(str, other, i)
BY DEF DecodedFrom

IsDecoding(str, from) == from = [i \in 1..(Len(str) + 3) |-> DecodedFrom(str, from, i)]

LEMMA DecodingExists ==
  ASSUME NEW str, Len(str) \in Nat
  PROVE  \E from : IsDecoding(str, from)
<1>0. PICK N \in Nat : N = Len(str) + 3
  OBVIOUS
<1> DEFINE Upto(k, f) == \A i \in ((N + 1) - k)..N : f[i] = DecodedFrom(str, f, i)
           G == {k \in Nat : k <= N => \E f : Upto(k, f)}
<1>1. 0 \in G
  <2>1. \A f : Upto(0, f)
    BY <1>0
  <2> QED BY <2>1
<1>2. ASSUME NEW k \in Nat, k \in G PROVE k + 1 \in G
  <2>1. SUFFICES ASSUME k + 1 <= N PROVE \E f : Upto(k + 1, f)
    OBVIOUS
  <2>2. PICK f : Upto(k, f)
    BY <1>2, <2>1
  <2>3. PICK n \in Nat : n = N - k /\ (N + 1) - k = n + 1 /\ (N + 1) - (k + 1) = n
    BY <2>1
  <2>4. PICK e : e = DecodedFrom(str, f, n)
    OBVIOUS
  <2>5. PICK h : h = [i \in n..N |-> IF i = n THEN e ELSE f[i]]
    OBVIOUS
  <2>6. n \in n..N /\ h[n] = e
    BY <2>3, <2>5
  <2>7. \A i \in (n + 1)..N : h[i] = f[i]
    BY <2>3, <2>5
  <2>8. ASSUME NEW i \in n..N PROVE DecodedFrom(str, h, i) = DecodedFrom(str, f, i)
    <3>1. i <= Len(str) => i + 1 \in (n + 1)..N /\ i + 3 \in (n + 1)..N
      BY <1>0, <2>3
    <3>2. i \in Nat
      BY <2>3
    <3> QED BY <2>7, <3>1, <3>2, SameFrom
  <2>9. ASSUME NEW i \in n..N PROVE h[i] = DecodedFrom(str, h, i)
    <3>1. CASE i = n
      BY <2>4, <2>6, <2>8, <3>1
    <3>2. CASE i # n
      <4>1. i \in (n + 1)..N
        BY <2>3, <3>2
      <4>2. f[i] = DecodedFrom(str, f, i)
        BY <2>2, <2>3, <4>1
      <4> QED BY <2>7, <2>8, <4>1, <4>2
    <3> QED BY <3>1, <3>2
  <2>10. Upto(k + 1, h)
    BY <2>3, <2>9
  <2> QED BY <2>10
<1>3. \A k \in Nat : k \in G
  <2> HIDE DEF G
  <2> QED BY <1>1, <1>2, Induction
<1>4. PICK f : Upto(N, f)
  BY <1>3
<1>5. PICK g : g = [i \in 1..N |-> f[i]]
  OBVIOUS
<1>6. ASSUME NEW i \in 1..N PROVE f[i] = DecodedFrom(str, g, i)
  <2>1. i <= Len(str) => i + 1 \in 1..N /\ i + 3 \in 1..N
    BY <1>0
  <2>2. i <= Len(str) => f[i+1] = g[i+1] /\ f[i+3] = g[i+3]
    BY <1>5, <2>1
  <2>3. DecodedFrom(str, f, i) = DecodedFrom(str, g, i)
    BY <2>2, SameFrom
  <2>4. f[i] = DecodedFrom(str, f, i)
    BY <1>4
  <2> QED BY <2>3, <2>4
<1>7. IsDecoding(str, g)
  <2>1. g = [i \in 1..N |-> DecodedFrom(str, g, i)]
    BY <1>5, <1>6
  <2> QED BY <1>0, <2>1 DEF IsDecoding
<1> QED BY <1>7

LEMMA DecodeIs ==
  ASSUME NEW str, Len(str) \in Nat
  PROVE  \E from : IsDecoding(str, from) /\ UrlDecode(str) = from[1]
<1> DEFINE from == CHOOSE f : IsDecoding(str, f)
<1>1. IsDecoding(str, from)
  BY DecodingExists
<1>2. UrlDecode(str) = from[1]
  BY DEF UrlDecode, IsDecoding, DecodedFrom, ByteAt
<1> QED BY <1>1, <1>2

(* What is spelled is read.                                                *)
LEMMA SpelledIsRead ==
  ASSUME NEW link, NEW path, Spells(link, path)
  PROVE  UrlDecode(link) = path
<1> path \in Seq(Char)
  BY DEF Spells
<1>0. PICK L \in Nat : L = Len(path)
  OBVIOUS
<1>1. PICK ss : InPieces(link, path, ss)
  BY DEF Spells
<1>2. \A i \in 1..L : path[i] \in Char /\ Writes(ss[i], path[i])
  BY <1>0, <1>1 DEF InPieces
<1>3. ss \in Seq(Seq(Nat)) /\ Len(ss) = L
  BY <1>0, <1>1 DEF InPieces
<1>5. link = FlattenSeq(ss)
  BY <1>1 DEF InPieces
<1>6. link \in Seq(Nat) /\ \E start : LaidOut(link, ss, start)
  BY <1>3, <1>5, FlattenLaidOut
<1>7. PICK start : LaidOut(link, ss, start)
  BY <1>6
<1>8. /\ start \in [1..(L + 1) -> Nat] /\ start[1] = 0
      /\ \A n \in 1..L : start[n+1] = start[n] + Len(ss[n])
      /\ Len(link) = start[L + 1]
      /\ \A n \in 1..L : \A i \in 1..Len(ss[n]) : link[start[n] + i] = ss[n][i]
  BY <1>3, <1>7 DEF LaidOut
<1>9. \A m \in 1..(L + 1), n \in 1..(L + 1) : m <= n => start[m] <= start[n]
  BY <1>3, <1>7, LaidOutCovers DEF Covered
<1>10. PICK len \in Nat : len = Len(link)
  BY <1>6
<1>11. PICK from : IsDecoding(link, from) /\ UrlDecode(link) = from[1]
  BY <1>10, DecodeIs
<1>12. \A i \in 1..(len + 3) : from[i] = DecodedFrom(link, from, i)
  BY <1>10, <1>11 DEF IsDecoding
<1> DEFINE G == {k \in Nat : k <= L => from[start[(L + 1) - k] + 1] = SubSeq(path, (L - k) + 1, L)}
<1>13. 0 \in G
  <2>1. start[(L + 1) - 0] = len /\ len + 1 \in 1..(len + 3) /\ len + 1 > len /\ L - 0 = L
    BY <1>8, <1>10
  <2>2. from[len + 1] = <<>>
    BY <1>10, <1>12, <2>1 DEF DecodedFrom
  <2>3. SubSeq(path, L + 1, L) = <<>>
    BY <1>0, Cut
  <2> QED BY <2>1, <2>2, <2>3
<1>14. ASSUME NEW k \in Nat, k \in G PROVE k + 1 \in G
  <2>1. SUFFICES ASSUME k + 1 <= L
                 PROVE  from[start[(L + 1) - (k + 1)] + 1] = SubSeq(path, (L - (k + 1)) + 1, L)
    OBVIOUS
  <2>2. PICK n \in 1..L : n = L - k /\ (L + 1) - (k + 1) = n /\ (L + 1) - k = n + 1 /\ L - (k + 1) = n - 1
    BY <2>1
  <2>3. PICK s \in Nat : s = start[n]
    BY <1>8, <2>2
  <2>4. PICK p : p = ss[n]
    OBVIOUS
  <2>5. /\ start[n+1] = s + Len(p) /\ start[n+1] <= len
        /\ \A i \in 1..Len(p) : link[s + i] = p[i]
    <3>1. n + 1 \in 1..(L + 1) /\ L + 1 \in 1..(L + 1) /\ n + 1 <= L + 1
      BY <2>2
    <3>2. start[n+1] <= len
      BY <1>8, <1>9, <1>10, <3>1
    <3> QED BY <1>8, <2>3, <2>4, <3>2
  <2>6. from[start[n+1] + 1] = SubSeq(path, n + 1, L)
    BY <1>14, <2>1, <2>2
  <2>7. SubSeq(path, (n - 1) + 1, L) = <<path[n]>> \o SubSeq(path, n + 1, L)
    <3>1. PICK m \in Nat : m = n - 1 /\ m + 1 = n /\ n - m = 1 /\ m <= n
      OBVIOUS
    <3>2. n \in Nat /\ n <= L /\ L <= Len(path)
      BY <1>0
    <3>3. SubSeq(path, m + 1, n) \o SubSeq(path, n + 1, L) = SubSeq(path, m + 1, L)
      BY <3>1, <3>2, CutJoin
    <3>4. /\ SubSeq(path, m + 1, n) \in Seq(Char) /\ Len(SubSeq(path, m + 1, n)) = n - m
          /\ \A i \in 1..(n - m) : SubSeq(path, m + 1, n)[i] = path[m + i]
      BY <1>0, <3>1, <3>2, Cut
    <3>5. SubSeq(path, m + 1, n) = <<path[n]>>
      <4>1. 1 \in 1..(n - m)
        BY <3>1
      <4>2. PICK one : one = SubSeq(path, m + 1, n)
        OBVIOUS
      <4>3. one \in Seq(Char) /\ Len(one) = 1 /\ one[1] = path[n]
        BY <3>1, <3>4, <4>1, <4>2
      <4>4. PICK ch : ch = path[n]
        OBVIOUS
      <4>5. one = <<ch>>
        BY ONLY <4>3, <4>4
      <4> QED BY <4>2, <4>4, <4>5
    <3> QED BY <3>1, <3>3, <3>5
  <2>8. SUFFICES from[s + 1] = <<path[n]>> \o from[start[n+1] + 1]
    BY <2>2, <2>3, <2>6, <2>7
  <2>10. \/ Len(p) = 1 /\ p[1] = path[n] /\ path[n] # Percent
         \/ Len(p) = 3 /\ p[1] = Percent /\ StrToBin(p[2], p[3]) = path[n]
    BY <1>2, <2>4 DEF Writes
  <2>11. CASE Len(p) = 1 /\ p[1] = path[n] /\ path[n] # Percent
    <3>1. s + 1 \in 1..(len + 3) /\ ~(s + 1 > len) /\ link[s + 1] = path[n] /\ start[n+1] = s + 1
      BY <2>5, <2>11
    <3>2. from[s + 1] = <<link[s + 1]>> \o from[(s + 1) + 1]
      BY <1>10, <1>12, <2>11, <3>1 DEF DecodedFrom
    <3> QED BY <3>1, <3>2
  <2>12. CASE Len(p) = 3 /\ p[1] = Percent /\ StrToBin(p[2], p[3]) = path[n]
    <3>1. /\ s + 1 \in 1..(len + 3) /\ ~(s + 1 > len) /\ ~(s + 1 > len - 2)
          /\ s + 2 <= len /\ s + 3 <= len /\ (s + 1) + 1 = s + 2 /\ (s + 1) + 2 = s + 3
          /\ start[n+1] = s + 3 /\ (s + 3) + 1 = (s + 1) + 3
      BY <2>5, <2>12
    <3>2. link[s + 1] = Percent /\ link[s + 2] = p[2] /\ link[s + 3] = p[3]
      BY <2>5, <2>12
    <3>3. ByteAt(link, (s + 1) + 1) = p[2] /\ ByteAt(link, (s + 1) + 2) = p[3]
      BY <1>10, <3>1, <3>2 DEF ByteAt
    <3>4. from[s + 1] = <<StrToBin(ByteAt(link, (s + 1) + 1), ByteAt(link, (s + 1) + 2))>> \o from[(s + 1) + 3]
      BY <1>10, <1>12, <3>1, <3>2 DEF DecodedFrom
    <3> QED BY <2>12, <3>1, <3>3, <3>4
  <2> QED BY <2>10, <2>11, <2>12
<1>15. \A k \in Nat : k \in G
  <2> HIDE DEF G
  <2> QED BY <1>13, <1>14, Induction
<1>16. from[start[(L + 1) - L] + 1] = SubSeq(path, (L - L) + 1, L)
  BY <1>15
<1>17. from[1] = SubSeq(path, 1, L)
  <2>1. (L + 1) - L = 1 /\ (L - L) + 1 = 1 /\ start[1] + 1 = 1
    BY <1>8
  <2> QED BY <1>16, <2>1
<1>18. SubSeq(path, 1, L) = path
  BY <1>0
<1> QED BY <1>11, <1>17, <1>18

(* A path is what is up to its last slash and what is behind it.           *)
LEMMA LastSlashIs ==
  ASSUME NEW path \in Seq(Char)
  PROVE  LET i == LastSlash(path)
         IN /\ i \in 0..Len(path)
            /\ i = 0 \/ path[i] = Slash
            /\ \A j \in (i + 1)..Len(path) : path[j] # Slash
<1> DEFINE Is(i, n) == (i = 0 \/ path[i] = Slash) /\ \A j \in (i + 1)..n : path[j] # Slash
           G == {k \in Nat : k <= Len(path) => \E i \in 0..k : Is(i, k)}
<1>1. 0 \in G
  <2>1. Is(0, 0)
    OBVIOUS
  <2> QED BY <2>1
<1>2. ASSUME NEW k \in Nat, k \in G PROVE k + 1 \in G
  <2>1. SUFFICES ASSUME k + 1 <= Len(path) PROVE \E i \in 0..(k + 1) : Is(i, k + 1)
    OBVIOUS
  <2>2. PICK i \in 0..k : Is(i, k)
    BY <1>2, <2>1
  <2>3. CASE path[k+1] = Slash
    <3>1. Is(k + 1, k + 1) /\ k + 1 \in 0..(k + 1)
      BY <2>3
    <3> QED BY <3>1
  <2>4. CASE path[k+1] # Slash
    <3>1. Is(i, k + 1) /\ i \in 0..(k + 1)
      BY <2>2, <2>4
    <3> QED BY <3>1
  <2> QED BY <2>3, <2>4
<1>3. \A k \in Nat : k \in G
  <2> HIDE DEF G
  <2> QED BY <1>1, <1>2, Induction
<1>4. PICK n \in Nat : n = Len(path)
  OBVIOUS
<1>5. \E i \in 0..Len(path) : Is(i, Len(path))
  BY <1>3, <1>4
<1> QED BY <1>5 DEF LastSlash

LEMMA UrlParts ==
  ASSUME NEW url \in Seq(Char) \ {<<>>}
  PROVE  /\ Directory(url) \in Seq(Char) /\ LastName(url) \in Seq(Char)
         /\ Directory(url) \o LastName(url) = url
         /\ Last(url) = Slash => Directory(url) = url
         /\ Last(url) # Slash => LastName(url) # <<>>
<1>0. PICK i : i = LastSlash(url)
  OBVIOUS
<1>1. PICK L \in Nat : L = Len(url)
  OBVIOUS
<1>2. /\ i \in Nat /\ i <= L
      /\ i = 0 \/ url[i] = Slash
      /\ \A j \in (i + 1)..L : url[j] # Slash
  BY <1>0, <1>1, LastSlashIs
<1>3. Directory(url) = SubSeq(url, 0 + 1, i) /\ LastName(url) = SubSeq(url, i + 1, L)
  BY <1>0, <1>1 DEF Directory, LastName
<1>4. SubSeq(url, 0 + 1, L) = url
  BY <1>1
<1>5. Directory(url) \o LastName(url) = url
  <2>1. 0 <= i /\ i <= L /\ L <= Len(url) /\ 0 \in Nat
    BY <1>1, <1>2
  <2>2. SubSeq(url, 0 + 1, i) \o SubSeq(url, i + 1, L) = SubSeq(url, 0 + 1, L)
    BY <1>2, <2>1, CutJoin
  <2> QED BY <1>3, <1>4, <2>2
<1>6. L > 0 /\ Last(url) = url[L]
  BY <1>1 DEF Last
<1>7. Last(url) = Slash => Directory(url) = url
  <2>1. i # L => L \in (i + 1)..L
    BY <1>2
  <2>2. Last(url) = Slash => i = L
    BY <1>2, <1>6, <2>1
  <2> QED BY <1>3, <1>4, <2>2
<1>8. Last(url) # Slash => LastName(url) # <<>>
  <2>1. Last(url) # Slash => i # L
    BY <1>2, <1>6
  <2>2. LastName(url) = <<>> <=> i = L
    <3>1. i <= L /\ L <= Len(url) /\ i \in Nat
      BY <1>1, <1>2
    <3>2. SubSeq(url, i + 1, L) = <<>> <=> i = L
      BY <3>1, Cut
    <3> QED BY <1>3, <3>2
  <2> QED BY <2>1, <2>2
<1>9. Directory(url) \in Seq(Char) /\ LastName(url) \in Seq(Char)
  <2>1. SubSeq(url, 0 + 1, i) \in Seq(Char)
    BY <1>1, <1>2, Cut
  <2>2. SubSeq(url, i + 1, L) \in Seq(Char)
    BY <1>1, <1>2, Cut
  <2> QED BY <1>3, <2>1, <2>2
<1> QED BY <1>5, <1>7, <1>8, <1>9

LEMMA Regrouped ==
  /\ \A a, b, c \in Seq(Nat) : (a \o b) \o c = a \o (b \o c)
  /\ \A a, b, c \in Seq(Char) : (a \o b) \o c = a \o (b \o c)
<1>1. \A S : \A a, b, c \in Seq(S) : (a \o b) \o c = a \o (b \o c)
  BY SMTT(30)
<1>2. \A a, b, c \in Seq(Nat) : (a \o b) \o c = a \o (b \o c)
  BY ONLY <1>1, SMTT(30)
<1>3. \A a, b, c \in Seq(Char) : (a \o b) \o c = a \o (b \o c)
  BY ONLY <1>1, SMTT(30)
<1> QED BY <1>2, <1>3

Regroups(a, b, c, d, e) == (((a \o b) \o c) \o d) \o e = a \o ((b \o c) \o (d \o e))

LEMMA RegroupedFive ==
  \A a, b, c, d, e \in Seq(Char) : Regroups(a, b, c, d, e)
<1> TAKE a, b, c, d, e \in Seq(Char)
<1>1. \A x, y \in Seq(Char) : x \o y \in Seq(Char)
  BY ConcatProperties
<1>2. (a \o b) \o c = a \o (b \o c)
  BY SMTT(30)
<1>3. b \o c \in Seq(Char) /\ d \o e \in Seq(Char) /\ a \o (b \o c) \in Seq(Char)
  BY <1>1, Zenon
<1>4. \A x \in Seq(Char) : (x \o d) \o e = x \o (d \o e)
  BY SMTT(30)
<1>5. \A x, y \in Seq(Char) : (a \o x) \o y = a \o (x \o y)
  BY SMTT(30)
<1>6. ((a \o (b \o c)) \o d) \o e = (a \o (b \o c)) \o (d \o e)
  BY ONLY <1>3, <1>4, Zenon
<1>7. (a \o (b \o c)) \o (d \o e) = a \o ((b \o c) \o (d \o e))
  BY ONLY <1>3, <1>5, Zenon
<1>8. (((a \o b) \o c) \o d) \o e = a \o ((b \o c) \o (d \o e))
  BY ONLY <1>2, <1>6, <1>7, Zenon
<1> QED BY <1>8, Zenon DEF Regroups

(* The link of an entry in the menu of a directory, decoded, is what it is *)
(* meant for, whatever bytes the names have and however long they are, if  *)
(* the directory was asked for with a slash at the end or under its own    *)
(* name and that needs no coding (HttpFileManager.cpp:76-82, 127, 143-152, *)
(* HttpSession.cpp:65, strCoding.cpp:48-85).                               *)
THEOREM LinkDecoded ==
  ASSUME NEW url \in Seq(Char) \ {<<>>}, LinksWritten(url),
         NEW path, Last(path) \in Seq(Char)
  PROVE  UrlDecode(Link(url, path)) = Entry(url, path)
<1>1. PICK dir, own, name, end :
        dir = Directory(url) /\ own = LastName(url) /\ name = Last(path) /\ end = SlashIfDir(path)
  OBVIOUS
<1>2. /\ dir \in Seq(Char) /\ own \in Seq(Char) /\ dir \o own = url
      /\ Last(url) = Slash => dir = url
      /\ Last(url) # Slash => own # <<>>
  BY <1>1, UrlParts
<1>3. Spells(Escaped(dir), dir)
  BY <1>2, EscapedSpells
<1>4. Spells(UrlEncode(name), name)
  BY <1>1, EncodedSpells
<1>5. Spells(end, end)
  BY <1>1, SlashSpells DEF SlashIfDir
<1>6. PICK tail : tail = UrlEncode(name) \o end
  OBVIOUS
<1>7. PICK named : named = name \o end
  OBVIOUS
<1>8. Spells(tail, named) /\ named \in Seq(Char) /\ tail \in Seq(Nat)
  BY <1>4, <1>5, <1>6, <1>7, SpellsJoin, SpelledBytes DEF Spells
<1>9. CASE Last(url) = Slash
  <2>1. GetFilePath(url).slash
    <3>1. PICK text : text = ReplaceAll(url, Backslash, Slash)
      OBVIOUS
    <3>2. Len(text) = Len(url) /\ Len(url) \in 1..Len(url) /\ text[Len(url)] = Slash
      BY <1>9, <3>1 DEF ReplaceAll, Last
    <3>3. Last(text) = Slash
      BY <3>2 DEF Last
    <3> QED BY <3>1, <3>3 DEF GetFilePath, AbsolutePath
  <2>2. Link(url, path) = Escaped(dir) \o tail
    <3>1. LastDirName(GetFilePath(url)) = <<>>
      BY <2>1 DEF LastDirName
    <3>2. Href(GetFilePath(url), path) = (<<>> \o UrlEncode(name)) \o end
      BY <1>1, <3>1 DEF Href
    <3>3. UrlEncode(name) \in Seq(Nat)
      BY <1>4, SpelledBytes
    <3>4. <<>> \o UrlEncode(name) = UrlEncode(name)
      BY <3>3
    <3> QED BY <1>1, <1>6, <3>2, <3>4 DEF Link
  <2>3. Spells(Link(url, path), dir \o named)
    BY <1>3, <1>8, <2>2, SpellsJoin
  <2>4. Entry(url, path) = dir \o named
    <3>1. Entry(url, path) = (url \o name) \o end
      BY <1>1, <1>9 DEF Entry, PathCat
    <3>2. url \in Seq(Char) /\ name \in Seq(Char) /\ end \in Seq(Char)
      BY <1>1, <1>5 DEF Spells
    <3>3. (url \o name) \o end = url \o (name \o end)
      BY ONLY Regrouped, <3>2, Zenon
    <3> QED BY <1>2, <1>7, <1>9, <3>1, <3>3
  <2> QED BY <2>3, <2>4, SpelledIsRead
<1>10. CASE Last(url) # Slash
  <2>1. own = LastDirName(GetFilePath(url)) /\ UrlEncode(own) = own /\ own # <<>>
    BY <1>1, <1>2, <1>10 DEF LinksWritten
  <2>2. Spells(own, own)
    BY <1>2, <2>1, EncodedSpells
  <2>3. PICK slash : slash = <<Slash>>
    OBVIOUS
  <2>4. Spells(own \o slash, own \o slash)
    BY <2>2, <2>3, SlashSpells, SpellsJoin
  <2>5. /\ own \in Seq(Nat) /\ slash \in Seq(Nat) /\ UrlEncode(name) \in Seq(Nat) /\ end \in Seq(Nat)
        /\ slash \in Seq(Char) /\ name \in Seq(Char) /\ end \in Seq(Char)
    BY <1>1, <1>4, <1>5, <2>2, <2>3, SlashSpells, SpelledBytes DEF Spells
  <2>6. Link(url, path) = Escaped(dir) \o ((own \o slash) \o tail)
    <3>1. Href(GetFilePath(url), path) = ((own \o slash) \o UrlEncode(name)) \o end
      BY <1>1, <2>1, <2>3 DEF Href
    <3>2. PICK a, b : a = own \o slash /\ b = UrlEncode(name)
      OBVIOUS
    <3>3. a \in Seq(Nat) /\ b \in Seq(Nat) /\ end \in Seq(Nat)
      BY <2>5, <3>2
    <3>4. (a \o b) \o end = a \o (b \o end)
      BY ONLY Regrouped, <3>3, ZenonT(40)
    <3>5. Href(GetFilePath(url), path) = (own \o slash) \o tail
      BY ONLY <1>6, <3>1, <3>2, <3>4, Zenon
    <3>6. Link(url, path) = Escaped(dir) \o Href(GetFilePath(url), path)
      BY <1>1 DEF Link
    <3> QED BY ONLY <3>5, <3>6, Zenon
  <2>7. Spells(Link(url, path), dir \o ((own \o slash) \o named))
    BY <1>3, <1>8, <2>4, <2>6, SpellsJoin
  <2>8. Entry(url, path) = dir \o ((own \o slash) \o named)
    <3>1. Entry(url, path) = (((dir \o own) \o slash) \o name) \o end
      BY <1>1, <1>2, <1>10, <2>3 DEF Entry, PathCat
    <3>2. (((dir \o own) \o slash) \o name) \o end = dir \o ((own \o slash) \o (name \o end))
      <4>1. dir \in Seq(Char) /\ own \in Seq(Char) /\ slash \in Seq(Char) /\ name \in Seq(Char) /\ end \in Seq(Char)
        BY <1>2, <2>5
      <4>2. Regroups(dir, own, slash, name, end)
        BY RegroupedFive, <4>1
      <4> QED BY ONLY <4>2 DEF Regroups
    <3> QED BY <1>7, <3>1, <3>2
  <2> QED BY <2>7, <2>8, SpelledIsRead
<1> QED BY <1>9, <1>10

Leads(r) == LinksWritten(r.menu) => r.url = r.meant \/ r.url = PathCat(r.meant, IndexFile)

LinksInv == DOMAIN req = Sessions /\ \A s \in Sessions : Leads(req[s])

LEMMA LinksStep == LinksInv /\ [Next]_vars => LinksInv'
<1> SUFFICES ASSUME LinksInv, [Next]_vars PROVE LinksInv'
  OBVIOUS
<1>1. ASSUME UNCHANGED req PROVE LinksInv'
  BY <1>1 DEF LinksInv
<1>2. ASSUME NEW s \in Sessions, NEW r, req' = [req EXCEPT ![s] = r], Leads(r)
      PROVE  LinksInv'
  BY <1>2 DEF LinksInv
<1>3. ASSUME NEW s \in Sessions, NEW ask, NEW uid, NEW c, OnAccessPath(s, ask, uid, c),
             LinksWritten(ask.menu) => UrlDecode(ask.link) = ask.meant
      PROVE  LinksInv'
  <2>1. PICK url, where : /\ url = UrlDecode(ask.link) \/ url = PathCat(UrlDecode(ask.link), IndexFile)
                          /\ req' = [req EXCEPT ![s] =
                               [menu |-> ask.menu, meant |-> ask.meant, url |-> url, file |-> where,
                                uid |-> uid, cookie |-> c]]
    <3>1. \/ KindOf(GetFilePath(UrlDecode(ask.link))) = "index"
          \/ KindOf(GetFilePath(UrlDecode(ask.link))) # "index"
      OBVIOUS
    <3> QED BY <1>3, <3>1 DEF OnAccessPath, Url
  <2>2. PICK r : r = [menu |-> ask.menu, meant |-> ask.meant, url |-> url, file |-> where,
                      uid |-> uid, cookie |-> c]
    OBVIOUS
  <2>3. r.menu = ask.menu /\ r.meant = ask.meant /\ r.url = url
    BY <2>2
  <2> HIDE DEF LinksInv
  <2>4. Leads(r)
    BY <1>3, <2>1, <2>3 DEF Leads
  <2> QED BY <1>2, <2>1, <2>2, <2>4
<1>9. ASSUME NEW s \in Sessions, Requests(s, Typed) PROVE LinksInv'
  <2>1. PICK ask \in Typed : \E uid, c : OnAccessPath(s, ask, uid, c)
    BY <1>9 DEF Requests
  <2>2. PICK url \in Wanted : ask = [link |-> Escaped(url), menu |-> <<>>, meant |-> url]
    BY <2>1 DEF Typed
  <2>3. ask.link = Escaped(url) /\ ask.meant = url /\ url \in Seq(Char)
    BY <2>2, WantedAssumption DEF Char
  <2>4. UrlDecode(ask.link) = ask.meant
    BY <2>3, EscapedSpells, SpelledIsRead
  <2> QED BY <1>3, <2>1, <2>4
<1>10. ASSUME NEW s \in Sessions, Requests(s, Clicked) PROVE LinksInv'
  <2>1. PICK ask \in Clicked : \E uid, c : OnAccessPath(s, ask, uid, c)
    BY <1>10 DEF Requests
  <2>2. PICK l \in Links : ask = [link |-> Link(l[1], l[2]), menu |-> l[1], meant |-> Entry(l[1], l[2])]
    BY <2>1 DEF Clicked
  <2>3. PICK url, path : url = l[1] /\ path = l[2]
    OBVIOUS
  <2>4. url \in Wanted /\ path \in Paths /\ path # <<>>
    BY <2>2, <2>3 DEF Links, Menus, Listed
  <2>5. url \in Seq(Char) \ {<<>>} /\ Last(path) \in Seq(Char)
    BY <2>4, WantedAssumption, NameAssumption DEF Char
  <2>6. ask.link = Link(url, path) /\ ask.menu = url /\ ask.meant = Entry(url, path)
    BY <2>2, <2>3
  <2>7. LinksWritten(ask.menu) => UrlDecode(ask.link) = ask.meant
    BY <2>5, <2>6, LinkDecoded
  <2> QED BY <1>3, <2>1, <2>7
<1>4. ASSUME NEW s \in Sessions, BodyDropped(s) PROVE LinksInv'
  <2>1. req' = [req EXCEPT ![s] = NoRequest]
    BY <1>4 DEF BodyDropped
  <2>2. Leads(NoRequest)
    BY DEF NoRequest, Leads
  <2> QED BY <1>2, <2>1, <2>2
<1>5. ASSUME NEW s \in Sessions, Handle(s) PROVE UNCHANGED req
  BY <1>5 DEF Handle, ByCookie, ByUid, OldestOfUid, Allowed, Refused, Broadcast, Returns,
              AnswerText, AnswerFile, AnswerNobody, CallbackEnds,
              BodyShares, BodyOpens, BodyRegisters, BodyMapFails, BodyMaps, accessVars
<1>6. ASSUME NEW s \in Sessions, Invoke(s) PROVE UNCHANGED req
  BY <1>6 DEF Invoke, InvokeForLife, InvokeOnce
<1>7. ASSUME NEW s \in Sessions, Deleter(s) \/ PeerGone(s) PROVE UNCHANGED req
  BY <1>7 DEF Deleter, PeerGone, accessVars
<1>8. CookieTimer \/ UNCHANGED vars => UNCHANGED req
  BY DEF CookieTimer, vars, accessVars
<1> QED BY <1>1, <1>4, <1>5, <1>6, <1>7, <1>8, <1>9, <1>10 DEF Next

(* Every link of a directory menu leads to its file, or to the index of    *)
(* its directory, whatever signs the names have, but for the menu of a     *)
(* directory asked for without its slash under a name that needs coding or *)
(* is not the directory's (HttpFileManager.cpp:76-82, 127, 143-152,        *)
(* HttpSession.cpp:65).                                                    *)
THEOREM MenusLead == Spec => []LinksLead
<1>1. Init => LinksInv
  BY DEF Init, LinksInv, Leads, NoRequest
<1>2. LinksInv => LinksLead
  BY DEF LinksInv, Leads, LinksLead
<1> QED BY <1>1, <1>2, LinksStep, PTL DEF Spec
=============================================================================
