SPECIFICATION Spec
SYMMETRY Symmetry
CONSTANTS
  s1 = s1
  s2 = s2
  Holders = {s1, s2}
  Users = {s1, s2}
  Uids = {u1}
  NoUid = NoUid
  MaxClient = 1
  MaxCookies = 2
  Files <- Leaf
  Addrs = {a1, a2}
  Blocks = {b1, b2, b3}
  None = None
  Kind <- Tree
  IndexFile <- Index
  RootName <- Www
  Wanted <- MCUrls
  MaxRequests = 3
CHECK_DEADLOCK FALSE
INVARIANTS
  LinksLead
  NoLeak
  ClientLimit
  MappedWhileUsed
  NoStaleRecord
  GrantedOnly
