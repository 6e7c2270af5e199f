SPECIFICATION FairSpec
CONSTANTS
  Urls <- MCUrls
  Kinds <- MCKinds
  MaxStarts = 2
  MaxRedirects = 1
CHECK_DEADLOCK FALSE
INVARIANTS
  WholeBody
  OneEnd
  OwnCookies
PROPERTIES
  Reported
