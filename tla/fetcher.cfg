SPECIFICATION FairSpec
CONSTANTS
  Threads = {t1, t2}
  Ids = {1, 2}
  Addresses = {a, b}
  NoAddress = NoAddress
  Limits = {0, 2}
  Modulus = 4
INVARIANTS
  TypeOK
  OneFetcher
  UrlIsCurrent
  EndsOnlyWhenAsked
PROPERTIES
  StopEnds
  GivesUp
