CONSTANTS
  t1 = t1
  t2 = t2
  Threads = {t1, t2}
  Nobody = Nobody
  Images <- MCImages
SPECIFICATION FairSpec
INVARIANT ListsExact
INVARIANT FoundRight
INVARIANT TreeExact
INVARIANT EntriesExact
INVARIANT RaceFree
INVARIANT StaysPut
PROPERTY HandlerEnds
CHECK_DEADLOCK FALSE
