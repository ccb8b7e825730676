CONSTANTS
  t1 = t1
  t2 = t2
  Threads = {t1, t2}
  None = None
  Trees <- MCTrees
  HeaderLen <- MCHeaderLen
  MetaLen <- MCMetaLen
  Partitions = {"update", "normal", "secure", "logo"}
  MatchLen = 2
  Lens = {2}
  CallBound <- MCCallBound
  FaultBound = 1
SPECIFICATION Spec
INVARIANT TypeOK
INVARIANT FilesExact
INVARIANT ArchivesExact
INVARIANT NamesFound
INVARIANT ReadsRight
CHECK_DEADLOCK FALSE
