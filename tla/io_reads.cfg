CONSTANTS
  t1 = t1
  t2 = t2
  section = section
  inner = inner
  tail = tail
  plain = plain
  nested = nested
  key = key
  key2 = key2
  Threads = {t1, t2}
  Nobody = Nobody
  Nodes <- MCNodes
  Layers <- MCLayers
  Ciphers = {key, key2}
  FileLen = 9
  Block = 2
  Depth = 4
  MayRead <- OwnNodes
  MaxSize = 3
  MaxReads = 1
SPECIFICATION FairSpec
INVARIANT TypeOK
INVARIANT ReadsCorrect
PROPERTY ReadReturns
