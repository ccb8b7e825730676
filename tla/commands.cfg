CONSTANTS
  w1 = w1
  w2 = w2
  Folders <- MCFolders
  Files <- MCFiles
  RootFolder = "root"
  Kids <- MCKids
  Leaves <- MCLeaves
  Requests <- MCRequests
  Matching = {"s", "f", "d"}
  MaxDepth = 5
  Workers = {w1, w2}
  Size <- MCSize
  Ciphered <- MCCiphered
  Bare <- MCBare
  Chunk = 2
  MaxItems = 12
SPECIFICATION DumpFair
INVARIANT DumpTypeOK
INVARIANT VisitsExact
INVARIANT CountExact
INVARIANT JobsReady
INVARIANT DumpExact
INVARIANT NothingHalf
PROPERTY RunEnds
CHECK_DEADLOCK FALSE
