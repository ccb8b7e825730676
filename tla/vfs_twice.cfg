CONSTANTS
  k1 = k1
  k2 = k2
  h1 = h1
  h2 = h2
  Threads = {h1, h2}
  Nobody = Nobody
  Containers <- MCContainers
  NoContainer = NoContainer
  Root = "nsp"
  Archive <- MCArchive
  MaxCalls = 1
SPECIFICATION Spec
INVARIANT ListingAlwaysExact
CHECK_DEADLOCK FALSE
