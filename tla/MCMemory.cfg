CONSTANTS
  t1 = t1
  t2 = t2
  x1 = x1
  x2 = x2
  x3 = x3
  x4 = x4
  a1 = a1
  a2 = a2
  a3 = a3
  Null = Null
  Threads <- MCThreads
  Callers <- MCThreads
  Users = {u1}
  Actors <- MCThreads
  Refs <- MCRefs
  Addresses <- MCAddresses
  Sizes = {1, 2}
  MaxId = 3
  Requests <- MCRequests
  StableCapacity = 6
  ChunkSize = 2
  ChunkFactor = 4
  Bases = {0, 1}
  MaxChunks = 3
  Clients <- MCThreads
  Standard <- MCStandard
  Names <- MCNames
  Things = {p1, p2}
  Nobody = Nobody
  MaxHandles = 2
  InitialHeap = 2
  SmallestHeap = 4
  WordBytes = 2
  Counts = {0, 1, 3, 6}
  MaxObjects = 4
SPECIFICATION Spec
INVARIANTS
  RegionsTypeOK
  RefcountExact
  ListsMatchAllocator
  UsedExact
  CapabilityKept
  StableApart
  ArenaApart
  NumbersKept
  HeapApart
PROPERTIES
  ImplementsShared
  NoRevival
SYMMETRY
  MCSymmetry
