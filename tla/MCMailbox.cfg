CONSTANTS
  t1 = t1
  t2 = t2
  NoTag = NoTag
  MaxCapacity = 8
  MaxSends = 9
  Tags <- MCTags
  Traffic <- MCTraffic
SPECIFICATION Spec
INVARIANTS
  TypeOK
  LenAgrees
  Conservation
  TypedLookupMatchesScan
PROPERTIES
  FifoExceptOverflow
  ImplementsInbox
