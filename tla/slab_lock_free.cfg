\* Three threads that hold one reference each, on a pool that starts with one
\* chunk: two of them find every block full at once and grow the pool together.
\* malloc gives blocks of one and two chunks and refuses larger ones, so palloc
\* also returns NULL.
CONSTANTS
  Thread = {t1, t2, t3}
  Capacity = 1
  MaxBlocks = 3
  MaxCapacity = 2
  MallocMayFail = FALSE
  MaxHeld = 1
SPECIFICATION Spec
SYMMETRY Symmetry
VIEW LiveView
INVARIANTS
  BusyOwned
  PushInBounds
  PrivateUntilLinked
  Exclusive
  Conserved
  RingCovers
  MaxCapacityTracks
PROPERTY ImplementsChunkPool
