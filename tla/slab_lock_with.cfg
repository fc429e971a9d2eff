\* Two threads that hold up to two chunks each on a pool that grows twice, to a
\* ring of three blocks with seven chunks.  malloc may refuse either block; the
\* mutex then stays locked and the system stops, which is why deadlock is not
\* an error here.
CONSTANTS
  Thread = {t1, t2}
  NoThread = NoThread
  Capacity = 1
  MaxBlocks = 3
  MaxCapacity = 4
  MallocMayFail = TRUE
  MaxHeld = 2
SPECIFICATION Spec
SYMMETRY Symmetry
VIEW LiveView
CHECK_DEADLOCK FALSE
INVARIANTS
  IInv
  UsageExact
  GrowsWhenFull
PROPERTY ImplementsChunkPool
