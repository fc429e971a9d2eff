\* A pool spawned with min = 0, the only one that grows, two clients that grow
\* it at once, four tasks of which one has no pointer, and up to two spurious
\* wakeups.
CONSTANTS
  MinOpen = 0
  MaxOpen = 2
  Client = {c1, c2}
  Task = {k1, k2, k3, k0}
  NoTask = NoTask
  NullTask = k0
  NoClient = NoClient
  MaxSpurious = 2
SPECIFICATION ConsumersSpec
SYMMETRY Symmetry
CHECK_DEADLOCK FALSE
INVARIANTS
  OpenExact
  AtMostOnce
  OfferedOnce
