\* One worker that may grow to three, and three tasks of which one has no
\* pointer; no symmetry, for the liveness property.  Two clients that grow the
\* pool at once are in consumer_producer.cfg.
CONSTANTS
  MinOpen = 1
  MaxOpen = 3
  Client = {c1}
  Task = {k1, k2, k0}
  NoTask = NoTask
  NullTask = k0
  NoClient = NoClient
  WaiterMod = 8
SPECIFICATION FairSpec
INVARIANTS
  OneLeader
  WaitersExact
  EachTaskOnce
PROPERTY TasksHandled
