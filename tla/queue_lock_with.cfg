\* A thread that pushes and two that pop, with the blocking and the
\* non-blocking call, on three entries, one of them the dummy.  trypush, which
\* signals nobody, is left out: NoLostWakeup and PopReturns do not hold with it.
\* The system stops when the queue is destroyed, or when a popper waits for the
\* mutex that pop keeps then.
CONSTANTS
  Pusher = {p1}
  Popper = {c1, c2}
  PushOps = {"push"}
  PopOps = {"pop", "trypop"}
  Value = {v1, v2}
  Node = {n1, n2, n3}
  Null = Null
  NoThread = NoThread
SPECIFICATION FairSpec
CHECK_DEADLOCK FALSE
INVARIANTS
  NodesAccounted
  NoLostWakeup
PROPERTIES
  ImplementsFifo
  PopReturns
