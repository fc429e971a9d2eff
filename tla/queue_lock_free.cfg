\* Three threads push and pop in any division.  The states after an entry is pushed
\* again under a pointer to it are cut off, where the properties end.
\* A popper may miss a signal and sleep for ever, so the system may stop.
CONSTANTS
  Thread = {t1, t2, t3}
  Crews <- AllCrews
  PushOps = {"push", "trypush"}
  PopOps = {"pop", "trypop"}
  Value = {v1, v2}
  Node = {n1, n2, n3}
  Null = Null
SPECIFICATION Spec
SYMMETRY Symmetry
VIEW LiveView
CONSTRAINT BeforeReuse
CHECK_DEADLOCK FALSE
INVARIANTS
  NodesAccounted
  TailListed
PROPERTIES
  ReusedOnlyCrowded
  ImplementsFifo
