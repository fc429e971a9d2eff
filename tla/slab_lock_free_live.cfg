\* Two threads, under fair scheduling of each; malloc may fail at any time.
CONSTANTS
  Thread = {t1, t2}
  Capacity = 1
  MaxBlocks = 2
  MaxCapacity = 2
  MallocMayFail = TRUE
  MaxHeld = 1
SPECIFICATION FairSpec
PROPERTY Progress
