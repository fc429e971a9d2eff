\* Three readers and four connections, so that a reader serves more than one,
\* connections wait while all readers are busy, and readers crash.  The system
\* stops when all connections are served or no reader is left.
CONSTANTS
  N = 3
  Socket = {c1, c2, c3, c4}
  NoSocket = NoSocket
SPECIFICATION FairSpec
CHECK_DEADLOCK FALSE
INVARIANT EachConnectionOnce
PROPERTY AcceptedServed
