\* Two connections and a third socket to replace one that fails, a packet of
\* one block and one of two; the network resets one connection, one callback
\* refuses, one call reports EAGAIN, and one more when the reply is read.  The
\* system may stop: all packets may be confirmed, or wait for a connection
\* whose receiver reads no more.  The buffers of the two packets differ, and
\* the hash functions are compared on keys of 0 to 26 bytes of each.
CONSTANTS
  Blocks <- OneAndTwo
  MaxSocket = 3
  Replicate = 1
  MaxBreaks = 1
  MaxInterrupts = 1
  MaxSpurious = 1
  SpuriousAt = {"send", "recv", "answer"}
  MaxBlind = 1
  Memories <- Contents
  MaxLength = 26
SPECIFICATION Spec
CHECK_DEADLOCK FALSE
INVARIANTS
  Accounted
  Intact
  ConfirmedArrived
  SameFingerprint
