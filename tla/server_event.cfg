\* Three connections and three eventinfos, so that one is reused while a signal
\* of its last use is still to come; one handler to begin with and two more to
\* be opened, one above min.  balance is taken modulo 8.  The system stops when
\* every connection has come and gone.
CONSTANTS
  Conn = {c1, c2, c3}
  Info = {e1, e2, e3}
  Min = 1
  Max = 3
  Width = 8
  Null = Null
SPECIFICATION Spec
SYMMETRY Symmetry
CHECK_DEADLOCK FALSE
INVARIANTS
  Registered
  BalanceAccounts
  EarlyOnlyIfStruck
