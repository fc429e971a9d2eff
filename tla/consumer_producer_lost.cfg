\* Two consumers and no spurious wakeup: is every assigned task executed?
CONSTANTS
  MinOpen = 2
  MaxOpen = 2
  Client = {c1}
  Task = {k1, k2}
  NoTask = NoTask
  NullTask = NullTask
  NoClient = NoClient
  MaxSpurious = 0
SPECIFICATION ConsumersFairSpec
CHECK_DEADLOCK FALSE
PROPERTY TasksHandled
