\* Keys of three bytes with two values each, and up to four entries: deep
\* enough for a leaf to be moved up over two levels.
CONSTANTS
  Byte = {0, 1}
  KeySize = 3
  Entry = {e1, e2, e3, e4}
  Root = Root
  Pointer = {p1, p2}
  Null = Null
SPECIFICATION Spec
VIEW LiveView
INVARIANTS
  TreeShape
  GetFinds
PROPERTY ImplementsTable
