SPECIFICATION Spec
CONSTANTS
  t1 = t1
  t2 = t2
  h1 = h1
  h2 = h2
  n1 = n1
  none = none
  Threads = {t1, t2}
  Handles = {h1, h2}
  MaxObjects = 2
  MaxCount = 2
  MaxOpen = 2
  Names = {n1}
  Modes = {"serial", "any"}
  None = none
SYMMETRY Alike
INVARIANTS TypeOK RefsExact HandlesMatchTable OpenResolves NamesFirst
CHECK_DEADLOCK FALSE
