SPECIFICATION Spec
CONSTANTS
  t1 = t1
  t2 = t2
  none = none
  Titles = {t1, t2}
  MaxClients = 1
  QueuedFrames = 1
  TopUpBelow = 1
  MaxDrivers = 2
  MaxQueued = 3
  Modes = {"orderly", "unruly"}
  None = none
SYMMETRY Alike
INVARIANTS TypeOK QueueBounded DriverOutlivesCallback PauseMeansParked
CHECK_DEADLOCK FALSE
