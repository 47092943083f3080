SPECIFICATION Spec
CONSTANTS
  s1 = s1
  NumCpus = 1
  Signallers = {s1}
  MaxSignals = 1
INVARIANTS WakeNotLost
CHECK_DEADLOCK FALSE
