SPECIFICATION Spec
CONSTANTS
  s1 = s1
  s2 = s2
  NumCpus = 2
  Signallers = {s1, s2}
  MaxSignals = 2
SYMMETRY SignallerSymmetry
INVARIANTS TypeOK WakeNotLostBesideOthers NoSleepThroughWake
CHECK_DEADLOCK FALSE
