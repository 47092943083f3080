SPECIFICATION FairSpec
CONSTANTS
  s1 = s1
  s2 = s2
  NumCpus = 1
  Signallers = {s1, s2}
  MaxSignals = 3
PROPERTIES PermitsTaken
CHECK_DEADLOCK FALSE
