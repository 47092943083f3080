SPECIFICATION FairSpec
CONSTANTS
  t1 = t1
  t2 = t2
  t3 = t3
  c1 = c1
  NoThread = NoThread
  NoCpu = NoCpu
  Threads = {t1, t2, t3}
  Cpus = {c1}
  MaxPriority = 1
  MaxSuspend = 1
  Movable = {}
  Suspendable = {}
  Killable = {}
  Reprioritised = {}
  Waiting = {}
  Offloading = {}
  Crashing = {}
  Quantum = TRUE
PROPERTIES SpinnersGiveWay
CHECK_DEADLOCK FALSE
