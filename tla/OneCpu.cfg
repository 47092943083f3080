SPECIFICATION FairSpec
CONSTANTS
  t1 = t1
  t2 = t2
  c1 = c1
  NoThread = NoThread
  NoCpu = NoCpu
  Threads = {t1, t2}
  Cpus = {c1}
  MaxPriority = 1
  MaxSuspend = 1
  Movable = {}
  Suspendable = {}
  Killable = {}
  Reprioritised = {t1}
  Waiting = {t1, t2}
  Offloading = {t1}
  Crashing = {t1}
  Quantum = TRUE
INVARIANTS NoStrand YielderIsQueued
PROPERTIES Preempts SpinnersGiveWay
CHECK_DEADLOCK FALSE
