SPECIFICATION Spec
CONSTANTS
  t1 = t1
  t2 = t2
  c1 = c1
  c2 = c2
  NoThread = NoThread
  NoCpu = NoCpu
  Threads = {t1, t2}
  Cpus = {c1, c2}
  MaxPriority = 0
  MaxSuspend = 1
  Movable = {t1}
  Suspendable = {t1}
  Killable = {t1}
  Reprioritised = {}
  Waiting = {t1, t2}
  Offloading = {}
  Crashing = {}
  Quantum = FALSE
SYMMETRY CpuSymmetry
INVARIANTS TypeOK OneList OneOwner  NoStrand NoSleepOnWork
 
CHECK_DEADLOCK FALSE
