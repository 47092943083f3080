SPECIFICATION FairSpec
CONSTANTS
  t1 = t1
  t2 = t2
  t3 = t3
  NoThread = NoThread
  Threads = {t1, t2, t3}
  Waiters = {t1, t2}
  Killable = {t1}
  Kinds = {"semaphore", "event", "manual", "mutant"}
  Limit = 2
  MaxHold = 2
INVARIANTS TypeOK WakeAnnounced Exclusive NoGhostWaiter
PROPERTIES NoStarvation
CHECK_DEADLOCK FALSE
