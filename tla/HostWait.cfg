SPECIFICATION FairSpec
CONSTANTS
  t1 = t1
  t2 = t2
  t3 = t3
  Threads = {t1, t2, t3}
  Timed = {t1}
  MaxCount = 2
  MaxTickets = 4
  Modes = {"handoff", "legacy", "manual"}
INVARIANTS TypeOK TicketsAccounted NoSleepOnSignal
PROPERTIES ServesInOrder CountReachesWaiter ReleasedReturns
CHECK_DEADLOCK FALSE
