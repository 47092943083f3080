------------------------ MODULE SchedulerLifeProofs ------------------------
(***************************************************************************)
(* Proofs about the life of a guest thread: nothing refers to a freed      *)
(* thread, a live thread always has someone to make it run, a dispatch     *)
(* thread does not sleep on work, and the scheduler implements             *)
(* DispatchContract.tla.                                                   *)
(*                                                                         *)
(* Life(t) relates what the threads that suspend, resume and terminate |t| *)
(* have done so far to where |t| is; Slot(c) relates the thread pointers   *)
(* of a dispatch thread to the step it is at.  Both hold of every state    *)
(* together with LinkInv.                                                  *)
(***************************************************************************)
EXTENDS GuestSchedulerProofs

Ended == {"dead", "crashed"}

\* |t| will not run again: it was freed, or its fiber ended.
Over(t) == reclaimed[t] \/ at[t] \in Ended

Life(t) ==
  \* nobody is about to queue a thread that is over
  /\ Over(t) => ~Listed(t) /\ resumer[t] \notin {"create", "enqueue"} /\ kstate[t] = "terminated"
  /\ reclaimed[t] => ~running[t]
  /\ at[t] = "dead" /\ ~running[t] => reclaimed[t]
  /\ running[t] => ~suspended[t]
  \* a Terminate excludes a Resume until it has detached the thread
  /\ terminator[t] = "detach" => resumer[t] = "idle" /\ (~hasRun[t] => kstate[t] = "terminated")
  /\ kstate[t] = "terminated" => terminator[t] = "detach" \/ terminatePending[t] \/ Over(t)
  \* a terminated thread is on its way to its end
  /\ terminatePending[t] => Over(t) \/ queued[t] \/ blocked[t] \/ running[t]
  /\ ~Over(t) => \/ Listed(t) \/ running[t] \/ resumer[t] # "idle"
                 \/ suspendCount[t] > 0 /\ ~hasRun[t] /\ ~terminatePending[t]
  /\ suspended[t] => suspendCount[t] > 0 \/ resumer[t] = "unlink"

LifeInv == \A t \in Threads : Life(t)

\* The steps at which a fiber runs on the dispatch thread, or has just left it.
OnFiber == {"fiber", "back"}

Slot(c) ==
  /\ current[c] = IF pc[c] \in OnFiber THEN owned[c] ELSE NoThread
  /\ exited[c] # NoThread => pc[c] = "back" /\ exited[c] = owned[c] /\ at[owned[c]] = "dead"
  /\ owned[c] # NoThread /\ at[owned[c]] \in Ended =>
       pc[c] = "back" /\ (at[owned[c]] = "dead" => exited[c] = owned[c])
  /\ pc[c] \in OnFiber => hasRun[owned[c]]
  /\ pc[c] = "back" => at[owned[c]] \in Ended \/ Listed(owned[c])

SlotInv == \A c \in Cpus : Slot(c)

-----------------------------------------------------------------------------
(* The threads that a step handles, off the lists.                         *)

\* A dispatch thread at a step that uses a thread owns it; no list has it unless
\* it has just left the CPU.
LEMMA OwnedTarget ==
  ASSUME LinkInv, NEW c \in Cpus, pc[c] \in Busy
  PROVE  /\ owned[c] \in Threads /\ running[owned[c]] /\ cpu[owned[c]] = c
         /\ pc[c] # "back" => ~Listed(owned[c])
BY BusyOwner, ConstantsAssumption DEF OneOwner, LinkInv

\* EnqueueReady by a host thread or by another fiber leaves a running thread to
\* its own yield.
LEMMA EnqueueReadyElsewhere ==
  ASSUME LinkInv, NEW t \in Threads, NEW c \in Cpus, EnqueueReady(t, c, NoCpu)
  PROVE  \/ /\ Listed(t) \/ running[t]
            /\ UNCHANGED <<queued, cpu, event>>
         \/ /\ ~Listed(t) /\ ~running[t]
            /\ queued' = [queued EXCEPT ![t] = TRUE]
            /\ cpu' = [cpu EXCEPT ![t] = c]
            /\ event' = Poked(c)
<1>1. running[t] => cpu[t] # NoCpu
  BY ConstantsAssumption DEF LinkInv, OneOwner
<1>2. OwnsItsWakeUp(t, NoCpu) <=> Listed(t) \/ running[t]
  BY <1>1 DEF OwnsItsWakeUp, Listed
<1>3. CASE OwnsItsWakeUp(t, NoCpu)
  BY <1>2, <1>3 DEF EnqueueReady
<1>4. CASE ~OwnsItsWakeUp(t, NoCpu)
  BY <1>2, <1>4 DEF EnqueueReady, LinkAtHeadIfPreempted, LinkReadyLocked
<1> QED
  BY <1>3, <1>4

-----------------------------------------------------------------------------
(* Every step keeps LifeInv.                                               *)

lifeOf(t) == <<queued[t], blocked[t], suspended[t], running[t], at[t], reclaimed[t], resumer[t],
               terminator[t], kstate[t], hasRun[t], terminatePending[t], suspendCount[t]>>

LEMMA SameLife ==
  ASSUME NEW t \in Threads, Life(t), lifeOf(t)' = lifeOf(t)
  PROVE  Life(t)'
BY DEF Life, lifeOf, Over, Listed

\* A step that concerns one thread only.
LEMMA OneLife ==
  ASSUME LifeInv, NEW t \in Threads, Life(t)',
         \A u \in Threads \ {t} : lifeOf(u)' = lifeOf(u)
  PROVE  LifeInv'
BY SameLife DEF LifeInv

LEMMA CallsKeepLife ==
  ASSUME LinkInv, LifeInv, NEW t \in Threads,
         \/ Create(t) \/ ResumeThread(t) \/ MarkReady(t) \/ MarkReadyEnqueue(t)
         \/ terminator[t] = "idle" /\ Resume(t)
         \/ resumer[t] = "idle" /\ Terminate(t)
         \/ TerminateThread(t)
  PROVE  LifeInv'
<1> USE DEF linkVars, lifeVars, callVars, cpuVars, wakeVars, LinkInv
<1>0. Life(t)
  BY DEF LifeInv
<1>1. CASE Create(t) \/ MarkReadyEnqueue(t)
  <2>1. /\ resumer[t] \in {"create", "enqueue"}
        /\ resumer' = [resumer EXCEPT ![t] = "idle"]
        /\ EnqueueReady(t, home[t], NoCpu)
        /\ UNCHANGED <<blocked, suspended, running, lifeVars, suspendCount, terminator>>
    BY <1>1 DEF Create, MarkReadyEnqueue
  <2>2. resumer'[t] = "idle" /\ \A u \in Threads \ {t} : resumer'[u] = resumer[u]
    BY <2>1 DEF TypeInv, TypeOK
  <2>3. home[t] \in Cpus
    BY DEF TypeInv, TypeOK
  <2>4. /\ Listed(t)' \/ running'[t]
        /\ queued'[t] \/ queued'[t] = queued[t]
        /\ \A u \in Threads \ {t} : queued'[u] = queued[u]
    BY <2>1, <2>3, EnqueueReadyElsewhere DEF Listed, TypeInv, TypeOK
  <2>5. Life(t)'
    BY <1>0, <2>1, <2>2, <2>4 DEF Life, Over, Listed
  <2> QED
    BY <2>1, <2>2, <2>4, <2>5, OneLife DEF lifeOf
<1>2. CASE ResumeThread(t)
  <2>1. /\ resumer[t] = "unlink"
        /\ resumer'[t] = "check" /\ ~suspended'[t]
        /\ \A u \in Threads \ {t} : resumer'[u] = resumer[u] /\ suspended'[u] = suspended[u]
        /\ UNCHANGED <<queued, blocked, running, lifeVars, suspendCount, terminator>>
    BY <1>2 DEF ResumeThread, TypeInv, TypeOK
  <2>2. Life(t)'
    BY <1>0, <2>1 DEF Life, Over, Listed
  <2> QED
    BY <2>1, <2>2, OneLife DEF lifeOf
<1>3. CASE MarkReady(t)
  <2>1. /\ resumer[t] = "check"
        /\ resumer'[t] = IF kstate[t] = "terminated" THEN "idle" ELSE "enqueue"
        /\ \A u \in Threads \ {t} : resumer'[u] = resumer[u]
        /\ UNCHANGED <<linkVars, lifeVars, suspendCount, terminator>>
    BY <1>3 DEF MarkReady, TypeInv, TypeOK
  <2>2. Life(t)'
    BY <1>0, <2>1 DEF Life, Over, Listed
  <2> QED
    BY <2>1, <2>2, OneLife DEF lifeOf
<1>4. CASE terminator[t] = "idle" /\ Resume(t)
  <2>1. /\ terminator[t] = "idle" /\ resumer[t] = "idle" /\ ~reclaimed[t]
        /\ suspendCount[t] > 0
        /\ suspendCount'[t] = suspendCount[t] - 1
        /\ resumer'[t] = IF suspendCount[t] = 1 THEN "unlink" ELSE "idle"
        /\ \A u \in Threads \ {t} : resumer'[u] = resumer[u] /\ suspendCount'[u] = suspendCount[u]
        /\ UNCHANGED <<linkVars, lifeVars, terminator>>
    BY <1>4 DEF Resume, Known, TypeInv, TypeOK
  <2>2. suspendCount[t] \in Nat
    BY ConstantsAssumption DEF TypeInv, TypeOK
  <2>3. suspendCount'[t] > 0 \/ resumer'[t] = "unlink"
    BY <2>1, <2>2
  <2>4. Life(t)'
    BY <1>0, <2>1, <2>3 DEF Life, Over, Listed
  <2> QED
    BY <2>1, <2>4, OneLife DEF lifeOf
<1>5. CASE resumer[t] = "idle" /\ Terminate(t)
  <2>1. /\ resumer[t] = "idle"
        /\ terminator'[t] = "detach" /\ kstate'[t] = "terminated"
        /\ \A u \in Threads \ {t} : terminator'[u] = terminator[u] /\ kstate'[u] = kstate[u]
        /\ UNCHANGED <<linkVars, hasRun, terminatePending, reclaimed, at, suspendCount, resumer>>
    BY <1>5 DEF Terminate, TypeInv, TypeOK
  <2>2. Life(t)'
    BY <1>0, <2>1 DEF Life, Over, Listed
  <2> QED
    BY <2>1, <2>2, OneLife DEF lifeOf
<1>6. CASE TerminateThread(t)
  <2>1. /\ terminator[t] = "detach"
        /\ terminator'[t] = "idle" /\ terminatePending'[t]
        /\ \A u \in Threads \ {t} :
             terminator'[u] = terminator[u] /\ terminatePending'[u] = terminatePending[u]
        /\ UNCHANGED <<hasRun, kstate, at, suspendCount, resumer>>
    BY <1>6 DEF TerminateThread, TypeInv, TypeOK
  <2>2. CASE ~running[t] /\ DispatchToExit(t)
    <3>1. /\ blocked[t] \/ suspended[t]
          /\ queued'[t] /\ ~blocked'[t] /\ ~suspended'[t]
          /\ \A u \in Threads \ {t} : /\ queued'[u] = queued[u] /\ blocked'[u] = blocked[u]
                                       /\ suspended'[u] = suspended[u]
          /\ UNCHANGED <<running, reclaimed>>
      BY <2>2 DEF DispatchToExit, LinkReadyLocked, TypeInv, TypeOK
    <3>2. Life(t)'
      BY <1>0, <2>1, <2>2, <3>1 DEF Life, Over, Listed
    <3> QED
      BY <2>1, <3>1, <3>2, OneLife DEF lifeOf
  <2>3. CASE TerminateInPlace(t)
    <3>1. /\ running[t] \/ ~(blocked[t] \/ suspended[t])
          /\ reclaimed'[t] = (reclaimed[t] \/ (~running[t] /\ ~queued[t] /\ ~hasRun[t]))
          /\ \A u \in Threads \ {t} : reclaimed'[u] = reclaimed[u]
          /\ UNCHANGED <<queued, blocked, suspended, running>>
      BY <2>3 DEF TerminateInPlace, TypeInv, TypeOK
    <3>2. Life(t)'
      BY <1>0, <2>1, <3>1 DEF Life, Over, Listed
    <3> QED
      BY <2>1, <3>1, <3>2, OneLife DEF lifeOf
  <2> QED
    BY <1>6, <2>2, <2>3 DEF TerminateThread
<1> QED
  BY <1>1, <1>2, <1>3, <1>4, <1>5, <1>6

LEMMA OtherCallsKeepLife ==
  ASSUME LinkInv, LifeInv,
         \/ \E t \in Threads : Suspend(t) \/ RequeueForPriority(t)
         \/ \E t \in Threads, c \in Cpus : SetActiveCpu(t, c)
         \/ \E t \in Threads, p \in Prios : PublishPriority(t, p)
         \/ \E watchers \in SUBSET Threads : WakeForSignal(watchers)
         \/ \E c \in Cpus : Watchdog(c)
  PROVE  LifeInv'
<1> USE DEF linkVars, lifeVars, callVars, cpuVars, wakeVars, LinkInv
<1>1. ASSUME NEW t \in Threads, Suspend(t)
      PROVE  LifeInv'
  <2>1. /\ suspendCount'[t] = suspendCount[t] + 1
        /\ \A u \in Threads \ {t} : suspendCount'[u] = suspendCount[u]
        /\ UNCHANGED <<linkVars, lifeVars, resumer, terminator>>
    BY <1>1 DEF Suspend, TypeInv, TypeOK
  <2>2. suspendCount[t] \in Nat
    BY ConstantsAssumption DEF TypeInv, TypeOK
  <2>3. suspendCount'[t] > 0
    BY <2>1, <2>2
  <2>4. Life(t)'
    BY <2>1, <2>3 DEF LifeInv, Life, Over, Listed
  <2> QED
    BY <2>1, <2>4, OneLife DEF lifeOf
<1>2. ASSUME NEW t \in Threads, RequeueForPriority(t)
      PROVE  LifeInv'
  <2>1. UNCHANGED <<blocked, suspended, running, lifeVars, suspendCount, resumer, terminator>>
    BY <1>2 DEF RequeueForPriority
  <2>2. UNCHANGED queued
    <3>1. CASE queued[t]
      <4>1. queued' = [queued EXCEPT ![t] = TRUE]
        BY <1>2, <3>1 DEF RequeueForPriority, LinkReadyLocked
      <4> QED
        BY <3>1, <4>1 DEF TypeInv, TypeOK
    <3>2. CASE ~queued[t]
      BY <1>2, <3>2 DEF RequeueForPriority
    <3> QED
      BY <3>1, <3>2
  <2> QED
    BY <2>1, <2>2, SameLife DEF lifeOf, LifeInv
<1>3. CASE \/ \E t \in Threads, c \in Cpus : SetActiveCpu(t, c)
           \/ \E t \in Threads, p \in Prios : PublishPriority(t, p)
           \/ \E watchers \in SUBSET Threads : WakeForSignal(watchers)
           \/ \E c \in Cpus : Watchdog(c)
  <2>1. UNCHANGED <<queued, blocked, suspended, running, lifeVars, suspendCount, resumer, terminator>>
    BY <1>3 DEF SetActiveCpu, PublishPriority, WakeForSignal, Watchdog
  <2> QED
    BY <2>1, SameLife DEF lifeOf, LifeInv
<1> QED
  BY <1>1, <1>2, <1>3

LEMMA RunLoopKeepsLife ==
  ASSUME LinkInv, LifeInv, SlotInv, NEW c \in Cpus, RunLoop(c)
  PROVE  LifeInv'
<1> USE DEF linkVars, lifeVars, callVars, cpuVars, wakeVars, LinkInv, Goto
<1>1. CASE Reready(c)
  <2>1. PICK t \in Threads : t = list[BlockedId(c)][walk[c]] /\ blocked[t]
    BY <1>1, RereadyTarget
  <2>2. /\ queued' = [queued EXCEPT ![t] = TRUE]
        /\ blocked' = [blocked EXCEPT ![t] = FALSE]
        /\ UNCHANGED <<suspended, running, lifeVars, suspendCount, resumer, terminator>>
    BY <1>1, <2>1 DEF Reready, LinkAtHeadIfPreempted, LinkReadyLocked
  <2>3. /\ queued'[t] /\ ~blocked'[t]
        /\ \A u \in Threads \ {t} : queued'[u] = queued[u] /\ blocked'[u] = blocked[u]
    BY <2>1, <2>2 DEF TypeInv, TypeOK
  <2>4. Life(t)'
    BY <2>1, <2>2, <2>3 DEF LifeInv, Life, Over, Listed
  <2> QED
    BY <2>1, <2>2, <2>3, <2>4, OneLife DEF lifeOf
<1>2. ASSUME NEW t \in Threads, DequeueReady(c, t)
      PROVE  LifeInv'
  <2>1. queued[t] /\ ~blocked[t] /\ ~suspended[t]
    BY <1>2, DequeueTarget
  <2>2. /\ ~queued'[t] /\ running'[t]
        /\ \A u \in Threads \ {t} : queued'[u] = queued[u] /\ running'[u] = running[u]
        /\ UNCHANGED <<blocked, suspended, lifeVars, suspendCount, resumer, terminator>>
    BY <1>2 DEF DequeueReady, TypeInv, TypeOK
  <2>3. Life(t)'
    BY <2>1, <2>2 DEF LifeInv, Life, Over, Listed
  <2> QED
    BY <2>2, <2>3, OneLife DEF lifeOf
<1>3. CASE Migrate(c) \/ ParkSuspended(c) \/ SwitchTo(c) \/ SwitchBack(c)
  <2>1. pc[c] \in Busy
    BY <1>3 DEF Migrate, ParkSuspended, SwitchTo, SwitchBack, Busy
  <2>t. PICK t \in Threads : t = owned[c]
    BY <2>1, OwnedTarget
  <2>2. t = owned[c] /\ t # NoThread /\ running[t] /\ Life(t) /\ Slot(c)
    BY <2>1, <2>t, OwnedTarget, ConstantsAssumption DEF LifeInv, SlotInv
  <2>3. pc[c] # "back" => ~Over(t) /\ ~Listed(t)
    BY <2>1, <2>2, OwnedTarget DEF Slot, Life, Over
  <2>4. CASE Migrate(c)
    <3>1. /\ queued' = [queued EXCEPT ![t] = TRUE]
          /\ running' = [running EXCEPT ![t] = FALSE]
          /\ UNCHANGED <<blocked, suspended, lifeVars, suspendCount, resumer, terminator>>
      BY <2>2, <2>4 DEF Migrate, LinkAtHeadIfPreempted, LinkReadyLocked
    <3>2. pc[c] # "back"
      BY <2>4 DEF Migrate
    <3>3. /\ queued'[t] /\ ~running'[t]
          /\ \A u \in Threads \ {t} : queued'[u] = queued[u] /\ running'[u] = running[u]
      BY <2>2, <3>1 DEF TypeInv, TypeOK
    <3>4. Life(t)'
      BY <2>2, <2>3, <3>1, <3>2, <3>3 DEF Life, Over, Listed, Ended
    <3> QED
      BY <2>2, <3>1, <3>3, <3>4, OneLife DEF lifeOf
  <2>5. CASE ParkSuspended(c)
    <3>1. CASE RunsAnyway(t)
      <4>1. UNCHANGED <<queued, blocked, suspended, running, lifeVars, suspendCount, resumer,
                        terminator>>
        BY <2>2, <2>5, <3>1 DEF ParkSuspended
      <4> QED
        BY <4>1, SameLife DEF lifeOf, LifeInv
    <3>2. CASE ~RunsAnyway(t)
      <4>1. /\ suspended' = [suspended EXCEPT ![t] = TRUE]
            /\ running' = [running EXCEPT ![t] = FALSE]
            /\ UNCHANGED <<queued, blocked, lifeVars, suspendCount, resumer, terminator>>
        BY <2>2, <2>5, <3>2 DEF ParkSuspended
      <4>2. pc[c] # "back"
        BY <2>2, <2>5 DEF ParkSuspended
      <4>3. suspendCount[t] > 0 /\ ~terminatePending[t]
        <5>1. suspendCount[t] \in Nat
          BY <2>2, ConstantsAssumption DEF TypeInv, TypeOK
        <5> QED
          BY <3>2, <5>1 DEF RunsAnyway
      <4>4. /\ suspended'[t] /\ ~running'[t]
            /\ \A u \in Threads \ {t} : suspended'[u] = suspended[u] /\ running'[u] = running[u]
        BY <2>2, <4>1 DEF TypeInv, TypeOK
      <4>5. Life(t)'
        BY <2>2, <2>3, <4>1, <4>2, <4>3, <4>4 DEF Life, Over, Listed, Ended
      <4> QED
        BY <2>2, <4>1, <4>4, <4>5, OneLife DEF lifeOf
    <3> QED
      BY <3>1, <3>2
  <2>6. CASE SwitchTo(c)
    <3>1. /\ hasRun' = [hasRun EXCEPT ![t] = TRUE]
          /\ kstate' = [kstate EXCEPT ![t] = "running"]
          /\ UNCHANGED <<linkVars, terminatePending, reclaimed, at, callVars>>
      BY <2>2, <2>6 DEF SwitchTo
    <3>2. pc[c] # "back"
      BY <2>2, <2>6 DEF SwitchTo
    <3>3. /\ hasRun'[t] /\ kstate'[t] = "running"
          /\ \A u \in Threads \ {t} : hasRun'[u] = hasRun[u] /\ kstate'[u] = kstate[u]
      BY <2>2, <3>1 DEF TypeInv, TypeOK
    <3>4. Life(t)'
      BY <2>2, <2>3, <3>1, <3>2, <3>3 DEF Life, Over, Listed, Ended
    <3> QED
      BY <2>2, <3>1, <3>3, <3>4, OneLife DEF lifeOf
  <2>7. CASE SwitchBack(c)
    <3>1. /\ running' = [running EXCEPT ![t] = FALSE]
          /\ reclaimed' = [u \in Threads |-> reclaimed[u] \/ u = exited[c]]
          /\ UNCHANGED <<queued, blocked, suspended, hasRun, terminatePending, kstate, at, callVars>>
          /\ pc[c] = "back"
      BY <2>2, <2>7 DEF SwitchBack
    <3>2. /\ at[t] \in Ended \/ Listed(t)
          /\ exited[c] \in {NoThread, t}
          /\ exited[c] = t <=> at[t] = "dead"
      BY <2>2, <3>1 DEF Slot, Ended
    <3>3. /\ ~running'[t]
          /\ reclaimed'[t] = (reclaimed[t] \/ at[t] = "dead")
          /\ \A u \in Threads \ {t} : reclaimed'[u] = reclaimed[u] /\ running'[u] = running[u]
      BY <2>2, <3>1, <3>2, ConstantsAssumption DEF TypeInv, TypeOK
    <3>4. Life(t)'
      BY <2>2, <3>1, <3>2, <3>3 DEF Life, Over, Listed, Ended
    <3> QED
      BY <2>2, <3>1, <3>3, <3>4, OneLife DEF lifeOf
  <2> QED
    BY <1>3, <2>4, <2>5, <2>6, <2>7
<1>4. CASE \/ \E all \in BOOLEAN : RereadyBlocked(c, all)
           \/ NothingToPoll(c) \/ KeepParked(c) \/ WalkDone(c) \/ ReadSuspendCount(c)
           \/ Park(c) \/ Recheck(c) \/ WakeUp(c)
  <2>1. UNCHANGED <<linkVars, lifeVars, callVars>>
    BY <1>4 DEF RereadyBlocked, NothingToPoll, KeepParked, WalkDone, ReadSuspendCount,
       Park, Recheck, WakeUp
  <2> QED
    BY <2>1, SameLife DEF lifeOf, LifeInv
<1> QED
  BY <1>1, <1>2, <1>3, <1>4 DEF RunLoop

\* The fiber on a CPU: alive, in no list, and counted as having run.
LEMMA FiberTarget ==
  ASSUME LinkInv, LifeInv, SlotInv, NEW c \in Cpus, pc[c] = "fiber"
  PROVE  /\ owned[c] \in Threads /\ running[owned[c]] /\ cpu[owned[c]] = c
         /\ ~Listed(owned[c]) /\ ~Over(owned[c]) /\ hasRun[owned[c]]
         /\ Life(owned[c]) /\ Slot(c)
<1>1. pc[c] \in Busy /\ pc[c] # "back" /\ pc[c] \in OnFiber
  BY DEF Busy, OnFiber
<1>2. owned[c] \in Threads /\ running[owned[c]] /\ cpu[owned[c]] = c /\ ~Listed(owned[c])
  BY <1>1, OwnedTarget
<1>3. Life(owned[c]) /\ Slot(c)
  BY <1>2 DEF LifeInv, SlotInv
<1> QED
  BY <1>1, <1>2, <1>3, ConstantsAssumption DEF Slot, Life, Over

\* The steps at which guest code runs.
LEMMA GuestStep ==
  ASSUME NEW c \in Cpus, GuestCode(c) \/ FiberEnds(c)
  PROVE  pc[c] = "fiber"
BY DEF GuestCode, FiberReturns, Safepoint, VoluntaryYield, YieldCurrentThread, SelfSuspend,
   SelfSuspendReturns, BlockCurrentThread, FenceReached, FiberEnds, Exit, ExitIfTerminated,
   FiberCrash, Fiber

\* What YieldCurrentThread leaves behind: the fiber is queued where it ran.
LEMMA YieldEffect ==
  ASSUME LinkInv, NEW c \in Cpus, NEW t \in Threads, t = owned[c], NEW toOther \in BOOLEAN,
         YieldCurrentThread(c, toOther)
  PROVE  /\ queued' = [queued EXCEPT ![t] = TRUE]
         /\ at' = [at EXCEPT ![t] = "yield"]
         /\ cpu' = [cpu EXCEPT ![t] = c]
         /\ pc' = [pc EXCEPT ![c] = "back"]
         /\ event' = Poked(c)
         /\ yielder' = IF toOther THEN [yielder EXCEPT ![c] = t] ELSE yielder
<1>1. pc[c] = "fiber"
  BY DEF YieldCurrentThread, Fiber
<1>2. cpu[t] = c /\ ~Listed(t)
  BY <1>1, OwnedTarget DEF Busy
<1>3. ~OwnsItsWakeUp(t, c)
  BY <1>2 DEF OwnsItsWakeUp, Listed
<1> QED
  BY <1>3 DEF YieldCurrentThread, EnqueueReady, LinkAtHeadIfPreempted, LinkReadyLocked,
     YieldToScheduler, Goto

LEMMA FiberKeepsLife ==
  ASSUME LinkInv, LifeInv, SlotInv, NEW c \in Cpus,
         GuestCode(c) \/ (resumer[owned[c]] = "idle" /\ FiberEnds(c))
  PROVE  LifeInv'
<1> USE DEF linkVars, lifeVars, callVars, cpuVars, wakeVars, YieldToScheduler, Goto, Ended
<1>0. pc[c] = "fiber" /\ TypeInv
  BY GuestStep DEF LinkInv
<1>t. PICK t \in Threads : t = owned[c]
  BY <1>0, FiberTarget
<1>a. running[t] /\ ~Listed(t) /\ ~Over(t) /\ hasRun[t] /\ Life(t)
  BY <1>0, <1>t, FiberTarget
<1>1. ASSUME NEW toOther \in BOOLEAN, YieldCurrentThread(c, toOther)
      PROVE  LifeInv'
  <2>1. /\ queued' = [queued EXCEPT ![t] = TRUE]
        /\ at' = [at EXCEPT ![t] = "yield"]
    BY <1>t, <1>1, YieldEffect
  <2>2. UNCHANGED <<blocked, suspended, running, hasRun, terminatePending, kstate, reclaimed,
                    callVars>>
    BY <1>1 DEF YieldCurrentThread
  <2>3. /\ queued'[t] /\ at'[t] = "yield"
        /\ \A u \in Threads \ {t} : queued'[u] = queued[u] /\ at'[u] = at[u]
    BY <1>0, <2>1 DEF TypeInv, TypeOK
  <2>4. Life(t)'
    BY <1>a, <2>2, <2>3 DEF Life, Over, Listed
  <2> QED
    BY <2>2, <2>3, <2>4, OneLife DEF lifeOf
<1>2. ASSUME NEW interruptible \in BOOLEAN, NEW signalled \in BOOLEAN,
             BlockCurrentThread(c, interruptible, signalled)
      PROVE  LifeInv'
  <2>1. /\ blocked' = [blocked EXCEPT ![t] = TRUE]
        /\ kstate' = [kstate EXCEPT ![t] = "waiting"]
        /\ at' = [at EXCEPT ![t] = IF interruptible THEN "park" ELSE "fence"]
        /\ UNCHANGED <<queued, suspended, running, hasRun, terminatePending, reclaimed, callVars>>
    BY <1>t, <1>2 DEF BlockCurrentThread
  <2>2. /\ blocked'[t] /\ kstate'[t] = "waiting" /\ at'[t] \in {"park", "fence"}
        /\ \A u \in Threads \ {t} :
             blocked'[u] = blocked[u] /\ kstate'[u] = kstate[u] /\ at'[u] = at[u]
    BY <1>0, <2>1 DEF TypeInv, TypeOK
  <2>3. Life(t)'
    BY <1>a, <2>1, <2>2 DEF Life, Over, Listed
  <2> QED
    BY <2>1, <2>2, <2>3, OneLife DEF lifeOf
<1>3. CASE resumer[t] = "idle" /\ FiberCrash(c)
  <2>1. /\ queued' = [queued EXCEPT ![t] = FALSE]
        /\ blocked' = [blocked EXCEPT ![t] = FALSE]
        /\ suspended' = [suspended EXCEPT ![t] = FALSE]
        /\ kstate' = [kstate EXCEPT ![t] = "terminated"]
        /\ at' = [at EXCEPT ![t] = "crashed"]
        /\ UNCHANGED <<running, hasRun, terminatePending, reclaimed, callVars>>
    BY <1>t, <1>3 DEF FiberCrash
  <2>2. /\ ~queued'[t] /\ ~blocked'[t] /\ ~suspended'[t]
        /\ kstate'[t] = "terminated" /\ at'[t] = "crashed"
        /\ \A u \in Threads \ {t} : /\ queued'[u] = queued[u] /\ blocked'[u] = blocked[u]
                                    /\ suspended'[u] = suspended[u]
                                    /\ kstate'[u] = kstate[u] /\ at'[u] = at[u]
    BY <1>0, <2>1 DEF TypeInv, TypeOK
  <2>3. Life(t)'
    BY <1>a, <1>3, <2>1, <2>2 DEF Life, Over, Listed
  <2> QED
    BY <2>1, <2>2, <2>3, OneLife DEF lifeOf
<1>4. CASE resumer[t] = "idle" /\ (Exit(c) \/ ExitIfTerminated(c))
  <2>1. /\ kstate' = [kstate EXCEPT ![t] = "terminated"]
        /\ at' = [at EXCEPT ![t] = "dead"]
        /\ UNCHANGED <<linkVars, hasRun, terminatePending, reclaimed, callVars>>
    BY <1>t, <1>4 DEF Exit, ExitIfTerminated, ExitFiber
  <2>2. /\ kstate'[t] = "terminated" /\ at'[t] = "dead"
        /\ \A u \in Threads \ {t} : kstate'[u] = kstate[u] /\ at'[u] = at[u]
    BY <1>0, <2>1 DEF TypeInv, TypeOK
  <2>3. Life(t)'
    BY <1>a, <1>4, <2>1, <2>2 DEF Life, Over, Listed
  <2> QED
    BY <2>1, <2>2, <2>3, OneLife DEF lifeOf
<1>5. CASE FiberReturns(c) \/ SelfSuspendReturns(c) \/ FenceReached(c)
  <2>1. /\ at' = [at EXCEPT ![t] = "run"]
        /\ UNCHANGED <<linkVars, hasRun, terminatePending, kstate, reclaimed, callVars>>
    BY <1>t, <1>5 DEF FiberReturns, SelfSuspendReturns, FenceReached
  <2>2. at'[t] = "run" /\ \A u \in Threads \ {t} : at'[u] = at[u]
    BY <1>0, <2>1 DEF TypeInv, TypeOK
  <2>3. Life(t)'
    BY <1>a, <2>1, <2>2 DEF Life, Over, Listed
  <2> QED
    BY <2>1, <2>2, <2>3, OneLife DEF lifeOf
<1>6. CASE SelfSuspend(c)
  <2>1. /\ at' = [at EXCEPT ![t] = "suspending"]
        /\ suspendCount' = [suspendCount EXCEPT ![t] = @ + 1]
        /\ UNCHANGED <<linkVars, hasRun, terminatePending, kstate, reclaimed, resumer, terminator>>
    BY <1>t, <1>6 DEF SelfSuspend
  <2>2. /\ at'[t] = "suspending" /\ ~suspended[t]
        /\ \A u \in Threads \ {t} : at'[u] = at[u] /\ suspendCount'[u] = suspendCount[u]
    BY <1>0, <1>a, <2>1 DEF TypeInv, TypeOK, Listed
  <2>3. Life(t)'
    BY <1>a, <2>1, <2>2 DEF Life, Over, Listed
  <2> QED
    BY <2>1, <2>2, <2>3, OneLife DEF lifeOf
<1> QED
  BY <1>t, <1>1, <1>2, <1>3, <1>4, <1>5, <1>6
  DEF GuestCode, FiberEnds, Safepoint, VoluntaryYield

-----------------------------------------------------------------------------
(* Every step keeps SlotInv.                                               *)

slotOf(c) == <<pc[c], owned[c], current[c], exited[c]>>

\* A step of |c| concerns its own slot and the thread it owns; whatever happens to
\* the links of a thread that leaves a CPU, it stays in some list.
LEMMA OneSlot ==
  ASSUME LinkInv, SlotInv, NEW c \in Cpus, Slot(c)',
         \A d \in Cpus \ {c} : slotOf(d)' = slotOf(d),
         \A u \in Threads \ {owned[c]} : running[u] =>
           /\ at'[u] = at[u]
           /\ hasRun'[u] = hasRun[u]
           /\ Listed(u) => Listed(u)'
  PROVE  SlotInv'
<1>1. ASSUME NEW d \in Cpus \ {c}
      PROVE  Slot(d)'
  <2>1. slotOf(d)' = slotOf(d) /\ Slot(d)
    BY DEF SlotInv
  <2>2. CASE owned[d] = NoThread
    <3>1. pc[d] \notin Busy
      BY <2>2 DEF LinkInv, TypeInv, OwnsWhileBusy
    <3> QED
      BY <2>1, <2>2, <3>1 DEF Slot, slotOf, Busy, OnFiber
  <2>3. CASE owned[d] # NoThread
    <3>1. PICK u \in Threads : u = owned[d]
      BY <2>3 DEF LinkInv, TypeInv, TypeOK
    <3>2. running[u] /\ u # owned[c]
      BY <2>3, <3>1 DEF LinkInv, OneOwner
    <3>3. at'[u] = at[u] /\ hasRun'[u] = hasRun[u] /\ (Listed(u) => Listed(u)')
      BY <3>2
    <3>4. /\ pc'[d] = pc[d] /\ owned'[d] = u /\ owned[d] = u
          /\ current'[d] = current[d] /\ exited'[d] = exited[d]
      BY <2>1, <3>1 DEF slotOf
    <3>5. Listed(u) => Listed(owned[d])'
      BY <3>3, <3>4 DEF Listed
    <3> QED
      BY <2>1, <3>3, <3>4, <3>5 DEF Slot
  <2> QED
    BY <2>2, <2>3
<1> QED
  BY <1>1 DEF SlotInv

LEMMA SlotsUndisturbed ==
  ASSUME LinkInv, SlotInv, UNCHANGED <<pc, owned, current, exited, at, hasRun>>,
         \A u \in Threads : running[u] /\ Listed(u) => Listed(u)'
  PROVE  SlotInv'
<1> SUFFICES ASSUME NEW d \in Cpus PROVE Slot(d)'
  BY DEF SlotInv
<1>1. Slot(d)
  BY DEF SlotInv
<1>2. CASE pc[d] = "back"
  <2>1. PICK u \in Threads : u = owned[d] /\ running[u]
    BY <1>2, OwnedTarget DEF Busy
  <2>2. Listed(u) => Listed(owned[d])'
    BY <2>1 DEF Listed
  <2> QED
    BY <1>1, <2>1, <2>2 DEF Slot
<1>3. CASE pc[d] # "back"
  BY <1>1, <1>3 DEF Slot
<1> QED
  BY <1>2, <1>3

LEMMA CallsKeepSlots ==
  ASSUME LinkInv, LifeInv, SlotInv,
         \/ \E t \in Threads :
              \/ Create(t) \/ Resume(t) \/ ResumeThread(t) \/ MarkReady(t) \/ MarkReadyEnqueue(t)
              \/ Suspend(t) \/ Terminate(t) \/ TerminateThread(t) \/ RequeueForPriority(t)
         \/ \E t \in Threads, c \in Cpus : SetActiveCpu(t, c)
         \/ \E t \in Threads, p \in Prios : PublishPriority(t, p)
         \/ \E watchers \in SUBSET Threads : WakeForSignal(watchers)
         \/ \E c \in Cpus : Watchdog(c)
  PROVE  SlotInv'
<1> USE DEF linkVars, lifeVars, callVars, cpuVars, wakeVars
<1>0. UNCHANGED <<pc, owned, current, exited, at, hasRun>>
  BY DEF Create, Resume, ResumeThread, MarkReady, MarkReadyEnqueue, Suspend, Terminate,
     TerminateThread, RequeueForPriority, SetActiveCpu, PublishPriority, WakeForSignal, Watchdog
<1>1. ASSUME NEW t \in Threads, Create(t) \/ MarkReadyEnqueue(t)
      PROVE  SlotInv'
  <2>1. EnqueueReady(t, home[t], NoCpu) /\ UNCHANGED <<blocked, suspended>>
    BY <1>1 DEF Create, MarkReadyEnqueue
  <2>2. home[t] \in Cpus
    BY DEF LinkInv, TypeInv, TypeOK
  <2>3. \A u \in Threads : queued[u] => queued'[u]
    <3>1. queued' \in {queued, [queued EXCEPT ![t] = TRUE]}
      BY <2>1, <2>2, EnqueueReadyElsewhere
    <3> QED
      BY <3>1 DEF LinkInv, TypeInv, TypeOK
  <2> QED
    BY <1>0, <2>1, <2>3, SlotsUndisturbed DEF Listed
<1>2. ASSUME NEW t \in Threads, ResumeThread(t)
      PROVE  SlotInv'
  <2>1. UNCHANGED <<queued, blocked>>
    BY <1>2 DEF ResumeThread
  <2>2. \A u \in Threads : running[u] => ~suspended[u]
    BY DEF LifeInv, Life
  <2> QED
    BY <1>0, <2>1, <2>2, SlotsUndisturbed DEF Listed
<1>3. ASSUME NEW t \in Threads, TerminateThread(t)
      PROVE  SlotInv'
  <2>1. CASE ~running[t] /\ DispatchToExit(t)
    <3>1. \A u \in Threads \ {t} : Listed(u)' <=> Listed(u)
      BY <2>1 DEF DispatchToExit, LinkReadyLocked, LinkInv, TypeInv, TypeOK, Listed
    <3> QED
      BY <1>0, <2>1, <3>1, SlotsUndisturbed
  <2>2. CASE TerminateInPlace(t)
    BY <1>0, <2>2, SlotsUndisturbed DEF TerminateInPlace, Listed
  <2> QED
    BY <1>3, <2>1, <2>2 DEF TerminateThread
<1>4. ASSUME NEW t \in Threads, RequeueForPriority(t)
      PROVE  SlotInv'
  <2>1. UNCHANGED <<blocked, suspended>> /\ \A u \in Threads : queued[u] => queued'[u]
    BY <1>4 DEF RequeueForPriority, LinkReadyLocked, LinkInv, TypeInv, TypeOK
  <2> QED
    BY <1>0, <2>1, SlotsUndisturbed DEF Listed
<1>5. CASE \/ \E t \in Threads : Resume(t) \/ MarkReady(t) \/ Suspend(t) \/ Terminate(t)
           \/ \E t \in Threads, c \in Cpus : SetActiveCpu(t, c)
           \/ \E t \in Threads, p \in Prios : PublishPriority(t, p)
           \/ \E watchers \in SUBSET Threads : WakeForSignal(watchers)
           \/ \E c \in Cpus : Watchdog(c)
  <2>1. UNCHANGED <<queued, blocked, suspended>>
    BY <1>5 DEF Resume, MarkReady, Suspend, Terminate, SetActiveCpu, PublishPriority,
       WakeForSignal, Watchdog
  <2> QED
    BY <1>0, <2>1, SlotsUndisturbed DEF Listed
<1> QED
  BY <1>1, <1>2, <1>3, <1>4, <1>5

LEMMA RunLoopKeepsSlots ==
  ASSUME LinkInv, LifeInv, SlotInv, NEW c \in Cpus, RunLoop(c)
  PROVE  SlotInv'
<1> USE DEF linkVars, lifeVars, callVars, cpuVars, wakeVars, LinkInv, Goto, slotOf
<1>0. Slot(c)
  BY DEF SlotInv
<1>1. CASE Reready(c)
  <2>1. PICK t \in Threads : t = list[BlockedId(c)][walk[c]]
    BY <1>1, RereadyTarget
  <2>2. /\ queued' = [queued EXCEPT ![t] = TRUE]
        /\ blocked' = [blocked EXCEPT ![t] = FALSE]
        /\ UNCHANGED <<suspended, lifeVars, cpuVars>>
    BY <1>1, <2>1 DEF Reready, LinkAtHeadIfPreempted, LinkReadyLocked
  <2>3. \A u \in Threads : Listed(u) => Listed(u)'
    BY <2>2 DEF Listed, TypeInv, TypeOK
  <2> QED
    BY <2>2, <2>3, SlotsUndisturbed
<1>2. ASSUME NEW t \in Threads, DequeueReady(c, t)
      PROVE  SlotInv'
  <2>1. queued[t] /\ ~running[t] /\ owned[c] = NoThread
    BY <1>2, DequeueTarget
  <2>2. ~Over(t)
    BY <2>1 DEF LifeInv, Life, Listed
  <2>3. /\ pc[c] = "pick" /\ pc'[c] = "placed" /\ owned'[c] = t
        /\ \A d \in Cpus \ {c} : pc'[d] = pc[d] /\ owned'[d] = owned[d]
        /\ \A u \in Threads \ {t} : queued'[u] = queued[u]
        /\ UNCHANGED <<blocked, suspended, lifeVars, current, exited>>
    BY <1>2 DEF DequeueReady, TypeInv, TypeOK
  <2>4. current[c] = NoThread /\ exited[c] = NoThread
    BY <1>0, <2>3 DEF Slot, OnFiber
  <2>5. Slot(c)'
    BY <2>2, <2>3, <2>4 DEF Slot, OnFiber, Over
  <2> QED
    BY <2>1, <2>3, <2>5, OneSlot DEF Listed
<1>3. CASE Migrate(c) \/ ParkSuspended(c) \/ SwitchTo(c) \/ SwitchBack(c)
  <2>1. pc[c] \in Busy
    BY <1>3 DEF Migrate, ParkSuspended, SwitchTo, SwitchBack, Busy
  <2>2. PICK t \in Threads : t = owned[c]
    BY <2>1, OwnedTarget
  <2>3. CASE Migrate(c)
    <3>1. /\ pc[c] = "placed" /\ pc'[c] = "loop" /\ owned'[c] = NoThread
          /\ \A d \in Cpus \ {c} : pc'[d] = pc[d] /\ owned'[d] = owned[d]
          /\ UNCHANGED <<blocked, suspended, lifeVars, current, exited>>
      BY <2>3 DEF Migrate, TypeInv, TypeOK
    <3>2. \A u \in Threads : queued[u] => queued'[u]
      BY <2>2, <2>3 DEF Migrate, LinkAtHeadIfPreempted, LinkReadyLocked, TypeInv, TypeOK
    <3>3. Slot(c)'
      BY <1>0, <3>1 DEF Slot, OnFiber
    <3> QED
      BY <3>1, <3>2, <3>3, OneSlot DEF Listed
  <2>4. CASE ParkSuspended(c)
    <3>1. /\ pc[c] = "suspend"
          /\ \/ pc'[c] = "switch" /\ owned'[c] = owned[c]
             \/ pc'[c] = "loop" /\ owned'[c] = NoThread
          /\ \A d \in Cpus \ {c} : pc'[d] = pc[d] /\ owned'[d] = owned[d]
          /\ UNCHANGED <<queued, blocked, lifeVars, current, exited>>
      BY <2>4 DEF ParkSuspended, TypeInv, TypeOK
    <3>2. \A u \in Threads : suspended[u] => suspended'[u]
      <4>1. suspended' \in {suspended, [suspended EXCEPT ![t] = TRUE]}
        BY <2>2, <2>4 DEF ParkSuspended
      <4> QED
        BY <4>1 DEF TypeInv, TypeOK
    <3>3. Slot(c)'
      BY <1>0, <3>1 DEF Slot, OnFiber
    <3> QED
      BY <3>1, <3>2, <3>3, OneSlot DEF Listed
  <2>5. CASE SwitchTo(c)
    <3>1. /\ pc[c] = "switch" /\ pc'[c] = "fiber" /\ current'[c] = t /\ exited'[c] = NoThread
          /\ \A d \in Cpus \ {c} :
               pc'[d] = pc[d] /\ current'[d] = current[d] /\ exited'[d] = exited[d]
          /\ UNCHANGED <<queued, blocked, suspended, at, owned>>
      BY <2>2, <2>5 DEF SwitchTo, TypeInv, TypeOK
    <3>2. hasRun'[t] /\ \A u \in Threads \ {t} : hasRun'[u] = hasRun[u]
      BY <2>2, <2>5 DEF SwitchTo, TypeInv, TypeOK
    <3>3. at[t] \notin Ended /\ t # NoThread
      BY <1>0, <2>2, <3>1, ConstantsAssumption DEF Slot
    <3>4. Slot(c)'
      BY <1>0, <2>2, <3>1, <3>2, <3>3 DEF Slot, OnFiber
    <3> QED
      BY <2>2, <3>1, <3>2, <3>4, OneSlot DEF Listed
  <2>6. CASE SwitchBack(c)
    <3>1. /\ pc'[c] = "loop" /\ owned'[c] = NoThread /\ current'[c] = NoThread
          /\ exited'[c] = NoThread
          /\ \A d \in Cpus \ {c} : /\ pc'[d] = pc[d] /\ current'[d] = current[d]
                                   /\ exited'[d] = exited[d] /\ owned'[d] = owned[d]
          /\ UNCHANGED <<queued, blocked, suspended, at, hasRun>>
      BY <2>6 DEF SwitchBack, TypeInv, TypeOK
    <3>2. Slot(c)'
      BY <3>1 DEF Slot, OnFiber
    <3> QED
      BY <3>1, <3>2, OneSlot DEF Listed
  <2> QED
    BY <1>3, <2>3, <2>4, <2>5, <2>6
<1>4. CASE \/ \E all \in BOOLEAN : RereadyBlocked(c, all)
           \/ NothingToPoll(c) \/ KeepParked(c) \/ WalkDone(c) \/ ReadSuspendCount(c)
           \/ Park(c) \/ Recheck(c) \/ WakeUp(c)
  <2>1. /\ UNCHANGED <<linkVars, lifeVars, owned, current, exited>>
        /\ pc[c] \notin OnFiber /\ pc'[c] \notin OnFiber
        /\ \A d \in Cpus \ {c} : pc'[d] = pc[d]
    BY <1>4 DEF RereadyBlocked, NothingToPoll, KeepParked, WalkDone, ReadSuspendCount,
       Park, Recheck, WakeUp, TypeInv, TypeOK, OnFiber
  <2>2. Slot(c)'
    BY <1>0, <2>1 DEF Slot, OnFiber
  <2> QED
    BY <2>1, <2>2, OneSlot DEF Listed
<1> QED
  BY <1>1, <1>2, <1>3, <1>4 DEF RunLoop

LEMMA FiberKeepsSlots ==
  ASSUME LinkInv, LifeInv, SlotInv, NEW c \in Cpus, GuestCode(c) \/ FiberEnds(c)
  PROVE  SlotInv'
<1> USE DEF linkVars, lifeVars, callVars, cpuVars, wakeVars, YieldToScheduler, Goto, slotOf
<1>0. pc[c] = "fiber" /\ TypeInv
  BY GuestStep DEF LinkInv
<1>t. PICK t \in Threads : t = owned[c]
  BY <1>0, FiberTarget
<1>a. ~Over(t) /\ hasRun[t] /\ Slot(c) /\ ~Listed(t)
  BY <1>0, <1>t, FiberTarget
<1>b. exited[c] = NoThread /\ current[c] = t
  BY <1>0, <1>a, <1>t DEF Slot, OnFiber
\* It goes on, or leaves the CPU alive and linked, or leaves it for good.
<1>1. ASSUME UNCHANGED <<owned, current, hasRun>>,
             \A d \in Cpus \ {c} : pc'[d] = pc[d] /\ exited'[d] = exited[d],
             \A u \in Threads \ {t} : at'[u] = at[u] /\ (Listed(u) => Listed(u)'),
             \/ /\ pc'[c] = "fiber" /\ at'[t] \notin Ended /\ exited'[c] = NoThread
             \/ /\ pc'[c] = "back" /\ at'[t] \notin Ended /\ exited'[c] = NoThread
                /\ Listed(t)'
             \/ /\ pc'[c] = "back" /\ at'[t] = "dead" /\ exited'[c] = t
             \/ /\ pc'[c] = "back" /\ at'[t] = "crashed" /\ exited'[c] = NoThread
      PROVE  SlotInv'
  <2>1. Listed(t)' => Listed(owned[c])'
    BY <1>t, <1>1 DEF Listed
  <2>2. Slot(c)'
    BY <1>t, <1>a, <1>b, <1>1, <2>1 DEF Slot, OnFiber, Ended
  <2> QED
    BY <1>t, <1>1, <2>2, OneSlot
<1>2. ASSUME NEW toOther \in BOOLEAN, YieldCurrentThread(c, toOther)
      PROVE  SlotInv'
  <2>1. /\ queued' = [queued EXCEPT ![t] = TRUE]
        /\ at' = [at EXCEPT ![t] = "yield"]
        /\ pc' = [pc EXCEPT ![c] = "back"]
    BY <1>t, <1>2, YieldEffect DEF LinkInv
  <2>2. UNCHANGED <<blocked, suspended, hasRun, owned, current, exited>>
    BY <1>2 DEF YieldCurrentThread
  <2>3. /\ queued'[t] /\ at'[t] = "yield" /\ pc'[c] = "back"
        /\ \A d \in Cpus \ {c} : pc'[d] = pc[d]
        /\ \A u \in Threads \ {t} : queued'[u] = queued[u] /\ at'[u] = at[u]
    BY <1>0, <2>1 DEF TypeInv, TypeOK
  <2> QED
    BY <1>b, <1>1, <2>2, <2>3 DEF Listed, Ended
<1>3. ASSUME NEW interruptible \in BOOLEAN, NEW signalled \in BOOLEAN,
             BlockCurrentThread(c, interruptible, signalled)
      PROVE  SlotInv'
  <2>1. /\ blocked' = [blocked EXCEPT ![t] = TRUE]
        /\ at' = [at EXCEPT ![t] = IF interruptible THEN "park" ELSE "fence"]
        /\ pc' = [pc EXCEPT ![c] = "back"]
        /\ UNCHANGED <<queued, suspended, hasRun, owned, current, exited>>
    BY <1>t, <1>3 DEF BlockCurrentThread
  <2>2. /\ blocked'[t] /\ at'[t] \in {"park", "fence"} /\ pc'[c] = "back"
        /\ \A d \in Cpus \ {c} : pc'[d] = pc[d]
        /\ \A u \in Threads \ {t} : blocked'[u] = blocked[u] /\ at'[u] = at[u]
    BY <1>0, <2>1 DEF TypeInv, TypeOK
  <2> QED
    BY <1>b, <1>1, <2>1, <2>2 DEF Listed, Ended
<1>4. CASE FiberCrash(c)
  <2>1. /\ queued' = [queued EXCEPT ![t] = FALSE]
        /\ blocked' = [blocked EXCEPT ![t] = FALSE]
        /\ suspended' = [suspended EXCEPT ![t] = FALSE]
        /\ at' = [at EXCEPT ![t] = "crashed"]
        /\ pc' = [pc EXCEPT ![c] = "back"]
        /\ exited' = [d \in Cpus |-> IF exited[d] = t THEN NoThread ELSE exited[d]]
        /\ UNCHANGED <<hasRun, owned, current>>
    BY <1>t, <1>4 DEF FiberCrash
  <2>2. \A d \in Cpus \ {c} : exited[d] # t
    <3> SUFFICES ASSUME NEW d \in Cpus \ {c}, exited[d] = t PROVE FALSE
      OBVIOUS
    <3>1. owned[d] = t
      BY ConstantsAssumption DEF SlotInv, Slot
    <3> QED
      BY <1>t, <3>1, ConstantsAssumption DEF LinkInv, OneOwner
  <2>3. /\ at'[t] = "crashed" /\ pc'[c] = "back" /\ exited'[c] = NoThread
        /\ \A d \in Cpus \ {c} : pc'[d] = pc[d] /\ exited'[d] = exited[d]
        /\ \A u \in Threads \ {t} : /\ queued'[u] = queued[u] /\ blocked'[u] = blocked[u]
                                    /\ suspended'[u] = suspended[u] /\ at'[u] = at[u]
    BY <1>0, <1>b, <2>1, <2>2 DEF TypeInv, TypeOK
  <2> QED
    BY <1>1, <2>1, <2>3 DEF Listed, Ended
<1>5. CASE Exit(c) \/ ExitIfTerminated(c)
  <2>1. /\ at' = [at EXCEPT ![t] = "dead"]
        /\ pc' = [pc EXCEPT ![c] = "back"]
        /\ exited' = [exited EXCEPT ![c] = t]
        /\ UNCHANGED <<linkVars, hasRun, owned, current>>
    BY <1>t, <1>5 DEF Exit, ExitIfTerminated, ExitFiber
  <2>2. /\ at'[t] = "dead" /\ pc'[c] = "back" /\ exited'[c] = t
        /\ \A d \in Cpus \ {c} : pc'[d] = pc[d] /\ exited'[d] = exited[d]
        /\ \A u \in Threads \ {t} : at'[u] = at[u]
    BY <1>0, <2>1 DEF TypeInv, TypeOK
  <2> QED
    BY <1>1, <2>1, <2>2 DEF Listed, Ended
<1>6. CASE FiberReturns(c) \/ SelfSuspend(c) \/ SelfSuspendReturns(c) \/ FenceReached(c)
  <2>1. /\ \E place \in {"run", "suspending"} : at' = [at EXCEPT ![t] = place]
        /\ UNCHANGED <<linkVars, hasRun, pc, owned, current, exited>>
    BY <1>t, <1>6 DEF FiberReturns, SelfSuspend, SelfSuspendReturns, FenceReached
  <2>2. at'[t] \in {"run", "suspending"} /\ \A u \in Threads \ {t} : at'[u] = at[u]
    BY <1>0, <2>1 DEF TypeInv, TypeOK
  <2> QED
    BY <1>0, <1>b, <1>1, <2>1, <2>2 DEF Listed, Ended
<1> QED
  BY <1>2, <1>3, <1>4, <1>5, <1>6 DEF GuestCode, FiberEnds, Safepoint, VoluntaryYield

-----------------------------------------------------------------------------
(* Every step keeps the yielder in its queue and wakes the sleepers.       *)

QueueInv == YielderIsQueued /\ NoSleepOnWork

LEMMA YieldersUndisturbed ==
  ASSUME TypeInv, YielderIsQueued, UNCHANGED yielder,
         \A u \in Threads : queued[u] => queued'[u] /\ cpu'[u] = cpu[u]
  PROVE  YielderIsQueued'
<1>1. \A c \in Cpus : yielder[c] # NoThread => yielder[c] \in Threads
  BY DEF TypeInv, TypeOK
<1> QED
  BY <1>1 DEF YielderIsQueued

\* A sleeper whose event a step does not reset is told of what the step gives it.
LEMMA SleepersUndisturbed ==
  ASSUME NoSleepOnWork,
         \A c \in Cpus : pc'[c] = "sleep" =>
           /\ pc[c] = "sleep"
           /\ event[c] => event'[c]
           /\ repoll'[c] => repoll[c] \/ event'[c]
           /\ \A u \in Threads :
                queued'[u] /\ cpu'[u] = c => event'[c] \/ (queued[u] /\ cpu[u] = c)
  PROVE  NoSleepOnWork'
BY DEF NoSleepOnWork

LEMMA PokedEvent ==
  ASSUME TypeInv, NEW c \in Cpus, event' = Poked(c)
  PROVE  /\ \A d \in Cpus : event[d] => event'[d]
         /\ pc[c] = "sleep" => event'[c]
<1>1. \A d \in Cpus : event'[d] = IF d = c THEN event[c] \/ Parked(c) ELSE event[d]
  BY DEF Poked, TypeInv, TypeOK
<1> QED
  BY <1>1 DEF Parked

\* A thread is linked as ready on |c|, and |c| is poked.
LEMMA LinkKeepsQueues ==
  ASSUME TypeInv, QueueInv, NEW t \in Threads, NEW c \in Cpus, ~queued[t],
         queued' = [queued EXCEPT ![t] = TRUE],
         cpu' = [cpu EXCEPT ![t] = c],
         event' = Poked(c),
         UNCHANGED <<yielder, repoll>>,
         \A d \in Cpus : pc'[d] = "sleep" => pc[d] = "sleep"
  PROVE  QueueInv'
<1>1. /\ queued'[t] /\ cpu'[t] = c
      /\ \A u \in Threads \ {t} : queued'[u] = queued[u] /\ cpu'[u] = cpu[u]
  BY DEF TypeInv, TypeOK
<1>2. YielderIsQueued'
  BY <1>1, YieldersUndisturbed DEF QueueInv
<1>3. NoSleepOnWork'
  BY <1>1, PokedEvent, SleepersUndisturbed DEF QueueInv
<1> QED
  BY <1>2, <1>3 DEF QueueInv

\* A step that leaves the ready queues alone and raises events only.
LEMMA SameQueues ==
  ASSUME TypeInv, QueueInv, UNCHANGED <<queued, yielder, repoll>>,
         \A u \in Threads : queued[u] => cpu'[u] = cpu[u],
         \A d \in Cpus : pc'[d] = "sleep" => pc[d] = "sleep" /\ (event[d] => event'[d])
  PROVE  QueueInv'
<1>1. YielderIsQueued'
  BY YieldersUndisturbed DEF QueueInv
<1>2. NoSleepOnWork'
  BY SleepersUndisturbed DEF QueueInv
<1> QED
  BY <1>1, <1>2 DEF QueueInv

LEMMA CallsKeepQueues ==
  ASSUME LinkInv, QueueInv,
         \/ \E t \in Threads :
              \/ Create(t) \/ Resume(t) \/ ResumeThread(t) \/ MarkReady(t) \/ MarkReadyEnqueue(t)
              \/ Suspend(t) \/ Terminate(t) \/ TerminateThread(t) \/ RequeueForPriority(t)
         \/ \E t \in Threads, c \in Cpus : SetActiveCpu(t, c)
         \/ \E t \in Threads, p \in Prios : PublishPriority(t, p)
         \/ \E watchers \in SUBSET {t \in Threads : blocked[t]} : WakeForSignal(watchers)
         \/ \E c \in Cpus : Watchdog(c)
  PROVE  QueueInv'
<1> USE DEF linkVars, lifeVars, callVars, cpuVars, wakeVars
<1>0. TypeInv
  BY DEF LinkInv
<1>1. ASSUME NEW t \in Threads, Create(t) \/ MarkReadyEnqueue(t)
      PROVE  QueueInv'
  <2>1. EnqueueReady(t, home[t], NoCpu) /\ UNCHANGED cpuVars
    BY <1>1 DEF Create, MarkReadyEnqueue
  <2>2. home[t] \in Cpus
    BY <1>0 DEF TypeInv, TypeOK
  <2>3. CASE UNCHANGED <<queued, cpu, event>>
    BY <1>0, <2>1, <2>3, SameQueues
  <2>4. CASE /\ ~Listed(t)
             /\ queued' = [queued EXCEPT ![t] = TRUE]
             /\ cpu' = [cpu EXCEPT ![t] = home[t]]
             /\ event' = Poked(home[t])
    BY <1>0, <2>1, <2>2, <2>4, LinkKeepsQueues DEF Listed
  <2> QED
    BY <2>1, <2>2, <2>3, <2>4, EnqueueReadyElsewhere
<1>2. ASSUME NEW t \in Threads, TerminateThread(t)
      PROVE  QueueInv'
  <2>1. UNCHANGED cpuVars
    BY <1>2 DEF TerminateThread
  <2>2. CASE DispatchToExit(t)
    <3>1. /\ blocked[t] \/ suspended[t]
          /\ queued' = [queued EXCEPT ![t] = TRUE]
          /\ cpu' = [cpu EXCEPT ![t] = cpu[t]]
          /\ event' = Poked(cpu[t])
      BY <2>2 DEF DispatchToExit, LinkReadyLocked
    <3>2. ~queued[t] /\ cpu[t] \in Cpus
      BY <3>1 DEF LinkInv, ListInv, OneFlag, TypeInv, LinksNameCpu, Listed
    <3> QED
      BY <1>0, <2>1, <3>1, <3>2, LinkKeepsQueues
  <2>3. CASE TerminateInPlace(t)
    BY <1>0, <2>1, <2>3, SameQueues DEF TerminateInPlace
  <2> QED
    BY <1>2, <2>2, <2>3 DEF TerminateThread
<1>3. ASSUME NEW t \in Threads, RequeueForPriority(t)
      PROVE  QueueInv'
  <2>1. UNCHANGED <<cpuVars, event>>
    BY <1>3 DEF RequeueForPriority
  <2>2. CASE queued[t]
    <3>1. queued' = [queued EXCEPT ![t] = TRUE] /\ cpu' = [cpu EXCEPT ![t] = cpu[t]]
      BY <1>3, <2>2 DEF RequeueForPriority, LinkReadyLocked
    <3>2. UNCHANGED <<queued, cpu>>
      BY <1>0, <2>2, <3>1 DEF TypeInv, TypeOK
    <3> QED
      BY <1>0, <2>1, <3>2, SameQueues
  <2>3. CASE ~queued[t]
    BY <1>0, <1>3, <2>1, <2>3, SameQueues DEF RequeueForPriority
  <2> QED
    BY <2>2, <2>3
<1>4. ASSUME NEW watchers \in SUBSET {t \in Threads : blocked[t]}, WakeForSignal(watchers)
      PROVE  QueueInv'
  <2>1. PICK poke \in SUBSET Cpus :
          /\ repoll' = [c \in Cpus |-> repoll[c] \/ c \in poke]
          /\ event' = [c \in Cpus |-> event[c] \/ (c \in poke /\ Parked(c))]
    <3>1. {cpu[t] : t \in watchers} \in SUBSET Cpus
      BY <1>0 DEF TypeInv, LinksNameCpu, Listed
    <3> QED
      BY <1>4, <3>1 DEF WakeForSignal
  <2>2. UNCHANGED <<queued, cpu, yielder, pc>>
    BY <1>4 DEF WakeForSignal
  <2>3. YielderIsQueued'
    BY <1>0, <2>2, YieldersUndisturbed DEF QueueInv
  <2>4. NoSleepOnWork'
    BY <2>1, <2>2, SleepersUndisturbed DEF QueueInv, Parked
  <2> QED
    BY <2>3, <2>4 DEF QueueInv
<1>5. CASE \/ \E t \in Threads :
                Resume(t) \/ ResumeThread(t) \/ MarkReady(t) \/ Suspend(t) \/ Terminate(t)
           \/ \E t \in Threads, c \in Cpus : SetActiveCpu(t, c)
           \/ \E t \in Threads, p \in Prios : PublishPriority(t, p)
           \/ \E c \in Cpus : Watchdog(c)
  <2>1. UNCHANGED <<queued, cpu, yielder, repoll, pc, event>>
    BY <1>5 DEF Resume, ResumeThread, MarkReady, Suspend, Terminate, SetActiveCpu,
       PublishPriority, Watchdog
  <2> QED
    BY <1>0, <2>1, SameQueues
<1> QED
  BY <1>1, <1>2, <1>3, <1>4, <1>5

\* A dispatch thread with nothing in its ready lists has nobody queued on it.
LEMMA NoneReadyNoneQueued ==
  ASSUME LinkInv, NEW c \in Cpus, NoneReady(c), NEW u \in Threads, queued[u]
  PROVE  cpu[u] # c
<1> SUFFICES ASSUME cpu[u] = c PROVE FALSE
  OBVIOUS
<1>1. queuedPrio[u] \in Prios
  BY DEF LinkInv, TypeInv, TypeOK
<1>2. Where[u] = ReadyId(c, queuedPrio[u])
  BY DEF Where, Listed, ListOf
<1>3. u \in ToSet(list[ReadyId(c, queuedPrio[u])])
  BY <1>1, <1>2, IdsInListIds DEF LinkInv, ListInv, Holds
<1>4. list[ReadyId(c, queuedPrio[u])] = <<>>
  BY <1>1 DEF NoneReady
<1> QED
  BY <1>3, <1>4 DEF ToSet

LEMMA RunLoopKeepsQueues ==
  ASSUME LinkInv, QueueInv, NEW c \in Cpus, RunLoop(c)
  PROVE  QueueInv'
<1> USE DEF linkVars, lifeVars, callVars, cpuVars, wakeVars, Goto
<1>0. TypeInv
  BY DEF LinkInv
<1>1. CASE Reready(c)
  <2>1. PICK t \in Threads :
          t = list[BlockedId(c)][walk[c]] /\ blocked[t] /\ home[t] \in Cpus
    BY <1>1, RereadyTarget
  <2>2. /\ queued' = [queued EXCEPT ![t] = TRUE]
        /\ cpu' = [cpu EXCEPT ![t] = home[t]]
        /\ event' = Poked(home[t])
        /\ UNCHANGED cpuVars
    BY <1>1, <2>1 DEF Reready, LinkAtHeadIfPreempted, LinkReadyLocked
  <2>3. ~queued[t]
    BY <2>1 DEF LinkInv, ListInv, OneFlag
  <2> QED
    BY <1>0, <2>1, <2>2, <2>3, LinkKeepsQueues
<1>2. ASSUME NEW t \in Threads, DequeueReady(c, t)
      PROVE  QueueInv'
  <2>1. cpu[t] = c
    BY <1>2, DequeueTarget
  <2>2. /\ yielder'[c] = NoThread /\ ~queued'[t]
        /\ \A d \in Cpus \ {c} : yielder'[d] = yielder[d]
        /\ \A u \in Threads \ {t} : queued'[u] = queued[u]
        /\ UNCHANGED <<cpu, repoll, event>>
    BY <1>0, <1>2 DEF DequeueReady, YielderConsumed, TypeInv, TypeOK
  <2>3. \A d \in Cpus : pc'[d] = "sleep" => pc[d] = "sleep"
    BY <1>0, <1>2 DEF DequeueReady, TypeInv, TypeOK
  <2>4. YielderIsQueued'
    <3> SUFFICES ASSUME NEW d \in Cpus, yielder'[d] # NoThread
                 PROVE  queued'[yielder'[d]] /\ cpu'[yielder'[d]] = d
      BY DEF YielderIsQueued
    <3>1. d # c /\ yielder'[d] = yielder[d]
      BY <2>2
    <3>2. PICK u \in Threads : u = yielder[d]
      BY <1>0, <3>1 DEF TypeInv, TypeOK
    <3>3. queued[u] /\ cpu[u] = d
      BY <3>1, <3>2 DEF QueueInv, YielderIsQueued
    <3> QED
      BY <2>1, <2>2, <3>1, <3>2, <3>3
  <2>5. NoSleepOnWork'
    BY <2>2, <2>3, SleepersUndisturbed DEF QueueInv
  <2> QED
    BY <2>4, <2>5 DEF QueueInv
<1>3. CASE Migrate(c)
  <2>1. PICK t \in Threads : t = owned[c] /\ ~Listed(t)
    BY <1>3, OwnedTarget DEF Migrate, Busy
  <2>2. /\ queued' = [queued EXCEPT ![t] = TRUE]
        /\ cpu' = [cpu EXCEPT ![t] = home[t]]
        /\ event' = Poked(home[t])
        /\ UNCHANGED <<yielder, repoll>>
    BY <1>3, <2>1 DEF Migrate, LinkAtHeadIfPreempted, LinkReadyLocked
  <2>3. /\ home[t] \in Cpus
        /\ \A d \in Cpus : pc'[d] = "sleep" => pc[d] = "sleep"
    BY <1>0, <1>3, <2>1 DEF Migrate, TypeInv, TypeOK
  <2> QED
    BY <1>0, <2>1, <2>2, <2>3, LinkKeepsQueues DEF Listed
<1>4. CASE ParkSuspended(c)
  <2>1. PICK t \in Threads : t = owned[c] /\ ~Listed(t)
    BY <1>4, OwnedTarget DEF ParkSuspended, Busy
  <2>2. /\ UNCHANGED <<queued, yielder, repoll, event>>
        /\ cpu' \in {cpu, [cpu EXCEPT ![t] = c]}
    BY <1>4, <2>1 DEF ParkSuspended
  <2>3. \A u \in Threads : queued[u] => cpu'[u] = cpu[u]
    BY <1>0, <2>1, <2>2 DEF Listed, TypeInv, TypeOK
  <2>4. \A d \in Cpus : pc'[d] = "sleep" => pc[d] = "sleep"
    BY <1>0, <1>4 DEF ParkSuspended, TypeInv, TypeOK
  <2> QED
    BY <1>0, <2>2, <2>3, <2>4, SameQueues
<1>5. CASE Recheck(c)
  <2>1. UNCHANGED <<queued, cpu, yielder, repoll, event>>
    BY <1>5 DEF Recheck
  <2>2. YielderIsQueued'
    BY <1>0, <2>1, YieldersUndisturbed DEF QueueInv
  <2>3. ASSUME NEW d \in Cpus, pc'[d] = "sleep",
               repoll'[d] \/ \E t \in Threads : queued'[t] /\ cpu'[t] = d
        PROVE  event'[d]
    <3>1. CASE d = c
      <4>1. ~HaveWork(c)
        BY <1>0, <1>5, <2>3, <3>1 DEF Recheck, TypeInv, TypeOK
      <4> QED
        BY <2>1, <2>3, <3>1, <4>1, NoneReadyNoneQueued DEF HaveWork
    <3>2. CASE d # c
      <4>1. pc[d] = "sleep"
        BY <1>0, <1>5, <2>3, <3>2 DEF Recheck, TypeInv, TypeOK
      <4> QED
        BY <2>1, <2>3, <4>1 DEF QueueInv, NoSleepOnWork
    <3> QED
      BY <3>1, <3>2
  <2> QED
    BY <2>2, <2>3 DEF QueueInv, NoSleepOnWork
<1>6. CASE \E all \in BOOLEAN : RereadyBlocked(c, all)
  <2>1. /\ UNCHANGED <<queued, cpu, yielder, event>>
        /\ \A d \in Cpus : repoll'[d] => repoll[d]
        /\ \A d \in Cpus : pc'[d] = "sleep" => pc[d] = "sleep"
    BY <1>0, <1>6 DEF RereadyBlocked, TypeInv, TypeOK
  <2>2. YielderIsQueued'
    BY <1>0, <2>1, YieldersUndisturbed DEF QueueInv
  <2>3. NoSleepOnWork'
    BY <2>1, SleepersUndisturbed DEF QueueInv
  <2> QED
    BY <2>2, <2>3 DEF QueueInv
<1>7. CASE \/ NothingToPoll(c) \/ KeepParked(c) \/ WalkDone(c) \/ ReadSuspendCount(c)
           \/ SwitchTo(c) \/ SwitchBack(c) \/ Park(c) \/ WakeUp(c)
  <2>1. UNCHANGED <<queued, cpu, yielder, repoll>>
    BY <1>7 DEF NothingToPoll, KeepParked, WalkDone, ReadSuspendCount, SwitchTo, SwitchBack,
       Park, WakeUp
  <2>2. \A d \in Cpus : pc'[d] = "sleep" => pc[d] = "sleep" /\ (event[d] => event'[d])
    BY <1>0, <1>7 DEF NothingToPoll, KeepParked, WalkDone, ReadSuspendCount, SwitchTo, SwitchBack,
       Park, WakeUp, TypeInv, TypeOK
  <2> QED
    BY <1>0, <2>1, <2>2, SameQueues
<1> QED
  BY <1>1, <1>2, <1>3, <1>4, <1>5, <1>6, <1>7 DEF RunLoop

LEMMA FiberKeepsQueues ==
  ASSUME LinkInv, QueueInv, NEW c \in Cpus, GuestCode(c) \/ FiberEnds(c)
  PROVE  QueueInv'
<1> USE DEF linkVars, lifeVars, callVars, cpuVars, wakeVars, YieldToScheduler, Goto
<1>0. pc[c] = "fiber" /\ TypeInv
  BY GuestStep DEF LinkInv
<1>t. PICK t \in Threads : t = owned[c] /\ ~Listed(t)
  BY <1>0, OwnedTarget DEF Busy
<1>1. ASSUME NEW toOther \in BOOLEAN, YieldCurrentThread(c, toOther)
      PROVE  QueueInv'
  <2>1. /\ queued' = [queued EXCEPT ![t] = TRUE]
        /\ cpu' = [cpu EXCEPT ![t] = c]
        /\ pc' = [pc EXCEPT ![c] = "back"]
        /\ event' = Poked(c)
        /\ yielder' = IF toOther THEN [yielder EXCEPT ![c] = t] ELSE yielder
        /\ UNCHANGED repoll
    <3>1. UNCHANGED repoll
      BY <1>1 DEF YieldCurrentThread
    <3> QED
      BY <1>t, <1>1, <3>1, YieldEffect
  <2>2. /\ queued'[t] /\ cpu'[t] = c
        /\ \A u \in Threads \ {t} : queued'[u] = queued[u] /\ cpu'[u] = cpu[u]
        /\ yielder'[c] \in {yielder[c], t}
        /\ \A d \in Cpus \ {c} : yielder'[d] = yielder[d]
        /\ \A d \in Cpus : pc'[d] = "sleep" => d # c /\ pc[d] = "sleep"
    BY <1>0, <2>1 DEF TypeInv, TypeOK
  <2>3. YielderIsQueued'
    <3> SUFFICES ASSUME NEW d \in Cpus, yielder'[d] # NoThread
                 PROVE  queued'[yielder'[d]] /\ cpu'[yielder'[d]] = d
      BY DEF YielderIsQueued
    <3>1. CASE yielder'[d] = yielder[d]
      <4>1. PICK u \in Threads : u = yielder[d]
        BY <1>0, <3>1 DEF TypeInv, TypeOK
      <4>2. queued[u] /\ cpu[u] = d
        BY <3>1, <4>1 DEF QueueInv, YielderIsQueued
      <4> QED
        BY <1>t, <2>2, <3>1, <4>1, <4>2 DEF Listed
    <3>2. CASE yielder'[d] # yielder[d]
      BY <2>2, <3>2
    <3> QED
      BY <3>1, <3>2
  <2>4. \A d \in Cpus : event[d] => event'[d]
    BY <1>0, <2>1, PokedEvent
  <2>5. NoSleepOnWork'
    BY <2>1, <2>2, <2>4, SleepersUndisturbed DEF QueueInv
  <2> QED
    BY <2>3, <2>5 DEF QueueInv
<1>2. ASSUME NEW interruptible \in BOOLEAN, NEW signalled \in BOOLEAN,
             BlockCurrentThread(c, interruptible, signalled)
      PROVE  QueueInv'
  <2>1. /\ cpu' = [cpu EXCEPT ![t] = c]
        /\ pc' = [pc EXCEPT ![c] = "back"]
        /\ repoll' = [repoll EXCEPT ![c] = @ \/ signalled]
        /\ UNCHANGED <<queued, yielder, event>>
    BY <1>t, <1>2 DEF BlockCurrentThread
  <2>2. /\ \A u \in Threads : queued[u] => cpu'[u] = cpu[u]
        /\ \A d \in Cpus : pc'[d] = "sleep" => pc[d] = "sleep" /\ repoll'[d] = repoll[d]
    BY <1>0, <1>t, <2>1 DEF TypeInv, TypeOK, Listed
  <2>3. YielderIsQueued'
    BY <1>0, <2>1, <2>2, YieldersUndisturbed DEF QueueInv
  <2>4. NoSleepOnWork'
    BY <2>1, <2>2, SleepersUndisturbed DEF QueueInv
  <2> QED
    BY <2>3, <2>4 DEF QueueInv
<1>3. CASE FiberCrash(c)
  <2>1. /\ queued' = [queued EXCEPT ![t] = FALSE]
        /\ pc' = [pc EXCEPT ![c] = "back"]
        /\ yielder' = [d \in Cpus |-> IF yielder[d] = t THEN NoThread ELSE yielder[d]]
        /\ UNCHANGED <<cpu, repoll, event>>
    BY <1>t, <1>3 DEF FiberCrash
  <2>2. /\ UNCHANGED queued
        /\ \A d \in Cpus : pc'[d] = "sleep" => pc[d] = "sleep"
    BY <1>0, <1>t, <2>1 DEF TypeInv, TypeOK, Listed
  <2>3. YielderIsQueued'
    BY <2>1, <2>2 DEF QueueInv, YielderIsQueued
  <2>4. NoSleepOnWork'
    BY <2>1, <2>2, SleepersUndisturbed DEF QueueInv
  <2> QED
    BY <2>3, <2>4 DEF QueueInv
<1>4. CASE \/ FiberReturns(c) \/ SelfSuspend(c) \/ SelfSuspendReturns(c) \/ FenceReached(c)
           \/ Exit(c) \/ ExitIfTerminated(c)
  <2>1. /\ UNCHANGED <<queued, cpu, yielder, repoll, event>>
        /\ pc' \in {pc, [pc EXCEPT ![c] = "back"]}
    BY <1>4 DEF FiberReturns, SelfSuspend, SelfSuspendReturns, FenceReached, Exit,
       ExitIfTerminated, ExitFiber
  <2>2. \A d \in Cpus : pc'[d] = "sleep" => pc[d] = "sleep"
    BY <1>0, <2>1 DEF TypeInv, TypeOK
  <2> QED
    BY <1>0, <2>1, <2>2, SameQueues
<1> QED
  BY <1>1, <1>2, <1>3, <1>4 DEF GuestCode, FiberEnds, Safepoint, VoluntaryYield

-----------------------------------------------------------------------------
\* The invariant of the scheduler: each part is needed for the others.
SchedulerInv == LinkInv /\ LifeInv /\ SlotInv /\ QueueInv

LEMMA InitLife == Init => LifeInv /\ SlotInv /\ QueueInv
<1> SUFFICES ASSUME Init PROVE LifeInv /\ SlotInv /\ QueueInv
  OBVIOUS
<1>1. ASSUME NEW t \in Threads
      PROVE  Life(t)
  <2>1. resumer[t] = "create" \/ (resumer[t] = "idle" /\ suspendCount[t] = 1)
    BY DEF Init
  <2>2. /\ ~Listed(t) /\ ~running[t] /\ ~hasRun[t] /\ ~terminatePending[t]
        /\ kstate[t] = "initialized" /\ ~reclaimed[t] /\ at[t] = "entry" /\ terminator[t] = "idle"
        /\ ~queued[t] /\ ~blocked[t] /\ ~suspended[t]
    BY DEF Init, Listed
  <2> QED
    BY <2>1, <2>2 DEF Life, Over, Ended
<1>2. /\ \A c \in Cpus : pc[c] = "loop" /\ owned[c] = NoThread /\ current[c] = NoThread
      /\ \A c \in Cpus : yielder[c] = NoThread /\ exited[c] = NoThread
  BY DEF Init
<1> QED
  BY <1>1, <1>2 DEF LifeInv, SlotInv, Slot, OnFiber, QueueInv, YielderIsQueued, NoSleepOnWork

LEMMA SchedulerInvInductive ==
  /\ Init => SchedulerInv
  /\ SchedulerInv /\ [Next]_vars => SchedulerInv'
<1>1. Init => SchedulerInv
  BY InitLife, LinkInvInductive DEF SchedulerInv
<1>2. SchedulerInv /\ [Next]_vars => SchedulerInv'
  <2> SUFFICES ASSUME SchedulerInv, [Next]_vars PROVE SchedulerInv'
    OBVIOUS
  <2>1. LinkInv /\ LifeInv /\ SlotInv /\ QueueInv /\ LinkInv'
    BY LinkInvInductive DEF SchedulerInv
  <2>2. CASE UNCHANGED vars
    <3>1. LifeInv'
      BY <2>1, <2>2, SameLife DEF LifeInv, lifeOf, vars, linkVars, lifeVars, callVars
    <3>2. SlotInv'
      BY <2>1, <2>2, SlotsUndisturbed DEF Listed, vars, linkVars, lifeVars, cpuVars
    <3>3. QueueInv'
      BY <2>1, <2>2, SameQueues DEF LinkInv, vars, linkVars, cpuVars, wakeVars
    <3> QED
      BY <2>1, <3>1, <3>2, <3>3 DEF SchedulerInv
  <2>3. CASE \E c \in Cpus : RunLoop(c)
    BY <2>1, <2>3, RunLoopKeepsLife, RunLoopKeepsSlots, RunLoopKeepsQueues DEF SchedulerInv
  <2>4. CASE \/ \E c \in Cpus : GuestCode(c)
             \/ \E c \in Cpus : resumer[owned[c]] = "idle" /\ FiberEnds(c)
    BY <2>1, <2>4, FiberKeepsLife, FiberKeepsSlots, FiberKeepsQueues DEF SchedulerInv
  <2>5. CASE \/ \E t \in Threads : terminator[t] = "idle" /\ Resume(t)
             \/ \E t \in Threads : resumer[t] = "idle" /\ Terminate(t)
    BY <2>1, <2>5, CallsKeepLife, CallsKeepSlots, CallsKeepQueues DEF SchedulerInv
  <2>6. CASE OtherCalls
    <3>1. CASE \E t \in Threads : \/ Create(t) \/ ResumeThread(t) \/ MarkReady(t)
                                  \/ MarkReadyEnqueue(t) \/ TerminateThread(t)
      BY <2>1, <3>1, CallsKeepLife, CallsKeepSlots, CallsKeepQueues DEF SchedulerInv
    <3>2. CASE \/ \E t \in Threads : Suspend(t) \/ RequeueForPriority(t)
               \/ \E t \in Threads, c \in Cpus : SetActiveCpu(t, c)
               \/ \E t \in Threads, p \in Prios : PublishPriority(t, p)
               \/ \E c \in Cpus : Watchdog(c)
      BY <2>1, <3>2, OtherCallsKeepLife, CallsKeepSlots, CallsKeepQueues DEF SchedulerInv
    <3>3. ASSUME NEW watchers \in SUBSET {t \in Threads : blocked[t]}, WakeForSignal(watchers)
          PROVE  SchedulerInv'
      <4>1. watchers \in SUBSET Threads
        OBVIOUS
      <4> QED
        BY <2>1, <3>3, <4>1, OtherCallsKeepLife, CallsKeepSlots, CallsKeepQueues
        DEF SchedulerInv
    <3>4. \/ \E t \in Threads : Suspend(t) \/ RequeueForPriority(t)
          \/ \E t \in Threads, c \in Cpus : SetActiveCpu(t, c)
          \/ \E t \in Threads, p \in Prios : PublishPriority(t, p)
          \/ \E c \in Cpus : Watchdog(c)
          \/ \E t \in Threads : \/ Create(t) \/ ResumeThread(t) \/ MarkReady(t)
                                \/ MarkReadyEnqueue(t) \/ TerminateThread(t)
          \/ \E watchers \in SUBSET {t \in Threads : blocked[t]} : WakeForSignal(watchers)
      BY <2>6, ConstantsAssumption DEF OtherCalls
    <3> QED
      BY <3>1, <3>2, <3>3, <3>4
  <2> QED
    BY <2>2, <2>3, <2>4, <2>5, <2>6, ConstantsAssumption DEF Next
<1> QED
  BY <1>1, <1>2

\* No list and no CPU refers to a thread whose last reference was released, if a
\* thread is not resumed while it is terminated or exits.
THEOREM NothingRefersToFreed == Spec => []NoZombie
<1>1. SchedulerInv => NoZombie
  <2> SUFFICES ASSUME SchedulerInv, NEW t \in Threads, reclaimed[t]
               PROVE  /\ ~Listed(t)
                      /\ \A c \in Cpus : t \notin {owned[c], current[c], yielder[c], exited[c]}
    BY DEF NoZombie
  <2>1. ~Listed(t) /\ ~running[t]
    BY DEF SchedulerInv, LifeInv, Life, Over
  <2>2. ASSUME NEW c \in Cpus
        PROVE  t \notin {owned[c], current[c], yielder[c], exited[c]}
    <3>1. owned[c] # t /\ t # NoThread
      BY <2>1, ConstantsAssumption DEF SchedulerInv, LinkInv, OneOwner
    <3>2. current[c] # t /\ exited[c] # t
      BY <3>1 DEF SchedulerInv, SlotInv, Slot
    <3>3. yielder[c] # t
      BY <2>1, <3>1 DEF SchedulerInv, QueueInv, YielderIsQueued, Listed
    <3> QED
      BY <3>1, <3>2, <3>3
  <2> QED
    BY <2>1, <2>2
<1> QED
  BY <1>1, SchedulerInvInductive, PTL DEF Spec

\* A live thread always has someone to make it run, whatever the order in which it
\* is suspended, resumed, terminated, migrated and dispatched.
THEOREM NobodyStranded == Spec => []NoStrand
<1>1. SchedulerInv => NoStrand
  <2> SUFFICES ASSUME SchedulerInv PROVE NoStrand
    OBVIOUS
  <2>1. ASSUME NEW t \in Threads
        PROVE  /\ at[t] \notin {"dead", "crashed"} =>
                    \/ reclaimed[t] \/ Listed(t) \/ running[t]
                    \/ resumer[t] # "idle"
                    \/ suspendCount[t] > 0 /\ ~hasRun[t] /\ ~terminatePending[t]
               /\ suspended[t] => suspendCount[t] > 0 \/ resumer[t] = "unlink"
               /\ ~(suspended[t] /\ terminatePending[t])
    <3>1. Life(t) /\ ~(queued[t] /\ suspended[t]) /\ ~(blocked[t] /\ suspended[t])
      BY DEF SchedulerInv, LifeInv, LinkInv, ListInv, OneFlag
    <3> QED
      BY <3>1 DEF Life, Over, Ended, Listed
  <2>2. ASSUME NEW t \in Threads, at[t] = "dead", ~reclaimed[t]
        PROVE  \E c \in Cpus : exited[c] = t /\ owned[c] = t
    <3>1. running[t]
      BY <2>2 DEF SchedulerInv, LifeInv, Life
    <3>2. PICK c \in Cpus : owned[c] = t
      BY <3>1 DEF SchedulerInv, LinkInv, OneOwner
    <3> QED
      BY <2>2, <3>2, ConstantsAssumption DEF SchedulerInv, SlotInv, Slot, Ended
  <2> QED
    BY <2>1, <2>2 DEF NoStrand
<1> QED
  BY <1>1, SchedulerInvInductive, PTL DEF Spec

\* A dispatch thread does not sleep on ready threads or on a requested re-poll:
\* whoever links a thread or asks for a re-poll after the last check wakes it.
THEOREM NobodySleepsOnWork == Spec => []NoSleepOnWork
<1>1. SchedulerInv => NoSleepOnWork
  BY DEF SchedulerInv, QueueInv
<1> QED
  BY <1>1, SchedulerInvInductive, PTL DEF Spec

\* yield_to_other points at a thread that is in the queue it is compared with,
\* though others requeue, terminate and migrate threads between the yield and the
\* pick.
THEOREM YielderStaysQueued == Spec => []YielderIsQueued
<1>1. SchedulerInv => YielderIsQueued
  BY DEF SchedulerInv, QueueInv
<1> QED
  BY <1>1, SchedulerInvInductive, PTL DEF Spec

-----------------------------------------------------------------------------
(* The scheduler implements DispatchContract.tla.                          *)

placeOf(t) == <<reclaimed[t], running[t], queued[t], blocked[t], suspended[t]>>

\* The step of the contract that moves the one thread |t|.
LEMMA OneMoves ==
  ASSUME NEW t \in Threads, \A u \in Threads \ {t} : placeOf(u)' = placeOf(u)
  PROVE  [u \in Threads |-> Place(u)]' = [[u \in Threads |-> Place(u)] EXCEPT ![t] = Place(t)']
<1>1. \A u \in Threads \ {t} : Place(u)' = Place(u)
  BY DEF Place, placeOf
<1> QED
  BY <1>1

LEMMA NobodyMoves ==
  ASSUME \A u \in Threads : placeOf(u)' = placeOf(u), UNCHANGED owned
  PROVE  UNCHANGED Contract!vars
<1>1. \A u \in Threads : Place(u)' = Place(u)
  BY DEF Place, placeOf
<1> QED
  BY <1>1 DEF Contract!vars

\* A thread that is in no list and on no CPU, or parked, becomes ready.
LEMMA BecomesReady ==
  ASSUME SchedulerInv, NEW t \in Threads, ~Over(t), ~running[t], ~queued[t],
         \A u \in Threads \ {t} : placeOf(u)' = placeOf(u),
         ~reclaimed'[t], ~running'[t], queued'[t], UNCHANGED owned
  PROVE  Contract!MakeReady(t)
<1>1. Place(t) \in {"off", "blocked", "suspended"}
  BY DEF Place, Over
<1>2. Place(t)' = "ready"
  BY DEF Place
<1> QED
  BY <1>1, <1>2, OneMoves DEF Contract!MakeReady

\* |c| gives up its thread, which is then where its links say.
LEMMA GivesUp ==
  ASSUME SchedulerInv, NEW c \in Cpus, NEW t \in Threads, t = owned[c],
         \A u \in Threads \ {t} : placeOf(u)' = placeOf(u),
         ~running'[t], owned' = [owned EXCEPT ![c] = NoThread]
  PROVE  \E where \in Contract!Parking \cup {"gone"} : Contract!Leave(c, where)
<1>1. Place(t)' \in Contract!Parking \cup {"gone"}
  BY DEF Place, Contract!Parking
<1>2. [u \in Threads |-> Place(u)]' = [[u \in Threads |-> Place(u)] EXCEPT ![t] = Place(t)']
  BY OneMoves
<1>3. owned[c] # NoThread
  BY ConstantsAssumption
<1>4. Contract!Leave(c, Place(t)')
  BY <1>2, <1>3 DEF Contract!Leave
<1> QED
  BY <1>1, <1>4

LEMMA CallsKeepContract ==
  ASSUME SchedulerInv, NEW t \in Threads,
         \/ Create(t) \/ Resume(t) \/ ResumeThread(t) \/ MarkReady(t) \/ MarkReadyEnqueue(t)
         \/ Suspend(t) \/ Terminate(t) \/ TerminateThread(t) \/ RequeueForPriority(t)
         \/ \E c \in Cpus : SetActiveCpu(t, c)
         \/ \E p \in Prios : PublishPriority(t, p)
  PROVE  Contract!Next \/ UNCHANGED Contract!vars
<1> USE DEF linkVars, lifeVars, callVars, cpuVars, wakeVars, placeOf
<1>0. TypeInv /\ LinkInv /\ Life(t)
  BY DEF SchedulerInv, LinkInv, LifeInv
<1>1. CASE Create(t) \/ MarkReadyEnqueue(t)
  <2>1. /\ resumer[t] \in {"create", "enqueue"}
        /\ EnqueueReady(t, home[t], NoCpu)
        /\ UNCHANGED <<blocked, suspended, running, reclaimed, owned>>
    BY <1>1 DEF Create, MarkReadyEnqueue
  <2>2. ~Over(t) /\ home[t] \in Cpus
    BY <1>0, <2>1 DEF Life, TypeInv, TypeOK
  <2>3. CASE UNCHANGED queued
    BY <2>1, <2>3, NobodyMoves
  <2>4. CASE ~Listed(t) /\ ~running[t] /\ queued' = [queued EXCEPT ![t] = TRUE]
    <3>1. queued'[t] /\ \A u \in Threads \ {t} : queued'[u] = queued[u]
      BY <1>0, <2>4 DEF TypeInv, TypeOK
    <3>2. Contract!MakeReady(t)
      BY <2>1, <2>2, <2>4, <3>1, BecomesReady DEF Over, Listed
    <3> QED
      BY <3>2 DEF Contract!Next
  <2> QED
    BY <1>0, <2>1, <2>2, <2>3, <2>4, EnqueueReadyElsewhere
<1>2. CASE ResumeThread(t)
  <2>1. /\ ~suspended'[t] /\ \A u \in Threads \ {t} : suspended'[u] = suspended[u]
        /\ UNCHANGED <<queued, blocked, running, reclaimed, owned>>
    BY <1>0, <1>2 DEF ResumeThread, TypeInv, TypeOK
  <2>2. CASE ~suspended[t]
    <3>1. UNCHANGED suspended
      BY <1>0, <1>2, <2>2 DEF ResumeThread, TypeInv, TypeOK
    <3> QED
      BY <2>1, <3>1, NobodyMoves
  <2>3. CASE suspended[t]
    <3>1. ~queued[t] /\ ~blocked[t]
      BY <1>0, <2>3 DEF LinkInv, ListInv, OneFlag
    <3>2. ~running[t] /\ ~reclaimed[t]
      BY <1>0, <2>3 DEF Life, Over, Listed
    <3>3. Place(t) = "suspended" /\ Place(t)' = "off"
      BY <2>1, <2>3, <3>1, <3>2 DEF Place
    <3>4. Contract!Unsuspend(t)
      BY <2>1, <3>3, OneMoves DEF Contract!Unsuspend
    <3> QED
      BY <3>4 DEF Contract!Next
  <2> QED
    BY <2>2, <2>3
<1>3. CASE TerminateThread(t)
  <2>1. UNCHANGED owned
    BY <1>3 DEF TerminateThread
  <2>2. CASE ~running[t] /\ DispatchToExit(t)
    <3>1. /\ blocked[t] \/ suspended[t]
          /\ queued'[t]
          /\ \A u \in Threads \ {t} : /\ queued'[u] = queued[u] /\ blocked'[u] = blocked[u]
                                      /\ suspended'[u] = suspended[u]
          /\ UNCHANGED <<running, reclaimed>>
      BY <1>0, <2>2 DEF DispatchToExit, LinkReadyLocked, TypeInv, TypeOK
    <3>2. ~Over(t) /\ ~queued[t]
      BY <1>0, <3>1 DEF Life, Listed, LinkInv, ListInv, OneFlag
    <3>3. Contract!MakeReady(t)
      BY <2>1, <2>2, <3>1, <3>2, BecomesReady DEF Over
    <3> QED
      BY <3>3 DEF Contract!Next
  <2>3. CASE TerminateInPlace(t)
    <3>1. /\ running[t] \/ ~(blocked[t] \/ suspended[t])
          /\ reclaimed' = [reclaimed EXCEPT ![t] = @ \/ (~running[t] /\ ~queued[t] /\ ~hasRun[t])]
          /\ UNCHANGED <<queued, blocked, suspended, running>>
      BY <2>3 DEF TerminateInPlace
    <3>2. CASE reclaimed[t] \/ running[t] \/ queued[t] \/ hasRun[t]
      <4>1. UNCHANGED reclaimed
        BY <1>0, <3>1, <3>2 DEF TypeInv, TypeOK
      <4> QED
        BY <2>1, <3>1, <4>1, NobodyMoves
    <3>3. CASE ~(reclaimed[t] \/ running[t] \/ queued[t] \/ hasRun[t])
      <4>1. reclaimed'[t] /\ \A u \in Threads \ {t} : reclaimed'[u] = reclaimed[u]
        BY <1>0, <3>1, <3>3 DEF TypeInv, TypeOK
      <4>2. Place(t) = "off" /\ Place(t)' = "gone"
        BY <3>1, <3>3, <4>1 DEF Place
      <4>3. Contract!Free(t)
        BY <2>1, <3>1, <4>1, <4>2, OneMoves DEF Contract!Free
      <4> QED
        BY <4>3 DEF Contract!Next
    <3> QED
      BY <3>2, <3>3
  <2> QED
    BY <1>3, <2>2, <2>3 DEF TerminateThread
<1>4. CASE RequeueForPriority(t)
  <2>1. UNCHANGED <<blocked, suspended, running, reclaimed, owned>>
    BY <1>4 DEF RequeueForPriority
  <2>2. UNCHANGED queued
    <3>1. CASE queued[t]
      <4>1. queued' = [queued EXCEPT ![t] = TRUE]
        BY <1>4, <3>1 DEF RequeueForPriority, LinkReadyLocked
      <4> QED
        BY <1>0, <3>1, <4>1 DEF TypeInv, TypeOK
    <3>2. CASE ~queued[t]
      BY <1>4, <3>2 DEF RequeueForPriority
    <3> QED
      BY <3>1, <3>2
  <2> QED
    BY <2>1, <2>2, NobodyMoves
<1>5. CASE \/ Resume(t) \/ MarkReady(t) \/ Suspend(t) \/ Terminate(t)
           \/ \E c \in Cpus : SetActiveCpu(t, c)
           \/ \E p \in Prios : PublishPriority(t, p)
  <2>1. UNCHANGED <<queued, blocked, suspended, running, reclaimed, owned>>
    BY <1>5 DEF Resume, MarkReady, Suspend, Terminate, SetActiveCpu, PublishPriority
  <2> QED
    BY <2>1, NobodyMoves
<1> QED
  BY <1>1, <1>2, <1>3, <1>4, <1>5

LEMMA RunLoopKeepsContract ==
  ASSUME SchedulerInv, NEW c \in Cpus, RunLoop(c)
  PROVE  Contract!Next \/ UNCHANGED Contract!vars
<1> USE DEF linkVars, lifeVars, callVars, cpuVars, wakeVars, placeOf
<1>0. TypeInv /\ LinkInv /\ Slot(c) /\ \A t \in Threads : Life(t)
  BY DEF SchedulerInv, LinkInv, LifeInv, SlotInv
<1>1. CASE Reready(c)
  <2>1. PICK t \in Threads : t = list[BlockedId(c)][walk[c]] /\ blocked[t] /\ ~running[t]
    BY <1>0, <1>1, RereadyTarget
  <2>2. /\ queued' = [queued EXCEPT ![t] = TRUE]
        /\ blocked' = [blocked EXCEPT ![t] = FALSE]
        /\ UNCHANGED <<suspended, running, reclaimed, owned>>
    BY <1>1, <2>1 DEF Reready, LinkAtHeadIfPreempted, LinkReadyLocked
  <2>3. /\ queued'[t]
        /\ \A u \in Threads \ {t} : queued'[u] = queued[u] /\ blocked'[u] = blocked[u]
    BY <1>0, <2>2 DEF TypeInv, TypeOK
  <2>4. ~Over(t) /\ ~queued[t]
    BY <1>0, <2>1 DEF Life, Listed, LinkInv, ListInv, OneFlag
  <2>5. Contract!MakeReady(t)
    BY <2>1, <2>2, <2>3, <2>4, BecomesReady DEF Over
  <2> QED
    BY <2>5 DEF Contract!Next
<1>2. ASSUME NEW t \in Threads, DequeueReady(c, t)
      PROVE  Contract!Next
  <2>1. queued[t] /\ ~running[t] /\ owned[c] = NoThread
    BY <1>0, <1>2, DequeueTarget
  <2>2. ~reclaimed[t]
    BY <1>0, <2>1 DEF Life, Over, Listed
  <2>3. /\ running'[t]
        /\ \A u \in Threads \ {t} : queued'[u] = queued[u] /\ running'[u] = running[u]
        /\ owned' = [owned EXCEPT ![c] = t]
        /\ UNCHANGED <<blocked, suspended, reclaimed>>
    BY <1>0, <1>2 DEF DequeueReady, TypeInv, TypeOK
  <2>4. Place(t) = "ready" /\ Place(t)' = "cpu"
    BY <2>1, <2>2, <2>3 DEF Place
  <2>5. Contract!Dispatch(c, t)
    BY <2>1, <2>3, <2>4, OneMoves DEF Contract!Dispatch
  <2> QED
    BY <2>5 DEF Contract!Next
<1>3. CASE Migrate(c) \/ ParkSuspended(c) \/ SwitchBack(c)
  <2>1. pc[c] \in Busy
    BY <1>3 DEF Migrate, ParkSuspended, SwitchBack, Busy
  <2>2. PICK t \in Threads : t = owned[c]
    BY <1>0, <2>1, OwnedTarget
  <2>3. CASE Migrate(c)
    <3>1. /\ queued' = [queued EXCEPT ![t] = TRUE]
          /\ running' = [running EXCEPT ![t] = FALSE]
          /\ owned' = [owned EXCEPT ![c] = NoThread]
          /\ UNCHANGED <<blocked, suspended, reclaimed>>
      BY <2>2, <2>3 DEF Migrate, LinkAtHeadIfPreempted, LinkReadyLocked
    <3>2. /\ ~running'[t]
          /\ \A u \in Threads \ {t} : queued'[u] = queued[u] /\ running'[u] = running[u]
      BY <1>0, <3>1 DEF TypeInv, TypeOK
    <3> QED
      BY <2>2, <3>1, <3>2, GivesUp DEF Contract!Next
  <2>4. CASE ParkSuspended(c)
    <3>1. CASE RunsAnyway(t)
      BY <2>2, <2>4, <3>1, NobodyMoves DEF ParkSuspended
    <3>2. CASE ~RunsAnyway(t)
      <4>1. /\ suspended' = [suspended EXCEPT ![t] = TRUE]
            /\ running' = [running EXCEPT ![t] = FALSE]
            /\ owned' = [owned EXCEPT ![c] = NoThread]
            /\ UNCHANGED <<queued, blocked, reclaimed>>
        BY <2>2, <2>4, <3>2 DEF ParkSuspended
      <4>2. /\ ~running'[t]
            /\ \A u \in Threads \ {t} : suspended'[u] = suspended[u] /\ running'[u] = running[u]
        BY <1>0, <4>1 DEF TypeInv, TypeOK
      <4> QED
        BY <2>2, <4>1, <4>2, GivesUp DEF Contract!Next
    <3> QED
      BY <3>1, <3>2
  <2>5. CASE SwitchBack(c)
    <3>1. /\ running' = [running EXCEPT ![t] = FALSE]
          /\ owned' = [owned EXCEPT ![c] = NoThread]
          /\ reclaimed' = [u \in Threads |-> reclaimed[u] \/ u = exited[c]]
          /\ UNCHANGED <<queued, blocked, suspended>>
      BY <2>2, <2>5 DEF SwitchBack
    <3>2. exited[c] \in {NoThread, t}
      BY <1>0, <2>2 DEF Slot
    <3>3. /\ ~running'[t]
          /\ \A u \in Threads \ {t} : reclaimed'[u] = reclaimed[u] /\ running'[u] = running[u]
      BY <1>0, <3>1, <3>2, ConstantsAssumption DEF TypeInv, TypeOK
    <3> QED
      BY <2>2, <3>1, <3>3, GivesUp DEF Contract!Next
  <2> QED
    BY <1>3, <2>3, <2>4, <2>5
<1>4. CASE \/ \E all \in BOOLEAN : RereadyBlocked(c, all)
           \/ NothingToPoll(c) \/ KeepParked(c) \/ WalkDone(c) \/ ReadSuspendCount(c)
           \/ SwitchTo(c) \/ Park(c) \/ Recheck(c) \/ WakeUp(c)
  <2>1. UNCHANGED <<queued, blocked, suspended, running, reclaimed, owned>>
    BY <1>4 DEF RereadyBlocked, NothingToPoll, KeepParked, WalkDone, ReadSuspendCount, SwitchTo,
       Park, Recheck, WakeUp
  <2> QED
    BY <2>1, NobodyMoves
<1> QED
  BY <1>1, <1>2, <1>3, <1>4 DEF RunLoop

\* While a fiber is on a CPU, that is where its thread is, whatever list it has
\* joined on its way out.
LEMMA FiberKeepsContract ==
  ASSUME SchedulerInv, NEW c \in Cpus, GuestCode(c) \/ FiberEnds(c)
  PROVE  UNCHANGED Contract!vars
<1> USE DEF linkVars, lifeVars, callVars, cpuVars, wakeVars, YieldToScheduler
<1>0. pc[c] = "fiber" /\ TypeInv /\ LinkInv /\ LifeInv /\ SlotInv
  BY GuestStep DEF SchedulerInv, LinkInv
<1>t. PICK t \in Threads : t = owned[c] /\ running[t] /\ ~Over(t)
  BY <1>0, FiberTarget
<1>1. ASSUME UNCHANGED <<owned, running, reclaimed>>,
             \A u \in Threads \ {t} : /\ queued'[u] = queued[u] /\ blocked'[u] = blocked[u]
                                      /\ suspended'[u] = suspended[u]
      PROVE  UNCHANGED Contract!vars
  <2>1. \A u \in Threads : Place(u)' = Place(u)
    <3>1. ASSUME NEW u \in Threads \ {t}
          PROVE  Place(u)' = Place(u)
      BY <1>1 DEF Place
    <3>2. Place(t) = "cpu" /\ Place(t)' = "cpu"
      BY <1>t, <1>1 DEF Place, Over
    <3> QED
      BY <3>1, <3>2
  <2> QED
    BY <1>1, <2>1 DEF Contract!vars
<1>2. ASSUME NEW toOther \in BOOLEAN, YieldCurrentThread(c, toOther)
      PROVE  UNCHANGED Contract!vars
  <2>1. queued' = [queued EXCEPT ![t] = TRUE]
    BY <1>0, <1>t, <1>2, YieldEffect
  <2>2. UNCHANGED <<blocked, suspended, running, reclaimed, owned>>
    BY <1>2 DEF YieldCurrentThread
  <2>3. \A u \in Threads \ {t} : queued'[u] = queued[u]
    BY <1>0, <2>1 DEF TypeInv, TypeOK
  <2> QED
    BY <1>1, <2>2, <2>3
<1>3. ASSUME NEW interruptible \in BOOLEAN, NEW signalled \in BOOLEAN,
             BlockCurrentThread(c, interruptible, signalled)
      PROVE  UNCHANGED Contract!vars
  <2>1. /\ blocked' = [blocked EXCEPT ![t] = TRUE]
        /\ UNCHANGED <<queued, suspended, running, reclaimed, owned>>
    BY <1>t, <1>3 DEF BlockCurrentThread
  <2>2. \A u \in Threads \ {t} : blocked'[u] = blocked[u]
    BY <1>0, <2>1 DEF TypeInv, TypeOK
  <2> QED
    BY <1>1, <2>1, <2>2
<1>4. CASE FiberCrash(c)
  <2>1. /\ queued' = [queued EXCEPT ![t] = FALSE]
        /\ blocked' = [blocked EXCEPT ![t] = FALSE]
        /\ suspended' = [suspended EXCEPT ![t] = FALSE]
        /\ UNCHANGED <<running, reclaimed, owned>>
    BY <1>t, <1>4 DEF FiberCrash
  <2>2. \A u \in Threads \ {t} : /\ queued'[u] = queued[u] /\ blocked'[u] = blocked[u]
                                 /\ suspended'[u] = suspended[u]
    BY <1>0, <2>1 DEF TypeInv, TypeOK
  <2> QED
    BY <1>1, <2>1, <2>2
<1>5. CASE \/ FiberReturns(c) \/ SelfSuspend(c) \/ SelfSuspendReturns(c) \/ FenceReached(c)
           \/ Exit(c) \/ ExitIfTerminated(c)
  <2>1. UNCHANGED <<queued, blocked, suspended, running, reclaimed, owned>>
    BY <1>5 DEF FiberReturns, SelfSuspend, SelfSuspendReturns, FenceReached, Exit,
       ExitIfTerminated, ExitFiber
  <2> QED
    BY <1>1, <2>1
<1> QED
  BY <1>2, <1>3, <1>4, <1>5 DEF GuestCode, FiberEnds, Safepoint, VoluntaryYield

LEMMA ContractInit == Init => Contract!Init
<1> SUFFICES ASSUME Init PROVE Contract!Init
  OBVIOUS
<1>1. \A t \in Threads : Place(t) = "off"
  BY DEF Init, Place
<1>2. owned = [c \in Cpus |-> NoThread]
  BY DEF Init
<1> QED
  BY <1>1, <1>2 DEF Contract!Init

LEMMA ContractNext == SchedulerInv /\ [Next]_vars => [Contract!Next]_(Contract!vars)
<1> SUFFICES ASSUME SchedulerInv, [Next]_vars
             PROVE  Contract!Next \/ UNCHANGED Contract!vars
  OBVIOUS
<1>1. CASE \/ UNCHANGED vars
           \/ \E watchers \in SUBSET {t \in Threads : blocked[t]} : WakeForSignal(watchers)
           \/ \E c \in Cpus : Watchdog(c)
  <2>1. UNCHANGED <<queued, blocked, suspended, running, reclaimed, owned>>
    BY <1>1 DEF vars, WakeForSignal, Watchdog, linkVars, lifeVars, cpuVars
  <2> QED
    BY <2>1, NobodyMoves DEF placeOf
<1>2. CASE \E c \in Cpus : RunLoop(c)
  BY <1>2, RunLoopKeepsContract
<1>3. CASE \E c \in Cpus : GuestCode(c) \/ FiberEnds(c)
  BY <1>3, FiberKeepsContract
<1>4. CASE \E t \in Threads :
             \/ Create(t) \/ Resume(t) \/ ResumeThread(t) \/ MarkReady(t) \/ MarkReadyEnqueue(t)
             \/ Suspend(t) \/ Terminate(t) \/ TerminateThread(t) \/ RequeueForPriority(t)
             \/ \E c \in Cpus : SetActiveCpu(t, c)
             \/ \E p \in Prios : PublishPriority(t, p)
  BY <1>4, CallsKeepContract
<1> QED
  BY <1>1, <1>2, <1>3, <1>4, ConstantsAssumption DEF Next, OtherCalls

\* The scheduler implements the abstract contract: a thread reaches a CPU through a
\* ready queue, is on one CPU at a time, and never comes back once it is freed.
THEOREM ImplementsContract == Spec => KeepsContract
<1>1. Init => Contract!Init
  BY ContractInit
<1>2. SchedulerInv /\ [Next]_vars => [Contract!Next]_(Contract!vars)
  BY ContractNext
<1> QED
  BY <1>1, <1>2, SchedulerInvInductive, PTL DEF Spec, KeepsContract, Contract!Spec

=============================================================================
