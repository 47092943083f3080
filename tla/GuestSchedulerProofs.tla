------------------------ MODULE GuestSchedulerProofs ------------------------
(***************************************************************************)
(* Proofs about GuestScheduler.tla, for every set of threads and CPUs and  *)
(* every bound: its types, that its intrusive lists stay intact, and that  *)
(* a fiber is on one dispatch thread at a time.  SchedulerLifeProofs.tla   *)
(* builds on them.                                                         *)
(***************************************************************************)
EXTENDS GuestScheduler, QueueLemmas

\* The steps at which a dispatch thread owns a guest thread.
Busy == {"placed", "suspend", "switch", "fiber", "back"}

\* A dispatch thread owns a thread exactly at the steps that use one.
OwnsWhileBusy == \A c \in Cpus : owned[c] # NoThread <=> pc[c] \in Busy

\* The links of a thread that is in a list name a CPU.
LinksNameCpu == \A t \in Threads : Listed(t) => cpu[t] \in Cpus

TypeInv == TypeOK /\ OwnsWhileBusy /\ LinksNameCpu

LEMMA IdsInListIds ==
  ASSUME NEW c \in Cpus, NEW p \in Prios
  PROVE  ReadyId(c, p) \in ListIds /\ BlockedId(c) \in ListIds /\ SuspendedId(c) \in ListIds
BY DEF ReadyId, BlockedId, SuspendedId, ListIds

LEMMA BusyOwner ==
  ASSUME TypeInv, NEW c \in Cpus, pc[c] \in Busy
  PROVE  owned[c] \in Threads
BY DEF TypeInv, TypeOK, OwnsWhileBusy

\* The types of what LinkReadyLocked writes.
LEMMA LinkReadyTypes ==
  ASSUME TypeOK, NEW ls \in [ListIds -> Seq(Threads)], NEW t \in Threads, NEW c \in Cpus,
         NEW atHead, NEW pre \in [Threads -> BOOLEAN],
         LinkReadyLocked(ls, t, c, atHead, pre)
  PROVE  /\ list' \in [ListIds -> Seq(Threads)]
         /\ queued' \in [Threads -> BOOLEAN]
         /\ cpu' \in [Threads -> Cpus \cup {NoCpu}]
         /\ queuedPrio' \in [Threads -> Prios]
         /\ preempted' \in [Threads -> BOOLEAN]
         /\ preemptRequested' \in [Threads -> BOOLEAN]
<1>1. priority[t] \in Prios
  BY DEF TypeOK
<1> DEFINE l == ReadyId(c, priority[t])
<1>2. l \in ListIds /\ ls[l] \in Seq(Threads)
  BY <1>1, IdsInListIds
<1>3. Append(ls[l], t) \in Seq(Threads) /\ Cons(t, ls[l]) \in Seq(Threads)
  BY <1>2, AppendQueue, ConsQueue
<1>4. list' = [ls EXCEPT ![l] = IF atHead THEN Cons(t, ls[l]) ELSE Append(ls[l], t)]
  BY DEF LinkReadyLocked
<1> HIDE DEF l
<1>5. list' \in [ListIds -> Seq(Threads)]
  BY <1>2, <1>3, <1>4
<1> QED
  BY <1>1, <1>5 DEF LinkReadyLocked, TypeOK

\* EnqueueReady by any caller.
LEMMA EnqueueReadyTypes ==
  ASSUME TypeInv, NEW t \in Threads, NEW c \in Cpus, NEW here,
         EnqueueReady(t, c, here), UNCHANGED <<blocked, suspended>>
  PROVE  /\ list' \in [ListIds -> Seq(Threads)]
         /\ queued' \in [Threads -> BOOLEAN]
         /\ cpu' \in [Threads -> Cpus \cup {NoCpu}]
         /\ queuedPrio' \in [Threads -> Prios]
         /\ preempted' \in [Threads -> BOOLEAN]
         /\ preemptRequested' \in [Threads -> BOOLEAN]
         /\ event' \in [Cpus -> BOOLEAN]
         /\ LinksNameCpu'
<1>1. CASE OwnsItsWakeUp(t, here)
  BY <1>1 DEF EnqueueReady, TypeInv, TypeOK, LinksNameCpu, Listed
<1>2. CASE ~OwnsItsWakeUp(t, here)
  <2>1. LinkReadyLocked(list, t, c, preempted[t], [preempted EXCEPT ![t] = FALSE])
    BY <1>2 DEF EnqueueReady, LinkAtHeadIfPreempted
  <2>2. event' \in [Cpus -> BOOLEAN]
    BY <1>2 DEF EnqueueReady, Poked, Parked, TypeInv, TypeOK
  <2>3. LinksNameCpu'
    BY <2>1 DEF LinkReadyLocked, LinksNameCpu, Listed, TypeInv, TypeOK
  <2>4. TypeOK /\ list \in [ListIds -> Seq(Threads)] /\ preempted[t] \in BOOLEAN
        /\ [preempted EXCEPT ![t] = FALSE] \in [Threads -> BOOLEAN]
    BY DEF TypeInv, TypeOK
  <2> QED
    BY <2>1, <2>2, <2>3, <2>4, LinkReadyTypes
<1> QED
  BY <1>1, <1>2

-----------------------------------------------------------------------------
(* Every step keeps TypeInv.                                               *)

LEMMA CallsKeepTypes ==
  ASSUME TypeInv, NEW t \in Threads,
         \/ Create(t) \/ Resume(t) \/ ResumeThread(t) \/ MarkReady(t) \/ MarkReadyEnqueue(t)
         \/ Suspend(t) \/ Terminate(t) \/ TerminateThread(t) \/ RequeueForPriority(t)
         \/ \E c \in Cpus : SetActiveCpu(t, c)
         \/ \E p \in Prios : PublishPriority(t, p)
  PROVE  TypeInv'
<1> USE DEF TypeInv, TypeOK, OwnsWhileBusy, LinksNameCpu, Listed,
            linkVars, lifeVars, callVars, cpuVars, wakeVars
<1>1. CASE Create(t)
  BY <1>1, EnqueueReadyTypes DEF Create
<1>2. CASE Resume(t)
  BY <1>2, ConstantsAssumption DEF Resume
<1>3. CASE ResumeThread(t)
  BY <1>3, RemoveFirstQueue DEF ResumeThread, Unlinked
<1>4. CASE MarkReady(t)
  BY <1>4 DEF MarkReady
<1>5. CASE MarkReadyEnqueue(t)
  BY <1>5, EnqueueReadyTypes DEF MarkReadyEnqueue
<1>6. CASE Suspend(t)
  BY <1>6, ConstantsAssumption DEF Suspend
<1>7. CASE Terminate(t)
  BY <1>7 DEF Terminate, KStates
<1>8. CASE TerminateThread(t)
  <2>1. CASE DispatchToExit(t)
    <3>1. cpu[t] \in Cpus
      BY <2>1 DEF DispatchToExit
    <3>2. LinkReadyLocked(Unlinked(ListOf(t), t), t, cpu[t], TRUE, preempted)
      BY <2>1 DEF DispatchToExit
    <3>3. Unlinked(ListOf(t), t) \in [ListIds -> Seq(Threads)]
      BY RemoveFirstQueue DEF Unlinked
    <3>4. event' \in [Cpus -> BOOLEAN]
      BY <2>1 DEF DispatchToExit, Poked, Parked
    <3>5. LinksNameCpu'
      BY <1>8, <2>1, <3>1, <3>2 DEF LinkReadyLocked, DispatchToExit, TerminateThread
    <3> QED
      BY <1>8, <2>1, <3>1, <3>2, <3>3, <3>4, <3>5, LinkReadyTypes
      DEF DispatchToExit, TerminateThread
  <2>2. CASE TerminateInPlace(t)
    BY <1>8, <2>2 DEF TerminateThread, TerminateInPlace
  <2> QED
    BY <1>8, <2>1, <2>2 DEF TerminateThread
<1>9. CASE RequeueForPriority(t)
  <2>1. CASE queued[t]
    <3>1. cpu[t] \in Cpus
      BY <2>1
    <3>2. LinkReadyLocked(Unlinked(ListOf(t), t), t, cpu[t], FALSE, preempted)
      BY <1>9, <2>1 DEF RequeueForPriority
    <3>3. Unlinked(ListOf(t), t) \in [ListIds -> Seq(Threads)]
      BY RemoveFirstQueue DEF Unlinked
    <3>4. LinksNameCpu'
      BY <1>9, <3>1, <3>2 DEF LinkReadyLocked, RequeueForPriority
    <3> QED
      BY <1>9, <3>1, <3>2, <3>3, <3>4, LinkReadyTypes DEF RequeueForPriority
  <2>2. CASE ~queued[t]
    BY <1>9, <2>2 DEF RequeueForPriority
  <2> QED
    BY <2>1, <2>2
<1>10. ASSUME NEW c \in Cpus, SetActiveCpu(t, c)
       PROVE  TypeInv'
  BY <1>10 DEF SetActiveCpu
<1>11. ASSUME NEW p \in Prios, PublishPriority(t, p)
       PROVE  TypeInv'
  BY <1>11 DEF PublishPriority
<1> QED
  BY <1>1, <1>2, <1>3, <1>4, <1>5, <1>6, <1>7, <1>8, <1>9, <1>10, <1>11

LEMMA RunLoopKeepsTypes ==
  ASSUME TypeInv, NEW c \in Cpus, RunLoop(c)
  PROVE  TypeInv'
<1> USE DEF TypeInv, TypeOK, OwnsWhileBusy, LinksNameCpu, Listed, Busy, CpuSteps, Goto,
            linkVars, lifeVars, callVars, cpuVars, wakeVars
<1>1. ASSUME NEW all \in BOOLEAN, RereadyBlocked(c, all)
      PROVE  TypeInv'
  BY <1>1 DEF RereadyBlocked
<1>2. CASE NothingToPoll(c)
  BY <1>2 DEF NothingToPoll
<1>3. CASE KeepParked(c)
  BY <1>3 DEF KeepParked
<1>4. CASE Reready(c)
  <2> DEFINE l == BlockedId(c)
             t == list[l][walk[c]]
             ls == [list EXCEPT ![l] = RemoveAt(@, walk[c])]
  <2>1. l \in ListIds /\ list[l] \in Seq(Threads) /\ walk[c] \in 1..Len(list[l])
    <3>1. l \in ListIds /\ list[l] \in Seq(Threads)
      BY IdsInListIds, ConstantsAssumption DEF Prios, BlockedId, ListIds
    <3>2. Len(list[l]) \in Nat /\ walk[c] \in Nat \ {0} /\ walk[c] <= Len(list[l])
      BY <1>4, <3>1, LenProperties DEF Reready
    <3> QED
      BY <3>1, <3>2
  <2>2. t \in Threads /\ home[t] \in Cpus
    BY <2>1, ElementOfSeq
  <2>3. ls \in [ListIds -> Seq(Threads)]
    BY <2>1, RemoveAtQueue
  <2>4. /\ LinkReadyLocked(ls, t, home[t], preempted[t], [preempted EXCEPT ![t] = FALSE])
        /\ blocked' = [blocked EXCEPT ![t] = FALSE]
        /\ event' = Poked(home[t])
        /\ UNCHANGED <<suspended, running, lifeVars, callVars, cpuVars>>
    BY <1>4 DEF Reready, LinkAtHeadIfPreempted
  <2>5. preempted[t] \in BOOLEAN /\ [preempted EXCEPT ![t] = FALSE] \in [Threads -> BOOLEAN]
    BY <2>2
  <2> HIDE DEF t, ls, l
  <2>6. event' \in [Cpus -> BOOLEAN]
    BY <2>4 DEF Poked, Parked
  <2>7. LinksNameCpu'
    BY <2>2, <2>4 DEF LinkReadyLocked
  <2> QED
    BY <2>2, <2>3, <2>4, <2>5, <2>6, <2>7, LinkReadyTypes
<1>5. CASE WalkDone(c)
  BY <1>5 DEF WalkDone
<1>6. ASSUME NEW t \in Threads, DequeueReady(c, t)
      PROVE  TypeInv'
  BY <1>6, RemoveFirstQueue, ConstantsAssumption DEF DequeueReady, Unlinked, YielderConsumed
<1>7. CASE Migrate(c)
  <2> DEFINE t == owned[c]
  <2>1. t \in Threads /\ home[t] \in Cpus
    BY <1>7, BusyOwner DEF Migrate
  <2>2. /\ LinkReadyLocked(list, t, home[t], preempted[t], [preempted EXCEPT ![t] = FALSE])
        /\ event' = Poked(home[t])
        /\ running' = [running EXCEPT ![t] = FALSE]
        /\ owned' = [owned EXCEPT ![c] = NoThread]
        /\ pc' = [pc EXCEPT ![c] = "loop"]
        /\ UNCHANGED <<blocked, suspended, lifeVars, callVars, current, yielder, exited, repoll,
                       walk>>
    BY <1>7 DEF Migrate, LinkAtHeadIfPreempted
  <2>3. preempted[t] \in BOOLEAN /\ [preempted EXCEPT ![t] = FALSE] \in [Threads -> BOOLEAN]
    BY <2>1
  <2> HIDE DEF t
  <2>4. event' \in [Cpus -> BOOLEAN]
    BY <2>2 DEF Poked, Parked
  <2>5. LinksNameCpu' /\ OwnsWhileBusy'
    BY <2>1, <2>2 DEF LinkReadyLocked
  <2> QED
    BY <2>1, <2>2, <2>3, <2>4, <2>5, LinkReadyTypes
<1>8. CASE ReadSuspendCount(c)
  BY <1>8 DEF ReadSuspendCount
<1>9. CASE ParkSuspended(c)
  <2>1. owned[c] \in Threads
    BY <1>9, BusyOwner DEF ParkSuspended
  <2>2. CASE RunsAnyway(owned[c])
    BY <1>9, <2>2, ZenonT(30) DEF ParkSuspended
  <2>3. CASE ~RunsAnyway(owned[c])
    <3> DEFINE t == owned[c]
               l == SuspendedId(c)
    <3>1. /\ suspended' = [suspended EXCEPT ![t] = TRUE]
          /\ cpu' = [cpu EXCEPT ![t] = c]
          /\ list' = [list EXCEPT ![l] = Append(@, t)]
          /\ running' = [running EXCEPT ![t] = FALSE]
          /\ owned' = [owned EXCEPT ![c] = NoThread]
          /\ pc' = [pc EXCEPT ![c] = "loop"]
          /\ UNCHANGED <<queuedPrio, queued, blocked, preempted, lifeVars, callVars, current,
                         yielder, exited, repoll, walk, wakeVars>>
      BY <1>9, <2>3 DEF ParkSuspended, RunsAnyway
    <3> HIDE DEF t, l
    <3>2. list' \in [ListIds -> Seq(Threads)]
      BY <2>1, <3>1, AppendQueue DEF t
    <3> QED
      BY <2>1, <3>1, <3>2
  <2> QED
    BY <2>2, <2>3
<1>10. CASE SwitchTo(c)
  BY <1>10 DEF SwitchTo, KStates
<1>11. CASE SwitchBack(c)
  BY <1>11 DEF SwitchBack
<1>12. CASE Park(c)
  BY <1>12 DEF Park
<1>13. CASE Recheck(c)
  BY <1>13 DEF Recheck
<1>14. CASE WakeUp(c)
  BY <1>14 DEF WakeUp
<1> QED
  BY <1>1, <1>2, <1>3, <1>4, <1>5, <1>6, <1>7, <1>8, <1>9, <1>10, <1>11, <1>12, <1>13, <1>14
  DEF RunLoop

LEMMA FiberKeepsTypes ==
  ASSUME TypeInv, NEW c \in Cpus, GuestCode(c) \/ FiberEnds(c)
  PROVE  TypeInv'
<1> USE DEF TypeInv, TypeOK, OwnsWhileBusy, LinksNameCpu, Listed, Busy, CpuSteps, Goto, Places,
            KStates, Fiber, linkVars, lifeVars, callVars, cpuVars, wakeVars
<1>0. owned[c] \in Threads
  BY BusyOwner DEF GuestCode, FiberReturns, Safepoint, VoluntaryYield, YieldCurrentThread,
     SelfSuspend, SelfSuspendReturns, BlockCurrentThread, FenceReached, FiberEnds, Exit,
     ExitIfTerminated, FiberCrash
<1>1. CASE FiberReturns(c)
  BY <1>1 DEF FiberReturns
<1>2. ASSUME NEW toOther \in BOOLEAN, YieldCurrentThread(c, toOther)
      PROVE  TypeInv'
  <2>1. EnqueueReady(owned[c], c, c) /\ UNCHANGED <<blocked, suspended>>
    BY <1>2 DEF YieldCurrentThread
  <2> QED
    BY <1>0, <1>2, <2>1, EnqueueReadyTypes DEF YieldCurrentThread, YieldToScheduler
<1>3. CASE SelfSuspend(c)
  BY <1>0, <1>3, ConstantsAssumption DEF SelfSuspend
<1>4. CASE SelfSuspendReturns(c)
  BY <1>4 DEF SelfSuspendReturns
<1>5. ASSUME NEW interruptible \in BOOLEAN, NEW signalled \in BOOLEAN,
             BlockCurrentThread(c, interruptible, signalled)
      PROVE  TypeInv'
  BY <1>0, <1>5, AppendQueue, ZenonT(30) DEF BlockCurrentThread, YieldToScheduler
<1>6. CASE FenceReached(c)
  BY <1>6 DEF FenceReached
<1>7. CASE Exit(c) \/ ExitIfTerminated(c)
  <2>1. pc[c] = "fiber" /\ ExitFiber(c)
    BY <1>7 DEF Exit, ExitIfTerminated
  <2> QED
    BY <1>0, <2>1 DEF ExitFiber, YieldToScheduler
<1>8. CASE FiberCrash(c)
  BY <1>0, <1>8, RemoveFirstQueue, ZenonT(30) DEF FiberCrash, Unlinked, YieldToScheduler
<1> QED
  BY <1>1, <1>2, <1>3, <1>4, <1>5, <1>6, <1>7, <1>8, ZenonT(30)
  DEF GuestCode, FiberEnds, Safepoint, VoluntaryYield

LEMMA WakesKeepTypes ==
  ASSUME TypeInv,
         \/ \E watchers \in SUBSET Threads : WakeForSignal(watchers)
         \/ \E c \in Cpus : Watchdog(c)
  PROVE  TypeInv'
<1> USE DEF TypeInv, TypeOK, OwnsWhileBusy, LinksNameCpu, Listed, Parked,
            linkVars, lifeVars, callVars, cpuVars, wakeVars
<1>1. ASSUME NEW watchers \in SUBSET Threads, WakeForSignal(watchers)
      PROVE  TypeInv'
  BY <1>1 DEF WakeForSignal
<1>2. ASSUME NEW c \in Cpus, Watchdog(c)
      PROVE  TypeInv'
  BY <1>2 DEF Watchdog
<1> QED
  BY <1>1, <1>2

LEMMA InitTypes == Init => TypeInv
<1> SUFFICES ASSUME Init PROVE TypeInv
  OBVIOUS
<1>1. suspendCount \in [Threads -> 0..MaxSuspend]
      /\ resumer \in [Threads -> {"create", "idle", "unlink", "check", "enqueue"}]
  BY ConstantsAssumption DEF Init
<1>2. 0 \in Prios /\ <<>> \in Seq(Threads)
  BY ConstantsAssumption DEF Prios
<1> QED
  BY <1>1, <1>2 DEF Init, TypeInv, TypeOK, OwnsWhileBusy, LinksNameCpu, Listed, Busy, CpuSteps,
     Places, KStates

LEMMA TypeInvInductive ==
  /\ Init => TypeInv
  /\ TypeInv /\ [Next]_vars => TypeInv'
<1>1. Init => TypeInv
  BY InitTypes
<1>2. TypeInv /\ [Next]_vars => TypeInv'
  <2> SUFFICES ASSUME TypeInv, [Next]_vars PROVE TypeInv'
    OBVIOUS
  <2>1. CASE UNCHANGED vars
    BY <2>1 DEF vars, linkVars, lifeVars, callVars, cpuVars, wakeVars, TypeInv, TypeOK,
       OwnsWhileBusy, LinksNameCpu, Listed
  <2>2. CASE Next
    BY <2>2, CallsKeepTypes, RunLoopKeepsTypes, FiberKeepsTypes, WakesKeepTypes,
       ConstantsAssumption
    DEF Next, OtherCalls
  <2> QED
    BY <2>1, <2>2
<1> QED
  BY <1>1, <1>2

\* The variables keep their types, whatever the threads, the CPUs and the bounds.
THEOREM TypeCorrect == Spec => []TypeOK
<1>1. TypeInv => TypeOK
  BY DEF TypeInv
<1> QED
  BY <1>1, TypeInvInductive, PTL DEF Spec

-----------------------------------------------------------------------------
(***************************************************************************)
(* Where gives the list a thread's links name; Holds says that the lists   *)
(* contain exactly the threads whose links name them, once each.  A locked *)
(* section takes a thread out of one list and puts it into another, and    *)
(* two lemmas say what that does to Holds.                                 *)
(***************************************************************************)

Nowhere == <<"none", NoCpu, 0>>

Where == [t \in Threads |-> IF Listed(t) THEN ListOf(t) ELSE Nowhere]

Holds(ls, where) ==
  \A l \in ListIds :
    /\ IsInjective(ls[l])
    /\ \A t \in Threads : t \in ToSet(ls[l]) <=> where[t] = l

\* The three membership flags of a thread exclude each other.
OneFlag ==
  \A t \in Threads : /\ ~(queued[t] /\ blocked[t])
                     /\ ~(queued[t] /\ suspended[t])
                     /\ ~(blocked[t] /\ suspended[t])

ListInv == OneFlag /\ Holds(list, Where)

LEMMA NowhereIsNoList == Nowhere \notin ListIds
BY DEF Nowhere, ListIds

\* A thread is nowhere exactly when no flag is set, and the flag names the kind
\* of list.
LEMMA WhereValues ==
  ASSUME TypeInv, NEW t \in Threads
  PROVE  /\ Where \in [Threads -> ListIds \cup {Nowhere}]
         /\ Listed(t) <=> Where[t] # Nowhere
         /\ Listed(t) => Where[t] = ListOf(t) /\ ListOf(t) \in ListIds
<1>1. ASSUME NEW u \in Threads, Listed(u)
      PROVE  ListOf(u) \in ListIds
  BY <1>1, IdsInListIds DEF ListOf, TypeInv, TypeOK, LinksNameCpu, Listed, ListIds, BlockedId,
     SuspendedId
<1>2. Where \in [Threads -> ListIds \cup {Nowhere}]
  BY <1>1 DEF Where
<1> QED
  BY <1>1, <1>2, NowhereIsNoList DEF Where

\* With the members and the duplicates out of the way, this is OneList.
LEMMA ListInvImpliesOneList ==
  ASSUME TypeInv, ListInv
  PROVE  OneList
<1>1. ASSUME NEW l \in ListIds, NEW i \in DOMAIN list[l]
      PROVE  Listed(list[l][i]) /\ l = ListOf(list[l][i])
  <2>1. list[l] \in Seq(Threads)
    BY DEF TypeInv, TypeOK
  <2>2. list[l][i] \in Threads /\ list[l][i] \in ToSet(list[l])
    BY <2>1, ElementOfSeq, LenProperties DEF ToSet
  <2>3. Where[list[l][i]] = l
    BY <2>2 DEF ListInv, Holds
  <2> QED
    BY <2>2, <2>3, WhereValues, NowhereIsNoList
<1>2. ASSUME NEW t \in Threads, Listed(t)
      PROVE  \E i \in DOMAIN list[ListOf(t)] : list[ListOf(t)][i] = t
  BY <1>2, WhereValues DEF ListInv, Holds, ToSet
<1>3. ASSUME NEW l \in ListIds
      PROVE  \A i, j \in DOMAIN list[l] : list[l][i] = list[l][j] => i = j
  BY DEF ListInv, Holds, IsInjective
<1> QED
  BY <1>1, <1>2, <1>3 DEF OneList, ListInv, OneFlag

\* |t| taken out of its list.
LEMMA UnlinkHolds ==
  ASSUME NEW ls \in [ListIds -> Seq(Threads)],
         NEW where \in [Threads -> ListIds \cup {Nowhere}],
         Holds(ls, where),
         NEW t \in Threads, NEW l \in ListIds, where[t] = l,
         NEW q \in Seq(Threads), IsInjective(q), ToSet(q) = ToSet(ls[l]) \ {t}
  PROVE  Holds([ls EXCEPT ![l] = q], [where EXCEPT ![t] = Nowhere])
BY NowhereIsNoList DEF Holds

\* |t|, which is in no list, put into the list |l|.
LEMMA LinkHolds ==
  ASSUME NEW ls \in [ListIds -> Seq(Threads)],
         NEW where \in [Threads -> ListIds \cup {Nowhere}],
         Holds(ls, where),
         NEW t \in Threads, NEW l \in ListIds, where[t] = Nowhere,
         NEW q \in Seq(Threads),
         IsInjective(ls[l]) /\ t \notin ToSet(ls[l]) => IsInjective(q),
         ToSet(q) = ToSet(ls[l]) \cup {t}
  PROVE  Holds([ls EXCEPT ![l] = q], [where EXCEPT ![t] = l])
BY NowhereIsNoList DEF Holds

\* UnlinkLocked of a listed thread.
LEMMA UnlinkedHolds ==
  ASSUME TypeInv, ListInv, NEW t \in Threads, Listed(t)
  PROVE  /\ Unlinked(ListOf(t), t) \in [ListIds -> Seq(Threads)]
         /\ Holds(Unlinked(ListOf(t), t), [Where EXCEPT ![t] = Nowhere])
<1> DEFINE l == ListOf(t)
<1>1. l \in ListIds /\ Where[t] = l /\ Where \in [Threads -> ListIds \cup {Nowhere}]
  BY WhereValues
<1>2. list \in [ListIds -> Seq(Threads)] /\ list[l] \in Seq(Threads)
  BY <1>1 DEF TypeInv, TypeOK
<1>3. IsInjective(list[l]) /\ Holds(list, Where)
  BY <1>1 DEF ListInv, Holds
<1>4. /\ RemoveFirst(list[l], t) \in Seq(Threads)
      /\ IsInjective(RemoveFirst(list[l], t))
      /\ ToSet(RemoveFirst(list[l], t)) = ToSet(list[l]) \ {t}
  BY <1>2, <1>3, RemoveFirstQueue
<1> HIDE DEF l
<1>5. Holds([list EXCEPT ![l] = RemoveFirst(list[l], t)], [Where EXCEPT ![t] = Nowhere])
  BY <1>1, <1>2, <1>3, <1>4, UnlinkHolds
<1>6. [list EXCEPT ![l] = RemoveFirst(list[l], t)] \in [ListIds -> Seq(Threads)]
  BY <1>1, <1>2, <1>4
<1> QED
  BY <1>5, <1>6 DEF Unlinked, l

\* LinkReadyLocked of a thread that is in none of the lists |ls|.
LEMMA LinkReadyHolds ==
  ASSUME TypeInv, NEW ls \in [ListIds -> Seq(Threads)],
         NEW where \in [Threads -> ListIds \cup {Nowhere}],
         Holds(ls, where),
         NEW t \in Threads, where[t] = Nowhere, NEW c \in Cpus,
         NEW atHead, NEW pre, LinkReadyLocked(ls, t, c, atHead, pre)
  PROVE  Holds(list', [where EXCEPT ![t] = ReadyId(c, priority[t])])
<1> DEFINE l == ReadyId(c, priority[t])
           q == IF atHead THEN Cons(t, ls[l]) ELSE Append(ls[l], t)
<1>1. priority[t] \in Prios
  BY DEF TypeInv, TypeOK
<1>2. l \in ListIds /\ ls[l] \in Seq(Threads)
  BY <1>1, IdsInListIds
<1>3. /\ q \in Seq(Threads)
      /\ ToSet(q) = ToSet(ls[l]) \cup {t}
      /\ IsInjective(ls[l]) /\ t \notin ToSet(ls[l]) => IsInjective(q)
  BY <1>2, AppendQueue, ConsQueue
<1>4. list' = [ls EXCEPT ![l] = q]
  BY DEF LinkReadyLocked
<1> HIDE DEF l, q
<1>5. Holds([ls EXCEPT ![l] = q], [where EXCEPT ![t] = l])
  BY <1>2, <1>3, LinkHolds
<1> QED
  BY <1>4, <1>5 DEF l

-----------------------------------------------------------------------------
(* What one action does to Where.                                          *)

linksOf == <<list, cpu, queuedPrio, queued, blocked, suspended>>

LEMMA SameLinks ==
  ASSUME TypeInv, ListInv, UNCHANGED linksOf
  PROVE  ListInv'
<1>1. Where' = Where
  BY DEF Where, linksOf, Listed, ListOf, ReadyId, BlockedId, SuspendedId, Nowhere
<1> QED
  BY <1>1 DEF ListInv, OneFlag, Holds, linksOf

\* A thread whose links alone change, so that they name another list or none.
LEMMA WhereMoves ==
  ASSUME TypeInv, TypeInv', NEW t \in Threads,
         \A u \in Threads \ {t} :
           /\ queued'[u] = queued[u]
           /\ blocked'[u] = blocked[u]
           /\ suspended'[u] = suspended[u]
           /\ cpu'[u] = cpu[u]
           /\ queuedPrio'[u] = queuedPrio[u]
  PROVE  Where' = [Where EXCEPT ![t] = Where'[t]]
<1>1. \A u \in Threads \ {t} : Where'[u] = Where[u]
  BY DEF Where, Listed, ListOf, ReadyId, BlockedId, SuspendedId, Nowhere
<1>2. Where = [u \in Threads |-> Where[u]] /\ Where' = [u \in Threads |-> Where'[u]]
  BY DEF Where
<1> QED
  BY <1>1, <1>2

\* The end of every section that makes |t| ready: |t| was taken out of its list,
\* if it was in one, and is linked as ready.
LEMMA LinkReadyKeepsLists ==
  ASSUME TypeInv, TypeInv', ListInv,
         NEW ls \in [ListIds -> Seq(Threads)],
         NEW t \in Threads, NEW c \in Cpus, NEW atHead, NEW pre,
         Holds(ls, [Where EXCEPT ![t] = Nowhere]),
         LinkReadyLocked(ls, t, c, atHead, pre),
         ~blocked'[t], ~suspended'[t],
         \A u \in Threads \ {t} : blocked'[u] = blocked[u] /\ suspended'[u] = suspended[u]
  PROVE  ListInv'
<1> DEFINE l == ReadyId(c, priority[t])
<1>1. /\ queued' = [queued EXCEPT ![t] = TRUE]
      /\ cpu' = [cpu EXCEPT ![t] = c]
      /\ queuedPrio' = [queuedPrio EXCEPT ![t] = priority[t]]
  BY DEF LinkReadyLocked
<1>2. /\ queued'[t] /\ cpu'[t] = c /\ queuedPrio'[t] = priority[t]
      /\ \A u \in Threads \ {t} : queued'[u] = queued[u] /\ cpu'[u] = cpu[u]
                                  /\ queuedPrio'[u] = queuedPrio[u]
  BY <1>1 DEF TypeInv, TypeOK
<1>3. Where' = [Where EXCEPT ![t] = Where'[t]]
  BY <1>2, WhereMoves
<1>4. Where'[t] = l
  BY <1>2 DEF Where, Listed, ListOf, ReadyId
<1>5. Where \in [Threads -> ListIds \cup {Nowhere}]
  BY WhereValues
<1>6. /\ [Where EXCEPT ![t] = Nowhere] \in [Threads -> ListIds \cup {Nowhere}]
      /\ [Where EXCEPT ![t] = Nowhere][t] = Nowhere
      /\ [[Where EXCEPT ![t] = Nowhere] EXCEPT ![t] = l] = [Where EXCEPT ![t] = l]
  BY <1>5
<1>7. Holds(list', [[Where EXCEPT ![t] = Nowhere] EXCEPT ![t] = ReadyId(c, priority[t])])
  BY <1>6, LinkReadyHolds
<1>8. Holds(list', Where')
  BY <1>3, <1>4, <1>6, <1>7
<1>9. OneFlag'
  BY <1>2 DEF OneFlag, ListInv
<1> QED
  BY <1>8, <1>9 DEF ListInv, Holds

\* EnqueueReady finds the thread in no list or does nothing.
LEMMA EnqueueReadyKeepsLists ==
  ASSUME TypeInv, TypeInv', ListInv, NEW t \in Threads, NEW c \in Cpus, NEW here,
         EnqueueReady(t, c, here), UNCHANGED <<blocked, suspended>>
  PROVE  ListInv'
<1>1. CASE OwnsItsWakeUp(t, here)
  BY <1>1, SameLinks DEF EnqueueReady, linksOf
<1>2. CASE ~OwnsItsWakeUp(t, here)
  <2>1. LinkReadyLocked(list, t, c, preempted[t], [preempted EXCEPT ![t] = FALSE])
    BY <1>2 DEF EnqueueReady, LinkAtHeadIfPreempted
  <2>2. ~Listed(t)
    BY <1>2 DEF OwnsItsWakeUp, Listed
  <2>3. Where[t] = Nowhere /\ [Where EXCEPT ![t] = Nowhere] = Where
    BY <2>2, WhereValues
  <2>4. list \in [ListIds -> Seq(Threads)] /\ Holds(list, [Where EXCEPT ![t] = Nowhere])
    BY <2>3 DEF TypeInv, TypeOK, ListInv
  <2>5. ~blocked'[t] /\ ~suspended'[t]
    BY <2>2 DEF Listed
  <2> QED
    BY <2>1, <2>4, <2>5, LinkReadyKeepsLists
<1> QED
  BY <1>1, <1>2

\* The end of a section that takes |t| out of its list for good.
LEMMA UnlinkKeepsLists ==
  ASSUME TypeInv, TypeInv', ListInv, NEW t \in Threads,
         Holds(list', [Where EXCEPT ![t] = Nowhere]),
         ~Listed(t)',
         \A u \in Threads \ {t} :
           /\ queued'[u] = queued[u]
           /\ blocked'[u] = blocked[u]
           /\ suspended'[u] = suspended[u],
         UNCHANGED <<cpu, queuedPrio>>
  PROVE  ListInv'
<1>1. Where' = [Where EXCEPT ![t] = Where'[t]]
  BY WhereMoves
<1>2. Where'[t] = Nowhere
  BY DEF Where, Nowhere
<1>3. OneFlag'
  BY DEF OneFlag, ListInv, Listed
<1>4. Holds(list', Where')
  BY <1>1, <1>2
<1> QED
  BY <1>3, <1>4 DEF ListInv, Holds

\* The end of a section that parks |t|, which was in no list.
LEMMA ParkKeepsLists ==
  ASSUME TypeInv, TypeInv', ListInv, NEW t \in Threads, ~Listed(t), NEW c \in Cpus,
         NEW l \in {BlockedId(c), SuspendedId(c)},
         list' = [list EXCEPT ![l] = Append(@, t)],
         cpu' = [cpu EXCEPT ![t] = c],
         UNCHANGED <<queued, queuedPrio>>,
         \/ /\ l = BlockedId(c)
            /\ blocked' = [blocked EXCEPT ![t] = TRUE]
            /\ UNCHANGED suspended
         \/ /\ l = SuspendedId(c)
            /\ suspended' = [suspended EXCEPT ![t] = TRUE]
            /\ UNCHANGED blocked
  PROVE  ListInv'
<1>1. /\ ~queued'[t] /\ cpu'[t] = c
      /\ \A u \in Threads \ {t} :
           /\ queued'[u] = queued[u]
           /\ blocked'[u] = blocked[u]
           /\ suspended'[u] = suspended[u]
           /\ cpu'[u] = cpu[u]
           /\ queuedPrio'[u] = queuedPrio[u]
      /\ \/ l = BlockedId(c) /\ blocked'[t] /\ ~suspended'[t]
         \/ l = SuspendedId(c) /\ ~blocked'[t] /\ suspended'[t]
  BY DEF TypeInv, TypeOK, Listed
<1>2. Where' = [Where EXCEPT ![t] = Where'[t]]
  BY <1>1, WhereMoves
<1>3. Where'[t] = l
  BY <1>1 DEF Where, Listed, ListOf, BlockedId, SuspendedId
<1>4. Where[t] = Nowhere /\ Where \in [Threads -> ListIds \cup {Nowhere}]
  BY WhereValues
<1>5. l \in ListIds /\ list \in [ListIds -> Seq(Threads)] /\ list[l] \in Seq(Threads)
  BY IdsInListIds, ConstantsAssumption DEF TypeInv, TypeOK, ListIds, BlockedId, SuspendedId
<1>6. Holds(list', [Where EXCEPT ![t] = l])
  <2> DEFINE q == Append(list[l], t)
  <2>1. /\ q \in Seq(Threads)
        /\ ToSet(q) = ToSet(list[l]) \cup {t}
        /\ IsInjective(list[l]) /\ t \notin ToSet(list[l]) => IsInjective(q)
    BY <1>5, AppendQueue
  <2>2. list' = [list EXCEPT ![l] = q]
    OBVIOUS
  <2>3. Holds(list, Where)
    BY DEF ListInv
  <2> HIDE DEF q
  <2>4. Holds([list EXCEPT ![l] = q], [Where EXCEPT ![t] = l])
    BY <1>4, <1>5, <2>1, <2>3, LinkHolds
  <2> QED
    BY <2>2, <2>4
<1>7. OneFlag'
  BY <1>1 DEF OneFlag, ListInv
<1> QED
  BY <1>2, <1>3, <1>6, <1>7 DEF ListInv, Holds

-----------------------------------------------------------------------------
(* The threads that the locked sections handle.                            *)

\* The invariant of the lists and of the owners, each needed for the other.
LinkInv == TypeInv /\ ListInv /\ OneOwner

\* The walk is at a thread that is parked on this CPU.
LEMMA RereadyTarget ==
  ASSUME LinkInv, NEW c \in Cpus, Reready(c)
  PROVE  LET t == list[BlockedId(c)][walk[c]]
         IN t \in Threads /\ blocked[t] /\ cpu[t] = c /\ ~running[t] /\ home[t] \in Cpus
<1> DEFINE t == list[BlockedId(c)][walk[c]]
<1> USE DEF LinkInv
<1>1. BlockedId(c) \in ListIds /\ list[BlockedId(c)] \in Seq(Threads)
  BY ConstantsAssumption DEF TypeInv, TypeOK, ListIds, BlockedId
<1>2. walk[c] \in DOMAIN list[BlockedId(c)]
  <2>1. /\ Len(list[BlockedId(c)]) \in Nat /\ walk[c] \in Nat \ {0}
        /\ walk[c] <= Len(list[BlockedId(c)])
        /\ DOMAIN list[BlockedId(c)] = 1..Len(list[BlockedId(c)])
    BY <1>1, LenProperties DEF Reready, TypeInv, TypeOK
  <2> QED
    BY <2>1
<1>3. t \in Threads /\ t \in ToSet(list[BlockedId(c)])
  BY <1>1, <1>2, ElementOfSeq, LenProperties DEF ToSet
<1>4. Listed(t) /\ ListOf(t) = BlockedId(c)
  BY <1>1, <1>3, WhereValues, NowhereIsNoList DEF ListInv, Holds
<1>5. cpu[t] = c /\ blocked[t]
  BY <1>4 DEF ListOf, Listed, ReadyId, SuspendedId, BlockedId
<1>6. pc[c] \notin Busy
  BY DEF Reready, Busy
<1> HIDE DEF t
<1>7. ~running[t]
  BY <1>3, <1>5, <1>6, ConstantsAssumption DEF OneOwner, TypeInv, OwnsWhileBusy
<1>8. home[t] \in Cpus
  BY <1>3 DEF TypeInv, TypeOK
<1> QED
  BY <1>3, <1>5, <1>7, <1>8 DEF t

\* A dispatch thread that owns nobody takes a thread queued on it.
LEMMA DequeueTarget ==
  ASSUME LinkInv, NEW c \in Cpus, NEW t \in Threads, DequeueReady(c, t)
  PROVE  /\ queued[t] /\ cpu[t] = c /\ ~running[t] /\ ~blocked[t] /\ ~suspended[t]
         /\ owned[c] = NoThread
<1> USE DEF LinkInv
<1>1. PICK p \in Prios : \E i \in DOMAIN list[ReadyId(c, p)] : list[ReadyId(c, p)][i] = t
  BY DEF DequeueReady, IsNext, IsFirstReady
<1>2. Where[t] = ReadyId(c, p) /\ ReadyId(c, p) \in ListIds
  BY <1>1, IdsInListIds DEF ListInv, Holds, ToSet
<1>3. Listed(t) /\ ListOf(t) = ReadyId(c, p)
  BY <1>2, WhereValues, NowhereIsNoList
<1>4. queued[t] /\ cpu[t] = c
  BY <1>3 DEF Listed, ListOf, ReadyId, SuspendedId, BlockedId
<1>5. owned[c] = NoThread
  BY DEF DequeueReady, TypeInv, OwnsWhileBusy, Busy
<1> QED
  BY <1>4, <1>5, ConstantsAssumption DEF OneOwner, ListInv, OneFlag

-----------------------------------------------------------------------------
(* Every step keeps the lists intact.                                      *)

\* The part of OneOwner the lists rest on: only the owner of a thread that is
\* about to leave the CPU finds it in a list.
LEMMA OwnedUnlisted ==
  ASSUME TypeInv, OneOwner, NEW c \in Cpus, pc[c] \in Busy, pc[c] # "back"
  PROVE  owned[c] \in Threads /\ ~Listed(owned[c])
BY BusyOwner, ConstantsAssumption DEF OneOwner

LEMMA CallsKeepLists ==
  ASSUME TypeInv, TypeInv', ListInv, NEW t \in Threads,
         \/ Create(t) \/ Resume(t) \/ ResumeThread(t) \/ MarkReady(t) \/ MarkReadyEnqueue(t)
         \/ Suspend(t) \/ Terminate(t) \/ TerminateThread(t) \/ RequeueForPriority(t)
         \/ \E c \in Cpus : SetActiveCpu(t, c)
         \/ \E p \in Prios : PublishPriority(t, p)
  PROVE  ListInv'
<1> USE DEF linkVars, lifeVars, callVars, cpuVars, wakeVars
<1>1. CASE Create(t) \/ MarkReadyEnqueue(t)
  <2>1. home[t] \in Cpus
    BY DEF TypeInv, TypeOK
  <2> QED
    BY <1>1, <2>1, EnqueueReadyKeepsLists DEF Create, MarkReadyEnqueue
<1>2. CASE ResumeThread(t)
  <2>1. CASE ~suspended[t]
    BY <1>2, <2>1, SameLinks DEF ResumeThread, linksOf, TypeInv, TypeOK
  <2>2. CASE suspended[t]
    <3>1. Listed(t) /\ ListOf(t) = SuspendedId(cpu[t])
      BY <2>2 DEF Listed, ListOf, ListInv, OneFlag
    <3>2. Holds(list', [Where EXCEPT ![t] = Nowhere])
      BY <1>2, <2>2, <3>1, UnlinkedHolds DEF ResumeThread
    <3>3. ~Listed(t)' /\ \A u \in Threads \ {t} : suspended'[u] = suspended[u]
      BY <1>2, <2>2 DEF ResumeThread, TypeInv, TypeOK, Listed, ListInv, OneFlag
    <3> QED
      BY <1>2, <3>2, <3>3, UnlinkKeepsLists DEF ResumeThread
  <2> QED
    BY <2>1, <2>2
<1>3. CASE TerminateThread(t)
  <2>1. CASE DispatchToExit(t)
    <3>1. Listed(t) /\ cpu[t] \in Cpus
      BY <2>1 DEF DispatchToExit, Listed, TypeInv, LinksNameCpu
    <3>2. LinkReadyLocked(Unlinked(ListOf(t), t), t, cpu[t], TRUE, preempted)
      BY <2>1 DEF DispatchToExit
    <3>3. /\ ~blocked'[t] /\ ~suspended'[t]
          /\ \A u \in Threads \ {t} : blocked'[u] = blocked[u] /\ suspended'[u] = suspended[u]
      BY <2>1 DEF DispatchToExit, TypeInv, TypeOK
    <3> QED
      BY <3>1, <3>2, <3>3, UnlinkedHolds, LinkReadyKeepsLists
  <2>2. CASE TerminateInPlace(t)
    BY <2>2, SameLinks DEF TerminateInPlace, linksOf
  <2> QED
    BY <1>3, <2>1, <2>2 DEF TerminateThread
<1>4. CASE RequeueForPriority(t)
  <2>1. CASE queued[t]
    <3>1. Listed(t) /\ cpu[t] \in Cpus
      BY <2>1 DEF Listed, TypeInv, LinksNameCpu
    <3>2. LinkReadyLocked(Unlinked(ListOf(t), t), t, cpu[t], FALSE, preempted)
      BY <1>4, <2>1 DEF RequeueForPriority
    <3>3. ~blocked'[t] /\ ~suspended'[t] /\ UNCHANGED <<blocked, suspended>>
      BY <1>4, <2>1 DEF RequeueForPriority, ListInv, OneFlag
    <3> QED
      BY <3>1, <3>2, <3>3, UnlinkedHolds, LinkReadyKeepsLists
  <2>2. CASE ~queued[t]
    BY <1>4, <2>2, SameLinks DEF RequeueForPriority, linksOf
  <2> QED
    BY <2>1, <2>2
<1>5. CASE \/ Resume(t) \/ MarkReady(t) \/ Suspend(t) \/ Terminate(t)
           \/ \E c \in Cpus : SetActiveCpu(t, c)
           \/ \E p \in Prios : PublishPriority(t, p)
  <2>1. UNCHANGED linksOf
    BY <1>5 DEF Resume, MarkReady, Suspend, Terminate, SetActiveCpu, PublishPriority, linksOf
  <2> QED
    BY <2>1, SameLinks
<1> QED
  BY <1>1, <1>2, <1>3, <1>4, <1>5

LEMMA RunLoopKeepsLists ==
  ASSUME TypeInv, TypeInv', ListInv, OneOwner, NEW c \in Cpus, RunLoop(c)
  PROVE  ListInv'
<1> USE DEF linkVars, lifeVars, callVars, cpuVars, wakeVars
<1>1. CASE Reready(c)
  <2> DEFINE l == BlockedId(c)
             s == list[l]
             k == walk[c]
             t == s[k]
             q == RemoveAt(s, k)
  <2>1. l \in ListIds /\ s \in Seq(Threads) /\ k \in 1..Len(s)
    <3>1. l \in ListIds /\ s \in Seq(Threads)
      BY IdsInListIds, ConstantsAssumption DEF TypeInv, TypeOK, Prios, BlockedId, ListIds
    <3>2. Len(s) \in Nat /\ k \in Nat \ {0} /\ k <= Len(s)
      BY <1>1, <3>1, LenProperties DEF Reready, TypeInv, TypeOK
    <3> QED
      BY <3>1, <3>2
  <2>2. t \in Threads /\ home[t] \in Cpus /\ t \in ToSet(s)
    <3>1. t \in Threads
      BY <2>1, ElementOfSeq
    <3>2. k \in DOMAIN s
      BY <2>1, LenProperties
    <3> QED
      BY <3>1, <3>2 DEF TypeInv, TypeOK, ToSet
  <2>3. /\ LinkReadyLocked([list EXCEPT ![l] = q], t, home[t], preempted[t],
                           [preempted EXCEPT ![t] = FALSE])
        /\ blocked' = [blocked EXCEPT ![t] = FALSE]
        /\ UNCHANGED suspended
    BY <1>1 DEF Reready, LinkAtHeadIfPreempted
  <2>4. Where[t] = l /\ IsInjective(s) /\ Holds(list, Where)
    BY <2>1, <2>2 DEF ListInv, Holds
  <2>5. Where \in [Threads -> ListIds \cup {Nowhere}] /\ list \in [ListIds -> Seq(Threads)]
    BY <2>2, WhereValues DEF TypeInv, TypeOK
  <2>6. q \in Seq(Threads) /\ IsInjective(q) /\ ToSet(q) = ToSet(s) \ {t}
    BY <2>1, <2>4, RemoveAtQueue
  <2>7. Listed(t) /\ ListOf(t) = l
    BY <2>1, <2>2, <2>4, WhereValues, NowhereIsNoList
  <2>8. blocked[t]
    BY <2>7 DEF Listed, ListOf, ReadyId, SuspendedId, BlockedId
  <2>9. /\ ~blocked'[t] /\ ~suspended'[t]
        /\ \A u \in Threads \ {t} : blocked'[u] = blocked[u] /\ suspended'[u] = suspended[u]
    <3> HIDE DEF t
    <3> QED
      BY <2>2, <2>3, <2>8 DEF TypeInv, TypeOK, ListInv, OneFlag
  <2> HIDE DEF q, t, s, l, k
  <2>10. /\ [list EXCEPT ![l] = q] \in [ListIds -> Seq(Threads)]
         /\ Holds([list EXCEPT ![l] = q], [Where EXCEPT ![t] = Nowhere])
    BY <2>1, <2>2, <2>4, <2>5, <2>6, UnlinkHolds DEF s
  <2> QED
    BY <2>2, <2>3, <2>9, <2>10, LinkReadyKeepsLists
<1>2. ASSUME NEW t \in Threads, DequeueReady(c, t)
      PROVE  ListInv'
  <2>1. PICK p \in Prios : \E i \in DOMAIN list[ReadyId(c, p)] : list[ReadyId(c, p)][i] = t
    BY <1>2 DEF DequeueReady, IsNext, IsFirstReady
  <2>2. Where[t] = ReadyId(c, p) /\ ReadyId(c, p) \in ListIds
    BY <2>1, IdsInListIds DEF ListInv, Holds, ToSet
  <2>3. Listed(t) /\ ListOf(t) = ReadyId(c, p)
    BY <2>2, WhereValues, NowhereIsNoList
  <2>4. queued[t]
    BY <2>3 DEF Listed, ListOf, ReadyId, SuspendedId, BlockedId
  <2>5. Holds(list', [Where EXCEPT ![t] = Nowhere])
    BY <1>2, <2>3, UnlinkedHolds DEF DequeueReady
  <2>6. ~Listed(t)' /\ \A u \in Threads \ {t} : queued'[u] = queued[u]
    BY <1>2, <2>4 DEF DequeueReady, TypeInv, TypeOK, Listed, ListInv, OneFlag
  <2> QED
    BY <1>2, <2>5, <2>6, UnlinkKeepsLists DEF DequeueReady
<1>3. CASE Migrate(c)
  <2> DEFINE t == owned[c]
  <2>1. t \in Threads /\ ~Listed(t) /\ home[t] \in Cpus
    BY <1>3, OwnedUnlisted DEF Migrate, Busy, TypeInv, TypeOK
  <2>2. /\ LinkReadyLocked(list, t, home[t], preempted[t], [preempted EXCEPT ![t] = FALSE])
        /\ UNCHANGED <<blocked, suspended>>
    BY <1>3 DEF Migrate, LinkAtHeadIfPreempted
  <2> HIDE DEF t
  <2>3. list \in [ListIds -> Seq(Threads)] /\ Holds(list, [Where EXCEPT ![t] = Nowhere])
    <3>1. [Where EXCEPT ![t] = Nowhere] = Where
      BY <2>1, WhereValues
    <3> QED
      BY <3>1 DEF ListInv, TypeInv, TypeOK
  <2>4. ~blocked'[t] /\ ~suspended'[t]
    BY <2>1, <2>2 DEF Listed
  <2> QED
    BY <2>1, <2>2, <2>3, <2>4, LinkReadyKeepsLists
<1>4. CASE ParkSuspended(c)
  <2> DEFINE t == owned[c]
             l == SuspendedId(c)
  <2>1. t \in Threads /\ ~Listed(t)
    BY <1>4, OwnedUnlisted DEF ParkSuspended, Busy
  <2>2. \/ UNCHANGED linksOf
        \/ /\ suspended' = [suspended EXCEPT ![t] = TRUE]
           /\ cpu' = [cpu EXCEPT ![t] = c]
           /\ list' = [list EXCEPT ![l] = Append(@, t)]
           /\ UNCHANGED <<blocked, queued, queuedPrio>>
    BY <1>4 DEF ParkSuspended, RunsAnyway, linksOf
  <2> QED
    BY <2>1, <2>2, SameLinks, ParkKeepsLists
<1>5. CASE \/ \E all \in BOOLEAN : RereadyBlocked(c, all)
           \/ NothingToPoll(c) \/ KeepParked(c) \/ WalkDone(c) \/ ReadSuspendCount(c)
           \/ SwitchTo(c) \/ SwitchBack(c) \/ Park(c) \/ Recheck(c) \/ WakeUp(c)
  <2>1. UNCHANGED linksOf
    BY <1>5 DEF RereadyBlocked, NothingToPoll, KeepParked, WalkDone, ReadSuspendCount, SwitchTo,
       SwitchBack, Park, Recheck, WakeUp, linksOf
  <2> QED
    BY <2>1, SameLinks
<1> QED
  BY <1>1, <1>2, <1>3, <1>4, <1>5 DEF RunLoop

LEMMA FiberKeepsLists ==
  ASSUME TypeInv, TypeInv', ListInv, OneOwner, NEW c \in Cpus, GuestCode(c) \/ FiberEnds(c)
  PROVE  ListInv'
<1> USE DEF linkVars, lifeVars, callVars, cpuVars, wakeVars, Fiber
<1>1. ASSUME NEW toOther \in BOOLEAN, YieldCurrentThread(c, toOther)
      PROVE  ListInv'
  <2>1. owned[c] \in Threads
    BY <1>1, BusyOwner DEF YieldCurrentThread, Busy
  <2> QED
    BY <1>1, <2>1, EnqueueReadyKeepsLists DEF YieldCurrentThread
<1>2. ASSUME NEW interruptible \in BOOLEAN, NEW signalled \in BOOLEAN,
             BlockCurrentThread(c, interruptible, signalled)
      PROVE  ListInv'
  <2>1. owned[c] \in Threads /\ ~Listed(owned[c])
    BY <1>2, OwnedUnlisted DEF BlockCurrentThread, Busy
  <2>2. /\ blocked' = [blocked EXCEPT ![owned[c]] = TRUE]
        /\ cpu' = [cpu EXCEPT ![owned[c]] = c]
        /\ list' = [list EXCEPT ![BlockedId(c)] = Append(@, owned[c])]
        /\ UNCHANGED <<queued, queuedPrio, suspended>>
    BY <1>2 DEF BlockCurrentThread
  <2> QED
    BY <2>1, <2>2, ParkKeepsLists
<1>3. CASE FiberCrash(c)
  <2> DEFINE t == owned[c]
  <2>1. t \in Threads /\ ~Listed(t)
    BY <1>3, OwnedUnlisted DEF FiberCrash, Busy
  <2>2. UNCHANGED linksOf
    BY <1>3, <2>1 DEF FiberCrash, linksOf, Listed, TypeInv, TypeOK
  <2> QED
    BY <2>2, SameLinks
<1>4. CASE \/ FiberReturns(c) \/ SelfSuspend(c) \/ SelfSuspendReturns(c) \/ FenceReached(c)
           \/ Exit(c) \/ ExitIfTerminated(c)
  <2>1. UNCHANGED linksOf
    BY <1>4 DEF FiberReturns, SelfSuspend, SelfSuspendReturns, FenceReached, Exit,
       ExitIfTerminated, ExitFiber, linksOf
  <2> QED
    BY <2>1, SameLinks
<1> QED
  BY <1>1, <1>2, <1>3, <1>4 DEF GuestCode, FiberEnds, Safepoint, VoluntaryYield

LEMMA WakesKeepLists ==
  ASSUME TypeInv, ListInv,
         \/ \E watchers \in SUBSET Threads : WakeForSignal(watchers)
         \/ \E c \in Cpus : Watchdog(c)
  PROVE  ListInv'
<1>1. UNCHANGED linksOf
  BY DEF WakeForSignal, Watchdog, linksOf, linkVars
<1> QED
  BY <1>1, SameLinks

LEMMA InitLists == Init => ListInv
<1> SUFFICES ASSUME Init PROVE ListInv
  OBVIOUS
<1>1. \A t \in Threads : Where[t] = Nowhere
  BY DEF Init, Where, Listed
<1>2. ASSUME NEW l \in ListIds
      PROVE  IsInjective(list[l]) /\ ToSet(list[l]) = {}
  BY DEF Init, IsInjective, ToSet
<1> QED
  BY <1>1, <1>2, NowhereIsNoList DEF ListInv, Holds, OneFlag, Init

-----------------------------------------------------------------------------
(* Every step keeps each fiber on one dispatch thread.                     *)

LEMMA OwnersStay ==
  ASSUME TypeInv, OneOwner, UNCHANGED <<owned, running>>,
         \A u \in Threads : running[u] => cpu'[u] = cpu[u],
         \A d \in Cpus : owned[d] # NoThread /\ Listed(owned[d])' => pc'[d] = "back"
  PROVE  OneOwner'
<1>1. \A d \in Cpus : owned[d] # NoThread => owned[d] \in Threads /\ running[owned[d]]
  BY DEF OneOwner, TypeInv, TypeOK
<1> QED
  BY <1>1 DEF OneOwner

\* A step that neither moves a running thread nor puts one into a list.
LEMMA OwnersUndisturbed ==
  ASSUME TypeInv, OneOwner, UNCHANGED <<owned, running, pc>>,
         \A u \in Threads : running[u] => cpu'[u] = cpu[u] /\ (Listed(u)' => Listed(u))
  PROVE  OneOwner'
<1>1. \A d \in Cpus : owned[d] # NoThread => owned[d] \in Threads /\ running[owned[d]]
  BY DEF OneOwner, TypeInv, TypeOK
<1>2. \A d \in Cpus : owned[d] # NoThread /\ Listed(owned[d])' => pc'[d] = "back"
  BY <1>1 DEF OneOwner, Listed
<1> QED
  BY <1>2, OwnersStay

\* EnqueueReady on another thread leaves a running thread alone.
LEMMA EnqueueReadyKeepsOwners ==
  ASSUME TypeInv, OneOwner, NEW t \in Threads, NEW c \in Cpus, EnqueueReady(t, c, NoCpu),
         UNCHANGED <<owned, running, pc, blocked, suspended>>
  PROVE  OneOwner'
<1>1. CASE running[t]
  <2>1. PICK d \in Cpus : owned[d] = t
    BY <1>1 DEF OneOwner
  <2>2. cpu[t] = d /\ d # NoCpu
    BY <2>1, ConstantsAssumption DEF OneOwner
  <2>3. OwnsItsWakeUp(t, NoCpu)
    BY <1>1, <2>2 DEF OwnsItsWakeUp
  <2> QED
    BY <2>3, OwnersUndisturbed DEF EnqueueReady, Listed
<1>2. CASE ~running[t]
  <2>1. \A u \in Threads \ {t} : cpu'[u] = cpu[u] /\ queued'[u] = queued[u]
    BY DEF EnqueueReady, LinkAtHeadIfPreempted, LinkReadyLocked, TypeInv, TypeOK
  <2> QED
    BY <1>2, <2>1, OwnersUndisturbed DEF Listed
<1> QED
  BY <1>1, <1>2

LEMMA CallsKeepOwners ==
  ASSUME TypeInv, ListInv, OneOwner, NEW t \in Threads,
         \/ Create(t) \/ Resume(t) \/ ResumeThread(t) \/ MarkReady(t) \/ MarkReadyEnqueue(t)
         \/ Suspend(t) \/ Terminate(t) \/ TerminateThread(t) \/ RequeueForPriority(t)
         \/ \E c \in Cpus : SetActiveCpu(t, c)
         \/ \E p \in Prios : PublishPriority(t, p)
  PROVE  OneOwner'
<1> USE DEF linkVars, lifeVars, callVars, cpuVars, wakeVars
<1>1. CASE Create(t) \/ MarkReadyEnqueue(t)
  <2>1. home[t] \in Cpus
    BY DEF TypeInv, TypeOK
  <2> QED
    BY <1>1, <2>1, EnqueueReadyKeepsOwners DEF Create, MarkReadyEnqueue
<1>2. CASE ResumeThread(t)
  BY <1>2, OwnersUndisturbed DEF ResumeThread, Listed, TypeInv, TypeOK
<1>3. CASE TerminateThread(t)
  <2>1. CASE DispatchToExit(t) /\ ~running[t]
    <3>1. \A u \in Threads \ {t} : /\ cpu'[u] = cpu[u] /\ queued'[u] = queued[u]
                                   /\ blocked'[u] = blocked[u] /\ suspended'[u] = suspended[u]
      BY <2>1 DEF DispatchToExit, LinkReadyLocked, TypeInv, TypeOK
    <3>2. UNCHANGED <<owned, running, pc>>
      BY <1>3, <2>1 DEF TerminateThread, DispatchToExit
    <3> QED
      BY <2>1, <3>1, <3>2, OwnersUndisturbed DEF Listed
  <2>2. CASE TerminateInPlace(t)
    BY <1>3, <2>2, OwnersUndisturbed DEF TerminateThread, TerminateInPlace, Listed
  <2> QED
    BY <1>3, <2>1, <2>2 DEF TerminateThread
<1>4. CASE RequeueForPriority(t)
  <2>1. UNCHANGED <<owned, running, pc, blocked, suspended>>
    BY <1>4 DEF RequeueForPriority
  <2>2. CASE queued[t]
    <3>1. LinkReadyLocked(Unlinked(ListOf(t), t), t, cpu[t], FALSE, preempted)
      BY <1>4, <2>2 DEF RequeueForPriority
    <3>2. cpu' = [cpu EXCEPT ![t] = cpu[t]] /\ queued' = [queued EXCEPT ![t] = TRUE]
      BY <3>1 DEF LinkReadyLocked
    <3>3. \A u \in Threads : cpu'[u] = cpu[u] /\ (queued'[u] => queued[u])
      BY <2>2, <3>2 DEF TypeInv, TypeOK
    <3> QED
      BY <2>1, <3>3, OwnersUndisturbed DEF Listed
  <2>3. CASE ~queued[t]
    BY <1>4, <2>1, <2>3, OwnersUndisturbed DEF RequeueForPriority, Listed
  <2> QED
    BY <2>2, <2>3
<1>5. CASE \/ Resume(t) \/ MarkReady(t) \/ Suspend(t) \/ Terminate(t)
           \/ \E c \in Cpus : SetActiveCpu(t, c)
           \/ \E p \in Prios : PublishPriority(t, p)
  <2>1. UNCHANGED <<linksOf, owned, running, pc>>
    BY <1>5 DEF Resume, MarkReady, Suspend, Terminate, SetActiveCpu, PublishPriority, linksOf
  <2> QED
    BY <2>1, OwnersUndisturbed DEF linksOf, Listed
<1> QED
  BY <1>1, <1>2, <1>3, <1>4, <1>5

LEMMA RunLoopKeepsOwners ==
  ASSUME TypeInv, ListInv, OneOwner, NEW c \in Cpus, RunLoop(c)
  PROVE  OneOwner'
<1> USE DEF linkVars, lifeVars, callVars, cpuVars, wakeVars, Goto
<1>1. CASE Reready(c)
  <2> DEFINE t == list[BlockedId(c)][walk[c]]
  <2>1. t \in Threads /\ ~running[t]
    BY <1>1, RereadyTarget DEF LinkInv
  <2>2. /\ LinkReadyLocked([list EXCEPT ![BlockedId(c)] = RemoveAt(@, walk[c])], t, home[t],
                           preempted[t], [preempted EXCEPT ![t] = FALSE])
        /\ blocked' = [blocked EXCEPT ![t] = FALSE]
        /\ UNCHANGED <<suspended, running, owned, pc>>
    BY <1>1 DEF Reready, LinkAtHeadIfPreempted
  <2> HIDE DEF t
  <2>3. \A u \in Threads \ {t} : /\ cpu'[u] = cpu[u] /\ queued'[u] = queued[u]
                                 /\ blocked'[u] = blocked[u]
    BY <2>2 DEF LinkReadyLocked, TypeInv, TypeOK
  <2> QED
    BY <2>1, <2>2, <2>3, OwnersUndisturbed DEF Listed
<1>2. ASSUME NEW t \in Threads, DequeueReady(c, t)
      PROVE  OneOwner'
  <2>1. queued[t] /\ cpu[t] = c /\ ~running[t] /\ owned[c] = NoThread
    BY <1>2, DequeueTarget DEF LinkInv
  <2>2. \A d \in Cpus : owned[d] # t
    BY <2>1, ConstantsAssumption DEF OneOwner
  <2>3. /\ queued' = [queued EXCEPT ![t] = FALSE]
        /\ running' = [running EXCEPT ![t] = TRUE]
        /\ owned' = [owned EXCEPT ![c] = t]
        /\ pc' = [pc EXCEPT ![c] = "placed"]
        /\ UNCHANGED <<cpu, blocked, suspended>>
    BY <1>2 DEF DequeueReady
  <2>4. ~Listed(t)'
    BY <2>1, <2>3 DEF Listed, ListInv, OneFlag, TypeInv, TypeOK
  <2> QED
    BY <2>1, <2>2, <2>3, <2>4, ConstantsAssumption DEF OneOwner, TypeInv, TypeOK, Listed
<1>3. CASE Migrate(c) \/ ParkSuspended(c) \/ SwitchBack(c)
  <2> DEFINE t == owned[c]
  <2>1. t \in Threads
    BY <1>3, BusyOwner DEF Migrate, ParkSuspended, SwitchBack, Busy
  <2>2. CASE UNCHANGED <<owned, running, cpu, queued, blocked, suspended>> /\ pc[c] # "back"
             /\ pc' = [pc EXCEPT ![c] = "switch"]
    <3>1. \A d \in Cpus : owned[d] # NoThread /\ Listed(owned[d])' => pc'[d] = "back"
      BY <2>2, ConstantsAssumption DEF OneOwner, Listed, TypeInv, TypeOK
    <3> QED
      BY <2>2, <3>1, OwnersStay
  <2>3. CASE /\ running' = [running EXCEPT ![t] = FALSE]
             /\ owned' = [owned EXCEPT ![c] = NoThread]
             /\ pc' = [pc EXCEPT ![c] = "loop"]
             /\ \A u \in Threads \ {t} : /\ cpu'[u] = cpu[u] /\ queued'[u] = queued[u]
                                         /\ blocked'[u] = blocked[u]
                                         /\ suspended'[u] = suspended[u]
    <3> HIDE DEF t
    <3>1. \A d \in Cpus \ {c} : owned'[d] = owned[d] /\ owned[d] # t /\ pc'[d] = pc[d]
      BY <2>1, <2>3, ConstantsAssumption DEF OneOwner, TypeInv, TypeOK, t
    <3>2. owned'[c] = NoThread
      BY <2>3 DEF TypeInv, TypeOK
    <3>3. \A u \in Threads : running'[u] = (running[u] /\ u # t)
      BY <2>3 DEF TypeInv, TypeOK
    <3>4. \A d \in Cpus \ {c} : owned[d] # NoThread => owned[d] \in Threads \ {t}
      BY <3>1 DEF TypeInv, TypeOK
    <3>5. owned[c] = t
      BY DEF t
    <3>6. \A u \in Threads : running'[u] <=> \E d \in Cpus : owned'[d] = u
      <4> TAKE u \in Threads
      <4>1. running[u] <=> \E d \in Cpus : owned[d] = u
        BY DEF OneOwner
      <4>2. CASE u = t
        BY <3>1, <3>2, <3>3, <4>2, ConstantsAssumption
      <4>3. CASE u # t
        BY <3>1, <3>2, <3>3, <3>5, <4>1, <4>3, ConstantsAssumption
      <4> QED
        BY <4>2, <4>3
    <3>7. \A d, e \in Cpus : owned'[d] = owned'[e] /\ owned'[d] # NoThread => d = e
      BY <3>1, <3>2 DEF OneOwner
    <3>8. \A d \in Cpus : owned'[d] # NoThread => cpu'[owned'[d]] = d
      BY <2>3, <3>1, <3>2, <3>4 DEF OneOwner
    <3>9. \A u \in Threads \ {t} : Listed(u)' <=> Listed(u)
      BY <2>3 DEF Listed
    <3>10. ASSUME NEW d \in Cpus, owned'[d] # NoThread, Listed(owned[d])'
           PROVE  pc'[d] = "back"
      <4>1. d # c /\ owned'[d] = owned[d] /\ pc'[d] = pc[d]
        BY <3>1, <3>2, <3>10
      <4>2. Listed(owned[d])
        BY <3>4, <3>9, <3>10, <4>1
      <4> QED
        BY <3>10, <4>1, <4>2 DEF OneOwner
    <3> QED
      BY <3>6, <3>7, <3>8, <3>10 DEF OneOwner, Listed
  <2>4. CASE Migrate(c)
    BY <2>1, <2>3, <2>4 DEF Migrate, LinkAtHeadIfPreempted, LinkReadyLocked, TypeInv, TypeOK
  <2>5. CASE ParkSuspended(c)
    <3>1. CASE RunsAnyway(t)
      BY <2>2, <2>5, <3>1 DEF ParkSuspended
    <3>2. CASE ~RunsAnyway(t)
      BY <2>1, <2>3, <2>5, <3>2 DEF ParkSuspended, RunsAnyway, TypeInv, TypeOK
    <3> QED
      BY <3>1, <3>2
  <2>6. CASE SwitchBack(c)
    BY <2>1, <2>3, <2>6 DEF SwitchBack
  <2> QED
    BY <1>3, <2>4, <2>5, <2>6
<1>4. CASE \/ \E all \in BOOLEAN : RereadyBlocked(c, all)
           \/ NothingToPoll(c) \/ KeepParked(c) \/ WalkDone(c) \/ ReadSuspendCount(c)
           \/ SwitchTo(c) \/ Park(c) \/ Recheck(c) \/ WakeUp(c)
  <2>1. UNCHANGED <<owned, running, cpu, queued, blocked, suspended>>
    BY <1>4 DEF RereadyBlocked, NothingToPoll, KeepParked, WalkDone, ReadSuspendCount, SwitchTo,
       Park, Recheck, WakeUp
  <2>2. pc[c] # "back" /\ \A d \in Cpus \ {c} : pc'[d] = pc[d]
    BY <1>4 DEF RereadyBlocked, NothingToPoll, KeepParked, WalkDone, ReadSuspendCount, SwitchTo,
       Park, Recheck, WakeUp, TypeInv, TypeOK
  <2>3. \A d \in Cpus : owned[d] # NoThread /\ Listed(owned[d])' => pc'[d] = "back"
    BY <2>1, <2>2 DEF OneOwner, Listed
  <2> QED
    BY <2>1, <2>3, OwnersStay
<1> QED
  BY <1>1, <1>2, <1>3, <1>4 DEF RunLoop

LEMMA FiberKeepsOwners ==
  ASSUME TypeInv, ListInv, OneOwner, NEW c \in Cpus, GuestCode(c) \/ FiberEnds(c)
  PROVE  OneOwner'
<1> USE DEF linkVars, lifeVars, callVars, cpuVars, wakeVars, Fiber, Goto, YieldToScheduler
<1>0. /\ pc[c] = "fiber"
      /\ owned[c] \in Threads
      /\ cpu[owned[c]] = c
      /\ ~Listed(owned[c])
      /\ \A d \in Cpus \ {c} : owned[d] # owned[c]
  <2>1. pc[c] = "fiber"
    BY DEF GuestCode, FiberReturns, Safepoint, VoluntaryYield, YieldCurrentThread,
       SelfSuspend, SelfSuspendReturns, BlockCurrentThread, FenceReached, FiberEnds, Exit,
       ExitIfTerminated, FiberCrash
  <2>2. owned[c] \in Threads /\ ~Listed(owned[c])
    BY <2>1, OwnedUnlisted DEF Busy
  <2> QED
    BY <2>1, <2>2, ConstantsAssumption DEF OneOwner
<1>1. ASSUME /\ UNCHANGED <<owned, running>>
             /\ pc' = [pc EXCEPT ![c] = "back"]
             /\ cpu'[owned[c]] = c
             /\ \A u \in Threads \ {owned[c]} : /\ cpu'[u] = cpu[u]
                                                /\ queued'[u] => queued[u]
                                                /\ blocked'[u] => blocked[u]
                                                /\ suspended'[u] => suspended[u]
      PROVE  OneOwner'
  <2>1. \A u \in Threads : running[u] => cpu'[u] = cpu[u]
    BY <1>0, <1>1
  <2>2. \A d \in Cpus : owned[d] # NoThread /\ Listed(owned[d])' => pc'[d] = "back"
    <3> TAKE d \in Cpus
    <3> HAVE owned[d] # NoThread /\ Listed(owned[d])'
    <3>1. CASE d = c
      BY <1>1, <3>1 DEF TypeInv, TypeOK
    <3>2. CASE d # c
      <4>1. owned[d] \in Threads \ {owned[c]}
        BY <1>0, <3>2 DEF TypeInv, TypeOK
      <4>2. Listed(owned[d])
        BY <1>1, <4>1 DEF Listed
      <4>3. pc[d] = "back"
        BY <4>2 DEF OneOwner
      <4> QED
        BY <1>1, <3>2, <4>3 DEF TypeInv, TypeOK
    <3> QED
      BY <3>1, <3>2
  <2> QED
    BY <1>1, <2>1, <2>2, OwnersStay
<1>2. ASSUME NEW toOther \in BOOLEAN, YieldCurrentThread(c, toOther)
      PROVE  OneOwner'
  <2>1. cpu'[owned[c]] = c
        /\ \A u \in Threads \ {owned[c]} : cpu'[u] = cpu[u] /\ queued'[u] = queued[u]
    BY <1>0, <1>2 DEF YieldCurrentThread, EnqueueReady, LinkAtHeadIfPreempted, LinkReadyLocked,
       TypeInv, TypeOK
  <2>2. /\ pc' = [pc EXCEPT ![c] = "back"]
        /\ UNCHANGED <<owned, running, blocked, suspended>>
    BY <1>2 DEF YieldCurrentThread
  <2> QED
    BY <1>1, <2>1, <2>2
<1>3. ASSUME NEW interruptible \in BOOLEAN, NEW signalled \in BOOLEAN,
             BlockCurrentThread(c, interruptible, signalled)
      PROVE  OneOwner'
  <2>1. /\ pc' = [pc EXCEPT ![c] = "back"]
        /\ blocked' = [blocked EXCEPT ![owned[c]] = TRUE]
        /\ cpu' = [cpu EXCEPT ![owned[c]] = c]
        /\ UNCHANGED <<owned, running, queued, suspended>>
    BY <1>3 DEF BlockCurrentThread
  <2>2. /\ cpu'[owned[c]] = c
        /\ \A u \in Threads \ {owned[c]} : cpu'[u] = cpu[u] /\ blocked'[u] = blocked[u]
    BY <1>0, <2>1 DEF TypeInv, TypeOK
  <2> QED
    BY <1>1, <2>1, <2>2
<1>4. CASE FiberCrash(c)
  <2>1. /\ pc' = [pc EXCEPT ![c] = "back"]
        /\ queued' = [queued EXCEPT ![owned[c]] = FALSE]
        /\ blocked' = [blocked EXCEPT ![owned[c]] = FALSE]
        /\ suspended' = [suspended EXCEPT ![owned[c]] = FALSE]
        /\ UNCHANGED <<owned, running, cpu>>
    BY <1>4 DEF FiberCrash
  <2>2. \A u \in Threads \ {owned[c]} : /\ queued'[u] => queued[u]
                                        /\ blocked'[u] => blocked[u]
                                        /\ suspended'[u] => suspended[u]
    BY <2>1 DEF TypeInv, TypeOK
  <2> QED
    BY <1>0, <1>1, <2>1, <2>2
<1>5. CASE Exit(c) \/ ExitIfTerminated(c)
  <2>1. /\ pc' = [pc EXCEPT ![c] = "back"]
        /\ UNCHANGED <<owned, running, cpu, queued, blocked, suspended>>
    BY <1>5 DEF Exit, ExitIfTerminated, ExitFiber
  <2> QED
    BY <1>0, <1>1, <2>1
<1>6. CASE FiberReturns(c) \/ SelfSuspend(c) \/ SelfSuspendReturns(c) \/ FenceReached(c)
  <2>1. UNCHANGED <<owned, running, pc, cpu, queued, blocked, suspended>>
    BY <1>6 DEF FiberReturns, SelfSuspend, SelfSuspendReturns, FenceReached
  <2> QED
    BY <2>1, OwnersUndisturbed DEF Listed
<1> QED
  BY <1>2, <1>3, <1>4, <1>5, <1>6 DEF GuestCode, FiberEnds, Safepoint, VoluntaryYield

LEMMA WakesKeepOwners ==
  ASSUME TypeInv, OneOwner,
         \/ \E watchers \in SUBSET Threads : WakeForSignal(watchers)
         \/ \E c \in Cpus : Watchdog(c)
  PROVE  OneOwner'
<1>1. UNCHANGED <<owned, running, pc, cpu, queued, blocked, suspended>>
  BY DEF WakeForSignal, Watchdog, linkVars, cpuVars
<1> QED
  BY <1>1, OwnersUndisturbed DEF Listed

-----------------------------------------------------------------------------
LEMMA LinkInvInductive ==
  /\ Init => LinkInv
  /\ LinkInv /\ [Next]_vars => LinkInv'
<1>1. Init => LinkInv
  <2> SUFFICES ASSUME Init PROVE OneOwner
    BY InitTypes, InitLists DEF LinkInv
  <2>1. /\ \A c \in Cpus : owned[c] = NoThread
        /\ \A t \in Threads : ~running[t] /\ t # NoThread
    BY ConstantsAssumption DEF Init
  <2> QED
    BY <2>1 DEF OneOwner
<1>2. LinkInv /\ [Next]_vars => LinkInv'
  <2> SUFFICES ASSUME LinkInv, [Next]_vars PROVE LinkInv'
    OBVIOUS
  <2>1. TypeInv'
    BY TypeInvInductive DEF LinkInv
  <2>2. CASE UNCHANGED vars
    BY <2>1, <2>2, SameLinks, OwnersUndisturbed
    DEF vars, linkVars, lifeVars, cpuVars, linksOf, Listed, LinkInv
  <2>3. CASE Next
    <3>1. ListInv'
      BY <2>1, <2>3, CallsKeepLists, RunLoopKeepsLists, FiberKeepsLists, WakesKeepLists,
         ConstantsAssumption
      DEF Next, OtherCalls, LinkInv
    <3>2. OneOwner'
      BY <2>3, CallsKeepOwners, RunLoopKeepsOwners, FiberKeepsOwners, WakesKeepOwners,
         ConstantsAssumption
      DEF Next, OtherCalls, LinkInv
    <3> QED
      BY <2>1, <3>1, <3>2 DEF LinkInv
  <2> QED
    BY <2>2, <2>3
<1> QED
  BY <1>1, <1>2

\* Each thread is in at most one of the intrusive lists, once, and its links name
\* it, whatever the interleaving of the locked sections.
THEOREM ListsIntact == Spec => []OneList
<1>1. LinkInv => OneList
  BY ListInvImpliesOneList DEF LinkInv
<1> QED
  BY <1>1, LinkInvInductive, PTL DEF Spec

\* A fiber is on one dispatch thread at a time, the one its links name, and in a
\* list only on its way off it.
THEOREM OwnersUnique == Spec => []OneOwner
<1>1. LinkInv => OneOwner
  BY DEF LinkInv
<1> QED
  BY <1>1, LinkInvInductive, PTL DEF Spec
=============================================================================
