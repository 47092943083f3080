--------------------------- MODULE GuestScheduler ---------------------------
(***************************************************************************)
(* The cooperative guest scheduler of kernel/guest_scheduler.cc.           *)
(*                                                                         *)
(* Every guest CPU is a host dispatch thread that runs RunLoop on its idle *)
(* fiber and switches into the fibers of guest threads.  A guest thread is *)
(* owned by a dispatch thread ("running") or is linked into one of the     *)
(* intrusive lists of a CPU (ready, blocked or suspended).  Other host     *)
(* threads and other fibers suspend, resume, terminate, move and           *)
(* re-prioritise it at any moment.                                         *)
(*                                                                         *)
(* A section that holds lock_ is one action, except the walk of            *)
(* RereadyBlocked, which is a step per waiter: no other locked section     *)
(* runs while a CPU is in it (LockFree).  A wake is set in the action that *)
(* links the thread although the code sets the event just after lock_ is   *)
(* released; ParkWake.tla models that handshake step by step.              *)
(***************************************************************************)
EXTENDS Integers, SequencesExt

CONSTANTS
  Threads,       \* guest threads
  Cpus,          \* dispatch threads
  MaxPriority,   \* highest priority level (31 in the code)
  MaxSuspend,    \* bound on a suspend count (255 in the code)
  Movable,       \* threads KeSetAffinityThread is called on
  Suspendable,   \* threads NtSuspendThread and NtResumeThread are called on
  Killable,      \* threads another thread terminates
  Reprioritised, \* threads whose priority changes while they live
  Waiting,       \* threads that wait on kernel objects or sleep
  Offloading,    \* threads that wait for a fence or an offloaded host call
  Crashing,      \* threads whose guest code faults
  Quantum,       \* guest_scheduler_quantum_us is not 0: there is a watchdog
  NoThread,      \* null XThread*
  NoCpu          \* SchedulerLinks::cpu of a thread never linked

ASSUME ConstantsAssumption ==
  /\ MaxPriority \in Nat
  /\ MaxSuspend \in Nat \ {0}
  /\ NoThread \notin Threads
  /\ NoCpu \notin Cpus
  /\ Movable \subseteq Threads
  /\ Suspendable \subseteq Threads
  /\ Killable \subseteq Threads
  /\ Reprioritised \subseteq Threads
  /\ Waiting \subseteq Threads
  /\ Offloading \subseteq Threads
  /\ Crashing \subseteq Threads
  /\ Quantum \in BOOLEAN

Prios == 0..MaxPriority

(***************************************************************************)
(* The lists of all CPUs: one ready list per priority level, one blocked   *)
(* and one suspended list each.                                            *)
(***************************************************************************)
ReadyId(c, p)  == <<"ready", c, p>>
BlockedId(c)   == <<"blocked", c, 0>>
SuspendedId(c) == <<"suspended", c, 0>>
ListIds == ({"ready"} \X Cpus \X Prios) \cup ({"blocked", "suspended"} \X Cpus \X {0})

VARIABLES
  list,        \* [ListIds -> Seq(Threads)], Cpu::ready_head, blocked_head, suspended_head
  \* SchedulerLinks of a thread
  cpu, queuedPrio, queued, blocked, suspended, running, preempted, hasRun,
  terminatePending,
  \* X_KTHREAD and XThread fields of a thread
  priority, home, suspendCount, kstate, reclaimed, preemptRequested,
  at,          \* where the thread's fiber stands
  resumer,     \* progress of an XThread::Resume of the thread
  terminator,  \* progress of an XThread::Terminate of the thread
  publisher,   \* a PublishPriority that has yet to requeue the thread
  \* Cpu fields and the locals of RunLoop
  pc, owned, current, yielder, exited, repoll, event, walk

linkVars == <<list, cpu, queuedPrio, queued, blocked, suspended, running, preempted>>
lifeVars == <<hasRun, terminatePending, kstate, reclaimed, at>>
callVars == <<priority, home, suspendCount, resumer, terminator, publisher>>
cpuVars  == <<pc, owned, current, yielder, exited, repoll, walk>>
wakeVars == <<preemptRequested, event>>
vars == <<linkVars, lifeVars, callVars, cpuVars, wakeVars>>

KStates  == {"initialized", "running", "waiting", "terminated"}
Places   == {"entry", "run", "suspending", "yield", "park", "fence", "dead", "crashed"}
CpuSteps == {"loop", "walk", "walkAll", "pick", "placed", "suspend", "switch",
             "fiber", "back", "parking", "sleep"}

TypeOK ==
  /\ list \in [ListIds -> Seq(Threads)]
  /\ cpu \in [Threads -> Cpus \cup {NoCpu}]
  /\ queuedPrio \in [Threads -> Prios]
  /\ queued \in [Threads -> BOOLEAN]
  /\ blocked \in [Threads -> BOOLEAN]
  /\ suspended \in [Threads -> BOOLEAN]
  /\ running \in [Threads -> BOOLEAN]
  /\ preempted \in [Threads -> BOOLEAN]
  /\ hasRun \in [Threads -> BOOLEAN]
  /\ terminatePending \in [Threads -> BOOLEAN]
  /\ priority \in [Threads -> Prios]
  /\ home \in [Threads -> Cpus]
  /\ suspendCount \in [Threads -> 0..MaxSuspend]
  /\ kstate \in [Threads -> KStates]
  /\ reclaimed \in [Threads -> BOOLEAN]
  /\ preemptRequested \in [Threads -> BOOLEAN]
  /\ at \in [Threads -> Places]
  /\ resumer \in [Threads -> {"create", "idle", "unlink", "check", "enqueue"}]
  /\ terminator \in [Threads -> {"idle", "detach"}]
  /\ publisher \in [Threads -> BOOLEAN]
  /\ pc \in [Cpus -> CpuSteps]
  /\ owned \in [Cpus -> Threads \cup {NoThread}]
  /\ current \in [Cpus -> Threads \cup {NoThread}]
  /\ yielder \in [Cpus -> Threads \cup {NoThread}]
  /\ exited \in [Cpus -> Threads \cup {NoThread}]
  /\ repoll \in [Cpus -> BOOLEAN]
  /\ event \in [Cpus -> BOOLEAN]
  /\ walk \in [Cpus -> Nat \ {0}]

(***************************************************************************)
(* Each thread is either created suspended, in no list, or still inside    *)
(* XThread::Create, which ends by marking it ready.                        *)
(***************************************************************************)
Init ==
  /\ list = [l \in ListIds |-> <<>>]
  /\ cpu = [t \in Threads |-> NoCpu]
  /\ queuedPrio = [t \in Threads |-> 0]
  /\ queued = [t \in Threads |-> FALSE]
  /\ blocked = [t \in Threads |-> FALSE]
  /\ suspended = [t \in Threads |-> FALSE]
  /\ running = [t \in Threads |-> FALSE]
  /\ preempted = [t \in Threads |-> FALSE]
  /\ hasRun = [t \in Threads |-> FALSE]
  /\ terminatePending = [t \in Threads |-> FALSE]
  /\ priority \in [Threads -> Prios]
  /\ home \in [Threads -> Cpus]
  /\ kstate = [t \in Threads |-> "initialized"]
  /\ reclaimed = [t \in Threads |-> FALSE]
  /\ preemptRequested = [t \in Threads |-> FALSE]
  /\ at = [t \in Threads |-> "entry"]
  /\ \E born \in SUBSET Suspendable :
       /\ suspendCount = [t \in Threads |-> IF t \in born THEN 1 ELSE 0]
       /\ resumer = [t \in Threads |-> IF t \in born THEN "idle" ELSE "create"]
  /\ terminator = [t \in Threads |-> "idle"]
  /\ publisher = [t \in Threads |-> FALSE]
  /\ pc = [c \in Cpus |-> "loop"]
  /\ owned = [c \in Cpus |-> NoThread]
  /\ current = [c \in Cpus |-> NoThread]
  /\ yielder = [c \in Cpus |-> NoThread]
  /\ exited = [c \in Cpus |-> NoThread]
  /\ repoll = [c \in Cpus |-> FALSE]
  /\ event = [c \in Cpus |-> FALSE]
  /\ walk = [c \in Cpus |-> 1]

-----------------------------------------------------------------------------
(* Helpers of the locked sections.                                         *)

LockFree == \A c \in Cpus : pc[c] \notin {"walk", "walkAll"}

Goto(c, step) == pc' = [pc EXCEPT ![c] = step]

\* The list a thread's links say it is on.
ListOf(t) ==
  IF queued[t] THEN ReadyId(cpu[t], queuedPrio[t])
  ELSE IF blocked[t] THEN BlockedId(cpu[t])
  ELSE SuspendedId(cpu[t])

\* UnlinkLocked: |t| out of the list |l|.
Unlinked(l, t) == [list EXCEPT ![l] = RemoveFirst(@, t)]

\* Cpu::parked: set before the queues are re-checked, until the sleep ends.
Parked(c) == pc[c] \in {"parking", "sleep"}

\* A parked dispatch thread gets its ready_event set, a busy one re-checks.
Poked(c) == [event EXCEPT ![c] = @ \/ Parked(c)]

\* LinkReadyLocked: |t| joins the ready list of |c| at its priority, out of the
\* lists |ls|, and flags the running fiber it outranks.  |pre| is the preempted
\* flag of every thread as the caller leaves it.
LinkReadyLocked(ls, t, c, atHead, pre) ==
  LET r == current[c]
      outranks == /\ r # NoThread
                  /\ r # t
                  /\ priority[t] > priority[r]
  IN /\ list' = [ls EXCEPT ![ReadyId(c, priority[t])] =
                   IF atHead THEN Cons(t, @) ELSE Append(@, t)]
     /\ queued' = [queued EXCEPT ![t] = TRUE]
     /\ cpu' = [cpu EXCEPT ![t] = c]
     /\ queuedPrio' = [queuedPrio EXCEPT ![t] = priority[t]]
     /\ preempted' = IF outranks THEN [pre EXCEPT ![r] = TRUE] ELSE pre
     /\ preemptRequested' = IF outranks THEN [preemptRequested EXCEPT ![r] = TRUE]
                                        ELSE preemptRequested

\* LinkReadyLocked of a thread whose preempted flag the caller consumed.
LinkAtHeadIfPreempted(ls, t, c) ==
  LinkReadyLocked(ls, t, c, preempted[t], [preempted EXCEPT ![t] = FALSE])

\* Mutants of OwnsItsWakeUp: a queued thread is queued again; a running one is
\* queued by anybody; a running one is not even queued by its own yield.
OwnsItsWakeUpUnlessQueued(t, here) ==
  blocked[t] \/ suspended[t] \/ (running[t] /\ cpu[t] # here)
OwnsItsWakeUpUnlessRunning(t, here) == blocked[t] \/ suspended[t] \/ queued[t]
OwnsItsWakeUpEvenHere(t, here) == blocked[t] \/ suspended[t] \/ running[t] \/ queued[t]

\* The states in which EnqueueReady is a silent no-op.  |here| is the dispatch
\* thread making the call, NoCpu on any other host thread.
OwnsItsWakeUp(t, here) ==
  \/ blocked[t]
  \/ suspended[t]
  \/ running[t] /\ cpu[t] # here
  \/ queued[t]

EnqueueReady(t, c, here) ==
  IF OwnsItsWakeUp(t, here)
  THEN UNCHANGED <<list, cpu, queuedPrio, queued, preempted, preemptRequested, event>>
  ELSE /\ LinkAtHeadIfPreempted(list, t, c)
       /\ event' = Poked(c)

-----------------------------------------------------------------------------
(* XThread::Resume, Suspend, Terminate, SetAffinity and PublishPriority of  *)
(* a thread, called by another thread.                                      *)

\* XThread::Create of a thread that is not created suspended.  Nobody else has a
\* handle of it, so the check of MarkReady and the link are one step.
Create(t) ==
  /\ LockFree
  /\ resumer[t] = "create"
  /\ resumer' = [resumer EXCEPT ![t] = "idle"]
  /\ EnqueueReady(t, home[t], NoCpu)
  /\ UNCHANGED <<blocked, suspended, running, lifeVars, priority, home, suspendCount,
                 terminator, publisher, cpuVars>>

\* Others can name the thread: it is created, and the caller holds a reference.
Known(t) == resumer[t] # "create" /\ ~reclaimed[t]

\* Mutant: the count is decremented even when it is 0.
ResumeUnchecked(t) ==
  /\ Known(t)
  /\ resumer[t] = "idle"
  /\ suspendCount' = [suspendCount EXCEPT ![t] = @ - 1]
  /\ resumer' = [resumer EXCEPT ![t] = IF suspendCount[t] = 1 THEN "unlink" ELSE "idle"]
  /\ UNCHANGED <<linkVars, lifeVars, priority, home, terminator, publisher, cpuVars, wakeVars>>

\* The compare-exchange of XThread::Resume: only the count's last decrement
\* goes on to ResumeThread.
Resume(t) ==
  /\ Known(t)
  /\ resumer[t] = "idle"
  /\ suspendCount[t] > 0
  /\ suspendCount' = [suspendCount EXCEPT ![t] = @ - 1]
  /\ resumer' = [resumer EXCEPT ![t] = IF suspendCount[t] = 1 THEN "unlink" ELSE "idle"]
  /\ UNCHANGED <<linkVars, lifeVars, priority, home, terminator, publisher, cpuVars, wakeVars>>

\* ResumeThread: out of the suspended list, and on to MarkReady.
ResumeThread(t) ==
  /\ LockFree
  /\ resumer[t] = "unlink"
  /\ resumer' = [resumer EXCEPT ![t] = "check"]
  /\ list' = IF suspended[t] THEN Unlinked(SuspendedId(cpu[t]), t) ELSE list
  /\ suspended' = [suspended EXCEPT ![t] = FALSE]
  /\ UNCHANGED <<cpu, queuedPrio, queued, blocked, running, preempted, lifeVars,
                 priority, home, suspendCount, terminator, publisher, cpuVars, wakeVars>>

\* MarkReady reads thread_state before EnqueueReady takes the lock.
MarkReady(t) ==
  /\ resumer[t] = "check"
  /\ resumer' = [resumer EXCEPT ![t] = IF kstate[t] = "terminated" THEN "idle" ELSE "enqueue"]
  /\ UNCHANGED <<linkVars, lifeVars, priority, home, suspendCount, terminator, publisher,
                 cpuVars, wakeVars>>

\* EnqueueReady(thread, CpuOf(thread)).  CpuOf is read just before the lock; a
\* move in between leaves the same state as a move just after the link.
MarkReadyEnqueue(t) ==
  /\ LockFree
  /\ resumer[t] = "enqueue"
  /\ resumer' = [resumer EXCEPT ![t] = "idle"]
  /\ EnqueueReady(t, home[t], NoCpu)
  /\ UNCHANGED <<blocked, suspended, running, lifeVars, priority, home, suspendCount,
                 terminator, publisher, cpuVars>>

\* The fetch_add of XThread::Suspend on another thread.  The dispatcher acts on
\* it at the target's next pick-up.
Suspend(t) ==
  /\ Known(t)
  /\ suspendCount[t] < MaxSuspend
  /\ suspendCount' = [suspendCount EXCEPT ![t] = @ + 1]
  /\ UNCHANGED <<linkVars, lifeVars, priority, home, resumer, terminator, publisher,
                 cpuVars, wakeVars>>

\* XThread::Terminate of another thread, up to its call of TerminateThread.
Terminate(t) ==
  /\ Known(t)
  /\ terminator[t] = "idle"
  /\ terminator' = [terminator EXCEPT ![t] = "detach"]
  /\ kstate' = [kstate EXCEPT ![t] = "terminated"]
  /\ UNCHANGED <<linkVars, hasRun, terminatePending, reclaimed, at, priority, home,
                 suspendCount, resumer, publisher, cpuVars, wakeVars>>

\* A parked thread is readied at the head of its CPU, to exit on its own stack.
DispatchToExit(t) ==
  /\ blocked[t] \/ suspended[t]
  /\ LinkReadyLocked(Unlinked(ListOf(t), t), t, cpu[t], TRUE, preempted)
  /\ blocked' = [blocked EXCEPT ![t] = FALSE]
  /\ suspended' = [suspended EXCEPT ![t] = FALSE]
  /\ event' = Poked(cpu[t])
  /\ UNCHANGED <<running, reclaimed>>

\* Mutant: a thread that never ran is freed although it is queued.
TerminateInPlaceQueued(t) ==
  /\ running[t] \/ ~(blocked[t] \/ suspended[t])
  /\ preemptRequested' = [preemptRequested EXCEPT ![t] = @ \/ running[t]]
  /\ reclaimed' = [reclaimed EXCEPT ![t] = @ \/ (~running[t] /\ ~hasRun[t])]
  /\ UNCHANGED <<linkVars, event>>

\* TerminateThread of a thread that is not parked: one on a CPU is sent to a
\* safepoint, one that never ran and is in no list is freed by the caller.
TerminateInPlace(t) ==
  /\ running[t] \/ ~(blocked[t] \/ suspended[t])
  /\ preemptRequested' = [preemptRequested EXCEPT ![t] = @ \/ running[t]]
  /\ reclaimed' = [reclaimed EXCEPT ![t] = @ \/ (~running[t] /\ ~queued[t] /\ ~hasRun[t])]
  /\ UNCHANGED <<linkVars, event>>

TerminateThread(t) ==
  /\ LockFree
  /\ terminator[t] = "detach"
  /\ terminator' = [terminator EXCEPT ![t] = "idle"]
  /\ terminatePending' = [terminatePending EXCEPT ![t] = TRUE]
  /\ \/ ~running[t] /\ DispatchToExit(t)
     \/ TerminateInPlace(t)
  /\ UNCHANGED <<hasRun, kstate, at, priority, home, suspendCount, resumer, publisher, cpuVars>>

\* XThread::SetActiveCpu: the dispatcher migrates the thread when it next sees it.
SetActiveCpu(t, c) ==
  /\ Known(t)
  /\ home[t] # c
  /\ home' = [home EXCEPT ![t] = c]
  /\ UNCHANGED <<linkVars, lifeVars, priority, suspendCount, resumer, terminator, publisher,
                 cpuVars, wakeVars>>

\* The write of XThread::priority_, by a base priority change, a boost on wake
\* or the decay of a quantum end.  Which of them applies depends on the base
\* priority, which is left out: any new priority may come at any time.
PublishPriority(t, p) ==
  /\ Known(t)
  /\ ~publisher[t]
  /\ priority[t] # p
  /\ priority' = [priority EXCEPT ![t] = p]
  /\ publisher' = [publisher EXCEPT ![t] = TRUE]
  /\ UNCHANGED <<linkVars, lifeVars, home, suspendCount, resumer, terminator, cpuVars, wakeVars>>

\* A queued thread moves to the tail of its new level.
RequeueForPriority(t) ==
  /\ LockFree
  /\ publisher[t]
  /\ publisher' = [publisher EXCEPT ![t] = FALSE]
  /\ IF queued[t]
     THEN LinkReadyLocked(Unlinked(ListOf(t), t), t, cpu[t], FALSE, preempted)
     ELSE UNCHANGED <<list, cpu, queuedPrio, queued, preempted, preemptRequested>>
  /\ UNCHANGED <<blocked, suspended, running, lifeVars, priority, home, suspendCount,
                 resumer, terminator, cpuVars, event>>

\* WakeAll and WakeForSignal, whose watchers are some of the blocked threads:
\* their CPUs re-poll, and a fiber a watcher outranks is told to yield.
WakeForSignal(watchers) ==
  LET poke == {cpu[t] : t \in watchers}
      outranked == {r \in Threads : \E c \in poke, t \in watchers :
                      r = current[c] /\ cpu[t] = c /\ priority[t] > priority[r]}
  IN /\ LockFree
     /\ repoll' = [c \in Cpus |-> repoll[c] \/ c \in poke]
     /\ event' = [c \in Cpus |-> event[c] \/ (c \in poke /\ Parked(c))]
     /\ preempted' = [t \in Threads |-> preempted[t] \/ t \in outranked]
     /\ preemptRequested' = [t \in Threads |-> preemptRequested[t] \/ t \in outranked]
     /\ UNCHANGED <<list, cpu, queuedPrio, queued, blocked, suspended, running, lifeVars,
                    callVars, pc, owned, current, yielder, exited, walk>>

\* Mutant: a slice ends only when a thread of the same level is queued.
WatchdogForPeers(c) ==
  /\ Quantum
  /\ LockFree
  /\ current[c] # NoThread
  /\ ~preemptRequested[current[c]]
  /\ list[ReadyId(c, priority[current[c]])] # <<>>
  /\ preemptRequested' = [preemptRequested EXCEPT ![current[c]] = TRUE]
  /\ UNCHANGED <<linkVars, lifeVars, callVars, cpuVars, event>>

\* WatchdogLoop: the running fiber of |c| has outlived its slice.
Watchdog(c) ==
  /\ Quantum
  /\ LockFree
  /\ current[c] # NoThread
  /\ ~preemptRequested[current[c]]
  /\ preemptRequested' = [preemptRequested EXCEPT ![current[c]] = TRUE]
  /\ UNCHANGED <<linkVars, lifeVars, callVars, cpuVars, event>>

-----------------------------------------------------------------------------
(* RunLoop on the idle fiber of |c|.                                       *)

\* A pass over the blocked list starts because a wake asked for it or a timer
\* is due.  |all|: the backstop is due, and the pass skips nobody.
RereadyBlocked(c, all) ==
  /\ pc[c] = "loop"
  /\ LockFree
  /\ repoll' = [repoll EXCEPT ![c] = FALSE]
  /\ walk' = [walk EXCEPT ![c] = 1]
  /\ Goto(c, IF all THEN "walkAll" ELSE "walk")
  /\ UNCHANGED <<linkVars, lifeVars, callVars, owned, current, yielder, exited, wakeVars>>

\* Neither a wake nor a timer: straight to the ready queue.
NothingToPoll(c) ==
  /\ pc[c] = "loop"
  /\ ~repoll[c]
  /\ Goto(c, "pick")
  /\ UNCHANGED <<linkVars, lifeVars, callVars, owned, current, yielder, exited, repoll, walk,
                 wakeVars>>

\* The walk is at a waiter whose wait cannot have resolved.
KeepParked(c) ==
  /\ pc[c] = "walk"
  /\ walk[c] <= Len(list[BlockedId(c)])
  /\ walk' = [walk EXCEPT ![c] = @ + 1]
  /\ UNCHANGED <<linkVars, lifeVars, callVars, pc, owned, current, yielder, exited, repoll,
                 wakeVars>>

\* The walk is at a waiter to re-poll: ready on its current guest CPU.
Reready(c) ==
  /\ pc[c] \in {"walk", "walkAll"}
  /\ walk[c] <= Len(list[BlockedId(c)])
  /\ LET t == list[BlockedId(c)][walk[c]]
     IN /\ LinkAtHeadIfPreempted([list EXCEPT ![BlockedId(c)] = RemoveAt(@, walk[c])],
                                 t, home[t])
        /\ blocked' = [blocked EXCEPT ![t] = FALSE]
        /\ event' = Poked(home[t])
  /\ UNCHANGED <<suspended, running, lifeVars, callVars, cpuVars>>

WalkDone(c) ==
  /\ pc[c] \in {"walk", "walkAll"}
  /\ walk[c] > Len(list[BlockedId(c)])
  /\ walk' = [walk EXCEPT ![c] = 1]
  /\ Goto(c, "pick")
  /\ UNCHANGED <<linkVars, lifeVars, callVars, owned, current, yielder, exited, repoll, wakeVars>>

\* |t| is the first of the ready threads of |c| outside |except|: highest level
\* first, front of the level first.
IsFirstReady(c, t, except) ==
  \E p \in Prios : \E i \in DOMAIN list[ReadyId(c, p)] :
    /\ list[ReadyId(c, p)][i] = t
    /\ t \notin except
    /\ \A j \in 1..(i - 1) : list[ReadyId(c, p)][j] \in except
    /\ \A q \in (p + 1)..MaxPriority :
         \A j \in DOMAIN list[ReadyId(c, q)] : list[ReadyId(c, q)][j] \in except

\* Mutant: strict priority, whoever yielded.
IsNextStrictly(c, t) == IsFirstReady(c, t, {})

\* A voluntary yielder at the front gives way to any other ready thread.
IsNext(c, t) ==
  IF IsFirstReady(c, yielder[c], {}) /\ \E u \in Threads : IsFirstReady(c, u, {yielder[c]})
  THEN IsFirstReady(c, t, {yielder[c]})
  ELSE IsFirstReady(c, t, {})

\* Mutant: yield_to_other outlives the pick it was for.
YielderKept(c) == yielder

\* A voluntary yield opts out of one pick only.
YielderConsumed(c) == [yielder EXCEPT ![c] = NoThread]

DequeueReady(c, t) ==
  /\ pc[c] = "pick"
  /\ LockFree
  /\ IsNext(c, t)
  /\ list' = Unlinked(ListOf(t), t)
  /\ queued' = [queued EXCEPT ![t] = FALSE]
  /\ running' = [running EXCEPT ![t] = TRUE]
  /\ yielder' = YielderConsumed(c)
  /\ owned' = [owned EXCEPT ![c] = t]
  /\ Goto(c, "placed")
  /\ UNCHANGED <<cpu, queuedPrio, blocked, suspended, preempted, lifeVars, callVars, current,
                 exited, repoll, walk, wakeVars>>

\* An affinity change takes effect: the thread joins the queue of its home CPU.
Migrate(c) ==
  LET t == owned[c]
  IN /\ pc[c] = "placed"
     /\ LockFree
     /\ home[t] # c
     /\ ~terminatePending[t]
     /\ running' = [running EXCEPT ![t] = FALSE]
     /\ LinkAtHeadIfPreempted(list, t, home[t])
     /\ event' = Poked(home[t])
     /\ owned' = [owned EXCEPT ![c] = NoThread]
     /\ Goto(c, "loop")
     /\ UNCHANGED <<blocked, suspended, lifeVars, callVars, current, yielder, exited, repoll,
                    walk>>

\* The thread stays on this CPU; its suspend count is read without the lock.
ReadSuspendCount(c) ==
  LET t == owned[c]
  IN /\ pc[c] = "placed"
     /\ home[t] = c \/ terminatePending[t]
     /\ Goto(c, IF suspendCount[t] > 0 THEN "suspend" ELSE "switch")
     /\ UNCHANGED <<linkVars, lifeVars, callVars, owned, current, yielder, exited, repoll, walk,
                    wakeVars>>

\* Mutants of RunsAnyway: the count is not read again; a suspension outlives the
\* termination.
RunsIfTerminated(t) == terminatePending[t]
RunsIfResumed(t) == suspendCount[t] = 0

\* ParkSuspended reads the count again, under the lock of ResumeThread.
RunsAnyway(t) == suspendCount[t] = 0 \/ terminatePending[t]

ParkSuspended(c) ==
  LET t == owned[c]
  IN /\ pc[c] = "suspend"
     /\ LockFree
     /\ IF RunsAnyway(t)
        THEN /\ Goto(c, "switch")
             /\ UNCHANGED <<list, cpu, suspended, running, owned>>
        ELSE /\ suspended' = [suspended EXCEPT ![t] = TRUE]
             /\ cpu' = [cpu EXCEPT ![t] = c]
             /\ list' = [list EXCEPT ![SuspendedId(c)] = Append(@, t)]
             /\ running' = [running EXCEPT ![t] = FALSE]
             /\ owned' = [owned EXCEPT ![c] = NoThread]
             /\ Goto(c, "loop")
     /\ UNCHANGED <<queuedPrio, queued, blocked, preempted, lifeVars, callVars, current, yielder,
                    exited, repoll, walk, wakeVars>>

\* SwitchTo, up to the fiber switch.  A flag raised while the fiber was off-CPU
\* is stale and dropped.
SwitchTo(c) ==
  LET t == owned[c]
  IN /\ pc[c] = "switch"
     /\ LockFree
     /\ exited' = [exited EXCEPT ![c] = NoThread]
     /\ hasRun' = [hasRun EXCEPT ![t] = TRUE]
     /\ current' = [current EXCEPT ![c] = t]
     /\ kstate' = [kstate EXCEPT ![t] = "running"]
     /\ preemptRequested' = [preemptRequested EXCEPT ![t] = FALSE]
     /\ Goto(c, "fiber")
     /\ UNCHANGED <<linkVars, terminatePending, reclaimed, at, callVars, owned, yielder, repoll,
                    walk, event>>

\* The end of SwitchTo, on the idle fiber again: the thread is given up, and
\* RunLoop reclaims it if it exited.
SwitchBack(c) ==
  LET t == owned[c]
  IN /\ pc[c] = "back"
     /\ LockFree
     /\ running' = [running EXCEPT ![t] = FALSE]
     /\ current' = [current EXCEPT ![c] = NoThread]
     /\ owned' = [owned EXCEPT ![c] = NoThread]
     /\ reclaimed' = [u \in Threads |-> reclaimed[u] \/ u = exited[c]]
     /\ exited' = [exited EXCEPT ![c] = NoThread]
     /\ Goto(c, "loop")
     /\ UNCHANGED <<list, cpu, queuedPrio, queued, blocked, suspended, preempted, hasRun,
                    terminatePending, kstate, at, callVars, yielder, repoll, walk, wakeVars>>

NoneReady(c) == \A p \in Prios : list[ReadyId(c, p)] = <<>>

\* DequeueReady found nothing: park before the queues are looked at again.
Park(c) ==
  /\ pc[c] = "pick"
  /\ LockFree
  /\ NoneReady(c)
  /\ Goto(c, "parking")
  /\ UNCHANGED <<linkVars, lifeVars, callVars, owned, current, yielder, exited, repoll, walk,
                 wakeVars>>

\* Mutant: a re-poll requested since the last pass is overlooked.
HaveReadyWork(c) == ~NoneReady(c)

HaveWork(c) == repoll[c] \/ ~NoneReady(c)

Recheck(c) ==
  /\ pc[c] = "parking"
  /\ LockFree
  /\ Goto(c, IF HaveWork(c) THEN "loop" ELSE "sleep")
  /\ UNCHANGED <<linkVars, lifeVars, callVars, owned, current, yielder, exited, repoll, walk,
                 wakeVars>>

\* The sleep is bounded by the next re-poll while waiters are parked, and by one
\* second until the first thread was dispatched.  Evaluated when the CPU wakes:
\* what is left out is a one-second sleep begun before the first dispatch.
TimedSleep(c) == list[BlockedId(c)] # <<>> \/ \A t \in Threads : ~hasRun[t]

WakeUp(c) ==
  /\ pc[c] = "sleep"
  /\ event[c] \/ TimedSleep(c)
  /\ event' = [event EXCEPT ![c] = FALSE]
  /\ Goto(c, "loop")
  /\ UNCHANGED <<linkVars, lifeVars, callVars, owned, current, yielder, exited, repoll, walk,
                 preemptRequested>>

-----------------------------------------------------------------------------
(* The fiber that runs on |c|.                                             *)

Fiber(c, places) == pc[c] = "fiber" /\ at[owned[c]] \in places

\* The fiber leaves the CPU for the idle fiber and stands at |place|.
YieldToScheduler(c, place) ==
  /\ Goto(c, "back")
  /\ at' = [at EXCEPT ![owned[c]] = place]

\* A dispatched fiber goes on where it yielded, parked or begins.
FiberReturns(c) ==
  /\ Fiber(c, {"entry", "yield", "park"})
  /\ ~terminatePending[owned[c]]
  /\ at' = [at EXCEPT ![owned[c]] = "run"]
  /\ UNCHANGED <<linkVars, hasRun, terminatePending, kstate, reclaimed, callVars, cpuVars, wakeVars>>

\* The end of XThread::Exit, of a self-termination and of ExitIfTerminated.
ExitFiber(c) ==
  /\ kstate' = [kstate EXCEPT ![owned[c]] = "terminated"]
  /\ exited' = [exited EXCEPT ![c] = owned[c]]
  /\ YieldToScheduler(c, "dead")
  /\ UNCHANGED <<linkVars, hasRun, terminatePending, reclaimed, callVars, owned, current, yielder,
                 repoll, walk, wakeVars>>

Exit(c) ==
  /\ Fiber(c, {"run"})
  /\ ~terminatePending[owned[c]]
  /\ ExitFiber(c)

\* A fiber another thread terminated ends at its entry, at the return from a
\* yield or an interruptible park, or at its next yield, park or safepoint.
ExitIfTerminated(c) ==
  /\ Fiber(c, {"entry", "yield", "park", "suspending", "run"})
  /\ terminatePending[owned[c]]
  /\ ExitFiber(c)

\* HaltCrashedFiberThunk: ForgetThread detaches the fiber for good.
FiberCrash(c) ==
  LET t == owned[c]
  IN /\ Fiber(c, {"run"})
     /\ t \in Crashing
     /\ LockFree
     /\ list' = IF queued[t] \/ blocked[t] \/ suspended[t] THEN Unlinked(ListOf(t), t) ELSE list
     /\ queued' = [queued EXCEPT ![t] = FALSE]
     /\ blocked' = [blocked EXCEPT ![t] = FALSE]
     /\ suspended' = [suspended EXCEPT ![t] = FALSE]
     /\ yielder' = [d \in Cpus |-> IF yielder[d] = t THEN NoThread ELSE yielder[d]]
     /\ exited' = [d \in Cpus |-> IF exited[d] = t THEN NoThread ELSE exited[d]]
     /\ kstate' = [kstate EXCEPT ![t] = "terminated"]
     /\ YieldToScheduler(c, "crashed")
     /\ UNCHANGED <<cpu, queuedPrio, running, preempted, hasRun, terminatePending, reclaimed,
                    callVars, owned, current, repoll, walk, wakeVars>>

\* The slow path of YieldCurrentThread: back into the queue of the CPU it runs
\* on, not of its home, because its context is saved only by the switch.
YieldCurrentThread(c, toOther) ==
  LET t == owned[c]
  IN /\ Fiber(c, {"run", "suspending"})
     /\ LockFree
     /\ ~terminatePending[t]
     /\ EnqueueReady(t, c, c)
     /\ yielder' = IF toOther /\ ~OwnsItsWakeUp(t, c) THEN [yielder EXCEPT ![c] = t] ELSE yielder
     /\ YieldToScheduler(c, "yield")
     /\ UNCHANGED <<blocked, suspended, running, hasRun, terminatePending, kstate, reclaimed,
                    callVars, owned, current, exited, repoll, walk>>

\* The safepoint handler on a raised flag; it gives way to a lower priority
\* only when an IRQL was overridden.
Safepoint(c) ==
  /\ Fiber(c, {"run"})
  /\ preemptRequested[owned[c]]
  /\ \E forcedAtIrql \in BOOLEAN : YieldCurrentThread(c, forcedAtIrql)

\* NtYieldExecution, a spin loop, and the yield of a self-suspend.
VoluntaryYield(c) == YieldCurrentThread(c, TRUE)

\* The fast path: nothing to yield to, so the fiber goes on.
NothingToYieldTo(c) ==
  /\ ~preempted[owned[c]]
  /\ suspendCount[owned[c]] = 0
  /\ ~preemptRequested[owned[c]]
  /\ NoneReady(c)
  /\ ~repoll[c]

SelfSuspend(c) ==
  LET t == owned[c]
  IN /\ Fiber(c, {"run"})
     /\ t \in Suspendable
     /\ suspendCount[t] < MaxSuspend
     /\ suspendCount' = [suspendCount EXCEPT ![t] = @ + 1]
     /\ at' = [at EXCEPT ![t] = "suspending"]
     /\ UNCHANGED <<linkVars, hasRun, terminatePending, kstate, reclaimed, priority, home, resumer,
                    terminator, publisher, cpuVars, wakeVars>>

SelfSuspendReturns(c) ==
  /\ Fiber(c, {"suspending"})
  /\ ~terminatePending[owned[c]]
  /\ NothingToYieldTo(c)
  /\ at' = [at EXCEPT ![owned[c]] = "run"]
  /\ UNCHANGED <<linkVars, hasRun, terminatePending, kstate, reclaimed, callVars, cpuVars, wakeVars>>

\* BlockCurrentThread.  A park on a fence or an offloaded call is not
\* interruptible: it parks, and parks again, even if a terminate is pending.
\* |signalled|: the epoch moved since the caller polled, so this CPU re-polls.
BlockCurrentThread(c, interruptible, signalled) ==
  LET t == owned[c]
  IN /\ Fiber(c, IF interruptible THEN {"run"} ELSE {"run", "fence"})
     /\ LockFree
     /\ IF interruptible THEN t \in Waiting /\ ~terminatePending[t] ELSE t \in Offloading
     /\ blocked' = [blocked EXCEPT ![t] = TRUE]
     /\ preempted' = [preempted EXCEPT ![t] = FALSE]
     /\ cpu' = [cpu EXCEPT ![t] = c]
     /\ list' = [list EXCEPT ![BlockedId(c)] = Append(@, t)]
     /\ kstate' = [kstate EXCEPT ![t] = "waiting"]
     /\ repoll' = [repoll EXCEPT ![c] = @ \/ signalled]
     /\ YieldToScheduler(c, IF interruptible THEN "park" ELSE "fence")
     /\ UNCHANGED <<queuedPrio, queued, suspended, running, hasRun, terminatePending, reclaimed,
                    callVars, owned, current, yielder, exited, walk, wakeVars>>

\* The fence is signalled or the offloaded call done.
FenceReached(c) ==
  /\ Fiber(c, {"fence"})
  /\ at' = [at EXCEPT ![owned[c]] = "run"]
  /\ UNCHANGED <<linkVars, hasRun, terminatePending, kstate, reclaimed, callVars, cpuVars, wakeVars>>

-----------------------------------------------------------------------------
(***************************************************************************)
(* The scheduler under callers that keep a rule nothing in the code        *)
(* enforces: a thread is not resumed while it is being terminated or while *)
(* it exits.  Without it, a Resume whose MarkReady read thread_state       *)
(* before a Terminate queues the thread the Terminate freed.  A thread     *)
(* that resumes itself after another suspended it is left out.             *)
(***************************************************************************)
RunLoop(c) ==
  \/ \E all \in BOOLEAN : RereadyBlocked(c, all)
  \/ NothingToPoll(c)
  \/ KeepParked(c)
  \/ Reready(c)
  \/ WalkDone(c)
  \/ \E t \in Threads : DequeueReady(c, t)
  \/ Migrate(c)
  \/ ReadSuspendCount(c)
  \/ ParkSuspended(c)
  \/ SwitchTo(c)
  \/ SwitchBack(c)
  \/ Park(c)
  \/ Recheck(c)
  \/ WakeUp(c)

GuestCode(c) ==
  \/ FiberReturns(c)
  \/ Safepoint(c)
  \/ VoluntaryYield(c)
  \/ SelfSuspend(c)
  \/ SelfSuspendReturns(c)
  \/ \E interruptible, signalled \in BOOLEAN : BlockCurrentThread(c, interruptible, signalled)
  \/ FenceReached(c)

FiberEnds(c) == Exit(c) \/ ExitIfTerminated(c) \/ FiberCrash(c)

OtherCalls ==
  \/ \E t \in Suspendable : Suspend(t)
  \/ \E t \in Movable, c \in Cpus : SetActiveCpu(t, c)
  \/ \E t \in Reprioritised, p \in Prios : PublishPriority(t, p)
  \/ \E t \in Threads : \/ Create(t)
                        \/ ResumeThread(t)
                        \/ MarkReady(t)
                        \/ MarkReadyEnqueue(t)
                        \/ TerminateThread(t)
                        \/ RequeueForPriority(t)
  \/ \E watchers \in (SUBSET {t \in Threads : blocked[t]}) \ {{}} : WakeForSignal(watchers)
  \/ \E c \in Cpus : Watchdog(c)

Next ==
  \/ \E c \in Cpus : RunLoop(c)
  \/ \E c \in Cpus : GuestCode(c)
  \/ \E c \in Cpus : pc[c] = "fiber" /\ resumer[owned[c]] = "idle" /\ FiberEnds(c)
  \/ \E t \in Suspendable : terminator[t] = "idle" /\ Resume(t)
  \/ \E t \in Killable : resumer[t] = "idle" /\ Terminate(t)
  \/ OtherCalls

Spec == Init /\ [][Next]_vars

-----------------------------------------------------------------------------
(* Safety.                                                                 *)

Listed(t) == queued[t] \/ blocked[t] \/ suspended[t]

\* A thread is in at most one of the intrusive lists, once, and its links name
\* it: the lists share ready_next, so a second membership corrupts both.
OneList ==
  /\ \A t \in Threads : /\ ~(queued[t] /\ blocked[t])
                        /\ ~(queued[t] /\ suspended[t])
                        /\ ~(blocked[t] /\ suspended[t])
  /\ \A l \in ListIds :
       /\ \A i \in DOMAIN list[l] : Listed(list[l][i]) /\ l = ListOf(list[l][i])
       /\ \A i, j \in DOMAIN list[l] : list[l][i] = list[l][j] => i = j
  /\ \A t \in Threads : Listed(t) => \E i \in DOMAIN list[ListOf(t)] : list[ListOf(t)][i] = t

\* A fiber is on one dispatch thread at a time, the one its links name, and it
\* is linked while it runs only from its last park or yield to its switch out.
OneOwner ==
  /\ \A c, d \in Cpus : owned[c] = owned[d] /\ owned[c] # NoThread => c = d
  /\ \A t \in Threads : running[t] <=> \E c \in Cpus : owned[c] = t
  /\ \A c \in Cpus : owned[c] # NoThread => cpu[owned[c]] = c
  /\ \A c \in Cpus : owned[c] # NoThread /\ Listed(owned[c]) => pc[c] = "back"

\* No CPU and no list refers to a thread whose last reference was released.
NoZombie ==
  \A t \in Threads : reclaimed[t] =>
    /\ ~Listed(t)
    /\ \A c \in Cpus : t \notin {owned[c], current[c], yielder[c], exited[c]}

\* A live thread always has someone to make it run: a list, the CPU it is on, a
\* Resume on its way, or the Resume its suspend count waits for.
NoStrand ==
  \A t \in Threads :
    /\ at[t] \notin {"dead", "crashed"} =>
         \/ reclaimed[t] \/ Listed(t) \/ running[t]
         \/ resumer[t] # "idle"
         \/ suspendCount[t] > 0 /\ ~hasRun[t] /\ ~terminatePending[t]
    /\ at[t] = "dead" => reclaimed[t] \/ \E c \in Cpus : exited[c] = t /\ owned[c] = t
    /\ suspended[t] => suspendCount[t] > 0 \/ resumer[t] = "unlink"
    /\ ~(suspended[t] /\ terminatePending[t])

\* A dispatch thread does not sleep on ready threads or on a requested re-poll.
NoSleepOnWork ==
  \A c \in Cpus :
    pc[c] = "sleep" /\ (repoll[c] \/ \E t \in Threads : queued[t] /\ cpu[t] = c) => event[c]

\* yield_to_other points at a thread that is in the queue it is compared with.
YielderIsQueued ==
  \A c \in Cpus : yielder[c] # NoThread => queued[yielder[c]] /\ cpu[yielder[c]] = c

\* A fiber that runs on |c| while a thread of a higher priority is queued there.
Outranked(c, t) ==
  /\ pc[c] = "fiber"
  /\ queued[t]
  /\ cpu[t] = c
  /\ queuedPrio[t] > priority[owned[c]]

-----------------------------------------------------------------------------
(* The promise to the rest of the kernel.                                  *)

Place(t) ==
  CASE reclaimed[t] -> "gone"
    [] ~reclaimed[t] /\ running[t] -> "cpu"
    [] ~reclaimed[t] /\ ~running[t] /\ queued[t] -> "ready"
    [] ~reclaimed[t] /\ ~running[t] /\ ~queued[t] /\ blocked[t] -> "blocked"
    [] ~reclaimed[t] /\ ~running[t] /\ ~queued[t] /\ ~blocked[t] /\ suspended[t] -> "suspended"
    [] OTHER -> "off"

Contract == INSTANCE DispatchContract WITH place <- [t \in Threads |-> Place(t)], on <- owned

\* A thread reaches a CPU through a ready queue, is on one CPU at a time, and
\* never comes back once its last reference was released.
KeepsContract == Contract!Spec

-----------------------------------------------------------------------------
(***************************************************************************)
(* Liveness.  What runs in bounded time: the dispatch loops, the backstop  *)
(* pass of each CPU, the calls once begun, the watchdog, guest code up to  *)
(* its next safepoint once its flag is up, and the host work a fence       *)
(* stands for.  Nothing obliges guest code to yield, to park or to end.    *)
(* Strong fairness is for steps that others' turns at lock_, or on the     *)
(* CPU, disable again and again.                                           *)
(***************************************************************************)
SuspendYields(c) ==
  /\ Fiber(c, {"suspending"})
  /\ VoluntaryYield(c) \/ SelfSuspendReturns(c)

\* A fiber to be ended reaches the check: its code runs into it, or its flag
\* sends it to a safepoint.
ReachesExit(c) ==
  /\ pc[c] = "fiber"
  /\ at[owned[c]] # "run" \/ preemptRequested[owned[c]]
  /\ ExitIfTerminated(c)

Fairness ==
  /\ \A c \in Cpus : /\ WF_vars(RunLoop(c))
                     /\ SF_vars(RereadyBlocked(c, TRUE))
                     /\ WF_vars(Watchdog(c))
                     /\ WF_vars(Safepoint(c))
                     /\ WF_vars(FiberReturns(c))
                     /\ WF_vars(ReachesExit(c))
                     /\ WF_vars(SuspendYields(c))
  /\ \A t \in Threads :
       SF_vars(Create(t) \/ ResumeThread(t) \/ MarkReady(t) \/ MarkReadyEnqueue(t))
  /\ \A t \in Killable : SF_vars(TerminateThread(t))
  /\ \A t \in Reprioritised : SF_vars(RequeueForPriority(t))
  /\ \A t \in Offloading : SF_vars(\E c \in Cpus : owned[c] = t /\ FenceReached(c))

FairSpec == Spec /\ Fairness

\* A thread another thread terminated is reclaimed, wherever it was parked, if it is
\* not one that offloads: each dispatch clears its flag, and a thread that goes from
\* one offloaded call to the next within its slice is never stopped (WaitOnFence).
TerminatedEnds ==
  \A t \in Threads : terminatePending[t] ~> (reclaimed[t] \/ at[t] = "crashed")

\* A thread whose suspend count a Resume brought to 0 runs, unless it is
\* suspended again or over.
ResumedRuns ==
  \A t \in Threads :
    resumer[t] = "unlink" ~>
      \/ \E c \in Cpus : Fiber(c, Places) /\ owned[c] = t
      \/ suspendCount[t] > 0
      \/ reclaimed[t] \/ at[t] \in {"dead", "crashed"}

\* If running fibers yield again and again, as one that spins on a lock does,
\* every queued thread is picked, whatever its priority: the holder of the lock
\* may be of a lower one.  It holds of one spinner; two of one priority hand the CPU
\* to each other (DequeueReady, yield_to_other).
SpinnersGiveWay ==
  (\A c \in Cpus : SF_vars(VoluntaryYield(c)))
    => \A t \in Threads : queued[t] ~> ~queued[t]

\* A fiber does not keep its CPU from a higher priority.
Preempts == \A c \in Cpus, t \in Threads : Outranked(c, t) ~> ~Outranked(c, t)
=============================================================================
