-------------------------- MODULE CooperativeWait --------------------------
(***************************************************************************)
(* One kernel object and the fibers that wait for it cooperatively: Wait,  *)
(* WaitMultiple and the waiter FIFO of kernel/xobject.cc, the semaphores,  *)
(* events and mutants of xsemaphore.cc, xevent.cc and xmutant.cc, and what *)
(* a Terminate does to a waiter or an owner.                               *)
(*                                                                         *)
(* The fibers run on different CPUs, one access of shared state per step;  *)
(* an owner, its recursion count and its list entry change in one.         *)
(* GuestScheduler.tla and ParkWake.tla say how a parked fiber gets its CPU *)
(* back; here it is re-polled once the signal epoch moved since its last   *)
(* sample, or by the backstop.  Waits are of any deadline and not          *)
(* alertable.  SignalAndWait is a signal followed by a Wait.               *)
(*                                                                         *)
(* Epochs only ever matter by comparison with a sample, so instead of the  *)
(* counters there is a flag per thread that says whether they moved.       *)
(***************************************************************************)
EXTENDS Integers, SequencesExt

CONSTANTS
  Threads,   \* guest threads
  Waiters,   \* those that wait; the others only signal
  Killable,  \* those another thread terminates
  Kinds,     \* the types of object considered
  Limit,     \* maximum count of the semaphore
  MaxHold,   \* bound on recursive acquisitions of the mutant
  NoThread   \* null XThread*

ASSUME CooperativeWaitAssumption ==
  /\ Waiters \subseteq Threads
  /\ Killable \subseteq Threads
  /\ Kinds \subseteq {"semaphore", "event", "manual", "mutant"}
  /\ Limit \in Nat \ {0}
  /\ MaxHold \in Nat \ {0}
  /\ NoThread \notin Threads

VARIABLES
  kind,        \* type of the object: "event" is auto-reset, "manual" manual-reset
  permits,     \* count of the host primitive
  fifo,        \* CooperativeWaiterFifo::waiters_
  owner,       \* XMutant::owning_thread_
  recursion,   \* XMutant::recursion_count_
  chained,     \* the thread whose mutants_list the mutant is in
  at,          \* step of each thread
  multi,       \* its wait is a WaitMultiple
  again,       \* its wait is for a mutant it owned when it began
  registered,  \* XThread::cooperative_wait_object_ is the object
  moved,       \* the signal epoch moved since the thread sampled it
  pulsed,      \* the pulse epoch moved since its wait began
  holds,       \* acquisitions of the mutant the thread was granted
  pending,     \* SchedulerLinks::terminate_pending
  terminator   \* progress of an XThread::Terminate of the thread

objectVars == <<kind, permits, owner, recursion, chained>>
waitVars   == <<multi, again, registered>>
epochVars  == <<moved, pulsed>>
killVars   == <<pending, terminator>>
vars == <<objectVars, fifo, at, waitVars, epochVars, holds, killVars>>

MaxPermits == IF kind = "semaphore" THEN Limit ELSE 1

Steps == {"idle", "entered", "sample", "poll", "acquire", "callback", "failed", "parked",
          "leave", "remove", "set", "pulse", "clear", "signal", "bump", "dead"}

TypeOK ==
  /\ kind \in Kinds
  /\ permits \in 0..MaxPermits
  /\ fifo \in Seq(Threads)
  /\ owner \in Threads \cup {NoThread}
  /\ recursion \in 0..MaxHold
  /\ chained \in Threads \cup {NoThread}
  /\ at \in [Threads -> Steps]
  /\ multi \in [Threads -> BOOLEAN]
  /\ again \in [Threads -> BOOLEAN]
  /\ registered \in [Threads -> BOOLEAN]
  /\ moved \in [Threads -> BOOLEAN]
  /\ pulsed \in [Threads -> BOOLEAN]
  /\ holds \in [Threads -> 0..MaxHold]
  /\ pending \in [Threads -> BOOLEAN]
  /\ terminator \in [Threads -> {"none", "abandon", "unregister", "mark", "done"}]

\* A semaphore of any initial count, an event in either state, a free mutant.
Init ==
  /\ kind \in Kinds
  /\ permits \in IF kind = "mutant" THEN {1} ELSE 0..MaxPermits
  /\ fifo = <<>>
  /\ owner = NoThread
  /\ recursion = 0
  /\ chained = NoThread
  /\ at = [t \in Threads |-> "idle"]
  /\ multi = [t \in Threads |-> FALSE]
  /\ again = [t \in Threads |-> FALSE]
  /\ registered = [t \in Threads |-> FALSE]
  /\ moved = [t \in Threads |-> FALSE]
  /\ pulsed = [t \in Threads |-> FALSE]
  /\ holds = [t \in Threads |-> 0]
  /\ pending = [t \in Threads |-> FALSE]
  /\ terminator = [t \in Threads |-> "none"]

Goto(t, step) == at' = [at EXCEPT ![t] = step]

AllMoved == [t \in Threads |-> TRUE]

\* CooperativeWaitEnd wakes the next waiter of a semaphore or a mutant; an
\* event's does not.
Pokes == {"semaphore", "mutant"}

-----------------------------------------------------------------------------
(* A wait.                                                                 *)

\* XObject::Wait joins the FIFO.  A mutant the thread owns is satisfied by a
\* stand-in, which is chosen here.
Wait(t) ==
  /\ at[t] = "idle"
  /\ t \in Waiters
  /\ holds[t] < MaxHold
  /\ fifo' = IF Contains(fifo, t) THEN fifo ELSE Append(fifo, t)
  /\ multi' = [multi EXCEPT ![t] = FALSE]
  /\ again' = [again EXCEPT ![t] = owner = t]
  /\ pulsed' = [pulsed EXCEPT ![t] = FALSE]
  /\ Goto(t, "entered")
  /\ UNCHANGED <<objectVars, registered, moved, holds, killVars>>

EnterCooperativeWait(t) ==
  /\ at[t] = "entered"
  /\ registered' = [registered EXCEPT ![t] = TRUE]
  /\ Goto(t, "sample")
  /\ UNCHANGED <<objectVars, fifo, multi, again, epochVars, holds, killVars>>

\* WaitMultiple for any of a set with the object in it: no place in the FIFO.
WaitMultiple(t) ==
  /\ at[t] = "idle"
  /\ t \in Waiters
  /\ holds[t] < MaxHold
  /\ multi' = [multi EXCEPT ![t] = TRUE]
  /\ pulsed' = [pulsed EXCEPT ![t] = FALSE]
  /\ Goto(t, "sample")
  /\ UNCHANGED <<objectVars, fifo, again, registered, moved, holds, killVars>>

\* CooperativeWait samples the epoch before it polls.
Sample(t) ==
  /\ at[t] = "sample"
  /\ moved' = [moved EXCEPT ![t] = FALSE]
  /\ Goto(t, "poll")
  /\ UNCHANGED <<objectVars, fifo, waitVars, pulsed, holds, killVars>>

\* Mutant: whoever polls first may acquire.
MayAcquireUnordered(t) == TRUE

\* CooperativeMayAcquire: the first in line, anybody on a manual-reset event, and
\* the owner of the mutant.  A WaitMultiple does not ask.
MayAcquire(t) ==
  \/ multi[t]
  \/ kind = "manual"
  \/ kind = "mutant" /\ owner = t
  \/ fifo = <<>>
  \/ Head(fifo) = t

\* A pulse since the wait began ends it; otherwise the line decides.
Poll(t) ==
  /\ at[t] = "poll"
  /\ Goto(t, IF pulsed[t] THEN "callback"
             ELSE IF MayAcquire(t) THEN "acquire" ELSE "failed")
  /\ again' = [again EXCEPT ![t] = IF multi[t] THEN owner = t ELSE @]
  /\ UNCHANGED <<objectVars, fifo, multi, registered, epochVars, holds, killVars>>

\* The zero-timeout wait on the host primitive.
Acquire(t) ==
  /\ at[t] = "acquire"
  /\ IF again[t] \/ permits = 0
     THEN UNCHANGED permits
     ELSE permits' = IF kind = "manual" THEN permits ELSE permits - 1
  /\ Goto(t, IF again[t] \/ permits > 0 THEN "callback" ELSE "failed")
  /\ UNCHANGED <<kind, owner, recursion, chained, fifo, waitVars, epochVars, holds, killVars>>

\* WaitCallback: the mutant changes hands or is held once more.
WaitCallback(t) ==
  /\ at[t] = "callback"
  /\ IF kind = "mutant"
     THEN /\ owner' = t
          /\ recursion' = IF owner = t THEN recursion + 1 ELSE 1
          /\ chained' = IF owner = t THEN chained ELSE t
          /\ holds' = [holds EXCEPT ![t] = @ + 1]
     ELSE UNCHANGED <<owner, recursion, chained, holds>>
  /\ Goto(t, IF multi[t] THEN "idle" ELSE "leave")
  /\ UNCHANGED <<kind, permits, fifo, waitVars, epochVars, killVars>>

\* The deadline of the wait has passed.
TimeOut(t) ==
  /\ at[t] = "failed"
  /\ Goto(t, IF multi[t] THEN "idle" ELSE "leave")
  /\ UNCHANGED <<objectVars, fifo, waitVars, epochVars, holds, killVars>>

BlockCurrentThread(t) ==
  /\ at[t] = "failed"
  /\ ~pending[t]
  /\ Goto(t, "parked")
  /\ UNCHANGED <<objectVars, fifo, waitVars, epochVars, holds, killVars>>

\* RereadyBlocked: because the epoch moved, or by the backstop.
Reready(t) ==
  /\ at[t] = "parked"
  /\ ~pending[t]
  /\ Goto(t, "sample")
  /\ UNCHANGED <<objectVars, fifo, waitVars, epochVars, holds, killVars>>

LeaveCooperativeWait(t) ==
  /\ at[t] = "leave"
  /\ registered' = [registered EXCEPT ![t] = FALSE]
  /\ Goto(t, "remove")
  /\ UNCHANGED <<objectVars, fifo, multi, again, epochVars, holds, killVars>>

\* Mutant: a waiter leaves without a word to the next one.
RemoveWaiterQuietly(t) ==
  /\ at[t] = "remove"
  /\ fifo' = RemoveFirst(fifo, t)
  /\ Goto(t, "idle")
  /\ UNCHANGED <<objectVars, waitVars, epochVars, holds, killVars>>

\* CooperativeWaitEnd: out of the FIFO, and on to wake the new front.
RemoveWaiter(t) ==
  /\ at[t] = "remove"
  /\ fifo' = RemoveFirst(fifo, t)
  /\ Goto(t, IF kind \in Pokes /\ fifo' # <<>> THEN "bump" ELSE "idle")
  /\ UNCHANGED <<objectVars, waitVars, epochVars, holds, killVars>>

-----------------------------------------------------------------------------
(* Signals.                                                                *)

\* WakeCooperativeWaiters, after the host primitive was signalled.
Bump(t) ==
  /\ at[t] = "bump"
  /\ moved' = AllMoved
  /\ Goto(t, "idle")
  /\ UNCHANGED <<objectVars, fifo, waitVars, pulsed, holds, killVars>>

\* Mutant: the maximum count is not looked at.
ReleaseSemaphoreUnbounded(t) ==
  /\ at[t] = "idle"
  /\ kind = "semaphore"
  /\ permits' = permits + 1
  /\ Goto(t, "bump")
  /\ UNCHANGED <<kind, owner, recursion, chained, fifo, waitVars, epochVars, holds, killVars>>

ReleaseSemaphore(t) ==
  /\ at[t] = "idle"
  /\ kind = "semaphore"
  /\ permits < Limit
  /\ permits' = permits + 1
  /\ Goto(t, "bump")
  /\ UNCHANGED <<kind, owner, recursion, chained, fifo, waitVars, epochVars, holds, killVars>>

\* XEvent::Set, called by the guest or by a Pulse that turned into a Set.
SetEvent(t) ==
  /\ at[t] = "set" \/ (at[t] = "idle" /\ kind \in {"event", "manual"})
  /\ permits' = 1
  /\ Goto(t, "bump")
  /\ UNCHANGED <<kind, owner, recursion, chained, fifo, waitVars, epochVars, holds, killVars>>

ResetEvent(t) ==
  /\ at[t] = "idle"
  /\ kind \in {"event", "manual"}
  /\ permits' = 0
  /\ UNCHANGED <<kind, owner, recursion, chained, fifo, at, waitVars, epochVars, holds, killVars>>

\* XEvent::Pulse is a Set on an auto-reset event with somebody in line.  On a
\* manual-reset event it moves the pulse epoch first.
PulseEvent(t) ==
  /\ at[t] = "idle"
  /\ kind \in {"event", "manual"}
  /\ Goto(t, IF kind = "event" /\ fifo # <<>> THEN "set" ELSE "pulse")
  /\ pulsed' = [u \in Threads |-> pulsed[u] \/ kind = "manual"]
  /\ UNCHANGED <<objectVars, fifo, waitVars, moved, holds, killVars>>

\* The pulse of the host primitive leaves it reset.
PulseHost(t) ==
  /\ at[t] = "pulse"
  /\ permits' = 0
  /\ Goto(t, "bump")
  /\ UNCHANGED <<kind, owner, recursion, chained, fifo, waitVars, epochVars, holds, killVars>>

\* Mutant: an inner release of a recursive hold frees the mutant.
ReleaseMutantAtOnce(t) ==
  /\ at[t] = "idle"
  /\ kind = "mutant"
  /\ owner = t
  /\ recursion' = recursion - 1
  /\ holds' = [holds EXCEPT ![t] = @ - 1]
  /\ Goto(t, "clear")
  /\ UNCHANGED <<kind, permits, owner, chained, fifo, waitVars, epochVars, killVars>>

\* XMutant::ReleaseMutant tests the owner and counts down.
ReleaseMutant(t) ==
  /\ at[t] = "idle"
  /\ kind = "mutant"
  /\ owner = t
  /\ recursion' = recursion - 1
  /\ holds' = [holds EXCEPT ![t] = @ - 1]
  /\ Goto(t, IF recursion = 1 THEN "clear" ELSE "idle")
  /\ UNCHANGED <<kind, permits, owner, chained, fifo, waitVars, epochVars, killVars>>

\* The last release clears the ownership, then frees the mutant.
ClearOwner(t) ==
  /\ at[t] = "clear"
  /\ owner' = NoThread
  /\ chained' = NoThread
  /\ Goto(t, "signal")
  /\ UNCHANGED <<kind, permits, recursion, fifo, waitVars, epochVars, holds, killVars>>

FreeMutant(t) ==
  /\ at[t] = "signal"
  /\ permits' = 1
  /\ Goto(t, "bump")
  /\ UNCHANGED <<kind, owner, recursion, chained, fifo, waitVars, epochVars, holds, killVars>>

-----------------------------------------------------------------------------
(* XThread::Terminate of |t| by another thread, and the end of |t|.        *)

\* AbandonCooperativeWait: a registration still held is given up, and the next
\* waiter woken.
Unregister(t) ==
  IF registered[t]
  THEN /\ fifo' = RemoveFirst(fifo, t)
       /\ moved' = IF kind \in Pokes /\ fifo' # <<>> THEN AllMoved ELSE moved
       /\ registered' = [registered EXCEPT ![t] = FALSE]
  ELSE UNCHANGED <<fifo, moved, registered>>

Terminate(t) ==
  /\ at[t] # "dead"
  /\ terminator[t] = "none"
  /\ terminator' = [terminator EXCEPT ![t] = "abandon"]
  /\ UNCHANGED <<objectVars, fifo, at, waitVars, epochVars, holds, pending>>

\* |t| owns the mutant and is between the steps of a call on it.
InMutantCall(t) == kind = "mutant" /\ owner = t /\ at[t] # "idle"

\* AbandonAllOwnedByThread: only a mutant with an owner is freed.  The code does
\* not keep it out of a call |t| is in the middle of; the model assumes that the
\* caller does.
AbandonAllOwned(t) ==
  /\ terminator[t] = "abandon"
  /\ ~InMutantCall(t)
  /\ terminator' = [terminator EXCEPT ![t] = "unregister"]
  /\ chained' = IF chained = t THEN NoThread ELSE chained
  /\ IF chained = t /\ owner # NoThread
     THEN /\ owner' = NoThread
          /\ recursion' = 0
          /\ permits' = 1
          /\ moved' = AllMoved
     ELSE UNCHANGED <<owner, recursion, permits, moved>>
  /\ UNCHANGED <<kind, fifo, at, waitVars, pulsed, holds, pending>>

AbandonCooperativeWait(t) ==
  /\ terminator[t] = "unregister"
  /\ terminator' = [terminator EXCEPT ![t] = "mark"]
  /\ Unregister(t)
  /\ UNCHANGED <<objectVars, at, multi, again, pulsed, holds, pending>>

TerminateThread(t) ==
  /\ terminator[t] = "mark"
  /\ terminator' = [terminator EXCEPT ![t] = "done"]
  /\ pending' = [pending EXCEPT ![t] = TRUE]
  /\ UNCHANGED <<objectVars, fifo, at, waitVars, epochVars, holds>>

\* Mutant: the fiber ends without giving up a registration newer than the one
\* Terminate saw.
ExitRegistered(t) ==
  /\ pending[t]
  /\ at[t] \in {"idle", "failed", "parked"}
  /\ Goto(t, "dead")
  /\ UNCHANGED <<objectVars, fifo, waitVars, epochVars, holds, killVars>>

\* At a safepoint, before it parks or when it is dispatched again.
ExitIfTerminated(t) ==
  /\ pending[t]
  /\ at[t] \in {"idle", "failed", "parked"}
  /\ Unregister(t)
  /\ Goto(t, "dead")
  /\ UNCHANGED <<objectVars, multi, again, pulsed, holds, killVars>>

-----------------------------------------------------------------------------
\* The steps of a wait or a signal once begun.
Continue(t) ==
  \/ EnterCooperativeWait(t) \/ Sample(t) \/ Poll(t) \/ Acquire(t) \/ WaitCallback(t)
  \/ TimeOut(t) \/ BlockCurrentThread(t) \/ Reready(t)
  \/ LeaveCooperativeWait(t) \/ RemoveWaiter(t) \/ Bump(t)
  \/ (at[t] = "set" /\ SetEvent(t)) \/ PulseHost(t) \/ ClearOwner(t) \/ FreeMutant(t)

Begin(t) ==
  \/ Wait(t) \/ WaitMultiple(t)
  \/ ReleaseSemaphore(t) \/ SetEvent(t) \/ ResetEvent(t) \/ PulseEvent(t) \/ ReleaseMutant(t)

Kill(t) == AbandonAllOwned(t) \/ AbandonCooperativeWait(t) \/ TerminateThread(t)

Next ==
  \/ \E t \in Threads : Begin(t) \/ Continue(t) \/ Kill(t) \/ ExitIfTerminated(t)
  \/ \E t \in Killable : Terminate(t)

\* What was begun goes on.  No wait and no signal has to begin.
Fairness == \A t \in Threads : WF_vars(Continue(t)) /\ WF_vars(pending[t] /\ ExitIfTerminated(t))

Spec == Init /\ [][Next]_vars
FairSpec == Spec /\ Fairness

-----------------------------------------------------------------------------
(* Properties.                                                             *)

\* Somebody is between a change of the object and its WakeCooperativeWaiters.
WakeOnItsWay == \E t \in Threads : at[t] \in {"bump", "pulse", "signal"}

\* A parked fiber whose poll would succeed is about to be re-polled, not left to
\* the backstop: the first in line while there is a permit, everybody in line
\* while a manual-reset event is set, and everybody a pulse released.  The front of
\* the line of an auto-reset event is not asked: XEvent::CooperativeWaitEnd wakes
\* nobody, and who follows a front that left waits for the backstop.
WakeAnnounced ==
  \A t \in Threads :
    /\ at[t] = "parked"
    /\ terminator[t] = "none"
    /\ \/ pulsed[t]
       \/ kind # "event" /\ permits > 0 /\ MayAcquire(t)
    => moved[t] \/ WakeOnItsWay

\* A mutant is held by one thread at a time, its owner, as often as it was
\* granted.  Threads that are being terminated are not asked.
Exclusive ==
  \A t \in Threads :
    terminator[t] = "none" /\ holds[t] > 0 => owner = t /\ recursion = holds[t]

\* A thread that ended is not in line, where it would keep everybody waiting.
NoGhostWaiter == \A t \in Threads : at[t] = "dead" => ~Contains(fifo, t)

MultiWaiting == \E t \in Threads : multi[t] /\ at[t] # "idle"

\* While permits of a semaphore or a mutant keep coming, everybody in line is
\* served, however often other threads come back for more.  A WaitMultiple passes
\* the line by and may take every permit, so the promise is for an object that is
\* not in one for ever.
NoStarvation ==
  (kind \in Pokes /\ []<>(permits > 0) /\ <>[]~MultiWaiting)
    => \A t \in Threads : Contains(fifo, t) ~> ~Contains(fifo, t)
=============================================================================
