------------------------------ MODULE ParkWake ------------------------------
(***************************************************************************)
(* The handshake between a fiber that parks in a cooperative wait and a    *)
(* thread that signals the object: CooperativeWait and                     *)
(* WakeCooperativeWaiters of kernel/xobject.cc, BlockCurrentThread,        *)
(* WakeForSignal and RunLoop of kernel/guest_scheduler.cc, one shared      *)
(* access per step.                                                        *)
(*                                                                         *)
(* GuestScheduler.tla takes the locked sections as atomic and the poke of  *)
(* a parked CPU as part of them.  Here the lock is held across two         *)
(* accesses where it matters, and the lock-free accesses (the signal       *)
(* epoch, has_blocked, repoll_now, parked, ready_event) interleave.        *)
(* Accesses are sequentially consistent: the code uses seq_cst for         *)
(* has_blocked, parked and the epoch, and lock_ orders the rest.           *)
(*                                                                         *)
(* Each CPU runs one fiber, which waits for a permit of one semaphore over *)
(* and over with no deadline and without APCs.                             *)
(***************************************************************************)
EXTENDS Integers

CONSTANTS
  NumCpus,     \* dispatch threads that host a waiter of the object (kMaxCpus is 6)
  Signallers,  \* threads that release permits
  MaxSignals   \* bound on the permits released

ASSUME ParkWakeAssumption == NumCpus \in Nat \ {0} /\ MaxSignals \in Nat

Cpus == 1..NumCpus

VARIABLES
  permits,    \* what the host primitive would grant
  epoch,      \* cooperative_signal_epoch_ of the object (a uint32_t in the code)
  signals,    \* permits released so far
  bystander,  \* a waiter of another object is blocked on one more CPU, for good
  fiber,      \* step of each waiting fiber
  sampled,    \* the epoch it sampled before its last poll, links.wait_epoch
  blocked,    \* it is on its CPU's blocked list
  ready,      \* it is on its CPU's ready list
  hasBlocked, \* Cpu::has_blocked
  repoll,     \* Cpu::repoll_now
  parked,     \* Cpu::parked
  event,      \* Cpu::ready_event, auto-reset
  loop,       \* step of RunLoop
  force,      \* the pass of RunLoop is due by the backstop timer
  sig,        \* step of each signaller
  scanned,    \* the CPU its lock-free scan of has_blocked has come to
  wake        \* the CPUs it has still to poke

objectVars == <<permits, epoch, signals, bystander>>
fiberVars  == <<fiber, sampled>>
listVars   == <<blocked, ready, hasBlocked>>
cpuVars    == <<repoll, parked, event, loop, force>>
sigVars    == <<sig, scanned, wake>>
vars == <<objectVars, fiberVars, listVars, cpuVars, sigVars>>

TypeOK ==
  /\ permits \in 0..MaxSignals
  /\ epoch \in 0..MaxSignals
  /\ signals \in 0..MaxSignals
  /\ bystander \in BOOLEAN
  /\ fiber \in [Cpus -> {"sample", "poll", "check", "store", "parked"}]
  /\ sampled \in [Cpus -> 0..MaxSignals]
  /\ blocked \in [Cpus -> BOOLEAN]
  /\ ready \in [Cpus -> BOOLEAN]
  /\ hasBlocked \in [Cpus -> BOOLEAN]
  /\ repoll \in [Cpus -> BOOLEAN]
  /\ parked \in [Cpus -> BOOLEAN]
  /\ event \in [Cpus -> BOOLEAN]
  /\ loop \in [Cpus -> {"fiber", "exchange", "pass", "pick", "recheck", "sleep", "woken"}]
  /\ force \in [Cpus -> BOOLEAN]
  /\ sig \in [Signallers -> {"idle", "bump", "scan", "mark", "poke"}]
  /\ scanned \in [Signallers -> Cpus]
  /\ wake \in [Signallers -> SUBSET Cpus]

Init ==
  /\ permits = 0
  /\ epoch = 0
  /\ signals = 0
  /\ bystander \in BOOLEAN
  /\ fiber = [c \in Cpus |-> "sample"]
  /\ sampled = [c \in Cpus |-> 0]
  /\ blocked = [c \in Cpus |-> FALSE]
  /\ ready = [c \in Cpus |-> FALSE]
  /\ hasBlocked = [c \in Cpus |-> FALSE]
  /\ repoll = [c \in Cpus |-> FALSE]
  /\ parked = [c \in Cpus |-> FALSE]
  /\ event = [c \in Cpus |-> FALSE]
  /\ loop = [c \in Cpus |-> "fiber"]
  /\ force = [c \in Cpus |-> FALSE]
  /\ sig = [s \in Signallers |-> "idle"]
  /\ scanned = [s \in Signallers |-> 1]
  /\ wake = [s \in Signallers |-> {}]

\* lock_ is held across steps between the epoch check and the store of a park.
LockFree == \A c \in Cpus : fiber[c] # "store"

-----------------------------------------------------------------------------
(* The waiting fiber of |c|: CooperativeWait and BlockCurrentThread.       *)

FiberGoto(c, step) == fiber' = [fiber EXCEPT ![c] = step]

Sample(c) ==
  /\ loop[c] = "fiber"
  /\ fiber[c] = "sample"
  /\ sampled' = [sampled EXCEPT ![c] = epoch]
  /\ FiberGoto(c, "poll")
  /\ UNCHANGED <<objectVars, listVars, cpuVars, sigVars>>

\* Mutant: the poll does not look at the object.
PollSucceedsAlways(c) ==
  /\ fiber[c] = "poll"
  /\ permits' = permits - 1
  /\ FiberGoto(c, "sample")
  /\ UNCHANGED <<epoch, signals, bystander, sampled, listVars, cpuVars, sigVars>>

\* A permit ends the wait, and the fiber begins the next one.
PollSucceeds(c) ==
  /\ fiber[c] = "poll"
  /\ permits > 0
  /\ permits' = permits - 1
  /\ FiberGoto(c, "sample")
  /\ UNCHANGED <<epoch, signals, bystander, sampled, listVars, cpuVars, sigVars>>

PollFails(c) ==
  /\ fiber[c] = "poll"
  /\ permits = 0
  /\ FiberGoto(c, "check")
  /\ UNCHANGED <<objectVars, sampled, listVars, cpuVars, sigVars>>

\* Mutant: the fiber parks without comparing the epochs.
CheckNothing(c) ==
  /\ fiber[c] = "check"
  /\ LockFree
  /\ FiberGoto(c, "store")
  /\ UNCHANGED <<objectVars, sampled, listVars, cpuVars, sigVars>>

\* Under lock_: a moved epoch makes this CPU re-poll.
CheckEpoch(c) ==
  /\ fiber[c] = "check"
  /\ LockFree
  /\ repoll' = [repoll EXCEPT ![c] = @ \/ epoch # sampled[c]]
  /\ FiberGoto(c, "store")
  /\ UNCHANGED <<objectVars, sampled, listVars, parked, event, loop, force, sigVars>>

\* Still under lock_: on to the blocked list, has_blocked last, and off the CPU.
StoreHasBlocked(c) ==
  /\ fiber[c] = "store"
  /\ blocked' = [blocked EXCEPT ![c] = TRUE]
  /\ hasBlocked' = [hasBlocked EXCEPT ![c] = TRUE]
  /\ FiberGoto(c, "parked")
  /\ loop' = [loop EXCEPT ![c] = "exchange"]
  /\ UNCHANGED <<objectVars, sampled, ready, repoll, parked, event, force, sigVars>>

-----------------------------------------------------------------------------
(* RunLoop of |c|.                                                         *)

LoopGoto(c, step) == loop' = [loop EXCEPT ![c] = step]

\* Mutant: only a wake starts a pass.
ExchangeUntimed(c, due) ==
  /\ loop[c] = "exchange"
  /\ repoll' = [repoll EXCEPT ![c] = FALSE]
  /\ force' = [force EXCEPT ![c] = due]
  /\ LoopGoto(c, IF repoll[c] THEN "pass" ELSE "pick")
  /\ UNCHANGED <<objectVars, fiberVars, listVars, parked, event, sigVars>>

\* |due|: the backstop timer has expired.
Exchange(c, due) ==
  /\ loop[c] = "exchange"
  /\ repoll' = [repoll EXCEPT ![c] = FALSE]
  /\ force' = [force EXCEPT ![c] = due]
  /\ LoopGoto(c, IF repoll[c] \/ due THEN "pass" ELSE "pick")
  /\ UNCHANGED <<objectVars, fiberVars, listVars, parked, event, sigVars>>

\* RereadyBlocked: a gated waiter is skipped unless its epoch moved.
RereadyBlocked(c) ==
  LET rereadied == blocked[c] /\ (force[c] \/ epoch # sampled[c])
  IN /\ loop[c] = "pass"
     /\ LockFree
     /\ blocked' = [blocked EXCEPT ![c] = @ /\ ~rereadied]
     /\ hasBlocked' = [hasBlocked EXCEPT ![c] = blocked[c] /\ ~rereadied]
     /\ ready' = [ready EXCEPT ![c] = @ \/ rereadied]
     /\ LoopGoto(c, "pick")
     /\ UNCHANGED <<objectVars, fiberVars, repoll, parked, event, force, sigVars>>

SwitchTo(c) ==
  /\ loop[c] = "pick"
  /\ LockFree
  /\ ready[c]
  /\ ready' = [ready EXCEPT ![c] = FALSE]
  /\ FiberGoto(c, "sample")
  /\ LoopGoto(c, "fiber")
  /\ UNCHANGED <<objectVars, sampled, blocked, hasBlocked, repoll, parked, event, force, sigVars>>

\* Nothing ready: parked is set before the queues are looked at again.
Park(c) ==
  /\ loop[c] = "pick"
  /\ LockFree
  /\ ~ready[c]
  /\ parked' = [parked EXCEPT ![c] = TRUE]
  /\ LoopGoto(c, "recheck")
  /\ UNCHANGED <<objectVars, fiberVars, listVars, repoll, event, force, sigVars>>

\* Mutant: the queues are not looked at again.
RecheckNothing(c) ==
  /\ loop[c] = "recheck"
  /\ LoopGoto(c, "sleep")
  /\ UNCHANGED <<objectVars, fiberVars, listVars, repoll, parked, event, force, sigVars>>

Recheck(c) ==
  /\ loop[c] = "recheck"
  /\ LockFree
  /\ IF ready[c] \/ repoll[c]
     THEN /\ parked' = [parked EXCEPT ![c] = FALSE]
          /\ LoopGoto(c, "exchange")
     ELSE /\ LoopGoto(c, "sleep")
          /\ UNCHANGED parked
  /\ UNCHANGED <<objectVars, fiberVars, listVars, repoll, event, force, sigVars>>

EventWakes(c) ==
  /\ loop[c] = "sleep"
  /\ event[c]
  /\ event' = [event EXCEPT ![c] = FALSE]
  /\ LoopGoto(c, "woken")
  /\ UNCHANGED <<objectVars, fiberVars, listVars, repoll, parked, force, sigVars>>

\* The sleep is bounded by the backstop while a waiter is parked.
SleepTimesOut(c) ==
  /\ loop[c] = "sleep"
  /\ blocked[c]
  /\ LoopGoto(c, "woken")
  /\ UNCHANGED <<objectVars, fiberVars, listVars, repoll, parked, event, force, sigVars>>

Unpark(c) ==
  /\ loop[c] = "woken"
  /\ parked' = [parked EXCEPT ![c] = FALSE]
  /\ LoopGoto(c, "exchange")
  /\ UNCHANGED <<objectVars, fiberVars, listVars, repoll, event, force, sigVars>>

-----------------------------------------------------------------------------
(* A signaller: the release of a permit and WakeCooperativeWaiters.        *)

SigGoto(s, step) == sig' = [sig EXCEPT ![s] = step]

Release(s) ==
  /\ sig[s] = "idle"
  /\ signals < MaxSignals
  /\ signals' = signals + 1
  /\ permits' = permits + 1
  /\ SigGoto(s, "bump")
  /\ UNCHANGED <<epoch, bystander, fiberVars, listVars, cpuVars, scanned, wake>>

Bump(s) ==
  /\ sig[s] = "bump"
  /\ epoch' = epoch + 1
  /\ scanned' = [scanned EXCEPT ![s] = 1]
  /\ SigGoto(s, "scan")
  /\ UNCHANGED <<permits, signals, bystander, fiberVars, listVars, cpuVars, wake>>

\* The lock-free pre-filter: one load of has_blocked after the other, until one
\* is true.  With none the signaller is done.
Scan(s) ==
  LET c == scanned[s]
      last == c = NumCpus
  IN /\ sig[s] = "scan"
     /\ SigGoto(s, IF hasBlocked[c] THEN "mark"
                   ELSE IF ~last THEN "scan"
                   ELSE IF bystander THEN "mark" ELSE "idle")
     /\ scanned' = [scanned EXCEPT ![s] = IF last THEN 1 ELSE c + 1]
     /\ UNCHANGED <<objectVars, fiberVars, listVars, cpuVars, wake>>

\* Under lock_: every CPU that hosts a watcher re-polls.
Mark(s) ==
  LET watching == {c \in Cpus : blocked[c]}
  IN /\ sig[s] = "mark"
     /\ LockFree
     /\ repoll' = [c \in Cpus |-> repoll[c] \/ c \in watching]
     /\ wake' = [wake EXCEPT ![s] = watching]
     /\ SigGoto(s, "poke")
     /\ UNCHANGED <<objectVars, fiberVars, listVars, parked, event, loop, force, scanned>>

\* After lock_: the event of a CPU to wake is set if it is parked.
Poke(s, c) ==
  /\ sig[s] = "poke"
  /\ c \in wake[s]
  /\ wake' = [wake EXCEPT ![s] = @ \ {c}]
  /\ event' = [event EXCEPT ![c] = @ \/ parked[c]]
  /\ UNCHANGED <<objectVars, fiberVars, listVars, repoll, parked, loop, force, sig, scanned>>

Poked(s) ==
  /\ sig[s] = "poke"
  /\ wake[s] = {}
  /\ SigGoto(s, "idle")
  /\ UNCHANGED <<objectVars, fiberVars, listVars, cpuVars, scanned, wake>>

-----------------------------------------------------------------------------
Wait(c) == Sample(c) \/ PollSucceeds(c) \/ PollFails(c) \/ CheckEpoch(c) \/ StoreHasBlocked(c)

RunLoop(c) ==
  \/ \E due \in BOOLEAN : Exchange(c, due)
  \/ RereadyBlocked(c) \/ SwitchTo(c) \/ Park(c) \/ Recheck(c)
  \/ EventWakes(c) \/ Unpark(c)

WakeCooperativeWaiters(s) ==
  Bump(s) \/ Scan(s) \/ Mark(s) \/ (\E c \in Cpus : Poke(s, c)) \/ Poked(s)

Next ==
  \/ \E c \in Cpus : Wait(c) \/ RunLoop(c) \/ SleepTimesOut(c)
  \/ \E s \in Signallers : Release(s) \/ WakeCooperativeWaiters(s)

Spec == Init /\ [][Next]_vars

\* Every host thread runs and gets its turns at lock_, and the backstop timer
\* expires.  Nobody has to release a permit.
FairSpec ==
  /\ Spec
  /\ \A c \in Cpus : /\ SF_vars(Wait(c))
                     /\ SF_vars(RunLoop(c))
                     /\ SF_vars(Exchange(c, TRUE))
                     /\ WF_vars(SleepTimesOut(c))
  /\ \A s \in Signallers : SF_vars(WakeCooperativeWaiters(s))

-----------------------------------------------------------------------------
(* Properties.                                                             *)

\* A parked fiber whose object was signalled after its poll is about to be
\* re-polled, once every signaller has been through the lock.
WakeNotLost ==
  \A c \in Cpus :
    /\ blocked[c]
    /\ epoch # sampled[c]
    /\ \A s \in Signallers : sig[s] \notin {"scan", "mark"}
    => repoll[c] \/ loop[c] = "pass"

\* The same while some other waiter keeps the signallers' pre-filter open.
WakeNotLostBesideOthers == bystander => WakeNotLost

\* A dispatch thread does not sleep through a re-poll or a ready fiber: its
\* event is set, or a signaller that saw the waiter is about to set it.
NoSleepThroughWake ==
  \A c \in Cpus :
    loop[c] = "sleep" /\ (repoll[c] \/ ready[c])
      => event[c] \/ \E s \in Signallers : c \in wake[s]

\* With fibers that keep waiting, every permit is taken in the end: a wake the
\* handshake loses is late, not lost.
PermitsTaken == permits > 0 ~> permits = 0
=============================================================================
