------------------------------ MODULE HostWait ------------------------------
(***************************************************************************)
(* The host's waitable objects as base/threading_posix.cc builds them on   *)
(* mutexes and condition variables: a semaphore that serves its waiters by *)
(* ticket, an event in its three modes, and the threads that wait for one  *)
(* of the two, for either, or for both.                                    *)
(*                                                                         *)
(* Every step runs under the object's mutex.  A thread inside cond_.wait   *)
(* that has not been notified is in asleep; one that has evaluates its     *)
(* predicate again when it gets the mutex back.  A wait for several objects *)
(* polls them under all their mutexes, at the latest 1 ms after a signal,  *)
(* so it is enabled whenever its condition holds.                          *)
(***************************************************************************)
EXTENDS Integers, SequencesExt

CONSTANTS
  Threads,     \* host threads
  Timed,       \* those that wait with a deadline
  MaxCount,    \* maximum_count_ of the semaphore
  MaxTickets,  \* bound on the waits for the semaphore alone
  Modes        \* the modes of event considered

ASSUME HostWaitAssumption ==
  /\ Timed \subseteq Threads
  /\ MaxCount \in Nat \ {0}
  /\ MaxTickets \in Nat
  /\ Modes \subseteq {"handoff", "legacy", "manual"}

VARIABLES
  at,         \* what each thread waits for
  asleep,     \* threads inside a cond_ wait, not notified since they slept
  count,      \* count_ of the semaphore
  next,       \* next_ticket_
  serve,      \* serve_ticket_
  abandoned,  \* abandoned_tickets_
  ticket,     \* the ticket of a thread that waits for the semaphore
  mode,       \* manual_reset_, and what AutoResetEventHandoff() says
  signal,     \* signal_ of the event
  line,       \* its waiters, from head_ to tail_
  released    \* those whose released flag is set

semVars   == <<count, next, serve, abandoned, ticket>>
eventVars == <<mode, signal, line, released>>
vars == <<at, asleep, semVars, eventVars>>

TypeOK ==
  /\ at \in [Threads -> {"out", "sem", "event", "any", "all"}]
  /\ asleep \subseteq Threads
  /\ count \in 0..MaxCount
  /\ next \in 0..MaxTickets
  /\ serve \in 0..MaxTickets
  /\ abandoned \subseteq 0..MaxTickets
  /\ ticket \in [Threads -> 0..MaxTickets]
  /\ mode \in Modes
  /\ signal \in BOOLEAN
  /\ line \in Seq(Threads)
  /\ released \subseteq Threads

Init ==
  /\ at = [t \in Threads |-> "out"]
  /\ asleep = {}
  /\ count \in 0..MaxCount
  /\ next = 0
  /\ serve = 0
  /\ abandoned = {}
  /\ ticket = [t \in Threads |-> 0]
  /\ mode \in Modes
  /\ signal \in BOOLEAN
  /\ line = <<>>
  /\ released = {}

Goto(t, place) == at' = [at EXCEPT ![t] = place]

Waiting(object) == {t \in Threads : at[t] = object}

\* NotifyAll of one of the objects.
NotifyAll(object) == asleep' = asleep \ Waiting(object)

\* A cond_ wait ends when it is notified, at its deadline, and for no reason.
MayCheck(t) == t \notin asleep \/ t \in Timed

SpuriousWake(t) ==
  /\ t \in asleep
  /\ asleep' = asleep \ {t}
  /\ UNCHANGED <<at, semVars, eventVars>>

-----------------------------------------------------------------------------
(* The semaphore.                                                          *)

\* Mutant of Release: maximum_count_ is not checked.
ReleaseUnbounded(n) ==
  /\ count' = count + n
  /\ NotifyAll("sem")
  /\ UNCHANGED <<at, next, serve, abandoned, ticket, eventVars>>

Release(n) ==
  /\ count + n <= MaxCount
  /\ count' = count + n
  /\ NotifyAll("sem")
  /\ UNCHANGED <<at, next, serve, abandoned, ticket, eventVars>>

\* Mutant of AdvanceServeTicket: tickets given up are not passed over.
AdvanceByOne ==
  /\ serve' = serve + 1
  /\ UNCHANGED abandoned
  /\ NotifyAll("sem")

\* serve_ticket_ moves past the tickets whose threads timed out.
AdvanceServeTicket ==
  /\ \E s \in serve + 1 .. MaxTickets :
       /\ s \notin abandoned
       /\ \A u \in serve + 1 .. s - 1 : u \in abandoned
       /\ serve' = s
       /\ abandoned' = abandoned \ (serve .. s)
  /\ NotifyAll("sem")

IsServed(t) == count > 0 /\ serve = ticket[t]

\* A Wait that finds its predicate true at once ...
SemWaitAtOnce(t) ==
  /\ at[t] = "out"
  /\ next < MaxTickets
  /\ count > 0 /\ serve = next
  /\ next' = next + 1
  /\ count' = count - 1
  /\ AdvanceServeTicket
  /\ UNCHANGED <<at, ticket, eventVars>>

\* ... and one that does not.
SemWait(t) ==
  /\ at[t] = "out"
  /\ next < MaxTickets
  /\ ~ (count > 0 /\ serve = next)
  /\ next' = next + 1
  /\ ticket' = [ticket EXCEPT ![t] = next]
  /\ Goto(t, "sem")
  /\ asleep' = asleep \cup {t}
  /\ UNCHANGED <<count, serve, abandoned, eventVars>>

SemTake(t) ==
  /\ at[t] = "sem"
  /\ MayCheck(t)
  /\ IsServed(t)
  /\ count' = count - 1
  /\ AdvanceServeTicket
  /\ Goto(t, "out")
  /\ UNCHANGED <<next, ticket, eventVars>>

SemSleepAgain(t) ==
  /\ at[t] = "sem"
  /\ t \notin asleep
  /\ ~ IsServed(t)
  /\ asleep' = asleep \cup {t}
  /\ UNCHANGED <<at, semVars, eventVars>>

\* Mutant of SemTimeout: the waiter that is served next withdraws like any other.
SemTimeoutUnnoticed(t) ==
  /\ at[t] = "sem"
  /\ t \in Timed
  /\ ~ IsServed(t)
  /\ abandoned' = abandoned \cup {ticket[t]}
  /\ asleep' = asleep \ {t}
  /\ Goto(t, "out")
  /\ UNCHANGED <<count, next, serve, ticket, eventVars>>

\* A waiter that times out withdraws, so that later tickets can be served.
SemTimeout(t) ==
  /\ at[t] = "sem"
  /\ t \in Timed
  /\ ~ IsServed(t)
  /\ IF ticket[t] = serve
     THEN AdvanceServeTicket
     ELSE /\ abandoned' = abandoned \cup {ticket[t]}
          /\ asleep' = asleep \ {t}
          /\ UNCHANGED serve
  /\ Goto(t, "out")
  /\ UNCHANGED <<count, next, ticket, eventVars>>

-----------------------------------------------------------------------------
(* The event.                                                              *)

\* In hand-off mode a Set releases the first waiter that is not; otherwise it
\* latches.
ReleaseOneWaiterLocked ==
  \E i \in 1..Len(line) :
    /\ line[i] \notin released
    /\ \A j \in 1..i - 1 : line[j] \in released
    /\ released' = released \cup {line[i]}

EventSet ==
  /\ IF mode = "handoff" /\ ~ ToSet(line) \subseteq released
     THEN ReleaseOneWaiterLocked /\ UNCHANGED signal
     ELSE signal' = TRUE /\ UNCHANGED released
  /\ NotifyAll("event")
  /\ UNCHANGED <<at, semVars, mode, line>>

EventReset ==
  /\ signal
  /\ signal' = FALSE
  /\ UNCHANGED <<at, asleep, semVars, mode, line, released>>

EventWaitAtOnce(t) ==
  /\ at[t] = "out"
  /\ signal
  /\ mode = "handoff" => line = <<>>
  /\ signal' = (mode = "manual")
  /\ UNCHANGED <<at, asleep, semVars, mode, line, released>>

EventWait(t) ==
  /\ at[t] = "out"
  /\ ~ (signal /\ (mode = "handoff" => line = <<>>))
  /\ line' = IF mode = "handoff" THEN Append(line, t) ELSE line
  /\ Goto(t, "event")
  /\ asleep' = asleep \cup {t}
  /\ UNCHANGED <<semVars, mode, signal, released>>

\* Mutant of IsReleased: the released flag is not read.
IsReleasedByToken(t) == signal /\ (mode = "handoff" => Head(line) = t)

\* The token of a set event goes to the head of the line.
IsReleased(t) ==
  IF mode = "handoff" THEN t \in released \/ (signal /\ Head(line) = t) ELSE signal

\* Mutant of Unlink: nobody is notified of a token that is left.
UnlinkQuietly(t) ==
  /\ line' = RemoveFirst(line, t)
  /\ released' = released \ {t}
  /\ asleep' = asleep \ {t}

\* A new head may claim a token that is left.
Unlink(t) ==
  /\ line' = RemoveFirst(line, t)
  /\ released' = released \ {t}
  /\ asleep' = IF line # <<>> /\ Head(line) = t /\ signal' /\ line' # <<>>
               THEN asleep \ Waiting("event")
               ELSE asleep \ {t}

EventTake(t) ==
  /\ at[t] = "event"
  /\ MayCheck(t)
  /\ IsReleased(t)
  /\ signal' = (signal /\ (mode = "manual" \/ t \in released))
  /\ Unlink(t)
  /\ Goto(t, "out")
  /\ UNCHANGED <<semVars, mode>>

EventSleepAgain(t) ==
  /\ at[t] = "event"
  /\ t \notin asleep
  /\ ~ IsReleased(t)
  /\ asleep' = asleep \cup {t}
  /\ UNCHANGED <<at, semVars, eventVars>>

EventTimeout(t) ==
  /\ at[t] = "event"
  /\ t \in Timed
  /\ ~ IsReleased(t)
  /\ UNCHANGED signal
  /\ Unlink(t)
  /\ Goto(t, "out")
  /\ UNCHANGED <<semVars, mode>>

-----------------------------------------------------------------------------
(* A wait for both objects, the semaphore first.                           *)

WaitMultiple(t, kind) ==
  /\ at[t] = "out"
  /\ Goto(t, kind)
  /\ UNCHANGED <<asleep, semVars, eventVars>>

\* Mutant of SemSignaled: the tickets are not read.
SemSignaledAnyhow == count > 0

\* A poll takes nothing a thread that waits for the object alone could take.
SemSignaled == count > 0 /\ next = serve
EventSignaled == signal /\ (mode = "manual" \/ line = <<>>)

TakeSem == count' = count - 1 /\ NotifyAll("sem")
TakeEvent == signal' = (mode = "manual")

MultiTake(t) ==
  /\ \/ /\ at[t] = "any"
        /\ SemSignaled
        /\ TakeSem
        /\ UNCHANGED signal
     \/ /\ at[t] = "any"
        /\ ~ SemSignaled /\ EventSignaled
        /\ TakeEvent
        /\ UNCHANGED <<asleep, count>>
     \/ /\ at[t] = "all"
        /\ SemSignaled /\ EventSignaled
        /\ TakeSem /\ TakeEvent
  /\ Goto(t, "out")
  /\ UNCHANGED <<next, serve, abandoned, ticket, mode, line, released>>

MultiTimeout(t) ==
  /\ t \in Timed
  /\ \/ at[t] = "any" /\ ~ SemSignaled /\ ~ EventSignaled
     \/ at[t] = "all" /\ ~ (SemSignaled /\ EventSignaled)
  /\ Goto(t, "out")
  /\ UNCHANGED <<asleep, semVars, eventVars>>

-----------------------------------------------------------------------------
\* What a thread that runs does next.
Run(t) ==
  \/ SemTake(t) \/ SemSleepAgain(t)
  \/ EventTake(t) \/ EventSleepAgain(t)
  \/ MultiTake(t)

Next ==
  \/ \E n \in 1..MaxCount : Release(n)
  \/ EventSet \/ EventReset
  \/ \E t \in Threads :
       \/ Run(t) \/ SpuriousWake(t)
       \/ SemWaitAtOnce(t) \/ SemWait(t) \/ SemTimeout(t)
       \/ EventWaitAtOnce(t) \/ EventWait(t) \/ EventTimeout(t)
       \/ WaitMultiple(t, "any") \/ WaitMultiple(t, "all") \/ MultiTimeout(t)

Spec == Init /\ [][Next]_vars

\* A thread that was notified gets the mutex in the end.
FairSpec == Spec /\ \A t \in Threads : WF_vars(Run(t))

-----------------------------------------------------------------------------
LiveTickets == {ticket[t] : t \in Waiting("sem")}

\* The tickets not served yet are those of the waiters and those given up, and
\* the one being served is not given up (AdvanceServeTicket, the withdrawal in
\* Wait): no ticket is left that nobody will ever complete, which would keep the
\* semaphore from everyone behind it.
TicketsAccounted ==
  /\ serve <= next
  /\ serve .. next - 1 = LiveTickets \cup abandoned
  /\ LiveTickets \cap abandoned = {}
  /\ serve \notin abandoned
  /\ \A s, t \in Waiting("sem") : ticket[s] = ticket[t] => s = t

\* No thread sleeps on a condition variable while what it waits for is there:
\* every change of a predicate is notified (NotifyAll and its callers).
NoSleepOnSignal ==
  \A t \in asleep :
    /\ at[t] = "sem" => ~ IsServed(t)
    /\ at[t] = "event" => ~ IsReleased(t)

\* The line of an event in hand-off mode is its waiters, each once, and only
\* they are released (PushBack, Unlink, the node on the waiter's stack).
LineIsWaiters ==
  /\ IsInjective(line)
  /\ ToSet(line) = IF mode = "handoff" THEN Waiting("event") ELSE {}
  /\ released \subseteq ToSet(line)

\* A thread waits for the semaphore alone behind those whose tickets are lower.
Ahead == [t \in Threads |->
  IF at[t] = "sem" THEN {s \in Waiting("sem") : ticket[s] < ticket[t]} ELSE {}]

Fifo == INSTANCE FifoSemaphore WITH waiting <- Waiting("sem"), ahead <- Ahead

\* The tickets implement the semaphore that serves its waiters in order.
ServesInOrder == Fifo!Spec

\* A count that is there while threads wait for the semaphore alone does not
\* stay unclaimed.
CountReachesWaiter ==
  (count > 0 /\ Waiting("sem") # {}) ~> (count = 0 \/ Waiting("sem") = {})

\* A waiter that a Set released returns, and so does one in line while a token
\* is latched, unless the token is taken or reset.
ReleasedReturns ==
  \A t \in Threads :
    /\ (t \in released) ~> (t \notin released)
    /\ (t \in ToSet(line) /\ signal) ~> (t \notin ToSet(line) \/ ~ signal)
=============================================================================
