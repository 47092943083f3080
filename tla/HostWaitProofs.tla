--------------------------- MODULE HostWaitProofs ---------------------------
(***************************************************************************)
(* Proofs about HostWait.tla, for every set of threads, every maximum      *)
(* count and every bound on the tickets.                                   *)
(***************************************************************************)
EXTENDS HostWait, QueueLemmas

Places == {"out", "sem", "event", "any", "all"}

\* What AdvanceServeTicket does to the tickets when the one it completes was the
\* one being served: L are the tickets of the waiters, the completed one with
\* them, and top is next_ticket_.
LEMMA AdvanceTickets ==
  ASSUME TypeOK, NEW L, NEW top \in 0..MaxTickets, MaxTickets \in Nat,
         serve .. top - 1 = L \cup abandoned, L \cap abandoned = {},
         serve \notin abandoned, serve < top,
         AdvanceServeTicket
  PROVE  /\ serve' \in serve + 1 .. top
         /\ abandoned' = abandoned \ (serve .. serve')
         /\ serve' .. top - 1 = (L \ {serve}) \cup abandoned'
         /\ (L \ {serve}) \cap abandoned' = {}
         /\ serve' \notin abandoned'
         /\ asleep' = asleep \ Waiting("sem")
<1>0. serve \in Nat /\ top \in Nat
  BY DEF TypeOK
<1>1. PICK s \in serve + 1 .. MaxTickets :
        /\ s \notin abandoned
        /\ \A u \in serve + 1 .. s - 1 : u \in abandoned
        /\ serve' = s
        /\ abandoned' = abandoned \ (serve .. s)
  BY DEF AdvanceServeTicket
<1>2. \A u : u \in abandoned => u \in Int /\ serve < u /\ u < top
  <2> SUFFICES ASSUME NEW u \in abandoned
               PROVE  u \in Int /\ serve < u /\ u < top
    OBVIOUS
  <2>1. u \in serve .. top - 1 /\ u # serve
    OBVIOUS
  <2> QED
    BY <1>0, <2>1
<1>3. s \in Nat /\ s > serve
  BY <1>0, <1>1
<1>4. s <= top
  <2> SUFFICES ASSUME s > top PROVE FALSE
    BY <1>0, <1>3
  <2>1. top \in serve + 1 .. s - 1
    BY <1>0, <1>3
  <2> QED
    BY <1>0, <1>1, <1>2, <2>1
<1>5. serve' .. top - 1 = (L \ {serve}) \cup abandoned'
  <2>1. ASSUME NEW u \in s .. top - 1
        PROVE  u \in (L \ {serve}) \cup abandoned'
    <3>1. u \in serve .. top - 1 /\ u # serve /\ (u \notin serve .. s \/ u = s)
      BY <1>0, <1>3, <2>1
    <3> QED
      BY <1>1, <3>1
  <2>2. ASSUME NEW u \in (L \ {serve}) \cup abandoned'
        PROVE  u \in s .. top - 1
    <3>1. u \in serve .. top - 1 /\ u # serve
      BY <1>0, <1>1, <1>2, <2>2
    <3>2. u \notin serve + 1 .. s - 1
      BY <1>0, <1>1, <1>3, <2>2
    <3> QED
      BY <1>0, <1>3, <3>1, <3>2
  <2> QED
    BY <1>1, <2>1, <2>2
<1> QED
  BY <1>0, <1>1, <1>3, <1>4, <1>5 DEF AdvanceServeTicket, NotifyAll

-----------------------------------------------------------------------------
(* Types.                                                                  *)

LEMMA TypeInit == Init => TypeOK
BY HostWaitAssumption DEF Init, TypeOK

LEMMA AdvanceTypes ==
  ASSUME TypeOK, AdvanceServeTicket
  PROVE  serve' \in 0..MaxTickets /\ abandoned' \subseteq 0..MaxTickets /\ asleep' \subseteq Threads
BY HostWaitAssumption DEF TypeOK, AdvanceServeTicket, NotifyAll

LEMMA TypeNext == TypeOK /\ [Next]_vars => TypeOK'
<1> SUFFICES ASSUME TypeOK, [Next]_vars PROVE TypeOK'
  OBVIOUS
<1> USE HostWaitAssumption DEF TypeOK
<1>1. ASSUME NEW n \in 1..MaxCount, Release(n) PROVE TypeOK'
  BY <1>1 DEF Release, NotifyAll, eventVars
<1>2. CASE EventSet
  <2>1. \A i \in 1..Len(line) : line[i] \in Threads
    OBVIOUS
  <2>2. ReleaseOneWaiterLocked => released' \subseteq Threads
    BY <2>1 DEF ReleaseOneWaiterLocked
  <2>3. released' \subseteq Threads /\ signal' \in BOOLEAN
    BY <1>2, <2>2 DEF EventSet
  <2> QED
    BY <1>2, <2>3 DEF EventSet, NotifyAll, semVars
<1>3. CASE EventReset
  BY <1>3 DEF EventReset, semVars
<1>4. ASSUME NEW t \in Threads, SemTake(t) \/ SemSleepAgain(t) \/ SemTimeout(t) PROVE TypeOK'
  <2>1. CASE SemTake(t)
    BY <2>1, AdvanceTypes DEF SemTake, IsServed, Goto, eventVars
  <2>2. CASE SemSleepAgain(t)
    BY <2>2 DEF SemSleepAgain, semVars, eventVars
  <2>3. CASE SemTimeout(t)
    <3>1. serve' \in 0..MaxTickets /\ abandoned' \subseteq 0..MaxTickets /\ asleep' \subseteq Threads
      <4>1. CASE ticket[t] = serve
        BY <2>3, <4>1, AdvanceTypes DEF SemTimeout
      <4>2. CASE ticket[t] # serve
        <5>1. ticket[t] \in 0..MaxTickets
          OBVIOUS
        <5>2. serve' = serve /\ abandoned' = abandoned \cup {ticket[t]} /\ asleep' = asleep \ {t}
          BY <2>3, <4>2 DEF SemTimeout
        <5>3. abandoned' \subseteq 0..MaxTickets
          BY <5>1, <5>2
        <5> QED
          BY <5>2, <5>3
      <4> QED
        BY <4>1, <4>2
    <3> QED
      BY <2>3, <3>1 DEF SemTimeout, Goto, eventVars
  <2> QED
    BY <1>4, <2>1, <2>2, <2>3
<1>5. ASSUME NEW t \in Threads, SemWaitAtOnce(t) \/ SemWait(t) PROVE TypeOK'
  <2>1. CASE SemWaitAtOnce(t)
    BY <2>1, AdvanceTypes DEF SemWaitAtOnce, eventVars
  <2>2. CASE SemWait(t)
    BY <2>2 DEF SemWait, Goto, eventVars
  <2> QED
    BY <1>5, <2>1, <2>2
<1>6. ASSUME NEW t \in Threads, EventTake(t) \/ EventSleepAgain(t) \/ EventTimeout(t) PROVE TypeOK'
  <2>1. RemoveFirst(line, t) \in Seq(Threads)
    BY RemoveFirstQueue
  <2>2. Unlink(t) => line' \in Seq(Threads) /\ released' \subseteq Threads /\ asleep' \subseteq Threads
    BY <2>1 DEF Unlink
  <2>3. CASE EventTake(t)
    BY <2>2, <2>3 DEF EventTake, Goto, semVars
  <2>4. CASE EventSleepAgain(t)
    BY <2>4 DEF EventSleepAgain, semVars, eventVars
  <2>5. CASE EventTimeout(t)
    BY <2>2, <2>5 DEF EventTimeout, Goto, semVars
  <2> QED
    BY <1>6, <2>3, <2>4, <2>5
<1>7. ASSUME NEW t \in Threads, EventWaitAtOnce(t) \/ EventWait(t) PROVE TypeOK'
  <2>1. Append(line, t) \in Seq(Threads)
    BY AppendQueue
  <2> QED
    BY <1>7, <2>1 DEF EventWaitAtOnce, EventWait, Goto, semVars, eventVars
<1>8. ASSUME NEW t \in Threads, NEW kind \in {"any", "all"}, WaitMultiple(t, kind) PROVE TypeOK'
  BY <1>8 DEF WaitMultiple, Goto, semVars, eventVars
<1>9. ASSUME NEW t \in Threads, MultiTake(t) \/ MultiTimeout(t) \/ SpuriousWake(t) PROVE TypeOK'
  <2>1. CASE MultiTake(t)
    <3>1. signal' \in BOOLEAN /\ asleep' \subseteq Threads
      BY <2>1 DEF MultiTake, TakeSem, TakeEvent, NotifyAll
    <3>2. count' \in 0..MaxCount
      BY <2>1 DEF MultiTake, TakeSem, SemSignaled
    <3> QED
      BY <2>1, <3>1, <3>2 DEF MultiTake, Goto
  <2>2. CASE MultiTimeout(t)
    BY <2>2 DEF MultiTimeout, Goto, semVars, eventVars
  <2>3. CASE SpuriousWake(t)
    BY <2>3 DEF SpuriousWake, semVars, eventVars
  <2> QED
    BY <1>9, <2>1, <2>2, <2>3
<1>10. CASE UNCHANGED vars
  BY <1>10 DEF vars, semVars, eventVars
<1> QED
  BY <1>1, <1>2, <1>3, <1>4, <1>5, <1>6, <1>7, <1>8, <1>9, <1>10 DEF Next, Run

\* Every variable stays within its type.
THEOREM TypeCorrect == Spec => []TypeOK
BY TypeInit, TypeNext, PTL DEF Spec

-----------------------------------------------------------------------------
(* Tickets.                                                                *)

\* The tickets as the steps see them.  The threads that wait for the semaphore
\* and their tickets stay as they are in every step of an event, of a wait for
\* several objects and of a Release.
LEMMA TicketsUntouched ==
  ASSUME TypeOK, TicketsAccounted, Waiting("sem")' = Waiting("sem"),
         UNCHANGED <<next, serve, abandoned, ticket>>
  PROVE  TicketsAccounted'
<1>1. LiveTickets' = LiveTickets
  BY DEF LiveTickets
<1> QED
  BY <1>1 DEF TicketsAccounted

\* Leaving the line with the ticket that is being served.
LEMMA TicketsServed ==
  ASSUME TypeOK, TicketsAccounted, NEW t \in Threads, at[t] = "sem", ticket[t] = serve,
         AdvanceServeTicket, Goto(t, "out"), UNCHANGED <<next, ticket>>
  PROVE  /\ TicketsAccounted'
         /\ serve < next
<1>1. Waiting("sem")' = Waiting("sem") \ {t} /\ t \in Waiting("sem")
  BY DEF TypeOK, Goto, Waiting
<1>2. LiveTickets' = LiveTickets \ {serve}
  BY <1>1 DEF LiveTickets, TicketsAccounted
<1>3. serve \in LiveTickets
  BY <1>1 DEF LiveTickets
<1>4. serve \in Nat /\ next \in 0..MaxTickets /\ MaxTickets \in Nat
  BY HostWaitAssumption DEF TypeOK
<1>5. serve < next
  <2>1. serve \in serve .. next - 1
    BY <1>3 DEF TicketsAccounted
  <2> QED
    BY <1>4, <2>1
<1>6. /\ serve' \in serve + 1 .. next
      /\ serve' .. next - 1 = (LiveTickets \ {serve}) \cup abandoned'
      /\ (LiveTickets \ {serve}) \cap abandoned' = {}
      /\ serve' \notin abandoned'
  BY <1>4, <1>5, AdvanceTickets DEF TicketsAccounted
<1> QED
  BY <1>1, <1>2, <1>4, <1>5, <1>6 DEF TicketsAccounted

LEMMA TicketsInit == Init => TicketsAccounted
<1> SUFFICES ASSUME Init PROVE TicketsAccounted
  OBVIOUS
<1>1. Waiting("sem") = {} /\ LiveTickets = {}
  BY DEF Init, Waiting, LiveTickets
<1> QED
  BY <1>1 DEF Init, TicketsAccounted

LEMMA TicketsNext == TypeOK /\ TicketsAccounted /\ [Next]_vars => TicketsAccounted'
<1> SUFFICES ASSUME TypeOK, TicketsAccounted, [Next]_vars PROVE TicketsAccounted'
  OBVIOUS
<1>0. next \in Nat /\ serve \in Nat /\ MaxTickets \in Nat /\ next \in 0..MaxTickets
  BY HostWaitAssumption DEF TypeOK
<1>1. ASSUME NEW n \in 1..MaxCount, Release(n) PROVE TicketsAccounted'
  BY <1>1, TicketsUntouched DEF Release, Waiting
<1>2. CASE EventSet \/ EventReset
  BY <1>2, TicketsUntouched DEF EventSet, EventReset, Waiting, semVars
<1>3. ASSUME NEW t \in Threads, SemTake(t) PROVE TicketsAccounted'
  BY <1>3, TicketsServed DEF SemTake, IsServed
<1>4. ASSUME NEW t \in Threads, SemTimeout(t) PROVE TicketsAccounted'
  <2>1. CASE ticket[t] = serve
    BY <1>4, <2>1, TicketsServed DEF SemTimeout
  <2>2. CASE ticket[t] # serve
    <3>1. abandoned' = abandoned \cup {ticket[t]} /\ UNCHANGED <<serve, next, ticket>>
      BY <1>4, <2>2 DEF SemTimeout
    <3>2. Waiting("sem")' = Waiting("sem") \ {t} /\ t \in Waiting("sem")
      BY <1>4 DEF SemTimeout, TypeOK, Goto, Waiting
    <3>3. LiveTickets' = LiveTickets \ {ticket[t]} /\ ticket[t] \in LiveTickets
      BY <3>1, <3>2 DEF LiveTickets, TicketsAccounted
    <3> QED
      BY <2>2, <3>1, <3>2, <3>3 DEF TicketsAccounted
  <2> QED
    BY <2>1, <2>2
<1>5. ASSUME NEW t \in Threads, SemWaitAtOnce(t) PROVE TicketsAccounted'
  <2>1. serve = next /\ next' = next + 1 /\ next + 1 \in 0..MaxTickets
    BY <1>0, <1>5 DEF SemWaitAtOnce
  <2>2. serve .. next - 1 = {}
    BY <1>0, <2>1
  <2>3. LiveTickets = {} /\ abandoned = {}
    BY <2>2 DEF TicketsAccounted
  <2>4. Waiting("sem")' = Waiting("sem") /\ LiveTickets' = LiveTickets
    BY <1>5 DEF SemWaitAtOnce, Waiting, LiveTickets
  <2>5. PICK s \in serve + 1 .. MaxTickets :
          /\ \A u \in serve + 1 .. s - 1 : u \in abandoned
          /\ serve' = s
          /\ abandoned' = abandoned \ (serve .. s)
    BY <1>5 DEF SemWaitAtOnce, AdvanceServeTicket
  <2>6. s = serve + 1
    <3> SUFFICES ASSUME s # serve + 1 PROVE FALSE
      OBVIOUS
    <3>1. serve + 1 \in serve + 1 .. s - 1
      BY <1>0, <2>5
    <3> QED
      BY <2>3, <2>5, <3>1
  <2>7. serve' = next' /\ abandoned' = {} /\ serve' .. next' - 1 = {}
    BY <1>0, <2>1, <2>3, <2>5, <2>6
  <2>8. UNCHANGED ticket
    BY <1>5 DEF SemWaitAtOnce
  <2> QED
    BY <1>0, <2>1, <2>3, <2>4, <2>7, <2>8 DEF TicketsAccounted
<1>6. ASSUME NEW t \in Threads, SemWait(t) PROVE TicketsAccounted'
  <2>1. /\ next' = next + 1 /\ ticket' = [ticket EXCEPT ![t] = next]
        /\ UNCHANGED <<serve, abandoned>>
    BY <1>6 DEF SemWait
  <2>2. Waiting("sem")' = Waiting("sem") \cup {t} /\ t \notin Waiting("sem")
    BY <1>6 DEF SemWait, TypeOK, Goto, Waiting
  <2>3. ticket'[t] = next /\ \A s \in Waiting("sem") : ticket'[s] = ticket[s]
    BY <2>1, <2>2 DEF TypeOK
  <2>4. LiveTickets' = LiveTickets \cup {next}
    BY <2>2, <2>3 DEF LiveTickets
  <2>5. next \notin serve .. next - 1 /\ serve .. next = (serve .. next - 1) \cup {next}
    BY <1>0 DEF TicketsAccounted
  <2>6. next \notin LiveTickets /\ next \notin abandoned
    BY <2>5 DEF TicketsAccounted
  <2>7. \A s \in Waiting("sem") : ticket[s] # next
    BY <2>6 DEF LiveTickets
  <2>8. \A r, s \in Waiting("sem")' : ticket'[r] = ticket'[s] => r = s
    BY <2>2, <2>3, <2>7 DEF TicketsAccounted
  <2>9. serve' .. next' - 1 = LiveTickets' \cup abandoned' /\ LiveTickets' \cap abandoned' = {}
    <3>1. next' - 1 = next
      BY <1>0, <2>1
    <3> QED
      BY <2>1, <2>4, <2>5, <2>6, <3>1 DEF TicketsAccounted
  <2> QED
    BY <1>0, <2>1, <2>8, <2>9 DEF TicketsAccounted
<1>7. ASSUME NEW t \in Threads,
             \/ SemSleepAgain(t) \/ EventTake(t) \/ EventSleepAgain(t) \/ EventTimeout(t)
             \/ EventWaitAtOnce(t) \/ EventWait(t) \/ MultiTake(t) \/ MultiTimeout(t)
             \/ SpuriousWake(t) \/ WaitMultiple(t, "any") \/ WaitMultiple(t, "all")
      PROVE  TicketsAccounted'
  <2>1. UNCHANGED <<next, serve, abandoned, ticket>>
    BY <1>7 DEF SemSleepAgain, EventTake, EventSleepAgain, EventTimeout, EventWaitAtOnce,
                EventWait, MultiTake, MultiTimeout, SpuriousWake, WaitMultiple, semVars
  <2>2. UNCHANGED at \/ (at[t] # "sem" /\ \E p \in Places \ {"sem"} : Goto(t, p))
    BY <1>7 DEF SemSleepAgain, EventTake, EventSleepAgain, EventTimeout, EventWaitAtOnce,
                EventWait, MultiTake, MultiTimeout, SpuriousWake, WaitMultiple, Places
  <2>3. Waiting("sem")' = Waiting("sem")
    BY <2>2 DEF Waiting, Goto, TypeOK
  <2> QED
    BY <2>1, <2>3, TicketsUntouched
<1>8. CASE UNCHANGED vars
  BY <1>8, TicketsUntouched DEF vars, semVars, Waiting
<1> QED
  BY <1>1, <1>2, <1>3, <1>4, <1>5, <1>6, <1>7, <1>8 DEF Next, Run

\* No ticket is lost: those between serve_ticket_ and next_ticket_ are the ones
\* of the threads that wait and those given up behind the first.
THEOREM TicketsAreAccounted == Spec => []TicketsAccounted
<1>1. Init => TypeOK /\ TicketsAccounted
  BY TypeInit, TicketsInit
<1>2. TypeOK /\ TicketsAccounted /\ [Next]_vars => (TypeOK /\ TicketsAccounted)'
  BY TypeNext, TicketsNext
<1> QED
  BY <1>1, <1>2, PTL DEF Spec

-----------------------------------------------------------------------------
(* The line of the event, and what it says about sleep.                    *)

LEMMA LineUntouched ==
  ASSUME LineIsWaiters, Waiting("event")' = Waiting("event"), UNCHANGED <<line, released, mode>>
  PROVE  LineIsWaiters'
BY DEF LineIsWaiters

\* A waiter that unlinks its node leaves the others in their order.
LEMMA LineUnlink ==
  ASSUME TypeOK, LineIsWaiters, NEW t \in Threads, at[t] = "event",
         Unlink(t), Goto(t, "out"), UNCHANGED mode
  PROVE  LineIsWaiters'
<1>1. /\ IsInjective(line')
      /\ ToSet(line') = ToSet(line) \ {t}
  BY RemoveFirstQueue DEF TypeOK, LineIsWaiters, Unlink
<1>2. Waiting("event")' = Waiting("event") \ {t}
  BY DEF TypeOK, Goto, Waiting
<1>3. released' = released \ {t}
  BY DEF Unlink
<1> QED
  BY <1>1, <1>2, <1>3 DEF LineIsWaiters

LEMMA LineInit == Init => LineIsWaiters
<1> SUFFICES ASSUME Init PROVE LineIsWaiters
  OBVIOUS
<1>1. line = <<>> /\ released = {} /\ Waiting("event") = {}
  BY DEF Init, Waiting
<1> QED
  BY <1>1 DEF LineIsWaiters, IsInjective, ToSet

LEMMA LineNext == TypeOK /\ LineIsWaiters /\ [Next]_vars => LineIsWaiters'
<1> SUFFICES ASSUME TypeOK, LineIsWaiters, [Next]_vars PROVE LineIsWaiters'
  OBVIOUS
<1>1. CASE EventSet
  <2>1. Waiting("event")' = Waiting("event") /\ UNCHANGED <<line, mode>>
    BY <1>1 DEF EventSet, Waiting
  <2>2. \A i \in 1..Len(line) : line[i] \in ToSet(line)
    BY LenProperties DEF TypeOK, ToSet
  <2>3. released' \subseteq ToSet(line)
    BY <1>1, <2>2 DEF EventSet, ReleaseOneWaiterLocked, LineIsWaiters
  <2> QED
    BY <2>1, <2>3 DEF LineIsWaiters
<1>2. ASSUME NEW t \in Threads, EventTake(t) \/ EventTimeout(t) PROVE LineIsWaiters'
  BY <1>2, LineUnlink DEF EventTake, EventTimeout
<1>3. ASSUME NEW t \in Threads, EventWait(t) PROVE LineIsWaiters'
  <2>1. Waiting("event")' = Waiting("event") \cup {t} /\ t \notin Waiting("event")
    BY <1>3 DEF EventWait, TypeOK, Goto, Waiting
  <2>2. UNCHANGED <<released, mode>>
    BY <1>3 DEF EventWait
  <2>3. CASE mode = "handoff"
    <3>1. line' = Append(line, t)
      BY <1>3, <2>3 DEF EventWait
    <3>2. t \notin ToSet(line)
      BY <2>1, <2>3 DEF LineIsWaiters
    <3>3. IsInjective(line') /\ ToSet(line') = ToSet(line) \cup {t}
      BY <3>1, <3>2, AppendQueue DEF TypeOK, LineIsWaiters
    <3> QED
      BY <2>1, <2>2, <2>3, <3>3 DEF LineIsWaiters
  <2>4. CASE mode # "handoff"
    BY <1>3, <2>2, <2>4 DEF EventWait, LineIsWaiters
  <2> QED
    BY <2>3, <2>4
<1>4. ASSUME NEW t \in Threads,
             \/ SemTake(t) \/ SemSleepAgain(t) \/ SemTimeout(t) \/ SemWaitAtOnce(t) \/ SemWait(t)
             \/ EventSleepAgain(t) \/ EventWaitAtOnce(t) \/ MultiTake(t) \/ MultiTimeout(t)
             \/ SpuriousWake(t) \/ WaitMultiple(t, "any") \/ WaitMultiple(t, "all")
      PROVE  LineIsWaiters'
  <2>1. UNCHANGED <<line, released, mode>>
    BY <1>4 DEF SemTake, SemSleepAgain, SemTimeout, SemWaitAtOnce, SemWait, EventSleepAgain,
                EventWaitAtOnce, MultiTake, MultiTimeout, SpuriousWake, WaitMultiple, eventVars
  <2>2. UNCHANGED at \/ (at[t] # "event" /\ \E p \in Places \ {"event"} : Goto(t, p))
    BY <1>4 DEF SemTake, SemSleepAgain, SemTimeout, SemWaitAtOnce, SemWait, EventSleepAgain,
                EventWaitAtOnce, MultiTake, MultiTimeout, SpuriousWake, WaitMultiple, Places
  <2>3. Waiting("event")' = Waiting("event")
    BY <2>2 DEF Waiting, Goto, TypeOK
  <2> QED
    BY <2>1, <2>3, LineUntouched
<1>5. ASSUME NEW n \in 1..MaxCount, Release(n) PROVE LineIsWaiters'
  BY <1>5, LineUntouched DEF Release, Waiting, eventVars
<1>6. CASE EventReset
  BY <1>6, LineUntouched DEF EventReset, Waiting
<1>7. CASE UNCHANGED vars
  BY <1>7, LineUntouched DEF vars, eventVars, Waiting
<1> QED
  BY <1>1, <1>2, <1>3, <1>4, <1>5, <1>6, <1>7 DEF Next, Run

\* The conditions two kinds of waiter check, over the state they read: they stay
\* false for the waiters that stay asleep.
LEMMA SleepersUnserved ==
  ASSUME TypeOK, NoSleepOnSignal,
         \A t \in asleep' :
           /\ t \in asleep
           /\ at'[t] \in {"sem", "event"} => at'[t] = at[t]
           /\ at'[t] = "sem" /\ IsServed(t)' => IsServed(t)
           /\ at'[t] = "event" /\ IsReleased(t)' => IsReleased(t)
  PROVE  NoSleepOnSignal'
BY DEF NoSleepOnSignal

LEMMA SleepInit == Init => NoSleepOnSignal
BY DEF Init, NoSleepOnSignal

\* Leaving the line of the event wakes those for whom its condition turns true.
LEMMA SleepUnlink ==
  ASSUME TypeOK, LineIsWaiters, NoSleepOnSignal, NEW t \in Threads, at[t] = "event",
         Unlink(t), Goto(t, "out"), UNCHANGED <<semVars, mode>>, signal' => signal
  PROVE  NoSleepOnSignal'
<1>0. t \notin asleep' /\ asleep' \subseteq asleep /\ released' = released \ {t}
  <2>1. t \in Waiting("event")
    BY DEF Waiting
  <2> QED
    BY <2>1 DEF Unlink
<1>1. \A s \in asleep' : at'[s] = at[s] /\ s \in Threads
  BY <1>0 DEF TypeOK, Goto
<1>2. \A s \in asleep' : IsServed(s)' => IsServed(s)
  BY DEF IsServed, semVars
<1>3. ASSUME NEW s \in asleep', at[s] = "event", IsReleased(s)'
      PROVE  IsReleased(s)
  <2>1. CASE mode # "handoff"
    BY <1>3, <2>1 DEF IsReleased
  <2>2. CASE mode = "handoff" /\ s \in released'
    BY <1>0, <2>2 DEF IsReleased
  <2>3. CASE mode = "handoff" /\ s \notin released'
    <3>1. signal' /\ signal /\ Head(line') = s
      BY <1>3, <2>3 DEF IsReleased
    <3>2. s \in Waiting("event") /\ t \in Waiting("event") /\ s # t
      BY <1>0, <1>1, <1>3 DEF Waiting
    <3>3. line # <<>> /\ line' # <<>>
      <4>1. s \in ToSet(line')
        BY <3>2, <2>3, RemoveFirstQueue DEF LineIsWaiters, Unlink, TypeOK
      <4>2. s \in ToSet(line)
        BY <3>2, <2>3 DEF LineIsWaiters
      <4> QED
        BY <4>1, <4>2 DEF ToSet
    <3>4. CASE Head(line) = t
      BY <1>3, <3>1, <3>2, <3>3, <3>4 DEF Unlink
    <3>5. CASE Head(line) # t
      <4>1. Head(line') = Head(line)
        BY <3>3, <3>5, RemoveFirstHead DEF Unlink, TypeOK
      <4> QED
        BY <2>3, <3>1, <4>1 DEF IsReleased
    <3> QED
      BY <3>4, <3>5
  <2> QED
    BY <2>1, <2>2, <2>3
<1> QED
  BY <1>0, <1>1, <1>2, <1>3, SleepersUnserved

\* A step that leaves the event alone, and serves no one who stays asleep.
LEMMA SleepSem ==
  ASSUME TypeOK, NoSleepOnSignal, UNCHANGED eventVars, asleep' \subseteq asleep,
         \A t \in asleep' : /\ at'[t] = at[t]
                            /\ at[t] = "sem" /\ IsServed(t)' => IsServed(t)
  PROVE  NoSleepOnSignal'
<1>1. \A t \in asleep' : IsReleased(t)' => IsReleased(t)
  BY DEF IsReleased, eventVars
<1> QED
  BY <1>1, SleepersUnserved

LEMMA SleepNext ==
  TypeOK /\ LineIsWaiters /\ NoSleepOnSignal /\ [Next]_vars => NoSleepOnSignal'
<1> SUFFICES ASSUME TypeOK, LineIsWaiters, NoSleepOnSignal, [Next]_vars PROVE NoSleepOnSignal'
  OBVIOUS
<1>1. ASSUME NEW n \in 1..MaxCount, Release(n) PROVE NoSleepOnSignal'
  <2>1. UNCHANGED <<at, eventVars>> /\ asleep' = asleep \ Waiting("sem")
    BY <1>1 DEF Release, NotifyAll
  <2>2. \A t \in asleep' : at[t] # "sem"
    BY <2>1 DEF Waiting, TypeOK
  <2> QED
    BY <2>1, <2>2, SleepSem
<1>2. CASE EventSet
  <2>1. UNCHANGED <<at, semVars>> /\ asleep' = asleep \ Waiting("event")
    BY <1>2 DEF EventSet, NotifyAll
  <2>2. \A t \in asleep' : at[t] # "event" /\ (IsServed(t)' <=> IsServed(t))
    BY <2>1 DEF Waiting, TypeOK, IsServed, semVars
  <2> QED
    BY <2>1, <2>2, SleepersUnserved
<1>3. CASE EventReset
  <2>1. UNCHANGED <<at, asleep, semVars, mode, line, released>> /\ signal /\ ~ signal'
    BY <1>3 DEF EventReset
  <2>2. \A t \in asleep : /\ IsServed(t)' <=> IsServed(t)
                          /\ IsReleased(t)' => IsReleased(t)
    BY <2>1 DEF IsServed, IsReleased, semVars
  <2> QED
    BY <2>1, <2>2, SleepersUnserved
<1>4. ASSUME NEW t \in Threads, SemTake(t) PROVE NoSleepOnSignal'
  <2>1. UNCHANGED eventVars /\ Goto(t, "out") /\ asleep' = asleep \ Waiting("sem") /\ at[t] = "sem"
    BY <1>4 DEF SemTake, AdvanceServeTicket, NotifyAll
  <2>2. \A s \in asleep' : at[s] # "sem" /\ s # t /\ at'[s] = at[s]
    BY <2>1 DEF Waiting, TypeOK, Goto
  <2> QED
    BY <2>1, <2>2, SleepSem
<1>5. ASSUME NEW t \in Threads, SemTimeout(t) PROVE NoSleepOnSignal'
  <2>1. UNCHANGED <<count, ticket, eventVars>> /\ Goto(t, "out") /\ at[t] = "sem"
    BY <1>5 DEF SemTimeout
  <2>2. CASE ticket[t] = serve
    <3>1. asleep' = asleep \ Waiting("sem")
      BY <1>5, <2>2 DEF SemTimeout, AdvanceServeTicket, NotifyAll
    <3>2. \A s \in asleep' : at[s] # "sem" /\ s # t /\ at'[s] = at[s]
      BY <2>1, <3>1 DEF Waiting, TypeOK, Goto
    <3> QED
      BY <2>1, <3>1, <3>2, SleepSem
  <2>3. CASE ticket[t] # serve
    <3>1. asleep' = asleep \ {t} /\ UNCHANGED serve
      BY <1>5, <2>3 DEF SemTimeout
    <3>2. \A s \in asleep' : at'[s] = at[s] /\ (IsServed(s)' <=> IsServed(s))
      BY <2>1, <3>1 DEF TypeOK, Goto, IsServed
    <3> QED
      BY <2>1, <3>1, <3>2, SleepSem
  <2> QED
    BY <2>2, <2>3
<1>6. ASSUME NEW t \in Threads, SemWaitAtOnce(t) PROVE NoSleepOnSignal'
  <2>1. UNCHANGED <<at, eventVars>> /\ asleep' = asleep \ Waiting("sem")
    BY <1>6 DEF SemWaitAtOnce, AdvanceServeTicket, NotifyAll
  <2>2. \A s \in asleep' : at[s] # "sem"
    BY <2>1 DEF Waiting, TypeOK
  <2> QED
    BY <2>1, <2>2, SleepSem
<1>7. ASSUME NEW t \in Threads, SemWait(t) PROVE NoSleepOnSignal'
  <2>1. /\ UNCHANGED <<count, serve, eventVars>> /\ Goto(t, "sem")
        /\ asleep' = asleep \cup {t} /\ ticket' = [ticket EXCEPT ![t] = next]
        /\ ~ (count > 0 /\ serve = next)
    BY <1>7 DEF SemWait
  <2>2. at'[t] = "sem" /\ ~ IsServed(t)'
    BY <2>1 DEF TypeOK, Goto, IsServed
  <2>3. \A s \in asleep \ {t} : /\ at'[s] = at[s]
                                /\ IsServed(s)' <=> IsServed(s)
                                /\ IsReleased(s)' <=> IsReleased(s)
    BY <2>1 DEF TypeOK, Goto, IsServed, IsReleased, eventVars
  <2> QED
    BY <2>1, <2>2, <2>3 DEF NoSleepOnSignal
<1>8. ASSUME NEW t \in Threads, SemSleepAgain(t) \/ EventSleepAgain(t) PROVE NoSleepOnSignal'
  <2>1. /\ UNCHANGED <<at, semVars, eventVars>> /\ asleep' = asleep \cup {t}
        /\ at[t] = "sem" => ~ IsServed(t)
        /\ at[t] = "event" => ~ IsReleased(t)
    BY <1>8 DEF SemSleepAgain, EventSleepAgain
  <2>2. \A s \in asleep' : (IsServed(s)' <=> IsServed(s)) /\ (IsReleased(s)' <=> IsReleased(s))
    BY <2>1 DEF IsServed, IsReleased, semVars, eventVars
  <2> QED
    BY <2>1, <2>2 DEF NoSleepOnSignal
<1>9. ASSUME NEW t \in Threads, EventTake(t) \/ EventTimeout(t) PROVE NoSleepOnSignal'
  <2>1. at[t] = "event" /\ Unlink(t) /\ Goto(t, "out") /\ UNCHANGED <<semVars, mode>>
    BY <1>9 DEF EventTake, EventTimeout
  <2>2. signal' => signal
    BY <1>9, Zenon DEF EventTake, EventTimeout
  <2> QED
    BY <2>1, <2>2, SleepUnlink
<1>10. ASSUME NEW t \in Threads, EventWaitAtOnce(t) PROVE NoSleepOnSignal'
  <2>1. UNCHANGED <<at, asleep, semVars, mode, line, released>> /\ signal
    BY <1>10 DEF EventWaitAtOnce
  <2>2. \A s \in asleep : /\ IsServed(s)' <=> IsServed(s)
                          /\ IsReleased(s)' => IsReleased(s)
    BY <2>1 DEF IsServed, IsReleased, semVars
  <2> QED
    BY <2>1, <2>2, SleepersUnserved
<1>11. ASSUME NEW t \in Threads, EventWait(t) PROVE NoSleepOnSignal'
  <2>1. /\ UNCHANGED <<semVars, mode, signal, released>> /\ Goto(t, "event")
        /\ asleep' = asleep \cup {t}
        /\ ~ (signal /\ (mode = "handoff" => line = <<>>))
        /\ line' = IF mode = "handoff" THEN Append(line, t) ELSE line
    BY <1>11 DEF EventWait
  <2>2. at'[t] = "event" /\ t \notin Waiting("event")
    BY <1>11, <2>1 DEF EventWait, TypeOK, Goto, Waiting
  <2>3. line # <<>> => Head(Append(line, t)) = Head(line) /\ Head(line) \in ToSet(line)
    BY HeadTailProperties, EmptySeq, LenProperties DEF TypeOK, ToSet
  <2>4. line = <<>> => ToSet(line) = {}
    BY DEF ToSet
  <2>5. ~ IsReleased(t)'
    BY <2>1, <2>2, <2>3 DEF IsReleased, LineIsWaiters
  <2>6. ASSUME NEW s \in asleep \ {t}
        PROVE  /\ at'[s] = at[s]
               /\ IsServed(s)' <=> IsServed(s)
               /\ at[s] = "event" /\ IsReleased(s)' => IsReleased(s)
    <3>1. at'[s] = at[s] /\ (IsServed(s)' <=> IsServed(s))
      BY <2>1 DEF TypeOK, Goto, IsServed, semVars
    <3>2. mode = "handoff" /\ at[s] = "event" => line # <<>>
      BY <2>4 DEF LineIsWaiters, Waiting, TypeOK
    <3> QED
      BY <2>1, <2>3, <3>1, <3>2 DEF IsReleased
  <2> QED
    BY <2>1, <2>2, <2>5, <2>6 DEF NoSleepOnSignal
<1>12. ASSUME NEW t \in Threads, MultiTake(t) PROVE NoSleepOnSignal'
  <2>1. /\ UNCHANGED <<next, serve, abandoned, ticket, mode, line, released>> /\ Goto(t, "out")
        /\ at[t] \in {"any", "all"}
        /\ \/ asleep' = asleep /\ UNCHANGED count
           \/ asleep' = asleep \ Waiting("sem")
    BY <1>12 DEF MultiTake, TakeSem, NotifyAll
  <2>2. signal' => signal
    BY <1>12 DEF MultiTake, TakeEvent, EventSignaled
  <2>3. \A s \in asleep' : /\ s \in asleep
                           /\ at'[s] \in {"sem", "event"} => at'[s] = at[s]
                           /\ at[s] = "sem" => (IsServed(s)' <=> IsServed(s))
                           /\ IsReleased(s)' => IsReleased(s)
    BY <2>1, <2>2 DEF TypeOK, Goto, Waiting, IsServed, IsReleased
  <2> QED
    BY <2>3, SleepersUnserved
<1>13. ASSUME NEW t \in Threads,
              \/ MultiTimeout(t) \/ SpuriousWake(t)
              \/ WaitMultiple(t, "any") \/ WaitMultiple(t, "all")
       PROVE  NoSleepOnSignal'
  <2>1. UNCHANGED <<semVars, eventVars>> /\ asleep' \subseteq asleep
    BY <1>13 DEF MultiTimeout, SpuriousWake, WaitMultiple
  <2>2. UNCHANGED at \/ \E p \in Places \ {"sem", "event"} : Goto(t, p)
    BY <1>13 DEF MultiTimeout, SpuriousWake, WaitMultiple, Places
  <2>3. \A s \in asleep' : /\ at'[s] \in {"sem", "event"} => at'[s] = at[s]
                           /\ IsServed(s)' <=> IsServed(s)
                           /\ IsReleased(s)' <=> IsReleased(s)
    BY <2>1, <2>2 DEF TypeOK, Goto, IsServed, IsReleased, semVars, eventVars
  <2> QED
    BY <2>1, <2>3, SleepersUnserved
<1>14. CASE UNCHANGED vars
  BY <1>14, SleepersUnserved DEF vars, semVars, eventVars, IsServed, IsReleased
<1> QED
  BY <1>1, <1>2, <1>3, <1>4, <1>5, <1>6, <1>7, <1>8, <1>9, <1>10, <1>11, <1>12, <1>13, <1>14
     DEF Next, Run

\* Every change of what a thread waits for is notified: nobody sleeps on a
\* semaphore that serves it or on an event that released it.
THEOREM NobodySleepsOnSignal == Spec => []NoSleepOnSignal
<1>1. Init => TypeOK /\ LineIsWaiters /\ NoSleepOnSignal
  BY TypeInit, LineInit, SleepInit
<1>2. TypeOK /\ LineIsWaiters /\ NoSleepOnSignal /\ [Next]_vars
        => (TypeOK /\ LineIsWaiters /\ NoSleepOnSignal)'
  BY TypeNext, LineNext, SleepNext
<1> QED
  BY <1>1, <1>2, PTL DEF Spec

-----------------------------------------------------------------------------
(* The tickets implement FifoSemaphore.tla.                                *)

\* With the first ticket being served, a thread has nobody to let pass exactly
\* when it holds that ticket.
LEMMA ServedFirst ==
  ASSUME TypeOK, TicketsAccounted, NEW t \in Waiting("sem")
  PROVE  ticket[t] = serve <=> Ahead[t] = {}
<1>1. /\ t \in Threads /\ at[t] = "sem"
      /\ Ahead[t] = {s \in Waiting("sem") : ticket[s] < ticket[t]}
  BY DEF Ahead, Waiting
<1>2. serve \in Nat /\ next \in Nat /\ \A s \in Waiting("sem") : ticket[s] \in Nat
  BY HostWaitAssumption DEF TypeOK, Waiting
<1>3. \A s \in Waiting("sem") : serve <= ticket[s] /\ ticket[s] < next
  <2> SUFFICES ASSUME NEW s \in Waiting("sem") PROVE serve <= ticket[s] /\ ticket[s] < next
    OBVIOUS
  <2>1. ticket[s] \in serve .. next - 1
    BY DEF TicketsAccounted, LiveTickets
  <2> QED
    BY <1>2, <2>1
<1>4. PICK r \in Waiting("sem") : ticket[r] = serve
  <2>1. serve \in serve .. next - 1
    BY <1>2, <1>3
  <2> QED
    BY <2>1 DEF TicketsAccounted, LiveTickets
<1> QED
  BY <1>1, <1>2, <1>3, <1>4

LEMMA NobodyWaits ==
  ASSUME TypeOK, TicketsAccounted
  PROVE  serve = next <=> Waiting("sem") = {}
<1>1. serve \in Nat /\ next \in Nat
  BY HostWaitAssumption DEF TypeOK
<1>2. Waiting("sem") = {} <=> LiveTickets = {}
  BY DEF LiveTickets
<1>3. serve = next => serve .. next - 1 = {}
  BY <1>1
<1>4. serve # next => serve \in serve .. next - 1
  BY <1>1 DEF TicketsAccounted
<1> QED
  BY <1>2, <1>3, <1>4 DEF TicketsAccounted

LEMMA AheadSame ==
  ASSUME Waiting("sem")' = Waiting("sem"), UNCHANGED ticket
  PROVE  Ahead' = Ahead
<1>1. \A t \in Threads : (at[t] = "sem" <=> t \in Waiting("sem")) /\ (at'[t] = "sem" <=> t \in Waiting("sem")')
  BY DEF Waiting
<1> QED
  BY <1>1 DEF Ahead

LEMMA AheadLeave ==
  ASSUME TypeOK, NEW t \in Threads, Goto(t, "out"), UNCHANGED ticket
  PROVE  Fifo!Leave(t)
<1>1. Waiting("sem")' = Waiting("sem") \ {t}
  BY DEF TypeOK, Goto, Waiting
<1>2. \A s \in Threads : (at[s] = "sem" <=> s \in Waiting("sem")) /\ (at'[s] = "sem" <=> s \in Waiting("sem")')
  BY DEF Waiting
<1>3. \A s \in Threads : Ahead'[s] = IF s = t THEN {} ELSE Ahead[s] \ {t}
  BY <1>1, <1>2 DEF Ahead
<1>4. Ahead' = [s \in Threads |-> IF s = t THEN {} ELSE Ahead[s] \ {t}]
  BY <1>3 DEF Ahead
<1> QED
  BY <1>1, <1>4 DEF Fifo!Leave

LEMMA FifoInit == Init => Fifo!Init
<1> SUFFICES ASSUME Init PROVE Fifo!Init
  OBVIOUS
<1>1. Waiting("sem") = {}
  BY DEF Init, Waiting
<1>2. Ahead = [t \in Threads |-> {}]
  BY DEF Init, Ahead
<1> QED
  BY <1>1, <1>2 DEF Init, Fifo!Init

LEMMA FifoNext == TypeOK /\ TicketsAccounted /\ [Next]_vars => [Fifo!Next]_(Fifo!vars)
<1> SUFFICES ASSUME TypeOK, TicketsAccounted, [Next]_vars PROVE [Fifo!Next]_(Fifo!vars)
  OBVIOUS
<1>1. ASSUME NEW n \in 1..MaxCount, Release(n) PROVE Fifo!Next
  <2>1. Waiting("sem")' = Waiting("sem") /\ Ahead' = Ahead
    BY <1>1, AheadSame DEF Release, Waiting
  <2>2. Fifo!Release(n)
    BY <1>1, <2>1 DEF Release, Fifo!Release
  <2> QED
    BY <2>2 DEF Fifo!Next
<1>2. ASSUME NEW t \in Threads, SemTake(t) PROVE Fifo!Next
  <2>1. t \in Waiting("sem") /\ Ahead[t] = {}
    BY <1>2, ServedFirst DEF SemTake, IsServed, Waiting
  <2>2. Fifo!Leave(t)
    BY <1>2, AheadLeave DEF SemTake
  <2>3. Fifo!Take(t)
    BY <1>2, <2>1, <2>2 DEF SemTake, IsServed, Fifo!Take
  <2> QED
    BY <2>3 DEF Fifo!Next
<1>3. ASSUME NEW t \in Threads, SemTimeout(t) PROVE Fifo!Next
  <2>1. t \in Waiting("sem") /\ UNCHANGED count
    BY <1>3 DEF SemTimeout, Waiting
  <2>2. ~ (count > 0 /\ Ahead[t] = {})
    BY <1>3, <2>1, ServedFirst DEF SemTimeout, IsServed
  <2>3. Fifo!Leave(t)
    BY <1>3, AheadLeave DEF SemTimeout
  <2>4. Fifo!GiveUp(t)
    BY <2>1, <2>2, <2>3 DEF Fifo!GiveUp
  <2> QED
    BY <2>4 DEF Fifo!Next
<1>4. ASSUME NEW t \in Threads, SemWaitAtOnce(t) PROVE Fifo!Next
  <2>1. Waiting("sem")' = Waiting("sem") /\ Ahead' = Ahead
    BY <1>4, AheadSame DEF SemWaitAtOnce, Waiting
  <2>2. Waiting("sem") = {}
    BY <1>4, NobodyWaits DEF SemWaitAtOnce
  <2>3. Fifo!TakeAtOnce
    BY <1>4, <2>1, <2>2 DEF SemWaitAtOnce, Fifo!TakeAtOnce
  <2> QED
    BY <2>3 DEF Fifo!Next
<1>5. ASSUME NEW t \in Threads, SemWait(t) PROVE Fifo!Next
  <2>1. Waiting("sem")' = Waiting("sem") \cup {t} /\ t \notin Waiting("sem")
    BY <1>5 DEF SemWait, TypeOK, Goto, Waiting
  <2>2. ~ (count > 0 /\ Waiting("sem") = {}) /\ UNCHANGED count
    BY <1>5, NobodyWaits DEF SemWait
  <2>3. \A s \in Threads : (at[s] = "sem" <=> s \in Waiting("sem")) /\ (at'[s] = "sem" <=> s \in Waiting("sem")')
    BY DEF Waiting
  <2>4. ticket'[t] = next /\ \A s \in Waiting("sem") : ticket'[s] = ticket[s]
    BY <1>5, <2>1 DEF SemWait, TypeOK
  <2>5. \A s \in Waiting("sem") : ticket[s] \in Nat /\ next \in Nat /\ ticket[s] < next
    <3> SUFFICES ASSUME NEW s \in Waiting("sem")
                 PROVE  ticket[s] \in Nat /\ next \in Nat /\ ticket[s] < next
      OBVIOUS
    <3>1. ticket[s] \in serve .. next - 1
      BY DEF TicketsAccounted, LiveTickets
    <3>2. ticket[s] \in Nat /\ next \in Nat /\ serve \in Nat
      BY HostWaitAssumption DEF TypeOK, Waiting
    <3> QED
      BY <3>1, <3>2
  <2>6. Ahead'[t] = Waiting("sem")
    <3>1. Ahead'[t] = {s \in Waiting("sem") \cup {t} : ticket'[s] < ticket'[t]}
      BY <2>1, <2>3 DEF Ahead
    <3>2. \A s \in Waiting("sem") \cup {t} : ticket'[s] < ticket'[t] <=> s \in Waiting("sem")
      <4>1. next \in Nat
        BY HostWaitAssumption DEF TypeOK
      <4> QED
        BY <2>1, <2>4, <2>5, <4>1
    <3> QED
      BY <3>1, <3>2
  <2>7. ASSUME NEW s \in Threads, s # t
        PROVE  Ahead'[s] = Ahead[s]
    <3>1. CASE s \in Waiting("sem")
      <4>1. Ahead'[s] = {r \in Waiting("sem") \cup {t} : ticket'[r] < ticket'[s]}
        BY <2>1, <2>3, <3>1 DEF Ahead
      <4>2. \A r \in Waiting("sem") \cup {t} :
              ticket'[r] < ticket'[s] <=> r \in Waiting("sem") /\ ticket[r] < ticket[s]
        BY <2>1, <2>4, <2>5, <3>1
      <4>3. Ahead[s] = {r \in Waiting("sem") : ticket[r] < ticket[s]}
        BY <2>3, <3>1 DEF Ahead
      <4> QED
        BY <4>1, <4>2, <4>3
    <3>2. CASE s \notin Waiting("sem")
      BY <2>1, <2>3, <2>7, <3>2 DEF Ahead
    <3> QED
      BY <3>1, <3>2
  <2>8. Ahead' = [Ahead EXCEPT ![t] = Waiting("sem")]
    BY <2>6, <2>7 DEF Ahead
  <2>9. Fifo!Enter(t)
    BY <2>1, <2>2, <2>8 DEF Fifo!Enter
  <2> QED
    BY <2>9 DEF Fifo!Next
<1>6. ASSUME NEW t \in Threads, MultiTake(t) PROVE [Fifo!Next]_(Fifo!vars)
  <2>1. Waiting("sem")' = Waiting("sem")
    BY <1>6 DEF MultiTake, Goto, TypeOK, Waiting
  <2>2. Ahead' = Ahead
    BY <1>6, <2>1, AheadSame DEF MultiTake
  <2>3. CASE UNCHANGED count
    BY <2>1, <2>2, <2>3 DEF Fifo!vars
  <2>4. CASE count' # count
    <3>1. SemSignaled /\ TakeSem
      BY <1>6, <2>4 DEF MultiTake
    <3>2. Waiting("sem") = {}
      BY <3>1, NobodyWaits DEF SemSignaled
    <3>3. Fifo!TakeAtOnce
      BY <2>1, <2>2, <3>1, <3>2 DEF SemSignaled, TakeSem, Fifo!TakeAtOnce
    <3> QED
      BY <3>3 DEF Fifo!Next
  <2> QED
    BY <2>3, <2>4
<1>7. ASSUME UNCHANGED <<count, ticket>>,
             \/ UNCHANGED at
             \/ \E t \in Threads : at[t] # "sem" /\ \E p \in Places \ {"sem"} : Goto(t, p)
      PROVE  UNCHANGED Fifo!vars
  <2>1. Waiting("sem")' = Waiting("sem")
    BY <1>7 DEF Waiting, Goto, TypeOK
  <2> QED
    BY <1>7, <2>1, AheadSame DEF Fifo!vars
<1>8. ASSUME NEW t \in Threads,
             \/ SemSleepAgain(t) \/ EventTake(t) \/ EventSleepAgain(t) \/ EventTimeout(t)
             \/ EventWaitAtOnce(t) \/ EventWait(t) \/ MultiTimeout(t)
             \/ SpuriousWake(t) \/ WaitMultiple(t, "any") \/ WaitMultiple(t, "all")
      PROVE  UNCHANGED Fifo!vars
  <2>1. UNCHANGED <<count, ticket>>
    BY <1>8 DEF SemSleepAgain, EventTake, EventSleepAgain, EventTimeout, EventWaitAtOnce,
                EventWait, MultiTimeout, SpuriousWake, WaitMultiple, semVars
  <2>2. UNCHANGED at \/ (at[t] # "sem" /\ \E p \in Places \ {"sem"} : Goto(t, p))
    BY <1>8 DEF SemSleepAgain, EventTake, EventSleepAgain, EventTimeout, EventWaitAtOnce,
                EventWait, MultiTimeout, SpuriousWake, WaitMultiple, Places
  <2> QED
    BY <1>7, <2>1, <2>2
<1>9. CASE EventSet \/ EventReset \/ UNCHANGED vars
  <2>1. UNCHANGED <<at, count, ticket>>
    BY <1>9 DEF EventSet, EventReset, vars, semVars
  <2> QED
    BY <1>7, <2>1
<1> QED
  BY <1>1, <1>2, <1>3, <1>4, <1>5, <1>6, <1>8, <1>9 DEF Next, Run

\* The tickets implement the semaphore that serves its waiters in order: nobody
\* overtakes a thread that waits for the semaphore alone, and nobody gives up
\* what it could take.
THEOREM TicketsServeInOrder == Spec => ServesInOrder
<1>1. Init => TypeOK /\ TicketsAccounted
  BY TypeInit, TicketsInit
<1>2. TypeOK /\ TicketsAccounted /\ [Next]_vars
        => (TypeOK /\ TicketsAccounted)' /\ [Fifo!Next]_(Fifo!vars)
  BY TypeNext, TicketsNext, FifoNext
<1> QED
  BY <1>1, <1>2, FifoInit, PTL DEF Spec, ServesInOrder, Fifo!Spec
=============================================================================
