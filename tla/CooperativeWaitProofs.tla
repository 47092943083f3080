------------------------ MODULE CooperativeWaitProofs ------------------------
(***************************************************************************)
(* Proofs about CooperativeWait, for any number of threads, kinds of       *)
(* object, counts and terminations: the types, the line of waiters, the    *)
(* mutant's one owner, and the wake of whoever may be served.              *)
(***************************************************************************)
EXTENDS CooperativeWait, QueueLemmas

-----------------------------------------------------------------------------
(* Types.  Acquisitions stay within their bound because a wait begins      *)
(* below it, and the recursion count because it never exceeds what the     *)
(* owner was granted.                                                      *)

WaitSteps == {"entered", "sample", "poll", "acquire", "callback", "failed", "parked"}

Holding ==
  /\ \A t \in Threads : at[t] \in WaitSteps => holds[t] < MaxHold
  /\ owner # NoThread =>
       /\ recursion <= holds[owner]
       /\ at[owner] # "clear" => recursion > 0

TypeInv == TypeOK /\ Holding

LEMMA TypeInit == Init => TypeInv
<1> SUFFICES ASSUME Init PROVE TypeInv
  OBVIOUS
<1>1. permits \in 0..MaxPermits
  BY CooperativeWaitAssumption DEF Init, MaxPermits
<1>2. TypeOK
  BY <1>1, CooperativeWaitAssumption DEF Init, TypeOK, Steps
<1>3. Holding
  BY CooperativeWaitAssumption DEF Init, Holding, WaitSteps
<1> QED
  BY <1>2, <1>3 DEF TypeInv

\* What moves a thread between steps, but neither into a wait nor off the clearing of
\* a mutant, and touches no hold.
LEMMA HoldingSame ==
  ASSUME TypeInv, UNCHANGED <<owner, recursion, holds>>, NEW t \in Threads, NEW step,
         at' = [at EXCEPT ![t] = step],
         step \in WaitSteps => at[t] \in WaitSteps \/ holds[t] < MaxHold,
         at[t] # "clear"
  PROVE  Holding'
<1>1. \A u \in Threads : at'[u] = IF u = t THEN step ELSE at[u]
  BY DEF TypeInv, TypeOK
<1>2. \A u \in Threads : at'[u] \in WaitSteps => holds[u] < MaxHold
  BY <1>1 DEF TypeInv, Holding
<1>3. ASSUME owner # NoThread
      PROVE  recursion <= holds[owner] /\ (at'[owner] # "clear" => recursion > 0)
  BY <1>1, <1>3 DEF TypeInv, TypeOK, Holding
<1> QED
  BY <1>2, <1>3 DEF Holding

\* The actions of the module, one disjunct each.
Action(t) ==
  \/ Wait(t) \/ EnterCooperativeWait(t) \/ WaitMultiple(t) \/ Sample(t)
  \/ Poll(t) \/ Acquire(t) \/ WaitCallback(t) \/ TimeOut(t)
  \/ BlockCurrentThread(t) \/ Reready(t) \/ LeaveCooperativeWait(t)
  \/ RemoveWaiter(t) \/ Bump(t) \/ ReleaseSemaphore(t) \/ SetEvent(t)
  \/ ResetEvent(t) \/ PulseEvent(t) \/ PulseHost(t) \/ ReleaseMutant(t)
  \/ ClearOwner(t) \/ FreeMutant(t) \/ Terminate(t) \/ AbandonAllOwned(t)
  \/ AbandonCooperativeWait(t) \/ TerminateThread(t) \/ ExitIfTerminated(t)

LEMMA Actions == Next => \E t \in Threads : Action(t)
BY CooperativeWaitAssumption, Zenon DEF Next, Begin, Continue, Kill, Action

\* What giving up a registration does to the line.
LEMMA UnregisterTyped ==
  ASSUME TypeOK, NEW t \in Threads, Unregister(t)
  PROVE  /\ fifo' \in Seq(Threads)
         /\ registered' \in [Threads -> BOOLEAN]
         /\ moved' \in [Threads -> BOOLEAN]
<1>1. RemoveFirst(fifo, t) \in Seq(Threads)
  BY RemoveFirstQueue DEF TypeOK
<1> QED
  BY <1>1 DEF Unregister, AllMoved, TypeOK

LEMMA TypeNext == TypeInv /\ Next => TypeInv'
<1> SUFFICES ASSUME TypeInv, Next PROVE TypeInv'
  OBVIOUS
<1> USE DEF objectVars, waitVars, epochVars, killVars, Goto
<1>0. PICK t \in Threads : Action(t)
  BY Actions
<1>typ. TypeOK /\ Holding
  BY DEF TypeInv
<1>1. CASE Wait(t)
  <2>1. fifo' \in Seq(Threads)
    <3>1. Append(fifo, t) \in Seq(Threads)
      BY <1>typ, AppendQueue DEF TypeOK
    <3> QED
      BY <1>1, <1>typ, <3>1 DEF Wait, TypeOK
  <2>2. TypeOK'
    BY <1>1, <1>typ, <2>1 DEF Wait, TypeOK, Steps, MaxPermits
  <2>3. Holding'
    BY <1>1, <1>typ, HoldingSame DEF Wait, WaitSteps
  <2> QED
    BY <2>2, <2>3 DEF TypeInv
<1>2. CASE EnterCooperativeWait(t)
  <2>1. TypeOK'
    BY <1>2, <1>typ DEF EnterCooperativeWait, TypeOK, Steps, MaxPermits, AllMoved
  <2>2. Holding'
    BY <1>2, <1>typ, HoldingSame DEF EnterCooperativeWait, WaitSteps
  <2> QED
    BY <2>1, <2>2 DEF TypeInv
<1>3. CASE WaitMultiple(t)
  <2>1. TypeOK'
    BY <1>3, <1>typ DEF WaitMultiple, TypeOK, Steps, MaxPermits, AllMoved
  <2>2. Holding'
    BY <1>3, <1>typ, HoldingSame DEF WaitMultiple, WaitSteps
  <2> QED
    BY <2>1, <2>2 DEF TypeInv
<1>4. CASE Sample(t)
  <2>1. TypeOK'
    BY <1>4, <1>typ DEF Sample, TypeOK, Steps, MaxPermits, AllMoved
  <2>2. Holding'
    BY <1>4, <1>typ, HoldingSame DEF Sample, WaitSteps
  <2> QED
    BY <2>1, <2>2 DEF TypeInv
<1>5. CASE TimeOut(t)
  <2>1. TypeOK'
    BY <1>5, <1>typ DEF TimeOut, TypeOK, Steps, MaxPermits, AllMoved
  <2>2. Holding'
    BY <1>5, <1>typ, HoldingSame DEF TimeOut, WaitSteps
  <2> QED
    BY <2>1, <2>2 DEF TypeInv
<1>6. CASE BlockCurrentThread(t)
  <2>1. TypeOK'
    BY <1>6, <1>typ DEF BlockCurrentThread, TypeOK, Steps, MaxPermits, AllMoved
  <2>2. Holding'
    BY <1>6, <1>typ, HoldingSame DEF BlockCurrentThread, WaitSteps
  <2> QED
    BY <2>1, <2>2 DEF TypeInv
<1>7. CASE Reready(t)
  <2>1. TypeOK'
    BY <1>7, <1>typ DEF Reready, TypeOK, Steps, MaxPermits, AllMoved
  <2>2. Holding'
    BY <1>7, <1>typ, HoldingSame DEF Reready, WaitSteps
  <2> QED
    BY <2>1, <2>2 DEF TypeInv
<1>8. CASE LeaveCooperativeWait(t)
  <2>1. TypeOK'
    BY <1>8, <1>typ DEF LeaveCooperativeWait, TypeOK, Steps, MaxPermits, AllMoved
  <2>2. Holding'
    BY <1>8, <1>typ, HoldingSame DEF LeaveCooperativeWait, WaitSteps
  <2> QED
    BY <2>1, <2>2 DEF TypeInv
<1>9. CASE Bump(t)
  <2>1. TypeOK'
    BY <1>9, <1>typ DEF Bump, TypeOK, Steps, MaxPermits, AllMoved
  <2>2. Holding'
    BY <1>9, <1>typ, HoldingSame DEF Bump, WaitSteps
  <2> QED
    BY <2>1, <2>2 DEF TypeInv
<1>10. CASE FreeMutant(t)
  <2>1. TypeOK'
    BY <1>10, <1>typ, CooperativeWaitAssumption DEF FreeMutant, TypeOK, Steps, MaxPermits, AllMoved
  <2>2. Holding'
    BY <1>10, <1>typ, HoldingSame DEF FreeMutant, WaitSteps
  <2> QED
    BY <2>1, <2>2 DEF TypeInv
<1>11. CASE SetEvent(t)
  <2>1. TypeOK'
    BY <1>11, <1>typ, CooperativeWaitAssumption DEF SetEvent, TypeOK, Steps, MaxPermits, AllMoved
  <2>2. Holding'
    BY <1>11, <1>typ, HoldingSame DEF SetEvent, WaitSteps
  <2> QED
    BY <2>1, <2>2 DEF TypeInv
<1>12. CASE PulseHost(t)
  <2>1. TypeOK'
    BY <1>12, <1>typ, CooperativeWaitAssumption DEF PulseHost, TypeOK, Steps, MaxPermits, AllMoved
  <2>2. Holding'
    BY <1>12, <1>typ, HoldingSame DEF PulseHost, WaitSteps
  <2> QED
    BY <2>1, <2>2 DEF TypeInv
<1>13. CASE ReleaseSemaphore(t)
  <2>1. TypeOK'
    BY <1>13, <1>typ, CooperativeWaitAssumption DEF ReleaseSemaphore, TypeOK, Steps, MaxPermits, AllMoved
  <2>2. Holding'
    BY <1>13, <1>typ, HoldingSame DEF ReleaseSemaphore, WaitSteps
  <2> QED
    BY <2>1, <2>2 DEF TypeInv
<1>14. CASE PulseEvent(t)
  <2>1. TypeOK'
    BY <1>14, <1>typ DEF PulseEvent, TypeOK, Steps, MaxPermits, AllMoved
  <2>2. Holding'
    BY <1>14, <1>typ, HoldingSame DEF PulseEvent, WaitSteps
  <2> QED
    BY <2>1, <2>2 DEF TypeInv
<1>15. CASE Poll(t)
  <2>1. TypeOK'
    BY <1>15, <1>typ DEF Poll, TypeOK, Steps, MaxPermits
  <2>2. Holding'
    BY <1>15, <1>typ, HoldingSame DEF Poll, WaitSteps
  <2> QED
    BY <2>1, <2>2 DEF TypeInv
<1>16. CASE Acquire(t)
  <2>1. permits' \in 0..MaxPermits
    BY <1>16, <1>typ, CooperativeWaitAssumption DEF Acquire, TypeOK, MaxPermits
  <2>2. TypeOK'
    BY <1>16, <1>typ, <2>1 DEF Acquire, TypeOK, Steps, MaxPermits
  <2>3. Holding'
    BY <1>16, <1>typ, HoldingSame DEF Acquire, WaitSteps
  <2> QED
    BY <2>2, <2>3 DEF TypeInv
<1>17. CASE RemoveWaiter(t)
  <2>1. fifo' \in Seq(Threads)
    BY <1>17, <1>typ, RemoveFirstQueue DEF RemoveWaiter, TypeOK
  <2>2. TypeOK'
    BY <1>17, <1>typ, <2>1 DEF RemoveWaiter, TypeOK, Steps, MaxPermits
  <2>3. PICK step : at' = [at EXCEPT ![t] = step] /\ step \in {"bump", "idle"}
    BY <1>17 DEF RemoveWaiter
  <2>4. Holding'
    BY <1>17, <1>typ, <2>3, HoldingSame DEF RemoveWaiter, WaitSteps
  <2> QED
    BY <2>2, <2>4 DEF TypeInv
<1>18. CASE WaitCallback(t)
  <2>1. PICK step : at' = [at EXCEPT ![t] = step] /\ step \in {"idle", "leave"}
    BY <1>18 DEF WaitCallback
  <2>2. \A u \in Threads : at'[u] = IF u = t THEN step ELSE at[u]
    BY <1>typ, <2>1 DEF TypeOK
  <2>3. /\ at[t] = "callback"
        /\ holds[t] \in Nat /\ holds[t] < MaxHold /\ MaxHold \in Nat
        /\ UNCHANGED <<kind, permits, fifo, multi, again, registered, moved, pulsed, pending, terminator>>
    BY <1>18, <1>typ, CooperativeWaitAssumption DEF WaitCallback, TypeOK, Holding, WaitSteps
  <2>4. CASE kind = "mutant"
    <3>1. /\ owner' = t
          /\ recursion' = IF owner = t THEN recursion + 1 ELSE 1
          /\ chained' \in Threads \cup {NoThread}
          /\ holds' = [holds EXCEPT ![t] = @ + 1]
      BY <1>18, <1>typ, <2>4 DEF WaitCallback, TypeOK
    <3>2. \A u \in Threads : holds'[u] = IF u = t THEN holds[t] + 1 ELSE holds[u]
      BY <1>typ, <3>1 DEF TypeOK
    <3>3. recursion' \in Nat /\ recursion' > 0 /\ recursion' <= holds[t] + 1
      <4>1. CASE owner = t
        <5>1. recursion \in Nat /\ recursion <= holds[t]
          BY <1>typ, <4>1, CooperativeWaitAssumption DEF TypeOK, Holding
        <5> QED
          BY <2>3, <3>1, <4>1, <5>1
      <4>2. CASE owner # t
        BY <2>3, <3>1, <4>2
      <4> QED
        BY <4>1, <4>2
    <3>4. recursion' \in 0..MaxHold /\ holds[t] + 1 \in 0..MaxHold
      BY <2>3, <3>3
    <3>5. holds' \in [Threads -> 0..MaxHold]
      BY <1>typ, <3>1, <3>4 DEF TypeOK
    <3>6. TypeOK'
      BY <1>typ, <2>1, <2>3, <3>1, <3>4, <3>5 DEF TypeOK, Steps, MaxPermits
    <3>7. Holding'
      <4>1. \A u \in Threads : at'[u] \in WaitSteps => holds'[u] < MaxHold
        BY <1>typ, <2>1, <2>2, <3>2 DEF Holding, WaitSteps
      <4>2. recursion' <= holds'[owner'] /\ recursion' > 0
        BY <3>1, <3>2, <3>3
      <4> QED
        BY <4>1, <4>2 DEF Holding
    <3> QED
      BY <3>6, <3>7 DEF TypeInv
  <2>5. CASE kind # "mutant"
    <3>1. UNCHANGED <<owner, recursion, chained, holds>>
      BY <1>18, <2>5 DEF WaitCallback
    <3>2. TypeOK'
      BY <1>typ, <2>1, <2>3, <3>1 DEF TypeOK, Steps, MaxPermits
    <3>3. Holding'
      BY <2>1, <2>3, <3>1, HoldingSame DEF WaitSteps
    <3> QED
      BY <3>2, <3>3 DEF TypeInv
  <2> QED
    BY <2>4, <2>5
<1>19. CASE ReleaseMutant(t)
  <2>1. PICK step : /\ at' = [at EXCEPT ![t] = step]
                    /\ step \in {"idle", "clear"}
                    /\ step = "idle" => recursion # 1
    <3>1. CASE recursion = 1
      <4>1. at' = [at EXCEPT ![t] = "clear"]
        BY <1>19, <3>1 DEF ReleaseMutant
      <4>2. "clear" # "idle"
        OBVIOUS
      <4> QED
        BY <4>1, <4>2, Zenon
    <3>2. CASE recursion # 1
      <4>1. at' = [at EXCEPT ![t] = "idle"]
        BY <1>19, <3>2 DEF ReleaseMutant
      <4> QED
        BY <3>2, <4>1
    <3> QED
      BY <3>1, <3>2
  <2>2. \A u \in Threads : at'[u] = IF u = t THEN step ELSE at[u]
    BY <1>typ, <2>1 DEF TypeOK
  <2>3. /\ owner = t /\ owner' = t
        /\ recursion \in Nat /\ recursion > 0 /\ recursion <= holds[t]
        /\ holds[t] \in Nat /\ holds[t] <= MaxHold /\ MaxHold \in Nat
    BY <1>19, <1>typ, CooperativeWaitAssumption DEF ReleaseMutant, TypeOK, Holding
  <2>4. recursion' = recursion - 1 /\ holds' = [holds EXCEPT ![t] = @ - 1]
    BY <1>19 DEF ReleaseMutant
  <2>5. \A u \in Threads : holds'[u] = IF u = t THEN holds[t] - 1 ELSE holds[u]
    BY <1>typ, <2>4 DEF TypeOK
  <2>6. recursion' \in 0..MaxHold /\ holds[t] - 1 \in 0..MaxHold
    BY <2>3, <2>4
  <2>7. holds' \in [Threads -> 0..MaxHold]
    BY <1>typ, <2>4, <2>6 DEF TypeOK
  <2>8. TypeOK'
    BY <1>19, <1>typ, <2>1, <2>6, <2>7 DEF ReleaseMutant, TypeOK, Steps, MaxPermits
  <2>9. Holding'
    <3>1. \A u \in Threads : at'[u] \in WaitSteps => holds'[u] < MaxHold
      BY <1>typ, <2>1, <2>2, <2>5 DEF Holding, WaitSteps
    <3>2. recursion' <= holds'[owner'] /\ (at'[owner'] # "clear" => recursion' > 0)
      BY <2>1, <2>2, <2>3, <2>4, <2>5
    <3> QED
      BY <3>1, <3>2 DEF Holding
  <2> QED
    BY <2>8, <2>9 DEF TypeInv
<1>20. CASE ClearOwner(t)
  <2>1. TypeOK'
    BY <1>20, <1>typ DEF ClearOwner, TypeOK, Steps, MaxPermits
  <2>2. \A u \in Threads : at'[u] = IF u = t THEN "signal" ELSE at[u]
    BY <1>20, <1>typ DEF ClearOwner, TypeOK
  <2>3. Holding'
    BY <1>20, <1>typ, <2>2 DEF ClearOwner, Holding, WaitSteps
  <2> QED
    BY <2>1, <2>3 DEF TypeInv
<1>21. CASE ResetEvent(t)
  <2>1. TypeOK'
    BY <1>21, <1>typ, CooperativeWaitAssumption DEF ResetEvent, TypeOK, MaxPermits
  <2>2. Holding'
    BY <1>21, <1>typ DEF ResetEvent, Holding
  <2> QED
    BY <2>1, <2>2 DEF TypeInv
<1>22. CASE Terminate(t)
  <2>1. TypeOK'
    BY <1>22, <1>typ DEF Terminate, TypeOK, MaxPermits
  <2>2. Holding'
    BY <1>22, <1>typ DEF Terminate, Holding
  <2> QED
    BY <2>1, <2>2 DEF TypeInv
<1>23. CASE TerminateThread(t)
  <2>1. TypeOK'
    BY <1>23, <1>typ DEF TerminateThread, TypeOK, MaxPermits
  <2>2. Holding'
    BY <1>23, <1>typ DEF TerminateThread, Holding
  <2> QED
    BY <2>1, <2>2 DEF TypeInv
<1>24. CASE AbandonAllOwned(t)
  <2>1. /\ owner' \in Threads \cup {NoThread} /\ chained' \in Threads \cup {NoThread}
        /\ recursion' \in 0..MaxHold /\ moved' \in [Threads -> BOOLEAN]
        /\ permits' \in 0..MaxPermits
    <3>1. CASE chained = t /\ owner # NoThread
      <4>1. 1 \in 0..MaxPermits /\ 0 \in 0..MaxHold
        BY CooperativeWaitAssumption DEF MaxPermits
      <4>2. /\ owner' = NoThread /\ chained' = NoThread /\ recursion' = 0
            /\ permits' = 1 /\ moved' = AllMoved
        BY <1>24, <3>1 DEF AbandonAllOwned
      <4> QED
        BY <4>1, <4>2 DEF AllMoved
    <3>2. CASE ~(chained = t /\ owner # NoThread)
      BY <1>24, <1>typ, <3>2 DEF AbandonAllOwned, TypeOK, MaxPermits
    <3> QED
      BY <3>1, <3>2
  <2>2. TypeOK'
    BY <1>24, <1>typ, <2>1 DEF AbandonAllOwned, TypeOK, MaxPermits
  <2>3. owner' = NoThread \/ UNCHANGED <<owner, recursion>>
    BY <1>24 DEF AbandonAllOwned
  <2>4. Holding'
    BY <1>24, <1>typ, <2>3 DEF AbandonAllOwned, Holding
  <2> QED
    BY <2>2, <2>4 DEF TypeInv
<1>25. CASE AbandonCooperativeWait(t)
  <2>1. TypeOK'
    BY <1>25, <1>typ, UnregisterTyped DEF AbandonCooperativeWait, TypeOK, MaxPermits
  <2>2. Holding'
    BY <1>25, <1>typ DEF AbandonCooperativeWait, Holding
  <2> QED
    BY <2>1, <2>2 DEF TypeInv
<1>26. CASE ExitIfTerminated(t)
  <2>1. TypeOK'
    BY <1>26, <1>typ, UnregisterTyped DEF ExitIfTerminated, TypeOK, Steps, MaxPermits
  <2>2. Holding'
    BY <1>26, <1>typ, HoldingSame DEF ExitIfTerminated, WaitSteps
  <2> QED
    BY <2>1, <2>2 DEF TypeInv
<1> QED
  BY <1>0, <1>1, <1>2, <1>3, <1>4, <1>5, <1>6, <1>7, <1>8, <1>9, <1>10, <1>11, <1>12, <1>13, <1>14, <1>15, <1>16, <1>17, <1>18, <1>19, <1>20, <1>21, <1>22, <1>23, <1>24, <1>25, <1>26 DEF Action

LEMMA TypeStep == TypeInv /\ [Next]_vars => TypeInv'
<1> SUFFICES ASSUME TypeInv, UNCHANGED vars PROVE TypeInv'
  BY TypeNext
<1> QED
  BY DEF TypeInv, TypeOK, Holding, MaxPermits, vars, objectVars, waitVars, epochVars, killVars

LEMMA TypeInductive == Spec => []TypeInv
<1> QED
  BY TypeInit, TypeStep, PTL DEF Spec

\* The types, with the recursion count and the acquisitions of a mutant in their
\* bounds whatever is terminated when.
THEOREM TypeCorrect == Spec => []TypeOK
<1>1. TypeInv => TypeOK
  BY DEF TypeInv
<1> QED
  BY <1>1, TypeInductive, PTL

-----------------------------------------------------------------------------
(* The line.  Who is in it is registered with the object, but for the      *)
(* moments after it joined and before it leaves, when nothing can end it;  *)
(* so what ends a thread finds the registration and takes it out.          *)

LineSteps == WaitSteps \cup {"leave", "remove"}

Line ==
  /\ IsInjective(fifo)
  /\ \A t \in ToSet(fifo) : registered[t] \/ at[t] \in {"entered", "remove"}
  /\ \A t \in Threads : at[t] = "dead" => ~registered[t]
  /\ \A t \in Threads :
       at[t] \in LineSteps /\ ~multi[t] /\ terminator[t] = "none" => t \in ToSet(fifo)

LEMMA FifoMembers ==
  ASSUME TypeOK
  PROVE  /\ ToSet(fifo) \subseteq Threads
         /\ \A t : Contains(fifo, t) <=> t \in ToSet(fifo)
<1>1. Len(fifo) \in Nat /\ DOMAIN fifo = 1..Len(fifo) /\ \A i \in 1..Len(fifo) : fifo[i] \in Threads
  BY LenProperties, ElementOfSeq DEF TypeOK
<1> QED
  BY <1>1 DEF ToSet, Contains

\* What leaves the line alone and neither begins nor ends a wait in it.
LEMMA LineSame ==
  ASSUME TypeOK, Line, UNCHANGED <<fifo, registered, multi, terminator>>,
         NEW t \in Threads, NEW step, at' = [at EXCEPT ![t] = step],
         step # "dead", at[t] \notin {"entered", "remove"},
         step \in LineSteps /\ ~multi[t] => at[t] \in LineSteps
  PROVE  Line'
<1>1. \A u \in Threads : at'[u] = IF u = t THEN step ELSE at[u]
  BY DEF TypeOK
<1>2. ToSet(fifo) \subseteq Threads
  BY FifoMembers
<1>3. \A u \in ToSet(fifo) : registered[u] \/ at'[u] \in {"entered", "remove"}
  BY <1>1, <1>2 DEF Line
<1>4. \A u \in Threads : at'[u] = "dead" => ~registered[u]
  BY <1>1 DEF Line
<1>5. \A u \in Threads :
        at'[u] \in LineSteps /\ ~multi[u] /\ terminator[u] = "none" => u \in ToSet(fifo)
  BY <1>1 DEF Line
<1> QED
  BY <1>3, <1>4, <1>5 DEF Line

LEMMA LineNext == TypeInv /\ Line /\ Next => Line'
<1> SUFFICES ASSUME TypeInv, Line, Next PROVE Line'
  OBVIOUS
<1> USE DEF objectVars, waitVars, epochVars, killVars, Goto
<1>0. PICK t \in Threads : Action(t)
  BY Actions
<1>typ. TypeOK
  BY DEF TypeInv
<1>mem. ToSet(fifo) \subseteq Threads /\ \A u : Contains(fifo, u) <=> u \in ToSet(fifo)
  BY <1>typ, FifoMembers
<1>rem. /\ RemoveFirst(fifo, t) \in Seq(Threads)
        /\ IsInjective(RemoveFirst(fifo, t))
        /\ ToSet(RemoveFirst(fifo, t)) = ToSet(fifo) \ {t}
  BY <1>typ, RemoveFirstQueue DEF TypeOK, Line
<1>1. CASE Wait(t)
  <2>1. IsInjective(fifo') /\ ToSet(fifo') = ToSet(fifo) \cup {t}
    <3>1. CASE Contains(fifo, t)
      BY <1>1, <1>mem, <3>1 DEF Wait, Line
    <3>2. CASE ~Contains(fifo, t)
      <4>1. fifo' = Append(fifo, t) /\ fifo \in Seq(Threads) /\ t \notin ToSet(fifo)
        BY <1>1, <1>typ, <1>mem, <3>2 DEF Wait, TypeOK
      <4> QED
        BY <4>1, AppendQueue DEF Line
    <3> QED
      BY <3>1, <3>2
  <2>2. /\ \A u \in Threads : at'[u] = IF u = t THEN "entered" ELSE at[u]
        /\ \A u \in Threads : multi'[u] = IF u = t THEN FALSE ELSE multi[u]
        /\ UNCHANGED <<registered, terminator>>
    BY <1>1, <1>typ DEF Wait, TypeOK
  <2> QED
    BY <1>mem, <2>1, <2>2 DEF Line
<1>2. CASE EnterCooperativeWait(t)
  <2>1. /\ at[t] = "entered"
        /\ \A u \in Threads : at'[u] = IF u = t THEN "sample" ELSE at[u]
        /\ \A u \in Threads : registered'[u] = IF u = t THEN TRUE ELSE registered[u]
        /\ UNCHANGED <<fifo, multi, terminator>>
    BY <1>2, <1>typ DEF EnterCooperativeWait, TypeOK
  <2> QED
    BY <1>mem, <2>1 DEF Line, LineSteps, WaitSteps
<1>3. CASE WaitMultiple(t)
  <2>1. /\ at[t] = "idle"
        /\ \A u \in Threads : at'[u] = IF u = t THEN "sample" ELSE at[u]
        /\ \A u \in Threads : multi'[u] = IF u = t THEN TRUE ELSE multi[u]
        /\ UNCHANGED <<fifo, registered, terminator>>
    BY <1>3, <1>typ DEF WaitMultiple, TypeOK
  <2> QED
    BY <1>mem, <2>1 DEF Line
<1>4. CASE LeaveCooperativeWait(t)
  <2>1. /\ at[t] = "leave"
        /\ \A u \in Threads : at'[u] = IF u = t THEN "remove" ELSE at[u]
        /\ \A u \in Threads : registered'[u] = IF u = t THEN FALSE ELSE registered[u]
        /\ UNCHANGED <<fifo, multi, terminator>>
    BY <1>4, <1>typ DEF LeaveCooperativeWait, TypeOK
  <2> QED
    BY <1>mem, <2>1 DEF Line, LineSteps
<1>5. CASE RemoveWaiter(t)
  <2>1. PICK step : at' = [at EXCEPT ![t] = step] /\ step \in {"bump", "idle"}
    BY <1>5 DEF RemoveWaiter
  <2>2. /\ \A u \in Threads : at'[u] = IF u = t THEN step ELSE at[u]
        /\ fifo' = RemoveFirst(fifo, t)
        /\ UNCHANGED <<registered, multi, terminator>>
    BY <1>5, <1>typ, <2>1 DEF RemoveWaiter, TypeOK
  <2> QED
    BY <1>mem, <1>rem, <2>1, <2>2 DEF Line, LineSteps, WaitSteps
<1>6. CASE Sample(t)
  BY <1>6, <1>typ, LineSame DEF Sample, LineSteps, WaitSteps
<1>7. CASE Poll(t)
  BY <1>7, <1>typ, LineSame DEF Poll, LineSteps, WaitSteps
<1>8. CASE Acquire(t)
  BY <1>8, <1>typ, LineSame DEF Acquire, LineSteps, WaitSteps
<1>9. CASE WaitCallback(t)
  BY <1>9, <1>typ, LineSame DEF WaitCallback, LineSteps, WaitSteps
<1>10. CASE TimeOut(t)
  BY <1>10, <1>typ, LineSame DEF TimeOut, LineSteps, WaitSteps
<1>11. CASE BlockCurrentThread(t)
  BY <1>11, <1>typ, LineSame DEF BlockCurrentThread, LineSteps, WaitSteps
<1>12. CASE Reready(t)
  BY <1>12, <1>typ, LineSame DEF Reready, LineSteps, WaitSteps
<1>13. CASE Bump(t)
  BY <1>13, <1>typ, LineSame DEF Bump, LineSteps, WaitSteps
<1>14. CASE ReleaseSemaphore(t)
  BY <1>14, <1>typ, LineSame DEF ReleaseSemaphore, LineSteps, WaitSteps
<1>15. CASE SetEvent(t)
  BY <1>15, <1>typ, LineSame DEF SetEvent, LineSteps, WaitSteps
<1>16. CASE PulseEvent(t)
  BY <1>16, <1>typ, LineSame DEF PulseEvent, LineSteps, WaitSteps
<1>17. CASE PulseHost(t)
  BY <1>17, <1>typ, LineSame DEF PulseHost, LineSteps, WaitSteps
<1>18. CASE ReleaseMutant(t)
  BY <1>18, <1>typ, LineSame DEF ReleaseMutant, LineSteps, WaitSteps
<1>19. CASE ClearOwner(t)
  BY <1>19, <1>typ, LineSame DEF ClearOwner, LineSteps, WaitSteps
<1>20. CASE FreeMutant(t)
  BY <1>20, <1>typ, LineSame DEF FreeMutant, LineSteps, WaitSteps
<1>21. CASE ResetEvent(t)
  BY <1>21 DEF ResetEvent, Line
<1>22. CASE Terminate(t)
  <2>1. \A u \in Threads : terminator'[u] = "none" => terminator[u] = "none"
    BY <1>22, <1>typ DEF Terminate, TypeOK
  <2> QED
    BY <1>22, <2>1 DEF Terminate, Line
<1>23. CASE AbandonAllOwned(t)
  <2>1. \A u \in Threads : terminator'[u] = "none" => terminator[u] = "none"
    BY <1>23, <1>typ DEF AbandonAllOwned, TypeOK
  <2> QED
    BY <1>23, <2>1 DEF AbandonAllOwned, Line
<1>24. CASE TerminateThread(t)
  <2>1. \A u \in Threads : terminator'[u] = "none" => terminator[u] = "none"
    BY <1>24, <1>typ DEF TerminateThread, TypeOK
  <2> QED
    BY <1>24, <2>1 DEF TerminateThread, Line
<1>25. CASE AbandonCooperativeWait(t)
  <2>1. /\ terminator[t] = "unregister"
        /\ \A u \in Threads : terminator'[u] = IF u = t THEN "mark" ELSE terminator[u]
        /\ UNCHANGED <<at, multi>>
    BY <1>25, <1>typ DEF AbandonCooperativeWait, TypeOK
  <2>2. CASE registered[t]
    <3>1. /\ fifo' = RemoveFirst(fifo, t)
          /\ \A u \in Threads : registered'[u] = IF u = t THEN FALSE ELSE registered[u]
      BY <1>25, <1>typ, <2>2 DEF AbandonCooperativeWait, Unregister, TypeOK
    <3> QED
      BY <1>mem, <1>rem, <2>1, <3>1 DEF Line
  <2>3. CASE ~registered[t]
    <3>1. UNCHANGED <<fifo, registered>>
      BY <1>25, <2>3 DEF AbandonCooperativeWait, Unregister
    <3> QED
      BY <1>mem, <2>1, <3>1 DEF Line
  <2> QED
    BY <2>2, <2>3
<1>26. CASE ExitIfTerminated(t)
  <2>1. /\ at[t] \notin {"entered", "remove"}
        /\ \A u \in Threads : at'[u] = IF u = t THEN "dead" ELSE at[u]
        /\ UNCHANGED <<multi, terminator>>
    BY <1>26, <1>typ DEF ExitIfTerminated, TypeOK
  <2>2. CASE registered[t]
    <3>1. /\ fifo' = RemoveFirst(fifo, t)
          /\ \A u \in Threads : registered'[u] = IF u = t THEN FALSE ELSE registered[u]
      BY <1>26, <1>typ, <2>2 DEF ExitIfTerminated, Unregister, TypeOK
    <3> QED
      BY <1>mem, <1>rem, <2>1, <3>1 DEF Line, LineSteps, WaitSteps
  <2>3. CASE ~registered[t]
    <3>1. UNCHANGED <<fifo, registered>>
      BY <1>26, <2>3 DEF ExitIfTerminated, Unregister
    <3>2. t \notin ToSet(fifo)
      BY <2>1, <2>3 DEF Line
    <3> QED
      BY <1>mem, <2>1, <2>3, <3>1, <3>2 DEF Line, LineSteps, WaitSteps
  <2> QED
    BY <2>2, <2>3
<1> QED
  BY <1>0, <1>1, <1>2, <1>3, <1>4, <1>5, <1>6, <1>7, <1>8, <1>9, <1>10, <1>11, <1>12, <1>13, <1>14, <1>15, <1>16, <1>17, <1>18, <1>19, <1>20, <1>21, <1>22, <1>23, <1>24, <1>25, <1>26 DEF Action

LEMMA LineInductive == Spec => []Line
<1>1. Init => Line
  <2>1. ASSUME Init PROVE ToSet(fifo) = {} /\ IsInjective(fifo)
    <3>1. fifo = <<>> /\ DOMAIN <<>> = {}
      BY <2>1 DEF Init
    <3> QED
      BY <3>1 DEF ToSet, IsInjective
  <2>2. ASSUME Init PROVE \A t \in Threads : at[t] = "idle"
    BY <2>2 DEF Init
  <2> QED
    BY <2>1, <2>2 DEF Line, LineSteps, WaitSteps
<1>2. TypeInv /\ Line /\ UNCHANGED vars => Line'
  BY DEF Line, vars, objectVars, waitVars, epochVars, killVars
<1>3. TypeInv /\ Line /\ [Next]_vars => Line'
  BY <1>2, LineNext
<1> QED
  BY <1>1, <1>3, TypeInductive, PTL DEF Spec

\* A thread that ended, by a Terminate at any moment, keeps no place in line.
THEOREM NobodyHauntsTheLine == Spec => []NoGhostWaiter
<1>1. TypeInv /\ Line => NoGhostWaiter
  <2> SUFFICES ASSUME TypeInv, Line, NEW t \in Threads, at[t] = "dead", Contains(fifo, t)
               PROVE  FALSE
    BY DEF NoGhostWaiter
  <2>1. t \in ToSet(fifo)
    BY FifoMembers DEF TypeInv
  <2> QED
    BY <2>1 DEF Line
<1> QED
  BY <1>1, TypeInductive, LineInductive, PTL

-----------------------------------------------------------------------------
(* The mutant.  The right to own it is in one place: the free permit of    *)
(* the host primitive, the owner, or a token on its way between the two,   *)
(* held by the thread that took the permit and is not the owner yet, or    *)
(* that gave up the ownership and did not free the permit yet.             *)

Token(t) == (at[t] = "callback" /\ ~again[t]) \/ at[t] = "signal"

\* Nothing of a mutant is about an object of another type.
NoMutant ==
  /\ owner = NoThread /\ chained = NoThread
  /\ \A t \in Threads : holds[t] = 0 /\ at[t] \notin {"clear", "signal"}

\* Whether a wait goes to the stand-in of an owned mutant is settled before the
\* ownership can change.
Settled(t) ==
  \/ at[t] \in {"acquire", "callback"}
  \/ ~multi[t] /\ at[t] \in {"entered", "sample", "poll", "failed", "parked"}

OneOwner ==
  /\ chained = owner
  /\ \A t \in Threads : ~pulsed[t] /\ at[t] \notin {"set", "pulse"}
  /\ \A t \in Threads : Settled(t) => (again[t] <=> owner = t)
  /\ permits > 0 => owner = NoThread
  /\ (permits > 0 \/ owner # NoThread) => \A t \in Threads : ~Token(t)
  /\ \A t, u \in Threads : Token(t) /\ Token(u) => t = u
  /\ \A t \in Threads : at[t] = "clear" => owner = t /\ recursion = 0

MutantInv ==
  /\ Exclusive
  /\ IF kind = "mutant" THEN OneOwner ELSE NoMutant

\* What moves a thread between steps and touches nothing of the mutant.
LEMMA MutantSame ==
  ASSUME TypeOK, MutantInv,
         UNCHANGED <<kind, permits, owner, recursion, chained, holds, terminator>>,
         NEW t \in Threads, NEW step, at' = [at EXCEPT ![t] = step],
         step \notin {"callback", "signal", "clear", "set", "pulse", "acquire"},
         \A u \in Threads : pulsed'[u] => pulsed[u],
         \A u \in Threads : u # t => again'[u] = again[u] /\ multi'[u] = multi[u],
         Settled(t)' => (again'[t] <=> owner = t)
  PROVE  MutantInv'
<1>1. \A u \in Threads : at'[u] = IF u = t THEN step ELSE at[u]
  BY DEF TypeOK
<1>2. Exclusive'
  BY DEF MutantInv, Exclusive
<1>3. CASE kind = "mutant"
  <2>1. \A u \in Threads : Settled(u)' => (again'[u] <=> owner = u)
    BY <1>1, <1>3 DEF MutantInv, OneOwner, Settled
  <2>2. \A u \in Threads : Token(u)' => Token(u)
    BY <1>1 DEF Token
  <2>3. \A u \in Threads : at'[u] = "clear" => at[u] = "clear"
    BY <1>1
  <2>4. \A u \in Threads : ~pulsed'[u] /\ at'[u] \notin {"set", "pulse"}
    BY <1>1, <1>3 DEF MutantInv, OneOwner
  <2>5. OneOwner'
    BY <1>3, <2>1, <2>2, <2>3, <2>4 DEF MutantInv, OneOwner
  <2> QED
    BY <1>2, <1>3, <2>5 DEF MutantInv
<1>4. CASE kind # "mutant"
  <2>1. NoMutant'
    BY <1>1, <1>4 DEF MutantInv, NoMutant
  <2> QED
    BY <1>2, <1>4, <2>1 DEF MutantInv
<1> QED
  BY <1>3, <1>4

\* Of the steps on an object that is no mutant, only the holds matter.
LEMMA NoMutantSame ==
  ASSUME TypeOK, MutantInv, kind # "mutant", UNCHANGED <<kind, owner, chained, holds>>,
         NEW t \in Threads, NEW step, at' = [at EXCEPT ![t] = step],
         step \notin {"clear", "signal"}
  PROVE  MutantInv'
<1>1. \A u \in Threads : at'[u] = IF u = t THEN step ELSE at[u]
  BY DEF TypeOK
<1>2. NoMutant'
  BY <1>1 DEF MutantInv, NoMutant
<1>3. Exclusive'
  BY <1>2 DEF NoMutant, Exclusive
<1> QED
  BY <1>2, <1>3 DEF MutantInv

LEMMA MutantNext == TypeInv /\ MutantInv /\ Next => MutantInv'
<1> SUFFICES ASSUME TypeInv, MutantInv, Next PROVE MutantInv'
  OBVIOUS
<1> USE DEF objectVars, waitVars, epochVars, killVars, Goto
<1>0. PICK t \in Threads : Action(t)
  BY Actions
<1>typ. TypeOK
  BY DEF TypeInv
<1>1. CASE Wait(t)
  <2>1. /\ \A u \in Threads : u # t => again'[u] = again[u] /\ multi'[u] = multi[u]
        /\ again'[t] <=> owner = t
        /\ \A u \in Threads : pulsed'[u] => pulsed[u]
    BY <1>1, <1>typ DEF Wait, TypeOK
  <2> QED
    BY <1>1, <1>typ, <2>1, MutantSame DEF Wait
<1>2. CASE WaitMultiple(t)
  <2>1. /\ \A u \in Threads : u # t => multi'[u] = multi[u]
        /\ multi'[t]
        /\ at' = [at EXCEPT ![t] = "sample"] /\ at'[t] = "sample"
        /\ \A u \in Threads : pulsed'[u] => pulsed[u]
    BY <1>2, <1>typ DEF WaitMultiple, TypeOK
  <2>2. ~Settled(t)'
    BY <2>1 DEF Settled
  <2> QED
    BY <1>2, <1>typ, <2>1, <2>2, MutantSame DEF WaitMultiple
<1>3. CASE EnterCooperativeWait(t)
  <2>1. at[t] = "entered" /\ at' = [at EXCEPT ![t] = "sample"] /\ at'[t] = "sample"
    BY <1>3, <1>typ DEF EnterCooperativeWait, TypeOK
  <2>2. CASE kind = "mutant"
    <3>1. Settled(t)' => (again[t] <=> owner = t)
      BY <1>3, <2>1, <2>2 DEF EnterCooperativeWait, Settled, MutantInv, OneOwner
    <3> QED
      BY <1>3, <1>typ, <2>1, <3>1, MutantSame DEF EnterCooperativeWait
  <2>3. CASE kind # "mutant"
    BY <1>3, <1>typ, <2>1, <2>3, NoMutantSame DEF EnterCooperativeWait
  <2> QED
    BY <2>2, <2>3
<1>4. CASE Sample(t)
  <2>1. at[t] = "sample" /\ at' = [at EXCEPT ![t] = "poll"] /\ at'[t] = "poll"
    BY <1>4, <1>typ DEF Sample, TypeOK
  <2>2. CASE kind = "mutant"
    <3>1. Settled(t)' => (again[t] <=> owner = t)
      BY <1>4, <2>1, <2>2 DEF Sample, Settled, MutantInv, OneOwner
    <3> QED
      BY <1>4, <1>typ, <2>1, <3>1, MutantSame DEF Sample
  <2>3. CASE kind # "mutant"
    BY <1>4, <1>typ, <2>1, <2>3, NoMutantSame DEF Sample
  <2> QED
    BY <2>2, <2>3
<1>5. CASE TimeOut(t)
  <2>1. at' = [at EXCEPT ![t] = (IF multi[t] THEN "idle" ELSE "leave")] /\ at'[t] = (IF multi[t] THEN "idle" ELSE "leave")
    BY <1>5, <1>typ DEF TimeOut, TypeOK
  <2>2. ~Settled(t)'
    BY <2>1 DEF Settled
  <2> QED
    BY <1>5, <1>typ, <2>1, <2>2, MutantSame DEF TimeOut
<1>6. CASE BlockCurrentThread(t)
  <2>1. at[t] = "failed" /\ at' = [at EXCEPT ![t] = "parked"] /\ at'[t] = "parked"
    BY <1>6, <1>typ DEF BlockCurrentThread, TypeOK
  <2>2. CASE kind = "mutant"
    <3>1. Settled(t)' => (again[t] <=> owner = t)
      BY <1>6, <2>1, <2>2 DEF BlockCurrentThread, Settled, MutantInv, OneOwner
    <3> QED
      BY <1>6, <1>typ, <2>1, <3>1, MutantSame DEF BlockCurrentThread
  <2>3. CASE kind # "mutant"
    BY <1>6, <1>typ, <2>1, <2>3, NoMutantSame DEF BlockCurrentThread
  <2> QED
    BY <2>2, <2>3
<1>7. CASE Reready(t)
  <2>1. at[t] = "parked" /\ at' = [at EXCEPT ![t] = "sample"] /\ at'[t] = "sample"
    BY <1>7, <1>typ DEF Reready, TypeOK
  <2>2. CASE kind = "mutant"
    <3>1. Settled(t)' => (again[t] <=> owner = t)
      BY <1>7, <2>1, <2>2 DEF Reready, Settled, MutantInv, OneOwner
    <3> QED
      BY <1>7, <1>typ, <2>1, <3>1, MutantSame DEF Reready
  <2>3. CASE kind # "mutant"
    BY <1>7, <1>typ, <2>1, <2>3, NoMutantSame DEF Reready
  <2> QED
    BY <2>2, <2>3
<1>8. CASE LeaveCooperativeWait(t)
  <2>1. at' = [at EXCEPT ![t] = "remove"] /\ at'[t] = "remove"
    BY <1>8, <1>typ DEF LeaveCooperativeWait, TypeOK
  <2>2. ~Settled(t)'
    BY <2>1 DEF Settled
  <2> QED
    BY <1>8, <1>typ, <2>1, <2>2, MutantSame DEF LeaveCooperativeWait
<1>9. CASE Bump(t)
  <2>1. at' = [at EXCEPT ![t] = "idle"] /\ at'[t] = "idle"
    BY <1>9, <1>typ DEF Bump, TypeOK
  <2>2. ~Settled(t)'
    BY <2>1 DEF Settled
  <2> QED
    BY <1>9, <1>typ, <2>1, <2>2, MutantSame DEF Bump
<1>10. CASE RemoveWaiter(t)
  <2>1. PICK step : at' = [at EXCEPT ![t] = step] /\ step \in {"bump", "idle"}
    BY <1>10 DEF RemoveWaiter
  <2>2. ~Settled(t)'
    BY <1>typ, <2>1 DEF Settled, TypeOK
  <2> QED
    BY <1>10, <1>typ, <2>1, <2>2, MutantSame DEF RemoveWaiter
<1>11. CASE Poll(t)
  <2>1. PICK step : /\ at' = [at EXCEPT ![t] = step]
                    /\ step \in {"callback", "acquire", "failed"}
                    /\ step = "callback" => pulsed[t]
    <3>1. CASE pulsed[t]
      BY <1>11, <3>1 DEF Poll
    <3>2. CASE ~pulsed[t] /\ MayAcquire(t)
      <4>1. at' = [at EXCEPT ![t] = "acquire"] /\ "acquire" # "callback"
        BY <1>11, <3>2 DEF Poll
      <4> QED
        BY <4>1, Zenon
    <3>3. CASE ~pulsed[t] /\ ~MayAcquire(t)
      <4>1. at' = [at EXCEPT ![t] = "failed"] /\ "failed" # "callback"
        BY <1>11, <3>3 DEF Poll
      <4> QED
        BY <4>1, Zenon
    <3> QED
      BY <3>1, <3>2, <3>3
  <2>2. CASE kind = "mutant"
    <3>1. step # "callback"
      BY <2>1, <2>2 DEF MutantInv, OneOwner
    <3>2. /\ at[t] = "poll"
          /\ \A u \in Threads : at'[u] = IF u = t THEN step ELSE at[u]
          /\ \A u \in Threads : again'[u] = IF u = t /\ multi[t] THEN owner = t ELSE again[u]
          /\ UNCHANGED <<kind, permits, owner, recursion, chained, multi, pulsed, holds, terminator>>
      BY <1>11, <1>typ, <2>1 DEF Poll, TypeOK
    <3>3. \A u \in Threads : Settled(u)' => (again'[u] <=> owner = u)
      BY <2>1, <2>2, <3>2 DEF MutantInv, OneOwner, Settled
    <3>4. \A u \in Threads : Token(u)' => Token(u)
      BY <2>1, <3>1, <3>2 DEF Token
    <3>5. \A u \in Threads : /\ at'[u] = "clear" => at[u] = "clear"
                             /\ at'[u] \in {"set", "pulse"} => at[u] \in {"set", "pulse"}
      BY <2>1, <3>2
    <3>6. OneOwner'
      BY <2>2, <3>2, <3>3, <3>4, <3>5 DEF MutantInv, OneOwner
    <3>7. Exclusive'
      BY <3>2 DEF MutantInv, Exclusive
    <3> QED
      BY <2>2, <3>2, <3>6, <3>7 DEF MutantInv
  <2>3. CASE kind # "mutant"
    BY <1>11, <1>typ, <2>1, <2>3, NoMutantSame DEF Poll
  <2> QED
    BY <2>2, <2>3
<1>12. CASE Acquire(t)
  <2>1. /\ at[t] = "acquire"
        /\ UNCHANGED <<kind, owner, recursion, chained, multi, again, pulsed, holds, terminator>>
    BY <1>12 DEF Acquire
  <2>2. CASE kind = "mutant"
    <3>1. Exclusive'
      BY <2>1 DEF MutantInv, Exclusive
    <3>2. again[t] <=> owner = t
      BY <2>1, <2>2 DEF MutantInv, OneOwner, Settled
    <3>3. CASE again[t]
      <4>1. /\ permits' = permits
            /\ \A u \in Threads : at'[u] = IF u = t THEN "callback" ELSE at[u]
        BY <1>12, <1>typ, <3>3 DEF Acquire, TypeOK
      <4>2. \A u \in Threads : Token(u)' => Token(u)
        BY <2>1, <3>3, <4>1 DEF Token
      <4>3. OneOwner'
        BY <2>1, <2>2, <3>2, <4>1, <4>2 DEF MutantInv, OneOwner, Settled
      <4> QED
        BY <2>1, <2>2, <3>1, <4>3 DEF MutantInv
    <3>4. CASE ~again[t] /\ permits > 0
      <4>1. /\ permits' = permits - 1
            /\ \A u \in Threads : at'[u] = IF u = t THEN "callback" ELSE at[u]
        BY <1>12, <1>typ, <2>2, <3>4 DEF Acquire, TypeOK
      <4>2. permits' = 0
        <5>1. permits \in 0..1
          BY <1>typ, <2>2 DEF TypeOK, MaxPermits
        <5> QED
          BY <3>4, <4>1, <5>1
      <4>3. owner = NoThread /\ \A u \in Threads : ~Token(u)
        BY <2>2, <3>4 DEF MutantInv, OneOwner
      <4>4. \A u \in Threads : Token(u)' => u = t
        BY <2>1, <4>1, <4>3 DEF Token
      <4>5. OneOwner'
        BY <2>1, <2>2, <3>2, <4>1, <4>2, <4>3, <4>4 DEF MutantInv, OneOwner, Settled
      <4> QED
        BY <2>1, <2>2, <3>1, <4>5 DEF MutantInv
    <3>5. CASE ~again[t] /\ ~(permits > 0)
      <4>0. permits = 0
        BY <1>typ, <3>5, CooperativeWaitAssumption DEF TypeOK, MaxPermits
      <4>1. permits' = permits /\ at' = [at EXCEPT ![t] = "failed"]
        BY <1>12, <3>5, <4>0 DEF Acquire
      <4> QED
        BY <1>typ, <2>1, <3>2, <4>1, MutantSame
    <3> QED
      BY <3>3, <3>4, <3>5
  <2>3. CASE kind # "mutant"
    <3>1. PICK step : at' = [at EXCEPT ![t] = step] /\ step \in {"callback", "failed"}
      BY <1>12 DEF Acquire
    <3>2. UNCHANGED <<chained, holds>>
      BY <1>12 DEF Acquire
    <3> QED
      BY <1>typ, <2>1, <2>3, <3>1, <3>2, NoMutantSame
  <2> QED
    BY <2>2, <2>3
<1>13. CASE WaitCallback(t)
  <2>1. PICK step : at' = [at EXCEPT ![t] = step] /\ step \in {"idle", "leave"}
    BY <1>13 DEF WaitCallback
  <2>2. /\ at[t] = "callback"
        /\ \A u \in Threads : at'[u] = IF u = t THEN step ELSE at[u]
        /\ UNCHANGED <<kind, permits, multi, again, pulsed, terminator>>
    BY <1>13, <1>typ, <2>1 DEF WaitCallback, TypeOK
  <2>3. CASE kind = "mutant"
    <3>1. /\ owner' = t
          /\ recursion' = IF owner = t THEN recursion + 1 ELSE 1
          /\ chained' = IF owner = t THEN chained ELSE t
          /\ holds' = [holds EXCEPT ![t] = @ + 1]
      BY <1>13, <2>3 DEF WaitCallback
    <3>2. \A u \in Threads : holds'[u] = IF u = t THEN holds[t] + 1 ELSE holds[u]
      BY <1>typ, <3>1 DEF TypeOK
    <3>3. again[t] <=> owner = t
      BY <2>2, <2>3 DEF MutantInv, OneOwner, Settled
    <3>4. \A u \in Threads : u # t => ~Token(u)
      <4>1. CASE again[t]
        BY <2>3, <3>3, <4>1, CooperativeWaitAssumption DEF MutantInv, OneOwner
      <4>2. CASE ~again[t]
        <5>1. Token(t)
          BY <2>2, <4>2 DEF Token
        <5> QED
          BY <2>3, <5>1 DEF MutantInv, OneOwner
      <4> QED
        BY <4>1, <4>2
    <3>5. ~(permits > 0)
      <4>1. CASE again[t]
        BY <2>3, <3>3, <4>1, CooperativeWaitAssumption DEF MutantInv, OneOwner
      <4>2. CASE ~again[t]
        <5>1. Token(t)
          BY <2>2, <4>2 DEF Token
        <5> QED
          BY <2>3, <5>1 DEF MutantInv, OneOwner
      <4> QED
        BY <4>1, <4>2
    <3>6. owner = t \/ owner = NoThread
      <4>1. CASE again[t]
        BY <3>3, <4>1
      <4>2. CASE ~again[t]
        <5>1. Token(t)
          BY <2>2, <4>2 DEF Token
        <5> QED
          BY <2>3, <5>1 DEF MutantInv, OneOwner
      <4> QED
        BY <4>1, <4>2
    <3>7. \A u \in Threads : ~Token(u)'
      BY <2>1, <2>2, <3>4 DEF Token
    <3>8. \A u \in Threads : Settled(u)' => (again[u] <=> u = t)
      <4> SUFFICES ASSUME NEW u \in Threads, Settled(u)' PROVE again[u] <=> u = t
        OBVIOUS
      <4>1. u # t
        BY <2>1, <2>2 DEF Settled
      <4>2. Settled(u)
        BY <2>2, <4>1 DEF Settled
      <4>3. again[u] <=> owner = u
        BY <2>3, <4>2 DEF MutantInv, OneOwner
      <4> QED
        BY <3>6, <4>1, <4>3, CooperativeWaitAssumption
    <3>9. \A u \in Threads : at'[u] # "clear"
      <4> SUFFICES ASSUME NEW u \in Threads, at'[u] = "clear" PROVE FALSE
        OBVIOUS
      <4>1. u # t /\ at[u] = "clear"
        BY <2>1, <2>2
      <4>2. owner = u
        BY <2>3, <4>1 DEF MutantInv, OneOwner
      <4> QED
        BY <3>6, <4>1, <4>2, CooperativeWaitAssumption
    <3>10. chained' = t
      BY <2>3, <3>1 DEF MutantInv, OneOwner
    <3>11. OneOwner'
      BY <2>1, <2>2, <2>3, <3>1, <3>5, <3>7, <3>8, <3>9, <3>10 DEF MutantInv, OneOwner
    <3>12. Exclusive'
      <4> SUFFICES ASSUME NEW u \in Threads, terminator[u] = "none", holds'[u] > 0
                   PROVE  u = t /\ recursion' = holds'[u]
        BY <2>2, <3>1 DEF Exclusive
      <4>1. u = t
        <5> SUFFICES ASSUME u # t PROVE FALSE
          OBVIOUS
        <5>1. owner = u
          BY <3>2 DEF MutantInv, Exclusive
        <5> QED
          BY <3>6, <5>1, CooperativeWaitAssumption
      <4>2. holds[t] \in Nat /\ recursion \in Nat
        BY <1>typ, CooperativeWaitAssumption DEF TypeOK
      <4>3. CASE owner = t
        <5>1. recursion > 0 /\ recursion <= holds[t]
          BY <2>2, <4>3, CooperativeWaitAssumption DEF TypeInv, Holding
        <5>2. recursion = holds[t]
          <6>1. holds[t] > 0
            BY <4>2, <5>1
          <6> QED
            BY <4>1, <6>1 DEF MutantInv, Exclusive
        <5> QED
          BY <3>1, <3>2, <4>1, <4>3, <5>2
      <4>4. CASE owner # t
        <5>1. ~(holds[t] > 0)
          BY <4>1, <4>4 DEF MutantInv, Exclusive
        <5> QED
          BY <3>1, <3>2, <4>1, <4>2, <4>4, <5>1
      <4> QED
        BY <4>1, <4>3, <4>4
    <3> QED
      BY <2>2, <2>3, <3>11, <3>12 DEF MutantInv
  <2>4. CASE kind # "mutant"
    BY <1>13, <1>typ, <2>1, <2>4, NoMutantSame DEF WaitCallback
  <2> QED
    BY <2>3, <2>4
<1>14. CASE ReleaseMutant(t)
  <2>1. PICK step : /\ at' = [at EXCEPT ![t] = step]
                    /\ step \in {"idle", "clear"}
                    /\ step = "clear" => recursion = 1
    <3>1. CASE recursion = 1
      BY <1>14, <3>1 DEF ReleaseMutant
    <3>2. CASE recursion # 1
      <4>1. at' = [at EXCEPT ![t] = "idle"] /\ "clear" # "idle"
        BY <1>14, <3>2 DEF ReleaseMutant
      <4> QED
        BY <4>1, Zenon
    <3> QED
      BY <3>1, <3>2
  <2>2. /\ at[t] = "idle" /\ kind = "mutant" /\ owner = t /\ recursion' = recursion - 1
        /\ \A u \in Threads : at'[u] = IF u = t THEN step ELSE at[u]
        /\ \A u \in Threads : holds'[u] = IF u = t THEN holds[t] - 1 ELSE holds[u]
        /\ UNCHANGED <<kind, permits, owner, chained, multi, again, pulsed, terminator>>
    BY <1>14, <1>typ, <2>1 DEF ReleaseMutant, TypeOK
  <2>3. \A u \in Threads : ~Token(u) /\ ~Token(u)'
    BY <2>1, <2>2, CooperativeWaitAssumption DEF MutantInv, OneOwner, Token
  <2>4. \A u \in Threads : at'[u] = "clear" => u = t /\ recursion' = 0
    BY <2>1, <2>2 DEF MutantInv, OneOwner
  <2>5. \A u \in Threads : Settled(u)' => Settled(u)
    BY <2>1, <2>2 DEF Settled
  <2>6. OneOwner'
    BY <2>1, <2>2, <2>3, <2>4, <2>5 DEF MutantInv, OneOwner
  <2>7. Exclusive'
    <3> SUFFICES ASSUME NEW u \in Threads, terminator[u] = "none", holds'[u] > 0
                 PROVE  owner = u /\ recursion' = holds'[u]
      BY <2>2 DEF Exclusive
    <3>1. holds[u] \in Nat /\ holds[t] \in Nat /\ recursion \in Nat
      BY <1>typ, CooperativeWaitAssumption DEF TypeOK
    <3>2. holds[u] > 0
      BY <2>2, <3>1
    <3>3. owner = u /\ recursion = holds[u]
      BY <3>2 DEF MutantInv, Exclusive
    <3> QED
      BY <2>2, <3>3
  <2> QED
    BY <2>2, <2>6, <2>7 DEF MutantInv
<1>15. CASE ClearOwner(t)
  <2>0. kind = "mutant"
    BY <1>15 DEF ClearOwner, MutantInv, NoMutant
  <2>1. /\ at[t] = "clear" /\ owner' = NoThread /\ chained' = NoThread
        /\ \A u \in Threads : at'[u] = IF u = t THEN "signal" ELSE at[u]
        /\ UNCHANGED <<kind, permits, recursion, multi, again, pulsed, holds, terminator>>
    BY <1>15, <1>typ DEF ClearOwner, TypeOK
  <2>2. owner = t /\ recursion = 0 /\ owner # NoThread
    BY <2>0, <2>1, CooperativeWaitAssumption DEF MutantInv, OneOwner
  <2>3. ~(permits > 0) /\ \A u \in Threads : ~Token(u)
    BY <2>0, <2>2 DEF MutantInv, OneOwner
  <2>4. \A u \in Threads : Token(u)' => u = t
    BY <2>1, <2>3 DEF Token
  <2>5. \A u \in Threads : at'[u] # "clear"
    BY <2>0, <2>1, <2>2 DEF MutantInv, OneOwner
  <2>6. \A u \in Threads : Settled(u)' => ~again[u]
    BY <2>0, <2>1, <2>2 DEF MutantInv, OneOwner, Settled
  <2>7. OneOwner'
    BY <2>0, <2>1, <2>3, <2>4, <2>5, <2>6, CooperativeWaitAssumption DEF MutantInv, OneOwner
  <2>8. Exclusive'
    BY <2>1, <2>2 DEF MutantInv, Exclusive
  <2> QED
    BY <2>0, <2>1, <2>7, <2>8 DEF MutantInv
<1>16. CASE FreeMutant(t)
  <2>0. kind = "mutant"
    BY <1>16 DEF FreeMutant, MutantInv, NoMutant
  <2>1. /\ at[t] = "signal"
        /\ \A u \in Threads : at'[u] = IF u = t THEN "bump" ELSE at[u]
        /\ UNCHANGED <<kind, owner, chained, recursion, multi, again, pulsed, holds, terminator>>
    BY <1>16, <1>typ DEF FreeMutant, TypeOK
  <2>2. Token(t)
    BY <2>1 DEF Token
  <2>3. owner = NoThread /\ \A u \in Threads : Token(u) => u = t
    BY <2>0, <2>2 DEF MutantInv, OneOwner
  <2>4. \A u \in Threads : ~Token(u)'
    BY <2>1, <2>3 DEF Token
  <2>5. \A u \in Threads : Settled(u)' => Settled(u)
    BY <2>1 DEF Settled
  <2>6. OneOwner'
    BY <2>0, <2>1, <2>3, <2>4, <2>5 DEF MutantInv, OneOwner
  <2>7. Exclusive'
    BY <2>1 DEF MutantInv, Exclusive
  <2> QED
    BY <2>0, <2>1, <2>6, <2>7 DEF MutantInv
<1>17. CASE ReleaseSemaphore(t)
  <2>1. kind # "mutant"
    BY <1>17 DEF ReleaseSemaphore
  <2> QED
    BY <1>17, <1>typ, <2>1, NoMutantSame DEF ReleaseSemaphore
<1>18. CASE PulseEvent(t)
  <2>1. kind # "mutant"
    BY <1>18 DEF PulseEvent
  <2>2. PICK step : at' = [at EXCEPT ![t] = step] /\ step \in {"set", "pulse"}
    BY <1>18 DEF PulseEvent
  <2> QED
    BY <1>18, <1>typ, <2>1, <2>2, NoMutantSame DEF PulseEvent
<1>19. CASE SetEvent(t)
  <2>1. kind # "mutant"
    BY <1>19 DEF SetEvent, MutantInv, OneOwner
  <2> QED
    BY <1>19, <1>typ, <2>1, NoMutantSame DEF SetEvent
<1>20. CASE PulseHost(t)
  <2>1. kind # "mutant"
    BY <1>20 DEF PulseHost, MutantInv, OneOwner
  <2> QED
    BY <1>20, <1>typ, <2>1, NoMutantSame DEF PulseHost
<1>21. CASE ResetEvent(t)
  <2>1. kind # "mutant"
    BY <1>21 DEF ResetEvent
  <2> QED
    BY <1>21, <2>1 DEF ResetEvent, MutantInv, NoMutant, Exclusive
<1>22. CASE Terminate(t)
  <2>1. \A u \in Threads : terminator'[u] = "none" => terminator[u] = "none"
    BY <1>22, <1>typ DEF Terminate, TypeOK
  <2>2. UNCHANGED <<objectVars, at, multi, again, pulsed, holds>>
    BY <1>22 DEF Terminate
  <2>3. Exclusive'
    BY <2>1, <2>2 DEF MutantInv, Exclusive
  <2>4. (OneOwner => OneOwner') /\ (NoMutant => NoMutant')
    BY <2>2 DEF OneOwner, NoMutant, Settled, Token
  <2> QED
    BY <2>2, <2>3, <2>4 DEF MutantInv
<1>23. CASE TerminateThread(t)
  <2>1. \A u \in Threads : terminator'[u] = "none" => terminator[u] = "none"
    BY <1>23, <1>typ DEF TerminateThread, TypeOK
  <2>2. UNCHANGED <<objectVars, at, multi, again, pulsed, holds>>
    BY <1>23 DEF TerminateThread
  <2>3. Exclusive'
    BY <2>1, <2>2 DEF MutantInv, Exclusive
  <2>4. (OneOwner => OneOwner') /\ (NoMutant => NoMutant')
    BY <2>2 DEF OneOwner, NoMutant, Settled, Token
  <2> QED
    BY <2>2, <2>3, <2>4 DEF MutantInv
<1>24. CASE AbandonCooperativeWait(t)
  <2>1. \A u \in Threads : terminator'[u] = "none" => terminator[u] = "none"
    BY <1>24, <1>typ DEF AbandonCooperativeWait, TypeOK
  <2>2. UNCHANGED <<objectVars, at, multi, again, pulsed, holds>>
    BY <1>24 DEF AbandonCooperativeWait
  <2>3. Exclusive'
    BY <2>1, <2>2 DEF MutantInv, Exclusive
  <2>4. (OneOwner => OneOwner') /\ (NoMutant => NoMutant')
    BY <2>2 DEF OneOwner, NoMutant, Settled, Token
  <2> QED
    BY <2>2, <2>3, <2>4 DEF MutantInv
<1>25. CASE AbandonAllOwned(t)
  <2>1. /\ terminator[t] = "abandon"
        /\ \A u \in Threads : terminator'[u] = IF u = t THEN "unregister" ELSE terminator[u]
        /\ UNCHANGED <<kind, at, multi, again, pulsed, holds>>
    BY <1>25, <1>typ DEF AbandonAllOwned, TypeOK
  <2>2. CASE chained = t /\ owner # NoThread
    <3>1. kind = "mutant" /\ owner = t
      BY <2>2 DEF MutantInv, OneOwner, NoMutant
    <3>2. /\ owner' = NoThread /\ chained' = NoThread /\ permits' = 1
          /\ at[t] = "idle"
      BY <1>25, <2>2, <3>1 DEF AbandonAllOwned, InMutantCall
    <3>3. \A u \in Threads : ~Token(u) /\ ~Token(u)'
      BY <2>1, <2>2, <3>1 DEF MutantInv, OneOwner, Token
    <3>4. \A u \in Threads : Settled(u)' => Settled(u) /\ u # t
      BY <2>1, <3>2 DEF Settled
    <3>5. \A u \in Threads : at[u] # "clear"
      BY <3>1, <3>2 DEF MutantInv, OneOwner
    <3>6. \A u \in Threads : Settled(u)' => ~again[u]
      BY <3>1, <3>4 DEF MutantInv, OneOwner
    <3>7. OneOwner'
      BY <2>1, <3>1, <3>2, <3>3, <3>5, <3>6, CooperativeWaitAssumption DEF MutantInv, OneOwner
    <3>8. Exclusive'
      BY <2>1, <3>1 DEF MutantInv, Exclusive
    <3> QED
      BY <2>1, <3>1, <3>7, <3>8 DEF MutantInv
  <2>3. CASE ~(chained = t /\ owner # NoThread)
    <3>1. UNCHANGED <<owner, recursion, permits>>
      BY <1>25, <2>3 DEF AbandonAllOwned
    <3>2. chained' = chained
      <4>1. CASE kind = "mutant"
        BY <1>25, <2>3, <4>1, CooperativeWaitAssumption DEF AbandonAllOwned, MutantInv, OneOwner
      <4>2. CASE kind # "mutant"
        BY <1>25, <4>2 DEF AbandonAllOwned, MutantInv, NoMutant
      <4> QED
        BY <4>1, <4>2
    <3>3. Exclusive'
      BY <2>1, <3>1 DEF MutantInv, Exclusive
    <3>4. (OneOwner => OneOwner') /\ (NoMutant => NoMutant')
      BY <2>1, <3>1, <3>2 DEF OneOwner, NoMutant, Settled, Token
    <3> QED
      BY <2>1, <3>3, <3>4 DEF MutantInv
  <2> QED
    BY <2>2, <2>3
<1>26. CASE ExitIfTerminated(t)
  <2>1. at' = [at EXCEPT ![t] = "dead"] /\ at'[t] = "dead"
    BY <1>26, <1>typ DEF ExitIfTerminated, TypeOK
  <2>2. ~Settled(t)'
    BY <2>1 DEF Settled
  <2> QED
    BY <1>26, <1>typ, <2>1, <2>2, MutantSame DEF ExitIfTerminated
<1> QED
  BY <1>0, <1>1, <1>2, <1>3, <1>4, <1>5, <1>6, <1>7, <1>8, <1>9, <1>10, <1>11, <1>12, <1>13, <1>14, <1>15, <1>16, <1>17, <1>18, <1>19, <1>20, <1>21, <1>22, <1>23, <1>24, <1>25, <1>26 DEF Action

LEMMA MutantInductive == Spec => []MutantInv
<1>1. Init => MutantInv
  BY DEF Init, MutantInv, Exclusive, OneOwner, NoMutant, Settled, Token
<1>2. TypeInv /\ MutantInv /\ UNCHANGED vars => MutantInv'
  BY DEF MutantInv, Exclusive, OneOwner, NoMutant, Settled, Token,
         vars, objectVars, waitVars, epochVars, killVars
<1>3. TypeInv /\ MutantInv /\ [Next]_vars => MutantInv'
  BY <1>2, MutantNext
<1> QED
  BY <1>1, <1>3, TypeInductive, PTL DEF Spec

\* No two threads hold a mutant, and its recursion count is what its owner was
\* granted, across releases and acquisitions interleaved step by step and owners
\* that are terminated.
THEOREM OneOwnerOfMutant == Spec => []Exclusive
<1>1. MutantInv => Exclusive
  BY DEF MutantInv
<1> QED
  BY <1>1, MutantInductive, PTL

-----------------------------------------------------------------------------
(* The wakes.  A poll fails only for want of a permit or of the first      *)
(* place, so whoever provides what was wanting announces it, from the      *)
(* failed poll on and not only once the fiber is parked.                   *)

Asks(t) == kind # "event" /\ permits > 0 /\ MayAcquire(t)

WakeInv ==
  \A t \in Threads :
    terminator[t] = "none" =>
      /\ at[t] \in {"failed", "parked"} /\ Asks(t) => moved[t] \/ WakeOnItsWay
      /\ at[t] \in {"acquire", "failed", "parked"} /\ pulsed[t] => moved[t] \/ WakeOnItsWay

LEMMA WakeOnWay ==
  ASSUME WakeOnItsWay'
  PROVE  WakeInv'
BY DEF WakeInv

LEMMA WakeAll ==
  ASSUME moved' = AllMoved
  PROVE  WakeInv'
BY DEF WakeInv, AllMoved

\* What brings nobody closer to a successful poll and takes no wake back.
LEMMA WakeSame ==
  ASSUME WakeInv, WakeOnItsWay => WakeOnItsWay',
         \A u \in Threads :
           /\ terminator'[u] = "none" => terminator[u] = "none"
           /\ at'[u] \in {"failed", "parked"} => at[u] \in {"failed", "parked"}
           /\ at'[u] = "acquire" => at[u] = "acquire"
           /\ at'[u] \in {"acquire", "failed", "parked"} /\ moved[u] => moved'[u]
           /\ pulsed'[u] => pulsed[u]
           /\ (/\ terminator'[u] = "none"
               /\ at'[u] \in {"failed", "parked"}
               /\ Asks(u)')
                => Asks(u)
  PROVE  WakeInv'
<1> SUFFICES ASSUME NEW u \in Threads, terminator'[u] = "none"
             PROVE  /\ at'[u] \in {"failed", "parked"} /\ Asks(u)' => moved'[u] \/ WakeOnItsWay'
                    /\ at'[u] \in {"acquire", "failed", "parked"} /\ pulsed'[u] => moved'[u] \/ WakeOnItsWay'
  BY DEF WakeInv
<1>1. terminator[u] = "none"
  OBVIOUS
<1>2. ASSUME at'[u] \in {"failed", "parked"}, Asks(u)' PROVE moved'[u] \/ WakeOnItsWay'
  <2>1. at[u] \in {"failed", "parked"} /\ Asks(u)
    BY <1>2
  <2>2. moved[u] \/ WakeOnItsWay
    BY <1>1, <2>1 DEF WakeInv
  <2> QED
    BY <1>2, <2>2
<1>3. ASSUME at'[u] \in {"acquire", "failed", "parked"}, pulsed'[u] PROVE moved'[u] \/ WakeOnItsWay'
  <2>1. at[u] \in {"acquire", "failed", "parked"} /\ pulsed[u]
    BY <1>3
  <2>2. moved[u] \/ WakeOnItsWay
    BY <1>1, <2>1 DEF WakeInv
  <2> QED
    BY <1>3, <2>2
<1> QED
  BY <1>2, <1>3

\* Who joins the line at its end is ahead of nobody.
LEMMA JoinedLine ==
  ASSUME TypeOK, NEW t \in Threads, NEW u \in Threads, u # t,
         fifo' = IF Contains(fifo, t) THEN fifo ELSE Append(fifo, t),
         UNCHANGED <<kind, permits, owner>>, multi'[u] = multi[u], Asks(u)'
  PROVE  Asks(u)
<1>1. CASE Contains(fifo, t) \/ fifo = <<>>
  BY <1>1 DEF Asks, MayAcquire
<1>2. CASE ~Contains(fifo, t) /\ fifo # <<>>
  <2>1. fifo' = Append(fifo, t) /\ fifo \in Seq(Threads)
    BY <1>2 DEF TypeOK
  <2>2. Len(fifo) \in Nat /\ Len(fifo) >= 1 /\ Head(fifo) = fifo[1]
    BY <1>2, <2>1, LenProperties, EmptySeq, HeadTailProperties
  <2>3. /\ Append(fifo, t) \in Seq(Threads) /\ Append(fifo, t) # <<>>
        /\ Append(fifo, t)[1] = fifo[1]
    BY <2>1, <2>2, AppendProperties
  <2>4. Head(fifo') = Head(fifo) /\ fifo' # <<>>
    BY <2>1, <2>2, <2>3, HeadTailProperties
  <2> QED
    BY <2>4 DEF Asks, MayAcquire
<1> QED
  BY <1>1, <1>2

\* Who leaves the line wakes the next, unless nobody is left in it.
LEMMA LeftLine ==
  ASSUME TypeOK, Line, NEW t \in Threads, NEW u \in Threads, u # t,
         fifo' = RemoveFirst(fifo, t), ~(kind \in Pokes /\ fifo' # <<>>),
         at[u] \in {"failed", "parked"}, terminator[u] = "none",
         UNCHANGED <<kind, permits, owner, multi>>, Asks(u)'
  PROVE  Asks(u)
<1>1. kind \in {"semaphore", "event", "manual", "mutant"} /\ kind # "event" /\ permits > 0
  BY CooperativeWaitAssumption DEF TypeOK, Asks
<1>2. CASE kind = "manual" \/ multi[u]
  BY <1>1, <1>2 DEF Asks, MayAcquire
<1>3. CASE kind # "manual" /\ ~multi[u]
  <2>1. fifo' = <<>>
    BY <1>1, <1>3 DEF Pokes
  <2>2. ToSet(fifo') = ToSet(fifo) \ {t}
    BY RemoveFirstQueue DEF TypeOK, Line
  <2>3. u \in ToSet(fifo)
    BY <1>3 DEF Line, LineSteps, WaitSteps
  <2>4. ToSet(<<>>) = {}
    BY DEF ToSet
  <2> QED
    BY <2>1, <2>2, <2>3, <2>4
<1> QED
  BY <1>2, <1>3

LEMMA WakeNext == TypeInv /\ Line /\ WakeInv /\ Next => WakeInv'
<1> SUFFICES ASSUME TypeInv, Line, WakeInv, Next PROVE WakeInv'
  OBVIOUS
<1> USE DEF objectVars, waitVars, epochVars, killVars, Goto
<1>0. PICK t \in Threads : Action(t)
  BY Actions
<1>typ. TypeOK
  BY DEF TypeInv
<1>1. CASE Wait(t)
  <2>1. /\ at[t] = "idle"
        /\ \A u \in Threads : at'[u] = IF u = t THEN "entered" ELSE at[u]
        /\ \A u \in Threads : u # t => multi'[u] = multi[u]
        /\ \A u \in Threads : pulsed'[u] => pulsed[u]
        /\ UNCHANGED <<moved, terminator>>
    BY <1>1, <1>typ DEF Wait, TypeOK
  <2>2. ASSUME NEW u \in Threads, at'[u] \in {"failed", "parked"}, Asks(u)'
        PROVE  Asks(u)
    <3>1. u # t
      BY <2>1, <2>2
    <3> QED
      BY <1>1, <1>typ, <2>1, <2>2, <3>1, JoinedLine DEF Wait
  <2>3. WakeOnItsWay => WakeOnItsWay'
    BY <2>1 DEF WakeOnItsWay
  <2> QED
    BY <2>1, <2>2, <2>3, WakeSame
<1>2. CASE WaitMultiple(t)
  <2>1. /\ at[t] = "idle"
        /\ \A u \in Threads : at'[u] = IF u = t THEN "sample" ELSE at[u]
        /\ \A u \in Threads : u # t => multi'[u] = multi[u] /\ moved'[u] = moved[u]
        /\ at'[t] \in {"failed", "parked"} => multi'[t] = multi[t] /\ moved'[t] = moved[t]
        /\ \A u \in Threads : pulsed'[u] => pulsed[u]
        /\ UNCHANGED <<kind, permits, owner, fifo, terminator>>
    BY <1>2, <1>typ DEF WaitMultiple, TypeOK
  <2>2. WakeOnItsWay => WakeOnItsWay'
    BY <2>1 DEF WakeOnItsWay
  <2>3. \A u \in Threads : at'[u] \in {"failed", "parked"} /\ Asks(u)' => Asks(u)
    BY <2>1 DEF Asks, MayAcquire
  <2> QED
    BY <2>1, <2>2, <2>3, WakeSame
<1>3. CASE EnterCooperativeWait(t)
  <2>1. /\ at[t] = "entered"
        /\ \A u \in Threads : at'[u] = IF u = t THEN "sample" ELSE at[u]
        /\ \A u \in Threads : u # t => multi'[u] = multi[u] /\ moved'[u] = moved[u]
        /\ at'[t] \in {"failed", "parked"} => multi'[t] = multi[t] /\ moved'[t] = moved[t]
        /\ \A u \in Threads : pulsed'[u] => pulsed[u]
        /\ UNCHANGED <<kind, permits, owner, fifo, terminator>>
    BY <1>3, <1>typ DEF EnterCooperativeWait, TypeOK
  <2>2. WakeOnItsWay => WakeOnItsWay'
    BY <2>1 DEF WakeOnItsWay
  <2>3. \A u \in Threads : at'[u] \in {"failed", "parked"} /\ Asks(u)' => Asks(u)
    BY <2>1 DEF Asks, MayAcquire
  <2> QED
    BY <2>1, <2>2, <2>3, WakeSame
<1>4. CASE Sample(t)
  <2>1. /\ at[t] = "sample"
        /\ \A u \in Threads : at'[u] = IF u = t THEN "poll" ELSE at[u]
        /\ \A u \in Threads : u # t => multi'[u] = multi[u] /\ moved'[u] = moved[u]
        /\ at'[t] \in {"failed", "parked"} => multi'[t] = multi[t] /\ moved'[t] = moved[t]
        /\ \A u \in Threads : pulsed'[u] => pulsed[u]
        /\ UNCHANGED <<kind, permits, owner, fifo, terminator>>
    BY <1>4, <1>typ DEF Sample, TypeOK
  <2>2. WakeOnItsWay => WakeOnItsWay'
    BY <2>1 DEF WakeOnItsWay
  <2>3. \A u \in Threads : at'[u] \in {"failed", "parked"} /\ Asks(u)' => Asks(u)
    BY <2>1 DEF Asks, MayAcquire
  <2> QED
    BY <2>1, <2>2, <2>3, WakeSame
<1>5. CASE TimeOut(t)
  <2>1. /\ at[t] = "failed"
        /\ \A u \in Threads : at'[u] = IF u = t THEN (IF multi[t] THEN "idle" ELSE "leave") ELSE at[u]
        /\ \A u \in Threads : u # t => multi'[u] = multi[u] /\ moved'[u] = moved[u]
        /\ at'[t] \in {"failed", "parked"} => multi'[t] = multi[t] /\ moved'[t] = moved[t]
        /\ \A u \in Threads : pulsed'[u] => pulsed[u]
        /\ UNCHANGED <<kind, permits, owner, fifo, terminator>>
    BY <1>5, <1>typ DEF TimeOut, TypeOK
  <2>2. WakeOnItsWay => WakeOnItsWay'
    BY <2>1 DEF WakeOnItsWay
  <2>3. \A u \in Threads : at'[u] \in {"failed", "parked"} /\ Asks(u)' => Asks(u)
    BY <2>1 DEF Asks, MayAcquire
  <2> QED
    BY <2>1, <2>2, <2>3, WakeSame
<1>6. CASE BlockCurrentThread(t)
  <2>1. /\ at[t] = "failed"
        /\ \A u \in Threads : at'[u] = IF u = t THEN "parked" ELSE at[u]
        /\ \A u \in Threads : u # t => multi'[u] = multi[u] /\ moved'[u] = moved[u]
        /\ at'[t] \in {"failed", "parked"} => multi'[t] = multi[t] /\ moved'[t] = moved[t]
        /\ \A u \in Threads : pulsed'[u] => pulsed[u]
        /\ UNCHANGED <<kind, permits, owner, fifo, terminator>>
    BY <1>6, <1>typ DEF BlockCurrentThread, TypeOK
  <2>2. WakeOnItsWay => WakeOnItsWay'
    BY <2>1 DEF WakeOnItsWay
  <2>3. \A u \in Threads : at'[u] \in {"failed", "parked"} /\ Asks(u)' => Asks(u)
    BY <2>1 DEF Asks, MayAcquire
  <2> QED
    BY <2>1, <2>2, <2>3, WakeSame
<1>7. CASE Reready(t)
  <2>1. /\ at[t] = "parked"
        /\ \A u \in Threads : at'[u] = IF u = t THEN "sample" ELSE at[u]
        /\ \A u \in Threads : u # t => multi'[u] = multi[u] /\ moved'[u] = moved[u]
        /\ at'[t] \in {"failed", "parked"} => multi'[t] = multi[t] /\ moved'[t] = moved[t]
        /\ \A u \in Threads : pulsed'[u] => pulsed[u]
        /\ UNCHANGED <<kind, permits, owner, fifo, terminator>>
    BY <1>7, <1>typ DEF Reready, TypeOK
  <2>2. WakeOnItsWay => WakeOnItsWay'
    BY <2>1 DEF WakeOnItsWay
  <2>3. \A u \in Threads : at'[u] \in {"failed", "parked"} /\ Asks(u)' => Asks(u)
    BY <2>1 DEF Asks, MayAcquire
  <2> QED
    BY <2>1, <2>2, <2>3, WakeSame
<1>8. CASE LeaveCooperativeWait(t)
  <2>1. /\ at[t] = "leave"
        /\ \A u \in Threads : at'[u] = IF u = t THEN "remove" ELSE at[u]
        /\ \A u \in Threads : u # t => multi'[u] = multi[u] /\ moved'[u] = moved[u]
        /\ at'[t] \in {"failed", "parked"} => multi'[t] = multi[t] /\ moved'[t] = moved[t]
        /\ \A u \in Threads : pulsed'[u] => pulsed[u]
        /\ UNCHANGED <<kind, permits, owner, fifo, terminator>>
    BY <1>8, <1>typ DEF LeaveCooperativeWait, TypeOK
  <2>2. WakeOnItsWay => WakeOnItsWay'
    BY <2>1 DEF WakeOnItsWay
  <2>3. \A u \in Threads : at'[u] \in {"failed", "parked"} /\ Asks(u)' => Asks(u)
    BY <2>1 DEF Asks, MayAcquire
  <2> QED
    BY <2>1, <2>2, <2>3, WakeSame
<1>9. CASE Poll(t)
  <2>1. PICK step : /\ at' = [at EXCEPT ![t] = step]
                    /\ \/ step = "callback"
                       \/ step = "acquire" /\ ~pulsed[t]
                       \/ step = "failed" /\ ~pulsed[t] /\ ~MayAcquire(t)
    <3>1. CASE pulsed[t]
      BY <1>9, <3>1 DEF Poll
    <3>2. CASE ~pulsed[t] /\ MayAcquire(t)
      <4>1. at' = [at EXCEPT ![t] = "acquire"]
        BY <1>9, <3>2 DEF Poll
      <4> QED
        BY <3>2, <4>1
    <3>3. CASE ~pulsed[t] /\ ~MayAcquire(t)
      <4>1. at' = [at EXCEPT ![t] = "failed"]
        BY <1>9, <3>3 DEF Poll
      <4> QED
        BY <3>3, <4>1
    <3> QED
      BY <3>1, <3>2, <3>3
  <2>2. /\ at[t] = "poll"
        /\ \A u \in Threads : at'[u] = IF u = t THEN step ELSE at[u]
        /\ UNCHANGED <<kind, permits, owner, fifo, multi, moved, pulsed, terminator>>
    BY <1>9, <1>typ, <2>1 DEF Poll, TypeOK
  <2>3. WakeOnItsWay => WakeOnItsWay'
    BY <2>2 DEF WakeOnItsWay
  <2>4. \A u \in Threads : (MayAcquire(u)' <=> MayAcquire(u)) /\ (Asks(u)' <=> Asks(u))
    BY <2>2 DEF MayAcquire, Asks
  <2>5. Asks(t) => MayAcquire(t)
    BY DEF Asks
  <2> QED
    BY <2>1, <2>2, <2>3, <2>4, <2>5 DEF WakeInv
<1>10. CASE Acquire(t)
  <2>1. PICK step : /\ at' = [at EXCEPT ![t] = step]
                    /\ \/ step = "callback"
                       \/ step = "failed" /\ permits = 0 /\ permits' = permits
    <3>1. CASE again[t] \/ permits > 0
      BY <1>10, <3>1 DEF Acquire
    <3>2. CASE ~(again[t] \/ permits > 0)
      <4>1. at' = [at EXCEPT ![t] = "failed"] /\ permits = 0 /\ permits' = permits
        BY <1>10, <1>typ, <3>2, CooperativeWaitAssumption DEF Acquire, TypeOK, MaxPermits
      <4> QED
        BY <4>1
    <3> QED
      BY <3>1, <3>2
  <2>2. /\ at[t] = "acquire"
        /\ \A u \in Threads : at'[u] = IF u = t THEN step ELSE at[u]
        /\ UNCHANGED <<kind, owner, fifo, multi, moved, pulsed, terminator>>
    BY <1>10, <1>typ, <2>1 DEF Acquire, TypeOK
  <2>3. permits' > 0 => permits > 0
    <3>1. permits \in Nat
      BY <1>typ, CooperativeWaitAssumption DEF TypeOK, MaxPermits
    <3>2. permits' = permits \/ permits' = permits - 1
      BY <1>10 DEF Acquire
    <3> QED
      BY <3>1, <3>2
  <2>4. \A u \in Threads : Asks(u)' => Asks(u)
    BY <2>2, <2>3 DEF MayAcquire, Asks
  <2>5. step = "failed" => \A u \in Threads : ~Asks(u)'
    BY <2>1, <2>3 DEF Asks
  <2>6. WakeOnItsWay => WakeOnItsWay'
    BY <2>2 DEF WakeOnItsWay
  <2> QED
    BY <2>1, <2>2, <2>4, <2>5, <2>6 DEF WakeInv
<1>11. CASE WaitCallback(t)
  <2>1. PICK step : at' = [at EXCEPT ![t] = step] /\ step \in {"idle", "leave"}
    BY <1>11 DEF WaitCallback
  <2>2. /\ at[t] = "callback"
        /\ \A u \in Threads : at'[u] = IF u = t THEN step ELSE at[u]
        /\ owner' = t \/ owner' = owner
        /\ UNCHANGED <<kind, permits, fifo, multi, moved, pulsed, terminator>>
    BY <1>11, <1>typ, <2>1 DEF WaitCallback, TypeOK
  <2>3. \A u \in Threads : u # t /\ Asks(u)' => Asks(u)
    BY <2>2 DEF Asks, MayAcquire
  <2>4. WakeOnItsWay => WakeOnItsWay'
    BY <2>2 DEF WakeOnItsWay
  <2> QED
    BY <2>1, <2>2, <2>3, <2>4, WakeSame
<1>12. CASE RemoveWaiter(t)
  <2>1. CASE kind \in Pokes /\ fifo' # <<>>
    <3>1. at'[t] = "bump"
      BY <1>12, <1>typ, <2>1 DEF RemoveWaiter, TypeOK
    <3>2. WakeOnItsWay'
      BY <3>1 DEF WakeOnItsWay
    <3> QED
      BY <3>2, WakeOnWay
  <2>2. CASE ~(kind \in Pokes /\ fifo' # <<>>)
    <3>1. /\ at[t] = "remove"
          /\ \A u \in Threads : at'[u] = IF u = t THEN "idle" ELSE at[u]
          /\ fifo' = RemoveFirst(fifo, t)
          /\ UNCHANGED <<kind, permits, owner, multi, moved, pulsed, terminator>>
      BY <1>12, <1>typ, <2>2 DEF RemoveWaiter, TypeOK
    <3>2. ASSUME NEW u \in Threads, terminator'[u] = "none", at'[u] \in {"failed", "parked"}, Asks(u)'
          PROVE  Asks(u)
      <4>1. u # t
        BY <3>1, <3>2
      <4> QED
        BY <1>typ, <2>2, <3>1, <3>2, <4>1, LeftLine
    <3>3. WakeOnItsWay => WakeOnItsWay'
      BY <3>1 DEF WakeOnItsWay
    <3> QED
      BY <3>1, <3>2, <3>3, WakeSame
  <2> QED
    BY <2>1, <2>2
<1>13. CASE Bump(t)
  BY <1>13, WakeAll DEF Bump
<1>14. CASE ReleaseSemaphore(t)
  <2>1. at'[t] = "bump"
    BY <1>14, <1>typ DEF ReleaseSemaphore, TypeOK
  <2> QED
    BY <2>1, WakeOnWay DEF WakeOnItsWay
<1>15. CASE SetEvent(t)
  <2>1. at'[t] = "bump"
    BY <1>15, <1>typ DEF SetEvent, TypeOK
  <2> QED
    BY <2>1, WakeOnWay DEF WakeOnItsWay
<1>16. CASE PulseHost(t)
  <2>1. at'[t] = "bump"
    BY <1>16, <1>typ DEF PulseHost, TypeOK
  <2> QED
    BY <2>1, WakeOnWay DEF WakeOnItsWay
<1>17. CASE ClearOwner(t)
  <2>1. at'[t] = "signal"
    BY <1>17, <1>typ DEF ClearOwner, TypeOK
  <2> QED
    BY <2>1, WakeOnWay DEF WakeOnItsWay
<1>18. CASE FreeMutant(t)
  <2>1. at'[t] = "bump"
    BY <1>18, <1>typ DEF FreeMutant, TypeOK
  <2> QED
    BY <2>1, WakeOnWay DEF WakeOnItsWay
<1>19. CASE PulseEvent(t)
  <2>1. CASE kind = "event" /\ fifo # <<>>
    <3>1. /\ at[t] = "idle"
          /\ \A u \in Threads : at'[u] = IF u = t THEN "set" ELSE at[u]
          /\ \A u \in Threads : pulsed'[u] = pulsed[u]
          /\ UNCHANGED <<kind, permits, owner, fifo, multi, moved, terminator>>
      BY <1>19, <1>typ, <2>1 DEF PulseEvent, TypeOK
    <3>2. WakeOnItsWay => WakeOnItsWay'
      BY <3>1 DEF WakeOnItsWay
    <3>3. \A u \in Threads : Asks(u)' => Asks(u)
      BY <3>1 DEF Asks, MayAcquire
    <3> QED
      BY <3>1, <3>2, <3>3, WakeSame
  <2>2. CASE ~(kind = "event" /\ fifo # <<>>)
    <3>1. at'[t] = "pulse"
      BY <1>19, <1>typ, <2>2 DEF PulseEvent, TypeOK
    <3> QED
      BY <3>1, WakeOnWay DEF WakeOnItsWay
  <2> QED
    BY <2>1, <2>2
<1>20. CASE ReleaseMutant(t)
  <2>1. PICK step : at' = [at EXCEPT ![t] = step] /\ step \in {"idle", "clear"}
    BY <1>20 DEF ReleaseMutant
  <2>2. /\ at[t] = "idle"
        /\ \A u \in Threads : at'[u] = IF u = t THEN step ELSE at[u]
        /\ UNCHANGED <<kind, permits, owner, fifo, multi, moved, pulsed, terminator>>
    BY <1>20, <1>typ, <2>1 DEF ReleaseMutant, TypeOK
  <2>3. WakeOnItsWay => WakeOnItsWay'
    BY <2>2 DEF WakeOnItsWay
  <2>4. \A u \in Threads : Asks(u)' => Asks(u)
    BY <2>2 DEF Asks, MayAcquire
  <2> QED
    BY <2>1, <2>2, <2>3, <2>4, WakeSame
<1>21. CASE ResetEvent(t)
  <2>1. /\ \A u \in Threads : terminator'[u] = "none" => terminator[u] = "none"
        /\ permits' = 0 \/ permits' = permits
        /\ UNCHANGED <<kind, owner, fifo, at, multi, moved, pulsed>>
    BY <1>21, <1>typ DEF ResetEvent, TypeOK
  <2>2. WakeOnItsWay => WakeOnItsWay'
    BY <2>1 DEF WakeOnItsWay
  <2>3. \A u \in Threads : Asks(u)' => Asks(u)
    BY <2>1 DEF Asks, MayAcquire
  <2> QED
    BY <2>1, <2>2, <2>3, WakeSame
<1>22. CASE Terminate(t)
  <2>1. /\ \A u \in Threads : terminator'[u] = "none" => terminator[u] = "none"
        /\ permits' = 0 \/ permits' = permits
        /\ UNCHANGED <<kind, owner, fifo, at, multi, moved, pulsed>>
    BY <1>22, <1>typ DEF Terminate, TypeOK
  <2>2. WakeOnItsWay => WakeOnItsWay'
    BY <2>1 DEF WakeOnItsWay
  <2>3. \A u \in Threads : Asks(u)' => Asks(u)
    BY <2>1 DEF Asks, MayAcquire
  <2> QED
    BY <2>1, <2>2, <2>3, WakeSame
<1>23. CASE TerminateThread(t)
  <2>1. /\ \A u \in Threads : terminator'[u] = "none" => terminator[u] = "none"
        /\ permits' = 0 \/ permits' = permits
        /\ UNCHANGED <<kind, owner, fifo, at, multi, moved, pulsed>>
    BY <1>23, <1>typ DEF TerminateThread, TypeOK
  <2>2. WakeOnItsWay => WakeOnItsWay'
    BY <2>1 DEF WakeOnItsWay
  <2>3. \A u \in Threads : Asks(u)' => Asks(u)
    BY <2>1 DEF Asks, MayAcquire
  <2> QED
    BY <2>1, <2>2, <2>3, WakeSame
<1>24. CASE AbandonAllOwned(t)
  <2>1. CASE chained = t /\ owner # NoThread
    BY <1>24, <2>1, WakeAll DEF AbandonAllOwned
  <2>2. CASE ~(chained = t /\ owner # NoThread)
    <3>1. /\ \A u \in Threads : terminator'[u] = "none" => terminator[u] = "none"
          /\ UNCHANGED <<kind, permits, owner, fifo, at, multi, moved, pulsed>>
      BY <1>24, <1>typ, <2>2 DEF AbandonAllOwned, TypeOK
    <3>2. WakeOnItsWay => WakeOnItsWay'
      BY <3>1 DEF WakeOnItsWay
    <3>3. \A u \in Threads : Asks(u)' => Asks(u)
      BY <3>1 DEF Asks, MayAcquire
    <3> QED
      BY <3>1, <3>2, <3>3, WakeSame
  <2> QED
    BY <2>1, <2>2
<1>25. CASE AbandonCooperativeWait(t)
  <2>1. /\ terminator'[t] # "none"
        /\ \A u \in Threads : terminator'[u] = "none" => terminator[u] = "none"
        /\ \A u \in Threads : at'[u] = at[u]
        /\ UNCHANGED <<kind, permits, owner, multi, pulsed>>
    BY <1>25, <1>typ DEF AbandonCooperativeWait, TypeOK
  <2>2. WakeOnItsWay => WakeOnItsWay'
    BY <2>1 DEF WakeOnItsWay
  <2>3. CASE registered[t] /\ kind \in Pokes /\ fifo' # <<>>
    BY <1>25, <2>3, WakeAll DEF AbandonCooperativeWait, Unregister
  <2>4. CASE registered[t] /\ ~(kind \in Pokes /\ fifo' # <<>>)
    <3>1. fifo' = RemoveFirst(fifo, t) /\ moved' = moved
      BY <1>25, <2>4 DEF AbandonCooperativeWait, Unregister
    <3>2. ASSUME NEW u \in Threads, terminator'[u] = "none", at'[u] \in {"failed", "parked"}, Asks(u)'
          PROVE  Asks(u)
      <4>1. u # t
        BY <2>1, <3>2
      <4> QED
        BY <1>typ, <2>1, <2>4, <3>1, <3>2, <4>1, LeftLine
    <3> QED
      BY <2>1, <2>2, <3>1, <3>2, WakeSame
  <2>5. CASE ~registered[t]
    <3>1. UNCHANGED <<fifo, moved>>
      BY <1>25, <2>5 DEF AbandonCooperativeWait, Unregister
    <3>2. \A u \in Threads : Asks(u)' => Asks(u)
      BY <2>1, <3>1 DEF Asks, MayAcquire
    <3> QED
      BY <2>1, <2>2, <3>1, <3>2, WakeSame
  <2> QED
    BY <2>3, <2>4, <2>5
<1>26. CASE ExitIfTerminated(t)
  <2>1. /\ at'[t] = "dead" /\ at[t] \in {"idle", "failed", "parked"}
        /\ \A u \in Threads : terminator'[u] = terminator[u]
        /\ \A u \in Threads : u # t => at'[u] = at[u]
        /\ UNCHANGED <<kind, permits, owner, multi, pulsed>>
    BY <1>26, <1>typ DEF ExitIfTerminated, TypeOK
  <2>2. WakeOnItsWay => WakeOnItsWay'
    BY <2>1 DEF WakeOnItsWay
  <2>3. CASE registered[t] /\ kind \in Pokes /\ fifo' # <<>>
    BY <1>26, <2>3, WakeAll DEF ExitIfTerminated, Unregister
  <2>4. CASE registered[t] /\ ~(kind \in Pokes /\ fifo' # <<>>)
    <3>1. fifo' = RemoveFirst(fifo, t) /\ moved' = moved
      BY <1>26, <2>4 DEF ExitIfTerminated, Unregister
    <3>2. ASSUME NEW u \in Threads, terminator'[u] = "none", at'[u] \in {"failed", "parked"}, Asks(u)'
          PROVE  Asks(u)
      <4>1. u # t
        BY <2>1, <3>2
      <4> QED
        BY <1>typ, <2>1, <2>4, <3>1, <3>2, <4>1, LeftLine
    <3> QED
      BY <2>1, <2>2, <3>1, <3>2, WakeSame
  <2>5. CASE ~registered[t]
    <3>1. UNCHANGED <<fifo, moved>>
      BY <1>26, <2>5 DEF ExitIfTerminated, Unregister
    <3>2. \A u \in Threads : Asks(u)' => Asks(u)
      BY <2>1, <3>1 DEF Asks, MayAcquire
    <3> QED
      BY <2>1, <2>2, <3>1, <3>2, WakeSame
  <2> QED
    BY <2>3, <2>4, <2>5
<1> QED
  BY <1>0, <1>1, <1>2, <1>3, <1>4, <1>5, <1>6, <1>7, <1>8, <1>9, <1>10, <1>11, <1>12, <1>13, <1>14, <1>15, <1>16, <1>17, <1>18, <1>19, <1>20, <1>21, <1>22, <1>23, <1>24, <1>25, <1>26 DEF Action

LEMMA WakeInductive == Spec => []WakeInv
<1>1. Init => WakeInv
  BY DEF Init, WakeInv
<1>2. TypeInv /\ Line /\ WakeInv /\ UNCHANGED vars => WakeInv'
  <2> SUFFICES ASSUME TypeInv, Line, WakeInv, UNCHANGED vars PROVE WakeInv'
    OBVIOUS
  <2> USE DEF vars, objectVars, waitVars, epochVars, killVars
  <2>1. WakeOnItsWay => WakeOnItsWay'
    BY DEF WakeOnItsWay
  <2>2. \A u \in Threads : Asks(u)' => Asks(u)
    BY DEF Asks, MayAcquire
  <2> QED
    BY <2>1, <2>2, WakeSame
<1>3. TypeInv /\ Line /\ WakeInv /\ [Next]_vars => WakeInv'
  BY <1>2, WakeNext
<1> QED
  BY <1>1, <1>3, TypeInductive, LineInductive, PTL DEF Spec

\* No fiber that could be served sleeps on with no wake coming: signals, waiters that
\* leave by success, time-out or termination, and abandoned mutants all announce
\* what they left behind.
THEOREM WakesAreAnnounced == Spec => []WakeAnnounced
<1>1. WakeInv => WakeAnnounced
  <2> SUFFICES ASSUME WakeInv, NEW t \in Threads, at[t] = "parked", terminator[t] = "none",
                      pulsed[t] \/ Asks(t)
               PROVE  moved[t] \/ WakeOnItsWay
    BY DEF WakeAnnounced, Asks
  <2> QED
    BY DEF WakeInv
<1> QED
  BY <1>1, WakeInductive, PTL
=============================================================================
