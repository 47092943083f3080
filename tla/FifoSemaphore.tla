--------------------------- MODULE FifoSemaphore ---------------------------
(***************************************************************************)
(* What a host semaphore promises the threads that wait for it alone: a    *)
(* count, and for each of them the threads that were waiting before it.    *)
(* Nobody takes a count while a thread that waited before it is waiting,   *)
(* and nobody gives up a count it could have taken.  HostWait.tla          *)
(* implements this specification with tickets.                             *)
(***************************************************************************)
EXTENDS Naturals

CONSTANTS Threads, MaxCount

VARIABLES
  count,    \* what can be taken
  waiting,  \* the threads that wait for the semaphore alone
  ahead     \* for each of them, those it must let pass

vars == <<count, waiting, ahead>>

Init ==
  /\ count \in 0..MaxCount
  /\ waiting = {}
  /\ ahead = [t \in Threads |-> {}]

Release(n) ==
  /\ count + n <= MaxCount
  /\ count' = count + n
  /\ UNCHANGED <<waiting, ahead>>

\* Wait for this or for several objects, with nobody to let pass.
TakeAtOnce ==
  /\ count > 0
  /\ waiting = {}
  /\ count' = count - 1
  /\ UNCHANGED <<waiting, ahead>>

Enter(t) ==
  /\ t \notin waiting
  /\ ~ (count > 0 /\ waiting = {})
  /\ waiting' = waiting \cup {t}
  /\ ahead' = [ahead EXCEPT ![t] = waiting]
  /\ UNCHANGED count

Leave(t) ==
  /\ waiting' = waiting \ {t}
  /\ ahead' = [s \in Threads |-> IF s = t THEN {} ELSE ahead[s] \ {t}]

Take(t) ==
  /\ t \in waiting
  /\ count > 0
  /\ ahead[t] = {}
  /\ count' = count - 1
  /\ Leave(t)

GiveUp(t) ==
  /\ t \in waiting
  /\ ~ (count > 0 /\ ahead[t] = {})
  /\ Leave(t)
  /\ UNCHANGED count

Next ==
  \/ \E n \in 1..MaxCount : Release(n)
  \/ TakeAtOnce
  \/ \E t \in Threads : Enter(t) \/ Take(t) \/ GiveUp(t)

Spec == Init /\ [][Next]_vars
=============================================================================
