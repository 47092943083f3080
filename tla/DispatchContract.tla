-------------------------- MODULE DispatchContract --------------------------
(***************************************************************************)
(* What the guest scheduler promises about a guest thread, whatever the    *)
(* priorities, preemptions, suspensions and terminations:                  *)
(*   - a dispatch thread takes one ready thread at a time, and a thread is *)
(*     on one dispatch thread at a time;                                   *)
(*   - a parked thread reaches a CPU through a ready queue only;           *)
(*   - a thread that ended is never seen again.                            *)
(* GuestScheduler.tla implements this specification.                       *)
(***************************************************************************)
CONSTANTS Threads, Cpus, NoThread

VARIABLES
  place,  \* where each thread is
  on      \* the thread each dispatch thread has taken

vars == <<place, on>>

\* "off": in no list and on no CPU, as a thread created suspended, one a Resume
\* is about to queue, or one that crashed.
Parking == {"off", "ready", "blocked", "suspended"}

Init ==
  /\ place = [t \in Threads |-> "off"]
  /\ on = [c \in Cpus |-> NoThread]

Dispatch(c, t) ==
  /\ on[c] = NoThread
  /\ place[t] = "ready"
  /\ on' = [on EXCEPT ![c] = t]
  /\ place' = [place EXCEPT ![t] = "cpu"]

\* The thread yields, parks, migrates, crashes or ends.
Leave(c, where) ==
  /\ on[c] # NoThread
  /\ on' = [on EXCEPT ![c] = NoThread]
  /\ place' = [place EXCEPT ![on[c]] = where]

MakeReady(t) ==
  /\ place[t] \in {"off", "blocked", "suspended"}
  /\ place' = [place EXCEPT ![t] = "ready"]
  /\ UNCHANGED on

\* A Resume takes the thread off the suspended list before it queues it.
Unsuspend(t) ==
  /\ place[t] = "suspended"
  /\ place' = [place EXCEPT ![t] = "off"]
  /\ UNCHANGED on

\* A thread that never ran is freed by the caller of Terminate.
Free(t) ==
  /\ place[t] = "off"
  /\ place' = [place EXCEPT ![t] = "gone"]
  /\ UNCHANGED on

Next ==
  \/ \E c \in Cpus, t \in Threads : Dispatch(c, t)
  \/ \E c \in Cpus, where \in Parking \cup {"gone"} : Leave(c, where)
  \/ \E t \in Threads : MakeReady(t) \/ Unsuspend(t) \/ Free(t)

Spec == Init /\ [][Next]_vars
=============================================================================
