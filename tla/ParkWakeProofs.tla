---------------------------- MODULE ParkWakeProofs ----------------------------
(***************************************************************************)
(* Proofs about ParkWake, for any number of CPUs, signallers and signals:  *)
(* the types, that no dispatch thread sleeps through a wake, and that a    *)
(* wake is not lost while some other waiter keeps the pre-filter open.     *)
(***************************************************************************)
EXTENDS ParkWake, FiniteSetTheorems, TLAPS

-----------------------------------------------------------------------------
(* Types.  The epoch lags behind the signals by those that are not yet     *)
(* announced, so it stays within their bound.                              *)

Unannounced == {s \in Signallers : sig[s] = "bump"}

Counted ==
  /\ IsFiniteSet(Unannounced)
  /\ epoch + Cardinality(Unannounced) = signals
  /\ permits <= signals

TypeInv == TypeOK /\ Counted

LEMMA TypeInit == Init => TypeInv
<1> SUFFICES ASSUME Init PROVE TypeInv
  OBVIOUS
<1>1. TypeOK
  BY ParkWakeAssumption DEF Init, TypeOK, Cpus
<1>2. Unannounced = {}
  BY DEF Init, Unannounced
<1>3. Counted
  BY <1>2, FS_EmptySet DEF Init, Counted
<1> QED
  BY <1>1, <1>3 DEF TypeInv

\* Other steps than those of a signaller announce nothing.
LEMMA CountedSame ==
  ASSUME TypeInv, UNCHANGED <<sig, epoch, signals>>, permits' <= permits, permits' \in Nat
  PROVE  Counted'
<1>1. Unannounced' = Unannounced
  BY DEF Unannounced
<1> QED
  BY <1>1, ParkWakeAssumption DEF TypeInv, Counted, TypeOK

LEMMA WaitTypes == ASSUME TypeInv, NEW c \in Cpus, Wait(c) PROVE TypeInv'
<1> USE ParkWakeAssumption DEF TypeInv, FiberGoto, objectVars, fiberVars, listVars, cpuVars, sigVars
<1>1. CASE Sample(c)
  BY <1>1, CountedSame DEF Sample, TypeOK
<1>2. CASE PollSucceeds(c)
  BY <1>2, CountedSame DEF PollSucceeds, TypeOK
<1>3. CASE PollFails(c)
  BY <1>3, CountedSame DEF PollFails, TypeOK
<1>4. CASE CheckEpoch(c)
  BY <1>4, CountedSame DEF CheckEpoch, TypeOK
<1>5. CASE StoreHasBlocked(c)
  BY <1>5, CountedSame DEF StoreHasBlocked, TypeOK
<1> QED
  BY <1>1, <1>2, <1>3, <1>4, <1>5 DEF Wait

LEMMA RunLoopTypes == ASSUME TypeInv, NEW c \in Cpus, RunLoop(c) \/ SleepTimesOut(c) PROVE TypeInv'
<1> USE ParkWakeAssumption
    DEF TypeInv, FiberGoto, LoopGoto, objectVars, fiberVars, listVars, cpuVars, sigVars
<1>1. ASSUME NEW due \in BOOLEAN, Exchange(c, due)
      PROVE  TypeInv'
  BY <1>1, CountedSame DEF Exchange, TypeOK
<1>2. CASE RereadyBlocked(c)
  BY <1>2, CountedSame DEF RereadyBlocked, TypeOK
<1>3. CASE SwitchTo(c)
  BY <1>3, CountedSame DEF SwitchTo, TypeOK
<1>4. CASE Park(c)
  BY <1>4, CountedSame DEF Park, TypeOK
<1>5. CASE Recheck(c)
  <2>1. UNCHANGED <<objectVars, fiberVars, listVars, repoll, event, force, sigVars>>
    BY <1>5 DEF Recheck
  <2>2. parked' = [parked EXCEPT ![c] = FALSE] \/ parked' = parked
    BY <1>5 DEF Recheck
  <2>3. loop' = [loop EXCEPT ![c] = "exchange"] \/ loop' = [loop EXCEPT ![c] = "sleep"]
    BY <1>5 DEF Recheck
  <2>4. parked' \in [Cpus -> BOOLEAN]
    BY <2>2 DEF TypeOK
  <2>5. loop' \in [Cpus -> {"fiber", "exchange", "pass", "pick", "recheck", "sleep", "woken"}]
    BY <2>3 DEF TypeOK
  <2> QED
    BY <2>1, <2>4, <2>5, CountedSame DEF TypeOK
<1>6. CASE EventWakes(c)
  BY <1>6, CountedSame DEF EventWakes, TypeOK
<1>7. CASE Unpark(c)
  BY <1>7, CountedSame DEF Unpark, TypeOK
<1>8. CASE SleepTimesOut(c)
  BY <1>8, CountedSame DEF SleepTimesOut, TypeOK
<1> QED
  BY <1>1, <1>2, <1>3, <1>4, <1>5, <1>6, <1>7, <1>8 DEF RunLoop

LEMMA SignalTypes == ASSUME TypeInv, NEW s \in Signallers, Release(s) \/ WakeCooperativeWaiters(s) PROVE TypeInv'
<1> USE ParkWakeAssumption
    DEF TypeInv, SigGoto, objectVars, fiberVars, listVars, cpuVars, sigVars
<1>0. /\ signals \in Nat /\ epoch \in Nat /\ permits \in Nat
      /\ IsFiniteSet(Unannounced) /\ Cardinality(Unannounced) \in Nat
      /\ sig \in [Signallers -> {"idle", "bump", "scan", "mark", "poke"}]
  BY FS_CardinalityType DEF TypeOK, Counted
<1>1. CASE Release(s)
  <2>1. Unannounced' = Unannounced \cup {s} /\ s \notin Unannounced
    BY <1>0, <1>1 DEF Release, Unannounced
  <2>2. Cardinality(Unannounced') = Cardinality(Unannounced) + 1 /\ IsFiniteSet(Unannounced')
    BY <1>0, <2>1, FS_AddElement
  <2>3. Counted'
    <3>1. signals' = signals + 1 /\ permits' = permits + 1 /\ epoch' = epoch
      BY <1>1 DEF Release
    <3>2. epoch + Cardinality(Unannounced) = signals /\ permits <= signals
      BY DEF Counted
    <3>3. epoch + (Cardinality(Unannounced) + 1) = signals + 1
      <4> DEFINE n == Cardinality(Unannounced)
      <4>1. n \in Nat /\ epoch \in Nat /\ signals \in Nat /\ epoch + n = signals
        BY <1>0, <3>2
      <4> HIDE DEF n
      <4>2. epoch + (n + 1) = signals + 1
        BY <4>1
      <4> QED
        BY <4>2 DEF n
    <3>4. permits + 1 <= signals + 1
      BY <1>0, <3>2
    <3>5. epoch' + Cardinality(Unannounced') = signals' /\ permits' <= signals'
      BY <2>2, <3>1, <3>3, <3>4
    <3> QED
      BY <2>2, <3>5 DEF Counted
  <2> QED
    BY <1>1, <2>3 DEF Release, TypeOK, Counted
<1>2. CASE Bump(s)
  <2>1. Unannounced' = Unannounced \ {s} /\ s \in Unannounced
    BY <1>0, <1>2 DEF Bump, Unannounced
  <2>2. Cardinality(Unannounced') = Cardinality(Unannounced) - 1 /\ IsFiniteSet(Unannounced')
    BY <1>0, <2>1, FS_RemoveElement
  <2>3. Counted' /\ epoch' \in 0..MaxSignals
    <3>1. Cardinality(Unannounced') \in Nat
      BY <2>2, FS_CardinalityType
    <3> QED
      BY <1>0, <1>2, <2>2, <3>1 DEF Bump, Counted, TypeOK
  <2> QED
    BY <1>2, <2>3 DEF Bump, TypeOK, Cpus
<1>3. ASSUME UNCHANGED <<permits, epoch, signals>>, sig[s] # "bump", NEW step \in {"idle", "scan", "mark", "poke"},
             sig' = [sig EXCEPT ![s] = step]
      PROVE  Counted'
  <2>1. Unannounced' = Unannounced
    BY <1>0, <1>3 DEF Unannounced
  <2> QED
    BY <1>3, <2>1 DEF Counted
<1>4. CASE Scan(s)
  <2>1. PICK step \in {"idle", "scan", "mark"} : sig' = [sig EXCEPT ![s] = step]
    <3>1. \/ sig' = [sig EXCEPT ![s] = "mark"]
          \/ sig' = [sig EXCEPT ![s] = "scan"]
          \/ sig' = [sig EXCEPT ![s] = "idle"]
      BY <1>4, Zenon DEF Scan
    <3> QED
      BY <3>1
  <2>2. PICK c \in Cpus : scanned' = [scanned EXCEPT ![s] = c]
    <3>1. scanned[s] \in Cpus /\ 1 \in Cpus /\ (scanned[s] # NumCpus => scanned[s] + 1 \in Cpus)
      BY DEF Cpus, TypeOK
    <3>2. CASE scanned[s] = NumCpus
      BY <1>4, <3>1, <3>2 DEF Scan
    <3>3. CASE scanned[s] # NumCpus
      BY <1>4, <3>1, <3>3 DEF Scan
    <3> QED
      BY <3>2, <3>3
  <2>3. sig[s] # "bump" /\ UNCHANGED <<objectVars, fiberVars, listVars, cpuVars, wake>>
    BY <1>4 DEF Scan
  <2> QED
    BY <1>3, <2>1, <2>2, <2>3 DEF TypeOK
<1>5. CASE Mark(s)
  <2>1. Counted'
    BY <1>3, <1>5 DEF Mark
  <2>2. wake' \in [Signallers -> SUBSET Cpus]
    BY <1>5 DEF Mark, TypeOK
  <2> QED
    BY <1>5, <2>1, <2>2 DEF Mark, TypeOK
<1>6. ASSUME NEW c \in Cpus, Poke(s, c)
      PROVE  TypeInv'
  <2>1. wake' \in [Signallers -> SUBSET Cpus]
    BY <1>6 DEF Poke, TypeOK
  <2> QED
    BY <1>6, <2>1, CountedSame DEF Poke, TypeOK
<1>7. CASE Poked(s)
  <2>1. Counted'
    BY <1>3, <1>7 DEF Poked
  <2> QED
    BY <1>7, <2>1 DEF Poked, TypeOK
<1> QED
  BY <1>1, <1>2, <1>4, <1>5, <1>6, <1>7 DEF WakeCooperativeWaiters

LEMMA TypeNext == TypeInv /\ [Next]_vars => TypeInv'
<1> SUFFICES ASSUME TypeInv, [Next]_vars PROVE TypeInv'
  OBVIOUS
<1>1. CASE UNCHANGED vars
  BY <1>1, CountedSame DEF vars, objectVars, fiberVars, listVars, cpuVars, sigVars, TypeInv, TypeOK
<1> QED
  BY <1>1, WaitTypes, RunLoopTypes, SignalTypes DEF Next

\* The handshake stays within its types; no poll takes a permit that is not there,
\* and the epoch never runs ahead of the signals.
THEOREM TypeCorrect == Spec => []TypeOK
<1>1. TypeInv => TypeOK
  BY DEF TypeInv
<1> QED
  BY <1>1, TypeInit, TypeNext, PTL DEF Spec

-----------------------------------------------------------------------------
(* The handshake.  A fiber runs where its CPU is not in the loop; a CPU    *)
(* that is about to sleep, sleeps or was woken has parked set; and what a  *)
(* signaller has to poke it collected at its mark.                         *)

Handshake ==
  /\ \A c \in Cpus :
       /\ fiber[c] = "parked" <=> loop[c] # "fiber"
       /\ loop[c] \in {"recheck", "sleep", "woken"} => parked[c]
  /\ \A s \in Signallers : sig[s] # "poke" => wake[s] = {}

\* With the pre-filter open, a signaller that moved the epoch is on its way to the
\* mark; until then, and no longer, a fiber may park with an old sample unnoticed.
Noticed ==
  bystander =>
    \A c \in Cpus :
      /\ fiber[c] = "store" \/ blocked[c]
      /\ epoch # sampled[c]
      /\ \A s \in Signallers : sig[s] \notin {"scan", "mark"}
      => repoll[c] \/ loop[c] = "pass"

WakeInv == Handshake /\ NoSleepThroughWake /\ Noticed

LEMMA WakeInit == Init => WakeInv
BY DEF Init, WakeInv, Handshake, NoSleepThroughWake, Noticed

LEMMA WaitWake == ASSUME TypeInv, WakeInv, NEW c \in Cpus, Wait(c) PROVE WakeInv'
<1> USE DEF TypeInv, TypeOK, WakeInv, FiberGoto, objectVars, fiberVars, listVars, cpuVars, sigVars
<1>1. CASE Sample(c)
  <2>1. Handshake' /\ NoSleepThroughWake'
    BY <1>1 DEF Sample, Handshake, NoSleepThroughWake
  <2>2. Noticed'
    BY <1>1 DEF Sample, Noticed
  <2> QED
    BY <2>1, <2>2
<1>2. CASE PollSucceeds(c)
  <2>1. Handshake' /\ NoSleepThroughWake'
    BY <1>2 DEF PollSucceeds, Handshake, NoSleepThroughWake
  <2>2. Noticed'
    BY <1>2 DEF PollSucceeds, Noticed
  <2> QED
    BY <2>1, <2>2
<1>3. CASE PollFails(c)
  <2>1. Handshake' /\ NoSleepThroughWake'
    BY <1>3 DEF PollFails, Handshake, NoSleepThroughWake
  <2>2. Noticed'
    BY <1>3 DEF PollFails, Noticed
  <2> QED
    BY <2>1, <2>2
<1>4. CASE CheckEpoch(c)
  <2>1. Handshake'
    BY <1>4 DEF CheckEpoch, Handshake
  <2>2. NoSleepThroughWake'
    BY <1>4 DEF CheckEpoch, Handshake, NoSleepThroughWake
  <2>3. Noticed'
    BY <1>4 DEF CheckEpoch, Noticed
  <2> QED
    BY <2>1, <2>2, <2>3
<1>5. CASE StoreHasBlocked(c)
  <2>1. Handshake'
    BY <1>5 DEF StoreHasBlocked, Handshake
  <2>2. NoSleepThroughWake'
    BY <1>5 DEF StoreHasBlocked, NoSleepThroughWake
  <2>3. Noticed'
    BY <1>5 DEF StoreHasBlocked, Handshake, Noticed
  <2> QED
    BY <2>1, <2>2, <2>3
<1> QED
  BY <1>1, <1>2, <1>3, <1>4, <1>5 DEF Wait

LEMMA RunLoopWake == ASSUME TypeInv, WakeInv, NEW c \in Cpus, RunLoop(c) \/ SleepTimesOut(c) PROVE WakeInv'
<1> USE DEF TypeInv, TypeOK, WakeInv, FiberGoto, LoopGoto, objectVars, fiberVars, listVars, cpuVars, sigVars
<1>1. ASSUME NEW due \in BOOLEAN, Exchange(c, due)
      PROVE  WakeInv'
  <2>1. Handshake' /\ NoSleepThroughWake'
    BY <1>1 DEF Exchange, Handshake, NoSleepThroughWake
  <2>2. Noticed'
    BY <1>1 DEF Exchange, Noticed
  <2> QED
    BY <2>1, <2>2
<1>2. CASE RereadyBlocked(c)
  <2>1. Handshake' /\ NoSleepThroughWake'
    BY <1>2 DEF RereadyBlocked, Handshake, NoSleepThroughWake
  <2>2. Noticed'
    BY <1>2 DEF RereadyBlocked, LockFree, Noticed
  <2> QED
    BY <2>1, <2>2
<1>3. CASE SwitchTo(c)
  <2>1. Handshake' /\ NoSleepThroughWake'
    BY <1>3 DEF SwitchTo, Handshake, NoSleepThroughWake
  <2>2. Noticed'
    BY <1>3 DEF SwitchTo, Noticed
  <2> QED
    BY <2>1, <2>2
<1>4. CASE Park(c)
  <2>1. Handshake' /\ NoSleepThroughWake'
    BY <1>4 DEF Park, Handshake, NoSleepThroughWake
  <2>2. Noticed'
    BY <1>4 DEF Park, Noticed
  <2> QED
    BY <2>1, <2>2
<1>5. CASE Recheck(c)
  <2>1. CASE ready[c] \/ repoll[c]
    <3>1. Handshake' /\ NoSleepThroughWake'
      BY <1>5, <2>1 DEF Recheck, Handshake, NoSleepThroughWake
    <3>2. Noticed'
      BY <1>5, <2>1 DEF Recheck, Noticed
    <3> QED
      BY <3>1, <3>2
  <2>2. CASE ~ (ready[c] \/ repoll[c])
    <3>1. Handshake' /\ NoSleepThroughWake'
      BY <1>5, <2>2 DEF Recheck, Handshake, NoSleepThroughWake
    <3>2. Noticed'
      BY <1>5, <2>2 DEF Recheck, Noticed
    <3> QED
      BY <3>1, <3>2
  <2> QED
    BY <2>1, <2>2
<1>6. CASE EventWakes(c)
  <2>1. Handshake' /\ NoSleepThroughWake'
    BY <1>6 DEF EventWakes, Handshake, NoSleepThroughWake
  <2>2. Noticed'
    BY <1>6 DEF EventWakes, Noticed
  <2> QED
    BY <2>1, <2>2
<1>7. CASE Unpark(c)
  <2>1. Handshake' /\ NoSleepThroughWake'
    BY <1>7 DEF Unpark, Handshake, NoSleepThroughWake
  <2>2. Noticed'
    BY <1>7 DEF Unpark, Noticed
  <2> QED
    BY <2>1, <2>2
<1>8. CASE SleepTimesOut(c)
  <2>1. Handshake' /\ NoSleepThroughWake'
    BY <1>8 DEF SleepTimesOut, Handshake, NoSleepThroughWake
  <2>2. Noticed'
    BY <1>8 DEF SleepTimesOut, Noticed
  <2> QED
    BY <2>1, <2>2
<1> QED
  BY <1>1, <1>2, <1>3, <1>4, <1>5, <1>6, <1>7, <1>8 DEF RunLoop

LEMMA SignalWake ==
  ASSUME TypeInv, WakeInv, NEW s \in Signallers, Release(s) \/ WakeCooperativeWaiters(s)
  PROVE  WakeInv'
<1> USE DEF TypeInv, TypeOK, WakeInv, SigGoto, objectVars, fiberVars, listVars, cpuVars, sigVars
<1>1. CASE Release(s)
  <2>1. Handshake' /\ NoSleepThroughWake'
    BY <1>1 DEF Release, Handshake, NoSleepThroughWake
  <2>2. Noticed'
    BY <1>1 DEF Release, Noticed
  <2> QED
    BY <2>1, <2>2
<1>2. CASE Bump(s)
  <2>1. Handshake' /\ NoSleepThroughWake'
    BY <1>2 DEF Bump, Handshake, NoSleepThroughWake
  <2>2. Noticed'
    BY <1>2 DEF Bump, Noticed
  <2> QED
    BY <2>1, <2>2
<1>3. CASE Scan(s)
  <2>1. /\ \/ sig' = [sig EXCEPT ![s] = "mark"]
           \/ sig' = [sig EXCEPT ![s] = "scan"]
           \/ ~ bystander /\ sig' = [sig EXCEPT ![s] = "idle"]
        /\ sig[s] = "scan"
        /\ UNCHANGED <<objectVars, fiberVars, listVars, cpuVars, wake>>
    BY <1>3, Zenon DEF Scan
  <2>2. Handshake' /\ NoSleepThroughWake'
    BY <2>1 DEF Handshake, NoSleepThroughWake
  <2>3. Noticed'
    BY <2>1 DEF Noticed
  <2> QED
    BY <2>2, <2>3
<1>4. CASE Mark(s)
  <2>1. Handshake'
    BY <1>4 DEF Mark, Handshake
  <2>2. \A c \in Cpus : repoll'[c] <=> (repoll[c] \/ blocked[c])
    BY <1>4 DEF Mark
  <2>3. \A c \in Cpus : blocked[c] => c \in wake'[s]
    BY <1>4 DEF Mark
  <2>4. wake[s] = {} /\ \A r \in Signallers \ {s} : wake'[r] = wake[r]
    BY <1>4 DEF Mark, Handshake
  <2>5. NoSleepThroughWake'
    BY <1>4, <2>2, <2>3, <2>4 DEF Mark, NoSleepThroughWake
  <2>6. Noticed'
    BY <1>4, <2>2 DEF Mark, LockFree, Noticed
  <2> QED
    BY <2>1, <2>5, <2>6
<1>5. ASSUME NEW c \in Cpus, Poke(s, c)
      PROVE  WakeInv'
  <2>1. /\ sig[s] = "poke"
        /\ \A r \in Signallers : wake'[r] = wake[r] \/ (r = s /\ wake'[r] = wake[r] \ {c})
        /\ \A e \in Cpus : event[e] => event'[e]
        /\ parked[c] => event'[c]
    BY <1>5 DEF Poke
  <2>2. UNCHANGED <<objectVars, fiberVars, listVars, repoll, parked, loop, force, sig, scanned>>
    BY <1>5 DEF Poke
  <2>3. Handshake'
    BY <2>1, <2>2 DEF Handshake
  <2>4. NoSleepThroughWake'
    BY <2>1, <2>2 DEF Handshake, NoSleepThroughWake
  <2>5. Noticed'
    BY <2>2 DEF Noticed
  <2> QED
    BY <2>3, <2>4, <2>5
<1>6. CASE Poked(s)
  <2>1. Handshake' /\ NoSleepThroughWake'
    BY <1>6 DEF Poked, Handshake, NoSleepThroughWake
  <2>2. Noticed'
    BY <1>6 DEF Poked, Noticed
  <2> QED
    BY <2>1, <2>2
<1> QED
  BY <1>1, <1>2, <1>3, <1>4, <1>5, <1>6 DEF WakeCooperativeWaiters

LEMMA WakeNext == TypeInv /\ WakeInv /\ [Next]_vars => WakeInv'
<1> SUFFICES ASSUME TypeInv, WakeInv, [Next]_vars PROVE WakeInv'
  OBVIOUS
<1>1. CASE UNCHANGED vars
  BY <1>1
  DEF vars, objectVars, fiberVars, listVars, cpuVars, sigVars, WakeInv, Handshake, NoSleepThroughWake, Noticed
<1> QED
  BY <1>1, WaitWake, RunLoopWake, SignalWake DEF Next

LEMMA WakeHolds == Spec => [](TypeInv /\ WakeInv)
<1>1. Init => TypeInv /\ WakeInv
  BY TypeInit, WakeInit
<1>2. TypeInv /\ WakeInv /\ [Next]_vars => (TypeInv /\ WakeInv)'
  BY TypeNext, WakeNext
<1> QED
  BY <1>1, <1>2, PTL DEF Spec

\* No dispatch thread sleeps through a wake: it sets parked before it looks at its
\* queues again, and a signaller pokes after its mark.
THEOREM NobodySleepsThroughWake == Spec => []NoSleepThroughWake
<1>1. WakeInv => NoSleepThroughWake
  BY DEF WakeInv
<1> QED
  BY <1>1, WakeHolds, PTL

\* With another waiter of any object parked, the signaller always gets as far as
\* its mark, and the epoch check under lock_ sees what the mark came too early for.
THEOREM WakesAreNotLost == Spec => []WakeNotLostBesideOthers
<1>1. WakeInv => WakeNotLostBesideOthers
  BY DEF WakeInv, Noticed, WakeNotLostBesideOthers, WakeNotLost
<1> QED
  BY <1>1, WakeHolds, PTL
=============================================================================
