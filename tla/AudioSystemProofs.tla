-------------------------- MODULE AudioSystemProofs --------------------------
(***************************************************************************)
(* Proofs about AudioSystem, for any number of titles' threads, clients    *)
(* and drivers: the types, the pause, the driver of a callback in flight   *)
(* and the bound on what a driver queues.                                  *)
(***************************************************************************)
EXTENDS AudioSystem, QueueLemmas

-----------------------------------------------------------------------------
(* Types.  The worker and the calls of a title have a client wherever they *)
(* use one, and a driver that plays, or is asked to, has its slot.         *)

ClientTypes ==
  /\ driver \in [Clients -> Drivers \cup {None}]
  /\ credits \in [Clients -> 0..QueuedFrames]
  /\ due \in Seq(Clients)
  /\ moved \in [Clients -> BOOLEAN]
  /\ owner \in [Clients -> Titles \cup {None}]

Working(d) == stream[d] \in {"running", "stopped", "lost"} \/ restart[d] \/ tick[d]

DriverTypes ==
  /\ created \in 0..MaxDrivers
  /\ slot \in [Drivers -> Clients \cup {None}]
  /\ stream \in [Drivers -> {"new", "running", "stopped", "lost", "none", "closed"}]
  /\ restart \in [Drivers -> BOOLEAN]
  /\ queued \in [Drivers -> 0..MaxQueued]
  /\ tick \in [Drivers -> BOOLEAN]
  /\ \A d \in Drivers : Working(d) => slot[d] \in Clients

WorkerTypes ==
  /\ worker \in [at : {"scan", "check", "idle", "pace", "take", "lock", "call", "look", "top up",
                       "again", "parked", "exited"},
                 client : Clients \cup {None}, driver : Drivers \cup {None}]
  /\ worker.at \in {"pace", "take", "lock", "call", "look", "top up", "again"} => worker.client \in Clients
  /\ mutex \in [Clients -> BOOLEAN]

FlagTypes ==
  /\ {running, paused, pending, fence, resumed} \subseteq BOOLEAN
  /\ host \in {"out", "set", "wait", "stop", "paused", "resume"}
  /\ closing \in {"no", "resume?", "resume", "join", "done"}
  /\ mode \in Modes

TitleTypes ==
  /\ title \in [Titles -> [at : {"out", "wait", "destroy", "drain"},
                           client : Clients \cup {None}, driver : Drivers \cup {None}]]
  /\ \A t \in Titles : title[t].at # "out" => title[t].client \in Clients

Types == ClientTypes /\ DriverTypes /\ WorkerTypes /\ FlagTypes /\ TitleTypes

LEMMA TypesSuffice == Types => TypeOK
BY DEF Types, ClientTypes, DriverTypes, Working, WorkerTypes, FlagTypes, TitleTypes, TypeOK

LEMMA TypesInit == Init => Types
<1> SUFFICES ASSUME Init PROVE Types
  OBVIOUS
<1> USE AudioSystemAssumption DEF Init
<1>1. ClientTypes
  BY DEF ClientTypes
<1>2. DriverTypes
  BY DEF DriverTypes, Working, Drivers
<1>3. WorkerTypes
  BY DEF WorkerTypes, Scan
<1>4. FlagTypes
  BY DEF FlagTypes
<1>5. TitleTypes
  BY DEF TitleTypes, NoCall
<1> QED
  BY <1>1, <1>2, <1>3, <1>4, <1>5 DEF Types

\* A release keeps the count of a semaphore within its maximum.
LEMMA ReleasedBounded ==
  ASSUME Types, NEW i \in Clients, NEW n \in Nat
  PROVE  Released(i, n) \in 0..QueuedFrames
BY AudioSystemAssumption DEF Types, ClientTypes, Released

\* The worker picks a client while one is in use.
LEMMA EarliestIsClient ==
  ASSUME Types, \E i \in Clients : InUse(i)
  PROVE  Earliest \in Clients
<1> DEFINE new == {i \in Clients : InUse(i) /\ i \notin ToSet(due)}
<1>1. CASE new # {}
  <2>1. \E i \in new : \A j \in new : i <= j
    <3>1. new \subseteq Nat
      BY AudioSystemAssumption DEF Clients
    <3> QED
      BY <3>1, <1>1, LeastMember
  <2>2. Earliest = CHOOSE i \in new : \A j \in new : i <= j
    BY <1>1 DEF Earliest
  <2> QED
    BY <2>1, <2>2
<1>2. CASE new = {}
  <2>1. Earliest = Head(due)
    BY <1>2 DEF Earliest
  <2>2. due \in Seq(Clients) /\ due # <<>>
    BY <1>2 DEF Types, ClientTypes, ToSet
  <2> QED
    BY <2>1, <2>2, HeadTailProperties
<1> QED
  BY <1>1, <1>2

LEMMA SameTypes ==
  Types =>
    /\ UNCHANGED clientVars => ClientTypes'
    /\ UNCHANGED driverVars => DriverTypes'
    /\ UNCHANGED workerVars => WorkerTypes'
    /\ UNCHANGED <<flagVars, hostVars, mode>> => FlagTypes'
    /\ UNCHANGED title => TitleTypes'
<1> USE DEF Types, clientVars, driverVars, workerVars, flagVars, hostVars, InUse
<1>1. Types /\ UNCHANGED clientVars => ClientTypes'
  BY DEF ClientTypes
<1>2. Types /\ UNCHANGED driverVars => DriverTypes'
  BY DEF DriverTypes, Working
<1>3. Types /\ UNCHANGED workerVars => WorkerTypes'
  BY DEF WorkerTypes
<1>4. Types /\ UNCHANGED <<flagVars, hostVars, mode>> => FlagTypes'
  BY DEF FlagTypes
<1>5. Types /\ UNCHANGED title => TitleTypes'
  BY DEF TitleTypes
<1> QED
  BY <1>1, <1>2, <1>3, <1>4, <1>5

LEMMA SubmitTypes ==
  ASSUME Types, NEW i \in Clients, SubmitFrame(i),
         UNCHANGED <<driver, due, owner, created, slot, stream, restart, tick>>
  PROVE  ClientTypes' /\ DriverTypes'
<1>0. Released(i, 1) \in 0..QueuedFrames
  BY ReleasedBounded
<1>1. CASE InUse(i)
  <2>1. driver[i] \in Drivers /\ queued[driver[i]] + 1 \in 0..MaxQueued
    BY <1>1, AudioSystemAssumption DEF SubmitFrame, InUse, Types, ClientTypes, DriverTypes, Working
  <2>2. DriverTypes'
    BY <1>1, <2>1 DEF SubmitFrame, Types, DriverTypes, Working
  <2>3. ClientTypes'
    BY <1>1 DEF SubmitFrame, Types, ClientTypes
  <2> QED
    BY <2>2, <2>3
<1>2. CASE ~ InUse(i)
  BY <1>0, <1>2 DEF SubmitFrame, Types, ClientTypes, DriverTypes, Working
<1> QED
  BY <1>1, <1>2

LEMMA CallBackTypes ==
  ASSUME Types, worker.client \in Clients, CallBack,
         UNCHANGED <<driver, due, owner, created, slot, stream, restart, tick>>
  PROVE  ClientTypes' /\ DriverTypes'
<1>1. CASE SubmitFrame(worker.client)
  BY <1>1, SubmitTypes
<1>2. CASE UNCHANGED <<queued, moved, credits>>
  BY <1>2 DEF Types, ClientTypes, DriverTypes, Working
<1> QED
  BY <1>1, <1>2 DEF CallBack

LEMMA WorkerTypesNext == Types /\ (Worker \/ WorkerDue) => Types'
<1> SUFFICES ASSUME Types, Worker \/ WorkerDue PROVE Types'
  OBVIOUS
<1> USE DEF clientVars, driverVars, workerVars, flagVars, hostVars, At, Step, Scan
<1>1. CASE WorkerScan
  <2>1. CASE \E i \in Clients : InUse(i)
    <3>1. Earliest \in Clients
      BY <2>1, EarliestIsClient
    <3>2. RemoveFirst(due, Earliest) \in Seq(Clients)
      BY RemoveFirstQueue DEF Types, ClientTypes
    <3>3. Append(RemoveFirst(due, Earliest), Earliest) \in Seq(Clients)
      BY <3>1, <3>2, AppendQueue
    <3>4. ClientTypes'
      BY <1>1, <2>1, <3>3 DEF WorkerScan, Types, ClientTypes
    <3>5. WorkerTypes'
      BY <1>1, <2>1, <3>1 DEF WorkerScan, Types, WorkerTypes
    <3> QED
      BY <1>1, <3>4, <3>5, SameTypes DEF WorkerScan, Types
  <2>2. CASE ~ \E i \in Clients : InUse(i)
    <3>1. WorkerTypes' /\ UNCHANGED clientVars
      BY <1>1, <2>2 DEF WorkerScan, Types, WorkerTypes
    <3> QED
      BY <1>1, <3>1, SameTypes DEF WorkerScan, Types
  <2> QED
    BY <2>1, <2>2
<1>2. CASE WorkerExit
  <2>1. WorkerTypes'
    BY <1>2 DEF WorkerExit, Types, WorkerTypes
  <2> QED
    BY <1>2, <2>1, SameTypes DEF WorkerExit, Types
<1>3. CASE WorkerCheck
  <2>1. WorkerTypes'
    BY <1>3 DEF WorkerCheck, Types, WorkerTypes
  <2>2. FlagTypes'
    BY <1>3 DEF WorkerCheck, Types, FlagTypes
  <2> QED
    BY <1>3, <2>1, <2>2, SameTypes DEF WorkerCheck, Types
<1>4. CASE WorkerResume
  <2>1. WorkerTypes'
    BY <1>4 DEF WorkerResume, Types, WorkerTypes
  <2>2. FlagTypes'
    BY <1>4 DEF WorkerResume, Types, FlagTypes
  <2> QED
    BY <1>4, <2>1, <2>2, SameTypes DEF WorkerResume, Types
<1>5. CASE WorkerWoken
  <2>1. WorkerTypes'
    BY <1>5 DEF WorkerWoken, Types, WorkerTypes
  <2>2. FlagTypes'
    BY <1>5 DEF WorkerWoken, Types, FlagTypes
  <2> QED
    BY <1>5, <2>1, <2>2, SameTypes DEF WorkerWoken, Types
<1>6. CASE WorkerTake
  <2>0. worker.client \in Clients
    BY <1>6 DEF WorkerTake, Types, WorkerTypes
  <2>1. worker' = [worker EXCEPT !.at = "lock"] \/ worker' = Scan
    BY <1>6 DEF WorkerTake
  <2>2. \/ credits' = credits
        \/ credits[worker.client] > 0 /\ credits' = [credits EXCEPT ![worker.client] = @ - 1]
    BY <1>6 DEF WorkerTake
  <2>3. UNCHANGED <<driver, due, moved, owner, driverVars, mutex, flagVars, hostVars, title, mode>>
    BY <1>6 DEF WorkerTake
  <2>4. WorkerTypes'
    <3>1. CASE worker' = [worker EXCEPT !.at = "lock"]
      BY <3>1, <2>0, <2>3 DEF Types, WorkerTypes
    <3>2. CASE worker' = Scan
      BY <3>2, <2>0, <2>3 DEF Types, WorkerTypes
    <3> QED
      BY <2>1, <3>1, <3>2
  <2>5. ClientTypes'
    BY <2>0, <2>2, <2>3, AudioSystemAssumption DEF Types, ClientTypes
  <2> QED
    BY <2>3, <2>4, <2>5, SameTypes DEF Types
<1>7. CASE WorkerLock
  <2>0. worker.client \in Clients
    BY <1>7 DEF WorkerLock, Types, WorkerTypes
  <2>1. \/ worker' = [worker EXCEPT !.at = "call", !.driver = driver[worker.client]]
        \/ worker' = Scan
    BY <1>7 DEF WorkerLock
  <2>2. /\ mutex' = mutex \/ mutex' = [mutex EXCEPT ![worker.client] = TRUE]
        /\ moved' = moved \/ moved' = [moved EXCEPT ![worker.client] = FALSE]
    BY <1>7 DEF WorkerLock
  <2>3. UNCHANGED <<driver, credits, due, owner, driverVars, flagVars, hostVars, title, mode>>
    BY <1>7 DEF WorkerLock
  <2>4. WorkerTypes'
    <3>1. CASE worker' = [worker EXCEPT !.at = "call", !.driver = driver[worker.client]]
      BY <3>1, <2>0, <2>2 DEF Types, WorkerTypes, ClientTypes
    <3>2. CASE worker' = Scan
      BY <3>2, <2>0, <2>2 DEF Types, WorkerTypes, ClientTypes
    <3> QED
      BY <2>1, <3>1, <3>2
  <2>5. ClientTypes'
    BY <2>2, <2>3 DEF Types, ClientTypes
  <2> QED
    BY <2>3, <2>4, <2>5, SameTypes DEF Types
<1>8. CASE WorkerCall
  <2>1. WorkerTypes'
    BY <1>8 DEF WorkerCall, Types, WorkerTypes
  <2>2. ClientTypes' /\ DriverTypes'
    BY <1>8, <2>1, CallBackTypes DEF WorkerCall, Types, WorkerTypes
  <2> QED
    BY <1>8, <2>1, <2>2, SameTypes DEF WorkerCall, Types
<1>9. CASE WorkerLook
  <2>1. WorkerTypes'
    BY <1>9 DEF WorkerLook, Types, WorkerTypes, ClientTypes
  <2> QED
    BY <1>9, <2>1, SameTypes DEF WorkerLook, Types
<1>10. CASE WorkerTopUp
  <2>0. worker.client \in Clients
    BY <1>10 DEF WorkerTopUp, Types, WorkerTypes
  <2>1. worker' = [worker EXCEPT !.at = "again"] \/ worker' = Scan
    BY <1>10 DEF WorkerTopUp, Unlock
  <2>2. mutex' = mutex \/ mutex' = [mutex EXCEPT ![worker.client] = FALSE]
    BY <1>10 DEF WorkerTopUp, Unlock
  <2>3. \/ credits' = credits
        \/ credits[worker.client] > 0 /\ credits' = [credits EXCEPT ![worker.client] = @ - 1]
    BY <1>10 DEF WorkerTopUp
  <2>4. UNCHANGED <<driver, due, moved, owner, driverVars, flagVars, hostVars, title, mode>>
    BY <1>10 DEF WorkerTopUp
  <2>5. WorkerTypes'
    <3>1. CASE worker' = [worker EXCEPT !.at = "again"]
      BY <3>1, <2>0, <2>2 DEF Types, WorkerTypes
    <3>2. CASE worker' = Scan
      BY <3>2, <2>0, <2>2 DEF Types, WorkerTypes
    <3> QED
      BY <2>1, <3>1, <3>2
  <2>6. ClientTypes'
    BY <2>0, <2>3, <2>4, AudioSystemAssumption DEF Types, ClientTypes
  <2> QED
    BY <2>4, <2>5, <2>6, SameTypes DEF Types
<1>11. CASE WorkerCallAgain
  <2>1. WorkerTypes'
    BY <1>11 DEF WorkerCallAgain, Unlock, Types, WorkerTypes
  <2>2. ClientTypes' /\ DriverTypes'
    BY <1>11, <2>1, CallBackTypes DEF WorkerCallAgain, Types, WorkerTypes
  <2> QED
    BY <1>11, <2>1, <2>2, SameTypes DEF WorkerCallAgain, Types
<1>12. CASE WorkerDue
  <2>1. WorkerTypes'
    BY <1>12 DEF WorkerDue, Types, WorkerTypes
  <2> QED
    BY <1>12, <2>1, SameTypes DEF WorkerDue, Types
<1> QED
  BY <1>1, <1>2, <1>3, <1>4, <1>5, <1>6, <1>7, <1>8, <1>9, <1>10, <1>11, <1>12 DEF Worker

\* What stops, resumes or closes streams changes nothing else that is typed.
LEMMA OnStreamsTypes ==
  ASSUME Types, NEW from \in {"running", "stopped"}, NEW to \in {"running", "stopped"},
         OnStreams(from, to), UNCHANGED <<created, slot, restart, queued, tick>>
  PROVE  DriverTypes'
BY DEF OnStreams, Types, DriverTypes, Working

LEMMA DestroyTypes ==
  ASSUME Types, NEW S, Destroy(S), UNCHANGED <<created, slot, tick>>
  PROVE  DriverTypes'
<1>1. /\ stream' \in [Drivers -> {"new", "running", "stopped", "lost", "none", "closed"}]
      /\ restart' \in [Drivers -> BOOLEAN]
  BY DEF Destroy, Types, DriverTypes, Working
<1>2. queued' \in [Drivers -> 0..MaxQueued]
  BY AudioSystemAssumption DEF Destroy, Types, DriverTypes, Working
<1>3. ASSUME NEW d \in Drivers, Working(d)'
      PROVE  slot'[d] \in Clients
  BY <1>3 DEF Destroy, Types, DriverTypes, Working
<1> QED
  BY <1>1, <1>2, <1>3 DEF Types, DriverTypes, Working

LEMMA RegisterTypes ==
  ASSUME Types, NEW t \in Titles, RegisterClient(t)
  PROVE  Types'
<1> DEFINE n == created + 1
<1>0. PICK i \in Clients :
        /\ credits' = [credits EXCEPT ![i] = Released(i, QueuedFrames)]
        /\ created' = n
        /\ slot' = [slot EXCEPT ![n] = i]
        /\ \/ /\ driver' = [driver EXCEPT ![i] = n]
              /\ stream' = [stream EXCEPT ![n] = "running"]
              /\ moved' = [moved EXCEPT ![i] = TRUE]
              /\ owner' = [owner EXCEPT ![i] = t]
              /\ pending' = TRUE
           \/ /\ stream' = [stream EXCEPT ![n] = "closed"]
              /\ UNCHANGED <<driver, moved, owner, pending>>
  BY DEF RegisterClient
<1>1. UNCHANGED <<due, restart, queued, tick, workerVars, running, paused, fence, resumed, hostVars, title, mode>>
  BY DEF RegisterClient
<1>2. n \in Drivers /\ n \in 0..MaxDrivers
  BY AudioSystemAssumption DEF RegisterClient, Drivers, Types, DriverTypes, Working
<1>3. Released(i, QueuedFrames) \in 0..QueuedFrames
  BY AudioSystemAssumption, ReleasedBounded
<1> HIDE DEF n
<1>4. ClientTypes'
  BY <1>0, <1>1, <1>2, <1>3 DEF Types, ClientTypes
<1>5. DriverTypes'
  BY <1>0, <1>1, <1>2 DEF Types, DriverTypes, Working
<1>6. FlagTypes'
  BY <1>0, <1>1 DEF Types, FlagTypes, hostVars
<1> QED
  BY <1>1, <1>4, <1>5, <1>6, SameTypes DEF Types

LEMMA TitleTypesNext ==
  ASSUME Types, NEW t \in Titles,
         \/ RegisterClient(t)
         \/ Title(t)
         \/ \E i \in Clients : UnregisterClient(t, i) \/ SubmitStray(t, i)
  PROVE  Types'
<1> USE DEF clientVars, driverVars, workerVars, flagVars, hostVars
<1>1. CASE RegisterClient(t)
  BY <1>1, RegisterTypes
<1>2. CASE WaitForCallback(t)
  <2>1. TitleTypes'
    BY <1>2 DEF WaitForCallback, Types, TitleTypes
  <2> QED
    BY <1>2, <2>1, SameTypes DEF WaitForCallback, Types
<1>3. CASE DestroyDriver(t)
  <2>1. TitleTypes'
    BY <1>3 DEF DestroyDriver, Types, TitleTypes
  <2>2. DriverTypes'
    BY <1>3, DestroyTypes DEF DestroyDriver
  <2> QED
    BY <1>3, <2>1, <2>2, SameTypes DEF DestroyDriver, Types
<1>4. CASE Drain(t)
  <2>0. title[t].client \in Clients
    BY <1>4 DEF Drain, Types, TitleTypes
  <2>1. title' = title \/ title' = [title EXCEPT ![t] = NoCall]
    BY <1>4 DEF Drain
  <2>2. \/ credits' = credits
        \/ credits[title[t].client] > 0 /\ credits' = [credits EXCEPT ![title[t].client] = @ - 1]
    BY <1>4 DEF Drain
  <2>3. UNCHANGED <<driver, due, moved, owner, driverVars, workerVars, flagVars, hostVars, mode>>
    BY <1>4 DEF Drain
  <2>4. TitleTypes'
    BY <2>1 DEF NoCall, Types, TitleTypes
  <2>5. ClientTypes'
    BY <2>0, <2>2, <2>3, AudioSystemAssumption DEF Types, ClientTypes
  <2> QED
    BY <2>3, <2>4, <2>5, SameTypes DEF Types
<1>5. ASSUME NEW i \in Clients, UnregisterClient(t, i)
      PROVE  Types'
  <2>1. TitleTypes'
    BY <1>5 DEF UnregisterClient, Types, TitleTypes, ClientTypes
  <2>2. RemoveFirst(due, i) \in Seq(Clients)
    BY RemoveFirstQueue DEF Types, ClientTypes
  <2>3. ClientTypes'
    BY <1>5, <2>2 DEF UnregisterClient, Types, ClientTypes
  <2> QED
    BY <1>5, <2>1, <2>3, SameTypes DEF UnregisterClient, Types
<1>6. ASSUME NEW i \in Clients, SubmitStray(t, i)
      PROVE  Types'
  <2>1. ClientTypes' /\ DriverTypes'
    BY <1>6, SubmitTypes DEF SubmitStray
  <2> QED
    BY <1>6, <2>1, SameTypes DEF SubmitStray, Types
<1> QED
  BY <1>1, <1>2, <1>3, <1>4, <1>5, <1>6 DEF Title

LEMMA DriverTypesNext ==
  ASSUME Types, NEW d \in Drivers,
         PlayBlock(d) \/ ReleaseCredit(d) \/ StreamError(d) \/ RestartStream(d)
  PROVE  Types'
<1> USE DEF clientVars, driverVars, workerVars, flagVars, hostVars
<1>1. CASE PlayBlock(d)
  <2>1. (IF queued[d] > 0 THEN queued[d] - 1 ELSE 0) \in 0..MaxQueued
    BY AudioSystemAssumption DEF Types, DriverTypes, Working
  <2>2. DriverTypes'
    BY <1>1, <2>1 DEF PlayBlock, Types, DriverTypes, Working
  <2> QED
    BY <1>1, <2>2, SameTypes DEF PlayBlock, Types
<1>2. CASE ReleaseCredit(d)
  <2>0. slot[d] \in Clients
    BY <1>2 DEF ReleaseCredit, Types, DriverTypes, Working
  <2>1. Released(slot[d], 1) \in 0..QueuedFrames
    BY <2>0, ReleasedBounded
  <2>2. DriverTypes'
    BY <1>2 DEF ReleaseCredit, Types, DriverTypes, Working
  <2>3. ClientTypes'
    BY <1>2, <2>0, <2>1 DEF ReleaseCredit, Types, ClientTypes
  <2> QED
    BY <1>2, <2>2, <2>3, SameTypes DEF ReleaseCredit, Types
<1>3. CASE StreamError(d)
  <2>1. DriverTypes'
    BY <1>3 DEF StreamError, Types, DriverTypes, Working
  <2> QED
    BY <1>3, <2>1, SameTypes DEF StreamError, Types
<1>4. CASE RestartStream(d)
  <2>1. DriverTypes'
    BY <1>4 DEF RestartStream, Types, DriverTypes, Working
  <2> QED
    BY <1>4, <2>1, SameTypes DEF RestartStream, Types
<1> QED
  BY <1>1, <1>2, <1>3, <1>4

LEMMA HostTypesNext ==
  ASSUME Types, Pause \/ Resume \/ Host \/ Shutdown \/ Closing
  PROVE  Types'
<1> USE DEF clientVars, driverVars, workerVars, flagVars, hostVars
<1>1. CASE Pause
  <2>1. FlagTypes'
    BY <1>1 DEF Pause, Types, FlagTypes
  <2> QED
    BY <1>1, <2>1, SameTypes DEF Pause, Types
<1>2. CASE Resume
  <2>1. FlagTypes'
    BY <1>2 DEF Resume, Types, FlagTypes
  <2> QED
    BY <1>2, <2>1, SameTypes DEF Resume, Types
<1>3. CASE PauseSet
  <2>1. FlagTypes'
    BY <1>3 DEF PauseSet, Types, FlagTypes
  <2> QED
    BY <1>3, <2>1, SameTypes DEF PauseSet, Types
<1>4. CASE PauseWait
  <2>1. FlagTypes'
    BY <1>4 DEF PauseWait, Types, FlagTypes
  <2> QED
    BY <1>4, <2>1, SameTypes DEF PauseWait, Types
<1>5. CASE PauseDrivers
  <2>1. FlagTypes'
    BY <1>5 DEF PauseDrivers, Types, FlagTypes
  <2>2. DriverTypes'
    BY <1>5, OnStreamsTypes DEF PauseDrivers
  <2> QED
    BY <1>5, <2>1, <2>2, SameTypes DEF PauseDrivers, Types
<1>6. CASE ResumeEnd
  <2>1. FlagTypes'
    BY <1>6 DEF ResumeEnd, ResumeDrivers, Types, FlagTypes
  <2>2. DriverTypes'
    BY <1>6, OnStreamsTypes DEF ResumeEnd, ResumeDrivers
  <2> QED
    BY <1>6, <2>1, <2>2, SameTypes DEF ResumeEnd, Types
<1>7. CASE Shutdown
  <2>1. FlagTypes'
    BY <1>7 DEF Shutdown, Types, FlagTypes
  <2> QED
    BY <1>7, <2>1, SameTypes DEF Shutdown, Types
<1>8. CASE ShutdownCheck
  <2>1. FlagTypes'
    BY <1>8 DEF ShutdownCheck, Types, FlagTypes
  <2> QED
    BY <1>8, <2>1, SameTypes DEF ShutdownCheck, Types
<1>9. CASE ShutdownResume
  <2>1. FlagTypes'
    BY <1>9 DEF ShutdownResume, ResumeDrivers, Types, FlagTypes
  <2>2. DriverTypes'
    BY <1>9, OnStreamsTypes DEF ShutdownResume, ResumeDrivers
  <2> QED
    BY <1>9, <2>1, <2>2, SameTypes DEF ShutdownResume, Types
<1>10. CASE ShutdownJoin
  <2>1. FlagTypes'
    BY <1>10 DEF ShutdownJoin, Types, FlagTypes
  <2>2. DriverTypes'
    BY <1>10, DestroyTypes DEF ShutdownJoin
  <2>3. ClientTypes'
    BY <1>10 DEF ShutdownJoin, Types, ClientTypes
  <2> QED
    BY <1>10, <2>1, <2>2, <2>3, SameTypes DEF ShutdownJoin, Types
<1> QED
  BY <1>1, <1>2, <1>3, <1>4, <1>5, <1>6, <1>7, <1>8, <1>9, <1>10 DEF Host, Closing

LEMMA TypesNext == Types /\ [Next]_vars => Types'
<1> SUFFICES ASSUME Types, [Next]_vars PROVE Types'
  OBVIOUS
<1>1. CASE Worker \/ WorkerDue
  BY <1>1, WorkerTypesNext
<1>2. ASSUME NEW t \in Titles,
             \/ RegisterClient(t) \/ Title(t)
             \/ \E i \in Clients : UnregisterClient(t, i) \/ SubmitStray(t, i)
      PROVE  Types'
  BY <1>2, TitleTypesNext
<1>3. ASSUME NEW d \in Drivers, PlayBlock(d) \/ ReleaseCredit(d) \/ StreamError(d) \/ RestartStream(d)
      PROVE  Types'
  BY <1>3, DriverTypesNext
<1>4. CASE Pause \/ Resume \/ Host \/ Shutdown \/ Closing
  BY <1>4, HostTypesNext
<1>5. CASE UNCHANGED vars
  BY <1>5, SameTypes DEF vars, Types, clientVars, driverVars, workerVars, flagVars, hostVars
<1> QED
  BY <1>1, <1>2, <1>3, <1>4, <1>5 DEF Next

\* The state of the audio system stays within its types.  This holds because no
\* semaphore exceeds its maximum, and because the worker and the calls of the
\* title have a client wherever they use one.
THEOREM TypeCorrect == Spec => []TypeOK
<1> QED
  BY TypesInit, TypesNext, TypesSuffice, PTL DEF Spec

-----------------------------------------------------------------------------
(* The pause.  A fence that is signalled while the pause goes on, and a    *)
(* pause that returned, each mean a worker that stays: it is parked and    *)
(* nobody has resumed it or is about to.                                   *)

Stays == At("parked") /\ ~ resumed /\ closing # "resume"

PauseInv ==
  /\ running <=> closing = "no"
  /\ paused => host \in {"set", "wait", "stop", "paused"}
  /\ fence => host \in {"set", "wait"}
  /\ host \in {"stop", "paused"} /\ paused => Stays
  /\ fence /\ paused => Stays
  /\ host = "resume" => Stays /\ ~ paused
  /\ resumed => At("parked") \/ ~ running
  /\ At("check") /\ (resumed \/ closing = "resume") => host \in {"set", "wait"} /\ ~ paused /\ ~ fence

LEMMA PauseInit == Init => PauseInv
BY DEF Init, PauseInv, Scan, At

\* The worker's steps other than the check and the resume neither leave the place
\* where it is parked nor come to the check.
LEMMA PauseWorkerMoves ==
  ASSUME PauseInv, ~ At("parked"), worker'.at \notin {"check", "parked"} \/ worker'.at = worker.at,
         UNCHANGED <<running, paused, fence, resumed, hostVars>>
  PROVE  PauseInv'
BY DEF PauseInv, Stays, At, hostVars

LEMMA PauseWorkerNext == Types /\ PauseInv /\ (Worker \/ WorkerDue) => PauseInv'
<1> SUFFICES ASSUME Types, PauseInv, Worker \/ WorkerDue PROVE PauseInv'
  OBVIOUS
<1> USE DEF At, Step, Scan
<1>0. /\ {running, paused, pending, fence, resumed} \subseteq BOOLEAN
      /\ worker = [at |-> worker.at, client |-> worker.client, driver |-> worker.driver]
  BY DEF Types, FlagTypes, WorkerTypes
<1>1. CASE WorkerScan
  <2>1. worker'.at = "check" /\ worker.at = "scan" /\ running
    BY <1>0, <1>1 DEF WorkerScan
  <2>2. UNCHANGED <<running, paused, fence, resumed, host, closing>>
    BY <1>1 DEF WorkerScan, flagVars, hostVars
  <2> QED
    BY <2>1, <2>2 DEF PauseInv, Stays
<1>2. CASE WorkerExit
  <2>1. worker'.at = "exited" /\ worker.at = "scan"
    BY <1>0, <1>2 DEF WorkerExit
  <2> QED
    BY <1>2, <2>1, PauseWorkerMoves DEF WorkerExit, flagVars
<1>3. CASE WorkerCheck
  <2>0. worker.at = "check" /\ UNCHANGED <<running, paused, resumed, host, closing>>
    BY <1>3 DEF WorkerCheck, hostVars
  <2>1. CASE paused
    <3>1. worker'.at = "parked" /\ fence'
      BY <1>0, <1>3, <2>1 DEF WorkerCheck
    <3>2. host \in {"set", "wait"} /\ ~ resumed /\ closing # "resume"
      BY <2>0, <2>1 DEF PauseInv, Stays
    <3> QED
      BY <2>0, <2>1, <3>1, <3>2 DEF PauseInv, Stays
  <2>2. CASE ~ paused
    <3>1. worker'.at \in {"idle", "pace"} /\ fence' = fence
      BY <1>0, <1>3, <2>2 DEF WorkerCheck
    <3> QED
      BY <2>0, <3>1, PauseWorkerMoves DEF hostVars
  <2> QED
    BY <2>1, <2>2
<1>4. CASE WorkerResume
  <2>1. worker.at = "parked" /\ worker'.at = "scan" /\ resumed /\ ~ resumed'
    BY <1>4 DEF WorkerResume
  <2>2. UNCHANGED <<running, paused, fence, host, closing>>
    BY <1>4 DEF WorkerResume, hostVars
  <2> QED
    BY <2>1, <2>2 DEF PauseInv, Stays
<1>5. CASE WorkerWoken
  <2>1. worker.at # "parked" /\ worker'.at = "scan"
    BY <1>5 DEF WorkerWoken
  <2> QED
    BY <1>5, <2>1, PauseWorkerMoves DEF WorkerWoken
<1>6. CASE WorkerTake
  <2>1. worker.at = "take" /\ worker'.at \in {"lock", "scan"}
    BY <1>0, <1>6 DEF WorkerTake
  <2> QED
    BY <1>6, <2>1, PauseWorkerMoves DEF WorkerTake, flagVars
<1>7. CASE WorkerLock
  <2>1. \/ worker' = [worker EXCEPT !.at = "call", !.driver = driver[worker.client]]
        \/ worker' = Scan
    BY <1>7 DEF WorkerLock
  <2>2. worker'.at \in {"call", "scan"}
    <3>1. CASE worker' = [worker EXCEPT !.at = "call", !.driver = driver[worker.client]]
      BY <1>0, <3>1
    <3>2. CASE worker' = Scan
      BY <3>2
    <3> QED
      BY <2>1, <3>1, <3>2
  <2>3. worker.at = "lock"
    BY <1>7 DEF WorkerLock
  <2> QED
    BY <1>7, <2>2, <2>3, PauseWorkerMoves DEF WorkerLock, flagVars
<1>8. CASE WorkerCall
  <2>1. worker.at = "call" /\ worker'.at = "look"
    BY <1>0, <1>8 DEF WorkerCall
  <2> QED
    BY <1>8, <2>1, PauseWorkerMoves DEF WorkerCall, flagVars
<1>9. CASE WorkerLook
  <2>1. worker.at = "look" /\ worker'.at = "top up"
    BY <1>0, <1>9 DEF WorkerLook
  <2> QED
    BY <1>9, <2>1, PauseWorkerMoves DEF WorkerLook, flagVars
<1>10. CASE WorkerTopUp
  <2>1. worker' = [worker EXCEPT !.at = "again"] \/ worker' = Scan
    BY <1>10 DEF WorkerTopUp, Unlock
  <2>2. worker'.at \in {"again", "scan"}
    BY <1>0, <2>1
  <2>3. worker.at = "top up"
    BY <1>10 DEF WorkerTopUp
  <2> QED
    BY <1>10, <2>2, <2>3, PauseWorkerMoves DEF WorkerTopUp, flagVars
<1>11. CASE WorkerCallAgain
  <2>1. worker.at = "again" /\ worker'.at = "scan"
    BY <1>11 DEF WorkerCallAgain, Unlock
  <2> QED
    BY <1>11, <2>1, PauseWorkerMoves DEF WorkerCallAgain, flagVars
<1>12. CASE WorkerDue
  <2>1. worker.at = "pace" /\ worker'.at = "take"
    BY <1>0, <1>12 DEF WorkerDue
  <2> QED
    BY <1>12, <2>1, PauseWorkerMoves DEF WorkerDue, flagVars
<1> QED
  BY <1>1, <1>2, <1>3, <1>4, <1>5, <1>6, <1>7, <1>8, <1>9, <1>10, <1>11, <1>12 DEF Worker

LEMMA PauseHostNext == Types /\ PauseInv /\ (Pause \/ Resume \/ Host \/ Shutdown \/ Closing) => PauseInv'
<1> SUFFICES ASSUME Types, PauseInv, Pause \/ Resume \/ Host \/ Shutdown \/ Closing PROVE PauseInv'
  OBVIOUS
<1> USE DEF PauseInv, Stays, At, workerVars, flagVars, hostVars
<1>0. {running, paused, pending, fence, resumed} \subseteq BOOLEAN
  BY DEF Types, FlagTypes
<1>1. CASE Pause
  BY <1>0, <1>1 DEF Pause
<1>2. CASE Resume
  BY <1>0, <1>2 DEF Resume
<1>3. CASE PauseSet
  BY <1>0, <1>3 DEF PauseSet
<1>4. CASE PauseWait
  BY <1>0, <1>4 DEF PauseWait
<1>5. CASE PauseDrivers
  BY <1>0, <1>5 DEF PauseDrivers
<1>6. CASE ResumeEnd
  BY <1>0, <1>6 DEF ResumeEnd, ResumeDrivers
<1>7. CASE Shutdown
  BY <1>0, <1>7 DEF Shutdown
<1>8. CASE ShutdownCheck
  BY <1>0, <1>8 DEF ShutdownCheck
<1>9. CASE ShutdownResume
  BY <1>0, <1>9 DEF ShutdownResume, ResumeDrivers
<1>10. CASE ShutdownJoin
  BY <1>0, <1>10 DEF ShutdownJoin
<1> QED
  BY <1>1, <1>2, <1>3, <1>4, <1>5, <1>6, <1>7, <1>8, <1>9, <1>10 DEF Host, Closing

\* The title and the drivers have no part in a pause.
LEMMA PauseUnmoved ==
  PauseInv /\ UNCHANGED <<worker, running, paused, fence, resumed, hostVars>> => PauseInv'
BY DEF PauseInv, Stays, At, hostVars

LEMMA PauseNext == Types /\ PauseInv /\ [Next]_vars => PauseInv'
<1> SUFFICES ASSUME Types, PauseInv, [Next]_vars PROVE PauseInv'
  OBVIOUS
<1>1. CASE Worker \/ WorkerDue
  BY <1>1, PauseWorkerNext
<1>2. ASSUME NEW t \in Titles, RegisterClient(t)
      PROVE  PauseInv'
  BY <1>2, PauseUnmoved DEF RegisterClient, workerVars
<1>3. ASSUME NEW t \in Titles, Title(t)
      PROVE  PauseInv'
  BY <1>3, PauseUnmoved DEF Title, WaitForCallback, DestroyDriver, Drain, workerVars, flagVars
<1>4. ASSUME NEW t \in Titles, NEW i \in Clients, UnregisterClient(t, i) \/ SubmitStray(t, i)
      PROVE  PauseInv'
  BY <1>4, PauseUnmoved DEF UnregisterClient, SubmitStray, workerVars, flagVars
<1>5. ASSUME NEW d \in Drivers, PlayBlock(d) \/ ReleaseCredit(d) \/ StreamError(d) \/ RestartStream(d)
      PROVE  PauseInv'
  BY <1>5, PauseUnmoved DEF PlayBlock, ReleaseCredit, StreamError, RestartStream, workerVars, flagVars
<1>6. CASE Pause \/ Resume \/ Host \/ Shutdown \/ Closing
  BY <1>6, PauseHostNext
<1>7. CASE UNCHANGED vars
  BY <1>7, PauseUnmoved DEF vars, workerVars, flagVars
<1> QED
  BY <1>1, <1>2, <1>3, <1>4, <1>5, <1>6, <1>7 DEF Next

\* When AudioSystem::Pause has returned and nobody has resumed, the worker is
\* parked: the fence it waited for was signalled for this pause, and neither a
\* Resume nor a Shutdown signals resume_event_ while paused_ is set.
THEOREM PauseParks == Spec => []PauseMeansParked
<1>1. PauseInv => PauseMeansParked
  BY DEF PauseInv, Stays, PauseMeansParked
<1> QED
  BY <1>1, TypesInit, TypesNext, PauseInit, PauseNext, PTL DEF Spec

-----------------------------------------------------------------------------
(* The driver of a callback in flight.  A driver is in one slot, or in the *)
(* hands of one thread that takes its client back; the worker's is in the  *)
(* slot of its client or in the hands of one that waits for the worker.    *)

Busy == worker.at \in {"call", "look", "top up", "again"}

Apart ==
  /\ \A i \in Clients : InUse(i) => driver[i] \in 1..created /\ slot[driver[i]] = i
  /\ \A t \in Titles :
       /\ title[t].at \in {"wait", "destroy"} <=> title[t].driver # None
       /\ title[t].driver # None =>
            /\ title[t].driver \in 1..created
            /\ slot[title[t].driver] = title[t].client
            /\ \A i \in Clients : driver[i] # title[t].driver
            /\ \A s \in Titles \ {t} : title[s].driver # title[t].driver

Alive ==
  /\ \A i \in Clients : InUse(i) => stream[driver[i]] # "closed"
  /\ \A t \in Titles : title[t].driver # None => stream[title[t].driver] # "closed"

InHand ==
  /\ \A i \in Clients : mutex[i] <=> Busy /\ worker.client = i
  /\ Busy /\ worker.driver # None =>
       \/ driver[worker.client] = worker.driver
       \/ \E t \in Titles : /\ title[t].at = "wait"
                           /\ title[t].client = worker.client
                           /\ title[t].driver = worker.driver

DriverInv == Apart /\ Alive /\ InHand

LEMMA DriverInit == Init => DriverInv
BY DEF Init, DriverInv, Apart, Alive, InHand, Busy, InUse, NoCall, Scan

LEMMA ApartSame == Apart /\ UNCHANGED <<driver, title, created, slot>> => Apart'
BY DEF Apart, InUse

LEMMA AliveSame ==
  ASSUME Types, Apart, Alive, UNCHANGED <<driver, title>>,
         \A d \in Drivers : stream'[d] = "closed" => stream[d] = "closed"
  PROVE  Alive'
<1>1. \A i \in Clients : InUse(i) => driver[i] \in Drivers
  BY DEF Types, ClientTypes, InUse
<1>2. \A t \in Titles : title[t].driver # None => title[t].driver \in Drivers
  BY DEF Types, TitleTypes
<1> QED
  BY <1>1, <1>2 DEF Alive, InUse

LEMMA InHandSame == InHand /\ UNCHANGED <<driver, title, worker, mutex>> => InHand'
BY DEF InHand, Busy

LEMMA WorkerDriverNext == Types /\ DriverInv /\ (Worker \/ WorkerDue) => DriverInv'
<1> SUFFICES ASSUME Types, DriverInv, Worker \/ WorkerDue PROVE DriverInv'
  OBVIOUS
<1> USE DEF At, Step, Scan
<1>0. /\ worker = [at |-> worker.at, client |-> worker.client, driver |-> worker.driver]
      /\ worker.client \in Clients \cup {None}
      /\ mutex \in [Clients -> BOOLEAN]
  BY DEF Types, WorkerTypes
<1>a. ASSUME InHand', UNCHANGED <<driver, title, created, slot, stream>>
      PROVE  DriverInv'
  BY <1>a, ApartSame, AliveSame DEF DriverInv
<1>b. ASSUME ~ Busy, ~ Busy', UNCHANGED mutex
      PROVE  InHand'
  BY <1>b DEF DriverInv, InHand, Busy
<1>c. ASSUME Busy, Busy', UNCHANGED <<mutex, driver, title>>,
             worker'.client = worker.client, worker'.driver = worker.driver
      PROVE  InHand'
  BY <1>c DEF DriverInv, InHand, Busy
<1>d. ASSUME Busy, Unlock
      PROVE  InHand'
  <2>1. worker.client \in Clients /\ ~ Busy'
    BY <1>d, <1>0 DEF Busy, Unlock, Types, WorkerTypes
  <2>2. \A i \in Clients : mutex'[i] = FALSE
    BY <1>d, <1>0, <2>1 DEF Unlock, DriverInv, InHand
  <2> QED
    BY <2>1, <2>2 DEF InHand, Busy
<1>e. UNCHANGED driverVars => UNCHANGED <<created, slot, stream>>
  BY DEF driverVars
<1>1. CASE WorkerScan
  <2>1. ~ Busy /\ ~ Busy'
    BY <1>0, <1>1 DEF WorkerScan, Busy
  <2> QED
    BY <1>1, <2>1, <1>a, <1>b, <1>e DEF WorkerScan
<1>2. CASE WorkerExit \/ WorkerCheck \/ WorkerResume \/ WorkerWoken \/ WorkerDue
  <2>1. ~ Busy /\ ~ Busy'
    <3>1. CASE WorkerExit
      BY <1>0, <3>1 DEF WorkerExit, Busy
    <3>2. CASE WorkerCheck
      BY <1>0, <3>2 DEF WorkerCheck, Busy
    <3>3. CASE WorkerResume
      BY <1>0, <3>3 DEF WorkerResume, Busy
    <3>4. CASE WorkerWoken
      BY <1>0, <3>4 DEF WorkerWoken, Busy
    <3>5. CASE WorkerDue
      BY <1>0, <3>5 DEF WorkerDue, Busy
    <3> QED
      BY <1>2, <3>1, <3>2, <3>3, <3>4, <3>5
  <2>2. UNCHANGED <<driver, title, created, slot, stream, mutex>>
    BY <1>2 DEF WorkerExit, WorkerCheck, WorkerResume, WorkerWoken, WorkerDue, clientVars, driverVars
  <2> QED
    BY <2>1, <2>2, <1>a, <1>b
<1>3. CASE WorkerTake
  <2>1. worker' = [worker EXCEPT !.at = "lock"] \/ worker' = Scan
    BY <1>3 DEF WorkerTake
  <2>2. worker'.at \in {"lock", "scan"} /\ worker.at = "take"
    BY <1>0, <1>3, <2>1 DEF WorkerTake
  <2>3. UNCHANGED <<driver, title, created, slot, stream, mutex>>
    BY <1>3 DEF WorkerTake, driverVars
  <2> QED
    BY <2>2, <2>3, <1>a, <1>b DEF Busy
<1>4. CASE WorkerLock
  <2>0. worker.client \in Clients /\ ~ Busy /\ UNCHANGED <<driver, title, created, slot, stream>>
    BY <1>4 DEF WorkerLock, Busy, Types, WorkerTypes, driverVars
  <2>1. CASE InUse(worker.client)
    <3>1. /\ mutex' = [mutex EXCEPT ![worker.client] = TRUE]
          /\ worker' = [worker EXCEPT !.at = "call", !.driver = driver[worker.client]]
      BY <1>4, <2>1 DEF WorkerLock
    <3>2. Busy' /\ worker'.client = worker.client /\ worker'.driver = driver[worker.client]
      BY <1>0, <3>1 DEF Busy
    <3>3. \A i \in Clients : ~ mutex[i]
      BY <2>0 DEF DriverInv, InHand
    <3>4. \A i \in Clients : mutex'[i] <=> worker.client = i
      BY <1>0, <2>0, <3>1, <3>3
    <3>5. InHand'
      BY <2>0, <3>2, <3>4 DEF InHand
    <3> QED
      BY <1>a, <2>0, <3>5
  <2>2. CASE ~ InUse(worker.client)
    <3>1. worker' = Scan /\ mutex' = mutex
      BY <1>4, <2>2 DEF WorkerLock
    <3> QED
      BY <1>a, <1>b, <2>0, <3>1 DEF Busy
  <2> QED
    BY <2>1, <2>2
<1>5. CASE WorkerCall
  <2>1. /\ Busy /\ Busy' /\ worker'.client = worker.client /\ worker'.driver = worker.driver
        /\ UNCHANGED <<driver, title, created, slot, stream, mutex>>
    BY <1>0, <1>5 DEF WorkerCall, Busy
  <2> QED
    BY <1>a, <1>c, <2>1
<1>6. CASE WorkerLook
  <2>1. /\ Busy /\ Busy' /\ worker'.client = worker.client /\ worker'.driver = driver[worker.client]
        /\ UNCHANGED <<driver, title, created, slot, stream, mutex>>
    BY <1>0, <1>6 DEF WorkerLook, Busy, clientVars, driverVars
  <2>2. InHand'
    BY <2>1 DEF InHand, DriverInv
  <2> QED
    BY <1>a, <2>1, <2>2
<1>7. CASE WorkerTopUp
  <2>0. Busy /\ UNCHANGED <<driver, title, created, slot, stream>>
    BY <1>7 DEF WorkerTopUp, Busy, driverVars
  <2>1. \/ worker' = [worker EXCEPT !.at = "again"] /\ mutex' = mutex
        \/ Unlock
    BY <1>7 DEF WorkerTopUp
  <2>2. CASE worker' = [worker EXCEPT !.at = "again"] /\ mutex' = mutex
    <3>1. Busy' /\ worker'.client = worker.client /\ worker'.driver = worker.driver
      BY <1>0, <2>2 DEF Busy
    <3> QED
      BY <1>a, <1>c, <2>0, <2>2, <3>1
  <2> QED
    BY <1>a, <1>d, <2>0, <2>1, <2>2
<1>8. CASE WorkerCallAgain
  <2>1. Busy /\ Unlock /\ UNCHANGED <<driver, title, created, slot, stream>>
    BY <1>8 DEF WorkerCallAgain, Busy
  <2> QED
    BY <1>a, <1>d, <2>1
<1> QED
  BY <1>1, <1>2, <1>3, <1>4, <1>5, <1>6, <1>7, <1>8 DEF Worker

LEMMA TitleDriverNext ==
  ASSUME Types, DriverInv, NEW t \in Titles,
         \/ RegisterClient(t)
         \/ Title(t)
         \/ \E i \in Clients : UnregisterClient(t, i) \/ SubmitStray(t, i)
  PROVE  DriverInv'
<1> USE DEF DriverInv
<1>0. /\ title \in [Titles -> [at : {"out", "wait", "destroy", "drain"},
                             client : Clients \cup {None}, driver : Drivers \cup {None}]]
      /\ driver \in [Clients -> Drivers \cup {None}]
      /\ worker.at = "exited" => ~ Busy
      /\ Busy => worker.client \in Clients
  BY DEF Types, TitleTypes, ClientTypes, WorkerTypes, Busy
<1>1. CASE RegisterClient(t)
  <2> DEFINE n == created + 1
  <2>1. PICK i \in Clients :
          /\ ~ InUse(i)
          /\ slot' = [slot EXCEPT ![n] = i]
          /\ \/ driver' = [driver EXCEPT ![i] = n] /\ stream' = [stream EXCEPT ![n] = "running"]
             \/ driver' = driver /\ stream' = [stream EXCEPT ![n] = "closed"]
    BY <1>1 DEF RegisterClient
  <2>2. created' = n /\ UNCHANGED <<title, worker, mutex>>
    BY <1>1 DEF RegisterClient, workerVars
  <2>3. n \in Drivers /\ n \notin 1..created /\ 1..created \subseteq 1..n /\ n \in 1..n
    BY <1>1, AudioSystemAssumption DEF RegisterClient, Drivers, Types, DriverTypes, Working
  <2>4. None \notin Drivers
    BY AudioSystemAssumption DEF Drivers
  <2>5. /\ slot'[n] = i
        /\ \A d \in 1..created : slot'[d] = slot[d]
        /\ \A d \in 1..created : stream'[d] = "closed" => stream[d] = "closed"
    <3>1. 1..created \subseteq Drivers
      BY AudioSystemAssumption DEF Types, DriverTypes, Working, Drivers
    <3> QED
      BY <2>1, <2>3, <3>1 DEF Types, DriverTypes, Working
  <2> HIDE DEF n
  <2>6. CASE driver' = [driver EXCEPT ![i] = n] /\ stream' = [stream EXCEPT ![n] = "running"]
    <3>1. stream'[n] = "running"
      BY <2>3, <2>6 DEF Types, DriverTypes, Working
    <3>2. driver'[i] = n /\ \A j \in Clients \ {i} : driver'[j] = driver[j]
      BY <1>0, <2>6
    <3>3. Apart'
      BY <2>1, <2>2, <2>3, <2>4, <2>5, <3>2 DEF Apart, InUse
    <3>4. Alive'
      BY <2>2, <2>5, <3>1, <3>2 DEF Alive, Apart, InUse
    <3>5. InHand'
      BY <1>0, <2>1, <2>2, <3>2 DEF InHand, Busy, InUse
    <3> QED
      BY <3>3, <3>4, <3>5
  <2>7. CASE driver' = driver
    <3>1. Apart'
      BY <2>2, <2>3, <2>5, <2>7 DEF Apart, InUse
    <3>2. Alive'
      BY <2>2, <2>5, <2>7 DEF Alive, Apart, InUse
    <3> QED
      BY <2>2, <2>7, <3>1, <3>2, InHandSame
  <2> QED
    BY <2>1, <2>6, <2>7
<1>2. CASE WaitForCallback(t)
  <2>1. /\ title[t].at = "wait" /\ ~ mutex[title[t].client]
        /\ title' = [title EXCEPT ![t].at = "destroy"]
        /\ UNCHANGED <<driver, created, slot, stream, worker, mutex>>
    BY <1>2 DEF WaitForCallback, clientVars, driverVars, workerVars
  <2>2. /\ title'[t].at = "destroy" /\ title'[t].client = title[t].client /\ title'[t].driver = title[t].driver
        /\ \A s \in Titles \ {t} : title'[s] = title[s]
    BY <1>0, <2>1
  <2>3. Apart'
    BY <2>1, <2>2 DEF Apart, InUse
  <2>4. Alive'
    BY <2>1, <2>2 DEF Alive, InUse
  <2>5. InHand'
    BY <1>0, <2>1, <2>2 DEF InHand, Busy
  <2> QED
    BY <2>3, <2>4, <2>5
<1>3. CASE DestroyDriver(t)
  <2>1. /\ title[t].at = "destroy"
        /\ title' = [title EXCEPT ![t].at = "drain", ![t].driver = None]
        /\ UNCHANGED <<driver, created, slot, worker, mutex>>
    BY <1>3 DEF DestroyDriver, clientVars, workerVars
  <2>2. /\ title'[t].at = "drain" /\ title'[t].driver = None
        /\ \A s \in Titles \ {t} : title'[s] = title[s]
    BY <1>0, <2>1
  <2>3. \A d \in Drivers \ {title[t].driver} : stream'[d] = stream[d]
    BY <1>3 DEF DestroyDriver, Destroy
  <2>4. Apart'
    <3>1. \A s \in Titles : title'[s].driver = None \/ (s # t /\ title'[s].driver = title[s].driver)
      BY <2>2
    <3>2. \A s \in Titles : title'[s].at \in {"wait", "destroy"} <=> title'[s].driver # None
      BY <2>2 DEF Apart
    <3>3. ASSUME NEW s \in Titles, title'[s].driver # None
          PROVE  /\ title'[s].driver \in 1..created
                 /\ slot[title'[s].driver] = title'[s].client
                 /\ \A i \in Clients : driver[i] # title'[s].driver
                 /\ \A r \in Titles \ {s} : title'[r].driver # title'[s].driver
      BY <2>2, <3>1, <3>3 DEF Apart
    <3> QED
      BY <2>1, <3>2, <3>3 DEF Apart, InUse
  <2>5. title[t].driver # None
    BY <2>1 DEF Apart
  <2>6. Alive'
    <3>1. \A i \in Clients : InUse(i) => driver[i] \in Drivers \ {title[t].driver}
      BY <1>0, <2>5 DEF Apart, InUse
    <3>2. \A s \in Titles \ {t} : title[s].driver # None => title[s].driver \in Drivers \ {title[t].driver}
      BY <1>0, <2>5 DEF Apart
    <3>3. \A i \in Clients : InUse(i) => stream'[driver[i]] # "closed"
      BY <2>3, <3>1 DEF Alive
    <3>4. \A s \in Titles : title'[s].driver # None => stream'[title'[s].driver] # "closed"
      BY <2>2, <2>3, <3>2 DEF Alive
    <3> QED
      BY <2>1, <3>3, <3>4 DEF Alive, InUse
  <2>7. InHand'
    BY <2>1, <2>2 DEF InHand, Busy
  <2> QED
    BY <2>4, <2>6, <2>7
<1>4. CASE Drain(t)
  <2>1. title[t].at = "drain" /\ UNCHANGED <<driver, created, slot, stream, worker, mutex>>
    BY <1>4 DEF Drain, driverVars, workerVars
  <2>2. title' = title \/ title' = [title EXCEPT ![t] = NoCall]
    BY <1>4 DEF Drain
  <2>3. /\ title'[t].at \in {"out", "drain"} /\ title'[t].driver = None
        /\ \A s \in Titles \ {t} : title'[s] = title[s]
    BY <1>0, <2>1, <2>2 DEF NoCall, Apart
  <2>4. Apart'
    BY <2>1, <2>3 DEF Apart, InUse
  <2>5. Alive'
    BY <2>1, <2>3 DEF Alive, InUse
  <2>6. InHand'
    BY <2>1, <2>3 DEF InHand, Busy
  <2> QED
    BY <2>4, <2>5, <2>6
<1>5. ASSUME NEW i \in Clients, UnregisterClient(t, i)
      PROVE  DriverInv'
  <2>1. /\ title[t].at = "out" /\ InUse(i)
        /\ driver' = [driver EXCEPT ![i] = None]
        /\ title' = [title EXCEPT ![t] = [at |-> "wait", client |-> i, driver |-> driver[i]]]
        /\ UNCHANGED <<created, slot, stream, worker, mutex>>
    BY <1>5 DEF UnregisterClient, driverVars, workerVars
  <2>2. driver'[i] = None /\ \A j \in Clients \ {i} : driver'[j] = driver[j]
    BY <1>0, <2>1
  <2>3. /\ title'[t].at = "wait" /\ title'[t].client = i /\ title'[t].driver = driver[i]
        /\ \A s \in Titles \ {t} : title'[s] = title[s]
    BY <1>0, <2>1
  <2>4. title[t].driver = None
    BY <2>1 DEF Apart
  <2>5. Apart'
    BY <2>1, <2>2, <2>3, <2>4 DEF Apart, InUse
  <2>6. Alive'
    BY <2>1, <2>2, <2>3 DEF Alive, InUse
  <2>7. InHand'
    <3>1. \A j \in Clients : mutex'[j] <=> Busy' /\ worker'.client = j
      BY <2>1 DEF InHand, Busy
    <3>2. ASSUME Busy', worker'.driver # None
          PROVE  \/ driver'[worker'.client] = worker'.driver
                 \/ \E s \in Titles : /\ title'[s].at = "wait"
                                     /\ title'[s].client = worker'.client
                                     /\ title'[s].driver = worker'.driver
      <4>1. Busy /\ worker' = worker /\ worker.client \in Clients
        BY <1>0, <2>1, <3>2 DEF Busy
      <4>2. CASE driver[worker.client] = worker.driver /\ worker.client # i
        BY <2>2, <4>1, <4>2
      <4>3. CASE driver[worker.client] = worker.driver /\ worker.client = i
        BY <2>3, <4>1, <4>3
      <4>4. CASE driver[worker.client] # worker.driver
        <5>1. PICK s \in Titles : /\ title[s].at = "wait"
                                 /\ title[s].client = worker.client
                                 /\ title[s].driver = worker.driver
          BY <3>2, <4>1, <4>4 DEF InHand
        <5>2. s # t
          BY <2>1, <5>1
        <5> QED
          BY <2>3, <4>1, <5>1, <5>2
      <4> QED
        BY <4>2, <4>3, <4>4
    <3> QED
      BY <3>1, <3>2 DEF InHand
  <2> QED
    BY <2>5, <2>6, <2>7
<1>6. ASSUME NEW i \in Clients, SubmitStray(t, i)
      PROVE  DriverInv'
  BY <1>6, ApartSame, AliveSame, InHandSame DEF SubmitStray, workerVars
<1> QED
  BY <1>1, <1>2, <1>3, <1>4, <1>5, <1>6 DEF Title

LEMMA DriverNext == Types /\ DriverInv /\ [Next]_vars => DriverInv'
<1> SUFFICES ASSUME Types, DriverInv, [Next]_vars PROVE DriverInv'
  OBVIOUS
<1>0. ASSUME UNCHANGED <<driver, title, created, slot, worker, mutex>>,
             \A d \in Drivers : stream'[d] = "closed" => stream[d] = "closed"
      PROVE  DriverInv'
  BY <1>0, ApartSame, AliveSame, InHandSame DEF DriverInv
<1>1. CASE Worker \/ WorkerDue
  BY <1>1, WorkerDriverNext
<1>2. ASSUME NEW t \in Titles,
             \/ RegisterClient(t) \/ Title(t)
             \/ \E i \in Clients : UnregisterClient(t, i) \/ SubmitStray(t, i)
      PROVE  DriverInv'
  BY <1>2, TitleDriverNext
<1>3. ASSUME NEW d \in Drivers, PlayBlock(d) \/ ReleaseCredit(d) \/ StreamError(d) \/ RestartStream(d)
      PROVE  DriverInv'
  <2>1. UNCHANGED <<driver, title, created, slot, worker, mutex>>
    BY <1>3 DEF PlayBlock, ReleaseCredit, StreamError, RestartStream, clientVars, workerVars
  <2>2. stream' = stream \/ \E new \in {"lost", "running", "none"} : stream' = [stream EXCEPT ![d] = new]
    BY <1>3 DEF PlayBlock, ReleaseCredit, StreamError, RestartStream
  <2> QED
    BY <1>0, <2>1, <2>2 DEF Types, DriverTypes, Working
<1>4. CASE Pause \/ PauseSet \/ PauseWait \/ Resume \/ Shutdown \/ ShutdownCheck
  BY <1>0, <1>4
  DEF Pause, PauseSet, PauseWait, Resume, Shutdown, ShutdownCheck, clientVars, driverVars, workerVars
<1>5. CASE PauseDrivers \/ ResumeEnd \/ ShutdownResume
  BY <1>0, <1>5 DEF PauseDrivers, ResumeEnd, ShutdownResume, ResumeDrivers, OnStreams, clientVars, workerVars
<1>6. CASE ShutdownJoin
  <2>1. /\ worker.at = "exited"
        /\ driver' = [i \in Clients |-> None]
        /\ UNCHANGED <<created, slot, worker, mutex, title>>
    BY <1>6 DEF ShutdownJoin, At, workerVars
  <2>2. \A d \in Drivers : (\A i \in Clients : driver[i] # d) => stream'[d] = stream[d]
    BY <1>6 DEF ShutdownJoin, Destroy
  <2>3. \A t \in Titles : title[t].driver # None => title[t].driver \in Drivers
    BY DEF Types, TitleTypes
  <2>4. Apart'
    BY <2>1 DEF Apart, InUse, DriverInv
  <2>5. Alive'
    BY <2>1, <2>2, <2>3 DEF Alive, Apart, InUse, DriverInv
  <2>6. InHand'
    BY <2>1 DEF InHand, Busy, DriverInv
  <2> QED
    BY <2>4, <2>5, <2>6 DEF DriverInv
<1>7. CASE UNCHANGED vars
  BY <1>0, <1>7 DEF vars, clientVars, driverVars, workerVars
<1> QED
  BY <1>1, <1>2, <1>3, <1>4, <1>5, <1>6, <1>7 DEF Next, Host, Closing

\* No driver is destroyed while the worker runs the callback it plays for or looks
\* at its queue: UnregisterClient takes callback_mutex before it destroys the
\* driver, Shutdown joins the worker, and no other thread has the driver.
THEOREM DriversOutliveCallbacks == Spec => []DriverOutlivesCallback
<1>1. Types /\ DriverInv => DriverOutlivesCallback
  BY DEF Types, WorkerTypes, DriverInv, Alive, InHand, Busy, InUse, DriverOutlivesCallback
<1> QED
  BY <1>1, TypesInit, TypesNext, DriverInit, DriverNext, PTL DEF Spec

-----------------------------------------------------------------------------
(* The credits.  A driver that plays, or may play again, is in a slot or   *)
(* in the hands of a thread that takes its client back, so the credit it   *)
(* releases is its own client's, or that of a client nobody calls.         *)

Owner(d) ==
  \/ driver[slot[d]] = d
  \/ \E t \in Titles : title[t].driver = d

Owned ==
  \A d \in Drivers :
    /\ Working(d) => Owner(d)
    /\ Working(d) \/ queued[d] > 0 => d \in 1..created

OrderlyTitle == mode = "orderly" => \A t \in Titles : title[t].at # "out" => ~ InUse(title[t].client)

Load(i) == credits[i] + InFlight(i) + queued[driver[i]] + (IF tick[driver[i]] THEN 1 ELSE 0)

CreditInv == Owned /\ OrderlyTitle /\ QueueBounded

LEMMA CreditInit == Init => CreditInv
<1> SUFFICES ASSUME Init PROVE CreditInv
  OBVIOUS
<1>1. Owned
  BY DEF Init, Owned, Working
<1>2. OrderlyTitle
  BY DEF Init, OrderlyTitle, NoCall
<1>3. QueueBounded
  BY DEF Init, QueueBounded, InUse
<1> QED
  BY <1>1, <1>2, <1>3 DEF CreditInv

LEMMA LoadType ==
  ASSUME Types, NEW i \in Clients, InUse(i)
  PROVE  /\ driver[i] \in Drivers
         /\ credits[i] \in Nat /\ queued[driver[i]] \in Nat /\ tick[driver[i]] \in BOOLEAN
         /\ InFlight(i) \in {0, 1}
         /\ Load(i) \in Nat
<1>1. driver[i] \in Drivers
  BY DEF Types, ClientTypes, InUse
<1>2. credits[i] \in Nat /\ queued[driver[i]] \in Nat /\ tick[driver[i]] \in BOOLEAN
  BY <1>1, AudioSystemAssumption DEF Types, ClientTypes, DriverTypes
<1>3. InFlight(i) \in {0, 1}
  BY DEF InFlight
<1> QED
  BY <1>1, <1>2, <1>3 DEF Load

\* What neither puts a client in a slot nor adds to its load keeps the bound.
LEMMA BoundStep ==
  ASSUME Types, Types', QueueBounded, mode' = mode,
         mode = "orderly" => \A i \in Clients : InUse(i)' => InUse(i) /\ Load(i)' <= Load(i)
  PROVE  QueueBounded'
<1> SUFFICES ASSUME mode = "orderly", NEW i \in Clients, InUse(i)'
             PROVE  Load(i)' <= QueuedFrames + 2
  BY DEF QueueBounded, Load
<1>1. InUse(i) /\ Load(i)' <= Load(i)
  OBVIOUS
<1>2. Load(i) <= QueuedFrames + 2
  BY <1>1 DEF QueueBounded, Load
<1>3. Load(i) \in Nat
  BY <1>1, LoadType
<1>4. Load(i)' \in Nat
  <2>1. driver'[i] \in Drivers
    BY DEF Types, ClientTypes, InUse
  <2>2. credits'[i] \in Nat /\ queued'[driver'[i]] \in Nat
    BY <2>1, AudioSystemAssumption DEF Types, ClientTypes, DriverTypes
  <2>3. InFlight(i)' \in {0, 1}
    BY DEF InFlight
  <2> QED
    BY <2>2, <2>3 DEF Load
<1> QED
  BY <1>1, <1>2, <1>3, <1>4, AudioSystemAssumption

\* What the worker's steps leave alone.
LEMMA WorkerFrame ==
  ASSUME Types, Worker \/ WorkerDue
  PROVE  /\ UNCHANGED <<driver, created, slot, stream, restart, tick, title, mode>>
         /\ \A d \in Drivers : queued'[d] = queued[d] \/ \E i \in Clients : driver[i] = d
<1>1. \/ WorkerScan \/ WorkerExit \/ WorkerCheck \/ WorkerResume \/ WorkerWoken \/ WorkerTake
      \/ WorkerLock \/ WorkerLook \/ WorkerTopUp \/ WorkerDue
      \/ WorkerCall \/ WorkerCallAgain
  BY DEF Worker
<1>2. CASE \/ WorkerScan \/ WorkerExit \/ WorkerCheck \/ WorkerResume \/ WorkerWoken \/ WorkerTake
           \/ WorkerLock \/ WorkerLook \/ WorkerTopUp \/ WorkerDue
  BY <1>2 DEF WorkerScan, WorkerExit, WorkerCheck, WorkerResume, WorkerWoken, WorkerTake, WorkerLock,
              WorkerLook, WorkerTopUp, WorkerDue, clientVars, driverVars
<1>3. CASE WorkerCall \/ WorkerCallAgain
  <2>1. UNCHANGED <<driver, created, slot, stream, restart, tick, title, mode>>
    BY <1>3 DEF WorkerCall, WorkerCallAgain
  <2>2. worker.client \in Clients /\ CallBack
    BY <1>3 DEF WorkerCall, WorkerCallAgain, At, Types, WorkerTypes
  <2>3. queued' = queued \/ queued' = [queued EXCEPT ![driver[worker.client]] = @ + 1]
    BY <2>2 DEF CallBack, SubmitFrame
  <2> QED
    BY <2>1, <2>2, <2>3 DEF Types, DriverTypes
<1> QED
  BY <1>1, <1>2, <1>3

LEMMA OwnedSame ==
  ASSUME Types, Apart, Owned, UNCHANGED <<driver, slot, title, created>>,
         \A d \in Drivers :
           /\ Working(d)' => Working(d)
           /\ queued'[d] > 0 => queued[d] > 0 \/ Working(d) \/ \E i \in Clients : driver[i] = d
  PROVE  Owned'
<1>1. \A d \in Drivers : (\E i \in Clients : driver[i] = d) => d \in 1..created
  BY AudioSystemAssumption DEF Apart, InUse, Drivers
<1>2. ASSUME NEW d \in Drivers
      PROVE  /\ Working(d)' => Owner(d)'
             /\ Working(d)' \/ queued'[d] > 0 => d \in 1..created'
  BY <1>1 DEF Owned, Owner
<1> QED
  BY <1>2 DEF Owned

LEMMA WorkerOwned == Types /\ Apart /\ Owned /\ (Worker \/ WorkerDue) => Owned'
<1> SUFFICES ASSUME Types, Apart, Owned, Worker \/ WorkerDue PROVE Owned'
  OBVIOUS
<1>1. /\ UNCHANGED <<driver, created, slot, stream, restart, tick, title>>
      /\ \A d \in Drivers : queued'[d] = queued[d] \/ \E i \in Clients : driver[i] = d
  BY WorkerFrame
<1> QED
  BY <1>1, OwnedSame DEF Working

LEMMA WorkerBound ==
  ASSUME Types, Types', Apart, QueueBounded, Worker \/ WorkerDue
  PROVE  QueueBounded'
<1> USE DEF At, Step, Scan
<1>0. /\ UNCHANGED <<driver, created, slot, stream, restart, tick, title, mode>>
      /\ worker = [at |-> worker.at, client |-> worker.client, driver |-> worker.driver]
  BY WorkerFrame DEF Types, WorkerTypes
<1> SUFFICES ASSUME NEW i \in Clients, InUse(i)
             PROVE  Load(i)' <= Load(i)
  BY <1>0, BoundStep DEF InUse
<1>1. /\ driver[i] \in Drivers /\ credits[i] \in Nat /\ queued[driver[i]] \in Nat
      /\ InFlight(i) \in {0, 1}
      /\ credits \in [Clients -> 0..QueuedFrames] /\ queued \in [Drivers -> 0..MaxQueued]
  BY LoadType DEF Types, ClientTypes, DriverTypes
<1>2. ASSUME InFlight(i)' \in {0, InFlight(i)}, credits'[i] = credits[i], UNCHANGED queued
      PROVE  Load(i)' <= Load(i)
  BY <1>0, <1>1, <1>2 DEF Load
<1>3. ASSUME worker.client \in Clients, worker'.client = worker.client, ~ worker.at \in {"lock", "call", "again"},
             credits[worker.client] > 0, credits' = [credits EXCEPT ![worker.client] = @ - 1], UNCHANGED queued
      PROVE  Load(i)' <= Load(i)
  <2>1. CASE worker.client = i
    <3>1. InFlight(i) = 0 /\ InFlight(i)' \in {0, 1}
      BY <1>3 DEF InFlight
    <3>2. credits'[i] = credits[i] - 1
      BY <1>1, <1>3, <2>1
    <3> QED
      BY <1>0, <1>1, <1>3, <3>1, <3>2 DEF Load
  <2>2. CASE worker.client # i
    <3>1. InFlight(i)' = 0
      BY <1>3, <2>2 DEF InFlight
    <3>2. credits'[i] = credits[i]
      BY <1>1, <1>3, <2>2
    <3> QED
      BY <1>2, <1>3, <3>1, <3>2
  <2> QED
    BY <2>1, <2>2
<1>4. ASSUME worker.client \in Clients, worker.at \in {"call", "again"},
             ~ worker'.at \in {"lock", "call", "again"}, CallBack
      PROVE  Load(i)' <= Load(i)
  <2>0. InFlight(i)' = 0
    BY <1>4 DEF InFlight
  <2>1. CASE UNCHANGED <<queued, moved, credits>>
    BY <1>2, <2>0, <2>1
  <2>2. CASE SubmitFrame(worker.client) /\ worker.client = i
    <3>1. InFlight(i) = 1
      BY <1>4, <2>2 DEF InFlight
    <3>2. credits' = credits /\ queued' = [queued EXCEPT ![driver[i]] = @ + 1]
      BY <2>2 DEF SubmitFrame
    <3>3. queued'[driver[i]] = queued[driver[i]] + 1
      BY <1>1, <3>2
    <3> QED
      BY <1>0, <1>1, <2>0, <3>1, <3>2, <3>3 DEF Load
  <2>3. CASE SubmitFrame(worker.client) /\ worker.client # i
    <3>1. credits'[i] = credits[i]
      BY <1>1, <1>4, <2>3 DEF SubmitFrame
    <3>2. queued'[driver[i]] = queued[driver[i]]
      BY <1>1, <1>4, <2>3 DEF SubmitFrame, Apart, InUse
    <3> QED
      BY <1>0, <1>1, <2>0, <3>1, <3>2 DEF Load
  <2> QED
    BY <1>4, <2>1, <2>2, <2>3 DEF CallBack
<1>5. CASE WorkerScan
  <2>1. worker'.at = "check" /\ UNCHANGED <<credits, queued>>
    BY <1>0, <1>5 DEF WorkerScan, driverVars
  <2> QED
    BY <1>2, <2>1 DEF InFlight
<1>6. CASE WorkerExit
  BY <1>0, <1>2, <1>6 DEF WorkerExit, clientVars, driverVars, InFlight
<1>7. CASE WorkerCheck
  <2>1. worker'.at \in {"parked", "idle", "pace"} /\ UNCHANGED <<credits, queued>>
    BY <1>0, <1>7 DEF WorkerCheck, clientVars, driverVars
  <2> QED
    BY <1>2, <2>1 DEF InFlight
<1>8. CASE WorkerResume \/ WorkerWoken
  BY <1>2, <1>8 DEF WorkerResume, WorkerWoken, clientVars, driverVars, InFlight
<1>9. CASE WorkerDue
  BY <1>0, <1>2, <1>9 DEF WorkerDue, clientVars, driverVars, InFlight
<1>10. CASE WorkerTake
  <2>0. worker.client \in Clients /\ worker.at = "take" /\ UNCHANGED queued
    BY <1>10 DEF WorkerTake, driverVars, Types, WorkerTypes
  <2>1. CASE credits[worker.client] > 0
    <3>1. credits' = [credits EXCEPT ![worker.client] = @ - 1] /\ worker' = [worker EXCEPT !.at = "lock"]
      BY <1>10, <2>1 DEF WorkerTake
    <3> QED
      BY <1>0, <1>3, <2>0, <2>1, <3>1
  <2>2. CASE ~ credits[worker.client] > 0
    <3>1. credits' = credits /\ worker' = Scan
      BY <1>10, <2>2 DEF WorkerTake
    <3> QED
      BY <1>2, <2>0, <3>1 DEF InFlight
  <2> QED
    BY <2>1, <2>2
<1>11. CASE WorkerLock
  <2>0. worker.at = "lock" /\ UNCHANGED <<credits, queued>>
    BY <1>11 DEF WorkerLock, driverVars
  <2>1. \/ worker' = [worker EXCEPT !.at = "call", !.driver = driver[worker.client]]
        \/ worker' = Scan
    BY <1>11 DEF WorkerLock
  <2>2. CASE worker' = [worker EXCEPT !.at = "call", !.driver = driver[worker.client]]
    BY <1>0, <1>2, <2>0, <2>2 DEF InFlight
  <2>3. CASE worker' = Scan
    BY <1>2, <2>0, <2>3 DEF InFlight
  <2> QED
    BY <2>1, <2>2, <2>3
<1>12. CASE WorkerCall
  <2>1. worker.client \in Clients /\ worker.at = "call" /\ worker'.at = "look" /\ CallBack
    BY <1>0, <1>12 DEF WorkerCall, Types, WorkerTypes
  <2> QED
    BY <1>4, <2>1
<1>13. CASE WorkerLook
  <2>1. worker'.at = "top up" /\ UNCHANGED <<credits, queued>>
    BY <1>0, <1>13 DEF WorkerLook, clientVars, driverVars
  <2> QED
    BY <1>2, <2>1 DEF InFlight
<1>14. CASE WorkerTopUp
  <2>0. worker.client \in Clients /\ worker.at = "top up" /\ UNCHANGED queued
    BY <1>14 DEF WorkerTopUp, driverVars, Types, WorkerTypes
  <2>1. \/ /\ credits[worker.client] > 0 /\ credits' = [credits EXCEPT ![worker.client] = @ - 1]
           /\ worker' = [worker EXCEPT !.at = "again"]
        \/ worker' = Scan /\ credits' = credits
    BY <1>14 DEF WorkerTopUp, Unlock
  <2>2. CASE worker' = Scan /\ credits' = credits
    BY <1>2, <2>0, <2>2 DEF InFlight
  <2>3. CASE worker' = [worker EXCEPT !.at = "again"]
    BY <1>0, <1>3, <2>0, <2>1, <2>3
  <2> QED
    BY <2>1, <2>2, <2>3
<1>15. CASE WorkerCallAgain
  <2>1. worker.client \in Clients /\ worker.at = "again" /\ worker'.at = "scan" /\ CallBack
    BY <1>15 DEF WorkerCallAgain, Unlock, Types, WorkerTypes
  <2> QED
    BY <1>4, <2>1
<1> QED
  BY <1>5, <1>6, <1>7, <1>8, <1>9, <1>10, <1>11, <1>12, <1>13, <1>14, <1>15 DEF Worker

LEMMA WorkerCredit ==
  ASSUME Types, Types', Apart, CreditInv, Worker \/ WorkerDue
  PROVE  CreditInv'
<1>1. UNCHANGED <<driver, title, mode>>
  BY WorkerFrame
<1>2. OrderlyTitle'
  BY <1>1 DEF CreditInv, OrderlyTitle, InUse
<1> QED
  BY <1>2, WorkerOwned, WorkerBound DEF CreditInv

\* A client that another client's registration or unregistration leaves alone.
LEMMA LoadSame ==
  ASSUME NEW i \in Clients, driver'[i] = driver[i], credits'[i] = credits[i], worker' = worker,
         queued'[driver[i]] = queued[driver[i]], tick' = tick
  PROVE  Load(i)' = Load(i)
BY DEF Load, InFlight

LEMMA RegisterCredit ==
  ASSUME Types, Types', Apart, CreditInv, NEW t \in Titles, RegisterClient(t)
  PROVE  CreditInv'
<1> USE DEF CreditInv
<1>0. PICK n \in Drivers : n = created + 1
  BY AudioSystemAssumption DEF RegisterClient, Drivers, Types, DriverTypes
<1>1. PICK i \in Clients :
        /\ ~ InUse(i)
        /\ credits' = [credits EXCEPT ![i] = Released(i, QueuedFrames)]
        /\ slot' = [slot EXCEPT ![n] = i]
        /\ \/ driver' = [driver EXCEPT ![i] = n] /\ stream' = [stream EXCEPT ![n] = "running"]
           \/ driver' = driver /\ stream' = [stream EXCEPT ![n] = "closed"]
  BY <1>0 DEF RegisterClient
<1>2. created' = n /\ UNCHANGED <<title, worker, restart, queued, tick, mode>>
  BY <1>0 DEF RegisterClient, workerVars
<1>3. n \notin 1..created /\ 1..created \subseteq 1..n /\ n \in 1..n
  BY <1>0, AudioSystemAssumption DEF Types, DriverTypes
<1>4. None \notin Drivers
  BY AudioSystemAssumption DEF Drivers
<1>5. ~ Working(n) /\ queued[n] = 0
  BY <1>3, AudioSystemAssumption DEF Owned, Types, DriverTypes
<1>6. /\ slot'[n] = i
      /\ \A d \in Drivers \ {n} : slot'[d] = slot[d] /\ stream'[d] = stream[d]
      /\ stream'[n] \in {"running", "closed"}
      /\ stream'[n] = "running" => driver' = [driver EXCEPT ![i] = n]
  BY <1>1, <1>3 DEF Types, DriverTypes
<1>7. \A j \in Clients \ {i} : driver'[j] = driver[j] /\ credits'[j] = credits[j]
  BY <1>1 DEF Types, ClientTypes
<1>8. driver' = driver \/ driver'[i] = n
  BY <1>1 DEF Types, ClientTypes
<1>9. Owned'
  <2>1. ASSUME NEW d \in Drivers \ {n}
        PROVE  /\ Working(d)' => Owner(d)'
               /\ Working(d)' \/ queued'[d] > 0 => d \in 1..created'
    <3>1. Working(d)' => Working(d)
      BY <1>2, <1>6 DEF Working
    <3>2. Working(d) => Owner(d) /\ slot[d] \in Clients
      BY DEF Owned, Types, DriverTypes
    <3>3. Working(d) => Owner(d)'
      <4>1. CASE driver[slot[d]] = d /\ slot[d] \in Clients
        <5>1. slot[d] # i
          BY <1>1, <1>4, <4>1 DEF InUse
        <5> QED
          BY <1>6, <1>7, <4>1, <5>1 DEF Owner
      <4>2. CASE \E s \in Titles : title[s].driver = d
        BY <1>2, <4>2 DEF Owner
      <4> QED
        BY <3>2, <4>1, <4>2 DEF Owner
    <3> QED
      BY <1>2, <1>3, <3>1, <3>3 DEF Owned
  <2>2. /\ Working(n)' => Owner(n)'
        /\ n \in 1..created'
    <3>1. ~ restart'[n] /\ ~ tick'[n]
      BY <1>2, <1>5 DEF Working
    <3>2. Working(n)' => stream'[n] = "running"
      BY <1>6, <3>1 DEF Working
    <3>3. stream'[n] = "running" => driver'[i] = n
      BY <1>6 DEF Types, ClientTypes
    <3> QED
      BY <1>2, <1>3, <1>6, <3>2, <3>3 DEF Owner
  <2> QED
    BY <2>1, <2>2 DEF Owned
<1>10. OrderlyTitle'
  BY <1>2 DEF RegisterClient, OrderlyTitle
<1>11. QueueBounded'
  <2> SUFFICES ASSUME mode = "orderly", NEW j \in Clients, InUse(j)'
               PROVE  Load(j)' <= QueuedFrames + 2
    BY <1>2 DEF QueueBounded, Load
  <2>1. CASE j # i \/ driver' = driver
    <3>1. driver'[j] = driver[j] /\ j # i
      BY <1>1, <1>7, <2>1 DEF InUse
    <3>2. Load(j)' = Load(j) /\ InUse(j)
      BY <1>2, <1>7, <3>1, LoadSame DEF InUse
    <3> QED
      BY <3>2 DEF QueueBounded, Load
  <2>2. CASE j = i /\ driver'[i] = n
    <3>1. credits'[i] \in 0..QueuedFrames
      BY DEF Types, ClientTypes
    <3>2. InFlight(i)' \in {0, 1}
      BY DEF InFlight
    <3>3. queued'[n] = 0 /\ ~ tick'[n]
      BY <1>2, <1>5 DEF Working
    <3> QED
      BY <2>2, <3>1, <3>2, <3>3, AudioSystemAssumption DEF Load
  <2> QED
    BY <1>8, <2>1, <2>2
<1> QED
  BY <1>9, <1>10, <1>11

LEMMA TitleCredit ==
  ASSUME Types, Types', Apart, CreditInv, NEW t \in Titles,
         \/ RegisterClient(t)
         \/ Title(t)
         \/ \E i \in Clients : UnregisterClient(t, i) \/ SubmitStray(t, i)
  PROVE  CreditInv'
<1> USE DEF CreditInv
<1>0. /\ title \in [Titles -> [at : {"out", "wait", "destroy", "drain"},
                             client : Clients \cup {None}, driver : Drivers \cup {None}]]
      /\ driver \in [Clients -> Drivers \cup {None}]
      /\ None \notin Drivers
      /\ \A i \in Clients : InUse(i) => Load(i) \in Nat
  BY AudioSystemAssumption, LoadType DEF Types, TitleTypes, ClientTypes, Drivers
<1>1. CASE RegisterClient(t)
  BY <1>1, RegisterCredit
<1>2. CASE WaitForCallback(t)
  <2>1. /\ title[t].at = "wait" /\ title' = [title EXCEPT ![t].at = "destroy"]
        /\ UNCHANGED <<driver, credits, created, slot, stream, restart, queued, tick, worker, mode>>
    BY <1>2 DEF WaitForCallback, clientVars, driverVars, workerVars
  <2>2. /\ \A s \in Titles : title'[s].client = title[s].client /\ title'[s].driver = title[s].driver
        /\ \A s \in Titles : title[s].at # "out" <=> title'[s].at # "out"
    BY <1>0, <2>1
  <2>3. Owned'
    BY <2>1, <2>2 DEF Owned, Owner, Working
  <2>4. OrderlyTitle'
    BY <2>1, <2>2 DEF OrderlyTitle, InUse
  <2>5. QueueBounded'
    BY <2>1 DEF QueueBounded, InFlight, InUse
  <2> QED
    BY <2>3, <2>4, <2>5
<1>3. CASE DestroyDriver(t)
  <2>0. PICK e \in Drivers : e = title[t].driver
    BY <1>0, <1>3 DEF DestroyDriver, Apart
  <2>1. /\ title[t].at = "destroy" /\ title' = [title EXCEPT ![t].at = "drain", ![t].driver = None]
        /\ UNCHANGED <<driver, credits, created, slot, tick, worker, mode>>
    BY <1>3 DEF DestroyDriver, clientVars, workerVars
  <2>2. \A i \in Clients : driver[i] # e
    BY <1>0, <2>0 DEF Apart
  <2>3. /\ ~ tick[e] /\ stream'[e] = "closed" /\ ~ restart'[e] /\ queued'[e] = 0
        /\ \A d \in Drivers \ {e} : /\ stream'[d] = stream[d] /\ queued'[d] = queued[d]
                                   /\ restart'[d] = restart[d]
    <3>1. /\ ~ tick[e]
          /\ stream' = [d \in Drivers |-> IF d \in {e} THEN "closed" ELSE stream[d]]
          /\ restart' = [d \in Drivers |-> d \notin {e} /\ restart[d]]
          /\ queued' = [d \in Drivers |-> IF d \in {e} THEN 0 ELSE queued[d]]
      BY <1>3, <2>0 DEF DestroyDriver, Destroy
    <3>2. /\ stream'[e] = "closed" /\ queued'[e] = 0
          /\ \A d \in Drivers \ {e} : stream'[d] = stream[d] /\ queued'[d] = queued[d]
      BY <2>2, <3>1
    <3>3. ~ restart'[e] /\ \A d \in Drivers \ {e} : restart'[d] = (TRUE /\ restart[d])
      BY <2>2, <3>1
    <3>4. \A d \in Drivers \ {e} : restart'[d] = restart[d]
      BY <3>3 DEF Types, DriverTypes
    <3> QED
      BY <3>1, <3>2, <3>3, <3>4
  <2>4. /\ title'[t].at = "drain" /\ title'[t].client = title[t].client
        /\ \A s \in Titles \ {t} : title'[s] = title[s]
    BY <1>0, <2>1
  <2>5. Owned'
    <3>1. ~ Working(e)' /\ queued'[e] = 0
      BY <2>1, <2>3 DEF Working
    <3>2. ASSUME NEW d \in Drivers \ {e}
          PROVE  /\ Working(d)' => Owner(d)'
                 /\ Working(d)' \/ queued'[d] > 0 => d \in 1..created'
      <4>1. (Working(d)' <=> Working(d)) /\ queued'[d] = queued[d]
        BY <2>1, <2>3 DEF Working
      <4>2. Owner(d) => Owner(d)'
        BY <2>0, <2>1, <2>4 DEF Owner
      <4> QED
        BY <2>1, <4>1, <4>2 DEF Owned
    <3> QED
      BY <3>1, <3>2 DEF Owned
  <2>6. OrderlyTitle'
    BY <2>1, <2>4 DEF OrderlyTitle, InUse
  <2>7. QueueBounded'
    <3>1. ASSUME NEW i \in Clients, InUse(i)'
          PROVE  InUse(i) /\ Load(i)' <= Load(i)
      <4>1. InUse(i) /\ queued'[driver[i]] = queued[driver[i]]
        BY <1>0, <2>1, <2>2, <2>3, <3>1 DEF InUse
      <4>2. Load(i)' = Load(i)
        BY <2>1, <4>1, LoadSame
      <4> QED
        BY <1>0, <4>1, <4>2
    <3> QED
      BY <2>1, <3>1, BoundStep
  <2> QED
    BY <2>5, <2>6, <2>7
<1>4. CASE Drain(t)
  <2>1. title[t].at = "drain" /\ UNCHANGED <<driver, created, slot, stream, restart, queued, tick, worker, mode>>
    BY <1>4 DEF Drain, driverVars, workerVars
  <2>2. title' = title \/ title' = [title EXCEPT ![t] = NoCall]
    BY <1>4 DEF Drain
  <2>3. /\ title'[t] = title[t] \/ title'[t].at = "out"
        /\ title'[t].driver = title[t].driver
        /\ \A s \in Titles \ {t} : title'[s] = title[s]
    BY <1>0, <2>1, <2>2 DEF NoCall, Apart
  <2>4. Owned'
    <3>1. \A s \in Titles : title'[s].driver = title[s].driver
      BY <2>3
    <3> QED
      BY <2>1, <3>1 DEF Owned, Owner, Working
  <2>5. OrderlyTitle'
    BY <2>1, <2>3 DEF OrderlyTitle, InUse
  <2>6. QueueBounded'
    <3>1. ASSUME mode = "orderly", NEW i \in Clients, InUse(i)'
          PROVE  InUse(i) /\ Load(i)' <= Load(i)
      <4>1. InUse(i) /\ title[t].client # i
        BY <2>1, <3>1 DEF OrderlyTitle, InUse
      <4>2. credits'[i] = credits[i]
        BY <1>4, <4>1 DEF Drain, Types, ClientTypes
      <4>3. Load(i)' = Load(i)
        BY <2>1, <4>2, LoadSame
      <4> QED
        BY <1>0, <4>1, <4>3
    <3> QED
      BY <2>1, <3>1, BoundStep
  <2> QED
    BY <2>4, <2>5, <2>6
<1>5. ASSUME NEW i \in Clients, UnregisterClient(t, i)
      PROVE  CreditInv'
  <2>1. /\ title[t].at = "out" /\ InUse(i)
        /\ driver' = [driver EXCEPT ![i] = None]
        /\ title' = [title EXCEPT ![t] = [at |-> "wait", client |-> i, driver |-> driver[i]]]
        /\ UNCHANGED <<credits, created, slot, stream, restart, queued, tick, worker, mode>>
    BY <1>5 DEF UnregisterClient, driverVars, workerVars
  <2>2. driver'[i] = None /\ \A j \in Clients \ {i} : driver'[j] = driver[j]
    BY <1>0, <2>1
  <2>3. /\ title'[t].at = "wait" /\ title'[t].client = i /\ title'[t].driver = driver[i]
        /\ \A s \in Titles \ {t} : title'[s] = title[s]
    BY <1>0, <2>1
  <2>4. title[t].driver = None
    BY <2>1 DEF Apart
  <2>5. Owned'
    <3>1. ASSUME NEW d \in Drivers, Working(d)
          PROVE  Owner(d)'
      <4>1. CASE driver[slot[d]] = d
        <5>1. slot[d] \in Clients
          BY <3>1 DEF Types, DriverTypes
        <5> QED
          BY <2>1, <2>2, <2>3, <4>1, <5>1 DEF Owner
      <4>2. ASSUME NEW s \in Titles, title[s].driver = d
            PROVE  Owner(d)'
        BY <1>0, <2>3, <2>4, <4>2 DEF Owner
      <4> QED
        BY <3>1, <4>1, <4>2 DEF Owned, Owner
    <3> QED
      BY <2>1, <3>1 DEF Owned, Working
  <2>6. OrderlyTitle'
    BY <2>1, <2>2, <2>3 DEF OrderlyTitle, InUse
  <2>7. QueueBounded'
    <3>1. ASSUME NEW j \in Clients, InUse(j)'
          PROVE  InUse(j) /\ Load(j)' <= Load(j)
      <4>1. driver'[j] = driver[j] /\ InUse(j)
        BY <2>2, <3>1 DEF InUse
      <4> QED
        BY <1>0, <2>1, <4>1, LoadSame
    <3> QED
      BY <2>1, <3>1, BoundStep
  <2> QED
    BY <2>5, <2>6, <2>7
<1>6. ASSUME NEW i \in Clients, SubmitStray(t, i)
      PROVE  CreditInv'
  <2>1. /\ mode # "orderly" /\ mode' = mode
        /\ UNCHANGED <<driver, created, slot, stream, restart, tick, title>>
    BY <1>6 DEF SubmitStray
  <2>2. queued' = queued \/ (InUse(i) /\ queued' = [queued EXCEPT ![driver[i]] = @ + 1])
    BY <1>6 DEF SubmitStray, SubmitFrame
  <2>3. Owned'
    BY <2>1, <2>2, OwnedSame DEF Working, Types, DriverTypes
  <2> QED
    BY <2>1, <2>3 DEF OrderlyTitle, QueueBounded
<1> QED
  BY <1>1, <1>2, <1>3, <1>4, <1>5, <1>6 DEF Title

LEMMA DriverCredit ==
  ASSUME Types, Types', Apart, CreditInv, NEW d \in Drivers,
         PlayBlock(d) \/ ReleaseCredit(d) \/ StreamError(d) \/ RestartStream(d)
  PROVE  CreditInv'
<1> USE DEF CreditInv
<1>0. UNCHANGED <<driver, created, slot, title, worker, mode>>
  BY DEF PlayBlock, ReleaseCredit, StreamError, RestartStream, clientVars, workerVars
<1>1. Working(d) /\ \A e \in Drivers \ {d} : Working(e)' <=> Working(e)
  BY DEF PlayBlock, ReleaseCredit, StreamError, RestartStream, Working, Types, DriverTypes
<1>2. \A e \in Drivers \ {d} : queued'[e] = queued[e]
  BY DEF PlayBlock, ReleaseCredit, StreamError, RestartStream, Types, DriverTypes
<1>3. Owned'
  BY <1>0, <1>1, <1>2, OwnedSame
<1>4. OrderlyTitle'
  BY <1>0 DEF OrderlyTitle, InUse
<1>5. QueueBounded'
  <2> SUFFICES ASSUME mode = "orderly", NEW i \in Clients, InUse(i)
               PROVE  Load(i)' <= QueuedFrames + 2
    BY <1>0 DEF QueueBounded, Load, InUse
  <2>1. /\ driver[i] \in Drivers
        /\ credits[i] \in Nat /\ queued[driver[i]] \in Nat /\ tick[driver[i]] \in BOOLEAN
        /\ InFlight(i) \in {0, 1} /\ InFlight(i)' = InFlight(i)
        /\ Load(i) <= QueuedFrames + 2
        /\ Load(i) = credits[i] + InFlight(i) + queued[driver[i]] + (IF tick[driver[i]] THEN 1 ELSE 0)
    BY <1>0, LoadType DEF InFlight, QueueBounded, Load
  <2>2. CASE PlayBlock(d) /\ driver[i] = d
    <3>1. ~ tick[d] /\ tick'[d] /\ credits' = credits
      BY <2>2 DEF PlayBlock, clientVars, Types, DriverTypes
    <3>2. credits[i] <= QueuedFrames
      BY AudioSystemAssumption DEF Types, ClientTypes
    <3>3. queued'[d] = (IF queued[d] > 0 THEN queued[d] - 1 ELSE 0)
      BY <2>2 DEF PlayBlock, Types, DriverTypes
    <3>4. Load(i)' = credits[i] + InFlight(i) + queued'[d] + 1
      BY <1>0, <2>1, <2>2, <3>1 DEF Load
    <3> QED
      BY <2>1, <2>2, <3>1, <3>2, <3>3, <3>4, AudioSystemAssumption
  <2>3. CASE PlayBlock(d) /\ driver[i] # d
    <3>1. credits' = credits /\ queued'[driver[i]] = queued[driver[i]] /\ tick'[driver[i]] = tick[driver[i]]
      BY <2>1, <2>3 DEF PlayBlock, clientVars, Types, DriverTypes
    <3> QED
      BY <1>0, <2>1, <3>1 DEF Load
  <2>4. CASE ReleaseCredit(d)
    <3>0. slot[d] \in Clients /\ tick[d]
      BY <2>4 DEF ReleaseCredit, Working, Types, DriverTypes
    <3>1. queued' = queued /\ credits' = [credits EXCEPT ![slot[d]] = Released(slot[d], 1)]
      BY <2>4 DEF ReleaseCredit
    <3>2. CASE driver[i] = d
      <4>1. slot[d] = i
        BY <3>2 DEF Apart, InUse
      <4>2. ~ tick'[d]
        BY <2>4 DEF ReleaseCredit, Types, DriverTypes
      <4>3. credits'[i] = Released(i, 1)
        BY <3>1, <4>1 DEF Types, ClientTypes
      <4>4. credits'[i] \in {credits[i], credits[i] + 1}
        BY <4>3 DEF Released
      <4>5. Load(i)' = credits'[i] + InFlight(i) + queued[d]
        BY <1>0, <2>1, <3>1, <3>2, <4>2, <4>4 DEF Load
      <4> QED
        BY <2>1, <3>0, <3>2, <4>4, <4>5, AudioSystemAssumption
    <3>3. CASE driver[i] # d
      <4>1. slot[d] # i
        <5>1. CASE driver[slot[d]] = d
          BY <3>3, <5>1
        <5>2. ASSUME NEW t \in Titles, title[t].driver = d
              PROVE  slot[d] # i
          <6>1. title[t].at # "out" /\ slot[d] = title[t].client
            BY <5>2, AudioSystemAssumption DEF Apart, Drivers
          <6> QED
            BY <6>1 DEF OrderlyTitle
        <5> QED
          BY <1>1, <5>1, <5>2 DEF Owned, Owner
      <4>2. credits'[i] = credits[i] /\ tick'[driver[i]] = tick[driver[i]]
        BY <2>1, <2>4, <3>1, <3>3, <4>1 DEF ReleaseCredit, Types, ClientTypes, DriverTypes
      <4> QED
        BY <1>0, <2>1, <3>1, <4>2 DEF Load
    <3> QED
      BY <3>2, <3>3
  <2>5. CASE StreamError(d) \/ RestartStream(d)
    BY <1>0, <2>1, <2>5 DEF Load, StreamError, RestartStream, clientVars
  <2> QED
    BY <2>2, <2>3, <2>4, <2>5
<1> QED
  BY <1>3, <1>4, <1>5

LEMMA OnStreamsMoves ==
  ASSUME NEW from, NEW to, OnStreams(from, to), NEW d \in Drivers
  PROVE  stream'[d] = stream[d] \/ (stream[d] = from /\ stream'[d] = to)
<1>1. stream'[d] = IF stream[d] = from /\ \E i \in Clients : driver[i] = d THEN to ELSE stream[d]
  BY Zenon DEF OnStreams
<1> QED
  BY <1>1

LEMMA CreditNext ==
  ASSUME Types, Types', Apart, CreditInv, [Next]_vars
  PROVE  CreditInv'
<1>0. ASSUME UNCHANGED <<driver, credits, created, slot, title, queued, tick, worker, mode>>,
             \A d \in Drivers : Working(d)' => Working(d)
      PROVE  CreditInv'
  <2>1. Owned'
    BY <1>0, OwnedSame DEF CreditInv
  <2>2. OrderlyTitle'
    BY <1>0 DEF CreditInv, OrderlyTitle, InUse
  <2>3. QueueBounded'
    BY <1>0 DEF CreditInv, QueueBounded, InFlight, InUse
  <2> QED
    BY <2>1, <2>2, <2>3 DEF CreditInv
<1>1. CASE Worker \/ WorkerDue
  BY <1>1, WorkerCredit
<1>2. ASSUME NEW t \in Titles,
             \/ RegisterClient(t) \/ Title(t)
             \/ \E i \in Clients : UnregisterClient(t, i) \/ SubmitStray(t, i)
      PROVE  CreditInv'
  BY <1>2, TitleCredit
<1>3. ASSUME NEW d \in Drivers, PlayBlock(d) \/ ReleaseCredit(d) \/ StreamError(d) \/ RestartStream(d)
      PROVE  CreditInv'
  BY <1>3, DriverCredit
<1>4. CASE Pause \/ PauseSet \/ PauseWait \/ Resume \/ Shutdown \/ ShutdownCheck
  BY <1>0, <1>4
  DEF Pause, PauseSet, PauseWait, Resume, Shutdown, ShutdownCheck, clientVars, driverVars, workerVars, Working
<1>5. CASE PauseDrivers \/ ResumeEnd \/ ShutdownResume
  <2>1. UNCHANGED <<driver, credits, created, slot, title, restart, queued, tick, worker, mode>>
    BY <1>5 DEF PauseDrivers, ResumeEnd, ShutdownResume, clientVars, workerVars
  <2>2. \A d \in Drivers :
          \/ stream'[d] = stream[d]
          \/ stream[d] \in {"running", "stopped"} /\ stream'[d] \in {"running", "stopped"}
    <3>1. OnStreams("running", "stopped") \/ OnStreams("stopped", "running")
      BY <1>5 DEF PauseDrivers, ResumeEnd, ShutdownResume, ResumeDrivers
    <3> QED
      BY <3>1, OnStreamsMoves
  <2> QED
    BY <1>0, <2>1, <2>2 DEF Working
<1>6. CASE ShutdownJoin
  <2> DEFINE S == {d \in Drivers : \E i \in Clients : driver[i] = d}
  <2>1. /\ \A i \in Clients : driver'[i] = None
        /\ UNCHANGED <<created, slot, title, tick, mode>>
        /\ \A d \in S : ~ tick[d]
        /\ stream' = [d \in Drivers |-> IF d \in S THEN "closed" ELSE stream[d]]
        /\ restart' = [d \in Drivers |-> d \notin S /\ restart[d]]
        /\ queued' = [d \in Drivers |-> IF d \in S THEN 0 ELSE queued[d]]
    BY <1>6 DEF ShutdownJoin, Destroy
  <2>2. ASSUME NEW d \in Drivers
        PROVE  /\ d \in S => ~ Working(d)' /\ queued'[d] = 0
               /\ Working(d)' => Working(d)
               /\ queued'[d] > 0 => queued[d] > 0
    <3>1. CASE d \in S
      <4>1. ~ tick'[d] /\ stream'[d] = "closed" /\ queued'[d] = 0
        BY <2>1, <3>1
      <4>2. ~ restart'[d]
        BY <2>1, <3>1
      <4> QED
        BY <4>1, <4>2 DEF Working
    <3>2. CASE d \notin S
      <4>1. tick'[d] = tick[d] /\ stream'[d] = stream[d] /\ queued'[d] = queued[d]
        BY <2>1, <3>2
      <4>2. restart'[d] => restart[d]
        BY <2>1, <3>2
      <4> QED
        BY <3>2, <4>1, <4>2 DEF Working
    <3> QED
      BY <3>1, <3>2
  <2>3. Owned'
    <3>1. ASSUME NEW d \in Drivers, Working(d)'
          PROVE  Owner(d)'
      <4>1. d \notin S /\ Working(d)
        BY <2>2, <3>1
      <4>2. slot[d] \in Clients
        BY <4>1 DEF Types, DriverTypes
      <4>3. \E t \in Titles : title[t].driver = d
        BY <4>1, <4>2 DEF CreditInv, Owned, Owner
      <4> QED
        BY <2>1, <4>3 DEF Owner
    <3> QED
      BY <2>1, <2>2, <3>1 DEF CreditInv, Owned
  <2>4. OrderlyTitle' /\ QueueBounded'
    <3>1. \A i \in Clients : ~ InUse(i)'
      BY <2>1 DEF InUse
    <3>2. \A t \in Titles : title'[t].at # "out" => title'[t].client \in Clients
      BY DEF Types, TitleTypes
    <3> QED
      BY <3>1, <3>2 DEF OrderlyTitle, QueueBounded
  <2> QED
    BY <2>3, <2>4 DEF CreditInv
<1>7. CASE UNCHANGED vars
  BY <1>0, <1>7 DEF vars, clientVars, driverVars, workerVars, Working
<1> QED
  BY <1>1, <1>2, <1>3, <1>4, <1>5, <1>6, <1>7 DEF Next, Host, Closing

\* A title that calls its clients one at a time, and submits frames from their
\* callbacks, never queues more frames than the client's credits and two: every
\* credit a driver releases belongs to a frame it played or a gap it concealed,
\* and a driver that outlives its client releases to nobody who is called.
THEOREM QueuesAreBounded == Spec => []QueueBounded
<1>1. Init => Types /\ DriverInv /\ CreditInv
  BY TypesInit, DriverInit, CreditInit
<1>2. Types /\ DriverInv /\ CreditInv /\ [Next]_vars => (Types /\ DriverInv /\ CreditInv)'
  BY TypesNext, DriverNext, CreditNext DEF DriverInv
<1>3. CreditInv => QueueBounded
  BY DEF CreditInv
<1> QED
  BY <1>1, <1>2, <1>3, PTL DEF Spec
=============================================================================
