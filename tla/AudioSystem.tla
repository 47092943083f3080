----------------------------- MODULE AudioSystem -----------------------------
(***************************************************************************)
(* The pump of a title's audio: the worker of apu/audio_system.cc, the     *)
(* clients a title registers and takes back, the AAudio driver each of     *)
(* them plays through, and the host that pauses and shuts down.            *)
(*                                                                         *)
(* A client has a semaphore of credits.  The worker takes one, calls the   *)
(* client's callback, and the title submits a frame to the driver; the     *)
(* device plays it and gives the credit back.  Deadlines are kept as the   *)
(* order in which the worker picks the clients.  The global critical       *)
(* region makes a step of what is done under it.                           *)
(***************************************************************************)
EXTENDS Integers, SequencesExt

CONSTANTS
  Titles,         \* threads of the title
  MaxClients,     \* kMaximumClientCount
  QueuedFrames,   \* queued_frames_, the credits of a client
  TopUpBelow,     \* topup_below
  MaxDrivers,     \* bound on the drivers created
  MaxQueued,      \* bound on the frames a driver queues
  Modes,          \* "orderly": clients one at a time, frames from the callback; "unruly"
  None            \* no client, driver or thread

ASSUME AudioSystemAssumption ==
  /\ MaxClients \in Nat /\ MaxDrivers \in Nat
  /\ QueuedFrames \in Nat \ {0}
  /\ TopUpBelow \in Nat
  /\ MaxQueued \in Nat /\ MaxQueued >= QueuedFrames + 2
  /\ Modes \subseteq {"orderly", "unruly"}
  /\ None \notin Nat \cup Titles

Clients == 1..MaxClients
Drivers == 1..MaxDrivers

VARIABLES
  driver,    \* the driver of each slot that is in use, None otherwise
  credits,   \* count of client_semaphores_
  due,       \* clients the worker has picked, by next_pump_us
  moved,     \* whether frames_submitted changed since the worker read it (a reset counts)
  created,   \* how many drivers were created
  slot,      \* the slot each driver was created for
  stream,    \* its stream: "new", "running", "stopped", "lost", "none", "closed"
  restart,   \* restart_requested_
  queued,    \* how many frames it has queued
  tick,      \* whether its data callback is about to release a credit
  worker,    \* where the worker is, its client, and the driver it looked at
  mutex,     \* who holds callback_mutex: the worker or nobody
  running,   \* worker_running_
  paused,    \* paused_
  pending,   \* pending_work_event_
  fence,     \* pause_fence_
  resumed,   \* resume_event_
  title,     \* what each thread of the title does, and to which client
  owner,     \* the thread that registered the client of a slot
  host,      \* what the thread that pauses and resumes does
  closing,   \* what the thread that shuts down does
  mode       \* how this title uses its clients

clientVars == <<driver, credits, due, moved, owner>>
driverVars == <<created, slot, stream, restart, queued, tick>>
workerVars == <<worker, mutex>>
flagVars   == <<running, paused, pending, fence, resumed>>
hostVars   == <<host, closing>>
vars == <<clientVars, driverVars, workerVars, flagVars, hostVars, title, mode>>

InUse(i) == driver[i] # None

TypeOK ==
  /\ driver \in [Clients -> Drivers \cup {None}]
  /\ credits \in [Clients -> 0..QueuedFrames]
  /\ due \in Seq(Clients)
  /\ moved \in [Clients -> BOOLEAN]
  /\ created \in 0..MaxDrivers
  /\ slot \in [Drivers -> Clients \cup {None}]
  /\ stream \in [Drivers -> {"new", "running", "stopped", "lost", "none", "closed"}]
  /\ restart \in [Drivers -> BOOLEAN]
  /\ queued \in [Drivers -> 0..MaxQueued]
  /\ tick \in [Drivers -> BOOLEAN]
  /\ worker \in [at : {"scan", "check", "idle", "pace", "take", "lock", "call", "look", "top up",
                       "again", "parked", "exited"},
                 client : Clients \cup {None}, driver : Drivers \cup {None}]
  /\ mutex \in [Clients -> BOOLEAN]
  /\ {running, paused, pending, fence, resumed} \subseteq BOOLEAN
  /\ title \in [Titles -> [at : {"out", "wait", "destroy", "drain"},
                           client : Clients \cup {None}, driver : Drivers \cup {None}]]
  /\ owner \in [Clients -> Titles \cup {None}]
  /\ host \in {"out", "set", "wait", "stop", "paused", "resume"}
  /\ closing \in {"no", "resume?", "resume", "join", "done"}
  /\ mode \in Modes

NoCall == [at |-> "out", client |-> None, driver |-> None]
Scan == [at |-> "scan", client |-> None, driver |-> None]

Init ==
  /\ driver = [i \in Clients |-> None]
  /\ credits = [i \in Clients |-> 0]
  /\ due = <<>>
  /\ moved = [i \in Clients |-> FALSE]
  /\ created = 0
  /\ slot = [d \in Drivers |-> None]
  /\ stream = [d \in Drivers |-> "new"]
  /\ restart = [d \in Drivers |-> FALSE]
  /\ queued = [d \in Drivers |-> 0]
  /\ tick = [d \in Drivers |-> FALSE]
  /\ worker = Scan
  /\ mutex = [i \in Clients |-> FALSE]
  /\ running = TRUE
  /\ paused = FALSE /\ pending = FALSE /\ fence = FALSE /\ resumed = FALSE
  /\ title = [t \in Titles |-> NoCall]
  /\ owner = [i \in Clients |-> None]
  /\ host = "out"
  /\ closing = "no"
  /\ mode \in Modes

\* Mutant of Released: the maximum is not checked.
ReleasedUnbounded(i, n) == credits[i] + n

\* Release of a semaphore that would exceed its maximum does nothing.
Released(i, n) == IF credits[i] + n <= QueuedFrames THEN credits[i] + n ELSE credits[i]

-----------------------------------------------------------------------------
(* The worker.                                                             *)

At(place) == worker.at = place
Step(place) == worker' = [worker EXCEPT !.at = place]

\* The earliest client: one that was never picked has next_pump_us 0.
Earliest ==
  LET new == {i \in Clients : InUse(i) /\ i \notin ToSet(due)}
  IN IF new # {} THEN CHOOSE i \in new : \A j \in new : i <= j ELSE Head(due)

\* Its next deadline is later than everyone's.
WorkerScan ==
  /\ At("scan")
  /\ running
  /\ IF \E i \in Clients : InUse(i)
     THEN /\ worker' = [Scan EXCEPT !.at = "check", !.client = Earliest]
          /\ due' = Append(RemoveFirst(due, Earliest), Earliest)
     ELSE /\ Step("check")
          /\ UNCHANGED due
  /\ UNCHANGED <<driver, credits, moved, owner, driverVars, mutex, flagVars, hostVars, title, mode>>

WorkerExit ==
  /\ At("scan")
  /\ ~ running
  /\ Step("exited")
  /\ UNCHANGED <<clientVars, driverVars, mutex, flagVars, hostVars, title, mode>>

\* A pause is acknowledged on every turn.
WorkerCheck ==
  /\ At("check")
  /\ IF paused
     THEN fence' = TRUE /\ Step("parked")
     ELSE fence' = fence /\ Step(IF worker.client = None THEN "idle" ELSE "pace")
  /\ UNCHANGED <<clientVars, driverVars, mutex, running, paused, pending, resumed, hostVars, title, mode>>

WorkerResume ==
  /\ At("parked")
  /\ resumed
  /\ resumed' = FALSE
  /\ worker' = Scan
  /\ UNCHANGED <<clientVars, driverVars, mutex, running, paused, pending, fence, hostVars, title, mode>>

\* A worker without a client, or one that waits for a deadline, is woken to scan
\* again; the client it had picked loses its turn.
WorkerWoken ==
  /\ At("idle") \/ At("pace")
  /\ pending
  /\ pending' = FALSE
  /\ worker' = Scan
  /\ UNCHANGED <<clientVars, driverVars, mutex, running, paused, fence, resumed, hostVars, title, mode>>

\* The deadline comes, or has passed.
WorkerDue ==
  /\ At("pace")
  /\ Step("take")
  /\ UNCHANGED <<clientVars, driverVars, mutex, flagVars, hostVars, title, mode>>

\* Mutant of WorkerTake: the wait takes no credit.
WorkerTakeFree ==
  LET i == worker.client
  IN /\ At("take")
     /\ IF credits[i] > 0 THEN Step("lock") ELSE worker' = Scan
     /\ UNCHANGED <<clientVars, driverVars, mutex, flagVars, hostVars, title, mode>>

WorkerTake ==
  LET i == worker.client
  IN /\ At("take")
     /\ IF credits[i] > 0
        THEN credits' = [credits EXCEPT ![i] = @ - 1] /\ Step("lock")
        ELSE credits' = credits /\ worker' = Scan
     /\ UNCHANGED <<driver, due, moved, owner, driverVars, mutex, flagVars, hostVars, title, mode>>

\* The callback is read under callback_mutex.
WorkerLock ==
  LET i == worker.client
  IN /\ At("lock")
     /\ ~ mutex[i]
     /\ IF InUse(i)
        THEN /\ mutex' = [mutex EXCEPT ![i] = TRUE]
             /\ moved' = [moved EXCEPT ![i] = FALSE]
             /\ worker' = [worker EXCEPT !.at = "call", !.driver = driver[i]]
        ELSE /\ worker' = Scan
             /\ UNCHANGED <<mutex, moved>>
     /\ UNCHANGED <<driver, credits, due, owner, driverVars, flagVars, hostVars, title, mode>>

\* AudioSystem::SubmitFrame.  A dead client's frame ticks its semaphore.
SubmitFrame(i) ==
  IF InUse(i)
  THEN /\ queued[driver[i]] < MaxQueued
       /\ queued' = [queued EXCEPT ![driver[i]] = @ + 1]
       /\ moved' = [moved EXCEPT ![i] = TRUE]
       /\ UNCHANGED credits
  ELSE /\ credits' = [credits EXCEPT ![i] = Released(i, 1)]
       /\ UNCHANGED <<queued, moved>>

\* The callback submits a frame, or none, and returns.
CallBack ==
  \/ SubmitFrame(worker.client)
  \/ UNCHANGED <<queued, moved, credits>>

WorkerCall ==
  /\ At("call")
  /\ CallBack
  /\ Step("look")
  /\ UNCHANGED <<driver, due, owner, created, slot, stream, restart, tick, mutex, flagVars, hostVars,
                 title, mode>>

WorkerLook ==
  /\ At("look")
  /\ worker' = [worker EXCEPT !.at = "top up", !.driver = driver[worker.client]]
  /\ UNCHANGED <<clientVars, driverVars, mutex, flagVars, hostVars, title, mode>>

Unlock ==
  /\ mutex' = [mutex EXCEPT ![worker.client] = FALSE]
  /\ worker' = Scan

\* One more frame while the sink runs low.
WorkerTopUp ==
  LET i == worker.client
  IN /\ At("top up")
     /\ IF /\ moved[i] /\ worker.driver # None /\ ~ paused /\ running
           /\ queued[worker.driver] < TopUpBelow
           /\ credits[i] > 0
        THEN /\ credits' = [credits EXCEPT ![i] = @ - 1]
             /\ Step("again")
             /\ UNCHANGED mutex
        ELSE /\ Unlock
             /\ UNCHANGED credits
     /\ UNCHANGED <<driver, due, moved, owner, driverVars, flagVars, hostVars, title, mode>>

WorkerCallAgain ==
  /\ At("again")
  /\ CallBack
  /\ Unlock
  /\ UNCHANGED <<driver, due, owner, created, slot, stream, restart, tick, flagVars, hostVars,
                 title, mode>>

Worker ==
  \/ WorkerScan \/ WorkerExit \/ WorkerCheck \/ WorkerResume \/ WorkerWoken \/ WorkerTake
  \/ WorkerLock \/ WorkerCall \/ WorkerLook \/ WorkerTopUp \/ WorkerCallAgain

-----------------------------------------------------------------------------
(* The title.                                                              *)

\* The credits are released before the driver is created, whose failure leaves
\* them there.
RegisterClient(t) ==
  /\ title[t].at = "out"
  /\ mode = "orderly" => \A s \in Titles : title[s].at = "out"
  /\ closing = "no"
  /\ created < MaxDrivers
  /\ \E i \in Clients :
       /\ ~ InUse(i) /\ \A j \in 1..i - 1 : InUse(j)
       /\ credits' = [credits EXCEPT ![i] = Released(i, QueuedFrames)]
       /\ created' = created + 1
       /\ slot' = [slot EXCEPT ![created'] = i]
       /\ \/ /\ driver' = [driver EXCEPT ![i] = created']
             /\ stream' = [stream EXCEPT ![created'] = "running"]
             /\ moved' = [moved EXCEPT ![i] = TRUE]
             /\ owner' = [owner EXCEPT ![i] = t]
             /\ pending' = TRUE
          \/ /\ stream' = [stream EXCEPT ![created'] = "closed"]
             /\ UNCHANGED <<driver, moved, owner, pending>>
  /\ UNCHANGED <<due, restart, queued, tick, workerVars, running, paused, fence, resumed, hostVars,
                 title, mode>>

\* UnregisterClient clears the slot, waits for a callback in flight, destroys the
\* driver and drains the credits.
UnregisterClient(t, i) ==
  /\ title[t].at = "out"
  /\ InUse(i) /\ owner[i] = t
  /\ driver' = [driver EXCEPT ![i] = None]
  /\ due' = RemoveFirst(due, i)
  /\ moved' = [moved EXCEPT ![i] = TRUE]
  /\ owner' = [owner EXCEPT ![i] = None]
  /\ title' = [title EXCEPT ![t] = [at |-> "wait", client |-> i, driver |-> driver[i]]]
  /\ UNCHANGED <<credits, driverVars, workerVars, flagVars, hostVars, mode>>

\* Mutant of WaitForCallback: the callback in flight is not waited for.
WaitForNothing(t) ==
  /\ title[t].at = "wait"
  /\ title' = [title EXCEPT ![t].at = "destroy"]
  /\ UNCHANGED <<clientVars, driverVars, workerVars, flagVars, hostVars, mode>>

WaitForCallback(t) ==
  /\ title[t].at = "wait"
  /\ ~ mutex[title[t].client]
  /\ title' = [title EXCEPT ![t].at = "destroy"]
  /\ UNCHANGED <<clientVars, driverVars, workerVars, flagVars, hostVars, mode>>

\* The driver's Shutdown joins its threads and closes the stream, which waits for
\* a data callback to return.
Destroy(S) ==
  /\ \A d \in S : ~ tick[d]
  /\ stream' = [d \in Drivers |-> IF d \in S THEN "closed" ELSE stream[d]]
  /\ restart' = [d \in Drivers |-> d \notin S /\ restart[d]]
  /\ queued' = [d \in Drivers |-> IF d \in S THEN 0 ELSE queued[d]]

DestroyDriver(t) ==
  /\ title[t].at = "destroy"
  /\ Destroy({title[t].driver})
  /\ title' = [title EXCEPT ![t].at = "drain", ![t].driver = None]
  /\ UNCHANGED <<clientVars, created, slot, tick, workerVars, flagVars, hostVars, mode>>

Drain(t) ==
  LET i == title[t].client
  IN /\ title[t].at = "drain"
     /\ IF credits[i] > 0
        THEN credits' = [credits EXCEPT ![i] = @ - 1] /\ UNCHANGED title
        ELSE credits' = credits /\ title' = [title EXCEPT ![t] = NoCall]
     /\ UNCHANGED <<driver, due, moved, owner, driverVars, workerVars, flagVars, hostVars, mode>>

\* A frame from outside of the callback.
SubmitStray(t, i) ==
  /\ mode = "unruly"
  /\ title[t].at = "out"
  /\ SubmitFrame(i)
  /\ UNCHANGED <<driver, due, owner, created, slot, stream, restart, tick, workerVars, flagVars, hostVars,
                 title, mode>>

Title(t) == WaitForCallback(t) \/ DestroyDriver(t) \/ Drain(t)

-----------------------------------------------------------------------------
(* The driver.                                                             *)

\* Mutant of PlayBlock: a gap gives no credit back.
PlayBlockOnly(d) ==
  /\ stream[d] = "running"
  /\ ~ tick[d]
  /\ queued[d] > 0
  /\ queued' = [queued EXCEPT ![d] = @ - 1]
  /\ tick' = [tick EXCEPT ![d] = TRUE]
  /\ UNCHANGED <<clientVars, created, slot, stream, restart, workerVars, flagVars, hostVars, title, mode>>

\* The data callback plays a block or conceals a gap, and releases a credit for
\* either.
PlayBlock(d) ==
  /\ stream[d] = "running"
  /\ ~ tick[d]
  /\ queued' = [queued EXCEPT ![d] = IF @ > 0 THEN @ - 1 ELSE 0]
  /\ tick' = [tick EXCEPT ![d] = TRUE]
  /\ UNCHANGED <<clientVars, created, slot, stream, restart, workerVars, flagVars, hostVars, title, mode>>

ReleaseCredit(d) ==
  /\ tick[d]
  /\ tick' = [tick EXCEPT ![d] = FALSE]
  /\ credits' = [credits EXCEPT ![slot[d]] = Released(slot[d], 1)]
  /\ UNCHANGED <<driver, due, moved, owner, created, slot, stream, restart, queued, workerVars,
                 flagVars, hostVars, title, mode>>

\* A change of the output device takes the stream away ...
StreamError(d) ==
  /\ stream[d] \in {"running", "stopped"}
  /\ stream' = [stream EXCEPT ![d] = "lost"]
  /\ restart' = [restart EXCEPT ![d] = TRUE]
  /\ UNCHANGED <<clientVars, created, slot, queued, tick, workerVars, flagVars, hostVars, title, mode>>

\* ... and the recovery thread builds another, or fails to.  Its poll without a new
\* request goes round and leaves a driver without a stream as it is.
RestartStream(d) ==
  /\ restart[d]
  /\ ~ tick[d]
  /\ restart' = [restart EXCEPT ![d] = FALSE]
  /\ \E new \in {"running", "none"} : stream' = [stream EXCEPT ![d] = new]
  /\ UNCHANGED <<clientVars, created, slot, queued, tick, workerVars, flagVars, hostVars, title, mode>>

-----------------------------------------------------------------------------
(* The host.                                                               *)

OnStreams(from, to) ==
  stream' = [d \in Drivers |->
    IF stream[d] = from /\ \E i \in Clients : driver[i] = d THEN to ELSE stream[d]]

\* Emulator::Pause calls AudioSystem::Pause once per pause.
Pause ==
  /\ host = "out"
  /\ closing # "done"
  /\ IF paused
     THEN host' = "paused" /\ UNCHANGED paused
     ELSE host' = "set" /\ paused' = TRUE
  /\ UNCHANGED <<clientVars, driverVars, workerVars, running, pending, fence, resumed, closing, title, mode>>

\* Mutant of PauseSet: the worker is not woken.
PauseSetQuietly ==
  /\ host = "set"
  /\ host' = "wait"
  /\ UNCHANGED <<clientVars, driverVars, workerVars, flagVars, closing, title, mode>>

PauseSet ==
  /\ host = "set"
  /\ pending' = TRUE
  /\ host' = "wait"
  /\ UNCHANGED <<clientVars, driverVars, workerVars, running, paused, fence, resumed, closing, title, mode>>

\* Mutant of PauseWait: the fence stays signalled.
PauseWaitKeepingFence ==
  /\ host = "wait"
  /\ fence
  /\ host' = "stop"
  /\ UNCHANGED <<clientVars, driverVars, workerVars, flagVars, closing, title, mode>>

PauseWait ==
  /\ host = "wait"
  /\ fence
  /\ fence' = FALSE
  /\ host' = "stop"
  /\ UNCHANGED <<clientVars, driverVars, workerVars, running, paused, pending, resumed, closing, title, mode>>

\* The sinks are stopped once the worker is parked.
PauseDrivers ==
  /\ host = "stop"
  /\ OnStreams("running", "stopped")
  /\ host' = "paused"
  /\ UNCHANGED <<clientVars, created, slot, restart, queued, tick, workerVars, flagVars, closing, title, mode>>

Resume ==
  /\ host = "paused"
  /\ closing # "done"
  /\ IF paused
     THEN host' = "resume" /\ paused' = FALSE
     ELSE host' = "out" /\ UNCHANGED paused
  /\ UNCHANGED <<clientVars, driverVars, workerVars, running, pending, fence, resumed, closing, title, mode>>

ResumeDrivers ==
  /\ OnStreams("stopped", "running")
  /\ resumed' = TRUE

ResumeEnd ==
  /\ host = "resume"
  /\ ResumeDrivers
  /\ host' = "out"
  /\ UNCHANGED <<clientVars, created, slot, restart, queued, tick, workerVars, running, paused,
                 pending, fence, closing, title, mode>>

\* Shutdown stops the worker, resumes it if it is parked, and joins it.
Shutdown ==
  /\ closing = "no"
  /\ running' = FALSE
  /\ pending' = TRUE
  /\ closing' = "resume?"
  /\ UNCHANGED <<clientVars, driverVars, workerVars, paused, fence, resumed, host, title, mode>>

\* Mutant of ShutdownCheck: a parked worker is not resumed.
ShutdownStraight ==
  /\ closing = "resume?"
  /\ closing' = "join"
  /\ UNCHANGED <<clientVars, driverVars, workerVars, flagVars, host, title, mode>>

ShutdownCheck ==
  /\ closing = "resume?"
  /\ IF paused
     THEN closing' = "resume" /\ paused' = FALSE
     ELSE closing' = "join" /\ UNCHANGED paused
  /\ UNCHANGED <<clientVars, driverVars, workerVars, running, pending, fence, resumed, host, title, mode>>

ShutdownResume ==
  /\ closing = "resume"
  /\ ResumeDrivers
  /\ closing' = "join"
  /\ UNCHANGED <<clientVars, created, slot, restart, queued, tick, workerVars, running, paused,
                 pending, fence, host, title, mode>>

ShutdownJoin ==
  /\ closing = "join"
  /\ At("exited")
  /\ Destroy({d \in Drivers : \E i \in Clients : driver[i] = d})
  /\ driver' = [i \in Clients |-> None]
  /\ owner' = [i \in Clients |-> None]
  /\ closing' = "done"
  /\ UNCHANGED <<credits, due, moved, created, slot, tick, workerVars, flagVars, host, title, mode>>

Host == PauseSet \/ PauseWait \/ PauseDrivers \/ ResumeEnd
Closing == ShutdownCheck \/ ShutdownResume \/ ShutdownJoin

-----------------------------------------------------------------------------
Next ==
  \/ Worker \/ WorkerDue
  \/ \E t \in Titles :
       \/ RegisterClient(t) \/ Title(t)
       \/ \E i \in Clients : UnregisterClient(t, i) \/ SubmitStray(t, i)
  \/ \E d \in Drivers : PlayBlock(d) \/ ReleaseCredit(d) \/ StreamError(d) \/ RestartStream(d)
  \/ Pause \/ Resume \/ Host
  \/ Shutdown \/ Closing

Spec == Init /\ [][Next]_vars

\* Threads that can go on do, and a device whose stream runs plays.  A stream
\* that is stopped begins no further data callback, so a close waits for at most
\* one: what closes a stream is strongly fair.
FairSpec ==
  /\ Spec
  /\ WF_vars(Worker \/ WorkerDue)
  /\ \A d \in Drivers : WF_vars(PlayBlock(d)) /\ WF_vars(ReleaseCredit(d)) /\ SF_vars(RestartStream(d))
  /\ \A t \in Titles : SF_vars(Title(t))
  /\ WF_vars(Host) /\ SF_vars(Closing)

-----------------------------------------------------------------------------
\* Frames that are on their way from a credit to the sink or back.
InFlight(i) ==
  IF worker.client = i /\ worker.at \in {"lock", "call", "again"} THEN 1 ELSE 0

\* The credits bound the sink: unless a title submits frames outside of its
\* callback, a driver never queues more frames than the client's credits, the
\* one in flight and the one a gap was ticked for (Wait and Release of
\* client_semaphores_, the underrun tick of AudioCallback).
QueueBounded ==
  mode = "orderly" =>
    \A i \in Clients : InUse(i) =>
      credits[i] + InFlight(i) + queued[driver[i]] + (IF tick[driver[i]] THEN 1 ELSE 0)
        <= QueuedFrames + 2

\* No driver is destroyed while the worker runs the callback it plays for or looks
\* at its queue (callback_mutex against UnregisterClient and Shutdown).
DriverOutlivesCallback ==
  worker.at \in {"call", "look", "top up", "again"} /\ worker.driver # None
    => stream[worker.driver] # "closed"

\* A pause that returned means that the worker is parked, until someone resumes.
PauseMeansParked == host = "paused" /\ paused => At("parked")

\* A client whose sink runs is called, whatever credits were lost on the way,
\* because a sink that runs dry ticks.
ClientCalled ==
  \A i \in Clients :
    (InUse(i) /\ stream[driver[i]] = "running")
      ~> \/ worker.client = i /\ At("call")
         \/ ~ InUse(i) \/ stream[driver[i]] # "running"
         \/ paused \/ ~ running

\* A pause returns, unless the system is shut down meanwhile.
PauseReturns == host = "wait" ~> (host # "wait" \/ closing # "no")

\* A shutdown that no pause meets ends.
ShutdownEnds ==
  [](closing # "no" => host \in {"out", "paused"}) => (closing = "resume?" ~> closing = "done")
=============================================================================
