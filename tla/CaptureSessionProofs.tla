------------------------ MODULE CaptureSessionProofs ------------------------
(***************************************************************************)
(* Proofs about CaptureSession, for every number of sessions, workers,     *)
(* revisions and stops, and every combination of failures.                 *)
(*                                                                         *)
(* What the supervisor guarantees is not proved again here: Theory is its  *)
(* proof module over the variables of the session, and the first section   *)
(* carries its invariant over and says what a call may change.             *)
(***************************************************************************)
EXTENDS CaptureSession, TLAPS

Theory == INSTANCE SessionSupervisorProofs WITH Modes <- {"audio"}, Sources <- {"device"}

-----------------------------------------------------------------------------
(* The supervisor's calls, as the session sees them.                       *)

\* The calls of the session are calls the supervisor's proofs cover.
LEMMA StartIsAStep == Sup!Start("audio", "device") => Theory!Next
  BY DEF Sup!Start, Theory!Next, Theory!Start, Sup!Publish, Theory!Publish,
         Sup!DefaultSnapshot, Theory!DefaultSnapshot, Sup!Healthy, Theory!Healthy,
         Sup!Health, Theory!Health, Sup!None, Theory!None, Sup!NoSession, Theory!NoSession,
         Sup!NoWorkers, Theory!NoWorkers, Sup!workerVars, Theory!workerVars

LEMMA StopIsAStep == Sup!RequestStopForMode("audio") => Theory!Next
  BY DEF Sup!RequestStopForMode, Theory!Next, Theory!RequestStopForMode,
         Sup!RequestStop, Theory!RequestStop, Sup!Publish, Theory!Publish,
         Sup!Healthy, Theory!Healthy, Sup!Health, Theory!Health,
         Sup!NoSession, Theory!NoSession, Sup!workerVars, Theory!workerVars

LEMMA FailIsACall == ASSUME NEW s, Sup!Fail(s) PROVE Theory!SessionCall(s)
  BY DEF Sup!Fail, Theory!SessionCall, Theory!Fail, Sup!IsActive, Theory!IsActive,
         Sup!NoSession, Theory!NoSession, Sup!FailSession, Theory!FailSession,
         Sup!Publish, Theory!Publish, Sup!Health, Theory!Health,
         Sup!workerVars, Theory!workerVars

LEMMA FinishIsACall ==
  ASSUME NEW s, NEW ok \in BOOLEAN, Sup!FinishCleanup(s, ok) PROVE Theory!SessionCall(s)
  BY DEF Sup!FinishCleanup, Theory!SessionCall, Theory!FinishCleanup, Sup!IsActive, Theory!IsActive,
         Sup!NoSession, Theory!NoSession, Sup!FailSession, Theory!FailSession,
         Sup!Publish, Theory!Publish, Sup!Health, Theory!Health, Sup!Healthy, Theory!Healthy,
         Sup!TryFinalizeCleanup, Theory!TryFinalizeCleanup, Sup!NoWorkers, Theory!NoWorkers,
         Sup!DefaultSnapshot, Theory!DefaultSnapshot, Sup!None, Theory!None,
         Sup!workerVars, Theory!workerVars

LEMMA DrainIsAStep == Sup!DrainNext => Theory!Next
  BY DEF Sup!DrainNext, Theory!Next, Theory!DrainNext, Sup!ApplyWorkerCompletion,
         Theory!ApplyWorkerCompletion, Sup!IsActive, Theory!IsActive,
         Sup!NoSession, Theory!NoSession, Sup!FailSession, Theory!FailSession,
         Sup!Publish, Theory!Publish, Sup!Health, Theory!Health, Sup!Healthy, Theory!Healthy,
         Sup!TryFinalizeCleanup, Theory!TryFinalizeCleanup, Sup!NoWorkers, Theory!NoWorkers,
         Sup!DefaultSnapshot, Theory!DefaultSnapshot, Sup!None, Theory!None,
         Sup!FailureOf, Theory!FailureOf, Sup!sessionVars, Theory!sessionVars

LEMMA ProgressIsACall ==
  ASSUME NEW s, NEW p \in {"PreparingModel", "StartingCapture"}, Sup!UpdateStartProgress(s, p)
  PROVE  Theory!SessionCall(s)
  BY DEF Sup!UpdateStartProgress, Theory!SessionCall, Theory!UpdateStartProgress,
         Sup!IsActive, Theory!IsActive, Sup!IsCancelled, Theory!IsCancelled,
         Sup!NoSession, Theory!NoSession, Sup!Publish, Theory!Publish,
         Sup!Healthy, Theory!Healthy, Sup!Health, Theory!Health,
         Sup!sessionVars, Theory!sessionVars, Sup!workerVars, Theory!workerVars

LEMMA RunningIsACall == ASSUME NEW s, Sup!MarkRunning(s) PROVE Theory!SessionCall(s)
  BY DEF Sup!MarkRunning, Theory!SessionCall, Theory!MarkRunning,
         Sup!IsActive, Theory!IsActive, Sup!IsCancelled, Theory!IsCancelled,
         Sup!NoSession, Theory!NoSession, Sup!Publish, Theory!Publish, Sup!None, Theory!None,
         Sup!Healthy, Theory!Healthy, Sup!Health, Theory!Health,
         Sup!sessionVars, Theory!sessionVars, Sup!workerVars, Theory!workerVars

LEMMA WaitingIsACall == ASSUME NEW s, Sup!MarkWaiting(s) PROVE Theory!SessionCall(s)
  BY DEF Sup!MarkWaiting, Theory!SessionCall, Theory!MarkWaiting,
         Sup!IsActive, Theory!IsActive,
         Sup!NoSession, Theory!NoSession, Sup!Publish, Theory!Publish,
         Sup!Health, Theory!Health,
         Sup!sessionVars, Theory!sessionVars, Sup!workerVars, Theory!workerVars

LEMMA HealthIsACall ==
  ASSUME NEW s, NEW level \in {"Healthy", "Degraded"}, Sup!UpdateHealth(s, level)
  PROVE  Theory!SessionCall(s)
  BY DEF Sup!UpdateHealth, Theory!SessionCall, Theory!UpdateHealth, Theory!Levels,
         Sup!IsActive, Theory!IsActive,
         Sup!NoSession, Theory!NoSession, Sup!Publish, Theory!Publish,
         Sup!Health, Theory!Health,
         Sup!sessionVars, Theory!sessionVars, Sup!workerVars, Theory!workerVars

LEMMA RegisterIsACall ==
  ASSUME NEW s, NEW lifetime \in {"Startup", "Session", "Shutdown"},
         Sup!RegisterWorker(s, lifetime)
  PROVE  Theory!SessionCall(s)
  BY DEF Sup!RegisterWorker, Theory!SessionCall, Theory!RegisterWorker, Theory!Lifetimes,
         Sup!IsActive, Theory!IsActive, Sup!NoSession, Theory!NoSession

LEMMA TimeoutIsACall == ASSUME NEW s, Sup!ShutdownTimedOut(s) PROVE Theory!SessionCall(s)
  BY DEF Sup!ShutdownTimedOut, Theory!SessionCall, Theory!ShutdownTimedOut,
         Sup!IsActive, Theory!IsActive, Sup!NoSession, Theory!NoSession,
         Sup!FailSession, Theory!FailSession, Sup!Publish, Theory!Publish,
         Sup!Health, Theory!Health, Sup!workerVars, Theory!workerVars

LEMMA ReportIsAStep ==
  ASSUME NEW r, NEW outcome \in {"Completed", "Cancelled", "Exited", "Failed", "Panicked"},
         Sup!ReporterFinish(r, outcome)
  PROVE  Theory!Next
  BY DEF Sup!ReporterFinish, Theory!Next, Theory!ReporterFinish, Theory!Outcomes,
         Sup!sessionVars, Theory!sessionVars

LEMMA DrainingIsAStep == Sup!BeginDrain \/ Sup!EndDrain => Theory!Next
  BY DEF Sup!BeginDrain, Sup!EndDrain, Theory!Next, Theory!BeginDrain, Theory!EndDrain,
         Sup!sessionVars, Theory!sessionVars, Sup!workerVars, Theory!workerVars

\* What the proofs below use of the supervisor's invariant: sessions and workers
\* are numbered, and every reporter in a worker's hands is of the active session.
Guarantees ==
  /\ active \in 0..MaxSession /\ active < nextSession
  /\ nextSession \in 1..MaxSession /\ nextWorker \in 1..MaxWorker
  /\ cancelled \subseteq 1..MaxSession /\ cleanupFinished \in BOOLEAN
  /\ \A r \in reporters :
       /\ r.session = active /\ active # NoSession
       /\ r.worker \in 1..MaxWorker /\ r.worker < nextWorker
  /\ active # NoSession =>
       /\ snapshot.session = active
       /\ active \in cancelled <=> snapshot.lifecycle \in {"Stopping", "Failed"}

LEMMA SupervisorGuarantees == Theory!Inv => Guarantees
  <1> SUFFICES ASSUME Theory!Inv PROVE Guarantees
    OBVIOUS
  <1>1. /\ active \in 0..MaxSession /\ active < nextSession
        /\ nextSession \in 1..MaxSession /\ nextWorker \in 1..MaxWorker
        /\ cancelled \subseteq 1..MaxSession /\ cleanupFinished \in BOOLEAN
    BY CaptureBounds DEF Theory!Inv, Theory!TypeOK, Theory!Sessions, Theory!NoSession, Theory!WorkerIds,
           Theory!NumbersAreFresh
  <1>2. \A r \in reporters :
       /\ r.session = active /\ active # NoSession
       /\ r.worker \in 1..MaxWorker /\ r.worker < nextWorker
    BY <1>1 DEF Theory!Inv, Theory!TypeOK, Theory!Sessions, Theory!WorkerIds, Theory!Reporters,
           Theory!NumbersAreFresh, Theory!NoWorkerOutlivesItsSession, Theory!Outstanding, NoSession
  <1>3. active # NoSession =>
       /\ snapshot.session = active
       /\ active \in cancelled <=> snapshot.lifecycle \in {"Stopping", "Failed"}
    BY DEF Theory!Inv, Theory!CancelledIsNeverLive, Theory!IsCancelled, NoSession, Theory!NoSession
  <1> QED
    BY <1>1, <1>2, <1>3 DEF Guarantees

LEMMA SupervisorGuaranteesNext == Theory!Inv' => Guarantees'
  <1> SUFFICES ASSUME Theory!Inv' PROVE Guarantees'
    OBVIOUS
  <1>1. (/\ active \in 0..MaxSession /\ active < nextSession
         /\ nextSession \in 1..MaxSession /\ nextWorker \in 1..MaxWorker
         /\ cancelled \subseteq 1..MaxSession /\ cleanupFinished \in BOOLEAN)'
    BY CaptureBounds DEF Theory!Inv, Theory!TypeOK, Theory!Sessions, Theory!NoSession, Theory!WorkerIds,
           Theory!NumbersAreFresh
  <1>2. (\A r \in reporters :
       /\ r.session = active /\ active # NoSession
       /\ r.worker \in 1..MaxWorker /\ r.worker < nextWorker)'
    BY <1>1 DEF Theory!Inv, Theory!TypeOK, Theory!Sessions, Theory!WorkerIds, Theory!Reporters,
           Theory!NumbersAreFresh, Theory!NoWorkerOutlivesItsSession, Theory!Outstanding, NoSession
  <1>3. (active # NoSession =>
       /\ snapshot.session = active
       /\ active \in cancelled <=> snapshot.lifecycle \in {"Stopping", "Failed"})'
    BY DEF Theory!Inv, Theory!CancelledIsNeverLive, Theory!IsCancelled, NoSession, Theory!NoSession
  <1> QED
    BY <1>1, <1>2, <1>3 DEF Guarantees

LEMMA NextKeepsTheory == Theory!Inv /\ Theory!Next => Theory!Inv'
  BY Theory!InvNext, CaptureBounds

LEMMA CallKeepsTheory ==
  ASSUME NEW s, Theory!Inv, active = s, active # NoSession, Theory!SessionCall(s)
  PROVE  Theory!Inv'
  <1>1. s \in Theory!KnownSessions
    BY SupervisorGuarantees DEF Guarantees, Theory!KnownSessions, NoSession
  <1> QED
    BY <1>1, NextKeepsTheory DEF Theory!Next

LEMMA StutterKeepsTheory == Theory!Inv /\ UNCHANGED supVars => Theory!Inv'
  BY Theory!InvNext, CaptureBounds
  DEF supVars, Theory!vars, Theory!sessionVars, Theory!workerVars

-----------------------------------------------------------------------------
(* What a step of the session does to the supervisor, in five kinds.       *)

\* A publication, a failure, a stop or a drain that releases nobody.
Calm ==
  /\ UNCHANGED <<active, cleanupFinished, reporters, nextWorker, nextSession>>
  /\ cancelled \subseteq cancelled'

Reporter(s, role) == [session |-> s, worker |-> worker[s][role]]
Holds(s, role) == Reporter(s, role) \in reporters

Registers(s, role) ==
  /\ active = s /\ active # NoSession
  /\ UNCHANGED <<active, cancelled, cleanupFinished, nextSession>>
  /\ nextWorker' = nextWorker + 1
  /\ worker' = [worker EXCEPT ![s][role] = nextWorker]
  /\ reporters' = reporters \cup {[session |-> s, worker |-> nextWorker]}

Reports(s, role) ==
  /\ Holds(s, role)
  /\ UNCHANGED <<active, cancelled, cleanupFinished, nextWorker, nextSession>>
  /\ reporters' = reporters \ {Reporter(s, role)}

\* The cleanup of s is declared finished, and s perhaps released.
Finishes(s) ==
  /\ active = s /\ active # NoSession
  /\ UNCHANGED <<reporters, nextWorker, nextSession>>
  /\ cancelled \subseteq cancelled'
  /\ \/ active' = active /\ cleanupFinished'
     \/ active' = NoSession /\ ~cleanupFinished'

\* A report is applied: the session may be released if its cleanup is finished.
Drains ==
  /\ UNCHANGED <<reporters, nextWorker, nextSession>>
  /\ cancelled \subseteq cancelled'
  /\ \/ UNCHANGED <<active, cleanupFinished>>
     \/ cleanupFinished /\ active' = NoSession /\ ~cleanupFinished'

LEMMA StartEffect ==
  ASSUME Theory!Inv, Sup!Start("audio", "device")
  PROVE  /\ Theory!Inv'
         /\ active = NoSession /\ active' = nextSession /\ ~cleanupFinished'
         /\ nextSession' = nextSession + 1
         /\ UNCHANGED <<cancelled, reporters, nextWorker>>
  <1>1. Theory!Inv'
    BY StartIsAStep, NextKeepsTheory
  <1> QED
    BY <1>1 DEF Sup!Start, Sup!NoSession, NoSession, Sup!workerVars

LEMMA StopEffect ==
  ASSUME Theory!Inv, Sup!RequestStopForMode("audio")
  PROVE  /\ Theory!Inv' /\ Calm
         /\ active # NoSession /\ active \in cancelled'
  <1>1. Theory!Inv'
    BY StopIsAStep, NextKeepsTheory
  <1> QED
    BY <1>1 DEF Sup!RequestStopForMode, Sup!RequestStop, Sup!NoSession, NoSession,
                Sup!workerVars, Calm

LEMMA RegisterEffect ==
  ASSUME Theory!Inv, NEW s \in Starts, NEW role \in Roles,
         NEW lifetime \in {"Startup", "Session", "Shutdown"}, Register(s, role, lifetime)
  PROVE  Theory!Inv' /\ Registers(s, role)
  <1>1. active = s /\ active # NoSession
    BY DEF Register, Sup!RegisterWorker, Sup!IsActive, Sup!NoSession, NoSession
  <1>2. Theory!Inv'
    BY <1>1, RegisterIsACall, CallKeepsTheory DEF Register
  <1> QED
    BY <1>1, <1>2 DEF Register, Sup!RegisterWorker, Registers

LEMMA ReportEffect ==
  ASSUME Theory!Inv, NEW s, NEW role,
         NEW outcome \in {"Completed", "Cancelled", "Exited", "Failed", "Panicked"},
         Report(s, role, outcome)
  PROVE  Theory!Inv' /\ Reports(s, role)
  <1>1. Theory!Inv'
    BY ReportIsAStep, NextKeepsTheory DEF Report
  <1> QED
    BY <1>1 DEF Report, Sup!ReporterFinish, Sup!sessionVars, Reports, Holds, Reporter

LEMMA StutterEffect ==
  ASSUME Theory!Inv, UNCHANGED supVars
  PROVE  Theory!Inv' /\ Calm
  BY StutterKeepsTheory DEF supVars, Calm

LEMMA FailEffect ==
  ASSUME Theory!Inv, NEW s, Try(IsActive(s), Sup!Fail(s))
  PROVE  Theory!Inv' /\ Calm /\ (active = s /\ active # NoSession => s \in cancelled')
  <1>1. CASE ~IsActive(s)
    BY <1>1, StutterEffect DEF Try, IsActive, Sup!IsActive, NoSession, Sup!NoSession
  <1>2. CASE IsActive(s)
    <2>1. Sup!Fail(s) /\ active = s /\ active # NoSession
      BY <1>2 DEF Try, IsActive, Sup!IsActive, NoSession, Sup!NoSession
    <2>2. Theory!Inv'
      BY <2>1, FailIsACall, CallKeepsTheory
    <2> QED
      BY <2>1, <2>2 DEF Sup!Fail, Sup!FailSession, Sup!workerVars, Calm
  <1> QED
    BY <1>1, <1>2

LEMMA TimeoutEffect ==
  ASSUME Theory!Inv, NEW s, Try(IsActive(s), Sup!ShutdownTimedOut(s))
  PROVE  Theory!Inv' /\ Calm
  <1>1. CASE ~IsActive(s)
    BY <1>1, StutterEffect DEF Try
  <1>2. CASE IsActive(s)
    <2>1. Sup!ShutdownTimedOut(s) /\ active = s /\ active # NoSession
      BY <1>2 DEF Try, IsActive, Sup!IsActive, NoSession, Sup!NoSession
    <2>2. Theory!Inv'
      BY <2>1, TimeoutIsACall, CallKeepsTheory
    <2> QED
      BY <2>1, <2>2 DEF Sup!ShutdownTimedOut, Sup!FailSession, Sup!workerVars, Calm
  <1> QED
    BY <1>1, <1>2

LEMMA FinishEffect ==
  ASSUME Theory!Inv, NEW s, NEW ok \in BOOLEAN, Try(IsActive(s), Sup!FinishCleanup(s, ok))
  PROVE  Theory!Inv' /\ (Calm \/ Finishes(s))
  <1>1. CASE ~IsActive(s)
    BY <1>1, StutterEffect DEF Try
  <1>2. CASE IsActive(s)
    <2>1. Sup!FinishCleanup(s, ok) /\ active = s /\ active # NoSession
      BY <1>2 DEF Try, IsActive, Sup!IsActive, NoSession, Sup!NoSession
    <2>2. Theory!Inv'
      BY <2>1, FinishIsACall, CallKeepsTheory
    <2>3. CASE ok
      BY <2>1, <2>2, <2>3 DEF Sup!FinishCleanup, Sup!TryFinalizeCleanup, Sup!workerVars, Finishes,
                              Sup!NoSession, NoSession
    <2>4. CASE ~ok
      BY <2>1, <2>2, <2>4 DEF Sup!FinishCleanup, Sup!FailSession, Sup!workerVars, Finishes,
                              Sup!NoSession, NoSession
    <2> QED
      BY <2>3, <2>4
  <1> QED
    BY <1>1, <1>2

LEMMA DrainEffect ==
  ASSUME Theory!Inv, Sup!DrainNext
  PROVE  Theory!Inv' /\ Drains
  <1>1. Theory!Inv'
    BY DrainIsAStep, NextKeepsTheory
  <1>2. UNCHANGED <<reporters, nextWorker, nextSession>>
    BY DEF Sup!DrainNext
  <1>3. /\ cancelled \subseteq cancelled'
        /\ \/ UNCHANGED <<active, cleanupFinished>>
           \/ cleanupFinished /\ active' = NoSession /\ ~cleanupFinished'
    BY DEF Sup!DrainNext, Sup!ApplyWorkerCompletion, Sup!FailSession, Sup!TryFinalizeCleanup,
           Sup!sessionVars, Sup!NoSession, NoSession
  <1> QED
    BY <1>1, <1>2, <1>3 DEF Drains

LEMMA DrainingEffect ==
  ASSUME Theory!Inv, Sup!BeginDrain \/ Sup!EndDrain
  PROVE  Theory!Inv' /\ Calm
  BY DrainingIsAStep, NextKeepsTheory
  DEF Sup!BeginDrain, Sup!EndDrain, Sup!sessionVars, Sup!workerVars, Calm

\* The publications: progress, running, waiting, health.
LEMMA PublicationEffect ==
  ASSUME Theory!Inv, NEW s,
         \/ \E p \in {"PreparingModel", "StartingCapture"} : Sup!UpdateStartProgress(s, p)
         \/ Sup!MarkRunning(s) \/ Sup!MarkWaiting(s)
         \/ \E level \in {"Healthy", "Degraded"} : Sup!UpdateHealth(s, level)
  PROVE  Theory!Inv' /\ Calm
  <1>1. /\ active = s /\ active # NoSession
        /\ Calm
    BY DEF Sup!UpdateStartProgress, Sup!MarkRunning, Sup!MarkWaiting, Sup!UpdateHealth,
           Sup!IsActive, Sup!NoSession, NoSession, Sup!sessionVars, Sup!workerVars, Calm
  <1>2. Theory!SessionCall(s)
    BY ProgressIsACall, RunningIsACall, WaitingIsACall, HealthIsACall
  <1> QED
    BY <1>1, <1>2, CallKeepsTheory

-----------------------------------------------------------------------------
(* The invariant of the session.                                           *)

StartPlaces ==
  {"none", "spawnMonitor", "abandon", "register", "progress", "prepare", "prepared",
   "acquire", "progressCapture", "capture", "dropLease", "transcription",
   "spawnTranscription", "forwarder", "spawnForwarder", "giveUp", "failed", "admit", "put",
   "withdraw", "withdrawn", "complete", "observe", "run", "reveal", "ask", "degrade", "done"}

Types ==
  /\ slot \in Starts \cup {NoSession}
  /\ control \in {Free, "start", "main"}
  /\ leases \subseteq Starts
  /\ worker \in [Starts -> [Roles -> 0..MaxWorker]]
  /\ start \in [Starts -> StartPlaces]
  /\ result \in [Starts -> {"none", "ok", "cancelled", "error"}]
  /\ capture \in [Starts -> {"none", "live", "stopped"}]
  /\ forwarder \in [Starts -> {"none", "loop", "wait", "frame", "resume", "health", "ended"}]
  /\ transcription \in [Starts -> {"none", "run", "reported", "ended"}]
  /\ cleanup \in [Starts -> {"none", "spawn", "spawnFailed", "spawnGivenUp", "stop", "join",
                             "report", "finish", "ended"}]
  /\ stopResult \in [Starts -> BOOLEAN]
  /\ monitor \in [Starts -> {"none", "poll", "drain", "look", "timeout", "take", "schedule",
                             "spawning", "finish", "release", "ended"}]
  /\ failureCleanup \in [Starts -> BOOLEAN]
  /\ main \in [pc : {"idle", "lock", "take", "schedule", "spawning"},
               session : Starts \cup {NoSession}, already : BOOLEAN, taken : BOOLEAN]
  /\ stops \in 0..MaxStops

\* A worker's number is its own.
NumbersAreDistinct ==
  \A s, t \in Starts, r, q \in Roles :
    /\ worker[s][r] < nextWorker
    /\ worker[s][r] = worker[t][q] /\ worker[s][r] # NoWorker => s = t /\ r = q

\* Of a session that has not been started there is nothing.
UnstartedHasNothing ==
  /\ slot < nextSession /\ main.session < nextSession
  /\ \A s \in Starts : s >= nextSession =>
       /\ start[s] = "none" /\ capture[s] = "none" /\ forwarder[s] = "none"
       /\ transcription[s] = "none" /\ cleanup[s] = "none" /\ monitor[s] = "none"
       /\ ~failureCleanup[s] /\ s \notin leases

\* A thread that runs has its reporter still in hand.
ReportersAreHeld ==
  \A s \in Starts :
    /\ InStartup(s) => Holds(s, "startup")
    /\ start[s] = "spawnTranscription" \/ transcription[s] = "run" => Holds(s, "transcription")
    /\ start[s] = "spawnForwarder" \/ forwarder[s] \notin {"none", "ended"} =>
         Holds(s, "forwarder")
    /\ cleanup[s] \in {"spawn", "stop", "join", "report"} /\ Tracked(s) => Holds(s, "shutdown")
    /\ Tracked(s) => cleanup[s] # "none"
    /\ start[s] \in {"transcription", "spawnTranscription"} => transcription[s] = "none"
    /\ start[s] \in {"transcription", "spawnTranscription", "forwarder", "spawnForwarder"} =>
         forwarder[s] = "none"

\* Under the control lock Stop cannot meet the start that stores the resources, nor
\* that start another one.
StopMissesNoStore ==
  /\ main.pc = "take" => control = "main" /\ ~main.taken
  /\ main.pc \notin {"idle", "lock"} => main.session \in cancelled /\ main.session # NoSession
  /\ main.pc = "schedule" /\ ~main.taken => slot # main.session
  /\ \A s \in Starts : start[s] \in {"put", "ask"} =>
       /\ control = "start"
       /\ \A t \in Starts : start[t] \in {"put", "ask"} => t = s
  /\ \A s \in Starts : start[s] = "put" => ~(main.pc \in {"take", "schedule"} /\ main.session = s)

\* The five places where the resources of a session may be.
InStart(s) ==
  start[s] \in {"transcription", "spawnTranscription", "forwarder", "spawnForwarder", "giveUp",
                "admit", "put", "withdraw"}
InSlot(s) == slot = s
InMain(s) == main.pc = "schedule" /\ main.taken /\ main.session = s
InMonitor(s) == monitor[s] = "schedule"
InCleanup(s) == cleanup[s] # "none"

BeforeCapture ==
  {"none", "spawnMonitor", "abandon", "register", "progress", "prepare", "prepared", "acquire",
   "progressCapture", "capture", "dropLease"}

\* They are in one of them at most, and in none before the capture has started.
ResourcesHaveOneHolder ==
  \A s \in Starts :
    /\ InStart(s) => ~InSlot(s) /\ ~InMain(s) /\ ~InMonitor(s) /\ ~InCleanup(s)
    /\ InSlot(s) => ~InMain(s) /\ ~InMonitor(s) /\ ~InCleanup(s)
    /\ InMain(s) => ~InMonitor(s) /\ ~InCleanup(s)
    /\ InMonitor(s) => ~InCleanup(s)
    /\ capture[s] = "none" =>
         /\ ~InStart(s) /\ ~InSlot(s) /\ ~InMain(s) /\ ~InMonitor(s) /\ ~InCleanup(s)
         /\ transcription[s] = "none" /\ forwarder[s] = "none"
    /\ start[s] \in BeforeCapture => capture[s] = "none"
    /\ InStart(s) => capture[s] = "live"

\* A capture that runs, and a recognizer, is somebody's to stop and to join.
WhatRunsIsHeld ==
  \A s \in Starts :
    /\ capture[s] = "live" =>
         \/ InStart(s) \/ InSlot(s) \/ InMain(s) \/ InMonitor(s)
         \/ cleanup[s] \in {"spawn", "stop"}
    /\ transcription[s] \in {"run", "reported"} /\ ~Fault("cleanupSpawn") =>
         \/ InStart(s) \/ InSlot(s) \/ InMain(s) \/ InMonitor(s)
         \/ cleanup[s] \in {"spawn", "stop", "join"}

\* Nobody declares the cleanup of a session finished while its resources are
\* stored or in the hands of Stop, unless the monitor cleans up after a failure.
CleanupIsAwaited ==
  \A s \in Starts :
    /\ ~failureCleanup[s] /\ (InSlot(s) \/ InMain(s) \/ start[s] = "put") =>
         active = s /\ ~cleanupFinished
    /\ active = s /\ cleanupFinished /\ cleanup[s] = "none" => s \in cancelled
    /\ start[s] = "abandon" /\ active = s => s \in cancelled
    /\ monitor[s] \in {"take", "schedule", "spawning", "finish"} => failureCleanup[s]
    /\ failureCleanup[s] => s \in cancelled
    /\ InCleanup(s) /\ ~Tracked(s) => failureCleanup[s]

\* Who holds the lease on the speech model: the start that has acquired it, until
\* the transcription thread owns it.
WithLease ==
  {"progressCapture", "capture", "dropLease", "transcription", "spawnTranscription"}
LeasesAreOwned ==
  \A s \in leases : start[s] \in WithLease \/ transcription[s] \in {"run", "reported"}

Inv ==
  /\ Theory!Inv
  /\ Types
  /\ NumbersAreDistinct
  /\ UnstartedHasNothing
  /\ ReportersAreHeld
  /\ StopMissesNoStore
  /\ ResourcesHaveOneHolder
  /\ WhatRunsIsHeld
  /\ CleanupIsAwaited
  /\ LeasesAreOwned

\* The numbers of sessions and workers, as the arithmetic needs them.
LEMMA Numbers ==
  ASSUME Inv
  PROVE  /\ Guarantees /\ MaxSession \in Nat /\ MaxWorker \in Nat
         /\ Starts \subseteq Nat /\ NoSession \notin Starts
         /\ nextSession \in Nat /\ nextWorker \in Nat \ {0} /\ active \in Nat
  BY SupervisorGuarantees, CaptureBounds DEF Inv, Guarantees, Starts, NoSession

\* A thread that holds its reporter works for the active session.
LEMMA HolderIsActive ==
  ASSUME Inv, NEW s, NEW role, Holds(s, role)
  PROVE  active = s /\ active # NoSession
  BY Numbers DEF Guarantees, Holds, Reporter

LEMMA StartupIsActive == Inv => StartupHoldsTheSession
  BY HolderIsActive DEF Inv, ReportersAreHeld, StartupHoldsTheSession

-----------------------------------------------------------------------------
(* What each effect leaves of the reporters and of their numbers.          *)

LEMMA ReportersKept ==
  ASSUME Inv, Theory!Inv', UNCHANGED worker, Calm \/ Drains \/ \E s : Finishes(s)
  PROVE  /\ NumbersAreDistinct'
         /\ \A t \in Starts, r \in Roles : Holds(t, r) => Holds(t, r)'
  BY DEF Inv, NumbersAreDistinct, Holds, Reporter, Calm, Drains, Finishes

LEMMA ReportersReported ==
  ASSUME Inv, Theory!Inv', UNCHANGED worker, NEW s \in Starts, NEW role \in Roles, Reports(s, role)
  PROVE  /\ NumbersAreDistinct'
         /\ \A t \in Starts, r \in Roles : Holds(t, r) /\ ~(t = s /\ r = role) => Holds(t, r)'
  <1>1. NumbersAreDistinct'
    BY DEF Inv, NumbersAreDistinct, Reports
  <1>2. worker[s][role] # NoWorker
    BY Numbers DEF Reports, Holds, Reporter, Guarantees, NoWorker
  <1>3. ASSUME NEW t \in Starts, NEW r \in Roles, Holds(t, r), ~(t = s /\ r = role)
        PROVE  Holds(t, r)'
    <2>1. Reporter(t, r) # Reporter(s, role)
      BY <1>2, <1>3 DEF Inv, NumbersAreDistinct, Reporter
    <2>2. Reporter(t, r)' = Reporter(t, r)
      BY DEF Reporter
    <2> QED
      BY <1>3, <2>1, <2>2 DEF Holds, Reports
  <1> QED
    BY <1>1, <1>3

LEMMA ReportersRegistered ==
  ASSUME Inv, Theory!Inv', NEW s \in Starts, NEW role \in Roles, Registers(s, role)
  PROVE  /\ NumbersAreDistinct'
         /\ worker' \in [Starts -> [Roles -> 0..MaxWorker]]
         /\ worker'[s][role] # NoWorker
         /\ \A t \in Starts, r \in Roles : ~(t = s /\ r = role) => worker'[t][r] = worker[t][r]
         /\ Holds(s, role)'
         /\ \A t \in Starts, r \in Roles : Holds(t, r) /\ ~(t = s /\ r = role) => Holds(t, r)'
  <1>1. /\ worker' = [worker EXCEPT ![s][role] = nextWorker]
        /\ worker \in [Starts -> [Roles -> 0..MaxWorker]]
        /\ nextWorker' = nextWorker + 1
        /\ nextWorker \in 1..MaxWorker
    BY Numbers DEF Inv, Types, Registers, Guarantees
  <1>2. /\ worker' \in [Starts -> [Roles -> 0..MaxWorker]]
        /\ worker'[s][role] = nextWorker
        /\ \A t \in Starts, r \in Roles : ~(t = s /\ r = role) => worker'[t][r] = worker[t][r]
    BY <1>1
  <1>3. NumbersAreDistinct'
    BY <1>1, <1>2, CaptureBounds DEF Inv, NumbersAreDistinct
  <1>4. Holds(s, role)'
    BY <1>2 DEF Holds, Reporter, Registers
  <1>5. \A t \in Starts, r \in Roles : Holds(t, r) /\ ~(t = s /\ r = role) => Holds(t, r)'
    BY <1>2 DEF Holds, Reporter, Registers
  <1> QED
    BY <1>1, <1>2, <1>3, <1>4, <1>5 DEF NoWorker

\* What a step leaves alone: each part of the invariant has its variables.
LEMMA Undisturbed ==
  ASSUME Inv, UNCHANGED <<env, nextSession>>, cancelled \subseteq cancelled'
  PROVE  /\ UNCHANGED <<slot, main, start, capture, forwarder, transcription, cleanup, monitor,
                        failureCleanup, leases>> => UnstartedHasNothing'
         /\ /\ UNCHANGED <<start, transcription, forwarder, cleanup, worker>>
            /\ \A t \in Starts, r \in Roles : Holds(t, r) => Holds(t, r)'
            => ReportersAreHeld'
         /\ UNCHANGED <<main, control, slot, start>> => StopMissesNoStore'
         /\ UNCHANGED <<start, slot, main, monitor, cleanup, capture, transcription, forwarder>> =>
              ResourcesHaveOneHolder'
         /\ UNCHANGED <<start, slot, main, monitor, cleanup, capture, transcription>> =>
              WhatRunsIsHeld'
         /\ UNCHANGED <<active, cleanupFinished, failureCleanup, slot, main, start, cleanup,
                        monitor, worker>> => CleanupIsAwaited'
         /\ UNCHANGED <<leases, start, transcription>> => LeasesAreOwned'
  <1>1. UNCHANGED <<slot, main, start, capture, forwarder, transcription, cleanup, monitor,
                    failureCleanup, leases>> => UnstartedHasNothing'
    BY DEF Inv, UnstartedHasNothing
  <1>2. /\ UNCHANGED <<start, transcription, forwarder, cleanup, worker>>
        /\ \A t \in Starts, r \in Roles : Holds(t, r) => Holds(t, r)'
        => ReportersAreHeld'
    BY DEF Inv, ReportersAreHeld, InStartup, Tracked, Roles
  <1>3. UNCHANGED <<main, control, slot, start>> => StopMissesNoStore'
    BY DEF Inv, StopMissesNoStore
  <1>4. UNCHANGED <<start, slot, main, monitor, cleanup, capture, transcription, forwarder>> =>
          ResourcesHaveOneHolder'
    BY DEF Inv, ResourcesHaveOneHolder, InStart, InSlot, InMain, InMonitor, InCleanup
  <1>5. UNCHANGED <<start, slot, main, monitor, cleanup, capture, transcription>> =>
          WhatRunsIsHeld'
    BY DEF Inv, WhatRunsIsHeld, Fault, InStart, InSlot, InMain, InMonitor
  <1>6. UNCHANGED <<active, cleanupFinished, failureCleanup, slot, main, start, cleanup,
                    monitor, worker>> => CleanupIsAwaited'
    BY DEF Inv, CleanupIsAwaited, Tracked, InSlot, InMain, InCleanup
  <1>7. UNCHANGED <<leases, start, transcription>> => LeasesAreOwned'
    BY DEF Inv, LeasesAreOwned
  <1> QED
    BY <1>1, <1>2, <1>3, <1>4, <1>5, <1>6, <1>7

\* Most moves of start_capture change nothing else, but for the control lock around
\* the overlay: they neither take nor give a resource or the lease.
LEMMA StartMoves ==
  ASSUME Inv, Theory!Inv', NEW s \in Starts, NEW to \in StartPlaces,
         start' = [start EXCEPT ![s] = to],
         result' \in [Starts -> {"none", "ok", "cancelled", "error"}],
         UNCHANGED <<env, slot, leases, worker, capture, forwarder, transcription,
                     cleanup, stopResult, monitor, failureCleanup, main, stops>>,
         \/ UNCHANGED control /\ to # "ask"
         \/ control = Free /\ control' = "start" /\ to = "ask"
         \/ start[s] = "ask" /\ control' = Free /\ to # "ask",
         Calm \/ (Reports(s, "startup") /\ ~InStartup(s)'),
         start[s] # "none",
         to \notin {"none", "put", "abandon", "transcription", "spawnTranscription",
                   "forwarder", "spawnForwarder"},
         InStartup(s)' => InStartup(s), InStart(s)' <=> InStart(s),
         to \in BeforeCapture => start[s] \in BeforeCapture,
         start[s] \in WithLease => to \in WithLease \/ s \notin leases
  PROVE  Inv'
  <1>1. /\ NumbersAreDistinct'
        /\ \A t \in Starts, r \in Roles :
             Holds(t, r) /\ ~(t = s /\ r = "startup" /\ ~InStartup(s)') => Holds(t, r)'
    BY ReportersKept, ReportersReported DEF Roles
  <1>2. UNCHANGED <<active, cleanupFinished, nextSession>> /\ cancelled \subseteq cancelled'
    BY DEF Calm, Reports
  <1>3. Types'
    BY DEF Inv, Types, Free
  <1>4. start'[s] = to /\ \A t \in Starts : t # s => start'[t] = start[t]
    BY DEF Inv, Types
  <1>5. UnstartedHasNothing'
    BY <1>2, <1>4 DEF Inv, UnstartedHasNothing
  <1>6. ReportersAreHeld'
    BY <1>1, <1>4 DEF Inv, ReportersAreHeld, InStartup, Tracked, Roles
  <1>7. StopMissesNoStore'
    BY <1>2, <1>4 DEF Inv, StopMissesNoStore, Free
  <1>8. \A t \in Starts : InStart(t)' <=> InStart(t)
    BY <1>4 DEF InStart
  <1>9. ResourcesHaveOneHolder'
    BY <1>4, <1>8 DEF Inv, ResourcesHaveOneHolder, InSlot, InMain, InMonitor, InCleanup
  <1>10. WhatRunsIsHeld'
    BY <1>8 DEF Inv, WhatRunsIsHeld, Fault, InSlot, InMain, InMonitor
  <1>11. CleanupIsAwaited'
    BY <1>2, <1>4 DEF Inv, CleanupIsAwaited, Tracked, InSlot, InMain, InCleanup
  <1>12. LeasesAreOwned'
    BY <1>4 DEF Inv, LeasesAreOwned
  <1> QED
    BY <1>1, <1>3, <1>5, <1>6, <1>7, <1>9, <1>10, <1>11, <1>12 DEF Inv

-----------------------------------------------------------------------------
(* Every step preserves the invariant.  Each lemma says first what the     *)
(* step, or each case of it, does to the supervisor and to the variables   *)
(* of the session, then which reporters that leaves in hand, and shows the *)
(* parts of the invariant one by one from these two facts.                 *)

-----------------------------------------------------------------------------
(* start_capture.                                                          *)

LEMMA SpawnMonitorStep ==
  ASSUME Inv, NEW s \in Starts, SpawnMonitor(s)
  PROVE  Inv'
  <1>1. /\ Theory!Inv' /\ Calm
        /\ start[s] = "spawnMonitor"
        /\ start' = [start EXCEPT ![s] = "register"]
        /\ monitor' = [monitor EXCEPT ![s] = "poll"]
        /\ UNCHANGED <<env, slot, control, leases, result, worker, capture, forwarder,
                       transcription, cleanup, stopResult, failureCleanup, main, stops>>
    BY StutterEffect
    DEF Inv, SpawnMonitor, At, Goto, supVars, sharedVars, startVars, threadVars, cleanupVars,
        monitorVars, mainVars
  <1>2. /\ NumbersAreDistinct'
        /\ \A t \in Starts, r \in Roles : Holds(t, r) => Holds(t, r)'
    BY <1>1, ReportersKept
  <1>3. Types'
    BY <1>1, <1>2, Numbers
    DEF Inv, Types, StartPlaces, Calm
  <1>4. UnstartedHasNothing'
    BY <1>1, <1>2, Numbers
    DEF Inv, UnstartedHasNothing, Types, Calm
  <1>5. ReportersAreHeld'
    BY <1>1, <1>2, Numbers
    DEF Inv, ReportersAreHeld, Types, InStartup, Tracked, NoWorker, Roles, Calm
  <1>6. StopMissesNoStore'
    BY <1>1, <1>2, Numbers
    DEF Inv, StopMissesNoStore, Types, Calm
  <1>7. ResourcesHaveOneHolder'
    BY <1>1, <1>2, Numbers
    DEF Inv, ResourcesHaveOneHolder, Types, InStart, InSlot, InMain, InMonitor, InCleanup, Calm,
        BeforeCapture
  <1>8. WhatRunsIsHeld'
    BY <1>1, <1>2, Numbers
    DEF Inv, WhatRunsIsHeld, Types, ResourcesHaveOneHolder, Fault, InStart, InSlot, InMain,
        InMonitor, InCleanup, Calm, BeforeCapture
  <1>9. CleanupIsAwaited'
    BY <1>1, <1>2, Numbers
    DEF Inv, CleanupIsAwaited, Types, ResourcesHaveOneHolder, Tracked, NoWorker, Roles, InStart,
        InSlot, InMain, InMonitor, InCleanup, Calm, BeforeCapture
  <1>10. LeasesAreOwned'
    BY <1>1, <1>2, Numbers
    DEF Inv, LeasesAreOwned, Types, WithLease, Calm
  <1> QED
    BY <1>1, <1>2, <1>3, <1>4, <1>5, <1>6, <1>7, <1>8, <1>9, <1>10 DEF Inv

LEMMA SpawnMonitorFailsStep ==
  ASSUME Inv, NEW s \in Starts, SpawnMonitorFails(s)
  PROVE  Inv'
  <1>1. CASE At(s, "spawnMonitor")
    <2>1. /\ Theory!Inv' /\ Calm
          /\ start[s] = "spawnMonitor"
          /\ start' = [start EXCEPT ![s] = "abandon"]
          /\ active = s => s \in cancelled'
          /\ UNCHANGED <<env, slot, control, leases, result, worker, capture, forwarder,
                         transcription, cleanup, stopResult, monitor, failureCleanup, main, stops>>
      BY <1>1, FailEffect, Numbers
      DEF Inv, SpawnMonitorFails, At, Goto, NoSession, supVars, sharedVars, startVars, threadVars,
          cleanupVars, monitorVars, mainVars
    <2>2. /\ NumbersAreDistinct'
          /\ \A t \in Starts, r \in Roles : Holds(t, r) => Holds(t, r)'
      BY <2>1, ReportersKept
    <2>3. Types'
      BY <2>1, <2>2, Numbers
      DEF Inv, Types, StartPlaces, Calm
    <2>4. UnstartedHasNothing'
      BY <2>1, <2>2, Numbers
      DEF Inv, UnstartedHasNothing, Types, Calm
    <2>5. ReportersAreHeld'
      BY <2>1, <2>2, Numbers
      DEF Inv, ReportersAreHeld, Types, InStartup, Tracked, NoWorker, Roles, Calm
    <2>6. StopMissesNoStore'
      BY <2>1, <2>2, Numbers
      DEF Inv, StopMissesNoStore, Types, Calm
    <2>7. ResourcesHaveOneHolder'
      BY <2>1, <2>2, Numbers
      DEF Inv, ResourcesHaveOneHolder, Types, InStart, InSlot, InMain, InMonitor, InCleanup, Calm,
          BeforeCapture
    <2>8. WhatRunsIsHeld'
      BY <2>1, <2>2, Numbers
      DEF Inv, WhatRunsIsHeld, Types, ResourcesHaveOneHolder, Fault, InStart, InSlot, InMain,
          InMonitor, InCleanup, Calm, BeforeCapture
    <2>9. CleanupIsAwaited'
      BY <2>1, <2>2, Numbers
      DEF Inv, CleanupIsAwaited, Types, ResourcesHaveOneHolder, Tracked, NoWorker, Roles, InStart,
          InSlot, InMain, InMonitor, InCleanup, Calm, BeforeCapture
    <2>10. LeasesAreOwned'
      BY <2>1, <2>2, Numbers
      DEF Inv, LeasesAreOwned, Types, WithLease, Calm
    <2> QED
      BY <2>1, <2>2, <2>3, <2>4, <2>5, <2>6, <2>7, <2>8, <2>9, <2>10 DEF Inv
  <1>2. CASE At(s, "abandon")
    <2>1. /\ Theory!Inv' /\ (Calm \/ Finishes(s))
          /\ start[s] = "abandon"
          /\ start' = [start EXCEPT ![s] = "done"]
          /\ result' = [result EXCEPT ![s] = "error"]
          /\ UNCHANGED <<env, slot, control, leases, worker, capture, forwarder, transcription,
                         cleanup, stopResult, monitor, failureCleanup, main, stops>>
      BY <1>2, FinishEffect
      DEF Inv, SpawnMonitorFails, At, Return, FinishWithoutResources, supVars, sharedVars,
          startVars, threadVars, cleanupVars, monitorVars, mainVars
    <2>2. /\ NumbersAreDistinct'
          /\ \A t \in Starts, r \in Roles : Holds(t, r) => Holds(t, r)'
      BY <2>1, ReportersKept
    <2>3. Types'
      BY <2>1, <2>2, Numbers
      DEF Inv, Types, StartPlaces, Calm, Finishes
    <2>4. UnstartedHasNothing'
      BY <2>1, <2>2, Numbers
      DEF Inv, UnstartedHasNothing, Types, Calm, Finishes
    <2>5. ReportersAreHeld'
      BY <2>1, <2>2, Numbers
      DEF Inv, ReportersAreHeld, Types, InStartup, Tracked, NoWorker, Roles, Calm, Finishes
    <2>6. StopMissesNoStore'
      BY <2>1, <2>2, Numbers
      DEF Inv, StopMissesNoStore, Types, Calm, Finishes
    <2>7. ResourcesHaveOneHolder'
      BY <2>1, <2>2, Numbers
      DEF Inv, ResourcesHaveOneHolder, Types, InStart, InSlot, InMain, InMonitor, InCleanup, Calm,
          Finishes, BeforeCapture
    <2>8. WhatRunsIsHeld'
      BY <2>1, <2>2, Numbers
      DEF Inv, WhatRunsIsHeld, Types, ResourcesHaveOneHolder, Fault, InStart, InSlot, InMain,
          InMonitor, InCleanup, Calm, Finishes, BeforeCapture
    <2>9. CleanupIsAwaited'
      BY <2>1, <2>2, Numbers
      DEF Inv, CleanupIsAwaited, Types, ResourcesHaveOneHolder, Tracked, NoWorker, Roles, InStart,
          InSlot, InMain, InMonitor, InCleanup, Calm, Finishes, BeforeCapture
    <2>10. LeasesAreOwned'
      BY <2>1, <2>2, Numbers
      DEF Inv, LeasesAreOwned, Types, WithLease, Calm, Finishes
    <2> QED
      BY <2>1, <2>2, <2>3, <2>4, <2>5, <2>6, <2>7, <2>8, <2>9, <2>10 DEF Inv
  <1> QED
    BY <1>1, <1>2 DEF SpawnMonitorFails

LEMMA RegisterStartupStep ==
  ASSUME Inv, NEW s \in Starts, RegisterStartup(s)
  PROVE  Inv'
  <1>1. CASE IsActive(s)
    <2>1. /\ Theory!Inv' /\ Registers(s, "startup")
          /\ start[s] = "register"
          /\ start' = [start EXCEPT ![s] = "progress"]
          /\ UNCHANGED <<env, slot, control, leases, result, capture, forwarder, transcription,
                         cleanup, stopResult, monitor, failureCleanup, main, stops>>
      BY <1>1, RegisterEffect
      DEF Inv, RegisterStartup, At, Goto, Roles, supVars, sharedVars, startVars, threadVars,
          cleanupVars, monitorVars, mainVars
    <2>2. /\ NumbersAreDistinct'
          /\ worker' \in [Starts -> [Roles -> 0..MaxWorker]]
          /\ worker'[s]["startup"] # NoWorker
          /\ \A t \in Starts, r \in Roles :
               ~(t = s /\ r = "startup") => worker'[t][r] = worker[t][r]
          /\ Holds(s, "startup")'
          /\ \A t \in Starts, r \in Roles :
               Holds(t, r) /\ ~(t = s /\ r = "startup") => Holds(t, r)'
      BY <2>1, ReportersRegistered DEF Roles
    <2>3. Types'
      BY <2>1, <2>2, Numbers
      DEF Inv, Types, StartPlaces, Registers
    <2>4. UnstartedHasNothing'
      BY <2>1, <2>2, Numbers
      DEF Inv, UnstartedHasNothing, Types, Registers
    <2>5. ReportersAreHeld'
      BY <2>1, <2>2, Numbers
      DEF Inv, ReportersAreHeld, Types, InStartup, Tracked, NoWorker, Roles, Registers
    <2>6. StopMissesNoStore'
      BY <2>1, <2>2, Numbers
      DEF Inv, StopMissesNoStore, Types, Registers
    <2>7. ResourcesHaveOneHolder'
      BY <2>1, <2>2, Numbers
      DEF Inv, ResourcesHaveOneHolder, Types, InStart, InSlot, InMain, InMonitor, InCleanup,
          Registers, BeforeCapture
    <2>8. WhatRunsIsHeld'
      BY <2>1, <2>2, Numbers
      DEF Inv, WhatRunsIsHeld, Types, ResourcesHaveOneHolder, Fault, InStart, InSlot, InMain,
          InMonitor, InCleanup, Registers, BeforeCapture
    <2>9. CleanupIsAwaited'
      BY <2>1, <2>2, Numbers
      DEF Inv, CleanupIsAwaited, Types, ResourcesHaveOneHolder, Tracked, NoWorker, Roles, InStart,
          InSlot, InMain, InMonitor, InCleanup, Registers, BeforeCapture
    <2>10. LeasesAreOwned'
      BY <2>1, <2>2, Numbers
      DEF Inv, LeasesAreOwned, Types, WithLease, Registers
    <2> QED
      BY <2>1, <2>2, <2>3, <2>4, <2>5, <2>6, <2>7, <2>8, <2>9, <2>10 DEF Inv
  <1>2. CASE ~IsActive(s)
    <2>1. /\ Theory!Inv' /\ Calm
          /\ start[s] = "register"
          /\ start' = [start EXCEPT ![s] = "done"]
          /\ result' = [result EXCEPT ![s] = "error"]
          /\ UNCHANGED <<env, slot, control, leases, worker, capture, forwarder, transcription,
                         cleanup, stopResult, monitor, failureCleanup, main, stops>>
      BY <1>2, StutterEffect
      DEF Inv, RegisterStartup, At, Return, supVars, sharedVars, startVars, threadVars,
          cleanupVars, monitorVars, mainVars
    <2> QED
      BY <2>1, StartMoves
      DEF Inv, Types, StartPlaces, InStartup, InStart, BeforeCapture, WithLease
  <1> QED
    BY <1>1, <1>2

LEMMA UpdateProgressStep ==
  ASSUME Inv, NEW s \in Starts, UpdateProgress(s)
  PROVE  Inv'
  <1>1. CASE At(s, "progress")
    <2>1. /\ Theory!Inv' /\ Calm
          /\ start[s] = "progress"
          /\ start' = [start EXCEPT ![s] = "prepare"]
          /\ UNCHANGED <<env, slot, control, leases, result, worker, capture, forwarder,
                         transcription, cleanup, stopResult, monitor, failureCleanup, main, stops>>
      BY <1>1, StutterEffect, PublicationEffect
      DEF Inv, UpdateProgress, At, Goto, Try, supVars, sharedVars, startVars, threadVars,
          cleanupVars, monitorVars, mainVars
    <2> QED
      BY <2>1, StartMoves
      DEF Inv, Types, StartPlaces, InStartup, InStart, BeforeCapture, WithLease
  <1>2. CASE At(s, "progressCapture")
    <2>1. /\ Theory!Inv' /\ Calm
          /\ start[s] = "progressCapture"
          /\ start' = [start EXCEPT ![s] = "capture"]
          /\ UNCHANGED <<env, slot, control, leases, result, worker, capture, forwarder,
                         transcription, cleanup, stopResult, monitor, failureCleanup, main, stops>>
      BY <1>2, StutterEffect, PublicationEffect
      DEF Inv, UpdateProgress, At, Goto, Try, supVars, sharedVars, startVars, threadVars,
          cleanupVars, monitorVars, mainVars
    <2> QED
      BY <2>1, StartMoves
      DEF Inv, Types, StartPlaces, InStartup, InStart, BeforeCapture, WithLease
  <1> QED
    BY <1>1, <1>2 DEF UpdateProgress

LEMMA PrepareFailsStep ==
  ASSUME Inv, NEW s \in Starts, PrepareFails(s)
  PROVE  Inv'
  <1>1. /\ Theory!Inv' /\ Reports(s, "startup")
        /\ start[s] \in {"progress", "prepare"}
        /\ start' = [start EXCEPT ![s] = "done"]
        /\ result' = [result EXCEPT ![s] = "error"]
        /\ UNCHANGED <<env, slot, control, leases, worker, capture, forwarder, transcription,
                       cleanup, stopResult, monitor, failureCleanup, main, stops>>
    BY ReportEffect
    DEF Inv, PrepareFails, At, Return, supVars, sharedVars, startVars, threadVars, cleanupVars,
        monitorVars, mainVars
  <1> QED
    BY <1>1, StartMoves
    DEF Inv, Types, StartPlaces, InStartup, InStart, BeforeCapture, WithLease

LEMMA PrepareStep ==
  ASSUME Inv, NEW s \in Starts, Prepare(s)
  PROVE  Inv'
  <1>1. /\ Theory!Inv' /\ Calm
        /\ start[s] = "prepare"
        /\ start' = [start EXCEPT ![s] = "prepared"]
        /\ UNCHANGED <<env, slot, control, leases, result, worker, capture, forwarder,
                       transcription, cleanup, stopResult, monitor, failureCleanup, main, stops>>
    BY StutterEffect
    DEF Inv, Prepare, At, Goto, supVars, sharedVars, startVars, threadVars, cleanupVars,
        monitorVars, mainVars
  <1> QED
    BY <1>1, StartMoves
    DEF Inv, Types, StartPlaces, InStartup, InStart, BeforeCapture, WithLease

LEMMA CheckCancelledStep ==
  ASSUME Inv, NEW s \in Starts, CheckCancelled(s)
  PROVE  Inv'
  <1>1. CASE s \in cancelled
    <2>1. /\ Theory!Inv' /\ Reports(s, "startup")
          /\ start[s] = "prepared"
          /\ start' = [start EXCEPT ![s] = "done"]
          /\ result' = [result EXCEPT ![s] = "cancelled"]
          /\ UNCHANGED <<env, slot, control, leases, worker, capture, forwarder, transcription,
                         cleanup, stopResult, monitor, failureCleanup, main, stops>>
      BY <1>1, ReportEffect
      DEF Inv, CheckCancelled, At, Return, supVars, sharedVars, startVars, threadVars,
          cleanupVars, monitorVars, mainVars
    <2> QED
      BY <2>1, StartMoves
      DEF Inv, Types, StartPlaces, InStartup, InStart, BeforeCapture, WithLease
  <1>2. CASE s \notin cancelled
    <2>1. /\ Theory!Inv' /\ Calm
          /\ start[s] = "prepared"
          /\ start' = [start EXCEPT ![s] = "acquire"]
          /\ UNCHANGED <<env, slot, control, leases, result, worker, capture, forwarder,
                         transcription, cleanup, stopResult, monitor, failureCleanup, main, stops>>
      BY <1>2, StutterEffect
      DEF Inv, CheckCancelled, At, Goto, supVars, sharedVars, startVars, threadVars, cleanupVars,
          monitorVars, mainVars
    <2> QED
      BY <2>1, StartMoves
      DEF Inv, Types, StartPlaces, InStartup, InStart, BeforeCapture, WithLease
  <1> QED
    BY <1>1, <1>2

LEMMA AcquireSpeechStep ==
  ASSUME Inv, NEW s \in Starts, AcquireSpeech(s)
  PROVE  Inv'
  <1>1. CASE leases \subseteq {s}
    <2>1. /\ Theory!Inv' /\ Calm
          /\ start[s] = "acquire"
          /\ start' = [start EXCEPT ![s] = "progressCapture"]
          /\ leases' = leases \cup {s}
          /\ UNCHANGED <<env, slot, control, result, worker, capture, forwarder, transcription,
                         cleanup, stopResult, monitor, failureCleanup, main, stops>>
      BY <1>1, StutterEffect
      DEF Inv, AcquireSpeech, At, Goto, supVars, sharedVars, startVars, threadVars, cleanupVars,
          monitorVars, mainVars
    <2>2. /\ NumbersAreDistinct'
          /\ \A t \in Starts, r \in Roles : Holds(t, r) => Holds(t, r)'
      BY <2>1, ReportersKept
    <2>3. Types'
      BY <2>1, <2>2, Numbers
      DEF Inv, Types, StartPlaces, Calm
    <2>4. UnstartedHasNothing'
      BY <2>1, <2>2, Numbers
      DEF Inv, UnstartedHasNothing, Types, Calm
    <2>5. ReportersAreHeld'
      BY <2>1, <2>2, Numbers
      DEF Inv, ReportersAreHeld, Types, InStartup, Tracked, NoWorker, Roles, Calm
    <2>6. StopMissesNoStore'
      BY <2>1, <2>2, Numbers
      DEF Inv, StopMissesNoStore, Types, Calm
    <2>7. ResourcesHaveOneHolder'
      BY <2>1, <2>2, Numbers
      DEF Inv, ResourcesHaveOneHolder, Types, InStart, InSlot, InMain, InMonitor, InCleanup, Calm,
          BeforeCapture
    <2>8. WhatRunsIsHeld'
      BY <2>1, <2>2, Numbers
      DEF Inv, WhatRunsIsHeld, Types, ResourcesHaveOneHolder, Fault, InStart, InSlot, InMain,
          InMonitor, InCleanup, Calm, BeforeCapture
    <2>9. CleanupIsAwaited'
      BY <2>1, <2>2, Numbers
      DEF Inv, CleanupIsAwaited, Types, ResourcesHaveOneHolder, Tracked, NoWorker, Roles, InStart,
          InSlot, InMain, InMonitor, InCleanup, Calm, BeforeCapture
    <2>10. LeasesAreOwned'
      BY <2>1, <2>2, Numbers
      DEF Inv, LeasesAreOwned, Types, WithLease, Calm
    <2> QED
      BY <2>1, <2>2, <2>3, <2>4, <2>5, <2>6, <2>7, <2>8, <2>9, <2>10 DEF Inv
  <1>2. CASE ~(leases \subseteq {s})
    <2>1. /\ Theory!Inv' /\ Reports(s, "startup")
          /\ start[s] = "acquire"
          /\ start' = [start EXCEPT ![s] = "done"]
          /\ result' = [result EXCEPT ![s] = "error"]
          /\ UNCHANGED <<env, slot, control, leases, worker, capture, forwarder, transcription,
                         cleanup, stopResult, monitor, failureCleanup, main, stops>>
      BY <1>2, ReportEffect
      DEF Inv, AcquireSpeech, At, Return, supVars, sharedVars, startVars, threadVars, cleanupVars,
          monitorVars, mainVars
    <2> QED
      BY <2>1, StartMoves
      DEF Inv, Types, StartPlaces, InStartup, InStart, BeforeCapture, WithLease
  <1> QED
    BY <1>1, <1>2

LEMMA BackendStartStep ==
  ASSUME Inv, NEW s \in Starts, BackendStart(s)
  PROVE  Inv'
  <1>1. CASE /\ capture' = [capture EXCEPT ![s] = "live"]
            /\ Goto(s, "transcription")
            /\ UNCHANGED supVars
    <2>1. /\ Theory!Inv' /\ Calm
          /\ start[s] = "capture"
          /\ start' = [start EXCEPT ![s] = "transcription"]
          /\ capture' = [capture EXCEPT ![s] = "live"]
          /\ UNCHANGED <<env, slot, control, leases, result, worker, forwarder, transcription,
                         cleanup, stopResult, monitor, failureCleanup, main, stops>>
      BY <1>1, StutterEffect
      DEF Inv, BackendStart, At, Goto, supVars, sharedVars, startVars, threadVars, cleanupVars,
          monitorVars, mainVars
    <2>2. /\ NumbersAreDistinct'
          /\ \A t \in Starts, r \in Roles : Holds(t, r) => Holds(t, r)'
      BY <2>1, ReportersKept
    <2>3. Types'
      BY <2>1, <2>2, Numbers
      DEF Inv, Types, StartPlaces, Calm
    <2>4. UnstartedHasNothing'
      BY <2>1, <2>2, Numbers
      DEF Inv, UnstartedHasNothing, Types, Calm
    <2>5. ReportersAreHeld'
      BY <2>1, <2>2, Numbers
      DEF Inv, ReportersAreHeld, Types, ResourcesHaveOneHolder, InStartup, Tracked, NoWorker,
          Roles, Calm, InStart, InSlot, InMain, InMonitor, InCleanup, BeforeCapture
    <2>6. StopMissesNoStore'
      BY <2>1, <2>2, Numbers
      DEF Inv, StopMissesNoStore, Types, Calm
    <2>7. ResourcesHaveOneHolder'
      BY <2>1, <2>2, Numbers
      DEF Inv, ResourcesHaveOneHolder, Types, InStart, InSlot, InMain, InMonitor, InCleanup, Calm,
          BeforeCapture
    <2>8. WhatRunsIsHeld'
      BY <2>1, <2>2, Numbers
      DEF Inv, WhatRunsIsHeld, Types, ResourcesHaveOneHolder, Fault, InStart, InSlot, InMain,
          InMonitor, InCleanup, Calm, BeforeCapture
    <2>9. CleanupIsAwaited'
      BY <2>1, <2>2, Numbers
      DEF Inv, CleanupIsAwaited, Types, ResourcesHaveOneHolder, Tracked, NoWorker, Roles, InStart,
          InSlot, InMain, InMonitor, InCleanup, Calm, BeforeCapture
    <2>10. LeasesAreOwned'
      BY <2>1, <2>2, Numbers
      DEF Inv, LeasesAreOwned, Types, WithLease, Calm
    <2> QED
      BY <2>1, <2>2, <2>3, <2>4, <2>5, <2>6, <2>7, <2>8, <2>9, <2>10 DEF Inv
  <1>2. CASE /\ Report(s, "startup", "Failed")
            /\ Goto(s, "dropLease")
            /\ UNCHANGED capture
    <2>1. /\ Theory!Inv' /\ Reports(s, "startup")
          /\ start[s] = "capture"
          /\ start' = [start EXCEPT ![s] = "dropLease"]
          /\ UNCHANGED <<env, slot, control, leases, result, worker, capture, forwarder,
                         transcription, cleanup, stopResult, monitor, failureCleanup, main, stops>>
      BY <1>2, ReportEffect
      DEF Inv, BackendStart, At, Goto, supVars, sharedVars, startVars, threadVars, cleanupVars,
          monitorVars, mainVars
    <2> QED
      BY <2>1, StartMoves
      DEF Inv, Types, StartPlaces, InStartup, InStart, BeforeCapture, WithLease
  <1> QED
    BY <1>1, <1>2 DEF BackendStart

LEMMA DropLeaseStep ==
  ASSUME Inv, NEW s \in Starts, DropLease(s)
  PROVE  Inv'
  <1>1. /\ Theory!Inv' /\ Calm
        /\ start[s] = "dropLease"
        /\ start' = [start EXCEPT ![s] = "done"]
        /\ result' = [result EXCEPT ![s] = "error"]
        /\ leases' = leases \ {s}
        /\ UNCHANGED <<env, slot, control, worker, capture, forwarder, transcription, cleanup,
                       stopResult, monitor, failureCleanup, main, stops>>
    BY StutterEffect
    DEF Inv, DropLease, At, Return, supVars, sharedVars, startVars, threadVars, cleanupVars,
        monitorVars, mainVars
  <1>2. /\ NumbersAreDistinct'
        /\ \A t \in Starts, r \in Roles : Holds(t, r) => Holds(t, r)'
    BY <1>1, ReportersKept
  <1>3. Types'
    BY <1>1, <1>2, Numbers
    DEF Inv, Types, StartPlaces, Calm
  <1>4. UnstartedHasNothing'
    BY <1>1, <1>2, Numbers
    DEF Inv, UnstartedHasNothing, Types, Calm
  <1>5. ReportersAreHeld'
    BY <1>1, <1>2, Numbers
    DEF Inv, ReportersAreHeld, Types, InStartup, Tracked, NoWorker, Roles, Calm
  <1>6. StopMissesNoStore'
    BY <1>1, <1>2, Numbers
    DEF Inv, StopMissesNoStore, Types, Calm
  <1>7. ResourcesHaveOneHolder'
    BY <1>1, <1>2, Numbers
    DEF Inv, ResourcesHaveOneHolder, Types, InStart, InSlot, InMain, InMonitor, InCleanup, Calm,
        BeforeCapture
  <1>8. WhatRunsIsHeld'
    BY <1>1, <1>2, Numbers
    DEF Inv, WhatRunsIsHeld, Types, ResourcesHaveOneHolder, Fault, InStart, InSlot, InMain,
        InMonitor, InCleanup, Calm, BeforeCapture
  <1>9. CleanupIsAwaited'
    BY <1>1, <1>2, Numbers
    DEF Inv, CleanupIsAwaited, Types, ResourcesHaveOneHolder, Tracked, NoWorker, Roles, InStart,
        InSlot, InMain, InMonitor, InCleanup, Calm, BeforeCapture
  <1>10. LeasesAreOwned'
    BY <1>1, <1>2, Numbers
    DEF Inv, LeasesAreOwned, Types, WithLease, Calm
  <1> QED
    BY <1>1, <1>2, <1>3, <1>4, <1>5, <1>6, <1>7, <1>8, <1>9, <1>10 DEF Inv

LEMMA RegisterTranscriptionStep ==
  ASSUME Inv, NEW s \in Starts, RegisterTranscription(s)
  PROVE  Inv'
  <1>1. /\ Theory!Inv' /\ Registers(s, "transcription")
        /\ start[s] = "transcription"
        /\ start' = [start EXCEPT ![s] = "spawnTranscription"]
        /\ UNCHANGED <<env, slot, control, leases, result, capture, forwarder, transcription,
                       cleanup, stopResult, monitor, failureCleanup, main, stops>>
    BY RegisterEffect
    DEF Inv, RegisterTranscription, At, Goto, Roles, supVars, sharedVars, startVars, threadVars,
        cleanupVars, monitorVars, mainVars
  <1>2. /\ NumbersAreDistinct'
        /\ worker' \in [Starts -> [Roles -> 0..MaxWorker]]
        /\ worker'[s]["transcription"] # NoWorker
        /\ \A t \in Starts, r \in Roles :
             ~(t = s /\ r = "transcription") => worker'[t][r] = worker[t][r]
        /\ Holds(s, "transcription")'
        /\ \A t \in Starts, r \in Roles :
             Holds(t, r) /\ ~(t = s /\ r = "transcription") => Holds(t, r)'
    BY <1>1, ReportersRegistered DEF Roles
  <1>3. Types'
    BY <1>1, <1>2, Numbers
    DEF Inv, Types, StartPlaces, Registers
  <1>4. UnstartedHasNothing'
    BY <1>1, <1>2, Numbers
    DEF Inv, UnstartedHasNothing, Types, Registers
  <1>5. ReportersAreHeld'
    BY <1>1, <1>2, Numbers
    DEF Inv, ReportersAreHeld, Types, InStartup, Tracked, NoWorker, Roles, Registers
  <1>6. StopMissesNoStore'
    BY <1>1, <1>2, Numbers
    DEF Inv, StopMissesNoStore, Types, Registers
  <1>7. ResourcesHaveOneHolder'
    BY <1>1, <1>2, Numbers
    DEF Inv, ResourcesHaveOneHolder, Types, InStart, InSlot, InMain, InMonitor, InCleanup,
        Registers, BeforeCapture
  <1>8. WhatRunsIsHeld'
    BY <1>1, <1>2, Numbers
    DEF Inv, WhatRunsIsHeld, Types, ResourcesHaveOneHolder, Fault, InStart, InSlot, InMain,
        InMonitor, InCleanup, Registers, BeforeCapture
  <1>9. CleanupIsAwaited'
    BY <1>1, <1>2, Numbers
    DEF Inv, CleanupIsAwaited, Types, ResourcesHaveOneHolder, Tracked, NoWorker, Roles, InStart,
        InSlot, InMain, InMonitor, InCleanup, Registers, BeforeCapture
  <1>10. LeasesAreOwned'
    BY <1>1, <1>2, Numbers
    DEF Inv, LeasesAreOwned, Types, WithLease, Registers
  <1> QED
    BY <1>1, <1>2, <1>3, <1>4, <1>5, <1>6, <1>7, <1>8, <1>9, <1>10 DEF Inv

LEMMA SpawnTranscriptionStep ==
  ASSUME Inv, NEW s \in Starts, SpawnTranscription(s)
  PROVE  Inv'
  <1>1. CASE /\ transcription' = [transcription EXCEPT ![s] = "run"]
            /\ Goto(s, "forwarder")
            /\ UNCHANGED <<supVars, leases>>
    <2>1. /\ Theory!Inv' /\ Calm
          /\ start[s] = "spawnTranscription"
          /\ start' = [start EXCEPT ![s] = "forwarder"]
          /\ transcription' = [transcription EXCEPT ![s] = "run"]
          /\ UNCHANGED <<env, slot, control, leases, result, worker, capture, forwarder, cleanup,
                         stopResult, monitor, failureCleanup, main, stops>>
      BY <1>1, StutterEffect
      DEF Inv, SpawnTranscription, At, Goto, supVars, sharedVars, startVars, threadVars,
          cleanupVars, monitorVars, mainVars
    <2>2. /\ NumbersAreDistinct'
          /\ \A t \in Starts, r \in Roles : Holds(t, r) => Holds(t, r)'
      BY <2>1, ReportersKept
    <2>3. Types'
      BY <2>1, <2>2, Numbers
      DEF Inv, Types, StartPlaces, Calm
    <2>4. UnstartedHasNothing'
      BY <2>1, <2>2, Numbers
      DEF Inv, UnstartedHasNothing, Types, Calm
    <2>5. ReportersAreHeld'
      BY <2>1, <2>2, Numbers
      DEF Inv, ReportersAreHeld, Types, InStartup, Tracked, NoWorker, Roles, Calm
    <2>6. StopMissesNoStore'
      BY <2>1, <2>2, Numbers
      DEF Inv, StopMissesNoStore, Types, Calm
    <2>7. ResourcesHaveOneHolder'
      BY <2>1, <2>2, Numbers
      DEF Inv, ResourcesHaveOneHolder, Types, InStart, InSlot, InMain, InMonitor, InCleanup, Calm,
          BeforeCapture
    <2>8. WhatRunsIsHeld'
      BY <2>1, <2>2, Numbers
      DEF Inv, WhatRunsIsHeld, Types, ResourcesHaveOneHolder, Fault, InStart, InSlot, InMain,
          InMonitor, InCleanup, Calm, BeforeCapture
    <2>9. CleanupIsAwaited'
      BY <2>1, <2>2, Numbers
      DEF Inv, CleanupIsAwaited, Types, ResourcesHaveOneHolder, Tracked, NoWorker, Roles, InStart,
          InSlot, InMain, InMonitor, InCleanup, Calm, BeforeCapture
    <2>10. LeasesAreOwned'
      BY <2>1, <2>2, Numbers
      DEF Inv, LeasesAreOwned, Types, WithLease, Calm
    <2> QED
      BY <2>1, <2>2, <2>3, <2>4, <2>5, <2>6, <2>7, <2>8, <2>9, <2>10 DEF Inv
  <1>2. CASE /\ Report(s, "transcription", "Exited")
            /\ leases' = leases \ {s}
            /\ Goto(s, "giveUp")
            /\ UNCHANGED transcription
    <2>1. /\ Theory!Inv' /\ Reports(s, "transcription")
          /\ start[s] = "spawnTranscription"
          /\ start' = [start EXCEPT ![s] = "giveUp"]
          /\ leases' = leases \ {s}
          /\ UNCHANGED <<env, slot, control, result, worker, capture, forwarder, transcription,
                         cleanup, stopResult, monitor, failureCleanup, main, stops>>
      BY <1>2, ReportEffect
      DEF Inv, SpawnTranscription, At, Goto, supVars, sharedVars, startVars, threadVars,
          cleanupVars, monitorVars, mainVars
    <2>2. /\ NumbersAreDistinct'
          /\ \A t \in Starts, r \in Roles : Holds(t, r) /\ ~(t = s /\ r = "transcription") => Holds(t, r)'
      BY <2>1, ReportersReported DEF Roles
    <2>3. Types'
      BY <2>1, <2>2, Numbers
      DEF Inv, Types, StartPlaces, Reports
    <2>4. UnstartedHasNothing'
      BY <2>1, <2>2, Numbers
      DEF Inv, UnstartedHasNothing, Types, Reports
    <2>5. ReportersAreHeld'
      BY <2>1, <2>2, Numbers
      DEF Inv, ReportersAreHeld, Types, InStartup, Tracked, NoWorker, Roles, Reports
    <2>6. StopMissesNoStore'
      BY <2>1, <2>2, Numbers
      DEF Inv, StopMissesNoStore, Types, Reports
    <2>7. ResourcesHaveOneHolder'
      BY <2>1, <2>2, Numbers
      DEF Inv, ResourcesHaveOneHolder, Types, InStart, InSlot, InMain, InMonitor, InCleanup,
          Reports, BeforeCapture
    <2>8. WhatRunsIsHeld'
      BY <2>1, <2>2, Numbers
      DEF Inv, WhatRunsIsHeld, Types, ResourcesHaveOneHolder, Fault, InStart, InSlot, InMain,
          InMonitor, InCleanup, Reports, BeforeCapture
    <2>9. CleanupIsAwaited'
      BY <2>1, <2>2, Numbers
      DEF Inv, CleanupIsAwaited, Types, ResourcesHaveOneHolder, Tracked, NoWorker, Roles, InStart,
          InSlot, InMain, InMonitor, InCleanup, Reports, BeforeCapture
    <2>10. LeasesAreOwned'
      BY <2>1, <2>2, Numbers
      DEF Inv, LeasesAreOwned, Types, WithLease, Reports
    <2> QED
      BY <2>1, <2>2, <2>3, <2>4, <2>5, <2>6, <2>7, <2>8, <2>9, <2>10 DEF Inv
  <1> QED
    BY <1>1, <1>2 DEF SpawnTranscription

LEMMA RegisterForwarderStep ==
  ASSUME Inv, NEW s \in Starts, RegisterForwarder(s)
  PROVE  Inv'
  <1>1. /\ Theory!Inv' /\ Registers(s, "forwarder")
        /\ start[s] = "forwarder"
        /\ start' = [start EXCEPT ![s] = "spawnForwarder"]
        /\ UNCHANGED <<env, slot, control, leases, result, capture, forwarder, transcription,
                       cleanup, stopResult, monitor, failureCleanup, main, stops>>
    BY RegisterEffect
    DEF Inv, RegisterForwarder, At, Goto, Roles, supVars, sharedVars, startVars, threadVars,
        cleanupVars, monitorVars, mainVars
  <1>2. /\ NumbersAreDistinct'
        /\ worker' \in [Starts -> [Roles -> 0..MaxWorker]]
        /\ worker'[s]["forwarder"] # NoWorker
        /\ \A t \in Starts, r \in Roles :
             ~(t = s /\ r = "forwarder") => worker'[t][r] = worker[t][r]
        /\ Holds(s, "forwarder")'
        /\ \A t \in Starts, r \in Roles :
             Holds(t, r) /\ ~(t = s /\ r = "forwarder") => Holds(t, r)'
    BY <1>1, ReportersRegistered DEF Roles
  <1>3. Types'
    BY <1>1, <1>2, Numbers
    DEF Inv, Types, StartPlaces, Registers
  <1>4. UnstartedHasNothing'
    BY <1>1, <1>2, Numbers
    DEF Inv, UnstartedHasNothing, Types, Registers
  <1>5. ReportersAreHeld'
    BY <1>1, <1>2, Numbers
    DEF Inv, ReportersAreHeld, Types, InStartup, Tracked, NoWorker, Roles, Registers
  <1>6. StopMissesNoStore'
    BY <1>1, <1>2, Numbers
    DEF Inv, StopMissesNoStore, Types, Registers
  <1>7. ResourcesHaveOneHolder'
    BY <1>1, <1>2, Numbers
    DEF Inv, ResourcesHaveOneHolder, Types, InStart, InSlot, InMain, InMonitor, InCleanup,
        Registers, BeforeCapture
  <1>8. WhatRunsIsHeld'
    BY <1>1, <1>2, Numbers
    DEF Inv, WhatRunsIsHeld, Types, ResourcesHaveOneHolder, Fault, InStart, InSlot, InMain,
        InMonitor, InCleanup, Registers, BeforeCapture
  <1>9. CleanupIsAwaited'
    BY <1>1, <1>2, Numbers
    DEF Inv, CleanupIsAwaited, Types, ResourcesHaveOneHolder, Tracked, NoWorker, Roles, InStart,
        InSlot, InMain, InMonitor, InCleanup, Registers, BeforeCapture
  <1>10. LeasesAreOwned'
    BY <1>1, <1>2, Numbers
    DEF Inv, LeasesAreOwned, Types, WithLease, Registers
  <1> QED
    BY <1>1, <1>2, <1>3, <1>4, <1>5, <1>6, <1>7, <1>8, <1>9, <1>10 DEF Inv

LEMMA SpawnForwarderStep ==
  ASSUME Inv, NEW s \in Starts, SpawnForwarder(s)
  PROVE  Inv'
  <1>1. CASE /\ forwarder' = [forwarder EXCEPT ![s] = "loop"]
            /\ Goto(s, "admit")
            /\ UNCHANGED supVars
    <2>1. /\ Theory!Inv' /\ Calm
          /\ start[s] = "spawnForwarder"
          /\ start' = [start EXCEPT ![s] = "admit"]
          /\ forwarder' = [forwarder EXCEPT ![s] = "loop"]
          /\ UNCHANGED <<env, slot, control, leases, result, worker, capture, transcription,
                         cleanup, stopResult, monitor, failureCleanup, main, stops>>
      BY <1>1, StutterEffect
      DEF Inv, SpawnForwarder, At, Goto, supVars, sharedVars, startVars, threadVars, cleanupVars,
          monitorVars, mainVars
    <2>2. /\ NumbersAreDistinct'
          /\ \A t \in Starts, r \in Roles : Holds(t, r) => Holds(t, r)'
      BY <2>1, ReportersKept
    <2>3. Types'
      BY <2>1, <2>2, Numbers
      DEF Inv, Types, StartPlaces, Calm
    <2>4. UnstartedHasNothing'
      BY <2>1, <2>2, Numbers
      DEF Inv, UnstartedHasNothing, Types, Calm
    <2>5. ReportersAreHeld'
      BY <2>1, <2>2, Numbers
      DEF Inv, ReportersAreHeld, Types, InStartup, Tracked, NoWorker, Roles, Calm
    <2>6. StopMissesNoStore'
      BY <2>1, <2>2, Numbers
      DEF Inv, StopMissesNoStore, Types, Calm
    <2>7. ResourcesHaveOneHolder'
      BY <2>1, <2>2, Numbers
      DEF Inv, ResourcesHaveOneHolder, Types, InStart, InSlot, InMain, InMonitor, InCleanup, Calm,
          BeforeCapture
    <2>8. WhatRunsIsHeld'
      BY <2>1, <2>2, Numbers
      DEF Inv, WhatRunsIsHeld, Types, ResourcesHaveOneHolder, Fault, InStart, InSlot, InMain,
          InMonitor, InCleanup, Calm, BeforeCapture
    <2>9. CleanupIsAwaited'
      BY <2>1, <2>2, Numbers
      DEF Inv, CleanupIsAwaited, Types, ResourcesHaveOneHolder, Tracked, NoWorker, Roles, InStart,
          InSlot, InMain, InMonitor, InCleanup, Calm, BeforeCapture
    <2>10. LeasesAreOwned'
      BY <2>1, <2>2, Numbers
      DEF Inv, LeasesAreOwned, Types, WithLease, Calm
    <2> QED
      BY <2>1, <2>2, <2>3, <2>4, <2>5, <2>6, <2>7, <2>8, <2>9, <2>10 DEF Inv
  <1>2. CASE /\ Report(s, "forwarder", "Exited")
            /\ forwarder' = [forwarder EXCEPT ![s] = "ended"]
            /\ Goto(s, "giveUp")
    <2>1. /\ Theory!Inv' /\ Reports(s, "forwarder")
          /\ start[s] = "spawnForwarder"
          /\ start' = [start EXCEPT ![s] = "giveUp"]
          /\ forwarder' = [forwarder EXCEPT ![s] = "ended"]
          /\ UNCHANGED <<env, slot, control, leases, result, worker, capture, transcription,
                         cleanup, stopResult, monitor, failureCleanup, main, stops>>
      BY <1>2, ReportEffect
      DEF Inv, SpawnForwarder, At, Goto, supVars, sharedVars, startVars, threadVars, cleanupVars,
          monitorVars, mainVars
    <2>2. /\ NumbersAreDistinct'
          /\ \A t \in Starts, r \in Roles : Holds(t, r) /\ ~(t = s /\ r = "forwarder") => Holds(t, r)'
      BY <2>1, ReportersReported DEF Roles
    <2>3. Types'
      BY <2>1, <2>2, Numbers
      DEF Inv, Types, StartPlaces, Reports
    <2>4. UnstartedHasNothing'
      BY <2>1, <2>2, Numbers
      DEF Inv, UnstartedHasNothing, Types, Reports
    <2>5. ReportersAreHeld'
      BY <2>1, <2>2, Numbers
      DEF Inv, ReportersAreHeld, Types, InStartup, Tracked, NoWorker, Roles, Reports
    <2>6. StopMissesNoStore'
      BY <2>1, <2>2, Numbers
      DEF Inv, StopMissesNoStore, Types, Reports
    <2>7. ResourcesHaveOneHolder'
      BY <2>1, <2>2, Numbers
      DEF Inv, ResourcesHaveOneHolder, Types, InStart, InSlot, InMain, InMonitor, InCleanup,
          Reports, BeforeCapture
    <2>8. WhatRunsIsHeld'
      BY <2>1, <2>2, Numbers
      DEF Inv, WhatRunsIsHeld, Types, ResourcesHaveOneHolder, Fault, InStart, InSlot, InMain,
          InMonitor, InCleanup, Reports, BeforeCapture
    <2>9. CleanupIsAwaited'
      BY <2>1, <2>2, Numbers
      DEF Inv, CleanupIsAwaited, Types, ResourcesHaveOneHolder, Tracked, NoWorker, Roles, InStart,
          InSlot, InMain, InMonitor, InCleanup, Reports, BeforeCapture
    <2>10. LeasesAreOwned'
      BY <2>1, <2>2, Numbers
      DEF Inv, LeasesAreOwned, Types, WithLease, Reports
    <2> QED
      BY <2>1, <2>2, <2>3, <2>4, <2>5, <2>6, <2>7, <2>8, <2>9, <2>10 DEF Inv
  <1> QED
    BY <1>1, <1>2 DEF SpawnForwarder

LEMMA GiveUpStep ==
  ASSUME Inv, NEW s \in Starts, GiveUp(s)
  PROVE  Inv'
  <1>1. CASE At(s, "giveUp")
    <2>1. IsActive(s)
      BY <1>1, HolderIsActive
      DEF Inv, ReportersAreHeld, InStartup, At, IsActive, Sup!IsActive, NoSession, Sup!NoSession
    <2>2. /\ Theory!Inv' /\ Registers(s, "shutdown")
          /\ start[s] = "giveUp"
          /\ start' = [start EXCEPT ![s] = "failed"]
          /\ cleanup' = [cleanup EXCEPT ![s] = "spawn"]
          /\ UNCHANGED <<env, slot, control, leases, result, capture, forwarder, transcription,
                         stopResult, monitor, failureCleanup, main, stops>>
      BY <1>1, <2>1, RegisterEffect
      DEF Inv, GiveUp, ScheduleCleanup, At, Goto, Roles, supVars, sharedVars, startVars,
          threadVars, cleanupVars, monitorVars, mainVars
    <2>3. /\ NumbersAreDistinct'
          /\ worker' \in [Starts -> [Roles -> 0..MaxWorker]]
          /\ worker'[s]["shutdown"] # NoWorker
          /\ \A t \in Starts, r \in Roles :
               ~(t = s /\ r = "shutdown") => worker'[t][r] = worker[t][r]
          /\ Holds(s, "shutdown")'
          /\ \A t \in Starts, r \in Roles :
               Holds(t, r) /\ ~(t = s /\ r = "shutdown") => Holds(t, r)'
      BY <2>2, ReportersRegistered DEF Roles
    <2>4. Types'
      BY <2>2, <2>3, Numbers
      DEF Inv, Types, StartPlaces, Registers
    <2>5. UnstartedHasNothing'
      BY <2>2, <2>3, Numbers
      DEF Inv, UnstartedHasNothing, Types, Registers
    <2>6. ReportersAreHeld'
      BY <2>2, <2>3, Numbers
      DEF Inv, ReportersAreHeld, Types, InStartup, Tracked, NoWorker, Roles, Registers
    <2>7. StopMissesNoStore'
      BY <2>2, <2>3, Numbers
      DEF Inv, StopMissesNoStore, Types, Registers
    <2>8. ResourcesHaveOneHolder'
      BY <2>2, <2>3, Numbers
      DEF Inv, ResourcesHaveOneHolder, Types, InStart, InSlot, InMain, InMonitor, InCleanup,
          Registers, BeforeCapture
    <2>9. WhatRunsIsHeld'
      BY <2>2, <2>3, Numbers
      DEF Inv, WhatRunsIsHeld, Types, ResourcesHaveOneHolder, Fault, InStart, InSlot, InMain,
          InMonitor, InCleanup, Registers, BeforeCapture
    <2>10. CleanupIsAwaited'
      BY <2>2, <2>3, Numbers
      DEF Inv, CleanupIsAwaited, Types, ResourcesHaveOneHolder, Tracked, NoWorker, Roles, InStart,
          InSlot, InMain, InMonitor, InCleanup, Registers, BeforeCapture
    <2>11. LeasesAreOwned'
      BY <2>2, <2>3, Numbers
      DEF Inv, LeasesAreOwned, Types, WithLease, Registers
    <2> QED
      BY <2>2, <2>3, <2>4, <2>5, <2>6, <2>7, <2>8, <2>9, <2>10, <2>11 DEF Inv
  <1>2. CASE At(s, "failed")
    <2>1. /\ Theory!Inv' /\ Reports(s, "startup")
          /\ start[s] = "failed"
          /\ start' = [start EXCEPT ![s] = "done"]
          /\ result' = [result EXCEPT ![s] = "error"]
          /\ UNCHANGED <<env, slot, control, leases, worker, capture, forwarder, transcription,
                         cleanup, stopResult, monitor, failureCleanup, main, stops>>
      BY <1>2, ReportEffect
      DEF Inv, GiveUp, At, Return, supVars, sharedVars, startVars, threadVars, cleanupVars,
          monitorVars, mainVars
    <2> QED
      BY <2>1, StartMoves
      DEF Inv, Types, StartPlaces, InStartup, InStart, BeforeCapture, WithLease
  <1> QED
    BY <1>1, <1>2 DEF GiveUp

LEMMA WithdrawStep ==
  ASSUME Inv, NEW s \in Starts, Withdraw(s)
  PROVE  Inv'
  <1>1. CASE At(s, "withdraw")
    <2>1. IsActive(s)
      BY <1>1, HolderIsActive
      DEF Inv, ReportersAreHeld, InStartup, At, IsActive, Sup!IsActive, NoSession, Sup!NoSession
    <2>2. /\ Theory!Inv' /\ Registers(s, "shutdown")
          /\ start[s] = "withdraw"
          /\ start' = [start EXCEPT ![s] = "withdrawn"]
          /\ cleanup' = [cleanup EXCEPT ![s] = "spawn"]
          /\ UNCHANGED <<env, slot, control, leases, result, capture, forwarder, transcription,
                         stopResult, monitor, failureCleanup, main, stops>>
      BY <1>1, <2>1, RegisterEffect
      DEF Inv, Withdraw, ScheduleCleanup, At, Goto, Roles, supVars, sharedVars, startVars,
          threadVars, cleanupVars, monitorVars, mainVars
    <2>3. /\ NumbersAreDistinct'
          /\ worker' \in [Starts -> [Roles -> 0..MaxWorker]]
          /\ worker'[s]["shutdown"] # NoWorker
          /\ \A t \in Starts, r \in Roles :
               ~(t = s /\ r = "shutdown") => worker'[t][r] = worker[t][r]
          /\ Holds(s, "shutdown")'
          /\ \A t \in Starts, r \in Roles :
               Holds(t, r) /\ ~(t = s /\ r = "shutdown") => Holds(t, r)'
      BY <2>2, ReportersRegistered DEF Roles
    <2>4. Types'
      BY <2>2, <2>3, Numbers
      DEF Inv, Types, StartPlaces, Registers
    <2>5. UnstartedHasNothing'
      BY <2>2, <2>3, Numbers
      DEF Inv, UnstartedHasNothing, Types, Registers
    <2>6. ReportersAreHeld'
      BY <2>2, <2>3, Numbers
      DEF Inv, ReportersAreHeld, Types, InStartup, Tracked, NoWorker, Roles, Registers
    <2>7. StopMissesNoStore'
      BY <2>2, <2>3, Numbers
      DEF Inv, StopMissesNoStore, Types, Registers
    <2>8. ResourcesHaveOneHolder'
      BY <2>2, <2>3, Numbers
      DEF Inv, ResourcesHaveOneHolder, Types, InStart, InSlot, InMain, InMonitor, InCleanup,
          Registers, BeforeCapture
    <2>9. WhatRunsIsHeld'
      BY <2>2, <2>3, Numbers
      DEF Inv, WhatRunsIsHeld, Types, ResourcesHaveOneHolder, Fault, InStart, InSlot, InMain,
          InMonitor, InCleanup, Registers, BeforeCapture
    <2>10. CleanupIsAwaited'
      BY <2>2, <2>3, Numbers
      DEF Inv, CleanupIsAwaited, Types, ResourcesHaveOneHolder, Tracked, NoWorker, Roles, InStart,
          InSlot, InMain, InMonitor, InCleanup, Registers, BeforeCapture
    <2>11. LeasesAreOwned'
      BY <2>2, <2>3, Numbers
      DEF Inv, LeasesAreOwned, Types, WithLease, Registers
    <2> QED
      BY <2>2, <2>3, <2>4, <2>5, <2>6, <2>7, <2>8, <2>9, <2>10, <2>11 DEF Inv
  <1>2. CASE At(s, "withdrawn")
    <2>1. /\ Theory!Inv' /\ Reports(s, "startup")
          /\ start[s] = "withdrawn"
          /\ start' = [start EXCEPT ![s] = "done"]
          /\ result' = [result EXCEPT ![s] = "cancelled"]
          /\ UNCHANGED <<env, slot, control, leases, worker, capture, forwarder, transcription,
                         cleanup, stopResult, monitor, failureCleanup, main, stops>>
      BY <1>2, ReportEffect
      DEF Inv, Withdraw, At, Return, supVars, sharedVars, startVars, threadVars, cleanupVars,
          monitorVars, mainVars
    <2> QED
      BY <2>1, StartMoves
      DEF Inv, Types, StartPlaces, InStartup, InStart, BeforeCapture, WithLease
  <1> QED
    BY <1>1, <1>2 DEF Withdraw

LEMMA AdmitCheckStep ==
  ASSUME Inv, NEW s \in Starts, AdmitCheck(s)
  PROVE  Inv'
  <1>1. CASE s \in cancelled
    <2>1. /\ Theory!Inv' /\ Calm
          /\ start[s] = "admit"
          /\ start' = [start EXCEPT ![s] = "withdraw"]
          /\ UNCHANGED <<env, slot, control, leases, result, worker, capture, forwarder,
                         transcription, cleanup, stopResult, monitor, failureCleanup, main, stops>>
      BY <1>1, StutterEffect
      DEF Inv, AdmitCheck, At, Goto, supVars, sharedVars, startVars, threadVars, cleanupVars,
          monitorVars, mainVars
    <2> QED
      BY <2>1, StartMoves
      DEF Inv, Types, StartPlaces, InStartup, InStart, BeforeCapture, WithLease
  <1>2. CASE s \notin cancelled
    <2>1. start[s] = "admit" /\ active = s
      BY StartupIsActive DEF AdmitCheck, At, StartupHoldsTheSession, InStartup
    <2>2. cleanup[s] = "none"
      BY <2>1 DEF Inv, ResourcesHaveOneHolder, BeforeCapture, InStart, InCleanup
    <2>3. active = s /\ ~cleanupFinished
      BY <1>2, <2>1, <2>2 DEF Inv, CleanupIsAwaited
    <2>4. /\ Theory!Inv' /\ Calm
          /\ start[s] = "admit"
          /\ start' = [start EXCEPT ![s] = "put"]
          /\ control = Free
          /\ control' = "start"
          /\ active = s /\ ~cleanupFinished /\ s \notin cancelled
          /\ UNCHANGED <<env, slot, leases, result, worker, capture, forwarder, transcription,
                         cleanup, stopResult, monitor, failureCleanup, main, stops>>
      BY <1>2, <2>3, StutterEffect
      DEF Inv, AdmitCheck, At, Goto, supVars, sharedVars, startVars, threadVars, cleanupVars,
          monitorVars, mainVars
    <2>5. /\ NumbersAreDistinct'
          /\ \A t \in Starts, r \in Roles : Holds(t, r) => Holds(t, r)'
      BY <2>4, ReportersKept
    <2>6. Types'
      BY <2>4, <2>5, Numbers
      DEF Inv, Types, StartPlaces, Calm
    <2>7. UnstartedHasNothing'
      BY <2>4, <2>5, Numbers
      DEF Inv, UnstartedHasNothing, Types, Calm
    <2>8. ReportersAreHeld'
      BY <2>4, <2>5, Numbers
      DEF Inv, ReportersAreHeld, Types, InStartup, Tracked, NoWorker, Roles, Calm
    <2>9. StopMissesNoStore'
      BY <2>4, <2>5, Numbers, StartupIsActive
      DEF Inv, StopMissesNoStore, Types, Free, StartupHoldsTheSession, InStartup, Free, Calm
    <2>10. ResourcesHaveOneHolder'
      BY <2>4, <2>5, Numbers
      DEF Inv, ResourcesHaveOneHolder, Types, InStart, InSlot, InMain, InMonitor, InCleanup, Calm,
          BeforeCapture
    <2>11. WhatRunsIsHeld'
      BY <2>4, <2>5, Numbers
      DEF Inv, WhatRunsIsHeld, Types, ResourcesHaveOneHolder, Fault, InStart, InSlot, InMain,
          InMonitor, InCleanup, Calm, BeforeCapture
    <2>12. CleanupIsAwaited'
      BY <2>4, <2>5, Numbers, StartupIsActive
      DEF Inv, CleanupIsAwaited, Types, ResourcesHaveOneHolder, StartupHoldsTheSession, InStartup,
          Tracked, NoWorker, Roles, InStart, InSlot, InMain, InMonitor, InCleanup, Calm,
          BeforeCapture
    <2>13. LeasesAreOwned'
      BY <2>4, <2>5, Numbers
      DEF Inv, LeasesAreOwned, Types, WithLease, Calm
    <2> QED
      BY <2>4, <2>5, <2>6, <2>7, <2>8, <2>9, <2>10, <2>11, <2>12, <2>13 DEF Inv
  <1> QED
    BY <1>1, <1>2

LEMMA AdmitPutStep ==
  ASSUME Inv, NEW s \in Starts, AdmitPut(s)
  PROVE  Inv'
  <1>1. CASE slot # NoSession
    <2>1. active = s /\ \A t \in Starts : start[t] = "put" => t = s
      BY StartupIsActive DEF AdmitPut, At, StartupHoldsTheSession, InStartup
    <2>2. /\ Theory!Inv' /\ Calm
          /\ start[s] = "put"
          /\ start' = [start EXCEPT ![s] = "withdraw"]
          /\ control' = Free
          /\ \A t \in Starts : start[t] = "put" => t = s
          /\ UNCHANGED <<env, slot, leases, result, worker, capture, forwarder, transcription,
                         cleanup, stopResult, monitor, failureCleanup, main, stops>>
      BY <1>1, <2>1, StutterEffect
      DEF Inv, AdmitPut, At, Goto, supVars, sharedVars, startVars, threadVars, cleanupVars,
          monitorVars, mainVars
    <2>3. /\ NumbersAreDistinct'
          /\ \A t \in Starts, r \in Roles : Holds(t, r) => Holds(t, r)'
      BY <2>2, ReportersKept
    <2>4. Types'
      BY <2>2, <2>3, Numbers
      DEF Inv, Types, StartPlaces, Calm
    <2>5. UnstartedHasNothing'
      BY <2>2, <2>3, Numbers
      DEF Inv, UnstartedHasNothing, Types, Calm
    <2>6. ReportersAreHeld'
      BY <2>2, <2>3, Numbers
      DEF Inv, ReportersAreHeld, Types, InStartup, Tracked, NoWorker, Roles, Calm
    <2>7. StopMissesNoStore'
      BY <2>2, <2>3, Numbers
      DEF Inv, StopMissesNoStore, Types, Calm
    <2>8. ResourcesHaveOneHolder'
      BY <2>2, <2>3, Numbers
      DEF Inv, ResourcesHaveOneHolder, Types, InStart, InSlot, InMain, InMonitor, InCleanup, Calm,
          BeforeCapture
    <2>9. WhatRunsIsHeld'
      BY <2>2, <2>3, Numbers
      DEF Inv, WhatRunsIsHeld, Types, ResourcesHaveOneHolder, Fault, InStart, InSlot, InMain,
          InMonitor, InCleanup, Calm, BeforeCapture
    <2>10. CleanupIsAwaited'
      BY <2>2, <2>3, Numbers
      DEF Inv, CleanupIsAwaited, Types, ResourcesHaveOneHolder, Tracked, NoWorker, Roles, InStart,
          InSlot, InMain, InMonitor, InCleanup, Calm, BeforeCapture
    <2>11. LeasesAreOwned'
      BY <2>2, <2>3, Numbers
      DEF Inv, LeasesAreOwned, Types, WithLease, Calm
    <2> QED
      BY <2>2, <2>3, <2>4, <2>5, <2>6, <2>7, <2>8, <2>9, <2>10, <2>11 DEF Inv
  <1>2. CASE slot = NoSession
    <2>1. active = s /\ \A t \in Starts : start[t] = "put" => t = s
      BY StartupIsActive DEF AdmitPut, At, StartupHoldsTheSession, InStartup
    <2>2. /\ Theory!Inv' /\ Calm
          /\ start[s] = "put"
          /\ start' = [start EXCEPT ![s] = "complete"]
          /\ control' = Free
          /\ \A t \in Starts : start[t] = "put" => t = s
          /\ active = s
          /\ slot = NoSession /\ slot' = s
          /\ UNCHANGED <<env, leases, result, worker, capture, forwarder, transcription, cleanup,
                         stopResult, monitor, failureCleanup, main, stops>>
      BY <1>2, <2>1, StutterEffect
      DEF Inv, AdmitPut, At, Goto, supVars, sharedVars, startVars, threadVars, cleanupVars,
          monitorVars, mainVars
    <2>3. /\ NumbersAreDistinct'
          /\ \A t \in Starts, r \in Roles : Holds(t, r) => Holds(t, r)'
      BY <2>2, ReportersKept
    <2>4. Types'
      BY <2>2, <2>3, Numbers
      DEF Inv, Types, StartPlaces, Calm
    <2>5. UnstartedHasNothing'
      BY <2>2, <2>3, Numbers
      DEF Inv, UnstartedHasNothing, Types, Calm
    <2>6. ReportersAreHeld'
      BY <2>2, <2>3, Numbers
      DEF Inv, ReportersAreHeld, Types, InStartup, Tracked, NoWorker, Roles, Calm
    <2>7. StopMissesNoStore'
      BY <2>2, <2>3, Numbers
      DEF Inv, StopMissesNoStore, Types, Calm
    <2>8. ResourcesHaveOneHolder'
      BY <2>2, <2>3, Numbers
      DEF Inv, ResourcesHaveOneHolder, Types, InStart, InSlot, InMain, InMonitor, InCleanup, Calm,
          BeforeCapture
    <2>9. WhatRunsIsHeld'
      BY <2>2, <2>3, Numbers
      DEF Inv, WhatRunsIsHeld, Types, ResourcesHaveOneHolder, Fault, InStart, InSlot, InMain,
          InMonitor, InCleanup, Calm, BeforeCapture
    <2>10. CleanupIsAwaited'
      BY <2>2, <2>3, Numbers
      DEF Inv, CleanupIsAwaited, Types, ResourcesHaveOneHolder, Tracked, NoWorker, Roles, InStart,
          InSlot, InMain, InMonitor, InCleanup, Calm, BeforeCapture
    <2>11. LeasesAreOwned'
      BY <2>2, <2>3, Numbers
      DEF Inv, LeasesAreOwned, Types, WithLease, Calm
    <2> QED
      BY <2>2, <2>3, <2>4, <2>5, <2>6, <2>7, <2>8, <2>9, <2>10, <2>11 DEF Inv
  <1> QED
    BY <1>1, <1>2

LEMMA CompleteStartupStep ==
  ASSUME Inv, NEW s \in Starts, CompleteStartup(s)
  PROVE  Inv'
  <1>1. /\ Theory!Inv' /\ Reports(s, "startup")
        /\ start[s] = "complete"
        /\ start' = [start EXCEPT ![s] = "observe"]
        /\ UNCHANGED <<env, slot, control, leases, result, worker, capture, forwarder,
                       transcription, cleanup, stopResult, monitor, failureCleanup, main, stops>>
    BY ReportEffect
    DEF Inv, CompleteStartup, At, Goto, supVars, sharedVars, startVars, threadVars, cleanupVars,
        monitorVars, mainVars
  <1> QED
    BY <1>1, StartMoves
    DEF Inv, Types, StartPlaces, InStartup, InStart, BeforeCapture, WithLease

LEMMA ObserveLifecycleStep ==
  ASSUME Inv, NEW s \in Starts, ObserveLifecycle(s)
  PROVE  Inv'
  <1>1. PICK p \in {"run", "reveal", "done"} :
        /\ Theory!Inv' /\ Calm
        /\ start[s] = "observe"
        /\ start' = [start EXCEPT ![s] = p]
        /\ result' \in [Starts -> {"none", "ok", "cancelled", "error"}]
        /\ UNCHANGED <<env, slot, control, leases, worker, capture, forwarder, transcription,
                       cleanup, stopResult, monitor, failureCleanup, main, stops>>
    BY StutterEffect
    DEF Inv, Types, ObserveLifecycle, At, Goto, Return, supVars, sharedVars, startVars,
        threadVars, cleanupVars, monitorVars, mainVars
  <1> QED
    BY <1>1, StartMoves
    DEF Inv, Types, StartPlaces, InStartup, InStart, BeforeCapture, WithLease

LEMMA RunStep ==
  ASSUME Inv, NEW s \in Starts, Run(s)
  PROVE  Inv'
  <1>1. PICK p \in {"reveal", "done"} :
        /\ Theory!Inv' /\ Calm
        /\ start[s] = "run"
        /\ start' = [start EXCEPT ![s] = p]
        /\ result' \in [Starts -> {"none", "ok", "cancelled", "error"}]
        /\ UNCHANGED <<env, slot, control, leases, worker, capture, forwarder, transcription,
                       cleanup, stopResult, monitor, failureCleanup, main, stops>>
    BY StutterEffect, PublicationEffect
    DEF Inv, Types, Run, At, Goto, Return, supVars, sharedVars, startVars, threadVars,
        cleanupVars, monitorVars, mainVars
  <1> QED
    BY <1>1, StartMoves
    DEF Inv, Types, StartPlaces, InStartup, InStart, BeforeCapture, WithLease

LEMMA RevealStep ==
  ASSUME Inv, NEW s \in Starts, Reveal(s)
  PROVE  Inv'
  <1>1. PICK p \in {"ask", "done"} :
        /\ Theory!Inv' /\ Calm
        /\ start[s] = "reveal"
        /\ start' = [start EXCEPT ![s] = p]
        /\ control = Free
        /\ control' = IF p = "ask" THEN "start" ELSE Free
        /\ result' \in [Starts -> {"none", "ok", "cancelled", "error"}]
        /\ UNCHANGED <<env, slot, leases, worker, capture, forwarder, transcription,
                       cleanup, stopResult, monitor, failureCleanup, main, stops>>
    BY StutterEffect
    DEF Inv, Types, Reveal, At, Goto, Return, supVars, sharedVars, startVars, threadVars,
        cleanupVars, monitorVars, mainVars
  <1> QED
    BY <1>1, StartMoves
    DEF Inv, Types, StartPlaces, InStartup, InStart, BeforeCapture, WithLease

LEMMA ShowOverlayStep ==
  ASSUME Inv, NEW s \in Starts, ShowOverlay(s)
  PROVE  Inv'
  <1>1. PICK p \in {"degrade", "done"} :
        /\ Theory!Inv' /\ Calm
        /\ start[s] = "ask"
        /\ start' = [start EXCEPT ![s] = p]
        /\ control' = Free
        /\ result' \in [Starts -> {"none", "ok", "cancelled", "error"}]
        /\ UNCHANGED <<env, slot, leases, worker, capture, forwarder, transcription,
                       cleanup, stopResult, monitor, failureCleanup, main, stops>>
    BY StutterEffect
    DEF Inv, Types, ShowOverlay, At, Goto, Return, supVars, sharedVars, startVars, threadVars,
        cleanupVars, monitorVars, mainVars
  <1> QED
    BY <1>1, StartMoves
    DEF Inv, Types, StartPlaces, InStartup, InStart, BeforeCapture, WithLease

LEMMA DegradeOverlayStep ==
  ASSUME Inv, NEW s \in Starts, DegradeOverlay(s)
  PROVE  Inv'
  <1>1. /\ Theory!Inv' /\ Calm
        /\ start[s] = "degrade"
        /\ start' = [start EXCEPT ![s] = "done"]
        /\ result' \in [Starts -> {"none", "ok", "cancelled", "error"}]
        /\ UNCHANGED <<env, slot, control, leases, worker, capture, forwarder, transcription,
                       cleanup, stopResult, monitor, failureCleanup, main, stops>>
    BY StutterEffect, PublicationEffect
    DEF Inv, Types, DegradeOverlay, Try, At, Return, supVars, sharedVars, startVars, threadVars,
        cleanupVars, monitorVars, mainVars
  <1> QED
    BY <1>1, StartMoves
    DEF Inv, Types, StartPlaces, InStartup, InStart, BeforeCapture, WithLease

-----------------------------------------------------------------------------
(* stop_capture.                                                           *)

\* The main thread at a place of its own, with nothing in its hands.
LEMMA MainMoves ==
  ASSUME Inv, Theory!Inv', Calm, NEW p \in {"idle", "lock"},
         main.pc \in {"idle", "lock"},
         main' = [main EXCEPT !.pc = p],
         stops' \in 0..MaxStops,
         UNCHANGED <<env, slot, control, leases, start, result, worker, capture, forwarder,
                     transcription, cleanup, stopResult, monitor, failureCleanup>>
  PROVE  Inv'
  <1>1. /\ NumbersAreDistinct'
        /\ \A t \in Starts, r \in Roles : Holds(t, r) => Holds(t, r)'
    BY ReportersKept
  <1>2. ReportersAreHeld' /\ LeasesAreOwned'
    BY <1>1, Undisturbed DEF Calm
  <1>3. Types'
    BY DEF Inv, Types
  <1>4. main'.pc = p /\ main'.session = main.session
    BY DEF Inv, Types
  <1>5. UnstartedHasNothing'
    BY <1>4 DEF Inv, UnstartedHasNothing, Calm
  <1>6. StopMissesNoStore'
    BY <1>4 DEF Inv, StopMissesNoStore
  <1>7. \A t \in Starts : ~InMain(t) /\ ~InMain(t)'
    BY <1>4 DEF InMain
  <1>8. ResourcesHaveOneHolder'
    BY <1>7 DEF Inv, ResourcesHaveOneHolder, InStart, InSlot, InMonitor, InCleanup
  <1>9. WhatRunsIsHeld'
    BY <1>7 DEF Inv, WhatRunsIsHeld, Fault, InStart, InSlot, InMonitor
  <1>10. CleanupIsAwaited'
    BY <1>7 DEF Inv, CleanupIsAwaited, Tracked, InSlot, InCleanup, Calm
  <1> QED
    BY <1>1, <1>2, <1>3, <1>5, <1>6, <1>8, <1>9, <1>10 DEF Inv

LEMMA StopPressStep ==
  ASSUME Inv, StopPress
  PROVE  Inv'
  <1>1. /\ Theory!Inv' /\ Calm
        /\ main.pc = "idle"
        /\ main' = [main EXCEPT !.pc = "lock"]
        /\ stops' \in 0..MaxStops
        /\ UNCHANGED <<env, slot, control, leases, start, result, worker, capture, forwarder,
                       transcription, cleanup, stopResult, monitor, failureCleanup>>
    BY StutterEffect, CaptureBounds
    DEF Inv, Types, StopPress, supVars, sharedVars, startVars, threadVars, cleanupVars,
        monitorVars, mainVars
  <1> QED
    BY <1>1, MainMoves

LEMMA StopRequestStep ==
  ASSUME Inv, StopRequest
  PROVE  Inv'
  <1>0. CASE ~Sup!RequestStopForMode("audio")
    <2>1. /\ Theory!Inv' /\ Calm
          /\ main.pc = "lock"
          /\ main' = [main EXCEPT !.pc = "idle"]
          /\ UNCHANGED <<env, slot, control, leases, start, result, worker, capture, forwarder,
                         transcription, cleanup, stopResult, monitor, failureCleanup, stops>>
      BY <1>0, StutterEffect
      DEF Inv, StopRequest, supVars, sharedVars, startVars, threadVars, cleanupVars, monitorVars,
          mainVars
    <2> QED
      BY <2>1, MainMoves DEF Inv, Types
  <1> SUFFICES ASSUME Sup!RequestStopForMode("audio")
               PROVE  Inv'
    BY <1>0
  <1>1. /\ Theory!Inv' /\ Calm
        /\ active \in Starts /\ active \in cancelled' /\ active < nextSession
        /\ control = Free
        /\ control' = "main"
        /\ main.pc = "lock"
        /\ main' = [pc |-> "take", session |-> active,
                  already |-> snapshot.lifecycle = "Stopping", taken |-> FALSE]
        /\ stops' \in 0..MaxStops
        /\ UNCHANGED <<env, slot, leases, start, result, worker, capture, forwarder,
                       transcription, cleanup, stopResult, monitor, failureCleanup>>
    BY StopEffect, Numbers, CaptureBounds
    DEF Inv, Types, StopRequest, Guarantees, Starts, NoSession, supVars, sharedVars, startVars,
        threadVars, cleanupVars, monitorVars, mainVars
  <1>2. /\ NumbersAreDistinct'
        /\ \A t \in Starts, r \in Roles : Holds(t, r) => Holds(t, r)'
    BY <1>1, ReportersKept
  <1>3. ReportersAreHeld' /\ LeasesAreOwned'
    BY <1>1, <1>2, Undisturbed DEF Calm
  <1>4. Types'
    BY <1>1, <1>2, Numbers
    DEF Inv, Types, StartPlaces, Calm
  <1>5. UnstartedHasNothing'
    BY <1>1, <1>2, Numbers
    DEF Inv, UnstartedHasNothing, Types, Guarantees, Starts, Calm
  <1>6. StopMissesNoStore'
    BY <1>1, <1>2, Numbers
    DEF Inv, StopMissesNoStore, Types, Free, Calm
  <1>7. ResourcesHaveOneHolder'
    BY <1>1, <1>2, Numbers
    DEF Inv, ResourcesHaveOneHolder, Types, InStart, InSlot, InMain, InMonitor, InCleanup, Calm,
        BeforeCapture
  <1>8. WhatRunsIsHeld'
    BY <1>1, <1>2, Numbers
    DEF Inv, WhatRunsIsHeld, Types, ResourcesHaveOneHolder, Fault, InStart, InSlot, InMain,
        InMonitor, InCleanup, Calm, BeforeCapture
  <1>9. CleanupIsAwaited'
    BY <1>1, <1>2, Numbers
    DEF Inv, CleanupIsAwaited, Types, ResourcesHaveOneHolder, Tracked, NoWorker, Roles, InStart,
        InSlot, InMain, InMonitor, InCleanup, Calm, BeforeCapture
  <1> QED
    BY <1>1, <1>2, <1>3, <1>4, <1>5, <1>6, <1>7, <1>8, <1>9 DEF Inv

LEMMA StopTakeStep ==
  ASSUME Inv, StopTake
  PROVE  Inv'
  <1>1. CASE slot = main.session
    <2>1. /\ Theory!Inv' /\ Calm
          /\ main.pc = "take" /\ slot = main.session
          /\ slot' = NoSession
          /\ control' = Free
          /\ main' = [main EXCEPT !.taken = TRUE, !.pc = "schedule"]
          /\ UNCHANGED <<env, leases, start, result, worker, capture, forwarder, transcription,
                         cleanup, stopResult, monitor, failureCleanup, stops>>
      BY <1>1, StutterEffect
      DEF Inv, StopTake, supVars, sharedVars, startVars, threadVars, cleanupVars, monitorVars,
          mainVars
    <2>2. /\ NumbersAreDistinct'
          /\ \A t \in Starts, r \in Roles : Holds(t, r) => Holds(t, r)'
      BY <2>1, ReportersKept
    <2>3. ReportersAreHeld' /\ LeasesAreOwned'
      BY <2>1, <2>2, Undisturbed DEF Calm
    <2>4. Types'
      BY <2>1, <2>2, Numbers
      DEF Inv, Types, StartPlaces, Calm
    <2>5. UnstartedHasNothing'
      BY <2>1, <2>2, Numbers
      DEF Inv, UnstartedHasNothing, Types, NoSession, Calm
    <2>6. StopMissesNoStore'
      BY <2>1, <2>2, Numbers
      DEF Inv, StopMissesNoStore, Types, Calm
    <2>7. ResourcesHaveOneHolder'
      BY <2>1, <2>2, Numbers
      DEF Inv, ResourcesHaveOneHolder, Types, StopMissesNoStore, InStart, InSlot, InMain,
          InMonitor, InCleanup, Calm, BeforeCapture
    <2>8. WhatRunsIsHeld'
      BY <2>1, <2>2, Numbers
      DEF Inv, WhatRunsIsHeld, Types, ResourcesHaveOneHolder, StopMissesNoStore, Fault, InStart,
          InSlot, InMain, InMonitor, InCleanup, Calm, BeforeCapture
    <2>9. CleanupIsAwaited'
      BY <2>1, <2>2, Numbers
      DEF Inv, CleanupIsAwaited, Types, ResourcesHaveOneHolder, StopMissesNoStore, Tracked,
          NoWorker, Roles, InStart, InSlot, InMain, InMonitor, InCleanup, Calm, BeforeCapture
    <2> QED
      BY <2>1, <2>2, <2>3, <2>4, <2>5, <2>6, <2>7, <2>8, <2>9 DEF Inv
  <1>2. CASE slot # main.session
    <2>1. PICK p \in {"idle", "schedule"} :
          /\ Theory!Inv' /\ Calm
          /\ main.pc = "take" /\ slot # main.session
          /\ control' = Free
          /\ main' = [main EXCEPT !.taken = FALSE, !.pc = p]
          /\ UNCHANGED <<env, slot, leases, start, result, worker, capture, forwarder,
                         transcription, cleanup, stopResult, monitor, failureCleanup, stops>>
      BY <1>2, StutterEffect
      DEF Inv, StopTake, supVars, sharedVars, startVars, threadVars, cleanupVars, monitorVars,
          mainVars
    <2>2. /\ NumbersAreDistinct'
          /\ \A t \in Starts, r \in Roles : Holds(t, r) => Holds(t, r)'
      BY <2>1, ReportersKept
    <2>3. ReportersAreHeld' /\ LeasesAreOwned'
      BY <2>1, <2>2, Undisturbed DEF Calm
    <2>4. Types'
      BY <2>1, <2>2, Numbers
      DEF Inv, Types, StartPlaces, Calm
    <2>5. UnstartedHasNothing'
      BY <2>1, <2>2, Numbers
      DEF Inv, UnstartedHasNothing, Types, Calm
    <2>6. StopMissesNoStore'
      BY <2>1, <2>2, Numbers
      DEF Inv, StopMissesNoStore, Types, Calm
    <2>7. ResourcesHaveOneHolder'
      BY <2>1, <2>2, Numbers
      DEF Inv, ResourcesHaveOneHolder, Types, StopMissesNoStore, InStart, InSlot, InMain,
          InMonitor, InCleanup, Calm, BeforeCapture
    <2>8. WhatRunsIsHeld'
      BY <2>1, <2>2, Numbers
      DEF Inv, WhatRunsIsHeld, Types, ResourcesHaveOneHolder, StopMissesNoStore, Fault, InStart,
          InSlot, InMain, InMonitor, InCleanup, Calm, BeforeCapture
    <2>9. CleanupIsAwaited'
      BY <2>1, <2>2, Numbers
      DEF Inv, CleanupIsAwaited, Types, ResourcesHaveOneHolder, StopMissesNoStore, Tracked,
          NoWorker, Roles, InStart, InSlot, InMain, InMonitor, InCleanup, Calm, BeforeCapture
    <2> QED
      BY <2>1, <2>2, <2>3, <2>4, <2>5, <2>6, <2>7, <2>8, <2>9 DEF Inv
  <1> QED
    BY <1>1, <1>2

LEMMA StopScheduleStep ==
  ASSUME Inv, NEW s \in Starts, main.session = s, StopSchedule
  PROVE  Inv'
  <1>1. CASE main.pc = "schedule" /\ main.taken /\ IsActive(s)
    <2>1. /\ Theory!Inv' /\ Registers(s, "shutdown")
          /\ main.pc = "schedule" /\ main.session = s
          /\ main' = [main EXCEPT !.pc = "spawning"]
          /\ main.taken
          /\ cleanup' = [cleanup EXCEPT ![s] = "spawn"]
          /\ UNCHANGED <<env, slot, control, leases, start, result, capture, forwarder,
                         transcription, stopResult, monitor, failureCleanup, stops>>
      BY <1>1, RegisterEffect
      DEF Inv, StopSchedule, ScheduleCleanup, Roles, supVars, sharedVars, startVars, threadVars,
          cleanupVars, monitorVars, mainVars
    <2>2. /\ NumbersAreDistinct'
          /\ worker' \in [Starts -> [Roles -> 0..MaxWorker]]
          /\ worker'[s]["shutdown"] # NoWorker
          /\ \A t \in Starts, r \in Roles :
               ~(t = s /\ r = "shutdown") => worker'[t][r] = worker[t][r]
          /\ Holds(s, "shutdown")'
          /\ \A t \in Starts, r \in Roles :
               Holds(t, r) /\ ~(t = s /\ r = "shutdown") => Holds(t, r)'
      BY <2>1, ReportersRegistered DEF Roles
    <2>3. LeasesAreOwned'
      BY <2>1, <2>2, Undisturbed DEF Registers
    <2>4. Types'
      BY <2>1, <2>2, Numbers
      DEF Inv, Types, StartPlaces, Registers
    <2>5. UnstartedHasNothing'
      BY <2>1, <2>2, Numbers
      DEF Inv, UnstartedHasNothing, Types, Registers
    <2>6. ReportersAreHeld'
      BY <2>1, <2>2, Numbers
      DEF Inv, ReportersAreHeld, Types, ResourcesHaveOneHolder, InStartup, Tracked, NoWorker,
          Roles, Registers, InStart, InSlot, InMain, InMonitor, InCleanup, BeforeCapture
    <2>7. StopMissesNoStore'
      BY <2>1, <2>2, Numbers
      DEF Inv, StopMissesNoStore, Types, Registers
    <2>8. ResourcesHaveOneHolder'
      BY <2>1, <2>2, Numbers
      DEF Inv, ResourcesHaveOneHolder, Types, InStart, InSlot, InMain, InMonitor, InCleanup,
          Registers, BeforeCapture
    <2>9. WhatRunsIsHeld'
      BY <2>1, <2>2, Numbers
      DEF Inv, WhatRunsIsHeld, Types, ResourcesHaveOneHolder, Fault, InStart, InSlot, InMain,
          InMonitor, InCleanup, Registers, BeforeCapture
    <2>10. CleanupIsAwaited'
      BY <2>1, <2>2, Numbers
      DEF Inv, CleanupIsAwaited, Types, ResourcesHaveOneHolder, Tracked, NoWorker, Roles, InStart,
          InSlot, InMain, InMonitor, InCleanup, Registers, BeforeCapture
    <2> QED
      BY <2>1, <2>2, <2>3, <2>4, <2>5, <2>6, <2>7, <2>8, <2>9, <2>10 DEF Inv
  <1>2. CASE main.pc = "schedule" /\ main.taken /\ ~IsActive(s)
    <2>1. /\ Theory!Inv' /\ Calm
          /\ main.pc = "schedule" /\ main.session = s
          /\ main' = [main EXCEPT !.pc = "spawning"]
          /\ main.taken
          /\ active # s
          /\ cleanup' = [cleanup EXCEPT ![s] = "spawn"]
          /\ UNCHANGED <<env, slot, control, leases, start, result, worker, capture, forwarder,
                         transcription, stopResult, monitor, failureCleanup, stops>>
      BY <1>2, StutterEffect, Numbers
      DEF Inv, StopSchedule, ScheduleCleanup, IsActive, Sup!IsActive, NoSession, Sup!NoSession,
          supVars, sharedVars, startVars, threadVars, cleanupVars, monitorVars, mainVars
    <2>2. /\ NumbersAreDistinct'
          /\ \A t \in Starts, r \in Roles : Holds(t, r) => Holds(t, r)'
      BY <2>1, ReportersKept
    <2>3. LeasesAreOwned'
      BY <2>1, <2>2, Undisturbed DEF Calm
    <2>4. Types'
      BY <2>1, <2>2, Numbers
      DEF Inv, Types, StartPlaces, Calm
    <2>5. UnstartedHasNothing'
      BY <2>1, <2>2, Numbers
      DEF Inv, UnstartedHasNothing, Types, Calm
    <2>6. ReportersAreHeld'
      BY <2>1, <2>2, Numbers
      DEF Inv, ReportersAreHeld, Types, ResourcesHaveOneHolder, InStartup, Tracked, NoWorker,
          Roles, Calm, InStart, InSlot, InMain, InMonitor, InCleanup, BeforeCapture
    <2>7. StopMissesNoStore'
      BY <2>1, <2>2, Numbers
      DEF Inv, StopMissesNoStore, Types, Calm
    <2>8. ResourcesHaveOneHolder'
      BY <2>1, <2>2, Numbers
      DEF Inv, ResourcesHaveOneHolder, Types, InStart, InSlot, InMain, InMonitor, InCleanup, Calm,
          BeforeCapture
    <2>9. WhatRunsIsHeld'
      BY <2>1, <2>2, Numbers
      DEF Inv, WhatRunsIsHeld, Types, ResourcesHaveOneHolder, Fault, InStart, InSlot, InMain,
          InMonitor, InCleanup, Calm, BeforeCapture
    <2>10. CleanupIsAwaited'
      BY <2>1, <2>2, Numbers
      DEF Inv, CleanupIsAwaited, Types, ResourcesHaveOneHolder, Tracked, NoWorker, Roles, InStart,
          InSlot, InMain, InMonitor, InCleanup, Calm, BeforeCapture
    <2> QED
      BY <2>1, <2>2, <2>3, <2>4, <2>5, <2>6, <2>7, <2>8, <2>9, <2>10 DEF Inv
  <1>3. CASE main.pc = "schedule" /\ ~main.taken
    <2>1. /\ Theory!Inv' /\ (Calm \/ Finishes(s))
          /\ main.pc = "schedule" /\ main.session = s
          /\ main' = [main EXCEPT !.pc = "idle"]
          /\ ~main.taken
          /\ UNCHANGED <<env, slot, control, leases, start, result, worker, capture, forwarder,
                         transcription, cleanup, stopResult, monitor, failureCleanup, stops>>
      BY <1>3, FinishEffect
      DEF Inv, StopSchedule, FinishWithoutResources, supVars, sharedVars, startVars, threadVars,
          cleanupVars, monitorVars, mainVars
    <2>2. /\ NumbersAreDistinct'
          /\ \A t \in Starts, r \in Roles : Holds(t, r) => Holds(t, r)'
      BY <2>1, ReportersKept
    <2>3. ReportersAreHeld' /\ LeasesAreOwned'
      BY <2>1, <2>2, Undisturbed DEF Calm, Finishes
    <2>4. Types'
      BY <2>1, <2>2, Numbers
      DEF Inv, Types, StartPlaces, Calm, Finishes
    <2>5. UnstartedHasNothing'
      BY <2>1, <2>2, Numbers
      DEF Inv, UnstartedHasNothing, Types, Calm, Finishes
    <2>6. StopMissesNoStore'
      BY <2>1, <2>2, Numbers
      DEF Inv, StopMissesNoStore, Types, Calm, Finishes
    <2>7. ResourcesHaveOneHolder'
      BY <2>1, <2>2, Numbers
      DEF Inv, ResourcesHaveOneHolder, Types, InStart, InSlot, InMain, InMonitor, InCleanup, Calm,
          Finishes, BeforeCapture
    <2>8. WhatRunsIsHeld'
      BY <2>1, <2>2, Numbers
      DEF Inv, WhatRunsIsHeld, Types, ResourcesHaveOneHolder, Fault, InStart, InSlot, InMain,
          InMonitor, InCleanup, Calm, Finishes, BeforeCapture
    <2>9. CleanupIsAwaited'
      BY <2>1, <2>2, Numbers
      DEF Inv, CleanupIsAwaited, Types, ResourcesHaveOneHolder, StopMissesNoStore, Tracked,
          NoWorker, Roles, InStart, InSlot, InMain, InMonitor, InCleanup, Calm, Finishes,
          BeforeCapture
    <2> QED
      BY <2>1, <2>2, <2>3, <2>4, <2>5, <2>6, <2>7, <2>8, <2>9 DEF Inv
  <1>4. CASE main.pc = "spawning"
    <2>1. /\ Theory!Inv' /\ Calm
          /\ main.pc = "spawning" /\ main.session = s
          /\ main' = [main EXCEPT !.pc = "idle"]
          /\ UNCHANGED <<env, slot, control, leases, start, result, worker, capture, forwarder,
                         transcription, cleanup, stopResult, monitor, failureCleanup, stops>>
      BY <1>4, StutterEffect
      DEF Inv, StopSchedule, supVars, sharedVars, startVars, threadVars, cleanupVars, monitorVars,
          mainVars
    <2>2. /\ NumbersAreDistinct'
          /\ \A t \in Starts, r \in Roles : Holds(t, r) => Holds(t, r)'
      BY <2>1, ReportersKept
    <2>3. ReportersAreHeld' /\ LeasesAreOwned'
      BY <2>1, <2>2, Undisturbed DEF Calm
    <2>4. Types'
      BY <2>1, <2>2, Numbers
      DEF Inv, Types, StartPlaces, Calm
    <2>5. UnstartedHasNothing'
      BY <2>1, <2>2, Numbers
      DEF Inv, UnstartedHasNothing, Types, Calm
    <2>6. StopMissesNoStore'
      BY <2>1, <2>2, Numbers
      DEF Inv, StopMissesNoStore, Types, Calm
    <2>7. ResourcesHaveOneHolder'
      BY <2>1, <2>2, Numbers
      DEF Inv, ResourcesHaveOneHolder, Types, InStart, InSlot, InMain, InMonitor, InCleanup, Calm,
          BeforeCapture
    <2>8. WhatRunsIsHeld'
      BY <2>1, <2>2, Numbers
      DEF Inv, WhatRunsIsHeld, Types, ResourcesHaveOneHolder, Fault, InStart, InSlot, InMain,
          InMonitor, InCleanup, Calm, BeforeCapture
    <2>9. CleanupIsAwaited'
      BY <2>1, <2>2, Numbers
      DEF Inv, CleanupIsAwaited, Types, ResourcesHaveOneHolder, Tracked, NoWorker, Roles, InStart,
          InSlot, InMain, InMonitor, InCleanup, Calm, BeforeCapture
    <2> QED
      BY <2>1, <2>2, <2>3, <2>4, <2>5, <2>6, <2>7, <2>8, <2>9 DEF Inv
  <1> QED
    BY <1>1, <1>2, <1>3, <1>4 DEF StopSchedule

-----------------------------------------------------------------------------
(* The session monitor.                                                    *)

LEMMA MonitorDrainStep ==
  ASSUME Inv, NEW s \in Starts, MonitorDrain(s)
  PROVE  Inv'
  <1>1. CASE /\ MonitorAt(s, "poll")
            /\ Sup!BeginDrain
            /\ MonitorGoto(s, "drain")
    <2>1. /\ Theory!Inv' /\ Calm
          /\ monitor[s] = "poll"
          /\ monitor' = [monitor EXCEPT ![s] = "drain"]
          /\ UNCHANGED <<env, slot, control, leases, start, result, worker, capture, forwarder,
                         transcription, cleanup, stopResult, failureCleanup, main, stops>>
      BY <1>1, DrainingEffect
      DEF Inv, MonitorDrain, MonitorAt, MonitorGoto, supVars, sharedVars, startVars, threadVars,
          cleanupVars, monitorVars, mainVars
    <2>2. /\ NumbersAreDistinct'
          /\ \A t \in Starts, r \in Roles : Holds(t, r) => Holds(t, r)'
      BY <2>1, ReportersKept
    <2>3. ReportersAreHeld' /\ StopMissesNoStore' /\ LeasesAreOwned'
      BY <2>1, <2>2, Undisturbed DEF Calm
    <2>4. Types'
      BY <2>1, <2>2, Numbers
      DEF Inv, Types, StartPlaces, Calm
    <2>5. UnstartedHasNothing'
      BY <2>1, <2>2, Numbers
      DEF Inv, UnstartedHasNothing, Types, Calm
    <2>6. ResourcesHaveOneHolder'
      BY <2>1, <2>2, Numbers
      DEF Inv, ResourcesHaveOneHolder, Types, InStart, InSlot, InMain, InMonitor, InCleanup, Calm,
          BeforeCapture
    <2>7. WhatRunsIsHeld'
      BY <2>1, <2>2, Numbers
      DEF Inv, WhatRunsIsHeld, Types, ResourcesHaveOneHolder, Fault, InStart, InSlot, InMain,
          InMonitor, InCleanup, Calm, BeforeCapture
    <2>8. CleanupIsAwaited'
      BY <2>1, <2>2, Numbers
      DEF Inv, CleanupIsAwaited, Types, ResourcesHaveOneHolder, Tracked, NoWorker, Roles, InStart,
          InSlot, InMain, InMonitor, InCleanup, Calm, BeforeCapture
    <2> QED
      BY <2>1, <2>2, <2>3, <2>4, <2>5, <2>6, <2>7, <2>8 DEF Inv
  <1>2. CASE /\ MonitorAt(s, "drain")
            /\ Sup!DrainNext
            /\ UNCHANGED monitor
    <2>1. /\ Theory!Inv' /\ Drains
          /\ UNCHANGED <<env, slot, control, leases, start, result, worker, capture, forwarder,
                         transcription, cleanup, stopResult, monitor, failureCleanup, main, stops>>
      BY <1>2, DrainEffect
      DEF Inv, MonitorDrain, MonitorAt, MonitorGoto, supVars, sharedVars, startVars, threadVars,
          cleanupVars, monitorVars, mainVars
    <2>2. /\ NumbersAreDistinct'
          /\ \A t \in Starts, r \in Roles : Holds(t, r) => Holds(t, r)'
      BY <2>1, ReportersKept
    <2>3. UnstartedHasNothing' /\ ReportersAreHeld' /\ StopMissesNoStore' /\
           ResourcesHaveOneHolder' /\ WhatRunsIsHeld' /\ LeasesAreOwned'
      BY <2>1, <2>2, Undisturbed DEF Drains
    <2>4. Types'
      BY <2>1, <2>2, Numbers
      DEF Inv, Types, StartPlaces, Drains
    <2>5. CleanupIsAwaited'
      BY <2>1, <2>2, Numbers
      DEF Inv, CleanupIsAwaited, Types, ResourcesHaveOneHolder, Tracked, NoWorker, Roles, InStart,
          InSlot, InMain, InMonitor, InCleanup, Drains, BeforeCapture
    <2> QED
      BY <2>1, <2>2, <2>3, <2>4, <2>5 DEF Inv
  <1>3. CASE /\ MonitorAt(s, "drain")
            /\ Sup!EndDrain
            /\ MonitorGoto(s, "look")
    <2>1. /\ Theory!Inv' /\ Calm
          /\ monitor[s] = "drain"
          /\ monitor' = [monitor EXCEPT ![s] = "look"]
          /\ UNCHANGED <<env, slot, control, leases, start, result, worker, capture, forwarder,
                         transcription, cleanup, stopResult, failureCleanup, main, stops>>
      BY <1>3, DrainingEffect
      DEF Inv, MonitorDrain, MonitorAt, MonitorGoto, supVars, sharedVars, startVars, threadVars,
          cleanupVars, monitorVars, mainVars
    <2>2. /\ NumbersAreDistinct'
          /\ \A t \in Starts, r \in Roles : Holds(t, r) => Holds(t, r)'
      BY <2>1, ReportersKept
    <2>3. ReportersAreHeld' /\ StopMissesNoStore' /\ LeasesAreOwned'
      BY <2>1, <2>2, Undisturbed DEF Calm
    <2>4. Types'
      BY <2>1, <2>2, Numbers
      DEF Inv, Types, StartPlaces, Calm
    <2>5. UnstartedHasNothing'
      BY <2>1, <2>2, Numbers
      DEF Inv, UnstartedHasNothing, Types, Calm
    <2>6. ResourcesHaveOneHolder'
      BY <2>1, <2>2, Numbers
      DEF Inv, ResourcesHaveOneHolder, Types, InStart, InSlot, InMain, InMonitor, InCleanup, Calm,
          BeforeCapture
    <2>7. WhatRunsIsHeld'
      BY <2>1, <2>2, Numbers
      DEF Inv, WhatRunsIsHeld, Types, ResourcesHaveOneHolder, Fault, InStart, InSlot, InMain,
          InMonitor, InCleanup, Calm, BeforeCapture
    <2>8. CleanupIsAwaited'
      BY <2>1, <2>2, Numbers
      DEF Inv, CleanupIsAwaited, Types, ResourcesHaveOneHolder, Tracked, NoWorker, Roles, InStart,
          InSlot, InMain, InMonitor, InCleanup, Calm, BeforeCapture
    <2> QED
      BY <2>1, <2>2, <2>3, <2>4, <2>5, <2>6, <2>7, <2>8 DEF Inv
  <1> QED
    BY <1>1, <1>2, <1>3 DEF MonitorDrain

LEMMA MonitorLookStep ==
  ASSUME Inv, NEW s \in Starts, MonitorLook(s)
  PROVE  Inv'
  <1>1. CASE active = NoSession \/ snapshot.session # s
    <2>1. /\ Theory!Inv' /\ Calm
          /\ monitor[s] \in {"look", "poll"}
          /\ monitor' = [monitor EXCEPT ![s] = "release"]
          /\ UNCHANGED <<env, slot, control, leases, start, result, worker, capture, forwarder,
                         transcription, cleanup, stopResult, failureCleanup, main, stops>>
      BY <1>1, StutterEffect
      DEF Inv, MonitorLook, MonitorAt, MonitorGoto, supVars, sharedVars, startVars, threadVars,
          cleanupVars, monitorVars, mainVars
    <2>2. /\ NumbersAreDistinct'
          /\ \A t \in Starts, r \in Roles : Holds(t, r) => Holds(t, r)'
      BY <2>1, ReportersKept
    <2>3. ReportersAreHeld' /\ StopMissesNoStore' /\ LeasesAreOwned'
      BY <2>1, <2>2, Undisturbed DEF Calm
    <2>4. Types'
      BY <2>1, <2>2, Numbers
      DEF Inv, Types, StartPlaces, Calm
    <2>5. UnstartedHasNothing'
      BY <2>1, <2>2, Numbers
      DEF Inv, UnstartedHasNothing, Types, Calm
    <2>6. ResourcesHaveOneHolder'
      BY <2>1, <2>2, Numbers
      DEF Inv, ResourcesHaveOneHolder, Types, InStart, InSlot, InMain, InMonitor, InCleanup, Calm,
          BeforeCapture
    <2>7. WhatRunsIsHeld'
      BY <2>1, <2>2, Numbers
      DEF Inv, WhatRunsIsHeld, Types, ResourcesHaveOneHolder, Fault, InStart, InSlot, InMain,
          InMonitor, InCleanup, Calm, BeforeCapture
    <2>8. CleanupIsAwaited'
      BY <2>1, <2>2, Numbers
      DEF Inv, CleanupIsAwaited, Types, ResourcesHaveOneHolder, Tracked, NoWorker, Roles, InStart,
          InSlot, InMain, InMonitor, InCleanup, Calm, BeforeCapture
    <2> QED
      BY <2>1, <2>2, <2>3, <2>4, <2>5, <2>6, <2>7, <2>8 DEF Inv
  <1>2. CASE /\ active # NoSession /\ snapshot.session = s
            /\ snapshot.lifecycle = "Failed" /\ ~failureCleanup[s]
    <2>1. /\ Theory!Inv' /\ Calm
          /\ monitor[s] \in {"look", "poll"}
          /\ monitor' = [monitor EXCEPT ![s] = "take"]
          /\ failureCleanup' = [failureCleanup EXCEPT ![s] = TRUE]
          /\ active = s /\ s \in cancelled
          /\ UNCHANGED <<env, slot, control, leases, start, result, worker, capture, forwarder,
                         transcription, cleanup, stopResult, main, stops>>
      BY <1>2, StutterEffect, Numbers
      DEF Inv, MonitorLook, Guarantees, MonitorAt, MonitorGoto, supVars, sharedVars, startVars,
          threadVars, cleanupVars, monitorVars, mainVars
    <2>2. /\ NumbersAreDistinct'
          /\ \A t \in Starts, r \in Roles : Holds(t, r) => Holds(t, r)'
      BY <2>1, ReportersKept
    <2>3. ReportersAreHeld' /\ StopMissesNoStore' /\ LeasesAreOwned'
      BY <2>1, <2>2, Undisturbed DEF Calm
    <2>4. Types'
      BY <2>1, <2>2, Numbers
      DEF Inv, Types, StartPlaces, Calm
    <2>5. UnstartedHasNothing'
      BY <2>1, <2>2, Numbers
      DEF Inv, UnstartedHasNothing, Types, Guarantees, Calm
    <2>6. ResourcesHaveOneHolder'
      BY <2>1, <2>2, Numbers
      DEF Inv, ResourcesHaveOneHolder, Types, InStart, InSlot, InMain, InMonitor, InCleanup, Calm,
          BeforeCapture
    <2>7. WhatRunsIsHeld'
      BY <2>1, <2>2, Numbers
      DEF Inv, WhatRunsIsHeld, Types, ResourcesHaveOneHolder, Fault, InStart, InSlot, InMain,
          InMonitor, InCleanup, Calm, BeforeCapture
    <2>8. CleanupIsAwaited'
      BY <2>1, <2>2, Numbers
      DEF Inv, CleanupIsAwaited, Types, ResourcesHaveOneHolder, Tracked, NoWorker, Roles, InStart,
          InSlot, InMain, InMonitor, InCleanup, Calm, BeforeCapture
    <2> QED
      BY <2>1, <2>2, <2>3, <2>4, <2>5, <2>6, <2>7, <2>8 DEF Inv
  <1>3. CASE /\ active # NoSession /\ snapshot.session = s
            /\ ~(snapshot.lifecycle = "Failed" /\ ~failureCleanup[s])
    <2>1. /\ Theory!Inv' /\ Calm
          /\ monitor[s] \in {"look", "poll"}
          /\ \E p \in {"poll", "timeout"} : monitor' = [monitor EXCEPT ![s] = p]
          /\ UNCHANGED <<env, slot, control, leases, start, result, worker, capture, forwarder,
                         transcription, cleanup, stopResult, failureCleanup, main, stops>>
      BY <1>3, StutterEffect
      DEF Inv, MonitorLook, MonitorAt, MonitorGoto, supVars, sharedVars, startVars, threadVars,
          cleanupVars, monitorVars, mainVars
    <2>2. /\ NumbersAreDistinct'
          /\ \A t \in Starts, r \in Roles : Holds(t, r) => Holds(t, r)'
      BY <2>1, ReportersKept
    <2>3. ReportersAreHeld' /\ StopMissesNoStore' /\ LeasesAreOwned'
      BY <2>1, <2>2, Undisturbed DEF Calm
    <2>4. Types'
      BY <2>1, <2>2, Numbers
      DEF Inv, Types, StartPlaces, Calm
    <2>5. UnstartedHasNothing'
      BY <2>1, <2>2, Numbers
      DEF Inv, UnstartedHasNothing, Types, Calm
    <2>6. ResourcesHaveOneHolder'
      BY <2>1, <2>2, Numbers
      DEF Inv, ResourcesHaveOneHolder, Types, InStart, InSlot, InMain, InMonitor, InCleanup, Calm,
          BeforeCapture
    <2>7. WhatRunsIsHeld'
      BY <2>1, <2>2, Numbers
      DEF Inv, WhatRunsIsHeld, Types, ResourcesHaveOneHolder, Fault, InStart, InSlot, InMain,
          InMonitor, InCleanup, Calm, BeforeCapture
    <2>8. CleanupIsAwaited'
      BY <2>1, <2>2, Numbers
      DEF Inv, CleanupIsAwaited, Types, ResourcesHaveOneHolder, Tracked, NoWorker, Roles, InStart,
          InSlot, InMain, InMonitor, InCleanup, Calm, BeforeCapture
    <2> QED
      BY <2>1, <2>2, <2>3, <2>4, <2>5, <2>6, <2>7, <2>8 DEF Inv
  <1> QED
    BY <1>1, <1>2, <1>3

LEMMA MonitorTimeoutStep ==
  ASSUME Inv, NEW s \in Starts, MonitorTimeout(s)
  PROVE  Inv'
  <1>1. /\ Theory!Inv' /\ Calm
        /\ monitor[s] = "timeout"
        /\ monitor' = [monitor EXCEPT ![s] = "poll"]
        /\ UNCHANGED <<env, slot, control, leases, start, result, worker, capture, forwarder,
                       transcription, cleanup, stopResult, failureCleanup, main, stops>>
    BY TimeoutEffect
    DEF Inv, MonitorTimeout, MonitorAt, MonitorGoto, supVars, sharedVars, startVars, threadVars,
        cleanupVars, monitorVars, mainVars
  <1>2. /\ NumbersAreDistinct'
        /\ \A t \in Starts, r \in Roles : Holds(t, r) => Holds(t, r)'
    BY <1>1, ReportersKept
  <1>3. ReportersAreHeld' /\ StopMissesNoStore' /\ LeasesAreOwned'
    BY <1>1, <1>2, Undisturbed DEF Calm
  <1>4. Types'
    BY <1>1, <1>2, Numbers
    DEF Inv, Types, StartPlaces, Calm
  <1>5. UnstartedHasNothing'
    BY <1>1, <1>2, Numbers
    DEF Inv, UnstartedHasNothing, Types, Calm
  <1>6. ResourcesHaveOneHolder'
    BY <1>1, <1>2, Numbers
    DEF Inv, ResourcesHaveOneHolder, Types, InStart, InSlot, InMain, InMonitor, InCleanup, Calm,
        BeforeCapture
  <1>7. WhatRunsIsHeld'
    BY <1>1, <1>2, Numbers
    DEF Inv, WhatRunsIsHeld, Types, ResourcesHaveOneHolder, Fault, InStart, InSlot, InMain,
        InMonitor, InCleanup, Calm, BeforeCapture
  <1>8. CleanupIsAwaited'
    BY <1>1, <1>2, Numbers
    DEF Inv, CleanupIsAwaited, Types, ResourcesHaveOneHolder, Tracked, NoWorker, Roles, InStart,
        InSlot, InMain, InMonitor, InCleanup, Calm, BeforeCapture
  <1> QED
    BY <1>1, <1>2, <1>3, <1>4, <1>5, <1>6, <1>7, <1>8 DEF Inv

LEMMA MonitorTakeStep ==
  ASSUME Inv, NEW s \in Starts, MonitorTake(s)
  PROVE  Inv'
  <1>1. CASE slot = s
    <2>1. /\ Theory!Inv' /\ Calm
          /\ monitor[s] = "take"
          /\ monitor' = [monitor EXCEPT ![s] = "schedule"]
          /\ slot = s
          /\ slot' = NoSession
          /\ UNCHANGED <<env, control, leases, start, result, worker, capture, forwarder,
                         transcription, cleanup, stopResult, failureCleanup, main, stops>>
      BY <1>1, StutterEffect
      DEF Inv, MonitorTake, MonitorAt, MonitorGoto, supVars, sharedVars, startVars, threadVars,
          cleanupVars, monitorVars, mainVars
    <2>2. /\ NumbersAreDistinct'
          /\ \A t \in Starts, r \in Roles : Holds(t, r) => Holds(t, r)'
      BY <2>1, ReportersKept
    <2>3. ReportersAreHeld' /\ LeasesAreOwned'
      BY <2>1, <2>2, Undisturbed DEF Calm
    <2>4. Types'
      BY <2>1, <2>2, Numbers
      DEF Inv, Types, StartPlaces, Calm
    <2>5. UnstartedHasNothing'
      BY <2>1, <2>2, Numbers
      DEF Inv, UnstartedHasNothing, Types, NoSession, Calm
    <2>6. StopMissesNoStore'
      BY <2>1, <2>2, Numbers
      DEF Inv, StopMissesNoStore, Types, Calm
    <2>7. ResourcesHaveOneHolder'
      BY <2>1, <2>2, Numbers
      DEF Inv, ResourcesHaveOneHolder, Types, InStart, InSlot, InMain, InMonitor, InCleanup, Calm,
          BeforeCapture
    <2>8. WhatRunsIsHeld'
      BY <2>1, <2>2, Numbers
      DEF Inv, WhatRunsIsHeld, Types, ResourcesHaveOneHolder, Fault, InStart, InSlot, InMain,
          InMonitor, InCleanup, Calm, BeforeCapture
    <2>9. CleanupIsAwaited'
      BY <2>1, <2>2, Numbers
      DEF Inv, CleanupIsAwaited, Types, ResourcesHaveOneHolder, Tracked, NoWorker, Roles, InStart,
          InSlot, InMain, InMonitor, InCleanup, Calm, BeforeCapture
    <2> QED
      BY <2>1, <2>2, <2>3, <2>4, <2>5, <2>6, <2>7, <2>8, <2>9 DEF Inv
  <1>2. CASE slot # s
    <2>1. /\ Theory!Inv' /\ Calm
          /\ monitor[s] = "take"
          /\ monitor' = [monitor EXCEPT ![s] = "finish"]
          /\ UNCHANGED <<env, slot, control, leases, start, result, worker, capture, forwarder,
                         transcription, cleanup, stopResult, failureCleanup, main, stops>>
      BY <1>2, StutterEffect
      DEF Inv, MonitorTake, MonitorAt, MonitorGoto, supVars, sharedVars, startVars, threadVars,
          cleanupVars, monitorVars, mainVars
    <2>2. /\ NumbersAreDistinct'
          /\ \A t \in Starts, r \in Roles : Holds(t, r) => Holds(t, r)'
      BY <2>1, ReportersKept
    <2>3. ReportersAreHeld' /\ StopMissesNoStore' /\ LeasesAreOwned'
      BY <2>1, <2>2, Undisturbed DEF Calm
    <2>4. Types'
      BY <2>1, <2>2, Numbers
      DEF Inv, Types, StartPlaces, Calm
    <2>5. UnstartedHasNothing'
      BY <2>1, <2>2, Numbers
      DEF Inv, UnstartedHasNothing, Types, Calm
    <2>6. ResourcesHaveOneHolder'
      BY <2>1, <2>2, Numbers
      DEF Inv, ResourcesHaveOneHolder, Types, InStart, InSlot, InMain, InMonitor, InCleanup, Calm,
          BeforeCapture
    <2>7. WhatRunsIsHeld'
      BY <2>1, <2>2, Numbers
      DEF Inv, WhatRunsIsHeld, Types, ResourcesHaveOneHolder, Fault, InStart, InSlot, InMain,
          InMonitor, InCleanup, Calm, BeforeCapture
    <2>8. CleanupIsAwaited'
      BY <2>1, <2>2, Numbers
      DEF Inv, CleanupIsAwaited, Types, ResourcesHaveOneHolder, Tracked, NoWorker, Roles, InStart,
          InSlot, InMain, InMonitor, InCleanup, Calm, BeforeCapture
    <2> QED
      BY <2>1, <2>2, <2>3, <2>4, <2>5, <2>6, <2>7, <2>8 DEF Inv
  <1> QED
    BY <1>1, <1>2

LEMMA MonitorScheduleStep ==
  ASSUME Inv, NEW s \in Starts, MonitorSchedule(s)
  PROVE  Inv'
  <1>1. CASE MonitorAt(s, "schedule") /\ IsActive(s)
    <2>1. /\ Theory!Inv' /\ Registers(s, "shutdown")
          /\ monitor[s] = "schedule"
          /\ monitor' = [monitor EXCEPT ![s] = "spawning"]
          /\ cleanup' = [cleanup EXCEPT ![s] = "spawn"]
          /\ UNCHANGED <<env, slot, control, leases, start, result, capture, forwarder,
                         transcription, stopResult, failureCleanup, main, stops>>
      BY <1>1, RegisterEffect
      DEF Inv, MonitorSchedule, ScheduleCleanup, Roles, MonitorAt, MonitorGoto, supVars,
          sharedVars, startVars, threadVars, cleanupVars, monitorVars, mainVars
    <2>2. /\ NumbersAreDistinct'
          /\ worker' \in [Starts -> [Roles -> 0..MaxWorker]]
          /\ worker'[s]["shutdown"] # NoWorker
          /\ \A t \in Starts, r \in Roles :
               ~(t = s /\ r = "shutdown") => worker'[t][r] = worker[t][r]
          /\ Holds(s, "shutdown")'
          /\ \A t \in Starts, r \in Roles :
               Holds(t, r) /\ ~(t = s /\ r = "shutdown") => Holds(t, r)'
      BY <2>1, ReportersRegistered DEF Roles
    <2>3. StopMissesNoStore' /\ LeasesAreOwned'
      BY <2>1, <2>2, Undisturbed DEF Registers
    <2>4. Types'
      BY <2>1, <2>2, Numbers
      DEF Inv, Types, StartPlaces, Registers
    <2>5. UnstartedHasNothing'
      BY <2>1, <2>2, Numbers
      DEF Inv, UnstartedHasNothing, Types, Registers
    <2>6. ReportersAreHeld'
      BY <2>1, <2>2, Numbers
      DEF Inv, ReportersAreHeld, Types, ResourcesHaveOneHolder, InStartup, Tracked, NoWorker,
          Roles, Registers, InStart, InSlot, InMain, InMonitor, InCleanup, BeforeCapture
    <2>7. ResourcesHaveOneHolder'
      BY <2>1, <2>2, Numbers
      DEF Inv, ResourcesHaveOneHolder, Types, InStart, InSlot, InMain, InMonitor, InCleanup,
          Registers, BeforeCapture
    <2>8. WhatRunsIsHeld'
      BY <2>1, <2>2, Numbers
      DEF Inv, WhatRunsIsHeld, Types, ResourcesHaveOneHolder, Fault, InStart, InSlot, InMain,
          InMonitor, InCleanup, Registers, BeforeCapture
    <2>9. CleanupIsAwaited'
      BY <2>1, <2>2, Numbers
      DEF Inv, CleanupIsAwaited, Types, ResourcesHaveOneHolder, Tracked, NoWorker, Roles, InStart,
          InSlot, InMain, InMonitor, InCleanup, Registers, BeforeCapture
    <2> QED
      BY <2>1, <2>2, <2>3, <2>4, <2>5, <2>6, <2>7, <2>8, <2>9 DEF Inv
  <1>2. CASE MonitorAt(s, "schedule") /\ ~IsActive(s)
    <2>1. /\ Theory!Inv' /\ Calm
          /\ monitor[s] = "schedule"
          /\ monitor' = [monitor EXCEPT ![s] = "spawning"]
          /\ cleanup' = [cleanup EXCEPT ![s] = "spawn"]
          /\ UNCHANGED <<env, slot, control, leases, start, result, worker, capture, forwarder,
                         transcription, stopResult, failureCleanup, main, stops>>
      BY <1>2, StutterEffect
      DEF Inv, MonitorSchedule, ScheduleCleanup, MonitorAt, MonitorGoto, supVars, sharedVars,
          startVars, threadVars, cleanupVars, monitorVars, mainVars
    <2>2. /\ NumbersAreDistinct'
          /\ \A t \in Starts, r \in Roles : Holds(t, r) => Holds(t, r)'
      BY <2>1, ReportersKept
    <2>3. StopMissesNoStore' /\ LeasesAreOwned'
      BY <2>1, <2>2, Undisturbed DEF Calm
    <2>4. Types'
      BY <2>1, <2>2, Numbers
      DEF Inv, Types, StartPlaces, Calm
    <2>5. UnstartedHasNothing'
      BY <2>1, <2>2, Numbers
      DEF Inv, UnstartedHasNothing, Types, Calm
    <2>6. ReportersAreHeld'
      BY <2>1, <2>2, Numbers
      DEF Inv, ReportersAreHeld, Types, ResourcesHaveOneHolder, InStartup, Tracked, NoWorker,
          Roles, Calm, InStart, InSlot, InMain, InMonitor, InCleanup, BeforeCapture
    <2>7. ResourcesHaveOneHolder'
      BY <2>1, <2>2, Numbers
      DEF Inv, ResourcesHaveOneHolder, Types, InStart, InSlot, InMain, InMonitor, InCleanup, Calm,
          BeforeCapture
    <2>8. WhatRunsIsHeld'
      BY <2>1, <2>2, Numbers
      DEF Inv, WhatRunsIsHeld, Types, ResourcesHaveOneHolder, Fault, InStart, InSlot, InMain,
          InMonitor, InCleanup, Calm, BeforeCapture
    <2>9. CleanupIsAwaited'
      BY <2>1, <2>2, Numbers
      DEF Inv, CleanupIsAwaited, Types, ResourcesHaveOneHolder, Tracked, NoWorker, Roles, InStart,
          InSlot, InMain, InMonitor, InCleanup, Calm, BeforeCapture
    <2> QED
      BY <2>1, <2>2, <2>3, <2>4, <2>5, <2>6, <2>7, <2>8, <2>9 DEF Inv
  <1>3. CASE MonitorAt(s, "spawning")
    <2>1. /\ Theory!Inv' /\ Calm
          /\ monitor[s] = "spawning"
          /\ monitor' = [monitor EXCEPT ![s] = "poll"]
          /\ UNCHANGED <<env, slot, control, leases, start, result, worker, capture, forwarder,
                         transcription, cleanup, stopResult, failureCleanup, main, stops>>
      BY <1>3, StutterEffect
      DEF Inv, MonitorSchedule, MonitorAt, MonitorGoto, supVars, sharedVars, startVars,
          threadVars, cleanupVars, monitorVars, mainVars
    <2>2. /\ NumbersAreDistinct'
          /\ \A t \in Starts, r \in Roles : Holds(t, r) => Holds(t, r)'
      BY <2>1, ReportersKept
    <2>3. ReportersAreHeld' /\ StopMissesNoStore' /\ LeasesAreOwned'
      BY <2>1, <2>2, Undisturbed DEF Calm
    <2>4. Types'
      BY <2>1, <2>2, Numbers
      DEF Inv, Types, StartPlaces, Calm
    <2>5. UnstartedHasNothing'
      BY <2>1, <2>2, Numbers
      DEF Inv, UnstartedHasNothing, Types, Calm
    <2>6. ResourcesHaveOneHolder'
      BY <2>1, <2>2, Numbers
      DEF Inv, ResourcesHaveOneHolder, Types, InStart, InSlot, InMain, InMonitor, InCleanup, Calm,
          BeforeCapture
    <2>7. WhatRunsIsHeld'
      BY <2>1, <2>2, Numbers
      DEF Inv, WhatRunsIsHeld, Types, ResourcesHaveOneHolder, Fault, InStart, InSlot, InMain,
          InMonitor, InCleanup, Calm, BeforeCapture
    <2>8. CleanupIsAwaited'
      BY <2>1, <2>2, Numbers
      DEF Inv, CleanupIsAwaited, Types, ResourcesHaveOneHolder, Tracked, NoWorker, Roles, InStart,
          InSlot, InMain, InMonitor, InCleanup, Calm, BeforeCapture
    <2> QED
      BY <2>1, <2>2, <2>3, <2>4, <2>5, <2>6, <2>7, <2>8 DEF Inv
  <1>4. CASE MonitorAt(s, "finish")
    <2>1. /\ Theory!Inv' /\ (Calm \/ Finishes(s))
          /\ monitor[s] = "finish"
          /\ monitor' = [monitor EXCEPT ![s] = "poll"]
          /\ UNCHANGED <<env, slot, control, leases, start, result, worker, capture, forwarder,
                         transcription, cleanup, stopResult, failureCleanup, main, stops>>
      BY <1>4, FinishEffect
      DEF Inv, MonitorSchedule, FinishWithoutResources, MonitorAt, MonitorGoto, supVars,
          sharedVars, startVars, threadVars, cleanupVars, monitorVars, mainVars
    <2>2. /\ NumbersAreDistinct'
          /\ \A t \in Starts, r \in Roles : Holds(t, r) => Holds(t, r)'
      BY <2>1, ReportersKept
    <2>3. ReportersAreHeld' /\ StopMissesNoStore' /\ LeasesAreOwned'
      BY <2>1, <2>2, Undisturbed DEF Calm, Finishes
    <2>4. Types'
      BY <2>1, <2>2, Numbers
      DEF Inv, Types, StartPlaces, Calm, Finishes
    <2>5. UnstartedHasNothing'
      BY <2>1, <2>2, Numbers
      DEF Inv, UnstartedHasNothing, Types, Calm, Finishes
    <2>6. ResourcesHaveOneHolder'
      BY <2>1, <2>2, Numbers
      DEF Inv, ResourcesHaveOneHolder, Types, InStart, InSlot, InMain, InMonitor, InCleanup, Calm,
          Finishes, BeforeCapture
    <2>7. WhatRunsIsHeld'
      BY <2>1, <2>2, Numbers
      DEF Inv, WhatRunsIsHeld, Types, ResourcesHaveOneHolder, Fault, InStart, InSlot, InMain,
          InMonitor, InCleanup, Calm, Finishes, BeforeCapture
    <2>8. CleanupIsAwaited'
      BY <2>1, <2>2, Numbers
      DEF Inv, CleanupIsAwaited, Types, ResourcesHaveOneHolder, Tracked, NoWorker, Roles, InStart,
          InSlot, InMain, InMonitor, InCleanup, Calm, Finishes, BeforeCapture
    <2> QED
      BY <2>1, <2>2, <2>3, <2>4, <2>5, <2>6, <2>7, <2>8 DEF Inv
  <1> QED
    BY <1>1, <1>2, <1>3, <1>4 DEF MonitorSchedule

LEMMA MonitorReleaseStep ==
  ASSUME Inv, NEW s \in Starts, MonitorRelease(s)
  PROVE  Inv'
  <1>1. /\ Theory!Inv' /\ Calm
        /\ monitor[s] = "release"
        /\ monitor' = [monitor EXCEPT ![s] = "ended"]
        /\ leases' = leases \ {s}
        /\ UNCHANGED <<env, slot, control, start, result, worker, capture, forwarder,
                       transcription, cleanup, stopResult, failureCleanup, main, stops>>
    BY StutterEffect
    DEF Inv, MonitorRelease, MonitorAt, MonitorGoto, supVars, sharedVars, startVars, threadVars,
        cleanupVars, monitorVars, mainVars
  <1>2. /\ NumbersAreDistinct'
        /\ \A t \in Starts, r \in Roles : Holds(t, r) => Holds(t, r)'
    BY <1>1, ReportersKept
  <1>3. ReportersAreHeld' /\ StopMissesNoStore'
    BY <1>1, <1>2, Undisturbed DEF Calm
  <1>4. Types'
    BY <1>1, <1>2, Numbers
    DEF Inv, Types, StartPlaces, Calm
  <1>5. UnstartedHasNothing'
    BY <1>1, <1>2, Numbers
    DEF Inv, UnstartedHasNothing, Types, Calm
  <1>6. ResourcesHaveOneHolder'
    BY <1>1, <1>2, Numbers
    DEF Inv, ResourcesHaveOneHolder, Types, InStart, InSlot, InMain, InMonitor, InCleanup, Calm,
        BeforeCapture
  <1>7. WhatRunsIsHeld'
    BY <1>1, <1>2, Numbers
    DEF Inv, WhatRunsIsHeld, Types, ResourcesHaveOneHolder, Fault, InStart, InSlot, InMain,
        InMonitor, InCleanup, Calm, BeforeCapture
  <1>8. CleanupIsAwaited'
    BY <1>1, <1>2, Numbers
    DEF Inv, CleanupIsAwaited, Types, ResourcesHaveOneHolder, Tracked, NoWorker, Roles, InStart,
        InSlot, InMain, InMonitor, InCleanup, Calm, BeforeCapture
  <1>9. LeasesAreOwned'
    BY <1>1, <1>2, Numbers
    DEF Inv, LeasesAreOwned, Types, WithLease, Calm
  <1> QED
    BY <1>1, <1>2, <1>3, <1>4, <1>5, <1>6, <1>7, <1>8, <1>9 DEF Inv

-----------------------------------------------------------------------------
(* The forwarder and the transcription thread.                             *)

LEMMA ForwarderReceiveStep ==
  ASSUME Inv, NEW s \in Starts, ForwarderReceive(s)
  PROVE  Inv'
  <1>1. /\ Theory!Inv' /\ Calm
        /\ forwarder[s] = "loop"
        /\ \E p \in {"wait", "frame", "health"} : forwarder' = [forwarder EXCEPT ![s] = p]
        /\ UNCHANGED <<env, slot, control, leases, start, result, worker, capture, transcription,
                       cleanup, stopResult, monitor, failureCleanup, main, stops>>
    BY StutterEffect
    DEF Inv, ForwarderReceive, ForwarderAt, ForwarderGoto, supVars, sharedVars, startVars,
        threadVars, cleanupVars, monitorVars, mainVars
  <1>2. /\ NumbersAreDistinct'
        /\ \A t \in Starts, r \in Roles : Holds(t, r) => Holds(t, r)'
    BY <1>1, ReportersKept
  <1>3. StopMissesNoStore' /\ WhatRunsIsHeld' /\ CleanupIsAwaited' /\ LeasesAreOwned'
    BY <1>1, <1>2, Undisturbed DEF Calm
  <1>4. Types'
    BY <1>1, <1>2, Numbers
    DEF Inv, Types, StartPlaces, Calm
  <1>5. UnstartedHasNothing'
    BY <1>1, <1>2, Numbers
    DEF Inv, UnstartedHasNothing, Types, Calm
  <1>6. ReportersAreHeld'
    BY <1>1, <1>2, Numbers
    DEF Inv, ReportersAreHeld, Types, InStartup, Tracked, NoWorker, Roles, Calm
  <1>7. ResourcesHaveOneHolder'
    BY <1>1, <1>2, Numbers
    DEF Inv, ResourcesHaveOneHolder, Types, InStart, InSlot, InMain, InMonitor, InCleanup, Calm,
        BeforeCapture
  <1> QED
    BY <1>1, <1>2, <1>3, <1>4, <1>5, <1>6, <1>7 DEF Inv

LEMMA ForwarderHandleStep ==
  ASSUME Inv, NEW s \in Starts, ForwarderHandle(s)
  PROVE  Inv'
  <1>1. /\ Theory!Inv' /\ Calm
        /\ forwarder[s] \in {"wait", "frame", "resume", "health"}
        /\ \E p \in {"loop", "resume", "health"} : forwarder' = [forwarder EXCEPT ![s] = p]
        /\ UNCHANGED <<env, slot, control, leases, start, result, worker, capture, transcription,
                       cleanup, stopResult, monitor, failureCleanup, main, stops>>
    BY StutterEffect, PublicationEffect
    DEF Inv, ForwarderHandle, Try, ForwarderAt, ForwarderGoto, supVars, sharedVars, startVars,
        threadVars, cleanupVars, monitorVars, mainVars
  <1>2. /\ NumbersAreDistinct'
        /\ \A t \in Starts, r \in Roles : Holds(t, r) => Holds(t, r)'
    BY <1>1, ReportersKept
  <1>3. StopMissesNoStore' /\ WhatRunsIsHeld' /\ CleanupIsAwaited' /\ LeasesAreOwned'
    BY <1>1, <1>2, Undisturbed DEF Calm
  <1>4. Types'
    BY <1>1, <1>2, Numbers
    DEF Inv, Types, StartPlaces, Calm
  <1>5. UnstartedHasNothing'
    BY <1>1, <1>2, Numbers
    DEF Inv, UnstartedHasNothing, Types, Calm
  <1>6. ReportersAreHeld'
    BY <1>1, <1>2, Numbers
    DEF Inv, ReportersAreHeld, Types, InStartup, Tracked, NoWorker, Roles, Calm
  <1>7. ResourcesHaveOneHolder'
    BY <1>1, <1>2, Numbers
    DEF Inv, ResourcesHaveOneHolder, Types, InStart, InSlot, InMain, InMonitor, InCleanup, Calm,
        BeforeCapture
  <1> QED
    BY <1>1, <1>2, <1>3, <1>4, <1>5, <1>6, <1>7 DEF Inv

LEMMA ForwarderEndStep ==
  ASSUME Inv, NEW s \in Starts, ForwarderEnd(s)
  PROVE  Inv'
  <1>1. /\ Theory!Inv' /\ Reports(s, "forwarder")
        /\ forwarder[s] = "loop"
        /\ forwarder' = [forwarder EXCEPT ![s] = "ended"]
        /\ UNCHANGED <<env, slot, control, leases, start, result, worker, capture, transcription,
                       cleanup, stopResult, monitor, failureCleanup, main, stops>>
    BY ReportEffect
    DEF Inv, ForwarderEnd, ForwarderAt, ForwarderGoto, supVars, sharedVars, startVars, threadVars,
        cleanupVars, monitorVars, mainVars
  <1>2. /\ NumbersAreDistinct'
        /\ \A t \in Starts, r \in Roles : Holds(t, r) /\ ~(t = s /\ r = "forwarder") => Holds(t, r)'
    BY <1>1, ReportersReported DEF Roles
  <1>3. StopMissesNoStore' /\ WhatRunsIsHeld' /\ CleanupIsAwaited' /\ LeasesAreOwned'
    BY <1>1, <1>2, Undisturbed DEF Reports
  <1>4. Types'
    BY <1>1, <1>2, Numbers
    DEF Inv, Types, StartPlaces, Reports
  <1>5. UnstartedHasNothing'
    BY <1>1, <1>2, Numbers
    DEF Inv, UnstartedHasNothing, Types, Reports
  <1>6. ReportersAreHeld'
    BY <1>1, <1>2, Numbers
    DEF Inv, ReportersAreHeld, Types, ResourcesHaveOneHolder, InStartup, Tracked, NoWorker, Roles,
        Reports, InStart, InSlot, InMain, InMonitor, InCleanup, BeforeCapture
  <1>7. ResourcesHaveOneHolder'
    BY <1>1, <1>2, Numbers
    DEF Inv, ResourcesHaveOneHolder, Types, InStart, InSlot, InMain, InMonitor, InCleanup,
        Reports, BeforeCapture
  <1> QED
    BY <1>1, <1>2, <1>3, <1>4, <1>5, <1>6, <1>7 DEF Inv

LEMMA TranscriptionEndStep ==
  ASSUME Inv, NEW s \in Starts, TranscriptionEnd(s)
  PROVE  Inv'
  <1>1. CASE transcription[s] = "run"
    <2>1. /\ Theory!Inv' /\ Reports(s, "transcription")
          /\ transcription[s] = "run"
          /\ transcription' = [transcription EXCEPT ![s] = "reported"]
          /\ UNCHANGED <<env, slot, control, leases, start, result, worker, capture, forwarder,
                         cleanup, stopResult, monitor, failureCleanup, main, stops>>
      BY <1>1, ReportEffect
      DEF Inv, TranscriptionEnd, NormalOutcome, supVars, sharedVars, startVars, threadVars,
          cleanupVars, monitorVars, mainVars
    <2>2. /\ NumbersAreDistinct'
          /\ \A t \in Starts, r \in Roles : Holds(t, r) /\ ~(t = s /\ r = "transcription") => Holds(t, r)'
      BY <2>1, ReportersReported DEF Roles
    <2>3. StopMissesNoStore' /\ CleanupIsAwaited'
      BY <2>1, <2>2, Undisturbed DEF Reports
    <2>4. Types'
      BY <2>1, <2>2, Numbers
      DEF Inv, Types, StartPlaces, Reports
    <2>5. UnstartedHasNothing'
      BY <2>1, <2>2, Numbers
      DEF Inv, UnstartedHasNothing, Types, Reports
    <2>6. ReportersAreHeld'
      BY <2>1, <2>2, Numbers
      DEF Inv, ReportersAreHeld, Types, ResourcesHaveOneHolder, InStartup, Tracked, NoWorker,
          Roles, Reports, InStart, InSlot, InMain, InMonitor, InCleanup, BeforeCapture
    <2>7. ResourcesHaveOneHolder'
      BY <2>1, <2>2, Numbers
      DEF Inv, ResourcesHaveOneHolder, Types, InStart, InSlot, InMain, InMonitor, InCleanup,
          Reports, BeforeCapture
    <2>8. WhatRunsIsHeld'
      BY <2>1, <2>2, Numbers
      DEF Inv, WhatRunsIsHeld, Types, ResourcesHaveOneHolder, Fault, InStart, InSlot, InMain,
          InMonitor, InCleanup, Reports, BeforeCapture
    <2>9. LeasesAreOwned'
      BY <2>1, <2>2, Numbers
      DEF Inv, LeasesAreOwned, Types, WithLease, Reports
    <2> QED
      BY <2>1, <2>2, <2>3, <2>4, <2>5, <2>6, <2>7, <2>8, <2>9 DEF Inv
  <1>2. CASE transcription[s] = "reported"
    <2>1. /\ Theory!Inv' /\ Calm
          /\ transcription[s] = "reported"
          /\ transcription' = [transcription EXCEPT ![s] = "ended"]
          /\ leases' = leases \ {s}
          /\ UNCHANGED <<env, slot, control, start, result, worker, capture, forwarder, cleanup,
                         stopResult, monitor, failureCleanup, main, stops>>
      BY <1>2, StutterEffect
      DEF Inv, TranscriptionEnd, supVars, sharedVars, startVars, threadVars, cleanupVars,
          monitorVars, mainVars
    <2>2. /\ NumbersAreDistinct'
          /\ \A t \in Starts, r \in Roles : Holds(t, r) => Holds(t, r)'
      BY <2>1, ReportersKept
    <2>3. StopMissesNoStore' /\ CleanupIsAwaited'
      BY <2>1, <2>2, Undisturbed DEF Calm
    <2>4. Types'
      BY <2>1, <2>2, Numbers
      DEF Inv, Types, StartPlaces, Calm
    <2>5. UnstartedHasNothing'
      BY <2>1, <2>2, Numbers
      DEF Inv, UnstartedHasNothing, Types, Calm
    <2>6. ReportersAreHeld'
      BY <2>1, <2>2, Numbers
      DEF Inv, ReportersAreHeld, Types, InStartup, Tracked, NoWorker, Roles, Calm
    <2>7. ResourcesHaveOneHolder'
      BY <2>1, <2>2, Numbers
      DEF Inv, ResourcesHaveOneHolder, Types, InStart, InSlot, InMain, InMonitor, InCleanup, Calm,
          BeforeCapture
    <2>8. WhatRunsIsHeld'
      BY <2>1, <2>2, Numbers
      DEF Inv, WhatRunsIsHeld, Types, ResourcesHaveOneHolder, Fault, InStart, InSlot, InMain,
          InMonitor, InCleanup, Calm, BeforeCapture
    <2>9. LeasesAreOwned'
      BY <2>1, <2>2, Numbers
      DEF Inv, LeasesAreOwned, Types, WithLease, Calm
    <2> QED
      BY <2>1, <2>2, <2>3, <2>4, <2>5, <2>6, <2>7, <2>8, <2>9 DEF Inv
  <1> QED
    BY <1>1, <1>2 DEF TranscriptionEnd

-----------------------------------------------------------------------------
(* The cleanup thread.                                                     *)

LEMMA CleanupSpawnStep ==
  ASSUME Inv, NEW s \in Starts, CleanupSpawn(s)
  PROVE  Inv'
  <1>1. /\ Theory!Inv' /\ Calm
        /\ cleanup[s] = "spawn"
        /\ cleanup' = [cleanup EXCEPT ![s] = "stop"]
        /\ UNCHANGED <<env, slot, control, leases, start, result, worker, capture, forwarder,
                       transcription, stopResult, monitor, failureCleanup, main, stops>>
    BY StutterEffect
    DEF Inv, CleanupSpawn, CleanupAt, CleanupGoto, supVars, sharedVars, startVars, threadVars,
        cleanupVars, monitorVars, mainVars
  <1>2. /\ NumbersAreDistinct'
        /\ \A t \in Starts, r \in Roles : Holds(t, r) => Holds(t, r)'
    BY <1>1, ReportersKept
  <1>3. StopMissesNoStore' /\ LeasesAreOwned'
    BY <1>1, <1>2, Undisturbed DEF Calm
  <1>4. Types'
    BY <1>1, <1>2, Numbers
    DEF Inv, Types, StartPlaces, Calm
  <1>5. UnstartedHasNothing'
    BY <1>1, <1>2, Numbers
    DEF Inv, UnstartedHasNothing, Types, Calm
  <1>6. ReportersAreHeld'
    BY <1>1, <1>2, Numbers
    DEF Inv, ReportersAreHeld, Types, InStartup, Tracked, NoWorker, Roles, Calm
  <1>7. ResourcesHaveOneHolder'
    BY <1>1, <1>2, Numbers
    DEF Inv, ResourcesHaveOneHolder, Types, InStart, InSlot, InMain, InMonitor, InCleanup, Calm,
        BeforeCapture
  <1>8. WhatRunsIsHeld'
    BY <1>1, <1>2, Numbers
    DEF Inv, WhatRunsIsHeld, Types, ResourcesHaveOneHolder, Fault, InStart, InSlot, InMain,
        InMonitor, InCleanup, Calm, BeforeCapture
  <1>9. CleanupIsAwaited'
    BY <1>1, <1>2, Numbers
    DEF Inv, CleanupIsAwaited, Types, ResourcesHaveOneHolder, Tracked, NoWorker, Roles, InStart,
        InSlot, InMain, InMonitor, InCleanup, Calm, BeforeCapture
  <1> QED
    BY <1>1, <1>2, <1>3, <1>4, <1>5, <1>6, <1>7, <1>8, <1>9 DEF Inv

LEMMA CleanupSpawnFailsStep ==
  ASSUME Inv, NEW s \in Starts, CleanupSpawnFails(s)
  PROVE  Inv'
  <1>1. CASE CleanupAt(s, "spawn") /\ Tracked(s)
    <2>1. /\ Theory!Inv' /\ Reports(s, "shutdown")
          /\ Fault("cleanupSpawn")
          /\ cleanup[s] = "spawn"
          /\ cleanup' = [cleanup EXCEPT ![s] = "spawnFailed"]
          /\ capture' = [capture EXCEPT ![s] = "stopped"]
          /\ UNCHANGED <<env, slot, control, leases, start, result, worker, forwarder,
                         transcription, stopResult, monitor, failureCleanup, main, stops>>
      BY <1>1, ReportEffect
      DEF Inv, CleanupSpawnFails, CleanupAt, CleanupGoto, supVars, sharedVars, startVars,
          threadVars, cleanupVars, monitorVars, mainVars
    <2>2. /\ NumbersAreDistinct'
          /\ \A t \in Starts, r \in Roles : Holds(t, r) /\ ~(t = s /\ r = "shutdown") => Holds(t, r)'
      BY <2>1, ReportersReported DEF Roles
    <2>3. StopMissesNoStore' /\ LeasesAreOwned'
      BY <2>1, <2>2, Undisturbed DEF Reports
    <2>4. Types'
      BY <2>1, <2>2, Numbers
      DEF Inv, Types, StartPlaces, Reports
    <2>5. UnstartedHasNothing'
      BY <2>1, <2>2, Numbers
      DEF Inv, UnstartedHasNothing, Types, Reports
    <2>6. ReportersAreHeld'
      BY <2>1, <2>2, Numbers
      DEF Inv, ReportersAreHeld, Types, InStartup, Tracked, NoWorker, Roles, Reports
    <2>7. ResourcesHaveOneHolder'
      BY <2>1, <2>2, Numbers
      DEF Inv, ResourcesHaveOneHolder, Types, InStart, InSlot, InMain, InMonitor, InCleanup,
          Reports, BeforeCapture
    <2>8. WhatRunsIsHeld'
      BY <2>1, <2>2, Numbers
      DEF Inv, WhatRunsIsHeld, Types, ResourcesHaveOneHolder, Fault, InStart, InSlot, InMain,
          InMonitor, InCleanup, Reports, BeforeCapture
    <2>9. CleanupIsAwaited'
      BY <2>1, <2>2, Numbers
      DEF Inv, CleanupIsAwaited, Types, ResourcesHaveOneHolder, Tracked, NoWorker, Roles, InStart,
          InSlot, InMain, InMonitor, InCleanup, Reports, BeforeCapture
    <2> QED
      BY <2>1, <2>2, <2>3, <2>4, <2>5, <2>6, <2>7, <2>8, <2>9 DEF Inv
  <1>2. CASE CleanupAt(s, "spawn") /\ ~Tracked(s)
    <2>1. /\ Theory!Inv' /\ Calm
          /\ Fault("cleanupSpawn")
          /\ cleanup[s] = "spawn"
          /\ cleanup' = [cleanup EXCEPT ![s] = "ended"]
          /\ capture' = [capture EXCEPT ![s] = "stopped"]
          /\ UNCHANGED <<env, slot, control, leases, start, result, worker, forwarder,
                         transcription, stopResult, monitor, failureCleanup, main, stops>>
      BY <1>2, StutterEffect
      DEF Inv, CleanupSpawnFails, CleanupAt, CleanupGoto, supVars, sharedVars, startVars,
          threadVars, cleanupVars, monitorVars, mainVars
    <2>2. /\ NumbersAreDistinct'
          /\ \A t \in Starts, r \in Roles : Holds(t, r) => Holds(t, r)'
      BY <2>1, ReportersKept
    <2>3. StopMissesNoStore' /\ LeasesAreOwned'
      BY <2>1, <2>2, Undisturbed DEF Calm
    <2>4. Types'
      BY <2>1, <2>2, Numbers
      DEF Inv, Types, StartPlaces, Calm
    <2>5. UnstartedHasNothing'
      BY <2>1, <2>2, Numbers
      DEF Inv, UnstartedHasNothing, Types, Calm
    <2>6. ReportersAreHeld'
      BY <2>1, <2>2, Numbers
      DEF Inv, ReportersAreHeld, Types, InStartup, Tracked, NoWorker, Roles, Calm
    <2>7. ResourcesHaveOneHolder'
      BY <2>1, <2>2, Numbers
      DEF Inv, ResourcesHaveOneHolder, Types, InStart, InSlot, InMain, InMonitor, InCleanup, Calm,
          BeforeCapture
    <2>8. WhatRunsIsHeld'
      BY <2>1, <2>2, Numbers
      DEF Inv, WhatRunsIsHeld, Types, ResourcesHaveOneHolder, Fault, InStart, InSlot, InMain,
          InMonitor, InCleanup, Calm, BeforeCapture
    <2>9. CleanupIsAwaited'
      BY <2>1, <2>2, Numbers
      DEF Inv, CleanupIsAwaited, Types, ResourcesHaveOneHolder, Tracked, NoWorker, Roles, InStart,
          InSlot, InMain, InMonitor, InCleanup, Calm, BeforeCapture
    <2> QED
      BY <2>1, <2>2, <2>3, <2>4, <2>5, <2>6, <2>7, <2>8, <2>9 DEF Inv
  <1>3. CASE CleanupAt(s, "spawnFailed")
    <2>1. /\ Theory!Inv' /\ Calm
          /\ cleanup[s] = "spawnFailed"
          /\ cleanup' = [cleanup EXCEPT ![s] = "spawnGivenUp"]
          /\ UNCHANGED <<env, slot, control, leases, start, result, worker, capture, forwarder,
                         transcription, stopResult, monitor, failureCleanup, main, stops>>
      BY <1>3, FailEffect
      DEF Inv, CleanupSpawnFails, CleanupAt, CleanupGoto, supVars, sharedVars, startVars,
          threadVars, cleanupVars, monitorVars, mainVars
    <2>2. /\ NumbersAreDistinct'
          /\ \A t \in Starts, r \in Roles : Holds(t, r) => Holds(t, r)'
      BY <2>1, ReportersKept
    <2>3. StopMissesNoStore' /\ LeasesAreOwned'
      BY <2>1, <2>2, Undisturbed DEF Calm
    <2>4. Types'
      BY <2>1, <2>2, Numbers
      DEF Inv, Types, StartPlaces, Calm
    <2>5. UnstartedHasNothing'
      BY <2>1, <2>2, Numbers
      DEF Inv, UnstartedHasNothing, Types, Calm
    <2>6. ReportersAreHeld'
      BY <2>1, <2>2, Numbers
      DEF Inv, ReportersAreHeld, Types, InStartup, Tracked, NoWorker, Roles, Calm
    <2>7. ResourcesHaveOneHolder'
      BY <2>1, <2>2, Numbers
      DEF Inv, ResourcesHaveOneHolder, Types, InStart, InSlot, InMain, InMonitor, InCleanup, Calm,
          BeforeCapture
    <2>8. WhatRunsIsHeld'
      BY <2>1, <2>2, Numbers
      DEF Inv, WhatRunsIsHeld, Types, ResourcesHaveOneHolder, Fault, InStart, InSlot, InMain,
          InMonitor, InCleanup, Calm, BeforeCapture
    <2>9. CleanupIsAwaited'
      BY <2>1, <2>2, Numbers
      DEF Inv, CleanupIsAwaited, Types, ResourcesHaveOneHolder, Tracked, NoWorker, Roles, InStart,
          InSlot, InMain, InMonitor, InCleanup, Calm, BeforeCapture
    <2> QED
      BY <2>1, <2>2, <2>3, <2>4, <2>5, <2>6, <2>7, <2>8, <2>9 DEF Inv
  <1>4. CASE CleanupAt(s, "spawnGivenUp")
    <2>1. /\ Theory!Inv' /\ (Calm \/ Finishes(s))
          /\ cleanup[s] = "spawnGivenUp"
          /\ cleanup' = [cleanup EXCEPT ![s] = "ended"]
          /\ UNCHANGED <<env, slot, control, leases, start, result, worker, capture, forwarder,
                         transcription, stopResult, monitor, failureCleanup, main, stops>>
      BY <1>4, FinishEffect
      DEF Inv, CleanupSpawnFails, CleanupAt, CleanupGoto, supVars, sharedVars, startVars,
          threadVars, cleanupVars, monitorVars, mainVars
    <2>2. /\ NumbersAreDistinct'
          /\ \A t \in Starts, r \in Roles : Holds(t, r) => Holds(t, r)'
      BY <2>1, ReportersKept
    <2>3. StopMissesNoStore' /\ LeasesAreOwned'
      BY <2>1, <2>2, Undisturbed DEF Calm, Finishes
    <2>4. Types'
      BY <2>1, <2>2, Numbers
      DEF Inv, Types, StartPlaces, Calm, Finishes
    <2>5. UnstartedHasNothing'
      BY <2>1, <2>2, Numbers
      DEF Inv, UnstartedHasNothing, Types, Calm, Finishes
    <2>6. ReportersAreHeld'
      BY <2>1, <2>2, Numbers
      DEF Inv, ReportersAreHeld, Types, InStartup, Tracked, NoWorker, Roles, Calm, Finishes
    <2>7. ResourcesHaveOneHolder'
      BY <2>1, <2>2, Numbers
      DEF Inv, ResourcesHaveOneHolder, Types, InStart, InSlot, InMain, InMonitor, InCleanup, Calm,
          Finishes, BeforeCapture
    <2>8. WhatRunsIsHeld'
      BY <2>1, <2>2, Numbers
      DEF Inv, WhatRunsIsHeld, Types, ResourcesHaveOneHolder, Fault, InStart, InSlot, InMain,
          InMonitor, InCleanup, Calm, Finishes, BeforeCapture
    <2>9. CleanupIsAwaited'
      BY <2>1, <2>2, Numbers
      DEF Inv, CleanupIsAwaited, Types, ResourcesHaveOneHolder, Tracked, NoWorker, Roles, InStart,
          InSlot, InMain, InMonitor, InCleanup, Calm, Finishes, BeforeCapture
    <2> QED
      BY <2>1, <2>2, <2>3, <2>4, <2>5, <2>6, <2>7, <2>8, <2>9 DEF Inv
  <1> QED
    BY <1>1, <1>2, <1>3, <1>4 DEF CleanupSpawnFails

LEMMA CleanupStopStep ==
  ASSUME Inv, NEW s \in Starts, CleanupStop(s)
  PROVE  Inv'
  <1>1. CASE CleanupAt(s, "stop")
    <2>1. /\ Theory!Inv' /\ Calm
          /\ cleanup[s] = "stop"
          /\ cleanup' = [cleanup EXCEPT ![s] = "join"]
          /\ capture' = [capture EXCEPT ![s] = "stopped"]
          /\ \E ok \in BOOLEAN : stopResult' = [stopResult EXCEPT ![s] = ok]
          /\ UNCHANGED <<env, slot, control, leases, start, result, worker, forwarder,
                         transcription, monitor, failureCleanup, main, stops>>
      BY <1>1, StutterEffect
      DEF Inv, Types, CleanupStop, CleanupAt, CleanupGoto, supVars, sharedVars, startVars,
          threadVars, cleanupVars, monitorVars, mainVars
    <2>2. /\ NumbersAreDistinct'
          /\ \A t \in Starts, r \in Roles : Holds(t, r) => Holds(t, r)'
      BY <2>1, ReportersKept
    <2>3. StopMissesNoStore' /\ LeasesAreOwned'
      BY <2>1, <2>2, Undisturbed DEF Calm
    <2>4. Types'
      BY <2>1, <2>2, Numbers
      DEF Inv, Types, StartPlaces, Calm
    <2>5. UnstartedHasNothing'
      BY <2>1, <2>2, Numbers
      DEF Inv, UnstartedHasNothing, Types, Calm
    <2>6. ReportersAreHeld'
      BY <2>1, <2>2, Numbers
      DEF Inv, ReportersAreHeld, Types, InStartup, Tracked, NoWorker, Roles, Calm
    <2>7. ResourcesHaveOneHolder'
      BY <2>1, <2>2, Numbers
      DEF Inv, ResourcesHaveOneHolder, Types, InStart, InSlot, InMain, InMonitor, InCleanup, Calm,
          BeforeCapture
    <2>8. WhatRunsIsHeld'
      BY <2>1, <2>2, Numbers
      DEF Inv, WhatRunsIsHeld, Types, ResourcesHaveOneHolder, Fault, InStart, InSlot, InMain,
          InMonitor, InCleanup, Calm, BeforeCapture
    <2>9. CleanupIsAwaited'
      BY <2>1, <2>2, Numbers
      DEF Inv, CleanupIsAwaited, Types, ResourcesHaveOneHolder, Tracked, NoWorker, Roles, InStart,
          InSlot, InMain, InMonitor, InCleanup, Calm, BeforeCapture
    <2> QED
      BY <2>1, <2>2, <2>3, <2>4, <2>5, <2>6, <2>7, <2>8, <2>9 DEF Inv
  <1>2. CASE CleanupAt(s, "join")
    <2>1. /\ Theory!Inv' /\ Calm
          /\ cleanup[s] = "join"
          /\ transcription[s] \in {"none", "ended"}
          /\ \E p \in {"report", "ended"} :
            cleanup' = [cleanup EXCEPT ![s] = p] /\ (p = "report" => Tracked(s))
          /\ UNCHANGED <<env, slot, control, leases, start, result, worker, capture, forwarder,
                         transcription, stopResult, monitor, failureCleanup, main, stops>>
      BY <1>2, StutterEffect
      DEF Inv, CleanupStop, CleanupAt, CleanupGoto, supVars, sharedVars, startVars, threadVars,
          cleanupVars, monitorVars, mainVars
    <2>2. /\ NumbersAreDistinct'
          /\ \A t \in Starts, r \in Roles : Holds(t, r) => Holds(t, r)'
      BY <2>1, ReportersKept
    <2>3. StopMissesNoStore' /\ LeasesAreOwned'
      BY <2>1, <2>2, Undisturbed DEF Calm
    <2>4. Types'
      BY <2>1, <2>2, Numbers
      DEF Inv, Types, StartPlaces, Calm
    <2>5. UnstartedHasNothing'
      BY <2>1, <2>2, Numbers
      DEF Inv, UnstartedHasNothing, Types, Calm
    <2>6. ReportersAreHeld'
      BY <2>1, <2>2, Numbers
      DEF Inv, ReportersAreHeld, Types, InStartup, Tracked, NoWorker, Roles, Calm
    <2>7. ResourcesHaveOneHolder'
      BY <2>1, <2>2, Numbers
      DEF Inv, ResourcesHaveOneHolder, Types, InStart, InSlot, InMain, InMonitor, InCleanup, Calm,
          BeforeCapture
    <2>8. WhatRunsIsHeld'
      BY <2>1, <2>2, Numbers
      DEF Inv, WhatRunsIsHeld, Types, ResourcesHaveOneHolder, Fault, InStart, InSlot, InMain,
          InMonitor, InCleanup, Calm, BeforeCapture
    <2>9. CleanupIsAwaited'
      BY <2>1, <2>2, Numbers
      DEF Inv, CleanupIsAwaited, Types, ResourcesHaveOneHolder, Tracked, NoWorker, Roles, InStart,
          InSlot, InMain, InMonitor, InCleanup, Calm, BeforeCapture
    <2> QED
      BY <2>1, <2>2, <2>3, <2>4, <2>5, <2>6, <2>7, <2>8, <2>9 DEF Inv
  <1> QED
    BY <1>1, <1>2 DEF CleanupStop

LEMMA CleanupFinishStep ==
  ASSUME Inv, NEW s \in Starts, CleanupFinish(s)
  PROVE  Inv'
  <1>1. CASE CleanupAt(s, "report")
    <2>1. /\ Theory!Inv' /\ Reports(s, "shutdown")
          /\ cleanup[s] = "report"
          /\ cleanup' = [cleanup EXCEPT ![s] = "finish"]
          /\ UNCHANGED <<env, slot, control, leases, start, result, worker, capture, forwarder,
                         transcription, stopResult, monitor, failureCleanup, main, stops>>
      BY <1>1, ReportEffect
      DEF Inv, CleanupFinish, CleanupAt, CleanupGoto, supVars, sharedVars, startVars, threadVars,
          cleanupVars, monitorVars, mainVars
    <2>2. /\ NumbersAreDistinct'
          /\ \A t \in Starts, r \in Roles : Holds(t, r) /\ ~(t = s /\ r = "shutdown") => Holds(t, r)'
      BY <2>1, ReportersReported DEF Roles
    <2>3. StopMissesNoStore' /\ LeasesAreOwned'
      BY <2>1, <2>2, Undisturbed DEF Reports
    <2>4. Types'
      BY <2>1, <2>2, Numbers
      DEF Inv, Types, StartPlaces, Reports
    <2>5. UnstartedHasNothing'
      BY <2>1, <2>2, Numbers
      DEF Inv, UnstartedHasNothing, Types, Reports
    <2>6. ReportersAreHeld'
      BY <2>1, <2>2, Numbers
      DEF Inv, ReportersAreHeld, Types, InStartup, Tracked, NoWorker, Roles, Reports
    <2>7. ResourcesHaveOneHolder'
      BY <2>1, <2>2, Numbers
      DEF Inv, ResourcesHaveOneHolder, Types, InStart, InSlot, InMain, InMonitor, InCleanup,
          Reports, BeforeCapture
    <2>8. WhatRunsIsHeld'
      BY <2>1, <2>2, Numbers
      DEF Inv, WhatRunsIsHeld, Types, ResourcesHaveOneHolder, Fault, InStart, InSlot, InMain,
          InMonitor, InCleanup, Reports, BeforeCapture
    <2>9. CleanupIsAwaited'
      BY <2>1, <2>2, Numbers
      DEF Inv, CleanupIsAwaited, Types, ResourcesHaveOneHolder, Tracked, NoWorker, Roles, InStart,
          InSlot, InMain, InMonitor, InCleanup, Reports, BeforeCapture
    <2> QED
      BY <2>1, <2>2, <2>3, <2>4, <2>5, <2>6, <2>7, <2>8, <2>9 DEF Inv
  <1>2. CASE CleanupAt(s, "finish")
    <2>1. /\ Theory!Inv' /\ (Calm \/ Finishes(s))
          /\ cleanup[s] = "finish"
          /\ cleanup' = [cleanup EXCEPT ![s] = "ended"]
          /\ UNCHANGED <<env, slot, control, leases, start, result, worker, capture, forwarder,
                         transcription, stopResult, monitor, failureCleanup, main, stops>>
      BY <1>2, FinishEffect
      DEF Inv, Types, CleanupFinish, CleanupAt, CleanupGoto, supVars, sharedVars, startVars,
          threadVars, cleanupVars, monitorVars, mainVars
    <2>2. /\ NumbersAreDistinct'
          /\ \A t \in Starts, r \in Roles : Holds(t, r) => Holds(t, r)'
      BY <2>1, ReportersKept
    <2>3. StopMissesNoStore' /\ LeasesAreOwned'
      BY <2>1, <2>2, Undisturbed DEF Calm, Finishes
    <2>4. Types'
      BY <2>1, <2>2, Numbers
      DEF Inv, Types, StartPlaces, Calm, Finishes
    <2>5. UnstartedHasNothing'
      BY <2>1, <2>2, Numbers
      DEF Inv, UnstartedHasNothing, Types, Calm, Finishes
    <2>6. ReportersAreHeld'
      BY <2>1, <2>2, Numbers
      DEF Inv, ReportersAreHeld, Types, InStartup, Tracked, NoWorker, Roles, Calm, Finishes
    <2>7. ResourcesHaveOneHolder'
      BY <2>1, <2>2, Numbers
      DEF Inv, ResourcesHaveOneHolder, Types, InStart, InSlot, InMain, InMonitor, InCleanup, Calm,
          Finishes, BeforeCapture
    <2>8. WhatRunsIsHeld'
      BY <2>1, <2>2, Numbers
      DEF Inv, WhatRunsIsHeld, Types, ResourcesHaveOneHolder, Fault, InStart, InSlot, InMain,
          InMonitor, InCleanup, Calm, Finishes, BeforeCapture
    <2>9. CleanupIsAwaited'
      BY <2>1, <2>2, Numbers
      DEF Inv, CleanupIsAwaited, Types, ResourcesHaveOneHolder, Tracked, NoWorker, Roles, InStart,
          InSlot, InMain, InMonitor, InCleanup, Calm, Finishes, BeforeCapture
    <2> QED
      BY <2>1, <2>2, <2>3, <2>4, <2>5, <2>6, <2>7, <2>8, <2>9 DEF Inv
  <1> QED
    BY <1>1, <1>2 DEF CleanupFinish

LEMMA StartCaptureStep ==
  ASSUME Inv, StartCapture
  PROVE  Inv'
  <1>1. PICK s \in Starts :
          /\ Theory!Inv'
          /\ s = nextSession /\ nextSession' = nextSession + 1
          /\ active = NoSession /\ active' = s /\ ~cleanupFinished'
          /\ start' = [start EXCEPT ![s] = "spawnMonitor"]
          /\ UNCHANGED <<cancelled, reporters, nextWorker, env, slot, control, leases, result,
                         worker, capture, forwarder, transcription, cleanup, stopResult, monitor,
                         failureCleanup, main, stops>>
    BY StartEffect
    DEF Inv, StartCapture, Goto, sharedVars, threadVars, cleanupVars, monitorVars, mainVars
  <1>2. /\ start[s] = "none" /\ capture[s] = "none" /\ forwarder[s] = "none"
        /\ transcription[s] = "none" /\ cleanup[s] = "none" /\ monitor[s] = "none"
        /\ ~failureCleanup[s] /\ s \notin leases
        /\ slot # s /\ main.session # s /\ ~Tracked(s)
    BY <1>1, Numbers DEF Inv, UnstartedHasNothing, ReportersAreHeld
  <1>3. NumbersAreDistinct'
    BY <1>1 DEF Inv, NumbersAreDistinct
  <1>4. \A t \in Starts, r \in Roles : Holds(t, r) => Holds(t, r)'
    BY <1>1 DEF Holds, Reporter
  <1>5. Types'
    BY <1>1 DEF Inv, Types, StartPlaces
  <1>6. UnstartedHasNothing'
    BY <1>1, <1>2, Numbers DEF Inv, UnstartedHasNothing, Types
  <1>7. ReportersAreHeld'
    BY <1>1, <1>2, <1>4 DEF Inv, ReportersAreHeld, Types, InStartup, Tracked, Roles
  <1>8. StopMissesNoStore'
    BY <1>1 DEF Inv, StopMissesNoStore, Types
  <1>9. ResourcesHaveOneHolder'
    BY <1>1, <1>2
    DEF Inv, ResourcesHaveOneHolder, BeforeCapture, Types, InStart, InSlot, InMain, InMonitor, InCleanup
  <1>10. WhatRunsIsHeld'
    BY <1>1, <1>2
    DEF Inv, WhatRunsIsHeld, Types, Fault, InStart, InSlot, InMain, InMonitor, InCleanup
  <1>11. CleanupIsAwaited'
    BY <1>1, <1>2, Numbers
    DEF Inv, CleanupIsAwaited, Types, Tracked, InSlot, InMain, InCleanup
  <1>12. LeasesAreOwned'
    BY <1>1, <1>2 DEF Inv, LeasesAreOwned, WithLease, Types
  <1> QED
    BY <1>1, <1>3, <1>5, <1>6, <1>7, <1>8, <1>9, <1>10, <1>11, <1>12 DEF Inv

LEMMA StutterStep == Inv /\ UNCHANGED vars => Inv'
  <1> SUFFICES ASSUME Inv, UNCHANGED vars PROVE Inv'
    OBVIOUS
  <1>1. /\ Theory!Inv' /\ Calm
        /\ UNCHANGED <<env, slot, control, leases, start, result, worker, capture, forwarder,
                       transcription, cleanup, stopResult, monitor, failureCleanup, main, stops>>
    BY StutterEffect
    DEF Inv, vars, sharedVars, startVars, threadVars, cleanupVars, monitorVars, mainVars
  <1>2. /\ NumbersAreDistinct'
        /\ \A t \in Starts, r \in Roles : Holds(t, r) => Holds(t, r)'
    BY <1>1, ReportersKept
  <1>3. Types' /\ UnstartedHasNothing' /\ StopMissesNoStore' /\ LeasesAreOwned'
    BY <1>1 DEF Inv, Types, UnstartedHasNothing, StopMissesNoStore, LeasesAreOwned, Calm
  <1>4. ReportersAreHeld'
    BY <1>1, <1>2 DEF Inv, ReportersAreHeld, InStartup, Tracked, Roles
  <1>5. ResourcesHaveOneHolder' /\ WhatRunsIsHeld'
    BY <1>1 DEF Inv, ResourcesHaveOneHolder, WhatRunsIsHeld, Fault, InStart, InSlot, InMain,
                InMonitor, InCleanup
  <1>6. CleanupIsAwaited'
    BY <1>1 DEF Inv, CleanupIsAwaited, Tracked, InSlot, InMain, InCleanup, Calm
  <1> QED
    BY <1>1, <1>2, <1>3, <1>4, <1>5, <1>6 DEF Inv

-----------------------------------------------------------------------------
(* The theorems.                                                           *)

LEMMA InvInit == Init => Inv
  <1> SUFFICES ASSUME Init PROVE Inv
    OBVIOUS
  <1>1. Theory!Init
    BY DEF Init, Sup!Init, Theory!Init, Sup!DefaultSnapshot, Theory!DefaultSnapshot,
           Sup!NoSession, Theory!NoSession, Sup!None, Theory!None, Sup!Healthy, Theory!Healthy,
           Sup!Health, Theory!Health, Sup!NoWorkers, Theory!NoWorkers
  <1>2. Theory!Inv
    BY <1>1, Theory!InvInit, CaptureBounds
  <1>3. active = NoSession /\ nextSession = 1 /\ nextWorker = 1
    BY DEF Init, Sup!Init, Sup!NoSession, NoSession
  <1>4. Types
    BY CaptureBounds DEF Init, Types, StartPlaces, NoWorker, NoSession
  <1>5. NumbersAreDistinct /\ UnstartedHasNothing
    BY <1>3 DEF Init, NumbersAreDistinct, UnstartedHasNothing, NoWorker, NoSession, Starts
  <1>6. ReportersAreHeld
    BY DEF Init, ReportersAreHeld, InStartup, Tracked, NoWorker, Roles
  <1>7. StopMissesNoStore /\ LeasesAreOwned
    BY DEF Init, StopMissesNoStore, LeasesAreOwned
  <1>8. ResourcesHaveOneHolder /\ WhatRunsIsHeld /\ CleanupIsAwaited
    BY <1>3 DEF Init, ResourcesHaveOneHolder, BeforeCapture, WhatRunsIsHeld, CleanupIsAwaited, Tracked, Roles,
           NoWorker, NoSession, Starts, InStart, InSlot, InMain, InMonitor, InCleanup
  <1> QED
    BY <1>2, <1>4, <1>5, <1>6, <1>7, <1>8 DEF Inv

LEMMA InvNext == Inv /\ [Next]_vars => Inv'
  <1> SUFFICES ASSUME Inv, [Next]_vars PROVE Inv'
    OBVIOUS
  <1>1. CASE StartCapture \/ StopPress \/ StopRequest \/ StopTake \/ UNCHANGED vars
    BY <1>1, StartCaptureStep, StopPressStep, StopRequestStep, StopTakeStep, StutterStep
  <1>2. CASE StopSchedule
    <2>1. main.pc \notin {"idle", "lock"}
      BY <1>2 DEF StopSchedule
    <2>2. main.session \in Starts
      BY <2>1 DEF Inv, Types, StopMissesNoStore
    <2> QED
      BY <1>2, <2>2, StopScheduleStep
  <1>3. ASSUME NEW s \in Starts, StartStep(s) PROVE Inv'
    BY <1>3, SpawnMonitorStep, SpawnMonitorFailsStep, RegisterStartupStep, UpdateProgressStep,
       PrepareFailsStep, PrepareStep, CheckCancelledStep, AcquireSpeechStep, BackendStartStep,
       DropLeaseStep, RegisterTranscriptionStep, SpawnTranscriptionStep, RegisterForwarderStep,
       SpawnForwarderStep, GiveUpStep, AdmitCheckStep, AdmitPutStep, WithdrawStep,
       CompleteStartupStep, ObserveLifecycleStep, RunStep, RevealStep, ShowOverlayStep,
       DegradeOverlayStep
    DEF StartStep
  <1>4. ASSUME NEW s \in Starts, MonitorStep(s) PROVE Inv'
    BY <1>4, MonitorDrainStep, MonitorLookStep, MonitorTimeoutStep, MonitorTakeStep,
       MonitorScheduleStep, MonitorReleaseStep
    DEF MonitorStep
  <1>5. ASSUME NEW s \in Starts, ForwarderStep(s) \/ TranscriptionEnd(s) PROVE Inv'
    BY <1>5, ForwarderReceiveStep, ForwarderHandleStep, ForwarderEndStep, TranscriptionEndStep
    DEF ForwarderStep
  <1>6. ASSUME NEW s \in Starts, CleanupStep(s) PROVE Inv'
    BY <1>6, CleanupSpawnStep, CleanupSpawnFailsStep, CleanupStopStep, CleanupFinishStep
    DEF CleanupStep
  <1> QED
    BY <1>1, <1>2, <1>3, <1>4, <1>5, <1>6 DEF Next, MainStep

LEMMA Invariance == Spec => []Inv
  BY InvInit, InvNext, PTL DEF Spec

\* However many sessions follow one another and whatever fails, start_capture
\* works for the active session until it has reported: every `?` after the
\* registration of its startup worker finds the session it started.
THEOREM StartupKeepsItsSession == Spec => []StartupHoldsTheSession
  BY Invariance, StartupIsActive, PTL

\* What a released session may have left, from who holds what.
LEMMA ReleasedIsQuiet == Inv => ReleasedMeansQuiet
  <1> SUFFICES ASSUME Inv, NEW s \in Starts, Released(s), ~failureCleanup[s]
      PROVE  /\ capture[s] # "live"
             /\ forwarder[s] \in {"none", "ended"}
             /\ transcription[s] \in {"none", "reported", "ended"}
             /\ cleanup[s] \in {"none", "finish", "spawnFailed", "spawnGivenUp", "ended"}
             /\ s \in leases /\ (\E t \in Starts : At(t, "acquire")) => KeepsLeaseToReturn(s)
    BY DEF ReleasedMeansQuiet
  <1>1. active # s
    BY DEF Released
  <1>2. \A r \in Roles : ~Holds(s, r)
    BY <1>1, HolderIsActive
  <1>3. ~InStartup(s)
    BY <1>2 DEF Inv, ReportersAreHeld, Roles
  <1>4. ~InStart(s) /\ ~InSlot(s) /\ ~InMain(s) /\ ~InMonitor(s)
    BY <1>1, <1>3 DEF Inv, CleanupIsAwaited, InStartup, InStart, InMonitor
  <1>5. cleanup[s] \in {"none", "finish", "spawnFailed", "spawnGivenUp", "ended"}
    <2>1. cleanup[s] # "none" => Tracked(s)
      BY DEF Inv, CleanupIsAwaited, InCleanup
    <2> QED
      BY <1>2, <2>1 DEF Inv, ReportersAreHeld, Types, Roles
  <1>6. capture[s] # "live"
    BY <1>4, <1>5 DEF Inv, WhatRunsIsHeld
  <1>7. forwarder[s] \in {"none", "ended"}
    BY <1>2 DEF Inv, ReportersAreHeld, Roles
  <1>8. transcription[s] \in {"none", "reported", "ended"}
    BY <1>2 DEF Inv, ReportersAreHeld, Types, Roles
  <1>9. ASSUME s \in leases PROVE KeepsLeaseToReturn(s)
    <2>1. start[s] = "dropLease" \/ transcription[s] = "reported"
      BY <1>3, <1>8, <1>9 DEF Inv, LeasesAreOwned, WithLease, InStartup
    <2>2. transcription[s] = "reported" => Fault("cleanupSpawn")
      BY <1>4, <1>5 DEF Inv, WhatRunsIsHeld
    <2> QED
      BY <2>1, <2>2 DEF KeepsLeaseToReturn, At
  <1> QED
    BY <1>5, <1>6, <1>7, <1>8, <1>9

\* Whatever thread turns out to clean up, and however often Stop is pressed: a
\* session that is given up, other than by the cleanup after a failure, has left
\* nothing running that the next one could meet.
THEOREM ReleasedSessionIsQuiet == Spec => []ReleasedMeansQuiet
  BY Invariance, ReleasedIsQuiet, PTL

\* The state has its type.
THEOREM TypeCorrect == Spec => []TypeOK
  <1>1. Theory!TypeOK => Sup!TypeOK
    BY DEF Theory!TypeOK, Sup!TypeOK, Sup!Sessions, Theory!Sessions,
           Sup!WorkerIds, Theory!WorkerIds, Sup!Reporters, Theory!Reporters,
           Sup!Completions, Theory!Completions, Sup!NoSession, Theory!NoSession,
           Sup!None, Theory!None, Sup!Lifecycles, Theory!Lifecycles, Sup!Levels, Theory!Levels,
           Sup!Progresses, Theory!Progresses, Sup!Errors, Theory!Errors,
           Sup!Lifetimes, Theory!Lifetimes, Sup!Outcomes, Theory!Outcomes
  <1>2. Inv => TypeOK
    BY <1>1 DEF Inv, Types, TypeOK, Theory!Inv
  <1> QED
    BY <1>2, Invariance, PTL

\* The resources of a session are never in two hands, nor are two threads ever
\* about to clean them up: Stop, the monitor and the start that withdraws take
\* them from one another, across the slot and the locals of each.
THEOREM ResourcesAreInOneHand == Spec => []ResourcesHaveOneHolder
  BY Invariance, PTL DEF Inv

\* What is stored belongs to the active session, but for the session whose failure
\* the monitor has taken up: the start that has looked at the token before the
\* failure stores behind its back, and that is the only way to SlotBelongsToActive's
\* counterexample.
THEOREM OnlyFailuresLeaveTheSlot ==
  Spec => [](slot # NoSession /\ ~failureCleanup[slot] => slot = active)
  <1>1. Inv => (slot # NoSession /\ ~failureCleanup[slot] => slot = active)
    BY DEF Inv, Types, CleanupIsAwaited, InSlot
  <1> QED
    BY <1>1, Invariance, PTL
=============================================================================
