--------------------------- MODULE CaptureSession ---------------------------
(***************************************************************************)
(* One audio-caption session after another, as                             *)
(* apps/desktop/src-tauri/src/audio.rs runs them around the supervisor:    *)
(*                                                                         *)
(*   - start_capture, an asynchronous command: one task per session;       *)
(*   - stop_capture, a synchronous command on the main thread;             *)
(*   - the session monitor, a thread polling the supervisor;               *)
(*   - the capture-event forwarder and the transcription thread;           *)
(*   - the cleanup thread, which stops the capture and joins those two.    *)
(*                                                                         *)
(* They meet in the supervisor (SessionSupervisor, one mutex section per   *)
(* action), in the resource slot state.audio.resources, under the control  *)
(* lock of start and stop, and through the cancellation token.  Every lock *)
(* section, and every look at the token between two of them, is a step.    *)
(* What a step reads and a later one uses is kept in a variable, and may   *)
(* be stale by then.                                                       *)
(*                                                                         *)
(* Left out: what is shown (CaptionPresentation), the transcript, logging  *)
(* and metrics; of the audio path only that the transcription ends when    *)
(* nobody can send to it.                                                  *)
(***************************************************************************)
EXTENDS Integers, Sequences

CONSTANTS
  MaxSession, MaxWorker, MaxRevision,   \* as in SessionSupervisor
  MaxStops,      \* presses of Stop
  Scenarios      \* the environments a behaviour may meet

FaultKinds ==
  {"monitorSpawn", "transcriptionSpawn", "forwarderSpawn", "cleanupSpawn",
   "prepare",          \* the model is missing, or does not load
   "prepareJoin",      \* the model-loading worker panics
   "capture",          \* the backend does not start capturing
   "stream",           \* the capture reports an error or ends by itself
   "transcription",    \* the recognizer reports an error
   "panic",            \* the forwarder or the transcription thread panics
   "captureStop",      \* the capture does not stop cleanly
   "overlay",          \* the overlay cannot be placed
   "slow"}             \* stopping takes SHUTDOWN_TIMEOUT

\* How many sessions are started, how many capture events each of them sees,
\* and what may go wrong.
Environments == [sessions : Nat, events : Nat, faults : SUBSET FaultKinds]

ASSUME CaptureBounds ==
  /\ MaxSession \in Nat \ {0} /\ MaxWorker \in Nat \ {0} /\ MaxRevision \in Nat
  /\ MaxStops \in Nat
  /\ Scenarios \subseteq Environments

NoSession == 0
NoWorker == 0
Free == "free"
Starts == 1..(MaxSession - 1)
Roles == {"startup", "transcription", "forwarder", "shutdown"}

VARIABLES
  env,            \* the environment
  \* the supervisor
  snapshot, active, cancelled, workers, cleanupFinished, nextSession,
  nextWorker, reporters, channel, draining,
  \* shared by the threads
  slot,           \* the session whose ActiveAudioResources are stored
  control,        \* who holds state.control
  leases,         \* sessions with a speech record at the resource coordinator
  \* one per session
  start,          \* where start_capture is
  worker,         \* the registered worker of each role
  result,         \* what start_capture returned
  capture,        \* the backend's capture: none, live, stopped
  forwarder, transcription, cleanup, monitor,
  stopResult,     \* ActiveAudioResources::stop succeeded
  failureCleanup, \* the monitor has started the cleanup after a failure
  events,         \* capture events still to come
  \* the main thread
  main, stops

supVars == <<snapshot, active, cancelled, workers, cleanupFinished, nextSession,
             nextWorker, reporters, channel, draining>>
sharedVars == <<slot, control, leases>>
startVars == <<start, result>>
threadVars == <<forwarder, transcription, events>>
cleanupVars == <<cleanup, stopResult>>
monitorVars == <<monitor, failureCleanup>>
mainVars == <<main, stops>>
vars == <<env, supVars, sharedVars, startVars, worker, capture, threadVars, cleanupVars,
          monitorVars, mainVars>>

Sup == INSTANCE SessionSupervisor WITH Modes <- {"audio"}, Sources <- {"device"}

IsActive(s) == Sup!IsActive(s)

Init ==
  /\ Sup!Init
  /\ env \in Scenarios
  /\ slot = NoSession /\ control = Free /\ leases = {}
  /\ start = [s \in Starts |-> "none"]
  /\ worker = [s \in Starts |-> [r \in Roles |-> NoWorker]]
  /\ result = [s \in Starts |-> "none"]
  /\ capture = [s \in Starts |-> "none"]
  /\ forwarder = [s \in Starts |-> "none"]
  /\ transcription = [s \in Starts |-> "none"]
  /\ cleanup = [s \in Starts |-> "none"]
  /\ stopResult = [s \in Starts |-> TRUE]
  /\ monitor = [s \in Starts |-> "none"]
  /\ failureCleanup = [s \in Starts |-> FALSE]
  /\ events = [s \in Starts |-> env.events]
  /\ main = [pc |-> "idle", session |-> NoSession, already |-> FALSE, taken |-> FALSE]
  /\ stops = MaxStops

-----------------------------------------------------------------------------
(* Parts the threads share.                                                *)

Fault(f) == f \in env.faults

\* A supervisor method whose refusal the caller ignores.
Try(enabled, method) ==
  /\ ~draining
  /\ IF enabled THEN method ELSE UNCHANGED supVars

IsLive == snapshot.lifecycle \in Sup!LiveLifecycles

\* register_worker for the session, keeping the reporter under its role.
Register(s, role, lifetime) ==
  /\ Sup!RegisterWorker(s, lifetime)
  /\ worker' = [worker EXCEPT ![s][role] = nextWorker]

\* WorkerReporter::finish, or the report of its Drop.
Report(s, role, outcome) ==
  Sup!ReporterFinish([session |-> s, worker |-> worker[s][role]], outcome)

\* How a worker that returned normally reports.
NormalOutcome(s) == IF s \in cancelled THEN "Cancelled" ELSE "Completed"

\* schedule_cleanup with resources: register the cleanup worker and spawn it.
\* When the session is gone the resources are stopped by an untracked thread.
ScheduleCleanup(s) ==
  /\ ~draining
  /\ IF IsActive(s)
       THEN Register(s, "shutdown", "Shutdown")
       ELSE UNCHANGED <<supVars, worker>>
  /\ cleanup' = [cleanup EXCEPT ![s] = "spawn"]
  /\ UNCHANGED stopResult

\* schedule_cleanup without resources: there is nothing to wait for.
FinishWithoutResources(s) == Try(IsActive(s), Sup!FinishCleanup(s, TRUE))

\* The caller of schedule_cleanup goes on once the thread is spawned, or once
\* the failure to spawn it has been dealt with.
SpawningCleanup(s) == cleanup[s] \in {"spawn", "spawnFailed", "spawnGivenUp"}

-----------------------------------------------------------------------------
(* start_capture.                                                          *)

At(s, pc) == start[s] = pc
Goto(s, pc) == start' = [start EXCEPT ![s] = pc]
Return(s, value) ==
  /\ start' = [start EXCEPT ![s] = "done"]
  /\ result' = [result EXCEPT ![s] = value]

StartCapture ==
  /\ control = Free
  /\ nextSession \in Starts /\ nextSession <= env.sessions
  /\ Sup!Start("audio", "device")
  /\ Goto(nextSession, "spawnMonitor")
  /\ UNCHANGED <<env, sharedVars, result, worker, capture, threadVars, cleanupVars,
                 monitorVars, mainVars>>

SpawnMonitor(s) ==
  /\ At(s, "spawnMonitor")
  /\ monitor' = [monitor EXCEPT ![s] = "poll"]
  /\ Goto(s, "register")
  /\ UNCHANGED <<env, supVars, sharedVars, result, worker, capture, threadVars,
                 cleanupVars, failureCleanup, mainVars>>

\* No monitor: fail_and_publish, then finish_cleanup.
SpawnMonitorFails(s) ==
  /\ Fault("monitorSpawn")
  /\ \/ /\ At(s, "spawnMonitor")
        /\ Try(IsActive(s), Sup!Fail(s))
        /\ Goto(s, "abandon")
        /\ UNCHANGED result
     \/ /\ At(s, "abandon")
        /\ FinishWithoutResources(s)
        /\ Return(s, "error")
  /\ UNCHANGED <<env, sharedVars, worker, capture, threadVars, cleanupVars, monitorVars, mainVars>>

RegisterStartup(s) ==
  /\ At(s, "register")
  /\ ~draining
  /\ IF IsActive(s)
       THEN /\ Register(s, "startup", "Startup")
            /\ Goto(s, "progress")
            /\ UNCHANGED result
       ELSE /\ Return(s, "error")
            /\ UNCHANGED <<supVars, worker>>
  /\ UNCHANGED <<env, sharedVars, capture, threadVars, cleanupVars, monitorVars, mainVars>>

\* update_start_progress, before the model is loaded and before capture starts.
UpdateProgress(s) ==
  /\ \E from \in {"progress", "progressCapture"} :
       /\ At(s, from)
       /\ LET progress == IF from = "progress" THEN "PreparingModel" ELSE "StartingCapture"
              to == IF from = "progress" THEN "prepare" ELSE "capture"
          IN  /\ Try(IsActive(s) /\ snapshot.lifecycle = "Starting" /\ s \notin cancelled,
                     Sup!UpdateStartProgress(s, progress))
              /\ Goto(s, to)
  /\ UNCHANGED <<env, sharedVars, result, worker, capture, threadVars, cleanupVars,
                 monitorVars, mainVars>>

\* models_for_start, prollyglot_models_root and prepare_stream fail.
PrepareFails(s) ==
  /\ \/ Fault("prepare") /\ At(s, "progress") /\ Report(s, "startup", "Failed")
     \/ Fault("prepare") /\ At(s, "prepare") /\ Report(s, "startup", "Failed")
     \/ Fault("prepareJoin") /\ At(s, "prepare") /\ Report(s, "startup", "Panicked")
  /\ Return(s, "error")
  /\ UNCHANGED <<env, sharedVars, worker, capture, threadVars, cleanupVars, monitorVars, mainVars>>

Prepare(s) ==
  /\ At(s, "prepare")
  /\ Goto(s, "prepared")
  /\ UNCHANGED <<env, supVars, sharedVars, result, worker, capture, threadVars,
                 cleanupVars, monitorVars, mainVars>>

CheckCancelled(s) ==
  /\ At(s, "prepared")
  /\ IF s \in cancelled
       THEN Report(s, "startup", "Cancelled") /\ Return(s, "cancelled")
       ELSE Goto(s, "acquire") /\ UNCHANGED <<supVars, result>>
  /\ UNCHANGED <<env, sharedVars, worker, capture, threadVars, cleanupVars, monitorVars, mainVars>>

\* ResourceCoordinator::acquire refuses while a record of another session is left.
AcquireSpeech(s) ==
  /\ At(s, "acquire")
  /\ IF leases \subseteq {s}
       THEN /\ leases' = leases \cup {s}
            /\ Goto(s, "progressCapture")
            /\ UNCHANGED <<supVars, result>>
       ELSE /\ Report(s, "startup", "Failed")
            /\ Return(s, "error")
            /\ UNCHANGED leases
  /\ UNCHANGED <<env, slot, control, worker, capture, threadVars, cleanupVars, monitorVars, mainVars>>

BackendStart(s) ==
  /\ At(s, "capture")
  /\ \/ /\ capture' = [capture EXCEPT ![s] = "live"]
        /\ Goto(s, "transcription")
        /\ UNCHANGED supVars
     \/ /\ Fault("capture")
        /\ Report(s, "startup", "Failed")
        /\ Goto(s, "dropLease")
        /\ UNCHANGED capture
  /\ UNCHANGED <<env, sharedVars, result, worker, threadVars, cleanupVars, monitorVars, mainVars>>

\* The lease is dropped as start_capture returns, after the report.
DropLease(s) ==
  /\ At(s, "dropLease")
  /\ leases' = leases \ {s}
  /\ Return(s, "error")
  /\ UNCHANGED <<env, supVars, slot, control, worker, capture, threadVars, cleanupVars, monitorVars,
                 mainVars>>

RegisterTranscription(s) ==
  /\ At(s, "transcription")
  /\ Register(s, "transcription", "Session")
  /\ Goto(s, "spawnTranscription")
  /\ UNCHANGED <<env, sharedVars, result, capture, threadVars, cleanupVars, monitorVars, mainVars>>

\* A closure that is not spawned drops the reporter and the lease it owns.
SpawnTranscription(s) ==
  /\ At(s, "spawnTranscription")
  /\ \/ /\ transcription' = [transcription EXCEPT ![s] = "run"]
        /\ Goto(s, "forwarder")
        /\ UNCHANGED <<supVars, leases>>
     \/ /\ Fault("transcriptionSpawn")
        /\ Report(s, "transcription", "Exited")
        /\ leases' = leases \ {s}
        /\ Goto(s, "giveUp")
        /\ UNCHANGED transcription
  /\ UNCHANGED <<env, slot, control, result, worker, capture, forwarder, events, cleanupVars,
                 monitorVars, mainVars>>

RegisterForwarder(s) ==
  /\ At(s, "forwarder")
  /\ Register(s, "forwarder", "Session")
  /\ Goto(s, "spawnForwarder")
  /\ UNCHANGED <<env, sharedVars, result, capture, threadVars, cleanupVars, monitorVars, mainVars>>

SpawnForwarder(s) ==
  /\ At(s, "spawnForwarder")
  /\ \/ /\ forwarder' = [forwarder EXCEPT ![s] = "loop"]
        /\ Goto(s, "admit")
        /\ UNCHANGED supVars
     \/ /\ Fault("forwarderSpawn")
        /\ Report(s, "forwarder", "Exited")
        /\ forwarder' = [forwarder EXCEPT ![s] = "ended"]
        /\ Goto(s, "giveUp")
  /\ UNCHANGED <<env, sharedVars, result, worker, capture, transcription, events, cleanupVars,
                 monitorVars, mainVars>>

\* A worker could not be spawned: clean up what there is, then report the failure.
GiveUp(s) ==
  /\ \/ /\ At(s, "giveUp")
        /\ ScheduleCleanup(s)
        /\ Goto(s, "failed")
        /\ UNCHANGED result
     \/ /\ At(s, "failed") /\ ~SpawningCleanup(s)
        /\ Report(s, "startup", "Failed")
        /\ Return(s, "error")
        /\ UNCHANGED <<worker, cleanupVars>>
  /\ UNCHANGED <<env, sharedVars, capture, threadVars, monitorVars, mainVars>>

\* Under the control lock: the token first, then the slot.  The monitor takes
\* from the slot without the control lock.
AdmitCheck(s) ==
  /\ At(s, "admit")
  /\ control = Free
  /\ IF s \in cancelled
       THEN Goto(s, "withdraw") /\ UNCHANGED control
       ELSE Goto(s, "put") /\ control' = "start"
  /\ UNCHANGED <<env, supVars, slot, leases, result, worker, capture, threadVars, cleanupVars,
                 monitorVars, mainVars>>

\* Faulty: the control lock is not given back.
AdmitPutLocked(s) ==
  /\ At(s, "put")
  /\ IF slot # NoSession
       THEN Goto(s, "withdraw") /\ UNCHANGED slot
       ELSE Goto(s, "complete") /\ slot' = s
  /\ UNCHANGED <<env, supVars, control, leases, result, worker, capture, threadVars, cleanupVars,
                 monitorVars, mainVars>>

AdmitPut(s) ==
  /\ At(s, "put")
  /\ control' = Free
  /\ IF slot # NoSession
       THEN Goto(s, "withdraw") /\ UNCHANGED slot
       ELSE Goto(s, "complete") /\ slot' = s
  /\ UNCHANGED <<env, supVars, leases, result, worker, capture, threadVars, cleanupVars,
                 monitorVars, mainVars>>

\* Faulty: the startup worker reports before the cleanup is registered.
WithdrawReportingFirst(s) ==
  /\ \/ /\ At(s, "withdraw")
        /\ Report(s, "startup", "Cancelled")
        /\ Goto(s, "withdrawn")
        /\ UNCHANGED <<result, worker, cleanupVars>>
     \/ /\ At(s, "withdrawn")
        /\ ScheduleCleanup(s)
        /\ Return(s, "cancelled")
  /\ UNCHANGED <<env, sharedVars, capture, threadVars, monitorVars, mainVars>>

Withdraw(s) ==
  /\ \/ /\ At(s, "withdraw")
        /\ ScheduleCleanup(s)
        /\ Goto(s, "withdrawn")
        /\ UNCHANGED result
     \/ /\ At(s, "withdrawn") /\ ~SpawningCleanup(s)
        /\ Report(s, "startup", "Cancelled")
        /\ Return(s, "cancelled")
        /\ UNCHANGED <<worker, cleanupVars>>
  /\ UNCHANGED <<env, sharedVars, capture, threadVars, monitorVars, mainVars>>

CompleteStartup(s) ==
  /\ At(s, "complete")
  /\ Report(s, "startup", "Completed")
  /\ Goto(s, "observe")
  /\ UNCHANGED <<env, sharedVars, result, worker, capture, threadVars, cleanupVars,
                 monitorVars, mainVars>>

\* The lifecycle is read in one lock section and acted upon in the next.
ObserveLifecycle(s) ==
  /\ At(s, "observe")
  /\ ~draining
  /\ CASE snapshot.lifecycle = "Starting" -> Goto(s, "run") /\ UNCHANGED result
       [] snapshot.lifecycle = "Waiting" -> Goto(s, "reveal") /\ UNCHANGED result
       [] OTHER -> Return(s, "cancelled")
  /\ UNCHANGED <<env, supVars, sharedVars, worker, capture, threadVars, cleanupVars,
                 monitorVars, mainVars>>

Run(s) ==
  /\ At(s, "run")
  /\ ~draining
  /\ IF IsActive(s) /\ s \notin cancelled /\ snapshot.lifecycle \in {"Starting", "Waiting"}
       THEN Sup!MarkRunning(s) /\ Goto(s, "reveal") /\ UNCHANGED result
       ELSE /\ Return(s, IF IsActive(s) /\ s \in cancelled THEN "cancelled" ELSE "error")
            /\ UNCHANGED supVars
  /\ UNCHANGED <<env, sharedVars, worker, capture, threadVars, cleanupVars, monitorVars, mainVars>>

\* Under the control lock: a last look at the token, and the overlay of a running
\* session is shown.
Reveal(s) ==
  /\ At(s, "reveal")
  /\ control = Free
  /\ ~draining
  /\ IF s \notin cancelled /\ snapshot.lifecycle = "Running"
       THEN Goto(s, "ask") /\ control' = "start" /\ UNCHANGED result
       ELSE /\ Return(s, IF s \in cancelled THEN "cancelled" ELSE "ok")
            /\ UNCHANGED control
  /\ UNCHANGED <<env, supVars, slot, leases, worker, capture, threadVars, cleanupVars,
                 monitorVars, mainVars>>

\* configure_overlay_window asks the main thread for the monitor, and the start
\* waits for the answer with the control lock in its hands.
ShowOverlay(s) ==
  /\ At(s, "ask")
  /\ main.pc = "idle"
  /\ control' = Free
  /\ \/ Return(s, "ok")
     \/ Fault("overlay") /\ Goto(s, "degrade") /\ UNCHANGED result
  /\ UNCHANGED <<env, supVars, slot, leases, worker, capture, threadVars, cleanupVars,
                 monitorVars, mainVars>>

\* An overlay that cannot be shown degrades the session, and does not end it.
DegradeOverlay(s) ==
  /\ At(s, "degrade")
  /\ Try(IsActive(s) /\ snapshot.lifecycle \in {"Running", "Waiting"},
         Sup!UpdateHealth(s, "Degraded"))
  /\ Return(s, "ok")
  /\ UNCHANGED <<env, sharedVars, worker, capture, threadVars, cleanupVars, monitorVars, mainVars>>

StartStep(s) ==
  \/ SpawnMonitor(s) \/ SpawnMonitorFails(s) \/ RegisterStartup(s) \/ UpdateProgress(s)
  \/ PrepareFails(s) \/ Prepare(s) \/ CheckCancelled(s) \/ AcquireSpeech(s)
  \/ BackendStart(s) \/ DropLease(s) \/ RegisterTranscription(s) \/ SpawnTranscription(s)
  \/ RegisterForwarder(s) \/ SpawnForwarder(s) \/ GiveUp(s)
  \/ AdmitCheck(s) \/ AdmitPut(s) \/ Withdraw(s)
  \/ CompleteStartup(s) \/ ObserveLifecycle(s) \/ Run(s) \/ Reveal(s)
  \/ ShowOverlay(s) \/ DegradeOverlay(s)

-----------------------------------------------------------------------------
(* stop_capture, on the main thread.                                       *)

\* Stop is pressed: from here the main thread serves nobody before the command
\* has returned.
StopPress ==
  /\ main.pc = "idle" /\ stops > 0
  /\ stops' = stops - 1
  /\ main' = [main EXCEPT !.pc = "lock"]
  /\ UNCHANGED <<env, supVars, sharedVars, startVars, worker, capture, threadVars, cleanupVars,
                 monitorVars>>

\* Under the control lock: request_stop_for_mode, then take_resources.
StopRequest ==
  /\ main.pc = "lock"
  /\ control = Free
  /\ \/ /\ Sup!RequestStopForMode("audio")
        /\ control' = "main"
        /\ main' = [pc |-> "take", session |-> active,
                    already |-> snapshot.lifecycle = "Stopping", taken |-> FALSE]
     \/ /\ ~draining /\ active = NoSession           \* nothing to stop: an error
        /\ main' = [main EXCEPT !.pc = "idle"]
        /\ UNCHANGED <<supVars, control>>
  /\ UNCHANGED <<env, slot, leases, startVars, worker, capture, threadVars, cleanupVars,
                 monitorVars, stops>>

\* A second stop that finds nothing to take has nothing to schedule.
StopTake ==
  /\ main.pc = "take"
  /\ LET taken == slot = main.session IN
       /\ slot' = IF taken THEN NoSession ELSE slot
       /\ main' = [main EXCEPT !.taken = taken,
                               !.pc = IF main.already /\ ~taken THEN "idle" ELSE "schedule"]
  /\ control' = Free
  /\ UNCHANGED <<env, supVars, leases, startVars, worker, capture, threadVars, cleanupVars,
                 monitorVars, stops>>

\* Faulty: nothing is finished when there is nothing to stop.
StopScheduleTakenOnly ==
  /\ \/ /\ main.pc = "schedule"
        /\ IF main.taken
             THEN /\ ScheduleCleanup(main.session)
                  /\ main' = [main EXCEPT !.pc = "spawning"]
             ELSE /\ main' = [main EXCEPT !.pc = "idle"]
                  /\ UNCHANGED <<supVars, worker, cleanupVars>>
     \/ /\ main.pc = "spawning" /\ ~SpawningCleanup(main.session)
        /\ main' = [main EXCEPT !.pc = "idle"]
        /\ UNCHANGED <<supVars, worker, cleanupVars>>
  /\ UNCHANGED <<env, sharedVars, startVars, capture, threadVars, monitorVars, stops>>

StopSchedule ==
  /\ \/ /\ main.pc = "schedule"
        /\ IF main.taken
             THEN /\ ScheduleCleanup(main.session)
                  /\ main' = [main EXCEPT !.pc = "spawning"]
             ELSE /\ FinishWithoutResources(main.session)
                  /\ main' = [main EXCEPT !.pc = "idle"]
                  /\ UNCHANGED <<worker, cleanupVars>>
     \/ /\ main.pc = "spawning" /\ ~SpawningCleanup(main.session)
        /\ main' = [main EXCEPT !.pc = "idle"]
        /\ UNCHANGED <<supVars, worker, cleanupVars>>
  /\ UNCHANGED <<env, sharedVars, startVars, capture, threadVars, monitorVars, stops>>

MainStep == StopRequest \/ StopTake \/ StopSchedule

-----------------------------------------------------------------------------
(* The session monitor.                                                    *)

MonitorAt(s, pc) == monitor[s] = pc
MonitorGoto(s, pc) == monitor' = [monitor EXCEPT ![s] = pc]

\* A poll that finds no report and a snapshot it has nothing to do for leaves
\* everything as it is: it is no step.
MonitorDrain(s) ==
  /\ \/ MonitorAt(s, "poll") /\ channel # <<>> /\ Sup!BeginDrain /\ MonitorGoto(s, "drain")
     \/ MonitorAt(s, "drain") /\ Sup!DrainNext /\ UNCHANGED monitor
     \/ MonitorAt(s, "drain") /\ Sup!EndDrain /\ MonitorGoto(s, "look")
  /\ UNCHANGED <<env, sharedVars, startVars, worker, capture, threadVars, cleanupVars,
                 failureCleanup, mainVars>>

\* One look at the snapshot decides the round.  A stop that lasts is timed out
\* in a later lock section; a failure is cleaned up once.
MonitorLook(s) ==
  /\ MonitorAt(s, "look") \/ (MonitorAt(s, "poll") /\ channel = <<>>)
  /\ ~draining
  /\ IF active = NoSession \/ snapshot.session # s
       THEN MonitorGoto(s, "release") /\ UNCHANGED failureCleanup
     ELSE IF snapshot.lifecycle = "Failed" /\ ~failureCleanup[s]
       THEN MonitorGoto(s, "take") /\ failureCleanup' = [failureCleanup EXCEPT ![s] = TRUE]
     ELSE /\ \/ MonitorGoto(s, "poll")
             \/ /\ Fault("slow") /\ snapshot.lifecycle = "Stopping"
                /\ MonitorGoto(s, "timeout")
          /\ UNCHANGED failureCleanup
  /\ UNCHANGED <<env, supVars, sharedVars, startVars, worker, capture, threadVars, cleanupVars,
                 mainVars>>

MonitorTimeout(s) ==
  /\ MonitorAt(s, "timeout")
  /\ Try(IsActive(s), Sup!ShutdownTimedOut(s))
  /\ MonitorGoto(s, "poll")
  /\ UNCHANGED <<env, sharedVars, startVars, worker, capture, threadVars, cleanupVars,
                 failureCleanup, mainVars>>

\* take_resources, under the slot's own lock only.
MonitorTake(s) ==
  /\ MonitorAt(s, "take")
  /\ IF slot = s
       THEN MonitorGoto(s, "schedule") /\ slot' = NoSession
       ELSE MonitorGoto(s, "finish") /\ UNCHANGED slot
  /\ UNCHANGED <<env, supVars, control, leases, startVars, worker, capture, threadVars, cleanupVars,
                 failureCleanup, mainVars>>

MonitorSchedule(s) ==
  /\ \/ /\ MonitorAt(s, "schedule") /\ ScheduleCleanup(s)
        /\ MonitorGoto(s, "spawning")
     \/ /\ MonitorAt(s, "spawning") /\ ~SpawningCleanup(s)
        /\ MonitorGoto(s, "poll")
        /\ UNCHANGED <<supVars, worker, cleanupVars>>
     \/ /\ MonitorAt(s, "finish") /\ FinishWithoutResources(s)
        /\ MonitorGoto(s, "poll")
        /\ UNCHANGED <<worker, cleanupVars>>
  /\ UNCHANGED <<env, sharedVars, startVars, capture, threadVars, failureCleanup, mainVars>>

\* ResourceCoordinator::release_session, then the monitor ends.
MonitorRelease(s) ==
  /\ MonitorAt(s, "release")
  /\ leases' = leases \ {s}
  /\ MonitorGoto(s, "ended")
  /\ UNCHANGED <<env, supVars, slot, control, startVars, worker, capture, threadVars, cleanupVars,
                 failureCleanup, mainVars>>

MonitorStep(s) ==
  \/ MonitorDrain(s) \/ MonitorLook(s) \/ MonitorTimeout(s)
  \/ MonitorTake(s) \/ MonitorSchedule(s) \/ MonitorRelease(s)

-----------------------------------------------------------------------------
(* The capture-event forwarder and the transcription thread.               *)

ForwarderAt(s, pc) == forwarder[s] = pc
ForwarderGoto(s, pc) == forwarder' = [forwarder EXCEPT ![s] = pc]

\* A frame or Capturing resumes a waiting session and may change its health;
\* dropped frames only the latter; Waiting and recovery suspend it.
ForwarderReceive(s) ==
  /\ ForwarderAt(s, "loop")
  /\ s \notin cancelled /\ capture[s] = "live" /\ events[s] > 0
  /\ events' = [events EXCEPT ![s] = @ - 1]
  /\ \E to \in {"wait", "frame", "health"} : ForwarderGoto(s, to)
  /\ UNCHANGED <<env, supVars, sharedVars, startVars, worker, capture, transcription, cleanupVars,
                 monitorVars, mainVars>>

\* Each handler ignores the error of a supervisor that has moved on.
ForwarderHandle(s) ==
  /\ \/ /\ ForwarderAt(s, "wait")
        /\ Try(IsActive(s) /\ IsLive, Sup!MarkWaiting(s))
        /\ ForwarderGoto(s, "loop")
     \/ /\ ForwarderAt(s, "frame") /\ ~draining
        /\ \/ snapshot.lifecycle = "Waiting" /\ ForwarderGoto(s, "resume")
           \/ snapshot.lifecycle # "Waiting" /\ ForwarderGoto(s, "health")
           \/ snapshot.lifecycle # "Waiting" /\ ForwarderGoto(s, "loop")
        /\ UNCHANGED supVars
     \/ /\ ForwarderAt(s, "resume")
        /\ Try(IsActive(s) /\ s \notin cancelled /\ snapshot.lifecycle \in {"Starting", "Waiting"},
               Sup!MarkRunning(s))
        /\ \E to \in {"health", "loop"} : ForwarderGoto(s, to)
     \/ /\ ForwarderAt(s, "health")
        /\ \E level \in {"Healthy", "Degraded"} :
             Try(IsActive(s) /\ snapshot.lifecycle \in {"Running", "Waiting"},
                 Sup!UpdateHealth(s, level))
        /\ ForwarderGoto(s, "loop")
  /\ UNCHANGED <<env, sharedVars, startVars, worker, capture, transcription, events, cleanupVars,
                 monitorVars, mainVars>>

\* The loop ends with the token, with the capture, or with an error of either.
ForwarderEnd(s) ==
  /\ ForwarderAt(s, "loop")
  /\ \/ s \in cancelled /\ Report(s, "forwarder", "Cancelled")
     \/ /\ capture[s] = "stopped" /\ s \notin cancelled
        /\ \E outcome \in {"Completed", "Failed"} : Report(s, "forwarder", outcome)
     \/ Fault("stream") /\ s \notin cancelled /\ Report(s, "forwarder", "Failed")
     \/ Fault("panic") /\ Report(s, "forwarder", "Panicked")
  /\ ForwarderGoto(s, "ended")
  /\ UNCHANGED <<env, sharedVars, startVars, worker, capture, transcription, events, cleanupVars,
                 monitorVars, mainVars>>

\* transcription::run ends when nobody can send audio any more.
TranscriptionEnd(s) ==
  /\ \/ /\ transcription[s] = "run"
        /\ \/ forwarder[s] = "ended" /\ Report(s, "transcription", NormalOutcome(s))
           \/ Fault("transcription") /\ Report(s, "transcription", "Failed")
           \/ Fault("panic") /\ Report(s, "transcription", "Panicked")
        /\ transcription' = [transcription EXCEPT ![s] = "reported"]
        /\ UNCHANGED leases
     \* the lease is dropped with the closure, after the report
     \/ /\ transcription[s] = "reported"
        /\ transcription' = [transcription EXCEPT ![s] = "ended"]
        /\ leases' = leases \ {s}
        /\ UNCHANGED supVars
  /\ UNCHANGED <<env, slot, control, startVars, worker, capture, forwarder, events, cleanupVars,
                 monitorVars, mainVars>>

-----------------------------------------------------------------------------
(* The cleanup thread.                                                     *)

CleanupAt(s, pc) == cleanup[s] = pc
CleanupGoto(s, pc) == cleanup' = [cleanup EXCEPT ![s] = pc]
Tracked(s) == worker[s]["shutdown"] # NoWorker

CleanupSpawn(s) ==
  /\ CleanupAt(s, "spawn") /\ CleanupGoto(s, "stop")
  /\ UNCHANGED <<env, supVars, sharedVars, startVars, worker, capture, threadVars, stopResult,
                 monitorVars, mainVars>>

\* The closure that is not spawned drops its reporter and the resources, whose
\* capture stops and whose threads are detached; the session is failed, then
\* its cleanup is declared finished.
CleanupSpawnFails(s) ==
  /\ \/ /\ Fault("cleanupSpawn") /\ CleanupAt(s, "spawn")
        /\ capture' = [capture EXCEPT ![s] = "stopped"]
        /\ IF Tracked(s)
             THEN Report(s, "shutdown", "Exited") /\ CleanupGoto(s, "spawnFailed")
             ELSE CleanupGoto(s, "ended") /\ UNCHANGED supVars
     \/ /\ CleanupAt(s, "spawnFailed")
        /\ Try(IsActive(s), Sup!Fail(s))
        /\ CleanupGoto(s, "spawnGivenUp")
        /\ UNCHANGED capture
     \/ /\ CleanupAt(s, "spawnGivenUp")
        /\ Try(IsActive(s), Sup!FinishCleanup(s, FALSE))
        /\ CleanupGoto(s, "ended")
        /\ UNCHANGED capture
  /\ UNCHANGED <<env, sharedVars, startVars, worker, threadVars, stopResult, monitorVars, mainVars>>

\* ActiveAudioResources::stop: stop the capture, then join the two threads.
CleanupStop(s) ==
  /\ \/ /\ CleanupAt(s, "stop")
        /\ capture' = [capture EXCEPT ![s] = "stopped"]
        /\ \E ok \in {TRUE} \cup (IF Fault("captureStop") THEN {FALSE} ELSE {}) :
             stopResult' = [stopResult EXCEPT ![s] = ok]
        /\ CleanupGoto(s, "join")
     \/ /\ CleanupAt(s, "join")
        /\ {forwarder[s], transcription[s]} \subseteq {"none", "ended"}
        /\ CleanupGoto(s, IF Tracked(s) THEN "report" ELSE "ended")
        /\ UNCHANGED <<capture, stopResult>>
  /\ UNCHANGED <<env, supVars, sharedVars, startVars, worker, threadVars, monitorVars, mainVars>>

\* The worker reports before it hands over the result of the stop.
CleanupFinish(s) ==
  /\ \/ /\ CleanupAt(s, "report") /\ Report(s, "shutdown", "Completed")
        /\ CleanupGoto(s, "finish")
     \/ /\ CleanupAt(s, "finish")
        /\ Try(IsActive(s), Sup!FinishCleanup(s, stopResult[s]))
        /\ CleanupGoto(s, "ended")
  /\ UNCHANGED <<env, sharedVars, startVars, worker, capture, threadVars, stopResult, monitorVars,
                 mainVars>>

CleanupStep(s) ==
  CleanupSpawn(s) \/ CleanupSpawnFails(s) \/ CleanupStop(s) \/ CleanupFinish(s)

-----------------------------------------------------------------------------
ForwarderStep(s) == ForwarderReceive(s) \/ ForwarderHandle(s) \/ ForwarderEnd(s)

Next ==
  \/ StartCapture
  \/ StopPress \/ MainStep
  \/ \E s \in Starts :
       StartStep(s) \/ MonitorStep(s) \/ ForwarderStep(s) \/ TranscriptionEnd(s) \/ CleanupStep(s)

Spec == Init /\ [][Next]_vars

\* Every thread runs.  A lock is taken finitely often, a poll that finds nothing
\* being no step, so that a thread waiting for one finds it free from some point
\* on, unless its holder waits for ever: the control lock in Deadlocked, below.
\* Nobody has to press Start or Stop, and no capture event has to arrive.
Fairness ==
  /\ WF_vars(MainStep)
  /\ \A s \in Starts :
       /\ WF_vars(StartStep(s))
       /\ WF_vars(MonitorStep(s))
       /\ WF_vars(ForwarderHandle(s) \/ ForwarderEnd(s))
       /\ WF_vars(TranscriptionEnd(s))
       /\ WF_vars(CleanupStep(s))

FairSpec == Spec /\ Fairness

-----------------------------------------------------------------------------
(* Properties.                                                             *)

TypeOK ==
  /\ Sup!TypeOK
  /\ slot \in Starts \cup {NoSession}
  /\ control \in {Free, "start", "main"}
  /\ leases \subseteq Starts
  /\ worker \in [Starts -> [Roles -> 0..MaxWorker]]
  /\ result \in [Starts -> {"none", "ok", "cancelled", "error"}]
  /\ capture \in [Starts -> {"none", "live", "stopped"}]
  /\ transcription \in [Starts -> {"none", "run", "reported", "ended"}]
  /\ stopResult \in [Starts -> BOOLEAN]
  /\ failureCleanup \in [Starts -> BOOLEAN]
  /\ main \in [pc : {"idle", "lock", "take", "schedule", "spawning"},
               session : Starts \cup {NoSession}, already : BOOLEAN, taken : BOOLEAN]
  /\ stops \in 0..MaxStops

Started == {s \in Starts : s < nextSession}
Released(s) == s \in Started /\ active # s

\* start_capture between the registration of its startup worker and the report
\* of that worker.
InStartup(s) ==
  start[s] \notin {"none", "spawnMonitor", "abandon", "register", "dropLease", "observe",
                   "run", "reveal", "ask", "degrade", "done"}

\* As long as start_capture has not reported, its session stays the active one,
\* whatever Stop, the timeout and the monitor do meanwhile.  This is what makes
\* the `?` after its later registrations unreachable, and what keeps Start from
\* being accepted while a model is still loading for a stopped session.
StartupHoldsTheSession ==
  \A s \in Starts : InStartup(s) => active = s

\* A thread that has reported its failure, and is awaited by nobody, still has to
\* return and drop its lease: a start whose capture did not start, or a recognizer
\* whose cleanup thread could not be spawned.
KeepsLeaseToReturn(s) ==
  \/ At(s, "dropLease")
  \/ Fault("cleanupSpawn") /\ transcription[s] = "reported"

\* A session that ends by Stop and gives up the supervisor has left nothing
\* running: its capture is stopped, its threads have ended or have only to return,
\* and no start meets its speech record, which the coordinator would refuse, but
\* for those that only drop it on their way out.
\* This is "joined" in the lifecycle of ARCHITECTURE.md, across three threads
\* that may each be the one to clean up.  It is not said of a session whose
\* failure the monitor cleans up: that cleanup may cross the start that stores
\* the resources, or the Stop that has just taken them.
ReleasedMeansQuiet ==
  \A s \in Starts : Released(s) /\ ~failureCleanup[s] =>
    /\ capture[s] # "live"
    /\ forwarder[s] \in {"none", "ended"}
    /\ transcription[s] \in {"none", "reported", "ended"}
    /\ cleanup[s] \in {"none", "finish", "spawnFailed", "spawnGivenUp", "ended"}
    /\ s \in leases /\ (\E t \in Starts : At(t, "acquire")) => KeepsLeaseToReturn(s)

\* The stored resources are those of the active session, so that every stop and
\* every failure finds them, and the next start finds an empty slot.
SlotBelongsToActive ==
  slot # NoSession => slot = active

\* start_capture says "Session startup was cancelled." only of a session that
\* has been cancelled.
NoFalseCancellation ==
  \A s \in Starts : result[s] = "cancelled" => s \in cancelled

\* A worker's failure is applied without try_finalize_cleanup: when it is the
\* last report and the cleanup is over, nobody releases the session.
FailedLate == cleanupFinished /\ DOMAIN workers = {}

\* A stop completes, and a failure is cleaned up, without a second click, unless
\* the last report is a failure.
EndingSessionIsReleased ==
  []<>(active = NoSession \/ snapshot.lifecycle \notin {"Stopping", "Failed"} \/ FailedLate)

\* The same without the exception: "Failed --cleanup--> next Start is legal".
NextStartIsLegal ==
  []<>(active = NoSession \/ snapshot.lifecycle \notin {"Stopping", "Failed"})

\* The start waits for the main thread with the control lock in its hands, and the
\* main thread waits for that lock in stop_capture: neither goes on.
Deadlocked == main.pc = "lock" /\ control = "start" /\ \E s \in Starts : At(s, "ask")

\* Every start returns, unless Stop is pressed while the start that shows the
\* overlay waits for the main thread: that start and that Stop wait for each other
\* for ever.  Whatever else keeps the control lock is excluded.
StartReturns == []<>((\A s \in Starts : start[s] \in {"none", "done"}) \/ Deadlocked)

\* The same without the exception, from the other side: "Stop is idempotent.  It
\* acknowledges promptly" (ARCHITECTURE.md).
StopIsAcknowledged == main.pc = "lock" ~> main.pc # "lock"
=============================================================================
