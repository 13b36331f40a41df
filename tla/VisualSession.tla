---------------------------- MODULE VisualSession ----------------------------
(***************************************************************************)
(* Screen translation, as apps/desktop/src-tauri/src/visual.rs runs it     *)
(* around the supervisor: the asynchronous start command, Stop, the        *)
(* session monitor, the OCR processor, the capture-event thread and the    *)
(* cleanup thread, and the one thing audio captions do not have: an        *)
(* overlay window that several of them configure, show, hide and clear.    *)
(*                                                                         *)
(* Windows belong to the main thread.  What another thread asks of one is  *)
(* posted to the main thread's event loop (ui) and done there in order,    *)
(* while a synchronous command, such as Stop, acts at once.  On Linux      *)
(* configure_overlay also waits for the main thread's answer.              *)
(*                                                                         *)
(* Every lock section of the supervisor is a step of its own; pc values    *)
(* name what a thread does next.  Left out: what the regions say, OCR and  *)
(* stabilisation (VisualPipeline), the OCR lease (InferenceResources), the *)
(* presentation revision (a frame may be refused for it at any time), and  *)
(* the published status.                                                   *)
(***************************************************************************)
EXTENDS Integers, Sequences

CONSTANTS
  MaxSession, MaxWorker, MaxRevision,   \* as in SessionSupervisor
  Scenarios      \* the environments a behaviour may meet

\* A behaviour meets one kind of failure, or none.
FaultKinds ==
  {"none",
   "preparation",  \* the OCR model, the capture or the overlay window
   "dismissed",    \* the user closes the desktop's picker
   "spawn", "captureStop", "slow",
   "closed",       \* the shared source goes away
   "report",       \* the capture reports an error
   "ocr",          \* OCR fails on every frame
   "emit"}         \* a presentation is not delivered to the overlay, and OCR may fail

\* What surrounds a session: the platform, the failure it may meet, and how many
\* frames are analysed, capture events handled, frames published by the WebView
\* and presses of Stop there are.
Environments ==
  [platform : {"linux", "windows"}, fault : FaultKinds,
   frames : Nat, events : Nat, presents : Nat, stops : Nat]

ASSUME VisualBounds ==
  /\ MaxSession \in Nat \ {0} /\ MaxWorker \in Nat \ {0} /\ MaxRevision \in Nat
  /\ Scenarios \subseteq Environments

NoSession == 0
NoWorker == 0
Starts == 1..(MaxSession - 1)
Roles == {"startup", "processor", "events", "shutdown"}
Main == <<"main", NoSession>>
\* Who may be clearing up a session.
Callers == {Main} \cup ({"start", "monitor"} \X Starts)

VARIABLES
  snapshot, active, cancelled, workers, cleanupFinished, nextSession, nextWorker,
  reporters, channel, draining,            \* the supervisor
  env,         \* the environment
  slot,        \* the session whose ActiveVisualResources are stored
  control,     \* the control lock: free, or held by a start
  start, capture, processor, events, cleanup, monitor,   \* one pc per session
  worker,      \* the registered worker of each role
  stopResult, failureCleanup,
  job,         \* clearing up, per caller: where it is and for what
  budget,      \* frames and events a session still has
  text,        \* per session, the revision of the text the main WebView holds, 0 for none
  pass,        \* per session, the revision its OCR pass was compared with
  output,      \* visual.overlay_output: owner, revision, and whether it has regions;
               \* restored, which no step reads: it was put back over a later one
  shown,       \* the overlay window is visible
  ui,          \* what was posted to the main thread, oldest first
  frame,       \* the presentation the main thread is applying
  stops, presents

supVars == <<snapshot, active, cancelled, workers, cleanupFinished, nextSession,
             nextWorker, reporters, channel, draining>>
overlayVars == <<output, shown, ui>>
mainVars == <<frame, stops, presents>>
threadVars == <<processor, events, budget, pass>>
cleanupVars == <<cleanup, capture, stopResult>>
monitorVars == <<monitor, failureCleanup>>
vars == <<supVars, env, slot, control, start, worker, job, text, overlayVars, mainVars,
          threadVars, cleanupVars, monitorVars>>

Sup == INSTANCE SessionSupervisor WITH Modes <- {"visual"}, Sources <- {"picked"}

IsActive(s) == Sup!IsActive(s)
Fault(f) == env.fault = f
IsLive == snapshot.lifecycle \in Sup!LiveLifecycles
Owns(s) == snapshot.session = s
IsWaiting(s) == Owns(s) /\ snapshot.lifecycle = "Waiting"
IsRunning(s) == Owns(s) /\ snapshot.lifecycle = "Running"

Output(s, revision, regions) ==
  [session |-> s, revision |-> revision, regions |-> regions, restored |-> FALSE]
NoOutput == Output(NoSession, 0, FALSE)
NoFrame == [pc |-> "none", session |-> NoSession, revision |-> 0, running |-> FALSE,
            previous |-> NoOutput]
NoJob == [pc |-> "idle", session |-> NoSession, revision |-> 0, held |-> FALSE,
          already |-> FALSE]
PerSession(value) == [s \in Starts |-> value]

Init ==
  /\ Sup!Init
  /\ env \in Scenarios
  /\ slot = NoSession /\ control = "free"
  /\ start = PerSession("none") /\ capture = PerSession("none")
  /\ processor = PerSession("none") /\ events = PerSession("none")
  /\ cleanup = PerSession("none") /\ monitor = PerSession("none")
  /\ worker = PerSession([r \in Roles |-> NoWorker])
  /\ stopResult = PerSession(TRUE) /\ failureCleanup = PerSession(FALSE)
  /\ job = [c \in Callers |-> NoJob]
  /\ budget = PerSession([frames |-> env.frames, events |-> env.events])
  /\ text = PerSession(0) /\ pass = PerSession(0)
  /\ output = NoOutput
  /\ shown = FALSE /\ ui = <<>>
  /\ frame = NoFrame /\ stops = env.stops /\ presents = env.presents

-----------------------------------------------------------------------------
(* What the threads share.                                                 *)

\* A supervisor method whose refusal the caller ignores.
Try(enabled, method) ==
  /\ ~draining
  /\ IF enabled THEN method ELSE UNCHANGED supVars

Register(s, role, lifetime) ==
  /\ Sup!RegisterWorker(s, lifetime)
  /\ worker' = [worker EXCEPT ![s][role] = nextWorker]

Report(s, role, outcome) ==
  Sup!ReporterFinish([session |-> s, worker |-> worker[s][role]], outcome)

NormalOutcome(s) == IF s \in cancelled THEN "Cancelled" ELSE "Completed"

\* The main thread runs one command, or one posted request, at a time.
MainIsIdle == frame.pc \in {"none", "queued"} /\ job[Main].pc = "idle"

Post(request) == ui' = Append(ui, request)
NoCaller == <<"none", NoSession>>
Hiding == [kind |-> "hide", by |-> NoCaller, session |-> NoSession]

\* hide_visual_overlay and the hide of clear_visual_output, by a caller.
HideBy(c) ==
  IF c = Main THEN shown' = FALSE /\ UNCHANGED ui ELSE Post(Hiding) /\ UNCHANGED shown

\* configure_visual_overlay.  On Linux the request carries the session the
\* output belongs to, and the caller waits until the main thread has served it.
Configure(caller, show) ==
  /\ Post([kind |-> IF show THEN "show" ELSE "hide",
           by |-> IF env.platform = "linux" THEN caller ELSE NoCaller,
           session |-> output.session])
  /\ UNCHANGED shown
Served(caller) == \A i \in DOMAIN ui : ui[i].by # caller

\* Faulty: the main thread does not look whether the session is still live.
ServeUiUnchecked ==
  /\ ui # <<>> /\ MainIsIdle
  /\ ui' = Tail(ui)
  /\ shown' = (Head(ui).kind = "show")
  /\ UNCHANGED <<supVars, env, slot, control, start, worker, job, text, output, mainVars,
                 threadVars, cleanupVars, monitorVars>>

\* The main thread serves its event loop.  The closure of the Linux
\* configure_overlay looks at the snapshot first; plain hides and the Windows
\* calls are carried out as they come.
ServeUi ==
  /\ ui # <<>> /\ MainIsIdle /\ ~draining
  /\ ui' = Tail(ui)
  /\ LET request == Head(ui) IN
     shown' = IF request.by # NoCaller /\ ~(Owns(request.session) /\ IsLive)
                THEN shown ELSE request.kind = "show"
  /\ UNCHANGED <<supVars, env, slot, control, start, worker, job, text, output, mainVars,
                 threadVars, cleanupVars, monitorVars>>

-----------------------------------------------------------------------------
(* clear_visual_output and schedule_cleanup, by whoever calls them.        *)

BeginJob(c, s, held, pc) ==
  job' = [job EXCEPT ![c] = [pc |-> pc, session |-> s, revision |-> 0, held |-> held,
                             already |-> FALSE]]
JobAt(c, pc) == job[c].pc = pc
JobTo(c, pc) == job' = [job EXCEPT ![c].pc = pc]
Done(c) == JobAt(c, "idle")

\* clear_visual_output overwrites the output whoever owns it.  Stop calls it
\* once itself, and every schedule_cleanup begins with it.
Clear(c) ==
  /\ job[c].pc \in {"clearStop", "clear"}
  /\ output' = Output(job[c].session, job[c].revision, FALSE)
  /\ text' = [text EXCEPT ![job[c].session] = 0]
  /\ HideBy(c)
  /\ JobTo(c, IF JobAt(c, "clearStop")
                THEN IF job[c].already /\ ~job[c].held THEN "idle" ELSE "read"
                ELSE IF job[c].held THEN "register" ELSE "finish")
  /\ UNCHANGED <<supVars, env, slot, control, start, worker, mainVars, threadVars,
                 cleanupVars, monitorVars>>

ReadRevision(c) ==
  /\ JobAt(c, "read") /\ ~draining
  /\ job' = [job EXCEPT ![c].pc = "clear", ![c].revision = snapshot.revision]
  /\ UNCHANGED <<supVars, env, slot, control, start, worker, text, overlayVars, mainVars,
                 threadVars, cleanupVars, monitorVars>>

\* Faulty: without resources nothing is left to do.
RegisterCleanupOnly(c) ==
  LET s == job[c].session IN
  /\ \/ JobAt(c, "finish") /\ JobTo(c, "idle") /\ UNCHANGED <<supVars, worker>>
     \/ /\ JobAt(c, "register") /\ ~draining
        /\ IF IsActive(s) THEN Register(s, "shutdown", "Shutdown")
                          ELSE UNCHANGED <<supVars, worker>>
        /\ JobTo(c, "spawn")
  /\ UNCHANGED <<env, slot, control, start, text, overlayVars, mainVars, threadVars,
                 cleanupVars, monitorVars>>

\* No resources: the cleanup is finished.  With resources: register the cleanup
\* worker; of a session that is gone they are stopped by an untracked thread.
RegisterCleanup(c) ==
  LET s == job[c].session IN
  /\ \/ /\ JobAt(c, "finish")
        /\ Try(IsActive(s), Sup!FinishCleanup(s, TRUE))
        /\ JobTo(c, "idle")
        /\ UNCHANGED worker
     \/ /\ JobAt(c, "register") /\ ~draining
        /\ IF IsActive(s) THEN Register(s, "shutdown", "Shutdown")
                          ELSE UNCHANGED <<supVars, worker>>
        /\ JobTo(c, "spawn")
  /\ UNCHANGED <<env, slot, control, start, text, overlayVars, mainVars, threadVars,
                 cleanupVars, monitorVars>>

\* A closure that is not spawned drops its reporter and the resources, which
\* stops the capture; the session is failed, then its cleanup declared finished.
SpawnCleanup(c) ==
  LET s == job[c].session IN
  /\ \/ /\ JobAt(c, "spawn")
        /\ cleanup' = [cleanup EXCEPT ![s] = "stop"]
        /\ JobTo(c, "idle")
        /\ UNCHANGED <<supVars, capture>>
     \/ /\ JobAt(c, "spawn") /\ Fault("spawn") /\ worker[s]["shutdown"] # NoWorker
        /\ Report(s, "shutdown", "Exited")
        /\ capture' = [capture EXCEPT ![s] = "stopped"]
        /\ JobTo(c, "fail")
        /\ UNCHANGED cleanup
     \/ /\ JobAt(c, "fail") /\ Try(IsActive(s), Sup!Fail(s))
        /\ JobTo(c, "finishFailed")
        /\ UNCHANGED <<cleanup, capture>>
     \/ /\ JobAt(c, "finishFailed") /\ Try(IsActive(s), Sup!FinishCleanup(s, FALSE))
        /\ JobTo(c, "idle")
        /\ UNCHANGED <<cleanup, capture>>
  /\ UNCHANGED <<env, slot, control, start, worker, text, overlayVars, mainVars, threadVars,
                 stopResult, monitorVars>>

\* The cleanup thread: stop the capture, join both threads, report, and hand
\* over the result of the stop.
CleanupStep(s) ==
  LET Goto(pc) == cleanup' = [cleanup EXCEPT ![s] = pc] IN
  /\ \/ /\ cleanup[s] = "stop" /\ Goto("join")
        /\ capture' = [capture EXCEPT ![s] = "stopped"]
        /\ \E ok \in {TRUE} \cup {FALSE : f \in {"captureStop"} \cap {env.fault}} :
             stopResult' = [stopResult EXCEPT ![s] = ok]
        /\ UNCHANGED supVars
     \/ /\ cleanup[s] = "join" /\ {processor[s], events[s]} \subseteq {"none", "ended"}
        /\ Goto(IF worker[s]["shutdown"] = NoWorker THEN "ended" ELSE "report")
        /\ UNCHANGED <<supVars, capture, stopResult>>
     \/ /\ cleanup[s] = "report" /\ Goto("finish") /\ Report(s, "shutdown", "Completed")
        /\ UNCHANGED <<capture, stopResult>>
     \/ /\ cleanup[s] = "finish" /\ Goto("ended")
        /\ Try(IsActive(s), Sup!FinishCleanup(s, stopResult[s]))
        /\ UNCHANGED <<capture, stopResult>>
  /\ UNCHANGED <<env, slot, control, start, worker, job, text, overlayVars, mainVars,
                 threadVars, monitorVars>>

JobStep(c) == Clear(c) \/ ReadRevision(c) \/ RegisterCleanup(c) \/ SpawnCleanup(c)

\* stop_visual_translation: under the control lock request the stop and take
\* the resources, then clear up.
Stop(c) ==
  /\ control = "free"
  /\ Sup!RequestStopForMode("visual")
  /\ job' = [job EXCEPT ![c] =
       [pc |-> "clearStop", session |-> active, revision |-> snapshot'.revision,
        held |-> slot = active, already |-> snapshot.lifecycle = "Stopping"]]
  /\ slot' = IF slot = active THEN NoSession ELSE slot

\* The command waits for the control lock on the main thread; without a session
\* it returns an error.
StopPressed ==
  /\ \/ /\ stops > 0 /\ MainIsIdle
        /\ stops' = stops - 1
        /\ JobTo(Main, "lock")
        /\ UNCHANGED <<supVars, slot>>
     \/ /\ JobAt(Main, "lock")
        /\ \/ Stop(Main)
           \/ /\ control = "free" /\ ~draining /\ active = NoSession
              /\ JobTo(Main, "idle")
              /\ UNCHANGED <<supVars, slot>>
        /\ UNCHANGED stops
  /\ UNCHANGED <<env, control, start, worker, text, overlayVars, frame, presents,
                 threadVars, cleanupVars, monitorVars>>

-----------------------------------------------------------------------------
(* start_visual_translation.                                               *)

At(s, pc) == start[s] = pc
Goto(s, pc) == start' = [start EXCEPT ![s] = pc]
Starter(s) == <<"start", s>>

\* schedule_cleanup, then the startup worker reports and the command returns.
GiveUp(s, how) ==
  /\ BeginJob(Starter(s), s, TRUE, "read")
  /\ Goto(s, how)

StartVisualTranslation ==
  /\ control = "free"
  /\ nextSession \in Starts
  /\ Sup!Start("visual", "picked")
  /\ Goto(nextSession, "reset")
  /\ UNCHANGED <<env, slot, control, worker, job, text, overlayVars, mainVars, threadVars,
                 cleanupVars, monitorVars>>

\* The output is handed to the new session after the control lock is given back.
ResetOutput(s) ==
  /\ At(s, "reset")
  /\ output' = Output(s, 1, FALSE)
  /\ Goto(s, "monitor")
  /\ UNCHANGED <<supVars, env, slot, control, worker, job, text, shown, ui, mainVars,
                 threadVars, cleanupVars, monitorVars>>

SpawnMonitor(s) ==
  /\ \/ /\ At(s, "monitor") /\ Goto(s, "register")
        /\ monitor' = [monitor EXCEPT ![s] = "poll"]
        /\ UNCHANGED supVars
     \/ /\ At(s, "monitor") /\ Fault("spawn") /\ Goto(s, "abandon")
        /\ Try(IsActive(s), Sup!Fail(s))
        /\ UNCHANGED monitor
     \/ /\ At(s, "abandon") /\ Goto(s, "done")
        /\ Try(IsActive(s), Sup!FinishCleanup(s, TRUE))
        /\ UNCHANGED monitor
  /\ UNCHANGED <<env, slot, control, worker, job, text, overlayVars, mainVars, threadVars,
                 cleanupVars, failureCleanup>>

RegisterStartup(s) ==
  /\ At(s, "register") /\ ~draining
  /\ IF IsActive(s)
       THEN Register(s, "startup", "Startup") /\ Goto(s, "preparing")
       ELSE Goto(s, "done") /\ UNCHANGED <<supVars, worker>>
  /\ UNCHANGED <<env, slot, control, job, text, overlayVars, mainVars, threadVars,
                 cleanupVars, monitorVars>>

\* update_start_progress before the model is loaded and before the picker opens.
UpdateProgress(s) ==
  /\ \E step \in {<<"preparing", "PreparingModel", "load">>,
                  <<"starting", "StartingCapture", "capture">>} :
       /\ At(s, step[1]) /\ Goto(s, step[3])
       /\ Try(IsActive(s) /\ snapshot.lifecycle = "Starting" /\ s \notin cancelled,
              Sup!UpdateStartProgress(s, step[2]))
  /\ UNCHANGED <<env, slot, control, worker, job, text, overlayVars, mainVars, threadVars,
                 cleanupVars, monitorVars>>

\* Load the OCR engine, look at the token, acquire the lease.
LoadEngine(s) ==
  /\ At(s, "load")
  /\ \/ s \notin cancelled /\ Goto(s, "starting") /\ UNCHANGED supVars
     \/ s \in cancelled /\ Goto(s, "done") /\ Report(s, "startup", "Cancelled")
     \/ Fault("preparation") /\ Goto(s, "done") /\ Report(s, "startup", "Failed")
  /\ UNCHANGED <<env, slot, control, worker, job, text, overlayVars, mainVars, threadVars,
                 cleanupVars, monitorVars>>

\* visual_capture::start_capture: the picker, and on Linux the wait for the
\* first frame, end early when the session is cancelled.
StartCapture(s) ==
  /\ At(s, "capture")
  /\ \/ /\ capture' = [capture EXCEPT ![s] = "live"]
        /\ Goto(s, "resolve")
        /\ UNCHANGED supVars
     \/ /\ s \in cancelled \/ Fault("dismissed")
        /\ Goto(s, "dismissed")
        /\ UNCHANGED <<supVars, capture>>
     \/ /\ Fault("preparation")
        /\ Goto(s, "done") /\ Report(s, "startup", "Failed")
        /\ UNCHANGED capture
  /\ UNCHANGED <<env, slot, control, worker, job, text, overlayVars, mainVars, threadVars,
                 cleanup, stopResult, monitorVars>>

\* Dismissing the picker is a Stop, by this thread.
StopDismissed(s) ==
  /\ At(s, "dismissed") /\ Stop(Starter(s))
  /\ Goto(s, "cancelled")
  /\ UNCHANGED <<env, control, worker, text, overlayVars, mainVars, threadVars,
                 cleanupVars, monitorVars>>

\* The token is looked at once more; then the source becomes the session's.
Resolve(s) ==
  /\ At(s, "resolve")
  /\ \/ s \in cancelled /\ GiveUp(s, "cancelled") /\ UNCHANGED supVars
     \/ /\ s \notin cancelled
        /\ Try(IsActive(s) /\ IsLive, Sup!UpdateSource(s, "picked"))
        /\ Goto(s, "place")
        /\ UNCHANGED job
  /\ UNCHANGED <<env, slot, control, worker, text, overlayVars, mainVars, threadVars,
                 cleanupVars, monitorVars>>

\* configure_visual_overlay, not yet shown.
Place(s) ==
  /\ \/ At(s, "place") /\ Configure(Starter(s), FALSE) /\ Goto(s, "placed") /\ UNCHANGED job
     \/ /\ At(s, "placed") /\ Served(Starter(s))
        /\ \/ Goto(s, "processor") /\ UNCHANGED job
           \/ Fault("preparation") /\ GiveUp(s, "failed")
        /\ UNCHANGED <<shown, ui>>
  /\ UNCHANGED <<supVars, env, slot, control, worker, text, output, mainVars, threadVars,
                 cleanupVars, monitorVars>>

\* Register and spawn the two session workers, one after the other.
RegisterThreads(s) ==
  /\ \E role \in {"processor", "events"} :
       At(s, role) /\ Register(s, role, "Session")
       /\ Goto(s, IF role = "processor" THEN "spawnProcessor" ELSE "spawnEvents")
  /\ UNCHANGED <<env, slot, control, job, text, overlayVars, mainVars, threadVars,
                 cleanupVars, monitorVars>>

SpawnThreads(s) ==
  /\ \/ /\ At(s, "spawnProcessor") /\ Goto(s, "events")
        /\ processor' = [processor EXCEPT ![s] = "loop"]
        /\ UNCHANGED <<supVars, job, events>>
     \/ /\ At(s, "spawnEvents") /\ Goto(s, "admit")
        /\ events' = [events EXCEPT ![s] = "loop"]
        /\ UNCHANGED <<supVars, job, processor>>
     \/ /\ Fault("spawn") /\ start[s] \in {"spawnProcessor", "spawnEvents"}
        /\ Report(s, IF At(s, "spawnProcessor") THEN "processor" ELSE "events", "Exited")
        /\ GiveUp(s, "failed")
        /\ UNCHANGED <<processor, events>>
  /\ UNCHANGED <<env, slot, control, worker, text, overlayVars, mainVars, budget, pass,
                 cleanupVars, monitorVars>>

\* Faulty: the resources are stored although the session was cancelled.
AdmitCancelled(s) ==
  /\ At(s, "admit") /\ control = "free"
  /\ slot' = s /\ Goto(s, "complete") /\ UNCHANGED <<job, control>>
  /\ UNCHANGED <<supVars, env, worker, text, overlayVars, mainVars, threadVars,
                 cleanupVars, monitorVars>>

\* Under the control lock: look at the token, then store the resources.
Admit(s) ==
  /\ \/ /\ At(s, "admit") /\ control = "free"
        /\ IF s \in cancelled THEN GiveUp(s, "cancelled") /\ UNCHANGED control
                             ELSE Goto(s, "put") /\ control' = "start" /\ UNCHANGED job
        /\ UNCHANGED slot
     \/ /\ At(s, "put") /\ control' = "free"
        /\ IF slot # NoSession THEN GiveUp(s, "cancelled") /\ UNCHANGED slot
                              ELSE slot' = s /\ Goto(s, "complete") /\ UNCHANGED job
  /\ UNCHANGED <<supVars, env, worker, text, overlayVars, mainVars, threadVars,
                 cleanupVars, monitorVars>>

\* The end of an attempt that was given up.
ReportGivenUp(s) ==
  /\ start[s] \in {"cancelled", "failed"} /\ Done(Starter(s))
  /\ Report(s, "startup", IF At(s, "cancelled") THEN "Cancelled" ELSE "Failed")
  /\ Goto(s, "done")
  /\ UNCHANGED <<env, slot, control, worker, job, text, overlayVars, mainVars, threadVars,
                 cleanupVars, monitorVars>>

\* The startup worker is done; the lifecycle is read, and the session marked
\* running in a later lock section.
BecomeRunning(s) ==
  /\ \/ At(s, "complete") /\ Report(s, "startup", "Completed") /\ Goto(s, "observe")
     \/ /\ At(s, "observe") /\ ~draining
        /\ Goto(s, CASE snapshot.lifecycle = "Starting" -> "run"
                     [] snapshot.lifecycle = "Waiting" -> "reveal"
                     [] OTHER -> "done")
        /\ UNCHANGED supVars
     \/ /\ At(s, "run") /\ ~draining
        /\ IF IsActive(s) /\ s \notin cancelled /\ snapshot.lifecycle \in {"Starting", "Waiting"}
             THEN Sup!MarkRunning(s) /\ Goto(s, "reveal")
             ELSE Goto(s, "done") /\ UNCHANGED supVars
  /\ UNCHANGED <<env, slot, control, worker, job, text, overlayVars, mainVars, threadVars,
                 cleanupVars, monitorVars>>

\* Under the control lock: look at the token, and if the session is running
\* configure and show the overlay.  The lock is held while Linux waits for the
\* main thread to answer.
Reveal(s) ==
  /\ \/ /\ At(s, "reveal") /\ control = "free" /\ ~draining
        /\ IF s \notin cancelled /\ snapshot.lifecycle = "Running"
             THEN Goto(s, "show") /\ control' = "start"
             ELSE Goto(s, IF s \in cancelled THEN "done" ELSE "health") /\ UNCHANGED control
        /\ UNCHANGED <<shown, ui>>
     \/ /\ At(s, "show") /\ Configure(Starter(s), TRUE)
        /\ Goto(s, "shown")
        /\ UNCHANGED control
     \/ /\ At(s, "shown") /\ Served(Starter(s))
        /\ Goto(s, "health") /\ control' = "free"
        /\ UNCHANGED <<shown, ui>>
  /\ UNCHANGED <<supVars, env, slot, worker, job, text, output, mainVars, threadVars,
                 cleanupVars, monitorVars>>

ReportHealth(s) ==
  /\ At(s, "health") /\ Goto(s, "done")
  /\ Try(IsActive(s) /\ snapshot.lifecycle = "Running", Sup!UpdateHealth(s, "Healthy"))
  /\ UNCHANGED <<env, slot, control, worker, job, text, overlayVars, mainVars, threadVars,
                 cleanupVars, monitorVars>>

StartStep(s) ==
  \/ ResetOutput(s) \/ SpawnMonitor(s) \/ RegisterStartup(s) \/ UpdateProgress(s)
  \/ LoadEngine(s) \/ StartCapture(s) \/ StopDismissed(s) \/ Resolve(s) \/ Place(s)
  \/ RegisterThreads(s) \/ SpawnThreads(s) \/ Admit(s) \/ ReportGivenUp(s)
  \/ BecomeRunning(s) \/ Reveal(s) \/ ReportHealth(s)

-----------------------------------------------------------------------------
(* The session monitor.                                                    *)

MonitorTo(s, pc) == monitor' = [monitor EXCEPT ![s] = pc]

\* drain_worker_completions, when there is anything to drain.
MonitorDrain(s) ==
  /\ \/ monitor[s] = "poll" /\ channel # <<>> /\ Sup!BeginDrain /\ MonitorTo(s, "drain")
     \/ monitor[s] = "drain" /\ Sup!DrainNext /\ UNCHANGED monitor
     \/ monitor[s] = "drain" /\ Sup!EndDrain /\ MonitorTo(s, "look")
  /\ UNCHANGED <<env, slot, control, start, worker, job, text, overlayVars, mainVars,
                 threadVars, cleanupVars, failureCleanup>>

\* One look at the snapshot decides the round: the session is over, it failed
\* and nobody has cleaned up yet, its stop takes too long, or nothing.  The
\* five seconds of SHUTDOWN_TIMEOUT are spent in the picker or in the joins of
\* the cleanup thread, never between two statements of who is clearing up.
MonitorLook(s) ==
  LET over == active = NoSession \/ ~Owns(s)
      failed == snapshot.lifecycle = "Failed" /\ ~failureCleanup[s]
  IN
  /\ ~draining
  /\ monitor[s] = "look" \/ (monitor[s] = "poll" /\ channel = <<>>)
  /\ \/ over /\ MonitorTo(s, "ended") /\ UNCHANGED <<job, slot, failureCleanup>>
     \/ /\ ~over /\ failed
        /\ failureCleanup' = [failureCleanup EXCEPT ![s] = TRUE]
        /\ BeginJob(<<"monitor", s>>, s, slot = s, "read")
        /\ slot' = IF slot = s THEN NoSession ELSE slot
        /\ MonitorTo(s, "cleaning")
     \/ /\ ~over /\ ~failed
        /\ \/ MonitorTo(s, "poll")
           \/ /\ Fault("slow") /\ snapshot.lifecycle = "Stopping" /\ \A c \in Callers : Done(c)
              /\ MonitorTo(s, "timeout")
        /\ UNCHANGED <<job, slot, failureCleanup>>
  /\ UNCHANGED <<supVars, env, control, start, worker, text, overlayVars, mainVars,
                 threadVars, cleanupVars>>

MonitorAct(s) ==
  /\ \/ /\ monitor[s] = "timeout" /\ MonitorTo(s, "poll")
        /\ Try(IsActive(s), Sup!ShutdownTimedOut(s))
     \/ /\ monitor[s] = "cleaning" /\ Done(<<"monitor", s>>) /\ MonitorTo(s, "poll")
        /\ UNCHANGED supVars
  /\ UNCHANGED <<env, slot, control, start, worker, job, text, overlayVars, mainVars,
                 threadVars, cleanupVars, failureCleanup>>

MonitorStep(s) == MonitorDrain(s) \/ MonitorLook(s) \/ MonitorAct(s)

-----------------------------------------------------------------------------
(* The OCR processor and the capture-event thread.                         *)

Ended(s) == capture[s] \in {"closed", "stopped"}

\* mark_visual_waiting after its look: a clear for the main WebView and a hide.
MarkWaiting(s) ==
  /\ ~draining
  /\ IF IsActive(s) /\ IsLive
       THEN /\ Sup!MarkWaiting(s)
            /\ text' = [text EXCEPT ![s] = 0]
            /\ Post(Hiding)
       ELSE UNCHANGED <<supVars, text, ui>>

\* The latest frame goes into an OCR pass, a capture event to its handler.
Receive(s) ==
  /\ s \notin cancelled /\ capture[s] = "live"
  /\ \/ /\ processor[s] = "loop" /\ budget[s].frames > 0
        /\ budget' = [budget EXCEPT ![s].frames = @ - 1]
        /\ \E to \in {"compare", "failed"} :
             /\ Fault("ocr") => to = "failed"
             /\ env.fault \notin {"ocr", "emit"} => to = "compare"
             /\ processor' = [processor EXCEPT ![s] = to]
        /\ UNCHANGED events
     \/ /\ events[s] = "loop" /\ budget[s].events > 0 /\ ~draining
        /\ budget' = [budget EXCEPT ![s].events = @ - 1]
        /\ \E to \in IF Owns(s) /\ IsLive
                      THEN {"resume"} \cup {"failed" : f \in {"report"} \cap {env.fault}}
                      ELSE {"over"} :
             events' = [events EXCEPT ![s] = to]
        /\ UNCHANGED processor
  /\ UNCHANGED <<supVars, env, slot, control, start, worker, job, text, overlayVars, mainVars,
                 pass, cleanupVars, monitorVars>>


\* run_visual_processor.  An OCR pass is compared with a snapshot taken after
\* it; the text goes out, a step later, with that snapshot's revision.
ProcessorStep(s) ==
  LET To(pc) == processor' = [processor EXCEPT ![s] = pc]
      Return(outcome) == To("ended") /\ Report(s, "processor", outcome)
  IN
  /\ \/ processor[s] = "loop" /\ s \in cancelled /\ Return("Cancelled") /\ UNCHANGED pass
     \/ processor[s] = "failed" /\ Return("Failed") /\ UNCHANGED pass
     \/ /\ processor[s] = "loop" /\ s \notin cancelled /\ Ended(s) /\ ~draining
        /\ ~IsWaiting(s) /\ To("mark")
        /\ UNCHANGED <<supVars, pass>>
     \/ /\ processor[s] = "compare" /\ ~draining
        /\ IF Owns(s) /\ IsLive
             THEN /\ To(IF IsWaiting(s) THEN "loop" ELSE "emit")
                  /\ pass' = [pass EXCEPT ![s] = snapshot.revision]
                  /\ UNCHANGED supVars
             ELSE Return(NormalOutcome(s)) /\ UNCHANGED pass
  /\ UNCHANGED <<env, slot, control, start, worker, job, text, overlayVars, mainVars, events,
                 budget, cleanupVars, monitorVars>>

ProcessorEmit(s) ==
  LET To(pc) == processor' = [processor EXCEPT ![s] = pc] IN
  /\ \/ processor[s] = "mark" /\ MarkWaiting(s) /\ To("loop") /\ UNCHANGED pass
     \/ /\ processor[s] = "emit" /\ To("loop")
        /\ text' = [text EXCEPT ![s] = pass[s]]
        /\ pass' = [pass EXCEPT ![s] = 0]
        /\ UNCHANGED <<supVars, ui>>
  /\ UNCHANGED <<env, slot, control, start, worker, job, output, shown, mainVars, events,
                 budget, cleanupVars, monitorVars>>

\* run_visual_capture_events: when the source is gone the session waits, and
\* the thread idles until it is cancelled.
EventStep(s) ==
  LET To(pc) == events' = [events EXCEPT ![s] = pc]
      Return(outcome) == To("ended") /\ Report(s, "events", outcome)
  IN
  /\ \/ /\ events[s] \in {"loop", "closed"} /\ s \in cancelled /\ Return("Cancelled")
        /\ UNCHANGED <<text, ui>>
     \/ events[s] = "over" /\ Return(NormalOutcome(s)) /\ UNCHANGED <<text, ui>>
     \/ events[s] = "failed" /\ Return("Failed") /\ UNCHANGED <<text, ui>>
     \/ /\ events[s] = "loop" /\ s \notin cancelled /\ Ended(s) /\ ~draining
        /\ CASE ~(Owns(s) /\ IsLive) -> To("over") /\ UNCHANGED ui
             [] IsWaiting(s) -> To("closed") /\ Post(Hiding)
             [] OTHER -> To("mark") /\ UNCHANGED ui
        /\ UNCHANGED <<supVars, text>>
     \/ events[s] = "mark" /\ MarkWaiting(s) /\ To("closed")
  /\ UNCHANGED <<env, slot, control, start, worker, job, output, shown, mainVars, processor,
                 pass, budget, cleanupVars, monitorVars>>

\* A frame or a new source: resume a waiting session (a look, then a lock
\* section), and when the geometry changed configure the overlay, shown if the
\* session was just found running.
EventResume(s) ==
  LET To(pc) == events' = [events EXCEPT ![s] = pc] IN
  /\ \/ /\ events[s] = "resume" /\ ~draining /\ To(IF IsWaiting(s) THEN "run" ELSE "look")
        /\ UNCHANGED <<supVars, ui>>
     \/ /\ events[s] = "run" /\ To("look") /\ UNCHANGED ui
        /\ Try(IsActive(s) /\ s \notin cancelled /\ snapshot.lifecycle \in {"Starting", "Waiting"},
               Sup!MarkRunning(s))
     \/ /\ events[s] = "look" /\ ~draining
        /\ \/ To(IF IsRunning(s) THEN "show" ELSE "hide") \/ To("loop")
        /\ UNCHANGED <<supVars, ui>>
     \/ /\ events[s] \in {"show", "hide"} /\ To("placed") /\ UNCHANGED supVars
        /\ Configure(<<"events", s>>, events[s] = "show")
     \/ /\ events[s] = "placed" /\ Served(<<"events", s>>) /\ To("loop")
        /\ UNCHANGED <<supVars, ui>>
  /\ UNCHANGED <<env, slot, control, start, worker, job, text, output, shown, mainVars,
                 processor, pass, budget, cleanupVars, monitorVars>>

SourceCloses(s) ==
  /\ Fault("closed") /\ capture[s] = "live" /\ events[s] # "none"
  /\ capture' = [capture EXCEPT ![s] = "closed"]
  /\ UNCHANGED <<supVars, env, slot, control, start, worker, job, text, overlayVars, mainVars,
                 threadVars, cleanup, stopResult, monitorVars>>

-----------------------------------------------------------------------------
(* update_visual_presentation, called by the main WebView, on the main     *)
(* thread.  The frame may wait in the WebView's publisher for long.        *)

PresentFrame ==
  /\ frame.pc = "none" /\ presents > 0
  /\ \E s \in Starts :
       /\ text[s] # 0
       /\ frame' = [NoFrame EXCEPT !.pc = "queued", !.session = s, !.revision = text[s]]
  /\ presents' = presents - 1
  /\ UNCHANGED <<supVars, env, slot, control, start, worker, job, text, overlayVars, stops,
                 threadVars, cleanupVars, monitorVars>>

\* Faulty: the frame's runtime revision is not compared with the output's.
ApplyFrameOfAnyRevision ==
  /\ \/ /\ frame.pc = "queued" /\ MainIsIdle /\ ~draining
        /\ frame' = IF Owns(frame.session) /\ IsLive
                      THEN [frame EXCEPT !.pc = "apply", !.running = snapshot.lifecycle = "Running"]
                      ELSE NoFrame
        /\ UNCHANGED <<output, shown>>
     \/ /\ frame.pc = "apply"
        /\ output' = Output(frame.session, frame.revision, TRUE)
        /\ frame' = NoFrame
        /\ UNCHANGED shown
  /\ UNCHANGED <<supVars, env, slot, control, start, worker, job, text, ui, stops, presents,
                 threadVars, cleanupVars, monitorVars>>

\* The snapshot is looked at; then the frame is compared with the output and put
\* in its place, and the overlay, to which only the main thread reaches out, is
\* shown if the session was running.  Of a frame that could not be delivered the
\* previous output is put back, in a lock section of its own and whatever has
\* come in its place meanwhile.
ApplyFrame ==
  /\ \/ /\ frame.pc = "queued" /\ MainIsIdle /\ ~draining
        /\ frame' = IF Owns(frame.session) /\ IsLive /\ frame.revision <= snapshot.revision
                      THEN [frame EXCEPT !.pc = "apply", !.running = snapshot.lifecycle = "Running"]
                      ELSE NoFrame
        /\ UNCHANGED <<output, shown>>
     \/ /\ frame.pc = "apply"
        /\ \/ /\ output.session = frame.session /\ output.revision <= frame.revision
              /\ output' = Output(frame.session, frame.revision, TRUE)
              /\ \/ frame' = NoFrame /\ shown' = (shown \/ frame.running)
                 \/ /\ Fault("emit")
                    /\ frame' = [frame EXCEPT !.pc = "undo", !.previous = output]
                    /\ UNCHANGED shown
           \/ \* an older presentation revision, or refused
              frame' = NoFrame /\ UNCHANGED <<output, shown>>
     \/ /\ frame.pc = "undo"
        /\ output' = [frame.previous EXCEPT
             !.restored = output # Output(frame.session, frame.revision, TRUE)]
        /\ frame' = NoFrame
        /\ UNCHANGED shown
  /\ UNCHANGED <<supVars, env, slot, control, start, worker, job, text, ui, stops, presents,
                 threadVars, cleanupVars, monitorVars>>

-----------------------------------------------------------------------------
Next ==
  \/ StartVisualTranslation \/ StopPressed \/ ServeUi \/ PresentFrame \/ ApplyFrame
  \/ \E c \in Callers : JobStep(c)
  \/ \E s \in Starts : \/ StartStep(s) \/ CleanupStep(s) \/ MonitorStep(s)
                       \/ Receive(s) \/ ProcessorStep(s) \/ ProcessorEmit(s)
                       \/ EventStep(s) \/ EventResume(s) \/ SourceCloses(s)

Spec == Init /\ [][Next]_vars

\* Every thread runs and the main thread serves its event loop, unless it waits
\* for the control lock in Stop.  Weak fairness is enough: a lock is taken only
\* finitely often, so who waits for it gets it if it is given back at all (see
\* Deadlocked).  Nobody has to press a button, no frame or event has to arrive
\* and no source has to close.
Fairness ==
  /\ WF_vars(ServeUi \/ ApplyFrame) /\ WF_vars(StopPressed /\ JobAt(Main, "lock"))
  /\ \A c \in Callers : WF_vars(JobStep(c))
  /\ \A s \in Starts : /\ WF_vars(StartStep(s)) /\ WF_vars(MonitorStep(s))
                       /\ WF_vars(CleanupStep(s))
                       /\ WF_vars(ProcessorStep(s) \/ ProcessorEmit(s))
                       /\ WF_vars(EventStep(s) \/ EventResume(s))

FairSpec == Spec /\ Fairness

-----------------------------------------------------------------------------
(* Properties.                                                             *)

\* A start that finds the resources of an earlier session still stored gives up
\* without a stop, its session live.  They are stored for good if that session
\* failed while its start was storing them (see run capture_slot_leak).
FindsOthersStored(s) == slot # NoSession /\ slot < s

\* What the overlay's output holds while it has regions belongs to the active
\* session: the frames of a session that has ended, however long they waited in
\* the WebView or between the two looks of update_visual_presentation, never
\* come back after its clear, because each clear carries a later revision.  Not
\* so if the event thread cannot be spawned: that start clears up while its
\* session is still live and its processor at work.  Nor of an output which the
\* error path of a presentation has put back over the clear of another thread
\* (visual.rs:477), until the next clear, start or frame: a put-back that finds
\* its own frame still in place is claimed to be harmless.
TextBelongsToTheActive ==
  output.regions /\ ~output.restored
    /\ env.fault # "spawn" /\ ~FindsOthersStored(output.session) => output.session = active

Released(s) == s < nextSession /\ active # s

\* Nobody is still busy with a session or may be later.
Settled(s) ==
  /\ At(s, "done") /\ slot # s /\ cleanup[s] \in {"none", "ended"}
  /\ \A c \in Callers : job[c].session = s => Done(c)

\* A session that has given up the supervisor has left nothing running, whoever
\* of Stop, the picker, a failed start and the monitor cleaned it up.  One that
\* failed meanwhile may be stored by its start, as an audio session may (run
\* capture_slot_leak), or be in the hands of a Stop that took its resources
\* before: of it nothing is claimed until they are done.
VisualReleasedIsQuiet ==
  \A s \in Starts : Released(s) /\ (failureCleanup[s] => Settled(s)) =>
    /\ capture[s] \notin {"live", "closed"}
    /\ {processor[s], events[s]} \subseteq {"none", "ended"}
    /\ slot # s

\* Stop hides the overlay (ARCHITECTURE.md:80): when its session has been
\* released and the main thread has done all that was posted, it is not visible.
ReleasedIsHidden ==
  (active = NoSession /\ ui = <<>> /\ MainIsIdle) => ~shown

\* On Linux it is so: a show that was asked for while the session ran looks at
\* the snapshot again on the main thread, behind every hide posted before it.
LinuxOverlayIsHidden ==
  env.platform = "linux" /\ ~FindsOthersStored(nextSession - 1) => ReleasedIsHidden

\* A press of Stop is acknowledged: the main thread gets the control lock.
StopIsAcknowledged == JobAt(Main, "lock") ~> ~JobAt(Main, "lock")

\* The last report was a failure, applied without try_finalize_cleanup when the
\* cleanup was over: nobody releases the session (see NextStartIsLegal of
\* CaptureSession).
FailedLate == cleanupFinished /\ DOMAIN workers = {}

\* The two wait for each other for ever: Stop, on the main thread, for the control
\* lock, and the start that holds it for the main thread (see StopIsAcknowledged).
\* Then nobody serves the event thread either, and a cleanup that joins it waits.
Deadlocked == JobAt(Main, "lock") /\ \E s \in Starts : At(s, "shown") /\ ~Served(Starter(s))

\* A stop or a failure is cleaned up without another press, unless the failure
\* was late or the main thread is stuck.
EndingVisualSessionIsReleased ==
  []<>(\/ active = NoSession
       \/ snapshot.lifecycle \notin {"Stopping", "Failed"}
       \/ FailedLate \/ Deadlocked)

=============================================================================
