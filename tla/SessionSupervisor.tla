------------------------- MODULE SessionSupervisor -------------------------
(***************************************************************************)
(* The session supervisor of crates/application-runtime: the one authority *)
(* for the lifecycle of the audio or the visual session.                   *)
(*                                                                         *)
(* The supervisor is an object behind a mutex.  Every method is one action *)
(* here, except drain_worker_completions: it receives from a channel into  *)
(* which workers send without holding the mutex, so it is a loop of        *)
(* actions during which `draining` holds the mutex against the others.     *)
(* A call the code refuses (Err) changes nothing and is not a step.        *)
(*                                                                         *)
(* The environment is every caller of the object: any thread, with any     *)
(* session number it may have kept.  CaptureSession composes these actions *)
(* with the real callers.                                                  *)
(***************************************************************************)
EXTENDS Integers, Sequences

CONSTANTS
  Modes,          \* audio, visual
  Sources,        \* capture sources a caller may name
  MaxSession,     \* u32::MAX of next_session_id, small in a model
  MaxWorker,      \* u64::MAX of next_worker_id, small in a model
  MaxRevision     \* u32::MAX of the snapshot revision, small in a model

ASSUME LimitsAreNatural ==
  /\ MaxSession \in Nat \ {0}
  /\ MaxWorker \in Nat \ {0}
  /\ MaxRevision \in Nat

NoSession == 0               \* Option<SessionId>::None; numbers start at 1
None == "None"

Lifecycles == {"Stopped", "Starting", "Running", "Waiting", "Stopping", "Failed"}
LiveLifecycles == {"Starting", "Running", "Waiting"}
Lifetimes == {"Startup", "Session", "Shutdown"}
Outcomes == {"Completed", "Cancelled", "Exited", "Failed", "Panicked"}
Levels == {"Healthy", "Recovering", "Degraded"}
Progresses == {"Idle", "PreparingModel", "StartingCapture", "Live",
               "WaitingForSource", "Stopping", "Failed"}
\* ApplicationErrorCode, as far as a failure of the session distinguishes them:
\* Reported stands for the error a worker or a caller hands over.
Errors == {"WorkerExited", "WorkerPanicked", "ShutdownTimedOut", "Reported"}

VARIABLES
  snapshot,          \* the published RuntimeSnapshot
  active,            \* id of the ActiveSession, NoSession when there is none
  cancelled,         \* the sessions whose CancellationToken is set
  workers,           \* registrations of the active session: worker id -> lifetime
  cleanupFinished,   \* ActiveSession::cleanup_finished
  nextSession, nextWorker,
  reporters,         \* WorkerReporters still in the hands of a worker
  channel,           \* completions sent and not yet received
  draining           \* drain_worker_completions holds the mutex

sessionVars == <<active, cancelled, workers, cleanupFinished>>
workerVars == <<nextWorker, reporters, channel>>
vars == <<snapshot, sessionVars, nextSession, workerVars, draining>>

Sessions == 1..MaxSession
WorkerIds == 1..MaxWorker
Reporters == [session : Sessions, worker : WorkerIds]
Completions == [session : Sessions, worker : WorkerIds, outcome : Outcomes]

Health(level, progress) == [level |-> level, progress |-> progress]
Healthy(progress) == Health("Healthy", progress)

NoWorkers == [w \in {} |-> "Session"]

\* RuntimeSnapshot::default
DefaultSnapshot ==
  [revision |-> 0, session |-> NoSession, mode |-> None, source |-> None,
   lifecycle |-> "Stopped", health |-> Healthy("Idle"), failure |-> None]

Init ==
  /\ snapshot = DefaultSnapshot
  /\ active = NoSession
  /\ cancelled = {}
  /\ workers = NoWorkers
  /\ cleanupFinished = FALSE
  /\ nextSession = 1
  /\ nextWorker = 1
  /\ reporters = {}
  /\ channel = <<>>
  /\ draining = FALSE

-----------------------------------------------------------------------------
(* Parts of the methods.                                                   *)

\* Every publication takes the next revision; the space must not be exhausted.
Publish(next) ==
  /\ snapshot.revision < MaxRevision
  /\ snapshot' = [next EXCEPT !.revision = snapshot.revision + 1]

\* require_session
IsActive(s) == active # NoSession /\ active = s

IsCancelled(s) == s \in cancelled

\* Everything fail_session does once the session is known to be the active one.
FailSession(s, error) ==
  /\ cancelled' = cancelled \cup {s}
  /\ Publish([snapshot EXCEPT !.lifecycle = "Failed",
                              !.health = Health("Degraded", "Failed"),
                              !.failure = error])

\* Faulty: the session is given up although workers are still registered.
TryFinalizeCleanupEarly(registered, cleaned) ==
  IF cleaned
    THEN /\ active' = NoSession
         /\ workers' = NoWorkers
         /\ cleanupFinished' = FALSE
         /\ IF snapshot.lifecycle = "Stopping"
              THEN Publish(DefaultSnapshot)
              ELSE UNCHANGED snapshot
    ELSE /\ workers' = registered
         /\ cleanupFinished' = cleaned
         /\ UNCHANGED <<active, snapshot>>

\* try_finalize_cleanup, called with the registrations and the cleanup flag the
\* caller has just computed: give up the session when nothing is outstanding,
\* and publish Stopped unless a failure has to stay visible.
TryFinalizeCleanup(registered, cleaned) ==
  IF cleaned /\ DOMAIN registered = {}
    THEN /\ active' = NoSession
         /\ workers' = NoWorkers
         /\ cleanupFinished' = FALSE
         /\ IF snapshot.lifecycle = "Stopping"
              THEN Publish(DefaultSnapshot)
              ELSE UNCHANGED snapshot
    ELSE /\ workers' = registered
         /\ cleanupFinished' = cleaned
         /\ UNCHANGED <<active, snapshot>>

-----------------------------------------------------------------------------
(* The methods.                                                            *)

\* Faulty: a start that does not look for an active session.
StartOverActive(mode, source) ==
  /\ ~draining
  /\ nextSession < MaxSession
  /\ nextSession' = nextSession + 1
  /\ active' = nextSession
  /\ workers' = NoWorkers
  /\ cleanupFinished' = FALSE
  /\ Publish([DefaultSnapshot EXCEPT !.session = nextSession,
                                     !.mode = mode,
                                     !.source = source,
                                     !.lifecycle = "Starting",
                                     !.health = Healthy("PreparingModel")])
  /\ UNCHANGED <<cancelled, workerVars, draining>>

Start(mode, source) ==
  /\ ~draining
  /\ active = NoSession
  /\ nextSession < MaxSession                  \* checked_add
  /\ nextSession' = nextSession + 1
  /\ active' = nextSession
  /\ workers' = NoWorkers
  /\ cleanupFinished' = FALSE
  /\ Publish([DefaultSnapshot EXCEPT !.session = nextSession,
                                     !.mode = mode,
                                     !.source = source,
                                     !.lifecycle = "Starting",
                                     !.health = Healthy("PreparingModel")])
  /\ UNCHANGED <<cancelled, workerVars, draining>>

UpdateStartProgress(s, progress) ==
  /\ ~draining
  /\ IsActive(s)
  /\ snapshot.lifecycle = "Starting"
  /\ ~IsCancelled(s)
  /\ Publish([snapshot EXCEPT !.health = Healthy(progress)])
  /\ UNCHANGED <<sessionVars, nextSession, workerVars, draining>>

UpdateSource(s, source) ==
  /\ ~draining
  /\ IsActive(s)
  /\ snapshot.lifecycle \notin {"Stopping", "Failed", "Stopped"}
  /\ Publish([snapshot EXCEPT !.source = source])
  /\ UNCHANGED <<sessionVars, nextSession, workerVars, draining>>

MarkRunning(s) ==
  /\ ~draining
  /\ IsActive(s)
  /\ ~IsCancelled(s)
  /\ snapshot.lifecycle \in {"Starting", "Waiting"}
  /\ Publish([snapshot EXCEPT !.lifecycle = "Running",
                              !.health = Healthy("Live"),
                              !.failure = None])
  /\ UNCHANGED <<sessionVars, nextSession, workerVars, draining>>

\* Faulty: waiting from any lifecycle.
MarkWaitingAnytime(s) ==
  /\ ~draining
  /\ IsActive(s)
  /\ Publish([snapshot EXCEPT !.lifecycle = "Waiting",
                              !.health = Health("Recovering", "WaitingForSource")])
  /\ UNCHANGED <<sessionVars, nextSession, workerVars, draining>>

\* The only transition without a look at the cancellation token: it relies on
\* every cancellation having left the live lifecycles.
MarkWaiting(s) ==
  /\ ~draining
  /\ IsActive(s)
  /\ snapshot.lifecycle \in {"Starting", "Running", "Waiting"}
  /\ Publish([snapshot EXCEPT !.lifecycle = "Waiting",
                              !.health = Health("Recovering", "WaitingForSource")])
  /\ UNCHANGED <<sessionVars, nextSession, workerVars, draining>>

UpdateHealth(s, level) ==
  /\ ~draining
  /\ IsActive(s)
  /\ snapshot.lifecycle \in {"Running", "Waiting"}
  /\ Publish([snapshot EXCEPT
       !.health = Health(level, IF snapshot.lifecycle = "Waiting"
                                  THEN "WaitingForSource" ELSE "Live")])
  /\ UNCHANGED <<sessionVars, nextSession, workerVars, draining>>

\* request_stop and, through it, request_stop_for_mode.  A second stop is
\* acknowledged without a publication; a failed session can be stopped too.
RequestStop ==
  /\ ~draining
  /\ active # NoSession
  /\ cancelled' = cancelled \cup {active}
  /\ IF snapshot.lifecycle = "Stopping"
       THEN UNCHANGED snapshot
       ELSE Publish([snapshot EXCEPT !.lifecycle = "Stopping",
                                     !.health = Healthy("Stopping")])
  /\ UNCHANGED <<active, workers, cleanupFinished, nextSession, workerVars, draining>>

RequestStopForMode(mode) ==
  /\ snapshot.mode = mode
  /\ RequestStop

RegisterWorker(s, lifetime) ==
  /\ ~draining
  /\ IsActive(s)
  /\ nextWorker < MaxWorker                    \* checked_add
  /\ nextWorker' = nextWorker + 1
  /\ workers' = [w \in DOMAIN workers \cup {nextWorker} |->
                   IF w = nextWorker THEN lifetime ELSE workers[w]]
  /\ reporters' = reporters \cup {[session |-> s, worker |-> nextWorker]}
  /\ UNCHANGED <<snapshot, active, cancelled, cleanupFinished, nextSession,
                 channel, draining>>

\* WorkerReporter::finish, or its Drop when the worker returns (Exited) or
\* unwinds (Panicked) without a report.  Takes no lock.
ReporterFinish(r, outcome) ==
  /\ r \in reporters
  /\ reporters' = reporters \ {r}
  /\ channel' = Append(channel, [session |-> r.session, worker |-> r.worker,
                                 outcome |-> outcome])
  /\ UNCHANGED <<snapshot, sessionVars, nextSession, nextWorker, draining>>

FinishCleanup(s, succeeded) ==
  /\ ~draining
  /\ IsActive(s)
  /\ IF succeeded
       THEN /\ TryFinalizeCleanup(workers, TRUE)
            /\ UNCHANGED cancelled
       \* fail_session, then try_finalize_cleanup on the failed snapshot
       ELSE /\ FailSession(s, "Reported")
            /\ IF DOMAIN workers = {}
                 THEN /\ active' = NoSession
                      /\ cleanupFinished' = FALSE
                 ELSE /\ cleanupFinished' = TRUE
                      /\ UNCHANGED active
            /\ UNCHANGED workers
  /\ UNCHANGED <<nextSession, workerVars, draining>>

Fail(s) ==
  /\ ~draining
  /\ IsActive(s)
  /\ FailSession(s, "Reported")
  /\ UNCHANGED <<active, workers, cleanupFinished, nextSession, workerVars, draining>>

ShutdownTimedOut(s) ==
  /\ ~draining
  /\ IsActive(s)
  /\ FailSession(s, "ShutdownTimedOut")
  /\ UNCHANGED <<active, workers, cleanupFinished, nextSession, workerVars, draining>>

-----------------------------------------------------------------------------
(* drain_worker_completions and apply_worker_completion.                   *)

BeginDrain ==
  /\ ~draining
  /\ draining' = TRUE
  /\ UNCHANGED <<snapshot, sessionVars, nextSession, workerVars>>

\* The failure a completion amounts to, None when it is an expected one.
FailureOf(completion, lifetime) ==
  LET ending == snapshot.lifecycle \in {"Stopping", "Failed"} IN
  CASE completion.outcome = "Completed" ->
         IF lifetime = "Session" /\ ~ending THEN "WorkerExited" ELSE None
    [] completion.outcome = "Cancelled" ->
         IF ~ending THEN "WorkerExited" ELSE None
    [] completion.outcome = "Exited" -> "WorkerExited"
    [] completion.outcome = "Failed" -> "Reported"
    [] completion.outcome = "Panicked" -> "WorkerPanicked"

\* A completion that fails the session returns before try_finalize_cleanup.
ApplyWorkerCompletion(completion) ==
  LET w == completion.worker
      rest == [x \in DOMAIN workers \ {w} |-> workers[x]]
      failure == FailureOf(completion, workers[w])
  IN  IF ~IsActive(completion.session) \/ w \notin DOMAIN workers
        THEN UNCHANGED <<snapshot, sessionVars>>
        ELSE IF failure # None
          THEN /\ FailSession(completion.session, failure)
               /\ workers' = rest
               /\ UNCHANGED <<active, cleanupFinished>>
          ELSE /\ TryFinalizeCleanup(rest, cleanupFinished)
               /\ UNCHANGED cancelled

DrainNext ==
  /\ draining
  /\ channel # <<>>
  /\ channel' = Tail(channel)
  /\ ApplyWorkerCompletion(Head(channel))
  /\ UNCHANGED <<nextSession, nextWorker, reporters, draining>>

EndDrain ==
  /\ draining
  /\ channel = <<>>
  /\ draining' = FALSE
  /\ UNCHANGED <<snapshot, sessionVars, nextSession, workerVars>>

-----------------------------------------------------------------------------
\* A caller names a session number it holds: the active one or an older one.
KnownSessions == 1..(nextSession - 1)

SessionCall(s) ==
  \/ \E p \in {"PreparingModel", "StartingCapture"} : UpdateStartProgress(s, p)
  \/ \E src \in Sources : UpdateSource(s, src)
  \/ MarkRunning(s)
  \/ MarkWaiting(s)
  \/ \E level \in Levels : UpdateHealth(s, level)
  \/ \E lifetime \in Lifetimes : RegisterWorker(s, lifetime)
  \/ \E succeeded \in BOOLEAN : FinishCleanup(s, succeeded)
  \/ Fail(s)
  \/ ShutdownTimedOut(s)

Next ==
  \/ \E m \in Modes, src \in Sources : Start(m, src)
  \/ \E s \in KnownSessions : SessionCall(s)
  \/ \E m \in Modes : RequestStopForMode(m)
  \/ \E r \in reporters, o \in Outcomes : ReporterFinish(r, o)
  \/ BeginDrain \/ DrainNext \/ EndDrain

Spec == Init /\ [][Next]_vars

-----------------------------------------------------------------------------
(* Properties.                                                             *)

TypeOK ==
  /\ snapshot \in [revision : 0..MaxRevision,
                   session : Sessions \cup {NoSession},
                   mode : Modes \cup {None},
                   source : Sources \cup {None},
                   lifecycle : Lifecycles,
                   health : [level : Levels, progress : Progresses],
                   failure : Errors \cup {None}]
  /\ active \in Sessions \cup {NoSession}
  /\ cancelled \in SUBSET Sessions
  /\ DOMAIN workers \in SUBSET WorkerIds
  /\ workers \in [DOMAIN workers -> Lifetimes]
  /\ cleanupFinished \in BOOLEAN
  /\ nextSession \in Sessions
  /\ nextWorker \in WorkerIds
  /\ reporters \in SUBSET Reporters
  /\ channel \in Seq(Completions)
  /\ draining \in BOOLEAN

\* The completions in the channel.
Queued == {channel[i] : i \in 1..Len(channel)}

\* What a session still waits for: reporters not used, completions not received.
Outstanding == reporters \cup {[session |-> c.session, worker |-> c.worker] : c \in Queued}

\* No worker outlives its session: a reporter that is still held, or a
\* completion that is still queued, belongs to the session that is active now.
\* Hence a session gives up the supervisor only when every worker registered
\* for it has reported, and a late completion never reaches the next session.
NoWorkerOutlivesItsSession ==
  \A r \in Outstanding : r.session = active

\* The registrations of the active session are exactly the workers it still
\* waits for: none is forgotten and none is awaited that cannot report.
RegistrationsAreAwaited ==
  DOMAIN workers = {r.worker : r \in Outstanding}

\* The token of the active session is set exactly when the published lifecycle
\* is Stopping or Failed, though mark_waiting and update_health never look at
\* the token: no method can show a cancelled session as live.
CancelledIsNeverLive ==
  active # NoSession =>
    /\ snapshot.session = active
    /\ IsCancelled(active) <=> snapshot.lifecycle \in {"Stopping", "Failed"}
    /\ ~IsCancelled(active) <=> snapshot.lifecycle \in LiveLifecycles

\* The parts of a snapshot agree: progress and health say what the lifecycle
\* says, a failed session has its reason, and a live one carries no reason left
\* from earlier.
SnapshotIsCoherent ==
  LET progress == snapshot.health.progress
      l == snapshot.lifecycle
  IN  /\ l = "Stopped"  => progress = "Idle" /\ snapshot.session = NoSession
      /\ l = "Starting" => progress \in {"PreparingModel", "StartingCapture"}
      /\ l = "Running"  => progress = "Live"
      /\ l = "Waiting"  => progress = "WaitingForSource"
      /\ l = "Stopping" => progress = "Stopping"
      /\ l = "Failed"   => progress = "Failed" /\ snapshot.failure # None
      /\ l \in LiveLifecycles \cup {"Stopped"} => snapshot.failure = None

\* A session that has been published as Stopping or Failed is never published
\* as live again, whatever call arrives late; only a session with a larger
\* number is.
NoRevival ==
  [][ snapshot.lifecycle \in {"Stopping", "Failed"} /\ snapshot'.lifecycle \in LiveLifecycles
      => snapshot'.session > snapshot.session ]_vars

\* Stopped is published only when the platform resources have been cleaned up
\* and no worker of the session is left (the comment on finish_cleanup).
StoppedOnlyWhenJoined ==
  [][ snapshot.lifecycle # "Stopped" /\ snapshot'.lifecycle = "Stopped"
      => Outstanding' = {} /\ active' = NoSession ]_vars

-----------------------------------------------------------------------------
(* What the supervisor promises: SessionOwnership.                         *)

Ownership == INSTANCE SessionOwnership WITH
  Owners <- 1..(MaxSession - 1),
  Tasks <- 1..(MaxWorker - 1),
  owner <- active,
  lastOwner <- nextSession - 1,
  lastTask <- nextWorker - 1,
  ending <- active # NoSession /\ IsCancelled(active),
  tasks <- {r.worker : r \in Outstanding},
  cleaned <- cleanupFinished

\* The supervisor implements SessionOwnership: its tasks are the reporters and
\* completions that are really outstanding, not the registrations the code keeps.
ImplementsOwnership == Ownership!Spec
=============================================================================
