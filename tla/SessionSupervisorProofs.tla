---------------------- MODULE SessionSupervisorProofs ----------------------
(***************************************************************************)
(* Proofs about SessionSupervisor, for every number of sessions, workers   *)
(* and revisions.                                                          *)
(***************************************************************************)
EXTENDS SessionSupervisor, TLAPS

\* A worker reports at most once: its reporter is consumed by the report.
ReportsOnce ==
  /\ \A i, j \in 1..Len(channel) : channel[i].worker = channel[j].worker => i = j
  /\ \A r \in reporters, i \in 1..Len(channel) : r.worker # channel[i].worker
  /\ \A r, q \in reporters : r.worker = q.worker => r = q

\* Numbers are handed out in order and never again.
NumbersAreFresh ==
  /\ active < nextSession
  /\ snapshot.session < nextSession
  /\ \A s \in cancelled : s < nextSession
  /\ \A r \in Outstanding : r.worker < nextWorker

NothingLeftWhenIdle == active = NoSession => ~cleanupFinished

Inv ==
  /\ TypeOK
  /\ NoWorkerOutlivesItsSession
  /\ RegistrationsAreAwaited
  /\ CancelledIsNeverLive
  /\ ReportsOnce
  /\ NumbersAreFresh
  /\ NothingLeftWhenIdle

-----------------------------------------------------------------------------
(* Types.                                                                  *)

Snapshots ==
  [revision : 0..MaxRevision, session : Sessions \cup {NoSession},
   mode : Modes \cup {None}, source : Sources \cup {None},
   lifecycle : Lifecycles,
   health : [level : Levels, progress : Progresses],
   failure : Errors \cup {None}]

\* Publishing a well-typed snapshot leaves a well-typed snapshot, one revision on.
LEMMA PublishType ==
  ASSUME NEW next \in Snapshots, snapshot \in Snapshots, Publish(next)
  PROVE  /\ snapshot' \in Snapshots
         /\ snapshot' = [next EXCEPT !.revision = snapshot.revision + 1]
  BY LimitsAreNatural DEF Snapshots, Publish

\* The snapshots the methods publish are well typed.
LEMMA SnapshotTypes ==
  ASSUME snapshot \in Snapshots
  PROVE  /\ DefaultSnapshot \in Snapshots
         /\ \A s \in Sessions, m \in Modes, src \in Sources :
              [DefaultSnapshot EXCEPT !.session = s, !.mode = m, !.source = src,
                 !.lifecycle = "Starting", !.health = Healthy("PreparingModel")]
                \in Snapshots
         /\ \A src \in Sources : [snapshot EXCEPT !.source = src] \in Snapshots
         /\ \A lv \in Levels, p \in Progresses :
              [snapshot EXCEPT !.health = Health(lv, p)] \in Snapshots
         /\ \A l \in Lifecycles, lv \in Levels, p \in Progresses :
              [snapshot EXCEPT !.lifecycle = l, !.health = Health(lv, p)] \in Snapshots
         /\ \A l \in Lifecycles, lv \in Levels, p \in Progresses, e \in Errors \cup {None} :
              [snapshot EXCEPT !.lifecycle = l, !.health = Health(lv, p), !.failure = e]
                \in Snapshots
  <1>1. \A lv \in Levels, p \in Progresses :
          Health(lv, p) \in [level : Levels, progress : Progresses]
    BY DEF Health
  <1>2. Healthy("Idle") \in [level : Levels, progress : Progresses]
    BY DEF Healthy, Health, Levels, Progresses
  <1>3. Healthy("PreparingModel") \in [level : Levels, progress : Progresses]
    BY DEF Healthy, Health, Levels, Progresses
  <1>4. DefaultSnapshot \in Snapshots
    BY <1>2, LimitsAreNatural DEF DefaultSnapshot, Snapshots, Lifecycles
  <1>5. "Starting" \in Lifecycles
    BY DEF Lifecycles
  <1>6. ASSUME NEW s \in Sessions, NEW m \in Modes, NEW src \in Sources
        PROVE  [DefaultSnapshot EXCEPT !.session = s, !.mode = m, !.source = src,
                  !.lifecycle = "Starting", !.health = Healthy("PreparingModel")]
                 \in Snapshots
    BY <1>3, <1>4, <1>5 DEF Snapshots
  <1>7. \A src \in Sources : [snapshot EXCEPT !.source = src] \in Snapshots
    BY DEF Snapshots
  <1>8. ASSUME NEW lv \in Levels, NEW p \in Progresses
        PROVE  [snapshot EXCEPT !.health = Health(lv, p)] \in Snapshots
    BY <1>1 DEF Snapshots
  <1>9. ASSUME NEW l \in Lifecycles, NEW lv \in Levels, NEW p \in Progresses
        PROVE  [snapshot EXCEPT !.lifecycle = l, !.health = Health(lv, p)] \in Snapshots
    BY <1>1 DEF Snapshots
  <1>10. ASSUME NEW l \in Lifecycles, NEW lv \in Levels, NEW p \in Progresses,
                NEW e \in Errors \cup {None}
         PROVE  [snapshot EXCEPT !.lifecycle = l, !.health = Health(lv, p), !.failure = e]
                  \in Snapshots
    BY <1>1 DEF Snapshots
  <1> QED
    BY <1>4, <1>6, <1>7, <1>8, <1>9, <1>10

\* What failing the active session does to the snapshot and the token.
LEMMA FailSessionType ==
  ASSUME snapshot \in Snapshots, cancelled \in SUBSET Sessions,
         NEW s \in Sessions, NEW e \in Errors, FailSession(s, e)
  PROVE  /\ snapshot' \in Snapshots
         /\ snapshot'.lifecycle = "Failed"
         /\ snapshot'.failure = e
         /\ snapshot'.session = snapshot.session
         /\ cancelled' = cancelled \cup {s}
         /\ cancelled' \in SUBSET Sessions
  <1> DEFINE next == [snapshot EXCEPT !.lifecycle = "Failed",
                                      !.health = Health("Degraded", "Failed"),
                                      !.failure = e]
  <1>1. "Failed" \in Lifecycles /\ "Degraded" \in Levels /\ "Failed" \in Progresses
    BY DEF Lifecycles, Levels, Progresses
  <1>2. next \in Snapshots
    BY <1>1, SnapshotTypes
  <1>3. Publish(next) /\ cancelled' = cancelled \cup {s}
    BY DEF FailSession
  <1>4. /\ snapshot' \in Snapshots
        /\ snapshot' = [next EXCEPT !.revision = snapshot.revision + 1]
    BY <1>2, <1>3, PublishType
  <1>5. /\ next.lifecycle = "Failed"
        /\ next.failure = e
        /\ next.session = snapshot.session
    BY DEF Snapshots
  <1>6. /\ snapshot'.lifecycle = "Failed"
        /\ snapshot'.failure = e
        /\ snapshot'.session = snapshot.session
    BY <1>2, <1>4, <1>5 DEF Snapshots
  <1> QED
    BY <1>3, <1>4, <1>6

-----------------------------------------------------------------------------
(* What each method does to the snapshot, and that it preserves the types. *)

LEMMA NoWorkersType ==
  /\ DOMAIN NoWorkers = {}
  /\ NoWorkers \in [{} -> Lifetimes]
  BY DEF NoWorkers

LEMMA StartStep ==
  ASSUME TypeOK, NEW m \in Modes, NEW src \in Sources, Start(m, src)
  PROVE  /\ TypeOK'
         /\ snapshot'.lifecycle = "Starting"
         /\ snapshot'.session = nextSession
  <1> DEFINE next == [DefaultSnapshot EXCEPT
                        !.session = nextSession, !.mode = m, !.source = src,
                        !.lifecycle = "Starting", !.health = Healthy("PreparingModel")]
  <1>1. snapshot \in Snapshots /\ nextSession \in Sessions
    BY DEF TypeOK, Snapshots
  <1>2. next \in Snapshots
    BY <1>1, SnapshotTypes
  <1>3. /\ snapshot' \in Snapshots
        /\ snapshot' = [next EXCEPT !.revision = snapshot.revision + 1]
    BY <1>1, <1>2, PublishType DEF Start
  <1>4. next.lifecycle = "Starting" /\ next.session = nextSession
    BY DEF DefaultSnapshot
  <1>5. snapshot'.lifecycle = "Starting" /\ snapshot'.session = nextSession
    BY <1>2, <1>3, <1>4 DEF Snapshots
  <1>6. active' \in Sessions \cup {NoSession} /\ nextSession' \in Sessions
    BY LimitsAreNatural DEF Start, TypeOK, Sessions
  <1>7. DOMAIN workers' \in SUBSET WorkerIds /\ workers' \in [DOMAIN workers' -> Lifetimes]
    BY NoWorkersType DEF Start
  <1> QED
    BY <1>3, <1>5, <1>6, <1>7 DEF Start, TypeOK, Snapshots, workerVars

\* The methods that only publish: they keep the session on show and its owner.
Publication(s) ==
  \/ \E p \in {"PreparingModel", "StartingCapture"} : UpdateStartProgress(s, p)
  \/ \E src \in Sources : UpdateSource(s, src)
  \/ MarkRunning(s)
  \/ MarkWaiting(s)
  \/ \E level \in Levels : UpdateHealth(s, level)

LEMMA PublicationStep ==
  ASSUME TypeOK, NEW s \in Sessions, Publication(s)
  PROVE  /\ TypeOK'
         /\ snapshot.lifecycle \in LiveLifecycles
         /\ snapshot'.lifecycle \in LiveLifecycles
         /\ snapshot'.session = snapshot.session
         /\ UNCHANGED <<sessionVars, nextSession, workerVars, draining>>
  <1>0. snapshot \in Snapshots
    BY DEF TypeOK, Snapshots
  <1> DEFINE Goal == /\ snapshot' \in Snapshots
                     /\ snapshot.lifecycle \in LiveLifecycles
                     /\ snapshot'.lifecycle \in LiveLifecycles
                     /\ snapshot'.session = snapshot.session
  <1>1. ASSUME NEW p \in {"PreparingModel", "StartingCapture"}, UpdateStartProgress(s, p)
        PROVE  Goal
    <2> DEFINE next == [snapshot EXCEPT !.health = Healthy(p)]
    <2>1. next \in Snapshots
      BY <1>0, SnapshotTypes DEF Healthy, Levels, Progresses
    <2>2. /\ snapshot' \in Snapshots
          /\ snapshot' = [next EXCEPT !.revision = snapshot.revision + 1]
      BY <1>0, <1>1, <2>1, PublishType DEF UpdateStartProgress
    <2> QED
      BY <1>0, <1>1, <2>1, <2>2 DEF UpdateStartProgress, Snapshots, LiveLifecycles
  <1>2. ASSUME NEW src \in Sources, UpdateSource(s, src)
        PROVE  Goal
    <2> DEFINE next == [snapshot EXCEPT !.source = src]
    <2>1. next \in Snapshots
      BY <1>0, SnapshotTypes
    <2>2. /\ snapshot' \in Snapshots
          /\ snapshot' = [next EXCEPT !.revision = snapshot.revision + 1]
      BY <1>0, <1>2, <2>1, PublishType DEF UpdateSource
    <2> QED
      BY <1>0, <1>2, <2>1, <2>2 DEF UpdateSource, Snapshots, Lifecycles, LiveLifecycles
  <1>3. ASSUME MarkRunning(s)
        PROVE  Goal
    <2> DEFINE next == [snapshot EXCEPT !.lifecycle = "Running",
                                        !.health = Healthy("Live"), !.failure = None]
    <2>1. next \in Snapshots
      BY <1>0, SnapshotTypes DEF Healthy, Lifecycles, Levels, Progresses
    <2>2. /\ snapshot' \in Snapshots
          /\ snapshot' = [next EXCEPT !.revision = snapshot.revision + 1]
      BY <1>0, <1>3, <2>1, PublishType DEF MarkRunning
    <2> QED
      BY <1>0, <1>3, <2>1, <2>2 DEF MarkRunning, Snapshots, LiveLifecycles
  <1>4. ASSUME MarkWaiting(s)
        PROVE  Goal
    <2> DEFINE next == [snapshot EXCEPT !.lifecycle = "Waiting",
                                        !.health = Health("Recovering", "WaitingForSource")]
    <2>1. next \in Snapshots
      BY <1>0, SnapshotTypes DEF Lifecycles, Levels, Progresses
    <2>2. /\ snapshot' \in Snapshots
          /\ snapshot' = [next EXCEPT !.revision = snapshot.revision + 1]
      BY <1>0, <1>4, <2>1, PublishType DEF MarkWaiting
    <2> QED
      BY <1>0, <1>4, <2>1, <2>2 DEF MarkWaiting, Snapshots, LiveLifecycles
  <1>5. ASSUME NEW lv \in Levels, UpdateHealth(s, lv)
        PROVE  Goal
    <2> DEFINE progress == IF snapshot.lifecycle = "Waiting" THEN "WaitingForSource" ELSE "Live"
               next == [snapshot EXCEPT !.health = Health(lv, progress)]
    <2>0. progress \in Progresses
      BY DEF Progresses
    <2>1. next \in Snapshots
      <3> HIDE DEF progress
      <3> QED
        BY <1>0, <2>0, SnapshotTypes
    <2>2. /\ snapshot' \in Snapshots
          /\ snapshot' = [next EXCEPT !.revision = snapshot.revision + 1]
      BY <1>0, <1>5, <2>1, PublishType DEF UpdateHealth
    <2> QED
      BY <1>0, <1>5, <2>1, <2>2 DEF UpdateHealth, Snapshots, LiveLifecycles
  <1>6. Goal
    BY <1>1, <1>2, <1>3, <1>4, <1>5 DEF Publication
  <1>7. UNCHANGED <<sessionVars, nextSession, workerVars, draining>>
    BY DEF Publication, UpdateStartProgress, UpdateSource, MarkRunning, MarkWaiting,
           UpdateHealth
  <1> QED
    BY <1>6, <1>7 DEF TypeOK, Snapshots, sessionVars, workerVars

LEMMA StopStep ==
  ASSUME TypeOK, RequestStop
  PROVE  /\ TypeOK'
         /\ snapshot'.lifecycle = "Stopping"
         /\ snapshot'.session = snapshot.session
  <1> DEFINE next == [snapshot EXCEPT !.lifecycle = "Stopping",
                                      !.health = Healthy("Stopping")]
  <1>1. snapshot \in Snapshots
    BY DEF TypeOK, Snapshots
  <1>2. next \in Snapshots
    BY <1>1, SnapshotTypes DEF Healthy, Lifecycles, Levels, Progresses
  <1>3. /\ snapshot' \in Snapshots
        /\ snapshot'.lifecycle = "Stopping"
        /\ snapshot'.session = snapshot.session
    <2>1. CASE snapshot.lifecycle = "Stopping"
      BY <1>1, <2>1 DEF RequestStop
    <2>2. CASE snapshot.lifecycle # "Stopping"
      <3>1. /\ snapshot' \in Snapshots
            /\ snapshot' = [next EXCEPT !.revision = snapshot.revision + 1]
        BY <1>1, <1>2, <2>2, PublishType DEF RequestStop
      <3> QED
        BY <1>1, <1>2, <3>1 DEF Snapshots
    <2> QED
      BY <2>1, <2>2
  <1> QED
    BY <1>3 DEF RequestStop, TypeOK, Snapshots, workerVars

LEMMA RegisterStep ==
  ASSUME TypeOK, NEW s \in Sessions, NEW l \in Lifetimes, RegisterWorker(s, l)
  PROVE  /\ TypeOK'
         /\ DOMAIN workers' = DOMAIN workers \cup {nextWorker}
  <1>1. /\ DOMAIN workers' = DOMAIN workers \cup {nextWorker}
        /\ workers' \in [DOMAIN workers' -> Lifetimes]
    BY DEF RegisterWorker, TypeOK
  <1>2. nextWorker' \in WorkerIds
    BY LimitsAreNatural DEF RegisterWorker, TypeOK, WorkerIds
  <1>3. DOMAIN workers' \in SUBSET WorkerIds /\ reporters' \in SUBSET Reporters
    BY <1>1 DEF RegisterWorker, TypeOK, Reporters
  <1> QED
    BY <1>1, <1>2, <1>3 DEF RegisterWorker, TypeOK

LEMMA ReportStep ==
  ASSUME TypeOK, NEW r \in reporters, NEW o \in Outcomes, ReporterFinish(r, o)
  PROVE  TypeOK'
  <1>1. [session |-> r.session, worker |-> r.worker, outcome |-> o] \in Completions
    BY DEF TypeOK, Reporters, Completions
  <1>2. channel' \in Seq(Completions)
    BY <1>1 DEF TypeOK, ReporterFinish
  <1> QED
    BY <1>2 DEF ReporterFinish, TypeOK, sessionVars

LEMMA FailStep ==
  ASSUME TypeOK, NEW s \in Sessions, Fail(s) \/ ShutdownTimedOut(s)
  PROVE  /\ TypeOK'
         /\ snapshot'.lifecycle = "Failed"
         /\ snapshot'.session = snapshot.session
         /\ cancelled' = cancelled \cup {s}
  <1>1. PICK e \in Errors : FailSession(s, e)
    BY DEF Fail, ShutdownTimedOut, Errors
  <1>2. /\ snapshot' \in Snapshots
        /\ snapshot'.lifecycle = "Failed"
        /\ snapshot'.session = snapshot.session
        /\ cancelled' = cancelled \cup {s}
        /\ cancelled' \in SUBSET Sessions
    BY <1>1, FailSessionType DEF TypeOK, Snapshots
  <1> QED
    BY <1>2 DEF Fail, ShutdownTimedOut, TypeOK, Snapshots, workerVars

\* try_finalize_cleanup gives the session up exactly when the cleanup is done and
\* no registration is left, and otherwise changes nothing on show.
LEMMA FinalizeType ==
  ASSUME snapshot \in Snapshots, NEW registered, NEW cleaned \in BOOLEAN,
         DOMAIN registered \in SUBSET WorkerIds,
         registered \in [DOMAIN registered -> Lifetimes],
         active \in Sessions \cup {NoSession},
         TryFinalizeCleanup(registered, cleaned)
  PROVE  /\ snapshot' \in Snapshots
         /\ active' \in {active, NoSession}
         /\ DOMAIN workers' = DOMAIN registered
         /\ workers' \in [DOMAIN workers' -> Lifetimes]
         /\ cleanupFinished' \in BOOLEAN
         /\ \/ /\ active' = NoSession
               /\ ~cleanupFinished'
               /\ cleaned
               /\ DOMAIN registered = {}
               /\ \/ snapshot' = snapshot
                  \/ /\ snapshot.lifecycle = "Stopping"
                     /\ snapshot'.lifecycle = "Stopped"
                     /\ snapshot'.session = NoSession
            \/ /\ active' = active
               /\ cleanupFinished' = cleaned
               /\ snapshot' = snapshot
               /\ ~(cleaned /\ DOMAIN registered = {})
  <1>1. CASE cleaned /\ DOMAIN registered = {}
    <2>1. /\ active' = NoSession
          /\ workers' = NoWorkers
          /\ cleanupFinished' = FALSE
      BY <1>1 DEF TryFinalizeCleanup
    <2>2. CASE snapshot.lifecycle = "Stopping"
      <3>1. Publish(DefaultSnapshot)
        BY <1>1, <2>2 DEF TryFinalizeCleanup
      <3>2. /\ snapshot' \in Snapshots
            /\ snapshot' = [DefaultSnapshot EXCEPT !.revision = snapshot.revision + 1]
        BY <3>1, SnapshotTypes, PublishType
      <3>3. snapshot'.lifecycle = "Stopped" /\ snapshot'.session = NoSession
        BY <3>2 DEF DefaultSnapshot
      <3> QED
        BY <1>1, <2>1, <2>2, <3>2, <3>3, NoWorkersType
    <2>3. CASE snapshot.lifecycle # "Stopping"
      BY <1>1, <2>1, <2>3, NoWorkersType DEF TryFinalizeCleanup
    <2> QED
      BY <2>2, <2>3
  <1>2. CASE ~(cleaned /\ DOMAIN registered = {})
    BY <1>2 DEF TryFinalizeCleanup
  <1> QED
    BY <1>1, <1>2

\* How a step may leave the session: what is on show, the token and the owner.
Failed(s) ==
  /\ snapshot'.lifecycle = "Failed"
  /\ snapshot'.session = snapshot.session
  /\ cancelled' = cancelled \cup {s}

Released ==
  /\ active' = NoSession
  /\ ~cleanupFinished'
  /\ DOMAIN workers' = {}

Quiet == snapshot' = snapshot /\ cancelled' = cancelled

StoppedNow ==
  /\ snapshot.lifecycle = "Stopping"
  /\ snapshot'.lifecycle = "Stopped"
  /\ snapshot'.session = NoSession
  /\ cancelled' = cancelled

LEMMA CleanupStep ==
  ASSUME TypeOK, NEW s \in Sessions, NEW ok \in BOOLEAN, FinishCleanup(s, ok)
  PROVE  /\ TypeOK'
         /\ DOMAIN workers' = DOMAIN workers
         /\ \/ Released /\ DOMAIN workers = {} /\ (Quiet \/ StoppedNow \/ Failed(s))
            \/ active' = active /\ cleanupFinished' /\ (Quiet \/ Failed(s))
  <1>1. /\ snapshot \in Snapshots
        /\ active \in Sessions \cup {NoSession}
        /\ DOMAIN workers \in SUBSET WorkerIds
        /\ workers \in [DOMAIN workers -> Lifetimes]
        /\ cancelled \in SUBSET Sessions
    BY DEF TypeOK, Snapshots
  <1>2. CASE ok
    <2>1. TryFinalizeCleanup(workers, TRUE) /\ cancelled' = cancelled
      BY <1>2 DEF FinishCleanup
    <2>2. /\ snapshot' \in Snapshots
          /\ active' \in {active, NoSession}
          /\ DOMAIN workers' = DOMAIN workers
          /\ workers' \in [DOMAIN workers' -> Lifetimes]
          /\ cleanupFinished' \in BOOLEAN
          /\ \/ /\ Released
                /\ DOMAIN workers = {}
                /\ Quiet \/ StoppedNow
             \/ /\ active' = active
                /\ cleanupFinished'
                /\ Quiet
      BY <1>1, <2>1, FinalizeType DEF Released, Quiet, StoppedNow
    <2> QED
      BY <1>1, <2>1, <2>2 DEF FinishCleanup, TypeOK, Snapshots, workerVars
  <1>3. CASE ~ok
    <2>1. FailSession(s, "Reported") /\ "Reported" \in Errors
      BY <1>3 DEF FinishCleanup, Errors
    <2>2. snapshot' \in Snapshots /\ Failed(s) /\ cancelled' \in SUBSET Sessions
      BY <1>1, <2>1, FailSessionType DEF Failed
    <2>3. /\ workers' = workers
          /\ \/ Released /\ DOMAIN workers = {}
             \/ active' = active /\ cleanupFinished'
          /\ cleanupFinished' \in BOOLEAN
      BY <1>3 DEF FinishCleanup, Released
    <2>4. active' \in Sessions \cup {NoSession}
      BY <1>1, <2>3 DEF Released
    <2> QED
      BY <1>1, <2>2, <2>3, <2>4 DEF FinishCleanup, TypeOK, Snapshots, workerVars
  <1> QED
    BY <1>2, <1>3

\* One completion is received; the registration it names is dropped, unless it
\* is stale.
LEMMA DrainStep ==
  ASSUME TypeOK, DrainNext
  PROVE  LET c == Head(channel) IN
         /\ TypeOK'
         /\ c \in Completions
         /\ \/ /\ ~IsActive(c.session) \/ c.worker \notin DOMAIN workers
               /\ UNCHANGED <<snapshot, sessionVars>>
            \/ /\ IsActive(c.session)
               /\ DOMAIN workers' = DOMAIN workers \ {c.worker}
               /\ \/ active' = active /\ cleanupFinished' = cleanupFinished
                                     /\ (Quiet \/ Failed(c.session))
                  \/ Released /\ cleanupFinished /\ (Quiet \/ StoppedNow)
  <1> DEFINE c == Head(channel)
             w == c.worker
             rest == [x \in DOMAIN workers \ {w} |-> workers[x]]
             Applied == /\ IsActive(c.session)
                        /\ DOMAIN workers' = DOMAIN workers \ {w}
                        /\ \/ active' = active /\ cleanupFinished' = cleanupFinished
                                              /\ (Quiet \/ Failed(c.session))
                           \/ Released /\ cleanupFinished /\ (Quiet \/ StoppedNow)
             Typed == /\ snapshot' \in Snapshots
                      /\ active' \in Sessions \cup {NoSession}
                      /\ cancelled' \in SUBSET Sessions
                      /\ DOMAIN workers' \in SUBSET WorkerIds
                      /\ workers' \in [DOMAIN workers' -> Lifetimes]
                      /\ cleanupFinished' \in BOOLEAN
  <1>1. /\ snapshot \in Snapshots
        /\ active \in Sessions \cup {NoSession}
        /\ DOMAIN workers \in SUBSET WorkerIds
        /\ workers \in [DOMAIN workers -> Lifetimes]
        /\ cancelled \in SUBSET Sessions
        /\ cleanupFinished \in BOOLEAN
    BY DEF TypeOK, Snapshots
  <1>2. channel \in Seq(Completions) /\ channel # <<>> /\ channel' = Tail(channel)
    BY DEF TypeOK, DrainNext
  <1>3. c \in Completions /\ channel' \in Seq(Completions)
    BY <1>2
  <1>4. c.session \in Sessions /\ w \in WorkerIds /\ c.outcome \in Outcomes
    BY <1>3 DEF Completions
  <1>5. ApplyWorkerCompletion(c)
    BY DEF DrainNext
  <1>6. /\ DOMAIN rest = DOMAIN workers \ {w}
        /\ DOMAIN rest \in SUBSET WorkerIds
        /\ rest \in [DOMAIN rest -> Lifetimes]
    BY <1>1
  <1>7. CASE ~IsActive(c.session) \/ w \notin DOMAIN workers
    <2>1. UNCHANGED <<snapshot, sessionVars>>
      BY <1>5, <1>7 DEF ApplyWorkerCompletion
    <2>2. Typed
      BY <1>1, <2>1 DEF sessionVars
    <2> QED
      BY <1>3, <1>7, <2>1, <2>2 DEF DrainNext, TypeOK, Snapshots
  <1>8. CASE IsActive(c.session) /\ w \in DOMAIN workers
    <2> DEFINE f == FailureOf(c, workers[w])
    <2>0. f \in Errors \cup {None}
      BY <1>4 DEF FailureOf, Outcomes, Errors, None
    <2>1. CASE f # None
      <3>1. /\ FailSession(c.session, f)
            /\ workers' = rest
            /\ UNCHANGED <<active, cleanupFinished>>
        BY <1>5, <1>8, <2>1 DEF ApplyWorkerCompletion
      <3>2. f \in Errors
        BY <2>0, <2>1
      <3>3. snapshot' \in Snapshots /\ Failed(c.session) /\ cancelled' \in SUBSET Sessions
        <4> HIDE DEF f, c
        <4> QED
          BY <1>1, <1>4, <3>1, <3>2, FailSessionType DEF Failed
      <3> QED
        BY <1>1, <1>3, <1>6, <1>8, <3>1, <3>3 DEF DrainNext, TypeOK, Snapshots
    <2>2. CASE f = None
      <3>1. TryFinalizeCleanup(rest, cleanupFinished) /\ cancelled' = cancelled
        BY <1>5, <1>8, <2>2 DEF ApplyWorkerCompletion
      <3>2. /\ snapshot' \in Snapshots
            /\ active' \in {active, NoSession}
            /\ DOMAIN workers' = DOMAIN rest
            /\ workers' \in [DOMAIN workers' -> Lifetimes]
            /\ cleanupFinished' \in BOOLEAN
            /\ \/ /\ Released
                  /\ cleanupFinished
                  /\ Quiet \/ StoppedNow
               \/ /\ active' = active
                  /\ cleanupFinished' = cleanupFinished
                  /\ Quiet
        <4> HIDE DEF rest
        <4> QED
          BY <1>1, <1>6, <3>1, FinalizeType DEF Released, Quiet, StoppedNow
      <3> QED
        BY <1>1, <1>3, <1>6, <1>8, <3>1, <3>2 DEF DrainNext, TypeOK, Snapshots
    <2> QED
      BY <2>1, <2>2
  <1> QED
    BY <1>7, <1>8

\* What every well-typed step of the supervisor is, with the caller's session.
LEMMA SessionCallCases ==
  ASSUME NEW s, SessionCall(s)
  PROVE  \/ Publication(s)
         \/ \E l \in Lifetimes : RegisterWorker(s, l)
         \/ \E ok \in BOOLEAN : FinishCleanup(s, ok)
         \/ Fail(s) \/ ShutdownTimedOut(s)
  BY DEF SessionCall, Publication

LEMMA KnownSessionsAreSessions ==
  ASSUME TypeOK
  PROVE  KnownSessions \subseteq Sessions
  BY LimitsAreNatural DEF TypeOK, KnownSessions, Sessions

LEMMA TypeInit == Init => TypeOK
  <1> SUFFICES ASSUME Init PROVE TypeOK
    OBVIOUS
  <1>1. Healthy("Idle") \in [level : Levels, progress : Progresses]
    BY DEF Healthy, Health, Levels, Progresses
  <1>2. snapshot \in Snapshots
    BY <1>1, LimitsAreNatural DEF Init, Snapshots, DefaultSnapshot, Lifecycles
  <1>3. channel \in Seq(Completions)
    BY DEF Init
  <1>4. /\ nextSession \in Sessions /\ nextWorker \in WorkerIds
        /\ DOMAIN workers \in SUBSET WorkerIds
        /\ workers \in [DOMAIN workers -> Lifetimes]
    BY NoWorkersType, LimitsAreNatural DEF Init, Sessions, WorkerIds
  <1> QED
    BY <1>2, <1>3, <1>4 DEF Init, TypeOK, Snapshots

LEMMA TypeNext == TypeOK /\ [Next]_vars => TypeOK'
  <1> SUFFICES ASSUME TypeOK, [Next]_vars PROVE TypeOK'
    OBVIOUS
  <1>1. ASSUME NEW m \in Modes, NEW src \in Sources, Start(m, src) PROVE TypeOK'
    BY <1>1, StartStep
  <1>2. ASSUME NEW s \in KnownSessions, SessionCall(s) PROVE TypeOK'
    BY <1>2, KnownSessionsAreSessions, SessionCallCases, PublicationStep, RegisterStep,
       CleanupStep, FailStep
  <1>3. ASSUME NEW m \in Modes, RequestStopForMode(m) PROVE TypeOK'
    BY <1>3, StopStep DEF RequestStopForMode
  <1>4. ASSUME NEW r \in reporters, NEW o \in Outcomes, ReporterFinish(r, o) PROVE TypeOK'
    BY <1>4, ReportStep
  <1>5. CASE BeginDrain \/ EndDrain
    BY <1>5 DEF BeginDrain, EndDrain, TypeOK, sessionVars, workerVars
  <1>6. CASE DrainNext
    BY <1>6, DrainStep
  <1>7. CASE UNCHANGED vars
    BY <1>7 DEF vars, TypeOK, sessionVars, workerVars
  <1> QED
    BY <1>1, <1>2, <1>3, <1>4, <1>5, <1>6, <1>7 DEF Next

\* Every reachable state of the supervisor is well typed: in particular the
\* revision and the two counters never pass the limits of their integer types.
THEOREM TypeCorrect == Spec => []TypeOK
  BY TypeInit, TypeNext, PTL DEF Spec

-----------------------------------------------------------------------------
(* Who is still awaited.                                                   *)

Awaited(c) == [session |-> c.session, worker |-> c.worker]

LEMMA OutstandingUnchanged ==
  ASSUME UNCHANGED <<reporters, channel>>
  PROVE  /\ Outstanding' = Outstanding
         /\ ReportsOnce => ReportsOnce'
  <1>1. Queued' = Queued
    BY DEF Queued
  <1>2. Outstanding' = Outstanding
    BY <1>1 DEF Outstanding
  <1>3. ReportsOnce => ReportsOnce'
    BY DEF ReportsOnce
  <1> QED
    BY <1>2, <1>3

\* Registering adds one worker with a number nobody has had.
LEMMA OutstandingRegister ==
  ASSUME TypeOK, ReportsOnce, NumbersAreFresh, NEW s \in Sessions, NEW l \in Lifetimes,
         RegisterWorker(s, l)
  PROVE  /\ Outstanding' = Outstanding \cup {[session |-> s, worker |-> nextWorker]}
         /\ ReportsOnce'
         /\ nextWorker' = nextWorker + 1
  <1> DEFINE new == [session |-> s, worker |-> nextWorker]
  <1>1. reporters' = reporters \cup {new} /\ channel' = channel /\ nextWorker' = nextWorker + 1
    BY DEF RegisterWorker
  <1>2. Queued' = Queued
    BY <1>1 DEF Queued
  <1>3. Outstanding' = Outstanding \cup {new}
    BY <1>1, <1>2 DEF Outstanding
  <1>4. /\ \A r \in reporters : r.worker < nextWorker
        /\ \A i \in 1..Len(channel) : channel[i].worker < nextWorker
    <2>1. \A r \in reporters : r \in Outstanding
      BY DEF Outstanding
    <2>2. \A i \in 1..Len(channel) : Awaited(channel[i]) \in Outstanding
      BY DEF Outstanding, Queued, Awaited
    <2>3. \A i \in 1..Len(channel) : Awaited(channel[i]).worker = channel[i].worker
      BY DEF Awaited
    <2> QED
      BY <2>1, <2>2, <2>3 DEF NumbersAreFresh
  <1>5. nextWorker \in Nat /\ new.worker = nextWorker
    BY DEF TypeOK, WorkerIds
  <1>6. ReportsOnce'
    <2>1. \A r \in reporters : r.worker # nextWorker
      BY <1>4, <1>5
    <2>2. \A i \in 1..Len(channel) : channel[i].worker # nextWorker
      BY <1>4, <1>5
    <2> QED
      BY <1>1, <1>5, <2>1, <2>2 DEF ReportsOnce
  <1> QED
    BY <1>1, <1>3, <1>6

\* Reporting moves a worker from the reporters to the channel.
LEMMA OutstandingReport ==
  ASSUME TypeOK, ReportsOnce, NEW r \in reporters, NEW o \in Outcomes, ReporterFinish(r, o)
  PROVE  /\ Outstanding' = Outstanding
         /\ ReportsOnce'
  <1> DEFINE c == [session |-> r.session, worker |-> r.worker, outcome |-> o]
             n == Len(channel)
  <1>1. /\ reporters' = reporters \ {r}
        /\ channel' = Append(channel, c)
    BY DEF ReporterFinish
  <1>2. c \in Completions /\ channel \in Seq(Completions) /\ r \in Reporters
    BY DEF TypeOK, Reporters, Completions
  <1>3. /\ Len(channel') = n + 1
        /\ n \in Nat
        /\ channel'[n + 1] = c
        /\ \A i \in 1..n : channel'[i] = channel[i]
    BY <1>1, <1>2
  <1>4. 1..(n + 1) = (1..n) \cup {n + 1}
    BY <1>3
  <1> HIDE DEF c, n
  <1>5. Queued' = Queued \cup {c}
    BY <1>3, <1>4 DEF Queued, n
  <1>6. Awaited(c) = r
    BY <1>2 DEF Awaited, Reporters, c
  <1>7. Outstanding' = Outstanding
    BY <1>1, <1>5, <1>6 DEF Outstanding, Awaited
  <1>8. c.worker = r.worker
    BY DEF c
  <1>9. ReportsOnce'
    <2>1. /\ \A i \in 1..n : channel'[i].worker # channel'[n + 1].worker
          /\ \A i, j \in 1..n : channel'[i].worker = channel'[j].worker => i = j
      BY <1>3, <1>8 DEF ReportsOnce, n
    <2>2. \A q \in reporters', i \in 1..n : q.worker # channel'[i].worker
      BY <1>1, <1>3 DEF ReportsOnce, n
    <2>3. \A q \in reporters' : q.worker # channel'[n + 1].worker
      BY <1>1, <1>3, <1>8 DEF ReportsOnce
    <2>4. \A q, p \in reporters' : q.worker = p.worker => q = p
      BY <1>1 DEF ReportsOnce
    <2> QED
      BY <1>3, <1>4, <2>1, <2>2, <2>3, <2>4 DEF ReportsOnce
  <1> QED
    BY <1>7, <1>9

\* Receiving takes away exactly the worker that is received.
LEMMA OutstandingDrain ==
  ASSUME TypeOK, ReportsOnce, DrainNext
  PROVE  LET c == Head(channel) IN
         /\ Awaited(c) \in Outstanding
         /\ Outstanding' \subseteq Outstanding
         /\ {r.worker : r \in Outstanding'} = {r.worker : r \in Outstanding} \ {c.worker}
         /\ ReportsOnce'
  <1> DEFINE c == Head(channel)
             n == Len(channel)
  <1>1. /\ channel \in Seq(Completions) /\ channel # <<>>
        /\ channel' = Tail(channel)
        /\ reporters' = reporters
    BY DEF TypeOK, DrainNext
  <1>2. /\ n \in Nat /\ n >= 1
        /\ Len(channel') = n - 1
        /\ c = channel[1]
        /\ \A i \in 1..(n - 1) : channel'[i] = channel[i + 1]
    BY <1>1
  <1> HIDE DEF n, c
  <1>3. Queued = Queued' \cup {c}
    <2>1. ASSUME NEW i \in 1..n PROVE channel[i] \in Queued' \cup {c}
      <3>1. CASE i = 1
        BY <1>2, <3>1
      <3>2. CASE i # 1
        <4>1. i - 1 \in 1..(n - 1) /\ (i - 1) + 1 = i
          BY <1>2, <3>2
        <4>2. channel'[i - 1] = channel[i]
          BY <1>2, <4>1
        <4> QED
          BY <1>2, <4>1, <4>2 DEF Queued
      <3> QED
        BY <3>1, <3>2
    <2>2. ASSUME NEW i \in 1..(n - 1) PROVE channel'[i] \in Queued
      <3>1. i + 1 \in 1..n
        BY <1>2
      <3> QED
        BY <1>2, <3>1 DEF Queued, n
    <2>3. c \in Queued
      BY <1>2 DEF Queued, n
    <2> QED
      BY <1>2, <2>1, <2>2, <2>3 DEF Queued, n
  <1>4. \A d \in Queued' : d.worker # c.worker
    <2> SUFFICES ASSUME NEW i \in 1..(n - 1) PROVE channel'[i].worker # c.worker
      BY <1>2 DEF Queued
    <2>1. i + 1 \in 1..n /\ 1 \in 1..n /\ i + 1 # 1
      BY <1>2
    <2> QED
      BY <1>2, <2>1 DEF ReportsOnce, n
  <1>5. \A r \in reporters : r.worker # c.worker
    BY <1>2 DEF ReportsOnce, n
  <1>6. Outstanding = Outstanding' \cup {Awaited(c)}
    BY <1>1, <1>3 DEF Outstanding, Awaited
  <1>7. \A r \in Outstanding' : r.worker # c.worker
    BY <1>1, <1>4, <1>5 DEF Outstanding
  <1>8. Awaited(c).worker = c.worker
    BY DEF Awaited
  <1>9. {r.worker : r \in Outstanding'} = {r.worker : r \in Outstanding} \ {c.worker}
    BY <1>6, <1>7, <1>8
  <1>10. ReportsOnce'
    <2>1. \A i, j \in 1..(n - 1) : channel'[i].worker = channel'[j].worker => i = j
      <3> SUFFICES ASSUME NEW i \in 1..(n - 1), NEW j \in 1..(n - 1),
                          channel[i + 1].worker = channel[j + 1].worker
                   PROVE  i = j
        BY <1>2
      <3>1. i + 1 \in 1..n /\ j + 1 \in 1..n
        BY <1>2
      <3>2. i + 1 = j + 1
        BY <3>1 DEF ReportsOnce, n
      <3> QED
        BY <1>2, <3>2
    <2>2. \A r \in reporters, i \in 1..(n - 1) : r.worker # channel'[i].worker
      <3> SUFFICES ASSUME NEW r \in reporters, NEW i \in 1..(n - 1)
                   PROVE  r.worker # channel[i + 1].worker
        BY <1>2
      <3>1. i + 1 \in 1..n
        BY <1>2
      <3> QED
        BY <3>1 DEF ReportsOnce, n
    <2> QED
      BY <1>1, <1>2, <2>1, <2>2 DEF ReportsOnce
  <1> QED
    BY <1>6, <1>9, <1>10 DEF c

-----------------------------------------------------------------------------
(* The inductive invariant.                                                *)

\* Nothing is outstanding when no session is active.
LEMMA IdleAwaitsNobody ==
  ASSUME TypeOK, NoWorkerOutlivesItsSession, active = NoSession
  PROVE  Outstanding = {}
  <1>1. \A r \in Outstanding : r.session \in Sessions
    <2>1. \A r \in reporters : r.session \in Sessions
      BY DEF TypeOK, Reporters
    <2>2. \A i \in 1..Len(channel) : channel[i] \in Completions
      BY DEF TypeOK
    <2>3. \A i \in 1..Len(channel) : channel[i].session \in Sessions
      BY <2>2 DEF Completions
    <2> QED
      BY <2>1, <2>3 DEF Outstanding, Queued
  <1> QED
    BY <1>1 DEF NoWorkerOutlivesItsSession, NoSession, Sessions

LEMMA InvInit == Init => Inv
  <1> SUFFICES ASSUME Init PROVE Inv
    OBVIOUS
  <1>1. TypeOK
    BY TypeInit
  <1>2. Outstanding = {}
    BY DEF Init, Outstanding, Queued
  <1>3. DOMAIN workers = {}
    BY NoWorkersType DEF Init
  <1>4. ReportsOnce
    BY DEF Init, ReportsOnce
  <1>5. NumbersAreFresh
    BY <1>2 DEF Init, NumbersAreFresh, DefaultSnapshot, NoSession
  <1> QED
    BY <1>1, <1>2, <1>3, <1>4, <1>5
       DEF Init, Inv, NoWorkerOutlivesItsSession, RegistrationsAreAwaited,
           CancelledIsNeverLive, NothingLeftWhenIdle

\* Failing, or leaving alone, the snapshot and the token of the active session
\* keeps them in step.
LEMMA TokenFollowsLifecycle ==
  ASSUME Inv, NEW s \in Sessions, IsActive(s), active' = active, nextSession' = nextSession,
         Quiet \/ Failed(s)
  PROVE  /\ CancelledIsNeverLive'
         /\ active' < nextSession' /\ snapshot'.session < nextSession'
         /\ \A x \in cancelled' : x < nextSession'
  <1>1. CASE Quiet
    BY <1>1 DEF Inv, Quiet, CancelledIsNeverLive, NumbersAreFresh, IsCancelled
  <1>2. CASE Failed(s)
    BY <1>2 DEF Inv, Failed, IsActive, CancelledIsNeverLive, NumbersAreFresh, IsCancelled,
                LiveLifecycles
  <1> QED
    BY <1>1, <1>2

LEMMA InvStart ==
  ASSUME Inv, NEW m \in Modes, NEW src \in Sources, Start(m, src)
  PROVE  Inv'
  <1>1. /\ TypeOK'
        /\ snapshot'.lifecycle = "Starting"
        /\ snapshot'.session = nextSession
    BY StartStep DEF Inv
  <1>2. /\ active = NoSession /\ active' = nextSession /\ nextSession' = nextSession + 1
        /\ cancelled' = cancelled /\ workers' = NoWorkers /\ ~cleanupFinished'
        /\ UNCHANGED <<reporters, channel, nextWorker>>
    BY DEF Start, workerVars
  <1>3. Outstanding' = {} /\ ReportsOnce'
    BY <1>2, IdleAwaitsNobody, OutstandingUnchanged DEF Inv
  <1>4. nextSession \in Nat /\ nextSession # NoSession
    BY DEF Inv, TypeOK, Sessions, NoSession
  <1>5. nextSession \notin cancelled
    BY <1>4 DEF Inv, NumbersAreFresh
  <1>6. CancelledIsNeverLive'
    BY <1>1, <1>2, <1>5 DEF CancelledIsNeverLive, IsCancelled, LiveLifecycles
  <1>7. \A s \in cancelled : s < nextSession + 1
    BY <1>4 DEF Inv, TypeOK, NumbersAreFresh, Sessions
  <1>8. NumbersAreFresh'
    BY <1>1, <1>2, <1>3, <1>4, <1>7 DEF NumbersAreFresh
  <1> QED
    BY <1>1, <1>2, <1>3, <1>6, <1>8, NoWorkersType
       DEF Inv, NoWorkerOutlivesItsSession, RegistrationsAreAwaited, NothingLeftWhenIdle

LEMMA InvPublication ==
  ASSUME Inv, NEW s \in Sessions, Publication(s)
  PROVE  Inv'
  <1>1. /\ TypeOK'
        /\ snapshot.lifecycle \in LiveLifecycles
        /\ snapshot'.lifecycle \in LiveLifecycles
        /\ snapshot'.session = snapshot.session
        /\ UNCHANGED <<sessionVars, nextSession, workerVars, draining>>
    BY PublicationStep DEF Inv
  <1>2. Outstanding' = Outstanding /\ ReportsOnce'
    BY <1>1, OutstandingUnchanged DEF Inv, workerVars
  <1>3. CancelledIsNeverLive'
    BY <1>1 DEF Inv, CancelledIsNeverLive, IsCancelled, LiveLifecycles, sessionVars
  <1>4. NumbersAreFresh'
    BY <1>1, <1>2 DEF Inv, NumbersAreFresh, sessionVars, workerVars
  <1> QED
    BY <1>1, <1>2, <1>3, <1>4
       DEF Inv, NoWorkerOutlivesItsSession, RegistrationsAreAwaited, NothingLeftWhenIdle,
           sessionVars

LEMMA InvStop ==
  ASSUME Inv, RequestStop
  PROVE  Inv'
  <1>1. /\ TypeOK'
        /\ snapshot'.lifecycle = "Stopping"
        /\ snapshot'.session = snapshot.session
    BY StopStep DEF Inv
  <1>2. /\ cancelled' = cancelled \cup {active}
        /\ UNCHANGED <<active, workers, cleanupFinished, nextSession, nextWorker,
                       reporters, channel>>
    BY DEF RequestStop, workerVars
  <1>3. Outstanding' = Outstanding /\ ReportsOnce'
    BY <1>2, OutstandingUnchanged DEF Inv
  <1>4. CancelledIsNeverLive'
    BY <1>1, <1>2 DEF Inv, CancelledIsNeverLive, IsCancelled, LiveLifecycles
  <1>5. NumbersAreFresh'
    BY <1>1, <1>2, <1>3 DEF Inv, NumbersAreFresh
  <1> QED
    BY <1>1, <1>2, <1>3, <1>4, <1>5
       DEF Inv, NoWorkerOutlivesItsSession, RegistrationsAreAwaited, NothingLeftWhenIdle

LEMMA InvRegister ==
  ASSUME Inv, NEW s \in Sessions, NEW l \in Lifetimes, RegisterWorker(s, l)
  PROVE  Inv'
  <1> DEFINE new == [session |-> s, worker |-> nextWorker]
  <1>1. TypeOK' /\ DOMAIN workers' = DOMAIN workers \cup {nextWorker}
    BY RegisterStep DEF Inv
  <1>2. /\ Outstanding' = Outstanding \cup {new}
        /\ ReportsOnce'
        /\ nextWorker' = nextWorker + 1
    BY OutstandingRegister DEF Inv
  <1>3. /\ active = s
        /\ UNCHANGED <<snapshot, active, cancelled, cleanupFinished, nextSession>>
    BY DEF RegisterWorker, IsActive
  <1>4. NoWorkerOutlivesItsSession'
    BY <1>2, <1>3 DEF Inv, NoWorkerOutlivesItsSession
  <1>5. RegistrationsAreAwaited'
    <2>1. new.worker = nextWorker
      OBVIOUS
    <2> HIDE DEF new
    <2>2. {r.worker : r \in Outstanding'} = {r.worker : r \in Outstanding} \cup {nextWorker}
      BY <1>2, <2>1
    <2> QED
      BY <1>1, <2>2 DEF Inv, RegistrationsAreAwaited
  <1>6. CancelledIsNeverLive' /\ NothingLeftWhenIdle'
    BY <1>3 DEF Inv, CancelledIsNeverLive, IsCancelled, NothingLeftWhenIdle
  <1>7. NumbersAreFresh'
    <2>1. \A r \in Outstanding : r.worker < nextWorker
      BY DEF Inv, NumbersAreFresh
    <2>2. nextWorker \in Nat /\ new.worker = nextWorker
      BY DEF Inv, TypeOK, WorkerIds
    <2>3. \A r \in Outstanding : r.worker \in Nat
      <3>1. \A r \in reporters : r.worker \in Nat
        BY DEF Inv, TypeOK, Reporters, WorkerIds
      <3>2. \A i \in 1..Len(channel) : channel[i] \in Completions
        BY DEF Inv, TypeOK
      <3>3. \A i \in 1..Len(channel) : channel[i].worker \in Nat
        BY <3>2 DEF Completions, WorkerIds
      <3> QED
        BY <3>1, <3>3 DEF Outstanding, Queued
    <2>4. \A r \in Outstanding' : r.worker < nextWorker + 1
      BY <1>2, <2>1, <2>2, <2>3
    <2> QED
      BY <1>2, <1>3, <2>4 DEF Inv, NumbersAreFresh
  <1> QED
    BY <1>1, <1>2, <1>4, <1>5, <1>6, <1>7 DEF Inv

LEMMA InvReport ==
  ASSUME Inv, NEW r \in reporters, NEW o \in Outcomes, ReporterFinish(r, o)
  PROVE  Inv'
  <1>1. TypeOK' /\ Outstanding' = Outstanding /\ ReportsOnce'
    BY ReportStep, OutstandingReport DEF Inv
  <1>2. UNCHANGED <<snapshot, active, cancelled, workers, cleanupFinished, nextSession, nextWorker>>
    BY DEF ReporterFinish, sessionVars
  <1> QED
    BY <1>1, <1>2
       DEF Inv, NoWorkerOutlivesItsSession, RegistrationsAreAwaited, NothingLeftWhenIdle,
           CancelledIsNeverLive, IsCancelled, NumbersAreFresh

LEMMA InvFail ==
  ASSUME Inv, NEW s \in Sessions, Fail(s) \/ ShutdownTimedOut(s)
  PROVE  Inv'
  <1>1. TypeOK' /\ Failed(s)
    BY FailStep DEF Inv, Failed
  <1>2. /\ IsActive(s)
        /\ UNCHANGED <<active, workers, cleanupFinished, nextSession, nextWorker,
                       reporters, channel>>
    BY DEF Fail, ShutdownTimedOut, workerVars
  <1>3. Outstanding' = Outstanding /\ ReportsOnce'
    BY <1>2, OutstandingUnchanged DEF Inv
  <1>4. CancelledIsNeverLive' /\ NumbersAreFresh'
    BY <1>1, <1>2, <1>3, TokenFollowsLifecycle DEF Inv, NumbersAreFresh
  <1> QED
    BY <1>1, <1>2, <1>3, <1>4
       DEF Inv, NoWorkerOutlivesItsSession, RegistrationsAreAwaited, NothingLeftWhenIdle

LEMMA InvCleanup ==
  ASSUME Inv, NEW s \in Sessions, NEW ok \in BOOLEAN, FinishCleanup(s, ok)
  PROVE  Inv'
  <1>1. /\ TypeOK'
        /\ DOMAIN workers' = DOMAIN workers
        /\ \/ Released /\ DOMAIN workers = {} /\ (Quiet \/ StoppedNow \/ Failed(s))
           \/ active' = active /\ cleanupFinished' /\ (Quiet \/ Failed(s))
    BY CleanupStep DEF Inv
  <1>2. /\ IsActive(s)
        /\ UNCHANGED <<nextSession, nextWorker, reporters, channel>>
    BY DEF FinishCleanup, workerVars
  <1>3. Outstanding' = Outstanding /\ ReportsOnce'
    BY <1>2, OutstandingUnchanged DEF Inv
  <1>4. RegistrationsAreAwaited'
    BY <1>1, <1>3 DEF Inv, RegistrationsAreAwaited
  <1>5. CASE Released /\ DOMAIN workers = {} /\ (Quiet \/ StoppedNow \/ Failed(s))
    <2>1. Outstanding' = {}
      BY <1>3, <1>5 DEF Inv, RegistrationsAreAwaited
    <2>2. /\ active' = NoSession /\ ~cleanupFinished'
          /\ snapshot'.session \in {snapshot.session, NoSession}
          /\ cancelled' \in {cancelled, cancelled \cup {s}}
      BY <1>5 DEF Released, Quiet, StoppedNow, Failed
    <2>3. NoSession < nextSession /\ s < nextSession
      BY <1>2 DEF Inv, TypeOK, NumbersAreFresh, IsActive, NoSession, Sessions
    <2>4. NumbersAreFresh'
      BY <1>2, <2>1, <2>2, <2>3 DEF Inv, NumbersAreFresh
    <2> QED
      BY <1>1, <1>3, <1>4, <2>1, <2>2, <2>4
         DEF Inv, NoWorkerOutlivesItsSession, NothingLeftWhenIdle, CancelledIsNeverLive
  <1>6. CASE active' = active /\ cleanupFinished' /\ (Quiet \/ Failed(s))
    <2>1. CancelledIsNeverLive' /\ NumbersAreFresh'
      BY <1>2, <1>3, <1>6, TokenFollowsLifecycle DEF Inv, NumbersAreFresh
    <2>2. active' # NoSession
      BY <1>2, <1>6 DEF IsActive
    <2> QED
      BY <1>1, <1>3, <1>4, <1>6, <2>1, <2>2
         DEF Inv, NoWorkerOutlivesItsSession, NothingLeftWhenIdle
  <1> QED
    BY <1>1, <1>5, <1>6

LEMMA InvDrain ==
  ASSUME Inv, DrainNext
  PROVE  /\ Inv'
         /\ IsActive(Head(channel).session)
         /\ Head(channel).worker \in {r.worker : r \in Outstanding}
         /\ {r.worker : r \in Outstanding'}
              = {r.worker : r \in Outstanding} \ {Head(channel).worker}
  <1> DEFINE c == Head(channel)
  <1>1. /\ Awaited(c) \in Outstanding
        /\ Outstanding' \subseteq Outstanding
        /\ {r.worker : r \in Outstanding'} = {r.worker : r \in Outstanding} \ {c.worker}
        /\ ReportsOnce'
    BY OutstandingDrain DEF Inv
  <1>2. /\ TypeOK'
        /\ c \in Completions
        /\ \/ /\ ~IsActive(c.session) \/ c.worker \notin DOMAIN workers
              /\ UNCHANGED <<snapshot, sessionVars>>
           \/ /\ IsActive(c.session)
              /\ DOMAIN workers' = DOMAIN workers \ {c.worker}
              /\ \/ active' = active /\ cleanupFinished' = cleanupFinished
                                    /\ (Quiet \/ Failed(c.session))
                 \/ Released /\ cleanupFinished /\ (Quiet \/ StoppedNow)
    BY DrainStep DEF Inv
  <1>3. UNCHANGED <<nextSession, nextWorker>>
    BY DEF DrainNext
  <1> HIDE DEF c
  <1>4. c.session = active /\ c.session \in Sessions
    BY <1>1, <1>2 DEF Inv, NoWorkerOutlivesItsSession, Awaited, Completions
  <1>5. c.worker \in {r.worker : r \in Outstanding}
    BY <1>1 DEF Awaited
  <1>6. IsActive(c.session) /\ c.worker \in DOMAIN workers
    BY <1>4, <1>5 DEF Inv, RegistrationsAreAwaited, IsActive, Sessions, NoSession
  <1>7. RegistrationsAreAwaited'
    BY <1>1, <1>2, <1>6 DEF Inv, RegistrationsAreAwaited
  <1>8. \A r \in Outstanding' : r.worker < nextWorker
    BY <1>1 DEF Inv, NumbersAreFresh
  <1>9. CASE active' = active /\ cleanupFinished' = cleanupFinished
                              /\ (Quiet \/ Failed(c.session))
    <2>1. CancelledIsNeverLive' /\ NumbersAreFresh'
      BY <1>3, <1>4, <1>6, <1>8, <1>9, TokenFollowsLifecycle DEF NumbersAreFresh
    <2>2. NoWorkerOutlivesItsSession'
      BY <1>1, <1>9 DEF Inv, NoWorkerOutlivesItsSession
    <2>3. Inv'
      BY <1>1, <1>2, <1>7, <1>9, <2>1, <2>2 DEF Inv, NothingLeftWhenIdle
    <2> QED
      BY <1>1, <1>5, <1>6, <2>3 DEF c
  <1>10. CASE Released /\ cleanupFinished /\ (Quiet \/ StoppedNow)
    <2>1. Outstanding' = {}
      BY <1>7, <1>10 DEF Released, RegistrationsAreAwaited
    <2>2. /\ active' = NoSession /\ ~cleanupFinished'
          /\ snapshot'.session \in {snapshot.session, NoSession}
          /\ cancelled' = cancelled
      BY <1>10 DEF Released, Quiet, StoppedNow
    <2>3. NoSession < nextSession
      BY DEF Inv, TypeOK, NoSession, Sessions
    <2>4. NumbersAreFresh'
      BY <1>3, <2>1, <2>2, <2>3 DEF Inv, NumbersAreFresh
    <2>5. Inv'
      BY <1>1, <1>2, <1>7, <2>1, <2>2, <2>4
         DEF Inv, NoWorkerOutlivesItsSession, NothingLeftWhenIdle, CancelledIsNeverLive
    <2> QED
      BY <1>1, <1>5, <1>6, <2>5 DEF c
  <1> QED
    BY <1>2, <1>6, <1>9, <1>10

LEMMA InvNext == Inv /\ [Next]_vars => Inv'
  <1> SUFFICES ASSUME Inv, [Next]_vars PROVE Inv'
    OBVIOUS
  <1>1. ASSUME NEW m \in Modes, NEW src \in Sources, Start(m, src) PROVE Inv'
    BY <1>1, InvStart
  <1>2. ASSUME NEW s \in KnownSessions, SessionCall(s) PROVE Inv'
    <2>1. s \in Sessions
      BY KnownSessionsAreSessions DEF Inv
    <2> QED
      BY <1>2, <2>1, SessionCallCases, InvPublication, InvRegister, InvCleanup, InvFail
  <1>3. ASSUME NEW m \in Modes, RequestStopForMode(m) PROVE Inv'
    BY <1>3, InvStop DEF RequestStopForMode
  <1>4. ASSUME NEW r \in reporters, NEW o \in Outcomes, ReporterFinish(r, o) PROVE Inv'
    BY <1>4, InvReport
  <1>5. CASE BeginDrain \/ EndDrain \/ UNCHANGED vars
    <2>1. UNCHANGED <<snapshot, sessionVars, nextSession, workerVars>>
      BY <1>5 DEF BeginDrain, EndDrain, vars
    <2>2. TypeOK'
      BY TypeNext DEF Inv
    <2>3. Outstanding' = Outstanding /\ ReportsOnce'
      BY <2>1, OutstandingUnchanged DEF Inv, workerVars
    <2> QED
      BY <2>1, <2>2, <2>3
         DEF Inv, NoWorkerOutlivesItsSession, RegistrationsAreAwaited, NothingLeftWhenIdle,
             CancelledIsNeverLive, IsCancelled, NumbersAreFresh, sessionVars, workerVars
  <1>6. CASE DrainNext
    BY <1>6, InvDrain
  <1> QED
    BY <1>1, <1>2, <1>3, <1>4, <1>5, <1>6 DEF Next

LEMMA Invariance == Spec => []Inv
  BY InvInit, InvNext, PTL DEF Spec

\* However many sessions and workers there are, a worker never outlives its
\* session: the completions that apply_worker_completion guards against as stale
\* cannot occur, and a session that is given up has heard from all its workers.
THEOREM WorkersReportToTheirSession ==
  Spec => [](NoWorkerOutlivesItsSession /\ RegistrationsAreAwaited)
  BY Invariance, PTL DEF Inv

\* No sequence of calls, in any order, shows a session whose cancellation token
\* is set as starting, running or waiting, nor cancels one without showing it.
THEOREM CancellationIsShown == Spec => []CancelledIsNeverLive
  BY Invariance, PTL DEF Inv

-----------------------------------------------------------------------------
(* Action properties.                                                      *)

Revival == snapshot.lifecycle \in {"Stopping", "Failed"} /\ snapshot'.lifecycle \in LiveLifecycles
             => snapshot'.session > snapshot.session

Joined == snapshot.lifecycle # "Stopped" /\ snapshot'.lifecycle = "Stopped"
            => Outstanding' = {} /\ active' = NoSession

LEMMA RevivalStep == Inv /\ [Next]_vars => Revival
  <1> SUFFICES ASSUME Inv, [Next]_vars,
                      snapshot.lifecycle \in {"Stopping", "Failed"},
                      snapshot'.lifecycle \in LiveLifecycles
               PROVE  snapshot'.session > snapshot.session
    BY DEF Revival
  <1>0. snapshot.lifecycle \notin LiveLifecycles /\ TypeOK
    BY DEF LiveLifecycles, Inv
  <1>1. ASSUME NEW m \in Modes, NEW src \in Sources, Start(m, src)
        PROVE  snapshot'.session > snapshot.session
    <2>1. snapshot'.session = nextSession
      BY <1>0, <1>1, StartStep
    <2>2. snapshot.session \in Int /\ nextSession \in Int
      BY <1>0 DEF TypeOK, Sessions, NoSession
    <2> QED
      BY <2>1, <2>2 DEF Inv, NumbersAreFresh
  <1>2. ASSUME NEW s \in KnownSessions, SessionCall(s)
        PROVE  FALSE
    <2>1. s \in Sessions
      BY <1>0, KnownSessionsAreSessions
    <2>2. ~Publication(s)
      BY <1>0, <2>1, PublicationStep
    <2>3. ASSUME NEW l \in Lifetimes, RegisterWorker(s, l) PROVE FALSE
      BY <1>0, <2>3 DEF RegisterWorker
    <2>4. ASSUME NEW ok \in BOOLEAN, FinishCleanup(s, ok) PROVE FALSE
      BY <1>0, <2>1, <2>4, CleanupStep DEF Quiet, StoppedNow, Failed, LiveLifecycles
    <2>5. ~(Fail(s) \/ ShutdownTimedOut(s))
      BY <1>0, <2>1, FailStep DEF LiveLifecycles
    <2> QED
      BY <1>2, <2>2, <2>3, <2>4, <2>5, SessionCallCases
  <1>3. ASSUME NEW m \in Modes, RequestStopForMode(m) PROVE FALSE
    BY <1>0, <1>3, StopStep DEF RequestStopForMode, LiveLifecycles
  <1>4. ASSUME NEW r \in reporters, NEW o \in Outcomes, ReporterFinish(r, o) PROVE FALSE
    BY <1>0, <1>4 DEF ReporterFinish
  <1>5. ASSUME BeginDrain \/ EndDrain \/ UNCHANGED vars PROVE FALSE
    BY <1>0, <1>5 DEF BeginDrain, EndDrain, vars
  <1>6. ASSUME DrainNext PROVE FALSE
    BY <1>0, <1>6, DrainStep DEF Quiet, StoppedNow, Failed, LiveLifecycles
  <1> QED
    BY <1>1, <1>2, <1>3, <1>4, <1>5, <1>6 DEF Next

LEMMA JoinedStep == Inv /\ [Next]_vars => Joined
  <1> SUFFICES ASSUME Inv, [Next]_vars,
                      snapshot.lifecycle # "Stopped", snapshot'.lifecycle = "Stopped"
               PROVE  Outstanding' = {} /\ active' = NoSession
    BY DEF Joined
  <1>0. TypeOK
    BY DEF Inv
  <1>a. ASSUME Released PROVE Outstanding' = {} /\ active' = NoSession
    <2>1. Inv'
      BY InvNext
    <2> QED
      BY <1>a, <2>1 DEF Released, Inv, RegistrationsAreAwaited
  <1>1. ASSUME NEW m \in Modes, NEW src \in Sources, Start(m, src) PROVE FALSE
    BY <1>0, <1>1, StartStep
  <1>2. ASSUME NEW s \in KnownSessions, SessionCall(s) PROVE Released
    <2>1. s \in Sessions
      BY <1>0, KnownSessionsAreSessions
    <2>2. ~Publication(s)
      BY <1>0, <2>1, PublicationStep DEF LiveLifecycles
    <2>3. ASSUME NEW l \in Lifetimes, RegisterWorker(s, l) PROVE FALSE
      BY <2>3 DEF RegisterWorker
    <2>4. ASSUME NEW ok \in BOOLEAN, FinishCleanup(s, ok) PROVE Released
      BY <1>0, <2>1, <2>4, CleanupStep DEF Quiet, Failed
    <2>5. ~(Fail(s) \/ ShutdownTimedOut(s))
      BY <1>0, <2>1, FailStep
    <2> QED
      BY <1>2, <2>2, <2>3, <2>4, <2>5, SessionCallCases
  <1>3. ASSUME NEW m \in Modes, RequestStopForMode(m) PROVE FALSE
    BY <1>0, <1>3, StopStep DEF RequestStopForMode
  <1>4. ASSUME NEW r \in reporters, NEW o \in Outcomes, ReporterFinish(r, o) PROVE FALSE
    BY <1>4 DEF ReporterFinish
  <1>5. ASSUME BeginDrain \/ EndDrain \/ UNCHANGED vars PROVE FALSE
    BY <1>5 DEF BeginDrain, EndDrain, vars
  <1>6. ASSUME DrainNext PROVE Released
    BY <1>0, <1>6, DrainStep DEF Quiet, Failed
  <1> QED
    BY <1>1, <1>2, <1>3, <1>4, <1>5, <1>6, <1>a DEF Next

\* A session that has been published as stopping or failed never comes back to
\* life: only a session with a larger number is published as live after it.
THEOREM SessionsAreNotRevived == Spec => NoRevival
  <1>1. Inv /\ [Next]_vars => [Revival]_vars
    BY RevivalStep
  <1> QED
    BY <1>1, Invariance, PTL DEF Spec, NoRevival, Revival

\* Stopped is published only when the cleanup is done and every worker has
\* reported, as the comment on finish_cleanup says.
THEOREM StoppedMeansJoined == Spec => StoppedOnlyWhenJoined
  <1>1. Inv /\ [Next]_vars => [Joined]_vars
    BY JoinedStep
  <1> QED
    BY <1>1, Invariance, PTL DEF Spec, StoppedOnlyWhenJoined, Joined

-----------------------------------------------------------------------------
(* The supervisor implements SessionOwnership.                             *)

\* The abstract state, as seen from the supervisor.
Ending == active # NoSession /\ IsCancelled(active)
Awaiting == {r.worker : r \in Outstanding}

\* A step that changes neither the owner, nor its token, nor what it awaits.
LEMMA Stutter ==
  ASSUME UNCHANGED <<active, nextSession, nextWorker, cleanupFinished, Ending, Awaiting>>
  PROVE  UNCHANGED Ownership!vars
  BY DEF Ownership!vars, Ending, Awaiting

LEMMA RefinementInit == Init => Ownership!Init
  <1> SUFFICES ASSUME Init PROVE Ownership!Init
    OBVIOUS
  <1>1. Outstanding = {}
    BY DEF Init, Outstanding, Queued
  <1> QED
    BY <1>1 DEF Init, Ownership!Init, Ownership!NoOwner, NoSession

LEMMA RefinementNext == Inv /\ [Next]_vars => [Ownership!Next]_Ownership!vars
  <1> SUFFICES ASSUME Inv, [Next]_vars
               PROVE  Ownership!Next \/ UNCHANGED Ownership!vars
    OBVIOUS
  <1>0. TypeOK /\ Inv'
    BY InvNext DEF Inv
  <1>1. ASSUME NEW m \in Modes, NEW src \in Sources, Start(m, src)
        PROVE  Ownership!Acquire
    <2>1. /\ active = NoSession /\ active' = nextSession /\ nextSession' = nextSession + 1
          /\ nextSession < MaxSession /\ ~cleanupFinished'
          /\ UNCHANGED <<cancelled, reporters, channel, nextWorker>>
      BY <1>1 DEF Start, workerVars
    <2>2. Awaiting' = Awaiting
      BY <2>1, OutstandingUnchanged DEF Awaiting
    <2>3. nextSession \in Nat /\ nextSession >= 1
      BY <1>0 DEF TypeOK, Sessions
    <2>4. nextSession - 1 + 1 \in 1..(MaxSession - 1) /\ nextSession - 1 + 1 = nextSession
      BY <2>1, <2>3, LimitsAreNatural
    <2>5. nextSession' - 1 = nextSession - 1 + 1
      BY <2>1, <2>3
    <2>6. ~Ending
      BY <2>1 DEF Ending
    <2>7. nextSession \notin cancelled
      BY <2>3 DEF Inv, NumbersAreFresh
    <2>8. ~Ending'
      BY <2>1, <2>7 DEF Ending, IsCancelled
    <2>9. Ending' = Ending
      BY <2>6, <2>8 DEF Ending
    <2>10. cleanupFinished' = cleanupFinished
      BY <2>1, <1>0 DEF Inv, NothingLeftWhenIdle, TypeOK
    <2> QED
      BY <2>1, <2>2, <2>4, <2>5, <2>9, <2>10 DEF Ownership!Acquire, Ownership!NoOwner, NoSession,
         Awaiting, Ending
  <1>2. ASSUME NEW s \in KnownSessions, Publication(s)
        PROVE  UNCHANGED Ownership!vars
    <2>1. UNCHANGED <<sessionVars, nextSession, workerVars>>
      BY <1>0, <1>2, KnownSessionsAreSessions, PublicationStep
    <2>2. Awaiting' = Awaiting /\ Ending' = Ending
      BY <2>1, OutstandingUnchanged DEF Awaiting, Ending, IsCancelled, sessionVars, workerVars
    <2> QED
      BY <2>1, <2>2, Stutter DEF sessionVars, workerVars
  <1>3. ASSUME NEW s \in KnownSessions, NEW l \in Lifetimes, RegisterWorker(s, l)
        PROVE  Ownership!Enlist
    <2>1. Outstanding' = Outstanding \cup {[session |-> s, worker |-> nextWorker]}
      BY <1>0, <1>3, KnownSessionsAreSessions, OutstandingRegister DEF Inv
    <2>2. /\ active # NoSession /\ nextWorker < MaxWorker /\ nextWorker' = nextWorker + 1
          /\ UNCHANGED <<active, cancelled, cleanupFinished, nextSession>>
      BY <1>3 DEF RegisterWorker, IsActive
    <2>3. nextWorker \in Nat /\ nextWorker >= 1
      BY <1>0 DEF TypeOK, WorkerIds
    <2>4. /\ nextWorker - 1 + 1 \in 1..(MaxWorker - 1)
          /\ nextWorker' - 1 = nextWorker - 1 + 1
          /\ nextWorker - 1 + 1 = nextWorker
      BY <2>2, <2>3, LimitsAreNatural
    <2>5. Awaiting' = Awaiting \cup {nextWorker}
      <3> DEFINE new == [session |-> s, worker |-> nextWorker]
      <3>1. new.worker = nextWorker
        OBVIOUS
      <3>2. Outstanding' = Outstanding \cup {new}
        BY <2>1
      <3> HIDE DEF new
      <3> QED
        BY <3>1, <3>2 DEF Awaiting
    <2>6. Ending' = Ending
      BY <2>2 DEF Ending, IsCancelled
    <2> QED
      BY <2>2, <2>4, <2>5, <2>6 DEF Ownership!Enlist, Ownership!NoOwner, NoSession,
         Awaiting, Ending
  <1>4. ASSUME NEW s \in KnownSessions, NEW ok \in BOOLEAN, FinishCleanup(s, ok)
        PROVE  Ownership!Clean \/ Ownership!VacateOnCleanup
    <2>1. s \in Sessions
      BY <1>0, KnownSessionsAreSessions
    <2>2. /\ active # NoSession /\ active = s
          /\ UNCHANGED <<nextSession, nextWorker, reporters, channel>>
      BY <1>4 DEF FinishCleanup, workerVars, IsActive
    <2>3. Awaiting' = Awaiting
      BY <2>2, OutstandingUnchanged DEF Awaiting
    <2>4. CASE Released /\ DOMAIN workers = {}
      <3>1. Awaiting = {} /\ Awaiting' = {}
        BY <2>3, <2>4 DEF Inv, RegistrationsAreAwaited, Awaiting
      <3>2. Ending' = FALSE
        BY <2>4 DEF Ending, Released
      <3>3. cleanupFinished' = FALSE
        BY <1>0, <2>4 DEF Released, Inv, TypeOK
      <3> QED
        BY <2>2, <2>4, <3>1, <3>2, <3>3 DEF Ownership!VacateOnCleanup, Ownership!Vacate,
           Ownership!NoOwner, NoSession, Released, Awaiting, Ending
    <2>5. CASE active' = active /\ cleanupFinished' /\ (Quiet \/ Failed(s))
      <3>1. cleanupFinished' = TRUE
        BY <1>0, <2>5 DEF Inv, TypeOK
      <3>2. Ending' = Ending \/ Ending' = TRUE
        BY <2>2, <2>5 DEF Ending, IsCancelled, Quiet, Failed
      <3> QED
        BY <2>2, <2>3, <2>5, <3>1, <3>2 DEF Ownership!Clean, Ownership!NoOwner, NoSession,
           Awaiting, Ending
    <2> QED
      BY <1>0, <1>4, <2>1, <2>4, <2>5, CleanupStep
  <1>5. ASSUME NEW s \in KnownSessions, Fail(s) \/ ShutdownTimedOut(s)
        PROVE  Ownership!End
    <2>1. /\ active # NoSession /\ active = s
          /\ UNCHANGED <<active, cleanupFinished, nextSession, nextWorker, reporters, channel>>
      BY <1>5 DEF Fail, ShutdownTimedOut, IsActive, workerVars
    <2>2. Ending' = TRUE
      BY <1>0, <1>5, <2>1, KnownSessionsAreSessions, FailStep DEF Ending, IsCancelled
    <2>3. Awaiting' = Awaiting
      BY <2>1, OutstandingUnchanged DEF Awaiting
    <2> QED
      BY <2>1, <2>2, <2>3 DEF Ownership!End, Ownership!NoOwner, NoSession, Awaiting, Ending
  <1>6. ASSUME NEW m \in Modes, RequestStopForMode(m)
        PROVE  Ownership!End
    <2>1. /\ active # NoSession
          /\ cancelled' = cancelled \cup {active}
          /\ UNCHANGED <<active, cleanupFinished, nextSession, nextWorker, reporters, channel>>
      BY <1>6 DEF RequestStopForMode, RequestStop, workerVars
    <2>2. Ending' = TRUE
      BY <2>1 DEF Ending, IsCancelled
    <2>3. Awaiting' = Awaiting
      BY <2>1, OutstandingUnchanged DEF Awaiting
    <2> QED
      BY <2>1, <2>2, <2>3 DEF Ownership!End, Ownership!NoOwner, NoSession, Awaiting, Ending
  <1>7. ASSUME NEW r \in reporters, NEW o \in Outcomes, ReporterFinish(r, o)
        PROVE  UNCHANGED Ownership!vars
    <2>1. Outstanding' = Outstanding
      BY <1>0, <1>7, OutstandingReport DEF Inv
    <2>2. UNCHANGED <<active, cancelled, cleanupFinished, nextSession, nextWorker>>
      BY <1>7 DEF ReporterFinish, sessionVars
    <2>3. Awaiting' = Awaiting /\ Ending' = Ending
      BY <2>1, <2>2 DEF Awaiting, Ending, IsCancelled
    <2> QED
      BY <2>2, <2>3, Stutter
  <1>8. ASSUME BeginDrain \/ EndDrain \/ UNCHANGED vars
        PROVE  UNCHANGED Ownership!vars
    <2>1. UNCHANGED <<sessionVars, nextSession, workerVars>>
      BY <1>8 DEF BeginDrain, EndDrain, vars
    <2>2. Awaiting' = Awaiting /\ Ending' = Ending
      BY <2>1, OutstandingUnchanged DEF Awaiting, Ending, IsCancelled, sessionVars, workerVars
    <2> QED
      BY <2>1, <2>2, Stutter DEF sessionVars, workerVars
  <1>9. ASSUME DrainNext
        PROVE  \E t \in Awaiting : Ownership!Report(t) \/ Ownership!VacateOnReport(t)
    <2> DEFINE c == Head(channel)
    <2>0. /\ IsActive(c.session)
          /\ c.worker \in Awaiting
          /\ Awaiting' = Awaiting \ {c.worker}
      BY <1>9, InvDrain DEF Awaiting
    <2>a. PICK t \in Awaiting : t = c.worker
      BY <2>0
    <2>1. IsActive(c.session) /\ Awaiting' = Awaiting \ {t}
      BY <2>0, <2>a
    <2>2. UNCHANGED <<nextSession, nextWorker>>
      BY <1>9 DEF DrainNext
    <2>3. t \in DOMAIN workers
      BY DEF Inv, RegistrationsAreAwaited, Awaiting
    <2>4. /\ DOMAIN workers' = DOMAIN workers \ {t}
          /\ \/ active' = active /\ cleanupFinished' = cleanupFinished
                                /\ (Quiet \/ Failed(c.session))
             \/ Released /\ cleanupFinished
      BY <1>0, <1>9, <2>1, <2>a, <2>3, DrainStep
    <2>5. CASE active' = active /\ cleanupFinished' = cleanupFinished
                                /\ (Quiet \/ Failed(c.session))
      <3>1. Ending' = Ending \/ Ending' = TRUE
        BY <2>1, <2>5 DEF Ending, IsCancelled, IsActive, Quiet, Failed
      <3>2. UNCHANGED <<active, nextSession - 1, nextWorker - 1, cleanupFinished>>
        BY <2>2, <2>5
      <3>3. Ownership!Report(t)
        BY <2>1, <3>1, <3>2 DEF Ownership!Report, Awaiting, Ending
      <3> QED
        BY <3>3
    <2>6. CASE Released /\ cleanupFinished
      <3>1. Awaiting' = {} /\ Awaiting = {t}
        <4>1. Awaiting' = {}
          BY <1>0, <2>6 DEF Released, Inv, RegistrationsAreAwaited, Awaiting
        <4> QED
          BY <2>1, <4>1
      <3>2. Ending' = FALSE
        BY <2>6 DEF Ending, Released
      <3>3. cleanupFinished' = FALSE
        BY <1>0, <2>6 DEF Released, Inv, TypeOK
      <3>4. Ownership!VacateOnReport(t)
        BY <2>2, <2>6, <3>1, <3>2, <3>3 DEF Ownership!VacateOnReport, Ownership!Vacate,
           Ownership!NoOwner, NoSession, Released, Awaiting, Ending
      <3> QED
        BY <3>4
    <2> QED
      BY <2>4, <2>5, <2>6
  <1>10. ASSUME NEW s \in KnownSessions, SessionCall(s)
         PROVE  Ownership!Next \/ UNCHANGED Ownership!vars
    BY <1>2, <1>3, <1>4, <1>5, <1>10, SessionCallCases DEF Ownership!Next
  <1> QED
    BY <1>1, <1>6, <1>7, <1>8, <1>9, <1>10 DEF Next, Ownership!Next, Awaiting

\* The supervisor implements SessionOwnership for any number of sessions and
\* workers: sessions take turns, and a session keeps its turn until its cleanup
\* is done and everyone who ever registered for it has reported.
THEOREM SupervisorImplementsOwnership == Spec => ImplementsOwnership
  BY RefinementInit, RefinementNext, Invariance, PTL
     DEF Spec, ImplementsOwnership, Ownership!Spec

=============================================================================
