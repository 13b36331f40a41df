-------------------------- MODULE VisualStartProofs --------------------------
(***************************************************************************)
(* Proofs about VisualSession, for every number of sessions, workers,      *)
(* revisions, frames, events and presses of Stop, and every failure: what  *)
(* the supervisor's calls do, as the session sees them, the invariant, and *)
(* that each step of start_visual_translation preserves it.  The other     *)
(* steps and the theorems are in VisualSessionProofs.                      *)
(*                                                                         *)
(* As in CaptureSessionProofs the supervisor's invariant is not proved     *)
(* again: Theory is its proof module over the variables of the session.    *)
(***************************************************************************)
EXTENDS VisualSession, TLAPS

Theory == INSTANCE SessionSupervisorProofs WITH Modes <- {"visual"}, Sources <- {"picked"}

-----------------------------------------------------------------------------
(* The supervisor's calls, as the session sees them.                       *)

\* The calls of the session are calls the supervisor's proofs cover.
LEMMA StartIsAStep == Sup!Start("visual", "picked") => Theory!Next
  BY DEF Sup!Start, Theory!Next, Theory!Start, Sup!Publish, Theory!Publish,
         Sup!DefaultSnapshot, Theory!DefaultSnapshot, Sup!Healthy, Theory!Healthy,
         Sup!Health, Theory!Health, Sup!None, Theory!None, Sup!NoSession, Theory!NoSession,
         Sup!NoWorkers, Theory!NoWorkers, Sup!workerVars, Theory!workerVars

LEMMA StopIsAStep == Sup!RequestStopForMode("visual") => Theory!Next
  BY DEF Sup!RequestStopForMode, Theory!Next, Theory!RequestStopForMode,
         Sup!RequestStop, Theory!RequestStop, Sup!Publish, Theory!Publish,
         Sup!Healthy, Theory!Healthy, Sup!Health, Theory!Health,
         Sup!NoSession, Theory!NoSession, Sup!workerVars, Theory!workerVars

LEMMA FailIsACall == ASSUME NEW s, Sup!Fail(s) PROVE Theory!SessionCall(s)
  BY DEF Sup!Fail, Theory!SessionCall, Theory!Fail, Sup!IsActive, Theory!IsActive,
         Sup!NoSession, Theory!NoSession, Sup!FailSession, Theory!FailSession,
         Sup!Publish, Theory!Publish, Sup!Health, Theory!Health,
         Sup!workerVars, Theory!workerVars

LEMMA FinishIsACall ==
  ASSUME NEW s, NEW ok \in BOOLEAN, Sup!FinishCleanup(s, ok) PROVE Theory!SessionCall(s)
  BY DEF Sup!FinishCleanup, Theory!SessionCall, Theory!FinishCleanup, Sup!IsActive, Theory!IsActive,
         Sup!NoSession, Theory!NoSession, Sup!FailSession, Theory!FailSession,
         Sup!Publish, Theory!Publish, Sup!Health, Theory!Health, Sup!Healthy, Theory!Healthy,
         Sup!TryFinalizeCleanup, Theory!TryFinalizeCleanup, Sup!NoWorkers, Theory!NoWorkers,
         Sup!DefaultSnapshot, Theory!DefaultSnapshot, Sup!None, Theory!None,
         Sup!workerVars, Theory!workerVars

LEMMA DrainIsAStep == Sup!DrainNext => Theory!Next
  BY DEF Sup!DrainNext, Theory!Next, Theory!DrainNext, Sup!ApplyWorkerCompletion,
         Theory!ApplyWorkerCompletion, Sup!IsActive, Theory!IsActive,
         Sup!NoSession, Theory!NoSession, Sup!FailSession, Theory!FailSession,
         Sup!Publish, Theory!Publish, Sup!Health, Theory!Health, Sup!Healthy, Theory!Healthy,
         Sup!TryFinalizeCleanup, Theory!TryFinalizeCleanup, Sup!NoWorkers, Theory!NoWorkers,
         Sup!DefaultSnapshot, Theory!DefaultSnapshot, Sup!None, Theory!None,
         Sup!FailureOf, Theory!FailureOf, Sup!sessionVars, Theory!sessionVars

LEMMA ProgressIsACall ==
  ASSUME NEW s, NEW p \in {"PreparingModel", "StartingCapture"}, Sup!UpdateStartProgress(s, p)
  PROVE  Theory!SessionCall(s)
  BY DEF Sup!UpdateStartProgress, Theory!SessionCall, Theory!UpdateStartProgress,
         Sup!IsActive, Theory!IsActive, Sup!IsCancelled, Theory!IsCancelled,
         Sup!NoSession, Theory!NoSession, Sup!Publish, Theory!Publish,
         Sup!Healthy, Theory!Healthy, Sup!Health, Theory!Health,
         Sup!sessionVars, Theory!sessionVars, Sup!workerVars, Theory!workerVars

LEMMA SourceIsACall ==
  ASSUME NEW s, Sup!UpdateSource(s, "picked") PROVE Theory!SessionCall(s)
  BY DEF Sup!UpdateSource, Theory!SessionCall, Theory!UpdateSource,
         Sup!IsActive, Theory!IsActive, Sup!NoSession, Theory!NoSession,
         Sup!Publish, Theory!Publish,
         Sup!sessionVars, Theory!sessionVars, Sup!workerVars, Theory!workerVars

LEMMA RunningIsACall == ASSUME NEW s, Sup!MarkRunning(s) PROVE Theory!SessionCall(s)
  BY DEF Sup!MarkRunning, Theory!SessionCall, Theory!MarkRunning,
         Sup!IsActive, Theory!IsActive, Sup!IsCancelled, Theory!IsCancelled,
         Sup!NoSession, Theory!NoSession, Sup!Publish, Theory!Publish, Sup!None, Theory!None,
         Sup!Healthy, Theory!Healthy, Sup!Health, Theory!Health,
         Sup!sessionVars, Theory!sessionVars, Sup!workerVars, Theory!workerVars

LEMMA WaitingIsACall == ASSUME NEW s, Sup!MarkWaiting(s) PROVE Theory!SessionCall(s)
  BY DEF Sup!MarkWaiting, Theory!SessionCall, Theory!MarkWaiting,
         Sup!IsActive, Theory!IsActive,
         Sup!NoSession, Theory!NoSession, Sup!Publish, Theory!Publish,
         Sup!Health, Theory!Health,
         Sup!sessionVars, Theory!sessionVars, Sup!workerVars, Theory!workerVars

LEMMA HealthIsACall ==
  ASSUME NEW s, NEW level \in {"Healthy", "Degraded"}, Sup!UpdateHealth(s, level)
  PROVE  Theory!SessionCall(s)
  BY DEF Sup!UpdateHealth, Theory!SessionCall, Theory!UpdateHealth, Theory!Levels,
         Sup!IsActive, Theory!IsActive,
         Sup!NoSession, Theory!NoSession, Sup!Publish, Theory!Publish,
         Sup!Health, Theory!Health,
         Sup!sessionVars, Theory!sessionVars, Sup!workerVars, Theory!workerVars

LEMMA RegisterIsACall ==
  ASSUME NEW s, NEW lifetime \in {"Startup", "Session", "Shutdown"},
         Sup!RegisterWorker(s, lifetime)
  PROVE  Theory!SessionCall(s)
  BY DEF Sup!RegisterWorker, Theory!SessionCall, Theory!RegisterWorker, Theory!Lifetimes,
         Sup!IsActive, Theory!IsActive, Sup!NoSession, Theory!NoSession

LEMMA TimeoutIsACall == ASSUME NEW s, Sup!ShutdownTimedOut(s) PROVE Theory!SessionCall(s)
  BY DEF Sup!ShutdownTimedOut, Theory!SessionCall, Theory!ShutdownTimedOut,
         Sup!IsActive, Theory!IsActive, Sup!NoSession, Theory!NoSession,
         Sup!FailSession, Theory!FailSession, Sup!Publish, Theory!Publish,
         Sup!Health, Theory!Health, Sup!workerVars, Theory!workerVars

LEMMA ReportIsAStep ==
  ASSUME NEW r, NEW outcome \in {"Completed", "Cancelled", "Exited", "Failed", "Panicked"},
         Sup!ReporterFinish(r, outcome)
  PROVE  Theory!Next
  BY DEF Sup!ReporterFinish, Theory!Next, Theory!ReporterFinish, Theory!Outcomes,
         Sup!sessionVars, Theory!sessionVars

LEMMA DrainingIsAStep == Sup!BeginDrain \/ Sup!EndDrain => Theory!Next
  BY DEF Sup!BeginDrain, Sup!EndDrain, Theory!Next, Theory!BeginDrain, Theory!EndDrain,
         Sup!sessionVars, Theory!sessionVars, Sup!workerVars, Theory!workerVars

\* What the proofs below use of the supervisor's invariant: sessions, workers and
\* revisions are numbered, a reporter or completion that is outstanding is of the
\* active session and registered, and cancelled sessions are not live.
Guarantees ==
  /\ active \in 0..MaxSession /\ active < nextSession
  /\ nextSession \in 1..MaxSession /\ nextWorker \in 1..MaxWorker
  /\ cancelled \subseteq 1..MaxSession /\ cleanupFinished \in BOOLEAN
  /\ snapshot.revision \in Nat
  /\ \A r \in reporters :
       /\ r.session = active /\ active # NoSession
       /\ r.worker \in 1..MaxWorker /\ r.worker < nextWorker
       /\ r.worker \in DOMAIN workers
       /\ \A i \in 1..Len(channel) : r.worker # channel[i].worker
  /\ channel \in Seq(Theory!Completions)
  /\ \A i \in 1..Len(channel) : channel[i].worker < nextWorker
  /\ active # NoSession =>
       /\ snapshot.session = active
       /\ active \in cancelled <=> snapshot.lifecycle \in {"Stopping", "Failed"}
       /\ active \notin cancelled <=> snapshot.lifecycle \in {"Starting", "Running", "Waiting"}

LEMMA SupervisorGuarantees == Theory!Inv => Guarantees
  <1> SUFFICES ASSUME Theory!Inv PROVE Guarantees
    OBVIOUS
  <1>1. /\ active \in 0..MaxSession /\ active < nextSession
        /\ nextSession \in 1..MaxSession /\ nextWorker \in 1..MaxWorker
        /\ cancelled \subseteq 1..MaxSession /\ cleanupFinished \in BOOLEAN
        /\ snapshot.revision \in Nat
    BY VisualBounds DEF Theory!Inv, Theory!TypeOK, Theory!Sessions, Theory!NoSession, Theory!WorkerIds,
           Theory!NumbersAreFresh
  <1>2. \A r \in reporters :
       /\ r.session = active /\ active # NoSession
       /\ r.worker \in 1..MaxWorker /\ r.worker < nextWorker
       /\ r.worker \in DOMAIN workers
       /\ \A i \in 1..Len(channel) : r.worker # channel[i].worker
    BY <1>1 DEF Theory!Inv, Theory!TypeOK, Theory!Sessions, Theory!WorkerIds, Theory!Reporters,
           Theory!NumbersAreFresh, Theory!NoWorkerOutlivesItsSession, Theory!Outstanding, NoSession,
           Theory!RegistrationsAreAwaited, Theory!ReportsOnce
  <1>3. active # NoSession =>
       /\ snapshot.session = active
       /\ active \in cancelled <=> snapshot.lifecycle \in {"Stopping", "Failed"}
       /\ active \notin cancelled <=> snapshot.lifecycle \in {"Starting", "Running", "Waiting"}
    BY DEF Theory!Inv, Theory!CancelledIsNeverLive, Theory!IsCancelled, NoSession, Theory!NoSession,
           Theory!LiveLifecycles
  <1>4. channel \in Seq(Theory!Completions)
    BY DEF Theory!Inv, Theory!TypeOK
  <1>5. \A i \in 1..Len(channel) : channel[i].worker < nextWorker
    <2>1. \A i \in 1..Len(channel) :
            [session |-> channel[i].session, worker |-> channel[i].worker] \in Theory!Outstanding
      BY DEF Theory!Outstanding, Theory!Queued
    <2> QED
      BY <2>1 DEF Theory!Inv, Theory!NumbersAreFresh
  <1> QED
    BY <1>1, <1>2, <1>3, <1>4, <1>5 DEF Guarantees

LEMMA SupervisorGuaranteesNext == Theory!Inv' => Guarantees'
  BY SupervisorGuarantees, PTL

LEMMA NextKeepsTheory == Theory!Inv /\ Theory!Next => Theory!Inv'
  BY Theory!InvNext, VisualBounds

LEMMA CallKeepsTheory ==
  ASSUME NEW s, Theory!Inv, active = s, active # NoSession, Theory!SessionCall(s)
  PROVE  Theory!Inv'
  <1>1. s \in Theory!KnownSessions
    BY SupervisorGuarantees DEF Guarantees, Theory!KnownSessions, NoSession
  <1> QED
    BY <1>1, NextKeepsTheory DEF Theory!Next

LEMMA StutterKeepsTheory == Theory!Inv /\ UNCHANGED supVars => Theory!Inv'
  BY Theory!InvNext, VisualBounds
  DEF supVars, Theory!vars, Theory!sessionVars, Theory!workerVars

-----------------------------------------------------------------------------
(* What a step of the session does to the supervisor, in a few kinds.      *)

\* Every publication takes the next revision.
Advances == snapshot' = snapshot \/ snapshot'.revision = snapshot.revision + 1

\* No session is shown as running that is not so already.
NoneRuns ==
  snapshot'.lifecycle = "Running" =>
    snapshot.lifecycle = "Running" /\ snapshot'.session = snapshot.session

\* A publication, a failure or a stop: nobody is released, nothing is reported.
Steady ==
  /\ UNCHANGED <<active, cleanupFinished, reporters, workers, channel, nextWorker, nextSession>>
  /\ cancelled \subseteq cancelled' /\ Advances
  /\ active = NoSession => UNCHANGED snapshot
Calm == Steady /\ NoneRuns
MayRun(s) == Steady /\ (NoneRuns \/ snapshot'.session = s)

Reporter(s, role) == [session |-> s, worker |-> worker[s][role]]
Holds(s, role) == Reporter(s, role) \in reporters

Registers(s, role) ==
  /\ active = s /\ active # NoSession
  /\ UNCHANGED <<snapshot, active, cancelled, cleanupFinished, channel, nextSession>>
  /\ nextWorker' = nextWorker + 1
  /\ worker' = [worker EXCEPT ![s][role] = nextWorker]
  /\ reporters' = reporters \cup {[session |-> s, worker |-> nextWorker]}
  /\ DOMAIN workers \subseteq DOMAIN workers'

Reports(s, role, outcome) ==
  /\ Holds(s, role)
  /\ UNCHANGED <<snapshot, active, cancelled, cleanupFinished, workers, nextWorker, nextSession>>
  /\ reporters' = reporters \ {Reporter(s, role)}
  /\ channel' = Append(channel, [session |-> s, worker |-> worker[s][role], outcome |-> outcome])

\* The cleanup of s is declared finished, and s perhaps released: live only if no
\* worker is registered any more.
Finishes(s) ==
  /\ active = s /\ active # NoSession
  /\ UNCHANGED <<reporters, channel, nextWorker, nextSession>>
  /\ cancelled \subseteq cancelled' /\ Advances /\ NoneRuns
  /\ \/ active' = active /\ cleanupFinished' /\ UNCHANGED workers
     \/ /\ active' = NoSession /\ ~cleanupFinished'
        /\ snapshot'.lifecycle \in {"Starting", "Running", "Waiting"} =>
             DOMAIN workers = {} /\ s \notin cancelled

\* A report is applied.  The session may be released if its cleanup is finished,
\* but is failed instead if w has failed.
BadlyEnded(w) ==
  /\ w \in DOMAIN workers
  /\ \A i \in 1..Len(channel) :
       channel[i].worker = w => channel[i].outcome \in {"Failed", "Cancelled"}
Drains ==
  /\ UNCHANGED <<reporters, nextWorker, nextSession>>
  /\ channel # <<>> /\ channel' = Tail(channel)
  /\ cancelled \subseteq cancelled' /\ Advances /\ NoneRuns
  /\ \/ UNCHANGED <<active, cleanupFinished>>
     \/ cleanupFinished /\ active # NoSession /\ active' = NoSession /\ ~cleanupFinished'
  /\ active = NoSession => UNCHANGED snapshot
  /\ active # NoSession /\ active' = NoSession
       /\ snapshot'.lifecycle \in {"Starting", "Running", "Waiting"} =>
         active \notin cancelled /\ \A w : ~BadlyEnded(w)
  /\ \A w : BadlyEnded(w) /\ active # NoSession /\ active \notin cancelled' => BadlyEnded(w)'

LEMMA StartEffect ==
  ASSUME Theory!Inv, Sup!Start("visual", "picked")
  PROVE  /\ Theory!Inv'
         /\ active = NoSession /\ active' = nextSession /\ ~cleanupFinished'
         /\ nextSession' = nextSession + 1
         /\ snapshot'.revision = snapshot.revision + 1
         /\ snapshot'.lifecycle = "Starting" /\ snapshot'.session = nextSession
         /\ UNCHANGED <<cancelled, reporters, nextWorker>>
  <1>1. Theory!Inv'
    BY StartIsAStep, NextKeepsTheory
  <1>2. /\ snapshot'.revision = snapshot.revision + 1
        /\ snapshot'.lifecycle = "Starting" /\ snapshot'.session = nextSession
    BY DEF Sup!Start, Sup!Publish, Sup!DefaultSnapshot
  <1> QED
    BY <1>1, <1>2 DEF Sup!Start, Sup!NoSession, NoSession, Sup!workerVars

LEMMA StopEffect ==
  ASSUME Theory!Inv, Sup!RequestStopForMode("visual")
  PROVE  /\ Theory!Inv' /\ Calm
         /\ active # NoSession /\ active \in cancelled'
         /\ snapshot'.lifecycle = "Stopping"
  <1>1. Theory!Inv'
    BY StopIsAStep, NextKeepsTheory
  <1>2. snapshot \in [revision : 0..MaxRevision, session : Theory!Sessions \cup {NoSession},
                      mode : {"visual"} \cup {Theory!None}, source : {"picked"} \cup {Theory!None},
                      lifecycle : Theory!Lifecycles,
                      health : [level : Theory!Levels, progress : Theory!Progresses],
                      failure : Theory!Errors \cup {Theory!None}]
    BY DEF Theory!Inv, Theory!TypeOK, Theory!NoSession, NoSession
  <1>3. Advances /\ NoneRuns /\ snapshot'.lifecycle = "Stopping"
    BY <1>2 DEF Sup!RequestStopForMode, Sup!RequestStop, Sup!Publish, Advances, NoneRuns
  <1> QED
    BY <1>1, <1>3 DEF Sup!RequestStopForMode, Sup!RequestStop, Sup!NoSession, NoSession,
                Sup!workerVars, Calm, Steady

LEMMA RegisterEffect ==
  ASSUME Theory!Inv, NEW s \in Starts, NEW role \in Roles,
         NEW lifetime \in {"Startup", "Session", "Shutdown"}, Register(s, role, lifetime)
  PROVE  Theory!Inv' /\ Registers(s, role)
  <1>1. active = s /\ active # NoSession
    BY DEF Register, Sup!RegisterWorker, Sup!IsActive, Sup!NoSession, NoSession
  <1>2. Theory!Inv'
    BY <1>1, RegisterIsACall, CallKeepsTheory DEF Register
  <1> QED
    BY <1>1, <1>2 DEF Register, Sup!RegisterWorker, Registers

LEMMA ReportEffect ==
  ASSUME Theory!Inv, NEW s, NEW role,
         NEW outcome \in {"Completed", "Cancelled", "Exited", "Failed", "Panicked"},
         Report(s, role, outcome)
  PROVE  Theory!Inv' /\ Reports(s, role, outcome)
  <1>1. Theory!Inv'
    BY ReportIsAStep, NextKeepsTheory DEF Report
  <1> QED
    BY <1>1 DEF Report, Sup!ReporterFinish, Sup!sessionVars, Reports, Holds, Reporter

LEMMA StutterEffect ==
  ASSUME Theory!Inv, UNCHANGED supVars
  PROVE  Theory!Inv' /\ Calm /\ UNCHANGED snapshot
  BY StutterKeepsTheory DEF supVars, Calm, Steady, Advances, NoneRuns

\* The snapshot is a record of its fields.
Snapshots ==
  [revision : 0..MaxRevision, session : Theory!Sessions \cup {NoSession},
   mode : {"visual"} \cup {Theory!None}, source : {"picked"} \cup {Theory!None},
   lifecycle : Theory!Lifecycles,
   health : [level : Theory!Levels, progress : Theory!Progresses],
   failure : Theory!Errors \cup {Theory!None}]

LEMMA SnapshotType == Theory!Inv => snapshot \in Snapshots
  BY DEF Theory!Inv, Theory!TypeOK, Theory!NoSession, NoSession, Snapshots

LEMMA FailEffect ==
  ASSUME Theory!Inv, NEW s, Try(IsActive(s), Sup!Fail(s))
  PROVE  Theory!Inv' /\ Calm /\ (active = s /\ active # NoSession => s \in cancelled')
  <1>1. CASE ~IsActive(s)
    BY <1>1, StutterEffect DEF Try, IsActive, Sup!IsActive, NoSession, Sup!NoSession
  <1>2. CASE IsActive(s)
    <2>1. Sup!Fail(s) /\ active = s /\ active # NoSession
      BY <1>2 DEF Try, IsActive, Sup!IsActive, NoSession, Sup!NoSession
    <2>2. Theory!Inv'
      BY <2>1, FailIsACall, CallKeepsTheory
    <2>3. Advances /\ NoneRuns
      BY <2>1, SnapshotType
      DEF Sup!Fail, Sup!FailSession, Sup!Publish, Advances, NoneRuns, Snapshots
    <2> QED
      BY <2>1, <2>2, <2>3 DEF Sup!Fail, Sup!FailSession, Sup!workerVars, Calm, Steady
  <1> QED
    BY <1>1, <1>2

LEMMA TimeoutEffect ==
  ASSUME Theory!Inv, NEW s, Try(IsActive(s), Sup!ShutdownTimedOut(s))
  PROVE  Theory!Inv' /\ Calm
  <1>1. CASE ~IsActive(s)
    BY <1>1, StutterEffect DEF Try
  <1>2. CASE IsActive(s)
    <2>1. Sup!ShutdownTimedOut(s) /\ active = s /\ active # NoSession
      BY <1>2 DEF Try, IsActive, Sup!IsActive, NoSession, Sup!NoSession
    <2>2. Theory!Inv'
      BY <2>1, TimeoutIsACall, CallKeepsTheory
    <2>3. Advances /\ NoneRuns
      BY <2>1, SnapshotType
      DEF Sup!ShutdownTimedOut, Sup!FailSession, Sup!Publish, Advances, NoneRuns, Snapshots
    <2> QED
      BY <2>1, <2>2, <2>3
      DEF Sup!ShutdownTimedOut, Sup!FailSession, Sup!workerVars, Calm, Steady
  <1> QED
    BY <1>1, <1>2

LEMMA FinishEffect ==
  ASSUME Theory!Inv, NEW s \in Starts, NEW ok \in BOOLEAN,
         Try(IsActive(s), Sup!FinishCleanup(s, ok))
  PROVE  Theory!Inv' /\ ((active # s /\ Calm) \/ Finishes(s))
  <1>1. CASE ~IsActive(s)
    <2>1. UNCHANGED supVars /\ active # s
      BY <1>1 DEF Try, IsActive, Sup!IsActive, Sup!NoSession, NoSession, Starts
    <2> QED
      BY <2>1, StutterEffect
  <1>2. CASE IsActive(s)
    <2>1. Sup!FinishCleanup(s, ok) /\ active = s /\ active # NoSession
      BY <1>2 DEF Try, IsActive, Sup!IsActive, NoSession, Sup!NoSession
    <2>2. Theory!Inv'
      BY <2>1, FinishIsACall, CallKeepsTheory
    <2>3. CASE ok
      <3>1. Sup!TryFinalizeCleanup(workers, TRUE)
        BY <2>1, <2>3 DEF Sup!FinishCleanup
      <3>2. Advances /\ NoneRuns
        BY <3>1, SnapshotType
        DEF Sup!TryFinalizeCleanup, Sup!Publish, Sup!DefaultSnapshot, Advances, NoneRuns,
            Snapshots
      <3>3. active' = NoSession /\ snapshot'.lifecycle \in {"Starting", "Running", "Waiting"} =>
              DOMAIN workers = {} /\ s \notin cancelled
        BY <2>1, <3>1, SupervisorGuarantees
        DEF Sup!TryFinalizeCleanup, Sup!Publish, Sup!DefaultSnapshot, Guarantees
      <3>4. /\ UNCHANGED <<reporters, channel, nextWorker, nextSession>>
            /\ cancelled \subseteq cancelled'
        BY <2>1, <2>3 DEF Sup!FinishCleanup, Sup!workerVars
      <3>5. \/ active' = active /\ cleanupFinished' /\ UNCHANGED workers
            \/ active' = NoSession /\ ~cleanupFinished'
        BY <3>1 DEF Sup!TryFinalizeCleanup, Sup!NoSession, NoSession
      <3> QED
        BY <2>1, <2>2, <3>2, <3>3, <3>4, <3>5 DEF Finishes
    <2>4. CASE ~ok
      <3>1. /\ Advances /\ NoneRuns
            /\ snapshot'.lifecycle \notin {"Starting", "Running", "Waiting"}
        BY <2>1, <2>4, SnapshotType
        DEF Sup!FinishCleanup, Sup!FailSession, Sup!Publish, Advances, NoneRuns, Snapshots
      <3> QED
        BY <2>1, <2>2, <2>4, <3>1
        DEF Sup!FinishCleanup, Sup!FailSession, Sup!workerVars, Finishes, Sup!NoSession, NoSession
    <2> QED
      BY <2>3, <2>4
  <1> QED
    BY <1>1, <1>2

LEMMA DrainEffect ==
  ASSUME Theory!Inv, Sup!DrainNext
  PROVE  Theory!Inv' /\ Drains
  <1>1. Theory!Inv'
    BY DrainIsAStep, NextKeepsTheory
  <1>2. /\ UNCHANGED <<reporters, nextWorker, nextSession>>
        /\ channel # <<>> /\ channel' = Tail(channel)
        /\ Sup!ApplyWorkerCompletion(Head(channel))
    BY DEF Sup!DrainNext
  <1> DEFINE first == Head(channel)
             rest == [x \in DOMAIN workers \ {first.worker} |-> workers[x]]
             failure == Sup!FailureOf(first, workers[first.worker])
  <1>3. /\ channel \in Seq(Theory!Completions) /\ Len(channel) \in Nat /\ Len(channel) # 0
        /\ first = channel[1] /\ 1 \in 1..Len(channel)
        /\ Len(Tail(channel)) = Len(channel) - 1
        /\ \A i \in 1..Len(Tail(channel)) : Tail(channel)[i] = channel[i + 1]
    BY <1>2, SupervisorGuarantees DEF Guarantees
  <1>4. CASE active # first.session \/ active = NoSession \/ first.worker \notin DOMAIN workers
    <2>1. UNCHANGED <<snapshot, active, cancelled, workers, cleanupFinished>>
      BY <1>2, <1>4 DEF Sup!ApplyWorkerCompletion, Sup!IsActive, Sup!NoSession, NoSession,
                        Sup!sessionVars
    <2>2. \A w : BadlyEnded(w) => BadlyEnded(w)'
      BY <1>2, <1>3, <2>1 DEF BadlyEnded
    <2> QED
      BY <1>1, <1>2, <2>1, <2>2, SupervisorGuarantees
      DEF Drains, Advances, NoneRuns
  <1>5. CASE /\ active = first.session /\ active # NoSession /\ first.worker \in DOMAIN workers
             /\ failure # Sup!None
    <2>1. Sup!FailSession(first.session, failure) /\ workers' = rest
          /\ UNCHANGED <<active, cleanupFinished>>
      BY <1>2, <1>5 DEF Sup!ApplyWorkerCompletion, Sup!IsActive, Sup!NoSession, NoSession
    <2>2. /\ Advances /\ NoneRuns
          /\ cancelled' = cancelled \cup {active}
      BY <1>5, <2>1, SnapshotType
      DEF Sup!FailSession, Sup!Publish, Advances, NoneRuns, Snapshots
    <2> QED
      BY <1>1, <1>2, <1>5, <2>1, <2>2 DEF Drains
  <1>6. CASE /\ active = first.session /\ active # NoSession /\ first.worker \in DOMAIN workers
             /\ failure = Sup!None
    <2>1. Sup!TryFinalizeCleanup(rest, cleanupFinished) /\ UNCHANGED cancelled
      BY <1>2, <1>6 DEF Sup!ApplyWorkerCompletion, Sup!IsActive, Sup!NoSession, NoSession
    <2>2. /\ Advances /\ NoneRuns
          /\ \/ UNCHANGED <<active, cleanupFinished>> /\ workers' = rest
             \/ /\ cleanupFinished /\ active' = NoSession /\ ~cleanupFinished'
                /\ DOMAIN rest = {}
      BY <1>6, <2>1, SnapshotType
      DEF Sup!TryFinalizeCleanup, Sup!Publish, Sup!DefaultSnapshot, Advances, NoneRuns,
          Snapshots, Sup!NoSession, NoSession
    <2>3. active' = NoSession /\ snapshot'.lifecycle \in {"Starting", "Running", "Waiting"} =>
            active \notin cancelled
      BY <1>6, <2>1, SupervisorGuarantees
      DEF Sup!TryFinalizeCleanup, Sup!Publish, Sup!DefaultSnapshot, Guarantees
    <2>4. ASSUME NEW w, BadlyEnded(w), active \notin cancelled
          PROVE  w # first.worker
      <3>1. snapshot.lifecycle \notin {"Stopping", "Failed"}
        BY <1>6, <2>4, SupervisorGuarantees DEF Guarantees
      <3>2. first.outcome \notin {"Failed", "Cancelled"}
        BY <1>6, <3>1 DEF Sup!FailureOf, Sup!None
      <3> QED
        BY <1>3, <2>4, <3>2 DEF BadlyEnded
    <2>5. ASSUME NEW w, BadlyEnded(w), active \notin cancelled
          PROVE  w \in DOMAIN rest
      BY <2>4, <2>5 DEF BadlyEnded
    <2>6. ASSUME NEW w, BadlyEnded(w), active \notin cancelled'
          PROVE  BadlyEnded(w)'
      BY <1>2, <1>3, <2>1, <2>2, <2>5, <2>6 DEF BadlyEnded
    <2> QED
      BY <1>1, <1>2, <1>6, <2>1, <2>2, <2>3, <2>5, <2>6 DEF Drains
  <1> QED
    BY <1>4, <1>5, <1>6

LEMMA DrainingEffect ==
  ASSUME Theory!Inv, Sup!BeginDrain \/ Sup!EndDrain
  PROVE  Theory!Inv' /\ Calm
  BY DrainingIsAStep, NextKeepsTheory
  DEF Sup!BeginDrain, Sup!EndDrain, Sup!sessionVars, Sup!workerVars, Calm, Steady,
      Advances, NoneRuns

\* The publications: progress, source, running, waiting, health.
LEMMA PublicationEffect ==
  ASSUME Theory!Inv, NEW s,
         \/ \E p \in {"PreparingModel", "StartingCapture"} : Sup!UpdateStartProgress(s, p)
         \/ Sup!UpdateSource(s, "picked") \/ Sup!MarkWaiting(s)
         \/ \E level \in {"Healthy", "Degraded"} : Sup!UpdateHealth(s, level)
  PROVE  Theory!Inv' /\ Calm
  <1>1. active = s /\ active # NoSession /\ Steady
    BY SnapshotType
    DEF Sup!UpdateStartProgress, Sup!UpdateSource, Sup!MarkWaiting, Sup!UpdateHealth,
        Sup!IsActive, Sup!NoSession, NoSession, Sup!sessionVars, Sup!workerVars, Steady,
        Sup!Publish, Advances, Snapshots
  <1>2. NoneRuns
    BY SnapshotType
    DEF Sup!UpdateStartProgress, Sup!UpdateSource, Sup!MarkWaiting, Sup!UpdateHealth,
        Sup!Publish, NoneRuns, Snapshots
  <1>3. Theory!SessionCall(s)
    BY ProgressIsACall, SourceIsACall, WaitingIsACall, HealthIsACall
  <1> QED
    BY <1>1, <1>2, <1>3, CallKeepsTheory DEF Calm

LEMMA RunningEffect ==
  ASSUME Theory!Inv, NEW s, Sup!MarkRunning(s)
  PROVE  Theory!Inv' /\ MayRun(s)
  <1>1. active = s /\ active # NoSession /\ Steady
    BY SnapshotType
    DEF Sup!MarkRunning, Sup!IsActive, Sup!NoSession, NoSession, Sup!sessionVars, Sup!workerVars,
        Steady, Sup!Publish, Advances, Snapshots
  <1>2. snapshot'.session = s
    BY <1>1, SnapshotType, SupervisorGuarantees
    DEF Sup!MarkRunning, Sup!Publish, Snapshots, Guarantees
  <1> QED
    BY <1>1, <1>2, RunningIsACall, CallKeepsTheory DEF MayRun

-----------------------------------------------------------------------------
(* The invariant of the session.                                           *)

StartPlaces ==
  {"none", "reset", "monitor", "abandon", "register", "preparing", "load", "starting",
   "capture", "dismissed", "resolve", "place", "placed", "processor", "spawnProcessor",
   "events", "spawnEvents", "admit", "put", "cancelled", "failed", "complete", "observe",
   "run", "reveal", "show", "shown", "health", "done"}

Jobs ==
  [pc : {"idle", "lock", "clearStop", "read", "clear", "register", "spawn", "fail",
         "finishFailed", "finish"},
   session : Starts \cup {NoSession}, revision : Nat, held : BOOLEAN, already : BOOLEAN]

Requests ==
  [kind : {"show", "hide"},
   by : Callers \cup {NoCaller} \cup ({"events"} \X Starts),
   session : Starts \cup {NoSession}]

Outputs ==
  [session : Starts \cup {NoSession}, revision : Nat, regions : BOOLEAN, restored : BOOLEAN]

Frames ==
  [pc : {"none", "queued", "apply", "undo"}, session : Starts \cup {NoSession},
   revision : Nat, running : BOOLEAN, previous : Outputs]

LEMMA OutputIs ==
  ASSUME NEW s \in Starts \cup {NoSession}, NEW r \in Nat, NEW regions \in BOOLEAN
  PROVE  /\ Output(s, r, regions) \in Outputs
         /\ Output(s, r, regions).session = s /\ Output(s, r, regions).revision = r
         /\ Output(s, r, regions).regions = regions
         /\ Output(s, r, regions).restored = FALSE
  BY DEF Output, Outputs

Types ==
  /\ env \in Scenarios
  /\ slot \in Starts \cup {NoSession}
  /\ control \in {"free", "start"}
  /\ worker \in [Starts -> [Roles -> 0..MaxWorker]]
  /\ start \in [Starts -> StartPlaces]
  /\ capture \in [Starts -> {"none", "live", "closed", "stopped"}]
  /\ processor \in [Starts -> {"none", "loop", "compare", "failed", "mark", "emit", "ended"}]
  /\ events \in [Starts -> {"none", "loop", "closed", "over", "failed", "mark", "resume",
                            "run", "look", "show", "hide", "placed", "ended"}]
  /\ cleanup \in [Starts -> {"none", "stop", "join", "report", "finish", "ended"}]
  /\ stopResult \in [Starts -> BOOLEAN]
  /\ monitor \in [Starts -> {"none", "poll", "drain", "look", "cleaning", "timeout", "ended"}]
  /\ failureCleanup \in [Starts -> BOOLEAN]
  /\ job \in [Callers -> Jobs]
  /\ budget \in [Starts -> [frames : Nat, events : Nat]]
  /\ text \in [Starts -> Nat] /\ pass \in [Starts -> Nat]
  /\ output \in Outputs
  /\ shown \in BOOLEAN
  /\ ui \in Seq(Requests)
  /\ frame \in Frames
  /\ stops \in Nat /\ presents \in Nat

\* A worker's number is its own.
NumbersAreDistinct ==
  \A s, t \in Starts, r, q \in Roles :
    /\ worker[s][r] < nextWorker
    /\ worker[s][r] = worker[t][q] /\ worker[s][r] # NoWorker => s = t /\ r = q

\* A caller that is clearing up, and the session it clears up.
Busy(c) == job[c].pc \notin {"idle", "lock"}
ClearsUp(c, s) == Busy(c) /\ job[c].session = s
MonitorOf(s) == <<"monitor", s>>

\* Of a session that has not been started there is nothing, and the active one
\* is the newest.
UnstartedHasNothing ==
  /\ slot < nextSession /\ output.session < nextSession /\ frame.session < nextSession
  /\ \A c \in Callers : job[c].session < nextSession
  /\ active = NoSession \/ active = nextSession - 1
  /\ nextSession > 1 => snapshot.revision > 0
  /\ \A s \in Starts : s >= nextSession =>
       /\ start[s] = "none" /\ capture[s] = "none" /\ monitor[s] = "none"
       /\ ~failureCleanup[s]

\* Which job is whose.
JobsAreOwned ==
  /\ \A c \in Callers : Busy(c) => job[c].session \in Starts
  /\ \A s \in Starts :
       /\ Busy(Starter(s)) => job[Starter(s)].session = s /\ start[s] \in {"cancelled", "failed"}
       /\ Busy(MonitorOf(s)) => job[MonitorOf(s)].session = s /\ monitor[s] = "cleaning"
       /\ job[Starter(s)].pc # "lock" /\ job[MonitorOf(s)].pc # "lock"
       /\ monitor[s] = "cleaning" => failureCleanup[s]
       /\ start[s] \in {"none", "reset", "monitor", "abandon"} => monitor[s] = "none"
       /\ failureCleanup[s] => s \in cancelled
  /\ Busy(Main) => job[Main].session \in cancelled
  /\ \A c \in Callers :
       /\ job[c].pc = "clearStop" => job[c].session \in cancelled
       /\ job[c].pc \in {"register", "spawn", "fail", "finishFailed"} => job[c].held
       /\ job[c].pc = "finish" => ~job[c].held

\* The startup worker of s is registered until its command returns.
InStartup(s) ==
  start[s] \in {"preparing", "load", "starting", "capture", "dismissed", "resolve", "place",
                "placed", "processor", "spawnProcessor", "events", "spawnEvents", "admit",
                "put", "cancelled", "failed", "complete"}
BeforeCapture ==
  {"none", "reset", "monitor", "abandon", "register", "preparing", "load", "starting",
   "capture", "dismissed"}
BeforeProcessor == BeforeCapture \cup {"resolve", "place", "placed", "processor", "spawnProcessor"}
BeforeEvents == BeforeProcessor \cup {"events", "spawnEvents"}
AfterEvents == {"admit", "put", "complete", "observe", "run", "reveal", "show", "shown", "health"}

Tracked(s) == worker[s]["shutdown"] # NoWorker

\* A thread that runs has its reporter still in hand.
ReportersAreHeld ==
  \A s \in Starts :
    /\ InStartup(s) => Holds(s, "startup")
    /\ start[s] = "spawnProcessor" \/ processor[s] \notin {"none", "ended"} =>
         Holds(s, "processor")
    /\ start[s] = "spawnEvents" \/ events[s] \notin {"none", "ended"} => Holds(s, "events")
    /\ start[s] \in BeforeProcessor => processor[s] = "none"
    /\ start[s] \in BeforeEvents => events[s] = "none"
    /\ start[s] \in AfterEvents => events[s] # "none"
    /\ Tracked(s) =>
         /\ cleanup[s] \in {"stop", "join", "report"} => Holds(s, "shutdown")
         /\ \A c \in Callers : ClearsUp(c, s) /\ job[c].pc = "spawn" => Holds(s, "shutdown")

\* Under the control lock Stop cannot meet the start that stores the resources.
StopMissesNoStore ==
  /\ \A s \in Starts : start[s] \in {"put", "show", "shown"} =>
       /\ control = "start"
       /\ \A t \in Starts : start[t] \in {"put", "show", "shown"} => s = t
  /\ \A s \in Starts : ClearsUp(Main, s) =>
       /\ start[s] # "put"
       /\ ~job[Main].held => slot # s

\* The places where the resources of a session may be.
InStart(s) ==
  start[s] \in {"resolve", "place", "placed", "processor", "spawnProcessor", "events",
                "spawnEvents", "admit", "put"}
InSlot(s) == slot = s
InJob(c, s) ==
  job[c].session = s /\ job[c].held
    /\ job[c].pc \in {"clearStop", "read", "clear", "register", "spawn"}
InCleanup(s) == cleanup[s] # "none"
Stored == {"complete", "observe", "run", "reveal", "show", "shown", "health", "done"}
Open(s) == capture[s] \in {"live", "closed"}

\* They are in one of them at most, and a capture that runs is in one of them.
OneHolder(s) ==
  /\ InStart(s) => ~InSlot(s) /\ ~InCleanup(s)
  /\ InSlot(s) => ~InCleanup(s)
  /\ \A c \in Callers : InJob(c, s) =>
       /\ ~InStart(s) /\ ~InSlot(s) /\ ~InCleanup(s) /\ Open(s)
       /\ \A d \in Callers : InJob(d, s) => c = d
  /\ InStart(s) \/ InSlot(s) \/ cleanup[s] = "stop" => Open(s)
  /\ InSlot(s) \/ (\E c \in Callers : c # Starter(s) /\ InJob(c, s)) => start[s] \in Stored
  /\ start[s] \in BeforeCapture => capture[s] = "none"
  /\ capture[s] = "none" => ~InCleanup(s) /\ processor[s] = "none" /\ events[s] = "none"
  /\ \A c \in Callers : ClearsUp(c, s) /\ job[c].pc \in {"fail", "finishFailed"} =>
       capture[s] = "stopped"
  /\ Tracked(s) =>
       InCleanup(s) \/ capture[s] = "stopped" \/ \E c \in Callers : InJob(c, s) /\ job[c].pc = "spawn"

ResourcesHaveOneHolder == \A s \in Starts : OneHolder(s)

WhatRunsIsHeld ==
  \A s \in Starts : Open(s) =>
    \/ InStart(s) \/ InSlot(s) \/ cleanup[s] = "stop"
    \/ \E c \in Callers : InJob(c, s)

\* Nobody declares the cleanup of a session finished while its resources are
\* stored or in the hands of Stop, unless the monitor cleans up after a failure.
CleanupIsAwaited ==
  \A s \in Starts :
    /\ ~failureCleanup[s] /\ (InSlot(s) \/ InJob(Main, s) \/ start[s] = "put") =>
         active = s /\ ~cleanupFinished
    /\ start[s] = "abandon" => Fault("spawn") /\ (active = s => s \in cancelled)
    /\ InCleanup(s) /\ ~Tracked(s) => failureCleanup[s]
    /\ ~Tracked(s) => \A c \in Callers : ClearsUp(c, s) /\ job[c].pc = "spawn" => failureCleanup[s]

\* A start that has given up will not spawn a thread any more.
GaveUp(s) == start[s] \in {"failed", "done"} /\ events[s] = "none"

\* The cleanup of a session has begun, or its overlay has been cleared.
Closing(s) ==
  (active = s /\ cleanupFinished) \/ InCleanup(s) \/ \E c \in Callers : ClearsUp(c, s)
Cleared(s) ==
  \/ active = s /\ cleanupFinished
  \/ InCleanup(s)
  \/ \E c \in Callers :
       ClearsUp(c, s) /\ job[c].pc \in {"register", "spawn", "fail", "finishFailed", "finish"}

\* The report of the startup worker is still to come and will fail the session.
StartupIsAwaited(s) == BadlyEnded(worker[s]["startup"])

\* A session that is cleared up while it is live was given up by its start, and
\* will be failed by its report.
LiveIsGivenUp ==
  /\ active = NoSession => ~IsLive
  /\ \A s \in Starts :
    /\ start[s] = "cancelled" => s \in cancelled \/ FindsOthersStored(s)
    /\ start[s] = "failed" => events[s] = "none" /\ (Fault("spawn") \/ processor[s] = "none")
    /\ active = s /\ s \notin cancelled /\ (Closing(s) \/ start[s] \in {"cancelled", "failed"}) =>
       /\ StartupIsAwaited(s)
       /\ start[s] \in {"cancelled", "failed", "done"}
       /\ \/ FindsOthersStored(s)
          \/ GaveUp(s) /\ (Fault("spawn") \/ processor[s] = "none")

\* The revisions of what the WebView holds of a session, of what its processor
\* is about to send it, and of what the main thread is applying.
Below(s, revision) ==
  /\ text[s] < revision /\ pass[s] < revision
  /\ frame.session = s => frame.revision < revision

\* They are revisions at which the session was live.
RevisionsAreOld ==
  /\ \A s \in Starts :
    /\ Below(s, snapshot.revision + 1)
    /\ s < nextSession => Below(s, snapshot.revision) \/ (Owns(s) /\ IsLive)
    /\ processor[s] = "none" => text[s] = 0 /\ pass[s] = 0 /\ frame.session # s
  /\ frame.pc = "none" <=> frame.session = NoSession
  /\ frame.pc = "undo" => env.fault = "emit" /\ frame.previous.session = frame.session
  /\ \A s \in Starts : IsRunning(s) => events[s] # "none"
  /\ \A s \in Starts : frame.running /\ frame.session = s => events[s] # "none"

\* A clear comes after them.
ClearsAreLater ==
  \A c \in Callers, s \in Starts : ClearsUp(c, s) =>
    /\ job[c].pc = "clearStop" => Below(s, job[c].revision)
    /\ job[c].pc = "clear" =>
         \/ Below(s, job[c].revision) \/ FindsOthersStored(s)
         \/ Fault("spawn") /\ GaveUp(s)

\* The output was put back by a failed presentation over a later one, and no frame
\* of s is being applied: s was not live any more, and its frames are refused.
PutBack(s) == output.restored /\ (frame.session = s => frame.pc = "queued")

\* What is left of a session in the output after its clear.
ClearedStaysClear ==
  /\ output.session = NoSession => ~output.regions
  /\ \A s \in Starts :
       output.session = s /\ (active # s \/ Cleared(s)) /\ ~FindsOthersStored(s)
         /\ ~PutBack(s) =>
         /\ Fault("spawn") \/ ~output.regions
         /\ Below(s, output.revision) \/ (Fault("spawn") /\ GaveUp(s))

\* A hide that the main thread will carry out whatever has become of the session.
HideIsPosted == \E i \in 1..Len(ui) : ui[i].kind = "hide" /\ ui[i].by = NoCaller

ShowsAreAwaited ==
  env.platform = "linux" =>
    /\ \A i \in 1..Len(ui) : ui[i].kind = "show" =>
         \/ \E t \in Starts : ui[i].by = Starter(t) /\ start[t] = "shown"
         \/ \E t \in Starts : ui[i].by = <<"events", t>> /\ events[t] = "placed"
    /\ \A t \in Starts : start[t] \in {"show", "shown"} =>
         nextSession > 1 /\ events[nextSession - 1] # "none"

\* The overlay is visible only for the session that runs, or will be hidden.
VisibleIsAlive ==
  env.platform = "linux" /\ shown /\ ~HideIsPosted =>
    \/ FindsOthersStored(nextSession - 1)
    \/ active # NoSession /\ events[active] # "none" /\ ~Cleared(active)

Inv ==
  /\ Theory!Inv
  /\ Types
  /\ NumbersAreDistinct
  /\ UnstartedHasNothing
  /\ JobsAreOwned
  /\ ReportersAreHeld
  /\ StopMissesNoStore
  /\ ResourcesHaveOneHolder
  /\ WhatRunsIsHeld
  /\ CleanupIsAwaited
  /\ LiveIsGivenUp
  /\ RevisionsAreOld
  /\ ClearsAreLater
  /\ ClearedStaysClear
  /\ ShowsAreAwaited
  /\ VisibleIsAlive

\* The numbers of sessions and workers, as the arithmetic needs them.
LEMMA Numbers ==
  ASSUME Inv
  PROVE  /\ Guarantees /\ MaxSession \in Nat /\ MaxWorker \in Nat
         /\ Starts \subseteq Nat /\ NoSession \notin Starts
         /\ nextSession \in Nat /\ nextWorker \in Nat \ {0} /\ active \in Nat
         /\ active # NoSession => active \in Starts
         /\ \A s \in Starts : s < nextSession => nextSession - 1 \in Starts
  BY SupervisorGuarantees, VisualBounds DEF Inv, Guarantees, Starts, NoSession

\* A step leaves every variable as it is or in its type.
Kept ==
  /\ UNCHANGED env
  /\ slot' = slot \/ slot' \in Starts \cup {NoSession}
  /\ control' = control \/ control' \in {"free", "start"}
  /\ worker' = worker \/ worker' \in [Starts -> [Roles -> 0..MaxWorker]]
  /\ start' = start \/ start' \in [Starts -> StartPlaces]
  /\ capture' = capture \/ capture' \in [Starts -> {"none", "live", "closed", "stopped"}]
  /\ \/ processor' = processor
     \/ processor' \in [Starts -> {"none", "loop", "compare", "failed", "mark", "emit", "ended"}]
  /\ \/ events' = events
     \/ events' \in [Starts -> {"none", "loop", "closed", "over", "failed", "mark", "resume",
                                "run", "look", "show", "hide", "placed", "ended"}]
  /\ \/ cleanup' = cleanup
     \/ cleanup' \in [Starts -> {"none", "stop", "join", "report", "finish", "ended"}]
  /\ stopResult' = stopResult \/ stopResult' \in [Starts -> BOOLEAN]
  /\ \/ monitor' = monitor
     \/ monitor' \in [Starts -> {"none", "poll", "drain", "look", "cleaning", "timeout", "ended"}]
  /\ failureCleanup' = failureCleanup \/ failureCleanup' \in [Starts -> BOOLEAN]
  /\ job' = job \/ job' \in [Callers -> Jobs]
  /\ budget' = budget \/ budget' \in [Starts -> [frames : Nat, events : Nat]]
  /\ text' = text \/ text' \in [Starts -> Nat]
  /\ pass' = pass \/ pass' \in [Starts -> Nat]
  /\ \/ output' = output
     \/ output' \in Outputs
  /\ shown' = shown \/ shown' \in BOOLEAN
  /\ ui' = ui \/ ui' \in Seq(Requests)
  /\ \/ frame' = frame
     \/ frame' \in Frames
  /\ stops' = stops \/ stops' \in Nat
  /\ presents' = presents \/ presents' \in Nat

LEMMA TypesKept == Inv /\ Kept => Types'
  <1> SUFFICES ASSUME Inv, Kept PROVE Types'
    OBVIOUS
  <1>1. env' \in Scenarios
    BY DEF Kept, Inv, Types
  <1>2. slot' \in Starts \cup {NoSession}
    <2>1. slot \in Starts \cup {NoSession}
      BY DEF Inv, Types
    <2>2. slot' = slot \/ slot' \in Starts \cup {NoSession}
      BY DEF Kept
    <2> QED
      BY <2>1, <2>2
  <1>3. control' \in {"free", "start"}
    <2>1. control \in {"free", "start"}
      BY DEF Inv, Types
    <2>2. control' = control \/ control' \in {"free", "start"}
      BY DEF Kept
    <2> QED
      BY <2>1, <2>2
  <1>4. worker' \in [Starts -> [Roles -> 0..MaxWorker]]
    <2>1. worker \in [Starts -> [Roles -> 0..MaxWorker]]
      BY DEF Inv, Types
    <2>2. worker' = worker \/ worker' \in [Starts -> [Roles -> 0..MaxWorker]]
      BY DEF Kept
    <2> QED
      BY <2>1, <2>2
  <1>5. start' \in [Starts -> StartPlaces]
    <2>1. start \in [Starts -> StartPlaces]
      BY DEF Inv, Types
    <2>2. start' = start \/ start' \in [Starts -> StartPlaces]
      BY DEF Kept
    <2> QED
      BY <2>1, <2>2
  <1>6. capture' \in [Starts -> {"none", "live", "closed", "stopped"}]
    <2>1. capture \in [Starts -> {"none", "live", "closed", "stopped"}]
      BY DEF Inv, Types
    <2>2. capture' = capture \/ capture' \in [Starts -> {"none", "live", "closed", "stopped"}]
      BY DEF Kept
    <2> QED
      BY <2>1, <2>2
  <1>7. processor' \in [Starts -> {"none", "loop", "compare", "failed", "mark", "emit", "ended"}]
    <2>1. processor \in [Starts -> {"none", "loop", "compare", "failed", "mark", "emit", "ended"}]
      BY DEF Inv, Types
    <2>2. \/ processor' = processor
          \/ processor' \in [Starts -> {"none", "loop", "compare", "failed", "mark", "emit", "ended"}]
      BY DEF Kept
    <2> QED
      BY <2>1, <2>2
  <1>8. events' \in [Starts -> {"none", "loop", "closed", "over", "failed", "mark", "resume",
                                "run", "look", "show", "hide", "placed", "ended"}]
    <2>1. events \in [Starts -> {"none", "loop", "closed", "over", "failed", "mark", "resume",
                                 "run", "look", "show", "hide", "placed", "ended"}]
      BY DEF Inv, Types
    <2>2. \/ events' = events
          \/ events' \in [Starts -> {"none", "loop", "closed", "over", "failed", "mark", "resume",
                                     "run", "look", "show", "hide", "placed", "ended"}]
      BY DEF Kept
    <2> QED
      BY <2>1, <2>2
  <1>9. cleanup' \in [Starts -> {"none", "stop", "join", "report", "finish", "ended"}]
    <2>1. cleanup \in [Starts -> {"none", "stop", "join", "report", "finish", "ended"}]
      BY DEF Inv, Types
    <2>2. \/ cleanup' = cleanup
          \/ cleanup' \in [Starts -> {"none", "stop", "join", "report", "finish", "ended"}]
      BY DEF Kept
    <2> QED
      BY <2>1, <2>2
  <1>10. stopResult' \in [Starts -> BOOLEAN]
    <2>1. stopResult \in [Starts -> BOOLEAN]
      BY DEF Inv, Types
    <2>2. stopResult' = stopResult \/ stopResult' \in [Starts -> BOOLEAN]
      BY DEF Kept
    <2> QED
      BY <2>1, <2>2
  <1>11. monitor' \in [Starts -> {"none", "poll", "drain", "look", "cleaning", "timeout", "ended"}]
    <2>1. monitor \in [Starts -> {"none", "poll", "drain", "look", "cleaning", "timeout", "ended"}]
      BY DEF Inv, Types
    <2>2. \/ monitor' = monitor
          \/ monitor' \in [Starts -> {"none", "poll", "drain", "look", "cleaning", "timeout", "ended"}]
      BY DEF Kept
    <2> QED
      BY <2>1, <2>2
  <1>12. failureCleanup' \in [Starts -> BOOLEAN]
    <2>1. failureCleanup \in [Starts -> BOOLEAN]
      BY DEF Inv, Types
    <2>2. failureCleanup' = failureCleanup \/ failureCleanup' \in [Starts -> BOOLEAN]
      BY DEF Kept
    <2> QED
      BY <2>1, <2>2
  <1>13. job' \in [Callers -> Jobs]
    <2>1. job \in [Callers -> Jobs]
      BY DEF Inv, Types
    <2>2. job' = job \/ job' \in [Callers -> Jobs]
      BY DEF Kept
    <2> QED
      BY <2>1, <2>2
  <1>14. budget' \in [Starts -> [frames : Nat, events : Nat]]
    <2>1. budget \in [Starts -> [frames : Nat, events : Nat]]
      BY DEF Inv, Types
    <2>2. budget' = budget \/ budget' \in [Starts -> [frames : Nat, events : Nat]]
      BY DEF Kept
    <2> QED
      BY <2>1, <2>2
  <1>15. text' \in [Starts -> Nat]
    <2>1. text \in [Starts -> Nat]
      BY DEF Inv, Types
    <2>2. text' = text \/ text' \in [Starts -> Nat]
      BY DEF Kept
    <2> QED
      BY <2>1, <2>2
  <1>16. pass' \in [Starts -> Nat]
    <2>1. pass \in [Starts -> Nat]
      BY DEF Inv, Types
    <2>2. pass' = pass \/ pass' \in [Starts -> Nat]
      BY DEF Kept
    <2> QED
      BY <2>1, <2>2
  <1>17. output' \in Outputs
    <2>1. output \in Outputs
      BY DEF Inv, Types
    <2>2. \/ output' = output
          \/ output' \in Outputs
      BY DEF Kept
    <2> QED
      BY <2>1, <2>2
  <1>18. shown' \in BOOLEAN
    <2>1. shown \in BOOLEAN
      BY DEF Inv, Types
    <2>2. shown' = shown \/ shown' \in BOOLEAN
      BY DEF Kept
    <2> QED
      BY <2>1, <2>2
  <1>19. ui' \in Seq(Requests)
    <2>1. ui \in Seq(Requests)
      BY DEF Inv, Types
    <2>2. ui' = ui \/ ui' \in Seq(Requests)
      BY DEF Kept
    <2> QED
      BY <2>1, <2>2
  <1>20. frame' \in Frames
    <2>1. frame \in Frames
      BY DEF Inv, Types
    <2>2. \/ frame' = frame
          \/ frame' \in Frames
      BY DEF Kept
    <2> QED
      BY <2>1, <2>2
  <1>21. stops' \in Nat
    <2>1. stops \in Nat
      BY DEF Inv, Types
    <2>2. stops' = stops \/ stops' \in Nat
      BY DEF Kept
    <2> QED
      BY <2>1, <2>2
  <1>22. presents' \in Nat
    <2>1. presents \in Nat
      BY DEF Inv, Types
    <2>2. presents' = presents \/ presents' \in Nat
      BY DEF Kept
    <2> QED
      BY <2>1, <2>2
  <1> QED
    BY <1>1, <1>2, <1>3, <1>4, <1>5, <1>6, <1>7, <1>8, <1>9, <1>10, <1>11,
       <1>12, <1>13, <1>14, <1>15, <1>16, <1>17, <1>18, <1>19, <1>20, <1>21, <1>22 DEF Types

\* The callers, and what is posted for the event thread, are told apart.
LEMMA CallersDiffer ==
  /\ Main \in Callers /\ NoCaller \notin Callers
  /\ \A s \in Starts :
       /\ Starter(s) \in Callers /\ MonitorOf(s) \in Callers
       /\ Starter(s) # Main /\ MonitorOf(s) # Main /\ Starter(s) # NoCaller
       /\ <<"events", s>> # NoCaller
       /\ \A t \in Starts :
            /\ Starter(s) # MonitorOf(t)
            /\ Starter(s) = Starter(t) => s = t
            /\ MonitorOf(s) = MonitorOf(t) => s = t
            /\ <<"events", s>> # Starter(t)
            /\ <<"events", s>> = <<"events", t>> => s = t
  /\ \A c \in Callers : c = Main \/ \E s \in Starts : c = Starter(s) \/ c = MonitorOf(s)
  <1>1. \A s \in Starts : s # NoSession
    BY DEF Starts, NoSession
  <1>2. \A c \in {"start", "monitor"} \X Starts :
          \E s \in Starts : c = Starter(s) \/ c = MonitorOf(s)
    BY DEF Starter, MonitorOf
  <1>3. \A s \in Starts : Starter(s) \in Callers /\ MonitorOf(s) \in Callers
    BY DEF Callers, Starter, MonitorOf
  <1>4. NoCaller \notin Callers
    BY DEF Callers, NoCaller, Main
  <1> QED
    BY <1>1, <1>2, <1>3, <1>4 DEF Callers, Starter, MonitorOf, Main, NoCaller

\* A thread that holds its reporter works for the active session.
LEMMA HolderIsActive ==
  ASSUME Inv, NEW s, NEW role, Holds(s, role)
  PROVE  active = s /\ active # NoSession
  BY Numbers DEF Guarantees, Holds, Reporter

\* A cancelled session is not live.
LEMMA CancelledIsOver ==
  ASSUME Inv, NEW s \in Starts
  PROVE  /\ Owns(s) /\ IsLive => active = s /\ s \notin cancelled
         /\ active = s /\ s \notin cancelled => Owns(s) /\ IsLive
  BY Numbers DEF Inv, LiveIsGivenUp, Guarantees, Owns, IsLive, Sup!LiveLifecycles, NoSession

-----------------------------------------------------------------------------
(* What each effect leaves of the reporters and of their numbers.          *)

LEMMA ReportersKept ==
  ASSUME Inv, Theory!Inv', UNCHANGED worker,
         UNCHANGED <<reporters, nextWorker>>
  PROVE  /\ NumbersAreDistinct'
         /\ \A t \in Starts, r \in Roles : Holds(t, r) => Holds(t, r)'
  BY DEF Inv, NumbersAreDistinct, Holds, Reporter

LEMMA ReportersReported ==
  ASSUME Inv, Theory!Inv', UNCHANGED worker, NEW s \in Starts, NEW role \in Roles, NEW outcome,
         Reports(s, role, outcome)
  PROVE  /\ NumbersAreDistinct'
         /\ \A t \in Starts, r \in Roles : Holds(t, r) /\ ~(t = s /\ r = role) => Holds(t, r)'
  <1>1. NumbersAreDistinct'
    BY DEF Inv, NumbersAreDistinct, Reports
  <1>2. worker[s][role] # NoWorker
    BY Numbers DEF Reports, Holds, Reporter, Guarantees, NoWorker
  <1>3. ASSUME NEW t \in Starts, NEW r \in Roles, Holds(t, r), ~(t = s /\ r = role)
        PROVE  Holds(t, r)'
    <2>1. Reporter(t, r) # Reporter(s, role)
      BY <1>2, <1>3 DEF Inv, NumbersAreDistinct, Reporter
    <2>2. Reporter(t, r)' = Reporter(t, r)
      BY DEF Reporter
    <2> QED
      BY <1>3, <2>1, <2>2 DEF Holds, Reports
  <1> QED
    BY <1>1, <1>3

LEMMA ReportersRegistered ==
  ASSUME Inv, Theory!Inv', NEW s \in Starts, NEW role \in Roles, Registers(s, role)
  PROVE  /\ NumbersAreDistinct'
         /\ worker' \in [Starts -> [Roles -> 0..MaxWorker]]
         /\ worker'[s][role] # NoWorker
         /\ \A t \in Starts, r \in Roles : ~(t = s /\ r = role) => worker'[t][r] = worker[t][r]
         /\ Holds(s, role)'
         /\ \A t \in Starts, r \in Roles : Holds(t, r) /\ ~(t = s /\ r = role) => Holds(t, r)'
  <1>1. /\ worker' = [worker EXCEPT ![s][role] = nextWorker]
        /\ worker \in [Starts -> [Roles -> 0..MaxWorker]]
        /\ nextWorker' = nextWorker + 1
        /\ nextWorker \in 1..MaxWorker
    BY Numbers DEF Inv, Types, Registers, Guarantees
  <1>2. /\ worker' \in [Starts -> [Roles -> 0..MaxWorker]]
        /\ worker'[s][role] = nextWorker
        /\ \A t \in Starts, r \in Roles : ~(t = s /\ r = role) => worker'[t][r] = worker[t][r]
    BY <1>1
  <1>3. NumbersAreDistinct'
    BY <1>1, <1>2, VisualBounds DEF Inv, NumbersAreDistinct
  <1>4. Holds(s, role)'
    BY <1>2 DEF Holds, Reporter, Registers
  <1>5. \A t \in Starts, r \in Roles : Holds(t, r) /\ ~(t = s /\ r = role) => Holds(t, r)'
    BY <1>2 DEF Holds, Reporter, Registers
  <1> QED
    BY <1>1, <1>2, <1>3, <1>4, <1>5 DEF NoWorker

\* A startup worker in the hands of its start is awaited; and it stays awaited
\* until it has reported that its start succeeded.
LEMMA HeldIsAwaited ==
  ASSUME Inv, NEW s \in Starts, Holds(s, "startup")
  PROVE  StartupIsAwaited(s)
  BY Numbers DEF Guarantees, Holds, Reporter, StartupIsAwaited, BadlyEnded

LEMMA AwaitedKept ==
  ASSUME Inv, NEW t \in Starts, UNCHANGED worker, UNCHANGED <<workers, channel>>
  PROVE  StartupIsAwaited(t) => StartupIsAwaited(t)'
  BY DEF StartupIsAwaited, BadlyEnded

LEMMA AwaitedReported ==
  ASSUME Inv, NEW t \in Starts, UNCHANGED worker, NEW s \in Starts, NEW role \in Roles,
         NEW outcome, Reports(s, role, outcome),
         (s = t /\ role = "startup") => outcome \in {"Failed", "Cancelled"}
  PROVE  StartupIsAwaited(t) => StartupIsAwaited(t)'
  <1> DEFINE report == [session |-> s, worker |-> worker[s][role], outcome |-> outcome]
  <1>1. channel \in Seq(Theory!Completions) /\ channel' = Append(channel, report)
        /\ UNCHANGED workers
    BY Numbers DEF Guarantees, Reports
  <1>2. /\ Len(channel) \in Nat /\ Len(channel') = Len(channel) + 1
        /\ \A i \in 1..Len(channel') :
             channel'[i] = IF i = Len(channel) + 1 THEN report ELSE channel[i]
    BY <1>1
  <1>3. worker[s][role] # NoWorker
    BY Numbers DEF Reports, Holds, Reporter, Guarantees, NoWorker
  <1>4. worker[t]["startup"] = worker[s][role] => outcome \in {"Failed", "Cancelled"}
    BY <1>3 DEF Inv, NumbersAreDistinct, Roles
  <1>5. \A i \in 1..Len(channel') : i = Len(channel) + 1 \/ i \in 1..Len(channel)
    BY <1>2
  <1> QED
    BY <1>1, <1>2, <1>4, <1>5 DEF StartupIsAwaited, BadlyEnded

LEMMA AwaitedRegistered ==
  ASSUME Inv, Theory!Inv', NEW t \in Starts, NEW s \in Starts, NEW role \in Roles,
         Registers(s, role), ~(s = t /\ role = "startup")
  PROVE  StartupIsAwaited(t) => StartupIsAwaited(t)'
  <1>1. worker'[t]["startup"] = worker[t]["startup"]
    BY ReportersRegistered DEF Roles
  <1> QED
    BY <1>1 DEF StartupIsAwaited, BadlyEnded, Registers

LEMMA AwaitedDrained ==
  ASSUME Inv, NEW t \in Starts, UNCHANGED worker, Drains, active = t, t \notin cancelled'
  PROVE  StartupIsAwaited(t) => StartupIsAwaited(t)'
  <1>1. active # NoSession /\ UNCHANGED worker[t]["startup"]
    BY Numbers
  <1> QED
    BY <1>1 DEF StartupIsAwaited, Drains

-----------------------------------------------------------------------------
(* Parts of the invariant that a step leaves alone.                        *)

\* A session stays awaited, whatever else is reported.
StaysAwaited ==
  \A t \in Starts :
    StartupIsAwaited(t) /\ active = t /\ t \notin cancelled' => StartupIsAwaited(t)'

LEMMA Undisturbed ==
  ASSUME Inv, UNCHANGED <<env, nextSession>>, cancelled \subseteq cancelled', Advances
  PROVE  /\ /\ UNCHANGED <<slot, output, frame, job, start, capture, monitor, failureCleanup>>
            /\ active' \in {active, NoSession}
            => UnstartedHasNothing'
         /\ UNCHANGED <<job, start, monitor, failureCleanup>> => JobsAreOwned'
         /\ /\ UNCHANGED <<start, processor, events, cleanup, job, worker>>
            /\ \A t \in Starts, r \in Roles : Holds(t, r) => Holds(t, r)'
            => ReportersAreHeld'
         /\ UNCHANGED <<start, control, job, slot>> => StopMissesNoStore'
         /\ UNCHANGED <<start, slot, job, cleanup, capture, processor, events, worker>> =>
              ResourcesHaveOneHolder'
         /\ UNCHANGED <<capture, start, slot, cleanup, job>> => WhatRunsIsHeld'
         /\ UNCHANGED <<active, cleanupFinished, failureCleanup, slot, job, start, cleanup,
                        worker>> => CleanupIsAwaited'
         /\ /\ UNCHANGED <<start, events, processor, cleanup, job, slot, active,
                           cleanupFinished>>
            /\ active = NoSession => UNCHANGED snapshot
            /\ StaysAwaited
            => LiveIsGivenUp'
         /\ /\ UNCHANGED <<text, pass, frame>>
            /\ \A t \in Starts : processor'[t] = "none" => processor[t] = "none"
            /\ \A t \in Starts : events[t] # "none" => events'[t] # "none"
            /\ NoneRuns \/ \A t \in Starts : snapshot'.session = t => events[t] # "none"
            => RevisionsAreOld'
         /\ UNCHANGED <<job, text, pass, frame, slot, start, events>> => ClearsAreLater'
         /\ UNCHANGED <<output, active, cleanup, job, text, pass, frame, start, events, slot,
                        cleanupFinished>> => ClearedStaysClear'
         /\ UNCHANGED <<ui, start, events>> => ShowsAreAwaited'
         /\ UNCHANGED <<shown, ui, slot, active, events, cleanup, job, cleanupFinished>> =>
              VisibleIsAlive'
  <1>1. /\ UNCHANGED <<slot, output, frame, job, start, capture, monitor, failureCleanup>>
        /\ active' \in {active, NoSession}
        => UnstartedHasNothing'
    BY Numbers DEF Inv, UnstartedHasNothing, Advances, Guarantees
  <1>2. UNCHANGED <<job, start, monitor, failureCleanup>> => JobsAreOwned'
    BY DEF Inv, JobsAreOwned, Busy
  <1>3. /\ UNCHANGED <<start, processor, events, cleanup, job, worker>>
        /\ \A t \in Starts, r \in Roles : Holds(t, r) => Holds(t, r)'
        => ReportersAreHeld'
    BY DEF Inv, ReportersAreHeld, InStartup, Tracked, Roles, ClearsUp, Busy
  <1>4. UNCHANGED <<start, control, job, slot>> => StopMissesNoStore'
    BY DEF Inv, StopMissesNoStore, ClearsUp, Busy
  <1>5. UNCHANGED <<start, slot, job, cleanup, capture, processor, events, worker>> =>
          ResourcesHaveOneHolder'
    BY DEF Inv, ResourcesHaveOneHolder, OneHolder, InStart, InSlot, InJob, InCleanup, Open, Tracked,
           ClearsUp, Busy
  <1>6. UNCHANGED <<capture, start, slot, cleanup, job>> => WhatRunsIsHeld'
    BY DEF Inv, WhatRunsIsHeld, InStart, InSlot, InJob, Open
  <1>7. UNCHANGED <<active, cleanupFinished, failureCleanup, slot, job, start, cleanup,
                    worker>> => CleanupIsAwaited'
    BY DEF Inv, CleanupIsAwaited, InSlot, InJob, InCleanup, Tracked, ClearsUp, Busy, Fault
  <1>8. /\ UNCHANGED <<start, events, processor, cleanup, job, slot, active,
                       cleanupFinished>>
        /\ active = NoSession => UNCHANGED snapshot
        /\ StaysAwaited
        => LiveIsGivenUp'
    BY DEF Inv, LiveIsGivenUp, IsLive, StaysAwaited, FindsOthersStored, Fault, Closing, InCleanup,
           ClearsUp, Busy, GaveUp
  <1>9. /\ UNCHANGED <<text, pass, frame>>
        /\ \A t \in Starts : processor'[t] = "none" => processor[t] = "none"
        /\ \A t \in Starts : events[t] # "none" => events'[t] # "none"
        /\ NoneRuns \/ \A t \in Starts : snapshot'.session = t => events[t] # "none"
        => RevisionsAreOld'
    <2> SUFFICES ASSUME UNCHANGED <<text, pass, frame>>,
                        \A t \in Starts : processor'[t] = "none" => processor[t] = "none",
                        \A t \in Starts : events[t] # "none" => events'[t] # "none",
                        NoneRuns \/ \A t \in Starts : snapshot'.session = t => events[t] # "none"
        PROVE  RevisionsAreOld'
      OBVIOUS
    <2>1. /\ snapshot.revision \in Nat /\ text \in [Starts -> Nat] /\ pass \in [Starts -> Nat]
          /\ frame.revision \in Nat
      BY Numbers DEF Inv, Guarantees, Types, Frames
    <2>3. ASSUME NEW s \in Starts
          PROVE  /\ text[s] < snapshot'.revision + 1 /\ pass[s] < snapshot'.revision + 1
                 /\ frame.session = s => frame.revision < snapshot'.revision + 1
                 /\ s < nextSession =>
                      \/ /\ text[s] < snapshot'.revision /\ pass[s] < snapshot'.revision
                         /\ frame.session = s => frame.revision < snapshot'.revision
                      \/ (Owns(s) /\ IsLive)'
      BY <2>1, <2>3 DEF Inv, RevisionsAreOld, Below, Owns, IsLive, Advances
    <2>2. \A s \in Starts : IsRunning(s)' => IsRunning(s) \/ events[s] # "none"
      BY DEF NoneRuns, IsRunning, Owns
    <2> QED
      BY <2>2, <2>3 DEF Inv, RevisionsAreOld, Below
  <1>10. UNCHANGED <<job, text, pass, frame, slot, start, events>> => ClearsAreLater'
    BY DEF Inv, ClearsAreLater, Below, FindsOthersStored, Fault, GaveUp, ClearsUp, Busy
  <1>11. UNCHANGED <<output, active, cleanup, job, text, pass, frame, start, events, slot,
                     cleanupFinished>> => ClearedStaysClear'
    BY DEF Inv, ClearedStaysClear, PutBack, Below, FindsOthersStored, Fault, GaveUp, Cleared, InCleanup,
           ClearsUp, Busy
  <1>12. UNCHANGED <<ui, start, events>> => ShowsAreAwaited'
    BY DEF Inv, ShowsAreAwaited
  <1>13. UNCHANGED <<shown, ui, slot, active, events, cleanup, job, cleanupFinished>> =>
           VisibleIsAlive'
    BY DEF Inv, VisibleIsAlive, HideIsPosted, FindsOthersStored, Cleared, InCleanup, ClearsUp, Busy
  <1> QED
    BY <1>1, <1>2, <1>3, <1>4, <1>5, <1>6, <1>7, <1>8, <1>9, <1>10, <1>11, <1>12, <1>13

\* The reports that are awaited stay so when s gets on without reporting badly.
LEMMA AwaitedByAll ==
  ASSUME Inv, UNCHANGED worker, NEW s \in Starts,
         \/ Steady
         \/ Finishes(s) /\ active' # NoSession
         \/ Drains
         \/ \E role \in Roles : \E outcome : Reports(s, role, outcome)
              /\ (role = "startup" => outcome \in {"Failed", "Cancelled"})
  PROVE  StaysAwaited
  <1>1. CASE Steady \/ (Finishes(s) /\ active' # NoSession)
    BY <1>1, AwaitedKept DEF Steady, Finishes, StaysAwaited
  <1>2. CASE Drains
    BY <1>2, AwaitedDrained DEF StaysAwaited
  <1>3. CASE \E role \in Roles : \E outcome : Reports(s, role, outcome)
              /\ (role = "startup" => outcome \in {"Failed", "Cancelled"})
    BY <1>3, AwaitedReported DEF StaysAwaited
  <1> QED
    BY <1>1, <1>2, <1>3

\* An assignment to one session's place.
Moved(new, old, s, to) == new[s] = to /\ \A t \in Starts : t # s => new[t] = old[t]

\* Whose resources a step does not touch.
LEMMA HolderKept ==
  ASSUME Inv, NEW t \in Starts,
         start'[t] = start[t], capture'[t] = capture[t], cleanup'[t] = cleanup[t],
         processor'[t] = processor[t], events'[t] = events[t], slot' = t <=> slot = t,
         Tracked(t)' <=> Tracked(t),
         \A d \in Callers : InJob(d, t)' <=> InJob(d, t),
         \A d \in Callers : job[d].pc = "spawn" /\ InJob(d, t) => job'[d].pc = "spawn",
         \A d \in Callers : ClearsUp(d, t)' /\ job'[d].pc \in {"fail", "finishFailed"} =>
           ClearsUp(d, t) /\ job[d].pc \in {"fail", "finishFailed"}
  PROVE  OneHolder(t)'
  <1>1. /\ (InStart(t)' <=> InStart(t)) /\ (InSlot(t)' <=> InSlot(t))
        /\ (InCleanup(t)' <=> InCleanup(t)) /\ (Open(t)' <=> Open(t))
    BY DEF InStart, InSlot, InCleanup, Open
  <1> QED
    BY <1>1 DEF Inv, ResourcesHaveOneHolder, OneHolder

\* Most moves of start_visual_translation neither take nor give a resource, nor
\* show or clear anything.
Onward == StartPlaces \ {"none", "reset", "cancelled", "failed"}

LEMMA StartGoesOn ==
  ASSUME Inv, NEW s \in Starts, NEW to \in Onward, Moved(start', start, s, to),
         UNCHANGED <<env, nextSession>>, cancelled \subseteq cancelled', Advances,
         start[s] \notin {"none", "done"}, ~Busy(Starter(s)),
         start[s] \in {"cancelled", "failed"} => to = "done",
         to \in {"monitor", "abandon"} => start[s] \in {"reset", "monitor"},
         to \in BeforeCapture => start[s] \in BeforeCapture,
         start[s] \in Stored => to \in Stored
  PROVE  /\ /\ UNCHANGED <<slot, output, frame, job, capture, monitor, failureCleanup>>
            /\ active' \in {active, NoSession}
            => UnstartedHasNothing'
         /\ UNCHANGED <<job, monitor, failureCleanup>> => JobsAreOwned'
         /\ UNCHANGED <<control, job, slot>> /\ to \notin {"put", "show", "shown"} =>
              StopMissesNoStore'
         /\ /\ UNCHANGED <<slot, job, cleanup, capture, processor, events>>
            /\ \A t \in Starts : Tracked(t)' <=> Tracked(t)
            /\ InStart(s)' <=> InStart(s)
            => ResourcesHaveOneHolder'
         /\ UNCHANGED <<capture, slot, cleanup, job>> /\ (InStart(s)' <=> InStart(s)) =>
              WhatRunsIsHeld'
         /\ /\ UNCHANGED <<active, cleanupFinished, failureCleanup, slot, job, cleanup>>
            /\ \A t \in Starts : Tracked(t)' <=> Tracked(t)
            /\ to \notin {"put", "abandon"}
            => CleanupIsAwaited'
         /\ /\ UNCHANGED <<events, processor, cleanup, job, slot, active, cleanupFinished>>
            /\ active = NoSession => UNCHANGED snapshot
            /\ \A t \in Starts :
                 /\ StartupIsAwaited(t) /\ active = t /\ t \notin cancelled'
                 /\ t = s => start[s] \in {"cancelled", "failed"}
                 => StartupIsAwaited(t)'
            => LiveIsGivenUp'
         /\ UNCHANGED <<job, text, pass, frame, slot, events>> => ClearsAreLater'
         /\ UNCHANGED <<output, active, cleanup, job, text, pass, frame, events, slot,
                        cleanupFinished>> => ClearedStaysClear'
         /\ UNCHANGED <<ui, events>> /\ start[s] # "shown" /\ to \notin {"show", "shown"} =>
              ShowsAreAwaited'
  <1>1. start'[s] = to /\ to \in Onward /\ \A t \in Starts : t # s => start'[t] = start[t]
    BY DEF Moved
  <1>2. /\ UNCHANGED <<slot, output, frame, job, capture, monitor, failureCleanup>>
        /\ active' \in {active, NoSession}
        => UnstartedHasNothing'
    BY <1>1, Numbers DEF Inv, UnstartedHasNothing, Guarantees, Advances
  <1>3. UNCHANGED <<job, monitor, failureCleanup>> => JobsAreOwned'
    BY <1>1 DEF Inv, JobsAreOwned, Busy, Onward
  <1>4. UNCHANGED <<control, job, slot>> /\ to \notin {"put", "show", "shown"} => StopMissesNoStore'
    BY <1>1 DEF Inv, StopMissesNoStore, ClearsUp, Busy, Onward
  <1>5. \A t \in Starts : t # s => (InStart(t)' <=> InStart(t))
    BY <1>1 DEF InStart
  <1>6. /\ UNCHANGED <<slot, job, cleanup, capture, processor, events>>
        /\ \A t \in Starts : Tracked(t)' <=> Tracked(t)
        /\ InStart(s)' <=> InStart(s)
        => ResourcesHaveOneHolder'
    BY <1>1, <1>5
    DEF Inv, ResourcesHaveOneHolder, OneHolder, InSlot, InJob, InCleanup, Open, ClearsUp, Busy,
        Stored, BeforeCapture
  <1>7. UNCHANGED <<capture, slot, cleanup, job>> /\ (InStart(s)' <=> InStart(s)) => WhatRunsIsHeld'
    BY <1>5 DEF Inv, WhatRunsIsHeld, InSlot, InJob, Open
  <1>8. /\ UNCHANGED <<active, cleanupFinished, failureCleanup, slot, job, cleanup>>
        /\ \A t \in Starts : Tracked(t)' <=> Tracked(t)
        /\ to \notin {"put", "abandon"}
        => CleanupIsAwaited'
    BY <1>1
    DEF Inv, CleanupIsAwaited, InSlot, InJob, InCleanup, ClearsUp, Busy, Onward, Fault
  <1>9. \A t \in Starts : GaveUp(t) => GaveUp(t)' \/ events' # events
    BY <1>1 DEF GaveUp
  <1>10. /\ UNCHANGED <<events, processor, cleanup, job, slot, active, cleanupFinished>>
         /\ active = NoSession => UNCHANGED snapshot
         /\ \A t \in Starts :
              /\ StartupIsAwaited(t) /\ active = t /\ t \notin cancelled'
              /\ t = s => start[s] \in {"cancelled", "failed"}
              => StartupIsAwaited(t)'
         => LiveIsGivenUp'
    <2> SUFFICES ASSUME UNCHANGED <<events, processor, cleanup, job, slot, active, cleanupFinished>>,
                        active = NoSession => UNCHANGED snapshot,
                        \A t \in Starts :
                          /\ StartupIsAwaited(t) /\ active = t /\ t \notin cancelled'
                          /\ t = s => start[s] \in {"cancelled", "failed"}
                          => StartupIsAwaited(t)'
        PROVE  LiveIsGivenUp'
      OBVIOUS
    <2>1. \A t \in Starts : start'[t] \in {"cancelled", "failed"} => t # s /\ UNCHANGED start[t]
      BY <1>1 DEF Onward
    <2>2. \A t \in Starts : Closing(t)' <=> Closing(t)
      BY DEF Closing, InCleanup, ClearsUp, Busy
    <2>3. ASSUME NEW t \in Starts, active = t, t \notin cancelled',
                 Closing(t) \/ start'[t] \in {"cancelled", "failed"}
          PROVE  /\ StartupIsAwaited(t)'
                 /\ start'[t] \in {"cancelled", "failed", "done"}
                 /\ \/ FindsOthersStored(t)'
                    \/ GaveUp(t)' /\ (Fault("spawn") \/ processor[t] = "none")
      <3>1. /\ StartupIsAwaited(t) /\ start[t] \in {"cancelled", "failed", "done"}
            /\ FindsOthersStored(t) \/ (GaveUp(t) /\ (Fault("spawn") \/ processor[t] = "none"))
        BY <2>1, <2>3 DEF Inv, LiveIsGivenUp
      <3>2. StartupIsAwaited(t)'
        BY <3>1, <2>3
      <3>3. FindsOthersStored(t)' <=> FindsOthersStored(t)
        BY DEF FindsOthersStored
      <3> QED
        BY <1>1, <1>9, <3>1, <3>2, <3>3
    <2> QED
      BY <2>1, <2>2, <2>3
      DEF Inv, LiveIsGivenUp, IsLive, Fault, FindsOthersStored
  <1>11. UNCHANGED <<job, text, pass, frame, slot, events>> => ClearsAreLater'
    BY <1>9 DEF Inv, ClearsAreLater, Below, FindsOthersStored, Fault, ClearsUp, Busy
  <1>12. UNCHANGED <<output, active, cleanup, job, text, pass, frame, events, slot,
                     cleanupFinished>> => ClearedStaysClear'
    BY <1>9
    DEF Inv, ClearedStaysClear, PutBack, Below, FindsOthersStored, Fault, Cleared, InCleanup, ClearsUp, Busy
  <1>13. UNCHANGED <<ui, events>> /\ start[s] # "shown" /\ to \notin {"show", "shown"} =>
           ShowsAreAwaited'
    BY <1>1, CallersDiffer DEF Inv, ShowsAreAwaited, Onward
  <1> QED
    BY <1>2, <1>3, <1>4, <1>6, <1>7, <1>8, <1>10, <1>11, <1>12, <1>13

\* The moves that change nothing else.
LEMMA StartMoves ==
  ASSUME Inv, Theory!Inv', NEW s \in Starts, NEW to \in Onward \ {"abandon", "put", "show", "shown"},
         start' = [start EXCEPT ![s] = to],
         UNCHANGED <<env, slot, control, job, worker, capture, processor, events, cleanup,
                     stopResult, monitor, failureCleanup, budget, text, pass, output, shown, ui,
                     frame, stops, presents>>,
         start[s] \notin {"none", "shown", "done"}, ~Busy(Starter(s)),
         \/ Calm
         \/ MayRun(s) /\ start[s] = "run"
         \/ \E outcome : Reports(s, "startup", outcome) /\ ~InStartup(s)'
              /\ (start[s] \in {"cancelled", "failed"} => outcome \in {"Failed", "Cancelled"}),
         start[s] \in {"cancelled", "failed"} => to = "done",
         to = "monitor" => start[s] = "reset", InStartup(s)' => InStartup(s),
         InStart(s)' <=> InStart(s), start[s] \in Stored => to \in Stored,
         to \notin {"spawnProcessor", "spawnEvents"},
         to \in BeforeCapture => start[s] \in BeforeCapture,
         to \in BeforeProcessor => start[s] \in BeforeProcessor,
         to \in BeforeEvents => start[s] \in BeforeEvents,
         to \in AfterEvents => start[s] \in AfterEvents
  PROVE  Inv'
  <1>1. /\ NumbersAreDistinct'
        /\ \A t \in Starts, r \in Roles :
             Holds(t, r) /\ ~(t = s /\ r = "startup" /\ ~InStartup(s)') => Holds(t, r)'
    BY ReportersKept, ReportersReported DEF Roles, Calm, MayRun, Steady
  <1>2. /\ UNCHANGED <<active, cleanupFinished, nextSession>> /\ cancelled \subseteq cancelled'
        /\ Advances /\ (active = NoSession => UNCHANGED snapshot)
    BY DEF Calm, MayRun, Steady, Reports, Advances
  <1>3. /\ Types' /\ Moved(start', start, s, to)
        /\ \A t \in Starts : Tracked(t)' <=> Tracked(t)
    <2>1. Moved(start', start, s, to) /\ start' \in [Starts -> StartPlaces]
      BY DEF Inv, Types, StartPlaces, Onward, Moved
    <2>2. Types'
      BY <2>1, TypesKept DEF Kept
    <2>3. \A t \in Starts : Tracked(t)' <=> Tracked(t)
      BY DEF Tracked
    <2> QED
      BY <2>1, <2>2, <2>3
  <1>4. ReportersAreHeld'
    BY <1>1, <1>3 DEF Inv, ReportersAreHeld, InStartup, Tracked, Roles, ClearsUp, Busy, Onward, Moved
  <1>5. \A t \in Starts :
          /\ StartupIsAwaited(t) /\ active = t /\ t \notin cancelled'
          /\ t = s => start[s] \in {"cancelled", "failed"}
          => StartupIsAwaited(t)'
    BY AwaitedKept, AwaitedReported DEF Calm, MayRun, Steady, Roles
  <1>6. RevisionsAreOld' /\ VisibleIsAlive'
    <2>1. start[s] = "run" => events[s] # "none"
      BY DEF Inv, ReportersAreHeld, AfterEvents
    <2>2. NoneRuns \/ \A t \in Starts : snapshot'.session = t => events[t] # "none"
      BY <2>1 DEF Calm, MayRun, Reports, NoneRuns
    <2> QED
      BY <1>2, <2>2, Undisturbed
  <1> QED
    BY <1>1, <1>2, <1>3, <1>4, <1>5, <1>6, StartGoesOn DEF Inv

\* What an assignment of job leaves of the others' jobs.
LEMMA JobBegun ==
  ASSUME Inv, NEW c \in Callers, NEW j \in Jobs, job' = [job EXCEPT ![c] = j]
  PROVE  /\ job' \in [Callers -> Jobs] /\ job'[c] = j
         /\ \A d \in Callers : d # c => job'[d] = job[d]
  BY DEF Inv, Types

LEMMA JobMoved ==
  ASSUME Inv, NEW c \in Callers,
         NEW to \in {"idle", "lock", "read", "register", "spawn", "fail", "finishFailed", "finish"},
         JobTo(c, to)
  PROVE  /\ job' \in [Callers -> Jobs] /\ job'[c].pc = to
         /\ job'[c].session = job[c].session /\ job'[c].revision = job[c].revision
         /\ job'[c].held = job[c].held
         /\ \A d \in Callers : d # c => job'[d] = job[d]
  <1>1. job[c] \in Jobs /\ job' = [job EXCEPT ![c].pc = to]
    BY DEF Inv, Types, JobTo
  <1>2. job'[c] = [job[c] EXCEPT !.pc = to] /\ \A d \in Callers : d # c => job'[d] = job[d]
    BY <1>1 DEF Inv, Types
  <1>3. [job[c] EXCEPT !.pc = to] \in Jobs
    BY <1>1 DEF Jobs
  <1>4. job' = [job EXCEPT ![c] = [job[c] EXCEPT !.pc = to]]
    BY <1>1
  <1>5. job' \in [Callers -> Jobs]
    BY <1>3, <1>4 DEF Inv, Types
  <1> QED
    BY <1>1, <1>2, <1>5 DEF Jobs

\* What a request in the queue of the main thread adds to it.
LEMMA RequestPosted ==
  ASSUME Inv, NEW r \in Requests, Post(r)
  PROVE  /\ ui' \in Seq(Requests)
         /\ \A i \in 1..Len(ui') : ui'[i] = r \/ (i \in 1..Len(ui) /\ ui'[i] = ui[i])
         /\ HideIsPosted \/ (r.kind = "hide" /\ r.by = NoCaller) => HideIsPosted'
  <1>1. /\ ui' = Append(ui, r) /\ ui \in Seq(Requests) /\ Len(ui) \in Nat
    BY DEF Inv, Types, Post
  <1>2. /\ ui' \in Seq(Requests) /\ Len(ui') = Len(ui) + 1 /\ ui'[Len(ui) + 1] = r
        /\ \A i \in 1..Len(ui) : ui'[i] = ui[i]
    BY <1>1
  <1>3. \A i \in 1..Len(ui') : i = Len(ui) + 1 \/ i \in 1..Len(ui)
    BY <1>1, <1>2
  <1>4. HideIsPosted => HideIsPosted'
    BY <1>1, <1>2 DEF HideIsPosted
  <1>5. r.kind = "hide" /\ r.by = NoCaller => HideIsPosted'
    <2>1. Len(ui) + 1 \in 1..Len(ui')
      BY <1>1, <1>2
    <2> QED
      BY <1>2, <2>1 DEF HideIsPosted
  <1> QED
    BY <1>2, <1>3, <1>4, <1>5

LEMMA RequestServed ==
  ASSUME Inv, ui # <<>>, ui' = Tail(ui)
  PROVE  /\ ui' \in Seq(Requests) /\ Head(ui) \in Requests
         /\ 1 \in 1..Len(ui) /\ Head(ui) = ui[1]
         /\ \A i \in 1..Len(ui') : i + 1 \in 1..Len(ui) /\ ui'[i] = ui[i + 1]
         /\ HideIsPosted => HideIsPosted' \/ (Head(ui).kind = "hide" /\ Head(ui).by = NoCaller)
  <1>1. ui \in Seq(Requests) /\ Len(ui) \in Nat /\ Len(ui) # 0
    BY DEF Inv, Types
  <1>2. /\ ui' \in Seq(Requests) /\ Len(ui') = Len(ui) - 1 /\ Head(ui) = ui[1]
        /\ \A i \in 1..Len(ui') : ui'[i] = ui[i + 1]
    BY <1>1
  <1>3. 1 \in 1..Len(ui) /\ \A i \in 1..Len(ui') : i + 1 \in 1..Len(ui)
    BY <1>1, <1>2
  <1>4. ASSUME HideIsPosted, ~(Head(ui).kind = "hide" /\ Head(ui).by = NoCaller)
        PROVE  HideIsPosted'
    <2>1. PICK i \in 1..Len(ui) : ui[i].kind = "hide" /\ ui[i].by = NoCaller
      BY <1>4 DEF HideIsPosted
    <2>2. i # 1
      BY <1>2, <1>4, <2>1
    <2>3. i - 1 \in 1..Len(ui') /\ ui'[i - 1] = ui[i]
      BY <1>1, <1>2, <2>1, <2>2
    <2> QED
      BY <2>1, <2>3 DEF HideIsPosted
  <1> QED
    BY <1>1, <1>2, <1>3, <1>4

\* A start that gives up has its resources in the hands of its own cleanup from
\* then on.
LEMMA GivesUp ==
  ASSUME Inv, Theory!Inv', NEW s \in Starts, NEW how \in {"cancelled", "failed"},
         start' = [start EXCEPT ![s] = how],
         BeginJob(Starter(s), s, TRUE, "read"),
         UNCHANGED <<env, slot, worker, capture, processor, events, cleanup, stopResult, monitor,
                     failureCleanup, budget, text, pass, output, shown, ui, frame, stops,
                     presents>>,
         control' = control \/ (start[s] = "put" /\ control' = "free"),
         InStart(s), start[s] # "put" \/ control' = "free",
         \/ Calm
         \/ Reports(s, "processor", "Exited") /\ start[s] = "spawnProcessor"
         \/ Reports(s, "events", "Exited") /\ start[s] = "spawnEvents",
         how = "cancelled" => s \in cancelled \/ FindsOthersStored(s),
         how = "failed" => events[s] = "none" /\ (Fault("spawn") \/ processor[s] = "none")
  PROVE  Inv'
  <1> DEFINE c == Starter(s)
  <1>1. /\ NumbersAreDistinct'
        /\ \A t \in Starts, r \in Roles :
             Holds(t, r) /\ ~(t = s /\ r = "processor" /\ start[s] = "spawnProcessor")
                         /\ ~(t = s /\ r = "events" /\ start[s] = "spawnEvents") =>
               Holds(t, r)'
    BY ReportersKept, ReportersReported DEF Roles, Calm, Steady
  <1>2. /\ UNCHANGED <<active, cleanupFinished, nextSession>> /\ cancelled \subseteq cancelled'
        /\ Advances /\ NoneRuns /\ (active = NoSession => UNCHANGED snapshot)
    BY DEF Calm, Steady, Reports, Advances, NoneRuns
  <1>3. /\ start'[s] = how /\ start' \in [Starts -> StartPlaces]
        /\ \A t \in Starts : t # s => start'[t] = start[t]
        /\ start[s] \in {"resolve", "place", "placed", "processor", "spawnProcessor", "events",
                         "spawnEvents", "admit", "put"}
    BY DEF Inv, Types, StartPlaces, InStart
  <1>4. /\ Main \in Callers /\ c \in Callers /\ c # Main /\ \A t \in Starts : c = Starter(t) => t = s
        /\ \A t \in Starts : c # MonitorOf(t) /\ Starter(t) \in Callers /\ MonitorOf(t) \in Callers
    BY CallersDiffer
  <1>5. /\ job' \in [Callers -> Jobs]
        /\ job'[c].pc = "read" /\ job'[c].session = s /\ job'[c].held
        /\ \A d \in Callers : d # c => job'[d] = job[d]
    <2> DEFINE j == [pc |-> "read", session |-> s, revision |-> 0, held |-> TRUE, already |-> FALSE]
    <2>1. j \in Jobs /\ job' = [job EXCEPT ![c] = j]
      BY DEF BeginJob, Jobs
    <2>2. job' \in [Callers -> Jobs] /\ job'[c] = j /\ \A d \in Callers : d # c => job'[d] = job[d]
      BY <1>4, <2>1, JobBegun
    <2> QED
      BY <2>2
  <1>6. ~Busy(c)
    BY <1>3 DEF Inv, JobsAreOwned
  <1>7. Types'
    BY <1>3, <1>5, TypesKept DEF Kept
  <1>8. UnstartedHasNothing'
    <2>1. /\ slot < nextSession /\ output.session < nextSession /\ frame.session < nextSession
          /\ (active = NoSession \/ active = nextSession - 1)
          /\ (nextSession > 1 => snapshot'.revision > 0)
      BY <1>2, Numbers DEF Inv, UnstartedHasNothing, Guarantees, Advances
    <2>2. s < nextSession
      BY <1>3, Numbers DEF Inv, UnstartedHasNothing
    <2>3. \A d \in Callers : job'[d].session < nextSession
      BY <1>5, <2>2 DEF Inv, UnstartedHasNothing
    <2>4. \A t \in Starts : t >= nextSession =>
            start'[t] = "none" /\ capture[t] = "none" /\ monitor[t] = "none" /\ ~failureCleanup[t]
      BY <1>3, <2>2, Numbers DEF Inv, UnstartedHasNothing
    <2> QED
      BY <1>2, <2>1, <2>3, <2>4 DEF UnstartedHasNothing
  <1>9. JobsAreOwned'
    BY <1>2, <1>3, <1>4, <1>5 DEF Inv, JobsAreOwned, Busy
  <1>10. ReportersAreHeld'
    <2>1. \A t \in Starts, d \in Callers :
            (ClearsUp(d, t) /\ job[d].pc = "spawn")' => ClearsUp(d, t) /\ job[d].pc = "spawn"
      BY <1>5 DEF ClearsUp, Busy
    <2>2. start[s] = "spawnProcessor" => processor[s] = "none"
      BY DEF Inv, ReportersAreHeld, BeforeProcessor
    <2>3. start[s] = "spawnEvents" => events[s] = "none"
      BY DEF Inv, ReportersAreHeld, BeforeEvents
    <2>4. \A t \in Starts : /\ InStartup(t)' => InStartup(t)
                            /\ \A p \in BeforeEvents \cup AfterEvents : start'[t] = p => start[t] = p
      BY <1>3 DEF InStartup, BeforeCapture, BeforeProcessor, BeforeEvents, AfterEvents
    <2>5. \A t \in Starts :
            /\ InStartup(t)' => Holds(t, "startup")'
            /\ start'[t] = "spawnProcessor" \/ processor[t] \notin {"none", "ended"} =>
                 Holds(t, "processor")'
            /\ start'[t] = "spawnEvents" \/ events[t] \notin {"none", "ended"} => Holds(t, "events")'
      BY <1>1, <1>3, <2>2, <2>3, <2>4 DEF Inv, ReportersAreHeld, Roles
    <2>6. \A t \in Starts : Tracked(t) =>
            /\ cleanup[t] \in {"stop", "join", "report"} => Holds(t, "shutdown")'
            /\ \A d \in Callers : ClearsUp(d, t) /\ job[d].pc = "spawn" => Holds(t, "shutdown")'
      BY <1>1 DEF Inv, ReportersAreHeld, Roles
    <2> QED
      BY <2>1, <2>4, <2>5, <2>6 DEF Inv, ReportersAreHeld, Tracked, BeforeProcessor, BeforeEvents
  <1>11. StopMissesNoStore'
    BY <1>3, <1>4, <1>5 DEF Inv, StopMissesNoStore, ClearsUp, Busy
  <1>12. ResourcesHaveOneHolder'
    <2>1. /\ ~InSlot(s) /\ ~InCleanup(s) /\ Open(s) /\ start[s] \notin Stored
          /\ \A d \in Callers : ~InJob(d, s)
      BY DEF Inv, ResourcesHaveOneHolder, OneHolder, Stored, InStart
    <2>2. InJob(c, s)' /\ \A t \in Starts, d \in Callers : InJob(d, t)' => InJob(d, t) \/ (d = c /\ t = s)
      BY <1>4, <1>5 DEF InJob
    <2>3. \A t \in Starts, d \in Callers : InJob(d, t) => InJob(d, t)' /\ (job'[d].pc = job[d].pc)
      BY <1>4, <1>5, <1>6 DEF InJob, Busy
    <2>4. \A t \in Starts : InStart(t)' => InStart(t) /\ t # s
      BY <1>3 DEF InStart
    <2>5. \A t \in Starts, d \in Callers :
            (ClearsUp(d, t) /\ job[d].pc \in {"fail", "finishFailed"})' =>
              ClearsUp(d, t) /\ job[d].pc \in {"fail", "finishFailed"}
      BY <1>5 DEF ClearsUp, Busy
    <2>6. UNCHANGED <<slot, cleanup, capture, worker>>
      OBVIOUS
    <2>7. \A t \in Starts :
            /\ InSlot(t)' <=> InSlot(t)
            /\ InCleanup(t)' <=> InCleanup(t)
            /\ Open(t)' <=> Open(t)
            /\ Tracked(t)' <=> Tracked(t)
      BY <2>6 DEF InSlot, InCleanup, Open, Tracked
    <2> QED
      BY <1>3, <2>1, <2>2, <2>3, <2>4, <2>5, <2>6, <2>7
      DEF Inv, ResourcesHaveOneHolder, OneHolder, BeforeCapture
  <1>13. WhatRunsIsHeld'
    BY <1>3, <1>4, <1>5, <1>6 DEF Inv, WhatRunsIsHeld, InStart, InSlot, InJob, Open, Busy
  <1>14. CleanupIsAwaited'
    BY <1>2, <1>3, <1>4, <1>5, <1>6
    DEF Inv, CleanupIsAwaited, InSlot, InJob, InCleanup, Tracked, ClearsUp, Busy, Fault
  <1>15. LiveIsGivenUp'
    <2>1. StaysAwaited
      BY AwaitedByAll DEF Calm, Roles
    <2>2. StartupIsAwaited(s)
      BY <1>3, HeldIsAwaited DEF Inv, ReportersAreHeld, InStartup
    <2>3. \A t \in Starts : t # s => (Closing(t)' <=> Closing(t))
      BY <1>2, <1>4, <1>5, <1>6 DEF Closing, InCleanup, ClearsUp, Busy
    <2>4. ASSUME NEW t \in Starts, t # s,
                 active = t, t \notin cancelled', Closing(t) \/ start[t] \in {"cancelled", "failed"}
          PROVE  /\ StartupIsAwaited(t)'
                 /\ start[t] \in {"cancelled", "failed", "done"}
                 /\ FindsOthersStored(t) \/ (GaveUp(t) /\ (Fault("spawn") \/ processor[t] = "none"))
      BY <1>2, <2>1, <2>4 DEF Inv, LiveIsGivenUp, StaysAwaited
    <2>5. ASSUME active = s, s \notin cancelled'
          PROVE  /\ StartupIsAwaited(s)'
                 /\ FindsOthersStored(s) \/ (GaveUp(s)' /\ (Fault("spawn") \/ processor[s] = "none"))
      BY <1>2, <1>3, <2>1, <2>2, <2>5 DEF StaysAwaited, GaveUp
    <2>6. (active = NoSession => ~IsLive)'
      BY <1>2 DEF Inv, LiveIsGivenUp, IsLive
    <2>7. \A t \in Starts : t # s => (GaveUp(t)' <=> GaveUp(t))
      BY <1>3 DEF GaveUp
    <2>8. \A t \in Starts :
            /\ start'[t] = "cancelled" => t \in cancelled' \/ FindsOthersStored(t)
            /\ start'[t] = "failed" => events[t] = "none" /\ (Fault("spawn") \/ processor[t] = "none")
      BY <1>2, <1>3 DEF Inv, LiveIsGivenUp
    <2> QED
      BY <1>2, <1>3, <2>3, <2>4, <2>5, <2>6, <2>7, <2>8
      DEF LiveIsGivenUp, FindsOthersStored, Fault
  <1>16. RevisionsAreOld'
    BY <1>2, Undisturbed
  <1>17. \A t \in Starts : (GaveUp(t) => GaveUp(t)') /\ (FindsOthersStored(t)' <=> FindsOthersStored(t))
    BY <1>3 DEF GaveUp, FindsOthersStored
  <1>18. ClearsAreLater'
    BY <1>5, <1>17 DEF Inv, ClearsAreLater, Below, Fault, ClearsUp, Busy
  <1>19. \A t \in Starts : Cleared(t)' <=> Cleared(t)
    BY <1>2, <1>5, <1>6 DEF Cleared, InCleanup, ClearsUp, Busy
  <1>20. ClearedStaysClear'
    BY <1>2, <1>17, <1>19 DEF Inv, ClearedStaysClear, PutBack, Below, Fault
  <1>21. ShowsAreAwaited'
    BY <1>2, <1>3, CallersDiffer DEF Inv, ShowsAreAwaited
  <1>22. VisibleIsAlive'
    BY <1>2, <1>19, Numbers DEF Inv, VisibleIsAlive, HideIsPosted, FindsOthersStored
  <1> QED
    BY <1>1, <1>7, <1>8, <1>9, <1>10, <1>11, <1>12, <1>13, <1>14, <1>15, <1>16, <1>18, <1>20,
       <1>21, <1>22 DEF Inv

\* Stop, whoever asks for it: the command on the main thread or the start whose
\* picker was dismissed.
LEMMA Stops ==
  ASSUME Inv, NEW c \in Callers, Stop(c), ~Busy(c),
         UNCHANGED <<env, control, worker, capture, processor, events, cleanup, stopResult, monitor,
                     failureCleanup, budget, text, pass, output, shown, ui, frame, stops, presents>>,
         \/ c = Main /\ UNCHANGED start
         \/ c = Starter(active) /\ start[active] = "dismissed"
              /\ start' = [start EXCEPT ![active] = "cancelled"]
  PROVE  Inv'
  <1> DEFINE s == active
             dismissed == start[s] = "dismissed" /\ c = Starter(s)
  <1>1. /\ Theory!Inv' /\ Calm /\ s \in Starts /\ s < nextSession /\ s \in cancelled'
        /\ s = nextSession - 1
        /\ snapshot'.lifecycle = "Stopping" /\ control = "free"
    BY StopEffect, Numbers DEF Inv, Stop, Guarantees, UnstartedHasNothing
  <1>2. /\ NumbersAreDistinct'
        /\ \A t \in Starts, r \in Roles : Holds(t, r) => Holds(t, r)'
    BY <1>1, ReportersKept DEF Calm, Steady
  <1>3. /\ UNCHANGED <<active, cleanupFinished, nextSession>> /\ cancelled \subseteq cancelled'
        /\ Advances /\ NoneRuns
    BY <1>1 DEF Calm, Steady
  <1>4. /\ start' \in [Starts -> StartPlaces]
        /\ start'[s] = start[s] \/ (dismissed /\ start'[s] = "cancelled")
        /\ \A t \in Starts : t # s => start'[t] = start[t]
    <2>1. start \in [Starts -> StartPlaces]
      BY DEF Inv, Types
    <2>2. UNCHANGED start \/ (dismissed /\ start' = [start EXCEPT ![s] = "cancelled"])
      BY DEF Starter, Main
    <2>3. "cancelled" \in StartPlaces
      BY DEF StartPlaces
    <2> QED
      BY <1>1, <2>1, <2>2, <2>3
  <1>5. /\ Main \in Callers /\ (c = Main \/ (dismissed /\ c # Main))
        /\ \A t \in Starts : /\ Starter(t) \in Callers /\ MonitorOf(t) \in Callers
                             /\ c # MonitorOf(t) /\ Starter(t) # Main
                             /\ c = Starter(t) => t = s /\ dismissed
    BY <1>1, CallersDiffer
  <1>6. /\ job' \in [Callers -> Jobs]
        /\ job'[c].pc = "clearStop" /\ job'[c].session = s /\ job'[c].revision = snapshot'.revision
        /\ (job'[c].held => slot = s) /\ (slot = s => job'[c].held)
        /\ \A d \in Callers : d # c => job'[d] = job[d]
    <2> DEFINE j == [pc |-> "clearStop", session |-> s, revision |-> snapshot'.revision,
                     held |-> slot = s, already |-> snapshot.lifecycle = "Stopping"]
    <2>1. snapshot'.revision \in Nat
      BY <1>1, SupervisorGuaranteesNext DEF Guarantees
    <2>2. j \in Jobs /\ job' = [job EXCEPT ![c] = j]
      BY <1>1, <2>1 DEF Stop, Jobs
    <2>3. job' \in [Callers -> Jobs] /\ job'[c] = j /\ \A d \in Callers : d # c => job'[d] = job[d]
      BY <2>2, JobBegun
    <2>4. job'[c].held = (slot = s)
      BY <2>3
    <2>5. (job'[c].held => slot = s) /\ (slot = s => job'[c].held)
      BY <2>4
    <2> QED
      BY <2>3, <2>5
  <1>7. /\ slot' = (IF slot = s THEN NoSession ELSE slot) /\ slot' \in Starts \cup {NoSession}
        /\ slot \in Starts \cup {NoSession} /\ s # NoSession
    BY <1>1 DEF Stop, Inv, Types, Starts, NoSession
  <1>8. Types'
    BY <1>4, <1>6, <1>7, TypesKept DEF Kept
  <1>9. \A t \in Starts : t < nextSession => (FindsOthersStored(t)' <=> FindsOthersStored(t))
    BY <1>1, <1>7, Numbers DEF FindsOthersStored, NoSession
  <1>10. UnstartedHasNothing'
    <2>1. /\ slot' < nextSession /\ output.session < nextSession /\ frame.session < nextSession
          /\ active = nextSession - 1 /\ (nextSession > 1 => snapshot'.revision > 0)
      BY <1>1, <1>3, <1>7, Numbers DEF Inv, UnstartedHasNothing, Guarantees, Advances, NoSession
    <2>2. \A d \in Callers : job'[d].session < nextSession
      BY <1>1, <1>6 DEF Inv, UnstartedHasNothing
    <2>3. \A t \in Starts : t >= nextSession =>
            start'[t] = "none" /\ capture[t] = "none" /\ monitor[t] = "none" /\ ~failureCleanup[t]
      BY <1>1, <1>4, Numbers DEF Inv, UnstartedHasNothing
    <2> QED
      BY <1>3, <2>1, <2>2, <2>3 DEF UnstartedHasNothing
  <1>11. JobsAreOwned'
    <2>1. \A d \in Callers : d # c => (Busy(d)' <=> Busy(d)) /\ job'[d] = job[d]
      BY <1>6 DEF Busy
    <2>2. Busy(c)' /\ \A t \in Starts : c = Starter(t) => job'[c].session = t /\ start'[t] = "cancelled"
      BY <1>1, <1>4, <1>5, <1>6 DEF Busy, Inv, Types
    <2>3. \A d \in Callers : Busy(d)' => job'[d].session \in Starts
      BY <1>1, <1>6, <2>1 DEF Inv, JobsAreOwned
    <2>4. \A t \in Starts :
            /\ Busy(Starter(t))' => job'[Starter(t)].session = t /\ start'[t] \in {"cancelled", "failed"}
            /\ Busy(MonitorOf(t))' => job'[MonitorOf(t)].session = t /\ monitor[t] = "cleaning"
            /\ job'[Starter(t)].pc # "lock" /\ job'[MonitorOf(t)].pc # "lock"
      BY <1>4, <1>5, <1>6, <2>1, <2>2 DEF Inv, JobsAreOwned
    <2>5. \A t \in Starts :
            /\ failureCleanup[t] => t \in cancelled'
            /\ start'[t] \in {"none", "reset", "monitor", "abandon"} => monitor[t] = "none"
      BY <1>3, <1>4 DEF Inv, JobsAreOwned
    <2>6. Busy(Main)' => job'[Main].session \in cancelled'
      <3>1. CASE c = Main
        BY <1>1, <1>6, <3>1
      <3>2. CASE c # Main
        <4>1. Busy(Main)' => Busy(Main) /\ job'[Main] = job[Main]
          BY <1>5, <2>1, <3>2
        <4> QED
          BY <1>3, <4>1 DEF Inv, JobsAreOwned
      <3> QED
        BY <3>1, <3>2
    <2>8. \A d \in Callers : job'[d].pc = "clearStop" => job'[d].session \in cancelled'
      <3>1. \A d \in Callers : d # c => (job'[d].pc = "clearStop" => job'[d].session \in cancelled')
        BY <1>3, <1>6 DEF Inv, JobsAreOwned
      <3> QED
        BY <1>1, <1>6, <3>1
    <2>7. \A d \in Callers :
            /\ job'[d].pc \in {"register", "spawn", "fail", "finishFailed"} => job'[d].held
            /\ job'[d].pc = "finish" => ~job'[d].held
      BY <1>6 DEF Inv, JobsAreOwned
    <2> QED
      BY <2>3, <2>4, <2>5, <2>6, <2>7, <2>8 DEF Inv, JobsAreOwned
  <1>12. ReportersAreHeld'
    <2>1. \A t \in Starts, d \in Callers :
            (ClearsUp(d, t) /\ job[d].pc = "spawn")' => ClearsUp(d, t) /\ job[d].pc = "spawn"
      BY <1>6 DEF ClearsUp, Busy
    <2>2. \A t \in Starts : InStartup(t)' => InStartup(t)
      BY <1>4 DEF InStartup
    <2>3. start'[s] = "cancelled" => start'[s] \notin BeforeProcessor \cup BeforeEvents \cup AfterEvents
      BY DEF BeforeCapture, BeforeProcessor, BeforeEvents, AfterEvents
    <2> QED
      BY <1>2, <1>4, <2>1, <2>2, <2>3 DEF Inv, ReportersAreHeld, Tracked, Roles
  <1>13. StopMissesNoStore'
    <2>1. \A t \in Starts : start[t] \notin {"put", "show", "shown"}
      BY <1>1 DEF Inv, StopMissesNoStore
    <2>2. \A t \in Starts : start'[t] \notin {"put", "show", "shown"}
      BY <1>4, <2>1
    <2>3. \A t \in Starts : ClearsUp(Main, t)' =>
            \/ ClearsUp(Main, t) /\ job'[Main] = job[Main]
            \/ t = s /\ (~job'[Main].held => slot # s)
      BY <1>5, <1>6 DEF ClearsUp, Busy
    <2>4. ASSUME NEW t \in Starts, ClearsUp(Main, t)', ~job'[Main].held PROVE slot' # t
      BY <1>7, <2>3, <2>4 DEF Inv, StopMissesNoStore, Starts, NoSession
    <2> QED
      BY <2>2, <2>4 DEF StopMissesNoStore
  <1>25. \A t \in Starts, d \in Callers :
          InJob(d, t)' => InJob(d, t) \/ (d = c /\ t = s /\ slot = s)
    BY <1>1, <1>5, <1>6 DEF InJob
  <1>26. \A t \in Starts, d \in Callers : InJob(d, t) => InJob(d, t)' /\ (job'[d].pc = job[d].pc)
    BY <1>6 DEF InJob, Busy
  <1>14. ResourcesHaveOneHolder'
    <2>1. dismissed => capture[s] = "none" /\ slot # s
      BY <1>1 DEF Inv, ResourcesHaveOneHolder, OneHolder, BeforeCapture, InSlot, Open
    <2>4. \A t \in Starts : (InStart(t)' <=> InStart(t)) /\ (start'[t] \in Stored <=> start[t] \in Stored)
                            /\ (start'[t] \in BeforeCapture => start[t] \in BeforeCapture)
      BY <1>4 DEF InStart, Stored, BeforeCapture
    <2>5. \A t \in Starts, d \in Callers :
            (ClearsUp(d, t) /\ job[d].pc \in {"fail", "finishFailed"})' =>
              ClearsUp(d, t) /\ job[d].pc \in {"fail", "finishFailed"}
      BY <1>6 DEF ClearsUp, Busy
    <2>6. \A t \in Starts :
            /\ InSlot(t)' <=> InSlot(t) /\ t # s
            /\ InCleanup(t)' <=> InCleanup(t)
            /\ Open(t)' <=> Open(t)
            /\ Tracked(t)' <=> Tracked(t)
      BY <1>1, <1>7 DEF InSlot, InCleanup, Open, Tracked, Starts, NoSession
    <2>7. UNCHANGED <<cleanup, capture, processor, events>>
      OBVIOUS
    <2>8. \A t \in Starts : slot = t <=> InSlot(t)
      BY DEF InSlot
    <2> QED
      BY <1>1, <1>5, <1>25, <1>26, <2>1, <2>4, <2>5, <2>6, <2>7, <2>8
      DEF Inv, ResourcesHaveOneHolder, OneHolder
  <1>15. WhatRunsIsHeld'
    <2>1. \A t \in Starts : t = s /\ InSlot(t) => job'[c].held
      BY <1>6 DEF InSlot
    <2>4. \A t \in Starts : t = s /\ InSlot(t) => InJob(c, t)'
      BY <1>6, <2>1 DEF InJob
    <2>2. \A t \in Starts : t # s /\ InSlot(t) => InSlot(t)'
      BY <1>7 DEF InSlot
    <2>3. \A t \in Starts : /\ InStart(t) => InStart(t)'
                            /\ Open(t)' => Open(t)
      BY <1>4 DEF InStart, Open
    <2> QED
      BY <1>26, <2>2, <2>3, <2>4 DEF Inv, WhatRunsIsHeld
  <1>16. CleanupIsAwaited'
    <2>2. \A t \in Starts : InSlot(t)' => InSlot(t)
      BY <1>7 DEF InSlot, Starts, NoSession
    <2>3. \A t \in Starts : InJob(Main, t)' => InJob(Main, t) \/ InSlot(t)
      BY <1>5, <1>25 DEF InSlot
    <2>4. \A t \in Starts : \A p \in {"put", "abandon"} : start'[t] = p => start[t] = p
      BY <1>4
    <2>5. \A t \in Starts, d \in Callers :
            (ClearsUp(d, t) /\ job[d].pc = "spawn")' => ClearsUp(d, t) /\ job[d].pc = "spawn"
      BY <1>6 DEF ClearsUp, Busy
    <2> QED
      BY <1>3, <2>2, <2>3, <2>4, <2>5 DEF Inv, CleanupIsAwaited, InCleanup, Tracked, Fault
  <1>17. LiveIsGivenUp'
    <2>1. active # NoSession /\ (active = NoSession => ~IsLive)'
      BY <1>1, <1>3, <1>7
    <2>2. \A t \in Starts : t # s => active # t
      OBVIOUS
    <2>3. \A t \in Starts : start'[t] \in {"cancelled", "failed"} =>
            (start[t] = start'[t] /\ t < nextSession) \/ (t = s /\ start'[t] = "cancelled")
      BY <1>4, Numbers DEF Inv, UnstartedHasNothing
    <2>4. \A t \in Starts :
            /\ start'[t] = "cancelled" => t \in cancelled' \/ FindsOthersStored(t)'
            /\ start'[t] = "failed" => events[t] = "none" /\ (Fault("spawn") \/ processor[t] = "none")
      BY <1>1, <1>3, <1>9, <2>3 DEF Inv, LiveIsGivenUp
    <2> QED
      BY <1>1, <1>3, <2>1, <2>4 DEF LiveIsGivenUp, Fault
  <1>18. RevisionsAreOld'
    BY <1>3, Undisturbed
  <1>19. \A t \in Starts : GaveUp(t) => GaveUp(t)'
    BY <1>4 DEF GaveUp
  <1>20. ClearsAreLater'
    <2>1. Below(s, snapshot'.revision)
      <3>1. snapshot' = snapshot => ~IsLive
        BY <1>1 DEF IsLive, Sup!LiveLifecycles
      <3>2. snapshot'.revision = snapshot.revision + 1 => Below(s, snapshot'.revision)
        BY <1>1 DEF Inv, RevisionsAreOld
      <3>3. snapshot' = snapshot => Below(s, snapshot'.revision)
        BY <1>1, <3>1 DEF Inv, RevisionsAreOld
      <3> QED
        BY <1>3, <3>2, <3>3 DEF Advances
    <2>2. \A d \in Callers, t \in Starts : ClearsUp(d, t)' => t < nextSession
      BY <1>1, <1>6 DEF Inv, UnstartedHasNothing, ClearsUp
    <2>3. \A d \in Callers, t \in Starts : ClearsUp(d, t)' /\ d # c => ClearsUp(d, t)
      BY <1>6 DEF ClearsUp, Busy
    <2> QED
      BY <1>6, <1>9, <1>19, <2>1, <2>2, <2>3 DEF Inv, ClearsAreLater, Below, Fault, ClearsUp
  <1>21. \A t \in Starts : Cleared(t)' <=> Cleared(t)
    BY <1>3, <1>6 DEF Cleared, InCleanup, ClearsUp, Busy
  <1>22. ClearedStaysClear'
    BY <1>3, <1>9, <1>19, <1>21 DEF Inv, ClearedStaysClear, PutBack, Below, Fault, UnstartedHasNothing
  <1>23. ShowsAreAwaited'
    BY <1>3, <1>4, CallersDiffer DEF Inv, ShowsAreAwaited
  <1>24. VisibleIsAlive'
    BY <1>1, <1>3, <1>9, <1>21, Numbers DEF Inv, VisibleIsAlive, HideIsPosted
  <1> QED
    BY <1>1, <1>2, <1>8, <1>10, <1>11, <1>12, <1>13, <1>14, <1>15, <1>16, <1>17, <1>18, <1>20,
       <1>22, <1>23, <1>24 DEF Inv

-----------------------------------------------------------------------------
(* Every step preserves the invariant.  Each lemma says first what the     *)
(* step, or each case of it, does to the supervisor and to the variables   *)
(* of the session, then which reporters that leaves in hand, and shows the *)
(* parts of the invariant one by one from these facts.                     *)

-----------------------------------------------------------------------------
(* start_visual_translation.                                               *)

\* A publication that may be refused.
LEMMA TryEffect ==
  ASSUME Inv, NEW s, NEW enabled \in BOOLEAN, NEW step \in {"PreparingModel", "StartingCapture"},
         NEW level \in {"Healthy", "Degraded"},
         \/ Try(enabled, Sup!UpdateStartProgress(s, step))
         \/ Try(enabled, Sup!UpdateSource(s, "picked"))
         \/ Try(enabled, Sup!UpdateHealth(s, level))
  PROVE  Theory!Inv' /\ Calm
  <1>1. CASE UNCHANGED supVars
    BY <1>1, StutterEffect DEF Inv
  <1>2. CASE Sup!UpdateStartProgress(s, step) \/ Sup!UpdateSource(s, "picked")
               \/ Sup!UpdateHealth(s, level)
    BY <1>2, PublicationEffect DEF Inv
  <1> QED
    BY <1>1, <1>2 DEF Try

LEMMA UpdateProgressStep ==
  ASSUME Inv, NEW s \in Starts, UpdateProgress(s)
  PROVE  Inv'
  <1>1. CASE At(s, "preparing")
    <2> DEFINE try == Try(IsActive(s) /\ snapshot.lifecycle = "Starting" /\ s \notin cancelled,
                          Sup!UpdateStartProgress(s, "PreparingModel"))
    <2>1. Goto(s, "load") /\ try
      <3>1. PICK step \in {<<"preparing", "PreparingModel", "load">>,
                           <<"starting", "StartingCapture", "capture">>} :
              /\ At(s, step[1]) /\ Goto(s, step[3])
              /\ Try(IsActive(s) /\ snapshot.lifecycle = "Starting" /\ s \notin cancelled,
                     Sup!UpdateStartProgress(s, step[2]))
        BY DEF UpdateProgress
      <3>2. step = <<"preparing", "PreparingModel", "load">>
        BY <1>1, <3>1 DEF At
      <3> QED
        BY <3>1, <3>2 DEF Try
    <2>2. Theory!Inv' /\ Calm
      BY <2>1, TryEffect
    <2> HIDE DEF try
    <2>3. /\ Theory!Inv' /\ Calm
          /\ start[s] = "preparing" /\ start' = [start EXCEPT ![s] = "load"]
          /\ UNCHANGED <<env, slot, control, worker, job, capture, processor, events, cleanup,
                        stopResult, monitor, failureCleanup, budget, text, pass, output, shown,
                        ui, frame, stops, presents>>
      BY <1>1, <2>1, <2>2
      DEF Inv, At, Goto, UpdateProgress, supVars, overlayVars, mainVars, threadVars, cleanupVars,
          monitorVars
    <2>4. start'[s] = "load"
      BY <2>3
      DEF Inv, Types
    <2>5. ~Busy(Starter(s))
      BY <2>3
      DEF Inv, JobsAreOwned
    <2> QED
      BY <2>3, <2>4, <2>5, StartMoves
      DEF Onward, StartPlaces, InStartup, InStart, BeforeCapture, BeforeProcessor, BeforeEvents,
          AfterEvents, Stored
  <1>2. CASE At(s, "starting")
    <2> DEFINE try == Try(IsActive(s) /\ snapshot.lifecycle = "Starting" /\ s \notin cancelled,
                          Sup!UpdateStartProgress(s, "StartingCapture"))
    <2>1. Goto(s, "capture") /\ try
      <3>1. PICK step \in {<<"preparing", "PreparingModel", "load">>,
                           <<"starting", "StartingCapture", "capture">>} :
              /\ At(s, step[1]) /\ Goto(s, step[3])
              /\ Try(IsActive(s) /\ snapshot.lifecycle = "Starting" /\ s \notin cancelled,
                     Sup!UpdateStartProgress(s, step[2]))
        BY DEF UpdateProgress
      <3>2. step = <<"starting", "StartingCapture", "capture">>
        BY <1>2, <3>1 DEF At
      <3> QED
        BY <3>1, <3>2 DEF Try
    <2>2. Theory!Inv' /\ Calm
      BY <2>1, TryEffect
    <2> HIDE DEF try
    <2>3. /\ Theory!Inv' /\ Calm
          /\ start[s] = "starting" /\ start' = [start EXCEPT ![s] = "capture"]
          /\ UNCHANGED <<env, slot, control, worker, job, capture, processor, events, cleanup,
                        stopResult, monitor, failureCleanup, budget, text, pass, output, shown,
                        ui, frame, stops, presents>>
      BY <1>2, <2>1, <2>2
      DEF Inv, At, Goto, UpdateProgress, supVars, overlayVars, mainVars, threadVars, cleanupVars,
          monitorVars
    <2>4. start'[s] = "capture"
      BY <2>3
      DEF Inv, Types
    <2>5. ~Busy(Starter(s))
      BY <2>3
      DEF Inv, JobsAreOwned
    <2> QED
      BY <2>3, <2>4, <2>5, StartMoves
      DEF Onward, StartPlaces, InStartup, InStart, BeforeCapture, BeforeProcessor, BeforeEvents,
          AfterEvents, Stored
  <1> QED
    BY <1>1, <1>2 DEF UpdateProgress

LEMMA LoadEngineStep ==
  ASSUME Inv, NEW s \in Starts, LoadEngine(s)
  PROVE  Inv'
  <1>1. CASE At(s, "load") /\ s \notin cancelled /\ Goto(s, "starting") /\ UNCHANGED supVars
    <2>1. /\ Theory!Inv' /\ Calm
          /\ start[s] = "load" /\ start' = [start EXCEPT ![s] = "starting"]
          /\ UNCHANGED <<env, slot, control, worker, job, capture, processor, events, cleanup,
                        stopResult, monitor, failureCleanup, budget, text, pass, output, shown,
                        ui, frame, stops, presents>>
      BY <1>1, StutterEffect
      DEF Inv, At, Goto, LoadEngine, supVars, overlayVars, mainVars, threadVars, cleanupVars,
          monitorVars
    <2>2. start'[s] = "starting"
      BY <2>1
      DEF Inv, Types
    <2>3. ~Busy(Starter(s))
      BY <2>1
      DEF Inv, JobsAreOwned
    <2> QED
      BY <2>1, <2>2, <2>3, StartMoves
      DEF Onward, StartPlaces, InStartup, InStart, BeforeCapture, BeforeProcessor, BeforeEvents,
          AfterEvents, Stored
  <1>2. CASE At(s, "load") /\ Goto(s, "done") /\ Report(s, "startup", "Cancelled")
    <2>1. /\ Theory!Inv' /\ Reports(s, "startup", "Cancelled")
          /\ start[s] = "load" /\ start' = [start EXCEPT ![s] = "done"]
          /\ UNCHANGED <<env, slot, control, worker, job, capture, processor, events, cleanup,
                        stopResult, monitor, failureCleanup, budget, text, pass, output, shown,
                        ui, frame, stops, presents>>
      BY <1>2, ReportEffect
      DEF Inv, At, Goto, LoadEngine, supVars, overlayVars, mainVars, threadVars, cleanupVars,
          monitorVars
    <2>2. start'[s] = "done"
      BY <2>1
      DEF Inv, Types
    <2>3. ~Busy(Starter(s))
      BY <2>1
      DEF Inv, JobsAreOwned
    <2> QED
      BY <2>1, <2>2, <2>3, StartMoves
      DEF Onward, StartPlaces, InStartup, InStart, BeforeCapture, BeforeProcessor, BeforeEvents,
          AfterEvents, Stored
  <1>3. CASE At(s, "load") /\ Goto(s, "done") /\ Report(s, "startup", "Failed")
    <2>1. /\ Theory!Inv' /\ Reports(s, "startup", "Failed")
          /\ start[s] = "load" /\ start' = [start EXCEPT ![s] = "done"]
          /\ UNCHANGED <<env, slot, control, worker, job, capture, processor, events, cleanup,
                        stopResult, monitor, failureCleanup, budget, text, pass, output, shown,
                        ui, frame, stops, presents>>
      BY <1>3, ReportEffect
      DEF Inv, At, Goto, LoadEngine, supVars, overlayVars, mainVars, threadVars, cleanupVars,
          monitorVars
    <2>2. start'[s] = "done"
      BY <2>1
      DEF Inv, Types
    <2>3. ~Busy(Starter(s))
      BY <2>1
      DEF Inv, JobsAreOwned
    <2> QED
      BY <2>1, <2>2, <2>3, StartMoves
      DEF Onward, StartPlaces, InStartup, InStart, BeforeCapture, BeforeProcessor, BeforeEvents,
          AfterEvents, Stored
  <1> QED
    BY <1>1, <1>2, <1>3 DEF LoadEngine

LEMMA ReportHealthStep ==
  ASSUME Inv, NEW s \in Starts, ReportHealth(s)
  PROVE  Inv'
  <1>1. /\ Theory!Inv' /\ Calm
        /\ start[s] = "health" /\ start' = [start EXCEPT ![s] = "done"]
        /\ UNCHANGED <<env, slot, control, worker, job, capture, processor, events, cleanup,
                      stopResult, monitor, failureCleanup, budget, text, pass, output, shown, ui,
                      frame, stops, presents>>
    BY TryEffect
    DEF Inv, At, Goto, ReportHealth, supVars, overlayVars, mainVars, threadVars, cleanupVars,
        monitorVars
  <1>2. start'[s] = "done"
    BY <1>1
    DEF Inv, Types
  <1>3. ~Busy(Starter(s))
    BY <1>1
    DEF Inv, JobsAreOwned
  <1> QED
    BY <1>1, <1>2, <1>3, StartMoves
    DEF Onward, StartPlaces, InStartup, InStart, BeforeCapture, BeforeProcessor, BeforeEvents,
        AfterEvents, Stored

LEMMA BecomeRunningStep ==
  ASSUME Inv, NEW s \in Starts, BecomeRunning(s)
  PROVE  Inv'
  <1>1. CASE At(s, "complete") /\ Report(s, "startup", "Completed") /\ Goto(s, "observe")
    <2>1. /\ Theory!Inv' /\ Reports(s, "startup", "Completed")
          /\ start[s] = "complete" /\ start' = [start EXCEPT ![s] = "observe"]
          /\ UNCHANGED <<env, slot, control, worker, job, capture, processor, events, cleanup,
                        stopResult, monitor, failureCleanup, budget, text, pass, output, shown,
                        ui, frame, stops, presents>>
      BY <1>1, ReportEffect
      DEF Inv, At, Goto, BecomeRunning, supVars, overlayVars, mainVars, threadVars, cleanupVars,
          monitorVars
    <2>2. start'[s] = "observe"
      BY <2>1
      DEF Inv, Types
    <2>3. ~Busy(Starter(s))
      BY <2>1
      DEF Inv, JobsAreOwned
    <2> QED
      BY <2>1, <2>2, <2>3, StartMoves
      DEF Onward, StartPlaces, InStartup, InStart, BeforeCapture, BeforeProcessor, BeforeEvents,
          AfterEvents, Stored
  <1>2. CASE At(s, "observe") /\ Goto(s, "run") /\ UNCHANGED supVars
    <2>1. /\ Theory!Inv' /\ Calm
          /\ start[s] = "observe" /\ start' = [start EXCEPT ![s] = "run"]
          /\ UNCHANGED <<env, slot, control, worker, job, capture, processor, events, cleanup,
                        stopResult, monitor, failureCleanup, budget, text, pass, output, shown,
                        ui, frame, stops, presents>>
      BY <1>2, StutterEffect
      DEF Inv, At, Goto, BecomeRunning, supVars, overlayVars, mainVars, threadVars, cleanupVars,
          monitorVars
    <2>2. start'[s] = "run"
      BY <2>1
      DEF Inv, Types
    <2>3. ~Busy(Starter(s))
      BY <2>1
      DEF Inv, JobsAreOwned
    <2> QED
      BY <2>1, <2>2, <2>3, StartMoves
      DEF Onward, StartPlaces, InStartup, InStart, BeforeCapture, BeforeProcessor, BeforeEvents,
          AfterEvents, Stored
  <1>3. CASE At(s, "observe") /\ Goto(s, "reveal") /\ UNCHANGED supVars
    <2>1. /\ Theory!Inv' /\ Calm
          /\ start[s] = "observe" /\ start' = [start EXCEPT ![s] = "reveal"]
          /\ UNCHANGED <<env, slot, control, worker, job, capture, processor, events, cleanup,
                        stopResult, monitor, failureCleanup, budget, text, pass, output, shown,
                        ui, frame, stops, presents>>
      BY <1>3, StutterEffect
      DEF Inv, At, Goto, BecomeRunning, supVars, overlayVars, mainVars, threadVars, cleanupVars,
          monitorVars
    <2>2. start'[s] = "reveal"
      BY <2>1
      DEF Inv, Types
    <2>3. ~Busy(Starter(s))
      BY <2>1
      DEF Inv, JobsAreOwned
    <2> QED
      BY <2>1, <2>2, <2>3, StartMoves
      DEF Onward, StartPlaces, InStartup, InStart, BeforeCapture, BeforeProcessor, BeforeEvents,
          AfterEvents, Stored
  <1>4. CASE At(s, "observe") /\ Goto(s, "done") /\ UNCHANGED supVars
    <2>1. /\ Theory!Inv' /\ Calm
          /\ start[s] = "observe" /\ start' = [start EXCEPT ![s] = "done"]
          /\ UNCHANGED <<env, slot, control, worker, job, capture, processor, events, cleanup,
                        stopResult, monitor, failureCleanup, budget, text, pass, output, shown,
                        ui, frame, stops, presents>>
      BY <1>4, StutterEffect
      DEF Inv, At, Goto, BecomeRunning, supVars, overlayVars, mainVars, threadVars, cleanupVars,
          monitorVars
    <2>2. start'[s] = "done"
      BY <2>1
      DEF Inv, Types
    <2>3. ~Busy(Starter(s))
      BY <2>1
      DEF Inv, JobsAreOwned
    <2> QED
      BY <2>1, <2>2, <2>3, StartMoves
      DEF Onward, StartPlaces, InStartup, InStart, BeforeCapture, BeforeProcessor, BeforeEvents,
          AfterEvents, Stored
  <1>5. CASE At(s, "run") /\ Sup!MarkRunning(s) /\ Goto(s, "reveal")
    <2>1. /\ Theory!Inv' /\ MayRun(s)
          /\ start[s] = "run" /\ start' = [start EXCEPT ![s] = "reveal"]
          /\ UNCHANGED <<env, slot, control, worker, job, capture, processor, events, cleanup,
                        stopResult, monitor, failureCleanup, budget, text, pass, output, shown,
                        ui, frame, stops, presents>>
      BY <1>5, RunningEffect
      DEF Inv, At, Goto, BecomeRunning, supVars, overlayVars, mainVars, threadVars, cleanupVars,
          monitorVars
    <2>2. start'[s] = "reveal"
      BY <2>1
      DEF Inv, Types
    <2>3. ~Busy(Starter(s))
      BY <2>1
      DEF Inv, JobsAreOwned
    <2> QED
      BY <2>1, <2>2, <2>3, StartMoves
      DEF Onward, StartPlaces, InStartup, InStart, BeforeCapture, BeforeProcessor, BeforeEvents,
          AfterEvents, Stored
  <1>6. CASE At(s, "run") /\ Goto(s, "done") /\ UNCHANGED supVars
    <2>1. /\ Theory!Inv' /\ Calm
          /\ start[s] = "run" /\ start' = [start EXCEPT ![s] = "done"]
          /\ UNCHANGED <<env, slot, control, worker, job, capture, processor, events, cleanup,
                        stopResult, monitor, failureCleanup, budget, text, pass, output, shown,
                        ui, frame, stops, presents>>
      BY <1>6, StutterEffect
      DEF Inv, At, Goto, BecomeRunning, supVars, overlayVars, mainVars, threadVars, cleanupVars,
          monitorVars
    <2>2. start'[s] = "done"
      BY <2>1
      DEF Inv, Types
    <2>3. ~Busy(Starter(s))
      BY <2>1
      DEF Inv, JobsAreOwned
    <2> QED
      BY <2>1, <2>2, <2>3, StartMoves
      DEF Onward, StartPlaces, InStartup, InStart, BeforeCapture, BeforeProcessor, BeforeEvents,
          AfterEvents, Stored
  <1> QED
    BY <1>1, <1>2, <1>3, <1>4, <1>5, <1>6 DEF BecomeRunning

LEMMA ResolveStep ==
  ASSUME Inv, NEW s \in Starts, Resolve(s)
  PROVE  Inv'
  <1>1. CASE At(s, "resolve") /\ s \in cancelled /\ GiveUp(s, "cancelled") /\ UNCHANGED supVars
    <2>1. /\ Theory!Inv' /\ Calm /\ UNCHANGED control
          /\ start' = [start EXCEPT ![s] = "cancelled"]
          /\ BeginJob(Starter(s), s, TRUE, "read")
          /\ UNCHANGED <<env, slot, worker, capture, processor, events, cleanup, stopResult,
                        monitor, failureCleanup, budget, text, pass, output, shown, ui, frame,
                        stops, presents>>
      BY <1>1, StutterEffect
      DEF Inv, At, Goto, GiveUp, Resolve, supVars, overlayVars, mainVars, threadVars, cleanupVars,
          monitorVars
    <2> QED
      BY <1>1, <2>1, GivesUp
      DEF InStart, At, Resolve
  <1>2. CASE /\ At(s, "resolve") /\ s \notin cancelled /\ Goto(s, "place") /\ UNCHANGED job
             /\ Try(IsActive(s) /\ IsLive, Sup!UpdateSource(s, "picked"))
    <2>1. /\ Theory!Inv' /\ Calm
          /\ start[s] = "resolve" /\ start' = [start EXCEPT ![s] = "place"]
          /\ UNCHANGED <<env, slot, control, worker, job, capture, processor, events, cleanup,
                        stopResult, monitor, failureCleanup, budget, text, pass, output, shown,
                        ui, frame, stops, presents>>
      BY <1>2, TryEffect
      DEF Inv, At, Goto, Resolve, supVars, overlayVars, mainVars, threadVars, cleanupVars,
          monitorVars
    <2>2. start'[s] = "place"
      BY <2>1
      DEF Inv, Types
    <2>3. ~Busy(Starter(s))
      BY <2>1
      DEF Inv, JobsAreOwned
    <2> QED
      BY <2>1, <2>2, <2>3, StartMoves
      DEF Onward, StartPlaces, InStartup, InStart, BeforeCapture, BeforeProcessor, BeforeEvents,
          AfterEvents, Stored
  <1> QED
    BY <1>1, <1>2 DEF Resolve

LEMMA ReportGivenUpStep ==
  ASSUME Inv, NEW s \in Starts, ReportGivenUp(s)
  PROVE  Inv'
  <1>1. CASE /\ At(s, "cancelled") /\ Done(Starter(s)) /\ Goto(s, "done")
             /\ Report(s, "startup", "Cancelled")
    <2>1. /\ Theory!Inv' /\ Reports(s, "startup", "Cancelled")
          /\ start[s] = "cancelled" /\ start' = [start EXCEPT ![s] = "done"]
          /\ UNCHANGED <<env, slot, control, worker, job, capture, processor, events, cleanup,
                        stopResult, monitor, failureCleanup, budget, text, pass, output, shown,
                        ui, frame, stops, presents>>
      BY <1>1, ReportEffect
      DEF Inv, At, Goto, ReportGivenUp, supVars, overlayVars, mainVars, threadVars, cleanupVars,
          monitorVars
    <2>2. start'[s] = "done"
      BY <2>1
      DEF Inv, Types
    <2>3. ~Busy(Starter(s))
      BY <1>1
      DEF Busy, Done, JobAt
    <2> QED
      BY <2>1, <2>2, <2>3, StartMoves
      DEF Onward, StartPlaces, InStartup, InStart, BeforeCapture, BeforeProcessor, BeforeEvents,
          AfterEvents, Stored
  <1>2. CASE /\ At(s, "failed") /\ Done(Starter(s)) /\ Goto(s, "done")
             /\ Report(s, "startup", "Failed")
    <2>1. /\ Theory!Inv' /\ Reports(s, "startup", "Failed")
          /\ start[s] = "failed" /\ start' = [start EXCEPT ![s] = "done"]
          /\ UNCHANGED <<env, slot, control, worker, job, capture, processor, events, cleanup,
                        stopResult, monitor, failureCleanup, budget, text, pass, output, shown,
                        ui, frame, stops, presents>>
      BY <1>2, ReportEffect
      DEF Inv, At, Goto, ReportGivenUp, supVars, overlayVars, mainVars, threadVars, cleanupVars,
          monitorVars
    <2>2. start'[s] = "done"
      BY <2>1
      DEF Inv, Types
    <2>3. ~Busy(Starter(s))
      BY <1>2
      DEF Busy, Done, JobAt
    <2> QED
      BY <2>1, <2>2, <2>3, StartMoves
      DEF Onward, StartPlaces, InStartup, InStart, BeforeCapture, BeforeProcessor, BeforeEvents,
          AfterEvents, Stored
  <1> QED
    BY <1>1, <1>2 DEF ReportGivenUp, At, Report

LEMMA RegisterStartupStep ==
  ASSUME Inv, NEW s \in Starts, RegisterStartup(s)
  PROVE  Inv'
  <1>1. CASE /\ At(s, "register") /\ Register(s, "startup", "Startup")
             /\ Goto(s, "preparing")
    <2>1. /\ Theory!Inv' /\ Registers(s, "startup")
          /\ start[s] = "register"
          /\ start' = [start EXCEPT ![s] = "preparing"]
          /\ UNCHANGED <<env, slot, control, job, capture, processor, events, cleanup, stopResult,
                        monitor, failureCleanup, budget, text, pass, output, shown, ui, frame,
                        stops, presents>>
      BY <1>1, RegisterEffect
      DEF Inv, At, Goto, RegisterStartup, Roles, supVars, overlayVars, mainVars, threadVars,
          cleanupVars, monitorVars
    <2>2. UNCHANGED <<env, slot, control, job, capture, processor, events, cleanup, stopResult,
                       monitor, failureCleanup, budget, text, pass, output, shown, ui, frame,
                       stops, presents>>
      BY <2>1
    <2>3. /\ Moved(start', start, s, "preparing")
          /\ start' \in [Starts -> StartPlaces]
          /\ start[s] = "register"
      BY <2>1
      DEF Inv, Types, StartPlaces, Moved
    <2>4. ~Busy(Starter(s))
      BY <2>3, <1>1
      DEF Inv, JobsAreOwned
    <2>5. /\ NumbersAreDistinct'
          /\ worker' \in [Starts -> [Roles -> 0..MaxWorker]]
          /\ worker'[s]["startup"] # NoWorker
          /\ \A t \in Starts, r \in Roles :
               ~(t = s /\ r = "startup") => worker'[t][r] = worker[t][r]
          /\ Holds(s, "startup")'
          /\ \A t \in Starts, r \in Roles : Holds(t, r) /\ ~(t = s /\ r = "startup") => Holds(t, r)'
      BY <2>1, ReportersRegistered
      DEF Roles
    <2>6. /\ UNCHANGED <<active, cleanupFinished, nextSession>>
          /\ cancelled \subseteq cancelled' /\ Advances
          /\ active = NoSession => UNCHANGED snapshot
          /\ NoneRuns
      BY <2>1
      DEF Registers, Advances, NoneRuns
    <2>7. \A t \in Starts : Tracked(t)' <=> Tracked(t)
      BY <2>5
      DEF Tracked, Roles
    <2>8. \A t \in Starts :
            /\ StartupIsAwaited(t) /\ active = t /\ t \notin cancelled'
            /\ t = s => start[s] \in {"cancelled", "failed"}
            => StartupIsAwaited(t)'
      BY <2>1, <2>3, AwaitedKept, AwaitedReported, AwaitedRegistered
      DEF Roles, Registers
    <2>9. Types'
      BY <2>2, <2>3, <2>5, TypesKept DEF Kept
    <2>10. RevisionsAreOld' /\ VisibleIsAlive'
      BY <2>2, <2>5, <2>6, <2>8, Undisturbed
    <2>11. UnstartedHasNothing' /\ JobsAreOwned' /\ StopMissesNoStore' /\
           ResourcesHaveOneHolder' /\ WhatRunsIsHeld' /\ CleanupIsAwaited' /\
           LiveIsGivenUp' /\ ClearsAreLater' /\ ClearedStaysClear' /\ ShowsAreAwaited'
      BY <2>2, <2>3, <2>4, <2>6, <2>7, <2>8, StartGoesOn
      DEF Moved, Onward, StartPlaces, InStart, BeforeCapture, Stored
    <2>12. ReportersAreHeld'
      BY <2>2, <2>3, <2>4, <2>5, <2>6, <2>7
      DEF Inv, ReportersAreHeld, InStartup, Tracked, Roles, ClearsUp, Busy, BeforeProcessor,
          BeforeCapture, BeforeEvents, AfterEvents, Moved
    <2> QED
      BY <2>1, <2>5, <2>9, <2>10, <2>11, <2>12
      DEF Inv
  <1>2. CASE At(s, "register") /\ Goto(s, "done") /\ UNCHANGED <<supVars, worker>>
    <2>1. /\ Theory!Inv' /\ Calm
          /\ start[s] = "register" /\ start' = [start EXCEPT ![s] = "done"]
          /\ UNCHANGED <<env, slot, control, worker, job, capture, processor, events, cleanup,
                        stopResult, monitor, failureCleanup, budget, text, pass, output, shown,
                        ui, frame, stops, presents>>
      BY <1>2, StutterEffect
      DEF Inv, At, Goto, RegisterStartup, supVars, overlayVars, mainVars, threadVars, cleanupVars,
          monitorVars
    <2>2. start'[s] = "done"
      BY <2>1
      DEF Inv, Types
    <2>3. ~Busy(Starter(s))
      BY <2>1
      DEF Inv, JobsAreOwned
    <2> QED
      BY <2>1, <2>2, <2>3, StartMoves
      DEF Onward, StartPlaces, InStartup, InStart, BeforeCapture, BeforeProcessor, BeforeEvents,
          AfterEvents, Stored
  <1> QED
    BY <1>1, <1>2 DEF RegisterStartup

LEMMA RegisterThreadsStep ==
  ASSUME Inv, NEW s \in Starts, RegisterThreads(s)
  PROVE  Inv'
  <1>1. CASE /\ At(s, "processor") /\ Register(s, "processor", "Session")
             /\ Goto(s, "spawnProcessor")
    <2>1. /\ Theory!Inv' /\ Registers(s, "processor")
          /\ start[s] = "processor"
          /\ start' = [start EXCEPT ![s] = "spawnProcessor"]
          /\ UNCHANGED <<env, slot, control, job, capture, processor, events, cleanup, stopResult,
                        monitor, failureCleanup, budget, text, pass, output, shown, ui, frame,
                        stops, presents>>
      BY <1>1, RegisterEffect
      DEF Inv, At, Goto, RegisterThreads, Roles, supVars, overlayVars, mainVars, threadVars,
          cleanupVars, monitorVars
    <2>2. UNCHANGED <<env, slot, control, job, capture, processor, events, cleanup, stopResult,
                       monitor, failureCleanup, budget, text, pass, output, shown, ui, frame,
                       stops, presents>>
      BY <2>1
    <2>3. /\ Moved(start', start, s, "spawnProcessor")
          /\ start' \in [Starts -> StartPlaces]
          /\ start[s] = "processor"
      BY <2>1
      DEF Inv, Types, StartPlaces, Moved
    <2>4. ~Busy(Starter(s))
      BY <2>3, <1>1
      DEF Inv, JobsAreOwned
    <2>5. /\ NumbersAreDistinct'
          /\ worker' \in [Starts -> [Roles -> 0..MaxWorker]]
          /\ worker'[s]["processor"] # NoWorker
          /\ \A t \in Starts, r \in Roles :
               ~(t = s /\ r = "processor") => worker'[t][r] = worker[t][r]
          /\ Holds(s, "processor")'
          /\ \A t \in Starts, r \in Roles : Holds(t, r) /\ ~(t = s /\ r = "processor") => Holds(t, r)'
      BY <2>1, ReportersRegistered
      DEF Roles
    <2>6. /\ UNCHANGED <<active, cleanupFinished, nextSession>>
          /\ cancelled \subseteq cancelled' /\ Advances
          /\ active = NoSession => UNCHANGED snapshot
          /\ NoneRuns
      BY <2>1
      DEF Registers, Advances, NoneRuns
    <2>7. \A t \in Starts : Tracked(t)' <=> Tracked(t)
      BY <2>5
      DEF Tracked, Roles
    <2>8. \A t \in Starts :
            /\ StartupIsAwaited(t) /\ active = t /\ t \notin cancelled'
            /\ t = s => start[s] \in {"cancelled", "failed"}
            => StartupIsAwaited(t)'
      BY <2>1, <2>3, AwaitedKept, AwaitedReported, AwaitedRegistered
      DEF Roles, Registers
    <2>9. Types'
      BY <2>2, <2>3, <2>5, TypesKept DEF Kept
    <2>10. RevisionsAreOld' /\ VisibleIsAlive'
      BY <2>2, <2>5, <2>6, <2>8, Undisturbed
    <2>11. UnstartedHasNothing' /\ JobsAreOwned' /\ StopMissesNoStore' /\
           ResourcesHaveOneHolder' /\ WhatRunsIsHeld' /\ CleanupIsAwaited' /\
           LiveIsGivenUp' /\ ClearsAreLater' /\ ClearedStaysClear' /\ ShowsAreAwaited'
      BY <2>2, <2>3, <2>4, <2>6, <2>7, <2>8, StartGoesOn
      DEF Moved, Onward, StartPlaces, InStart, BeforeCapture, Stored
    <2>12. ReportersAreHeld'
      BY <2>2, <2>3, <2>4, <2>5, <2>6, <2>7
      DEF Inv, ReportersAreHeld, InStartup, Tracked, Roles, ClearsUp, Busy, BeforeProcessor,
          BeforeCapture, BeforeEvents, AfterEvents, Moved
    <2> QED
      BY <2>1, <2>5, <2>9, <2>10, <2>11, <2>12
      DEF Inv
  <1>2. CASE /\ At(s, "events") /\ Register(s, "events", "Session")
             /\ Goto(s, "spawnEvents")
    <2>1. /\ Theory!Inv' /\ Registers(s, "events")
          /\ start[s] = "events"
          /\ start' = [start EXCEPT ![s] = "spawnEvents"]
          /\ UNCHANGED <<env, slot, control, job, capture, processor, events, cleanup, stopResult,
                        monitor, failureCleanup, budget, text, pass, output, shown, ui, frame,
                        stops, presents>>
      BY <1>2, RegisterEffect
      DEF Inv, At, Goto, RegisterThreads, Roles, supVars, overlayVars, mainVars, threadVars,
          cleanupVars, monitorVars
    <2>2. UNCHANGED <<env, slot, control, job, capture, processor, events, cleanup, stopResult,
                       monitor, failureCleanup, budget, text, pass, output, shown, ui, frame,
                       stops, presents>>
      BY <2>1
    <2>3. /\ Moved(start', start, s, "spawnEvents")
          /\ start' \in [Starts -> StartPlaces]
          /\ start[s] = "events"
      BY <2>1
      DEF Inv, Types, StartPlaces, Moved
    <2>4. ~Busy(Starter(s))
      BY <2>3, <1>2
      DEF Inv, JobsAreOwned
    <2>5. /\ NumbersAreDistinct'
          /\ worker' \in [Starts -> [Roles -> 0..MaxWorker]]
          /\ worker'[s]["events"] # NoWorker
          /\ \A t \in Starts, r \in Roles :
               ~(t = s /\ r = "events") => worker'[t][r] = worker[t][r]
          /\ Holds(s, "events")'
          /\ \A t \in Starts, r \in Roles : Holds(t, r) /\ ~(t = s /\ r = "events") => Holds(t, r)'
      BY <2>1, ReportersRegistered
      DEF Roles
    <2>6. /\ UNCHANGED <<active, cleanupFinished, nextSession>>
          /\ cancelled \subseteq cancelled' /\ Advances
          /\ active = NoSession => UNCHANGED snapshot
          /\ NoneRuns
      BY <2>1
      DEF Registers, Advances, NoneRuns
    <2>7. \A t \in Starts : Tracked(t)' <=> Tracked(t)
      BY <2>5
      DEF Tracked, Roles
    <2>8. \A t \in Starts :
            /\ StartupIsAwaited(t) /\ active = t /\ t \notin cancelled'
            /\ t = s => start[s] \in {"cancelled", "failed"}
            => StartupIsAwaited(t)'
      BY <2>1, <2>3, AwaitedKept, AwaitedReported, AwaitedRegistered
      DEF Roles, Registers
    <2>9. Types'
      BY <2>2, <2>3, <2>5, TypesKept DEF Kept
    <2>10. RevisionsAreOld' /\ VisibleIsAlive'
      BY <2>2, <2>5, <2>6, <2>8, Undisturbed
    <2>11. UnstartedHasNothing' /\ JobsAreOwned' /\ StopMissesNoStore' /\
           ResourcesHaveOneHolder' /\ WhatRunsIsHeld' /\ CleanupIsAwaited' /\
           LiveIsGivenUp' /\ ClearsAreLater' /\ ClearedStaysClear' /\ ShowsAreAwaited'
      BY <2>2, <2>3, <2>4, <2>6, <2>7, <2>8, StartGoesOn
      DEF Moved, Onward, StartPlaces, InStart, BeforeCapture, Stored
    <2>12. ReportersAreHeld'
      BY <2>2, <2>3, <2>4, <2>5, <2>6, <2>7
      DEF Inv, ReportersAreHeld, InStartup, Tracked, Roles, ClearsUp, Busy, BeforeProcessor,
          BeforeCapture, BeforeEvents, AfterEvents, Moved
    <2> QED
      BY <2>1, <2>5, <2>9, <2>10, <2>11, <2>12
      DEF Inv
  <1> QED
    BY <1>1, <1>2 DEF RegisterThreads, At

LEMMA ResetOutputStep ==
  ASSUME Inv, NEW s \in Starts, ResetOutput(s)
  PROVE  Inv'
  <1>1. /\ Theory!Inv' /\ Calm
        /\ start[s] = "reset"
        /\ start' = [start EXCEPT ![s] = "monitor"]
        /\ output' = Output(s, 1, FALSE)
        /\ UNCHANGED <<env, slot, control, worker, job, capture, processor, events, cleanup,
                      stopResult, monitor, failureCleanup, budget, text, pass, shown, ui, frame,
                      stops, presents>>
    BY StutterEffect
    DEF Inv, At, Goto, ResetOutput, supVars, overlayVars, mainVars, threadVars, cleanupVars,
        monitorVars
  <1>2. UNCHANGED <<env, slot, control, worker, job, capture, processor, events, cleanup,
                     stopResult, monitor, failureCleanup, budget, text, pass, shown, ui, frame,
                     stops, presents>>
    BY <1>1
  <1>3. /\ Moved(start', start, s, "monitor")
        /\ start' \in [Starts -> StartPlaces]
        /\ start[s] = "reset"
    BY <1>1
    DEF Inv, Types, StartPlaces, Moved
  <1>4. ~Busy(Starter(s))
    BY <1>3
    DEF Inv, JobsAreOwned
  <1>5. /\ output'.session = s /\ output'.revision = 1 /\ output'.regions = FALSE
        /\ output' \in Outputs
    <2>1. 1 \in Nat /\ FALSE \in BOOLEAN /\ s \in Starts \cup {NoSession}
      OBVIOUS
    <2> QED
      BY <1>1, <2>1, OutputIs
  <1>6. /\ NumbersAreDistinct'
        /\ \A t \in Starts, r \in Roles : Holds(t, r) => Holds(t, r)'
    BY <1>1, ReportersKept
    DEF Calm, Steady
  <1>7. /\ UNCHANGED <<active, cleanupFinished, nextSession>>
        /\ cancelled \subseteq cancelled' /\ Advances
        /\ active = NoSession => UNCHANGED snapshot
        /\ NoneRuns
    BY <1>1
    DEF Calm, Steady, Advances, NoneRuns
  <1>8. \A t \in Starts : Tracked(t)' <=> Tracked(t)
    BY <1>2
    DEF Tracked, Roles
  <1>9. \A t \in Starts :
          /\ StartupIsAwaited(t) /\ active = t /\ t \notin cancelled'
          /\ t = s => start[s] \in {"cancelled", "failed"}
          => StartupIsAwaited(t)'
    BY <1>1, <1>3, AwaitedKept, AwaitedReported, AwaitedRegistered
    DEF Roles, Calm, Steady
  <1>10. Types'
    BY <1>2, <1>3, <1>5, TypesKept DEF Kept
  <1>11. RevisionsAreOld' /\ VisibleIsAlive'
    BY <1>2, <1>6, <1>7, <1>9, Undisturbed
  <1>12. JobsAreOwned' /\ StopMissesNoStore' /\ ResourcesHaveOneHolder' /\ WhatRunsIsHeld' /\
         CleanupIsAwaited' /\ LiveIsGivenUp' /\ ClearsAreLater' /\ ShowsAreAwaited'
    BY <1>2, <1>3, <1>4, <1>7, <1>8, <1>9, StartGoesOn
    DEF Moved, Onward, StartPlaces, InStart, BeforeCapture, Stored
  <1>13. UnstartedHasNothing'
    <2>1. s < nextSession
      BY <1>3, Numbers DEF Inv, UnstartedHasNothing, Guarantees
    <2> QED
      BY <2>1, <1>2, <1>3, <1>4, <1>5, <1>6, <1>7, <1>8, Numbers DEF Inv, UnstartedHasNothing, Guarantees, Advances, Moved
  <1>14. ReportersAreHeld'
    BY <1>2, <1>3, <1>4, <1>5, <1>6, <1>7, <1>8
    DEF Inv, ReportersAreHeld, InStartup, Tracked, Roles, ClearsUp, Busy, BeforeProcessor,
        BeforeCapture, BeforeEvents, AfterEvents, Moved
  <1>15. ClearedStaysClear'
    <2>1. processor[s] = "none"
      BY <1>3 DEF Inv, ReportersAreHeld, BeforeProcessor, BeforeCapture
    <2>2. text[s] = 0 /\ pass[s] = 0 /\ frame.session # s
      BY <2>1 DEF Inv, RevisionsAreOld
    <2>3. Below(s, 1)'
      BY <2>2, <1>2 DEF Below
    <2>4. s # NoSession
      BY DEF Starts, NoSession
    <2> QED
      BY <1>5, <2>3, <2>4 DEF ClearedStaysClear, PutBack
  <1> QED
    BY <1>1, <1>6, <1>10, <1>11, <1>12, <1>13, <1>14, <1>15
    DEF Inv

LEMMA SpawnMonitorStep ==
  ASSUME Inv, NEW s \in Starts, SpawnMonitor(s)
  PROVE  Inv'
  <1>1. CASE /\ At(s, "monitor") /\ Goto(s, "register") /\ UNCHANGED supVars
             /\ monitor' = [monitor EXCEPT ![s] = "poll"]
    <2>1. /\ Theory!Inv' /\ Calm
          /\ start[s] = "monitor"
          /\ start' = [start EXCEPT ![s] = "register"]
          /\ monitor' = [monitor EXCEPT ![s] = "poll"]
          /\ UNCHANGED <<env, slot, control, worker, job, capture, processor, events, cleanup,
                        stopResult, failureCleanup, budget, text, pass, output, shown, ui, frame,
                        stops, presents>>
      BY <1>1, StutterEffect
      DEF Inv, At, Goto, SpawnMonitor, supVars, overlayVars, mainVars, threadVars, cleanupVars,
          monitorVars
    <2>2. UNCHANGED <<env, slot, control, worker, job, capture, processor, events, cleanup,
                       stopResult, failureCleanup, budget, text, pass, output, shown, ui, frame,
                       stops, presents>>
      BY <2>1
    <2>3. /\ Moved(start', start, s, "register")
          /\ start' \in [Starts -> StartPlaces]
          /\ start[s] = "monitor"
      BY <2>1
      DEF Inv, Types, StartPlaces, Moved
    <2>4. ~Busy(Starter(s))
      BY <2>3, <1>1
      DEF Inv, JobsAreOwned
    <2>5. /\ Moved(monitor', monitor, s, "poll")
          /\ monitor' \in [Starts -> {"none", "poll", "drain", "look", "cleaning", "timeout", "ended"}]
      BY <2>1
      DEF Inv, Types, Moved
    <2>6. /\ NumbersAreDistinct'
          /\ \A t \in Starts, r \in Roles : Holds(t, r) => Holds(t, r)'
      BY <2>1, ReportersKept
      DEF Calm, Steady
    <2>7. /\ UNCHANGED <<active, cleanupFinished, nextSession>>
          /\ cancelled \subseteq cancelled' /\ Advances
          /\ active = NoSession => UNCHANGED snapshot
          /\ NoneRuns
      BY <2>1
      DEF Calm, Steady, Advances, NoneRuns
    <2>8. \A t \in Starts : Tracked(t)' <=> Tracked(t)
      BY <2>2
      DEF Tracked, Roles
    <2>9. \A t \in Starts :
            /\ StartupIsAwaited(t) /\ active = t /\ t \notin cancelled'
            /\ t = s => start[s] \in {"cancelled", "failed"}
            => StartupIsAwaited(t)'
      BY <2>1, <2>3, AwaitedKept, AwaitedReported, AwaitedRegistered
      DEF Roles, Calm, Steady
    <2>10. Types'
      BY <2>2, <2>3, <2>5, TypesKept DEF Kept
    <2>11. RevisionsAreOld' /\ VisibleIsAlive'
      BY <2>2, <2>6, <2>7, <2>9, Undisturbed
    <2>12. StopMissesNoStore' /\ ResourcesHaveOneHolder' /\ WhatRunsIsHeld' /\
           CleanupIsAwaited' /\ LiveIsGivenUp' /\ ClearsAreLater' /\ ClearedStaysClear' /\
           ShowsAreAwaited'
      BY <2>2, <2>3, <2>4, <2>7, <2>8, <2>9, StartGoesOn
      DEF Moved, Onward, StartPlaces, InStart, BeforeCapture, Stored
    <2>13. UnstartedHasNothing'
      <3>1. s < nextSession
        BY <2>3, Numbers DEF Inv, UnstartedHasNothing, Guarantees
      <3>2. \A t \in Starts : t >= nextSession => start'[t] = "none" /\ monitor'[t] = "none"
        BY <3>1, <2>2, <2>3, <2>4, <2>5, <2>6, <2>7, <2>8, Numbers DEF Inv, UnstartedHasNothing, Moved
      <3>3. nextSession > 1 => snapshot'.revision > 0
        BY <2>7, Numbers DEF Inv, UnstartedHasNothing, Guarantees, Advances
      <3> QED
        BY <2>2, <2>7, <3>2, <3>3 DEF Inv, UnstartedHasNothing
    <2>14. JobsAreOwned'
      BY <2>2, <2>3, <2>4, <2>5, <2>6, <2>7, <2>8
      DEF Inv, JobsAreOwned, Busy, Moved
    <2>15. ReportersAreHeld'
      BY <2>2, <2>3, <2>4, <2>5, <2>6, <2>7, <2>8
      DEF Inv, ReportersAreHeld, InStartup, Tracked, Roles, ClearsUp, Busy, BeforeProcessor,
          BeforeCapture, BeforeEvents, AfterEvents, Moved
    <2> QED
      BY <2>1, <2>6, <2>10, <2>11, <2>12, <2>13, <2>14, <2>15
      DEF Inv
  <1>2. CASE /\ At(s, "monitor") /\ Fault("spawn") /\ Goto(s, "abandon")
             /\ Try(IsActive(s), Sup!Fail(s)) /\ UNCHANGED monitor
    <2>1. /\ Theory!Inv' /\ Calm
          /\ start[s] = "monitor"
          /\ start' = [start EXCEPT ![s] = "abandon"]
          /\ Fault("spawn") /\ (active = s => s \in cancelled')
          /\ UNCHANGED <<env, slot, control, worker, job, capture, processor, events, cleanup,
                        stopResult, monitor, failureCleanup, budget, text, pass, output, shown,
                        ui, frame, stops, presents>>
      BY <1>2, FailEffect
      DEF Inv, At, Goto, SpawnMonitor, Starts, NoSession, supVars, overlayVars, mainVars,
          threadVars, cleanupVars, monitorVars
    <2>2. UNCHANGED <<env, slot, control, worker, job, capture, processor, events, cleanup,
                       stopResult, monitor, failureCleanup, budget, text, pass, output, shown, ui,
                       frame, stops, presents>>
      BY <2>1
    <2>3. /\ Moved(start', start, s, "abandon")
          /\ start' \in [Starts -> StartPlaces]
          /\ start[s] = "monitor"
      BY <2>1
      DEF Inv, Types, StartPlaces, Moved
    <2>4. ~Busy(Starter(s))
      BY <2>3, <1>2
      DEF Inv, JobsAreOwned
    <2>5. Fault("spawn") /\ (active = s => s \in cancelled')
      BY <2>1
    <2>6. /\ NumbersAreDistinct'
          /\ \A t \in Starts, r \in Roles : Holds(t, r) => Holds(t, r)'
      BY <2>1, ReportersKept
      DEF Calm, Steady
    <2>7. /\ UNCHANGED <<active, cleanupFinished, nextSession>>
          /\ cancelled \subseteq cancelled' /\ Advances
          /\ active = NoSession => UNCHANGED snapshot
          /\ NoneRuns
      BY <2>1
      DEF Calm, Steady, Advances, NoneRuns
    <2>8. \A t \in Starts : Tracked(t)' <=> Tracked(t)
      BY <2>2
      DEF Tracked, Roles
    <2>9. \A t \in Starts :
            /\ StartupIsAwaited(t) /\ active = t /\ t \notin cancelled'
            /\ t = s => start[s] \in {"cancelled", "failed"}
            => StartupIsAwaited(t)'
      BY <2>1, <2>3, AwaitedKept, AwaitedReported, AwaitedRegistered
      DEF Roles, Calm, Steady
    <2>10. Types'
      BY <2>2, <2>3, TypesKept DEF Kept
    <2>11. RevisionsAreOld' /\ VisibleIsAlive'
      BY <2>2, <2>6, <2>7, <2>9, Undisturbed
    <2>12. UnstartedHasNothing' /\ JobsAreOwned' /\ StopMissesNoStore' /\
           ResourcesHaveOneHolder' /\ WhatRunsIsHeld' /\ LiveIsGivenUp' /\ ClearsAreLater' /\
           ClearedStaysClear' /\ ShowsAreAwaited'
      BY <2>2, <2>3, <2>4, <2>7, <2>8, <2>9, StartGoesOn
      DEF Moved, Onward, StartPlaces, InStart, BeforeCapture, Stored
    <2>13. ReportersAreHeld'
      BY <2>2, <2>3, <2>4, <2>5, <2>6, <2>7, <2>8
      DEF Inv, ReportersAreHeld, InStartup, Tracked, Roles, ClearsUp, Busy, BeforeProcessor,
          BeforeCapture, BeforeEvents, AfterEvents, Moved
    <2>14. CleanupIsAwaited'
      <3>1. \A t \in Starts :
              /\ (InSlot(t)' <=> InSlot(t)) /\ (InJob(Main, t)' <=> InJob(Main, t))
              /\ InCleanup(t)' <=> InCleanup(t)
              /\ \A d \in Callers : ClearsUp(d, t)' <=> ClearsUp(d, t)
        BY <2>2 DEF InSlot, InJob, InCleanup, ClearsUp, Busy
      <3> QED
        BY <2>2, <2>3, <2>4, <2>5, <2>6, <2>7, <2>8, <2>8, <3>1 DEF Inv, CleanupIsAwaited, Moved, Fault
    <2> QED
      BY <2>1, <2>6, <2>10, <2>11, <2>12, <2>13, <2>14
      DEF Inv
  <1>3. CASE /\ At(s, "abandon") /\ Goto(s, "done") /\ UNCHANGED monitor /\ Calm /\ Theory!Inv'
    <2>1. /\ Theory!Inv' /\ Calm
          /\ start[s] = "abandon"
          /\ start' = [start EXCEPT ![s] = "done"]
          /\ UNCHANGED <<env, slot, control, worker, job, capture, processor, events, cleanup,
                        stopResult, monitor, failureCleanup, budget, text, pass, output, shown,
                        ui, frame, stops, presents>>
      BY <1>3
      DEF Inv, At, Goto, SpawnMonitor, supVars, overlayVars, mainVars, threadVars, cleanupVars,
          monitorVars
    <2>2. UNCHANGED <<env, slot, control, worker, job, capture, processor, events, cleanup,
                       stopResult, monitor, failureCleanup, budget, text, pass, output, shown, ui,
                       frame, stops, presents>>
      BY <2>1
    <2>3. /\ Moved(start', start, s, "done")
          /\ start' \in [Starts -> StartPlaces]
          /\ start[s] = "abandon"
      BY <2>1
      DEF Inv, Types, StartPlaces, Moved
    <2>4. ~Busy(Starter(s))
      BY <2>3, <1>3
      DEF Inv, JobsAreOwned
    <2>5. /\ NumbersAreDistinct'
          /\ \A t \in Starts, r \in Roles : Holds(t, r) => Holds(t, r)'
      BY <2>1, ReportersKept
      DEF Calm, Steady
    <2>6. /\ UNCHANGED <<active, cleanupFinished, nextSession>>
          /\ cancelled \subseteq cancelled' /\ Advances
          /\ active = NoSession => UNCHANGED snapshot
          /\ NoneRuns
      BY <2>1
      DEF Calm, Steady, Advances, NoneRuns
    <2>7. \A t \in Starts : Tracked(t)' <=> Tracked(t)
      BY <2>2
      DEF Tracked, Roles
    <2>8. \A t \in Starts :
            /\ StartupIsAwaited(t) /\ active = t /\ t \notin cancelled'
            /\ t = s => start[s] \in {"cancelled", "failed"}
            => StartupIsAwaited(t)'
      BY <2>1, <2>3, AwaitedKept, AwaitedReported, AwaitedRegistered
      DEF Roles, Calm, Steady
    <2>9. Types'
      BY <2>2, <2>3, TypesKept DEF Kept
    <2>10. RevisionsAreOld' /\ VisibleIsAlive'
      BY <2>2, <2>5, <2>6, <2>8, Undisturbed
    <2>11. UnstartedHasNothing' /\ JobsAreOwned' /\ StopMissesNoStore' /\
           ResourcesHaveOneHolder' /\ WhatRunsIsHeld' /\ CleanupIsAwaited' /\
           LiveIsGivenUp' /\ ClearsAreLater' /\ ClearedStaysClear' /\ ShowsAreAwaited'
      BY <2>2, <2>3, <2>4, <2>6, <2>7, <2>8, StartGoesOn
      DEF Moved, Onward, StartPlaces, InStart, BeforeCapture, Stored
    <2>12. ReportersAreHeld'
      BY <2>2, <2>3, <2>4, <2>5, <2>6, <2>7
      DEF Inv, ReportersAreHeld, InStartup, Tracked, Roles, ClearsUp, Busy, BeforeProcessor,
          BeforeCapture, BeforeEvents, AfterEvents, Moved
    <2> QED
      BY <2>1, <2>5, <2>9, <2>10, <2>11, <2>12
      DEF Inv
  <1>4. CASE /\ At(s, "abandon") /\ Goto(s, "done") /\ UNCHANGED monitor
             /\ Finishes(s) /\ Theory!Inv'
    <2>1. /\ Theory!Inv' /\ Finishes(s)
          /\ start[s] = "abandon"
          /\ start' = [start EXCEPT ![s] = "done"]
          /\ UNCHANGED <<env, slot, control, worker, job, capture, processor, events, cleanup,
                        stopResult, monitor, failureCleanup, budget, text, pass, output, shown,
                        ui, frame, stops, presents>>
      BY <1>4
      DEF Inv, At, Goto, SpawnMonitor, supVars, overlayVars, mainVars, threadVars, cleanupVars,
          monitorVars
    <2>2. UNCHANGED <<env, slot, control, worker, job, capture, processor, events, cleanup,
                       stopResult, monitor, failureCleanup, budget, text, pass, output, shown, ui,
                       frame, stops, presents>>
      BY <2>1
    <2>3. /\ Moved(start', start, s, "done")
          /\ start' \in [Starts -> StartPlaces]
          /\ start[s] = "abandon"
      BY <2>1
      DEF Inv, Types, StartPlaces, Moved
    <2>4. ~Busy(Starter(s))
      BY <2>3, <1>4
      DEF Inv, JobsAreOwned
    <2>5. /\ active = s /\ active # NoSession /\ UNCHANGED <<reporters, channel, nextWorker>>
          /\ \/ active' = active /\ cleanupFinished' /\ UNCHANGED workers
             \/ /\ active' = NoSession /\ ~cleanupFinished'
                /\ snapshot'.lifecycle \in {"Starting", "Running", "Waiting"} =>
                     DOMAIN workers = {} /\ s \notin cancelled
      BY <2>1 DEF Finishes
    <2>6. /\ events[s] = "none" /\ Fault("spawn") /\ s \in cancelled /\ ~InSlot(s) /\ ~InJob(Main, s)
      BY <2>1, CallersDiffer
      DEF Inv, ReportersAreHeld, BeforeEvents, BeforeProcessor, BeforeCapture, CleanupIsAwaited,
          ResourcesHaveOneHolder, OneHolder, Stored, Finishes
    <2>7. /\ NumbersAreDistinct'
          /\ \A t \in Starts, r \in Roles : Holds(t, r) => Holds(t, r)'
      BY <2>1, ReportersKept
      DEF Finishes, Calm, Steady
    <2>8. /\ UNCHANGED nextSession
          /\ cancelled \subseteq cancelled' /\ Advances
          /\ active' \in {active, NoSession}
          /\ NoneRuns
      BY <2>1
      DEF Finishes, Calm, Steady, Advances, NoneRuns
    <2>9. \A t \in Starts : Tracked(t)' <=> Tracked(t)
      BY <2>2
      DEF Tracked, Roles
    <2>10. Types'
      BY <2>2, <2>3, <2>5, TypesKept DEF Kept
    <2>11. RevisionsAreOld'
      BY <2>2, <2>7, <2>8, Undisturbed
    <2>12. UnstartedHasNothing' /\ JobsAreOwned' /\ StopMissesNoStore' /\
           ResourcesHaveOneHolder' /\ WhatRunsIsHeld' /\ ClearsAreLater' /\ ShowsAreAwaited'
      BY <2>2, <2>3, <2>4, <2>8, <2>9, StartGoesOn
      DEF Moved, Onward, StartPlaces, InStart, BeforeCapture, Stored
    <2>13. ReportersAreHeld'
      BY <2>2, <2>3, <2>4, <2>5, <2>6, <2>7, <2>8, <2>9
      DEF Inv, ReportersAreHeld, InStartup, Tracked, Roles, ClearsUp, Busy, BeforeProcessor,
          BeforeCapture, BeforeEvents, AfterEvents, Moved
    <2>14. CleanupIsAwaited'
      <3>1. \A t \in Starts :
              /\ (InSlot(t)' <=> InSlot(t)) /\ (InJob(Main, t)' <=> InJob(Main, t))
              /\ InCleanup(t)' <=> InCleanup(t)
              /\ \A d \in Callers : ClearsUp(d, t)' <=> ClearsUp(d, t)
        BY <2>2 DEF InSlot, InJob, InCleanup, ClearsUp, Busy
      <3>2. \A t \in Starts :
              ~failureCleanup[t] /\ (InSlot(t) \/ InJob(Main, t) \/ start'[t] = "put") => FALSE
        BY <2>3, <2>5, <2>6 DEF Inv, CleanupIsAwaited, Moved
      <3>3. \A t \in Starts : start'[t] = "abandon" => start[t] = "abandon" /\ t # s
        BY <2>3 DEF Moved
      <3>4. \A t \in Starts : start'[t] = "abandon" => active' # t /\ Fault("spawn")'
        BY <2>2, <2>5, <2>8, <3>3 DEF Inv, CleanupIsAwaited, Fault, Starts, NoSession
      <3>5. UNCHANGED <<failureCleanup, job>>
        BY <2>2
      <3> QED
        BY <2>9, <3>1, <3>2, <3>4, <3>5 DEF Inv, CleanupIsAwaited
    <2>15. LiveIsGivenUp'
      <3>1. (active = NoSession => ~IsLive)'
        BY <2>5, <2>6 DEF IsLive, Sup!LiveLifecycles
      <3>2. \A t \in Starts :
              /\ start'[t] = "cancelled" => t \in cancelled' \/ FindsOthersStored(t)'
              /\ start'[t] = "failed" => events'[t] = "none" /\ (Fault("spawn")' \/ processor'[t] = "none")
        BY <2>2, <2>3, <2>4, <2>5, <2>6, <2>7, <2>8, <2>9 DEF Inv, LiveIsGivenUp, Moved, Fault, FindsOthersStored
      <3>3. \A t \in Starts : ~(active' = t /\ t \notin cancelled')
        BY <2>2, <2>3, <2>4, <2>5, <2>6, <2>7, <2>8, <2>9 DEF Starts, NoSession
      <3> QED
        BY <3>1, <3>2, <3>3 DEF LiveIsGivenUp
    <2>16. ClearedStaysClear'
      <3>1. \A t \in Starts : t # s => (Cleared(t)' => active # t)
        BY <2>5
      <3>2. \A t \in Starts : FindsOthersStored(t)' <=> FindsOthersStored(t)
        BY <2>2 DEF FindsOthersStored
      <3>3. \A t \in Starts : GaveUp(t) \/ t = s => GaveUp(t)'
        BY <2>2, <2>3, <2>4, <2>5, <2>6, <2>7, <2>8, <2>9 DEF GaveUp, Moved
      <3> QED
        BY <2>2, <2>3, <2>4, <2>5, <2>6, <2>7, <2>8, <2>9, <3>1, <3>2, <3>3 DEF Inv, ClearedStaysClear, PutBack, Below, Fault
    <2>17. VisibleIsAlive'
      BY <2>2, <2>3, <2>4, <2>5, <2>6, <2>7, <2>8, <2>9 DEF Inv, VisibleIsAlive, HideIsPosted, FindsOthersStored
    <2> QED
      BY <2>1, <2>7, <2>10, <2>11, <2>12, <2>13, <2>14, <2>15, <2>16, <2>17
      DEF Inv
  <1> QED
    BY <1>1, <1>2, <1>3, <1>4, FinishEffect DEF SpawnMonitor, Inv

LEMMA StartCaptureStep ==
  ASSUME Inv, NEW s \in Starts, StartCapture(s)
  PROVE  Inv'
  <1>1. CASE /\ At(s, "capture") /\ Goto(s, "resolve") /\ UNCHANGED supVars
             /\ capture' = [capture EXCEPT ![s] = "live"]
    <2>1. /\ Theory!Inv' /\ Calm
          /\ start[s] = "capture"
          /\ start' = [start EXCEPT ![s] = "resolve"]
          /\ capture' = [capture EXCEPT ![s] = "live"]
          /\ UNCHANGED <<env, slot, control, worker, job, processor, events, cleanup, stopResult,
                        monitor, failureCleanup, budget, text, pass, output, shown, ui, frame,
                        stops, presents>>
      BY <1>1, StutterEffect
      DEF Inv, At, Goto, StartCapture, supVars, overlayVars, mainVars, threadVars, cleanupVars,
          monitorVars
    <2>2. UNCHANGED <<env, slot, control, worker, job, processor, events, cleanup, stopResult,
                       monitor, failureCleanup, budget, text, pass, output, shown, ui, frame,
                       stops, presents>>
      BY <2>1
    <2>3. /\ Moved(start', start, s, "resolve")
          /\ start' \in [Starts -> StartPlaces]
          /\ start[s] = "capture"
      BY <2>1
      DEF Inv, Types, StartPlaces, Moved
    <2>4. ~Busy(Starter(s))
      BY <2>3, <1>1
      DEF Inv, JobsAreOwned
    <2>5. /\ Moved(capture', capture, s, "live")
          /\ capture' \in [Starts -> {"none", "live", "closed", "stopped"}]
      BY <2>1
      DEF Inv, Types, Moved
    <2>6. /\ capture[s] = "none" /\ ~InSlot(s) /\ ~InCleanup(s) /\ ~Tracked(s)
          /\ processor[s] = "none" /\ events[s] = "none"
          /\ \A d \in Callers : ~InJob(d, s)
      BY <2>3 DEF Inv, ResourcesHaveOneHolder, OneHolder, BeforeCapture, Open
    <2>7. /\ NumbersAreDistinct'
          /\ \A t \in Starts, r \in Roles : Holds(t, r) => Holds(t, r)'
      BY <2>1, ReportersKept
      DEF Calm, Steady
    <2>8. /\ UNCHANGED <<active, cleanupFinished, nextSession>>
          /\ cancelled \subseteq cancelled' /\ Advances
          /\ active = NoSession => UNCHANGED snapshot
          /\ NoneRuns
      BY <2>1
      DEF Calm, Steady, Advances, NoneRuns
    <2>9. \A t \in Starts : Tracked(t)' <=> Tracked(t)
      BY <2>2
      DEF Tracked, Roles
    <2>10. \A t \in Starts :
             /\ StartupIsAwaited(t) /\ active = t /\ t \notin cancelled'
             /\ t = s => start[s] \in {"cancelled", "failed"}
             => StartupIsAwaited(t)'
      BY <2>1, <2>3, AwaitedKept, AwaitedReported, AwaitedRegistered
      DEF Roles, Calm, Steady
    <2>11. Types'
      BY <2>2, <2>3, <2>5, TypesKept DEF Kept
    <2>12. RevisionsAreOld' /\ VisibleIsAlive'
      BY <2>2, <2>7, <2>8, <2>10, Undisturbed
    <2>13. JobsAreOwned' /\ StopMissesNoStore' /\ CleanupIsAwaited' /\ LiveIsGivenUp' /\
           ClearsAreLater' /\ ClearedStaysClear' /\ ShowsAreAwaited'
      BY <2>2, <2>3, <2>4, <2>8, <2>9, <2>10, StartGoesOn
      DEF Moved, Onward, StartPlaces, InStart, BeforeCapture, Stored
    <2>14. UnstartedHasNothing'
      <3>1. s < nextSession
        BY <2>3, Numbers DEF Inv, UnstartedHasNothing, Guarantees
      <3>2. \A t \in Starts : t >= nextSession => start'[t] = "none" /\ capture'[t] = "none"
        BY <3>1, <2>2, <2>3, <2>4, <2>5, <2>6, <2>7, <2>8, <2>9, Numbers DEF Inv, UnstartedHasNothing, Moved
      <3>3. nextSession > 1 => snapshot'.revision > 0
        BY <2>8, Numbers DEF Inv, UnstartedHasNothing, Guarantees, Advances
      <3> QED
        BY <2>2, <2>8, <3>2, <3>3 DEF Inv, UnstartedHasNothing
    <2>15. ReportersAreHeld'
      BY <2>2, <2>3, <2>4, <2>5, <2>6, <2>7, <2>8, <2>9
      DEF Inv, ReportersAreHeld, InStartup, Tracked, Roles, ClearsUp, Busy, BeforeProcessor,
          BeforeCapture, BeforeEvents, AfterEvents, Moved
    <2>16. ResourcesHaveOneHolder'
      <3>1. \A t \in Starts :
              /\ (InSlot(t)' <=> InSlot(t)) /\ (InCleanup(t)' <=> InCleanup(t))
              /\ \A d \in Callers : InJob(d, t)' <=> InJob(d, t)
              /\ \A d \in Callers : ClearsUp(d, t)' <=> ClearsUp(d, t)
        BY <2>2 DEF InSlot, InJob, InCleanup, ClearsUp, Busy
      <3>2. \A t \in Starts : /\ t # s => (InStart(t)' <=> InStart(t)) /\ (Open(t)' <=> Open(t))
                              /\ t = s => Open(t)'
        BY <2>3, <2>5 DEF InStart, Open, Moved
      <3>3. \A t \in Starts : t # s => start'[t] = start[t] /\ capture'[t] = capture[t]
        BY <2>3, <2>5 DEF Moved
      <3>4. start'[s] \notin BeforeCapture /\ capture'[s] = "live"
        BY <2>3, <2>5 DEF Moved, BeforeCapture
      <3>5. UNCHANGED <<job, processor, events>>
        BY <2>2
      <3>6. \A d \in Callers : ~(ClearsUp(d, s) /\ job[d].pc \in {"fail", "finishFailed"})
        BY <2>6 DEF Inv, ResourcesHaveOneHolder, OneHolder
      <3>7. \A t \in Starts : t # s => OneHolder(t)'
        BY <2>2, <2>9, <3>1, <3>2, <3>3, <3>5, HolderKept DEF InSlot, InCleanup
      <3> QED
        BY <2>2, <2>6, <2>9, <3>1, <3>2, <3>4, <3>5, <3>6, <3>7 DEF ResourcesHaveOneHolder, OneHolder
    <2>17. WhatRunsIsHeld'
      <3>1. \A t \in Starts :
              /\ (InSlot(t)' <=> InSlot(t)) /\ (InCleanup(t)' <=> InCleanup(t))
              /\ \A d \in Callers : InJob(d, t)' <=> InJob(d, t)
              /\ \A d \in Callers : ClearsUp(d, t)' <=> ClearsUp(d, t)
        BY <2>2 DEF InSlot, InJob, InCleanup, ClearsUp, Busy
      <3>2. \A t \in Starts : /\ t # s => (InStart(t)' <=> InStart(t)) /\ (Open(t)' <=> Open(t))
                              /\ t = s => InStart(t)'
        BY <2>3, <2>5 DEF InStart, Open, Moved
      <3> QED
        BY <2>2, <3>1, <3>2 DEF Inv, WhatRunsIsHeld
    <2> QED
      BY <2>1, <2>7, <2>11, <2>12, <2>13, <2>14, <2>15, <2>16, <2>17
      DEF Inv
  <1>2. CASE At(s, "capture") /\ Goto(s, "dismissed") /\ UNCHANGED <<supVars, capture>>
    <2>1. /\ Theory!Inv' /\ Calm
          /\ start[s] = "capture" /\ start' = [start EXCEPT ![s] = "dismissed"]
          /\ UNCHANGED <<env, slot, control, worker, job, capture, processor, events, cleanup,
                        stopResult, monitor, failureCleanup, budget, text, pass, output, shown,
                        ui, frame, stops, presents>>
      BY <1>2, StutterEffect
      DEF Inv, At, Goto, StartCapture, supVars, overlayVars, mainVars, threadVars, cleanupVars,
          monitorVars
    <2>2. start'[s] = "dismissed"
      BY <2>1
      DEF Inv, Types
    <2>3. ~Busy(Starter(s))
      BY <2>1
      DEF Inv, JobsAreOwned
    <2> QED
      BY <2>1, <2>2, <2>3, StartMoves
      DEF Onward, StartPlaces, InStartup, InStart, BeforeCapture, BeforeProcessor, BeforeEvents,
          AfterEvents, Stored
  <1>3. CASE /\ At(s, "capture") /\ Goto(s, "done") /\ UNCHANGED capture
             /\ Report(s, "startup", "Failed")
    <2>1. /\ Theory!Inv' /\ Reports(s, "startup", "Failed")
          /\ start[s] = "capture" /\ start' = [start EXCEPT ![s] = "done"]
          /\ UNCHANGED <<env, slot, control, worker, job, capture, processor, events, cleanup,
                        stopResult, monitor, failureCleanup, budget, text, pass, output, shown,
                        ui, frame, stops, presents>>
      BY <1>3, ReportEffect
      DEF Inv, At, Goto, StartCapture, supVars, overlayVars, mainVars, threadVars, cleanupVars,
          monitorVars
    <2>2. start'[s] = "done"
      BY <2>1
      DEF Inv, Types
    <2>3. ~Busy(Starter(s))
      BY <2>1
      DEF Inv, JobsAreOwned
    <2> QED
      BY <2>1, <2>2, <2>3, StartMoves
      DEF Onward, StartPlaces, InStartup, InStart, BeforeCapture, BeforeProcessor, BeforeEvents,
          AfterEvents, Stored
  <1> QED
    BY <1>1, <1>2, <1>3 DEF StartCapture

LEMMA StopDismissedStep ==
  ASSUME Inv, NEW s \in Starts, StopDismissed(s)
  PROVE  Inv'
  <1>1. start[s] = "dismissed" /\ active = s
    BY HolderIsActive DEF StopDismissed, At, Inv, ReportersAreHeld, InStartup
  <1>2. Starter(s) \in Callers /\ ~Busy(Starter(s))
    BY <1>1, CallersDiffer DEF Inv, JobsAreOwned
  <1> QED
    BY <1>1, <1>2, Stops
    DEF StopDismissed, Goto, overlayVars, mainVars, threadVars, cleanupVars, monitorVars

LEMMA PlaceStep ==
  ASSUME Inv, NEW s \in Starts, Place(s)
  PROVE  Inv'
  <1>1. CASE At(s, "place") /\ Configure(Starter(s), FALSE) /\ Goto(s, "placed") /\ UNCHANGED job
    <2>1. /\ Theory!Inv' /\ Calm
          /\ start[s] = "place"
          /\ start' = [start EXCEPT ![s] = "placed"]
          /\ Post([kind |-> "hide",
                   by |-> IF env.platform = "linux" THEN Starter(s) ELSE NoCaller, session |-> output.session])
          /\ UNCHANGED <<env, slot, control, worker, job, capture, processor, events, cleanup,
                        stopResult, monitor, failureCleanup, budget, text, pass, output, shown,
                        frame, stops, presents>>
      BY <1>1, StutterEffect
      DEF Inv, At, Goto, Place, Configure, supVars, overlayVars, mainVars, threadVars,
          cleanupVars, monitorVars
    <2>2. UNCHANGED <<env, slot, control, worker, job, capture, processor, events, cleanup,
                       stopResult, monitor, failureCleanup, budget, text, pass, output, shown,
                       frame, stops, presents>>
      BY <2>1
    <2>3. /\ Moved(start', start, s, "placed")
          /\ start' \in [Starts -> StartPlaces]
          /\ start[s] = "place"
      BY <2>1
      DEF Inv, Types, StartPlaces, Moved
    <2>4. ~Busy(Starter(s))
      BY <2>3, <1>1
      DEF Inv, JobsAreOwned
    <2>5. /\ ui' \in Seq(Requests) /\ (HideIsPosted => HideIsPosted')
          /\ \A i \in 1..Len(ui') :
               \/ ui'[i].kind = "hide" /\ (env.platform = "linux" => ui'[i].by = Starter(s))
               \/ i \in 1..Len(ui) /\ ui'[i] = ui[i]
      <3> DEFINE r == [kind |-> "hide",
                       by |-> IF env.platform = "linux" THEN Starter(s) ELSE NoCaller,
                       session |-> output.session]
      <3>1. r \in Requests
        BY CallersDiffer DEF Inv, Types, Outputs, Requests
      <3>2. Post(r)
        BY <2>1
      <3>3. /\ ui' \in Seq(Requests) /\ (HideIsPosted => HideIsPosted')
            /\ \A i \in 1..Len(ui') : ui'[i] = r \/ (i \in 1..Len(ui) /\ ui'[i] = ui[i])
        BY <3>1, <3>2, RequestPosted
      <3> QED
        BY <3>3
    <2>6. /\ NumbersAreDistinct'
          /\ \A t \in Starts, r \in Roles : Holds(t, r) => Holds(t, r)'
      BY <2>1, ReportersKept
      DEF Calm, Steady
    <2>7. /\ UNCHANGED <<active, cleanupFinished, nextSession>>
          /\ cancelled \subseteq cancelled' /\ Advances
          /\ active = NoSession => UNCHANGED snapshot
          /\ NoneRuns
      BY <2>1
      DEF Calm, Steady, Advances, NoneRuns
    <2>8. \A t \in Starts : Tracked(t)' <=> Tracked(t)
      BY <2>2
      DEF Tracked, Roles
    <2>9. \A t \in Starts :
            /\ StartupIsAwaited(t) /\ active = t /\ t \notin cancelled'
            /\ t = s => start[s] \in {"cancelled", "failed"}
            => StartupIsAwaited(t)'
      BY <2>1, <2>3, AwaitedKept, AwaitedReported, AwaitedRegistered
      DEF Roles, Calm, Steady
    <2>10. Types'
      BY <2>2, <2>3, <2>5, TypesKept DEF Kept
    <2>11. RevisionsAreOld'
      BY <2>2, <2>6, <2>7, <2>9, Undisturbed
    <2>12. UnstartedHasNothing' /\ JobsAreOwned' /\ StopMissesNoStore' /\
           ResourcesHaveOneHolder' /\ WhatRunsIsHeld' /\ CleanupIsAwaited' /\
           LiveIsGivenUp' /\ ClearsAreLater' /\ ClearedStaysClear'
      BY <2>2, <2>3, <2>4, <2>7, <2>8, <2>9, StartGoesOn
      DEF Moved, Onward, StartPlaces, InStart, BeforeCapture, Stored
    <2>13. ReportersAreHeld'
      BY <2>2, <2>3, <2>4, <2>5, <2>6, <2>7, <2>8
      DEF Inv, ReportersAreHeld, InStartup, Tracked, Roles, ClearsUp, Busy, BeforeProcessor,
          BeforeCapture, BeforeEvents, AfterEvents, Moved
    <2>14. ShowsAreAwaited'
      BY <2>2, <2>3, <2>4, <2>5, <2>6, <2>7, <2>8, CallersDiffer DEF Inv, ShowsAreAwaited, Moved
    <2>15. VisibleIsAlive'
      <3>1. \A t \in Starts : Cleared(t)' <=> Cleared(t)
        BY <2>2, <2>7 DEF Cleared, InCleanup, ClearsUp, Busy
      <3> QED
        BY <2>2, <2>3, <2>4, <2>5, <2>6, <2>7, <2>8, <3>1, Numbers DEF Inv, VisibleIsAlive, FindsOthersStored
    <2> QED
      BY <2>1, <2>6, <2>10, <2>11, <2>12, <2>13, <2>14, <2>15
      DEF Inv
  <1>2. CASE /\ At(s, "placed") /\ Goto(s, "processor") /\ UNCHANGED job
             /\ UNCHANGED <<shown, ui>>
    <2>1. /\ Theory!Inv' /\ Calm
          /\ start[s] = "placed" /\ start' = [start EXCEPT ![s] = "processor"]
          /\ UNCHANGED <<env, slot, control, worker, job, capture, processor, events, cleanup,
                        stopResult, monitor, failureCleanup, budget, text, pass, output, shown,
                        ui, frame, stops, presents>>
      BY <1>2, StutterEffect
      DEF Inv, At, Goto, Place, supVars, overlayVars, mainVars, threadVars, cleanupVars,
          monitorVars
    <2>2. start'[s] = "processor"
      BY <2>1
      DEF Inv, Types
    <2>3. ~Busy(Starter(s))
      BY <2>1
      DEF Inv, JobsAreOwned
    <2> QED
      BY <2>1, <2>2, <2>3, StartMoves
      DEF Onward, StartPlaces, InStartup, InStart, BeforeCapture, BeforeProcessor, BeforeEvents,
          AfterEvents, Stored
  <1>3. CASE At(s, "placed") /\ GiveUp(s, "failed") /\ UNCHANGED <<shown, ui>>
    <2>1. /\ Theory!Inv' /\ Calm
          /\ start' = [start EXCEPT ![s] = "failed"]
          /\ BeginJob(Starter(s), s, TRUE, "read")
          /\ UNCHANGED <<env, slot, worker, capture, processor, events, cleanup, stopResult,
                        monitor, failureCleanup, budget, text, pass, output, shown, ui, frame,
                        stops, presents>>
      BY <1>3, StutterEffect
      DEF Inv, At, Goto, GiveUp, Place, supVars, overlayVars, mainVars, threadVars, cleanupVars,
          monitorVars
    <2>2. events[s] = "none" /\ processor[s] = "none"
      BY <1>3 DEF At, Inv, ReportersAreHeld, BeforeEvents, BeforeProcessor
    <2> QED
      BY <1>3, <2>1, <2>2, GivesUp
      DEF InStart, At, Place
  <1> QED
    BY <1>1, <1>2, <1>3 DEF Place

LEMMA SpawnThreadsStep ==
  ASSUME Inv, NEW s \in Starts, SpawnThreads(s)
  PROVE  Inv'
  <1>1. CASE /\ At(s, "spawnProcessor") /\ Goto(s, "events")
             /\ processor' = [processor EXCEPT ![s] = "loop"]
             /\ UNCHANGED <<supVars, job, events>>
    <2>1. /\ Theory!Inv' /\ Calm
          /\ start[s] = "spawnProcessor"
          /\ start' = [start EXCEPT ![s] = "events"]
          /\ processor' = [processor EXCEPT ![s] = "loop"]
          /\ UNCHANGED <<env, slot, control, worker, job, capture, events, cleanup, stopResult,
                        monitor, failureCleanup, budget, text, pass, output, shown, ui, frame,
                        stops, presents>>
      BY <1>1, StutterEffect
      DEF Inv, At, Goto, SpawnThreads, supVars, overlayVars, mainVars, threadVars, cleanupVars,
          monitorVars
    <2>2. UNCHANGED <<env, slot, control, worker, job, capture, events, cleanup, stopResult,
                       monitor, failureCleanup, budget, text, pass, output, shown, ui, frame,
                       stops, presents>>
      BY <2>1
    <2>3. /\ Moved(start', start, s, "events")
          /\ start' \in [Starts -> StartPlaces]
          /\ start[s] = "spawnProcessor"
      BY <2>1
      DEF Inv, Types, StartPlaces, Moved
    <2>4. ~Busy(Starter(s))
      BY <2>3, <1>1
      DEF Inv, JobsAreOwned
    <2>5. /\ Moved(processor', processor, s, "loop")
          /\ processor' \in [Starts -> {"none", "loop", "compare", "failed", "mark", "emit", "ended"}]
      BY <2>1
      DEF Inv, Types, Moved
    <2>6. /\ NumbersAreDistinct'
          /\ \A t \in Starts, r \in Roles : Holds(t, r) => Holds(t, r)'
      BY <2>1, ReportersKept
      DEF Calm, Steady
    <2>7. /\ UNCHANGED <<active, cleanupFinished, nextSession>>
          /\ cancelled \subseteq cancelled' /\ Advances
          /\ active = NoSession => UNCHANGED snapshot
          /\ NoneRuns
      BY <2>1
      DEF Calm, Steady, Advances, NoneRuns
    <2>8. \A t \in Starts : Tracked(t)' <=> Tracked(t)
      BY <2>2
      DEF Tracked, Roles
    <2>9. Types'
      BY <2>2, <2>3, <2>5, TypesKept DEF Kept
    <2>10. VisibleIsAlive'
      BY <2>2, <2>6, <2>7, Undisturbed
    <2>11. UnstartedHasNothing' /\ JobsAreOwned' /\ StopMissesNoStore' /\ WhatRunsIsHeld' /\
           CleanupIsAwaited' /\ ClearsAreLater' /\ ClearedStaysClear' /\ ShowsAreAwaited'
      BY <2>2, <2>3, <2>4, <2>7, <2>8, StartGoesOn
      DEF Moved, Onward, StartPlaces, InStart, BeforeCapture, Stored
    <2>12. ReportersAreHeld'
      BY <2>2, <2>3, <2>4, <2>5, <2>6, <2>7, <2>8
      DEF Inv, ReportersAreHeld, InStartup, Tracked, Roles, ClearsUp, Busy, BeforeProcessor,
          BeforeCapture, BeforeEvents, AfterEvents, Moved
    <2>13. ResourcesHaveOneHolder'
      <3>1. \A t \in Starts :
              /\ (InSlot(t)' <=> InSlot(t)) /\ (InCleanup(t)' <=> InCleanup(t))
              /\ \A d \in Callers : InJob(d, t)' <=> InJob(d, t)
              /\ \A d \in Callers : ClearsUp(d, t)' <=> ClearsUp(d, t)
        BY <2>2 DEF InSlot, InJob, InCleanup, ClearsUp, Busy
      <3>2. \A t \in Starts : t # s => OneHolder(t)'
        BY <2>2, <2>3, <2>4, <2>5, <2>6, <2>7, <2>8, <2>8, <3>1, HolderKept DEF InSlot, InCleanup, Moved
      <3>3. OneHolder(s)
        BY DEF Inv, ResourcesHaveOneHolder
      <3>4. OneHolder(s)'
        BY <2>2, <2>3, <2>4, <2>5, <2>6, <2>7, <2>8, <2>8, <3>1, <3>3 DEF OneHolder, InStart, Open, Stored, BeforeCapture, Moved
      <3> QED
        BY <3>2, <3>4 DEF ResourcesHaveOneHolder
    <2>14. LiveIsGivenUp'
      <3>1. ~(start[s] \in {"cancelled", "failed", "done"})
        BY <2>3
      <3>2. \A t \in Starts : t # s => /\ start'[t] = start[t] /\ events'[t] = events[t]
                                      /\ processor'[t] = processor[t] /\ (GaveUp(t)' <=> GaveUp(t))
        BY <2>2, <2>3, <2>4, <2>5, <2>6, <2>7, <2>8 DEF Moved, GaveUp
      <3>3. start'[s] \notin {"cancelled", "failed"}
        BY <2>3 DEF Moved
      <3>4. \A t \in Starts : Closing(t)' <=> Closing(t)
        BY <2>2, <2>7 DEF Closing, InCleanup, ClearsUp, Busy
      <3>5. (active = NoSession => ~IsLive)'
        BY <2>2, <2>7 DEF Inv, LiveIsGivenUp, IsLive
      <3>6. \A t \in Starts :
              /\ start'[t] = "cancelled" => t \in cancelled' \/ FindsOthersStored(t)'
              /\ start'[t] = "failed" => events'[t] = "none" /\ (Fault("spawn")' \/ processor'[t] = "none")
        BY <2>2, <2>7, <3>2, <3>3 DEF Inv, LiveIsGivenUp, FindsOthersStored, Fault
      <3>7. ASSUME NEW t \in Starts, active' = t, t \notin cancelled',
                   Closing(t)' \/ start'[t] \in {"cancelled", "failed"}
            PROVE  /\ StartupIsAwaited(t)'
                   /\ start'[t] \in {"cancelled", "failed", "done"}
                   /\ FindsOthersStored(t)' \/ (GaveUp(t)' /\ (Fault("spawn")' \/ processor'[t] = "none"))
        <4>1. t # s
          BY <3>1, <3>3, <3>4, <3>7, <2>7 DEF Inv, LiveIsGivenUp
        <4>2. /\ StartupIsAwaited(t) /\ start[t] \in {"cancelled", "failed", "done"}
              /\ FindsOthersStored(t) \/ (GaveUp(t) /\ (Fault("spawn") \/ processor[t] = "none"))
          BY <3>2, <3>4, <3>7, <4>1, <2>7 DEF Inv, LiveIsGivenUp
        <4>3. StartupIsAwaited(t)'
          BY <3>7, <4>1, <4>2, <2>1, AwaitedKept DEF Calm, Steady
        <4> QED
          BY <3>2, <4>1, <4>2, <4>3, <2>2 DEF FindsOthersStored, Fault
      <3> QED
        BY <3>5, <3>6, <3>7 DEF LiveIsGivenUp
    <2>15. RevisionsAreOld'
      <3>1. \A t \in Starts : processor'[t] = "none" => processor[t] = "none"
        BY <2>5 DEF Moved
      <3> QED
        BY <3>1, <2>2, <2>7, Undisturbed
    <2> QED
      BY <2>1, <2>6, <2>9, <2>10, <2>11, <2>12, <2>13, <2>14, <2>15
      DEF Inv
  <1>2. CASE /\ At(s, "spawnEvents") /\ Goto(s, "admit")
             /\ events' = [events EXCEPT ![s] = "loop"]
             /\ UNCHANGED <<supVars, job, processor>>
    <2>1. /\ Theory!Inv' /\ Calm
          /\ start[s] = "spawnEvents"
          /\ start' = [start EXCEPT ![s] = "admit"]
          /\ events' = [events EXCEPT ![s] = "loop"]
          /\ UNCHANGED <<env, slot, control, worker, job, capture, processor, cleanup, stopResult,
                        monitor, failureCleanup, budget, text, pass, output, shown, ui, frame,
                        stops, presents>>
      BY <1>2, StutterEffect
      DEF Inv, At, Goto, SpawnThreads, supVars, overlayVars, mainVars, threadVars, cleanupVars,
          monitorVars
    <2>2. UNCHANGED <<env, slot, control, worker, job, capture, processor, cleanup, stopResult,
                       monitor, failureCleanup, budget, text, pass, output, shown, ui, frame,
                       stops, presents>>
      BY <2>1
    <2>3. /\ Moved(start', start, s, "admit")
          /\ start' \in [Starts -> StartPlaces]
          /\ start[s] = "spawnEvents"
      BY <2>1
      DEF Inv, Types, StartPlaces, Moved
    <2>4. ~Busy(Starter(s))
      BY <2>3, <1>2
      DEF Inv, JobsAreOwned
    <2>5. /\ Moved(events', events, s, "loop")
          /\ events' \in [Starts -> {"none", "loop", "closed", "over", "failed", "mark", "resume",
                                    "run", "look", "show", "hide", "placed", "ended"}]
      BY <2>1
      DEF Inv, Types, Moved
    <2>6. \A t \in Starts : /\ events[t] # "none" => events'[t] # "none"
                            /\ GaveUp(t) => GaveUp(t)'
      BY <2>3, <2>5 DEF Moved, GaveUp
    <2>7. /\ NumbersAreDistinct'
          /\ \A t \in Starts, r \in Roles : Holds(t, r) => Holds(t, r)'
      BY <2>1, ReportersKept
      DEF Calm, Steady
    <2>8. /\ UNCHANGED <<active, cleanupFinished, nextSession>>
          /\ cancelled \subseteq cancelled' /\ Advances
          /\ active = NoSession => UNCHANGED snapshot
          /\ NoneRuns
      BY <2>1
      DEF Calm, Steady, Advances, NoneRuns
    <2>9. \A t \in Starts : Tracked(t)' <=> Tracked(t)
      BY <2>2
      DEF Tracked, Roles
    <2>10. Types'
      BY <2>2, <2>3, <2>5, TypesKept DEF Kept
    <2>11. UnstartedHasNothing' /\ JobsAreOwned' /\ StopMissesNoStore' /\ WhatRunsIsHeld' /\
           CleanupIsAwaited'
      BY <2>2, <2>3, <2>4, <2>8, <2>9, StartGoesOn
      DEF Moved, Onward, StartPlaces, InStart, BeforeCapture, Stored
    <2>12. ReportersAreHeld'
      BY <2>2, <2>3, <2>4, <2>5, <2>6, <2>7, <2>8, <2>9
      DEF Inv, ReportersAreHeld, InStartup, Tracked, Roles, ClearsUp, Busy, BeforeProcessor,
          BeforeCapture, BeforeEvents, AfterEvents, Moved
    <2>13. ResourcesHaveOneHolder'
      <3>1. \A t \in Starts :
              /\ (InSlot(t)' <=> InSlot(t)) /\ (InCleanup(t)' <=> InCleanup(t))
              /\ \A d \in Callers : InJob(d, t)' <=> InJob(d, t)
              /\ \A d \in Callers : ClearsUp(d, t)' <=> ClearsUp(d, t)
        BY <2>2 DEF InSlot, InJob, InCleanup, ClearsUp, Busy
      <3>2. \A t \in Starts : t # s => OneHolder(t)'
        BY <2>2, <2>3, <2>4, <2>5, <2>6, <2>7, <2>8, <2>9, <2>9, <3>1, HolderKept DEF InSlot, InCleanup, Moved
      <3>3. OneHolder(s)
        BY DEF Inv, ResourcesHaveOneHolder
      <3>4. OneHolder(s)'
        BY <2>2, <2>3, <2>4, <2>5, <2>6, <2>7, <2>8, <2>9, <2>9, <3>1, <3>3 DEF OneHolder, InStart, Open, Stored, BeforeCapture, Moved
      <3> QED
        BY <3>2, <3>4 DEF ResourcesHaveOneHolder
    <2>14. LiveIsGivenUp'
      <3>1. ~(start[s] \in {"cancelled", "failed", "done"})
        BY <2>3
      <3>2. \A t \in Starts : t # s => /\ start'[t] = start[t] /\ events'[t] = events[t]
                                      /\ processor'[t] = processor[t] /\ (GaveUp(t)' <=> GaveUp(t))
        BY <2>2, <2>3, <2>4, <2>5, <2>6, <2>7, <2>8, <2>9 DEF Moved, GaveUp
      <3>3. start'[s] \notin {"cancelled", "failed"}
        BY <2>3 DEF Moved
      <3>4. \A t \in Starts : Closing(t)' <=> Closing(t)
        BY <2>2, <2>8 DEF Closing, InCleanup, ClearsUp, Busy
      <3>5. (active = NoSession => ~IsLive)'
        BY <2>2, <2>8 DEF Inv, LiveIsGivenUp, IsLive
      <3>6. \A t \in Starts :
              /\ start'[t] = "cancelled" => t \in cancelled' \/ FindsOthersStored(t)'
              /\ start'[t] = "failed" => events'[t] = "none" /\ (Fault("spawn")' \/ processor'[t] = "none")
        BY <2>2, <2>8, <3>2, <3>3 DEF Inv, LiveIsGivenUp, FindsOthersStored, Fault
      <3>7. ASSUME NEW t \in Starts, active' = t, t \notin cancelled',
                   Closing(t)' \/ start'[t] \in {"cancelled", "failed"}
            PROVE  /\ StartupIsAwaited(t)'
                   /\ start'[t] \in {"cancelled", "failed", "done"}
                   /\ FindsOthersStored(t)' \/ (GaveUp(t)' /\ (Fault("spawn")' \/ processor'[t] = "none"))
        <4>1. t # s
          BY <3>1, <3>3, <3>4, <3>7, <2>8 DEF Inv, LiveIsGivenUp
        <4>2. /\ StartupIsAwaited(t) /\ start[t] \in {"cancelled", "failed", "done"}
              /\ FindsOthersStored(t) \/ (GaveUp(t) /\ (Fault("spawn") \/ processor[t] = "none"))
          BY <3>2, <3>4, <3>7, <4>1, <2>8 DEF Inv, LiveIsGivenUp
        <4>3. StartupIsAwaited(t)'
          BY <3>7, <4>1, <4>2, <2>1, AwaitedKept DEF Calm, Steady
        <4> QED
          BY <3>2, <4>1, <4>2, <4>3, <2>2 DEF FindsOthersStored, Fault
      <3> QED
        BY <3>5, <3>6, <3>7 DEF LiveIsGivenUp
    <2>15. RevisionsAreOld'
      BY <2>2, <2>6, <2>8, Undisturbed
    <2>16. ClearsAreLater'
      BY <2>2, <2>6 DEF Inv, ClearsAreLater, Below, FindsOthersStored, Fault, ClearsUp, Busy
    <2>17. ClearedStaysClear'
      <3>1. \A t \in Starts : Cleared(t)' <=> Cleared(t)
        BY <2>2, <2>8 DEF Cleared, InCleanup, ClearsUp, Busy
      <3> QED
        BY <2>2, <2>6, <2>8, <3>1 DEF Inv, ClearedStaysClear, PutBack, Below, FindsOthersStored, Fault
    <2>18. ShowsAreAwaited'
      <3>1. \A t \in Starts : \A p \in {"show", "shown"} : (start'[t] = p <=> start[t] = p)
        BY <2>3 DEF Moved
      <3>2. \A t \in Starts : events[t] = "placed" => events'[t] = "placed"
        BY <2>1, <2>5 DEF Moved, Inv, ReportersAreHeld, BeforeEvents
      <3>3. nextSession > 1 => nextSession - 1 \in Starts
        BY Numbers DEF Inv, Starts, Guarantees
      <3> QED
        BY <2>2, <2>6, <2>8, <3>1, <3>2, <3>3 DEF Inv, ShowsAreAwaited
    <2>19. VisibleIsAlive'
      <3>1. \A t \in Starts : Cleared(t)' <=> Cleared(t)
        BY <2>2, <2>8 DEF Cleared, InCleanup, ClearsUp, Busy
      <3> QED
        BY <2>2, <2>6, <2>8, <3>1, Numbers DEF Inv, VisibleIsAlive, FindsOthersStored, HideIsPosted
    <2> QED
      BY <2>1, <2>7, <2>10, <2>11, <2>12, <2>13, <2>14, <2>15, <2>16, <2>17, <2>18, <2>19
      DEF Inv
  <1>3. CASE /\ Fault("spawn") /\ At(s, "spawnProcessor") /\ GiveUp(s, "failed")
             /\ Report(s, "processor", "Exited") /\ UNCHANGED <<processor, events>>
    <2>1. /\ Theory!Inv' /\ Reports(s, "processor", "Exited")
          /\ start' = [start EXCEPT ![s] = "failed"]
          /\ BeginJob(Starter(s), s, TRUE, "read")
          /\ UNCHANGED <<env, slot, worker, capture, processor, events, cleanup, stopResult,
                        monitor, failureCleanup, budget, text, pass, output, shown, ui, frame,
                        stops, presents>>
      BY <1>3, ReportEffect
      DEF Inv, At, Goto, GiveUp, SpawnThreads, Roles, supVars, overlayVars, mainVars, threadVars,
          cleanupVars, monitorVars
    <2>2. events[s] = "none" /\ Fault("spawn")
      BY <1>3 DEF At, Inv, ReportersAreHeld, BeforeEvents, BeforeProcessor
    <2> QED
      BY <1>3, <2>1, <2>2, GivesUp
      DEF InStart, At, SpawnThreads, Roles
  <1>4. CASE /\ Fault("spawn") /\ At(s, "spawnEvents") /\ GiveUp(s, "failed")
             /\ Report(s, "events", "Exited") /\ UNCHANGED <<processor, events>>
    <2>1. /\ Theory!Inv' /\ Reports(s, "events", "Exited")
          /\ start' = [start EXCEPT ![s] = "failed"]
          /\ BeginJob(Starter(s), s, TRUE, "read")
          /\ UNCHANGED <<env, slot, worker, capture, processor, events, cleanup, stopResult,
                        monitor, failureCleanup, budget, text, pass, output, shown, ui, frame,
                        stops, presents>>
      BY <1>4, ReportEffect
      DEF Inv, At, Goto, GiveUp, SpawnThreads, Roles, supVars, overlayVars, mainVars, threadVars,
          cleanupVars, monitorVars
    <2>2. events[s] = "none" /\ Fault("spawn")
      BY <1>4 DEF At, Inv, ReportersAreHeld, BeforeEvents, BeforeProcessor
    <2> QED
      BY <1>4, <2>1, <2>2, GivesUp
      DEF InStart, At, SpawnThreads, Roles
  <1> QED
    BY <1>1, <1>2, <1>3, <1>4 DEF SpawnThreads, At, Report

LEMMA AdmitStep ==
  ASSUME Inv, NEW s \in Starts, Admit(s)
  PROVE  Inv'
  <1>1. CASE /\ At(s, "admit") /\ control = "free" /\ s \in cancelled /\ GiveUp(s, "cancelled")
             /\ UNCHANGED <<control, slot>>
    <2>1. /\ Theory!Inv' /\ Calm /\ UNCHANGED control
          /\ start' = [start EXCEPT ![s] = "cancelled"]
          /\ BeginJob(Starter(s), s, TRUE, "read")
          /\ UNCHANGED <<env, slot, worker, capture, processor, events, cleanup, stopResult,
                        monitor, failureCleanup, budget, text, pass, output, shown, ui, frame,
                        stops, presents>>
      BY <1>1, StutterEffect
      DEF Inv, At, Goto, GiveUp, Admit, supVars, overlayVars, mainVars, threadVars, cleanupVars,
          monitorVars
    <2> QED
      BY <1>1, <2>1, GivesUp
      DEF InStart, At, Admit
  <1>2. CASE /\ At(s, "admit") /\ control = "free" /\ s \notin cancelled /\ Goto(s, "put")
             /\ control' = "start" /\ UNCHANGED <<job, slot>>
    <2>1. /\ Theory!Inv' /\ Calm
          /\ start[s] = "admit"
          /\ start' = [start EXCEPT ![s] = "put"]
          /\ s \notin cancelled /\ control = "free" /\ control' = "start"
          /\ UNCHANGED <<env, slot, worker, job, capture, processor, events, cleanup, stopResult,
                        monitor, failureCleanup, budget, text, pass, output, shown, ui, frame,
                        stops, presents>>
      BY <1>2, StutterEffect
      DEF Inv, At, Goto, Admit, supVars, overlayVars, mainVars, threadVars, cleanupVars,
          monitorVars
    <2>2. UNCHANGED <<env, slot, worker, job, capture, processor, events, cleanup, stopResult,
                       monitor, failureCleanup, budget, text, pass, output, shown, ui, frame,
                       stops, presents>>
      BY <2>1
    <2>3. /\ Moved(start', start, s, "put")
          /\ start' \in [Starts -> StartPlaces]
          /\ start[s] = "admit"
      BY <2>1
      DEF Inv, Types, StartPlaces, Moved
    <2>4. ~Busy(Starter(s))
      BY <2>3, <1>2
      DEF Inv, JobsAreOwned
    <2>5. s \notin cancelled /\ control = "free" /\ control' = "start"
      BY <2>1
    <2>6. active = s /\ active # NoSession
      BY <2>3, HolderIsActive DEF Inv, ReportersAreHeld, InStartup
    <2>7. /\ NumbersAreDistinct'
          /\ \A t \in Starts, r \in Roles : Holds(t, r) => Holds(t, r)'
      BY <2>1, ReportersKept
      DEF Calm, Steady
    <2>8. /\ UNCHANGED <<active, cleanupFinished, nextSession>>
          /\ cancelled \subseteq cancelled' /\ Advances
          /\ active = NoSession => UNCHANGED snapshot
          /\ NoneRuns
      BY <2>1
      DEF Calm, Steady, Advances, NoneRuns
    <2>9. \A t \in Starts : Tracked(t)' <=> Tracked(t)
      BY <2>2
      DEF Tracked, Roles
    <2>10. \A t \in Starts :
             /\ StartupIsAwaited(t) /\ active = t /\ t \notin cancelled'
             /\ t = s => start[s] \in {"cancelled", "failed"}
             => StartupIsAwaited(t)'
      BY <2>1, <2>3, AwaitedKept, AwaitedReported, AwaitedRegistered
      DEF Roles, Calm, Steady
    <2>11. Types'
      BY <2>2, <2>3, <2>5, TypesKept DEF Kept
    <2>12. RevisionsAreOld' /\ VisibleIsAlive'
      BY <2>2, <2>7, <2>8, <2>10, Undisturbed
    <2>13. UnstartedHasNothing' /\ JobsAreOwned' /\ ResourcesHaveOneHolder' /\
           WhatRunsIsHeld' /\ LiveIsGivenUp' /\ ClearsAreLater' /\ ClearedStaysClear' /\
           ShowsAreAwaited'
      BY <2>2, <2>3, <2>4, <2>8, <2>9, <2>10, StartGoesOn
      DEF Moved, Onward, StartPlaces, InStart, BeforeCapture, Stored
    <2>14. ReportersAreHeld'
      BY <2>2, <2>3, <2>4, <2>5, <2>6, <2>7, <2>8, <2>9
      DEF Inv, ReportersAreHeld, InStartup, Tracked, Roles, ClearsUp, Busy, BeforeProcessor,
          BeforeCapture, BeforeEvents, AfterEvents, Moved
    <2>15. StopMissesNoStore'
      <3>1. \A t \in Starts : start[t] \notin {"put", "show", "shown"}
        BY <2>5 DEF Inv, StopMissesNoStore
      <3>2. ~ClearsUp(Main, s)
        BY <2>5 DEF Inv, JobsAreOwned, ClearsUp
      <3>3. \A t \in Starts :
              /\ start'[t] \in {"put", "show", "shown"} => t = s
              /\ t # s => start'[t] = start[t]
        BY <2>3, <3>1 DEF Moved
      <3> QED
        BY <2>2, <2>5, <3>1, <3>2, <3>3 DEF Inv, StopMissesNoStore, ClearsUp, Busy
    <2>16. CleanupIsAwaited'
      <3>1. \A t \in Starts :
              /\ InSlot(t)' <=> InSlot(t)
              /\ InCleanup(t)' <=> InCleanup(t)
              /\ InJob(Main, t)' <=> InJob(Main, t)
              /\ \A d \in Callers : ClearsUp(d, t)' <=> ClearsUp(d, t)
        BY <2>2 DEF InSlot, InCleanup, InJob, ClearsUp, Busy
      <3>2. ~cleanupFinished
        BY <2>3, <2>5, <2>6 DEF Inv, LiveIsGivenUp, Closing
      <3>3. \A t \in Starts :
              /\ start'[t] = "put" => start[t] = "put" \/ t = s
              /\ start'[t] = "abandon" => start[t] = "abandon"
        BY <2>3 DEF Moved
      <3> QED
        BY <2>2, <2>6, <2>8, <2>9, <3>1, <3>2, <3>3 DEF Inv, CleanupIsAwaited, Fault
    <2> QED
      BY <2>1, <2>7, <2>11, <2>12, <2>13, <2>14, <2>15, <2>16
      DEF Inv
  <1>3. CASE /\ At(s, "put") /\ control' = "free" /\ slot # NoSession /\ GiveUp(s, "cancelled")
             /\ UNCHANGED slot
    <2>1. /\ Theory!Inv' /\ Calm /\ control' = "free"
          /\ start' = [start EXCEPT ![s] = "cancelled"]
          /\ BeginJob(Starter(s), s, TRUE, "read")
          /\ UNCHANGED <<env, slot, worker, capture, processor, events, cleanup, stopResult,
                        monitor, failureCleanup, budget, text, pass, output, shown, ui, frame,
                        stops, presents>>
      BY <1>3, StutterEffect
      DEF Inv, At, Goto, GiveUp, Admit, supVars, overlayVars, mainVars, threadVars, cleanupVars,
          monitorVars
    <2>2. active = s
      BY <1>3, HolderIsActive DEF At, Inv, ReportersAreHeld, InStartup
    <2>3. slot # s
      BY <1>3 DEF At, Inv, ResourcesHaveOneHolder, OneHolder, InStart, InSlot
    <2>4. FindsOthersStored(s)
      BY <1>3, <2>2, <2>3, Numbers DEF Inv, UnstartedHasNothing, FindsOthersStored, Types, Starts, NoSession
    <2> QED
      BY <1>3, <2>1, <2>4, GivesUp
      DEF InStart, At, Admit
  <1>4. CASE /\ At(s, "put") /\ control' = "free" /\ slot = NoSession /\ slot' = s
             /\ Goto(s, "complete") /\ UNCHANGED job
    <2>1. /\ Theory!Inv' /\ Calm
          /\ start[s] = "put"
          /\ start' = [start EXCEPT ![s] = "complete"]
          /\ slot = NoSession /\ slot' = s /\ control' = "free"
          /\ UNCHANGED <<env, worker, job, capture, processor, events, cleanup, stopResult,
                        monitor, failureCleanup, budget, text, pass, output, shown, ui, frame,
                        stops, presents>>
      BY <1>4, StutterEffect
      DEF Inv, At, Goto, Admit, supVars, overlayVars, mainVars, threadVars, cleanupVars,
          monitorVars
    <2>2. UNCHANGED <<env, worker, job, capture, processor, events, cleanup, stopResult, monitor,
                       failureCleanup, budget, text, pass, output, shown, ui, frame, stops,
                       presents>>
      BY <2>1
    <2>3. /\ Moved(start', start, s, "complete")
          /\ start' \in [Starts -> StartPlaces]
          /\ start[s] = "put"
      BY <2>1
      DEF Inv, Types, StartPlaces, Moved
    <2>4. ~Busy(Starter(s))
      BY <2>3, <1>4
      DEF Inv, JobsAreOwned
    <2>5. slot = NoSession /\ slot' = s /\ control' = "free"
      BY <2>1
    <2>6. /\ NumbersAreDistinct'
          /\ \A t \in Starts, r \in Roles : Holds(t, r) => Holds(t, r)'
      BY <2>1, ReportersKept
      DEF Calm, Steady
    <2>7. /\ UNCHANGED <<active, cleanupFinished, nextSession>>
          /\ cancelled \subseteq cancelled' /\ Advances
          /\ active = NoSession => UNCHANGED snapshot
          /\ NoneRuns
      BY <2>1
      DEF Calm, Steady, Advances, NoneRuns
    <2>8. \A t \in Starts : Tracked(t)' <=> Tracked(t)
      BY <2>2
      DEF Tracked, Roles
    <2>9. Types'
      BY <2>2, <2>3, <2>5, TypesKept DEF Kept
    <2>10. RevisionsAreOld'
      BY <2>2, <2>6, <2>7, Undisturbed
    <2>11. JobsAreOwned' /\ ShowsAreAwaited'
      BY <2>2, <2>3, <2>4, <2>7, <2>8, StartGoesOn
      DEF Moved, Onward, StartPlaces, InStart, BeforeCapture, Stored
    <2>12. UnstartedHasNothing'
      <3>1. s < nextSession
        BY <2>3, Numbers DEF Inv, UnstartedHasNothing, Guarantees
      <3>2. \A t \in Starts : t >= nextSession => start'[t] = "none"
        BY <3>1, <2>3, Numbers DEF Inv, UnstartedHasNothing, Moved
      <3>3. nextSession > 1 => snapshot'.revision > 0
        BY <2>7, Numbers DEF Inv, UnstartedHasNothing, Guarantees, Advances
      <3> QED
        BY <2>2, <2>5, <2>7, <3>1, <3>2, <3>3 DEF Inv, UnstartedHasNothing
    <2>13. ReportersAreHeld'
      BY <2>2, <2>3, <2>4, <2>5, <2>6, <2>7, <2>8
      DEF Inv, ReportersAreHeld, InStartup, Tracked, Roles, ClearsUp, Busy, BeforeProcessor,
          BeforeCapture, BeforeEvents, AfterEvents, Moved
    <2>14. StopMissesNoStore'
      <3>1. \A t \in Starts : start'[t] \notin {"put", "show", "shown"}
        BY <2>3 DEF Moved, Inv, StopMissesNoStore
      <3>2. \A t \in Starts : ClearsUp(Main, t)' => ClearsUp(Main, t) /\ t # s
        BY <2>2, <2>3 DEF Inv, StopMissesNoStore, ClearsUp, Busy
      <3> QED
        BY <2>2, <2>5, <3>1, <3>2 DEF Inv, StopMissesNoStore
    <2>15. ResourcesHaveOneHolder'
      <3>1. /\ \A t \in Starts : InCleanup(t)' <=> InCleanup(t)
            /\ \A t \in Starts, d \in Callers :
                 (InJob(d, t)' <=> InJob(d, t)) /\ (ClearsUp(d, t)' <=> ClearsUp(d, t))
            /\ UNCHANGED <<capture, job, cleanup, processor, events>>
        BY <2>2 DEF InCleanup, InJob, ClearsUp, Busy
      <3>2. \A t \in Starts : t # s => start'[t] = start[t] /\ (slot' = t <=> slot = t)
        BY <2>3, <2>5 DEF Moved, Starts, NoSession
      <3>3. \A t \in Starts : t # s => OneHolder(t)'
        BY <2>8, <3>1, <3>2, HolderKept
      <3>4. OneHolder(s) /\ InStart(s) /\ ~InStart(s)' /\ InSlot(s)' /\ start'[s] = "complete"
        BY <2>3, <2>5 DEF Inv, ResourcesHaveOneHolder, InStart, InSlot, Moved
      <3>5. OneHolder(s)'
        BY <2>8, <3>1, <3>4 DEF OneHolder, Open, Stored, BeforeCapture
      <3> QED
        BY <3>3, <3>5 DEF ResourcesHaveOneHolder
    <2>16. WhatRunsIsHeld'
      <3>1. \A t \in Starts : t # s => (InStart(t)' <=> InStart(t))
        BY <2>3 DEF InStart, Moved
      <3>2. \A t \in Starts : InSlot(t)' <=> t = s
        BY <2>5 DEF InSlot, Starts, NoSession
      <3>3. \A t \in Starts : ~InSlot(t)
        BY <2>5 DEF InSlot, Starts, NoSession
      <3> QED
        BY <2>2, <3>1, <3>2, <3>3 DEF Inv, WhatRunsIsHeld, InJob, Open
    <2>17. CleanupIsAwaited'
      <3>1. \A t \in Starts :
              /\ InCleanup(t)' <=> InCleanup(t)
              /\ InJob(Main, t)' <=> InJob(Main, t)
              /\ \A d \in Callers : ClearsUp(d, t)' <=> ClearsUp(d, t)
        BY <2>2 DEF InCleanup, InJob, ClearsUp, Busy
      <3>2. \A t \in Starts : InSlot(t)' <=> t = s
        BY <2>5 DEF InSlot, Starts, NoSession
      <3>3. \A t \in Starts : \A p \in {"put", "abandon"} : start'[t] = p => start[t] = p
        BY <2>3 DEF Moved
      <3> QED
        BY <2>2, <2>3, <2>7, <2>8, <3>1, <3>2, <3>3 DEF Inv, CleanupIsAwaited, Fault
    <2>18. LiveIsGivenUp'
      <3>1. \A t \in Starts : ~FindsOthersStored(t)
        BY <2>5 DEF FindsOthersStored
      <3>2. ~(start[s] \in {"cancelled", "failed", "done"}) /\ start'[s] = "complete"
        BY <2>3 DEF Moved
      <3>3. \A t \in Starts : t # s => start'[t] = start[t] /\ (GaveUp(t)' <=> GaveUp(t))
        BY <2>2, <2>3 DEF Moved, GaveUp
      <3>4. \A t \in Starts : Closing(t)' <=> Closing(t)
        BY <2>2, <2>7 DEF Closing, InCleanup, ClearsUp, Busy
      <3>5. (active = NoSession => ~IsLive)'
        BY <2>2, <2>7 DEF Inv, LiveIsGivenUp, IsLive
      <3>6. \A t \in Starts :
              /\ start'[t] = "cancelled" => t \in cancelled'
              /\ start'[t] = "failed" => events[t] = "none" /\ (Fault("spawn") \/ processor[t] = "none")
        BY <2>2, <2>7, <3>1, <3>2, <3>3 DEF Inv, LiveIsGivenUp
      <3>7. ASSUME NEW t \in Starts, active' = t, t \notin cancelled',
                   Closing(t)' \/ start'[t] \in {"cancelled", "failed"}
            PROVE  /\ StartupIsAwaited(t)'
                   /\ start'[t] \in {"cancelled", "failed", "done"}
                   /\ GaveUp(t)' /\ (Fault("spawn") \/ processor[t] = "none")
        <4>1. t # s
          BY <3>2, <3>4, <3>7, <2>7 DEF Inv, LiveIsGivenUp
        <4>2. /\ StartupIsAwaited(t) /\ start[t] \in {"cancelled", "failed", "done"}
              /\ GaveUp(t) /\ (Fault("spawn") \/ processor[t] = "none")
          BY <3>1, <3>3, <3>4, <3>7, <4>1, <2>7 DEF Inv, LiveIsGivenUp
        <4>3. StartupIsAwaited(t)'
          BY <3>7, <4>1, <4>2, <2>1, AwaitedKept DEF Calm, Steady
        <4> QED
          BY <3>3, <4>1, <4>2, <4>3
      <3> QED
        BY <2>2, <3>5, <3>6, <3>7 DEF LiveIsGivenUp, Fault
    <2>19. ClearsAreLater'
      <3>1. \A t \in Starts : GaveUp(t) => GaveUp(t)'
        BY <2>2, <2>3 DEF GaveUp, Moved
      <3>2. \A t \in Starts : ~FindsOthersStored(t)
        BY <2>5 DEF FindsOthersStored
      <3> QED
        BY <2>2, <3>1, <3>2 DEF Inv, ClearsAreLater, Below, Fault, ClearsUp, Busy
    <2>20. ClearedStaysClear'
      <3>1. \A t \in Starts : GaveUp(t) => GaveUp(t)'
        BY <2>2, <2>3 DEF GaveUp, Moved
      <3>2. \A t \in Starts : ~FindsOthersStored(t)
        BY <2>5 DEF FindsOthersStored
      <3>3. \A t \in Starts : Cleared(t)' <=> Cleared(t)
        BY <2>2, <2>7 DEF Cleared, InCleanup, ClearsUp, Busy
      <3> QED
        BY <2>2, <2>7, <3>1, <3>2, <3>3 DEF Inv, ClearedStaysClear, PutBack, Below, Fault
    <2>21. VisibleIsAlive'
      <3>1. ~FindsOthersStored(nextSession - 1)
        BY <2>5 DEF FindsOthersStored
      <3>2. active # NoSession => (Cleared(active)' => Cleared(active))
        BY <2>2, <2>7 DEF Cleared, InCleanup, ClearsUp, Busy
      <3> QED
        BY <2>2, <2>7, <3>1 DEF Inv, VisibleIsAlive, HideIsPosted, Cleared, InCleanup, ClearsUp, Busy
    <2> QED
      BY <2>1, <2>6, <2>9, <2>10, <2>11, <2>12, <2>13, <2>14, <2>15, <2>16, <2>17, <2>18, <2>19,
         <2>20, <2>21
      DEF Inv
  <1> QED
    BY <1>1, <1>2, <1>3, <1>4 DEF Admit

LEMMA RevealStep ==
  ASSUME Inv, NEW s \in Starts, Reveal(s)
  PROVE  Inv'
  <1>1. CASE /\ At(s, "reveal") /\ control = "free" /\ snapshot.lifecycle = "Running"
             /\ Goto(s, "show") /\ control' = "start" /\ UNCHANGED <<shown, ui>>
    <2>1. /\ Theory!Inv' /\ Calm
          /\ start[s] = "reveal"
          /\ start' = [start EXCEPT ![s] = "show"]
          /\ snapshot.lifecycle = "Running" /\ control = "free" /\ control' = "start"
          /\ UNCHANGED <<env, slot, worker, job, capture, processor, events, cleanup, stopResult,
                        monitor, failureCleanup, budget, text, pass, output, shown, ui, frame,
                        stops, presents>>
      BY <1>1, StutterEffect
      DEF Inv, At, Goto, Reveal, supVars, overlayVars, mainVars, threadVars, cleanupVars,
          monitorVars
    <2>2. UNCHANGED <<env, slot, worker, job, capture, processor, events, cleanup, stopResult,
                       monitor, failureCleanup, budget, text, pass, output, shown, ui, frame,
                       stops, presents>>
      BY <2>1
    <2>3. /\ Moved(start', start, s, "show")
          /\ start' \in [Starts -> StartPlaces]
          /\ start[s] = "reveal"
      BY <2>1
      DEF Inv, Types, StartPlaces, Moved
    <2>4. ~Busy(Starter(s))
      BY <2>3, <1>1
      DEF Inv, JobsAreOwned
    <2>5. snapshot.lifecycle = "Running" /\ control = "free" /\ control' = "start"
      BY <2>1
    <2>6. /\ events[nextSession - 1] # "none"
          /\ nextSession > 1
      <3>1. active # NoSession
        BY <2>5 DEF Inv, LiveIsGivenUp, IsLive, Sup!LiveLifecycles
      <3>2. active = nextSession - 1 /\ snapshot.session = active /\ active \in Starts
        BY <3>1, Numbers DEF Inv, UnstartedHasNothing, Guarantees
      <3>3. events[active] # "none"
        BY <2>5, <3>2 DEF Inv, RevisionsAreOld, IsRunning, Owns
      <3> QED
        BY <3>2, <3>3, Numbers DEF Starts
    <2>7. /\ NumbersAreDistinct'
          /\ \A t \in Starts, r \in Roles : Holds(t, r) => Holds(t, r)'
      BY <2>1, ReportersKept
      DEF Calm, Steady
    <2>8. /\ UNCHANGED <<active, cleanupFinished, nextSession>>
          /\ cancelled \subseteq cancelled' /\ Advances
          /\ active = NoSession => UNCHANGED snapshot
          /\ NoneRuns
      BY <2>1
      DEF Calm, Steady, Advances, NoneRuns
    <2>9. \A t \in Starts : Tracked(t)' <=> Tracked(t)
      BY <2>2
      DEF Tracked, Roles
    <2>10. \A t \in Starts :
             /\ StartupIsAwaited(t) /\ active = t /\ t \notin cancelled'
             /\ t = s => start[s] \in {"cancelled", "failed"}
             => StartupIsAwaited(t)'
      BY <2>1, <2>3, AwaitedKept, AwaitedReported, AwaitedRegistered
      DEF Roles, Calm, Steady
    <2>11. Types'
      BY <2>2, <2>3, <2>5, TypesKept DEF Kept
    <2>12. RevisionsAreOld' /\ VisibleIsAlive'
      BY <2>2, <2>7, <2>8, <2>10, Undisturbed
    <2>13. UnstartedHasNothing' /\ JobsAreOwned' /\ ResourcesHaveOneHolder' /\
           WhatRunsIsHeld' /\ CleanupIsAwaited' /\ LiveIsGivenUp' /\ ClearsAreLater' /\
           ClearedStaysClear'
      BY <2>2, <2>3, <2>4, <2>8, <2>9, <2>10, StartGoesOn
      DEF Moved, Onward, StartPlaces, InStart, BeforeCapture, Stored
    <2>14. ReportersAreHeld'
      BY <2>2, <2>3, <2>4, <2>5, <2>6, <2>7, <2>8, <2>9
      DEF Inv, ReportersAreHeld, InStartup, Tracked, Roles, ClearsUp, Busy, BeforeProcessor,
          BeforeCapture, BeforeEvents, AfterEvents, Moved
    <2>15. StopMissesNoStore'
      <3>1. \A t \in Starts : start[t] \notin {"put", "show", "shown"}
        BY <2>5 DEF Inv, StopMissesNoStore
      <3>2. \A t \in Starts :
              /\ start'[t] \in {"put", "show", "shown"} => t = s
              /\ start'[t] = "put" => start[t] = "put"
        BY <2>3, <3>1 DEF Moved
      <3> QED
        BY <2>2, <2>5, <3>1, <3>2 DEF Inv, StopMissesNoStore, ClearsUp, Busy
    <2>16. ShowsAreAwaited'
      <3>1. \A t \in Starts : start[t] = "shown" => start'[t] = "shown"
        BY <2>3 DEF Moved
      <3> QED
        BY <2>2, <2>6, <2>8, <3>1 DEF Inv, ShowsAreAwaited
    <2> QED
      BY <2>1, <2>7, <2>11, <2>12, <2>13, <2>14, <2>15, <2>16
      DEF Inv
  <1>2. CASE At(s, "reveal") /\ Goto(s, "done") /\ UNCHANGED <<control, shown, ui>>
    <2>1. /\ Theory!Inv' /\ Calm
          /\ start[s] = "reveal" /\ start' = [start EXCEPT ![s] = "done"]
          /\ UNCHANGED <<env, slot, control, worker, job, capture, processor, events, cleanup,
                        stopResult, monitor, failureCleanup, budget, text, pass, output, shown,
                        ui, frame, stops, presents>>
      BY <1>2, StutterEffect
      DEF Inv, At, Goto, Reveal, supVars, overlayVars, mainVars, threadVars, cleanupVars,
          monitorVars
    <2>2. start'[s] = "done"
      BY <2>1
      DEF Inv, Types
    <2>3. ~Busy(Starter(s))
      BY <2>1
      DEF Inv, JobsAreOwned
    <2> QED
      BY <2>1, <2>2, <2>3, StartMoves
      DEF Onward, StartPlaces, InStartup, InStart, BeforeCapture, BeforeProcessor, BeforeEvents,
          AfterEvents, Stored
  <1>3. CASE At(s, "reveal") /\ Goto(s, "health") /\ UNCHANGED <<control, shown, ui>>
    <2>1. /\ Theory!Inv' /\ Calm
          /\ start[s] = "reveal" /\ start' = [start EXCEPT ![s] = "health"]
          /\ UNCHANGED <<env, slot, control, worker, job, capture, processor, events, cleanup,
                        stopResult, monitor, failureCleanup, budget, text, pass, output, shown,
                        ui, frame, stops, presents>>
      BY <1>3, StutterEffect
      DEF Inv, At, Goto, Reveal, supVars, overlayVars, mainVars, threadVars, cleanupVars,
          monitorVars
    <2>2. start'[s] = "health"
      BY <2>1
      DEF Inv, Types
    <2>3. ~Busy(Starter(s))
      BY <2>1
      DEF Inv, JobsAreOwned
    <2> QED
      BY <2>1, <2>2, <2>3, StartMoves
      DEF Onward, StartPlaces, InStartup, InStart, BeforeCapture, BeforeProcessor, BeforeEvents,
          AfterEvents, Stored
  <1>4. CASE At(s, "show") /\ Configure(Starter(s), TRUE) /\ Goto(s, "shown") /\ UNCHANGED control
    <2>1. /\ Theory!Inv' /\ Calm
          /\ start[s] = "show"
          /\ start' = [start EXCEPT ![s] = "shown"]
          /\ Post([kind |-> "show",
                   by |-> IF env.platform = "linux" THEN Starter(s) ELSE NoCaller, session |-> output.session])
          /\ UNCHANGED <<env, slot, control, worker, job, capture, processor, events, cleanup,
                        stopResult, monitor, failureCleanup, budget, text, pass, output, shown,
                        frame, stops, presents>>
      BY <1>4, StutterEffect
      DEF Inv, At, Goto, Reveal, Configure, supVars, overlayVars, mainVars, threadVars,
          cleanupVars, monitorVars
    <2>2. UNCHANGED <<env, slot, control, worker, job, capture, processor, events, cleanup,
                       stopResult, monitor, failureCleanup, budget, text, pass, output, shown,
                       frame, stops, presents>>
      BY <2>1
    <2>3. /\ Moved(start', start, s, "shown")
          /\ start' \in [Starts -> StartPlaces]
          /\ start[s] = "show"
      BY <2>1
      DEF Inv, Types, StartPlaces, Moved
    <2>4. ~Busy(Starter(s))
      BY <2>3, <1>4
      DEF Inv, JobsAreOwned
    <2>5. /\ ui' \in Seq(Requests) /\ (HideIsPosted => HideIsPosted')
          /\ \A i \in 1..Len(ui') :
               \/ ui'[i].kind = "show" /\ (env.platform = "linux" => ui'[i].by = Starter(s))
               \/ i \in 1..Len(ui) /\ ui'[i] = ui[i]
      <3> DEFINE r == [kind |-> "show",
                       by |-> IF env.platform = "linux" THEN Starter(s) ELSE NoCaller,
                       session |-> output.session]
      <3>1. r \in Requests
        BY CallersDiffer DEF Inv, Types, Outputs, Requests
      <3>2. Post(r)
        BY <2>1
      <3>3. /\ ui' \in Seq(Requests) /\ (HideIsPosted => HideIsPosted')
            /\ \A i \in 1..Len(ui') : ui'[i] = r \/ (i \in 1..Len(ui) /\ ui'[i] = ui[i])
        BY <3>1, <3>2, RequestPosted
      <3> QED
        BY <3>3
    <2>6. /\ NumbersAreDistinct'
          /\ \A t \in Starts, r \in Roles : Holds(t, r) => Holds(t, r)'
      BY <2>1, ReportersKept
      DEF Calm, Steady
    <2>7. /\ UNCHANGED <<active, cleanupFinished, nextSession>>
          /\ cancelled \subseteq cancelled' /\ Advances
          /\ active = NoSession => UNCHANGED snapshot
          /\ NoneRuns
      BY <2>1
      DEF Calm, Steady, Advances, NoneRuns
    <2>8. \A t \in Starts : Tracked(t)' <=> Tracked(t)
      BY <2>2
      DEF Tracked, Roles
    <2>9. \A t \in Starts :
            /\ StartupIsAwaited(t) /\ active = t /\ t \notin cancelled'
            /\ t = s => start[s] \in {"cancelled", "failed"}
            => StartupIsAwaited(t)'
      BY <2>1, <2>3, AwaitedKept, AwaitedReported, AwaitedRegistered
      DEF Roles, Calm, Steady
    <2>10. Types'
      BY <2>2, <2>3, <2>5, TypesKept DEF Kept
    <2>11. RevisionsAreOld'
      BY <2>2, <2>6, <2>7, <2>9, Undisturbed
    <2>12. UnstartedHasNothing' /\ JobsAreOwned' /\ ResourcesHaveOneHolder' /\
           WhatRunsIsHeld' /\ CleanupIsAwaited' /\ LiveIsGivenUp' /\ ClearsAreLater' /\
           ClearedStaysClear'
      BY <2>2, <2>3, <2>4, <2>7, <2>8, <2>9, StartGoesOn
      DEF Moved, Onward, StartPlaces, InStart, BeforeCapture, Stored
    <2>13. ReportersAreHeld'
      BY <2>2, <2>3, <2>4, <2>5, <2>6, <2>7, <2>8
      DEF Inv, ReportersAreHeld, InStartup, Tracked, Roles, ClearsUp, Busy, BeforeProcessor,
          BeforeCapture, BeforeEvents, AfterEvents, Moved
    <2>14. StopMissesNoStore'
      <3>1. \A t \in Starts : t # s => start[t] \notin {"put", "show", "shown"}
        BY <2>3 DEF Inv, StopMissesNoStore
      <3>2. \A t \in Starts :
              /\ start'[t] \in {"put", "show", "shown"} => t = s
              /\ start'[t] # "put"
        BY <2>3, <3>1 DEF Moved
      <3>3. control = "start"
        BY <2>3 DEF Inv, StopMissesNoStore
      <3> QED
        BY <2>2, <3>2, <3>3 DEF Inv, StopMissesNoStore, ClearsUp, Busy
    <2>15. ShowsAreAwaited'
      <3>1. \A t \in Starts : start[t] = "shown" => start'[t] = "shown"
        BY <2>3 DEF Moved
      <3>2. start'[s] = "shown"
        BY <2>3 DEF Moved
      <3>3. env.platform = "linux" => nextSession > 1 /\ events[nextSession - 1] # "none"
        BY <2>3 DEF Inv, ShowsAreAwaited
      <3>4. env.platform = "linux" =>
              \A i \in 1..Len(ui') : ui'[i].kind = "show" =>
                \/ \E t \in Starts : ui'[i].by = Starter(t) /\ start'[t] = "shown"
                \/ \E t \in Starts : ui'[i].by = <<"events", t>> /\ events[t] = "placed"
        BY <2>5, <3>1, <3>2 DEF Inv, ShowsAreAwaited
      <3> QED
        BY <2>2, <2>7, <3>3, <3>4 DEF ShowsAreAwaited
    <2>16. VisibleIsAlive'
      <3>1. \A t \in Starts : Cleared(t)' <=> Cleared(t)
        BY <2>2, <2>7 DEF Cleared, InCleanup, ClearsUp, Busy
      <3> QED
        BY <2>2, <2>3, <2>4, <2>5, <2>6, <2>7, <2>8, <3>1, Numbers DEF Inv, VisibleIsAlive, FindsOthersStored
    <2> QED
      BY <2>1, <2>6, <2>10, <2>11, <2>12, <2>13, <2>14, <2>15, <2>16
      DEF Inv
  <1>5. CASE /\ At(s, "shown") /\ Served(Starter(s)) /\ Goto(s, "health") /\ control' = "free"
             /\ UNCHANGED <<shown, ui>>
    <2>1. /\ Theory!Inv' /\ Calm
          /\ start[s] = "shown"
          /\ start' = [start EXCEPT ![s] = "health"]
          /\ Served(Starter(s)) /\ control' = "free"
          /\ UNCHANGED <<env, slot, worker, job, capture, processor, events, cleanup, stopResult,
                        monitor, failureCleanup, budget, text, pass, output, shown, ui, frame,
                        stops, presents>>
      BY <1>5, StutterEffect
      DEF Inv, At, Goto, Reveal, supVars, overlayVars, mainVars, threadVars, cleanupVars,
          monitorVars
    <2>2. UNCHANGED <<env, slot, worker, job, capture, processor, events, cleanup, stopResult,
                       monitor, failureCleanup, budget, text, pass, output, shown, ui, frame,
                       stops, presents>>
      BY <2>1
    <2>3. /\ Moved(start', start, s, "health")
          /\ start' \in [Starts -> StartPlaces]
          /\ start[s] = "shown"
      BY <2>1
      DEF Inv, Types, StartPlaces, Moved
    <2>4. ~Busy(Starter(s))
      BY <2>3, <1>5
      DEF Inv, JobsAreOwned
    <2>5. (\A i \in 1..Len(ui) : ui[i].by # Starter(s)) /\ control' = "free"
      <3>1. ui \in Seq(Requests)
        BY DEF Inv, Types
      <3>2. DOMAIN ui = 1..Len(ui)
        BY <3>1
      <3> QED
        BY <2>1, <3>2 DEF Served
    <2>6. /\ NumbersAreDistinct'
          /\ \A t \in Starts, r \in Roles : Holds(t, r) => Holds(t, r)'
      BY <2>1, ReportersKept
      DEF Calm, Steady
    <2>7. /\ UNCHANGED <<active, cleanupFinished, nextSession>>
          /\ cancelled \subseteq cancelled' /\ Advances
          /\ active = NoSession => UNCHANGED snapshot
          /\ NoneRuns
      BY <2>1
      DEF Calm, Steady, Advances, NoneRuns
    <2>8. \A t \in Starts : Tracked(t)' <=> Tracked(t)
      BY <2>2
      DEF Tracked, Roles
    <2>9. \A t \in Starts :
            /\ StartupIsAwaited(t) /\ active = t /\ t \notin cancelled'
            /\ t = s => start[s] \in {"cancelled", "failed"}
            => StartupIsAwaited(t)'
      BY <2>1, <2>3, AwaitedKept, AwaitedReported, AwaitedRegistered
      DEF Roles, Calm, Steady
    <2>10. Types'
      BY <2>2, <2>3, <2>5, TypesKept DEF Kept
    <2>11. RevisionsAreOld' /\ VisibleIsAlive'
      BY <2>2, <2>6, <2>7, <2>9, Undisturbed
    <2>12. UnstartedHasNothing' /\ JobsAreOwned' /\ ResourcesHaveOneHolder' /\
           WhatRunsIsHeld' /\ CleanupIsAwaited' /\ LiveIsGivenUp' /\ ClearsAreLater' /\
           ClearedStaysClear'
      BY <2>2, <2>3, <2>4, <2>7, <2>8, <2>9, StartGoesOn
      DEF Moved, Onward, StartPlaces, InStart, BeforeCapture, Stored
    <2>13. ReportersAreHeld'
      BY <2>2, <2>3, <2>4, <2>5, <2>6, <2>7, <2>8
      DEF Inv, ReportersAreHeld, InStartup, Tracked, Roles, ClearsUp, Busy, BeforeProcessor,
          BeforeCapture, BeforeEvents, AfterEvents, Moved
    <2>14. StopMissesNoStore'
      <3>1. \A t \in Starts : t # s => start[t] \notin {"put", "show", "shown"}
        BY <2>3 DEF Inv, StopMissesNoStore
      <3>2. \A t \in Starts : start'[t] \notin {"put", "show", "shown"}
        BY <2>3, <3>1 DEF Moved
      <3> QED
        BY <2>2, <3>2 DEF Inv, StopMissesNoStore, ClearsUp, Busy
    <2>15. ShowsAreAwaited'
      <3>1. \A t \in Starts : t # s => (start[t] = "shown" => start'[t] = "shown")
        BY <2>3 DEF Moved
      <3>2. \A t \in Starts : start'[t] \in {"show", "shown"} => start[t] \in {"show", "shown"}
        BY <2>3 DEF Moved
      <3> QED
        BY <2>2, <2>5, <2>7, <3>1, <3>2 DEF Inv, ShowsAreAwaited
    <2> QED
      BY <2>1, <2>6, <2>10, <2>11, <2>12, <2>13, <2>14, <2>15
      DEF Inv
  <1> QED
    BY <1>1, <1>2, <1>3, <1>4, <1>5 DEF Reveal

LEMMA StartVisualTranslationStep ==
  ASSUME Inv, StartVisualTranslation
  PROVE  Inv'
  <1> SUFFICES ASSUME NEW s \in Starts, s = nextSession PROVE Inv'
    BY DEF StartVisualTranslation
  <1>1. /\ Theory!Inv' /\ s = nextSession /\ control = "free"
        /\ active = NoSession /\ active' = s /\ ~cleanupFinished' /\ nextSession' = s + 1
        /\ snapshot'.revision = snapshot.revision + 1
        /\ snapshot'.lifecycle = "Starting" /\ snapshot'.session = s
        /\ UNCHANGED <<cancelled, reporters, nextWorker>>
        /\ start' = [start EXCEPT ![s] = "reset"]
        /\ UNCHANGED <<env, slot, control, worker, job, capture, processor, events, cleanup,
                       stopResult, monitor, failureCleanup, budget, text, pass, output, shown, ui,
                       frame, stops, presents>>
    BY StartEffect
    DEF Inv, StartVisualTranslation, Goto, overlayVars, mainVars, threadVars, cleanupVars,
        monitorVars
  <1>2. UNCHANGED <<env, slot, control, worker, job, capture, processor, events, cleanup,
                    stopResult, monitor, failureCleanup, budget, text, pass, output, shown, ui,
                    frame, stops, presents, cancelled>>
    BY <1>1
  <1>3. Moved(start', start, s, "reset") /\ start' \in [Starts -> StartPlaces]
    BY <1>1 DEF Inv, Types, StartPlaces, Moved
  <1>4. /\ start[s] = "none" /\ capture[s] = "none" /\ monitor[s] = "none" /\ ~failureCleanup[s]
        /\ slot < s /\ output.session < s /\ frame.session < s
        /\ \A c \in Callers : job[c].session < s
    BY <1>1, Numbers DEF Inv, UnstartedHasNothing
  <1>5. /\ processor[s] = "none" /\ events[s] = "none" /\ cleanup[s] = "none"
    <2>1. processor[s] = "none" /\ events[s] = "none"
      BY <1>4 DEF Inv, ReportersAreHeld, BeforeEvents, BeforeProcessor, BeforeCapture
    <2>2. cleanup[s] = "none"
      BY <1>4 DEF Inv, ResourcesHaveOneHolder, OneHolder, InCleanup
    <2> QED
      BY <2>1, <2>2
  <1>6. /\ NumbersAreDistinct'
        /\ \A t \in Starts, r \in Roles : Holds(t, r) => Holds(t, r)'
    BY <1>1, ReportersKept
  <1>7. \A t \in Starts : t # s => start'[t] = start[t]
    BY <1>3 DEF Moved
  <1>8. start'[s] = "reset"
    BY <1>3 DEF Moved
  <1>9. s \in Nat /\ s # NoSession /\ s - 1 < s
    BY <1>1, Numbers DEF Starts, NoSession
  <1>10. \A t \in Starts :
           /\ (InSlot(t)' <=> InSlot(t)) /\ (InCleanup(t)' <=> InCleanup(t))
           /\ (Tracked(t)' <=> Tracked(t)) /\ (Open(t)' <=> Open(t))
           /\ FindsOthersStored(t)' <=> FindsOthersStored(t)
           /\ \A d \in Callers : InJob(d, t)' <=> InJob(d, t)
           /\ \A d \in Callers : ClearsUp(d, t)' <=> ClearsUp(d, t)
    BY <1>2 DEF InSlot, InCleanup, InJob, ClearsUp, Busy, Tracked, FindsOthersStored, Open
  <1>11. \A t \in Starts :
           /\ (InStart(t)' <=> InStart(t)) /\ (InStartup(t)' <=> InStartup(t))
           /\ GaveUp(t)' <=> GaveUp(t)
    BY <1>2, <1>4, <1>7, <1>8 DEF InStart, InStartup, GaveUp
  <1>12. Types'
    BY <1>2, <1>3, TypesKept DEF Kept
  <1>13. UnstartedHasNothing'
    <2>1. \A t \in Starts : t >= s + 1 => t # s /\ t >= s
      BY <1>9 DEF Starts
    <2>2. snapshot'.revision > 0
      BY <1>1, Numbers DEF Guarantees
    <2>7. Starts \cup {NoSession} \subseteq Nat
      BY DEF Starts, NoSession
    <2>8. slot \in Nat /\ output.session \in Nat /\ frame.session \in Nat
      BY <2>7 DEF Inv, Types, Outputs, Frames
    <2>9. \A c \in Callers : job[c].session \in Nat
      BY <2>7 DEF Inv, Types, Jobs
    <2>3. slot \in Nat /\ output.session \in Nat /\ frame.session \in Nat
          /\ \A c \in Callers : job[c].session \in Nat
      BY <2>8, <2>9
    <2>4. slot < s + 1 /\ output.session < s + 1 /\ frame.session < s + 1
          /\ \A c \in Callers : job[c].session < s + 1
      BY <1>4, <1>9, <2>3
    <2>5. \A t \in Starts : t >= s + 1 => start'[t] = "none"
      BY <1>7, <2>1, Numbers DEF Inv, UnstartedHasNothing
    <2>6. active' = nextSession' - 1
      BY <1>1, <1>9
    <2> QED
      BY <1>1, <1>2, <2>1, <2>2, <2>4, <2>5, <2>6 DEF Inv, UnstartedHasNothing
  <1>14. JobsAreOwned'
    BY <1>2, <1>4, <1>7, <1>8 DEF Inv, JobsAreOwned, Busy
  <1>15. ReportersAreHeld'
    BY <1>2, <1>4, <1>5, <1>6, <1>7, <1>8, <1>10, <1>11
    DEF Inv, ReportersAreHeld, Roles, BeforeProcessor, BeforeCapture, BeforeEvents, AfterEvents
  <1>16. StopMissesNoStore'
    BY <1>2, <1>4, <1>7, <1>8 DEF Inv, StopMissesNoStore, ClearsUp, Busy
  <1>17. ResourcesHaveOneHolder'
    <2>1. \A t \in Starts : t # s => OneHolder(t)'
      BY <1>2, <1>7, <1>10, HolderKept DEF ClearsUp, Busy
    <2>2. OneHolder(s)'
      BY <1>2, <1>4, <1>8, <1>10, <1>11
      DEF Inv, ResourcesHaveOneHolder, OneHolder, Stored, BeforeCapture
    <2> QED
      BY <2>1, <2>2 DEF ResourcesHaveOneHolder
  <1>18. WhatRunsIsHeld'
    BY <1>2, <1>10, <1>11 DEF Inv, WhatRunsIsHeld
  <1>19. CleanupIsAwaited'
    <2>1. \A t \in Starts : ~failureCleanup[t] =>
            ~InSlot(t) /\ ~InJob(Main, t) /\ start[t] # "put"
      BY <1>1, <1>9 DEF Inv, CleanupIsAwaited, Starts, NoSession
    <2>2. \A t \in Starts : \A p \in {"put", "abandon"} : start'[t] = p => start[t] = p /\ t # s
      BY <1>7, <1>8
    <2> QED
      BY <1>1, <1>2, <1>10, <2>1, <2>2, CallersDiffer DEF Inv, CleanupIsAwaited, Fault
  <1>20. LiveIsGivenUp'
    <2>1. ~Closing(s)'
      BY <1>1, <1>4, <1>5, <1>9, <1>10 DEF Closing, InCleanup, ClearsUp
    <2>2. \A t \in Starts : start'[t] \in {"cancelled", "failed"} => start'[t] = start[t] /\ t # s
      BY <1>7, <1>8
    <2> QED
      BY <1>1, <1>2, <1>9, <1>10, <2>1, <2>2 DEF Inv, LiveIsGivenUp, Fault
  <1>21. RevisionsAreOld'
    <2>1. \A t \in Starts : t < s + 1 => t < s \/ t = s
      BY <1>9 DEF Starts
    <2>2. snapshot.revision \in Nat /\ snapshot'.revision = snapshot.revision + 1
      BY <1>1, Numbers DEF Guarantees
    <2>3. text \in [Starts -> Nat] /\ pass \in [Starts -> Nat] /\ frame.revision \in Nat
      BY DEF Inv, Types, Frames
    <2>4. \A t \in Starts : Below(t, snapshot.revision + 1)
      BY DEF Inv, RevisionsAreOld
    <2>8. \A t \in Starts : Below(t, snapshot.revision)' /\ Below(t, snapshot.revision + 1)'
      BY <1>2, <2>2, <2>3, <2>4 DEF Below
    <2>6. (Owns(s) /\ IsLive)'
      BY <1>1 DEF Owns, IsLive, Sup!LiveLifecycles
    <2>7. \A t \in Starts : ~IsRunning(t)'
      BY <1>1 DEF IsRunning
    <2> QED
      BY <1>1, <1>2, <2>6, <2>7, <2>8 DEF Inv, RevisionsAreOld
  <1>22. ClearsAreLater'
    BY <1>2, <1>10, <1>11 DEF Inv, ClearsAreLater, Below, Fault
  <1>23. \A t \in Starts : Cleared(t)' => Cleared(t) \/ active # t
    BY <1>1, <1>2, <1>10 DEF Cleared, InCleanup, ClearsUp
  <1>24. ClearedStaysClear'
    <2>1. \A t \in Starts : output.session = t => active # t
      BY <1>1, <1>9 DEF Starts, NoSession
    <2> QED
      BY <1>2, <1>10, <1>11, <2>1 DEF Inv, ClearedStaysClear, PutBack, Below, Fault
  <1>25. ShowsAreAwaited'
    <2>1. \A t \in Starts : start[t] \notin {"show", "shown"}
      BY <1>1 DEF Inv, StopMissesNoStore
    <2>2. \A t \in Starts : start'[t] \notin {"show", "shown"}
      BY <1>7, <1>8, <2>1
    <2> QED
      BY <1>2, <2>1, <2>2 DEF Inv, ShowsAreAwaited
  <1>26. VisibleIsAlive'
    <2>1. slot # NoSession /\ slot < s - 1 => slot # NoSession /\ slot < nextSession' - 1
      BY <1>1, <1>9 DEF Inv, Types, Starts, NoSession
    <2>2. env.platform = "linux" /\ shown /\ ~HideIsPosted => slot # NoSession /\ slot < s - 1
      BY <1>1 DEF Inv, VisibleIsAlive, FindsOthersStored
    <2> QED
      BY <1>2, <2>1, <2>2 DEF VisibleIsAlive, HideIsPosted, FindsOthersStored
  <1> QED
    BY <1>1, <1>6, <1>12, <1>13, <1>14, <1>15, <1>16, <1>17, <1>18, <1>19, <1>20, <1>21, <1>22,
       <1>24, <1>25, <1>26 DEF Inv
=============================================================================
