------------------------ MODULE VisualSessionProofs ------------------------
(***************************************************************************)
(* The steps of the visual session after its start: Stop and the cleanup,  *)
(* the monitor, the processor and the event thread, and the main thread,   *)
(* which runs the commands of the WebViews.  Each preserves the invariant  *)
(* of VisualStartProofs, and the theorems follow from it.                  *)
(***************************************************************************)
EXTENDS VisualStartProofs

-----------------------------------------------------------------------------
(* clear_visual_output and schedule_cleanup.                               *)

\* Whose session a caller may be clearing up.
LEMMA JobOf ==
  ASSUME Inv, NEW c \in Callers, NEW s \in Starts, ClearsUp(c, s)
  PROVE  /\ s < nextSession /\ Closing(s)
         /\ c = Main \/ c = Starter(s) \/ c = MonitorOf(s)
         /\ c = Main => s \in cancelled /\ start[s] # "put" /\ (~job[c].held => slot # s)
         /\ c = Starter(s) => start[s] \in {"cancelled", "failed"}
         /\ c = MonitorOf(s) => failureCleanup[s]
  <1>1. s < nextSession /\ Closing(s)
    BY DEF Inv, UnstartedHasNothing, ClearsUp, Closing
  <1>2. \A t \in Starts : c = Starter(t) \/ c = MonitorOf(t) => t = s
    BY DEF Inv, JobsAreOwned, ClearsUp
  <1>3. c = Main \/ c = Starter(s) \/ c = MonitorOf(s)
    BY <1>2, CallersDiffer
  <1>4. c = Main => s \in cancelled /\ start[s] # "put" /\ (~job[c].held => slot # s)
    BY DEF Inv, JobsAreOwned, StopMissesNoStore, ClearsUp
  <1>5. c = Starter(s) => start[s] \in {"cancelled", "failed"}
    BY DEF Inv, JobsAreOwned, ClearsUp
  <1>6. c = MonitorOf(s) => failureCleanup[s]
    BY DEF Inv, JobsAreOwned, ClearsUp
  <1> QED
    BY <1>1, <1>3, <1>4, <1>5, <1>6

\* What the next step of a caller leaves of the jobs.
LEMMA JobGoesOn ==
  ASSUME Inv, NEW c \in Callers, NEW s \in Starts, ClearsUp(c, s),
         NEW to \in {"idle", "read", "clear", "register", "spawn", "fail", "finishFailed", "finish"},
         job'[c].pc = to, job'[c].session = s, job'[c].held = job[c].held,
         \A d \in Callers : d # c => job'[d] = job[d],
         to \in {"register", "spawn", "fail", "finishFailed"} => job[c].held,
         to = "finish" => ~job[c].held,
         UNCHANGED <<env, nextSession>>, cancelled \subseteq cancelled', Advances
  PROVE  /\ /\ UNCHANGED <<slot, frame, start, capture, monitor, failureCleanup>>
            /\ output' = output \/ output'.session = s
            /\ active' \in {active, NoSession}
            => UnstartedHasNothing'
         /\ UNCHANGED <<start, monitor, failureCleanup>> => JobsAreOwned'
         /\ UNCHANGED <<start, control, slot>> => StopMissesNoStore'
         /\ \A d \in Callers, t \in Starts : ClearsUp(d, t)' => ClearsUp(d, t)
         /\ to # "idle" => \A d \in Callers, t \in Starts : ClearsUp(d, t)' <=> ClearsUp(d, t)
         /\ \A d \in Callers, t \in Starts : d # c \/ t # s =>
              (ClearsUp(d, t)' <=> ClearsUp(d, t)) /\ (InJob(d, t)' <=> InJob(d, t))
  <1>1. Busy(c) /\ job[c].session = s
    BY DEF ClearsUp
  <1>2. \A d \in Callers : Busy(d)' => Busy(d)
    BY <1>1 DEF Busy
  <1>3. \A d \in Callers : job'[d].session = job[d].session /\ job'[d].held = job[d].held
    BY <1>1
  <1>4. /\ \A d \in Callers, t \in Starts : ClearsUp(d, t)' => ClearsUp(d, t)
        /\ \A d \in Callers, t \in Starts : d # c \/ t # s =>
             (ClearsUp(d, t)' <=> ClearsUp(d, t)) /\ (InJob(d, t)' <=> InJob(d, t))
    BY <1>1, <1>2, <1>3 DEF ClearsUp, Busy, InJob
  <1>8. to # "idle" => \A d \in Callers, t \in Starts : ClearsUp(d, t)' <=> ClearsUp(d, t)
    <2>1. to # "idle" => Busy(c)'
      BY DEF Busy
    <2> QED
      BY <1>1, <1>3, <1>4, <2>1 DEF ClearsUp
  <1>5. /\ UNCHANGED <<slot, frame, start, capture, monitor, failureCleanup>>
        /\ output' = output \/ output'.session = s
        /\ active' \in {active, NoSession}
        => UnstartedHasNothing'
    <2>1. nextSession > 1 => snapshot'.revision > 0
      BY Numbers DEF Inv, UnstartedHasNothing, Guarantees, Advances
    <2>2. s < nextSession
      BY JobOf
    <2> QED
      BY <1>3, <2>1, <2>2 DEF Inv, UnstartedHasNothing
  <1>6. UNCHANGED <<start, monitor, failureCleanup>> => JobsAreOwned'
    <2> SUFFICES ASSUME UNCHANGED <<start, monitor, failureCleanup>> PROVE JobsAreOwned'
      OBVIOUS
    <2>1. /\ \A d \in Callers : Busy(d)' => job'[d].session \in Starts
          /\ Busy(Main)' => job'[Main].session \in cancelled'
      BY <1>2, <1>3, CallersDiffer DEF Inv, JobsAreOwned
    <2>2. ASSUME NEW t \in Starts
          PROVE  /\ Busy(Starter(t))' => job'[Starter(t)].session = t /\ start[t] \in {"cancelled", "failed"}
                 /\ Busy(MonitorOf(t))' => job'[MonitorOf(t)].session = t /\ monitor[t] = "cleaning"
                 /\ job'[Starter(t)].pc # "lock" /\ job'[MonitorOf(t)].pc # "lock"
      BY <1>2, <1>3, CallersDiffer DEF Inv, JobsAreOwned
    <2>3. \A d \in Callers : /\ job'[d].pc = "clearStop" => job'[d].session \in cancelled'
                             /\ job'[d].pc \in {"register", "spawn", "fail", "finishFailed"} => job'[d].held
                             /\ job'[d].pc = "finish" => ~job'[d].held
      BY <1>3 DEF Inv, JobsAreOwned
    <2> QED
      BY <2>1, <2>2, <2>3 DEF Inv, JobsAreOwned
  <1>7. UNCHANGED <<start, control, slot>> => StopMissesNoStore'
    BY <1>3, <1>4, CallersDiffer DEF Inv, StopMissesNoStore
  <1> QED
    BY <1>4, <1>5, <1>6, <1>7, <1>8

\* A cleanup that is declared finished began with a clear, and the resources are
\* in nobody's hands but the monitor's.
LEMMA CleanupFinished ==
  ASSUME Inv, NEW s \in Starts, Finishes(s), Cleared(s),
         UNCHANGED <<env, slot, worker, start, events, processor, text, pass, frame, output, shown,
                     ui, failureCleanup>>,
         ~failureCleanup[s] => ~InSlot(s) /\ ~InJob(Main, s)' /\ start[s] # "put",
         \A t \in Starts : InCleanup(t)' <=> InCleanup(t),
         \A t \in Starts : t # s => (InJob(Main, t)' <=> InJob(Main, t)),
         \A d \in Callers, t \in Starts : ClearsUp(d, t)' => ClearsUp(d, t) /\ job'[d].pc = job[d].pc
  PROVE  CleanupIsAwaited' /\ LiveIsGivenUp' /\ ClearedStaysClear' /\ VisibleIsAlive'
  <1>1. /\ active = s /\ active # NoSession /\ s # NoSession
        /\ cancelled \subseteq cancelled'
        /\ \/ active' = active /\ cleanupFinished'
           \/ /\ active' = NoSession /\ ~cleanupFinished'
              /\ snapshot'.lifecycle \in {"Starting", "Running", "Waiting"} =>
                   DOMAIN workers = {} /\ s \notin cancelled
    BY DEF Finishes, Starts, NoSession
  <1>2. \A t \in Starts : active' = t => t = s /\ active' = active
    BY <1>1 DEF Starts, NoSession
  <1>3. Closing(s)
    BY DEF Cleared, Closing
  <1>4. \A t \in Starts : /\ (Tracked(t)' <=> Tracked(t)) /\ (InSlot(t)' <=> InSlot(t))
                          /\ (FindsOthersStored(t)' <=> FindsOthersStored(t))
                          /\ (GaveUp(t)' <=> GaveUp(t))
    BY DEF Tracked, InSlot, FindsOthersStored, GaveUp
  <1>5. CleanupIsAwaited'
    <2>1. \A t \in Starts : ~failureCleanup[t] => ~InSlot(t) /\ ~InJob(Main, t)' /\ start[t] # "put"
      BY <1>1 DEF Inv, CleanupIsAwaited
    <2>2. \A t \in Starts : start[t] = "abandon" => Fault("spawn") /\ (active' = t => t \in cancelled')
      BY <1>1, <1>2 DEF Inv, CleanupIsAwaited
    <2> QED
      BY <1>4, <2>1, <2>2 DEF Inv, CleanupIsAwaited, Fault
  <1>6. LiveIsGivenUp'
    <2>1. (active = NoSession => ~IsLive)'
      <3>1. s \notin cancelled => DOMAIN workers # {}
        BY <1>1, <1>3 DEF Inv, LiveIsGivenUp, StartupIsAwaited, BadlyEnded
      <3> QED
        BY <1>1, <3>1 DEF IsLive, Sup!LiveLifecycles
    <2>2. \A t \in Starts :
            /\ start[t] = "cancelled" => t \in cancelled' \/ FindsOthersStored(t)
            /\ start[t] = "failed" => events[t] = "none" /\ (Fault("spawn") \/ processor[t] = "none")
      BY <1>1 DEF Inv, LiveIsGivenUp
    <2>3. ASSUME NEW t \in Starts, active' = t, t \notin cancelled'
          PROVE  /\ StartupIsAwaited(t)'
                 /\ start[t] \in {"cancelled", "failed", "done"}
                 /\ FindsOthersStored(t) \/ (GaveUp(t) /\ (Fault("spawn") \/ processor[t] = "none"))
      <3>1. t = s /\ active = t /\ active' # NoSession /\ t \notin cancelled
        BY <1>1, <1>2, <2>3
      <3>2. StaysAwaited
        BY <3>1, AwaitedByAll
      <3> QED
        BY <1>3, <2>3, <3>1, <3>2 DEF Inv, LiveIsGivenUp, StaysAwaited
    <2> QED
      BY <1>4, <2>1, <2>2, <2>3 DEF LiveIsGivenUp, Fault
  <1>7. ClearedStaysClear'
    <2>1. \A t \in Starts : active # t \/ Cleared(t)
      BY <1>1
    <2> QED
      BY <1>4, <2>1 DEF Inv, ClearedStaysClear, PutBack, Below, Fault
  <1>8. VisibleIsAlive'
    BY <1>1 DEF Inv, VisibleIsAlive, HideIsPosted, FindsOthersStored, Finishes
  <1> QED
    BY <1>5, <1>6, <1>7, <1>8

\* A hide takes the overlay away, or will.
LEMMA Hidden ==
  ASSUME Inv, NEW c \in Callers, HideBy(c)
  PROVE  /\ ui' \in Seq(Requests) /\ shown' \in BOOLEAN
         /\ shown' => HideIsPosted'
         /\ \A i \in 1..Len(ui') : ui'[i].kind = "show" => \E j \in 1..Len(ui) : ui'[i] = ui[j]
  <1>1. CASE c = Main
    BY <1>1 DEF HideBy, Inv, Types
  <1>2. CASE c # Main
    <2>1. Post(Hiding) /\ UNCHANGED shown /\ Hiding \in Requests
      BY <1>2 DEF HideBy, Hiding, Requests
    <2>2. Hiding.kind = "hide" /\ Hiding.by = NoCaller
      BY DEF Hiding
    <2> QED
      <3>1. /\ ui' \in Seq(Requests) /\ HideIsPosted'
            /\ \A i \in 1..Len(ui') : ui'[i] = Hiding \/ (i \in 1..Len(ui) /\ ui'[i] = ui[i])
        BY <2>1, <2>2, RequestPosted
      <3>2. Hiding.kind # "show"
        BY <2>2
      <3>3. shown' \in BOOLEAN
        BY <2>1 DEF Inv, Types
      <3> QED
        BY <3>1, <3>2, <3>3
  <1> QED
    BY <1>1, <1>2

LEMMA ClearStep ==
  ASSUME Inv, NEW c \in Callers, NEW s \in Starts, ClearsUp(c, s), Clear(c)
  PROVE  Inv'
  <1>1. PICK to \in {"idle", "read", "register", "finish"} :
          /\ JobTo(c, to) /\ job[c].pc \in {"clearStop", "clear"}
          /\ to = "idle" => ~job[c].held
          /\ to = "register" => job[c].held
          /\ to = "finish" => ~job[c].held
    BY DEF Clear, JobAt
  <1>2. /\ Theory!Inv' /\ Calm
        /\ output' = Output(s, job[c].revision, FALSE)
        /\ text' = [text EXCEPT ![s] = 0]
        /\ JobTo(c, to) /\ HideBy(c)
        /\ UNCHANGED <<env, slot, control, start, worker, capture, processor, events, cleanup,
                      stopResult, monitor, failureCleanup, budget, pass, frame, stops, presents>>
    BY <1>1, StutterEffect
    DEF Inv, Clear, ClearsUp, supVars, overlayVars, mainVars, threadVars, cleanupVars, monitorVars
  <1>3. UNCHANGED <<env, slot, control, start, worker, capture, processor, events, cleanup,
                     stopResult, monitor, failureCleanup, budget, pass, frame, stops, presents>>
    BY <1>2
  <1>4. /\ job' \in [Callers -> Jobs]
        /\ job'[c].pc = to /\ job'[c].session = s /\ job'[c].held = job[c].held
        /\ \A d \in Callers : d # c => job'[d] = job[d]
    BY <1>2, JobMoved DEF ClearsUp
  <1>5. /\ text' \in [Starts -> Nat] /\ text'[s] = 0 /\ \A t \in Starts : t # s => text'[t] = text[t]
        /\ output'.session = s /\ output'.revision = job[c].revision /\ ~output'.regions
        /\ output' \in Outputs
    <2>1. job[c].revision \in Nat
      BY DEF Inv, Types, Jobs
    <2>2. /\ output'.session = s /\ output'.revision = job[c].revision /\ ~output'.regions
          /\ output' \in Outputs
      BY <1>2, <2>1, OutputIs
    <2> QED
      BY <1>2, <2>2 DEF Inv, Types
  <1>6. /\ ui' \in Seq(Requests) /\ shown' \in BOOLEAN /\ (shown' => HideIsPosted')
        /\ \A i \in 1..Len(ui') : ui'[i].kind = "show" => \E j \in 1..Len(ui) : ui'[i] = ui[j]
    BY <1>2, Hidden
  <1>7. \A d \in Callers, t \in Starts : InJob(d, t)' <=> InJob(d, t)
    BY <1>4, <1>1 DEF InJob, ClearsUp, Busy
  <1>8. /\ \A t \in Starts : text[t] \in Nat /\ pass[t] \in Nat
        /\ \A d \in Callers : job[d].revision \in Nat
        /\ frame.revision \in Nat /\ snapshot.revision \in Nat
    BY Numbers DEF Inv, Types, Frames, Outputs, Jobs, Guarantees
  <1>9. /\ NumbersAreDistinct'
        /\ \A t \in Starts, r \in Roles : Holds(t, r) => Holds(t, r)'
    BY <1>2, ReportersKept
    DEF Calm, Steady
  <1>10. /\ UNCHANGED <<active, cleanupFinished, nextSession>>
         /\ cancelled \subseteq cancelled' /\ Advances
         /\ active = NoSession => UNCHANGED snapshot
         /\ NoneRuns
    BY <1>2
    DEF Calm, Steady, Advances, NoneRuns
  <1>11. \A t \in Starts : Tracked(t)' <=> Tracked(t)
    BY <1>3
    DEF Tracked, Roles
  <1>12. StaysAwaited
    BY <1>2, AwaitedByAll
    DEF Roles, Calm, Steady
  <1>13. Types'
    BY <1>2, <1>3, <1>4, <1>5, <1>6, TypesKept DEF Kept
  <1>14. UnstartedHasNothing'
    BY <1>3, <1>10, <1>4, <1>5, <1>1, JobGoesOn
  <1>15. JobsAreOwned'
    BY <1>3, <1>10, <1>4, <1>1, JobGoesOn
  <1>16. ReportersAreHeld'
    <2>1. \A d \in Callers, t \in Starts : (ClearsUp(d, t) /\ job[d].pc = "spawn")' =>
            ClearsUp(d, t) /\ job[d].pc = "spawn"
      BY <1>4, <1>1 DEF ClearsUp, Busy
    <2> QED
      BY <1>3, <1>9, <1>11, <2>1 DEF Inv, ReportersAreHeld, InStartup, Roles
  <1>17. StopMissesNoStore'
    BY <1>3, <1>10, <1>4, <1>1, JobGoesOn
  <1>18. ResourcesHaveOneHolder'
    <2>1. \A d \in Callers, t \in Starts :
            /\ job[d].pc = "spawn" /\ InJob(d, t) => job'[d].pc = "spawn"
            /\ ClearsUp(d, t)' /\ job'[d].pc \in {"fail", "finishFailed"} =>
                 ClearsUp(d, t) /\ job[d].pc \in {"fail", "finishFailed"}
      BY <1>4, <1>1 DEF InJob, ClearsUp, Busy
    <2> QED
      BY <1>3, <1>11, <1>7, <2>1, HolderKept DEF ResourcesHaveOneHolder
  <1>19. WhatRunsIsHeld'
    BY <1>3, <1>7 DEF Inv, WhatRunsIsHeld, InStart, InSlot, Open
  <1>20. CleanupIsAwaited'
    <2>1. \A d \in Callers, t \in Starts : (ClearsUp(d, t) /\ job[d].pc = "spawn")' =>
            ClearsUp(d, t) /\ job[d].pc = "spawn"
      BY <1>4, <1>1 DEF ClearsUp, Busy
    <2> QED
      BY <1>3, <1>10, <1>11, <1>7, <2>1, CallersDiffer DEF Inv, CleanupIsAwaited, InSlot, InCleanup, Fault
  <1>21. LiveIsGivenUp'
    <2>1. \A t \in Starts : Closing(t)' => Closing(t)
      BY <1>3, <1>10, <1>4, <1>1, JobGoesOn DEF Closing, InCleanup
    <2> QED
      BY <1>3, <1>10, <1>12, <2>1 DEF Inv, LiveIsGivenUp, StaysAwaited, IsLive, GaveUp, FindsOthersStored, Fault
  <1>22. RevisionsAreOld'
    <2>1. /\ UNCHANGED <<env, pass, frame, processor, events, nextSession>>
          /\ \A t \in Starts : text'[t] = 0 \/ text'[t] = text[t]
      BY <1>3, <1>10, <1>5
    <2> QED
      BY <1>10, <1>8, <2>1 DEF Inv, RevisionsAreOld, Below, Owns, IsLive, IsRunning, NoneRuns, Advances
  <1>23. ClearsAreLater'
    <2>1. \A d \in Callers, t \in Starts : (ClearsUp(d, t) /\ job[d].pc \in {"clearStop", "clear"})' =>
            ClearsUp(d, t) /\ d # c
      BY <1>4, <1>1 DEF ClearsUp, Busy
    <2>2. \A d \in Callers, t \in Starts : d # c /\ Below(t, job[d].revision) => Below(t, job[d].revision)'
      BY <1>3, <1>4, <1>5, <1>8 DEF Below
    <2> QED
      BY <1>3, <1>4, <2>1, <2>2 DEF Inv, ClearsAreLater, FindsOthersStored, Fault, GaveUp
  <1>24. ClearedStaysClear'
    <2>1. \/ Below(s, job[c].revision) \/ FindsOthersStored(s)
          \/ Fault("spawn") /\ GaveUp(s)
      BY <1>1 DEF Inv, ClearsAreLater
    <2>2. Below(s, job[c].revision) => Below(s, output.revision)'
      BY <1>3, <1>5, <1>8 DEF Below
    <2>3. s # NoSession
      BY DEF Starts, NoSession
    <2> QED
      BY <1>3, <1>10, <1>5, <2>1, <2>2, <2>3 DEF ClearedStaysClear, PutBack, FindsOthersStored, Fault, GaveUp
  <1>25. ShowsAreAwaited'
    BY <1>3, <1>10, <1>6 DEF Inv, ShowsAreAwaited
  <1>26. VisibleIsAlive'
    BY <1>6 DEF VisibleIsAlive
  <1> QED
    BY <1>2, <1>9, <1>13, <1>14, <1>15, <1>16, <1>17, <1>18, <1>19, <1>20, <1>21, <1>22, <1>23,
       <1>24, <1>25, <1>26
    DEF Inv

LEMMA ReadRevisionStep ==
  ASSUME Inv, NEW c \in Callers, NEW s \in Starts, ClearsUp(c, s), ReadRevision(c)
  PROVE  Inv'
  <1>1. /\ Theory!Inv' /\ Calm
        /\ job' = [job EXCEPT ![c].pc = "clear", ![c].revision = snapshot.revision]
        /\ job[c].pc = "read"
        /\ UNCHANGED <<env, slot, control, start, worker, capture, processor, events, cleanup,
                      stopResult, monitor, failureCleanup, budget, text, pass, output, shown, ui,
                      frame, stops, presents>>
    BY StutterEffect
    DEF Inv, ReadRevision, JobAt, supVars, overlayVars, mainVars, threadVars, cleanupVars,
        monitorVars
  <1>2. UNCHANGED <<env, slot, control, start, worker, capture, processor, events, cleanup,
                     stopResult, monitor, failureCleanup, budget, text, pass, output, shown, ui,
                     frame, stops, presents>>
    BY <1>1
  <1>3. /\ job' \in [Callers -> Jobs]
        /\ job'[c].pc = "clear" /\ job'[c].session = s /\ job'[c].held = job[c].held
        /\ job'[c].revision = snapshot.revision
        /\ \A d \in Callers : d # c => job'[d] = job[d]
    <2>1. job' = [job EXCEPT ![c] = [job[c] EXCEPT !.pc = "clear", !.revision = snapshot.revision]]
      BY <1>1 DEF Inv, Types
    <2>3. job[c] \in Jobs /\ snapshot.revision \in Nat
      BY Numbers DEF Inv, Types, Guarantees
    <2>2. [job[c] EXCEPT !.pc = "clear", !.revision = snapshot.revision] \in Jobs
      BY <2>3 DEF Jobs
    <2> QED
      BY <2>1, <2>2, <2>3, JobBegun DEF ClearsUp, Jobs
  <1>4. \A d \in Callers, t \in Starts : InJob(d, t)' <=> InJob(d, t)
    BY <1>1, <1>3 DEF InJob
  <1>5. /\ NumbersAreDistinct'
        /\ \A t \in Starts, r \in Roles : Holds(t, r) => Holds(t, r)'
    BY <1>1, ReportersKept
    DEF Calm, Steady
  <1>6. /\ UNCHANGED <<active, cleanupFinished, nextSession>>
        /\ cancelled \subseteq cancelled' /\ Advances
        /\ active = NoSession => UNCHANGED snapshot
        /\ NoneRuns
    BY <1>1
    DEF Calm, Steady, Advances, NoneRuns
  <1>7. \A t \in Starts : Tracked(t)' <=> Tracked(t)
    BY <1>2
    DEF Tracked, Roles
  <1>8. StaysAwaited
    BY <1>1, AwaitedByAll
    DEF Roles, Calm, Steady
  <1>9. Types'
    BY <1>2, <1>3, TypesKept DEF Kept
  <1>10. RevisionsAreOld' /\ ShowsAreAwaited'
    BY <1>2, <1>5, <1>6, <1>8, Undisturbed
  <1>11. UnstartedHasNothing'
    BY <1>2, <1>6, <1>3, <1>1, JobGoesOn
  <1>12. JobsAreOwned'
    BY <1>2, <1>6, <1>3, <1>1, JobGoesOn
  <1>13. ReportersAreHeld'
    <2>1. \A d \in Callers, t \in Starts : (ClearsUp(d, t) /\ job[d].pc = "spawn")' =>
            ClearsUp(d, t) /\ job[d].pc = "spawn"
      BY <1>3, <1>1 DEF ClearsUp, Busy
    <2> QED
      BY <1>2, <1>5, <1>7, <2>1 DEF Inv, ReportersAreHeld, InStartup, Roles
  <1>14. StopMissesNoStore'
    BY <1>2, <1>6, <1>3, <1>1, JobGoesOn
  <1>15. ResourcesHaveOneHolder'
    <2>1. \A d \in Callers, t \in Starts :
            /\ job[d].pc = "spawn" /\ InJob(d, t) => job'[d].pc = "spawn"
            /\ ClearsUp(d, t)' /\ job'[d].pc \in {"fail", "finishFailed"} =>
                 ClearsUp(d, t) /\ job[d].pc \in {"fail", "finishFailed"}
      BY <1>3, <1>1 DEF InJob, ClearsUp, Busy
    <2> QED
      BY <1>2, <1>7, <1>4, <2>1, HolderKept DEF ResourcesHaveOneHolder
  <1>16. WhatRunsIsHeld'
    BY <1>2, <1>4 DEF Inv, WhatRunsIsHeld, InStart, InSlot, Open
  <1>17. CleanupIsAwaited'
    <2>1. \A d \in Callers, t \in Starts : (ClearsUp(d, t) /\ job[d].pc = "spawn")' =>
            ClearsUp(d, t) /\ job[d].pc = "spawn"
      BY <1>3, <1>1 DEF ClearsUp, Busy
    <2> QED
      BY <1>2, <1>6, <1>7, <1>4, <2>1, CallersDiffer DEF Inv, CleanupIsAwaited, InSlot, InCleanup, Fault
  <1>18. LiveIsGivenUp'
    <2>1. \A t \in Starts : Closing(t)' => Closing(t)
      BY <1>2, <1>6, <1>3, <1>1, JobGoesOn DEF Closing, InCleanup
    <2> QED
      BY <1>2, <1>6, <1>8, <2>1 DEF Inv, LiveIsGivenUp, StaysAwaited, IsLive, GaveUp, FindsOthersStored, Fault
  <1>19. ClearsAreLater'
    <2>1. \A d \in Callers, t \in Starts : (ClearsUp(d, t) /\ job[d].pc \in {"clearStop", "clear"})' =>
            ClearsUp(d, t) /\ (d # c \/ t = s)
      BY <1>1, <1>3 DEF ClearsUp, Busy
    <2>2. Below(s, snapshot.revision) \/ FindsOthersStored(s) \/ (Fault("spawn") /\ GaveUp(s))
      <3>1. CASE Owns(s) /\ IsLive
        <4>1. active = s /\ s \notin cancelled /\ Closing(s) /\ s < nextSession
          BY <3>1, CancelledIsOver, JobOf
        <4>2. processor[s] = "none" => Below(s, snapshot.revision)
          BY <4>1, Numbers DEF Inv, RevisionsAreOld, UnstartedHasNothing, Below, Guarantees, Starts
        <4> QED
          BY <4>1, <4>2 DEF Inv, LiveIsGivenUp
      <3>2. CASE ~(Owns(s) /\ IsLive)
        BY <3>2, JobOf DEF Inv, RevisionsAreOld
      <3> QED
        BY <3>1, <3>2
    <2>3. job'[c].pc # "clearStop"
      BY <1>3
    <2> QED
      BY <1>2, <1>3, <2>1, <2>2, <2>3 DEF Inv, ClearsAreLater, Below, FindsOthersStored, Fault, GaveUp
  <1>20. ClearedStaysClear'
    <2>1. \A t \in Starts : Cleared(t)' => Cleared(t)
      BY <1>2, <1>6, <1>3 DEF Cleared, InCleanup, ClearsUp, Busy
    <2> QED
      BY <1>2, <1>6, <2>1 DEF Inv, ClearedStaysClear, PutBack, FindsOthersStored, Fault, GaveUp, Below
  <1>21. VisibleIsAlive'
    <2>1. Cleared(active)' => Cleared(active)
      BY <1>2, <1>6, <1>3 DEF Cleared, InCleanup, ClearsUp, Busy
    <2> QED
      BY <1>2, <1>6, <2>1 DEF Inv, VisibleIsAlive, HideIsPosted, FindsOthersStored, Cleared, InCleanup, ClearsUp, Busy
  <1> QED
    BY <1>1, <1>5, <1>9, <1>10, <1>11, <1>12, <1>13, <1>14, <1>15, <1>16, <1>17, <1>18, <1>19,
       <1>20, <1>21
    DEF Inv

LEMMA JobTypes ==
  ASSUME Inv, job' \in [Callers -> Jobs],
         UNCHANGED <<env, slot, control, start, worker, capture, processor, events, cleanup,
                    stopResult, monitor, failureCleanup, budget, text, pass, output, shown, ui,
                    frame, stops, presents>>
  PROVE  Types'
  BY TypesKept DEF Kept

\* schedule_cleanup ends by declaring the cleanup finished.
LEMMA JobEnds ==
  ASSUME Inv, NEW c \in Callers, NEW s \in Starts, ClearsUp(c, s),
         job[c].pc \in {"finish", "finishFailed"}, JobTo(c, "idle"),
         Theory!Inv', Calm \/ Finishes(s),
         UNCHANGED <<env, slot, control, start, worker, capture, processor, events, cleanup,
                    stopResult, monitor, failureCleanup, budget, text, pass, output, shown, ui,
                    frame, stops, presents>>
  PROVE  Inv'
  <1>1. CASE Calm
    <2>1. /\ Theory!Inv' /\ Calm
          /\ JobTo(c, "idle")
          /\ job[c].pc \in {"finish", "finishFailed"}
          /\ UNCHANGED <<env, slot, control, start, worker, capture, processor, events, cleanup,
                        stopResult, monitor, failureCleanup, budget, text, pass, output, shown,
                        ui, frame, stops, presents>>
      BY <1>1
      DEF Inv, Calm, supVars, overlayVars, mainVars, threadVars, cleanupVars, monitorVars
    <2>2. UNCHANGED <<env, slot, control, start, worker, capture, processor, events, cleanup,
                       stopResult, monitor, failureCleanup, budget, text, pass, output, shown, ui,
                       frame, stops, presents>>
      BY <2>1
    <2>3. /\ job' \in [Callers -> Jobs]
          /\ job'[c].pc = "idle" /\ job'[c].session = s /\ job'[c].held = job[c].held
          /\ \A d \in Callers : d # c => job'[d] = job[d]
      BY <2>1, JobMoved DEF ClearsUp
    <2>4. \A d \in Callers, t \in Starts : InJob(d, t)' <=> InJob(d, t)
      BY <2>1, <2>3 DEF InJob
    <2>5. /\ NumbersAreDistinct'
          /\ \A t \in Starts, r \in Roles : Holds(t, r) => Holds(t, r)'
      BY <2>1, ReportersKept
      DEF Calm, Steady
    <2>6. /\ UNCHANGED <<active, cleanupFinished, nextSession>>
          /\ cancelled \subseteq cancelled' /\ Advances
          /\ active = NoSession => UNCHANGED snapshot
          /\ NoneRuns
      BY <2>1
      DEF Calm, Steady, Advances, NoneRuns
    <2>7. \A t \in Starts : Tracked(t)' <=> Tracked(t)
      BY <2>2
      DEF Tracked, Roles
    <2>8. StaysAwaited
      BY <2>1, AwaitedByAll
      DEF Roles, Calm, Steady
    <2>9. Types'
      BY <2>2, <2>3, TypesKept DEF Kept
    <2>10. RevisionsAreOld' /\ ShowsAreAwaited'
      BY <2>2, <2>5, <2>6, <2>8, Undisturbed
    <2>11. UnstartedHasNothing'
      BY <2>2, <2>6, <2>3, <2>1, JobGoesOn
    <2>12. JobsAreOwned'
      BY <2>2, <2>6, <2>3, <2>1, JobGoesOn
    <2>13. ReportersAreHeld'
      <3>1. \A d \in Callers, t \in Starts : (ClearsUp(d, t) /\ job[d].pc = "spawn")' =>
              ClearsUp(d, t) /\ job[d].pc = "spawn"
        BY <2>3, <2>1 DEF ClearsUp, Busy
      <3> QED
        BY <2>2, <2>5, <2>7, <3>1 DEF Inv, ReportersAreHeld, InStartup, Roles
    <2>14. StopMissesNoStore'
      BY <2>2, <2>6, <2>3, <2>1, JobGoesOn
    <2>15. ResourcesHaveOneHolder'
      <3>1. \A d \in Callers, t \in Starts :
              /\ job[d].pc = "spawn" /\ InJob(d, t) => job'[d].pc = "spawn"
              /\ ClearsUp(d, t)' /\ job'[d].pc \in {"fail", "finishFailed"} =>
                   ClearsUp(d, t) /\ job[d].pc \in {"fail", "finishFailed"}
        BY <2>3, <2>1 DEF InJob, ClearsUp, Busy
      <3> QED
        BY <2>2, <2>7, <2>4, <3>1, HolderKept DEF ResourcesHaveOneHolder
    <2>16. WhatRunsIsHeld'
      BY <2>2, <2>4 DEF Inv, WhatRunsIsHeld, InStart, InSlot, Open
    <2>17. CleanupIsAwaited'
      <3>1. \A d \in Callers, t \in Starts : (ClearsUp(d, t) /\ job[d].pc = "spawn")' =>
              ClearsUp(d, t) /\ job[d].pc = "spawn"
        BY <2>3, <2>1 DEF ClearsUp, Busy
      <3> QED
        BY <2>2, <2>6, <2>7, <2>4, <3>1, CallersDiffer DEF Inv, CleanupIsAwaited, InSlot, InCleanup, Fault
    <2>18. LiveIsGivenUp'
      <3>1. \A t \in Starts : Closing(t)' => Closing(t)
        BY <2>2, <2>6, <2>3, <2>1, JobOf, JobGoesOn DEF Closing, InCleanup
      <3> QED
        BY <2>2, <2>6, <2>8, <3>1 DEF Inv, LiveIsGivenUp, StaysAwaited, IsLive, GaveUp, FindsOthersStored, Fault
    <2>19. ClearsAreLater'
      <3>1. \A d \in Callers, t \in Starts : (ClearsUp(d, t) /\ job[d].pc \in {"clearStop", "clear"})' =>
              ClearsUp(d, t) /\ d # c
        BY <2>3, <2>1 DEF ClearsUp, Busy
      <3> QED
        BY <2>2, <2>3, <3>1 DEF Inv, ClearsAreLater, Below, FindsOthersStored, Fault, GaveUp
    <2>20. ClearedStaysClear'
      <3>1. \A t \in Starts : Cleared(t)' => Cleared(t)
        BY <2>2, <2>6, <2>3, <2>1 DEF Cleared, InCleanup, ClearsUp, Busy
      <3> QED
        BY <2>2, <2>6, <3>1 DEF Inv, ClearedStaysClear, PutBack, FindsOthersStored, Fault, GaveUp, Below
    <2>21. VisibleIsAlive'
      <3>1. Cleared(active)' => Cleared(active)
        BY <2>2, <2>6, <2>3, <2>1 DEF Cleared, InCleanup, ClearsUp, Busy
      <3> QED
        BY <2>2, <2>6, <3>1 DEF Inv, VisibleIsAlive, HideIsPosted, FindsOthersStored, Cleared, InCleanup, ClearsUp, Busy
    <2> QED
      BY <2>1, <2>5, <2>9, <2>10, <2>11, <2>12, <2>13, <2>14, <2>15, <2>16, <2>17, <2>18, <2>19,
         <2>20, <2>21
      DEF Inv
  <1>2. CASE Finishes(s)
    <2>1. /\ Theory!Inv' /\ Finishes(s)
          /\ JobTo(c, "idle")
          /\ job[c].pc \in {"finish", "finishFailed"}
          /\ UNCHANGED <<env, slot, control, start, worker, capture, processor, events, cleanup,
                        stopResult, monitor, failureCleanup, budget, text, pass, output, shown,
                        ui, frame, stops, presents>>
      BY <1>2
      DEF Inv, Calm, supVars, overlayVars, mainVars, threadVars, cleanupVars, monitorVars
    <2>2. UNCHANGED <<env, slot, control, start, worker, capture, processor, events, cleanup,
                       stopResult, monitor, failureCleanup, budget, text, pass, output, shown, ui,
                       frame, stops, presents>>
      BY <2>1
    <2>3. /\ job' \in [Callers -> Jobs]
          /\ job'[c].pc = "idle" /\ job'[c].session = s /\ job'[c].held = job[c].held
          /\ \A d \in Callers : d # c => job'[d] = job[d]
      BY <2>1, JobMoved DEF ClearsUp
    <2>4. \A d \in Callers, t \in Starts : InJob(d, t)' <=> InJob(d, t)
      BY <2>1, <2>3 DEF InJob
    <2>5. CleanupIsAwaited' /\ LiveIsGivenUp' /\ ClearedStaysClear' /\ VisibleIsAlive'
      <3>1. Cleared(s)
        BY DEF Cleared, ClearsUp
      <3>2. ~failureCleanup[s] => ~InSlot(s) /\ ~InJob(Main, s)' /\ start[s] # "put"
        <4>1. CASE c = Main
          <5>1. start[s] # "put" /\ (job[c].pc = "finish" => ~job[c].held)
            BY <4>1, <2>1, JobOf DEF Inv, JobsAreOwned
          <5>2. ~InJob(Main, s)'
            BY <4>1, <2>3 DEF InJob
          <5>3. job[c].pc = "finish" => ~InSlot(s)
            BY <4>1, <5>1, JobOf DEF InSlot
          <5>4. job[c].pc = "finishFailed" => ~InSlot(s)
            BY DEF Inv, ResourcesHaveOneHolder, OneHolder, Open
          <5> QED
            BY <2>1, <5>1, <5>2, <5>3, <5>4
        <4>2. CASE c = Starter(s)
          <5>1. start[s] \in {"cancelled", "failed"} /\ Main \in Callers /\ Main # Starter(s)
            BY <4>2, JobOf, CallersDiffer
          <5>2. ~InSlot(s) /\ ~InJob(Main, s)
            BY <5>1 DEF Inv, ResourcesHaveOneHolder, OneHolder, Stored
          <5> QED
            BY <5>1, <5>2, <2>4
        <4>3. CASE c = MonitorOf(s)
          BY <4>3, JobOf
        <4> QED
          BY <4>1, <4>2, <4>3, JobOf
      <3>3. \A x \in Callers, t \in Starts : ClearsUp(x, t)' => ClearsUp(x, t) /\ job'[x].pc = job[x].pc
        BY <2>3 DEF ClearsUp, Busy
      <3>4. \A t \in Starts : (InCleanup(t)' <=> InCleanup(t)) /\ (InJob(Main, t)' <=> InJob(Main, t))
        BY <2>2, <2>4, CallersDiffer DEF InCleanup
      <3>5. Finishes(s)
        BY <2>1
      <3> QED
        BY <2>2, <3>1, <3>2, <3>3, <3>4, <3>5, CleanupFinished
    <2>6. /\ NumbersAreDistinct'
          /\ \A t \in Starts, r \in Roles : Holds(t, r) => Holds(t, r)'
      BY <2>1, ReportersKept
      DEF Finishes, Calm, Steady
    <2>7. /\ UNCHANGED nextSession
          /\ cancelled \subseteq cancelled' /\ Advances
          /\ active' \in {active, NoSession}
          /\ NoneRuns
      BY <2>1
      DEF Finishes, Calm, Steady, Advances, NoneRuns
    <2>8. \A t \in Starts : Tracked(t)' <=> Tracked(t)
      BY <2>2
      DEF Tracked, Roles
    <2>9. Types'
      BY <2>2, <2>3, TypesKept DEF Kept
    <2>10. RevisionsAreOld' /\ ShowsAreAwaited'
      BY <2>2, <2>6, <2>7, Undisturbed
    <2>11. UnstartedHasNothing'
      BY <2>2, <2>7, <2>3, <2>1, JobGoesOn
    <2>12. JobsAreOwned'
      BY <2>2, <2>7, <2>3, <2>1, JobGoesOn
    <2>13. ReportersAreHeld'
      <3>1. \A d \in Callers, t \in Starts : (ClearsUp(d, t) /\ job[d].pc = "spawn")' =>
              ClearsUp(d, t) /\ job[d].pc = "spawn"
        BY <2>3, <2>1 DEF ClearsUp, Busy
      <3> QED
        BY <2>2, <2>6, <2>8, <3>1 DEF Inv, ReportersAreHeld, InStartup, Roles
    <2>14. StopMissesNoStore'
      BY <2>2, <2>7, <2>3, <2>1, JobGoesOn
    <2>15. ResourcesHaveOneHolder'
      <3>1. \A d \in Callers, t \in Starts :
              /\ job[d].pc = "spawn" /\ InJob(d, t) => job'[d].pc = "spawn"
              /\ ClearsUp(d, t)' /\ job'[d].pc \in {"fail", "finishFailed"} =>
                   ClearsUp(d, t) /\ job[d].pc \in {"fail", "finishFailed"}
        BY <2>3, <2>1 DEF InJob, ClearsUp, Busy
      <3> QED
        BY <2>2, <2>8, <2>4, <3>1, HolderKept DEF ResourcesHaveOneHolder
    <2>16. WhatRunsIsHeld'
      BY <2>2, <2>4 DEF Inv, WhatRunsIsHeld, InStart, InSlot, Open
    <2>17. CleanupIsAwaited'
      BY <2>5
    <2>18. LiveIsGivenUp'
      BY <2>5
    <2>19. ClearsAreLater'
      <3>1. \A d \in Callers, t \in Starts : (ClearsUp(d, t) /\ job[d].pc \in {"clearStop", "clear"})' =>
              ClearsUp(d, t) /\ d # c
        BY <2>3, <2>1 DEF ClearsUp, Busy
      <3> QED
        BY <2>2, <2>3, <3>1 DEF Inv, ClearsAreLater, Below, FindsOthersStored, Fault, GaveUp
    <2>20. ClearedStaysClear'
      BY <2>5
    <2>21. VisibleIsAlive'
      BY <2>5
    <2> QED
      BY <2>1, <2>6, <2>9, <2>10, <2>11, <2>12, <2>13, <2>14, <2>15, <2>16, <2>17, <2>18, <2>19,
         <2>20, <2>21
      DEF Inv
  <1> QED
    BY <1>1, <1>2

LEMMA RegisterCleanupStep ==
  ASSUME Inv, NEW c \in Callers, NEW s \in Starts, ClearsUp(c, s), RegisterCleanup(c)
  PROVE  Inv'
  <1>1. CASE JobAt(c, "finish") /\ JobTo(c, "idle") /\ Try(IsActive(s), Sup!FinishCleanup(s, TRUE))
    <2>1. Theory!Inv' /\ (Calm \/ Finishes(s))
      BY <1>1, FinishEffect DEF Inv
    <2>2. UNCHANGED <<env, slot, control, start, worker, capture, processor, events, cleanup,
                         stopResult, monitor, failureCleanup, budget, text, pass, output, shown,
                         ui, frame, stops, presents>>
      BY <1>1 DEF RegisterCleanup, JobAt, overlayVars, mainVars, threadVars, cleanupVars, monitorVars
    <2>3. job[c].pc = "finish"
      BY <1>1 DEF JobAt
    <2> QED
      BY <1>1, <2>1, <2>2, <2>3, JobEnds
  <1>2. CASE JobAt(c, "register") /\ JobTo(c, "spawn") /\ Register(s, "shutdown", "Shutdown")
    <2>1. /\ Theory!Inv' /\ Registers(s, "shutdown")
          /\ JobTo(c, "spawn") /\ job[c].pc = "register"
          /\ UNCHANGED <<env, slot, control, start, capture, processor, events, cleanup,
                        stopResult, monitor, failureCleanup, budget, text, pass, output, shown,
                        ui, frame, stops, presents>>
      BY <1>2, RegisterEffect
      DEF Inv, RegisterCleanup, JobAt, Roles, ClearsUp, supVars, overlayVars, mainVars,
          threadVars, cleanupVars, monitorVars
    <2>2. UNCHANGED <<env, slot, control, start, capture, processor, events, cleanup, stopResult,
                       monitor, failureCleanup, budget, text, pass, output, shown, ui, frame,
                       stops, presents>>
      BY <2>1
    <2>3. /\ job' \in [Callers -> Jobs]
          /\ job'[c].pc = "spawn" /\ job'[c].session = s /\ job'[c].held = job[c].held
          /\ job[c].held
          /\ \A d \in Callers : d # c => job'[d] = job[d]
      BY <2>1, JobMoved DEF ClearsUp, Inv, JobsAreOwned
    <2>4. \A d \in Callers, t \in Starts : InJob(d, t)' <=> InJob(d, t)
      BY <2>1, <2>3 DEF InJob, ClearsUp, Busy
    <2>5. /\ NumbersAreDistinct'
          /\ worker' \in [Starts -> [Roles -> 0..MaxWorker]]
          /\ worker'[s]["shutdown"] # NoWorker
          /\ \A t \in Starts, r \in Roles :
               ~(t = s /\ r = "shutdown") => worker'[t][r] = worker[t][r]
          /\ Holds(s, "shutdown")'
          /\ \A t \in Starts, r \in Roles : Holds(t, r) /\ ~(t = s /\ r = "shutdown") => Holds(t, r)'
      BY <2>1, ReportersRegistered
      DEF Roles
    <2>6. /\ UNCHANGED <<active, cleanupFinished, nextSession>>
          /\ cancelled \subseteq cancelled' /\ Advances
          /\ active = NoSession => UNCHANGED snapshot
          /\ NoneRuns
      BY <2>1
      DEF Registers, Advances, NoneRuns
    <2>7. StaysAwaited
      BY <2>1, AwaitedRegistered
      DEF StaysAwaited, Roles
    <2>8. Types'
      BY <2>2, <2>3, <2>5, TypesKept DEF Kept
    <2>9. RevisionsAreOld' /\ ShowsAreAwaited'
      BY <2>2, <2>5, <2>6, <2>7, Undisturbed
    <2>10. UnstartedHasNothing'
      BY <2>2, <2>6, <2>3, <2>1, JobGoesOn
    <2>11. JobsAreOwned'
      BY <2>2, <2>6, <2>3, <2>1, JobGoesOn
    <2>12. ReportersAreHeld'
      <3>1. \A t \in Starts : t # s => (Tracked(t)' <=> Tracked(t)) /\ t # s
        BY <2>5 DEF Tracked, Roles
      <3>2. \A x \in Callers, t \in Starts : t # s /\ (ClearsUp(x, t) /\ job[x].pc = "spawn")' =>
              ClearsUp(x, t) /\ job[x].pc = "spawn"
        BY <2>3, <2>1 DEF ClearsUp, Busy
      <3>3. Holds(s, "shutdown")'
        BY <2>5
      <3>4. \A t \in Starts, r \in Roles : Holds(t, r) => Holds(t, r)'
        BY <2>5
      <3> QED
        BY <2>2, <3>1, <3>2, <3>3, <3>4 DEF Inv, ReportersAreHeld, InStartup, Roles
    <2>13. StopMissesNoStore'
      BY <2>2, <2>6, <2>3, <2>1, JobGoesOn
    <2>14. ResourcesHaveOneHolder'
      <3>1. \A x \in Callers, t \in Starts :
              /\ job[x].pc = "spawn" /\ InJob(x, t) => job'[x].pc = "spawn"
              /\ ClearsUp(x, t)' /\ job'[x].pc \in {"fail", "finishFailed"} =>
                   ClearsUp(x, t) /\ job[x].pc \in {"fail", "finishFailed"}
        BY <2>1, <2>3 DEF InJob, ClearsUp, Busy
      <3>2. \A t \in Starts : t # s => (Tracked(t)' <=> Tracked(t))
        BY <2>5 DEF Tracked, Roles
      <3>3. \A t \in Starts : t # s => OneHolder(t)'
        BY <2>2, <2>4, <3>1, <3>2, HolderKept
      <3>4. OneHolder(s) /\ InJob(c, s)' /\ job'[c].pc = "spawn"
        BY <2>1, <2>3 DEF Inv, ResourcesHaveOneHolder, InJob, JobsAreOwned
      <3>5. OneHolder(s)'
        BY <2>2, <2>4, <3>1, <3>4 DEF OneHolder, InStart, InSlot, InCleanup, Open
      <3> QED
        BY <3>3, <3>5 DEF ResourcesHaveOneHolder
    <2>15. WhatRunsIsHeld'
      BY <2>2, <2>4 DEF Inv, WhatRunsIsHeld, InStart, InSlot, Open
    <2>16. CleanupIsAwaited'
      <3>1. \A t \in Starts : Tracked(t) \/ t = s => Tracked(t)'
        BY <2>5 DEF Tracked, Roles
      <3>2. \A x \in Callers, t \in Starts : t # s /\ (ClearsUp(x, t) /\ job[x].pc = "spawn")' =>
              ClearsUp(x, t) /\ job[x].pc = "spawn"
        BY <2>1, <2>3 DEF ClearsUp, Busy
      <3> QED
        BY <2>2, <2>6, <2>4, <3>1, <3>2, CallersDiffer DEF Inv, CleanupIsAwaited, InSlot, InCleanup, Fault
    <2>17. LiveIsGivenUp'
      <3>1. \A t \in Starts : Closing(t)' => Closing(t)
        BY <2>2, <2>6, <2>3, <2>1, JobOf, JobGoesOn DEF Closing, InCleanup
      <3> QED
        BY <2>2, <2>6, <2>7, <3>1 DEF Inv, LiveIsGivenUp, StaysAwaited, IsLive, GaveUp, FindsOthersStored, Fault
    <2>18. ClearsAreLater'
      <3>1. \A d \in Callers, t \in Starts : (ClearsUp(d, t) /\ job[d].pc \in {"clearStop", "clear"})' =>
              ClearsUp(d, t) /\ d # c
        BY <2>3, <2>1 DEF ClearsUp, Busy
      <3> QED
        BY <2>2, <2>3, <3>1 DEF Inv, ClearsAreLater, Below, FindsOthersStored, Fault, GaveUp
    <2>19. ClearedStaysClear'
      <3>1. \A t \in Starts : Cleared(t)' => Cleared(t)
        BY <2>2, <2>6, <2>3, <2>1 DEF Cleared, InCleanup, ClearsUp, Busy
      <3> QED
        BY <2>2, <2>6, <3>1 DEF Inv, ClearedStaysClear, PutBack, FindsOthersStored, Fault, GaveUp, Below
    <2>20. VisibleIsAlive'
      <3>1. Cleared(active)' => Cleared(active)
        BY <2>2, <2>6, <2>3, <2>1 DEF Cleared, InCleanup, ClearsUp, Busy
      <3> QED
        BY <2>2, <2>6, <3>1 DEF Inv, VisibleIsAlive, HideIsPosted, FindsOthersStored, Cleared, InCleanup, ClearsUp, Busy
    <2> QED
      BY <2>1, <2>5, <2>8, <2>9, <2>10, <2>11, <2>12, <2>13, <2>14, <2>15, <2>16, <2>17, <2>18,
         <2>19, <2>20
      DEF Inv
  <1>3. CASE /\ JobAt(c, "register") /\ JobTo(c, "spawn") /\ ~IsActive(s)
             /\ UNCHANGED <<supVars, worker>>
    <2>1. /\ Theory!Inv' /\ Calm
          /\ JobTo(c, "spawn") /\ job[c].pc = "register" /\ active # s
          /\ UNCHANGED <<env, slot, control, start, worker, capture, processor, events, cleanup,
                        stopResult, monitor, failureCleanup, budget, text, pass, output, shown,
                        ui, frame, stops, presents>>
      BY <1>3, StutterEffect
      DEF Inv, RegisterCleanup, JobAt, Starts, NoSession, IsActive, Sup!IsActive, Sup!NoSession,
          ClearsUp, supVars, overlayVars, mainVars, threadVars, cleanupVars, monitorVars
    <2>2. UNCHANGED <<env, slot, control, start, worker, capture, processor, events, cleanup,
                       stopResult, monitor, failureCleanup, budget, text, pass, output, shown, ui,
                       frame, stops, presents>>
      BY <2>1
    <2>3. /\ job' \in [Callers -> Jobs]
          /\ job'[c].pc = "spawn" /\ job'[c].session = s /\ job'[c].held = job[c].held
          /\ job[c].held
          /\ \A d \in Callers : d # c => job'[d] = job[d]
      BY <2>1, JobMoved DEF ClearsUp, Inv, JobsAreOwned
    <2>4. \A d \in Callers, t \in Starts : InJob(d, t)' <=> InJob(d, t)
      BY <2>1, <2>3 DEF InJob, ClearsUp, Busy
    <2>5. InJob(c, s) /\ ~Tracked(s) /\ ~InCleanup(s) /\ active # s
      <3>1. InJob(c, s)
        BY <2>1 DEF InJob, ClearsUp, Inv, JobsAreOwned
      <3> QED
        BY <3>1, <2>1 DEF Inv, ResourcesHaveOneHolder, OneHolder, Open, InJob
    <2>6. /\ NumbersAreDistinct'
          /\ \A t \in Starts, r \in Roles : Holds(t, r) => Holds(t, r)'
      BY <2>1, ReportersKept
      DEF Calm, Steady
    <2>7. /\ UNCHANGED <<active, cleanupFinished, nextSession>>
          /\ cancelled \subseteq cancelled' /\ Advances
          /\ active = NoSession => UNCHANGED snapshot
          /\ NoneRuns
      BY <2>1
      DEF Calm, Steady, Advances, NoneRuns
    <2>8. \A t \in Starts : Tracked(t)' <=> Tracked(t)
      BY <2>2
      DEF Tracked, Roles
    <2>9. StaysAwaited
      BY <2>1, AwaitedByAll
      DEF Roles, Calm, Steady
    <2>10. Types'
      BY <2>2, <2>3, TypesKept DEF Kept
    <2>11. RevisionsAreOld' /\ ShowsAreAwaited'
      BY <2>2, <2>6, <2>7, <2>9, Undisturbed
    <2>12. UnstartedHasNothing'
      BY <2>2, <2>7, <2>3, <2>1, JobGoesOn
    <2>13. JobsAreOwned'
      BY <2>2, <2>7, <2>3, <2>1, JobGoesOn
    <2>14. ReportersAreHeld'
      <3>1. \A x \in Callers, t \in Starts : t # s /\ (ClearsUp(x, t) /\ job[x].pc = "spawn")' =>
              ClearsUp(x, t) /\ job[x].pc = "spawn"
        BY <2>1, <2>3 DEF ClearsUp, Busy
      <3> QED
        BY <2>2, <2>6, <2>8, <2>5, <3>1 DEF Inv, ReportersAreHeld, InStartup, Roles, InCleanup
    <2>15. StopMissesNoStore'
      BY <2>2, <2>7, <2>3, <2>1, JobGoesOn
    <2>16. ResourcesHaveOneHolder'
      <3>1. \A d \in Callers, t \in Starts :
              /\ job[d].pc = "spawn" /\ InJob(d, t) => job'[d].pc = "spawn"
              /\ ClearsUp(d, t)' /\ job'[d].pc \in {"fail", "finishFailed"} =>
                   ClearsUp(d, t) /\ job[d].pc \in {"fail", "finishFailed"}
        BY <2>3, <2>1 DEF InJob, ClearsUp, Busy
      <3> QED
        BY <2>2, <2>8, <2>4, <3>1, HolderKept DEF ResourcesHaveOneHolder
    <2>17. WhatRunsIsHeld'
      BY <2>2, <2>4 DEF Inv, WhatRunsIsHeld, InStart, InSlot, Open
    <2>18. CleanupIsAwaited'
      <3>1. \A x \in Callers, t \in Starts : t # s /\ (ClearsUp(x, t) /\ job[x].pc = "spawn")' =>
              ClearsUp(x, t) /\ job[x].pc = "spawn"
        BY <2>1, <2>3 DEF ClearsUp, Busy
      <3>2. failureCleanup[s]
        <4>1. CASE c = Main
          BY <4>1, <2>5 DEF Inv, CleanupIsAwaited
        <4>2. CASE c = Starter(s)
          <5>1. InStartup(s)
            BY <4>2, JobOf DEF InStartup
          <5> QED
            BY <5>1, <2>5, HolderIsActive DEF Inv, ReportersAreHeld
        <4>3. CASE c = MonitorOf(s)
          BY <4>3, JobOf
        <4> QED
          BY <4>1, <4>2, <4>3, JobOf
      <3> QED
        BY <2>2, <2>7, <2>8, <2>4, <3>1, <3>2, CallersDiffer DEF Inv, CleanupIsAwaited, InSlot, InCleanup, Fault
    <2>19. LiveIsGivenUp'
      <3>1. \A t \in Starts : Closing(t)' => Closing(t)
        BY <2>2, <2>7, <2>3, <2>1, JobOf, JobGoesOn DEF Closing, InCleanup
      <3> QED
        BY <2>2, <2>7, <2>9, <3>1 DEF Inv, LiveIsGivenUp, StaysAwaited, IsLive, GaveUp, FindsOthersStored, Fault
    <2>20. ClearsAreLater'
      <3>1. \A d \in Callers, t \in Starts : (ClearsUp(d, t) /\ job[d].pc \in {"clearStop", "clear"})' =>
              ClearsUp(d, t) /\ d # c
        BY <2>3, <2>1 DEF ClearsUp, Busy
      <3> QED
        BY <2>2, <2>3, <3>1 DEF Inv, ClearsAreLater, Below, FindsOthersStored, Fault, GaveUp
    <2>21. ClearedStaysClear'
      <3>1. \A t \in Starts : Cleared(t)' => Cleared(t)
        BY <2>2, <2>7, <2>3, <2>1 DEF Cleared, InCleanup, ClearsUp, Busy
      <3> QED
        BY <2>2, <2>7, <3>1 DEF Inv, ClearedStaysClear, PutBack, FindsOthersStored, Fault, GaveUp, Below
    <2>22. VisibleIsAlive'
      <3>1. Cleared(active)' => Cleared(active)
        BY <2>2, <2>7, <2>3, <2>1 DEF Cleared, InCleanup, ClearsUp, Busy
      <3> QED
        BY <2>2, <2>7, <3>1 DEF Inv, VisibleIsAlive, HideIsPosted, FindsOthersStored, Cleared, InCleanup, ClearsUp, Busy
    <2> QED
      BY <2>1, <2>6, <2>10, <2>11, <2>12, <2>13, <2>14, <2>15, <2>16, <2>17, <2>18, <2>19, <2>20,
         <2>21, <2>22
      DEF Inv
  <1> QED
    BY <1>1, <1>2, <1>3 DEF RegisterCleanup, ClearsUp

LEMMA SpawnCleanupStep ==
  ASSUME Inv, NEW c \in Callers, NEW s \in Starts, ClearsUp(c, s), SpawnCleanup(c)
  PROVE  Inv'
  <1>1. CASE /\ JobAt(c, "spawn") /\ JobTo(c, "idle") /\ cleanup' = [cleanup EXCEPT ![s] = "stop"]
             /\ UNCHANGED <<supVars, capture>>
    <2>1. /\ Theory!Inv' /\ Calm
          /\ JobTo(c, "idle") /\ job[c].pc = "spawn"
          /\ cleanup' = [cleanup EXCEPT ![s] = "stop"]
          /\ UNCHANGED <<env, slot, control, start, worker, capture, processor, events,
                        stopResult, monitor, failureCleanup, budget, text, pass, output, shown,
                        ui, frame, stops, presents>>
      BY <1>1, StutterEffect
      DEF Inv, SpawnCleanup, JobAt, ClearsUp, supVars, overlayVars, mainVars, threadVars,
          cleanupVars, monitorVars
    <2>2. UNCHANGED <<env, slot, control, start, worker, capture, processor, events, stopResult,
                       monitor, failureCleanup, budget, text, pass, output, shown, ui, frame,
                       stops, presents>>
      BY <2>1
    <2>3. /\ job' \in [Callers -> Jobs]
          /\ job'[c].pc = "idle" /\ job'[c].session = s /\ job'[c].held = job[c].held
          /\ job[c].held
          /\ \A d \in Callers : d # c => job'[d] = job[d]
      BY <2>1, JobMoved DEF ClearsUp, Inv, JobsAreOwned
    <2>4. /\ InJob(c, s) /\ ~InStart(s) /\ ~InSlot(s) /\ ~InCleanup(s) /\ Open(s)
          /\ \A x \in Callers : InJob(x, s) => x = c
      <3>1. InJob(c, s)
        BY <2>1 DEF InJob, ClearsUp, Inv, JobsAreOwned
      <3> QED
        BY <3>1, <2>1 DEF Inv, ResourcesHaveOneHolder, OneHolder, InJob
    <2>5. /\ \A x \in Callers, t \in Starts : t # s => (InJob(x, t)' <=> InJob(x, t))
          /\ \A x \in Callers : ~InJob(x, s)'
      BY <2>1, <2>3, <2>4 DEF InJob, ClearsUp
    <2>6. /\ cleanup'[s] = "stop" /\ \A t \in Starts : t # s => cleanup'[t] = cleanup[t]
          /\ cleanup' \in [Starts -> {"none", "stop", "join", "report", "finish", "ended"}]
      BY <2>1 DEF Inv, Types
    <2>7. /\ NumbersAreDistinct'
          /\ \A t \in Starts, r \in Roles : Holds(t, r) => Holds(t, r)'
      BY <2>1, ReportersKept
      DEF Calm, Steady
    <2>8. /\ UNCHANGED <<active, cleanupFinished, nextSession>>
          /\ cancelled \subseteq cancelled' /\ Advances
          /\ active = NoSession => UNCHANGED snapshot
          /\ NoneRuns
      BY <2>1
      DEF Calm, Steady, Advances, NoneRuns
    <2>9. \A t \in Starts : Tracked(t)' <=> Tracked(t)
      BY <2>2
      DEF Tracked, Roles
    <2>10. StaysAwaited
      BY <2>1, AwaitedByAll
      DEF Roles, Calm, Steady
    <2>11. Types'
      BY <2>2, <2>3, <2>6, TypesKept DEF Kept
    <2>12. RevisionsAreOld' /\ ShowsAreAwaited'
      BY <2>2, <2>7, <2>8, <2>10, Undisturbed
    <2>13. UnstartedHasNothing'
      BY <2>2, <2>8, <2>3, <2>1, JobGoesOn
    <2>14. JobsAreOwned'
      BY <2>2, <2>8, <2>3, <2>1, JobGoesOn
    <2>15. ReportersAreHeld'
      <3>1. \A x \in Callers, t \in Starts : (ClearsUp(x, t) /\ job[x].pc = "spawn")' =>
              ClearsUp(x, t) /\ job[x].pc = "spawn"
        BY <2>1, <2>3 DEF ClearsUp, Busy
      <3>2. Tracked(s) => Holds(s, "shutdown")
        BY <2>1 DEF Inv, ReportersAreHeld
      <3> QED
        BY <2>2, <2>7, <2>9, <2>6, <3>1, <3>2 DEF Inv, ReportersAreHeld, InStartup, Roles
    <2>16. StopMissesNoStore'
      BY <2>2, <2>8, <2>3, <2>1, JobGoesOn
    <2>17. ResourcesHaveOneHolder'
      <3>1. \A x \in Callers, t \in Starts :
              /\ job[x].pc = "spawn" /\ InJob(x, t) /\ t # s => job'[x].pc = "spawn"
              /\ ClearsUp(x, t)' /\ job'[x].pc \in {"fail", "finishFailed"} =>
                   (ClearsUp(x, t) /\ job[x].pc \in {"fail", "finishFailed"}) \/ (x = c /\ t = s)
        BY <2>1, <2>3, <2>4 DEF InJob, ClearsUp, Busy
      <3>2. \A t \in Starts : t # s => OneHolder(t)'
        BY <2>2, <2>9, <2>5, <2>6, <3>1, HolderKept
      <3>3. OneHolder(s) /\ InCleanup(s)' /\ Open(s)'
        BY <2>2, <2>4, <2>6 DEF Inv, ResourcesHaveOneHolder, InCleanup, Open
      <3>4. OneHolder(s)'
        BY <2>2, <2>9, <2>3, <2>4, <2>5, <3>1, <3>3 DEF OneHolder, InStart, InSlot, Open
      <3> QED
        BY <3>2, <3>4 DEF ResourcesHaveOneHolder
    <2>18. WhatRunsIsHeld'
      BY <2>2, <2>5, <2>6 DEF Inv, WhatRunsIsHeld, InStart, InSlot, Open
    <2>19. CleanupIsAwaited'
      <3>1. \A x \in Callers, t \in Starts : (ClearsUp(x, t) /\ job[x].pc = "spawn")' =>
              ClearsUp(x, t) /\ job[x].pc = "spawn"
        BY <2>1, <2>3 DEF ClearsUp, Busy
      <3>2. ~Tracked(s) => failureCleanup[s]
        BY <2>1 DEF Inv, CleanupIsAwaited
      <3>3. \A t \in Starts : InCleanup(t)' => InCleanup(t) \/ t = s
        BY <2>6 DEF InCleanup
      <3>4. \A t \in Starts : InJob(Main, t)' => InJob(Main, t)
        BY <2>5, CallersDiffer
      <3> QED
        BY <2>2, <2>8, <2>9, <3>1, <3>2, <3>3, <3>4 DEF Inv, CleanupIsAwaited, InSlot, Fault
    <2>20. LiveIsGivenUp'
      <3>1. \A t \in Starts : Closing(t)' => Closing(t)
        <4>1. \A x \in Callers, t \in Starts : ClearsUp(x, t)' => ClearsUp(x, t)
          BY <2>2, <2>8, <2>3, <2>1, JobGoesOn
        <4>2. \A t \in Starts : InCleanup(t)' => InCleanup(t) \/ t = s
          BY <2>6 DEF InCleanup
        <4>3. Closing(s)
          BY JobOf
        <4> QED
          BY <2>8, <4>1, <4>2, <4>3 DEF Closing
      <3> QED
        BY <2>2, <2>8, <2>10, <3>1 DEF Inv, LiveIsGivenUp, StaysAwaited, IsLive, GaveUp, FindsOthersStored, Fault
    <2>21. ClearsAreLater'
      <3>1. \A d \in Callers, t \in Starts : (ClearsUp(d, t) /\ job[d].pc \in {"clearStop", "clear"})' =>
              ClearsUp(d, t) /\ d # c
        BY <2>3, <2>1 DEF ClearsUp, Busy
      <3> QED
        BY <2>2, <2>3, <3>1 DEF Inv, ClearsAreLater, Below, FindsOthersStored, Fault, GaveUp
    <2>22. ClearedStaysClear'
      <3>1. \A t \in Starts : Cleared(t)' => Cleared(t)
        BY <2>2, <2>8, <2>3, <2>6, <2>1 DEF Cleared, InCleanup, ClearsUp, Busy
      <3> QED
        BY <2>2, <2>8, <3>1 DEF Inv, ClearedStaysClear, PutBack, FindsOthersStored, Fault, GaveUp, Below
    <2>23. VisibleIsAlive'
      <3>1. \A t \in Starts : Cleared(t)' => Cleared(t)
        BY <2>2, <2>8, <2>3, <2>6, <2>1 DEF Cleared, InCleanup, ClearsUp, Busy
      <3>2. active # NoSession => active \in Starts
        BY Numbers
      <3> QED
        BY <2>2, <2>8, <3>1, <3>2 DEF Inv, VisibleIsAlive, HideIsPosted, FindsOthersStored
    <2> QED
      BY <2>1, <2>7, <2>11, <2>12, <2>13, <2>14, <2>15, <2>16, <2>17, <2>18, <2>19, <2>20, <2>21,
         <2>22, <2>23
      DEF Inv
  <1>2. CASE /\ JobAt(c, "spawn") /\ JobTo(c, "fail") /\ Report(s, "shutdown", "Exited")
             /\ capture' = [capture EXCEPT ![s] = "stopped"] /\ UNCHANGED cleanup
    <2>1. /\ Theory!Inv' /\ Reports(s, "shutdown", "Exited")
          /\ JobTo(c, "fail") /\ job[c].pc = "spawn"
          /\ capture' = [capture EXCEPT ![s] = "stopped"]
          /\ UNCHANGED <<env, slot, control, start, worker, processor, events, cleanup,
                        stopResult, monitor, failureCleanup, budget, text, pass, output, shown,
                        ui, frame, stops, presents>>
      BY <1>2, ReportEffect
      DEF Inv, SpawnCleanup, JobAt, ClearsUp, supVars, overlayVars, mainVars, threadVars,
          cleanupVars, monitorVars
    <2>2. UNCHANGED <<env, slot, control, start, worker, processor, events, cleanup, stopResult,
                       monitor, failureCleanup, budget, text, pass, output, shown, ui, frame,
                       stops, presents>>
      BY <2>1
    <2>3. /\ job' \in [Callers -> Jobs]
          /\ job'[c].pc = "fail" /\ job'[c].session = s /\ job'[c].held = job[c].held
          /\ job[c].held
          /\ \A d \in Callers : d # c => job'[d] = job[d]
      BY <2>1, JobMoved DEF ClearsUp, Inv, JobsAreOwned
    <2>4. /\ InJob(c, s) /\ ~InStart(s) /\ ~InSlot(s) /\ ~InCleanup(s) /\ Open(s)
          /\ \A x \in Callers : InJob(x, s) => x = c
      <3>1. InJob(c, s)
        BY <2>1 DEF InJob, ClearsUp, Inv, JobsAreOwned
      <3> QED
        BY <3>1, <2>1 DEF Inv, ResourcesHaveOneHolder, OneHolder, InJob
    <2>5. /\ \A x \in Callers, t \in Starts : t # s => (InJob(x, t)' <=> InJob(x, t))
          /\ \A x \in Callers : ~InJob(x, s)'
      BY <2>1, <2>3, <2>4 DEF InJob, ClearsUp
    <2>6. /\ capture'[s] = "stopped" /\ \A t \in Starts : t # s => capture'[t] = capture[t]
          /\ capture' \in [Starts -> {"none", "live", "closed", "stopped"}]
      BY <2>1 DEF Inv, Types
    <2>7. /\ NumbersAreDistinct'
          /\ \A t \in Starts, r \in Roles : Holds(t, r) /\ ~(t = s /\ r = "shutdown") => Holds(t, r)'
      BY <2>1, ReportersReported
      DEF Roles
    <2>8. /\ UNCHANGED <<active, cleanupFinished, nextSession>>
          /\ cancelled \subseteq cancelled' /\ Advances
          /\ active = NoSession => UNCHANGED snapshot
          /\ NoneRuns
      BY <2>1
      DEF Reports, Advances, NoneRuns
    <2>9. \A t \in Starts : Tracked(t)' <=> Tracked(t)
      BY <2>2
      DEF Tracked, Roles
    <2>10. StaysAwaited
      BY <2>1, AwaitedByAll
      DEF Roles, Reports
    <2>11. Types'
      BY <2>2, <2>3, <2>6, TypesKept DEF Kept
    <2>12. RevisionsAreOld' /\ ShowsAreAwaited'
      BY <2>2, <2>7, <2>8, <2>10, Undisturbed
    <2>13. UnstartedHasNothing'
      <3>1. s < nextSession /\ \A x \in Callers : job'[x].session = job[x].session
        BY <2>3, JobOf DEF ClearsUp
      <3>2. nextSession > 1 => snapshot'.revision > 0
        BY <2>8, Numbers DEF Inv, UnstartedHasNothing, Guarantees, Advances
      <3>3. \A t \in Starts : t >= nextSession => capture'[t] = "none"
        BY <3>1, <2>6, Numbers DEF Inv, UnstartedHasNothing
      <3> QED
        BY <2>2, <2>8, <3>1, <3>2, <3>3 DEF Inv, UnstartedHasNothing
    <2>14. JobsAreOwned'
      BY <2>2, <2>8, <2>3, <2>1, JobGoesOn
    <2>15. ReportersAreHeld'
      <3>1. \A x \in Callers, t \in Starts : (ClearsUp(x, t) /\ job[x].pc = "spawn")' =>
              ClearsUp(x, t) /\ job[x].pc = "spawn" /\ t # s
        BY <2>1, <2>3, <2>4 DEF ClearsUp, Busy, InJob, Inv, JobsAreOwned
      <3>2. cleanup[s] = "none"
        BY <2>4 DEF InCleanup
      <3> QED
        BY <2>2, <2>7, <2>9, <3>1, <3>2 DEF Inv, ReportersAreHeld, InStartup, Roles
    <2>16. StopMissesNoStore'
      BY <2>2, <2>8, <2>3, <2>1, JobGoesOn
    <2>17. ResourcesHaveOneHolder'
      <3>1. \A x \in Callers, t \in Starts :
              /\ job[x].pc = "spawn" /\ InJob(x, t) /\ t # s => job'[x].pc = "spawn"
              /\ ClearsUp(x, t)' /\ job'[x].pc \in {"fail", "finishFailed"} =>
                   (ClearsUp(x, t) /\ job[x].pc \in {"fail", "finishFailed"}) \/ (x = c /\ t = s)
        BY <2>1, <2>3, <2>4 DEF InJob, ClearsUp, Busy
      <3>2. \A t \in Starts : t # s => OneHolder(t)'
        BY <2>2, <2>9, <2>5, <2>6, <3>1, HolderKept
      <3>3. /\ OneHolder(s) /\ ~Open(s)' /\ capture[s] # "none"
            /\ ~InStart(s)' /\ ~InSlot(s)' /\ ~InCleanup(s)' /\ cleanup'[s] = "none"
        BY <2>2, <2>4, <2>6 DEF Inv, ResourcesHaveOneHolder, InCleanup, Open, InStart, InSlot
      <3>4. OneHolder(s)'
        BY <2>2, <2>9, <2>5, <2>6, <3>3 DEF OneHolder
      <3> QED
        BY <3>2, <3>4 DEF ResourcesHaveOneHolder
    <2>18. WhatRunsIsHeld'
      BY <2>2, <2>5, <2>6 DEF Inv, WhatRunsIsHeld, InStart, InSlot, Open
    <2>19. CleanupIsAwaited'
      <3>1. \A x \in Callers, t \in Starts : (ClearsUp(x, t) /\ job[x].pc = "spawn")' =>
              ClearsUp(x, t) /\ job[x].pc = "spawn"
        BY <2>1, <2>3 DEF ClearsUp, Busy
      <3>4. \A t \in Starts : InJob(Main, t)' => InJob(Main, t)
        BY <2>5, CallersDiffer
      <3> QED
        BY <2>2, <2>8, <2>9, <3>1, <3>4 DEF Inv, CleanupIsAwaited, InSlot, InCleanup, Fault
    <2>20. LiveIsGivenUp'
      <3>1. \A t \in Starts : Closing(t)' => Closing(t)
        BY <2>2, <2>8, <2>3, <2>1, JobOf, JobGoesOn DEF Closing, InCleanup
      <3> QED
        BY <2>2, <2>8, <2>10, <3>1 DEF Inv, LiveIsGivenUp, StaysAwaited, IsLive, GaveUp, FindsOthersStored, Fault
    <2>21. ClearsAreLater'
      <3>1. \A d \in Callers, t \in Starts : (ClearsUp(d, t) /\ job[d].pc \in {"clearStop", "clear"})' =>
              ClearsUp(d, t) /\ d # c
        BY <2>3, <2>1 DEF ClearsUp, Busy
      <3> QED
        BY <2>2, <2>3, <3>1 DEF Inv, ClearsAreLater, Below, FindsOthersStored, Fault, GaveUp
    <2>22. ClearedStaysClear'
      <3>1. \A t \in Starts : Cleared(t)' => Cleared(t)
        BY <2>2, <2>8, <2>3, <2>1 DEF Cleared, InCleanup, ClearsUp, Busy
      <3> QED
        BY <2>2, <2>8, <3>1 DEF Inv, ClearedStaysClear, PutBack, FindsOthersStored, Fault, GaveUp, Below
    <2>23. VisibleIsAlive'
      <3>1. \A t \in Starts : Cleared(t)' => Cleared(t)
        BY <2>2, <2>8, <2>3, <2>1 DEF Cleared, InCleanup, ClearsUp, Busy
      <3>2. active # NoSession => active \in Starts
        BY Numbers
      <3> QED
        BY <2>2, <2>8, <3>1, <3>2 DEF Inv, VisibleIsAlive, HideIsPosted, FindsOthersStored
    <2> QED
      BY <2>1, <2>7, <2>11, <2>12, <2>13, <2>14, <2>15, <2>16, <2>17, <2>18, <2>19, <2>20, <2>21,
         <2>22, <2>23
      DEF Inv
  <1>3. CASE /\ JobAt(c, "fail") /\ JobTo(c, "finishFailed") /\ Try(IsActive(s), Sup!Fail(s))
             /\ UNCHANGED <<cleanup, capture>>
    <2>1. /\ Theory!Inv' /\ Calm
          /\ JobTo(c, "finishFailed") /\ job[c].pc = "fail"
          /\ UNCHANGED <<env, slot, control, start, worker, capture, processor, events, cleanup,
                        stopResult, monitor, failureCleanup, budget, text, pass, output, shown,
                        ui, frame, stops, presents>>
      BY <1>3, FailEffect
      DEF Inv, SpawnCleanup, JobAt, ClearsUp, supVars, overlayVars, mainVars, threadVars,
          cleanupVars, monitorVars
    <2>2. UNCHANGED <<env, slot, control, start, worker, capture, processor, events, cleanup,
                       stopResult, monitor, failureCleanup, budget, text, pass, output, shown, ui,
                       frame, stops, presents>>
      BY <2>1
    <2>3. /\ job' \in [Callers -> Jobs]
          /\ job'[c].pc = "finishFailed" /\ job'[c].session = s /\ job'[c].held = job[c].held
          /\ job[c].held
          /\ \A d \in Callers : d # c => job'[d] = job[d]
      BY <2>1, JobMoved DEF ClearsUp, Inv, JobsAreOwned
    <2>4. \A d \in Callers, t \in Starts : InJob(d, t)' <=> InJob(d, t)
      BY <2>1, <2>3 DEF InJob, ClearsUp, Busy
    <2>5. /\ NumbersAreDistinct'
          /\ \A t \in Starts, r \in Roles : Holds(t, r) => Holds(t, r)'
      BY <2>1, ReportersKept
      DEF Calm, Steady
    <2>6. /\ UNCHANGED <<active, cleanupFinished, nextSession>>
          /\ cancelled \subseteq cancelled' /\ Advances
          /\ active = NoSession => UNCHANGED snapshot
          /\ NoneRuns
      BY <2>1
      DEF Calm, Steady, Advances, NoneRuns
    <2>7. \A t \in Starts : Tracked(t)' <=> Tracked(t)
      BY <2>2
      DEF Tracked, Roles
    <2>8. StaysAwaited
      BY <2>1, AwaitedByAll
      DEF Roles, Calm, Steady
    <2>9. Types'
      BY <2>2, <2>3, TypesKept DEF Kept
    <2>10. RevisionsAreOld' /\ ShowsAreAwaited'
      BY <2>2, <2>5, <2>6, <2>8, Undisturbed
    <2>11. UnstartedHasNothing'
      BY <2>2, <2>6, <2>3, <2>1, JobGoesOn
    <2>12. JobsAreOwned'
      BY <2>2, <2>6, <2>3, <2>1, JobGoesOn
    <2>13. ReportersAreHeld'
      <3>1. \A d \in Callers, t \in Starts : (ClearsUp(d, t) /\ job[d].pc = "spawn")' =>
              ClearsUp(d, t) /\ job[d].pc = "spawn"
        BY <2>3, <2>1 DEF ClearsUp, Busy
      <3> QED
        BY <2>2, <2>5, <2>7, <3>1 DEF Inv, ReportersAreHeld, InStartup, Roles
    <2>14. StopMissesNoStore'
      BY <2>2, <2>6, <2>3, <2>1, JobGoesOn
    <2>15. ResourcesHaveOneHolder'
      <3>1. \A x \in Callers, t \in Starts :
              /\ job[x].pc = "spawn" /\ InJob(x, t) => job'[x].pc = "spawn"
              /\ ClearsUp(x, t)' /\ job'[x].pc \in {"fail", "finishFailed"} =>
                   ClearsUp(x, t) /\ job[x].pc \in {"fail", "finishFailed"}
        BY <2>1, <2>3 DEF InJob, ClearsUp, Busy
      <3> QED
        BY <2>2, <2>7, <2>4, <3>1, HolderKept DEF ResourcesHaveOneHolder
    <2>16. WhatRunsIsHeld'
      BY <2>2, <2>4 DEF Inv, WhatRunsIsHeld, InStart, InSlot, Open
    <2>17. CleanupIsAwaited'
      <3>1. \A d \in Callers, t \in Starts : (ClearsUp(d, t) /\ job[d].pc = "spawn")' =>
              ClearsUp(d, t) /\ job[d].pc = "spawn"
        BY <2>3, <2>1 DEF ClearsUp, Busy
      <3> QED
        BY <2>2, <2>6, <2>7, <2>4, <3>1, CallersDiffer DEF Inv, CleanupIsAwaited, InSlot, InCleanup, Fault
    <2>18. LiveIsGivenUp'
      <3>1. \A t \in Starts : Closing(t)' => Closing(t)
        BY <2>2, <2>6, <2>3, <2>1, JobOf, JobGoesOn DEF Closing, InCleanup
      <3> QED
        BY <2>2, <2>6, <2>8, <3>1 DEF Inv, LiveIsGivenUp, StaysAwaited, IsLive, GaveUp, FindsOthersStored, Fault
    <2>19. ClearsAreLater'
      <3>1. \A d \in Callers, t \in Starts : (ClearsUp(d, t) /\ job[d].pc \in {"clearStop", "clear"})' =>
              ClearsUp(d, t) /\ d # c
        BY <2>3, <2>1 DEF ClearsUp, Busy
      <3> QED
        BY <2>2, <2>3, <3>1 DEF Inv, ClearsAreLater, Below, FindsOthersStored, Fault, GaveUp
    <2>20. ClearedStaysClear'
      <3>1. \A t \in Starts : Cleared(t)' => Cleared(t)
        BY <2>2, <2>6, <2>3, <2>1 DEF Cleared, InCleanup, ClearsUp, Busy
      <3> QED
        BY <2>2, <2>6, <3>1 DEF Inv, ClearedStaysClear, PutBack, FindsOthersStored, Fault, GaveUp, Below
    <2>21. VisibleIsAlive'
      <3>1. Cleared(active)' => Cleared(active)
        BY <2>2, <2>6, <2>3, <2>1 DEF Cleared, InCleanup, ClearsUp, Busy
      <3> QED
        BY <2>2, <2>6, <3>1 DEF Inv, VisibleIsAlive, HideIsPosted, FindsOthersStored, Cleared, InCleanup, ClearsUp, Busy
    <2> QED
      BY <2>1, <2>5, <2>9, <2>10, <2>11, <2>12, <2>13, <2>14, <2>15, <2>16, <2>17, <2>18, <2>19,
         <2>20, <2>21
      DEF Inv
  <1>4. CASE /\ JobAt(c, "finishFailed") /\ JobTo(c, "idle")
             /\ Try(IsActive(s), Sup!FinishCleanup(s, FALSE)) /\ UNCHANGED <<cleanup, capture>>
    <2>1. Theory!Inv' /\ (Calm \/ Finishes(s))
      BY <1>4, FinishEffect DEF Inv
    <2>2. UNCHANGED <<env, slot, control, start, worker, capture, processor, events, cleanup,
                         stopResult, monitor, failureCleanup, budget, text, pass, output, shown,
                         ui, frame, stops, presents>>
      BY <1>4 DEF SpawnCleanup, overlayVars, mainVars, threadVars, cleanupVars, monitorVars
    <2>3. job[c].pc = "finishFailed"
      BY <1>4 DEF JobAt
    <2> QED
      BY <1>4, <2>1, <2>2, <2>3, JobEnds
  <1> QED
    BY <1>1, <1>2, <1>3, <1>4 DEF SpawnCleanup, ClearsUp

-----------------------------------------------------------------------------
(* The cleanup thread.                                                     *)

LEMMA CleanupStepStep ==
  ASSUME Inv, NEW s \in Starts, CleanupStep(s)
  PROVE  Inv'
  <1>1. CASE /\ cleanup[s] = "stop" /\ cleanup' = [cleanup EXCEPT ![s] = "join"] /\ UNCHANGED supVars
             /\ capture' = [capture EXCEPT ![s] = "stopped"]
             /\ \E ok \in BOOLEAN : stopResult' = [stopResult EXCEPT ![s] = ok]
    <2>1. /\ Theory!Inv' /\ Calm
          /\ cleanup[s] = "stop"
          /\ cleanup' = [cleanup EXCEPT ![s] = "join"]
          /\ capture' = [capture EXCEPT ![s] = "stopped"]
          /\ \E ok \in BOOLEAN : stopResult' = [stopResult EXCEPT ![s] = ok]
          /\ UNCHANGED <<env, slot, control, start, worker, job, processor, events, monitor,
                        failureCleanup, budget, text, pass, output, shown, ui, frame, stops,
                        presents>>
      BY <1>1, StutterEffect
      DEF Inv, CleanupStep, supVars, overlayVars, mainVars, threadVars, cleanupVars, monitorVars
    <2>2. UNCHANGED <<env, slot, control, start, worker, job, processor, events, monitor,
                       failureCleanup, budget, text, pass, output, shown, ui, frame, stops,
                       presents>>
      BY <2>1
    <2>3. /\ cleanup[s] = "stop" /\ cleanup'[s] = "join" /\ \A t \in Starts : t # s => cleanup'[t] = cleanup[t]
          /\ cleanup' \in [Starts -> {"none", "stop", "join", "report", "finish", "ended"}]
      BY <2>1 DEF Inv, Types
    <2>4. /\ InCleanup(s) /\ ~InStart(s) /\ ~InSlot(s) /\ (\A x \in Callers : ~InJob(x, s))
          /\ \A t \in Starts : InCleanup(t)' <=> InCleanup(t)
      <3>1. InCleanup(s) /\ \A t \in Starts : InCleanup(t)' <=> InCleanup(t)
        BY <2>1, <2>3 DEF InCleanup
      <3> QED
        BY <3>1 DEF Inv, ResourcesHaveOneHolder, OneHolder
    <2>5. /\ capture'[s] = "stopped" /\ \A t \in Starts : t # s => capture'[t] = capture[t]
          /\ capture' \in [Starts -> {"none", "live", "closed", "stopped"}]
          /\ stopResult' \in [Starts -> BOOLEAN] /\ capture[s] # "none"
      <3>1. OneHolder(s) /\ cleanup[s] = "stop"
        BY <2>1 DEF Inv, ResourcesHaveOneHolder
      <3>2. Open(s)
        BY <3>1 DEF OneHolder
      <3>3. stopResult' \in [Starts -> BOOLEAN]
        BY <2>1 DEF Inv, Types
      <3>4. capture \in [Starts -> {"none", "live", "closed", "stopped"}]
        BY DEF Inv, Types
      <3> QED
        BY <2>1, <3>2, <3>3, <3>4 DEF Open
    <2>6. /\ NumbersAreDistinct'
          /\ \A t \in Starts, r \in Roles : Holds(t, r) => Holds(t, r)'
      BY <2>1, ReportersKept
      DEF Calm, Steady
    <2>7. /\ UNCHANGED <<active, cleanupFinished, nextSession>>
          /\ cancelled \subseteq cancelled' /\ Advances
          /\ active = NoSession => UNCHANGED snapshot
          /\ NoneRuns
      BY <2>1
      DEF Calm, Steady, Advances, NoneRuns
    <2>8. \A t \in Starts : Tracked(t)' <=> Tracked(t)
      BY <2>2
      DEF Tracked, Roles
    <2>9. StaysAwaited
      BY <2>1, AwaitedByAll
      DEF Roles, Calm, Steady
    <2>10. Types'
      BY <2>2, <2>3, <2>5, TypesKept DEF Kept
    <2>11. JobsAreOwned' /\ StopMissesNoStore' /\ RevisionsAreOld' /\ ClearsAreLater' /\
           ShowsAreAwaited'
      BY <2>2, <2>6, <2>7, <2>9, Undisturbed
    <2>12. UnstartedHasNothing'
      <3>1. s < nextSession
        BY <2>5, Numbers DEF Inv, UnstartedHasNothing, Guarantees
      <3>2. nextSession > 1 => snapshot'.revision > 0
        BY <2>7, Numbers DEF Inv, UnstartedHasNothing, Guarantees, Advances
      <3>3. \A t \in Starts : t >= nextSession => capture'[t] = "none"
        BY <3>1, <2>5, Numbers DEF Inv, UnstartedHasNothing
      <3> QED
        BY <2>2, <2>7, <3>2, <3>3 DEF Inv, UnstartedHasNothing
    <2>13. ReportersAreHeld'
      <3>1. \A x \in Callers, t \in Starts : ClearsUp(x, t)' <=> ClearsUp(x, t)
        BY <2>2 DEF ClearsUp, Busy
      <3>2. ~(\E x \in Callers : ClearsUp(x, s) /\ job[x].pc = "spawn")
        BY <2>4 DEF InJob, ClearsUp, Inv, JobsAreOwned
      <3> QED
        BY <2>2, <2>6, <2>8, <2>3, <3>1, <3>2 DEF Inv, ReportersAreHeld, InStartup, Roles
    <2>14. ResourcesHaveOneHolder'
      <3>1. \A x \in Callers, t \in Starts : (InJob(x, t)' <=> InJob(x, t)) /\ (ClearsUp(x, t)' <=> ClearsUp(x, t))
        BY <2>2 DEF InJob, ClearsUp, Busy
      <3>2. \A t \in Starts : t # s => OneHolder(t)'
        BY <2>2, <2>8, <2>3, <2>5, <3>1, HolderKept
      <3>3. OneHolder(s) /\ ~InStart(s)' /\ ~InSlot(s)'
        BY <2>2, <2>4 DEF Inv, ResourcesHaveOneHolder, InStart, InSlot
      <3>4. OneHolder(s)'
        BY <2>2, <2>8, <2>3, <2>4, <2>5, <3>1, <3>3 DEF OneHolder, Open
      <3> QED
        BY <3>2, <3>4 DEF ResourcesHaveOneHolder
    <2>15. WhatRunsIsHeld'
      <3>1. \A x \in Callers, t \in Starts : InJob(x, t)' <=> InJob(x, t)
        BY <2>2 DEF InJob
      <3> QED
        BY <2>2, <2>3, <2>4, <2>5, <3>1 DEF Inv, WhatRunsIsHeld, InStart, InSlot, Open
    <2>16. CleanupIsAwaited'
      <3>1. \A x \in Callers, t \in Starts : (InJob(x, t)' <=> InJob(x, t)) /\ (ClearsUp(x, t)' <=> ClearsUp(x, t))
        BY <2>2 DEF InJob, ClearsUp, Busy
      <3> QED
        BY <2>2, <2>7, <2>8, <2>4, <3>1, CallersDiffer DEF Inv, CleanupIsAwaited, InSlot, Fault
    <2>17. LiveIsGivenUp'
      <3>1. \A t \in Starts : Closing(t)' <=> Closing(t)
        BY <2>2, <2>7, <2>4 DEF Closing, ClearsUp, Busy
      <3> QED
        BY <2>2, <2>7, <2>9, <3>1 DEF Inv, LiveIsGivenUp, StaysAwaited, IsLive, GaveUp, FindsOthersStored, Fault
    <2>18. ClearedStaysClear'
      <3>1. \A t \in Starts : Cleared(t)' <=> Cleared(t)
        BY <2>2, <2>7, <2>4 DEF Cleared, ClearsUp, Busy
      <3> QED
        BY <2>2, <2>7, <3>1 DEF Inv, ClearedStaysClear, PutBack, FindsOthersStored, Fault, GaveUp, Below
    <2>19. VisibleIsAlive'
      <3>1. \A t \in Starts : Cleared(t)' <=> Cleared(t)
        BY <2>2, <2>7, <2>4 DEF Cleared, ClearsUp, Busy
      <3>2. active # NoSession => active \in Starts
        BY Numbers
      <3> QED
        BY <2>2, <2>7, <3>1, <3>2 DEF Inv, VisibleIsAlive, HideIsPosted, FindsOthersStored
    <2> QED
      BY <2>1, <2>6, <2>10, <2>11, <2>12, <2>13, <2>14, <2>15, <2>16, <2>17, <2>18, <2>19
      DEF Inv
  <1>2. CASE /\ cleanup[s] = "join" /\ worker[s]["shutdown"] = NoWorker
             /\ cleanup' = [cleanup EXCEPT ![s] = "ended"]
             /\ UNCHANGED <<supVars, capture, stopResult>>
    <2>1. /\ Theory!Inv' /\ Calm
          /\ cleanup[s] = "join"
          /\ cleanup' = [cleanup EXCEPT ![s] = "ended"]
          /\ UNCHANGED <<env, slot, control, start, worker, job, capture, processor, events,
                        stopResult, monitor, failureCleanup, budget, text, pass, output, shown,
                        ui, frame, stops, presents>>
      BY <1>2, StutterEffect
      DEF Inv, CleanupStep, supVars, overlayVars, mainVars, threadVars, cleanupVars, monitorVars
    <2>2. UNCHANGED <<env, slot, control, start, worker, job, capture, processor, events,
                       stopResult, monitor, failureCleanup, budget, text, pass, output, shown, ui,
                       frame, stops, presents>>
      BY <2>1
    <2>3. /\ cleanup[s] = "join" /\ cleanup'[s] = "ended" /\ \A t \in Starts : t # s => cleanup'[t] = cleanup[t]
          /\ cleanup' \in [Starts -> {"none", "stop", "join", "report", "finish", "ended"}]
      BY <2>1 DEF Inv, Types
    <2>4. /\ InCleanup(s) /\ ~InStart(s) /\ ~InSlot(s) /\ (\A x \in Callers : ~InJob(x, s))
          /\ \A t \in Starts : InCleanup(t)' <=> InCleanup(t)
      <3>1. InCleanup(s) /\ \A t \in Starts : InCleanup(t)' <=> InCleanup(t)
        BY <2>1, <2>3 DEF InCleanup
      <3> QED
        BY <3>1 DEF Inv, ResourcesHaveOneHolder, OneHolder
    <2>5. /\ NumbersAreDistinct'
          /\ \A t \in Starts, r \in Roles : Holds(t, r) => Holds(t, r)'
      BY <2>1, ReportersKept
      DEF Calm, Steady
    <2>6. /\ UNCHANGED <<active, cleanupFinished, nextSession>>
          /\ cancelled \subseteq cancelled' /\ Advances
          /\ active = NoSession => UNCHANGED snapshot
          /\ NoneRuns
      BY <2>1
      DEF Calm, Steady, Advances, NoneRuns
    <2>7. \A t \in Starts : Tracked(t)' <=> Tracked(t)
      BY <2>2
      DEF Tracked, Roles
    <2>8. StaysAwaited
      BY <2>1, AwaitedByAll
      DEF Roles, Calm, Steady
    <2>9. Types'
      BY <2>2, <2>3, TypesKept DEF Kept
    <2>10. UnstartedHasNothing' /\ JobsAreOwned' /\ StopMissesNoStore' /\ RevisionsAreOld' /\
           ClearsAreLater' /\ ShowsAreAwaited'
      BY <2>2, <2>5, <2>6, <2>8, Undisturbed
    <2>11. ReportersAreHeld'
      <3>1. \A x \in Callers, t \in Starts : ClearsUp(x, t)' <=> ClearsUp(x, t)
        BY <2>2 DEF ClearsUp, Busy
      <3>2. ~(\E x \in Callers : ClearsUp(x, s) /\ job[x].pc = "spawn")
        BY <2>4 DEF InJob, ClearsUp, Inv, JobsAreOwned
      <3> QED
        BY <2>2, <2>5, <2>7, <2>3, <3>1, <3>2 DEF Inv, ReportersAreHeld, InStartup, Roles
    <2>12. ResourcesHaveOneHolder'
      <3>1. \A x \in Callers, t \in Starts : (InJob(x, t)' <=> InJob(x, t)) /\ (ClearsUp(x, t)' <=> ClearsUp(x, t))
        BY <2>2 DEF InJob, ClearsUp, Busy
      <3>2. \A t \in Starts : t # s => OneHolder(t)'
        BY <2>2, <2>7, <2>3, <3>1, HolderKept
      <3>3. OneHolder(s) /\ ~InStart(s)' /\ ~InSlot(s)'
        BY <2>2, <2>4 DEF Inv, ResourcesHaveOneHolder, InStart, InSlot
      <3>4. OneHolder(s)'
        BY <2>2, <2>7, <2>3, <2>4, <3>1, <3>3 DEF OneHolder, Open
      <3> QED
        BY <3>2, <3>4 DEF ResourcesHaveOneHolder
    <2>13. WhatRunsIsHeld'
      <3>1. \A x \in Callers, t \in Starts : InJob(x, t)' <=> InJob(x, t)
        BY <2>2 DEF InJob
      <3> QED
        BY <2>2, <2>3, <2>4, <3>1 DEF Inv, WhatRunsIsHeld, InStart, InSlot, Open
    <2>14. CleanupIsAwaited'
      <3>1. \A x \in Callers, t \in Starts : (InJob(x, t)' <=> InJob(x, t)) /\ (ClearsUp(x, t)' <=> ClearsUp(x, t))
        BY <2>2 DEF InJob, ClearsUp, Busy
      <3> QED
        BY <2>2, <2>6, <2>7, <2>4, <3>1, CallersDiffer DEF Inv, CleanupIsAwaited, InSlot, Fault
    <2>15. LiveIsGivenUp'
      <3>1. \A t \in Starts : Closing(t)' <=> Closing(t)
        BY <2>2, <2>6, <2>4 DEF Closing, ClearsUp, Busy
      <3> QED
        BY <2>2, <2>6, <2>8, <3>1 DEF Inv, LiveIsGivenUp, StaysAwaited, IsLive, GaveUp, FindsOthersStored, Fault
    <2>16. ClearedStaysClear'
      <3>1. \A t \in Starts : Cleared(t)' <=> Cleared(t)
        BY <2>2, <2>6, <2>4 DEF Cleared, ClearsUp, Busy
      <3> QED
        BY <2>2, <2>6, <3>1 DEF Inv, ClearedStaysClear, PutBack, FindsOthersStored, Fault, GaveUp, Below
    <2>17. VisibleIsAlive'
      <3>1. \A t \in Starts : Cleared(t)' <=> Cleared(t)
        BY <2>2, <2>6, <2>4 DEF Cleared, ClearsUp, Busy
      <3>2. active # NoSession => active \in Starts
        BY Numbers
      <3> QED
        BY <2>2, <2>6, <3>1, <3>2 DEF Inv, VisibleIsAlive, HideIsPosted, FindsOthersStored
    <2> QED
      BY <2>1, <2>5, <2>9, <2>10, <2>11, <2>12, <2>13, <2>14, <2>15, <2>16, <2>17
      DEF Inv
  <1>3. CASE /\ cleanup[s] = "join"
             /\ cleanup' = [cleanup EXCEPT ![s] = "report"]
             /\ UNCHANGED <<supVars, capture, stopResult>>
    <2>1. /\ Theory!Inv' /\ Calm
          /\ cleanup[s] = "join"
          /\ cleanup' = [cleanup EXCEPT ![s] = "report"]
          /\ UNCHANGED <<env, slot, control, start, worker, job, capture, processor, events,
                        stopResult, monitor, failureCleanup, budget, text, pass, output, shown,
                        ui, frame, stops, presents>>
      BY <1>3, StutterEffect
      DEF Inv, CleanupStep, supVars, overlayVars, mainVars, threadVars, cleanupVars, monitorVars
    <2>2. UNCHANGED <<env, slot, control, start, worker, job, capture, processor, events,
                       stopResult, monitor, failureCleanup, budget, text, pass, output, shown, ui,
                       frame, stops, presents>>
      BY <2>1
    <2>3. /\ cleanup[s] = "join" /\ cleanup'[s] = "report" /\ \A t \in Starts : t # s => cleanup'[t] = cleanup[t]
          /\ cleanup' \in [Starts -> {"none", "stop", "join", "report", "finish", "ended"}]
      BY <2>1 DEF Inv, Types
    <2>4. /\ InCleanup(s) /\ ~InStart(s) /\ ~InSlot(s) /\ (\A x \in Callers : ~InJob(x, s))
          /\ \A t \in Starts : InCleanup(t)' <=> InCleanup(t)
      <3>1. InCleanup(s) /\ \A t \in Starts : InCleanup(t)' <=> InCleanup(t)
        BY <2>1, <2>3 DEF InCleanup
      <3> QED
        BY <3>1 DEF Inv, ResourcesHaveOneHolder, OneHolder
    <2>5. /\ NumbersAreDistinct'
          /\ \A t \in Starts, r \in Roles : Holds(t, r) => Holds(t, r)'
      BY <2>1, ReportersKept
      DEF Calm, Steady
    <2>6. /\ UNCHANGED <<active, cleanupFinished, nextSession>>
          /\ cancelled \subseteq cancelled' /\ Advances
          /\ active = NoSession => UNCHANGED snapshot
          /\ NoneRuns
      BY <2>1
      DEF Calm, Steady, Advances, NoneRuns
    <2>7. \A t \in Starts : Tracked(t)' <=> Tracked(t)
      BY <2>2
      DEF Tracked, Roles
    <2>8. StaysAwaited
      BY <2>1, AwaitedByAll
      DEF Roles, Calm, Steady
    <2>9. Types'
      BY <2>2, <2>3, TypesKept DEF Kept
    <2>10. UnstartedHasNothing' /\ JobsAreOwned' /\ StopMissesNoStore' /\ RevisionsAreOld' /\
           ClearsAreLater' /\ ShowsAreAwaited'
      BY <2>2, <2>5, <2>6, <2>8, Undisturbed
    <2>11. ReportersAreHeld'
      <3>1. \A x \in Callers, t \in Starts : ClearsUp(x, t)' <=> ClearsUp(x, t)
        BY <2>2 DEF ClearsUp, Busy
      <3>2. ~(\E x \in Callers : ClearsUp(x, s) /\ job[x].pc = "spawn")
        BY <2>4 DEF InJob, ClearsUp, Inv, JobsAreOwned
      <3> QED
        BY <2>2, <2>5, <2>7, <2>3, <2>1, <3>1, <3>2 DEF Inv, ReportersAreHeld, InStartup, Roles
    <2>12. ResourcesHaveOneHolder'
      <3>1. \A x \in Callers, t \in Starts : (InJob(x, t)' <=> InJob(x, t)) /\ (ClearsUp(x, t)' <=> ClearsUp(x, t))
        BY <2>2 DEF InJob, ClearsUp, Busy
      <3>2. \A t \in Starts : t # s => OneHolder(t)'
        BY <2>2, <2>7, <2>3, <3>1, HolderKept
      <3>3. OneHolder(s) /\ ~InStart(s)' /\ ~InSlot(s)'
        BY <2>2, <2>4 DEF Inv, ResourcesHaveOneHolder, InStart, InSlot
      <3>4. OneHolder(s)'
        BY <2>2, <2>7, <2>3, <2>4, <3>1, <3>3 DEF OneHolder, Open
      <3> QED
        BY <3>2, <3>4 DEF ResourcesHaveOneHolder
    <2>13. WhatRunsIsHeld'
      <3>1. \A x \in Callers, t \in Starts : InJob(x, t)' <=> InJob(x, t)
        BY <2>2 DEF InJob
      <3> QED
        BY <2>2, <2>3, <2>4, <3>1 DEF Inv, WhatRunsIsHeld, InStart, InSlot, Open
    <2>14. CleanupIsAwaited'
      <3>1. \A x \in Callers, t \in Starts : (InJob(x, t)' <=> InJob(x, t)) /\ (ClearsUp(x, t)' <=> ClearsUp(x, t))
        BY <2>2 DEF InJob, ClearsUp, Busy
      <3> QED
        BY <2>2, <2>6, <2>7, <2>4, <3>1, CallersDiffer DEF Inv, CleanupIsAwaited, InSlot, Fault
    <2>15. LiveIsGivenUp'
      <3>1. \A t \in Starts : Closing(t)' <=> Closing(t)
        BY <2>2, <2>6, <2>4 DEF Closing, ClearsUp, Busy
      <3> QED
        BY <2>2, <2>6, <2>8, <3>1 DEF Inv, LiveIsGivenUp, StaysAwaited, IsLive, GaveUp, FindsOthersStored, Fault
    <2>16. ClearedStaysClear'
      <3>1. \A t \in Starts : Cleared(t)' <=> Cleared(t)
        BY <2>2, <2>6, <2>4 DEF Cleared, ClearsUp, Busy
      <3> QED
        BY <2>2, <2>6, <3>1 DEF Inv, ClearedStaysClear, PutBack, FindsOthersStored, Fault, GaveUp, Below
    <2>17. VisibleIsAlive'
      <3>1. \A t \in Starts : Cleared(t)' <=> Cleared(t)
        BY <2>2, <2>6, <2>4 DEF Cleared, ClearsUp, Busy
      <3>2. active # NoSession => active \in Starts
        BY Numbers
      <3> QED
        BY <2>2, <2>6, <3>1, <3>2 DEF Inv, VisibleIsAlive, HideIsPosted, FindsOthersStored
    <2> QED
      BY <2>1, <2>5, <2>9, <2>10, <2>11, <2>12, <2>13, <2>14, <2>15, <2>16, <2>17
      DEF Inv
  <1>4. CASE /\ cleanup[s] = "report" /\ Report(s, "shutdown", "Completed")
             /\ cleanup' = [cleanup EXCEPT ![s] = "finish"]
             /\ UNCHANGED <<capture, stopResult>>
    <2>1. /\ Theory!Inv' /\ Reports(s, "shutdown", "Completed")
          /\ cleanup[s] = "report"
          /\ cleanup' = [cleanup EXCEPT ![s] = "finish"]
          /\ UNCHANGED <<env, slot, control, start, worker, job, capture, processor, events,
                        stopResult, monitor, failureCleanup, budget, text, pass, output, shown,
                        ui, frame, stops, presents>>
      BY <1>4, ReportEffect
      DEF Inv, CleanupStep, supVars, overlayVars, mainVars, threadVars, cleanupVars, monitorVars
    <2>2. UNCHANGED <<env, slot, control, start, worker, job, capture, processor, events,
                       stopResult, monitor, failureCleanup, budget, text, pass, output, shown, ui,
                       frame, stops, presents>>
      BY <2>1
    <2>3. /\ cleanup[s] = "report" /\ cleanup'[s] = "finish" /\ \A t \in Starts : t # s => cleanup'[t] = cleanup[t]
          /\ cleanup' \in [Starts -> {"none", "stop", "join", "report", "finish", "ended"}]
      BY <2>1 DEF Inv, Types
    <2>4. /\ InCleanup(s) /\ ~InStart(s) /\ ~InSlot(s) /\ (\A x \in Callers : ~InJob(x, s))
          /\ \A t \in Starts : InCleanup(t)' <=> InCleanup(t)
      <3>1. InCleanup(s) /\ \A t \in Starts : InCleanup(t)' <=> InCleanup(t)
        BY <2>1, <2>3 DEF InCleanup
      <3> QED
        BY <3>1 DEF Inv, ResourcesHaveOneHolder, OneHolder
    <2>5. /\ NumbersAreDistinct'
          /\ \A t \in Starts, r \in Roles : Holds(t, r) /\ ~(t = s /\ r = "shutdown") => Holds(t, r)'
      BY <2>1, ReportersReported
      DEF Roles
    <2>6. /\ UNCHANGED <<active, cleanupFinished, nextSession>>
          /\ cancelled \subseteq cancelled' /\ Advances
          /\ active = NoSession => UNCHANGED snapshot
          /\ NoneRuns
      BY <2>1
      DEF Reports, Advances, NoneRuns
    <2>7. \A t \in Starts : Tracked(t)' <=> Tracked(t)
      BY <2>2
      DEF Tracked, Roles
    <2>8. StaysAwaited
      BY <2>1, AwaitedByAll
      DEF Roles, Reports
    <2>9. Types'
      BY <2>2, <2>3, TypesKept DEF Kept
    <2>10. UnstartedHasNothing' /\ JobsAreOwned' /\ StopMissesNoStore' /\ RevisionsAreOld' /\
           ClearsAreLater' /\ ShowsAreAwaited'
      BY <2>2, <2>5, <2>6, <2>8, Undisturbed
    <2>11. ReportersAreHeld'
      <3>1. \A x \in Callers, t \in Starts : ClearsUp(x, t)' <=> ClearsUp(x, t)
        BY <2>2 DEF ClearsUp, Busy
      <3>2. ~(\E x \in Callers : ClearsUp(x, s) /\ job[x].pc = "spawn")
        BY <2>4 DEF InJob, ClearsUp, Inv, JobsAreOwned
      <3> QED
        BY <2>2, <2>5, <2>7, <2>3, <3>1, <3>2 DEF Inv, ReportersAreHeld, InStartup, Roles
    <2>12. ResourcesHaveOneHolder'
      <3>1. \A x \in Callers, t \in Starts : (InJob(x, t)' <=> InJob(x, t)) /\ (ClearsUp(x, t)' <=> ClearsUp(x, t))
        BY <2>2 DEF InJob, ClearsUp, Busy
      <3>2. \A t \in Starts : t # s => OneHolder(t)'
        BY <2>2, <2>7, <2>3, <3>1, HolderKept
      <3>3. OneHolder(s) /\ ~InStart(s)' /\ ~InSlot(s)'
        BY <2>2, <2>4 DEF Inv, ResourcesHaveOneHolder, InStart, InSlot
      <3>4. OneHolder(s)'
        BY <2>2, <2>7, <2>3, <2>4, <3>1, <3>3 DEF OneHolder, Open
      <3> QED
        BY <3>2, <3>4 DEF ResourcesHaveOneHolder
    <2>13. WhatRunsIsHeld'
      <3>1. \A x \in Callers, t \in Starts : InJob(x, t)' <=> InJob(x, t)
        BY <2>2 DEF InJob
      <3> QED
        BY <2>2, <2>3, <2>4, <3>1 DEF Inv, WhatRunsIsHeld, InStart, InSlot, Open
    <2>14. CleanupIsAwaited'
      <3>1. \A x \in Callers, t \in Starts : (InJob(x, t)' <=> InJob(x, t)) /\ (ClearsUp(x, t)' <=> ClearsUp(x, t))
        BY <2>2 DEF InJob, ClearsUp, Busy
      <3> QED
        BY <2>2, <2>6, <2>7, <2>4, <3>1, CallersDiffer DEF Inv, CleanupIsAwaited, InSlot, Fault
    <2>15. LiveIsGivenUp'
      <3>1. \A t \in Starts : Closing(t)' <=> Closing(t)
        BY <2>2, <2>6, <2>4 DEF Closing, ClearsUp, Busy
      <3> QED
        BY <2>2, <2>6, <2>8, <3>1 DEF Inv, LiveIsGivenUp, StaysAwaited, IsLive, GaveUp, FindsOthersStored, Fault
    <2>16. ClearedStaysClear'
      <3>1. \A t \in Starts : Cleared(t)' <=> Cleared(t)
        BY <2>2, <2>6, <2>4 DEF Cleared, ClearsUp, Busy
      <3> QED
        BY <2>2, <2>6, <3>1 DEF Inv, ClearedStaysClear, PutBack, FindsOthersStored, Fault, GaveUp, Below
    <2>17. VisibleIsAlive'
      <3>1. \A t \in Starts : Cleared(t)' <=> Cleared(t)
        BY <2>2, <2>6, <2>4 DEF Cleared, ClearsUp, Busy
      <3>2. active # NoSession => active \in Starts
        BY Numbers
      <3> QED
        BY <2>2, <2>6, <3>1, <3>2 DEF Inv, VisibleIsAlive, HideIsPosted, FindsOthersStored
    <2> QED
      BY <2>1, <2>5, <2>9, <2>10, <2>11, <2>12, <2>13, <2>14, <2>15, <2>16, <2>17
      DEF Inv
  <1>5. CASE /\ cleanup[s] = "finish" /\ Calm /\ Theory!Inv'
             /\ cleanup' = [cleanup EXCEPT ![s] = "ended"]
             /\ UNCHANGED <<capture, stopResult>>
    <2>1. /\ Theory!Inv' /\ Calm
          /\ cleanup[s] = "finish"
          /\ cleanup' = [cleanup EXCEPT ![s] = "ended"]
          /\ UNCHANGED <<env, slot, control, start, worker, job, capture, processor, events,
                        stopResult, monitor, failureCleanup, budget, text, pass, output, shown,
                        ui, frame, stops, presents>>
      BY <1>5
      DEF Inv, CleanupStep, supVars, overlayVars, mainVars, threadVars, cleanupVars, monitorVars
    <2>2. UNCHANGED <<env, slot, control, start, worker, job, capture, processor, events,
                       stopResult, monitor, failureCleanup, budget, text, pass, output, shown, ui,
                       frame, stops, presents>>
      BY <2>1
    <2>3. /\ cleanup[s] = "finish" /\ cleanup'[s] = "ended" /\ \A t \in Starts : t # s => cleanup'[t] = cleanup[t]
          /\ cleanup' \in [Starts -> {"none", "stop", "join", "report", "finish", "ended"}]
      BY <2>1 DEF Inv, Types
    <2>4. /\ InCleanup(s) /\ ~InStart(s) /\ ~InSlot(s) /\ (\A x \in Callers : ~InJob(x, s))
          /\ \A t \in Starts : InCleanup(t)' <=> InCleanup(t)
      <3>1. InCleanup(s) /\ \A t \in Starts : InCleanup(t)' <=> InCleanup(t)
        BY <2>1, <2>3 DEF InCleanup
      <3> QED
        BY <3>1 DEF Inv, ResourcesHaveOneHolder, OneHolder
    <2>5. /\ NumbersAreDistinct'
          /\ \A t \in Starts, r \in Roles : Holds(t, r) => Holds(t, r)'
      BY <2>1, ReportersKept
      DEF Calm, Steady
    <2>6. /\ UNCHANGED <<active, cleanupFinished, nextSession>>
          /\ cancelled \subseteq cancelled' /\ Advances
          /\ active = NoSession => UNCHANGED snapshot
          /\ NoneRuns
      BY <2>1
      DEF Calm, Steady, Advances, NoneRuns
    <2>7. \A t \in Starts : Tracked(t)' <=> Tracked(t)
      BY <2>2
      DEF Tracked, Roles
    <2>8. StaysAwaited
      BY <2>1, AwaitedByAll
      DEF Roles, Calm, Steady
    <2>9. Types'
      BY <2>2, <2>3, TypesKept DEF Kept
    <2>10. UnstartedHasNothing' /\ JobsAreOwned' /\ StopMissesNoStore' /\ RevisionsAreOld' /\
           ClearsAreLater' /\ ShowsAreAwaited'
      BY <2>2, <2>5, <2>6, <2>8, Undisturbed
    <2>11. ReportersAreHeld'
      <3>1. \A x \in Callers, t \in Starts : ClearsUp(x, t)' <=> ClearsUp(x, t)
        BY <2>2 DEF ClearsUp, Busy
      <3>2. ~(\E x \in Callers : ClearsUp(x, s) /\ job[x].pc = "spawn")
        BY <2>4 DEF InJob, ClearsUp, Inv, JobsAreOwned
      <3> QED
        BY <2>2, <2>5, <2>7, <2>3, <3>1, <3>2 DEF Inv, ReportersAreHeld, InStartup, Roles
    <2>12. ResourcesHaveOneHolder'
      <3>1. \A x \in Callers, t \in Starts : (InJob(x, t)' <=> InJob(x, t)) /\ (ClearsUp(x, t)' <=> ClearsUp(x, t))
        BY <2>2 DEF InJob, ClearsUp, Busy
      <3>2. \A t \in Starts : t # s => OneHolder(t)'
        BY <2>2, <2>7, <2>3, <3>1, HolderKept
      <3>3. OneHolder(s) /\ ~InStart(s)' /\ ~InSlot(s)'
        BY <2>2, <2>4 DEF Inv, ResourcesHaveOneHolder, InStart, InSlot
      <3>4. OneHolder(s)'
        BY <2>2, <2>7, <2>3, <2>4, <3>1, <3>3 DEF OneHolder, Open
      <3> QED
        BY <3>2, <3>4 DEF ResourcesHaveOneHolder
    <2>13. WhatRunsIsHeld'
      <3>1. \A x \in Callers, t \in Starts : InJob(x, t)' <=> InJob(x, t)
        BY <2>2 DEF InJob
      <3> QED
        BY <2>2, <2>3, <2>4, <3>1 DEF Inv, WhatRunsIsHeld, InStart, InSlot, Open
    <2>14. CleanupIsAwaited'
      <3>1. \A x \in Callers, t \in Starts : (InJob(x, t)' <=> InJob(x, t)) /\ (ClearsUp(x, t)' <=> ClearsUp(x, t))
        BY <2>2 DEF InJob, ClearsUp, Busy
      <3> QED
        BY <2>2, <2>6, <2>7, <2>4, <3>1, CallersDiffer DEF Inv, CleanupIsAwaited, InSlot, Fault
    <2>15. LiveIsGivenUp'
      <3>1. \A t \in Starts : Closing(t)' <=> Closing(t)
        BY <2>2, <2>6, <2>4 DEF Closing, ClearsUp, Busy
      <3> QED
        BY <2>2, <2>6, <2>8, <3>1 DEF Inv, LiveIsGivenUp, StaysAwaited, IsLive, GaveUp, FindsOthersStored, Fault
    <2>16. ClearedStaysClear'
      <3>1. \A t \in Starts : Cleared(t)' <=> Cleared(t)
        BY <2>2, <2>6, <2>4 DEF Cleared, ClearsUp, Busy
      <3> QED
        BY <2>2, <2>6, <3>1 DEF Inv, ClearedStaysClear, PutBack, FindsOthersStored, Fault, GaveUp, Below
    <2>17. VisibleIsAlive'
      <3>1. \A t \in Starts : Cleared(t)' <=> Cleared(t)
        BY <2>2, <2>6, <2>4 DEF Cleared, ClearsUp, Busy
      <3>2. active # NoSession => active \in Starts
        BY Numbers
      <3> QED
        BY <2>2, <2>6, <3>1, <3>2 DEF Inv, VisibleIsAlive, HideIsPosted, FindsOthersStored
    <2> QED
      BY <2>1, <2>5, <2>9, <2>10, <2>11, <2>12, <2>13, <2>14, <2>15, <2>16, <2>17
      DEF Inv
  <1>6. CASE /\ cleanup[s] = "finish" /\ Finishes(s) /\ Theory!Inv'
             /\ cleanup' = [cleanup EXCEPT ![s] = "ended"]
             /\ UNCHANGED <<capture, stopResult>>
    <2>1. /\ Theory!Inv' /\ Finishes(s)
          /\ cleanup[s] = "finish"
          /\ cleanup' = [cleanup EXCEPT ![s] = "ended"]
          /\ UNCHANGED <<env, slot, control, start, worker, job, capture, processor, events,
                        stopResult, monitor, failureCleanup, budget, text, pass, output, shown,
                        ui, frame, stops, presents>>
      BY <1>6
      DEF Inv, CleanupStep, supVars, overlayVars, mainVars, threadVars, cleanupVars, monitorVars
    <2>2. UNCHANGED <<env, slot, control, start, worker, job, capture, processor, events,
                       stopResult, monitor, failureCleanup, budget, text, pass, output, shown, ui,
                       frame, stops, presents>>
      BY <2>1
    <2>3. /\ cleanup[s] = "finish" /\ cleanup'[s] = "ended" /\ \A t \in Starts : t # s => cleanup'[t] = cleanup[t]
          /\ cleanup' \in [Starts -> {"none", "stop", "join", "report", "finish", "ended"}]
      BY <2>1 DEF Inv, Types
    <2>4. /\ InCleanup(s) /\ ~InStart(s) /\ ~InSlot(s) /\ (\A x \in Callers : ~InJob(x, s))
          /\ \A t \in Starts : InCleanup(t)' <=> InCleanup(t)
      <3>1. InCleanup(s) /\ \A t \in Starts : InCleanup(t)' <=> InCleanup(t)
        BY <2>1, <2>3 DEF InCleanup
      <3> QED
        BY <3>1 DEF Inv, ResourcesHaveOneHolder, OneHolder
    <2>5. CleanupIsAwaited' /\ LiveIsGivenUp' /\ ClearedStaysClear' /\ VisibleIsAlive'
      <3>1. Cleared(s) /\ Finishes(s)
        BY <2>1, <2>4 DEF Cleared
      <3>2. ~InSlot(s) /\ ~InJob(Main, s)' /\ start[s] # "put"
        BY <2>2, <2>4, CallersDiffer DEF InStart, InJob
      <3>3. \A x \in Callers, t \in Starts : ClearsUp(x, t)' => ClearsUp(x, t) /\ job'[x].pc = job[x].pc
        BY <2>2 DEF ClearsUp, Busy
      <3>4. \A t \in Starts : InJob(Main, t)' <=> InJob(Main, t)
        BY <2>2 DEF InJob
      <3> QED
        BY <2>2, <2>4, <3>1, <3>2, <3>3, <3>4, CleanupFinished
    <2>6. /\ NumbersAreDistinct'
          /\ \A t \in Starts, r \in Roles : Holds(t, r) => Holds(t, r)'
      BY <2>1, ReportersKept
      DEF Finishes, Calm, Steady
    <2>7. /\ UNCHANGED nextSession
          /\ cancelled \subseteq cancelled' /\ Advances
          /\ active' \in {active, NoSession}
          /\ NoneRuns
      BY <2>1
      DEF Finishes, Calm, Steady, Advances, NoneRuns
    <2>8. \A t \in Starts : Tracked(t)' <=> Tracked(t)
      BY <2>2
      DEF Tracked, Roles
    <2>9. Types'
      BY <2>2, <2>3, TypesKept DEF Kept
    <2>10. UnstartedHasNothing' /\ JobsAreOwned' /\ StopMissesNoStore' /\ RevisionsAreOld' /\
           ClearsAreLater' /\ ShowsAreAwaited'
      BY <2>2, <2>6, <2>7, Undisturbed
    <2>11. ReportersAreHeld'
      <3>1. \A x \in Callers, t \in Starts : ClearsUp(x, t)' <=> ClearsUp(x, t)
        BY <2>2 DEF ClearsUp, Busy
      <3>2. ~(\E x \in Callers : ClearsUp(x, s) /\ job[x].pc = "spawn")
        BY <2>4 DEF InJob, ClearsUp, Inv, JobsAreOwned
      <3> QED
        BY <2>2, <2>6, <2>8, <2>3, <3>1, <3>2 DEF Inv, ReportersAreHeld, InStartup, Roles
    <2>12. ResourcesHaveOneHolder'
      <3>1. \A x \in Callers, t \in Starts : (InJob(x, t)' <=> InJob(x, t)) /\ (ClearsUp(x, t)' <=> ClearsUp(x, t))
        BY <2>2 DEF InJob, ClearsUp, Busy
      <3>2. \A t \in Starts : t # s => OneHolder(t)'
        BY <2>2, <2>8, <2>3, <3>1, HolderKept
      <3>3. OneHolder(s) /\ ~InStart(s)' /\ ~InSlot(s)'
        BY <2>2, <2>4 DEF Inv, ResourcesHaveOneHolder, InStart, InSlot
      <3>4. OneHolder(s)'
        BY <2>2, <2>8, <2>3, <2>4, <3>1, <3>3 DEF OneHolder, Open
      <3> QED
        BY <3>2, <3>4 DEF ResourcesHaveOneHolder
    <2>13. WhatRunsIsHeld'
      <3>1. \A x \in Callers, t \in Starts : InJob(x, t)' <=> InJob(x, t)
        BY <2>2 DEF InJob
      <3> QED
        BY <2>2, <2>3, <2>4, <3>1 DEF Inv, WhatRunsIsHeld, InStart, InSlot, Open
    <2>14. CleanupIsAwaited'
      BY <2>5
    <2>15. LiveIsGivenUp'
      BY <2>5
    <2>16. ClearedStaysClear'
      BY <2>5
    <2>17. VisibleIsAlive'
      BY <2>5
    <2> QED
      BY <2>1, <2>6, <2>9, <2>10, <2>11, <2>12, <2>13, <2>14, <2>15, <2>16, <2>17
      DEF Inv
  <1>7. cleanup[s] = "finish" /\ Try(IsActive(s), Sup!FinishCleanup(s, stopResult[s])) =>
          Theory!Inv' /\ (Calm \/ Finishes(s))
    <2>1. stopResult[s] \in BOOLEAN
      BY DEF Inv, Types
    <2> QED
      BY <2>1, FinishEffect DEF Inv
  <1> QED
    BY <1>1, <1>2, <1>3, <1>4, <1>5, <1>6, <1>7 DEF CleanupStep

-----------------------------------------------------------------------------
(* The session monitor.                                                    *)

\* A report is applied; the session may be released by it.
LEMMA ReportDrained ==
  ASSUME Inv, Drains,
         UNCHANGED <<env, slot, control, start, worker, job, capture, processor, events,
                    cleanup, stopResult, monitor, failureCleanup, budget, text, pass, output,
                    shown, ui, frame, stops, presents>>
  PROVE  CleanupIsAwaited' /\ LiveIsGivenUp' /\ ClearedStaysClear' /\ VisibleIsAlive'
  <1>1. /\ UNCHANGED nextSession /\ cancelled \subseteq cancelled' /\ Advances
        /\ active = NoSession => UNCHANGED snapshot
    BY DEF Drains
  <1>2. CASE UNCHANGED <<active, cleanupFinished>>
    <2>1. StaysAwaited
      BY AwaitedDrained DEF StaysAwaited
    <2> QED
      BY <1>1, <1>2, <2>1, Undisturbed
  <1>3. CASE ~UNCHANGED <<active, cleanupFinished>>
    <2>1. /\ cleanupFinished /\ active # NoSession /\ active' = NoSession
          /\ active \in Starts /\ Closing(active) /\ Cleared(active)
      BY <1>3, Numbers DEF Drains, Closing, Cleared
    <2>2. \A t \in Starts : /\ InCleanup(t)' <=> InCleanup(t)
                            /\ InSlot(t)' <=> InSlot(t)
                            /\ Tracked(t)' <=> Tracked(t)
                            /\ active' # t
                            /\ FindsOthersStored(t)' <=> FindsOthersStored(t)
                            /\ GaveUp(t)' <=> GaveUp(t)
      BY <2>1 DEF InCleanup, InSlot, Tracked, Starts, NoSession, FindsOthersStored, GaveUp
    <2>3. \A x \in Callers, t \in Starts : /\ InJob(x, t)' <=> InJob(x, t)
                                           /\ ClearsUp(x, t)' <=> ClearsUp(x, t)
      BY DEF InJob, ClearsUp, Busy
    <2>4. CleanupIsAwaited'
      BY <2>1, <2>2, <2>3, CallersDiffer DEF Inv, CleanupIsAwaited, Fault
    <2>5. LiveIsGivenUp'
      <3>1. active \notin cancelled => StartupIsAwaited(active)
        BY <2>1 DEF Inv, LiveIsGivenUp
      <3>2. snapshot'.lifecycle \notin {"Starting", "Running", "Waiting"}
        BY <2>1, <3>1 DEF Drains, StartupIsAwaited
      <3>3. ~IsLive'
        BY <3>2 DEF IsLive, Sup!LiveLifecycles
      <3> QED
        BY <1>1, <2>2, <3>3 DEF Inv, LiveIsGivenUp, Fault
    <2>6. ClearedStaysClear'
      <3>1. \A t \in Starts : active # t \/ Cleared(t)
        BY <2>1
      <3> QED
        BY <2>2, <3>1 DEF Inv, ClearedStaysClear, PutBack, Below, Fault
    <2>7. VisibleIsAlive'
      BY <1>1, <2>1 DEF Inv, VisibleIsAlive, HideIsPosted, FindsOthersStored
    <2> QED
      BY <2>4, <2>5, <2>6, <2>7
  <1> QED
    BY <1>2, <1>3

LEMMA MonitorDrainStep ==
  ASSUME Inv, NEW s \in Starts, MonitorDrain(s)
  PROVE  Inv'
  <1>1. CASE monitor[s] = "poll" /\ Sup!BeginDrain /\ MonitorTo(s, "drain")
    <2>1. /\ Theory!Inv' /\ Calm
          /\ monitor[s] = "poll"
          /\ monitor' = [monitor EXCEPT ![s] = "drain"]
          /\ UNCHANGED <<env, slot, control, start, worker, job, capture, processor, events,
                        cleanup, stopResult, failureCleanup, budget, text, pass, output, shown,
                        ui, frame, stops, presents>>
      BY <1>1, DrainingEffect
      DEF Inv, MonitorDrain, MonitorTo, supVars, overlayVars, mainVars, threadVars, cleanupVars,
          monitorVars
    <2>2. UNCHANGED <<env, slot, control, start, worker, job, capture, processor, events, cleanup,
                       stopResult, failureCleanup, budget, text, pass, output, shown, ui, frame,
                       stops, presents>>
      BY <2>1
    <2>3. /\ monitor[s] # "none" /\ monitor'[s] = "drain" /\ ~Busy(MonitorOf(s))
          /\ monitor' \in [Starts -> {"none", "poll", "drain", "look", "cleaning", "timeout", "ended"}]
          /\ \A t \in Starts : t # s => monitor'[t] = monitor[t]
      <3>1. monitor[s] \notin {"none", "cleaning"} /\ monitor' = [monitor EXCEPT ![s] = "drain"]
        BY <2>1
      <3>2. ~Busy(MonitorOf(s))
        BY <3>1 DEF Inv, JobsAreOwned
      <3> QED
        BY <3>1, <3>2 DEF Inv, Types
    <2>4. /\ NumbersAreDistinct'
          /\ \A t \in Starts, r \in Roles : Holds(t, r) => Holds(t, r)'
      BY <2>1, ReportersKept
      DEF Calm, Steady
    <2>5. /\ UNCHANGED <<active, cleanupFinished, nextSession>>
          /\ cancelled \subseteq cancelled' /\ Advances
          /\ active = NoSession => UNCHANGED snapshot
          /\ NoneRuns
      BY <2>1
      DEF Calm, Steady, Advances, NoneRuns
    <2>6. \A t \in Starts : Tracked(t)' <=> Tracked(t)
      BY <2>2
      DEF Tracked, Roles
    <2>7. StaysAwaited
      BY <2>1, AwaitedByAll
      DEF Roles, Calm, Steady
    <2>8. Types'
      BY <2>2, <2>3, TypesKept DEF Kept
    <2>9. ReportersAreHeld' /\ StopMissesNoStore' /\ ResourcesHaveOneHolder' /\
          WhatRunsIsHeld' /\ CleanupIsAwaited' /\ LiveIsGivenUp' /\ RevisionsAreOld' /\
          ClearsAreLater' /\ ClearedStaysClear' /\ ShowsAreAwaited' /\ VisibleIsAlive'
      BY <2>2, <2>4, <2>5, <2>7, Undisturbed
    <2>10. UnstartedHasNothing'
      <3>1. s < nextSession
        BY <2>3, Numbers DEF Inv, UnstartedHasNothing, Guarantees
      <3>2. nextSession > 1 => snapshot'.revision > 0
        BY <2>5, Numbers DEF Inv, UnstartedHasNothing, Guarantees, Advances
      <3>3. \A t \in Starts : t >= nextSession => monitor'[t] = "none"
        BY <3>1, <2>3, Numbers DEF Inv, UnstartedHasNothing
      <3> QED
        BY <2>2, <2>5, <3>2, <3>3 DEF Inv, UnstartedHasNothing
    <2>11. JobsAreOwned'
      <3>1. \A x \in Callers : Busy(x)' <=> Busy(x)
        BY <2>2 DEF Busy
      <3>2. \A t \in Starts :
              /\ Starter(t) \in Callers /\ MonitorOf(t) \in Callers
              /\ start[t] \in {"none", "reset", "monitor", "abandon"} => t # s
              /\ monitor'[t] = "cleaning" => t # s
              /\ Busy(MonitorOf(t)) => t # s
        BY <2>3, CallersDiffer DEF Inv, JobsAreOwned
      <3>3. \A t \in Starts : t # s => monitor'[t] = monitor[t]
        BY <2>3
      <3>4. Main \in Callers
        BY CallersDiffer
      <3> QED
        BY <2>2, <2>5, <3>1, <3>2, <3>3, <3>4 DEF Inv, JobsAreOwned
    <2> QED
      BY <2>1, <2>4, <2>8, <2>9, <2>10, <2>11
      DEF Inv
  <1>2. CASE Sup!DrainNext /\ UNCHANGED monitor
    <2>1. Theory!Inv' /\ Drains
          /\ UNCHANGED <<env, slot, control, start, worker, job, capture, processor, events,
                        cleanup, stopResult, monitor, failureCleanup, budget, text, pass, output,
                        shown, ui, frame, stops, presents>>
      BY <1>2, DrainEffect
      DEF Inv, MonitorDrain, supVars, overlayVars, mainVars, threadVars, cleanupVars, monitorVars
    <2>2. UNCHANGED <<env, slot, control, start, worker, job, capture, processor, events, cleanup,
                       stopResult, monitor, failureCleanup, budget, text, pass, output, shown, ui,
                       frame, stops, presents>>
      BY <2>1
    <2>3. CleanupIsAwaited' /\ LiveIsGivenUp' /\ ClearedStaysClear' /\ VisibleIsAlive'
      BY <2>1, ReportDrained
    <2>4. /\ NumbersAreDistinct'
          /\ \A t \in Starts, r \in Roles : Holds(t, r) => Holds(t, r)'
      BY <2>1, ReportersKept
      DEF Drains
    <2>5. /\ UNCHANGED nextSession
          /\ cancelled \subseteq cancelled' /\ Advances
          /\ active' \in {active, NoSession}
          /\ NoneRuns
      BY <2>1
      DEF Drains, Advances, NoneRuns
    <2>6. \A t \in Starts : Tracked(t)' <=> Tracked(t)
      BY <2>2
      DEF Tracked, Roles
    <2>7. Types'
      BY <2>2, TypesKept DEF Kept
    <2>8. UnstartedHasNothing' /\ JobsAreOwned' /\ ReportersAreHeld' /\ StopMissesNoStore' /\
          ResourcesHaveOneHolder' /\ WhatRunsIsHeld' /\ RevisionsAreOld' /\ ClearsAreLater' /\
          ShowsAreAwaited'
      BY <2>2, <2>4, <2>5, Undisturbed
    <2>9. CleanupIsAwaited'
      BY <2>3
    <2>10. LiveIsGivenUp'
      BY <2>3
    <2>11. ClearedStaysClear'
      BY <2>3
    <2>12. VisibleIsAlive'
      BY <2>3
    <2> QED
      BY <2>1, <2>4, <2>7, <2>8, <2>9, <2>10, <2>11, <2>12
      DEF Inv
  <1>3. CASE monitor[s] = "drain" /\ Sup!EndDrain /\ MonitorTo(s, "look")
    <2>1. /\ Theory!Inv' /\ Calm
          /\ monitor[s] = "drain"
          /\ monitor' = [monitor EXCEPT ![s] = "look"]
          /\ UNCHANGED <<env, slot, control, start, worker, job, capture, processor, events,
                        cleanup, stopResult, failureCleanup, budget, text, pass, output, shown,
                        ui, frame, stops, presents>>
      BY <1>3, DrainingEffect
      DEF Inv, MonitorDrain, MonitorTo, supVars, overlayVars, mainVars, threadVars, cleanupVars,
          monitorVars
    <2>2. UNCHANGED <<env, slot, control, start, worker, job, capture, processor, events, cleanup,
                       stopResult, failureCleanup, budget, text, pass, output, shown, ui, frame,
                       stops, presents>>
      BY <2>1
    <2>3. /\ monitor[s] # "none" /\ monitor'[s] = "look" /\ ~Busy(MonitorOf(s))
          /\ monitor' \in [Starts -> {"none", "poll", "drain", "look", "cleaning", "timeout", "ended"}]
          /\ \A t \in Starts : t # s => monitor'[t] = monitor[t]
      <3>1. monitor[s] \notin {"none", "cleaning"} /\ monitor' = [monitor EXCEPT ![s] = "look"]
        BY <2>1
      <3>2. ~Busy(MonitorOf(s))
        BY <3>1 DEF Inv, JobsAreOwned
      <3> QED
        BY <3>1, <3>2 DEF Inv, Types
    <2>4. /\ NumbersAreDistinct'
          /\ \A t \in Starts, r \in Roles : Holds(t, r) => Holds(t, r)'
      BY <2>1, ReportersKept
      DEF Calm, Steady
    <2>5. /\ UNCHANGED <<active, cleanupFinished, nextSession>>
          /\ cancelled \subseteq cancelled' /\ Advances
          /\ active = NoSession => UNCHANGED snapshot
          /\ NoneRuns
      BY <2>1
      DEF Calm, Steady, Advances, NoneRuns
    <2>6. \A t \in Starts : Tracked(t)' <=> Tracked(t)
      BY <2>2
      DEF Tracked, Roles
    <2>7. StaysAwaited
      BY <2>1, AwaitedByAll
      DEF Roles, Calm, Steady
    <2>8. Types'
      BY <2>2, <2>3, TypesKept DEF Kept
    <2>9. ReportersAreHeld' /\ StopMissesNoStore' /\ ResourcesHaveOneHolder' /\
          WhatRunsIsHeld' /\ CleanupIsAwaited' /\ LiveIsGivenUp' /\ RevisionsAreOld' /\
          ClearsAreLater' /\ ClearedStaysClear' /\ ShowsAreAwaited' /\ VisibleIsAlive'
      BY <2>2, <2>4, <2>5, <2>7, Undisturbed
    <2>10. UnstartedHasNothing'
      <3>1. s < nextSession
        BY <2>3, Numbers DEF Inv, UnstartedHasNothing, Guarantees
      <3>2. nextSession > 1 => snapshot'.revision > 0
        BY <2>5, Numbers DEF Inv, UnstartedHasNothing, Guarantees, Advances
      <3>3. \A t \in Starts : t >= nextSession => monitor'[t] = "none"
        BY <3>1, <2>3, Numbers DEF Inv, UnstartedHasNothing
      <3> QED
        BY <2>2, <2>5, <3>2, <3>3 DEF Inv, UnstartedHasNothing
    <2>11. JobsAreOwned'
      <3>1. \A x \in Callers : Busy(x)' <=> Busy(x)
        BY <2>2 DEF Busy
      <3>2. \A t \in Starts :
              /\ Starter(t) \in Callers /\ MonitorOf(t) \in Callers
              /\ start[t] \in {"none", "reset", "monitor", "abandon"} => t # s
              /\ monitor'[t] = "cleaning" => t # s
              /\ Busy(MonitorOf(t)) => t # s
        BY <2>3, CallersDiffer DEF Inv, JobsAreOwned
      <3>3. \A t \in Starts : t # s => monitor'[t] = monitor[t]
        BY <2>3
      <3>4. Main \in Callers
        BY CallersDiffer
      <3> QED
        BY <2>2, <2>5, <3>1, <3>2, <3>3, <3>4 DEF Inv, JobsAreOwned
    <2> QED
      BY <2>1, <2>4, <2>8, <2>9, <2>10, <2>11
      DEF Inv
  <1> QED
    BY <1>1, <1>2, <1>3 DEF MonitorDrain

LEMMA MonitorActStep ==
  ASSUME Inv, NEW s \in Starts, MonitorAct(s)
  PROVE  Inv'
  <1>1. CASE monitor[s] = "timeout" /\ MonitorTo(s, "poll") /\ Try(IsActive(s), Sup!ShutdownTimedOut(s))
    <2>1. /\ Theory!Inv' /\ Calm
          /\ monitor[s] = "timeout"
          /\ monitor' = [monitor EXCEPT ![s] = "poll"]
          /\ UNCHANGED <<env, slot, control, start, worker, job, capture, processor, events,
                        cleanup, stopResult, failureCleanup, budget, text, pass, output, shown,
                        ui, frame, stops, presents>>
      BY <1>1, TimeoutEffect
      DEF Inv, MonitorAct, MonitorTo, supVars, overlayVars, mainVars, threadVars, cleanupVars,
          monitorVars
    <2>2. UNCHANGED <<env, slot, control, start, worker, job, capture, processor, events, cleanup,
                       stopResult, failureCleanup, budget, text, pass, output, shown, ui, frame,
                       stops, presents>>
      BY <2>1
    <2>3. /\ monitor[s] # "none" /\ monitor'[s] = "poll" /\ ~Busy(MonitorOf(s))
          /\ monitor' \in [Starts -> {"none", "poll", "drain", "look", "cleaning", "timeout", "ended"}]
          /\ \A t \in Starts : t # s => monitor'[t] = monitor[t]
      <3>1. monitor[s] \notin {"none", "cleaning"} /\ monitor' = [monitor EXCEPT ![s] = "poll"]
        BY <2>1
      <3>2. ~Busy(MonitorOf(s))
        BY <3>1 DEF Inv, JobsAreOwned
      <3> QED
        BY <3>1, <3>2 DEF Inv, Types
    <2>4. /\ NumbersAreDistinct'
          /\ \A t \in Starts, r \in Roles : Holds(t, r) => Holds(t, r)'
      BY <2>1, ReportersKept
      DEF Calm, Steady
    <2>5. /\ UNCHANGED <<active, cleanupFinished, nextSession>>
          /\ cancelled \subseteq cancelled' /\ Advances
          /\ active = NoSession => UNCHANGED snapshot
          /\ NoneRuns
      BY <2>1
      DEF Calm, Steady, Advances, NoneRuns
    <2>6. \A t \in Starts : Tracked(t)' <=> Tracked(t)
      BY <2>2
      DEF Tracked, Roles
    <2>7. StaysAwaited
      BY <2>1, AwaitedByAll
      DEF Roles, Calm, Steady
    <2>8. Types'
      BY <2>2, <2>3, TypesKept DEF Kept
    <2>9. ReportersAreHeld' /\ StopMissesNoStore' /\ ResourcesHaveOneHolder' /\
          WhatRunsIsHeld' /\ CleanupIsAwaited' /\ LiveIsGivenUp' /\ RevisionsAreOld' /\
          ClearsAreLater' /\ ClearedStaysClear' /\ ShowsAreAwaited' /\ VisibleIsAlive'
      BY <2>2, <2>4, <2>5, <2>7, Undisturbed
    <2>10. UnstartedHasNothing'
      <3>1. s < nextSession
        BY <2>3, Numbers DEF Inv, UnstartedHasNothing, Guarantees
      <3>2. nextSession > 1 => snapshot'.revision > 0
        BY <2>5, Numbers DEF Inv, UnstartedHasNothing, Guarantees, Advances
      <3>3. \A t \in Starts : t >= nextSession => monitor'[t] = "none"
        BY <3>1, <2>3, Numbers DEF Inv, UnstartedHasNothing
      <3> QED
        BY <2>2, <2>5, <3>2, <3>3 DEF Inv, UnstartedHasNothing
    <2>11. JobsAreOwned'
      <3>1. \A x \in Callers : Busy(x)' <=> Busy(x)
        BY <2>2 DEF Busy
      <3>2. \A t \in Starts :
              /\ Starter(t) \in Callers /\ MonitorOf(t) \in Callers
              /\ start[t] \in {"none", "reset", "monitor", "abandon"} => t # s
              /\ monitor'[t] = "cleaning" => t # s
              /\ Busy(MonitorOf(t)) => t # s
        BY <2>3, CallersDiffer DEF Inv, JobsAreOwned
      <3>3. \A t \in Starts : t # s => monitor'[t] = monitor[t]
        BY <2>3
      <3>4. Main \in Callers
        BY CallersDiffer
      <3> QED
        BY <2>2, <2>5, <3>1, <3>2, <3>3, <3>4 DEF Inv, JobsAreOwned
    <2> QED
      BY <2>1, <2>4, <2>8, <2>9, <2>10, <2>11
      DEF Inv
  <1>2. CASE /\ monitor[s] = "cleaning" /\ Done(<<"monitor", s>>) /\ MonitorTo(s, "poll")
             /\ UNCHANGED supVars
    <2>1. /\ Theory!Inv' /\ Calm
          /\ monitor[s] = "cleaning"
          /\ monitor' = [monitor EXCEPT ![s] = "poll"]
          /\ UNCHANGED <<env, slot, control, start, worker, job, capture, processor, events,
                        cleanup, stopResult, failureCleanup, budget, text, pass, output, shown,
                        ui, frame, stops, presents>>
      BY <1>2, StutterEffect
      DEF Inv, MonitorAct, MonitorTo, supVars, overlayVars, mainVars, threadVars, cleanupVars,
          monitorVars
    <2>2. UNCHANGED <<env, slot, control, start, worker, job, capture, processor, events, cleanup,
                       stopResult, failureCleanup, budget, text, pass, output, shown, ui, frame,
                       stops, presents>>
      BY <2>1
    <2>3. /\ monitor[s] # "none" /\ monitor'[s] = "poll" /\ ~Busy(MonitorOf(s))
          /\ monitor' \in [Starts -> {"none", "poll", "drain", "look", "cleaning", "timeout", "ended"}]
          /\ \A t \in Starts : t # s => monitor'[t] = monitor[t]
      <3>1. monitor[s] = "cleaning" /\ monitor' = [monitor EXCEPT ![s] = "poll"]
        BY <2>1
      <3>2. ~Busy(MonitorOf(s))
        BY <1>2 DEF Busy, Done, JobAt, MonitorOf
      <3> QED
        BY <3>1, <3>2 DEF Inv, Types
    <2>4. /\ NumbersAreDistinct'
          /\ \A t \in Starts, r \in Roles : Holds(t, r) => Holds(t, r)'
      BY <2>1, ReportersKept
      DEF Calm, Steady
    <2>5. /\ UNCHANGED <<active, cleanupFinished, nextSession>>
          /\ cancelled \subseteq cancelled' /\ Advances
          /\ active = NoSession => UNCHANGED snapshot
          /\ NoneRuns
      BY <2>1
      DEF Calm, Steady, Advances, NoneRuns
    <2>6. \A t \in Starts : Tracked(t)' <=> Tracked(t)
      BY <2>2
      DEF Tracked, Roles
    <2>7. StaysAwaited
      BY <2>1, AwaitedByAll
      DEF Roles, Calm, Steady
    <2>8. Types'
      BY <2>2, <2>3, TypesKept DEF Kept
    <2>9. ReportersAreHeld' /\ StopMissesNoStore' /\ ResourcesHaveOneHolder' /\
          WhatRunsIsHeld' /\ CleanupIsAwaited' /\ LiveIsGivenUp' /\ RevisionsAreOld' /\
          ClearsAreLater' /\ ClearedStaysClear' /\ ShowsAreAwaited' /\ VisibleIsAlive'
      BY <2>2, <2>4, <2>5, <2>7, Undisturbed
    <2>10. UnstartedHasNothing'
      <3>1. s < nextSession
        BY <2>3, Numbers DEF Inv, UnstartedHasNothing, Guarantees
      <3>2. nextSession > 1 => snapshot'.revision > 0
        BY <2>5, Numbers DEF Inv, UnstartedHasNothing, Guarantees, Advances
      <3>3. \A t \in Starts : t >= nextSession => monitor'[t] = "none"
        BY <3>1, <2>3, Numbers DEF Inv, UnstartedHasNothing
      <3> QED
        BY <2>2, <2>5, <3>2, <3>3 DEF Inv, UnstartedHasNothing
    <2>11. JobsAreOwned'
      <3>1. \A x \in Callers : Busy(x)' <=> Busy(x)
        BY <2>2 DEF Busy
      <3>2. \A t \in Starts :
              /\ Starter(t) \in Callers /\ MonitorOf(t) \in Callers
              /\ start[t] \in {"none", "reset", "monitor", "abandon"} => t # s
              /\ monitor'[t] = "cleaning" => t # s
              /\ Busy(MonitorOf(t)) => t # s
        BY <2>3, CallersDiffer DEF Inv, JobsAreOwned
      <3>3. \A t \in Starts : t # s => monitor'[t] = monitor[t]
        BY <2>3
      <3>4. Main \in Callers
        BY CallersDiffer
      <3> QED
        BY <2>2, <2>5, <3>1, <3>2, <3>3, <3>4 DEF Inv, JobsAreOwned
    <2> QED
      BY <2>1, <2>4, <2>8, <2>9, <2>10, <2>11
      DEF Inv
  <1> QED
    BY <1>1, <1>2 DEF MonitorAct

LEMMA MonitorLookStep ==
  ASSUME Inv, NEW s \in Starts, MonitorLook(s)
  PROVE  Inv'
  <1>1. CASE (active = NoSession \/ ~Owns(s)) /\ MonitorTo(s, "ended") /\ UNCHANGED <<job, slot, failureCleanup>>
    <2>1. /\ Theory!Inv' /\ Calm
          /\ monitor[s] \in {"look", "poll"}
          /\ monitor' = [monitor EXCEPT ![s] = "ended"]
          /\ UNCHANGED <<env, slot, control, start, worker, job, capture, processor, events,
                        cleanup, stopResult, failureCleanup, budget, text, pass, output, shown,
                        ui, frame, stops, presents>>
      BY <1>1, StutterEffect
      DEF Inv, MonitorLook, MonitorTo, supVars, overlayVars, mainVars, threadVars, cleanupVars,
          monitorVars
    <2>2. UNCHANGED <<env, slot, control, start, worker, job, capture, processor, events, cleanup,
                       stopResult, failureCleanup, budget, text, pass, output, shown, ui, frame,
                       stops, presents>>
      BY <2>1
    <2>3. /\ monitor[s] # "none" /\ monitor'[s] = "ended" /\ ~Busy(MonitorOf(s))
          /\ monitor' \in [Starts -> {"none", "poll", "drain", "look", "cleaning", "timeout", "ended"}]
          /\ \A t \in Starts : t # s => monitor'[t] = monitor[t]
      <3>1. monitor[s] \notin {"none", "cleaning"} /\ monitor' = [monitor EXCEPT ![s] = "ended"]
        BY <2>1
      <3>2. ~Busy(MonitorOf(s))
        BY <3>1 DEF Inv, JobsAreOwned
      <3> QED
        BY <3>1, <3>2 DEF Inv, Types
    <2>4. /\ NumbersAreDistinct'
          /\ \A t \in Starts, r \in Roles : Holds(t, r) => Holds(t, r)'
      BY <2>1, ReportersKept
      DEF Calm, Steady
    <2>5. /\ UNCHANGED <<active, cleanupFinished, nextSession>>
          /\ cancelled \subseteq cancelled' /\ Advances
          /\ active = NoSession => UNCHANGED snapshot
          /\ NoneRuns
      BY <2>1
      DEF Calm, Steady, Advances, NoneRuns
    <2>6. \A t \in Starts : Tracked(t)' <=> Tracked(t)
      BY <2>2
      DEF Tracked, Roles
    <2>7. StaysAwaited
      BY <2>1, AwaitedByAll
      DEF Roles, Calm, Steady
    <2>8. Types'
      BY <2>2, <2>3, TypesKept DEF Kept
    <2>9. ReportersAreHeld' /\ StopMissesNoStore' /\ ResourcesHaveOneHolder' /\
          WhatRunsIsHeld' /\ CleanupIsAwaited' /\ LiveIsGivenUp' /\ RevisionsAreOld' /\
          ClearsAreLater' /\ ClearedStaysClear' /\ ShowsAreAwaited' /\ VisibleIsAlive'
      BY <2>2, <2>4, <2>5, <2>7, Undisturbed
    <2>10. UnstartedHasNothing'
      <3>1. s < nextSession
        BY <2>3, Numbers DEF Inv, UnstartedHasNothing, Guarantees
      <3>2. nextSession > 1 => snapshot'.revision > 0
        BY <2>5, Numbers DEF Inv, UnstartedHasNothing, Guarantees, Advances
      <3>3. \A t \in Starts : t >= nextSession => monitor'[t] = "none"
        BY <3>1, <2>3, Numbers DEF Inv, UnstartedHasNothing
      <3> QED
        BY <2>2, <2>5, <3>2, <3>3 DEF Inv, UnstartedHasNothing
    <2>11. JobsAreOwned'
      <3>1. \A x \in Callers : Busy(x)' <=> Busy(x)
        BY <2>2 DEF Busy
      <3>2. \A t \in Starts :
              /\ Starter(t) \in Callers /\ MonitorOf(t) \in Callers
              /\ start[t] \in {"none", "reset", "monitor", "abandon"} => t # s
              /\ monitor'[t] = "cleaning" => t # s
              /\ Busy(MonitorOf(t)) => t # s
        BY <2>3, CallersDiffer DEF Inv, JobsAreOwned
      <3>3. \A t \in Starts : t # s => monitor'[t] = monitor[t]
        BY <2>3
      <3>4. Main \in Callers
        BY CallersDiffer
      <3> QED
        BY <2>2, <2>5, <3>1, <3>2, <3>3, <3>4 DEF Inv, JobsAreOwned
    <2> QED
      BY <2>1, <2>4, <2>8, <2>9, <2>10, <2>11
      DEF Inv
  <1>2. CASE /\ active # NoSession /\ Owns(s) /\ snapshot.lifecycle = "Failed" /\ ~failureCleanup[s]
             /\ failureCleanup' = [failureCleanup EXCEPT ![s] = TRUE]
             /\ BeginJob(<<"monitor", s>>, s, slot = s, "read")
             /\ slot' = IF slot = s THEN NoSession ELSE slot
             /\ MonitorTo(s, "cleaning")
    <2>1. /\ Theory!Inv' /\ Calm
          /\ active # NoSession /\ Owns(s) /\ snapshot.lifecycle = "Failed"
          /\ ~failureCleanup[s] /\ monitor[s] \in {"look", "poll"}
          /\ failureCleanup' = [failureCleanup EXCEPT ![s] = TRUE]
          /\ BeginJob(MonitorOf(s), s, slot = s, "read")
          /\ slot' = IF slot = s THEN NoSession ELSE slot
          /\ monitor' = [monitor EXCEPT ![s] = "cleaning"]
          /\ UNCHANGED <<env, control, start, worker, capture, processor, events, cleanup,
                        stopResult, budget, text, pass, output, shown, ui, frame, stops, presents>>
      BY <1>2, StutterEffect
      DEF Inv, MonitorLook, MonitorTo, MonitorOf, supVars, overlayVars, mainVars, threadVars,
          cleanupVars, monitorVars
    <2>2. UNCHANGED <<env, control, start, worker, capture, processor, events, cleanup,
                       stopResult, budget, text, pass, output, shown, ui, frame, stops, presents>>
      BY <2>1
    <2>3. /\ job' \in [Callers -> Jobs] /\ MonitorOf(s) \in Callers /\ MonitorOf(s) # Main
          /\ job'[MonitorOf(s)].pc = "read" /\ job'[MonitorOf(s)].session = s
          /\ job'[MonitorOf(s)].held <=> slot = s
          /\ \A x \in Callers : x # MonitorOf(s) => job'[x] = job[x]
      <3>1. MonitorOf(s) \in Callers /\ MonitorOf(s) # Main
        BY CallersDiffer
      <3>2. PICK j \in Jobs :
              /\ job' = [job EXCEPT ![MonitorOf(s)] = j]
              /\ j.pc = "read" /\ j.session = s /\ (j.held <=> slot = s)
        <4>1. job' = [job EXCEPT ![MonitorOf(s)] =
                        [pc |-> "read", session |-> s, revision |-> 0, held |-> slot = s, already |-> FALSE]]
          BY <2>1 DEF BeginJob
        <4> DEFINE j == [pc |-> "read", session |-> s, revision |-> 0, held |-> slot = s, already |-> FALSE]
        <4>2. j \in Jobs
          BY DEF Jobs
        <4>3. j.pc = "read" /\ j.session = s
          OBVIOUS
        <4>4. j.held <=> slot = s
          <5>1. j.held = (slot = s)
            BY Zenon
          <5> QED
            BY <5>1, Zenon
        <4>5. job' = [job EXCEPT ![MonitorOf(s)] = j]
          BY <4>1
        <4> HIDE DEF j
        <4> QED
          BY <4>2, <4>3, <4>4, <4>5
      <3>3. /\ job' \in [Callers -> Jobs] /\ job'[MonitorOf(s)] = j
            /\ \A x \in Callers : x # MonitorOf(s) => job'[x] = job[x]
        BY <3>1, <3>2, JobBegun
      <3> QED
        BY <3>1, <3>2, <3>3
    <2>4. /\ active = s /\ s # NoSession /\ s = nextSession - 1 /\ s < nextSession /\ s \in cancelled
          /\ ~failureCleanup[s] /\ monitor[s] \notin {"none", "cleaning"}
      <3>1. active = s /\ s # NoSession /\ s \in cancelled
        BY <2>1, Numbers DEF Guarantees, Owns
      <3>2. s = nextSession - 1 /\ s < nextSession
        BY <3>1, Numbers DEF Inv, UnstartedHasNothing
      <3> QED
        BY <2>1, <3>1, <3>2
    <2>5. /\ monitor'[s] = "cleaning" /\ monitor' \in [Starts -> {"none", "poll", "drain", "look", "cleaning", "timeout", "ended"}]
          /\ \A t \in Starts : t # s => monitor'[t] = monitor[t]
          /\ failureCleanup'[s] = TRUE /\ failureCleanup' \in [Starts -> BOOLEAN]
          /\ \A t \in Starts : t # s => failureCleanup'[t] = failureCleanup[t]
      <3>1. failureCleanup' = [failureCleanup EXCEPT ![s] = TRUE] /\ monitor' = [monitor EXCEPT ![s] = "cleaning"]
        BY <2>1
      <3>2. monitor \in [Starts -> {"none", "poll", "drain", "look", "cleaning", "timeout", "ended"}] /\ failureCleanup \in [Starts -> BOOLEAN]
        BY DEF Inv, Types
      <3> QED
        BY <3>1, <3>2
    <2>6. /\ slot' \in Starts \cup {NoSession} /\ slot' # s /\ (slot' = slot \/ (slot = s /\ slot' = NoSession))
          /\ slot # s => slot' = slot
          /\ \A t \in Starts : t # s => (slot' = t <=> slot = t)
      <3>1. slot' = (IF slot = s THEN NoSession ELSE slot)
        BY <2>1
      <3>2. slot \in Starts \cup {NoSession} /\ NoSession \notin Starts
        BY Numbers DEF Inv, Types
      <3> QED
        BY <3>1, <3>2
    <2>7. \A x \in Callers, t \in Starts :
          InJob(x, t)' <=> InJob(x, t) \/ (x = MonitorOf(s) /\ t = s /\ slot = s)
      <3>1. ~Busy(MonitorOf(s))
        BY <2>4 DEF Inv, JobsAreOwned
      <3> QED
        BY <2>3, <3>1 DEF InJob, Busy
    <2>8. \A t \in Starts : t < nextSession => (FindsOthersStored(t)' <=> FindsOthersStored(t))
      BY <2>4, <2>6, Numbers DEF FindsOthersStored
    <2>9. /\ NumbersAreDistinct'
          /\ \A t \in Starts, r \in Roles : Holds(t, r) => Holds(t, r)'
      BY <2>1, ReportersKept
      DEF Calm, Steady
    <2>10. /\ UNCHANGED <<active, cleanupFinished, nextSession>>
           /\ cancelled \subseteq cancelled' /\ Advances
           /\ active = NoSession => UNCHANGED snapshot
           /\ NoneRuns
      BY <2>1
      DEF Calm, Steady, Advances, NoneRuns
    <2>11. \A t \in Starts : Tracked(t)' <=> Tracked(t)
      BY <2>2
      DEF Tracked, Roles
    <2>12. Types'
      BY <2>2, <2>3, <2>5, <2>6, TypesKept DEF Kept
    <2>13. RevisionsAreOld' /\ ShowsAreAwaited'
      BY <2>2, <2>9, <2>10, Undisturbed
    <2>14. UnstartedHasNothing'
      <3>1. nextSession > 1 => snapshot'.revision > 0
        BY <2>10, Numbers DEF Inv, UnstartedHasNothing, Guarantees, Advances
      <3>2. \A t \in Starts : t >= nextSession => monitor'[t] = "none" /\ ~failureCleanup'[t]
        <4>1. \A t \in Starts : t >= nextSession => t # s
          BY <2>4, Numbers
        <4> QED
          BY <2>5, <4>1 DEF Inv, UnstartedHasNothing
      <3>3. \A x \in Callers : job'[x].session < nextSession
        BY <2>3, <2>4 DEF Inv, UnstartedHasNothing
      <3>4. slot' < nextSession
        BY <2>6, Numbers DEF Inv, UnstartedHasNothing, NoSession
      <3> QED
        BY <2>2, <2>10, <3>1, <3>2, <3>3, <3>4 DEF Inv, UnstartedHasNothing
    <2>15. JobsAreOwned'
      <3>1. \A x \in Callers : x # MonitorOf(s) => (Busy(x)' <=> Busy(x)) /\ job'[x] = job[x]
        BY <2>3 DEF Busy
      <3>2. \A t \in Starts :
              /\ Starter(t) \in Callers /\ Starter(t) # MonitorOf(s)
              /\ MonitorOf(t) \in Callers /\ (t # s => MonitorOf(t) # MonitorOf(s))
        BY CallersDiffer
      <3>3. \A x \in Callers : Busy(x)' => job'[x].session \in Starts
        BY <2>3, <3>1 DEF Inv, JobsAreOwned
      <3>4. \A t \in Starts :
              /\ Busy(Starter(t))' => job'[Starter(t)].session = t /\ start[t] \in {"cancelled", "failed"}
              /\ Busy(MonitorOf(t))' => job'[MonitorOf(t)].session = t /\ monitor'[t] = "cleaning"
              /\ job'[Starter(t)].pc # "lock" /\ job'[MonitorOf(t)].pc # "lock"
        <4> TAKE t \in Starts
        <4>1. Busy(MonitorOf(t))' => job'[MonitorOf(t)].session = t /\ monitor'[t] = "cleaning"
          BY <2>3, <2>5, <3>1, <3>2 DEF Inv, JobsAreOwned
        <4>2. job'[MonitorOf(t)].pc # "lock"
          BY <2>3, <3>2 DEF Inv, JobsAreOwned
        <4> QED
          BY <2>3, <3>1, <3>2, <4>1, <4>2 DEF Inv, JobsAreOwned
      <3>5. \A t \in Starts :
              /\ monitor'[t] = "cleaning" => failureCleanup'[t]
              /\ start[t] \in {"none", "reset", "monitor", "abandon"} => monitor'[t] = "none"
              /\ failureCleanup'[t] => t \in cancelled'
        BY <2>10, <2>4, <2>5 DEF Inv, JobsAreOwned
      <3>6. Busy(Main)' => job'[Main].session \in cancelled'
        BY <2>10, <2>3, <3>1, CallersDiffer DEF Inv, JobsAreOwned
      <3>7. \A x \in Callers :
              /\ job'[x].pc = "clearStop" => job'[x].session \in cancelled'
              /\ job'[x].pc \in {"register", "spawn", "fail", "finishFailed"} => job'[x].held
              /\ job'[x].pc = "finish" => ~job'[x].held
        BY <2>10, <2>3, <3>1 DEF Inv, JobsAreOwned
      <3> QED
        BY <2>2, <3>3, <3>4, <3>5, <3>6, <3>7 DEF JobsAreOwned
    <2>16. ReportersAreHeld'
      <3>1. \A x \in Callers, t \in Starts : (ClearsUp(x, t) /\ job[x].pc = "spawn")' =>
              ClearsUp(x, t) /\ job[x].pc = "spawn"
        BY <2>3 DEF ClearsUp, Busy
      <3> QED
        BY <2>2, <2>9, <2>11, <3>1 DEF Inv, ReportersAreHeld, InStartup, Roles
    <2>17. StopMissesNoStore'
      <3>1. \A t \in Starts : ClearsUp(Main, t)' => ClearsUp(Main, t) /\ job'[Main] = job[Main]
        BY <2>3, CallersDiffer DEF ClearsUp, Busy
      <3>2. \A t \in Starts : slot # t => slot' # t
        BY <2>6
      <3> QED
        BY <2>2, <3>1, <3>2 DEF Inv, StopMissesNoStore
    <2>18. ResourcesHaveOneHolder'
      <3>1. \A x \in Callers, t \in Starts :
              /\ job[x].pc = "spawn" /\ InJob(x, t) => job'[x].pc = "spawn"
              /\ ClearsUp(x, t)' /\ job'[x].pc \in {"fail", "finishFailed"} =>
                   ClearsUp(x, t) /\ job[x].pc \in {"fail", "finishFailed"}
        <4>1. \A x \in Callers, t \in Starts : job[x].pc = "spawn" /\ InJob(x, t) => x # MonitorOf(s)
          BY <2>4 DEF Busy, Inv, JobsAreOwned
        <4> QED
          BY <2>3, <4>1 DEF ClearsUp, Busy
      <3>2. \A t \in Starts : t # s \/ slot # s => OneHolder(t)'
        <4> SUFFICES ASSUME NEW t \in Starts, t # s \/ slot # s
                     PROVE  OneHolder(t)'
          OBVIOUS
        <4>1. \A x \in Callers : InJob(x, t)' <=> InJob(x, t)
          BY <2>7
        <4>2. slot' = t <=> slot = t
          BY <2>6
        <4>3. /\ start'[t] = start[t] /\ capture'[t] = capture[t] /\ cleanup'[t] = cleanup[t]
              /\ processor'[t] = processor[t] /\ events'[t] = events[t]
          BY <2>2
        <4>4. Tracked(t)' <=> Tracked(t)
          BY <2>11
        <4> QED
          BY <3>1, <4>1, <4>2, <4>3, <4>4, HolderKept
      <3>4. ASSUME slot = s
            PROVE  OneHolder(s)'
        <4>1. InSlot(s) /\ OneHolder(s)
          BY <3>4 DEF InSlot, Inv, ResourcesHaveOneHolder
        <4>2. ~InStart(s) /\ ~InCleanup(s) /\ Open(s) /\ start[s] \in Stored /\ \A x \in Callers : ~InJob(x, s)
          BY <4>1 DEF OneHolder
        <4>3. ~InStart(s)' /\ ~InCleanup(s)' /\ ~InSlot(s)' /\ Open(s)' /\ start'[s] \in Stored /\ cleanup'[s] = "none"
          BY <2>2, <2>6, <4>2 DEF InStart, InSlot, InCleanup, Open
        <4>4. \A x \in Callers : InJob(x, s)' => x = MonitorOf(s)
          BY <4>2, <2>7
        <4>5. ~Tracked(s)'
          BY <2>11, <4>1, <4>2 DEF OneHolder, Open
        <4>6. /\ start'[s] \in BeforeCapture => capture'[s] = "none"
              /\ capture'[s] # "none"
          BY <2>2, <4>1, <4>2 DEF OneHolder, Open
        <4>7. \A x \in Callers : ClearsUp(x, s)' /\ job'[x].pc \in {"fail", "finishFailed"} =>
                capture'[s] = "stopped"
          BY <2>2, <3>1, <4>1 DEF OneHolder
        <4> QED
          BY <4>3, <4>4, <4>5, <4>6, <4>7 DEF OneHolder
      <3> QED
        BY <3>2, <3>4 DEF ResourcesHaveOneHolder
    <2>19. WhatRunsIsHeld'
      <3>1. InSlot(s) => InJob(MonitorOf(s), s)'
        BY <2>3 DEF InSlot, InJob
      <3>2. \A t \in Starts : t # s => (InSlot(t)' <=> InSlot(t))
        BY <2>6 DEF InSlot
      <3> QED
        BY <2>2, <2>3, <2>7, <3>1, <3>2 DEF Inv, WhatRunsIsHeld, InStart, Open
    <2>20. CleanupIsAwaited'
      <3>1. \A x \in Callers, t \in Starts : (ClearsUp(x, t) /\ job[x].pc = "spawn")' =>
              ClearsUp(x, t) /\ job[x].pc = "spawn"
        BY <2>3 DEF ClearsUp, Busy
      <3>2. \A t \in Starts : InSlot(t)' => InSlot(t)
        BY <2>6 DEF InSlot
      <3>3. \A t \in Starts : InJob(Main, t)' => InJob(Main, t)
        BY <2>3, CallersDiffer DEF InJob
      <3>4. \A t \in Starts : failureCleanup[t] => failureCleanup'[t]
        BY <2>5
      <3> QED
        BY <2>2, <2>10, <2>11, <3>1, <3>2, <3>3, <3>4 DEF Inv, CleanupIsAwaited, InCleanup, Fault
    <2>21. LiveIsGivenUp'
      <3>1. \A t \in Starts : start[t] = "cancelled" => t < nextSession
        BY Numbers DEF Inv, UnstartedHasNothing, Guarantees
      <3>2. \A t \in Starts :
              /\ start[t] = "cancelled" => t \in cancelled' \/ FindsOthersStored(t)'
              /\ start[t] = "failed" => events[t] = "none" /\ (Fault("spawn") \/ processor[t] = "none")
        BY <2>10, <2>8, <3>1 DEF Inv, LiveIsGivenUp
      <3> QED
        BY <2>2, <2>10, <2>4, <3>2 DEF LiveIsGivenUp, Fault
    <2>22. ClearsAreLater'
      <3>1. \A x \in Callers, t \in Starts : (ClearsUp(x, t) /\ job[x].pc \in {"clearStop", "clear"})' =>
              ClearsUp(x, t) /\ x # MonitorOf(s) /\ t < nextSession
        BY <2>3 DEF ClearsUp, Busy, Inv, UnstartedHasNothing
      <3> QED
        BY <2>2, <2>3, <2>8, <3>1 DEF Inv, ClearsAreLater, Below, Fault, GaveUp
    <2>23. ClearedStaysClear'
      <3>1. \A t \in Starts : Cleared(t)' => Cleared(t)
        BY <2>2, <2>10, <2>3 DEF Cleared, InCleanup, ClearsUp, Busy
      <3>2. output.session < nextSession
        BY DEF Inv, UnstartedHasNothing
      <3> QED
        BY <2>2, <2>10, <2>8, <3>1, <3>2 DEF Inv, ClearedStaysClear, PutBack, Fault, GaveUp, Below
    <2>24. VisibleIsAlive'
      <3>1. \A t \in Starts : Cleared(t)' => Cleared(t)
        BY <2>2, <2>10, <2>3 DEF Cleared, InCleanup, ClearsUp, Busy
      <3>2. FindsOthersStored(s)' <=> FindsOthersStored(s)
        BY <2>4, <2>8
      <3> QED
        BY <2>2, <2>10, <2>4, <3>1, <3>2 DEF Inv, VisibleIsAlive, HideIsPosted
    <2> QED
      BY <2>1, <2>9, <2>12, <2>13, <2>14, <2>15, <2>16, <2>17, <2>18, <2>19, <2>20, <2>21, <2>22,
         <2>23, <2>24
      DEF Inv
  <1>3. CASE MonitorTo(s, "poll") /\ UNCHANGED <<job, slot, failureCleanup>>
    <2>1. /\ Theory!Inv' /\ Calm
          /\ monitor[s] \in {"look", "poll"}
          /\ monitor' = [monitor EXCEPT ![s] = "poll"]
          /\ UNCHANGED <<env, slot, control, start, worker, job, capture, processor, events,
                        cleanup, stopResult, failureCleanup, budget, text, pass, output, shown,
                        ui, frame, stops, presents>>
      BY <1>3, StutterEffect
      DEF Inv, MonitorLook, MonitorTo, supVars, overlayVars, mainVars, threadVars, cleanupVars,
          monitorVars
    <2>2. UNCHANGED <<env, slot, control, start, worker, job, capture, processor, events, cleanup,
                       stopResult, failureCleanup, budget, text, pass, output, shown, ui, frame,
                       stops, presents>>
      BY <2>1
    <2>3. /\ monitor[s] # "none" /\ monitor'[s] = "poll" /\ ~Busy(MonitorOf(s))
          /\ monitor' \in [Starts -> {"none", "poll", "drain", "look", "cleaning", "timeout", "ended"}]
          /\ \A t \in Starts : t # s => monitor'[t] = monitor[t]
      <3>1. monitor[s] \notin {"none", "cleaning"} /\ monitor' = [monitor EXCEPT ![s] = "poll"]
        BY <2>1
      <3>2. ~Busy(MonitorOf(s))
        BY <3>1 DEF Inv, JobsAreOwned
      <3> QED
        BY <3>1, <3>2 DEF Inv, Types
    <2>4. /\ NumbersAreDistinct'
          /\ \A t \in Starts, r \in Roles : Holds(t, r) => Holds(t, r)'
      BY <2>1, ReportersKept
      DEF Calm, Steady
    <2>5. /\ UNCHANGED <<active, cleanupFinished, nextSession>>
          /\ cancelled \subseteq cancelled' /\ Advances
          /\ active = NoSession => UNCHANGED snapshot
          /\ NoneRuns
      BY <2>1
      DEF Calm, Steady, Advances, NoneRuns
    <2>6. \A t \in Starts : Tracked(t)' <=> Tracked(t)
      BY <2>2
      DEF Tracked, Roles
    <2>7. StaysAwaited
      BY <2>1, AwaitedByAll
      DEF Roles, Calm, Steady
    <2>8. Types'
      BY <2>2, <2>3, TypesKept DEF Kept
    <2>9. ReportersAreHeld' /\ StopMissesNoStore' /\ ResourcesHaveOneHolder' /\
          WhatRunsIsHeld' /\ CleanupIsAwaited' /\ LiveIsGivenUp' /\ RevisionsAreOld' /\
          ClearsAreLater' /\ ClearedStaysClear' /\ ShowsAreAwaited' /\ VisibleIsAlive'
      BY <2>2, <2>4, <2>5, <2>7, Undisturbed
    <2>10. UnstartedHasNothing'
      <3>1. s < nextSession
        BY <2>3, Numbers DEF Inv, UnstartedHasNothing, Guarantees
      <3>2. nextSession > 1 => snapshot'.revision > 0
        BY <2>5, Numbers DEF Inv, UnstartedHasNothing, Guarantees, Advances
      <3>3. \A t \in Starts : t >= nextSession => monitor'[t] = "none"
        BY <3>1, <2>3, Numbers DEF Inv, UnstartedHasNothing
      <3> QED
        BY <2>2, <2>5, <3>2, <3>3 DEF Inv, UnstartedHasNothing
    <2>11. JobsAreOwned'
      <3>1. \A x \in Callers : Busy(x)' <=> Busy(x)
        BY <2>2 DEF Busy
      <3>2. \A t \in Starts :
              /\ Starter(t) \in Callers /\ MonitorOf(t) \in Callers
              /\ start[t] \in {"none", "reset", "monitor", "abandon"} => t # s
              /\ monitor'[t] = "cleaning" => t # s
              /\ Busy(MonitorOf(t)) => t # s
        BY <2>3, CallersDiffer DEF Inv, JobsAreOwned
      <3>3. \A t \in Starts : t # s => monitor'[t] = monitor[t]
        BY <2>3
      <3>4. Main \in Callers
        BY CallersDiffer
      <3> QED
        BY <2>2, <2>5, <3>1, <3>2, <3>3, <3>4 DEF Inv, JobsAreOwned
    <2> QED
      BY <2>1, <2>4, <2>8, <2>9, <2>10, <2>11
      DEF Inv
  <1>4. CASE MonitorTo(s, "timeout") /\ UNCHANGED <<job, slot, failureCleanup>>
    <2>1. /\ Theory!Inv' /\ Calm
          /\ monitor[s] \in {"look", "poll"}
          /\ monitor' = [monitor EXCEPT ![s] = "timeout"]
          /\ UNCHANGED <<env, slot, control, start, worker, job, capture, processor, events,
                        cleanup, stopResult, failureCleanup, budget, text, pass, output, shown,
                        ui, frame, stops, presents>>
      BY <1>4, StutterEffect
      DEF Inv, MonitorLook, MonitorTo, supVars, overlayVars, mainVars, threadVars, cleanupVars,
          monitorVars
    <2>2. UNCHANGED <<env, slot, control, start, worker, job, capture, processor, events, cleanup,
                       stopResult, failureCleanup, budget, text, pass, output, shown, ui, frame,
                       stops, presents>>
      BY <2>1
    <2>3. /\ monitor[s] # "none" /\ monitor'[s] = "timeout" /\ ~Busy(MonitorOf(s))
          /\ monitor' \in [Starts -> {"none", "poll", "drain", "look", "cleaning", "timeout", "ended"}]
          /\ \A t \in Starts : t # s => monitor'[t] = monitor[t]
      <3>1. monitor[s] \notin {"none", "cleaning"} /\ monitor' = [monitor EXCEPT ![s] = "timeout"]
        BY <2>1
      <3>2. ~Busy(MonitorOf(s))
        BY <3>1 DEF Inv, JobsAreOwned
      <3> QED
        BY <3>1, <3>2 DEF Inv, Types
    <2>4. /\ NumbersAreDistinct'
          /\ \A t \in Starts, r \in Roles : Holds(t, r) => Holds(t, r)'
      BY <2>1, ReportersKept
      DEF Calm, Steady
    <2>5. /\ UNCHANGED <<active, cleanupFinished, nextSession>>
          /\ cancelled \subseteq cancelled' /\ Advances
          /\ active = NoSession => UNCHANGED snapshot
          /\ NoneRuns
      BY <2>1
      DEF Calm, Steady, Advances, NoneRuns
    <2>6. \A t \in Starts : Tracked(t)' <=> Tracked(t)
      BY <2>2
      DEF Tracked, Roles
    <2>7. StaysAwaited
      BY <2>1, AwaitedByAll
      DEF Roles, Calm, Steady
    <2>8. Types'
      BY <2>2, <2>3, TypesKept DEF Kept
    <2>9. ReportersAreHeld' /\ StopMissesNoStore' /\ ResourcesHaveOneHolder' /\
          WhatRunsIsHeld' /\ CleanupIsAwaited' /\ LiveIsGivenUp' /\ RevisionsAreOld' /\
          ClearsAreLater' /\ ClearedStaysClear' /\ ShowsAreAwaited' /\ VisibleIsAlive'
      BY <2>2, <2>4, <2>5, <2>7, Undisturbed
    <2>10. UnstartedHasNothing'
      <3>1. s < nextSession
        BY <2>3, Numbers DEF Inv, UnstartedHasNothing, Guarantees
      <3>2. nextSession > 1 => snapshot'.revision > 0
        BY <2>5, Numbers DEF Inv, UnstartedHasNothing, Guarantees, Advances
      <3>3. \A t \in Starts : t >= nextSession => monitor'[t] = "none"
        BY <3>1, <2>3, Numbers DEF Inv, UnstartedHasNothing
      <3> QED
        BY <2>2, <2>5, <3>2, <3>3 DEF Inv, UnstartedHasNothing
    <2>11. JobsAreOwned'
      <3>1. \A x \in Callers : Busy(x)' <=> Busy(x)
        BY <2>2 DEF Busy
      <3>2. \A t \in Starts :
              /\ Starter(t) \in Callers /\ MonitorOf(t) \in Callers
              /\ start[t] \in {"none", "reset", "monitor", "abandon"} => t # s
              /\ monitor'[t] = "cleaning" => t # s
              /\ Busy(MonitorOf(t)) => t # s
        BY <2>3, CallersDiffer DEF Inv, JobsAreOwned
      <3>3. \A t \in Starts : t # s => monitor'[t] = monitor[t]
        BY <2>3
      <3>4. Main \in Callers
        BY CallersDiffer
      <3> QED
        BY <2>2, <2>5, <3>1, <3>2, <3>3, <3>4 DEF Inv, JobsAreOwned
    <2> QED
      BY <2>1, <2>4, <2>8, <2>9, <2>10, <2>11
      DEF Inv
  <1> QED
    BY <1>1, <1>2, <1>3, <1>4 DEF MonitorLook

-----------------------------------------------------------------------------
(* The OCR processor and the capture-event thread.                         *)

\* Most steps of the two threads neither begin nor drop anything.
ThreadsStay ==
  \A t \in Starts : /\ processor'[t] = "none" <=> processor[t] = "none"
                    /\ events'[t] = "none" <=> events[t] = "none"

\* What the main WebView and the processor hold does not get newer.
NothingNewer ==
  /\ \A t \in Starts : text'[t] \in Nat /\ pass'[t] \in Nat
  /\ \A t \in Starts : \A r \in Nat :
       text[t] < r /\ pass[t] < r => text'[t] < r /\ pass'[t] < r
  /\ \A t \in Starts : processor[t] = "none" => text'[t] = text[t] /\ pass'[t] = pass[t]

LEMMA ThreadsGoOn ==
  ASSUME Inv, UNCHANGED <<env, nextSession>>, cancelled \subseteq cancelled', Advances, ThreadsStay
  PROVE  /\ UNCHANGED <<start, slot, job, cleanup, capture, worker>> => ResourcesHaveOneHolder'
         /\ /\ UNCHANGED <<start, cleanup, job, slot, active, cleanupFinished>>
            /\ active = NoSession => UNCHANGED snapshot
            /\ StaysAwaited
            => LiveIsGivenUp'
         /\ /\ UNCHANGED frame /\ NothingNewer
            /\ NoneRuns \/ \A t \in Starts : snapshot'.session = t => events[t] # "none"
            => RevisionsAreOld'
         /\ UNCHANGED <<job, frame, slot, start>> /\ NothingNewer => ClearsAreLater'
         /\ UNCHANGED <<output, active, cleanup, job, frame, start, slot, cleanupFinished>>
            /\ NothingNewer => ClearedStaysClear'
         /\ UNCHANGED <<shown, ui, slot, active, cleanup, job, cleanupFinished>> => VisibleIsAlive'
         /\ UNCHANGED <<ui, start>> /\ (\A t \in Starts : events[t] = "placed" => events'[t] = "placed")
            => ShowsAreAwaited'
  <1>1. \A t \in Starts : /\ GaveUp(t) => (UNCHANGED start => GaveUp(t)')
                          /\ processor'[t] = "none" <=> processor[t] = "none"
                          /\ events'[t] = "none" <=> events[t] = "none"
    BY DEF GaveUp, ThreadsStay
  <1>2. UNCHANGED <<start, slot, job, cleanup, capture, worker>> => ResourcesHaveOneHolder'
    BY <1>1 DEF Inv, ResourcesHaveOneHolder, OneHolder, InStart, InSlot, InJob, InCleanup, Open,
                Tracked, ClearsUp, Busy
  <1>3. /\ UNCHANGED <<start, cleanup, job, slot, active, cleanupFinished>>
        /\ active = NoSession => UNCHANGED snapshot
        /\ StaysAwaited
        => LiveIsGivenUp'
    BY <1>1 DEF Inv, LiveIsGivenUp, IsLive, StaysAwaited, FindsOthersStored, Fault, Closing,
                InCleanup, ClearsUp, Busy
  <1>4. /\ snapshot.revision \in Nat /\ text \in [Starts -> Nat] /\ pass \in [Starts -> Nat]
        /\ frame.revision \in Nat /\ \A c \in Callers : job[c].revision \in Nat
        /\ output.revision \in Nat
    BY Numbers DEF Inv, Guarantees, Types, Frames, Outputs, Jobs
  <1>5. /\ UNCHANGED frame /\ NothingNewer
        /\ NoneRuns \/ \A t \in Starts : snapshot'.session = t => events[t] # "none"
        => RevisionsAreOld'
    <2> SUFFICES ASSUME UNCHANGED frame, NothingNewer,
                        NoneRuns \/ \A t \in Starts : snapshot'.session = t => events[t] # "none"
                 PROVE  RevisionsAreOld'
      OBVIOUS
    <2>0. snapshot'.revision \in Nat
      BY <1>4 DEF Advances
    <2>1. ASSUME NEW t \in Starts
          PROVE  /\ text[t] < snapshot'.revision + 1 /\ pass[t] < snapshot'.revision + 1
                 /\ frame.session = t => frame.revision < snapshot'.revision + 1
                 /\ t < nextSession =>
                      \/ /\ text[t] < snapshot'.revision /\ pass[t] < snapshot'.revision
                         /\ frame.session = t => frame.revision < snapshot'.revision
                      \/ (Owns(t) /\ IsLive)'
      BY <1>4, <2>1 DEF Inv, RevisionsAreOld, Below, Owns, IsLive, Advances
    <2>2. ASSUME NEW t \in Starts
          PROVE  /\ text'[t] < snapshot'.revision + 1 /\ pass'[t] < snapshot'.revision + 1
                 /\ frame'.session = t => frame'.revision < snapshot'.revision + 1
                 /\ t < nextSession =>
                      \/ /\ text'[t] < snapshot'.revision /\ pass'[t] < snapshot'.revision
                         /\ frame'.session = t => frame'.revision < snapshot'.revision
                      \/ (Owns(t) /\ IsLive)'
      BY <2>0, <2>1 DEF NothingNewer
    <2>3. \A t \in Starts : IsRunning(t)' => IsRunning(t) \/ events[t] # "none"
      BY DEF NoneRuns, IsRunning, Owns
    <2>4. \A t \in Starts : processor'[t] = "none" => text'[t] = 0 /\ pass'[t] = 0 /\ frame'.session # t
      BY <1>1 DEF NothingNewer, Inv, RevisionsAreOld
    <2> QED
      BY <1>1, <2>2, <2>3, <2>4 DEF Inv, RevisionsAreOld, Below
  <1>6. UNCHANGED <<job, frame, slot, start>> /\ NothingNewer => ClearsAreLater'
    BY <1>1, <1>4 DEF NothingNewer, Inv, ClearsAreLater, Below, FindsOthersStored, Fault, ClearsUp, Busy
  <1>7. UNCHANGED <<output, active, cleanup, job, frame, start, slot, cleanupFinished>>
        /\ NothingNewer => ClearedStaysClear'
    BY <1>1, <1>4 DEF NothingNewer, Inv, ClearedStaysClear, PutBack, Below, FindsOthersStored, Fault, Cleared,
                InCleanup, ClearsUp, Busy
  <1>8. UNCHANGED <<shown, ui, slot, active, cleanup, job, cleanupFinished>> => VisibleIsAlive'
    BY <1>1, Numbers DEF Inv, VisibleIsAlive, HideIsPosted, FindsOthersStored, Cleared, InCleanup,
                ClearsUp, Busy
  <1>9. UNCHANGED <<ui, start>> /\ (\A t \in Starts : events[t] = "placed" => events'[t] = "placed")
        => ShowsAreAwaited'
    <2>1. nextSession - 1 \in Starts \/ ~(nextSession > 1) \/ \A t \in Starts : start[t] \notin {"show", "shown"}
      BY Numbers DEF Inv, UnstartedHasNothing
    <2> QED
      BY <1>1, <2>1 DEF Inv, ShowsAreAwaited
  <1> QED
    BY <1>2, <1>3, <1>5, <1>6, <1>7, <1>8, <1>9

LEMMA ReceiveStep ==
  ASSUME Inv, NEW s \in Starts, Receive(s)
  PROVE  Inv'
  <1>1. CASE /\ processor[s] = "loop" /\ processor' = [processor EXCEPT ![s] = "compare"]
             /\ budget[s].frames > 0 /\ budget' = [budget EXCEPT ![s].frames = @ - 1] /\ UNCHANGED events
    <2>1. /\ Theory!Inv' /\ Calm
          /\ processor[s] = "loop"
          /\ budget[s].frames > 0 /\ budget' = [budget EXCEPT ![s].frames = @ - 1]
          /\ processor' = [processor EXCEPT ![s] = "compare"]
          /\ UNCHANGED <<env, slot, control, start, worker, job, capture, events, cleanup,
                        stopResult, monitor, failureCleanup, text, pass, output, shown, ui, frame,
                        stops, presents>>
      BY <1>1, StutterEffect
      DEF Inv, Receive, supVars, overlayVars, mainVars, threadVars, cleanupVars, monitorVars
    <2>2. UNCHANGED <<env, slot, control, start, worker, job, capture, events, cleanup,
                       stopResult, monitor, failureCleanup, text, pass, output, shown, ui, frame,
                       stops, presents>>
      BY <2>1
    <2>3. /\ Moved(processor', processor, s, "compare") /\ processor[s] \notin {"none", "ended"}
          /\ processor' \in [Starts -> {"none", "loop", "compare", "failed", "mark", "emit", "ended"}]
      BY <2>1 DEF Inv, Types, Moved
    <2>4. ThreadsStay
      BY <2>2, <2>3 DEF ThreadsStay, Moved
    <2>5. /\ NumbersAreDistinct'
          /\ \A t \in Starts, r \in Roles : Holds(t, r) => Holds(t, r)'
      BY <2>1, ReportersKept
      DEF Calm, Steady
    <2>6. /\ UNCHANGED <<active, cleanupFinished, nextSession>>
          /\ cancelled \subseteq cancelled' /\ Advances
          /\ active = NoSession => UNCHANGED snapshot
          /\ NoneRuns
      BY <2>1
      DEF Calm, Steady, Advances, NoneRuns
    <2>7. \A t \in Starts : Tracked(t)' <=> Tracked(t)
      BY <2>2
      DEF Tracked, Roles
    <2>8. StaysAwaited
      BY <2>1, AwaitedByAll
      DEF Roles, Calm, Steady
    <2>9. Types'
      <3>1. budget' \in [Starts -> [frames : Nat, events : Nat]]
        <4>1. budget \in [Starts -> [frames : Nat, events : Nat]]
          BY DEF Inv, Types
        <4>2. budget[s] \in [frames : Nat, events : Nat] /\ budget[s].frames > 0
          BY <2>1, <4>1
        <4>3. [budget[s] EXCEPT !.frames = @ - 1] \in [frames : Nat, events : Nat]
          BY <4>2
        <4>4. budget' = [budget EXCEPT ![s] = [budget[s] EXCEPT !.frames = @ - 1]]
          BY <2>1
        <4> QED
          BY <4>1, <4>3, <4>4
      <3> QED
        BY <2>2, <2>3, <3>1, TypesKept DEF Kept
    <2>10. UnstartedHasNothing' /\ JobsAreOwned' /\ StopMissesNoStore' /\ WhatRunsIsHeld' /\
           CleanupIsAwaited' /\ ClearsAreLater' /\ ClearedStaysClear' /\ ShowsAreAwaited' /\
           VisibleIsAlive'
      BY <2>2, <2>5, <2>6, <2>8, Undisturbed
    <2>11. ReportersAreHeld'
      <3>1. \A c \in Callers, t \in Starts : ClearsUp(c, t)' <=> ClearsUp(c, t)
        BY <2>2 DEF ClearsUp, Busy
      <3>2. \A t \in Starts : start[t] \in BeforeProcessor => processor[t] = "none"
        BY DEF Inv, ReportersAreHeld
      <3>3. \A t \in Starts : start[t] \in BeforeEvents => events[t] = "none"
        BY DEF Inv, ReportersAreHeld
      <3>4. \A t \in Starts, r \in Roles :
              \/ Holds(t, r) => Holds(t, r)'
              \/ t = s /\ r = "processor" /\ processor'[t] = "ended" /\ start[t] # "spawnProcessor"
        BY <2>5, <2>3, <3>2, <3>3 DEF BeforeProcessor, BeforeEvents, Moved
      <3>5. \A t \in Starts : /\ processor'[t] \notin {"none", "ended"} => processor[t] \notin {"none", "ended"}
                              /\ events'[t] \notin {"none", "ended"} => events[t] \notin {"none", "ended"}
        BY <2>2, <2>3 DEF Moved
      <3> QED
        BY <2>2, <2>7, <2>4, <3>1, <3>4, <3>5 DEF Inv, ReportersAreHeld, InStartup, Roles, ThreadsStay
    <2>12. ResourcesHaveOneHolder'
      BY <2>2, <2>6, <2>4, ThreadsGoOn
    <2>13. LiveIsGivenUp'
      BY <2>2, <2>6, <2>8, <2>4, ThreadsGoOn
    <2>14. RevisionsAreOld'
      BY <2>2, <2>6, <2>4, Undisturbed DEF ThreadsStay
    <2> QED
      BY <2>1, <2>5, <2>9, <2>10, <2>11, <2>12, <2>13, <2>14
      DEF Inv
  <1>2. CASE /\ processor[s] = "loop" /\ processor' = [processor EXCEPT ![s] = "failed"]
             /\ budget[s].frames > 0 /\ budget' = [budget EXCEPT ![s].frames = @ - 1] /\ UNCHANGED events
    <2>1. /\ Theory!Inv' /\ Calm
          /\ processor[s] = "loop"
          /\ budget[s].frames > 0 /\ budget' = [budget EXCEPT ![s].frames = @ - 1]
          /\ processor' = [processor EXCEPT ![s] = "failed"]
          /\ UNCHANGED <<env, slot, control, start, worker, job, capture, events, cleanup,
                        stopResult, monitor, failureCleanup, text, pass, output, shown, ui, frame,
                        stops, presents>>
      BY <1>2, StutterEffect
      DEF Inv, Receive, supVars, overlayVars, mainVars, threadVars, cleanupVars, monitorVars
    <2>2. UNCHANGED <<env, slot, control, start, worker, job, capture, events, cleanup,
                       stopResult, monitor, failureCleanup, text, pass, output, shown, ui, frame,
                       stops, presents>>
      BY <2>1
    <2>3. /\ Moved(processor', processor, s, "failed") /\ processor[s] \notin {"none", "ended"}
          /\ processor' \in [Starts -> {"none", "loop", "compare", "failed", "mark", "emit", "ended"}]
      BY <2>1 DEF Inv, Types, Moved
    <2>4. ThreadsStay
      BY <2>2, <2>3 DEF ThreadsStay, Moved
    <2>5. /\ NumbersAreDistinct'
          /\ \A t \in Starts, r \in Roles : Holds(t, r) => Holds(t, r)'
      BY <2>1, ReportersKept
      DEF Calm, Steady
    <2>6. /\ UNCHANGED <<active, cleanupFinished, nextSession>>
          /\ cancelled \subseteq cancelled' /\ Advances
          /\ active = NoSession => UNCHANGED snapshot
          /\ NoneRuns
      BY <2>1
      DEF Calm, Steady, Advances, NoneRuns
    <2>7. \A t \in Starts : Tracked(t)' <=> Tracked(t)
      BY <2>2
      DEF Tracked, Roles
    <2>8. StaysAwaited
      BY <2>1, AwaitedByAll
      DEF Roles, Calm, Steady
    <2>9. Types'
      <3>1. budget' \in [Starts -> [frames : Nat, events : Nat]]
        <4>1. budget \in [Starts -> [frames : Nat, events : Nat]]
          BY DEF Inv, Types
        <4>2. budget[s] \in [frames : Nat, events : Nat] /\ budget[s].frames > 0
          BY <2>1, <4>1
        <4>3. [budget[s] EXCEPT !.frames = @ - 1] \in [frames : Nat, events : Nat]
          BY <4>2
        <4>4. budget' = [budget EXCEPT ![s] = [budget[s] EXCEPT !.frames = @ - 1]]
          BY <2>1
        <4> QED
          BY <4>1, <4>3, <4>4
      <3> QED
        BY <2>2, <2>3, <3>1, TypesKept DEF Kept
    <2>10. UnstartedHasNothing' /\ JobsAreOwned' /\ StopMissesNoStore' /\ WhatRunsIsHeld' /\
           CleanupIsAwaited' /\ ClearsAreLater' /\ ClearedStaysClear' /\ ShowsAreAwaited' /\
           VisibleIsAlive'
      BY <2>2, <2>5, <2>6, <2>8, Undisturbed
    <2>11. ReportersAreHeld'
      <3>1. \A c \in Callers, t \in Starts : ClearsUp(c, t)' <=> ClearsUp(c, t)
        BY <2>2 DEF ClearsUp, Busy
      <3>2. \A t \in Starts : start[t] \in BeforeProcessor => processor[t] = "none"
        BY DEF Inv, ReportersAreHeld
      <3>3. \A t \in Starts : start[t] \in BeforeEvents => events[t] = "none"
        BY DEF Inv, ReportersAreHeld
      <3>4. \A t \in Starts, r \in Roles :
              \/ Holds(t, r) => Holds(t, r)'
              \/ t = s /\ r = "processor" /\ processor'[t] = "ended" /\ start[t] # "spawnProcessor"
        BY <2>5, <2>3, <3>2, <3>3 DEF BeforeProcessor, BeforeEvents, Moved
      <3>5. \A t \in Starts : /\ processor'[t] \notin {"none", "ended"} => processor[t] \notin {"none", "ended"}
                              /\ events'[t] \notin {"none", "ended"} => events[t] \notin {"none", "ended"}
        BY <2>2, <2>3 DEF Moved
      <3> QED
        BY <2>2, <2>7, <2>4, <3>1, <3>4, <3>5 DEF Inv, ReportersAreHeld, InStartup, Roles, ThreadsStay
    <2>12. ResourcesHaveOneHolder'
      BY <2>2, <2>6, <2>4, ThreadsGoOn
    <2>13. LiveIsGivenUp'
      BY <2>2, <2>6, <2>8, <2>4, ThreadsGoOn
    <2>14. RevisionsAreOld'
      BY <2>2, <2>6, <2>4, Undisturbed DEF ThreadsStay
    <2> QED
      BY <2>1, <2>5, <2>9, <2>10, <2>11, <2>12, <2>13, <2>14
      DEF Inv
  <1>3. CASE /\ events[s] = "loop" /\ events' = [events EXCEPT ![s] = "resume"]
             /\ budget[s].events > 0 /\ budget' = [budget EXCEPT ![s].events = @ - 1] /\ UNCHANGED processor
    <2>1. /\ Theory!Inv' /\ Calm
          /\ events[s] = "loop"
          /\ budget[s].events > 0 /\ budget' = [budget EXCEPT ![s].events = @ - 1]
          /\ events' = [events EXCEPT ![s] = "resume"]
          /\ UNCHANGED <<env, slot, control, start, worker, job, capture, processor, cleanup,
                        stopResult, monitor, failureCleanup, text, pass, output, shown, ui, frame,
                        stops, presents>>
      BY <1>3, StutterEffect
      DEF Inv, Receive, supVars, overlayVars, mainVars, threadVars, cleanupVars, monitorVars
    <2>2. UNCHANGED <<env, slot, control, start, worker, job, capture, processor, cleanup,
                       stopResult, monitor, failureCleanup, text, pass, output, shown, ui, frame,
                       stops, presents>>
      BY <2>1
    <2>3. /\ Moved(events', events, s, "resume") /\ events[s] \notin {"none", "ended"}
          /\ events' \in [Starts -> {"none", "loop", "closed", "over", "failed", "mark", "resume",
                                  "run", "look", "show", "hide", "placed", "ended"}]
      BY <2>1 DEF Inv, Types, Moved
    <2>4. ThreadsStay
      BY <2>2, <2>3 DEF ThreadsStay, Moved
    <2>5. NothingNewer
      BY <2>2, <2>3 DEF NothingNewer, Inv, Types
    <2>6. /\ NumbersAreDistinct'
          /\ \A t \in Starts, r \in Roles : Holds(t, r) => Holds(t, r)'
      BY <2>1, ReportersKept
      DEF Calm, Steady
    <2>7. /\ UNCHANGED <<active, cleanupFinished, nextSession>>
          /\ cancelled \subseteq cancelled' /\ Advances
          /\ active = NoSession => UNCHANGED snapshot
          /\ NoneRuns
      BY <2>1
      DEF Calm, Steady, Advances, NoneRuns
    <2>8. \A t \in Starts : Tracked(t)' <=> Tracked(t)
      BY <2>2
      DEF Tracked, Roles
    <2>9. StaysAwaited
      BY <2>1, AwaitedByAll
      DEF Roles, Calm, Steady
    <2>10. Types'
      <3>1. budget' \in [Starts -> [frames : Nat, events : Nat]]
        <4>1. budget \in [Starts -> [frames : Nat, events : Nat]]
          BY DEF Inv, Types
        <4>2. budget[s] \in [frames : Nat, events : Nat] /\ budget[s].events > 0
          BY <2>1, <4>1
        <4>3. [budget[s] EXCEPT !.events = @ - 1] \in [frames : Nat, events : Nat]
          BY <4>2
        <4>4. budget' = [budget EXCEPT ![s] = [budget[s] EXCEPT !.events = @ - 1]]
          BY <2>1
        <4> QED
          BY <4>1, <4>3, <4>4
      <3> QED
        BY <2>2, <2>3, <3>1, TypesKept DEF Kept
    <2>11. UnstartedHasNothing' /\ JobsAreOwned' /\ StopMissesNoStore' /\ WhatRunsIsHeld' /\
           CleanupIsAwaited'
      BY <2>2, <2>6, <2>7, <2>9, Undisturbed
    <2>12. ReportersAreHeld'
      <3>1. \A c \in Callers, t \in Starts : ClearsUp(c, t)' <=> ClearsUp(c, t)
        BY <2>2 DEF ClearsUp, Busy
      <3>2. \A t \in Starts : start[t] \in BeforeProcessor => processor[t] = "none"
        BY DEF Inv, ReportersAreHeld
      <3>3. \A t \in Starts : start[t] \in BeforeEvents => events[t] = "none"
        BY DEF Inv, ReportersAreHeld
      <3>4. \A t \in Starts, r \in Roles :
              \/ Holds(t, r) => Holds(t, r)'
              \/ t = s /\ r = "events" /\ events'[t] = "ended" /\ start[t] # "spawnEvents"
        BY <2>6, <2>3, <3>2, <3>3 DEF BeforeProcessor, BeforeEvents, Moved
      <3>5. \A t \in Starts : /\ processor'[t] \notin {"none", "ended"} => processor[t] \notin {"none", "ended"}
                              /\ events'[t] \notin {"none", "ended"} => events[t] \notin {"none", "ended"}
        BY <2>2, <2>3 DEF Moved
      <3> QED
        BY <2>2, <2>8, <2>4, <3>1, <3>4, <3>5 DEF Inv, ReportersAreHeld, InStartup, Roles, ThreadsStay
    <2>13. ResourcesHaveOneHolder'
      BY <2>2, <2>7, <2>4, ThreadsGoOn
    <2>14. LiveIsGivenUp'
      BY <2>2, <2>7, <2>9, <2>4, ThreadsGoOn
    <2>15. RevisionsAreOld'
      BY <2>2, <2>7, <2>4, <2>5, ThreadsGoOn
    <2>16. ClearsAreLater'
      BY <2>2, <2>7, <2>4, <2>5, ThreadsGoOn
    <2>17. ClearedStaysClear'
      BY <2>2, <2>7, <2>4, <2>5, ThreadsGoOn
    <2>18. ShowsAreAwaited'
      <3>1. \A t \in Starts : events[t] = "placed" => events'[t] = "placed"
        BY <2>1, <2>3 DEF Moved
      <3> QED
        BY <2>2, <2>7, <2>4, <3>1, ThreadsGoOn
    <2>19. VisibleIsAlive'
      BY <2>2, <2>7, <2>4, ThreadsGoOn
    <2> QED
      BY <2>1, <2>6, <2>10, <2>11, <2>12, <2>13, <2>14, <2>15, <2>16, <2>17, <2>18, <2>19
      DEF Inv
  <1>4. CASE /\ events[s] = "loop" /\ events' = [events EXCEPT ![s] = "failed"]
             /\ budget[s].events > 0 /\ budget' = [budget EXCEPT ![s].events = @ - 1] /\ UNCHANGED processor
    <2>1. /\ Theory!Inv' /\ Calm
          /\ events[s] = "loop"
          /\ budget[s].events > 0 /\ budget' = [budget EXCEPT ![s].events = @ - 1]
          /\ events' = [events EXCEPT ![s] = "failed"]
          /\ UNCHANGED <<env, slot, control, start, worker, job, capture, processor, cleanup,
                        stopResult, monitor, failureCleanup, text, pass, output, shown, ui, frame,
                        stops, presents>>
      BY <1>4, StutterEffect
      DEF Inv, Receive, supVars, overlayVars, mainVars, threadVars, cleanupVars, monitorVars
    <2>2. UNCHANGED <<env, slot, control, start, worker, job, capture, processor, cleanup,
                       stopResult, monitor, failureCleanup, text, pass, output, shown, ui, frame,
                       stops, presents>>
      BY <2>1
    <2>3. /\ Moved(events', events, s, "failed") /\ events[s] \notin {"none", "ended"}
          /\ events' \in [Starts -> {"none", "loop", "closed", "over", "failed", "mark", "resume",
                                  "run", "look", "show", "hide", "placed", "ended"}]
      BY <2>1 DEF Inv, Types, Moved
    <2>4. ThreadsStay
      BY <2>2, <2>3 DEF ThreadsStay, Moved
    <2>5. NothingNewer
      BY <2>2, <2>3 DEF NothingNewer, Inv, Types
    <2>6. /\ NumbersAreDistinct'
          /\ \A t \in Starts, r \in Roles : Holds(t, r) => Holds(t, r)'
      BY <2>1, ReportersKept
      DEF Calm, Steady
    <2>7. /\ UNCHANGED <<active, cleanupFinished, nextSession>>
          /\ cancelled \subseteq cancelled' /\ Advances
          /\ active = NoSession => UNCHANGED snapshot
          /\ NoneRuns
      BY <2>1
      DEF Calm, Steady, Advances, NoneRuns
    <2>8. \A t \in Starts : Tracked(t)' <=> Tracked(t)
      BY <2>2
      DEF Tracked, Roles
    <2>9. StaysAwaited
      BY <2>1, AwaitedByAll
      DEF Roles, Calm, Steady
    <2>10. Types'
      <3>1. budget' \in [Starts -> [frames : Nat, events : Nat]]
        <4>1. budget \in [Starts -> [frames : Nat, events : Nat]]
          BY DEF Inv, Types
        <4>2. budget[s] \in [frames : Nat, events : Nat] /\ budget[s].events > 0
          BY <2>1, <4>1
        <4>3. [budget[s] EXCEPT !.events = @ - 1] \in [frames : Nat, events : Nat]
          BY <4>2
        <4>4. budget' = [budget EXCEPT ![s] = [budget[s] EXCEPT !.events = @ - 1]]
          BY <2>1
        <4> QED
          BY <4>1, <4>3, <4>4
      <3> QED
        BY <2>2, <2>3, <3>1, TypesKept DEF Kept
    <2>11. UnstartedHasNothing' /\ JobsAreOwned' /\ StopMissesNoStore' /\ WhatRunsIsHeld' /\
           CleanupIsAwaited'
      BY <2>2, <2>6, <2>7, <2>9, Undisturbed
    <2>12. ReportersAreHeld'
      <3>1. \A c \in Callers, t \in Starts : ClearsUp(c, t)' <=> ClearsUp(c, t)
        BY <2>2 DEF ClearsUp, Busy
      <3>2. \A t \in Starts : start[t] \in BeforeProcessor => processor[t] = "none"
        BY DEF Inv, ReportersAreHeld
      <3>3. \A t \in Starts : start[t] \in BeforeEvents => events[t] = "none"
        BY DEF Inv, ReportersAreHeld
      <3>4. \A t \in Starts, r \in Roles :
              \/ Holds(t, r) => Holds(t, r)'
              \/ t = s /\ r = "events" /\ events'[t] = "ended" /\ start[t] # "spawnEvents"
        BY <2>6, <2>3, <3>2, <3>3 DEF BeforeProcessor, BeforeEvents, Moved
      <3>5. \A t \in Starts : /\ processor'[t] \notin {"none", "ended"} => processor[t] \notin {"none", "ended"}
                              /\ events'[t] \notin {"none", "ended"} => events[t] \notin {"none", "ended"}
        BY <2>2, <2>3 DEF Moved
      <3> QED
        BY <2>2, <2>8, <2>4, <3>1, <3>4, <3>5 DEF Inv, ReportersAreHeld, InStartup, Roles, ThreadsStay
    <2>13. ResourcesHaveOneHolder'
      BY <2>2, <2>7, <2>4, ThreadsGoOn
    <2>14. LiveIsGivenUp'
      BY <2>2, <2>7, <2>9, <2>4, ThreadsGoOn
    <2>15. RevisionsAreOld'
      BY <2>2, <2>7, <2>4, <2>5, ThreadsGoOn
    <2>16. ClearsAreLater'
      BY <2>2, <2>7, <2>4, <2>5, ThreadsGoOn
    <2>17. ClearedStaysClear'
      BY <2>2, <2>7, <2>4, <2>5, ThreadsGoOn
    <2>18. ShowsAreAwaited'
      <3>1. \A t \in Starts : events[t] = "placed" => events'[t] = "placed"
        BY <2>1, <2>3 DEF Moved
      <3> QED
        BY <2>2, <2>7, <2>4, <3>1, ThreadsGoOn
    <2>19. VisibleIsAlive'
      BY <2>2, <2>7, <2>4, ThreadsGoOn
    <2> QED
      BY <2>1, <2>6, <2>10, <2>11, <2>12, <2>13, <2>14, <2>15, <2>16, <2>17, <2>18, <2>19
      DEF Inv
  <1>5. CASE /\ events[s] = "loop" /\ events' = [events EXCEPT ![s] = "over"]
             /\ budget[s].events > 0 /\ budget' = [budget EXCEPT ![s].events = @ - 1] /\ UNCHANGED processor
    <2>1. /\ Theory!Inv' /\ Calm
          /\ events[s] = "loop"
          /\ budget[s].events > 0 /\ budget' = [budget EXCEPT ![s].events = @ - 1]
          /\ events' = [events EXCEPT ![s] = "over"]
          /\ UNCHANGED <<env, slot, control, start, worker, job, capture, processor, cleanup,
                        stopResult, monitor, failureCleanup, text, pass, output, shown, ui, frame,
                        stops, presents>>
      BY <1>5, StutterEffect
      DEF Inv, Receive, supVars, overlayVars, mainVars, threadVars, cleanupVars, monitorVars
    <2>2. UNCHANGED <<env, slot, control, start, worker, job, capture, processor, cleanup,
                       stopResult, monitor, failureCleanup, text, pass, output, shown, ui, frame,
                       stops, presents>>
      BY <2>1
    <2>3. /\ Moved(events', events, s, "over") /\ events[s] \notin {"none", "ended"}
          /\ events' \in [Starts -> {"none", "loop", "closed", "over", "failed", "mark", "resume",
                                  "run", "look", "show", "hide", "placed", "ended"}]
      BY <2>1 DEF Inv, Types, Moved
    <2>4. ThreadsStay
      BY <2>2, <2>3 DEF ThreadsStay, Moved
    <2>5. NothingNewer
      BY <2>2, <2>3 DEF NothingNewer, Inv, Types
    <2>6. /\ NumbersAreDistinct'
          /\ \A t \in Starts, r \in Roles : Holds(t, r) => Holds(t, r)'
      BY <2>1, ReportersKept
      DEF Calm, Steady
    <2>7. /\ UNCHANGED <<active, cleanupFinished, nextSession>>
          /\ cancelled \subseteq cancelled' /\ Advances
          /\ active = NoSession => UNCHANGED snapshot
          /\ NoneRuns
      BY <2>1
      DEF Calm, Steady, Advances, NoneRuns
    <2>8. \A t \in Starts : Tracked(t)' <=> Tracked(t)
      BY <2>2
      DEF Tracked, Roles
    <2>9. StaysAwaited
      BY <2>1, AwaitedByAll
      DEF Roles, Calm, Steady
    <2>10. Types'
      <3>1. budget' \in [Starts -> [frames : Nat, events : Nat]]
        <4>1. budget \in [Starts -> [frames : Nat, events : Nat]]
          BY DEF Inv, Types
        <4>2. budget[s] \in [frames : Nat, events : Nat] /\ budget[s].events > 0
          BY <2>1, <4>1
        <4>3. [budget[s] EXCEPT !.events = @ - 1] \in [frames : Nat, events : Nat]
          BY <4>2
        <4>4. budget' = [budget EXCEPT ![s] = [budget[s] EXCEPT !.events = @ - 1]]
          BY <2>1
        <4> QED
          BY <4>1, <4>3, <4>4
      <3> QED
        BY <2>2, <2>3, <3>1, TypesKept DEF Kept
    <2>11. UnstartedHasNothing' /\ JobsAreOwned' /\ StopMissesNoStore' /\ WhatRunsIsHeld' /\
           CleanupIsAwaited'
      BY <2>2, <2>6, <2>7, <2>9, Undisturbed
    <2>12. ReportersAreHeld'
      <3>1. \A c \in Callers, t \in Starts : ClearsUp(c, t)' <=> ClearsUp(c, t)
        BY <2>2 DEF ClearsUp, Busy
      <3>2. \A t \in Starts : start[t] \in BeforeProcessor => processor[t] = "none"
        BY DEF Inv, ReportersAreHeld
      <3>3. \A t \in Starts : start[t] \in BeforeEvents => events[t] = "none"
        BY DEF Inv, ReportersAreHeld
      <3>4. \A t \in Starts, r \in Roles :
              \/ Holds(t, r) => Holds(t, r)'
              \/ t = s /\ r = "events" /\ events'[t] = "ended" /\ start[t] # "spawnEvents"
        BY <2>6, <2>3, <3>2, <3>3 DEF BeforeProcessor, BeforeEvents, Moved
      <3>5. \A t \in Starts : /\ processor'[t] \notin {"none", "ended"} => processor[t] \notin {"none", "ended"}
                              /\ events'[t] \notin {"none", "ended"} => events[t] \notin {"none", "ended"}
        BY <2>2, <2>3 DEF Moved
      <3> QED
        BY <2>2, <2>8, <2>4, <3>1, <3>4, <3>5 DEF Inv, ReportersAreHeld, InStartup, Roles, ThreadsStay
    <2>13. ResourcesHaveOneHolder'
      BY <2>2, <2>7, <2>4, ThreadsGoOn
    <2>14. LiveIsGivenUp'
      BY <2>2, <2>7, <2>9, <2>4, ThreadsGoOn
    <2>15. RevisionsAreOld'
      BY <2>2, <2>7, <2>4, <2>5, ThreadsGoOn
    <2>16. ClearsAreLater'
      BY <2>2, <2>7, <2>4, <2>5, ThreadsGoOn
    <2>17. ClearedStaysClear'
      BY <2>2, <2>7, <2>4, <2>5, ThreadsGoOn
    <2>18. ShowsAreAwaited'
      <3>1. \A t \in Starts : events[t] = "placed" => events'[t] = "placed"
        BY <2>1, <2>3 DEF Moved
      <3> QED
        BY <2>2, <2>7, <2>4, <3>1, ThreadsGoOn
    <2>19. VisibleIsAlive'
      BY <2>2, <2>7, <2>4, ThreadsGoOn
    <2> QED
      BY <2>1, <2>6, <2>10, <2>11, <2>12, <2>13, <2>14, <2>15, <2>16, <2>17, <2>18, <2>19
      DEF Inv
  <1> QED
    BY <1>1, <1>2, <1>3, <1>4, <1>5 DEF Receive

LEMMA ProcessorStepStep ==
  ASSUME Inv, NEW s \in Starts, ProcessorStep(s)
  PROVE  Inv'
  <1>1. CASE /\ processor[s] = "loop" /\ processor' = [processor EXCEPT ![s] = "ended"]
             /\ Report(s, "processor", "Cancelled") /\ UNCHANGED pass
    <2>1. /\ Theory!Inv' /\ Reports(s, "processor", "Cancelled")
          /\ processor[s] = "loop"
          /\ processor' = [processor EXCEPT ![s] = "ended"]
          /\ UNCHANGED <<env, slot, control, start, worker, job, capture, events, cleanup,
                        stopResult, monitor, failureCleanup, budget, text, pass, output, shown,
                        ui, frame, stops, presents>>
      BY <1>1, ReportEffect
      DEF Inv, ProcessorStep, supVars, overlayVars, mainVars, threadVars, cleanupVars, monitorVars
    <2>2. UNCHANGED <<env, slot, control, start, worker, job, capture, events, cleanup,
                       stopResult, monitor, failureCleanup, budget, text, pass, output, shown, ui,
                       frame, stops, presents>>
      BY <2>1
    <2>3. /\ Moved(processor', processor, s, "ended") /\ processor[s] \notin {"none", "ended"}
          /\ processor' \in [Starts -> {"none", "loop", "compare", "failed", "mark", "emit", "ended"}]
      BY <2>1 DEF Inv, Types, Moved
    <2>4. ThreadsStay
      BY <2>2, <2>3 DEF ThreadsStay, Moved
    <2>5. /\ NumbersAreDistinct'
          /\ \A t \in Starts, r \in Roles : Holds(t, r) /\ ~(t = s /\ r = "processor") => Holds(t, r)'
      BY <2>1, ReportersReported
      DEF Roles
    <2>6. /\ UNCHANGED <<active, cleanupFinished, nextSession>>
          /\ cancelled \subseteq cancelled' /\ Advances
          /\ active = NoSession => UNCHANGED snapshot
          /\ NoneRuns
      BY <2>1
      DEF Reports, Advances, NoneRuns
    <2>7. \A t \in Starts : Tracked(t)' <=> Tracked(t)
      BY <2>2
      DEF Tracked, Roles
    <2>8. StaysAwaited
      BY <2>1, AwaitedByAll
      DEF Roles, Reports
    <2>9. Types'
      BY <2>2, <2>3, TypesKept DEF Kept
    <2>10. UnstartedHasNothing' /\ JobsAreOwned' /\ StopMissesNoStore' /\ WhatRunsIsHeld' /\
           CleanupIsAwaited' /\ ClearsAreLater' /\ ClearedStaysClear' /\ ShowsAreAwaited' /\
           VisibleIsAlive'
      BY <2>2, <2>5, <2>6, <2>8, Undisturbed
    <2>11. ReportersAreHeld'
      <3>1. \A c \in Callers, t \in Starts : ClearsUp(c, t)' <=> ClearsUp(c, t)
        BY <2>2 DEF ClearsUp, Busy
      <3>2. \A t \in Starts : start[t] \in BeforeProcessor => processor[t] = "none"
        BY DEF Inv, ReportersAreHeld
      <3>3. \A t \in Starts : start[t] \in BeforeEvents => events[t] = "none"
        BY DEF Inv, ReportersAreHeld
      <3>4. \A t \in Starts, r \in Roles :
              \/ Holds(t, r) => Holds(t, r)'
              \/ t = s /\ r = "processor" /\ processor'[t] = "ended" /\ start[t] # "spawnProcessor"
        BY <2>5, <2>3, <3>2, <3>3 DEF BeforeProcessor, BeforeEvents, Moved
      <3>5. \A t \in Starts : /\ processor'[t] \notin {"none", "ended"} => processor[t] \notin {"none", "ended"}
                              /\ events'[t] \notin {"none", "ended"} => events[t] \notin {"none", "ended"}
        BY <2>2, <2>3 DEF Moved
      <3> QED
        BY <2>2, <2>7, <2>4, <3>1, <3>4, <3>5 DEF Inv, ReportersAreHeld, InStartup, Roles, ThreadsStay
    <2>12. ResourcesHaveOneHolder'
      BY <2>2, <2>6, <2>4, ThreadsGoOn
    <2>13. LiveIsGivenUp'
      BY <2>2, <2>6, <2>8, <2>4, ThreadsGoOn
    <2>14. RevisionsAreOld'
      BY <2>2, <2>6, <2>4, Undisturbed DEF ThreadsStay
    <2> QED
      BY <2>1, <2>5, <2>9, <2>10, <2>11, <2>12, <2>13, <2>14
      DEF Inv
  <1>2. CASE /\ processor[s] = "failed" /\ processor' = [processor EXCEPT ![s] = "ended"]
             /\ Report(s, "processor", "Failed") /\ UNCHANGED pass
    <2>1. /\ Theory!Inv' /\ Reports(s, "processor", "Failed")
          /\ processor[s] = "failed"
          /\ processor' = [processor EXCEPT ![s] = "ended"]
          /\ UNCHANGED <<env, slot, control, start, worker, job, capture, events, cleanup,
                        stopResult, monitor, failureCleanup, budget, text, pass, output, shown,
                        ui, frame, stops, presents>>
      BY <1>2, ReportEffect
      DEF Inv, ProcessorStep, supVars, overlayVars, mainVars, threadVars, cleanupVars, monitorVars
    <2>2. UNCHANGED <<env, slot, control, start, worker, job, capture, events, cleanup,
                       stopResult, monitor, failureCleanup, budget, text, pass, output, shown, ui,
                       frame, stops, presents>>
      BY <2>1
    <2>3. /\ Moved(processor', processor, s, "ended") /\ processor[s] \notin {"none", "ended"}
          /\ processor' \in [Starts -> {"none", "loop", "compare", "failed", "mark", "emit", "ended"}]
      BY <2>1 DEF Inv, Types, Moved
    <2>4. ThreadsStay
      BY <2>2, <2>3 DEF ThreadsStay, Moved
    <2>5. /\ NumbersAreDistinct'
          /\ \A t \in Starts, r \in Roles : Holds(t, r) /\ ~(t = s /\ r = "processor") => Holds(t, r)'
      BY <2>1, ReportersReported
      DEF Roles
    <2>6. /\ UNCHANGED <<active, cleanupFinished, nextSession>>
          /\ cancelled \subseteq cancelled' /\ Advances
          /\ active = NoSession => UNCHANGED snapshot
          /\ NoneRuns
      BY <2>1
      DEF Reports, Advances, NoneRuns
    <2>7. \A t \in Starts : Tracked(t)' <=> Tracked(t)
      BY <2>2
      DEF Tracked, Roles
    <2>8. StaysAwaited
      BY <2>1, AwaitedByAll
      DEF Roles, Reports
    <2>9. Types'
      BY <2>2, <2>3, TypesKept DEF Kept
    <2>10. UnstartedHasNothing' /\ JobsAreOwned' /\ StopMissesNoStore' /\ WhatRunsIsHeld' /\
           CleanupIsAwaited' /\ ClearsAreLater' /\ ClearedStaysClear' /\ ShowsAreAwaited' /\
           VisibleIsAlive'
      BY <2>2, <2>5, <2>6, <2>8, Undisturbed
    <2>11. ReportersAreHeld'
      <3>1. \A c \in Callers, t \in Starts : ClearsUp(c, t)' <=> ClearsUp(c, t)
        BY <2>2 DEF ClearsUp, Busy
      <3>2. \A t \in Starts : start[t] \in BeforeProcessor => processor[t] = "none"
        BY DEF Inv, ReportersAreHeld
      <3>3. \A t \in Starts : start[t] \in BeforeEvents => events[t] = "none"
        BY DEF Inv, ReportersAreHeld
      <3>4. \A t \in Starts, r \in Roles :
              \/ Holds(t, r) => Holds(t, r)'
              \/ t = s /\ r = "processor" /\ processor'[t] = "ended" /\ start[t] # "spawnProcessor"
        BY <2>5, <2>3, <3>2, <3>3 DEF BeforeProcessor, BeforeEvents, Moved
      <3>5. \A t \in Starts : /\ processor'[t] \notin {"none", "ended"} => processor[t] \notin {"none", "ended"}
                              /\ events'[t] \notin {"none", "ended"} => events[t] \notin {"none", "ended"}
        BY <2>2, <2>3 DEF Moved
      <3> QED
        BY <2>2, <2>7, <2>4, <3>1, <3>4, <3>5 DEF Inv, ReportersAreHeld, InStartup, Roles, ThreadsStay
    <2>12. ResourcesHaveOneHolder'
      BY <2>2, <2>6, <2>4, ThreadsGoOn
    <2>13. LiveIsGivenUp'
      BY <2>2, <2>6, <2>8, <2>4, ThreadsGoOn
    <2>14. RevisionsAreOld'
      BY <2>2, <2>6, <2>4, Undisturbed DEF ThreadsStay
    <2> QED
      BY <2>1, <2>5, <2>9, <2>10, <2>11, <2>12, <2>13, <2>14
      DEF Inv
  <1>3. CASE /\ processor[s] = "loop" /\ processor' = [processor EXCEPT ![s] = "mark"]
             /\ UNCHANGED <<supVars, pass>>
    <2>1. /\ Theory!Inv' /\ Calm
          /\ processor[s] = "loop"
          /\ processor' = [processor EXCEPT ![s] = "mark"]
          /\ UNCHANGED <<env, slot, control, start, worker, job, capture, events, cleanup,
                        stopResult, monitor, failureCleanup, budget, text, pass, output, shown,
                        ui, frame, stops, presents>>
      BY <1>3, StutterEffect
      DEF Inv, ProcessorStep, supVars, overlayVars, mainVars, threadVars, cleanupVars, monitorVars
    <2>2. UNCHANGED <<env, slot, control, start, worker, job, capture, events, cleanup,
                       stopResult, monitor, failureCleanup, budget, text, pass, output, shown, ui,
                       frame, stops, presents>>
      BY <2>1
    <2>3. /\ Moved(processor', processor, s, "mark") /\ processor[s] \notin {"none", "ended"}
          /\ processor' \in [Starts -> {"none", "loop", "compare", "failed", "mark", "emit", "ended"}]
      BY <2>1 DEF Inv, Types, Moved
    <2>4. ThreadsStay
      BY <2>2, <2>3 DEF ThreadsStay, Moved
    <2>5. /\ NumbersAreDistinct'
          /\ \A t \in Starts, r \in Roles : Holds(t, r) => Holds(t, r)'
      BY <2>1, ReportersKept
      DEF Calm, Steady
    <2>6. /\ UNCHANGED <<active, cleanupFinished, nextSession>>
          /\ cancelled \subseteq cancelled' /\ Advances
          /\ active = NoSession => UNCHANGED snapshot
          /\ NoneRuns
      BY <2>1
      DEF Calm, Steady, Advances, NoneRuns
    <2>7. \A t \in Starts : Tracked(t)' <=> Tracked(t)
      BY <2>2
      DEF Tracked, Roles
    <2>8. StaysAwaited
      BY <2>1, AwaitedByAll
      DEF Roles, Calm, Steady
    <2>9. Types'
      BY <2>2, <2>3, TypesKept DEF Kept
    <2>10. UnstartedHasNothing' /\ JobsAreOwned' /\ StopMissesNoStore' /\ WhatRunsIsHeld' /\
           CleanupIsAwaited' /\ ClearsAreLater' /\ ClearedStaysClear' /\ ShowsAreAwaited' /\
           VisibleIsAlive'
      BY <2>2, <2>5, <2>6, <2>8, Undisturbed
    <2>11. ReportersAreHeld'
      <3>1. \A c \in Callers, t \in Starts : ClearsUp(c, t)' <=> ClearsUp(c, t)
        BY <2>2 DEF ClearsUp, Busy
      <3>2. \A t \in Starts : start[t] \in BeforeProcessor => processor[t] = "none"
        BY DEF Inv, ReportersAreHeld
      <3>3. \A t \in Starts : start[t] \in BeforeEvents => events[t] = "none"
        BY DEF Inv, ReportersAreHeld
      <3>4. \A t \in Starts, r \in Roles :
              \/ Holds(t, r) => Holds(t, r)'
              \/ t = s /\ r = "processor" /\ processor'[t] = "ended" /\ start[t] # "spawnProcessor"
        BY <2>5, <2>3, <3>2, <3>3 DEF BeforeProcessor, BeforeEvents, Moved
      <3>5. \A t \in Starts : /\ processor'[t] \notin {"none", "ended"} => processor[t] \notin {"none", "ended"}
                              /\ events'[t] \notin {"none", "ended"} => events[t] \notin {"none", "ended"}
        BY <2>2, <2>3 DEF Moved
      <3> QED
        BY <2>2, <2>7, <2>4, <3>1, <3>4, <3>5 DEF Inv, ReportersAreHeld, InStartup, Roles, ThreadsStay
    <2>12. ResourcesHaveOneHolder'
      BY <2>2, <2>6, <2>4, ThreadsGoOn
    <2>13. LiveIsGivenUp'
      BY <2>2, <2>6, <2>8, <2>4, ThreadsGoOn
    <2>14. RevisionsAreOld'
      BY <2>2, <2>6, <2>4, Undisturbed DEF ThreadsStay
    <2> QED
      BY <2>1, <2>5, <2>9, <2>10, <2>11, <2>12, <2>13, <2>14
      DEF Inv
  <1>4. CASE /\ processor[s] = "compare" /\ Owns(s) /\ IsLive /\ UNCHANGED supVars
             /\ processor' = [processor EXCEPT ![s] = "loop"]
             /\ pass' = [pass EXCEPT ![s] = snapshot.revision]
    <2>1. /\ Theory!Inv' /\ Calm /\ UNCHANGED snapshot
          /\ processor[s] = "compare"
          /\ pass' = [pass EXCEPT ![s] = snapshot.revision]
          /\ processor' = [processor EXCEPT ![s] = "loop"]
          /\ UNCHANGED <<env, slot, control, start, worker, job, capture, events, cleanup,
                        stopResult, monitor, failureCleanup, budget, text, output, shown, ui,
                        frame, stops, presents>>
      BY <1>4, StutterEffect
      DEF Inv, ProcessorStep, supVars, overlayVars, mainVars, threadVars, cleanupVars, monitorVars
    <2>2. UNCHANGED <<env, slot, control, start, worker, job, capture, events, cleanup,
                       stopResult, monitor, failureCleanup, budget, text, output, shown, ui,
                       frame, stops, presents>>
      BY <2>1
    <2>3. /\ Moved(processor', processor, s, "loop") /\ processor[s] \notin {"none", "ended"}
          /\ processor' \in [Starts -> {"none", "loop", "compare", "failed", "mark", "emit", "ended"}]
      BY <2>1 DEF Inv, Types, Moved
    <2>4. ThreadsStay
      BY <2>2, <2>3 DEF ThreadsStay, Moved
    <2>5. active = s /\ s \notin cancelled /\ s < nextSession /\ Owns(s) /\ IsLive
      BY <1>4, CancelledIsOver, Numbers DEF Guarantees
    <2>6. /\ pass' \in [Starts -> Nat] /\ pass'[s] = snapshot.revision
          /\ \A t \in Starts : t # s => pass'[t] = pass[t]
      <3>1. snapshot.revision \in Nat /\ pass \in [Starts -> Nat]
        BY Numbers DEF Inv, Types, Guarantees
      <3> QED
        BY <2>1, <3>1
    <2>7. /\ (Closing(s) => FindsOthersStored(s) \/ (Fault("spawn") /\ GaveUp(s)))
          /\ \A x \in Callers : ClearsUp(x, s) => Closing(s)
          /\ Cleared(s) => Closing(s)
      <3>1. processor[s] # "none"
        BY <2>3
      <3>2. Closing(s) => FindsOthersStored(s) \/ (Fault("spawn") /\ GaveUp(s))
        BY <2>5, <3>1 DEF Inv, LiveIsGivenUp
      <3> QED
        BY <3>2 DEF Closing, Cleared
    <2>8. /\ NumbersAreDistinct'
          /\ \A t \in Starts, r \in Roles : Holds(t, r) => Holds(t, r)'
      BY <2>1, ReportersKept
      DEF Calm, Steady
    <2>9. /\ UNCHANGED <<active, cleanupFinished, nextSession>>
          /\ cancelled \subseteq cancelled' /\ Advances
          /\ active = NoSession => UNCHANGED snapshot
          /\ NoneRuns
      BY <2>1
      DEF Calm, Steady, Advances, NoneRuns
    <2>10. \A t \in Starts : Tracked(t)' <=> Tracked(t)
      BY <2>2
      DEF Tracked, Roles
    <2>11. StaysAwaited
      BY <2>1, AwaitedByAll
      DEF Roles, Calm, Steady
    <2>12. Types'
      BY <2>2, <2>3, <2>6, TypesKept DEF Kept
    <2>13. UnstartedHasNothing' /\ JobsAreOwned' /\ StopMissesNoStore' /\ WhatRunsIsHeld' /\
           CleanupIsAwaited' /\ ShowsAreAwaited' /\ VisibleIsAlive'
      BY <2>2, <2>8, <2>9, <2>11, Undisturbed
    <2>14. ReportersAreHeld'
      <3>1. \A c \in Callers, t \in Starts : ClearsUp(c, t)' <=> ClearsUp(c, t)
        BY <2>2 DEF ClearsUp, Busy
      <3>2. \A t \in Starts : start[t] \in BeforeProcessor => processor[t] = "none"
        BY DEF Inv, ReportersAreHeld
      <3>3. \A t \in Starts : start[t] \in BeforeEvents => events[t] = "none"
        BY DEF Inv, ReportersAreHeld
      <3>4. \A t \in Starts, r \in Roles :
              \/ Holds(t, r) => Holds(t, r)'
              \/ t = s /\ r = "processor" /\ processor'[t] = "ended" /\ start[t] # "spawnProcessor"
        BY <2>8, <2>3, <3>2, <3>3 DEF BeforeProcessor, BeforeEvents, Moved
      <3>5. \A t \in Starts : /\ processor'[t] \notin {"none", "ended"} => processor[t] \notin {"none", "ended"}
                              /\ events'[t] \notin {"none", "ended"} => events[t] \notin {"none", "ended"}
        BY <2>2, <2>3 DEF Moved
      <3> QED
        BY <2>2, <2>10, <2>4, <3>1, <3>4, <3>5 DEF Inv, ReportersAreHeld, InStartup, Roles, ThreadsStay
    <2>15. ResourcesHaveOneHolder'
      BY <2>2, <2>9, <2>4, ThreadsGoOn
    <2>16. LiveIsGivenUp'
      BY <2>2, <2>9, <2>11, <2>4, ThreadsGoOn
    <2>17. RevisionsAreOld'
      <3>1. snapshot.revision \in Nat /\ \A t \in Starts : text[t] \in Nat /\ pass[t] \in Nat
        BY Numbers DEF Inv, Types, Guarantees
      <3>2. \A t \in Starts : t # s => pass'[t] = pass[t] /\ (processor'[t] = "none" <=> processor[t] = "none")
        BY <2>4, <2>6 DEF ThreadsStay
      <3>3. Below(s, snapshot.revision + 1)'
        BY <2>1, <2>2, <2>6, <3>1 DEF Below, Inv, RevisionsAreOld
      <3>4. (Owns(s) /\ IsLive)' /\ UNCHANGED snapshot
        BY <2>5, <2>1 DEF Owns, IsLive
      <3>5. processor'[s] # "none"
        BY <2>3 DEF Moved
      <3> QED
        BY <2>2, <2>9, <3>2, <3>3, <3>4, <3>5 DEF Inv, RevisionsAreOld, Below, Owns, IsLive, IsRunning
    <2>18. ClearsAreLater'
      <3>1. job'= job /\ \A x \in Callers, t \in Starts : ClearsUp(x, t)' <=> ClearsUp(x, t)
        BY <2>2 DEF ClearsUp, Busy
      <3>2. \A x \in Callers : ClearsUp(x, s) => job[x].pc # "clearStop"
        BY <2>5 DEF Inv, JobsAreOwned, ClearsUp
      <3> QED
        BY <2>2, <2>6, <2>7, <3>1, <3>2 DEF Inv, ClearsAreLater, Below, FindsOthersStored, Fault, GaveUp
    <2>19. ClearedStaysClear'
      <3>1. \A t \in Starts : Cleared(t)' <=> Cleared(t)
        BY <2>2, <2>9 DEF Cleared, InCleanup, ClearsUp, Busy
      <3> QED
        BY <2>2, <2>9, <2>5, <2>6, <2>7, <3>1 DEF Inv, ClearedStaysClear, PutBack, Below, FindsOthersStored, Fault, GaveUp
    <2> QED
      BY <2>1, <2>8, <2>12, <2>13, <2>14, <2>15, <2>16, <2>17, <2>18, <2>19
      DEF Inv
  <1>5. CASE /\ processor[s] = "compare" /\ Owns(s) /\ IsLive /\ UNCHANGED supVars
             /\ processor' = [processor EXCEPT ![s] = "emit"]
             /\ pass' = [pass EXCEPT ![s] = snapshot.revision]
    <2>1. /\ Theory!Inv' /\ Calm /\ UNCHANGED snapshot
          /\ processor[s] = "compare"
          /\ pass' = [pass EXCEPT ![s] = snapshot.revision]
          /\ processor' = [processor EXCEPT ![s] = "emit"]
          /\ UNCHANGED <<env, slot, control, start, worker, job, capture, events, cleanup,
                        stopResult, monitor, failureCleanup, budget, text, output, shown, ui,
                        frame, stops, presents>>
      BY <1>5, StutterEffect
      DEF Inv, ProcessorStep, supVars, overlayVars, mainVars, threadVars, cleanupVars, monitorVars
    <2>2. UNCHANGED <<env, slot, control, start, worker, job, capture, events, cleanup,
                       stopResult, monitor, failureCleanup, budget, text, output, shown, ui,
                       frame, stops, presents>>
      BY <2>1
    <2>3. /\ Moved(processor', processor, s, "emit") /\ processor[s] \notin {"none", "ended"}
          /\ processor' \in [Starts -> {"none", "loop", "compare", "failed", "mark", "emit", "ended"}]
      BY <2>1 DEF Inv, Types, Moved
    <2>4. ThreadsStay
      BY <2>2, <2>3 DEF ThreadsStay, Moved
    <2>5. active = s /\ s \notin cancelled /\ s < nextSession /\ Owns(s) /\ IsLive
      BY <1>5, CancelledIsOver, Numbers DEF Guarantees
    <2>6. /\ pass' \in [Starts -> Nat] /\ pass'[s] = snapshot.revision
          /\ \A t \in Starts : t # s => pass'[t] = pass[t]
      <3>1. snapshot.revision \in Nat /\ pass \in [Starts -> Nat]
        BY Numbers DEF Inv, Types, Guarantees
      <3> QED
        BY <2>1, <3>1
    <2>7. /\ (Closing(s) => FindsOthersStored(s) \/ (Fault("spawn") /\ GaveUp(s)))
          /\ \A x \in Callers : ClearsUp(x, s) => Closing(s)
          /\ Cleared(s) => Closing(s)
      <3>1. processor[s] # "none"
        BY <2>3
      <3>2. Closing(s) => FindsOthersStored(s) \/ (Fault("spawn") /\ GaveUp(s))
        BY <2>5, <3>1 DEF Inv, LiveIsGivenUp
      <3> QED
        BY <3>2 DEF Closing, Cleared
    <2>8. /\ NumbersAreDistinct'
          /\ \A t \in Starts, r \in Roles : Holds(t, r) => Holds(t, r)'
      BY <2>1, ReportersKept
      DEF Calm, Steady
    <2>9. /\ UNCHANGED <<active, cleanupFinished, nextSession>>
          /\ cancelled \subseteq cancelled' /\ Advances
          /\ active = NoSession => UNCHANGED snapshot
          /\ NoneRuns
      BY <2>1
      DEF Calm, Steady, Advances, NoneRuns
    <2>10. \A t \in Starts : Tracked(t)' <=> Tracked(t)
      BY <2>2
      DEF Tracked, Roles
    <2>11. StaysAwaited
      BY <2>1, AwaitedByAll
      DEF Roles, Calm, Steady
    <2>12. Types'
      BY <2>2, <2>3, <2>6, TypesKept DEF Kept
    <2>13. UnstartedHasNothing' /\ JobsAreOwned' /\ StopMissesNoStore' /\ WhatRunsIsHeld' /\
           CleanupIsAwaited' /\ ShowsAreAwaited' /\ VisibleIsAlive'
      BY <2>2, <2>8, <2>9, <2>11, Undisturbed
    <2>14. ReportersAreHeld'
      <3>1. \A c \in Callers, t \in Starts : ClearsUp(c, t)' <=> ClearsUp(c, t)
        BY <2>2 DEF ClearsUp, Busy
      <3>2. \A t \in Starts : start[t] \in BeforeProcessor => processor[t] = "none"
        BY DEF Inv, ReportersAreHeld
      <3>3. \A t \in Starts : start[t] \in BeforeEvents => events[t] = "none"
        BY DEF Inv, ReportersAreHeld
      <3>4. \A t \in Starts, r \in Roles :
              \/ Holds(t, r) => Holds(t, r)'
              \/ t = s /\ r = "processor" /\ processor'[t] = "ended" /\ start[t] # "spawnProcessor"
        BY <2>8, <2>3, <3>2, <3>3 DEF BeforeProcessor, BeforeEvents, Moved
      <3>5. \A t \in Starts : /\ processor'[t] \notin {"none", "ended"} => processor[t] \notin {"none", "ended"}
                              /\ events'[t] \notin {"none", "ended"} => events[t] \notin {"none", "ended"}
        BY <2>2, <2>3 DEF Moved
      <3> QED
        BY <2>2, <2>10, <2>4, <3>1, <3>4, <3>5 DEF Inv, ReportersAreHeld, InStartup, Roles, ThreadsStay
    <2>15. ResourcesHaveOneHolder'
      BY <2>2, <2>9, <2>4, ThreadsGoOn
    <2>16. LiveIsGivenUp'
      BY <2>2, <2>9, <2>11, <2>4, ThreadsGoOn
    <2>17. RevisionsAreOld'
      <3>1. snapshot.revision \in Nat /\ \A t \in Starts : text[t] \in Nat /\ pass[t] \in Nat
        BY Numbers DEF Inv, Types, Guarantees
      <3>2. \A t \in Starts : t # s => pass'[t] = pass[t] /\ (processor'[t] = "none" <=> processor[t] = "none")
        BY <2>4, <2>6 DEF ThreadsStay
      <3>3. Below(s, snapshot.revision + 1)'
        BY <2>1, <2>2, <2>6, <3>1 DEF Below, Inv, RevisionsAreOld
      <3>4. (Owns(s) /\ IsLive)' /\ UNCHANGED snapshot
        BY <2>5, <2>1 DEF Owns, IsLive
      <3>5. processor'[s] # "none"
        BY <2>3 DEF Moved
      <3> QED
        BY <2>2, <2>9, <3>2, <3>3, <3>4, <3>5 DEF Inv, RevisionsAreOld, Below, Owns, IsLive, IsRunning
    <2>18. ClearsAreLater'
      <3>1. job'= job /\ \A x \in Callers, t \in Starts : ClearsUp(x, t)' <=> ClearsUp(x, t)
        BY <2>2 DEF ClearsUp, Busy
      <3>2. \A x \in Callers : ClearsUp(x, s) => job[x].pc # "clearStop"
        BY <2>5 DEF Inv, JobsAreOwned, ClearsUp
      <3> QED
        BY <2>2, <2>6, <2>7, <3>1, <3>2 DEF Inv, ClearsAreLater, Below, FindsOthersStored, Fault, GaveUp
    <2>19. ClearedStaysClear'
      <3>1. \A t \in Starts : Cleared(t)' <=> Cleared(t)
        BY <2>2, <2>9 DEF Cleared, InCleanup, ClearsUp, Busy
      <3> QED
        BY <2>2, <2>9, <2>5, <2>6, <2>7, <3>1 DEF Inv, ClearedStaysClear, PutBack, Below, FindsOthersStored, Fault, GaveUp
    <2> QED
      BY <2>1, <2>8, <2>12, <2>13, <2>14, <2>15, <2>16, <2>17, <2>18, <2>19
      DEF Inv
  <1>6. CASE /\ processor[s] = "compare" /\ processor' = [processor EXCEPT ![s] = "ended"]
             /\ Report(s, "processor", "Cancelled") /\ UNCHANGED pass
    <2>1. /\ Theory!Inv' /\ Reports(s, "processor", "Cancelled")
          /\ processor[s] = "compare"
          /\ processor' = [processor EXCEPT ![s] = "ended"]
          /\ UNCHANGED <<env, slot, control, start, worker, job, capture, events, cleanup,
                        stopResult, monitor, failureCleanup, budget, text, pass, output, shown,
                        ui, frame, stops, presents>>
      BY <1>6, ReportEffect
      DEF Inv, ProcessorStep, supVars, overlayVars, mainVars, threadVars, cleanupVars, monitorVars
    <2>2. UNCHANGED <<env, slot, control, start, worker, job, capture, events, cleanup,
                       stopResult, monitor, failureCleanup, budget, text, pass, output, shown, ui,
                       frame, stops, presents>>
      BY <2>1
    <2>3. /\ Moved(processor', processor, s, "ended") /\ processor[s] \notin {"none", "ended"}
          /\ processor' \in [Starts -> {"none", "loop", "compare", "failed", "mark", "emit", "ended"}]
      BY <2>1 DEF Inv, Types, Moved
    <2>4. ThreadsStay
      BY <2>2, <2>3 DEF ThreadsStay, Moved
    <2>5. /\ NumbersAreDistinct'
          /\ \A t \in Starts, r \in Roles : Holds(t, r) /\ ~(t = s /\ r = "processor") => Holds(t, r)'
      BY <2>1, ReportersReported
      DEF Roles
    <2>6. /\ UNCHANGED <<active, cleanupFinished, nextSession>>
          /\ cancelled \subseteq cancelled' /\ Advances
          /\ active = NoSession => UNCHANGED snapshot
          /\ NoneRuns
      BY <2>1
      DEF Reports, Advances, NoneRuns
    <2>7. \A t \in Starts : Tracked(t)' <=> Tracked(t)
      BY <2>2
      DEF Tracked, Roles
    <2>8. StaysAwaited
      BY <2>1, AwaitedByAll
      DEF Roles, Reports
    <2>9. Types'
      BY <2>2, <2>3, TypesKept DEF Kept
    <2>10. UnstartedHasNothing' /\ JobsAreOwned' /\ StopMissesNoStore' /\ WhatRunsIsHeld' /\
           CleanupIsAwaited' /\ ClearsAreLater' /\ ClearedStaysClear' /\ ShowsAreAwaited' /\
           VisibleIsAlive'
      BY <2>2, <2>5, <2>6, <2>8, Undisturbed
    <2>11. ReportersAreHeld'
      <3>1. \A c \in Callers, t \in Starts : ClearsUp(c, t)' <=> ClearsUp(c, t)
        BY <2>2 DEF ClearsUp, Busy
      <3>2. \A t \in Starts : start[t] \in BeforeProcessor => processor[t] = "none"
        BY DEF Inv, ReportersAreHeld
      <3>3. \A t \in Starts : start[t] \in BeforeEvents => events[t] = "none"
        BY DEF Inv, ReportersAreHeld
      <3>4. \A t \in Starts, r \in Roles :
              \/ Holds(t, r) => Holds(t, r)'
              \/ t = s /\ r = "processor" /\ processor'[t] = "ended" /\ start[t] # "spawnProcessor"
        BY <2>5, <2>3, <3>2, <3>3 DEF BeforeProcessor, BeforeEvents, Moved
      <3>5. \A t \in Starts : /\ processor'[t] \notin {"none", "ended"} => processor[t] \notin {"none", "ended"}
                              /\ events'[t] \notin {"none", "ended"} => events[t] \notin {"none", "ended"}
        BY <2>2, <2>3 DEF Moved
      <3> QED
        BY <2>2, <2>7, <2>4, <3>1, <3>4, <3>5 DEF Inv, ReportersAreHeld, InStartup, Roles, ThreadsStay
    <2>12. ResourcesHaveOneHolder'
      BY <2>2, <2>6, <2>4, ThreadsGoOn
    <2>13. LiveIsGivenUp'
      BY <2>2, <2>6, <2>8, <2>4, ThreadsGoOn
    <2>14. RevisionsAreOld'
      BY <2>2, <2>6, <2>4, Undisturbed DEF ThreadsStay
    <2> QED
      BY <2>1, <2>5, <2>9, <2>10, <2>11, <2>12, <2>13, <2>14
      DEF Inv
  <1>7. CASE /\ processor[s] = "compare" /\ processor' = [processor EXCEPT ![s] = "ended"]
             /\ Report(s, "processor", "Completed") /\ UNCHANGED pass
    <2>1. /\ Theory!Inv' /\ Reports(s, "processor", "Completed")
          /\ processor[s] = "compare"
          /\ processor' = [processor EXCEPT ![s] = "ended"]
          /\ UNCHANGED <<env, slot, control, start, worker, job, capture, events, cleanup,
                        stopResult, monitor, failureCleanup, budget, text, pass, output, shown,
                        ui, frame, stops, presents>>
      BY <1>7, ReportEffect
      DEF Inv, ProcessorStep, supVars, overlayVars, mainVars, threadVars, cleanupVars, monitorVars
    <2>2. UNCHANGED <<env, slot, control, start, worker, job, capture, events, cleanup,
                       stopResult, monitor, failureCleanup, budget, text, pass, output, shown, ui,
                       frame, stops, presents>>
      BY <2>1
    <2>3. /\ Moved(processor', processor, s, "ended") /\ processor[s] \notin {"none", "ended"}
          /\ processor' \in [Starts -> {"none", "loop", "compare", "failed", "mark", "emit", "ended"}]
      BY <2>1 DEF Inv, Types, Moved
    <2>4. ThreadsStay
      BY <2>2, <2>3 DEF ThreadsStay, Moved
    <2>5. /\ NumbersAreDistinct'
          /\ \A t \in Starts, r \in Roles : Holds(t, r) /\ ~(t = s /\ r = "processor") => Holds(t, r)'
      BY <2>1, ReportersReported
      DEF Roles
    <2>6. /\ UNCHANGED <<active, cleanupFinished, nextSession>>
          /\ cancelled \subseteq cancelled' /\ Advances
          /\ active = NoSession => UNCHANGED snapshot
          /\ NoneRuns
      BY <2>1
      DEF Reports, Advances, NoneRuns
    <2>7. \A t \in Starts : Tracked(t)' <=> Tracked(t)
      BY <2>2
      DEF Tracked, Roles
    <2>8. StaysAwaited
      BY <2>1, AwaitedByAll
      DEF Roles, Reports
    <2>9. Types'
      BY <2>2, <2>3, TypesKept DEF Kept
    <2>10. UnstartedHasNothing' /\ JobsAreOwned' /\ StopMissesNoStore' /\ WhatRunsIsHeld' /\
           CleanupIsAwaited' /\ ClearsAreLater' /\ ClearedStaysClear' /\ ShowsAreAwaited' /\
           VisibleIsAlive'
      BY <2>2, <2>5, <2>6, <2>8, Undisturbed
    <2>11. ReportersAreHeld'
      <3>1. \A c \in Callers, t \in Starts : ClearsUp(c, t)' <=> ClearsUp(c, t)
        BY <2>2 DEF ClearsUp, Busy
      <3>2. \A t \in Starts : start[t] \in BeforeProcessor => processor[t] = "none"
        BY DEF Inv, ReportersAreHeld
      <3>3. \A t \in Starts : start[t] \in BeforeEvents => events[t] = "none"
        BY DEF Inv, ReportersAreHeld
      <3>4. \A t \in Starts, r \in Roles :
              \/ Holds(t, r) => Holds(t, r)'
              \/ t = s /\ r = "processor" /\ processor'[t] = "ended" /\ start[t] # "spawnProcessor"
        BY <2>5, <2>3, <3>2, <3>3 DEF BeforeProcessor, BeforeEvents, Moved
      <3>5. \A t \in Starts : /\ processor'[t] \notin {"none", "ended"} => processor[t] \notin {"none", "ended"}
                              /\ events'[t] \notin {"none", "ended"} => events[t] \notin {"none", "ended"}
        BY <2>2, <2>3 DEF Moved
      <3> QED
        BY <2>2, <2>7, <2>4, <3>1, <3>4, <3>5 DEF Inv, ReportersAreHeld, InStartup, Roles, ThreadsStay
    <2>12. ResourcesHaveOneHolder'
      BY <2>2, <2>6, <2>4, ThreadsGoOn
    <2>13. LiveIsGivenUp'
      BY <2>2, <2>6, <2>8, <2>4, ThreadsGoOn
    <2>14. RevisionsAreOld'
      BY <2>2, <2>6, <2>4, Undisturbed DEF ThreadsStay
    <2> QED
      BY <2>1, <2>5, <2>9, <2>10, <2>11, <2>12, <2>13, <2>14
      DEF Inv
  <1> QED
    BY <1>1, <1>2, <1>3, <1>4, <1>5, <1>6, <1>7 DEF ProcessorStep, NormalOutcome

LEMMA ProcessorEmitStep ==
  ASSUME Inv, NEW s \in Starts, ProcessorEmit(s)
  PROVE  Inv'
  <1>1. CASE /\ processor[s] = "mark" /\ processor' = [processor EXCEPT ![s] = "loop"]
             /\ UNCHANGED <<supVars, text, ui, pass>>
    <2>1. /\ Theory!Inv' /\ Calm
          /\ processor[s] = "mark"
          /\ processor' = [processor EXCEPT ![s] = "loop"]
          /\ UNCHANGED <<env, slot, control, start, worker, job, capture, events, cleanup,
                        stopResult, monitor, failureCleanup, budget, text, pass, output, shown,
                        ui, frame, stops, presents>>
      BY <1>1, StutterEffect
      DEF Inv, ProcessorEmit, supVars, overlayVars, mainVars, threadVars, cleanupVars, monitorVars
    <2>2. UNCHANGED <<env, slot, control, start, worker, job, capture, events, cleanup,
                       stopResult, monitor, failureCleanup, budget, text, pass, output, shown, ui,
                       frame, stops, presents>>
      BY <2>1
    <2>3. /\ Moved(processor', processor, s, "loop") /\ processor[s] \notin {"none", "ended"}
          /\ processor' \in [Starts -> {"none", "loop", "compare", "failed", "mark", "emit", "ended"}]
      BY <2>1 DEF Inv, Types, Moved
    <2>4. ThreadsStay
      BY <2>2, <2>3 DEF ThreadsStay, Moved
    <2>5. /\ NumbersAreDistinct'
          /\ \A t \in Starts, r \in Roles : Holds(t, r) => Holds(t, r)'
      BY <2>1, ReportersKept
      DEF Calm, Steady
    <2>6. /\ UNCHANGED <<active, cleanupFinished, nextSession>>
          /\ cancelled \subseteq cancelled' /\ Advances
          /\ active = NoSession => UNCHANGED snapshot
          /\ NoneRuns
      BY <2>1
      DEF Calm, Steady, Advances, NoneRuns
    <2>7. \A t \in Starts : Tracked(t)' <=> Tracked(t)
      BY <2>2
      DEF Tracked, Roles
    <2>8. StaysAwaited
      BY <2>1, AwaitedByAll
      DEF Roles, Calm, Steady
    <2>9. Types'
      BY <2>2, <2>3, TypesKept DEF Kept
    <2>10. UnstartedHasNothing' /\ JobsAreOwned' /\ StopMissesNoStore' /\ WhatRunsIsHeld' /\
           CleanupIsAwaited' /\ ClearsAreLater' /\ ClearedStaysClear' /\ ShowsAreAwaited' /\
           VisibleIsAlive'
      BY <2>2, <2>5, <2>6, <2>8, Undisturbed
    <2>11. ReportersAreHeld'
      <3>1. \A c \in Callers, t \in Starts : ClearsUp(c, t)' <=> ClearsUp(c, t)
        BY <2>2 DEF ClearsUp, Busy
      <3>2. \A t \in Starts : start[t] \in BeforeProcessor => processor[t] = "none"
        BY DEF Inv, ReportersAreHeld
      <3>3. \A t \in Starts : start[t] \in BeforeEvents => events[t] = "none"
        BY DEF Inv, ReportersAreHeld
      <3>4. \A t \in Starts, r \in Roles :
              \/ Holds(t, r) => Holds(t, r)'
              \/ t = s /\ r = "processor" /\ processor'[t] = "ended" /\ start[t] # "spawnProcessor"
        BY <2>5, <2>3, <3>2, <3>3 DEF BeforeProcessor, BeforeEvents, Moved
      <3>5. \A t \in Starts : /\ processor'[t] \notin {"none", "ended"} => processor[t] \notin {"none", "ended"}
                              /\ events'[t] \notin {"none", "ended"} => events[t] \notin {"none", "ended"}
        BY <2>2, <2>3 DEF Moved
      <3> QED
        BY <2>2, <2>7, <2>4, <3>1, <3>4, <3>5 DEF Inv, ReportersAreHeld, InStartup, Roles, ThreadsStay
    <2>12. ResourcesHaveOneHolder'
      BY <2>2, <2>6, <2>4, ThreadsGoOn
    <2>13. LiveIsGivenUp'
      BY <2>2, <2>6, <2>8, <2>4, ThreadsGoOn
    <2>14. RevisionsAreOld'
      BY <2>2, <2>6, <2>4, Undisturbed DEF ThreadsStay
    <2> QED
      BY <2>1, <2>5, <2>9, <2>10, <2>11, <2>12, <2>13, <2>14
      DEF Inv
  <1>2. CASE /\ processor[s] = "mark" /\ processor' = [processor EXCEPT ![s] = "loop"] /\ UNCHANGED pass
             /\ Sup!MarkWaiting(s) /\ text' = [text EXCEPT ![s] = 0] /\ Post(Hiding)
    <2>1. /\ Theory!Inv' /\ Calm
          /\ processor[s] = "mark"
          /\ text' = [text EXCEPT ![s] = 0] /\ Post(Hiding)
          /\ processor' = [processor EXCEPT ![s] = "loop"]
          /\ UNCHANGED <<env, slot, control, start, worker, job, capture, events, cleanup,
                        stopResult, monitor, failureCleanup, budget, pass, output, shown, frame,
                        stops, presents>>
      BY <1>2, PublicationEffect
      DEF Inv, ProcessorEmit, supVars, overlayVars, mainVars, threadVars, cleanupVars, monitorVars
    <2>2. UNCHANGED <<env, slot, control, start, worker, job, capture, events, cleanup,
                       stopResult, monitor, failureCleanup, budget, pass, output, shown, frame,
                       stops, presents>>
      BY <2>1
    <2>3. /\ Moved(processor', processor, s, "loop") /\ processor[s] \notin {"none", "ended"}
          /\ processor' \in [Starts -> {"none", "loop", "compare", "failed", "mark", "emit", "ended"}]
      BY <2>1 DEF Inv, Types, Moved
    <2>4. ThreadsStay
      BY <2>2, <2>3 DEF ThreadsStay, Moved
    <2>5. /\ NothingNewer /\ text' \in [Starts -> Nat]
      <3>1. text \in [Starts -> Nat] /\ pass \in [Starts -> Nat]
        BY DEF Inv, Types
      <3>2. text' \in [Starts -> Nat] /\ text'[s] = 0 /\ \A t \in Starts : t # s => text'[t] = text[t]
        BY <2>1, <3>1
      <3>3. processor[s] = "none" => text[s] = 0
        BY DEF Inv, RevisionsAreOld
      <3> QED
        BY <2>2, <3>1, <3>2, <3>3 DEF NothingNewer, Inv, RevisionsAreOld
    <2>6. /\ ui' \in Seq(Requests) /\ HideIsPosted'
          /\ \A i \in 1..Len(ui') : ui'[i].kind = "show" => i \in 1..Len(ui) /\ ui'[i] = ui[i]
      <3>1. Hiding \in Requests /\ Hiding.kind = "hide" /\ Hiding.by = NoCaller
        BY DEF Hiding, Requests
      <3>2. Post(Hiding)
        BY <2>1
      <3> QED
        BY <3>1, <3>2, RequestPosted
    <2>7. /\ NumbersAreDistinct'
          /\ \A t \in Starts, r \in Roles : Holds(t, r) => Holds(t, r)'
      BY <2>1, ReportersKept
      DEF Calm, Steady
    <2>8. /\ UNCHANGED <<active, cleanupFinished, nextSession>>
          /\ cancelled \subseteq cancelled' /\ Advances
          /\ active = NoSession => UNCHANGED snapshot
          /\ NoneRuns
      BY <2>1
      DEF Calm, Steady, Advances, NoneRuns
    <2>9. \A t \in Starts : Tracked(t)' <=> Tracked(t)
      BY <2>2
      DEF Tracked, Roles
    <2>10. StaysAwaited
      BY <2>1, AwaitedByAll
      DEF Roles, Calm, Steady
    <2>11. Types'
      BY <2>2, <2>3, <2>5, <2>6, TypesKept DEF Kept
    <2>12. UnstartedHasNothing' /\ JobsAreOwned' /\ StopMissesNoStore' /\ WhatRunsIsHeld' /\
           CleanupIsAwaited'
      BY <2>2, <2>7, <2>8, <2>10, Undisturbed
    <2>13. ReportersAreHeld'
      <3>1. \A c \in Callers, t \in Starts : ClearsUp(c, t)' <=> ClearsUp(c, t)
        BY <2>2 DEF ClearsUp, Busy
      <3>2. \A t \in Starts : start[t] \in BeforeProcessor => processor[t] = "none"
        BY DEF Inv, ReportersAreHeld
      <3>3. \A t \in Starts : start[t] \in BeforeEvents => events[t] = "none"
        BY DEF Inv, ReportersAreHeld
      <3>4. \A t \in Starts, r \in Roles :
              \/ Holds(t, r) => Holds(t, r)'
              \/ t = s /\ r = "processor" /\ processor'[t] = "ended" /\ start[t] # "spawnProcessor"
        BY <2>7, <2>3, <3>2, <3>3 DEF BeforeProcessor, BeforeEvents, Moved
      <3>5. \A t \in Starts : /\ processor'[t] \notin {"none", "ended"} => processor[t] \notin {"none", "ended"}
                              /\ events'[t] \notin {"none", "ended"} => events[t] \notin {"none", "ended"}
        BY <2>2, <2>3 DEF Moved
      <3> QED
        BY <2>2, <2>9, <2>4, <3>1, <3>4, <3>5 DEF Inv, ReportersAreHeld, InStartup, Roles, ThreadsStay
    <2>14. ResourcesHaveOneHolder'
      BY <2>2, <2>8, <2>4, ThreadsGoOn
    <2>15. LiveIsGivenUp'
      BY <2>2, <2>8, <2>10, <2>4, ThreadsGoOn
    <2>16. RevisionsAreOld'
      BY <2>2, <2>8, <2>4, <2>5, ThreadsGoOn
    <2>17. ClearsAreLater'
      BY <2>2, <2>8, <2>4, <2>5, ThreadsGoOn
    <2>18. ClearedStaysClear'
      BY <2>2, <2>8, <2>4, <2>5, ThreadsGoOn
    <2>19. ShowsAreAwaited'
      <3>1. \A t \in Starts : events[t] = "placed" => events'[t] = "placed"
        BY <2>2, <2>3 DEF Moved
      <3>2. \A t \in Starts : events'[t] = "none" <=> events[t] = "none"
        BY <2>4 DEF ThreadsStay
      <3>3. nextSession > 1 => nextSession - 1 \in Starts
        BY Numbers DEF Inv, UnstartedHasNothing, Guarantees, Starts
      <3> QED
        BY <2>2, <2>8, <2>6, <3>1, <3>2, <3>3 DEF Inv, ShowsAreAwaited
    <2>20. VisibleIsAlive'
      BY <2>6 DEF VisibleIsAlive
    <2> QED
      BY <2>1, <2>7, <2>11, <2>12, <2>13, <2>14, <2>15, <2>16, <2>17, <2>18, <2>19, <2>20
      DEF Inv
  <1>3. CASE /\ processor[s] = "emit" /\ processor' = [processor EXCEPT ![s] = "loop"] /\ UNCHANGED <<supVars, ui>>
             /\ text' = [text EXCEPT ![s] = pass[s]] /\ pass' = [pass EXCEPT ![s] = 0]
    <2>1. /\ Theory!Inv' /\ Calm
          /\ processor[s] = "emit"
          /\ text' = [text EXCEPT ![s] = pass[s]] /\ pass' = [pass EXCEPT ![s] = 0]
          /\ processor' = [processor EXCEPT ![s] = "loop"]
          /\ UNCHANGED <<env, slot, control, start, worker, job, capture, events, cleanup,
                        stopResult, monitor, failureCleanup, budget, output, shown, ui, frame,
                        stops, presents>>
      BY <1>3, StutterEffect
      DEF Inv, ProcessorEmit, supVars, overlayVars, mainVars, threadVars, cleanupVars, monitorVars
    <2>2. UNCHANGED <<env, slot, control, start, worker, job, capture, events, cleanup,
                       stopResult, monitor, failureCleanup, budget, output, shown, ui, frame,
                       stops, presents>>
      BY <2>1
    <2>3. /\ Moved(processor', processor, s, "loop") /\ processor[s] \notin {"none", "ended"}
          /\ processor' \in [Starts -> {"none", "loop", "compare", "failed", "mark", "emit", "ended"}]
      BY <2>1 DEF Inv, Types, Moved
    <2>4. ThreadsStay
      BY <2>2, <2>3 DEF ThreadsStay, Moved
    <2>5. /\ NothingNewer /\ text' \in [Starts -> Nat] /\ pass' \in [Starts -> Nat]
      <3>1. text \in [Starts -> Nat] /\ pass \in [Starts -> Nat]
        BY DEF Inv, Types
      <3>2. /\ text' \in [Starts -> Nat] /\ text'[s] = pass[s] /\ \A t \in Starts : t # s => text'[t] = text[t]
            /\ pass' \in [Starts -> Nat] /\ pass'[s] = 0 /\ \A t \in Starts : t # s => pass'[t] = pass[t]
        BY <2>1, <3>1
      <3>3. processor[s] # "none"
        BY <2>3
      <3>4. \A t \in Starts : text[t] \in Nat /\ pass[t] \in Nat /\ text'[t] \in Nat /\ pass'[t] \in Nat
        BY <3>1, <3>2
      <3> QED
        BY <3>2, <3>3, <3>4 DEF NothingNewer
    <2>6. /\ NumbersAreDistinct'
          /\ \A t \in Starts, r \in Roles : Holds(t, r) => Holds(t, r)'
      BY <2>1, ReportersKept
      DEF Calm, Steady
    <2>7. /\ UNCHANGED <<active, cleanupFinished, nextSession>>
          /\ cancelled \subseteq cancelled' /\ Advances
          /\ active = NoSession => UNCHANGED snapshot
          /\ NoneRuns
      BY <2>1
      DEF Calm, Steady, Advances, NoneRuns
    <2>8. \A t \in Starts : Tracked(t)' <=> Tracked(t)
      BY <2>2
      DEF Tracked, Roles
    <2>9. StaysAwaited
      BY <2>1, AwaitedByAll
      DEF Roles, Calm, Steady
    <2>10. Types'
      BY <2>2, <2>3, <2>5, TypesKept DEF Kept
    <2>11. UnstartedHasNothing' /\ JobsAreOwned' /\ StopMissesNoStore' /\ WhatRunsIsHeld' /\
           CleanupIsAwaited' /\ ShowsAreAwaited' /\ VisibleIsAlive'
      BY <2>2, <2>6, <2>7, <2>9, Undisturbed
    <2>12. ReportersAreHeld'
      <3>1. \A c \in Callers, t \in Starts : ClearsUp(c, t)' <=> ClearsUp(c, t)
        BY <2>2 DEF ClearsUp, Busy
      <3>2. \A t \in Starts : start[t] \in BeforeProcessor => processor[t] = "none"
        BY DEF Inv, ReportersAreHeld
      <3>3. \A t \in Starts : start[t] \in BeforeEvents => events[t] = "none"
        BY DEF Inv, ReportersAreHeld
      <3>4. \A t \in Starts, r \in Roles :
              \/ Holds(t, r) => Holds(t, r)'
              \/ t = s /\ r = "processor" /\ processor'[t] = "ended" /\ start[t] # "spawnProcessor"
        BY <2>6, <2>3, <3>2, <3>3 DEF BeforeProcessor, BeforeEvents, Moved
      <3>5. \A t \in Starts : /\ processor'[t] \notin {"none", "ended"} => processor[t] \notin {"none", "ended"}
                              /\ events'[t] \notin {"none", "ended"} => events[t] \notin {"none", "ended"}
        BY <2>2, <2>3 DEF Moved
      <3> QED
        BY <2>2, <2>8, <2>4, <3>1, <3>4, <3>5 DEF Inv, ReportersAreHeld, InStartup, Roles, ThreadsStay
    <2>13. ResourcesHaveOneHolder'
      BY <2>2, <2>7, <2>4, ThreadsGoOn
    <2>14. LiveIsGivenUp'
      BY <2>2, <2>7, <2>9, <2>4, ThreadsGoOn
    <2>15. RevisionsAreOld'
      BY <2>2, <2>7, <2>4, <2>5, ThreadsGoOn
    <2>16. ClearsAreLater'
      BY <2>2, <2>7, <2>4, <2>5, ThreadsGoOn
    <2>17. ClearedStaysClear'
      BY <2>2, <2>7, <2>4, <2>5, ThreadsGoOn
    <2> QED
      BY <2>1, <2>6, <2>10, <2>11, <2>12, <2>13, <2>14, <2>15, <2>16, <2>17
      DEF Inv
  <1> QED
    BY <1>1, <1>2, <1>3 DEF ProcessorEmit, MarkWaiting

LEMMA EventStepStep ==
  ASSUME Inv, NEW s \in Starts, EventStep(s)
  PROVE  Inv'
  <1>1. CASE /\ events[s] = "loop" /\ events' = [events EXCEPT ![s] = "ended"]
             /\ Report(s, "events", "Cancelled") /\ UNCHANGED <<text, ui>>
    <2>1. /\ Theory!Inv' /\ Reports(s, "events", "Cancelled")
          /\ events[s] = "loop"
          /\ events' = [events EXCEPT ![s] = "ended"]
          /\ UNCHANGED <<env, slot, control, start, worker, job, capture, processor, cleanup,
                        stopResult, monitor, failureCleanup, budget, text, pass, output, shown,
                        ui, frame, stops, presents>>
      BY <1>1, ReportEffect
      DEF Inv, EventStep, supVars, overlayVars, mainVars, threadVars, cleanupVars, monitorVars
    <2>2. UNCHANGED <<env, slot, control, start, worker, job, capture, processor, cleanup,
                       stopResult, monitor, failureCleanup, budget, text, pass, output, shown, ui,
                       frame, stops, presents>>
      BY <2>1
    <2>3. /\ Moved(events', events, s, "ended") /\ events[s] \notin {"none", "ended"}
          /\ events' \in [Starts -> {"none", "loop", "closed", "over", "failed", "mark", "resume",
                                  "run", "look", "show", "hide", "placed", "ended"}]
      BY <2>1 DEF Inv, Types, Moved
    <2>4. ThreadsStay
      BY <2>2, <2>3 DEF ThreadsStay, Moved
    <2>5. NothingNewer
      BY <2>2, <2>3 DEF NothingNewer, Inv, Types
    <2>6. /\ NumbersAreDistinct'
          /\ \A t \in Starts, r \in Roles : Holds(t, r) /\ ~(t = s /\ r = "events") => Holds(t, r)'
      BY <2>1, ReportersReported
      DEF Roles
    <2>7. /\ UNCHANGED <<active, cleanupFinished, nextSession>>
          /\ cancelled \subseteq cancelled' /\ Advances
          /\ active = NoSession => UNCHANGED snapshot
          /\ NoneRuns
      BY <2>1
      DEF Reports, Advances, NoneRuns
    <2>8. \A t \in Starts : Tracked(t)' <=> Tracked(t)
      BY <2>2
      DEF Tracked, Roles
    <2>9. StaysAwaited
      BY <2>1, AwaitedByAll
      DEF Roles, Reports
    <2>10. Types'
      BY <2>2, <2>3, TypesKept DEF Kept
    <2>11. UnstartedHasNothing' /\ JobsAreOwned' /\ StopMissesNoStore' /\ WhatRunsIsHeld' /\
           CleanupIsAwaited'
      BY <2>2, <2>6, <2>7, <2>9, Undisturbed
    <2>12. ReportersAreHeld'
      <3>1. \A c \in Callers, t \in Starts : ClearsUp(c, t)' <=> ClearsUp(c, t)
        BY <2>2 DEF ClearsUp, Busy
      <3>2. \A t \in Starts : start[t] \in BeforeProcessor => processor[t] = "none"
        BY DEF Inv, ReportersAreHeld
      <3>3. \A t \in Starts : start[t] \in BeforeEvents => events[t] = "none"
        BY DEF Inv, ReportersAreHeld
      <3>4. \A t \in Starts, r \in Roles :
              \/ Holds(t, r) => Holds(t, r)'
              \/ t = s /\ r = "events" /\ events'[t] = "ended" /\ start[t] # "spawnEvents"
        BY <2>6, <2>3, <3>2, <3>3 DEF BeforeProcessor, BeforeEvents, Moved
      <3>5. \A t \in Starts : /\ processor'[t] \notin {"none", "ended"} => processor[t] \notin {"none", "ended"}
                              /\ events'[t] \notin {"none", "ended"} => events[t] \notin {"none", "ended"}
        BY <2>2, <2>3 DEF Moved
      <3> QED
        BY <2>2, <2>8, <2>4, <3>1, <3>4, <3>5 DEF Inv, ReportersAreHeld, InStartup, Roles, ThreadsStay
    <2>13. ResourcesHaveOneHolder'
      BY <2>2, <2>7, <2>4, ThreadsGoOn
    <2>14. LiveIsGivenUp'
      BY <2>2, <2>7, <2>9, <2>4, ThreadsGoOn
    <2>15. RevisionsAreOld'
      BY <2>2, <2>7, <2>4, <2>5, ThreadsGoOn
    <2>16. ClearsAreLater'
      BY <2>2, <2>7, <2>4, <2>5, ThreadsGoOn
    <2>17. ClearedStaysClear'
      BY <2>2, <2>7, <2>4, <2>5, ThreadsGoOn
    <2>18. ShowsAreAwaited'
      <3>1. \A t \in Starts : events[t] = "placed" => events'[t] = "placed"
        BY <2>1, <2>3 DEF Moved
      <3> QED
        BY <2>2, <2>7, <2>4, <3>1, ThreadsGoOn
    <2>19. VisibleIsAlive'
      BY <2>2, <2>7, <2>4, ThreadsGoOn
    <2> QED
      BY <2>1, <2>6, <2>10, <2>11, <2>12, <2>13, <2>14, <2>15, <2>16, <2>17, <2>18, <2>19
      DEF Inv
  <1>2. CASE /\ events[s] = "closed" /\ events' = [events EXCEPT ![s] = "ended"]
             /\ Report(s, "events", "Cancelled") /\ UNCHANGED <<text, ui>>
    <2>1. /\ Theory!Inv' /\ Reports(s, "events", "Cancelled")
          /\ events[s] = "closed"
          /\ events' = [events EXCEPT ![s] = "ended"]
          /\ UNCHANGED <<env, slot, control, start, worker, job, capture, processor, cleanup,
                        stopResult, monitor, failureCleanup, budget, text, pass, output, shown,
                        ui, frame, stops, presents>>
      BY <1>2, ReportEffect
      DEF Inv, EventStep, supVars, overlayVars, mainVars, threadVars, cleanupVars, monitorVars
    <2>2. UNCHANGED <<env, slot, control, start, worker, job, capture, processor, cleanup,
                       stopResult, monitor, failureCleanup, budget, text, pass, output, shown, ui,
                       frame, stops, presents>>
      BY <2>1
    <2>3. /\ Moved(events', events, s, "ended") /\ events[s] \notin {"none", "ended"}
          /\ events' \in [Starts -> {"none", "loop", "closed", "over", "failed", "mark", "resume",
                                  "run", "look", "show", "hide", "placed", "ended"}]
      BY <2>1 DEF Inv, Types, Moved
    <2>4. ThreadsStay
      BY <2>2, <2>3 DEF ThreadsStay, Moved
    <2>5. NothingNewer
      BY <2>2, <2>3 DEF NothingNewer, Inv, Types
    <2>6. /\ NumbersAreDistinct'
          /\ \A t \in Starts, r \in Roles : Holds(t, r) /\ ~(t = s /\ r = "events") => Holds(t, r)'
      BY <2>1, ReportersReported
      DEF Roles
    <2>7. /\ UNCHANGED <<active, cleanupFinished, nextSession>>
          /\ cancelled \subseteq cancelled' /\ Advances
          /\ active = NoSession => UNCHANGED snapshot
          /\ NoneRuns
      BY <2>1
      DEF Reports, Advances, NoneRuns
    <2>8. \A t \in Starts : Tracked(t)' <=> Tracked(t)
      BY <2>2
      DEF Tracked, Roles
    <2>9. StaysAwaited
      BY <2>1, AwaitedByAll
      DEF Roles, Reports
    <2>10. Types'
      BY <2>2, <2>3, TypesKept DEF Kept
    <2>11. UnstartedHasNothing' /\ JobsAreOwned' /\ StopMissesNoStore' /\ WhatRunsIsHeld' /\
           CleanupIsAwaited'
      BY <2>2, <2>6, <2>7, <2>9, Undisturbed
    <2>12. ReportersAreHeld'
      <3>1. \A c \in Callers, t \in Starts : ClearsUp(c, t)' <=> ClearsUp(c, t)
        BY <2>2 DEF ClearsUp, Busy
      <3>2. \A t \in Starts : start[t] \in BeforeProcessor => processor[t] = "none"
        BY DEF Inv, ReportersAreHeld
      <3>3. \A t \in Starts : start[t] \in BeforeEvents => events[t] = "none"
        BY DEF Inv, ReportersAreHeld
      <3>4. \A t \in Starts, r \in Roles :
              \/ Holds(t, r) => Holds(t, r)'
              \/ t = s /\ r = "events" /\ events'[t] = "ended" /\ start[t] # "spawnEvents"
        BY <2>6, <2>3, <3>2, <3>3 DEF BeforeProcessor, BeforeEvents, Moved
      <3>5. \A t \in Starts : /\ processor'[t] \notin {"none", "ended"} => processor[t] \notin {"none", "ended"}
                              /\ events'[t] \notin {"none", "ended"} => events[t] \notin {"none", "ended"}
        BY <2>2, <2>3 DEF Moved
      <3> QED
        BY <2>2, <2>8, <2>4, <3>1, <3>4, <3>5 DEF Inv, ReportersAreHeld, InStartup, Roles, ThreadsStay
    <2>13. ResourcesHaveOneHolder'
      BY <2>2, <2>7, <2>4, ThreadsGoOn
    <2>14. LiveIsGivenUp'
      BY <2>2, <2>7, <2>9, <2>4, ThreadsGoOn
    <2>15. RevisionsAreOld'
      BY <2>2, <2>7, <2>4, <2>5, ThreadsGoOn
    <2>16. ClearsAreLater'
      BY <2>2, <2>7, <2>4, <2>5, ThreadsGoOn
    <2>17. ClearedStaysClear'
      BY <2>2, <2>7, <2>4, <2>5, ThreadsGoOn
    <2>18. ShowsAreAwaited'
      <3>1. \A t \in Starts : events[t] = "placed" => events'[t] = "placed"
        BY <2>1, <2>3 DEF Moved
      <3> QED
        BY <2>2, <2>7, <2>4, <3>1, ThreadsGoOn
    <2>19. VisibleIsAlive'
      BY <2>2, <2>7, <2>4, ThreadsGoOn
    <2> QED
      BY <2>1, <2>6, <2>10, <2>11, <2>12, <2>13, <2>14, <2>15, <2>16, <2>17, <2>18, <2>19
      DEF Inv
  <1>3. CASE /\ events[s] = "over" /\ events' = [events EXCEPT ![s] = "ended"]
             /\ Report(s, "events", "Cancelled") /\ UNCHANGED <<text, ui>>
    <2>1. /\ Theory!Inv' /\ Reports(s, "events", "Cancelled")
          /\ events[s] = "over"
          /\ events' = [events EXCEPT ![s] = "ended"]
          /\ UNCHANGED <<env, slot, control, start, worker, job, capture, processor, cleanup,
                        stopResult, monitor, failureCleanup, budget, text, pass, output, shown,
                        ui, frame, stops, presents>>
      BY <1>3, ReportEffect
      DEF Inv, EventStep, supVars, overlayVars, mainVars, threadVars, cleanupVars, monitorVars
    <2>2. UNCHANGED <<env, slot, control, start, worker, job, capture, processor, cleanup,
                       stopResult, monitor, failureCleanup, budget, text, pass, output, shown, ui,
                       frame, stops, presents>>
      BY <2>1
    <2>3. /\ Moved(events', events, s, "ended") /\ events[s] \notin {"none", "ended"}
          /\ events' \in [Starts -> {"none", "loop", "closed", "over", "failed", "mark", "resume",
                                  "run", "look", "show", "hide", "placed", "ended"}]
      BY <2>1 DEF Inv, Types, Moved
    <2>4. ThreadsStay
      BY <2>2, <2>3 DEF ThreadsStay, Moved
    <2>5. NothingNewer
      BY <2>2, <2>3 DEF NothingNewer, Inv, Types
    <2>6. /\ NumbersAreDistinct'
          /\ \A t \in Starts, r \in Roles : Holds(t, r) /\ ~(t = s /\ r = "events") => Holds(t, r)'
      BY <2>1, ReportersReported
      DEF Roles
    <2>7. /\ UNCHANGED <<active, cleanupFinished, nextSession>>
          /\ cancelled \subseteq cancelled' /\ Advances
          /\ active = NoSession => UNCHANGED snapshot
          /\ NoneRuns
      BY <2>1
      DEF Reports, Advances, NoneRuns
    <2>8. \A t \in Starts : Tracked(t)' <=> Tracked(t)
      BY <2>2
      DEF Tracked, Roles
    <2>9. StaysAwaited
      BY <2>1, AwaitedByAll
      DEF Roles, Reports
    <2>10. Types'
      BY <2>2, <2>3, TypesKept DEF Kept
    <2>11. UnstartedHasNothing' /\ JobsAreOwned' /\ StopMissesNoStore' /\ WhatRunsIsHeld' /\
           CleanupIsAwaited'
      BY <2>2, <2>6, <2>7, <2>9, Undisturbed
    <2>12. ReportersAreHeld'
      <3>1. \A c \in Callers, t \in Starts : ClearsUp(c, t)' <=> ClearsUp(c, t)
        BY <2>2 DEF ClearsUp, Busy
      <3>2. \A t \in Starts : start[t] \in BeforeProcessor => processor[t] = "none"
        BY DEF Inv, ReportersAreHeld
      <3>3. \A t \in Starts : start[t] \in BeforeEvents => events[t] = "none"
        BY DEF Inv, ReportersAreHeld
      <3>4. \A t \in Starts, r \in Roles :
              \/ Holds(t, r) => Holds(t, r)'
              \/ t = s /\ r = "events" /\ events'[t] = "ended" /\ start[t] # "spawnEvents"
        BY <2>6, <2>3, <3>2, <3>3 DEF BeforeProcessor, BeforeEvents, Moved
      <3>5. \A t \in Starts : /\ processor'[t] \notin {"none", "ended"} => processor[t] \notin {"none", "ended"}
                              /\ events'[t] \notin {"none", "ended"} => events[t] \notin {"none", "ended"}
        BY <2>2, <2>3 DEF Moved
      <3> QED
        BY <2>2, <2>8, <2>4, <3>1, <3>4, <3>5 DEF Inv, ReportersAreHeld, InStartup, Roles, ThreadsStay
    <2>13. ResourcesHaveOneHolder'
      BY <2>2, <2>7, <2>4, ThreadsGoOn
    <2>14. LiveIsGivenUp'
      BY <2>2, <2>7, <2>9, <2>4, ThreadsGoOn
    <2>15. RevisionsAreOld'
      BY <2>2, <2>7, <2>4, <2>5, ThreadsGoOn
    <2>16. ClearsAreLater'
      BY <2>2, <2>7, <2>4, <2>5, ThreadsGoOn
    <2>17. ClearedStaysClear'
      BY <2>2, <2>7, <2>4, <2>5, ThreadsGoOn
    <2>18. ShowsAreAwaited'
      <3>1. \A t \in Starts : events[t] = "placed" => events'[t] = "placed"
        BY <2>1, <2>3 DEF Moved
      <3> QED
        BY <2>2, <2>7, <2>4, <3>1, ThreadsGoOn
    <2>19. VisibleIsAlive'
      BY <2>2, <2>7, <2>4, ThreadsGoOn
    <2> QED
      BY <2>1, <2>6, <2>10, <2>11, <2>12, <2>13, <2>14, <2>15, <2>16, <2>17, <2>18, <2>19
      DEF Inv
  <1>4. CASE /\ events[s] = "over" /\ events' = [events EXCEPT ![s] = "ended"]
             /\ Report(s, "events", "Completed") /\ UNCHANGED <<text, ui>>
    <2>1. /\ Theory!Inv' /\ Reports(s, "events", "Completed")
          /\ events[s] = "over"
          /\ events' = [events EXCEPT ![s] = "ended"]
          /\ UNCHANGED <<env, slot, control, start, worker, job, capture, processor, cleanup,
                        stopResult, monitor, failureCleanup, budget, text, pass, output, shown,
                        ui, frame, stops, presents>>
      BY <1>4, ReportEffect
      DEF Inv, EventStep, supVars, overlayVars, mainVars, threadVars, cleanupVars, monitorVars
    <2>2. UNCHANGED <<env, slot, control, start, worker, job, capture, processor, cleanup,
                       stopResult, monitor, failureCleanup, budget, text, pass, output, shown, ui,
                       frame, stops, presents>>
      BY <2>1
    <2>3. /\ Moved(events', events, s, "ended") /\ events[s] \notin {"none", "ended"}
          /\ events' \in [Starts -> {"none", "loop", "closed", "over", "failed", "mark", "resume",
                                  "run", "look", "show", "hide", "placed", "ended"}]
      BY <2>1 DEF Inv, Types, Moved
    <2>4. ThreadsStay
      BY <2>2, <2>3 DEF ThreadsStay, Moved
    <2>5. NothingNewer
      BY <2>2, <2>3 DEF NothingNewer, Inv, Types
    <2>6. /\ NumbersAreDistinct'
          /\ \A t \in Starts, r \in Roles : Holds(t, r) /\ ~(t = s /\ r = "events") => Holds(t, r)'
      BY <2>1, ReportersReported
      DEF Roles
    <2>7. /\ UNCHANGED <<active, cleanupFinished, nextSession>>
          /\ cancelled \subseteq cancelled' /\ Advances
          /\ active = NoSession => UNCHANGED snapshot
          /\ NoneRuns
      BY <2>1
      DEF Reports, Advances, NoneRuns
    <2>8. \A t \in Starts : Tracked(t)' <=> Tracked(t)
      BY <2>2
      DEF Tracked, Roles
    <2>9. StaysAwaited
      BY <2>1, AwaitedByAll
      DEF Roles, Reports
    <2>10. Types'
      BY <2>2, <2>3, TypesKept DEF Kept
    <2>11. UnstartedHasNothing' /\ JobsAreOwned' /\ StopMissesNoStore' /\ WhatRunsIsHeld' /\
           CleanupIsAwaited'
      BY <2>2, <2>6, <2>7, <2>9, Undisturbed
    <2>12. ReportersAreHeld'
      <3>1. \A c \in Callers, t \in Starts : ClearsUp(c, t)' <=> ClearsUp(c, t)
        BY <2>2 DEF ClearsUp, Busy
      <3>2. \A t \in Starts : start[t] \in BeforeProcessor => processor[t] = "none"
        BY DEF Inv, ReportersAreHeld
      <3>3. \A t \in Starts : start[t] \in BeforeEvents => events[t] = "none"
        BY DEF Inv, ReportersAreHeld
      <3>4. \A t \in Starts, r \in Roles :
              \/ Holds(t, r) => Holds(t, r)'
              \/ t = s /\ r = "events" /\ events'[t] = "ended" /\ start[t] # "spawnEvents"
        BY <2>6, <2>3, <3>2, <3>3 DEF BeforeProcessor, BeforeEvents, Moved
      <3>5. \A t \in Starts : /\ processor'[t] \notin {"none", "ended"} => processor[t] \notin {"none", "ended"}
                              /\ events'[t] \notin {"none", "ended"} => events[t] \notin {"none", "ended"}
        BY <2>2, <2>3 DEF Moved
      <3> QED
        BY <2>2, <2>8, <2>4, <3>1, <3>4, <3>5 DEF Inv, ReportersAreHeld, InStartup, Roles, ThreadsStay
    <2>13. ResourcesHaveOneHolder'
      BY <2>2, <2>7, <2>4, ThreadsGoOn
    <2>14. LiveIsGivenUp'
      BY <2>2, <2>7, <2>9, <2>4, ThreadsGoOn
    <2>15. RevisionsAreOld'
      BY <2>2, <2>7, <2>4, <2>5, ThreadsGoOn
    <2>16. ClearsAreLater'
      BY <2>2, <2>7, <2>4, <2>5, ThreadsGoOn
    <2>17. ClearedStaysClear'
      BY <2>2, <2>7, <2>4, <2>5, ThreadsGoOn
    <2>18. ShowsAreAwaited'
      <3>1. \A t \in Starts : events[t] = "placed" => events'[t] = "placed"
        BY <2>1, <2>3 DEF Moved
      <3> QED
        BY <2>2, <2>7, <2>4, <3>1, ThreadsGoOn
    <2>19. VisibleIsAlive'
      BY <2>2, <2>7, <2>4, ThreadsGoOn
    <2> QED
      BY <2>1, <2>6, <2>10, <2>11, <2>12, <2>13, <2>14, <2>15, <2>16, <2>17, <2>18, <2>19
      DEF Inv
  <1>5. CASE /\ events[s] = "failed" /\ events' = [events EXCEPT ![s] = "ended"]
             /\ Report(s, "events", "Failed") /\ UNCHANGED <<text, ui>>
    <2>1. /\ Theory!Inv' /\ Reports(s, "events", "Failed")
          /\ events[s] = "failed"
          /\ events' = [events EXCEPT ![s] = "ended"]
          /\ UNCHANGED <<env, slot, control, start, worker, job, capture, processor, cleanup,
                        stopResult, monitor, failureCleanup, budget, text, pass, output, shown,
                        ui, frame, stops, presents>>
      BY <1>5, ReportEffect
      DEF Inv, EventStep, supVars, overlayVars, mainVars, threadVars, cleanupVars, monitorVars
    <2>2. UNCHANGED <<env, slot, control, start, worker, job, capture, processor, cleanup,
                       stopResult, monitor, failureCleanup, budget, text, pass, output, shown, ui,
                       frame, stops, presents>>
      BY <2>1
    <2>3. /\ Moved(events', events, s, "ended") /\ events[s] \notin {"none", "ended"}
          /\ events' \in [Starts -> {"none", "loop", "closed", "over", "failed", "mark", "resume",
                                  "run", "look", "show", "hide", "placed", "ended"}]
      BY <2>1 DEF Inv, Types, Moved
    <2>4. ThreadsStay
      BY <2>2, <2>3 DEF ThreadsStay, Moved
    <2>5. NothingNewer
      BY <2>2, <2>3 DEF NothingNewer, Inv, Types
    <2>6. /\ NumbersAreDistinct'
          /\ \A t \in Starts, r \in Roles : Holds(t, r) /\ ~(t = s /\ r = "events") => Holds(t, r)'
      BY <2>1, ReportersReported
      DEF Roles
    <2>7. /\ UNCHANGED <<active, cleanupFinished, nextSession>>
          /\ cancelled \subseteq cancelled' /\ Advances
          /\ active = NoSession => UNCHANGED snapshot
          /\ NoneRuns
      BY <2>1
      DEF Reports, Advances, NoneRuns
    <2>8. \A t \in Starts : Tracked(t)' <=> Tracked(t)
      BY <2>2
      DEF Tracked, Roles
    <2>9. StaysAwaited
      BY <2>1, AwaitedByAll
      DEF Roles, Reports
    <2>10. Types'
      BY <2>2, <2>3, TypesKept DEF Kept
    <2>11. UnstartedHasNothing' /\ JobsAreOwned' /\ StopMissesNoStore' /\ WhatRunsIsHeld' /\
           CleanupIsAwaited'
      BY <2>2, <2>6, <2>7, <2>9, Undisturbed
    <2>12. ReportersAreHeld'
      <3>1. \A c \in Callers, t \in Starts : ClearsUp(c, t)' <=> ClearsUp(c, t)
        BY <2>2 DEF ClearsUp, Busy
      <3>2. \A t \in Starts : start[t] \in BeforeProcessor => processor[t] = "none"
        BY DEF Inv, ReportersAreHeld
      <3>3. \A t \in Starts : start[t] \in BeforeEvents => events[t] = "none"
        BY DEF Inv, ReportersAreHeld
      <3>4. \A t \in Starts, r \in Roles :
              \/ Holds(t, r) => Holds(t, r)'
              \/ t = s /\ r = "events" /\ events'[t] = "ended" /\ start[t] # "spawnEvents"
        BY <2>6, <2>3, <3>2, <3>3 DEF BeforeProcessor, BeforeEvents, Moved
      <3>5. \A t \in Starts : /\ processor'[t] \notin {"none", "ended"} => processor[t] \notin {"none", "ended"}
                              /\ events'[t] \notin {"none", "ended"} => events[t] \notin {"none", "ended"}
        BY <2>2, <2>3 DEF Moved
      <3> QED
        BY <2>2, <2>8, <2>4, <3>1, <3>4, <3>5 DEF Inv, ReportersAreHeld, InStartup, Roles, ThreadsStay
    <2>13. ResourcesHaveOneHolder'
      BY <2>2, <2>7, <2>4, ThreadsGoOn
    <2>14. LiveIsGivenUp'
      BY <2>2, <2>7, <2>9, <2>4, ThreadsGoOn
    <2>15. RevisionsAreOld'
      BY <2>2, <2>7, <2>4, <2>5, ThreadsGoOn
    <2>16. ClearsAreLater'
      BY <2>2, <2>7, <2>4, <2>5, ThreadsGoOn
    <2>17. ClearedStaysClear'
      BY <2>2, <2>7, <2>4, <2>5, ThreadsGoOn
    <2>18. ShowsAreAwaited'
      <3>1. \A t \in Starts : events[t] = "placed" => events'[t] = "placed"
        BY <2>1, <2>3 DEF Moved
      <3> QED
        BY <2>2, <2>7, <2>4, <3>1, ThreadsGoOn
    <2>19. VisibleIsAlive'
      BY <2>2, <2>7, <2>4, ThreadsGoOn
    <2> QED
      BY <2>1, <2>6, <2>10, <2>11, <2>12, <2>13, <2>14, <2>15, <2>16, <2>17, <2>18, <2>19
      DEF Inv
  <1>6. CASE /\ events[s] = "loop" /\ events' = [events EXCEPT ![s] = "over"]
             /\ UNCHANGED <<supVars, text, ui>>
    <2>1. /\ Theory!Inv' /\ Calm
          /\ events[s] = "loop"
          /\ events' = [events EXCEPT ![s] = "over"]
          /\ UNCHANGED <<env, slot, control, start, worker, job, capture, processor, cleanup,
                        stopResult, monitor, failureCleanup, budget, text, pass, output, shown,
                        ui, frame, stops, presents>>
      BY <1>6, StutterEffect
      DEF Inv, EventStep, supVars, overlayVars, mainVars, threadVars, cleanupVars, monitorVars
    <2>2. UNCHANGED <<env, slot, control, start, worker, job, capture, processor, cleanup,
                       stopResult, monitor, failureCleanup, budget, text, pass, output, shown, ui,
                       frame, stops, presents>>
      BY <2>1
    <2>3. /\ Moved(events', events, s, "over") /\ events[s] \notin {"none", "ended"}
          /\ events' \in [Starts -> {"none", "loop", "closed", "over", "failed", "mark", "resume",
                                  "run", "look", "show", "hide", "placed", "ended"}]
      BY <2>1 DEF Inv, Types, Moved
    <2>4. ThreadsStay
      BY <2>2, <2>3 DEF ThreadsStay, Moved
    <2>5. NothingNewer
      BY <2>2, <2>3 DEF NothingNewer, Inv, Types
    <2>6. /\ NumbersAreDistinct'
          /\ \A t \in Starts, r \in Roles : Holds(t, r) => Holds(t, r)'
      BY <2>1, ReportersKept
      DEF Calm, Steady
    <2>7. /\ UNCHANGED <<active, cleanupFinished, nextSession>>
          /\ cancelled \subseteq cancelled' /\ Advances
          /\ active = NoSession => UNCHANGED snapshot
          /\ NoneRuns
      BY <2>1
      DEF Calm, Steady, Advances, NoneRuns
    <2>8. \A t \in Starts : Tracked(t)' <=> Tracked(t)
      BY <2>2
      DEF Tracked, Roles
    <2>9. StaysAwaited
      BY <2>1, AwaitedByAll
      DEF Roles, Calm, Steady
    <2>10. Types'
      BY <2>2, <2>3, TypesKept DEF Kept
    <2>11. UnstartedHasNothing' /\ JobsAreOwned' /\ StopMissesNoStore' /\ WhatRunsIsHeld' /\
           CleanupIsAwaited'
      BY <2>2, <2>6, <2>7, <2>9, Undisturbed
    <2>12. ReportersAreHeld'
      <3>1. \A c \in Callers, t \in Starts : ClearsUp(c, t)' <=> ClearsUp(c, t)
        BY <2>2 DEF ClearsUp, Busy
      <3>2. \A t \in Starts : start[t] \in BeforeProcessor => processor[t] = "none"
        BY DEF Inv, ReportersAreHeld
      <3>3. \A t \in Starts : start[t] \in BeforeEvents => events[t] = "none"
        BY DEF Inv, ReportersAreHeld
      <3>4. \A t \in Starts, r \in Roles :
              \/ Holds(t, r) => Holds(t, r)'
              \/ t = s /\ r = "events" /\ events'[t] = "ended" /\ start[t] # "spawnEvents"
        BY <2>6, <2>3, <3>2, <3>3 DEF BeforeProcessor, BeforeEvents, Moved
      <3>5. \A t \in Starts : /\ processor'[t] \notin {"none", "ended"} => processor[t] \notin {"none", "ended"}
                              /\ events'[t] \notin {"none", "ended"} => events[t] \notin {"none", "ended"}
        BY <2>2, <2>3 DEF Moved
      <3> QED
        BY <2>2, <2>8, <2>4, <3>1, <3>4, <3>5 DEF Inv, ReportersAreHeld, InStartup, Roles, ThreadsStay
    <2>13. ResourcesHaveOneHolder'
      BY <2>2, <2>7, <2>4, ThreadsGoOn
    <2>14. LiveIsGivenUp'
      BY <2>2, <2>7, <2>9, <2>4, ThreadsGoOn
    <2>15. RevisionsAreOld'
      BY <2>2, <2>7, <2>4, <2>5, ThreadsGoOn
    <2>16. ClearsAreLater'
      BY <2>2, <2>7, <2>4, <2>5, ThreadsGoOn
    <2>17. ClearedStaysClear'
      BY <2>2, <2>7, <2>4, <2>5, ThreadsGoOn
    <2>18. ShowsAreAwaited'
      <3>1. \A t \in Starts : events[t] = "placed" => events'[t] = "placed"
        BY <2>1, <2>3 DEF Moved
      <3> QED
        BY <2>2, <2>7, <2>4, <3>1, ThreadsGoOn
    <2>19. VisibleIsAlive'
      BY <2>2, <2>7, <2>4, ThreadsGoOn
    <2> QED
      BY <2>1, <2>6, <2>10, <2>11, <2>12, <2>13, <2>14, <2>15, <2>16, <2>17, <2>18, <2>19
      DEF Inv
  <1>7. CASE /\ events[s] = "loop" /\ events' = [events EXCEPT ![s] = "mark"]
             /\ UNCHANGED <<supVars, text, ui>>
    <2>1. /\ Theory!Inv' /\ Calm
          /\ events[s] = "loop"
          /\ events' = [events EXCEPT ![s] = "mark"]
          /\ UNCHANGED <<env, slot, control, start, worker, job, capture, processor, cleanup,
                        stopResult, monitor, failureCleanup, budget, text, pass, output, shown,
                        ui, frame, stops, presents>>
      BY <1>7, StutterEffect
      DEF Inv, EventStep, supVars, overlayVars, mainVars, threadVars, cleanupVars, monitorVars
    <2>2. UNCHANGED <<env, slot, control, start, worker, job, capture, processor, cleanup,
                       stopResult, monitor, failureCleanup, budget, text, pass, output, shown, ui,
                       frame, stops, presents>>
      BY <2>1
    <2>3. /\ Moved(events', events, s, "mark") /\ events[s] \notin {"none", "ended"}
          /\ events' \in [Starts -> {"none", "loop", "closed", "over", "failed", "mark", "resume",
                                  "run", "look", "show", "hide", "placed", "ended"}]
      BY <2>1 DEF Inv, Types, Moved
    <2>4. ThreadsStay
      BY <2>2, <2>3 DEF ThreadsStay, Moved
    <2>5. NothingNewer
      BY <2>2, <2>3 DEF NothingNewer, Inv, Types
    <2>6. /\ NumbersAreDistinct'
          /\ \A t \in Starts, r \in Roles : Holds(t, r) => Holds(t, r)'
      BY <2>1, ReportersKept
      DEF Calm, Steady
    <2>7. /\ UNCHANGED <<active, cleanupFinished, nextSession>>
          /\ cancelled \subseteq cancelled' /\ Advances
          /\ active = NoSession => UNCHANGED snapshot
          /\ NoneRuns
      BY <2>1
      DEF Calm, Steady, Advances, NoneRuns
    <2>8. \A t \in Starts : Tracked(t)' <=> Tracked(t)
      BY <2>2
      DEF Tracked, Roles
    <2>9. StaysAwaited
      BY <2>1, AwaitedByAll
      DEF Roles, Calm, Steady
    <2>10. Types'
      BY <2>2, <2>3, TypesKept DEF Kept
    <2>11. UnstartedHasNothing' /\ JobsAreOwned' /\ StopMissesNoStore' /\ WhatRunsIsHeld' /\
           CleanupIsAwaited'
      BY <2>2, <2>6, <2>7, <2>9, Undisturbed
    <2>12. ReportersAreHeld'
      <3>1. \A c \in Callers, t \in Starts : ClearsUp(c, t)' <=> ClearsUp(c, t)
        BY <2>2 DEF ClearsUp, Busy
      <3>2. \A t \in Starts : start[t] \in BeforeProcessor => processor[t] = "none"
        BY DEF Inv, ReportersAreHeld
      <3>3. \A t \in Starts : start[t] \in BeforeEvents => events[t] = "none"
        BY DEF Inv, ReportersAreHeld
      <3>4. \A t \in Starts, r \in Roles :
              \/ Holds(t, r) => Holds(t, r)'
              \/ t = s /\ r = "events" /\ events'[t] = "ended" /\ start[t] # "spawnEvents"
        BY <2>6, <2>3, <3>2, <3>3 DEF BeforeProcessor, BeforeEvents, Moved
      <3>5. \A t \in Starts : /\ processor'[t] \notin {"none", "ended"} => processor[t] \notin {"none", "ended"}
                              /\ events'[t] \notin {"none", "ended"} => events[t] \notin {"none", "ended"}
        BY <2>2, <2>3 DEF Moved
      <3> QED
        BY <2>2, <2>8, <2>4, <3>1, <3>4, <3>5 DEF Inv, ReportersAreHeld, InStartup, Roles, ThreadsStay
    <2>13. ResourcesHaveOneHolder'
      BY <2>2, <2>7, <2>4, ThreadsGoOn
    <2>14. LiveIsGivenUp'
      BY <2>2, <2>7, <2>9, <2>4, ThreadsGoOn
    <2>15. RevisionsAreOld'
      BY <2>2, <2>7, <2>4, <2>5, ThreadsGoOn
    <2>16. ClearsAreLater'
      BY <2>2, <2>7, <2>4, <2>5, ThreadsGoOn
    <2>17. ClearedStaysClear'
      BY <2>2, <2>7, <2>4, <2>5, ThreadsGoOn
    <2>18. ShowsAreAwaited'
      <3>1. \A t \in Starts : events[t] = "placed" => events'[t] = "placed"
        BY <2>1, <2>3 DEF Moved
      <3> QED
        BY <2>2, <2>7, <2>4, <3>1, ThreadsGoOn
    <2>19. VisibleIsAlive'
      BY <2>2, <2>7, <2>4, ThreadsGoOn
    <2> QED
      BY <2>1, <2>6, <2>10, <2>11, <2>12, <2>13, <2>14, <2>15, <2>16, <2>17, <2>18, <2>19
      DEF Inv
  <1>8. CASE /\ events[s] = "loop" /\ events' = [events EXCEPT ![s] = "closed"]
             /\ Post(Hiding) /\ UNCHANGED <<supVars, text>>
    <2>1. /\ Theory!Inv' /\ Calm
          /\ events[s] = "loop"
          /\ Post(Hiding)
          /\ events' = [events EXCEPT ![s] = "closed"]
          /\ UNCHANGED <<env, slot, control, start, worker, job, capture, processor, cleanup,
                        stopResult, monitor, failureCleanup, budget, text, pass, output, shown,
                        frame, stops, presents>>
      BY <1>8, StutterEffect
      DEF Inv, EventStep, supVars, overlayVars, mainVars, threadVars, cleanupVars, monitorVars
    <2>2. UNCHANGED <<env, slot, control, start, worker, job, capture, processor, cleanup,
                       stopResult, monitor, failureCleanup, budget, text, pass, output, shown,
                       frame, stops, presents>>
      BY <2>1
    <2>3. /\ Moved(events', events, s, "closed") /\ events[s] \notin {"none", "ended"}
          /\ events' \in [Starts -> {"none", "loop", "closed", "over", "failed", "mark", "resume",
                                  "run", "look", "show", "hide", "placed", "ended"}]
      BY <2>1 DEF Inv, Types, Moved
    <2>4. ThreadsStay
      BY <2>2, <2>3 DEF ThreadsStay, Moved
    <2>5. NothingNewer
      BY <2>2, <2>3 DEF NothingNewer, Inv, Types
    <2>6. /\ ui' \in Seq(Requests) /\ HideIsPosted'
          /\ \A i \in 1..Len(ui') : ui'[i].kind = "show" => i \in 1..Len(ui) /\ ui'[i] = ui[i]
      <3>1. Hiding \in Requests /\ Hiding.kind = "hide" /\ Hiding.by = NoCaller
        BY DEF Hiding, Requests
      <3>2. Post(Hiding)
        BY <2>1
      <3> QED
        BY <3>1, <3>2, RequestPosted
    <2>7. /\ NumbersAreDistinct'
          /\ \A t \in Starts, r \in Roles : Holds(t, r) => Holds(t, r)'
      BY <2>1, ReportersKept
      DEF Calm, Steady
    <2>8. /\ UNCHANGED <<active, cleanupFinished, nextSession>>
          /\ cancelled \subseteq cancelled' /\ Advances
          /\ active = NoSession => UNCHANGED snapshot
          /\ NoneRuns
      BY <2>1
      DEF Calm, Steady, Advances, NoneRuns
    <2>9. \A t \in Starts : Tracked(t)' <=> Tracked(t)
      BY <2>2
      DEF Tracked, Roles
    <2>10. StaysAwaited
      BY <2>1, AwaitedByAll
      DEF Roles, Calm, Steady
    <2>11. Types'
      BY <2>2, <2>3, <2>6, TypesKept DEF Kept
    <2>12. UnstartedHasNothing' /\ JobsAreOwned' /\ StopMissesNoStore' /\ WhatRunsIsHeld' /\
           CleanupIsAwaited'
      BY <2>2, <2>7, <2>8, <2>10, Undisturbed
    <2>13. ReportersAreHeld'
      <3>1. \A c \in Callers, t \in Starts : ClearsUp(c, t)' <=> ClearsUp(c, t)
        BY <2>2 DEF ClearsUp, Busy
      <3>2. \A t \in Starts : start[t] \in BeforeProcessor => processor[t] = "none"
        BY DEF Inv, ReportersAreHeld
      <3>3. \A t \in Starts : start[t] \in BeforeEvents => events[t] = "none"
        BY DEF Inv, ReportersAreHeld
      <3>4. \A t \in Starts, r \in Roles :
              \/ Holds(t, r) => Holds(t, r)'
              \/ t = s /\ r = "events" /\ events'[t] = "ended" /\ start[t] # "spawnEvents"
        BY <2>7, <2>3, <3>2, <3>3 DEF BeforeProcessor, BeforeEvents, Moved
      <3>5. \A t \in Starts : /\ processor'[t] \notin {"none", "ended"} => processor[t] \notin {"none", "ended"}
                              /\ events'[t] \notin {"none", "ended"} => events[t] \notin {"none", "ended"}
        BY <2>2, <2>3 DEF Moved
      <3> QED
        BY <2>2, <2>9, <2>4, <3>1, <3>4, <3>5 DEF Inv, ReportersAreHeld, InStartup, Roles, ThreadsStay
    <2>14. ResourcesHaveOneHolder'
      BY <2>2, <2>8, <2>4, ThreadsGoOn
    <2>15. LiveIsGivenUp'
      BY <2>2, <2>8, <2>10, <2>4, ThreadsGoOn
    <2>16. RevisionsAreOld'
      BY <2>2, <2>8, <2>4, <2>5, ThreadsGoOn
    <2>17. ClearsAreLater'
      BY <2>2, <2>8, <2>4, <2>5, ThreadsGoOn
    <2>18. ClearedStaysClear'
      BY <2>2, <2>8, <2>4, <2>5, ThreadsGoOn
    <2>19. ShowsAreAwaited'
      <3>1. \A t \in Starts : events[t] = "placed" => events'[t] = "placed"
        BY <2>2, <2>3, <2>1 DEF Moved
      <3>2. \A t \in Starts : events'[t] = "none" <=> events[t] = "none"
        BY <2>4 DEF ThreadsStay
      <3>3. nextSession > 1 => nextSession - 1 \in Starts
        BY Numbers DEF Inv, UnstartedHasNothing, Guarantees, Starts
      <3> QED
        BY <2>2, <2>8, <2>6, <3>1, <3>2, <3>3 DEF Inv, ShowsAreAwaited
    <2>20. VisibleIsAlive'
      BY <2>6 DEF VisibleIsAlive
    <2> QED
      BY <2>1, <2>7, <2>11, <2>12, <2>13, <2>14, <2>15, <2>16, <2>17, <2>18, <2>19, <2>20
      DEF Inv
  <1>9. CASE /\ events[s] = "mark" /\ events' = [events EXCEPT ![s] = "closed"]
             /\ UNCHANGED <<supVars, text, ui>>
    <2>1. /\ Theory!Inv' /\ Calm
          /\ events[s] = "mark"
          /\ events' = [events EXCEPT ![s] = "closed"]
          /\ UNCHANGED <<env, slot, control, start, worker, job, capture, processor, cleanup,
                        stopResult, monitor, failureCleanup, budget, text, pass, output, shown,
                        ui, frame, stops, presents>>
      BY <1>9, StutterEffect
      DEF Inv, EventStep, supVars, overlayVars, mainVars, threadVars, cleanupVars, monitorVars
    <2>2. UNCHANGED <<env, slot, control, start, worker, job, capture, processor, cleanup,
                       stopResult, monitor, failureCleanup, budget, text, pass, output, shown, ui,
                       frame, stops, presents>>
      BY <2>1
    <2>3. /\ Moved(events', events, s, "closed") /\ events[s] \notin {"none", "ended"}
          /\ events' \in [Starts -> {"none", "loop", "closed", "over", "failed", "mark", "resume",
                                  "run", "look", "show", "hide", "placed", "ended"}]
      BY <2>1 DEF Inv, Types, Moved
    <2>4. ThreadsStay
      BY <2>2, <2>3 DEF ThreadsStay, Moved
    <2>5. NothingNewer
      BY <2>2, <2>3 DEF NothingNewer, Inv, Types
    <2>6. /\ NumbersAreDistinct'
          /\ \A t \in Starts, r \in Roles : Holds(t, r) => Holds(t, r)'
      BY <2>1, ReportersKept
      DEF Calm, Steady
    <2>7. /\ UNCHANGED <<active, cleanupFinished, nextSession>>
          /\ cancelled \subseteq cancelled' /\ Advances
          /\ active = NoSession => UNCHANGED snapshot
          /\ NoneRuns
      BY <2>1
      DEF Calm, Steady, Advances, NoneRuns
    <2>8. \A t \in Starts : Tracked(t)' <=> Tracked(t)
      BY <2>2
      DEF Tracked, Roles
    <2>9. StaysAwaited
      BY <2>1, AwaitedByAll
      DEF Roles, Calm, Steady
    <2>10. Types'
      BY <2>2, <2>3, TypesKept DEF Kept
    <2>11. UnstartedHasNothing' /\ JobsAreOwned' /\ StopMissesNoStore' /\ WhatRunsIsHeld' /\
           CleanupIsAwaited'
      BY <2>2, <2>6, <2>7, <2>9, Undisturbed
    <2>12. ReportersAreHeld'
      <3>1. \A c \in Callers, t \in Starts : ClearsUp(c, t)' <=> ClearsUp(c, t)
        BY <2>2 DEF ClearsUp, Busy
      <3>2. \A t \in Starts : start[t] \in BeforeProcessor => processor[t] = "none"
        BY DEF Inv, ReportersAreHeld
      <3>3. \A t \in Starts : start[t] \in BeforeEvents => events[t] = "none"
        BY DEF Inv, ReportersAreHeld
      <3>4. \A t \in Starts, r \in Roles :
              \/ Holds(t, r) => Holds(t, r)'
              \/ t = s /\ r = "events" /\ events'[t] = "ended" /\ start[t] # "spawnEvents"
        BY <2>6, <2>3, <3>2, <3>3 DEF BeforeProcessor, BeforeEvents, Moved
      <3>5. \A t \in Starts : /\ processor'[t] \notin {"none", "ended"} => processor[t] \notin {"none", "ended"}
                              /\ events'[t] \notin {"none", "ended"} => events[t] \notin {"none", "ended"}
        BY <2>2, <2>3 DEF Moved
      <3> QED
        BY <2>2, <2>8, <2>4, <3>1, <3>4, <3>5 DEF Inv, ReportersAreHeld, InStartup, Roles, ThreadsStay
    <2>13. ResourcesHaveOneHolder'
      BY <2>2, <2>7, <2>4, ThreadsGoOn
    <2>14. LiveIsGivenUp'
      BY <2>2, <2>7, <2>9, <2>4, ThreadsGoOn
    <2>15. RevisionsAreOld'
      BY <2>2, <2>7, <2>4, <2>5, ThreadsGoOn
    <2>16. ClearsAreLater'
      BY <2>2, <2>7, <2>4, <2>5, ThreadsGoOn
    <2>17. ClearedStaysClear'
      BY <2>2, <2>7, <2>4, <2>5, ThreadsGoOn
    <2>18. ShowsAreAwaited'
      <3>1. \A t \in Starts : events[t] = "placed" => events'[t] = "placed"
        BY <2>1, <2>3 DEF Moved
      <3> QED
        BY <2>2, <2>7, <2>4, <3>1, ThreadsGoOn
    <2>19. VisibleIsAlive'
      BY <2>2, <2>7, <2>4, ThreadsGoOn
    <2> QED
      BY <2>1, <2>6, <2>10, <2>11, <2>12, <2>13, <2>14, <2>15, <2>16, <2>17, <2>18, <2>19
      DEF Inv
  <1>10. CASE /\ events[s] = "mark" /\ events' = [events EXCEPT ![s] = "closed"]
             /\ Sup!MarkWaiting(s) /\ text' = [text EXCEPT ![s] = 0] /\ Post(Hiding)
    <2>1. /\ Theory!Inv' /\ Calm
          /\ events[s] = "mark"
          /\ text' = [text EXCEPT ![s] = 0] /\ Post(Hiding)
          /\ events' = [events EXCEPT ![s] = "closed"]
          /\ UNCHANGED <<env, slot, control, start, worker, job, capture, processor, cleanup,
                        stopResult, monitor, failureCleanup, budget, pass, output, shown, frame,
                        stops, presents>>
      BY <1>10, PublicationEffect
      DEF Inv, EventStep, supVars, overlayVars, mainVars, threadVars, cleanupVars, monitorVars
    <2>2. UNCHANGED <<env, slot, control, start, worker, job, capture, processor, cleanup,
                       stopResult, monitor, failureCleanup, budget, pass, output, shown, frame,
                       stops, presents>>
      BY <2>1
    <2>3. /\ Moved(events', events, s, "closed") /\ events[s] \notin {"none", "ended"}
          /\ events' \in [Starts -> {"none", "loop", "closed", "over", "failed", "mark", "resume",
                                  "run", "look", "show", "hide", "placed", "ended"}]
      BY <2>1 DEF Inv, Types, Moved
    <2>4. ThreadsStay
      BY <2>2, <2>3 DEF ThreadsStay, Moved
    <2>5. /\ NothingNewer /\ text' \in [Starts -> Nat]
      <3>1. text \in [Starts -> Nat] /\ pass \in [Starts -> Nat]
        BY DEF Inv, Types
      <3>2. text' \in [Starts -> Nat] /\ text'[s] = 0 /\ \A t \in Starts : t # s => text'[t] = text[t]
        BY <2>1, <3>1
      <3>3. processor[s] = "none" => text[s] = 0
        BY DEF Inv, RevisionsAreOld
      <3> QED
        BY <2>2, <3>1, <3>2, <3>3 DEF NothingNewer, Inv, RevisionsAreOld
    <2>6. /\ ui' \in Seq(Requests) /\ HideIsPosted'
          /\ \A i \in 1..Len(ui') : ui'[i].kind = "show" => i \in 1..Len(ui) /\ ui'[i] = ui[i]
      <3>1. Hiding \in Requests /\ Hiding.kind = "hide" /\ Hiding.by = NoCaller
        BY DEF Hiding, Requests
      <3>2. Post(Hiding)
        BY <2>1
      <3> QED
        BY <3>1, <3>2, RequestPosted
    <2>7. /\ NumbersAreDistinct'
          /\ \A t \in Starts, r \in Roles : Holds(t, r) => Holds(t, r)'
      BY <2>1, ReportersKept
      DEF Calm, Steady
    <2>8. /\ UNCHANGED <<active, cleanupFinished, nextSession>>
          /\ cancelled \subseteq cancelled' /\ Advances
          /\ active = NoSession => UNCHANGED snapshot
          /\ NoneRuns
      BY <2>1
      DEF Calm, Steady, Advances, NoneRuns
    <2>9. \A t \in Starts : Tracked(t)' <=> Tracked(t)
      BY <2>2
      DEF Tracked, Roles
    <2>10. StaysAwaited
      BY <2>1, AwaitedByAll
      DEF Roles, Calm, Steady
    <2>11. Types'
      BY <2>2, <2>3, <2>5, <2>6, TypesKept DEF Kept
    <2>12. UnstartedHasNothing' /\ JobsAreOwned' /\ StopMissesNoStore' /\ WhatRunsIsHeld' /\
           CleanupIsAwaited'
      BY <2>2, <2>7, <2>8, <2>10, Undisturbed
    <2>13. ReportersAreHeld'
      <3>1. \A c \in Callers, t \in Starts : ClearsUp(c, t)' <=> ClearsUp(c, t)
        BY <2>2 DEF ClearsUp, Busy
      <3>2. \A t \in Starts : start[t] \in BeforeProcessor => processor[t] = "none"
        BY DEF Inv, ReportersAreHeld
      <3>3. \A t \in Starts : start[t] \in BeforeEvents => events[t] = "none"
        BY DEF Inv, ReportersAreHeld
      <3>4. \A t \in Starts, r \in Roles :
              \/ Holds(t, r) => Holds(t, r)'
              \/ t = s /\ r = "events" /\ events'[t] = "ended" /\ start[t] # "spawnEvents"
        BY <2>7, <2>3, <3>2, <3>3 DEF BeforeProcessor, BeforeEvents, Moved
      <3>5. \A t \in Starts : /\ processor'[t] \notin {"none", "ended"} => processor[t] \notin {"none", "ended"}
                              /\ events'[t] \notin {"none", "ended"} => events[t] \notin {"none", "ended"}
        BY <2>2, <2>3 DEF Moved
      <3> QED
        BY <2>2, <2>9, <2>4, <3>1, <3>4, <3>5 DEF Inv, ReportersAreHeld, InStartup, Roles, ThreadsStay
    <2>14. ResourcesHaveOneHolder'
      BY <2>2, <2>8, <2>4, ThreadsGoOn
    <2>15. LiveIsGivenUp'
      BY <2>2, <2>8, <2>10, <2>4, ThreadsGoOn
    <2>16. RevisionsAreOld'
      BY <2>2, <2>8, <2>4, <2>5, ThreadsGoOn
    <2>17. ClearsAreLater'
      BY <2>2, <2>8, <2>4, <2>5, ThreadsGoOn
    <2>18. ClearedStaysClear'
      BY <2>2, <2>8, <2>4, <2>5, ThreadsGoOn
    <2>19. ShowsAreAwaited'
      <3>1. \A t \in Starts : events[t] = "placed" => events'[t] = "placed"
        BY <2>2, <2>3, <2>1 DEF Moved
      <3>2. \A t \in Starts : events'[t] = "none" <=> events[t] = "none"
        BY <2>4 DEF ThreadsStay
      <3>3. nextSession > 1 => nextSession - 1 \in Starts
        BY Numbers DEF Inv, UnstartedHasNothing, Guarantees, Starts
      <3> QED
        BY <2>2, <2>8, <2>6, <3>1, <3>2, <3>3 DEF Inv, ShowsAreAwaited
    <2>20. VisibleIsAlive'
      BY <2>6 DEF VisibleIsAlive
    <2> QED
      BY <2>1, <2>7, <2>11, <2>12, <2>13, <2>14, <2>15, <2>16, <2>17, <2>18, <2>19, <2>20
      DEF Inv
  <1> QED
    BY <1>1, <1>2, <1>3, <1>4, <1>5, <1>6, <1>7, <1>8, <1>9, <1>10 DEF EventStep, MarkWaiting, NormalOutcome

LEMMA EventResumeStep ==
  ASSUME Inv, NEW s \in Starts, EventResume(s)
  PROVE  Inv'
  <1>1. CASE /\ events[s] = "resume" /\ events' = [events EXCEPT ![s] = "run"]
             /\ UNCHANGED <<supVars, ui>>
    <2>1. /\ Theory!Inv' /\ Calm
          /\ events[s] = "resume"
          /\ events' = [events EXCEPT ![s] = "run"]
          /\ UNCHANGED <<env, slot, control, start, worker, job, capture, processor, cleanup,
                        stopResult, monitor, failureCleanup, budget, text, pass, output, shown,
                        ui, frame, stops, presents>>
      BY <1>1, StutterEffect
      DEF Inv, EventResume, supVars, overlayVars, mainVars, threadVars, cleanupVars, monitorVars
    <2>2. UNCHANGED <<env, slot, control, start, worker, job, capture, processor, cleanup,
                       stopResult, monitor, failureCleanup, budget, text, pass, output, shown, ui,
                       frame, stops, presents>>
      BY <2>1
    <2>3. /\ Moved(events', events, s, "run") /\ events[s] \notin {"none", "ended"}
          /\ events' \in [Starts -> {"none", "loop", "closed", "over", "failed", "mark", "resume",
                                  "run", "look", "show", "hide", "placed", "ended"}]
      BY <2>1 DEF Inv, Types, Moved
    <2>4. ThreadsStay
      BY <2>2, <2>3 DEF ThreadsStay, Moved
    <2>5. NothingNewer
      BY <2>2, <2>3 DEF NothingNewer, Inv, Types
    <2>6. /\ NumbersAreDistinct'
          /\ \A t \in Starts, r \in Roles : Holds(t, r) => Holds(t, r)'
      BY <2>1, ReportersKept
      DEF Calm, Steady
    <2>7. /\ UNCHANGED <<active, cleanupFinished, nextSession>>
          /\ cancelled \subseteq cancelled' /\ Advances
          /\ active = NoSession => UNCHANGED snapshot
          /\ NoneRuns
      BY <2>1
      DEF Calm, Steady, Advances, NoneRuns
    <2>8. \A t \in Starts : Tracked(t)' <=> Tracked(t)
      BY <2>2
      DEF Tracked, Roles
    <2>9. StaysAwaited
      BY <2>1, AwaitedByAll
      DEF Roles, Calm, Steady
    <2>10. Types'
      BY <2>2, <2>3, TypesKept DEF Kept
    <2>11. UnstartedHasNothing' /\ JobsAreOwned' /\ StopMissesNoStore' /\ WhatRunsIsHeld' /\
           CleanupIsAwaited'
      BY <2>2, <2>6, <2>7, <2>9, Undisturbed
    <2>12. ReportersAreHeld'
      <3>1. \A c \in Callers, t \in Starts : ClearsUp(c, t)' <=> ClearsUp(c, t)
        BY <2>2 DEF ClearsUp, Busy
      <3>2. \A t \in Starts : start[t] \in BeforeProcessor => processor[t] = "none"
        BY DEF Inv, ReportersAreHeld
      <3>3. \A t \in Starts : start[t] \in BeforeEvents => events[t] = "none"
        BY DEF Inv, ReportersAreHeld
      <3>4. \A t \in Starts, r \in Roles :
              \/ Holds(t, r) => Holds(t, r)'
              \/ t = s /\ r = "events" /\ events'[t] = "ended" /\ start[t] # "spawnEvents"
        BY <2>6, <2>3, <3>2, <3>3 DEF BeforeProcessor, BeforeEvents, Moved
      <3>5. \A t \in Starts : /\ processor'[t] \notin {"none", "ended"} => processor[t] \notin {"none", "ended"}
                              /\ events'[t] \notin {"none", "ended"} => events[t] \notin {"none", "ended"}
        BY <2>2, <2>3 DEF Moved
      <3> QED
        BY <2>2, <2>8, <2>4, <3>1, <3>4, <3>5 DEF Inv, ReportersAreHeld, InStartup, Roles, ThreadsStay
    <2>13. ResourcesHaveOneHolder'
      BY <2>2, <2>7, <2>4, ThreadsGoOn
    <2>14. LiveIsGivenUp'
      BY <2>2, <2>7, <2>9, <2>4, ThreadsGoOn
    <2>15. RevisionsAreOld'
      BY <2>2, <2>7, <2>4, <2>5, ThreadsGoOn
    <2>16. ClearsAreLater'
      BY <2>2, <2>7, <2>4, <2>5, ThreadsGoOn
    <2>17. ClearedStaysClear'
      BY <2>2, <2>7, <2>4, <2>5, ThreadsGoOn
    <2>18. ShowsAreAwaited'
      <3>1. \A t \in Starts : events[t] = "placed" => events'[t] = "placed"
        BY <2>1, <2>3 DEF Moved
      <3> QED
        BY <2>2, <2>7, <2>4, <3>1, ThreadsGoOn
    <2>19. VisibleIsAlive'
      BY <2>2, <2>7, <2>4, ThreadsGoOn
    <2> QED
      BY <2>1, <2>6, <2>10, <2>11, <2>12, <2>13, <2>14, <2>15, <2>16, <2>17, <2>18, <2>19
      DEF Inv
  <1>2. CASE /\ events[s] = "resume" /\ events' = [events EXCEPT ![s] = "look"]
             /\ UNCHANGED <<supVars, ui>>
    <2>1. /\ Theory!Inv' /\ Calm
          /\ events[s] = "resume"
          /\ events' = [events EXCEPT ![s] = "look"]
          /\ UNCHANGED <<env, slot, control, start, worker, job, capture, processor, cleanup,
                        stopResult, monitor, failureCleanup, budget, text, pass, output, shown,
                        ui, frame, stops, presents>>
      BY <1>2, StutterEffect
      DEF Inv, EventResume, supVars, overlayVars, mainVars, threadVars, cleanupVars, monitorVars
    <2>2. UNCHANGED <<env, slot, control, start, worker, job, capture, processor, cleanup,
                       stopResult, monitor, failureCleanup, budget, text, pass, output, shown, ui,
                       frame, stops, presents>>
      BY <2>1
    <2>3. /\ Moved(events', events, s, "look") /\ events[s] \notin {"none", "ended"}
          /\ events' \in [Starts -> {"none", "loop", "closed", "over", "failed", "mark", "resume",
                                  "run", "look", "show", "hide", "placed", "ended"}]
      BY <2>1 DEF Inv, Types, Moved
    <2>4. ThreadsStay
      BY <2>2, <2>3 DEF ThreadsStay, Moved
    <2>5. NothingNewer
      BY <2>2, <2>3 DEF NothingNewer, Inv, Types
    <2>6. /\ NumbersAreDistinct'
          /\ \A t \in Starts, r \in Roles : Holds(t, r) => Holds(t, r)'
      BY <2>1, ReportersKept
      DEF Calm, Steady
    <2>7. /\ UNCHANGED <<active, cleanupFinished, nextSession>>
          /\ cancelled \subseteq cancelled' /\ Advances
          /\ active = NoSession => UNCHANGED snapshot
          /\ NoneRuns
      BY <2>1
      DEF Calm, Steady, Advances, NoneRuns
    <2>8. \A t \in Starts : Tracked(t)' <=> Tracked(t)
      BY <2>2
      DEF Tracked, Roles
    <2>9. StaysAwaited
      BY <2>1, AwaitedByAll
      DEF Roles, Calm, Steady
    <2>10. Types'
      BY <2>2, <2>3, TypesKept DEF Kept
    <2>11. UnstartedHasNothing' /\ JobsAreOwned' /\ StopMissesNoStore' /\ WhatRunsIsHeld' /\
           CleanupIsAwaited'
      BY <2>2, <2>6, <2>7, <2>9, Undisturbed
    <2>12. ReportersAreHeld'
      <3>1. \A c \in Callers, t \in Starts : ClearsUp(c, t)' <=> ClearsUp(c, t)
        BY <2>2 DEF ClearsUp, Busy
      <3>2. \A t \in Starts : start[t] \in BeforeProcessor => processor[t] = "none"
        BY DEF Inv, ReportersAreHeld
      <3>3. \A t \in Starts : start[t] \in BeforeEvents => events[t] = "none"
        BY DEF Inv, ReportersAreHeld
      <3>4. \A t \in Starts, r \in Roles :
              \/ Holds(t, r) => Holds(t, r)'
              \/ t = s /\ r = "events" /\ events'[t] = "ended" /\ start[t] # "spawnEvents"
        BY <2>6, <2>3, <3>2, <3>3 DEF BeforeProcessor, BeforeEvents, Moved
      <3>5. \A t \in Starts : /\ processor'[t] \notin {"none", "ended"} => processor[t] \notin {"none", "ended"}
                              /\ events'[t] \notin {"none", "ended"} => events[t] \notin {"none", "ended"}
        BY <2>2, <2>3 DEF Moved
      <3> QED
        BY <2>2, <2>8, <2>4, <3>1, <3>4, <3>5 DEF Inv, ReportersAreHeld, InStartup, Roles, ThreadsStay
    <2>13. ResourcesHaveOneHolder'
      BY <2>2, <2>7, <2>4, ThreadsGoOn
    <2>14. LiveIsGivenUp'
      BY <2>2, <2>7, <2>9, <2>4, ThreadsGoOn
    <2>15. RevisionsAreOld'
      BY <2>2, <2>7, <2>4, <2>5, ThreadsGoOn
    <2>16. ClearsAreLater'
      BY <2>2, <2>7, <2>4, <2>5, ThreadsGoOn
    <2>17. ClearedStaysClear'
      BY <2>2, <2>7, <2>4, <2>5, ThreadsGoOn
    <2>18. ShowsAreAwaited'
      <3>1. \A t \in Starts : events[t] = "placed" => events'[t] = "placed"
        BY <2>1, <2>3 DEF Moved
      <3> QED
        BY <2>2, <2>7, <2>4, <3>1, ThreadsGoOn
    <2>19. VisibleIsAlive'
      BY <2>2, <2>7, <2>4, ThreadsGoOn
    <2> QED
      BY <2>1, <2>6, <2>10, <2>11, <2>12, <2>13, <2>14, <2>15, <2>16, <2>17, <2>18, <2>19
      DEF Inv
  <1>3. CASE /\ events[s] = "run" /\ events' = [events EXCEPT ![s] = "look"]
             /\ UNCHANGED <<supVars, ui>>
    <2>1. /\ Theory!Inv' /\ Calm
          /\ events[s] = "run"
          /\ events' = [events EXCEPT ![s] = "look"]
          /\ UNCHANGED <<env, slot, control, start, worker, job, capture, processor, cleanup,
                        stopResult, monitor, failureCleanup, budget, text, pass, output, shown,
                        ui, frame, stops, presents>>
      BY <1>3, StutterEffect
      DEF Inv, EventResume, supVars, overlayVars, mainVars, threadVars, cleanupVars, monitorVars
    <2>2. UNCHANGED <<env, slot, control, start, worker, job, capture, processor, cleanup,
                       stopResult, monitor, failureCleanup, budget, text, pass, output, shown, ui,
                       frame, stops, presents>>
      BY <2>1
    <2>3. /\ Moved(events', events, s, "look") /\ events[s] \notin {"none", "ended"}
          /\ events' \in [Starts -> {"none", "loop", "closed", "over", "failed", "mark", "resume",
                                  "run", "look", "show", "hide", "placed", "ended"}]
      BY <2>1 DEF Inv, Types, Moved
    <2>4. ThreadsStay
      BY <2>2, <2>3 DEF ThreadsStay, Moved
    <2>5. NothingNewer
      BY <2>2, <2>3 DEF NothingNewer, Inv, Types
    <2>6. /\ NumbersAreDistinct'
          /\ \A t \in Starts, r \in Roles : Holds(t, r) => Holds(t, r)'
      BY <2>1, ReportersKept
      DEF Calm, Steady
    <2>7. /\ UNCHANGED <<active, cleanupFinished, nextSession>>
          /\ cancelled \subseteq cancelled' /\ Advances
          /\ active = NoSession => UNCHANGED snapshot
          /\ NoneRuns
      BY <2>1
      DEF Calm, Steady, Advances, NoneRuns
    <2>8. \A t \in Starts : Tracked(t)' <=> Tracked(t)
      BY <2>2
      DEF Tracked, Roles
    <2>9. StaysAwaited
      BY <2>1, AwaitedByAll
      DEF Roles, Calm, Steady
    <2>10. Types'
      BY <2>2, <2>3, TypesKept DEF Kept
    <2>11. UnstartedHasNothing' /\ JobsAreOwned' /\ StopMissesNoStore' /\ WhatRunsIsHeld' /\
           CleanupIsAwaited'
      BY <2>2, <2>6, <2>7, <2>9, Undisturbed
    <2>12. ReportersAreHeld'
      <3>1. \A c \in Callers, t \in Starts : ClearsUp(c, t)' <=> ClearsUp(c, t)
        BY <2>2 DEF ClearsUp, Busy
      <3>2. \A t \in Starts : start[t] \in BeforeProcessor => processor[t] = "none"
        BY DEF Inv, ReportersAreHeld
      <3>3. \A t \in Starts : start[t] \in BeforeEvents => events[t] = "none"
        BY DEF Inv, ReportersAreHeld
      <3>4. \A t \in Starts, r \in Roles :
              \/ Holds(t, r) => Holds(t, r)'
              \/ t = s /\ r = "events" /\ events'[t] = "ended" /\ start[t] # "spawnEvents"
        BY <2>6, <2>3, <3>2, <3>3 DEF BeforeProcessor, BeforeEvents, Moved
      <3>5. \A t \in Starts : /\ processor'[t] \notin {"none", "ended"} => processor[t] \notin {"none", "ended"}
                              /\ events'[t] \notin {"none", "ended"} => events[t] \notin {"none", "ended"}
        BY <2>2, <2>3 DEF Moved
      <3> QED
        BY <2>2, <2>8, <2>4, <3>1, <3>4, <3>5 DEF Inv, ReportersAreHeld, InStartup, Roles, ThreadsStay
    <2>13. ResourcesHaveOneHolder'
      BY <2>2, <2>7, <2>4, ThreadsGoOn
    <2>14. LiveIsGivenUp'
      BY <2>2, <2>7, <2>9, <2>4, ThreadsGoOn
    <2>15. RevisionsAreOld'
      BY <2>2, <2>7, <2>4, <2>5, ThreadsGoOn
    <2>16. ClearsAreLater'
      BY <2>2, <2>7, <2>4, <2>5, ThreadsGoOn
    <2>17. ClearedStaysClear'
      BY <2>2, <2>7, <2>4, <2>5, ThreadsGoOn
    <2>18. ShowsAreAwaited'
      <3>1. \A t \in Starts : events[t] = "placed" => events'[t] = "placed"
        BY <2>1, <2>3 DEF Moved
      <3> QED
        BY <2>2, <2>7, <2>4, <3>1, ThreadsGoOn
    <2>19. VisibleIsAlive'
      BY <2>2, <2>7, <2>4, ThreadsGoOn
    <2> QED
      BY <2>1, <2>6, <2>10, <2>11, <2>12, <2>13, <2>14, <2>15, <2>16, <2>17, <2>18, <2>19
      DEF Inv
  <1>4. CASE /\ events[s] = "run" /\ events' = [events EXCEPT ![s] = "look"]
             /\ Sup!MarkRunning(s) /\ UNCHANGED ui
    <2>1. /\ Theory!Inv' /\ MayRun(s)
          /\ events[s] = "run"
          /\ events' = [events EXCEPT ![s] = "look"]
          /\ UNCHANGED <<env, slot, control, start, worker, job, capture, processor, cleanup,
                        stopResult, monitor, failureCleanup, budget, text, pass, output, shown,
                        ui, frame, stops, presents>>
      BY <1>4, RunningEffect
      DEF Inv, EventResume, supVars, overlayVars, mainVars, threadVars, cleanupVars, monitorVars
    <2>2. UNCHANGED <<env, slot, control, start, worker, job, capture, processor, cleanup,
                       stopResult, monitor, failureCleanup, budget, text, pass, output, shown, ui,
                       frame, stops, presents>>
      BY <2>1
    <2>3. /\ Moved(events', events, s, "look") /\ events[s] \notin {"none", "ended"}
          /\ events' \in [Starts -> {"none", "loop", "closed", "over", "failed", "mark", "resume",
                                  "run", "look", "show", "hide", "placed", "ended"}]
      BY <2>1 DEF Inv, Types, Moved
    <2>4. ThreadsStay
      BY <2>2, <2>3 DEF ThreadsStay, Moved
    <2>5. NothingNewer
      BY <2>2, <2>3 DEF NothingNewer, Inv, Types
    <2>6. NoneRuns \/ \A t \in Starts : snapshot'.session = t => events[t] # "none"
      BY <2>1 DEF MayRun
    <2>7. /\ NumbersAreDistinct'
          /\ \A t \in Starts, r \in Roles : Holds(t, r) => Holds(t, r)'
      BY <2>1, ReportersKept
      DEF MayRun, Steady
    <2>8. /\ UNCHANGED <<active, cleanupFinished, nextSession>>
          /\ cancelled \subseteq cancelled' /\ Advances
          /\ active = NoSession => UNCHANGED snapshot
      BY <2>1
      DEF MayRun, Steady, Advances
    <2>9. \A t \in Starts : Tracked(t)' <=> Tracked(t)
      BY <2>2
      DEF Tracked, Roles
    <2>10. StaysAwaited
      BY <2>1, AwaitedByAll
      DEF Roles, MayRun, Steady
    <2>11. Types'
      BY <2>2, <2>3, TypesKept DEF Kept
    <2>12. UnstartedHasNothing' /\ JobsAreOwned' /\ StopMissesNoStore' /\ WhatRunsIsHeld' /\
           CleanupIsAwaited'
      BY <2>2, <2>7, <2>8, <2>10, Undisturbed
    <2>13. ReportersAreHeld'
      <3>1. \A c \in Callers, t \in Starts : ClearsUp(c, t)' <=> ClearsUp(c, t)
        BY <2>2 DEF ClearsUp, Busy
      <3>2. \A t \in Starts : start[t] \in BeforeProcessor => processor[t] = "none"
        BY DEF Inv, ReportersAreHeld
      <3>3. \A t \in Starts : start[t] \in BeforeEvents => events[t] = "none"
        BY DEF Inv, ReportersAreHeld
      <3>4. \A t \in Starts, r \in Roles :
              \/ Holds(t, r) => Holds(t, r)'
              \/ t = s /\ r = "events" /\ events'[t] = "ended" /\ start[t] # "spawnEvents"
        BY <2>7, <2>3, <3>2, <3>3 DEF BeforeProcessor, BeforeEvents, Moved
      <3>5. \A t \in Starts : /\ processor'[t] \notin {"none", "ended"} => processor[t] \notin {"none", "ended"}
                              /\ events'[t] \notin {"none", "ended"} => events[t] \notin {"none", "ended"}
        BY <2>2, <2>3 DEF Moved
      <3> QED
        BY <2>2, <2>9, <2>4, <3>1, <3>4, <3>5 DEF Inv, ReportersAreHeld, InStartup, Roles, ThreadsStay
    <2>14. ResourcesHaveOneHolder'
      BY <2>2, <2>8, <2>4, ThreadsGoOn
    <2>15. LiveIsGivenUp'
      BY <2>2, <2>8, <2>10, <2>4, ThreadsGoOn
    <2>16. RevisionsAreOld'
      BY <2>2, <2>8, <2>4, <2>5, <2>6, ThreadsGoOn
    <2>17. ClearsAreLater'
      BY <2>2, <2>8, <2>4, <2>5, ThreadsGoOn
    <2>18. ClearedStaysClear'
      BY <2>2, <2>8, <2>4, <2>5, ThreadsGoOn
    <2>19. ShowsAreAwaited'
      <3>1. \A t \in Starts : events[t] = "placed" => events'[t] = "placed"
        BY <2>1, <2>3 DEF Moved
      <3> QED
        BY <2>2, <2>8, <2>4, <3>1, ThreadsGoOn
    <2>20. VisibleIsAlive'
      BY <2>2, <2>8, <2>4, ThreadsGoOn
    <2> QED
      BY <2>1, <2>7, <2>11, <2>12, <2>13, <2>14, <2>15, <2>16, <2>17, <2>18, <2>19, <2>20
      DEF Inv
  <1>5. CASE /\ events[s] = "look" /\ events' = [events EXCEPT ![s] = "show"]
             /\ UNCHANGED <<supVars, ui>>
    <2>1. /\ Theory!Inv' /\ Calm
          /\ events[s] = "look"
          /\ events' = [events EXCEPT ![s] = "show"]
          /\ UNCHANGED <<env, slot, control, start, worker, job, capture, processor, cleanup,
                        stopResult, monitor, failureCleanup, budget, text, pass, output, shown,
                        ui, frame, stops, presents>>
      BY <1>5, StutterEffect
      DEF Inv, EventResume, supVars, overlayVars, mainVars, threadVars, cleanupVars, monitorVars
    <2>2. UNCHANGED <<env, slot, control, start, worker, job, capture, processor, cleanup,
                       stopResult, monitor, failureCleanup, budget, text, pass, output, shown, ui,
                       frame, stops, presents>>
      BY <2>1
    <2>3. /\ Moved(events', events, s, "show") /\ events[s] \notin {"none", "ended"}
          /\ events' \in [Starts -> {"none", "loop", "closed", "over", "failed", "mark", "resume",
                                  "run", "look", "show", "hide", "placed", "ended"}]
      BY <2>1 DEF Inv, Types, Moved
    <2>4. ThreadsStay
      BY <2>2, <2>3 DEF ThreadsStay, Moved
    <2>5. NothingNewer
      BY <2>2, <2>3 DEF NothingNewer, Inv, Types
    <2>6. /\ NumbersAreDistinct'
          /\ \A t \in Starts, r \in Roles : Holds(t, r) => Holds(t, r)'
      BY <2>1, ReportersKept
      DEF Calm, Steady
    <2>7. /\ UNCHANGED <<active, cleanupFinished, nextSession>>
          /\ cancelled \subseteq cancelled' /\ Advances
          /\ active = NoSession => UNCHANGED snapshot
          /\ NoneRuns
      BY <2>1
      DEF Calm, Steady, Advances, NoneRuns
    <2>8. \A t \in Starts : Tracked(t)' <=> Tracked(t)
      BY <2>2
      DEF Tracked, Roles
    <2>9. StaysAwaited
      BY <2>1, AwaitedByAll
      DEF Roles, Calm, Steady
    <2>10. Types'
      BY <2>2, <2>3, TypesKept DEF Kept
    <2>11. UnstartedHasNothing' /\ JobsAreOwned' /\ StopMissesNoStore' /\ WhatRunsIsHeld' /\
           CleanupIsAwaited'
      BY <2>2, <2>6, <2>7, <2>9, Undisturbed
    <2>12. ReportersAreHeld'
      <3>1. \A c \in Callers, t \in Starts : ClearsUp(c, t)' <=> ClearsUp(c, t)
        BY <2>2 DEF ClearsUp, Busy
      <3>2. \A t \in Starts : start[t] \in BeforeProcessor => processor[t] = "none"
        BY DEF Inv, ReportersAreHeld
      <3>3. \A t \in Starts : start[t] \in BeforeEvents => events[t] = "none"
        BY DEF Inv, ReportersAreHeld
      <3>4. \A t \in Starts, r \in Roles :
              \/ Holds(t, r) => Holds(t, r)'
              \/ t = s /\ r = "events" /\ events'[t] = "ended" /\ start[t] # "spawnEvents"
        BY <2>6, <2>3, <3>2, <3>3 DEF BeforeProcessor, BeforeEvents, Moved
      <3>5. \A t \in Starts : /\ processor'[t] \notin {"none", "ended"} => processor[t] \notin {"none", "ended"}
                              /\ events'[t] \notin {"none", "ended"} => events[t] \notin {"none", "ended"}
        BY <2>2, <2>3 DEF Moved
      <3> QED
        BY <2>2, <2>8, <2>4, <3>1, <3>4, <3>5 DEF Inv, ReportersAreHeld, InStartup, Roles, ThreadsStay
    <2>13. ResourcesHaveOneHolder'
      BY <2>2, <2>7, <2>4, ThreadsGoOn
    <2>14. LiveIsGivenUp'
      BY <2>2, <2>7, <2>9, <2>4, ThreadsGoOn
    <2>15. RevisionsAreOld'
      BY <2>2, <2>7, <2>4, <2>5, ThreadsGoOn
    <2>16. ClearsAreLater'
      BY <2>2, <2>7, <2>4, <2>5, ThreadsGoOn
    <2>17. ClearedStaysClear'
      BY <2>2, <2>7, <2>4, <2>5, ThreadsGoOn
    <2>18. ShowsAreAwaited'
      <3>1. \A t \in Starts : events[t] = "placed" => events'[t] = "placed"
        BY <2>1, <2>3 DEF Moved
      <3> QED
        BY <2>2, <2>7, <2>4, <3>1, ThreadsGoOn
    <2>19. VisibleIsAlive'
      BY <2>2, <2>7, <2>4, ThreadsGoOn
    <2> QED
      BY <2>1, <2>6, <2>10, <2>11, <2>12, <2>13, <2>14, <2>15, <2>16, <2>17, <2>18, <2>19
      DEF Inv
  <1>6. CASE /\ events[s] = "look" /\ events' = [events EXCEPT ![s] = "hide"]
             /\ UNCHANGED <<supVars, ui>>
    <2>1. /\ Theory!Inv' /\ Calm
          /\ events[s] = "look"
          /\ events' = [events EXCEPT ![s] = "hide"]
          /\ UNCHANGED <<env, slot, control, start, worker, job, capture, processor, cleanup,
                        stopResult, monitor, failureCleanup, budget, text, pass, output, shown,
                        ui, frame, stops, presents>>
      BY <1>6, StutterEffect
      DEF Inv, EventResume, supVars, overlayVars, mainVars, threadVars, cleanupVars, monitorVars
    <2>2. UNCHANGED <<env, slot, control, start, worker, job, capture, processor, cleanup,
                       stopResult, monitor, failureCleanup, budget, text, pass, output, shown, ui,
                       frame, stops, presents>>
      BY <2>1
    <2>3. /\ Moved(events', events, s, "hide") /\ events[s] \notin {"none", "ended"}
          /\ events' \in [Starts -> {"none", "loop", "closed", "over", "failed", "mark", "resume",
                                  "run", "look", "show", "hide", "placed", "ended"}]
      BY <2>1 DEF Inv, Types, Moved
    <2>4. ThreadsStay
      BY <2>2, <2>3 DEF ThreadsStay, Moved
    <2>5. NothingNewer
      BY <2>2, <2>3 DEF NothingNewer, Inv, Types
    <2>6. /\ NumbersAreDistinct'
          /\ \A t \in Starts, r \in Roles : Holds(t, r) => Holds(t, r)'
      BY <2>1, ReportersKept
      DEF Calm, Steady
    <2>7. /\ UNCHANGED <<active, cleanupFinished, nextSession>>
          /\ cancelled \subseteq cancelled' /\ Advances
          /\ active = NoSession => UNCHANGED snapshot
          /\ NoneRuns
      BY <2>1
      DEF Calm, Steady, Advances, NoneRuns
    <2>8. \A t \in Starts : Tracked(t)' <=> Tracked(t)
      BY <2>2
      DEF Tracked, Roles
    <2>9. StaysAwaited
      BY <2>1, AwaitedByAll
      DEF Roles, Calm, Steady
    <2>10. Types'
      BY <2>2, <2>3, TypesKept DEF Kept
    <2>11. UnstartedHasNothing' /\ JobsAreOwned' /\ StopMissesNoStore' /\ WhatRunsIsHeld' /\
           CleanupIsAwaited'
      BY <2>2, <2>6, <2>7, <2>9, Undisturbed
    <2>12. ReportersAreHeld'
      <3>1. \A c \in Callers, t \in Starts : ClearsUp(c, t)' <=> ClearsUp(c, t)
        BY <2>2 DEF ClearsUp, Busy
      <3>2. \A t \in Starts : start[t] \in BeforeProcessor => processor[t] = "none"
        BY DEF Inv, ReportersAreHeld
      <3>3. \A t \in Starts : start[t] \in BeforeEvents => events[t] = "none"
        BY DEF Inv, ReportersAreHeld
      <3>4. \A t \in Starts, r \in Roles :
              \/ Holds(t, r) => Holds(t, r)'
              \/ t = s /\ r = "events" /\ events'[t] = "ended" /\ start[t] # "spawnEvents"
        BY <2>6, <2>3, <3>2, <3>3 DEF BeforeProcessor, BeforeEvents, Moved
      <3>5. \A t \in Starts : /\ processor'[t] \notin {"none", "ended"} => processor[t] \notin {"none", "ended"}
                              /\ events'[t] \notin {"none", "ended"} => events[t] \notin {"none", "ended"}
        BY <2>2, <2>3 DEF Moved
      <3> QED
        BY <2>2, <2>8, <2>4, <3>1, <3>4, <3>5 DEF Inv, ReportersAreHeld, InStartup, Roles, ThreadsStay
    <2>13. ResourcesHaveOneHolder'
      BY <2>2, <2>7, <2>4, ThreadsGoOn
    <2>14. LiveIsGivenUp'
      BY <2>2, <2>7, <2>9, <2>4, ThreadsGoOn
    <2>15. RevisionsAreOld'
      BY <2>2, <2>7, <2>4, <2>5, ThreadsGoOn
    <2>16. ClearsAreLater'
      BY <2>2, <2>7, <2>4, <2>5, ThreadsGoOn
    <2>17. ClearedStaysClear'
      BY <2>2, <2>7, <2>4, <2>5, ThreadsGoOn
    <2>18. ShowsAreAwaited'
      <3>1. \A t \in Starts : events[t] = "placed" => events'[t] = "placed"
        BY <2>1, <2>3 DEF Moved
      <3> QED
        BY <2>2, <2>7, <2>4, <3>1, ThreadsGoOn
    <2>19. VisibleIsAlive'
      BY <2>2, <2>7, <2>4, ThreadsGoOn
    <2> QED
      BY <2>1, <2>6, <2>10, <2>11, <2>12, <2>13, <2>14, <2>15, <2>16, <2>17, <2>18, <2>19
      DEF Inv
  <1>7. CASE /\ events[s] = "look" /\ events' = [events EXCEPT ![s] = "loop"]
             /\ UNCHANGED <<supVars, ui>>
    <2>1. /\ Theory!Inv' /\ Calm
          /\ events[s] = "look"
          /\ events' = [events EXCEPT ![s] = "loop"]
          /\ UNCHANGED <<env, slot, control, start, worker, job, capture, processor, cleanup,
                        stopResult, monitor, failureCleanup, budget, text, pass, output, shown,
                        ui, frame, stops, presents>>
      BY <1>7, StutterEffect
      DEF Inv, EventResume, supVars, overlayVars, mainVars, threadVars, cleanupVars, monitorVars
    <2>2. UNCHANGED <<env, slot, control, start, worker, job, capture, processor, cleanup,
                       stopResult, monitor, failureCleanup, budget, text, pass, output, shown, ui,
                       frame, stops, presents>>
      BY <2>1
    <2>3. /\ Moved(events', events, s, "loop") /\ events[s] \notin {"none", "ended"}
          /\ events' \in [Starts -> {"none", "loop", "closed", "over", "failed", "mark", "resume",
                                  "run", "look", "show", "hide", "placed", "ended"}]
      BY <2>1 DEF Inv, Types, Moved
    <2>4. ThreadsStay
      BY <2>2, <2>3 DEF ThreadsStay, Moved
    <2>5. NothingNewer
      BY <2>2, <2>3 DEF NothingNewer, Inv, Types
    <2>6. /\ NumbersAreDistinct'
          /\ \A t \in Starts, r \in Roles : Holds(t, r) => Holds(t, r)'
      BY <2>1, ReportersKept
      DEF Calm, Steady
    <2>7. /\ UNCHANGED <<active, cleanupFinished, nextSession>>
          /\ cancelled \subseteq cancelled' /\ Advances
          /\ active = NoSession => UNCHANGED snapshot
          /\ NoneRuns
      BY <2>1
      DEF Calm, Steady, Advances, NoneRuns
    <2>8. \A t \in Starts : Tracked(t)' <=> Tracked(t)
      BY <2>2
      DEF Tracked, Roles
    <2>9. StaysAwaited
      BY <2>1, AwaitedByAll
      DEF Roles, Calm, Steady
    <2>10. Types'
      BY <2>2, <2>3, TypesKept DEF Kept
    <2>11. UnstartedHasNothing' /\ JobsAreOwned' /\ StopMissesNoStore' /\ WhatRunsIsHeld' /\
           CleanupIsAwaited'
      BY <2>2, <2>6, <2>7, <2>9, Undisturbed
    <2>12. ReportersAreHeld'
      <3>1. \A c \in Callers, t \in Starts : ClearsUp(c, t)' <=> ClearsUp(c, t)
        BY <2>2 DEF ClearsUp, Busy
      <3>2. \A t \in Starts : start[t] \in BeforeProcessor => processor[t] = "none"
        BY DEF Inv, ReportersAreHeld
      <3>3. \A t \in Starts : start[t] \in BeforeEvents => events[t] = "none"
        BY DEF Inv, ReportersAreHeld
      <3>4. \A t \in Starts, r \in Roles :
              \/ Holds(t, r) => Holds(t, r)'
              \/ t = s /\ r = "events" /\ events'[t] = "ended" /\ start[t] # "spawnEvents"
        BY <2>6, <2>3, <3>2, <3>3 DEF BeforeProcessor, BeforeEvents, Moved
      <3>5. \A t \in Starts : /\ processor'[t] \notin {"none", "ended"} => processor[t] \notin {"none", "ended"}
                              /\ events'[t] \notin {"none", "ended"} => events[t] \notin {"none", "ended"}
        BY <2>2, <2>3 DEF Moved
      <3> QED
        BY <2>2, <2>8, <2>4, <3>1, <3>4, <3>5 DEF Inv, ReportersAreHeld, InStartup, Roles, ThreadsStay
    <2>13. ResourcesHaveOneHolder'
      BY <2>2, <2>7, <2>4, ThreadsGoOn
    <2>14. LiveIsGivenUp'
      BY <2>2, <2>7, <2>9, <2>4, ThreadsGoOn
    <2>15. RevisionsAreOld'
      BY <2>2, <2>7, <2>4, <2>5, ThreadsGoOn
    <2>16. ClearsAreLater'
      BY <2>2, <2>7, <2>4, <2>5, ThreadsGoOn
    <2>17. ClearedStaysClear'
      BY <2>2, <2>7, <2>4, <2>5, ThreadsGoOn
    <2>18. ShowsAreAwaited'
      <3>1. \A t \in Starts : events[t] = "placed" => events'[t] = "placed"
        BY <2>1, <2>3 DEF Moved
      <3> QED
        BY <2>2, <2>7, <2>4, <3>1, ThreadsGoOn
    <2>19. VisibleIsAlive'
      BY <2>2, <2>7, <2>4, ThreadsGoOn
    <2> QED
      BY <2>1, <2>6, <2>10, <2>11, <2>12, <2>13, <2>14, <2>15, <2>16, <2>17, <2>18, <2>19
      DEF Inv
  <1>8. CASE /\ events[s] = "show" /\ events' = [events EXCEPT ![s] = "placed"]
             /\ Configure(<<"events", s>>, events[s] = "show") /\ UNCHANGED supVars
    <2>1. /\ Theory!Inv' /\ Calm
          /\ events[s] = "show"
          /\ Post([kind |-> "show",
                   by |-> IF env.platform = "linux" THEN <<"events", s>> ELSE NoCaller, session |-> output.session])
          /\ events' = [events EXCEPT ![s] = "placed"]
          /\ UNCHANGED <<env, slot, control, start, worker, job, capture, processor, cleanup,
                        stopResult, monitor, failureCleanup, budget, text, pass, output, shown,
                        frame, stops, presents>>
      BY <1>8, StutterEffect
      DEF Inv, EventResume, Configure, supVars, overlayVars, mainVars, threadVars, cleanupVars,
          monitorVars
    <2>2. UNCHANGED <<env, slot, control, start, worker, job, capture, processor, cleanup,
                       stopResult, monitor, failureCleanup, budget, text, pass, output, shown,
                       frame, stops, presents>>
      BY <2>1
    <2>3. /\ Moved(events', events, s, "placed") /\ events[s] \notin {"none", "ended"}
          /\ events' \in [Starts -> {"none", "loop", "closed", "over", "failed", "mark", "resume",
                                  "run", "look", "show", "hide", "placed", "ended"}]
      BY <2>1 DEF Inv, Types, Moved
    <2>4. ThreadsStay
      BY <2>2, <2>3 DEF ThreadsStay, Moved
    <2>5. NothingNewer
      BY <2>2, <2>3 DEF NothingNewer, Inv, Types
    <2>6. /\ ui' \in Seq(Requests) /\ (HideIsPosted => HideIsPosted')
          /\ \A i \in 1..Len(ui') :
               \/ ui'[i].kind = "show" /\ (env.platform = "linux" => ui'[i].by = <<"events", s>>)
               \/ i \in 1..Len(ui) /\ ui'[i] = ui[i]
      <3> DEFINE r == [kind |-> "show",
                       by |-> IF env.platform = "linux" THEN <<"events", s>> ELSE NoCaller,
                       session |-> output.session]
      <3>1. r \in Requests
        <4>1. output.session \in Starts \cup {NoSession}
          BY DEF Inv, Types, Outputs
        <4> QED
          BY <4>1 DEF Requests
      <3>2. Post(r)
        BY <2>1
      <3>3. /\ ui' \in Seq(Requests) /\ (HideIsPosted => HideIsPosted')
            /\ \A i \in 1..Len(ui') : ui'[i] = r \/ (i \in 1..Len(ui) /\ ui'[i] = ui[i])
        BY <3>1, <3>2, RequestPosted
      <3> QED
        BY <3>3
    <2>7. /\ NumbersAreDistinct'
          /\ \A t \in Starts, r \in Roles : Holds(t, r) => Holds(t, r)'
      BY <2>1, ReportersKept
      DEF Calm, Steady
    <2>8. /\ UNCHANGED <<active, cleanupFinished, nextSession>>
          /\ cancelled \subseteq cancelled' /\ Advances
          /\ active = NoSession => UNCHANGED snapshot
          /\ NoneRuns
      BY <2>1
      DEF Calm, Steady, Advances, NoneRuns
    <2>9. \A t \in Starts : Tracked(t)' <=> Tracked(t)
      BY <2>2
      DEF Tracked, Roles
    <2>10. StaysAwaited
      BY <2>1, AwaitedByAll
      DEF Roles, Calm, Steady
    <2>11. Types'
      BY <2>2, <2>3, <2>6, TypesKept DEF Kept
    <2>12. UnstartedHasNothing' /\ JobsAreOwned' /\ StopMissesNoStore' /\ WhatRunsIsHeld' /\
           CleanupIsAwaited'
      BY <2>2, <2>7, <2>8, <2>10, Undisturbed
    <2>13. ReportersAreHeld'
      <3>1. \A c \in Callers, t \in Starts : ClearsUp(c, t)' <=> ClearsUp(c, t)
        BY <2>2 DEF ClearsUp, Busy
      <3>2. \A t \in Starts : start[t] \in BeforeProcessor => processor[t] = "none"
        BY DEF Inv, ReportersAreHeld
      <3>3. \A t \in Starts : start[t] \in BeforeEvents => events[t] = "none"
        BY DEF Inv, ReportersAreHeld
      <3>4. \A t \in Starts, r \in Roles :
              \/ Holds(t, r) => Holds(t, r)'
              \/ t = s /\ r = "events" /\ events'[t] = "ended" /\ start[t] # "spawnEvents"
        BY <2>7, <2>3, <3>2, <3>3 DEF BeforeProcessor, BeforeEvents, Moved
      <3>5. \A t \in Starts : /\ processor'[t] \notin {"none", "ended"} => processor[t] \notin {"none", "ended"}
                              /\ events'[t] \notin {"none", "ended"} => events[t] \notin {"none", "ended"}
        BY <2>2, <2>3 DEF Moved
      <3> QED
        BY <2>2, <2>9, <2>4, <3>1, <3>4, <3>5 DEF Inv, ReportersAreHeld, InStartup, Roles, ThreadsStay
    <2>14. ResourcesHaveOneHolder'
      BY <2>2, <2>8, <2>4, ThreadsGoOn
    <2>15. LiveIsGivenUp'
      BY <2>2, <2>8, <2>10, <2>4, ThreadsGoOn
    <2>16. RevisionsAreOld'
      BY <2>2, <2>8, <2>4, <2>5, ThreadsGoOn
    <2>17. ClearsAreLater'
      BY <2>2, <2>8, <2>4, <2>5, ThreadsGoOn
    <2>18. ClearedStaysClear'
      BY <2>2, <2>8, <2>4, <2>5, ThreadsGoOn
    <2>19. ShowsAreAwaited'
      <3>1. \A t \in Starts : events[t] = "placed" => events'[t] = "placed"
        BY <2>2, <2>1, <2>3 DEF Moved
      <3>2. events'[s] = "placed"
        BY <2>3 DEF Moved
      <3>3. \A t \in Starts : events'[t] = "none" <=> events[t] = "none"
        BY <2>4 DEF ThreadsStay
      <3>4. nextSession > 1 => nextSession - 1 \in Starts
        BY Numbers DEF Inv, UnstartedHasNothing, Guarantees, Starts
      <3>5. env.platform = "linux" =>
              \A i \in 1..Len(ui') : ui'[i].kind = "show" =>
                \/ \E t \in Starts : ui'[i].by = Starter(t) /\ start[t] = "shown"
                \/ \E t \in Starts : ui'[i].by = <<"events", t>> /\ events'[t] = "placed"
        BY <2>6, <3>1, <3>2 DEF Inv, ShowsAreAwaited
      <3> QED
        BY <2>2, <2>8, <3>3, <3>4, <3>5 DEF Inv, ShowsAreAwaited
    <2>20. VisibleIsAlive'
      <3>1. \A t \in Starts : Cleared(t)' <=> Cleared(t)
        BY <2>2, <2>8 DEF Cleared, InCleanup, ClearsUp, Busy
      <3>2. active # NoSession => (events'[active] = "none" <=> events[active] = "none")
        BY <2>4, Numbers DEF ThreadsStay
      <3>3. HideIsPosted => HideIsPosted'
        BY <2>6
      <3>4. active # NoSession => (Cleared(active)' <=> Cleared(active))
        BY <2>2, <2>8 DEF Cleared, InCleanup, ClearsUp, Busy
      <3>5. FindsOthersStored(nextSession - 1)' <=> FindsOthersStored(nextSession - 1)
        BY <2>2, <2>8 DEF FindsOthersStored
      <3> QED
        BY <2>2, <2>8, <3>2, <3>3, <3>4, <3>5 DEF Inv, VisibleIsAlive, Cleared, InCleanup, ClearsUp, Busy
    <2> QED
      BY <2>1, <2>7, <2>11, <2>12, <2>13, <2>14, <2>15, <2>16, <2>17, <2>18, <2>19, <2>20
      DEF Inv
  <1>9. CASE /\ events[s] = "hide" /\ events' = [events EXCEPT ![s] = "placed"]
             /\ Configure(<<"events", s>>, events[s] = "show") /\ UNCHANGED supVars
    <2>1. /\ Theory!Inv' /\ Calm
          /\ events[s] = "hide"
          /\ Post([kind |-> "hide",
                   by |-> IF env.platform = "linux" THEN <<"events", s>> ELSE NoCaller, session |-> output.session])
          /\ events' = [events EXCEPT ![s] = "placed"]
          /\ UNCHANGED <<env, slot, control, start, worker, job, capture, processor, cleanup,
                        stopResult, monitor, failureCleanup, budget, text, pass, output, shown,
                        frame, stops, presents>>
      BY <1>9, StutterEffect
      DEF Inv, EventResume, Configure, supVars, overlayVars, mainVars, threadVars, cleanupVars,
          monitorVars
    <2>2. UNCHANGED <<env, slot, control, start, worker, job, capture, processor, cleanup,
                       stopResult, monitor, failureCleanup, budget, text, pass, output, shown,
                       frame, stops, presents>>
      BY <2>1
    <2>3. /\ Moved(events', events, s, "placed") /\ events[s] \notin {"none", "ended"}
          /\ events' \in [Starts -> {"none", "loop", "closed", "over", "failed", "mark", "resume",
                                  "run", "look", "show", "hide", "placed", "ended"}]
      BY <2>1 DEF Inv, Types, Moved
    <2>4. ThreadsStay
      BY <2>2, <2>3 DEF ThreadsStay, Moved
    <2>5. NothingNewer
      BY <2>2, <2>3 DEF NothingNewer, Inv, Types
    <2>6. /\ ui' \in Seq(Requests) /\ (HideIsPosted => HideIsPosted')
          /\ \A i \in 1..Len(ui') :
               \/ ui'[i].kind = "hide" /\ (env.platform = "linux" => ui'[i].by = <<"events", s>>)
               \/ i \in 1..Len(ui) /\ ui'[i] = ui[i]
      <3> DEFINE r == [kind |-> "hide",
                       by |-> IF env.platform = "linux" THEN <<"events", s>> ELSE NoCaller,
                       session |-> output.session]
      <3>1. r \in Requests
        <4>1. output.session \in Starts \cup {NoSession}
          BY DEF Inv, Types, Outputs
        <4> QED
          BY <4>1 DEF Requests
      <3>2. Post(r)
        BY <2>1
      <3>3. /\ ui' \in Seq(Requests) /\ (HideIsPosted => HideIsPosted')
            /\ \A i \in 1..Len(ui') : ui'[i] = r \/ (i \in 1..Len(ui) /\ ui'[i] = ui[i])
        BY <3>1, <3>2, RequestPosted
      <3> QED
        BY <3>3
    <2>7. /\ NumbersAreDistinct'
          /\ \A t \in Starts, r \in Roles : Holds(t, r) => Holds(t, r)'
      BY <2>1, ReportersKept
      DEF Calm, Steady
    <2>8. /\ UNCHANGED <<active, cleanupFinished, nextSession>>
          /\ cancelled \subseteq cancelled' /\ Advances
          /\ active = NoSession => UNCHANGED snapshot
          /\ NoneRuns
      BY <2>1
      DEF Calm, Steady, Advances, NoneRuns
    <2>9. \A t \in Starts : Tracked(t)' <=> Tracked(t)
      BY <2>2
      DEF Tracked, Roles
    <2>10. StaysAwaited
      BY <2>1, AwaitedByAll
      DEF Roles, Calm, Steady
    <2>11. Types'
      BY <2>2, <2>3, <2>6, TypesKept DEF Kept
    <2>12. UnstartedHasNothing' /\ JobsAreOwned' /\ StopMissesNoStore' /\ WhatRunsIsHeld' /\
           CleanupIsAwaited'
      BY <2>2, <2>7, <2>8, <2>10, Undisturbed
    <2>13. ReportersAreHeld'
      <3>1. \A c \in Callers, t \in Starts : ClearsUp(c, t)' <=> ClearsUp(c, t)
        BY <2>2 DEF ClearsUp, Busy
      <3>2. \A t \in Starts : start[t] \in BeforeProcessor => processor[t] = "none"
        BY DEF Inv, ReportersAreHeld
      <3>3. \A t \in Starts : start[t] \in BeforeEvents => events[t] = "none"
        BY DEF Inv, ReportersAreHeld
      <3>4. \A t \in Starts, r \in Roles :
              \/ Holds(t, r) => Holds(t, r)'
              \/ t = s /\ r = "events" /\ events'[t] = "ended" /\ start[t] # "spawnEvents"
        BY <2>7, <2>3, <3>2, <3>3 DEF BeforeProcessor, BeforeEvents, Moved
      <3>5. \A t \in Starts : /\ processor'[t] \notin {"none", "ended"} => processor[t] \notin {"none", "ended"}
                              /\ events'[t] \notin {"none", "ended"} => events[t] \notin {"none", "ended"}
        BY <2>2, <2>3 DEF Moved
      <3> QED
        BY <2>2, <2>9, <2>4, <3>1, <3>4, <3>5 DEF Inv, ReportersAreHeld, InStartup, Roles, ThreadsStay
    <2>14. ResourcesHaveOneHolder'
      BY <2>2, <2>8, <2>4, ThreadsGoOn
    <2>15. LiveIsGivenUp'
      BY <2>2, <2>8, <2>10, <2>4, ThreadsGoOn
    <2>16. RevisionsAreOld'
      BY <2>2, <2>8, <2>4, <2>5, ThreadsGoOn
    <2>17. ClearsAreLater'
      BY <2>2, <2>8, <2>4, <2>5, ThreadsGoOn
    <2>18. ClearedStaysClear'
      BY <2>2, <2>8, <2>4, <2>5, ThreadsGoOn
    <2>19. ShowsAreAwaited'
      <3>1. \A t \in Starts : events[t] = "placed" => events'[t] = "placed"
        BY <2>2, <2>1, <2>3 DEF Moved
      <3>2. events'[s] = "placed"
        BY <2>3 DEF Moved
      <3>3. \A t \in Starts : events'[t] = "none" <=> events[t] = "none"
        BY <2>4 DEF ThreadsStay
      <3>4. nextSession > 1 => nextSession - 1 \in Starts
        BY Numbers DEF Inv, UnstartedHasNothing, Guarantees, Starts
      <3>5. env.platform = "linux" =>
              \A i \in 1..Len(ui') : ui'[i].kind = "show" =>
                \/ \E t \in Starts : ui'[i].by = Starter(t) /\ start[t] = "shown"
                \/ \E t \in Starts : ui'[i].by = <<"events", t>> /\ events'[t] = "placed"
        BY <2>6, <3>1, <3>2 DEF Inv, ShowsAreAwaited
      <3> QED
        BY <2>2, <2>8, <3>3, <3>4, <3>5 DEF Inv, ShowsAreAwaited
    <2>20. VisibleIsAlive'
      <3>1. \A t \in Starts : Cleared(t)' <=> Cleared(t)
        BY <2>2, <2>8 DEF Cleared, InCleanup, ClearsUp, Busy
      <3>2. active # NoSession => (events'[active] = "none" <=> events[active] = "none")
        BY <2>4, Numbers DEF ThreadsStay
      <3>3. HideIsPosted => HideIsPosted'
        BY <2>6
      <3>4. active # NoSession => (Cleared(active)' <=> Cleared(active))
        BY <2>2, <2>8 DEF Cleared, InCleanup, ClearsUp, Busy
      <3>5. FindsOthersStored(nextSession - 1)' <=> FindsOthersStored(nextSession - 1)
        BY <2>2, <2>8 DEF FindsOthersStored
      <3> QED
        BY <2>2, <2>8, <3>2, <3>3, <3>4, <3>5 DEF Inv, VisibleIsAlive, Cleared, InCleanup, ClearsUp, Busy
    <2> QED
      BY <2>1, <2>7, <2>11, <2>12, <2>13, <2>14, <2>15, <2>16, <2>17, <2>18, <2>19, <2>20
      DEF Inv
  <1>10. CASE /\ events[s] = "placed" /\ events' = [events EXCEPT ![s] = "loop"]
             /\ Served(<<"events", s>>) /\ UNCHANGED <<supVars, ui>>
    <2>1. /\ Theory!Inv' /\ Calm
          /\ events[s] = "placed"
          /\ Served(<<"events", s>>)
          /\ events' = [events EXCEPT ![s] = "loop"]
          /\ UNCHANGED <<env, slot, control, start, worker, job, capture, processor, cleanup,
                        stopResult, monitor, failureCleanup, budget, text, pass, output, shown,
                        ui, frame, stops, presents>>
      BY <1>10, StutterEffect
      DEF Inv, EventResume, supVars, overlayVars, mainVars, threadVars, cleanupVars, monitorVars
    <2>2. UNCHANGED <<env, slot, control, start, worker, job, capture, processor, cleanup,
                       stopResult, monitor, failureCleanup, budget, text, pass, output, shown, ui,
                       frame, stops, presents>>
      BY <2>1
    <2>3. /\ Moved(events', events, s, "loop") /\ events[s] \notin {"none", "ended"}
          /\ events' \in [Starts -> {"none", "loop", "closed", "over", "failed", "mark", "resume",
                                  "run", "look", "show", "hide", "placed", "ended"}]
      BY <2>1 DEF Inv, Types, Moved
    <2>4. ThreadsStay
      BY <2>2, <2>3 DEF ThreadsStay, Moved
    <2>5. NothingNewer
      BY <2>2, <2>3 DEF NothingNewer, Inv, Types
    <2>6. /\ NumbersAreDistinct'
          /\ \A t \in Starts, r \in Roles : Holds(t, r) => Holds(t, r)'
      BY <2>1, ReportersKept
      DEF Calm, Steady
    <2>7. /\ UNCHANGED <<active, cleanupFinished, nextSession>>
          /\ cancelled \subseteq cancelled' /\ Advances
          /\ active = NoSession => UNCHANGED snapshot
          /\ NoneRuns
      BY <2>1
      DEF Calm, Steady, Advances, NoneRuns
    <2>8. \A t \in Starts : Tracked(t)' <=> Tracked(t)
      BY <2>2
      DEF Tracked, Roles
    <2>9. StaysAwaited
      BY <2>1, AwaitedByAll
      DEF Roles, Calm, Steady
    <2>10. Types'
      BY <2>2, <2>3, TypesKept DEF Kept
    <2>11. UnstartedHasNothing' /\ JobsAreOwned' /\ StopMissesNoStore' /\ WhatRunsIsHeld' /\
           CleanupIsAwaited'
      BY <2>2, <2>6, <2>7, <2>9, Undisturbed
    <2>12. ReportersAreHeld'
      <3>1. \A c \in Callers, t \in Starts : ClearsUp(c, t)' <=> ClearsUp(c, t)
        BY <2>2 DEF ClearsUp, Busy
      <3>2. \A t \in Starts : start[t] \in BeforeProcessor => processor[t] = "none"
        BY DEF Inv, ReportersAreHeld
      <3>3. \A t \in Starts : start[t] \in BeforeEvents => events[t] = "none"
        BY DEF Inv, ReportersAreHeld
      <3>4. \A t \in Starts, r \in Roles :
              \/ Holds(t, r) => Holds(t, r)'
              \/ t = s /\ r = "events" /\ events'[t] = "ended" /\ start[t] # "spawnEvents"
        BY <2>6, <2>3, <3>2, <3>3 DEF BeforeProcessor, BeforeEvents, Moved
      <3>5. \A t \in Starts : /\ processor'[t] \notin {"none", "ended"} => processor[t] \notin {"none", "ended"}
                              /\ events'[t] \notin {"none", "ended"} => events[t] \notin {"none", "ended"}
        BY <2>2, <2>3 DEF Moved
      <3> QED
        BY <2>2, <2>8, <2>4, <3>1, <3>4, <3>5 DEF Inv, ReportersAreHeld, InStartup, Roles, ThreadsStay
    <2>13. ResourcesHaveOneHolder'
      BY <2>2, <2>7, <2>4, ThreadsGoOn
    <2>14. LiveIsGivenUp'
      BY <2>2, <2>7, <2>9, <2>4, ThreadsGoOn
    <2>15. RevisionsAreOld'
      BY <2>2, <2>7, <2>4, <2>5, ThreadsGoOn
    <2>16. ClearsAreLater'
      BY <2>2, <2>7, <2>4, <2>5, ThreadsGoOn
    <2>17. ClearedStaysClear'
      BY <2>2, <2>7, <2>4, <2>5, ThreadsGoOn
    <2>18. ShowsAreAwaited'
      <3>1. \A t \in Starts : t # s => events'[t] = events[t]
        BY <2>3 DEF Moved
      <3>2. \A i \in 1..Len(ui) : ui[i].by # <<"events", s>>
        <4>1. DOMAIN ui = 1..Len(ui)
          BY DEF Inv, Types
        <4> QED
          BY <2>1, <4>1 DEF Served
      <3>3. \A t \in Starts : events'[t] = "none" <=> events[t] = "none"
        BY <2>4 DEF ThreadsStay
      <3>4. nextSession > 1 => nextSession - 1 \in Starts
        BY Numbers DEF Inv, UnstartedHasNothing, Guarantees, Starts
      <3>5. env.platform = "linux" =>
              \A i \in 1..Len(ui) : ui[i].kind = "show" =>
                \/ \E t \in Starts : ui[i].by = Starter(t) /\ start[t] = "shown"
                \/ \E t \in Starts : ui[i].by = <<"events", t>> /\ events'[t] = "placed"
        BY <3>1, <3>2 DEF Inv, ShowsAreAwaited
      <3> QED
        BY <2>2, <2>7, <3>3, <3>4, <3>5 DEF Inv, ShowsAreAwaited
    <2>19. VisibleIsAlive'
      BY <2>2, <2>7, <2>4, ThreadsGoOn
    <2> QED
      BY <2>1, <2>6, <2>10, <2>11, <2>12, <2>13, <2>14, <2>15, <2>16, <2>17, <2>18, <2>19
      DEF Inv
  <1> QED
    BY <1>1, <1>2, <1>3, <1>4, <1>5, <1>6, <1>7, <1>8, <1>9, <1>10 DEF EventResume, Try

LEMMA SourceClosesStep ==
  ASSUME Inv, NEW s \in Starts, SourceCloses(s)
  PROVE  Inv'
  <1>1. /\ Theory!Inv' /\ Calm
        /\ capture[s] = "live" /\ events[s] # "none"
        /\ capture' = [capture EXCEPT ![s] = "closed"]
        /\ UNCHANGED <<env, slot, control, start, worker, job, processor, events, cleanup,
                      stopResult, monitor, failureCleanup, budget, text, pass, output, shown, ui,
                      frame, stops, presents>>
    BY StutterEffect
    DEF Inv, SourceCloses, supVars, overlayVars, mainVars, threadVars, cleanupVars, monitorVars
  <1>2. UNCHANGED <<env, slot, control, start, worker, job, processor, events, cleanup,
                     stopResult, monitor, failureCleanup, budget, text, pass, output, shown, ui,
                     frame, stops, presents>>
    BY <1>1
  <1>3. /\ capture[s] = "live" /\ events[s] # "none" /\ capture'[s] = "closed"
        /\ \A t \in Starts : t # s => capture'[t] = capture[t]
        /\ capture' \in [Starts -> {"none", "live", "closed", "stopped"}]
    BY <1>1 DEF Inv, Types
  <1>4. \A t \in Starts :
          /\ Open(t)' <=> Open(t)
          /\ capture'[t] = "none" <=> capture[t] = "none"
          /\ capture'[t] = "stopped" <=> capture[t] = "stopped"
    BY <1>3 DEF Open
  <1>5. /\ NumbersAreDistinct'
        /\ \A t \in Starts, r \in Roles : Holds(t, r) => Holds(t, r)'
    BY <1>1, ReportersKept
    DEF Calm, Steady
  <1>6. /\ UNCHANGED <<active, cleanupFinished, nextSession>>
        /\ cancelled \subseteq cancelled' /\ Advances
        /\ active = NoSession => UNCHANGED snapshot
        /\ NoneRuns
    BY <1>1
    DEF Calm, Steady, Advances, NoneRuns
  <1>7. \A t \in Starts : Tracked(t)' <=> Tracked(t)
    BY <1>2
    DEF Tracked, Roles
  <1>8. StaysAwaited
    BY <1>1, AwaitedByAll
    DEF Roles, Calm, Steady
  <1>9. Types'
    BY <1>2, <1>3, TypesKept DEF Kept
  <1>10. JobsAreOwned' /\ ReportersAreHeld' /\ StopMissesNoStore' /\ CleanupIsAwaited' /\
         LiveIsGivenUp' /\ RevisionsAreOld' /\ ClearsAreLater' /\ ClearedStaysClear' /\
         ShowsAreAwaited' /\ VisibleIsAlive'
    BY <1>2, <1>5, <1>6, <1>8, Undisturbed
  <1>11. UnstartedHasNothing'
    BY <1>2, <1>6, <1>4, Numbers DEF Inv, UnstartedHasNothing, Guarantees, Advances
  <1>12. ResourcesHaveOneHolder'
    BY <1>2, <1>7, <1>4 DEF Inv, ResourcesHaveOneHolder, OneHolder, InStart, InSlot, InJob, InCleanup, ClearsUp, Busy
  <1>13. WhatRunsIsHeld'
    BY <1>2, <1>4 DEF Inv, WhatRunsIsHeld, InStart, InSlot, InJob
  <1> QED
    BY <1>1, <1>5, <1>9, <1>10, <1>11, <1>12, <1>13
    DEF Inv

-----------------------------------------------------------------------------
(* The main thread: the press of Stop, its event loop, and the frames of   *)
(* the main WebView.                                                       *)

\* The press of Stop waits for the control lock, or is told that there is no
\* session.
LEMMA MainWaits ==
  ASSUME Inv, NEW to \in {"idle", "lock"}, JobTo(Main, to), ~Busy(Main), stops' \in Nat,
         UNCHANGED supVars,
         UNCHANGED <<env, slot, control, start, worker, capture, processor, events, cleanup,
                    stopResult, monitor, failureCleanup, budget, text, pass, output, shown, ui,
                    frame, presents>>
  PROVE  Inv'
  <1>1. /\ Theory!Inv' /\ Calm
        /\ JobTo(Main, to)
        /\ UNCHANGED <<env, slot, control, start, worker, capture, processor, events, cleanup,
                      stopResult, monitor, failureCleanup, budget, text, pass, output, shown, ui,
                      frame, presents>>
    BY StutterEffect
    DEF Inv, supVars, overlayVars, mainVars, threadVars, cleanupVars, monitorVars
  <1>2. UNCHANGED <<env, slot, control, start, worker, capture, processor, events, cleanup,
                     stopResult, monitor, failureCleanup, budget, text, pass, output, shown, ui,
                     frame, presents>>
    BY <1>1
  <1>3. /\ job' \in [Callers -> Jobs] /\ Main \in Callers
        /\ job'[Main].pc = to /\ job'[Main].session = job[Main].session
        /\ \A d \in Callers : d # Main => job'[d] = job[d]
    BY <1>1, CallersDiffer, JobMoved
  <1>4. /\ \A d \in Callers, t \in Starts : ClearsUp(d, t)' <=> ClearsUp(d, t)
        /\ \A d \in Callers, t \in Starts : InJob(d, t)' <=> InJob(d, t)
        /\ \A d \in Callers : Busy(d)' <=> Busy(d)
        /\ \A d \in Callers : Busy(d) => d # Main /\ job'[d] = job[d]
    BY <1>3 DEF ClearsUp, Busy, InJob
  <1>5. \A d \in Callers : job'[d].session = job[d].session
    BY <1>3
  <1>6. /\ NumbersAreDistinct'
        /\ \A t \in Starts, r \in Roles : Holds(t, r) => Holds(t, r)'
    BY <1>1, ReportersKept
    DEF Calm, Steady
  <1>7. /\ UNCHANGED <<active, cleanupFinished, nextSession>>
        /\ cancelled \subseteq cancelled' /\ Advances
        /\ active = NoSession => UNCHANGED snapshot
        /\ NoneRuns
    BY <1>1
    DEF Calm, Steady, Advances, NoneRuns
  <1>8. \A t \in Starts : Tracked(t)' <=> Tracked(t)
    BY <1>2
    DEF Tracked, Roles
  <1>9. StaysAwaited
    BY <1>1, AwaitedKept
    DEF StaysAwaited, Calm, Steady
  <1>10. Types'
    BY <1>2, <1>3, TypesKept DEF Kept
  <1>11. RevisionsAreOld' /\ ShowsAreAwaited'
    BY <1>2, <1>6, <1>7, <1>9, Undisturbed
  <1>12. UnstartedHasNothing'
    BY <1>2, <1>7, <1>3, <1>5, Numbers DEF Inv, UnstartedHasNothing, Guarantees, Advances
  <1>13. JobsAreOwned'
    <2>1. \A t \in Starts :
            /\ Starter(t) \in Callers /\ Starter(t) # Main /\ MonitorOf(t) \in Callers /\ MonitorOf(t) # Main
            /\ job'[Starter(t)] = job[Starter(t)] /\ job'[MonitorOf(t)] = job[MonitorOf(t)]
      BY <1>3, CallersDiffer
    <2>2. \A d \in Callers :
            /\ job'[d].pc = "clearStop" => job'[d].session \in cancelled'
            /\ job'[d].pc \in {"register", "spawn", "fail", "finishFailed"} => job'[d].held
            /\ job'[d].pc = "finish" => ~job'[d].held
      BY <1>7, <1>3 DEF Inv, JobsAreOwned
    <2>3. \A d \in Callers : Busy(d)' => job'[d].session \in Starts
      BY <1>4, <1>5 DEF Inv, JobsAreOwned
    <2>4. \A t \in Starts :
            /\ Busy(Starter(t))' => job'[Starter(t)].session = t /\ start'[t] \in {"cancelled", "failed"}
            /\ Busy(MonitorOf(t))' => job'[MonitorOf(t)].session = t /\ monitor'[t] = "cleaning"
            /\ job'[Starter(t)].pc # "lock" /\ job'[MonitorOf(t)].pc # "lock"
      BY <1>2, <1>4, <2>1 DEF Inv, JobsAreOwned
    <2>5. \A t \in Starts :
            /\ monitor'[t] = "cleaning" => failureCleanup'[t]
            /\ start'[t] \in {"none", "reset", "monitor", "abandon"} => monitor'[t] = "none"
            /\ failureCleanup'[t] => t \in cancelled'
      BY <1>2, <1>7 DEF Inv, JobsAreOwned
    <2> QED
      BY <1>3, <1>4, <2>2, <2>3, <2>4, <2>5 DEF JobsAreOwned
  <1>14. ReportersAreHeld'
    <2>1. \A d \in Callers, t \in Starts : (ClearsUp(d, t) /\ job[d].pc = "spawn")' =>
            ClearsUp(d, t) /\ job[d].pc = "spawn"
      BY <1>3, <1>4
    <2> QED
      BY <1>2, <1>6, <1>8, <2>1 DEF Inv, ReportersAreHeld, InStartup, Roles
  <1>15. StopMissesNoStore'
    <2>1. \A t \in Starts : ~ClearsUp(Main, t)'
      BY <1>3, <1>4 DEF ClearsUp
    <2> QED
      BY <1>2, <2>1 DEF Inv, StopMissesNoStore
  <1>16. ResourcesHaveOneHolder'
    <2>1. \A d \in Callers, t \in Starts :
            /\ job[d].pc = "spawn" /\ InJob(d, t) => job'[d].pc = "spawn"
            /\ ClearsUp(d, t)' /\ job'[d].pc \in {"fail", "finishFailed"} =>
                 ClearsUp(d, t) /\ job[d].pc \in {"fail", "finishFailed"}
      BY <1>3, <1>4 DEF Busy
    <2> QED
      BY <1>2, <1>8, <1>4, <2>1, HolderKept DEF ResourcesHaveOneHolder
  <1>17. WhatRunsIsHeld'
    BY <1>2, <1>4 DEF Inv, WhatRunsIsHeld, InStart, InSlot, Open
  <1>18. CleanupIsAwaited'
    <2>1. \A d \in Callers, t \in Starts : (ClearsUp(d, t) /\ job[d].pc = "spawn")' =>
            ClearsUp(d, t) /\ job[d].pc = "spawn"
      BY <1>3, <1>4
    <2> QED
      BY <1>2, <1>7, <1>8, <1>3, <1>4, <2>1 DEF Inv, CleanupIsAwaited, InSlot, InCleanup, Fault
  <1>19. LiveIsGivenUp'
    <2>1. \A t \in Starts : Closing(t)' => Closing(t)
      BY <1>2, <1>7, <1>4 DEF Closing, InCleanup
    <2> QED
      BY <1>2, <1>7, <1>9, <2>1 DEF Inv, LiveIsGivenUp, StaysAwaited, IsLive, GaveUp, FindsOthersStored, Fault
  <1>20. ClearsAreLater'
    <2>1. \A d \in Callers, t \in Starts : ClearsUp(d, t)' => ClearsUp(d, t) /\ job'[d] = job[d]
      BY <1>4 DEF ClearsUp
    <2> QED
      BY <1>2, <2>1 DEF Inv, ClearsAreLater, Below, FindsOthersStored, Fault, GaveUp
  <1>21. ClearedStaysClear'
    <2>1. \A t \in Starts : Cleared(t)' => Cleared(t)
      BY <1>2, <1>7, <1>3, <1>4 DEF Cleared, InCleanup, ClearsUp
    <2> QED
      BY <1>2, <1>7, <2>1 DEF Inv, ClearedStaysClear, PutBack, Below, FindsOthersStored, Fault, GaveUp
  <1>22. VisibleIsAlive'
    <2>1. active # NoSession => (Cleared(active)' => Cleared(active))
      BY <1>2, <1>7, <1>3, <1>4, Numbers DEF Cleared, InCleanup, ClearsUp
    <2> QED
      BY <1>2, <1>7, <2>1 DEF Inv, VisibleIsAlive, HideIsPosted, FindsOthersStored
  <1> QED
    BY <1>1, <1>6, <1>10, <1>11, <1>12, <1>13, <1>14, <1>15, <1>16, <1>17, <1>18, <1>19, <1>20,
       <1>21, <1>22
    DEF Inv

LEMMA StopPressedStep ==
  ASSUME Inv, StopPressed
  PROVE  Inv'
  <1>1. CASE /\ stops > 0 /\ MainIsIdle /\ stops' = stops - 1
             /\ JobTo(Main, "lock") /\ UNCHANGED <<supVars, slot>>
    <2>1. stops' \in Nat /\ ~Busy(Main)
      BY <1>1 DEF Inv, Types, MainIsIdle, Busy
    <2> QED
      BY <1>1, <2>1, MainWaits
      DEF StopPressed, overlayVars, threadVars, cleanupVars, monitorVars
  <1>2. CASE JobAt(Main, "lock") /\ Stop(Main) /\ UNCHANGED stops
    <2>1. ~Busy(Main) /\ Main \in Callers
      BY <1>2, CallersDiffer DEF JobAt, Busy
    <2> QED
      BY <1>2, <2>1, Stops
      DEF StopPressed, overlayVars, threadVars, cleanupVars, monitorVars
  <1>3. CASE JobAt(Main, "lock") /\ JobTo(Main, "idle") /\ UNCHANGED <<supVars, slot, stops>>
    <2>1. stops' \in Nat /\ ~Busy(Main)
      BY <1>3 DEF Inv, Types, JobAt, Busy
    <2> QED
      BY <1>3, <2>1, MainWaits
      DEF StopPressed, overlayVars, threadVars, cleanupVars, monitorVars
  <1> QED
    BY <1>1, <1>2, <1>3 DEF StopPressed

LEMMA ServeUiStep ==
  ASSUME Inv, ServeUi
  PROVE  Inv'
  <1>1. /\ Theory!Inv' /\ Calm
        /\ ui # <<>> /\ ui' = Tail(ui)
        /\ shown' = IF Head(ui).by # NoCaller /\ ~(Owns(Head(ui).session) /\ IsLive)
             THEN shown ELSE Head(ui).kind = "show"
        /\ UNCHANGED <<env, slot, control, start, worker, job, capture, processor, events,
                      cleanup, stopResult, monitor, failureCleanup, budget, text, pass, output,
                      frame, stops, presents>>
    BY StutterEffect
    DEF Inv, ServeUi, supVars, overlayVars, mainVars, threadVars, cleanupVars, monitorVars
  <1>2. UNCHANGED <<env, slot, control, start, worker, job, capture, processor, events, cleanup,
                     stopResult, monitor, failureCleanup, budget, text, pass, output, frame,
                     stops, presents>>
    BY <1>1
  <1>3. /\ ui' \in Seq(Requests) /\ Head(ui) \in Requests
        /\ 1 \in 1..Len(ui) /\ Head(ui) = ui[1]
        /\ \A i \in 1..Len(ui') : i + 1 \in 1..Len(ui) /\ ui'[i] = ui[i + 1]
        /\ HideIsPosted => HideIsPosted' \/ (Head(ui).kind = "hide" /\ Head(ui).by = NoCaller)
    BY <1>1, RequestServed
  <1>4. /\ shown' \in BOOLEAN
        /\ Head(ui).kind = "hide" /\ Head(ui).by = NoCaller => ~shown'
        /\ shown' => shown \/ (Head(ui).kind = "show" /\ (Head(ui).by = NoCaller \/ IsLive))
    <3>1. shown \in BOOLEAN
      BY DEF Inv, Types
    <3> QED
      BY <1>1, <3>1
  <1>5. /\ NumbersAreDistinct'
        /\ \A t \in Starts, r \in Roles : Holds(t, r) => Holds(t, r)'
    BY <1>1, ReportersKept
    DEF Calm, Steady
  <1>6. /\ UNCHANGED <<active, cleanupFinished, nextSession>>
        /\ cancelled \subseteq cancelled' /\ Advances
        /\ active = NoSession => UNCHANGED snapshot
        /\ NoneRuns
    BY <1>1
    DEF Calm, Steady, Advances, NoneRuns
  <1>7. \A t \in Starts : Tracked(t)' <=> Tracked(t)
    BY <1>2
    DEF Tracked, Roles
  <1>8. StaysAwaited
    BY <1>1, AwaitedKept
    DEF StaysAwaited, Calm, Steady
  <1>9. Types'
    BY <1>2, <1>3, <1>4, TypesKept DEF Kept
  <1>10. UnstartedHasNothing' /\ JobsAreOwned' /\ ReportersAreHeld' /\ StopMissesNoStore' /\
         ResourcesHaveOneHolder' /\ WhatRunsIsHeld' /\ CleanupIsAwaited' /\ LiveIsGivenUp' /\
         RevisionsAreOld' /\ ClearsAreLater' /\ ClearedStaysClear'
    BY <1>2, <1>5, <1>6, <1>8, Undisturbed
  <1>11. ShowsAreAwaited'
    <2>1. env.platform = "linux" =>
            \A i \in 1..Len(ui') : ui'[i].kind = "show" =>
              \/ \E t \in Starts : ui'[i].by = Starter(t) /\ start[t] = "shown"
              \/ \E t \in Starts : ui'[i].by = <<"events", t>> /\ events[t] = "placed"
      <3> SUFFICES ASSUME env.platform = "linux", NEW i \in 1..Len(ui'), ui'[i].kind = "show"
                   PROVE  \/ \E t \in Starts : ui'[i].by = Starter(t) /\ start[t] = "shown"
                          \/ \E t \in Starts : ui'[i].by = <<"events", t>> /\ events[t] = "placed"
        OBVIOUS
      <3>1. i + 1 \in 1..Len(ui) /\ ui'[i] = ui[i + 1]
        BY <1>3
      <3> QED
        BY <3>1 DEF Inv, ShowsAreAwaited
    <2> QED
      BY <1>2, <1>6, <2>1 DEF Inv, ShowsAreAwaited
  <1>12. VisibleIsAlive'
    <2> SUFFICES ASSUME env.platform = "linux", shown', ~HideIsPosted'
                 PROVE  \/ FindsOthersStored(nextSession - 1)
                        \/ active # NoSession /\ events[active] # "none" /\ ~Cleared(active)
      <3>1. \A t \in Starts : Cleared(t)' <=> Cleared(t)
        BY <1>2, <1>6 DEF Cleared, InCleanup, ClearsUp, Busy
      <3> QED
        BY <1>2, <1>6, <3>1, Numbers DEF VisibleIsAlive, FindsOthersStored
    <2>1. ~HideIsPosted
      BY <1>3, <1>4
    <2>2. CASE shown
      BY <2>1, <2>2 DEF Inv, VisibleIsAlive
    <2>3. CASE Head(ui).kind = "show" /\ (Head(ui).by = NoCaller \/ IsLive)
      <3>1. \/ \E t \in Starts : Head(ui).by = Starter(t) /\ start[t] = "shown"
            \/ \E t \in Starts : Head(ui).by = <<"events", t>> /\ events[t] = "placed"
        BY <1>3, <2>3 DEF Inv, ShowsAreAwaited
      <3>2. IsLive
        BY <2>3, <3>1, CallersDiffer
      <3>3. /\ active # NoSession /\ active \in Starts /\ active = nextSession - 1
            /\ active \notin cancelled
        <4>1. active # NoSession
          BY <3>2 DEF Inv, LiveIsGivenUp
        <4> QED
          BY <3>2, <4>1, Numbers DEF Inv, UnstartedHasNothing, Guarantees, IsLive, Sup!LiveLifecycles
      <3>4. events[active] # "none"
        <4>1. CASE \E t \in Starts : start[t] = "shown"
          BY <3>3, <4>1 DEF Inv, ShowsAreAwaited
        <4>2. CASE \E t \in Starts : events[t] = "placed"
          <5>1. PICK t \in Starts : events[t] = "placed"
            BY <4>2
          <5>2. active = t
            BY <5>1, HolderIsActive DEF Inv, ReportersAreHeld
          <5> QED
            BY <5>1, <5>2
        <4> QED
          BY <3>1, <4>1, <4>2
      <3>5. Cleared(active) => FindsOthersStored(active)
        BY <3>3, <3>4 DEF Cleared, Closing, Inv, LiveIsGivenUp, GaveUp
      <3> QED
        BY <3>3, <3>4, <3>5
    <2> QED
      BY <1>4, <2>2, <2>3
  <1> QED
    BY <1>1, <1>5, <1>9, <1>10, <1>11, <1>12
    DEF Inv

LEMMA PresentFrameStep ==
  ASSUME Inv, PresentFrame
  PROVE  Inv'
  <1>1. PICK s \in Starts :
          /\ text[s] # 0
          /\ frame' = [NoFrame EXCEPT !.pc = "queued", !.session = s, !.revision = text[s]]
    BY DEF PresentFrame
  <1>2. /\ Theory!Inv' /\ Calm /\ UNCHANGED snapshot
        /\ frame.pc = "none" /\ presents > 0 /\ presents' = presents - 1
        /\ UNCHANGED <<env, slot, control, start, worker, job, capture, processor, events,
                      cleanup, stopResult, monitor, failureCleanup, budget, text, pass, output,
                      shown, ui, stops>>
    BY <1>1, StutterEffect
    DEF Inv, PresentFrame, supVars, overlayVars, mainVars, threadVars, cleanupVars, monitorVars
  <1>3. UNCHANGED <<env, slot, control, start, worker, job, capture, processor, events, cleanup,
                     stopResult, monitor, failureCleanup, budget, text, pass, output, shown, ui,
                     stops>>
    BY <1>2
  <1>4. /\ frame' \in Frames
        /\ frame'.session < nextSession
        /\ frame'.pc = "none" <=> frame'.session = NoSession
        /\ frame'.pc = "queued"
        /\ \A t \in Starts : processor[t] = "none" => frame'.session # t
        /\ \A t \in Starts : frame'.running /\ frame'.session = t => events[t] # "none"
        /\ \A t \in Starts : \A r \in Nat :
             (frame.session = t => frame.revision < r) /\ text[t] < r => (frame'.session = t => frame'.revision < r)
    <2>1. processor[s] # "none" /\ s # NoSession /\ text[s] \in Nat
      BY <1>1, Numbers DEF Inv, RevisionsAreOld, Types
    <2>2. capture[s] # "none"
      BY <2>1 DEF Inv, ResourcesHaveOneHolder, OneHolder
    <2>3. s < nextSession
      BY <2>2, Numbers DEF Inv, UnstartedHasNothing
    <2>4. frame'.session = s /\ frame'.revision = text[s] /\ ~frame'.running /\ frame'.pc = "queued"
      BY <1>1 DEF NoFrame
    <2>5. frame' \in Frames
      <3>1. NoOutput \in Outputs
        BY OutputIs DEF NoOutput
      <3> QED
        BY <1>1, <2>1, <3>1 DEF NoFrame, Frames
    <2> QED
      BY <2>1, <2>3, <2>4, <2>5
  <1>5. /\ snapshot.revision \in Nat /\ output.revision \in Nat
        /\ \A t \in Starts : text[t] \in Nat /\ pass[t] \in Nat
        /\ \A x \in Callers : job[x].revision \in Nat
    BY Numbers DEF Inv, Types, Frames, Outputs, Guarantees, Jobs
  <1>6. /\ NumbersAreDistinct'
        /\ \A t \in Starts, r \in Roles : Holds(t, r) => Holds(t, r)'
    BY <1>2, ReportersKept
    DEF Calm, Steady
  <1>7. /\ UNCHANGED <<active, cleanupFinished, nextSession>>
        /\ cancelled \subseteq cancelled' /\ Advances
        /\ active = NoSession => UNCHANGED snapshot
        /\ NoneRuns
    BY <1>2
    DEF Calm, Steady, Advances, NoneRuns
  <1>8. \A t \in Starts : Tracked(t)' <=> Tracked(t)
    BY <1>3
    DEF Tracked, Roles
  <1>9. StaysAwaited
    BY <1>2, AwaitedKept
    DEF StaysAwaited, Calm, Steady
  <1>10. Types'
    <2>1. presents' \in Nat
      BY <1>2 DEF Inv, Types
    <2> QED
      BY <1>3, <1>4, <2>1 DEF Inv, Types
  <1>11. JobsAreOwned' /\ ReportersAreHeld' /\ StopMissesNoStore' /\
         ResourcesHaveOneHolder' /\ WhatRunsIsHeld' /\ CleanupIsAwaited' /\ LiveIsGivenUp' /\
         ShowsAreAwaited' /\ VisibleIsAlive'
    BY <1>3, <1>6, <1>7, <1>9, Undisturbed
  <1>12. UnstartedHasNothing'
    <2>1. nextSession > 1 => snapshot'.revision > 0
      BY <1>7, Numbers DEF Inv, UnstartedHasNothing, Guarantees, Advances
    <2> QED
      BY <1>3, <1>7, <1>4, <2>1 DEF Inv, UnstartedHasNothing
  <1>13. RevisionsAreOld'
    <2>1. \A t \in Starts : \A r \in Nat : Below(t, r) => Below(t, r)'
      BY <1>3, <1>4 DEF Below
    <2>2. UNCHANGED snapshot
      BY <1>2
    <2>3. \A t \in Starts : Below(t, snapshot.revision + 1)'
      BY <1>5, <2>1, <2>2 DEF Inv, RevisionsAreOld, Below
    <2>4. \A t \in Starts : t < nextSession => Below(t, snapshot.revision)' \/ (Owns(t) /\ IsLive)
      BY <1>5, <2>1, <2>2 DEF Inv, RevisionsAreOld, Below
    <2>5. \A t \in Starts : processor[t] = "none" => text[t] = 0 /\ pass[t] = 0 /\ frame'.session # t
      BY <1>4 DEF Inv, RevisionsAreOld
    <2> QED
      BY <1>3, <1>7, <1>4, <2>2, <2>3, <2>4, <2>5 DEF Inv, RevisionsAreOld, Below, Owns, IsLive, IsRunning
  <1>14. ClearsAreLater'
    <2>1. \A t \in Starts : \A r \in Nat : Below(t, r) => Below(t, r)'
      BY <1>3, <1>4 DEF Below
    <2>2. \A x \in Callers, t \in Starts : ClearsUp(x, t)' <=> ClearsUp(x, t)
      BY <1>3 DEF ClearsUp, Busy
    <2>3. \A x \in Callers, t \in Starts : Below(t, job[x].revision) => Below(t, job[x].revision)'
      BY <1>3, <1>5, <2>1 DEF Below
    <2> QED
      BY <1>3, <2>2, <2>3 DEF Inv, ClearsAreLater, FindsOthersStored, Fault, GaveUp
  <1>15. ClearedStaysClear'
    <2>1. \A t \in Starts : \A r \in Nat : Below(t, r) => Below(t, r)'
      BY <1>3, <1>4 DEF Below
    <2>2. \A t \in Starts : Cleared(t)' <=> Cleared(t)
      BY <1>3, <1>7 DEF Cleared, InCleanup, ClearsUp, Busy
    <2>3. \A t \in Starts : Below(t, output.revision) => Below(t, output.revision)'
      BY <1>3, <1>5, <2>1 DEF Below
    <2>4. \A t \in Starts : PutBack(t)' <=> PutBack(t)
      <3>1. frame.session \notin Starts
        BY <1>2, Numbers DEF Inv, RevisionsAreOld
      <3> QED
        BY <1>3, <1>4, <3>1 DEF PutBack
    <2> QED
      BY <1>3, <1>7, <2>2, <2>3, <2>4 DEF Inv, ClearedStaysClear, FindsOthersStored, Fault, GaveUp
  <1> QED
    BY <1>2, <1>6, <1>10, <1>11, <1>12, <1>13, <1>14, <1>15
    DEF Inv

LEMMA ApplyFrameStep ==
  ASSUME Inv, ApplyFrame
  PROVE  Inv'
  <1>1. CASE /\ frame.pc = "queued" /\ Owns(frame.session) /\ IsLive /\ UNCHANGED <<output, shown>>
             /\ frame' = [frame EXCEPT !.pc = "apply", !.running = snapshot.lifecycle = "Running"]
    <2>1. /\ Theory!Inv' /\ Calm /\ UNCHANGED snapshot
          /\ frame.pc = "queued" /\ Owns(frame.session) /\ IsLive
          /\ frame' = [frame EXCEPT !.pc = "apply", !.running = snapshot.lifecycle = "Running"]
          /\ UNCHANGED <<env, slot, control, start, worker, job, capture, processor, events,
                        cleanup, stopResult, monitor, failureCleanup, budget, text, pass, output,
                        shown, ui, stops, presents>>
      BY <1>1, StutterEffect
      DEF Inv, ApplyFrame, supVars, overlayVars, mainVars, threadVars, cleanupVars, monitorVars
    <2>2. UNCHANGED <<env, slot, control, start, worker, job, capture, processor, events, cleanup,
                       stopResult, monitor, failureCleanup, budget, text, pass, output, shown, ui,
                       stops, presents>>
      BY <2>1
    <2>3. /\ frame' \in Frames
          /\ frame'.session < nextSession
          /\ frame'.pc = "none" <=> frame'.session = NoSession
          /\ frame'.pc = "apply"
          /\ \A t \in Starts : processor[t] = "none" => frame'.session # t
          /\ \A t \in Starts : frame'.running /\ frame'.session = t => events[t] # "none"
          /\ \A t \in Starts : \A r \in Nat :
               (frame.session = t => frame.revision < r) /\ text[t] < r => (frame'.session = t => frame'.revision < r)
      <3>1. /\ frame \in Frames
            /\ frame.session \in Starts
        BY <2>1 DEF Inv, Types, Frames, RevisionsAreOld
      <3>2. /\ frame'.pc = "apply" /\ frame'.session = frame.session /\ frame'.revision = frame.revision
            /\ frame' \in Frames
        <4> DEFINE isRunning == snapshot.lifecycle = "Running"
        <4>1. isRunning \in BOOLEAN
          OBVIOUS
        <4>2. frame' = [frame EXCEPT !.pc = "apply", !.running = isRunning]
          BY <2>1
        <4> HIDE DEF isRunning
        <4> QED
          BY <3>1, <4>1, <4>2 DEF Frames
      <3>3. frame'.running => snapshot.lifecycle = "Running"
        BY <2>1, <3>1 DEF Frames
      <3>4. frame'.running => events[frame.session] # "none"
        BY <2>1, <3>1, <3>3 DEF Inv, RevisionsAreOld, IsRunning
      <3> QED
        BY <3>1, <3>2, <3>4, Numbers DEF Inv, UnstartedHasNothing, RevisionsAreOld
    <2>4. /\ snapshot.revision \in Nat /\ output.revision \in Nat
          /\ \A t \in Starts : text[t] \in Nat /\ pass[t] \in Nat
          /\ \A x \in Callers : job[x].revision \in Nat
      BY Numbers DEF Inv, Types, Frames, Outputs, Guarantees, Jobs
    <2>5. /\ NumbersAreDistinct'
          /\ \A t \in Starts, r \in Roles : Holds(t, r) => Holds(t, r)'
      BY <2>1, ReportersKept
      DEF Calm, Steady
    <2>6. /\ UNCHANGED <<active, cleanupFinished, nextSession>>
          /\ cancelled \subseteq cancelled' /\ Advances
          /\ active = NoSession => UNCHANGED snapshot
          /\ NoneRuns
      BY <2>1
      DEF Calm, Steady, Advances, NoneRuns
    <2>7. \A t \in Starts : Tracked(t)' <=> Tracked(t)
      BY <2>2
      DEF Tracked, Roles
    <2>8. StaysAwaited
      BY <2>1, AwaitedKept
      DEF StaysAwaited, Calm, Steady
    <2>9. Types'
      BY <2>2, <2>3, TypesKept DEF Kept
    <2>10. JobsAreOwned' /\ ReportersAreHeld' /\ StopMissesNoStore' /\
           ResourcesHaveOneHolder' /\ WhatRunsIsHeld' /\ CleanupIsAwaited' /\
           LiveIsGivenUp' /\ ShowsAreAwaited' /\ VisibleIsAlive'
      BY <2>2, <2>5, <2>6, <2>8, Undisturbed
    <2>11. UnstartedHasNothing'
      <3>1. nextSession > 1 => snapshot'.revision > 0
        BY <2>6, Numbers DEF Inv, UnstartedHasNothing, Guarantees, Advances
      <3> QED
        BY <2>2, <2>6, <2>3, <3>1 DEF Inv, UnstartedHasNothing
    <2>12. RevisionsAreOld'
      <3>1. \A t \in Starts : \A r \in Nat : Below(t, r) => Below(t, r)'
        BY <2>2, <2>3 DEF Below
      <3>2. UNCHANGED snapshot
        BY <2>1
      <3>3. \A t \in Starts : Below(t, snapshot.revision + 1)'
        BY <2>4, <3>1, <3>2 DEF Inv, RevisionsAreOld, Below
      <3>4. \A t \in Starts : t < nextSession => Below(t, snapshot.revision)' \/ (Owns(t) /\ IsLive)
        BY <2>4, <3>1, <3>2 DEF Inv, RevisionsAreOld, Below
      <3>5. \A t \in Starts : processor[t] = "none" => text[t] = 0 /\ pass[t] = 0 /\ frame'.session # t
        BY <2>3 DEF Inv, RevisionsAreOld
      <3> QED
        BY <2>2, <2>6, <2>3, <3>2, <3>3, <3>4, <3>5 DEF Inv, RevisionsAreOld, Below, Owns, IsLive, IsRunning
    <2>13. ClearsAreLater'
      <3>1. \A t \in Starts : \A r \in Nat : Below(t, r) => Below(t, r)'
        BY <2>2, <2>3 DEF Below
      <3>2. \A x \in Callers, t \in Starts : ClearsUp(x, t)' <=> ClearsUp(x, t)
        BY <2>2 DEF ClearsUp, Busy
      <3>3. \A x \in Callers, t \in Starts : Below(t, job[x].revision) => Below(t, job[x].revision)'
        BY <2>2, <2>4, <3>1 DEF Below
      <3> QED
        BY <2>2, <3>2, <3>3 DEF Inv, ClearsAreLater, FindsOthersStored, Fault, GaveUp
    <2>14. ClearedStaysClear'
      <3>1. \A t \in Starts : \A r \in Nat : Below(t, r) => Below(t, r)'
        BY <2>2, <2>3 DEF Below
      <3>2. \A t \in Starts : Cleared(t)' <=> Cleared(t)
        BY <2>2, <2>6 DEF Cleared, InCleanup, ClearsUp, Busy
      <3>3. \A t \in Starts : Below(t, output.revision) => Below(t, output.revision)'
        BY <2>2, <2>4, <3>1 DEF Below
      <3>4. /\ frame.session \in Starts /\ frame.session # NoSession
            /\ active = frame.session /\ frame.session \notin cancelled
            /\ processor[frame.session] # "none"
        <4>1. /\ active # NoSession /\ frame.session \in Starts /\ frame.session # NoSession
              /\ processor[frame.session] # "none"
          BY <2>1, Numbers DEF Inv, LiveIsGivenUp, Types, Frames, RevisionsAreOld
        <4> QED
          BY <2>1, <4>1, Numbers DEF Guarantees, Owns, IsLive, Sup!LiveLifecycles
      <3>5. Cleared(frame.session) =>
              FindsOthersStored(frame.session) \/ (Fault("spawn") /\ GaveUp(frame.session))
        BY <3>4 DEF Cleared, Closing, Inv, LiveIsGivenUp
      <3>6. frame'.session = frame.session
        BY <2>1 DEF Inv, Types, Frames
      <3>7. \A t \in Starts : t # frame.session => (PutBack(t)' <=> PutBack(t))
        BY <2>1, <2>2, <3>6 DEF PutBack
      <3> QED
        BY <2>2, <2>6, <3>2, <3>3, <3>4, <3>5, <3>6, <3>7
        DEF Inv, ClearedStaysClear, FindsOthersStored, Fault, GaveUp
    <2> QED
      BY <2>1, <2>5, <2>9, <2>10, <2>11, <2>12, <2>13, <2>14
      DEF Inv
  <1>2. CASE frame' = NoFrame /\ UNCHANGED <<output, shown>>
    <2>1. /\ Theory!Inv' /\ Calm /\ UNCHANGED snapshot
          /\ frame' = NoFrame
          /\ UNCHANGED <<env, slot, control, start, worker, job, capture, processor, events,
                        cleanup, stopResult, monitor, failureCleanup, budget, text, pass, output,
                        shown, ui, stops, presents>>
      BY <1>2, StutterEffect
      DEF Inv, ApplyFrame, supVars, overlayVars, mainVars, threadVars, cleanupVars, monitorVars
    <2>2. UNCHANGED <<env, slot, control, start, worker, job, capture, processor, events, cleanup,
                       stopResult, monitor, failureCleanup, budget, text, pass, output, shown, ui,
                       stops, presents>>
      BY <2>1
    <2>3. /\ frame' \in Frames
          /\ frame'.session < nextSession
          /\ frame'.pc = "none" <=> frame'.session = NoSession
          /\ frame'.pc = "none"
          /\ \A t \in Starts : processor[t] = "none" => frame'.session # t
          /\ \A t \in Starts : frame'.running /\ frame'.session = t => events[t] # "none"
          /\ \A t \in Starts : \A r \in Nat :
               (frame.session = t => frame.revision < r) /\ text[t] < r => (frame'.session = t => frame'.revision < r)
      <3>1. NoFrame.session = NoSession /\ NoFrame.pc = "none" /\ ~NoFrame.running /\ NoSession \notin Starts
        BY Numbers DEF NoFrame
      <3>2. frame' \in Frames
        <4>1. NoOutput \in Outputs
          BY OutputIs DEF NoOutput
        <4> QED
          BY <2>1, <4>1 DEF NoFrame, Frames
      <3> QED
        BY <2>1, <3>1, <3>2, Numbers DEF NoSession, Guarantees
    <2>4. /\ snapshot.revision \in Nat /\ output.revision \in Nat
          /\ \A t \in Starts : text[t] \in Nat /\ pass[t] \in Nat
          /\ \A x \in Callers : job[x].revision \in Nat
      BY Numbers DEF Inv, Types, Frames, Outputs, Guarantees, Jobs
    <2>5. /\ NumbersAreDistinct'
          /\ \A t \in Starts, r \in Roles : Holds(t, r) => Holds(t, r)'
      BY <2>1, ReportersKept
      DEF Calm, Steady
    <2>6. /\ UNCHANGED <<active, cleanupFinished, nextSession>>
          /\ cancelled \subseteq cancelled' /\ Advances
          /\ active = NoSession => UNCHANGED snapshot
          /\ NoneRuns
      BY <2>1
      DEF Calm, Steady, Advances, NoneRuns
    <2>7. \A t \in Starts : Tracked(t)' <=> Tracked(t)
      BY <2>2
      DEF Tracked, Roles
    <2>8. StaysAwaited
      BY <2>1, AwaitedKept
      DEF StaysAwaited, Calm, Steady
    <2>9. Types'
      BY <2>2, <2>3, TypesKept DEF Kept
    <2>10. JobsAreOwned' /\ ReportersAreHeld' /\ StopMissesNoStore' /\
           ResourcesHaveOneHolder' /\ WhatRunsIsHeld' /\ CleanupIsAwaited' /\
           LiveIsGivenUp' /\ ShowsAreAwaited' /\ VisibleIsAlive'
      BY <2>2, <2>5, <2>6, <2>8, Undisturbed
    <2>11. UnstartedHasNothing'
      <3>1. nextSession > 1 => snapshot'.revision > 0
        BY <2>6, Numbers DEF Inv, UnstartedHasNothing, Guarantees, Advances
      <3> QED
        BY <2>2, <2>6, <2>3, <3>1 DEF Inv, UnstartedHasNothing
    <2>12. RevisionsAreOld'
      <3>1. \A t \in Starts : \A r \in Nat : Below(t, r) => Below(t, r)'
        BY <2>2, <2>3 DEF Below
      <3>2. UNCHANGED snapshot
        BY <2>1
      <3>3. \A t \in Starts : Below(t, snapshot.revision + 1)'
        BY <2>4, <3>1, <3>2 DEF Inv, RevisionsAreOld, Below
      <3>4. \A t \in Starts : t < nextSession => Below(t, snapshot.revision)' \/ (Owns(t) /\ IsLive)
        BY <2>4, <3>1, <3>2 DEF Inv, RevisionsAreOld, Below
      <3>5. \A t \in Starts : processor[t] = "none" => text[t] = 0 /\ pass[t] = 0 /\ frame'.session # t
        BY <2>3 DEF Inv, RevisionsAreOld
      <3> QED
        BY <2>2, <2>6, <2>3, <3>2, <3>3, <3>4, <3>5 DEF Inv, RevisionsAreOld, Below, Owns, IsLive, IsRunning
    <2>13. ClearsAreLater'
      <3>1. \A t \in Starts : \A r \in Nat : Below(t, r) => Below(t, r)'
        BY <2>2, <2>3 DEF Below
      <3>2. \A x \in Callers, t \in Starts : ClearsUp(x, t)' <=> ClearsUp(x, t)
        BY <2>2 DEF ClearsUp, Busy
      <3>3. \A x \in Callers, t \in Starts : Below(t, job[x].revision) => Below(t, job[x].revision)'
        BY <2>2, <2>4, <3>1 DEF Below
      <3> QED
        BY <2>2, <3>2, <3>3 DEF Inv, ClearsAreLater, FindsOthersStored, Fault, GaveUp
    <2>14. ClearedStaysClear'
      <3>1. \A t \in Starts : \A r \in Nat : Below(t, r) => Below(t, r)'
        BY <2>2, <2>3 DEF Below
      <3>2. \A t \in Starts : Cleared(t)' <=> Cleared(t)
        BY <2>2, <2>6 DEF Cleared, InCleanup, ClearsUp, Busy
      <3>3. \A t \in Starts : Below(t, output.revision) => Below(t, output.revision)'
        BY <2>2, <2>4, <3>1 DEF Below
      <3>4. \A t \in Starts : PutBack(t) => PutBack(t)'
        BY <2>2, <2>3, Numbers DEF PutBack
      <3> QED
        BY <2>2, <2>6, <3>2, <3>3, <3>4
        DEF Inv, ClearedStaysClear, FindsOthersStored, Fault, GaveUp
    <2> QED
      BY <2>1, <2>5, <2>9, <2>10, <2>11, <2>12, <2>13, <2>14
      DEF Inv
  <1>3. CASE /\ frame.pc = "apply" /\ output.session = frame.session /\ output.revision <= frame.revision
             /\ output' = Output(frame.session, frame.revision, TRUE)
             /\ \/ shown' = (shown \/ frame.running) /\ frame' = NoFrame
                \/ /\ Fault("emit") /\ UNCHANGED shown
                   /\ frame' = [frame EXCEPT !.pc = "undo", !.previous = output]
    <2>1. /\ Theory!Inv' /\ Calm /\ UNCHANGED snapshot
          /\ \/ shown' = (shown \/ frame.running) /\ frame' = NoFrame
             \/ /\ env.fault = "emit" /\ shown' = shown
                /\ frame' = [frame EXCEPT !.pc = "undo", !.previous = output]
          /\ output' = Output(frame.session, frame.revision, TRUE)
          /\ UNCHANGED <<env, slot, control, start, worker, job, capture, processor, events,
                        cleanup, stopResult, monitor, failureCleanup, budget, text, pass, ui,
                        stops, presents>>
      BY <1>3, StutterEffect
      DEF Inv, ApplyFrame, Fault, supVars, overlayVars, mainVars, threadVars, cleanupVars, monitorVars
    <2>2. UNCHANGED <<env, slot, control, start, worker, job, capture, processor, events, cleanup,
                       stopResult, monitor, failureCleanup, budget, text, pass, ui, stops,
                       presents>>
      BY <2>1
    <2>3. /\ frame' \in Frames
          /\ frame'.session < nextSession
          /\ frame'.pc = "none" <=> frame'.session = NoSession
          /\ frame'.pc = "undo" => env.fault = "emit" /\ frame'.previous.session = frame'.session
          /\ \A t \in Starts : processor[t] = "none" => frame'.session # t
          /\ \A t \in Starts : frame'.running /\ frame'.session = t => events[t] # "none"
          /\ \A t \in Starts : \A r \in Nat :
               (frame.session = t => frame.revision < r) /\ text[t] < r => (frame'.session = t => frame'.revision < r)
      <3>1. CASE frame' = NoFrame
        <4>1. /\ NoFrame.session = NoSession /\ NoFrame.pc = "none" /\ ~NoFrame.running
              /\ NoSession \notin Starts
          BY Numbers DEF NoFrame
        <4>2. NoFrame \in Frames
          <5>1. NoOutput \in Outputs
            BY OutputIs DEF NoOutput
          <5> QED
            BY <5>1 DEF NoFrame, Frames
        <4> QED
          BY <3>1, <4>1, <4>2, Numbers DEF NoSession, Guarantees
      <3>2. CASE /\ env.fault = "emit"
                 /\ frame' = [frame EXCEPT !.pc = "undo", !.previous = output]
        <4>1. frame \in Frames /\ output \in Outputs /\ frame.session \in Starts
          BY <1>3 DEF Inv, Types, Frames, RevisionsAreOld
        <4>2. /\ frame'.pc = "undo" /\ frame'.session = frame.session
              /\ frame'.revision = frame.revision /\ frame'.previous = output
              /\ frame' \in Frames /\ frame'.session # NoSession
          BY <3>2, <4>1, Numbers DEF Frames
        <4>3. frame'.running <=> frame.running
          BY <3>2, <4>1 DEF Frames
        <4>4. \A u \in Starts : /\ processor[u] = "none" => frame.session # u
                                /\ frame.running /\ frame.session = u => events[u] # "none"
          BY DEF Inv, RevisionsAreOld
        <4>5. frame.session < nextSession
          BY DEF Inv, UnstartedHasNothing
        <4> QED
          BY <1>3, <3>2, <4>1, <4>2, <4>3, <4>4, <4>5
      <3> QED
        BY <2>1, <3>1, <3>2
    <2>4. /\ snapshot.revision \in Nat /\ output.revision \in Nat
          /\ \A t \in Starts : text[t] \in Nat /\ pass[t] \in Nat
          /\ \A x \in Callers : job[x].revision \in Nat
      BY Numbers DEF Inv, Types, Frames, Outputs, Guarantees, Jobs
    <2>5. /\ frame.session \in Starts /\ frame.session < nextSession /\ frame.revision \in Nat
          /\ output.session = frame.session /\ ~(frame.revision < output.revision)
      <3>1. frame \in Frames /\ frame.session \in Starts
        BY <1>3 DEF Inv, Types, Frames, Outputs, RevisionsAreOld
      <3> QED
        BY <1>3, <2>4, <3>1 DEF Inv, Frames, UnstartedHasNothing
    <2>6. /\ output' \in Outputs
          /\ output'.session = frame.session /\ output'.revision = frame.revision
          /\ shown' \in BOOLEAN /\ (shown' => shown \/ frame.running)
      <3>1. shown \in BOOLEAN /\ frame.running \in BOOLEAN
        BY DEF Inv, Types, Frames
      <3>2. shown' \in BOOLEAN /\ (shown' => shown \/ frame.running)
        BY <2>1, <3>1
      <3>3. output' \in Outputs /\ output'.session = frame.session /\ output'.revision = frame.revision
        BY <2>1, <2>5, OutputIs
      <3> QED
        BY <3>2, <3>3
    <2>7. active # frame.session \/ Cleared(frame.session) =>
                 FindsOthersStored(frame.session) \/ (Fault("spawn") /\ GaveUp(frame.session))
      <3>1. ~Below(frame.session, output.revision)
        BY <2>5 DEF Below
      <3>2. ~PutBack(frame.session)
        BY <1>3 DEF PutBack
      <3> QED
        BY <2>5, <3>1, <3>2 DEF Inv, ClearedStaysClear
    <2>8. /\ NumbersAreDistinct'
          /\ \A t \in Starts, r \in Roles : Holds(t, r) => Holds(t, r)'
      BY <2>1, ReportersKept
      DEF Calm, Steady
    <2>9. /\ UNCHANGED <<active, cleanupFinished, nextSession>>
          /\ cancelled \subseteq cancelled' /\ Advances
          /\ active = NoSession => UNCHANGED snapshot
          /\ NoneRuns
      BY <2>1
      DEF Calm, Steady, Advances, NoneRuns
    <2>10. \A t \in Starts : Tracked(t)' <=> Tracked(t)
      BY <2>2
      DEF Tracked, Roles
    <2>11. StaysAwaited
      BY <2>1, AwaitedKept
      DEF StaysAwaited, Calm, Steady
    <2>12. Types'
      BY <2>2, <2>3, <2>6, TypesKept DEF Kept
    <2>13. JobsAreOwned' /\ ReportersAreHeld' /\ StopMissesNoStore' /\
           ResourcesHaveOneHolder' /\ WhatRunsIsHeld' /\ CleanupIsAwaited' /\
           LiveIsGivenUp' /\ ShowsAreAwaited'
      BY <2>2, <2>8, <2>9, <2>11, Undisturbed
    <2>14. UnstartedHasNothing'
      <3>1. nextSession > 1 => snapshot'.revision > 0
        BY <2>9, Numbers DEF Inv, UnstartedHasNothing, Guarantees, Advances
      <3> QED
        BY <2>2, <2>9, <2>3, <2>5, <2>6, <3>1 DEF Inv, UnstartedHasNothing
    <2>15. RevisionsAreOld'
      <3>1. \A t \in Starts : \A r \in Nat : Below(t, r) => Below(t, r)'
        BY <2>2, <2>3 DEF Below
      <3>2. UNCHANGED snapshot
        BY <2>1
      <3>3. \A t \in Starts : Below(t, snapshot.revision + 1)'
        BY <2>4, <3>1, <3>2 DEF Inv, RevisionsAreOld, Below
      <3>4. \A t \in Starts : t < nextSession => Below(t, snapshot.revision)' \/ (Owns(t) /\ IsLive)
        BY <2>4, <3>1, <3>2 DEF Inv, RevisionsAreOld, Below
      <3>5. \A t \in Starts : processor[t] = "none" => text[t] = 0 /\ pass[t] = 0 /\ frame'.session # t
        BY <2>3 DEF Inv, RevisionsAreOld
      <3> QED
        BY <2>2, <2>9, <2>3, <3>2, <3>3, <3>4, <3>5 DEF Inv, RevisionsAreOld, Below, Owns, IsLive, IsRunning
    <2>16. ClearsAreLater'
      <3>1. \A t \in Starts : \A r \in Nat : Below(t, r) => Below(t, r)'
        BY <2>2, <2>3 DEF Below
      <3>2. \A x \in Callers, t \in Starts : ClearsUp(x, t)' <=> ClearsUp(x, t)
        BY <2>2 DEF ClearsUp, Busy
      <3>3. \A x \in Callers, t \in Starts : Below(t, job[x].revision) => Below(t, job[x].revision)'
        BY <2>2, <2>4, <3>1 DEF Below
      <3> QED
        BY <2>2, <3>2, <3>3 DEF Inv, ClearsAreLater, FindsOthersStored, Fault, GaveUp
    <2>17. ClearedStaysClear'
      <3>1. \A t \in Starts : Cleared(t)' <=> Cleared(t)
        BY <2>2, <2>9 DEF Cleared, InCleanup, ClearsUp, Busy
      <3>2. output'.session # NoSession
        BY <2>5, <2>6, Numbers
      <3> QED
        BY <2>2, <2>9, <2>5, <2>6, <2>7, <3>1, <3>2 DEF ClearedStaysClear, PutBack, FindsOthersStored, Fault, GaveUp
    <2>18. VisibleIsAlive'
      <3> SUFFICES ASSUME env.platform = "linux", shown', ~HideIsPosted
                   PROVE  \/ FindsOthersStored(nextSession - 1)
                          \/ active # NoSession /\ events[active] # "none" /\ ~Cleared(active)
        <4>1. \A t \in Starts : Cleared(t)' <=> Cleared(t)
          BY <2>2, <2>9 DEF Cleared, InCleanup, ClearsUp, Busy
        <4>2. HideIsPosted' <=> HideIsPosted
          BY <2>2 DEF HideIsPosted
        <4> QED
          BY <2>2, <2>9, <4>1, <4>2, Numbers DEF VisibleIsAlive, FindsOthersStored
      <3>1. CASE shown
        BY <3>1 DEF Inv, VisibleIsAlive
      <3>2. CASE frame.running
        <4>1. events[frame.session] # "none"
          BY <2>5, <3>2 DEF Inv, RevisionsAreOld
        <4>2. CASE active = frame.session /\ ~Cleared(frame.session)
          BY <2>5, <4>1, <4>2, Numbers
        <4>3. CASE FindsOthersStored(frame.session)
          <5>1. slot \in Nat /\ slot < frame.session /\ frame.session \in Nat /\ slot # NoSession
            BY <2>5, <4>3, Numbers DEF FindsOthersStored, Inv, Types, Frames, Outputs, NoSession
          <5>2. slot < nextSession - 1
            BY <2>5, <5>1, Numbers
          <5> QED
            BY <5>1, <5>2 DEF FindsOthersStored
        <4> QED
          BY <2>7, <4>1, <4>2, <4>3 DEF GaveUp
      <3> QED
        BY <2>6, <3>1, <3>2
    <2> QED
      BY <2>1, <2>8, <2>12, <2>13, <2>14, <2>15, <2>16, <2>17, <2>18
      DEF Inv
  <1>4. CASE /\ frame.pc = "undo" /\ frame' = NoFrame /\ UNCHANGED shown
             /\ output' = [frame.previous EXCEPT
                  !.restored = output # Output(frame.session, frame.revision, TRUE)]
    <2>1. /\ Theory!Inv' /\ Calm /\ UNCHANGED snapshot
          /\ frame.pc = "undo" /\ frame' = NoFrame
          /\ output' = [frame.previous EXCEPT
               !.restored = output # Output(frame.session, frame.revision, TRUE)]
          /\ UNCHANGED <<env, slot, control, start, worker, job, capture, processor, events,
                        cleanup, stopResult, monitor, failureCleanup, budget, text, pass, shown,
                        ui, stops, presents>>
      BY <1>4, StutterEffect
      DEF Inv, ApplyFrame, supVars, overlayVars, mainVars, threadVars, cleanupVars, monitorVars
    <2>2. UNCHANGED <<env, slot, control, start, worker, job, capture, processor, events, cleanup,
                       stopResult, monitor, failureCleanup, budget, text, pass, shown, ui,
                       stops, presents>>
      BY <2>1
    <2>3. /\ frame' \in Frames
          /\ frame'.session < nextSession
          /\ frame'.pc = "none" <=> frame'.session = NoSession
          /\ frame'.pc = "none"
          /\ \A t \in Starts : processor[t] = "none" => frame'.session # t
          /\ \A t \in Starts : frame'.running /\ frame'.session = t => events[t] # "none"
          /\ \A t \in Starts : \A r \in Nat :
               (frame.session = t => frame.revision < r) /\ text[t] < r => (frame'.session = t => frame'.revision < r)
      <3>1. NoFrame.session = NoSession /\ NoFrame.pc = "none" /\ ~NoFrame.running /\ NoSession \notin Starts
        BY Numbers DEF NoFrame
      <3>2. frame' \in Frames
        <4>1. NoOutput \in Outputs
          BY OutputIs DEF NoOutput
        <4> QED
          BY <2>1, <4>1 DEF NoFrame, Frames
      <3> QED
        BY <2>1, <3>1, <3>2, Numbers DEF NoSession, Guarantees
    <2>4. /\ snapshot.revision \in Nat /\ output.revision \in Nat
          /\ \A t \in Starts : text[t] \in Nat /\ pass[t] \in Nat
          /\ \A x \in Callers : job[x].revision \in Nat
      BY Numbers DEF Inv, Types, Frames, Outputs, Guarantees, Jobs
    <2>15. /\ frame.session \in Starts /\ frame.session < nextSession /\ env.fault = "emit"
           /\ output' \in Outputs /\ output'.session = frame.session
           /\ \/ output = Output(frame.session, frame.revision, TRUE)
              \/ output'.restored
      <3>1. /\ frame \in Frames /\ frame.session \in Starts /\ env.fault = "emit"
            /\ frame.previous.session = frame.session
        BY <2>1 DEF Inv, Types, Frames, RevisionsAreOld
      <3>2. frame.previous \in Outputs
        BY <3>1 DEF Frames
      <3>3. frame.session < nextSession
        BY DEF Inv, UnstartedHasNothing
      <3>4. CASE output = Output(frame.session, frame.revision, TRUE)
        <4>1. output' = [frame.previous EXCEPT !.restored = FALSE]
          BY <2>1, <3>4
        <4> QED
          BY <3>1, <3>2, <3>3, <3>4, <4>1 DEF Outputs
      <3>5. CASE output # Output(frame.session, frame.revision, TRUE)
        <4>1. output' = [frame.previous EXCEPT !.restored = TRUE]
          BY <2>1, <3>5
        <4> QED
          BY <3>1, <3>2, <3>3, <4>1 DEF Outputs
      <3> QED
        BY <3>4, <3>5
    <2>5. /\ NumbersAreDistinct'
          /\ \A t \in Starts, r \in Roles : Holds(t, r) => Holds(t, r)'
      BY <2>1, ReportersKept
      DEF Calm, Steady
    <2>6. /\ UNCHANGED <<active, cleanupFinished, nextSession>>
          /\ cancelled \subseteq cancelled' /\ Advances
          /\ active = NoSession => UNCHANGED snapshot
          /\ NoneRuns
      BY <2>1
      DEF Calm, Steady, Advances, NoneRuns
    <2>7. \A t \in Starts : Tracked(t)' <=> Tracked(t)
      BY <2>2
      DEF Tracked, Roles
    <2>8. StaysAwaited
      BY <2>1, AwaitedKept
      DEF StaysAwaited, Calm, Steady
    <2>9. Types'
      BY <2>2, <2>3, <2>15, TypesKept DEF Kept
    <2>10. JobsAreOwned' /\ ReportersAreHeld' /\ StopMissesNoStore' /\
           ResourcesHaveOneHolder' /\ WhatRunsIsHeld' /\ CleanupIsAwaited' /\
           LiveIsGivenUp' /\ ShowsAreAwaited' /\ VisibleIsAlive'
      BY <2>2, <2>5, <2>6, <2>8, Undisturbed
    <2>11. UnstartedHasNothing'
      <3>1. nextSession > 1 => snapshot'.revision > 0
        BY <2>6, Numbers DEF Inv, UnstartedHasNothing, Guarantees, Advances
      <3> QED
        BY <2>2, <2>6, <2>3, <2>15, <3>1 DEF Inv, UnstartedHasNothing
    <2>12. RevisionsAreOld'
      <3>1. \A t \in Starts : \A r \in Nat : Below(t, r) => Below(t, r)'
        BY <2>2, <2>3 DEF Below
      <3>2. UNCHANGED snapshot
        BY <2>1
      <3>3. \A t \in Starts : Below(t, snapshot.revision + 1)'
        BY <2>4, <3>1, <3>2 DEF Inv, RevisionsAreOld, Below
      <3>4. \A t \in Starts : t < nextSession => Below(t, snapshot.revision)' \/ (Owns(t) /\ IsLive)
        BY <2>4, <3>1, <3>2 DEF Inv, RevisionsAreOld, Below
      <3>5. \A t \in Starts : processor[t] = "none" => text[t] = 0 /\ pass[t] = 0 /\ frame'.session # t
        BY <2>3 DEF Inv, RevisionsAreOld
      <3> QED
        BY <2>2, <2>6, <2>3, <3>2, <3>3, <3>4, <3>5 DEF Inv, RevisionsAreOld, Below, Owns, IsLive, IsRunning
    <2>13. ClearsAreLater'
      <3>1. \A t \in Starts : \A r \in Nat : Below(t, r) => Below(t, r)'
        BY <2>2, <2>3 DEF Below
      <3>2. \A x \in Callers, t \in Starts : ClearsUp(x, t)' <=> ClearsUp(x, t)
        BY <2>2 DEF ClearsUp, Busy
      <3>3. \A x \in Callers, t \in Starts : Below(t, job[x].revision) => Below(t, job[x].revision)'
        BY <2>2, <2>4, <3>1 DEF Below
      <3> QED
        BY <2>2, <3>2, <3>3 DEF Inv, ClearsAreLater, FindsOthersStored, Fault, GaveUp
    <2>14. ClearedStaysClear'
      <3>1. CASE output'.restored
        <4>1. \A t \in Starts : PutBack(t)'
          BY <2>3, <3>1, Numbers DEF PutBack
        <4>2. output'.session # NoSession
          BY <2>15, Numbers
        <4> QED
          BY <4>1, <4>2 DEF ClearedStaysClear
      <3>2. CASE output = Output(frame.session, frame.revision, TRUE)
        <4>1. /\ frame.revision \in Nat /\ output.session = frame.session /\ output.regions
              /\ ~output.restored
          <5>1. frame.revision \in Nat
            BY DEF Inv, Types, Frames
          <5> QED
            BY <2>15, <3>2, <5>1, OutputIs
        <4>2. ~PutBack(frame.session) /\ ~Fault("spawn")
          BY <2>15, <4>1 DEF PutBack, Fault
        <4>3. (active = frame.session /\ ~Cleared(frame.session)) \/ FindsOthersStored(frame.session)
          BY <2>15, <4>1, <4>2 DEF Inv, ClearedStaysClear
        <4>4. \A t \in Starts : Cleared(t)' <=> Cleared(t)
          BY <2>2, <2>6 DEF Cleared, InCleanup, ClearsUp, Busy
        <4>5. output'.session # NoSession
          BY <2>15, Numbers
        <4> QED
          BY <2>2, <2>6, <2>15, <4>3, <4>4, <4>5 DEF ClearedStaysClear, FindsOthersStored
      <3> QED
        BY <2>15, <3>1, <3>2
    <2> QED
      BY <2>1, <2>5, <2>9, <2>10, <2>11, <2>12, <2>13, <2>14
      DEF Inv
  <1> QED
    BY <1>1, <1>2, <1>3, <1>4 DEF ApplyFrame

LEMMA StutterStep == Inv /\ UNCHANGED vars => Inv'
  <1> SUFFICES ASSUME Inv, UNCHANGED vars PROVE Inv'
    OBVIOUS
  <1>1. /\ Theory!Inv' /\ Calm
        /\ UNCHANGED <<env, slot, control, start, worker, job, capture, processor, events, cleanup,
                       stopResult, monitor, failureCleanup, budget, text, pass, output, shown, ui,
                       frame, stops, presents>>
    BY StutterEffect
    DEF Inv, vars, overlayVars, mainVars, threadVars, cleanupVars, monitorVars
  <1>2. /\ NumbersAreDistinct'
        /\ \A t \in Starts, r \in Roles : Holds(t, r) => Holds(t, r)'
    BY <1>1, ReportersKept DEF Calm, Steady
  <1>3. /\ UNCHANGED <<active, cleanupFinished, nextSession>> /\ cancelled \subseteq cancelled'
        /\ Advances /\ (active = NoSession => UNCHANGED snapshot) /\ NoneRuns
    BY <1>1 DEF Calm, Steady
  <1>4. Types'
    BY <1>1, TypesKept DEF Kept
  <1>5. StaysAwaited
    BY <1>1, AwaitedKept DEF StaysAwaited, Calm, Steady
  <1>6. /\ UnstartedHasNothing' /\ JobsAreOwned' /\ ReportersAreHeld' /\ StopMissesNoStore'
        /\ ResourcesHaveOneHolder' /\ WhatRunsIsHeld' /\ CleanupIsAwaited' /\ LiveIsGivenUp'
        /\ RevisionsAreOld' /\ ClearsAreLater' /\ ClearedStaysClear' /\ ShowsAreAwaited'
        /\ VisibleIsAlive'
    BY <1>1, <1>2, <1>3, <1>5, Undisturbed
  <1> QED
    BY <1>1, <1>2, <1>4, <1>6 DEF Inv

-----------------------------------------------------------------------------
(* The theorems.                                                           *)

LEMMA InvInit == Init => Inv
  <1> SUFFICES ASSUME Init PROVE Inv
    OBVIOUS
  <1>1. Theory!Init
    BY DEF Init, Sup!Init, Theory!Init, Sup!DefaultSnapshot, Theory!DefaultSnapshot,
           Sup!NoSession, Theory!NoSession, Sup!None, Theory!None, Sup!Healthy, Theory!Healthy,
           Sup!Health, Theory!Health, Sup!NoWorkers, Theory!NoWorkers
  <1>2. Theory!Inv
    BY <1>1, Theory!InvInit, VisualBounds
  <1>3. /\ active = NoSession /\ nextSession = 1 /\ nextWorker = 1
        /\ snapshot.lifecycle = "Stopped" /\ snapshot.revision = 0
    BY DEF Init, Sup!Init, Sup!DefaultSnapshot, Sup!NoSession, NoSession
  <1>4. /\ env \in Environments /\ env.frames \in Nat /\ env.events \in Nat
        /\ env.presents \in Nat /\ env.stops \in Nat
    BY VisualBounds DEF Init, Environments
  <1>5. NoJob \in Jobs /\ \A c \in Callers : job[c] = NoJob
    BY DEF Init, NoJob, Jobs
  <1>6. \A s \in Starts :
          /\ start[s] = "none" /\ capture[s] = "none" /\ processor[s] = "none" /\ events[s] = "none"
          /\ cleanup[s] = "none" /\ monitor[s] = "none" /\ ~failureCleanup[s]
          /\ \A r \in Roles : worker[s][r] = NoWorker
          /\ text[s] = 0 /\ pass[s] = 0
    BY DEF Init, PerSession
  <1>7. /\ slot = NoSession /\ output.session = NoSession /\ ~output.regions /\ ~shown /\ ui = <<>>
        /\ frame.session = NoSession /\ frame.pc = "none" /\ ~frame.running /\ NoSession \notin Starts
        /\ output.revision = 0 /\ frame.revision = 0
    BY DEF Init, NoFrame, NoOutput, Output, NoSession, Starts
  <1>8. \A c \in Callers : ~Busy(c) /\ job[c].session = NoSession /\ job[c].pc = "idle"
    BY <1>5 DEF Busy, NoJob
  <1>9. Types
    <2>1. /\ env \in Scenarios /\ slot \in Starts \cup {NoSession} /\ control \in {"free", "start"}
          /\ job \in [Callers -> Jobs] /\ shown \in BOOLEAN /\ stops \in Nat /\ presents \in Nat
      BY <1>4, <1>5 DEF Init
    <2>2. worker \in [Starts -> [Roles -> 0..MaxWorker]]
      BY VisualBounds DEF Init, PerSession, NoWorker
    <2>3. /\ start \in [Starts -> StartPlaces]
          /\ capture \in [Starts -> {"none", "live", "closed", "stopped"}]
          /\ processor \in [Starts -> {"none", "loop", "compare", "failed", "mark", "emit", "ended"}]
          /\ events \in [Starts -> {"none", "loop", "closed", "over", "failed", "mark", "resume",
                                    "run", "look", "show", "hide", "placed", "ended"}]
          /\ cleanup \in [Starts -> {"none", "stop", "join", "report", "finish", "ended"}]
          /\ monitor \in [Starts -> {"none", "poll", "drain", "look", "cleaning", "timeout", "ended"}]
      BY DEF Init, PerSession, StartPlaces
    <2>4. stopResult \in [Starts -> BOOLEAN] /\ failureCleanup \in [Starts -> BOOLEAN]
      BY DEF Init, PerSession
    <2>5. budget \in [Starts -> [frames : Nat, events : Nat]]
      BY <1>4 DEF Init, PerSession
    <2>6. text \in [Starts -> Nat] /\ pass \in [Starts -> Nat] /\ ui \in Seq(Requests)
      BY DEF Init, PerSession
    <2>7. /\ output \in Outputs
          /\ frame \in Frames
      <3>1. NoOutput \in Outputs
        BY OutputIs DEF NoOutput
      <3> QED
        BY <3>1 DEF Init, NoFrame, Frames
    <2> QED
      BY <2>1, <2>2, <2>3, <2>4, <2>5, <2>6, <2>7 DEF Types
  <1>10. NumbersAreDistinct /\ UnstartedHasNothing /\ JobsAreOwned
    <2>1. NumbersAreDistinct
      BY <1>3, <1>6 DEF NumbersAreDistinct, NoWorker
    <2>2. UnstartedHasNothing
      BY <1>3, <1>6, <1>7, <1>8 DEF UnstartedHasNothing, NoSession
    <2>3. JobsAreOwned
      <3>1. Main \in Callers /\ \A s \in Starts : Starter(s) \in Callers /\ MonitorOf(s) \in Callers
        BY CallersDiffer
      <3> QED
        BY <1>6, <1>8, <3>1 DEF JobsAreOwned
    <2> QED
      BY <2>1, <2>2, <2>3
  <1>11. ReportersAreHeld /\ StopMissesNoStore
    BY <1>6, <1>7, <1>8, CallersDiffer
    DEF ReportersAreHeld, InStartup, Tracked, Roles, ClearsUp, AfterEvents, StopMissesNoStore
  <1>12. ResourcesHaveOneHolder /\ WhatRunsIsHeld /\ CleanupIsAwaited
    BY <1>3, <1>6, <1>7, <1>8, CallersDiffer
    DEF ResourcesHaveOneHolder, OneHolder, WhatRunsIsHeld, CleanupIsAwaited, BeforeCapture, Tracked,
        Roles, InStart, InSlot, InJob, InCleanup, Open, ClearsUp
  <1>13. LiveIsGivenUp /\ RevisionsAreOld
    <2>1. \A s \in Starts : s # NoSession
      BY <1>7
    <2>2. LiveIsGivenUp
      BY <1>3, <1>6, <1>8, <2>1 DEF LiveIsGivenUp, IsLive, Sup!LiveLifecycles
    <2>3. RevisionsAreOld
      BY <1>3, <1>6, <1>7, <2>1 DEF RevisionsAreOld, Below, IsRunning, Starts
    <2> QED
      BY <2>2, <2>3
  <1>14. ClearsAreLater /\ ClearedStaysClear
    BY <1>7, <1>8 DEF ClearsAreLater, ClearedStaysClear, PutBack, ClearsUp
  <1>15. ShowsAreAwaited /\ VisibleIsAlive
    BY <1>6, <1>7 DEF ShowsAreAwaited, VisibleIsAlive
  <1> QED
    BY <1>2, <1>9, <1>10, <1>11, <1>12, <1>13, <1>14, <1>15 DEF Inv

\* A caller that has something to clear up knows whose.
LEMMA JobStepStep ==
  ASSUME Inv, NEW c \in Callers, JobStep(c)
  PROVE  Inv'
  <1>1. Busy(c)
    BY DEF JobStep, Clear, ReadRevision, RegisterCleanup, SpawnCleanup, JobAt, Busy
  <1>2. PICK s \in Starts : ClearsUp(c, s)
    BY <1>1 DEF Inv, JobsAreOwned, ClearsUp
  <1> QED
    BY <1>2, ClearStep, ReadRevisionStep, RegisterCleanupStep, SpawnCleanupStep DEF JobStep

LEMMA InvNext == Inv /\ [Next]_vars => Inv'
  <1> SUFFICES ASSUME Inv, [Next]_vars PROVE Inv'
    OBVIOUS
  <1>1. CASE \/ StartVisualTranslation \/ StopPressed \/ ServeUi \/ PresentFrame \/ ApplyFrame
             \/ UNCHANGED vars
    BY <1>1, StartVisualTranslationStep, StopPressedStep, ServeUiStep, PresentFrameStep,
       ApplyFrameStep, StutterStep
  <1>2. ASSUME NEW c \in Callers, JobStep(c) PROVE Inv'
    BY <1>2, JobStepStep
  <1>3. ASSUME NEW s \in Starts, StartStep(s) PROVE Inv'
    BY <1>3, ResetOutputStep, SpawnMonitorStep, RegisterStartupStep, UpdateProgressStep,
       LoadEngineStep, StartCaptureStep, StopDismissedStep, ResolveStep, PlaceStep,
       RegisterThreadsStep, SpawnThreadsStep, AdmitStep, ReportGivenUpStep, BecomeRunningStep,
       RevealStep, ReportHealthStep
    DEF StartStep
  <1>4. ASSUME NEW s \in Starts, CleanupStep(s) \/ MonitorStep(s) PROVE Inv'
    BY <1>4, CleanupStepStep, MonitorDrainStep, MonitorLookStep, MonitorActStep DEF MonitorStep
  <1>5. ASSUME NEW s \in Starts,
               \/ Receive(s) \/ ProcessorStep(s) \/ ProcessorEmit(s)
               \/ EventStep(s) \/ EventResume(s) \/ SourceCloses(s)
        PROVE  Inv'
    BY <1>5, ReceiveStep, ProcessorStepStep, ProcessorEmitStep, EventStepStep, EventResumeStep,
       SourceClosesStep
  <1> QED
    BY <1>1, <1>2, <1>3, <1>4, <1>5 DEF Next

LEMMA Invariance == Spec => []Inv
  BY InvInit, InvNext, PTL DEF Spec

\* The state of the session has its type, whatever the supervisor's is.
THEOREM TypeCorrect == Spec => []Types
  BY Invariance, PTL DEF Inv

\* What the overlay's output shows belongs to the active session: a frame that was
\* read before the clear, however long it waited in the WebView or between the two
\* looks of update_visual_presentation, carries a revision below the clear's.
\* An output that a failed presentation puts back belongs to it too if it found its
\* own frame still in place: then no clear has come between.
LEMMA ClearsStay == Inv => TextBelongsToTheActive
  BY DEF Inv, ClearedStaysClear, PutBack, TextBelongsToTheActive, Types, Outputs, Fault

\* Every reachable state keeps an ended session's text out of the output, unless
\* the error path of visual.rs:477 has put it back over what came between.
THEOREM TextOfEndedSessionsStaysCleared == Spec => []TextBelongsToTheActive
  BY Invariance, ClearsStay, PTL

\* What a released session may have left, from who holds what.
LEMMA ReleasedIsQuiet == Inv => VisualReleasedIsQuiet
  <1> SUFFICES ASSUME Inv, NEW s \in Starts, Released(s), failureCleanup[s] => Settled(s)
               PROVE  /\ capture[s] \notin {"live", "closed"}
                      /\ {processor[s], events[s]} \subseteq {"none", "ended"}
                      /\ slot # s
    BY DEF VisualReleasedIsQuiet
  <1>1. active # s /\ \A r \in Roles : ~Holds(s, r)
    BY HolderIsActive DEF Released
  <1>2. {processor[s], events[s]} \subseteq {"none", "ended"}
    BY <1>1 DEF Inv, ReportersAreHeld, Roles
  <1>3. ~InStartup(s)
    BY <1>1 DEF Inv, ReportersAreHeld, Roles
  <1>4. ~InStart(s)
    BY <1>3 DEF InStart, InStartup
  <1>5. slot # s /\ ~InJob(Main, s)
    <2>1. CASE ~failureCleanup[s]
      BY <1>1, <2>1 DEF Inv, CleanupIsAwaited, InSlot
    <2>2. CASE Settled(s)
      BY <2>2, CallersDiffer DEF Settled, InJob, Done, JobAt
    <2> QED
      BY <2>1, <2>2
  <1>6. cleanup[s] # "stop"
    <2>1. CASE ~failureCleanup[s]
      BY <1>1, <2>1 DEF Inv, CleanupIsAwaited, InCleanup, ReportersAreHeld, Roles
    <2>2. CASE Settled(s)
      BY <2>2 DEF Settled
    <2> QED
      BY <2>1, <2>2
  <1>7. ASSUME NEW c \in Callers, InJob(c, s) PROVE FALSE
    <2>1. job[c].session = s /\ Busy(c)
      BY <1>7 DEF InJob, Busy
    <2>2. ~Settled(s)
      BY <2>1 DEF Settled, Done, JobAt, Busy
    <2>3. ~failureCleanup[s]
      BY <2>2
    <2>4. CASE c = Main
      BY <1>5, <1>7, <2>4
    <2>5. ASSUME NEW t \in Starts, c = Starter(t) PROVE FALSE
      BY <1>3, <2>1, <2>5 DEF Inv, JobsAreOwned, InStartup
    <2>6. ASSUME NEW t \in Starts, c = MonitorOf(t) PROVE FALSE
      BY <2>1, <2>3, <2>6 DEF Inv, JobsAreOwned
    <2> QED
      BY <2>4, <2>5, <2>6, CallersDiffer
  <1>8. ~Open(s)
    BY <1>4, <1>5, <1>6, <1>7 DEF Inv, WhatRunsIsHeld, InSlot
  <1> QED
    BY <1>2, <1>5, <1>8 DEF Open

\* Whoever of Stop, the picker, a failed start and the monitor cleans up: a session
\* that is given up has left no capture, no processor and no event thread, and
\* nothing in the slot.
THEOREM ReleasedSessionIsQuiet == Spec => []VisualReleasedIsQuiet
  BY Invariance, ReleasedIsQuiet, PTL

\* On Linux the overlay of a session that is released is hidden when the main
\* thread has done all that was posted to it, whatever was asked for and in
\* whatever order: every show looks at the snapshot again behind the hides.
LEMMA HiddenWhenReleased == Inv => LinuxOverlayIsHidden
  <1>1. Inv /\ ui = <<>> => ~HideIsPosted
    BY DEF HideIsPosted
  <1> QED
    BY <1>1 DEF Inv, VisibleIsAlive, LinuxOverlayIsHidden, ReleasedIsHidden

\* On Linux the window is hidden by the time its session is released.
THEOREM LinuxHidesTheOverlay == Spec => []LinuxOverlayIsHidden
  BY Invariance, HiddenWhenReleased, PTL

\* The resources of a session are never in two hands: the start, the slot, the
\* job of Stop, of the start or of the monitor, and the cleanup thread take them
\* from one another.
THEOREM ResourcesAreInOneHand == Spec => []ResourcesHaveOneHolder
  BY Invariance, PTL DEF Inv

\* What is stored belongs to the active session, but for one whose failure the
\* monitor has taken up while its start was storing.
THEOREM OnlyFailuresLeaveTheSlot ==
  Spec => [](slot # NoSession /\ ~failureCleanup[slot] => slot = active)
  <1>1. Inv => (slot # NoSession /\ ~failureCleanup[slot] => slot = active)
    BY DEF Inv, Types, CleanupIsAwaited, InSlot
  <1> QED
    BY <1>1, Invariance, PTL

\* The control lock keeps Stop and the start that stores the resources apart: no
\* Stop that has taken nothing clears up a session whose resources are stored.
THEOREM StopMissesNoResources == Spec => []StopMissesNoStore
  BY Invariance, PTL DEF Inv

=============================================================================
