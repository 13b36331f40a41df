------------------------ MODULE InferenceResources ------------------------
(***************************************************************************)
(* Who owns the inference runtimes: the coordinator and its leases         *)
(* (crates/resource-coordinator), the ResourceRuntime of the desktop host  *)
(* with the slot of the WebView's translation lease (resources.rs), and    *)
(* the reporter of the main WebView (inference-resource-reporter.ts).      *)
(*                                                                         *)
(* Five actors meet here: the native worker that holds the speech or OCR   *)
(* lease of a session, the session monitor that force-releases what is     *)
(* left when the session is over, the command that takes the WebView's     *)
(* reports one at a time, the WebView, and the supervisor, reduced here    *)
(* to the order of its snapshots: revision 3*(s-1)+1 shows session s live, *)
(* the next one that it is ending, the next one that it is over.           *)
(***************************************************************************)
EXTENDS Integers, Sequences, FiniteSets

CONSTANTS
  Models,        \* translation models
  MaxSession,    \* bound: native sessions
  MaxOwner,      \* bound: disposable translation workers of the WebView
  MaxOutbox,     \* bound: reports waiting in the WebView
  MaxToken       \* bound: no load is begun once so many leases have been given

ASSUME ModelsAssumption == "none" \notin Models
ASSUME BoundsAssumption == MaxSession \in Nat /\ MaxOwner \in Nat /\ MaxOutbox \in Nat
                            /\ MaxToken \in Nat

VARIABLES
  revision,   \* of the supervisor's last snapshot
  records,    \* coordinator: the records, each with its token
  nextToken,  \* coordinator: next_token
  native,     \* session -> its worker's lease: acquired once, token 0 when dropped
  slot,       \* ResourceRuntime.translation
  report,     \* report_inference_resource: where the command is
  monitor,    \* session -> how far its monitor is with release_session
  view,       \* the revision the WebView has seen
  owner,      \* the WebView's translation worker
  loaded,     \* the model it has reported to the reporter
  bound,      \* translationOwners: the session that worker is bound to, or 0
  outbox      \* the reports the WebView has yet to send

nativeVars == <<revision, records, nextToken, native, slot, report, monitor>>
webVars == <<view, owner, loaded, bound, outbox>>
resourceVars == <<nativeVars, webVars>>

None == "none"
Sessions == 1..MaxSession
Kinds == {"native", "translation"}

\* What the snapshot of a revision shows.
SessionOf(r) == (r + 2) \div 3
Live(r) == r % 3 = 1
Ending(r) == r % 3 = 2
Active(s) == s = SessionOf(revision) /\ (Live(revision) \/ Ending(revision))
Over(s) == s <= SessionOf(revision) /\ ~Active(s)

NoSlot == [session |-> 0, owner |-> 0, model |-> None, token |-> 0]
NoCommand == [phase |-> None, session |-> 0, owner |-> 0, model |-> None]
NoReport == [at |-> "idle", command |-> NoCommand, token |-> 0]

ResourcesInit ==
  /\ revision = 0
  /\ records = {}
  /\ nextToken = 0
  /\ native = [s \in Sessions |-> [acquired |-> FALSE, token |-> 0]]
  /\ slot = NoSlot
  /\ report = NoReport
  /\ monitor = [s \in Sessions |-> [at |-> "polling", token |-> 0]]
  /\ view = 0
  /\ owner = 1
  /\ loaded = None
  /\ bound = 0
  /\ outbox = <<>>

-----------------------------------------------------------------------------
(* The coordinator.  A session has one mode, so that comparing sessions     *)
(* compares modes.                                                          *)

Conflict(session, kind) ==
  \/ \E r \in records : r.session # session
  \/ \E r \in records : r.kind = kind

NewToken == nextToken + 1

Acquire(session, kind) ==
  /\ nextToken' = NewToken
  /\ records' = records \cup {[token |-> NewToken, session |-> session, kind |-> kind]}

\* Dropping a lease: its record goes if it is still there.
Without(token) == {r \in records : r.token # token}

WithoutSession(session) == {r \in records : r.session # session}

-----------------------------------------------------------------------------
(* The native session                                                      *)

SessionStarts ==
  /\ revision < 3 * MaxSession
  /\ ~Live(revision) /\ ~Ending(revision)
  /\ revision' = revision + 1
  /\ UNCHANGED <<records, nextToken, native, slot, report, monitor, webVars>>

\* A stop or a failure.
SessionEnds ==
  /\ Live(revision)
  /\ revision' = revision + 1
  /\ UNCHANGED <<records, nextToken, native, slot, report, monitor, webVars>>

\* The startup acquires the speech or OCR lease, once, perhaps after a stop
\* that it has not seen; a conflict ends the session.
NativeAcquires(s) ==
  /\ Active(s)
  /\ ~native[s].acquired
  /\ ~Conflict(s, "native")
  /\ Acquire(s, "native")
  /\ native' = [native EXCEPT ![s] = [acquired |-> TRUE, token |-> NewToken]]
  /\ UNCHANGED <<revision, slot, report, monitor, webVars>>

NativeConflicts(s) ==
  /\ Active(s)
  /\ ~native[s].acquired
  /\ Conflict(s, "native")
  /\ native' = [native EXCEPT ![s].acquired = TRUE]
  /\ revision' = IF Live(revision) THEN revision + 1 ELSE revision
  /\ UNCHANGED <<records, nextToken, slot, report, monitor, webVars>>

\* The worker that holds the lease ends.
NativeDrops(s) ==
  /\ native[s].token # 0
  /\ records' = Without(native[s].token)
  /\ native' = [native EXCEPT ![s].token = 0]
  /\ UNCHANGED <<revision, nextToken, slot, report, monitor, webVars>>

\* The supervisor gives the session up once every worker has reported.  The
\* worker may still hold its lease: a failed start reports before it returns.
SessionReleased ==
  /\ Ending(revision)
  /\ revision' = revision + 1
  /\ UNCHANGED <<records, nextToken, native, slot, report, monitor, webVars>>

\* release_session of the session's monitor: the slot under its own lock, the
\* lease dropped after that lock, then whatever record is left.
SlotLocked == report.at = "acquiring"

MonitorTakes(s) ==
  /\ Over(s)
  /\ monitor[s].at = "polling"
  /\ ~SlotLocked
  /\ IF slot.session = s
     THEN /\ monitor' = [monitor EXCEPT ![s] = [at |-> "taken", token |-> slot.token]]
          /\ slot' = NoSlot
     ELSE /\ monitor' = [monitor EXCEPT ![s].at = "taken"]
          /\ UNCHANGED slot
  /\ UNCHANGED <<revision, records, nextToken, native, report, webVars>>

MonitorDrops(s) ==
  /\ monitor[s].at = "taken"
  /\ records' = Without(monitor[s].token)
  /\ monitor' = [monitor EXCEPT ![s] = [at |-> "dropped", token |-> 0]]
  /\ UNCHANGED <<revision, nextToken, native, slot, report, webVars>>

\* Faulty: the coordinator is not asked for what is left.
MonitorForcesNothing(s) ==
  /\ monitor[s].at = "dropped"
  /\ monitor' = [monitor EXCEPT ![s].at = "done"]
  /\ UNCHANGED <<revision, records, nextToken, native, slot, report, webVars>>

MonitorForces(s) ==
  /\ monitor[s].at = "dropped"
  /\ records' = WithoutSession(s)
  /\ monitor' = [monitor EXCEPT ![s].at = "done"]
  /\ UNCHANGED <<revision, nextToken, native, slot, report, webVars>>

-----------------------------------------------------------------------------
(* report_inference_resource: the reporter sends the next report only after *)
(* the answer to the last one.                                              *)

Sent == Head(outbox)
TakeReport == outbox' = Tail(outbox) /\ UNCHANGED <<view, owner, loaded, bound>>

\* A load is checked against the supervisor's snapshot, under its lock only.
ReportLoaded ==
  /\ report = NoReport
  /\ outbox # <<>>
  /\ Sent.phase = "loaded"
  /\ report' = IF Sent.session = SessionOf(revision) /\ Live(revision)
               THEN [NoReport EXCEPT !.at = "checked", !.command = Sent]
               ELSE NoReport
  /\ TakeReport
  /\ UNCHANGED <<revision, records, nextToken, native, slot, monitor>>

\* Then the slot: nothing to do, owned by somebody else, or replaced.
SlotIsOurs(c) == slot.session = c.session /\ slot.owner = c.owner
ReportRefused ==
  LET c == report.command
  IN /\ report.at = "checked"
     /\ slot # NoSlot
     /\ ~SlotIsOurs(c) \/ slot.model = c.model
     /\ report' = NoReport
     /\ UNCHANGED <<revision, records, nextToken, native, slot, monitor, webVars>>

ReportReplaces ==
  LET c == report.command
  IN /\ report.at = "checked"
     /\ slot = NoSlot \/ (SlotIsOurs(c) /\ slot.model # c.model)
     /\ records' = Without(slot.token)
     /\ slot' = NoSlot
     /\ report' = [report EXCEPT !.at = "acquiring"]
     /\ UNCHANGED <<revision, nextToken, native, monitor, webVars>>

ReportAcquires ==
  LET c == report.command
  IN /\ report.at = "acquiring"
     /\ report' = NoReport
     /\ IF Conflict(c.session, "translation")
        THEN UNCHANGED <<records, nextToken, slot>>
        ELSE /\ Acquire(c.session, "translation")
             /\ slot' = [session |-> c.session, owner |-> c.owner, model |-> c.model,
                         token |-> NewToken]
     /\ UNCHANGED <<revision, native, monitor, webVars>>

\* Faulty: an unload is dropped when its session is no longer live.
ReportUnloadedWhenLive ==
  /\ report = NoReport
  /\ outbox # <<>>
  /\ Sent.phase = "unloaded"
  /\ IF slot # NoSlot /\ SlotIsOurs(Sent) /\ Live(revision)
     THEN /\ report' = [NoReport EXCEPT !.at = "dropping", !.token = slot.token]
          /\ slot' = NoSlot
     ELSE UNCHANGED <<report, slot>>
  /\ TakeReport
  /\ UNCHANGED <<revision, records, nextToken, native, monitor>>

ReportUnloaded ==
  /\ report = NoReport
  /\ outbox # <<>>
  /\ Sent.phase = "unloaded"
  /\ IF slot # NoSlot /\ SlotIsOurs(Sent)
     THEN /\ report' = [NoReport EXCEPT !.at = "dropping", !.token = slot.token]
          /\ slot' = NoSlot
     ELSE UNCHANGED <<report, slot>>
  /\ TakeReport
  /\ UNCHANGED <<revision, records, nextToken, native, monitor>>

ReportDrops ==
  /\ report.at = "dropping"
  /\ records' = Without(report.token)
  /\ report' = NoReport
  /\ UNCHANGED <<revision, nextToken, native, slot, monitor, webVars>>

-----------------------------------------------------------------------------
(* The main WebView                                                        *)

Unloaded == [phase |-> "unloaded", session |-> bound, owner |-> owner, model |-> None]

\* acceptTranslationTelemetry of an unload, for a worker that has loaded.
Unload(next) ==
  /\ loaded' = None
  /\ bound' = 0
  /\ outbox' = IF bound # 0 THEN Append(outbox, Unloaded) ELSE outbox
  /\ owner' = next

\* A snapshot arrives.  The controllers close their translation session when
\* it shows no live session, or another one.
SeeSnapshot ==
  /\ view < revision
  /\ \E r \in (view + 1)..revision :
       /\ view' = r
       /\ IF loaded # None /\ (~Live(r) \/ SessionOf(r) # SessionOf(view))
          THEN Unload(owner + 1)
          ELSE UNCHANGED <<owner, loaded, bound, outbox>>
  /\ UNCHANGED nativeVars

\* The translation worker has prepared a route, whose model it loads unless it
\* has it: a model may serve several routes, and its load is then reported
\* again.  Outside a live session it is not reported.
WorkerLoads(m) ==
  /\ owner <= MaxOwner /\ nextToken < MaxToken
  /\ Len(outbox) < MaxOutbox
  /\ loaded' = m
  /\ IF Live(view)
     THEN /\ bound' = SessionOf(view)
          /\ outbox' = Append(outbox, [phase |-> "loaded", session |-> SessionOf(view),
                                       owner |-> owner, model |-> m])
     ELSE UNCHANGED <<bound, outbox>>
  /\ UNCHANGED <<view, owner, nativeVars>>

\* It is restarted, or its translation session is closed or replaced.
WorkerUnloads ==
  /\ loaded # None
  /\ Len(outbox) < MaxOutbox
  /\ \E next \in {owner, owner + 1} : Unload(next)
  /\ UNCHANGED <<view, nativeVars>>

-----------------------------------------------------------------------------
ResourcesNext ==
  \/ SessionStarts \/ SessionEnds \/ SessionReleased
  \/ \E s \in Sessions : NativeAcquires(s) \/ NativeConflicts(s) \/ NativeDrops(s)
  \/ \E s \in Sessions : MonitorTakes(s) \/ MonitorDrops(s) \/ MonitorForces(s)
  \/ ReportLoaded \/ ReportRefused \/ ReportReplaces \/ ReportAcquires
  \/ ReportUnloaded \/ ReportDrops
  \/ SeeSnapshot \/ WorkerUnloads
  \/ \E m \in Models : WorkerLoads(m)

ResourcesSpec == ResourcesInit /\ [][ResourcesNext]_resourceVars

\* The monitor polls, the command runs, the WebView gets its events and sends
\* its reports.  No session has to start or end and nothing has to be loaded.
ResourcesFairness ==
  /\ \A s \in Sessions :
       SF_resourceVars(MonitorTakes(s)) /\ WF_resourceVars(MonitorDrops(s)) /\ WF_resourceVars(MonitorForces(s))
  /\ WF_resourceVars(ReportLoaded \/ ReportUnloaded)
  /\ WF_resourceVars(ReportRefused \/ ReportReplaces)
  /\ WF_resourceVars(ReportAcquires)
  /\ WF_resourceVars(ReportDrops)
  /\ WF_resourceVars(SeeSnapshot)

FairResourcesSpec == ResourcesSpec /\ ResourcesFairness

-----------------------------------------------------------------------------
(* Properties                                                              *)

ResourcesTypeOK ==
  /\ revision \in Nat
  /\ records \subseteq [token : 1..nextToken, session : Sessions, kind : Kinds]
  /\ \A p, q \in records : p.token = q.token => p = q
  /\ nextToken \in Nat
  /\ native \in [Sessions -> [acquired : BOOLEAN, token : Nat]]
  /\ slot \in [session : Nat, owner : Nat, model : Models \cup {None}, token : Nat]
  /\ report.at \in {"idle", "checked", "acquiring", "dropping"}
  /\ report.token \in Nat
  /\ report.command \in [phase : {None, "loaded"}, session : Nat, owner : Nat,
                         model : Models \cup {None}]
  /\ monitor \in [Sessions -> [at : {"polling", "taken", "dropped", "done"}, token : Nat]]

\* One session at a time owns inference runtimes, and of each kind at most one
\* is loaded (InferenceResourceCoordinator), whoever acquires and drops.
ExclusiveOwnership ==
  \A p, q \in records : p.session = q.session /\ (p.kind = q.kind => p = q)

\* The leases that somebody still has to drop, with their tokens.
Leases ==
  ({slot.token, report.token} \cup {native[s].token : s \in Sessions}
     \cup {monitor[s].token : s \in Sessions}) \ {0}

\* Every record has a lease that will release it, and the lease of an owner
\* has not lost its record to a drop of somebody else: only the monitor's
\* release of its own session takes it away.
LeasesOwnTheirRecords ==
  /\ \A r \in records : r.token \in Leases
  /\ \A s \in Sessions :
       native[s].token # 0 /\ monitor[s].at # "done" =>
         [token |-> native[s].token, session |-> s, kind |-> "native"] \in records
  /\ \A s \in Sessions :
       slot.session = s /\ monitor[s].at # "done" =>
         [token |-> slot.token, session |-> s, kind |-> "translation"] \in records

\* The record of a translation runtime is the truth: once the reports of the
\* WebView are handled, the slot is that of the worker that still runs, for the
\* session it loaded for, and while that session is live with the model it has
\* loaded last.  (The converse is not promised: a load that is refused because
\* of a record of an earlier session is not reported again.)
NoGhostTranslation ==
  outbox = <<>> /\ report = NoReport /\ slot # NoSlot
    => /\ slot.session = bound /\ slot.owner = owner
       /\ Live(revision) /\ SessionOf(revision) = bound => slot.model = loaded

\* "Terminal session cleanup force-releases any remaining record": once the
\* monitor is done with a session no record of it is left or comes back.
ReleasedStaysReleased ==
  \A r \in records : r.session \in Sessions => monitor[r.session].at # "done"

\* Records of a session that is over go away without anybody's help.
DeadRecordsGo == []<>(\A r \in records : ~Over(r.session))
=============================================================================
