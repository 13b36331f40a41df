------------------------ MODULE CaptionPresentation ------------------------
(***************************************************************************)
(* How a caption gets on the screen and off it again: the controller of    *)
(* the main WebView (caption-output.ts) with its LatestPublisher           *)
(* (latest-publisher.ts), the presentation slot of the desktop host        *)
(* (presentation.rs), the overlay WebView with its PresentationCursor      *)
(* (presentation-state.ts, overlay.ts) and the overlay window, shown by    *)
(* start_capture and by closing Appearance, hidden by Stop, by a failure   *)
(* and by opening Appearance (audio.rs, lib.rs).                           *)
(*                                                                         *)
(* Synchronous commands (Stop, update_caption_presentation, Appearance)    *)
(* run one after the other on the main thread, start_capture on a task of  *)
(* its own, and the monitor on a thread.  Of the supervisor only the       *)
(* sequence of its snapshots is kept: snapshots[r] is the one of revision  *)
(* r.                                                                      *)
(***************************************************************************)
EXTENDS Integers, Sequences

CONSTANTS
  MaxSession,        \* bound: audio sessions
  MaxPresentation,   \* bound: frames the controller publishes in a session
  MaxInbox,          \* bound: the user waits while so many frames are on their way
  Occasions          \* bounds: see Occasion

\* "appearance": the Appearance window is opened and closed; "emit": an event
\* cannot be emitted to the overlay; "overtaking": a session is stopped,
\* cleaned up and followed by another one while its monitor or its start
\* stands between reading the snapshot and writing the slot.
DisturbanceKinds == {"appearance", "emit", "overtaking"}

\* A behaviour has so many sessions and frames in each, begins no new work after
\* so many snapshots, and is disturbed in these ways.
Occasion ==
  [sessions : 0..MaxSession, presentations : 0..MaxPresentation, revisions : Nat,
   disturbances : SUBSET DisturbanceKinds]

ASSUME CaptionBounds ==
  MaxSession \in Nat /\ MaxPresentation \in Nat /\ MaxInbox \in Nat /\ Occasions \subseteq Occasion

VARIABLES
  occasion,
  snapshots,   \* the snapshots the supervisor has published
  owned,       \* the supervisor has an active session
  cleaned,     \* sessions whose cleanup has been scheduled
  starting,    \* session -> where its start_capture is, and its first revision
  monitor,     \* session -> where its monitor is, and the revision it acts on
  main,        \* the command on the main thread
  current,     \* CaptionPresentationRuntime.current
  inbox,       \* frames on their way to the overlay
  lost,        \* an event to the overlay could not be emitted
  frame,       \* the frame of the overlay's cursor, which is the one it shows
  window,      \* the overlay window is visible
  appearance,  \* the Appearance window is open
  seen,        \* the revision of the snapshot the main WebView has accepted
  counter,     \* CaptionOutputController.presentationRevision
  pending,     \* LatestPublisher.pending
  sending      \* the frame whose update command has not been answered

hostVars == <<snapshots, owned, cleaned, starting, monitor, main, current>>
eventVars == <<inbox, lost>>
overlayVars == <<eventVars, frame, window, appearance>>
webVars == <<seen, counter, pending, sending>>
captionVars == <<occasion, hostVars, overlayVars, webVars>>

Sessions == 1..MaxSession
Phases == {"live", "failed", "stopping", "over"}
NoFrame == [session |-> 0, runtime |-> 0, presentation |-> 0, content |-> "cleared"]
Frame(s, r, p, content) ==
  [session |-> s, runtime |-> r, presentation |-> p, content |-> content]

Revision == Len(snapshots)
NoSnapshot == [session |-> 0, phase |-> "over"]
SnapshotAt(r) == IF r = 0 THEN NoSnapshot ELSE snapshots[r]
Snapshot == SnapshotAt(Revision)
IsLive(s) == Snapshot = [session |-> s, phase |-> "live"]
Publishes(s, phase) == snapshots' = Append(snapshots, [session |-> s, phase |-> phase])

Disturbed(kind) == kind \in occasion.disturbances

Idle == [at |-> "idle", frame |-> NoFrame, previous |-> NoFrame]

\* start_capture shows the overlay under the control lock.
ControlIsFree == \A s \in Sessions : starting[s].at \notin {"checked", "placed", "emitted"}

CaptionsInit ==
  /\ occasion \in Occasions
  /\ snapshots = <<>> /\ owned = FALSE /\ cleaned = {}
  /\ starting = [s \in Sessions |-> [at |-> "none", revision |-> 0]]
  /\ monitor = [s \in Sessions |-> [at |-> "polling", frame |-> NoFrame]]
  /\ main = Idle /\ current = NoFrame
  /\ inbox = <<>> /\ lost = FALSE /\ frame = NoFrame /\ window = FALSE /\ appearance = FALSE
  /\ seen = 0 /\ counter = 0 /\ pending = NoFrame /\ sending = NoFrame

-----------------------------------------------------------------------------
(* The session                                                             *)

BeginSession ==
  LET s == Snapshot.session + 1
  IN /\ ~owned /\ s <= occasion.sessions
     /\ Revision < occasion.revisions
     /\ ControlIsFree
     /\ owned' = TRUE
     /\ Publishes(s, "live")
     /\ starting' = [starting EXCEPT ![s] = [at |-> "begin", revision |-> Revision + 1]]
     /\ UNCHANGED <<occasion, cleaned, monitor, main, current, overlayVars, webVars>>

\* A new snapshot of a live session: progress, running, waiting, health.
Progress ==
  /\ Snapshot.phase = "live"
  /\ Revision < occasion.revisions
  /\ Publishes(Snapshot.session, "live")
  /\ UNCHANGED <<occasion, owned, cleaned, starting, monitor, main, current, overlayVars, webVars>>

\* A worker fails, or the shutdown takes too long.
SessionFails ==
  /\ owned /\ Snapshot.phase \in {"live", "stopping"}
  /\ Revision < occasion.revisions
  /\ Publishes(Snapshot.session, "failed")
  /\ UNCHANGED <<occasion, owned, cleaned, starting, monitor, main, current, overlayVars, webVars>>

\* The supervisor gives up a session once it is cleaned up.  A failure stays
\* published.
SessionReleased ==
  LET s == Snapshot.session
  IN /\ owned /\ Snapshot.phase \in {"failed", "stopping"}
     /\ s \in cleaned
     /\ ~Disturbed("overtaking") =>
          monitor[s].at \in {"polling", "done"} /\ starting[s].at # "begin" /\ main.at # "stop"
     /\ owned' = FALSE
     /\ IF Snapshot.phase = "stopping" THEN Publishes(s, "over") ELSE UNCHANGED snapshots
     /\ UNCHANGED <<occasion, cleaned, starting, monitor, main, current, overlayVars, webVars>>

-----------------------------------------------------------------------------
(* The slot and the events                                                 *)

\* What clear_and_hide puts into the slot, whoever owns it.
ClearedFrame(s, r) ==
  Frame(s, r, IF current.session = s THEN current.presentation + 1 ELSE 0, "cleared")

\* An event to the overlay.
Emit(f) == inbox' = Append(inbox, f) /\ UNCHANGED lost
EmitFails == Disturbed("emit") /\ lost' = TRUE /\ UNCHANGED inbox

StartBegins(s) ==
  /\ starting[s].at = "begin"
  /\ current' = Frame(s, starting[s].revision, 0, "cleared")
  /\ starting' = [starting EXCEPT ![s] = [at |-> "preparing", revision |-> 0]]
  /\ UNCHANGED <<occasion, snapshots, owned, cleaned, monitor, main, overlayVars, webVars>>

\* Under the control lock start_capture finds the session cancelled or not yet
\* running and leaves the overlay alone, or goes on to show it.
StartChecks(s) ==
  /\ starting[s].at = "preparing"
  /\ ControlIsFree
  /\ \E at \in {"done"} \cup (IF IsLive(s) THEN {"checked"} ELSE {}) :
       starting' = [starting EXCEPT ![s].at = at]
  /\ UNCHANGED <<occasion, snapshots, owned, cleaned, monitor, main, current, overlayVars, webVars>>

\* configure_overlay_window asks the main thread for the monitor, and waits for the
\* answer with the control lock in its hands.  The overlay may have no place.
StartPlaces(s) ==
  /\ starting[s].at = "checked"
  /\ main = Idle
  /\ \E at \in {"placed", "done"} : starting' = [starting EXCEPT ![s].at = at]
  /\ UNCHANGED <<occasion, snapshots, owned, cleaned, monitor, main, current, overlayVars, webVars>>

StartEmits(s) ==
  /\ starting[s].at = "placed"
  /\ \/ Emit(current) /\ starting' = [starting EXCEPT ![s].at = "emitted"]
     \/ EmitFails /\ starting' = [starting EXCEPT ![s].at = "done"]
  /\ UNCHANGED <<occasion, snapshots, owned, cleaned, monitor, main, current, frame, window, appearance, webVars>>

StartShows(s) ==
  /\ starting[s].at = "emitted"
  /\ window' = TRUE
  /\ starting' = [starting EXCEPT ![s].at = "done"]
  /\ UNCHANGED <<occasion, snapshots, owned, cleaned, monitor, main, current, eventVars, frame, appearance, webVars>>

\* The monitor finds its session failed, for the first time.
MonitorSees(s) ==
  /\ monitor[s].at = "polling"
  /\ owned /\ Snapshot = [session |-> s, phase |-> "failed"]
  /\ monitor' = [monitor EXCEPT ![s] = [at |-> "saw", frame |-> Frame(s, Revision, 0, "cleared")]]
  /\ UNCHANGED <<occasion, snapshots, owned, cleaned, starting, main, current, overlayVars, webVars>>

MonitorClears(s) ==
  LET clear == ClearedFrame(s, monitor[s].frame.runtime)
  IN /\ monitor[s].at = "saw"
     /\ current' = clear
     /\ monitor' = [monitor EXCEPT ![s] = [at |-> "cleared", frame |-> clear]]
     /\ UNCHANGED <<occasion, snapshots, owned, cleaned, starting, main, overlayVars, webVars>>

MonitorEmits(s) ==
  /\ monitor[s].at = "cleared"
  /\ Emit(monitor[s].frame) \/ EmitFails
  /\ monitor' = [monitor EXCEPT ![s].at = "emitted"]
  /\ UNCHANGED <<occasion, snapshots, owned, cleaned, starting, main, current, frame, window, appearance, webVars>>

\* It hides the window and schedules the cleanup.
MonitorHides(s) ==
  /\ monitor[s].at = "emitted"
  /\ window' = FALSE
  /\ cleaned' = cleaned \cup {s}
  /\ monitor' = [monitor EXCEPT ![s] = [at |-> "done", frame |-> NoFrame]]
  /\ UNCHANGED <<occasion, snapshots, owned, starting, main, current, eventVars, frame, appearance, webVars>>

-----------------------------------------------------------------------------
(* Commands on the main thread                                             *)

MainGoes(at, f, previous) == main' = [at |-> at, frame |-> f, previous |-> previous]

\* stop_capture, while there is something to stop.  The main thread serves nobody
\* until it has the control lock.
StopPressed ==
  /\ main = Idle
  /\ owned
  /\ Snapshot.phase = "stopping" =>
       current.presentation < occasion.presentations /\ Len(inbox) < MaxInbox
  /\ MainGoes("lock", NoFrame, NoFrame)
  /\ UNCHANGED <<occasion, snapshots, owned, cleaned, starting, monitor, current, overlayVars, webVars>>

\* A session that is already stopping is cleared once more.
StopRequests ==
  LET s == Snapshot.session
      r == IF Snapshot.phase = "stopping" THEN Revision ELSE Revision + 1
  IN /\ main.at = "lock"
     /\ ControlIsFree
     /\ IF owned /\ Snapshot.phase # "stopping" THEN Publishes(s, "stopping") ELSE UNCHANGED snapshots
     /\ IF owned THEN MainGoes("stop", Frame(s, r, 0, "cleared"), NoFrame) ELSE main' = Idle
     /\ UNCHANGED <<occasion, owned, cleaned, starting, monitor, current, overlayVars, webVars>>

StopClears ==
  LET clear == ClearedFrame(main.frame.session, main.frame.runtime)
  IN /\ main.at = "stop"
     /\ current' = clear
     /\ MainGoes("stopEmit", clear, NoFrame)
     /\ UNCHANGED <<occasion, snapshots, owned, cleaned, starting, monitor, overlayVars, webVars>>

StopEmits ==
  /\ main.at = "stopEmit"
  /\ Emit(main.frame) \/ EmitFails
  /\ MainGoes("stopHide", main.frame, NoFrame)
  /\ UNCHANGED <<occasion, snapshots, owned, cleaned, starting, monitor, current, frame, window, appearance, webVars>>

StopHides ==
  /\ main.at = "stopHide"
  /\ window' = FALSE
  /\ cleaned' = cleaned \cup {main.frame.session}
  /\ main' = Idle
  /\ UNCHANGED <<occasion, snapshots, owned, starting, monitor, current, eventVars, frame, appearance, webVars>>

\* update_caption_presentation: the snapshot first, then the slot, then the
\* event, and the slot again when the event is not emitted.
UpdateChecks ==
  /\ main = Idle
  /\ sending # NoFrame
  /\ IF IsLive(sending.session) /\ sending.runtime <= Revision
     THEN MainGoes("update", sending, NoFrame) /\ UNCHANGED sending
     ELSE sending' = NoFrame /\ UNCHANGED main
  /\ UNCHANGED <<occasion, snapshots, owned, cleaned, starting, monitor, current, overlayVars, seen, counter, pending>>

\* Faulty: the runtime revision of the frame is not looked at.
OutdatedNumber(f) ==
  /\ current # NoFrame
  /\ current.session # f.session \/ f.presentation <= current.presentation
Outdated(f) ==
  /\ current # NoFrame
  /\ \/ current.session # f.session
     \/ f.runtime < current.runtime
     \/ f.presentation <= current.presentation

UpdateReplaces ==
  /\ main.at = "update"
  /\ IF Outdated(main.frame)
     THEN main' = Idle /\ sending' = NoFrame /\ UNCHANGED current
     ELSE /\ MainGoes("updateEmit", main.frame, current)
          /\ current' = main.frame
          /\ UNCHANGED sending
  /\ UNCHANGED <<occasion, snapshots, owned, cleaned, starting, monitor, overlayVars, seen, counter, pending>>

UpdateEmits ==
  /\ main.at = "updateEmit"
  /\ \/ Emit(main.frame) /\ UNCHANGED current
     \/ EmitFails /\ current' = main.previous
  /\ main' = Idle
  /\ sending' = NoFrame
  /\ UNCHANGED <<occasion, snapshots, owned, cleaned, starting, monitor, frame, window, appearance,
                 seen, counter, pending>>

ShowAppearance ==
  /\ main = Idle
  /\ Disturbed("appearance") /\ ~appearance
  /\ appearance' = TRUE
  /\ window' = FALSE
  /\ UNCHANGED <<occasion, hostVars, eventVars, frame, webVars>>

\* The overlay comes back if captions are live, as start_capture shows it.
CloseAppearance ==
  /\ main = Idle
  /\ appearance /\ Len(inbox) < MaxInbox
  /\ appearance' = FALSE
  /\ IF Snapshot.phase = "live"
     THEN MainGoes("restore", NoFrame, NoFrame) /\ UNCHANGED window
     ELSE window' = FALSE /\ UNCHANGED main
  /\ UNCHANGED <<occasion, snapshots, owned, cleaned, starting, monitor, current, eventVars, frame, webVars>>

RestoreEmits ==
  /\ main.at = "restore"
  /\ \/ /\ IF current = NoFrame THEN UNCHANGED eventVars ELSE Emit(current)
        /\ MainGoes("restoreShow", NoFrame, NoFrame)
     \/ EmitFails /\ main' = Idle
  /\ UNCHANGED <<occasion, snapshots, owned, cleaned, starting, monitor, current, frame, window, appearance, webVars>>

RestoreShows ==
  /\ main.at = "restoreShow"
  /\ window' = TRUE
  /\ main' = Idle
  /\ UNCHANGED <<occasion, snapshots, owned, cleaned, starting, monitor, current, eventVars, frame, appearance, webVars>>

-----------------------------------------------------------------------------
(* The WebViews                                                            *)

\* acceptsPresentationFrame.
\* Faulty: the frames of one session are taken to arrive in order.
AcceptsSession(f) ==
  frame = NoFrame \/ f.session = frame.session \/ f.runtime > frame.runtime
Accepts(f) ==
  \/ frame = NoFrame
  \/ /\ f.runtime >= frame.runtime
     /\ IF f.session # frame.session THEN f.runtime > frame.runtime
        ELSE f.presentation > frame.presentation

OverlayReceives ==
  /\ inbox # <<>>
  /\ inbox' = Tail(inbox)
  /\ frame' = IF Accepts(Head(inbox)) THEN Head(inbox) ELSE frame
  /\ UNCHANGED <<occasion, hostVars, lost, window, appearance, webVars>>

\* publish: the controller's frame replaces the one LatestPublisher holds.  A
\* frame without entries is not told apart from one with a caption.
\* Faulty: nothing is held while another frame is on its way.
PublishWhenIdle(s, r, p) ==
  /\ counter' = p
  /\ pending' = IF sending = NoFrame THEN Frame(s, r, p, "caption") ELSE pending
Publish(s, r, p) ==
  /\ counter' = p
  /\ pending' = Frame(s, r, p, "caption")

Epoch == SnapshotAt(seen)

\* A snapshot arrives and begins, goes on with or ends the epoch of captions.
\* The first one of a session is published after its start has begun.
SeeSnapshot ==
  \E r \in (seen + 1)..Revision :
    LET next == snapshots[r]
        p == IF next.session = Epoch.session /\ Epoch.phase = "live" THEN counter + 1 ELSE 1
    IN /\ next.phase = "live" => starting[next.session].at # "begin" /\ p <= occasion.presentations
       /\ seen' = r
       /\ IF next.phase = "live" THEN Publish(next.session, r, p) ELSE UNCHANGED <<counter, pending>>
       /\ UNCHANGED <<occasion, hostVars, overlayVars, sending>>

\* A transcript, a translation or a setting changes.
CaptionsChange ==
  /\ Epoch.phase = "live"
  /\ counter < occasion.presentations
  /\ Publish(Epoch.session, seen, counter + 1)
  /\ UNCHANGED <<occasion, hostVars, overlayVars, seen, sending>>

\* LatestPublisher.flush: one frame at a time, the newest one.
Flush ==
  /\ sending = NoFrame
  /\ pending # NoFrame
  /\ sending' = pending
  /\ pending' = NoFrame
  /\ UNCHANGED <<occasion, hostVars, overlayVars, seen, counter>>

-----------------------------------------------------------------------------
StartStep(s) == StartBegins(s) \/ StartChecks(s) \/ StartPlaces(s) \/ StartEmits(s) \/ StartShows(s)
MonitorStep(s) == MonitorSees(s) \/ MonitorClears(s) \/ MonitorEmits(s) \/ MonitorHides(s)
StopStep == StopRequests \/ StopClears \/ StopEmits \/ StopHides
UpdateStep == UpdateChecks \/ UpdateReplaces \/ UpdateEmits
RestoreStep == RestoreEmits \/ RestoreShows

CaptionsNext ==
  \/ BeginSession \/ Progress \/ SessionFails \/ SessionReleased
  \/ \E s \in Sessions : StartStep(s) \/ MonitorStep(s)
  \/ StopPressed \/ StopStep \/ UpdateStep
  \/ ShowAppearance \/ CloseAppearance \/ RestoreStep
  \/ OverlayReceives \/ SeeSnapshot \/ CaptionsChange \/ Flush

CaptionsSpec == CaptionsInit /\ [][CaptionsNext]_captionVars

\* Threads run, events arrive and promises settle.  The main thread serves an
\* update whenever it is free again and again, whatever the user does in between;
\* it is not free any more in Deadlocked, below.
CaptionsFairness ==
  /\ \A s \in Sessions : WF_captionVars(StartStep(s)) /\ WF_captionVars(MonitorStep(s))
  /\ WF_captionVars(StopStep) /\ SF_captionVars(UpdateStep) /\ WF_captionVars(RestoreStep)
  /\ WF_captionVars(OverlayReceives) /\ WF_captionVars(Flush)

FairCaptionsSpec == CaptionsSpec /\ CaptionsFairness

-----------------------------------------------------------------------------
(* Properties                                                              *)

FrameType ==
  [session : 0..MaxSession, runtime : Nat, presentation : Nat, content : {"cleared", "caption"}]

CaptionsTypeOK ==
  /\ \A r \in 1..Revision : snapshots[r] \in [session : Sessions, phase : Phases]
  /\ owned \in BOOLEAN /\ cleaned \subseteq Sessions
  /\ starting \in [Sessions -> [at : {"none", "begin", "preparing", "checked", "placed", "emitted", "done"},
                                revision : Nat]]
  /\ monitor \in [Sessions -> [at : {"polling", "saw", "cleared", "emitted", "done"},
                               frame : FrameType]]
  /\ main.frame \in FrameType /\ main.previous \in FrameType
  /\ {current, frame, pending, sending} \subseteq FrameType
  /\ \A i \in 1..Len(inbox) : inbox[i] \in FrameType \ {NoFrame}
  /\ lost \in BOOLEAN /\ seen \in 0..Revision
  /\ counter \in 0..MaxPresentation

\* A start waits for the main thread with the control lock in its hands, and Stop
\* waits for that lock on the main thread: the windows are served no more.
Deadlocked == main.at = "lock" /\ \E s \in Sessions : starting[s].at = "checked"

\* Nobody is in the middle of anything, and nobody waits: what is on the screen
\* stays there until something new happens.
Settled ==
  /\ main = Idle /\ inbox = <<>>
  /\ \A s \in Sessions :
       /\ starting[s].at \in {"none", "preparing", "done"}
       /\ monitor[s].at \in {"polling", "done"}
       /\ owned /\ monitor[s].at = "polling" => Snapshot # [session |-> s, phase |-> "failed"]

\* A caption of a session is never shown again after the clear that ended it.
ClearedForGood ==
  [][frame'.session = frame.session /\ frame'.content = "caption" /\ frame # NoFrame
       => snapshots[frame.runtime].phase = "live"]_captionVars

\* "A delayed translation or publish cannot revive a stopped session": when
\* everything has settled and no event was lost, a caption is on the overlay
\* only if its session is live, however late its last frames were accepted and
\* delivered.  And although the host and the overlay apply different rules to
\* the frames, it is the one that the host has accepted last.  A host that is
\* Deadlocked does not settle.
HostAndOverlayAgree ==
  Settled /\ ~lost /\ (current.content = "caption" \/ frame.content = "caption")
    => frame = current /\ IsLive(frame.session)

\* The newest frame of a live session is shown, or a newer one is, although
\* only one replacement is kept while a publish is in flight; only the loss of
\* an event may prevent it, and a Stop that meets the start while it shows the
\* overlay and never comes back (Deadlocked).
LatestIsShown ==
  []<>(\/ lost \/ Deadlocked \/ Epoch.phase # "live" \/ ~IsLive(Epoch.session)
       \/ frame.session = Epoch.session /\ frame.presentation >= counter)

\* "Clear and hide both overlays immediately from native Stop/failure
\* handling": the window is not left visible by a session that is not live.
HiddenUnlessLive == Settled /\ window => Snapshot.phase = "live"

\* The slot is that of the live session, so that its frames are accepted.
LiveSessionOwnsTheSlot ==
  Settled /\ Snapshot.phase = "live" => current.session = Snapshot.session

\* "Hide it while the Appearance surface is open".
AppearanceIsUncovered == ~(appearance /\ window)
=============================================================================
