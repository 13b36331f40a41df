---------------------------- MODULE ScreenCapture ----------------------------
(***************************************************************************)
(* Sharing a screen on Linux, from the desktop's picker to the frames OCR  *)
(* reads.  Four threads take part and share a stop flag:                   *)
(*  - the portal thread (visual-pipewire/portal.rs) asks the desktop for a *)
(*    session over D-Bus, watches for its end and reports how it ended;    *)
(*  - the video thread (video.rs) negotiates a format on the PipeWire node *)
(*    and publishes frames in a one-slot channel (visual-pipeline/         *)
(*    latest.rs), each change of geometry announced before its frame;      *)
(*  - the startup worker of the application (visual_portal.rs) waits for a *)
(*    picture, on which the user may draw a region;                        *)
(*  - the forwarder, started by it, crops what it takes from the slot.     *)
(* Left out: pixels (a frame is its number and its geometry), the contents *)
(* of requests, the window the picker belongs to, log and error texts.     *)
(***************************************************************************)
EXTENDS Integers, Sequences

CONSTANTS
  Setups,        \* whether a region is asked for, and whether GPU buffers can be read
  Source,        \* the frames of the source: how the n-th may be cropped and turned
  Size,          \* the size of the picture each of these geometries gives
  EventCap,      \* room in the capture's event queue
  SinkCap,       \* room in the forwarder's event queue
  Patience       \* ticks the video thread waits for a readable frame

\* The code's queues have room for sixteen events.
ASSUME CaptureBounds ==
  /\ Setups \subseteq [region : BOOLEAN, gpu : BOOLEAN]
  /\ Source \in Seq(SUBSET (Int \ {0}))
  /\ EventCap \in Nat /\ EventCap >= 3

VARIABLES
  region,      \* the user asked for a region of a monitor
  stop,        \* the capture's stop flag
  cancelled,   \* the session's cancellation token
  portal,      \* the portal thread: pc, result, and whether it saw the sharing revoked
  answer,      \* the desktop's response to the request in flight
  sharing,     \* the desktop's view of the portal session
  revoked,     \* how the desktop ended it: its Closed signal, or by restarting
  video,       \* the video thread: pc, outcome, format, announced geometry, waiting time
  gpuOffered,  \* GPU formats are still offered
  frame,       \* the frame being published, and the last one that was
  slot,        \* the one-slot frame channel
  eventQueue,  \* the capture's event queue
  app,         \* the startup worker, then PortalCapture: "stopping" is its stop flag
  geometry,    \* PortalGeometry: the geometry frames are read with
  drawn,       \* the geometry of the picture the region was drawn on
  forwarder,   \* the forwarder: pc, and whether the frame channel is closed
  held,        \* the frame the startup worker or the forwarder holds
  output,      \* the last frame forwarded, and the geometry it was cropped with
  sink,        \* the forwarder's event queue
  told         \* the end the session was told of

flags == <<region, stop, cancelled, revoked>>
portalVars == <<portal, answer, sharing>>
videoVars == <<video, gpuOffered, frame>>
appVars == <<app, geometry, drawn, forwarder, held, output, sink, told>>
vars == <<flags, portalVars, videoVars, slot, eventQueue, appVars>>

MaxFrames == Len(Source)
NoGeometry == 0
NoFrame == [n |-> 0, geometry |-> NoGeometry]
Idle == -1      \* awaiting_frame is None
Terminals == {"Closed", "Cancelled", "Failed"}
Event(kind) == [kind |-> kind, geometry |-> NoGeometry]
FormatChanged(g) == [kind |-> "FormatChanged", geometry |-> g]
Requests == {"create", "select", "start", "open"}
Following == [create |-> "select", select |-> "start", start |-> "open", open |-> "streaming"]
FramesClosed ==
  \/ video.pc = "ended"
  \/ video.pc = "none" /\ portal.pc \in {"disconnect", "reporting", "ended"}

Init ==
  /\ \E setup \in Setups : region = setup.region /\ gpuOffered = setup.gpu
  /\ stop = FALSE /\ cancelled = FALSE
  /\ portal = [pc |-> "connect", result |-> "none", noticed |-> FALSE]
  /\ answer = "none" /\ sharing = "no" /\ revoked = "no"
  /\ video = [pc |-> "none", outcome |-> "none", format |-> "none",
              announced |-> NoGeometry, waited |-> Idle]
  /\ frame = NoFrame /\ slot = NoFrame /\ eventQueue = <<>>
  /\ app = "geometry" /\ geometry = NoGeometry /\ drawn = NoGeometry
  /\ forwarder = [pc |-> "none", closed |-> FALSE]
  /\ held = NoFrame /\ output = [frame |-> NoFrame, under |-> NoGeometry]
  /\ sink = <<>> /\ told = "no"

-----------------------------------------------------------------------------
(* The desktop.                                                            *)

\* A response to the request in flight.  Closing a request ends it, so none
\* comes after the portal thread has gone on.
Answer ==
  /\ portal.pc \in Requests /\ answer = "none"
  /\ answer' \in {"ok", "dismissed", "rejected"}
  /\ sharing' = IF answer' # "ok" THEN sharing
                ELSE CASE portal.pc = "create" -> "created"
                       [] portal.pc = "start" -> "live"
                       [] OTHER -> sharing
  /\ UNCHANGED <<flags, portal, videoVars, slot, eventQueue, appVars>>

\* The user ends the sharing, or the desktop's service restarts.
Revoke ==
  /\ sharing # "no" /\ revoked = "no"
  /\ revoked' \in {"Closed", "Failed"}
  /\ UNCHANGED <<region, stop, cancelled, portalVars, videoVars, slot, eventQueue, appVars>>

-----------------------------------------------------------------------------
(* The portal thread.                                                      *)

\* The work is over; an end that was seen before decides the result.
EndWork(result) ==
  portal' = [portal EXCEPT !.pc = IF portal.pc = "connect" THEN "disconnect" ELSE "closing",
                           !.result = IF portal.noticed THEN revoked ELSE result]

Connect ==
  /\ portal.pc = "connect"
  /\ \/ portal' = [portal EXCEPT !.pc = "create"]
     \/ EndWork("Failed")
     \/ stop /\ EndWork("Cancelled")
  /\ UNCHANGED <<flags, answer, sharing, videoVars, slot, eventQueue, appVars>>

\* A request is granted.  With the last one comes the stream to read.
Proceed ==
  /\ portal.pc \in Requests /\ answer = "ok"
  /\ revoked = "no" \/ portal.noticed
  /\ answer' = "none"
  /\ portal' = [portal EXCEPT !.pc = Following[portal.pc]]
  /\ IF portal.pc = "open"
       THEN /\ eventQueue' = Append(eventQueue, Event("Selected"))
            /\ video' = [video EXCEPT !.pc = "opening"]
       ELSE UNCHANGED <<eventQueue, video>>
  /\ UNCHANGED <<flags, sharing, gpuOffered, frame, slot, appVars>>

\* A request is refused, answers nonsense, or is not answered in time, which for
\* the picker means that the call itself is not.
Refused ==
  /\ portal.pc \in Requests
  /\ EndWork(IF answer = "dismissed" THEN "Cancelled" ELSE "Failed")
  /\ answer' = "none"
  /\ UNCHANGED <<flags, sharing, videoVars, slot, eventQueue, appVars>>

CancelRequest ==
  /\ portal.pc \in Requests /\ stop
  /\ EndWork("Cancelled")
  /\ answer' = "none"
  /\ UNCHANGED <<flags, sharing, videoVars, slot, eventQueue, appVars>>

\* As a fault: the work is dropped.
NoticeAndLeave ==
  /\ portal.pc \in Requests \cup {"streaming"} /\ revoked # "no"
  /\ stop' = TRUE
  /\ portal' = [portal EXCEPT !.pc = "closing", !.result = revoked]
  /\ UNCHANGED <<region, cancelled, revoked, answer, sharing, videoVars, slot, eventQueue, appVars>>

\* The end of the session is seen first, but the work is awaited.
Notice ==
  /\ portal.pc \in Requests \cup {"streaming"}
  /\ revoked # "no" /\ ~portal.noticed
  /\ stop' = TRUE
  /\ portal' = [portal EXCEPT !.noticed = TRUE]
  /\ UNCHANGED <<region, cancelled, revoked, answer, sharing, videoVars, slot, eventQueue, appVars>>

Watch ==
  /\ portal.pc = "streaming"
  /\ stop \/ video.pc = "ended"
  /\ stop' = TRUE
  /\ portal' = [portal EXCEPT !.pc = "joining"]
  /\ UNCHANGED <<region, cancelled, revoked, answer, sharing, videoVars, slot, eventQueue, appVars>>

JoinVideo ==
  /\ portal.pc = "joining" /\ video.pc = "ended"
  /\ EndWork(video.outcome)
  /\ UNCHANGED <<flags, answer, sharing, videoVars, slot, eventQueue, appVars>>

\* The desktop may ignore Close, but not that the connection is gone.
CloseSession ==
  /\ portal.pc = "closing"
  /\ portal' = [portal EXCEPT !.pc = "disconnect"]
  /\ sharing' \in {"no", sharing}
  /\ UNCHANGED <<flags, answer, videoVars, slot, eventQueue, appVars>>

Disconnect ==
  /\ portal.pc = "disconnect"
  /\ portal' = [portal EXCEPT !.pc = "reporting"]
  /\ sharing' = "no" /\ slot' = NoFrame
  /\ UNCHANGED <<flags, answer, videoVars, eventQueue, appVars>>

\* The end is reported even to a consumer that is not keeping up.
ReportEnd ==
  /\ portal.pc = "reporting"
  /\ IF Len(eventQueue) >= EventCap
       THEN eventQueue' = Tail(eventQueue) /\ UNCHANGED portal
       ELSE /\ eventQueue' = Append(eventQueue, Event(portal.result))
            /\ portal' = [portal EXCEPT !.pc = "ended"]
  /\ UNCHANGED <<flags, answer, sharing, videoVars, slot, appVars>>

-----------------------------------------------------------------------------
(* The video thread.                                                       *)

Ended(outcome) == [video EXCEPT !.pc = "ended", !.outcome = outcome, !.format = "none",
                                !.waited = Idle]
OnlyVideo == UNCHANGED <<flags, portalVars, slot, eventQueue, appVars>>

OpenStream ==
  /\ video.pc = "opening"
  /\ \/ ~stop /\ video' = [video EXCEPT !.pc = "running", !.waited = 0]
     \/ stop /\ video' = Ended("Cancelled")
     \/ video' = Ended("Failed")
  /\ UNCHANGED <<gpuOffered, frame>> /\ OnlyVideo

\* param_changed: a format is taken away, or negotiated from those still offered.
NegotiateFormat ==
  /\ video.pc = "running"
  /\ \E format \in {"none", "memory", "gpu"} :
       video' = IF format = "gpu" /\ ~gpuOffered THEN Ended("Failed")
                ELSE [video EXCEPT !.format = format, !.waited = IF @ = Idle THEN 0 ELSE @]
  /\ UNCHANGED <<gpuOffered, frame>> /\ OnlyVideo

\* The GPU cannot read the buffer: ask the same stream for memory instead.
FallBack ==
  /\ video' = [video EXCEPT !.format = "none", !.waited = 0]
  /\ gpuOffered' = FALSE
FailedImport ==
  /\ video.pc = "running" /\ video.format = "gpu"
  /\ \/ FallBack
     \/ stop /\ video' = Ended("Cancelled") /\ UNCHANGED gpuOffered
  /\ UNCHANGED frame /\ OnlyVideo

\* process: a readable buffer.  Its geometry is announced before it is published.
ReadBuffer ==
  /\ video.pc = "running" /\ video.format # "none" /\ frame.n < MaxFrames
  /\ \E g \in Source[frame.n + 1] :
       IF g # video.announced /\ Len(eventQueue) >= EventCap
         THEN video' = Ended("Failed") /\ UNCHANGED <<eventQueue, frame>>
         ELSE /\ eventQueue' = IF g = video.announced THEN eventQueue ELSE Append(eventQueue, FormatChanged(g))
              /\ video' = [video EXCEPT !.pc = "sending", !.announced = g]
              /\ frame' = [n |-> frame.n + 1, geometry |-> g]
  /\ UNCHANGED <<flags, portalVars, gpuOffered, slot, appVars>>

\* As a fault: a full slot keeps the frame it has.
SendFrameIfRoom ==
  /\ video.pc \in {"sending", "replacing"}
  /\ slot' = IF slot = NoFrame THEN frame ELSE slot
  /\ video' = [video EXCEPT !.pc = "running", !.waited = Idle]
  /\ UNCHANGED <<flags, portalVars, gpuOffered, frame, eventQueue, appVars>>

\* LatestFrameSender.send: a frame nobody took makes room for the next.
SendFrame ==
  /\ video.pc \in {"sending", "replacing"}
  /\ IF video.pc = "sending" /\ slot # NoFrame
       THEN video' = [video EXCEPT !.pc = "replacing"] /\ UNCHANGED slot
       ELSE /\ slot' = frame
            /\ video' = [video EXCEPT !.pc = "running", !.waited = Idle]
  /\ UNCHANGED <<flags, portalVars, gpuOffered, frame, eventQueue, appVars>>

\* The loop ends: it was told to stop, the node went away, or its connection broke.
LeaveLoop ==
  /\ video.pc = "running"
  /\ \/ stop /\ video' = Ended("Closed")
     \/ video' \in {Ended("Closed"), Ended("Failed")}
  /\ UNCHANGED <<gpuOffered, frame>> /\ OnlyVideo

\* Time passes without a readable frame, up to START_TIMEOUT.
WaitForFrame ==
  /\ video.pc = "running" /\ video.waited # Idle
  /\ video' = IF video.waited < Patience THEN [video EXCEPT !.waited = @ + 1] ELSE Ended("Failed")
  /\ UNCHANGED <<gpuOffered, frame>> /\ OnlyVideo

-----------------------------------------------------------------------------
(* The startup worker.  To give up is to drop the CaptureSession, which    *)
(* stops it and waits for the portal thread.                               *)

OnlyApp == UNCHANGED <<flags, portalVars, videoVars>>
GiveUp ==
  /\ app' = "dropping"
  /\ stop' = TRUE
  /\ eventQueue' = <<>>      \* nobody reads them any more
  /\ UNCHANGED <<region, cancelled, revoked, portalVars, videoVars, slot, geometry,
                 drawn, forwarder, held, output, sink, told>>

\* As a fault: only the size counts.
ChangesSize(e) == e.kind = "FormatChanged" /\ Size[e.geometry] # Size[geometry]

\* The picture is not what it was, even if it has the same size.
Changes(e) == e.kind = "FormatChanged" /\ e.geometry # geometry
Surprised == \E i \in DOMAIN eventQueue : eventQueue[i].kind \in Terminals \/ Changes(eventQueue[i])

WaitForGeometry ==
  /\ app = "geometry" /\ eventQueue # <<>> /\ Head(eventQueue).kind \notin Terminals
  /\ eventQueue' = Tail(eventQueue)
  /\ IF Head(eventQueue).kind = "FormatChanged"
       THEN geometry' = Head(eventQueue).geometry /\ app' = "checking"
       ELSE UNCHANGED <<geometry, app>>
  /\ UNCHANGED <<slot, drawn, forwarder, held, output, sink, told>> /\ OnlyApp

\* check_startup_events, before each look at the frames, while the region is
\* drawn, and before the forwarder starts.
CheckStartup ==
  /\ app \in {"checking", "drawn"} /\ ~Surprised
  /\ eventQueue' = <<>>
  /\ app' = IF app = "drawn" THEN "forwarding" ELSE "receiving"
  /\ forwarder' = IF app = "drawn" THEN [pc |-> "choose", closed |-> FALSE] ELSE forwarder
  /\ UNCHANGED <<slot, geometry, drawn, held, output, sink, told>> /\ OnlyApp

ReceiveFirst ==
  /\ app = "receiving"
  /\ \/ slot = NoFrame /\ ~FramesClosed /\ app' = "checking" /\ UNCHANGED <<slot, held>>
     \/ /\ slot # NoFrame /\ Size[slot.geometry] = Size[geometry]
        /\ held' = slot /\ slot' = NoFrame
        /\ app' = IF region THEN "drawing" ELSE "drawn"
  /\ UNCHANGED <<eventQueue, geometry, drawn, forwarder, output, sink, told>> /\ OnlyApp

DrawRegion ==
  /\ app = "drawing"
  /\ drawn' = held.geometry
  /\ app' = "drawn"
  /\ UNCHANGED <<slot, eventQueue, geometry, forwarder, held, output, sink, told>> /\ OnlyApp

AbandonStartup ==
  /\ \/ app \in {"geometry", "checking", "drawing"} /\ cancelled
     \/ app = "geometry" /\ eventQueue # <<>> /\ Head(eventQueue).kind \in Terminals
     \/ app \in {"checking", "drawing", "drawn"} /\ Surprised
     \/ app = "receiving" /\ slot = NoFrame /\ FramesClosed
     \/ app = "receiving" /\ slot # NoFrame /\ Size[slot.geometry] # Size[geometry]
  /\ GiveUp
DismissRegion == app = "drawing" /\ GiveUp

-----------------------------------------------------------------------------
(* The forwarder.                                                          *)

OnlyForwarder == UNCHANGED <<flags, portalVars, videoVars, app, drawn, told>>
Stopping == cancelled \/ app \in {"stopping", "joining"}

\* As a fault: a full queue takes no event.
ToldIfRoom(e) == IF Len(sink) < SinkCap THEN Append(sink, e) ELSE sink

\* EventSink.send: what was not taken yet makes room for what is newer.
Told(e) == IF Len(sink) < SinkCap THEN Append(sink, e) ELSE <<e>>
EndForwarding(e) ==
  /\ sink' = Told(e)
  /\ forwarder' = [forwarder EXCEPT !.pc = "over"]
  /\ UNCHANGED <<geometry, held, output>>

ChooseFrame ==
  /\ forwarder.pc = "choose" /\ ~Stopping
  /\ held' = IF slot = NoFrame THEN held ELSE slot
  /\ slot' = NoFrame
  /\ forwarder' = [pc |-> "drain", closed |-> FramesClosed /\ held = NoFrame /\ slot = NoFrame]
  /\ UNCHANGED <<eventQueue, geometry, output, sink>> /\ OnlyForwarder

\* The events are read after the frame was chosen: they tell how to read it.
DrainEvent ==
  /\ forwarder.pc = "drain" /\ eventQueue # <<>>
  /\ eventQueue' = Tail(eventQueue)
  /\ LET e == Head(eventQueue)
         changes == Changes(e)
     IN \/ e.kind \in {"Closed", "Cancelled"} /\ EndForwarding("SourceClosed")
        \/ (e.kind = "Failed" \/ (changes /\ region)) /\ EndForwarding("Failed")
        \/ /\ changes /\ ~region
           /\ geometry' = e.geometry
           /\ sink' = Told("Started")
           /\ UNCHANGED <<forwarder, held, output>>
        \/ /\ e.kind \notin Terminals /\ ~changes
           /\ UNCHANGED <<geometry, sink, forwarder, held, output>>
  /\ UNCHANGED slot /\ OnlyForwarder

ForwardFrame ==
  /\ forwarder.pc = "drain" /\ eventQueue = <<>>
  /\ IF forwarder.closed
       THEN EndForwarding("SourceClosed")
       ELSE /\ output' = IF held # NoFrame /\ Size[held.geometry] = Size[geometry]
                           THEN [frame |-> held, under |-> geometry] ELSE output
            /\ held' = NoFrame
            /\ forwarder' = [forwarder EXCEPT !.pc = "choose"]
            /\ UNCHANGED <<geometry, sink>>
  /\ UNCHANGED <<slot, eventQueue>> /\ OnlyForwarder

QuitForwarding ==
  /\ forwarder.pc = "choose" /\ Stopping
  /\ forwarder' = [forwarder EXCEPT !.pc = "over"]
  /\ UNCHANGED <<slot, eventQueue, geometry, held, output, sink>> /\ OnlyForwarder

-----------------------------------------------------------------------------
(* The session that captures.                                              *)

Cancel ==
  /\ ~cancelled
  /\ cancelled' = TRUE
  /\ UNCHANGED <<region, stop, revoked, portalVars, videoVars, slot, eventQueue, appVars>>

TakeEvent ==
  /\ sink # <<>>
  /\ told' = IF Head(sink) = "Started" THEN told ELSE Head(sink)
  /\ sink' = Tail(sink)
  /\ UNCHANGED <<slot, eventQueue, app, geometry, drawn, forwarder, held, output>> /\ OnlyApp

\* PortalCapture.stop: first the flags, then wait for the portal thread, drain
\* the frames, and wait for the forwarder.
Release ==
  /\ app = "forwarding"
  /\ app' = "stopping"
  /\ stop' = TRUE
  /\ UNCHANGED <<region, cancelled, revoked, portalVars, videoVars, slot, eventQueue, geometry,
                 drawn, forwarder, held, output, sink, told>>
JoinPortal ==
  /\ app \in {"stopping", "dropping"} /\ portal.pc = "ended"
  /\ slot' = NoFrame
  /\ app' = IF app = "dropping" THEN "over" ELSE "joining"
  /\ UNCHANGED <<eventQueue, geometry, drawn, forwarder, held, output, sink, told>> /\ OnlyApp
JoinForwarder ==
  /\ app = "joining" /\ forwarder.pc = "over"
  /\ app' = "over"
  /\ UNCHANGED <<slot, eventQueue, geometry, drawn, forwarder, held, output, sink, told>> /\ OnlyApp

-----------------------------------------------------------------------------

PortalStep ==
  \/ CancelRequest \/ Notice \/ Watch \/ JoinVideo \/ CloseSession \/ Disconnect
  \/ ReportEnd
StartupStep == WaitForGeometry \/ CheckStartup \/ ReceiveFirst
ForwarderStep == ChooseFrame \/ DrainEvent \/ ForwardFrame \/ QuitForwarding
ReleaseStep == JoinPortal \/ JoinForwarder

Next ==
  \/ Answer \/ Revoke \/ Connect \/ Proceed \/ Refused \/ PortalStep
  \/ OpenStream \/ NegotiateFormat \/ FailedImport \/ ReadBuffer \/ SendFrame
  \/ LeaveLoop \/ WaitForFrame
  \/ StartupStep \/ DrawRegion \/ AbandonStartup \/ DismissRegion \/ ForwarderStep
  \/ Cancel \/ TakeEvent \/ Release \/ ReleaseStep

Spec == Init /\ [][Next]_vars

\* Threads run, queues are read, and a session that is cancelled is released.  The
\* user and the desktop may leave a request unanswered, and a source may be silent.
FairSpec ==
  /\ Spec
  /\ WF_vars(Connect) /\ WF_vars(Proceed) /\ WF_vars(PortalStep)
  /\ WF_vars(OpenStream) /\ WF_vars(SendFrame) /\ WF_vars(stop /\ LeaveLoop)
  /\ WF_vars(WaitForFrame)
  /\ WF_vars(StartupStep) /\ WF_vars(AbandonStartup) /\ WF_vars(ForwarderStep)
  /\ WF_vars(TakeEvent) /\ WF_vars(cancelled /\ Release) /\ WF_vars(ReleaseStep)

-----------------------------------------------------------------------------
(* Properties.                                                             *)

TypeOK ==
  /\ {region, stop, cancelled, gpuOffered} \subseteq BOOLEAN
  /\ portal.result \in Terminals \cup {"none"} /\ video.outcome \in Terminals \cup {"none"}
  /\ sharing \in {"no", "created", "live"} /\ revoked \in {"no", "Closed", "Failed"}
  /\ Len(eventQueue) <= EventCap /\ Len(sink) <= SinkCap
  /\ {slot.n, held.n, output.frame.n} \subseteq 0..frame.n /\ frame.n <= MaxFrames
  /\ {geometry, drawn, video.announced} \subseteq DOMAIN Size \cup {NoGeometry}

\* Once the capture was stopped, or a start gave up, nothing of it is left: the
\* desktop shares no screen with it, no thread reads the stream, and no picture
\* lies in the channel (CaptureSession.stop, PortalCapture.stop).
StoppedIsUnshared ==
  app = "over" =>
    /\ sharing = "no"
    /\ video.pc \in {"none", "ended"}
    /\ slot = NoFrame
    /\ forwarder.pc \in {"none", "over"}

\* A picture is never cropped with a region that was drawn on a picture of another
\* geometry, whatever its size, nor read with a geometry of another size
\* (check_startup_events and the order in forward_frames).
RegionIsAsDrawn ==
  output.frame # NoFrame =>
    /\ Size[output.frame.geometry] = Size[output.under]
    /\ region => {output.frame.geometry, output.under} = {drawn}

\* Both sides learn that the other has ended.  A capture whose session is cancelled
\* is over, wherever it was: in a request, in the picker the user has not
\* answered, while a region is drawn, or streaming.  And when the sharing has
\* ended, for whatever reason, the session is told, although no further frame
\* comes and both event queues may be full.
EndsAreNoticed ==
  []<>(/\ cancelled => app = "over"
       /\ portal.pc = "ended" => told # "no" \/ app = "over")

\* The last picture of a source that then stands still is forwarded, not lost
\* between a full slot, a late taker and a change of geometry.
Over == stop \/ app \in {"drawing", "dropping", "over"} \/ told # "no"
StillImageArrives == []<>(frame.n = MaxFrames => output.frame.n = MaxFrames \/ Over)

\* What docs/testing/UBUNTU_SCREEN_CAPTURE.md says of a stream that ends with an
\* error: the capture ends with an error, not as if the source had been closed.
FailureIsTold ==
  (told = "SourceClosed" /\ revoked = "no") => video.outcome # "Failed"
=============================================================================
