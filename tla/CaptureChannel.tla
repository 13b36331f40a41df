--------------------------- MODULE CaptureChannel ---------------------------
(***************************************************************************)
(* What the two audio backends have in common: the calls of start_capture  *)
(* and stop, the ready channel, the bounded channel of capture events and  *)
(* its consumer, forward_capture_events of audio.rs.                       *)
(*                                                                         *)
(* A frame is its sequence number, the discontinuity it is marked with and *)
(* the opening of the native stream it comes from, which only properties   *)
(* look at.                                                                *)
(***************************************************************************)
EXTENDS Integers, Sequences, Functions

CONSTANTS
  Targets,      \* the kinds of selection to start with
  Ids,          \* processes or devices; serials, names and instances of a graph
  Capacity,     \* of the channel of capture events
  Limits        \* bounds: how many frames, changes of the world and failing calls

ASSUME SourceBounds == Targets \subseteq {"application", "default", "endpoint"} /\ 0 \notin Ids /\ 1 \in Ids
ASSUME ChannelBounds == Capacity \in Nat \ {0} /\ Limits \subseteq [frames : Nat, changes : Nat, failures : Nat]

VARIABLES
  call,        \* the thread that starts and stops the session
  stopRequested, \* stop_requested, which the caller sets
  ready,       \* the one-slot channel of start_capture
  events,
  connected,   \* the receiver of the events exists
  shown,       \* what the session says: Starting, Running, Waiting or Failed
  last,        \* the last frame that was forwarded
  worker,      \* the capture thread: its place, and what each backend adds
  publisher,   \* sequence, discontinuity, pending state, silence and drops
  stream,      \* the native stream that is open
  world,       \* the sources there are
  limits       \* the frames, changes and failures still to come

callerVars == <<call, stopRequested>>
consumerVars == <<connected, shown, last>>
channelVars == <<callerVars, ready, events, consumerVars>>
workerVars == <<worker, publisher, stream>>
audioVars == <<channelVars, workerVars, world, limits>>

NoAudioFrame == [kind |-> "none"]
Frame(seq, gap, opening) == [kind |-> "Frame", seq |-> seq, gap |-> gap, opening |-> opening]
Note(kind) == [kind |-> kind]

ChannelInit ==
  /\ call = "idle" /\ stopRequested = FALSE /\ ready = "none"
  /\ events = <<>> /\ connected = TRUE
  /\ shown = "Starting" /\ last = NoAudioFrame
  /\ limits \in Limits

At(pc) == worker.pc = pc
Goto(pc) == worker' = [worker EXCEPT !.pc = pc]
ThreadEnded == At("ended")
Application == worker.target = "application"
ToldNothing == "nothing"
Room == Len(events) < Capacity

\* The world changes, or a call fails that need not.
SourceChanges == limits.changes > 0 /\ limits' = [limits EXCEPT !.changes = @ - 1]
CallFails == limits.failures > 0 /\ limits' = [limits EXCEPT !.failures = @ - 1]

\* try_send: what does not fit is dropped.
Sent(queue, e) == IF connected /\ Len(queue) < Capacity THEN Append(queue, e) ELSE queue

\* A pending state and the count of dropped frames go first, and wait for room.
Flushed(queue, state) == IF state = "none" THEN queue ELSE Sent(queue, Note(state))
Reported(queue, due) == IF due THEN Sent(queue, Note("FramesDropped")) ELSE queue
Kept(state, queue, flushed) == IF state # "none" /\ flushed = queue THEN state ELSE "none"

-----------------------------------------------------------------------------
(* The caller.                                                             *)

AwaitReady ==
  /\ call = "starting"
  /\ \/ ready = "ok" /\ call' = "running" /\ UNCHANGED stopRequested
     \/ ready = "error" /\ call' = "failing" /\ UNCHANGED stopRequested
     \/ ready = "none" /\ limits.failures > 0 /\ call' = "failing" /\ stopRequested' = TRUE
  /\ UNCHANGED <<ready, events, consumerVars, workerVars, world, limits>>

Stop ==
  /\ call = "running"
  /\ call' = "joining" /\ stopRequested' = TRUE
  /\ UNCHANGED <<ready, events, consumerVars, workerVars, world, limits>>

\* Faulty: nobody waits for the thread.
LeaveTheThread ==
  /\ call \in {"joining", "failing"}
  /\ call' = IF call = "joining" THEN "over" ELSE "failed"
  /\ UNCHANGED <<stopRequested, ready, events, consumerVars, workerVars, world, limits>>

\* finish, and start_capture when it does not answer with a session.
Join ==
  /\ call \in {"joining", "failing"} /\ ThreadEnded
  /\ call' = IF call = "joining" THEN "over" ELSE "failed"
  /\ UNCHANGED <<stopRequested, ready, events, consumerVars, workerVars, world, limits>>

-----------------------------------------------------------------------------
(* The consumer, which looks at the events once start_capture has returned *)
(* and leaves when the session is cancelled or one of its workers fails.   *)

Forward ==
  /\ connected /\ call \in {"running", "joining", "over"} /\ shown # "Failed" /\ events # <<>>
  /\ LET e == Head(events) IN
       /\ shown' = CASE e.kind \in {"Capturing", "Frame"} -> "Running"
                     [] e.kind \in {"Waiting", "Recovery"} -> "Waiting"
                     [] e.kind \in {"Stopped", "Error"} -> "Failed"
                     [] OTHER -> shown
       /\ last' = IF e.kind = "Frame" THEN e ELSE last
  /\ events' = Tail(events)
  /\ UNCHANGED <<callerVars, ready, connected, workerVars, world, limits>>

Leave ==
  /\ connected /\ call \in {"running", "joining", "over"}
  /\ \/ (call # "running" \/ shown = "Failed") /\ UNCHANGED limits
     \/ call = "running" /\ shown # "Failed" /\ CallFails
  /\ connected' = FALSE /\ events' = <<>>
  /\ UNCHANGED <<callerVars, ready, shown, last, workerVars, world>>

ChannelNext == AwaitReady \/ Stop \/ Join \/ Forward \/ Leave

-----------------------------------------------------------------------------
\* The frame that was forwarded last, and those that wait behind it.
FramesIn(queue) == {e \in Range(queue) : e.kind = "Frame"}
Frames == FramesIn(events) \cup IF last = NoAudioFrame THEN {} ELSE {last}

\* Two frames that reach the audio pipeline with successive numbers, of which the
\* second is not marked, come from the same opening of the native stream: what
\* was lost in a full channel or between two openings is never joined up as if
\* nothing were missing.
SplicesAreVisible ==
  \A f, g \in Frames : (g.seq = f.seq + 1 /\ ~g.gap) => g.opening = f.opening

\* Both backends implement what AudioCaptureBackend promises.
Backend == INSTANCE AudioBackend WITH alive <- worker.pc \notin {"none", "ended"}
BackendPromise == Backend!Spec

\* Every call returns, whatever the source does.
CallsReturn == (call \in {"starting", "joining", "failing"}) ~> (call \in {"running", "over", "failed"})
=============================================================================
