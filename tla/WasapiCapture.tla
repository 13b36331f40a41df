---------------------------- MODULE WasapiCapture ----------------------------
(***************************************************************************)
(* The capture thread of crates/audio-windows: loopback of the default     *)
(* playback device, of a chosen one or of an application's process tree,   *)
(* with the recovery of a source that goes away.                           *)
(*                                                                         *)
(* The world is what the system enumerates: processes of the selected      *)
(* application with the parent each was started by (zero when that is not  *)
(* a process of the application), or the playback device, of which there   *)
(* is at most one here.  Formats, buffers and COM are left out, and so is  *)
(* the length of a wait.                                                   *)
(***************************************************************************)
EXTENDS CaptureChannel, FiniteSets

AudioSource(id, parent) == [id |-> id, parent |-> parent]
Present == {s.id : s \in world}

\* ProcessIndex::capture_root: up through parents that run the same program.
ParentOf(p) == (CHOOSE s \in world : s.id = p).parent
CaptureRoot(process) ==
  LET root[p \in Present, visited \in SUBSET Present] ==
        IF p \in visited \/ ParentOf(p) = p \/ ParentOf(p) \notin Present
          THEN p
          ELSE root[ParentOf(p), visited \cup {p}]
  IN IF process \in Present THEN root[process, {}] ELSE process

\* enumerate_sources: the sources that one selection names.
Instances == {CaptureRoot(p) : p \in Present}

WasapiInit ==
  /\ ChannelInit
  /\ \E target \in Targets :
       worker = [pc |-> "none", target |-> target, process |-> 0, told |-> ToldNothing]
  /\ publisher = [seq |-> 0, gap |-> TRUE, pending |-> "none", quiet |-> FALSE, unreported |-> FALSE]
  /\ stream = [opening |-> 0, source |-> 0, watched |-> FALSE]
  /\ \/ world \in {{AudioSource(id, 0)} : id \in Ids}
     \/ Application /\ \E p \in Ids, parent \in Ids \cup {0} :
          world = {AudioSource(id, IF id = p THEN parent ELSE p) : id \in Ids}

-----------------------------------------------------------------------------
FirstOpening == stream.opening = 0

\* CaptureTarget: what is to be opened now, and what is forgotten after a failure.
Wanted == IF worker.target = "default" THEN Present ELSE {worker.process}
Cleared == IF Application THEN 0 ELSE worker.process

\* publish_event, whose error ends the thread.
Publish(e, then) ==
  /\ events' = Sent(events, e)
  /\ worker' = IF connected THEN then ELSE [worker EXCEPT !.pc = "ended"]

\* The worker's return when it finds the flag set.
EndWorker ==
  /\ stopRequested
  /\ events' = Sent(events, Note("Stopped")) /\ Goto("ended")
  /\ UNCHANGED <<callerVars, ready, consumerVars, publisher, stream, world, limits>>

\* The two publish_..._recovery functions: a reason is told once, and counts
\* as told whether or not there was room for it.  Then the thread waits.
Recover(reason) ==
  LET then == [worker EXCEPT !.pc = "wait", !.told = reason, !.process = Cleared]
  IN IF worker.told = reason
       THEN worker' = then /\ UNCHANGED events
       ELSE Publish(Note("Recovery"), then)

Refuse ==
  /\ ready' = "error" /\ Goto("ended")
  /\ UNCHANGED events

-----------------------------------------------------------------------------
(* start_capture and the loop of capture_worker.                           *)

ResolveFails ==
  /\ call = "idle" /\ Application /\ Cardinality(Instances) # 1
  /\ call' = "failed"
  /\ UNCHANGED <<stopRequested, ready, events, consumerVars, workerVars, world, limits>>

StartWasapi ==
  /\ call = "idle"
  /\ \E process \in CASE Application -> Instances
                       [] worker.target = "endpoint" -> Ids
                       [] OTHER -> {0} :
       /\ Application => Cardinality(Instances) = 1
       /\ worker' = [worker EXCEPT !.pc = "resolve", !.process = process]
  /\ call' = "starting"
  /\ UNCHANGED <<stopRequested, ready, events, consumerVars, publisher, stream, world, limits>>

\* resolve_application_process: only a single instance will do.
Resolve ==
  /\ At("resolve") /\ ~stopRequested
  /\ IF ~Application \/ worker.process # 0
       THEN Goto("open") /\ UNCHANGED <<ready, events>>
       ELSE \/ \E p \in Instances :
                 /\ Instances = {p}
                 /\ worker' = [worker EXCEPT !.pc = "open", !.process = p]
                 /\ UNCHANGED <<ready, events>>
            \/ /\ Cardinality(Instances) # 1
               /\ IF FirstOpening
                    THEN Refuse
                    ELSE /\ Recover(IF Instances = {} THEN "unavailable" ELSE "ambiguous")
                         /\ UNCHANGED ready
  /\ UNCHANGED <<callerVars, consumerVars, publisher, stream, world, limits>>

\* WasapiCaptureStream::open and Start.  A process is opened whether or not a
\* handle to it was granted, which is not so when it has gone since it was
\* resolved: then nothing is captured.
Open ==
  /\ At("open")
  /\ \E source \in Wanted, watched \in BOOLEAN :
       /\ source \notin Present => Application /\ ~watched
       /\ ~Application => watched
       /\ stream' = [opening |-> stream.opening + 1, watched |-> watched,
                     source |-> IF source \in Present THEN source ELSE 0]
       /\ ready' = IF FirstOpening THEN "ok" ELSE ready
       /\ worker' = [worker EXCEPT !.pc = "announce", !.told = ToldNothing]
  /\ UNCHANGED <<callerVars, events, consumerVars, publisher, world, limits>>

OpenSourceFails ==
  /\ At("open")
  /\ \/ Wanted \cap Present = {} /\ UNCHANGED limits
     \/ CallFails
  /\ IF FirstOpening THEN Refuse ELSE Recover("unavailable") /\ UNCHANGED ready
  /\ UNCHANGED <<callerVars, consumerVars, publisher, stream, world>>

\* Capturing is published; the timeline is reopened; capture() begins with a
\* new SignalActivity and its own count of what was dropped.
Announce ==
  /\ At("announce")
  /\ Publish(Note("Capturing"), [worker EXCEPT !.pc = "capture"])
  /\ publisher' = [publisher EXCEPT !.gap = TRUE, !.pending = "none", !.quiet = FALSE, !.unreported = FALSE]
  /\ UNCHANGED <<callerVars, ready, consumerVars, stream, world, limits>>

Wait ==
  /\ At("wait") /\ ~stopRequested
  /\ Goto("resolve")
  /\ UNCHANGED <<channelVars, publisher, stream, world, limits>>

-----------------------------------------------------------------------------
(* WasapiCaptureStream::capture.                                           *)

Tick ==
  /\ At("capture") /\ ~stopRequested
  /\ LET silent == ~publisher.quiet
         state == IF silent THEN "Waiting" ELSE publisher.pending
         flushed == Flushed(events, state)
         reported == Reported(flushed, publisher.unreported)
     IN /\ silent \/ state # "none" \/ publisher.unreported
        /\ events' = reported
        /\ worker' = IF connected THEN worker ELSE [worker EXCEPT !.pc = "ended"]
        /\ publisher' = [publisher EXCEPT !.quiet = TRUE, !.pending = Kept(state, events, flushed),
                                          !.unreported = @ /\ reported = flushed]
  /\ UNCHANGED <<callerVars, ready, consumerVars, stream, world, limits>>

\* Faulty: a packet is numbered when it has been sent.
PacketNumberedLate ==
  /\ At("capture") /\ ~stopRequested /\ stream.source # 0 /\ publisher.seq < limits.frames
  /\ LET frame == Frame(publisher.seq, publisher.gap, stream.opening)
         queue == Sent(events, frame)
     IN /\ events' = queue
        /\ worker' = IF connected THEN worker ELSE [worker EXCEPT !.pc = "ended"]
        /\ publisher' = [publisher EXCEPT !.gap = FALSE, !.seq = IF queue = events THEN @ ELSE @ + 1]
  /\ UNCHANGED <<callerVars, ready, consumerVars, stream, world, limits>>

\* The timeline has numbered the packet and used up its mark before it is known
\* whether there is room for it.
Packet ==
  /\ At("capture") /\ ~stopRequested /\ stream.source # 0 /\ publisher.seq < limits.frames
  /\ \E signal \in BOOLEAN :
       LET state == IF signal /\ publisher.quiet THEN "Capturing" ELSE publisher.pending
           flushed == Flushed(events, state)
           reported == Reported(flushed, publisher.unreported)
           queue == Sent(reported, Frame(publisher.seq, publisher.gap, stream.opening))
       IN /\ events' = queue
          /\ worker' = IF connected THEN worker ELSE [worker EXCEPT !.pc = "ended"]
          /\ publisher' = [seq |-> publisher.seq + 1, gap |-> FALSE,
                           pending |-> Kept(state, events, flushed),
                           quiet |-> publisher.quiet /\ ~signal,
                           unreported |-> queue = reported \/ (publisher.unreported /\ reported = flushed)]
  /\ UNCHANGED <<callerVars, ready, consumerVars, stream, world, limits>>

\* Faulty: only the default device is looked at.
OnlyDeviceLost ==
  /\ At("capture") /\ ~stopRequested
  /\ worker.target = "default"
  /\ \/ stream.source = 0 /\ Recover("unavailable")
     \/ Present \ {stream.source} # {} /\ Recover("changed")
  /\ UNCHANGED <<callerVars, ready, consumerVars, publisher, stream, world, limits>>

\* The process has exited, which only its handle tells; the device is gone, or
\* the default one is another.  With the flag set the thread returns by
\* EndWorker instead.
SourceLost ==
  /\ At("capture") /\ ~stopRequested
  /\ \/ stream.source = 0 /\ stream.watched /\ Recover("unavailable")
     \/ worker.target = "default" /\ Present \ {stream.source} # {} /\ Recover("changed")
  /\ UNCHANGED <<callerVars, ready, consumerVars, publisher, stream, world, limits>>

\* A call of capture() fails, or that which stops the stream at its end.
CaptureFails ==
  /\ At("capture") /\ CallFails
  /\ IF stopRequested
       THEN events' = Sent(events, Note("Error")) /\ Goto("ended")
       ELSE Recover("unavailable")
  /\ UNCHANGED <<callerVars, ready, consumerVars, publisher, stream, world>>

-----------------------------------------------------------------------------
\* What a stream is open on does not come back with another process or device
\* of its name.  A device may stay when it is only no longer the default one.
OpenStays == stream.source \in {s.id : s \in world'}
DevicesChange ==
  /\ SourceChanges
  /\ IF Application
       THEN \/ \E s \in world : world' = world \ {s}
            \/ \E id \in Ids \ Present, parent \in Ids \cup {0} : world' = world \cup {AudioSource(id, parent)}
       ELSE world' \in {{}} \cup {{AudioSource(id, 0)} : id \in Ids}
  /\ stream' = [stream EXCEPT !.source = IF OpenStays THEN @ ELSE 0]
  /\ UNCHANGED <<channelVars, worker, publisher>>

\* Faulty: a thread that waits for its source does not look at its flag.
ReturnsFromCapture == At("capture") /\ EndWorker

Returns == (At("resolve") \/ At("wait") \/ At("capture")) /\ EndWorker

\* Where the thread goes on by itself.
WasapiThread == Returns \/ Resolve \/ Open \/ OpenSourceFails \/ Announce \/ Wait \/ SourceLost

WasapiNext == ChannelNext \/ StartWasapi \/ ResolveFails \/ WasapiThread \/ Tick \/ Packet \/ CaptureFails \/ DevicesChange

WasapiSpec == WasapiInit /\ [][WasapiNext]_audioVars

\* The threads run; the capture loop looks at its source and its flag whatever
\* the packets do.
WasapiFairness == WF_audioVars(AwaitReady) /\ WF_audioVars(Join) /\ WF_audioVars(Forward) /\ WF_audioVars(WasapiThread)

FairWasapiSpec == WasapiSpec /\ WasapiFairness
-----------------------------------------------------------------------------
SourceAvailable ==
  CASE Application -> Cardinality(Instances) = 1
    [] worker.target = "default" -> Present # {}
    [] OTHER -> worker.process \in Present

SourceCaptured == At("capture") /\ stream.source \in Present

\* The process that is captured has gone, and there is no handle to tell it.
LostUnwatched == At("capture") /\ stream.source = 0 /\ ~stream.watched
=============================================================================
