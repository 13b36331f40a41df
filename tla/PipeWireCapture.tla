--------------------------- MODULE PipeWireCapture ---------------------------
(***************************************************************************)
(* The capture thread of crates/audio-pipewire: the monitor of the default *)
(* output, of a chosen one, or a mix of an application's playback streams, *)
(* and how it follows the graph of the PipeWire server.                    *)
(*                                                                         *)
(* A node of the graph is an output, with the name it is chosen by, or a   *)
(* playback stream of the selected application, with the running instance  *)
(* it belongs to; a node that is created again has another serial.  The    *)
(* thread sees the graph its connection has heard of.  Ports, formats and  *)
(* the length of a wait are left out.                                      *)
(***************************************************************************)
EXTENDS CaptureChannel, FiniteSets

Node(serial, name) == [serial |-> serial, name |-> name]
NoStream == {}

PipeWireInit ==
  /\ ChannelInit
  /\ \E target \in Targets, nodes \in {{Node(1, 1)}, {Node(id, id) : id \in Ids}} :
       /\ worker = [pc |-> "none", target |-> target, name |-> 1, told |-> ToldNothing]
       /\ world = [up |-> TRUE, nodes |-> nodes, default |-> 1]
  /\ publisher = [seq |-> 0, gap |-> TRUE, pending |-> "none", quiet |-> FALSE, unreported |-> FALSE,
                  gone |-> FALSE]
  /\ stream = [opening |-> 0, inputs |-> NoStream, linked |-> {}, nodes |-> {}, default |-> 0]

-----------------------------------------------------------------------------
Going == ~stopRequested /\ ~publisher.gone
Unanswered == ready = "none"
Active == stream.inputs # NoStream
Linked == Active /\ stream.linked = stream.inputs
Dropped == [stream EXCEPT !.inputs = NoStream, !.linked = {}]

\* Graph::select and Graph::application: nothing, or more than one that the
\* selection may mean, is no target.
Selected(nodes, default) ==
  {n \in nodes : CASE Application -> TRUE
                   [] worker.target = "default" -> n.name = default
                   [] OTHER -> n.name = worker.name}
Unique(nodes) == IF Application THEN Cardinality({n.name : n \in nodes}) = 1 ELSE Cardinality(nodes) = 1
Heard == Selected(stream.nodes, stream.default)

\* report_recovery: a reason is told once, and counts as told when it was sent.
Report(reason, pc) ==
  LET queue == IF worker.told = reason THEN events ELSE Sent(events, Note("Recovery"))
  IN /\ events' = queue
     /\ worker' = [worker EXCEPT !.pc = pc, !.told = IF queue = events THEN @ ELSE reason]

\* The end of run's loop body after an error: the call is answered, or the
\* reason told and the thread sleeps.
Fail(reason) ==
  /\ stream' = Dropped
  /\ publisher' = [publisher EXCEPT !.gone = ~connected]
  /\ IF Unanswered
       THEN ready' = "error" /\ Goto("ended") /\ events' = Sent(events, Note("Stopped"))
       ELSE Report(reason, "retry") /\ UNCHANGED ready

StartPipeWire ==
  /\ call = "idle" /\ call' = "starting"
  /\ Goto("connect")
  /\ UNCHANGED <<stopRequested, ready, events, consumerVars, publisher, stream, world, limits>>

\* Every loop of the thread ends when it finds the flag, or a channel without a
\* receiver.
EndLoop ==
  /\ worker.pc \in {"connect", "select", "listen", "retry"} /\ ~Going
  /\ Goto("ended")
  /\ ready' = IF Unanswered THEN "error" ELSE ready
  /\ events' = Sent(events, Note("Stopped"))
  /\ stream' = Dropped
  /\ UNCHANGED <<callerVars, consumerVars, publisher, world, limits>>

-----------------------------------------------------------------------------
(* The connection and the graph it hears of.                               *)

ConnectGraph ==
  /\ worker.pc \in {"connect", "retry"} /\ Going /\ world.up
  /\ stream' = [Dropped EXCEPT !.nodes = world.nodes, !.default = world.default]
  /\ Goto("select")
  /\ UNCHANGED <<channelVars, publisher, world, limits>>

ConnectFails ==
  /\ worker.pc \in {"connect", "retry"} /\ Going
  /\ IF world.up THEN CallFails ELSE UNCHANGED limits
  /\ Fail("connection")
  /\ UNCHANGED <<callerVars, consumerVars, world>>

\* refresh_default, once in a second.
Refresh ==
  /\ At("select") /\ Going /\ world.up /\ worker.target = "default" /\ stream.default # world.default
  /\ stream' = [stream EXCEPT !.default = world.default, !.nodes = world.nodes]
  /\ UNCHANGED <<channelVars, worker, publisher, world, limits>>

\* The listeners of the registry and of the metadata, while the loop iterates.
\* A change of the default output may be missed.
Hear ==
  /\ At("listen") /\ world.up /\ stream.nodes # world.nodes
  /\ stream' = [stream EXCEPT !.nodes = world.nodes]
  /\ UNCHANGED <<channelVars, worker, publisher, world, limits>>

HearDefault ==
  /\ At("listen") /\ world.up /\ stream.default # world.default
  /\ stream' = [stream EXCEPT !.default = world.default]
  /\ UNCHANGED <<channelVars, worker, publisher, world, limits>>

-----------------------------------------------------------------------------
(* What is captured is brought in line with the selection.                 *)

\* Publisher::reopened.
Reopened == [publisher EXCEPT !.gap = TRUE, !.quiet = FALSE, !.pending = "Capturing"]

\* ActiveStream::open, whose predecessor is dropped first, and
\* ApplicationMonitor::new with its first update.
OpenAudio ==
  /\ At("select") /\ Going /\ Unique(Heard)
  /\ ~Active \/ (~Application /\ stream.inputs # Heard)
  /\ LET changing == Active /\ worker.target = "default" /\ worker.told # "changed"
         queue == IF changing THEN Sent(events, Note("Recovery")) ELSE events
     IN /\ events' = queue
        /\ publisher' = [Reopened EXCEPT !.gone = changing /\ ~connected]
        /\ worker' = [worker EXCEPT !.pc = "listen", !.told = IF queue = events THEN @ ELSE "changed"]
  /\ stream' = [stream EXCEPT !.opening = @ + 1, !.inputs = Heard, !.linked = {}]
  /\ UNCHANGED <<callerVars, ready, consumerVars, world, limits>>

\* ApplicationMonitor::update drops the ports of streams that are gone and adds
\* those of new ones; nothing is done to a stream that still has its target.
KeepStream ==
  /\ At("select") /\ Going /\ Unique(Heard) /\ Active
  /\ Application \/ stream.inputs = Heard
  /\ stream' = [stream EXCEPT !.inputs = Heard, !.linked = @ \cap Heard]
  /\ Goto("listen")
  /\ UNCHANGED <<channelVars, publisher, world, limits>>

OpenStreamFails ==
  /\ At("select") /\ Going /\ Unique(Heard) /\ CallFails
  /\ Application \/ stream.inputs # Heard
  /\ Fail("open")
  /\ UNCHANGED <<callerVars, consumerVars, world>>

\* The selection means nothing, or more than one thing: the connection stays.
NoTarget ==
  /\ At("select") /\ Going /\ ~Unique(Heard)
  /\ LET reason == IF Heard = {} THEN "unavailable" ELSE "ambiguous"
     IN IF Unanswered
          THEN Fail(reason)
          ELSE /\ Report(reason, "listen")
               /\ publisher' = [publisher EXCEPT !.gone = ~connected]
               /\ stream' = Dropped /\ UNCHANGED ready
  /\ UNCHANGED <<callerVars, consumerVars, world, limits>>

-----------------------------------------------------------------------------
(* The callbacks of the stream or filter, and what follows each iteration. *)

Link ==
  /\ At("listen") /\ world.up
  /\ \E n \in (stream.inputs \cap world.nodes) \ stream.linked :
       stream' = [stream EXCEPT !.linked = @ \cup {n}]
  /\ UNCHANGED <<channelVars, worker, publisher, world, limits>>

\* Publisher::tick, with the silence that may have been noticed.
Ticked(state) ==
  LET flushed == Flushed(events, state)
      reported == Reported(flushed, publisher.unreported)
  IN [queue |-> reported, pending |-> Kept(state, events, flushed),
      unreported |-> publisher.unreported /\ reported = flushed]

\* process and Publisher::publish: numbered whether it is sent or not.
Process ==
  /\ At("listen") /\ world.up /\ stream.linked \cap world.nodes # {} /\ publisher.seq < limits.frames
  /\ \E signal \in BOOLEAN :
       LET ticked == Ticked(IF signal /\ publisher.quiet THEN "Capturing" ELSE publisher.pending)
           queue == Sent(ticked.queue, Frame(publisher.seq, publisher.gap, stream.opening))
           lost == queue = ticked.queue
       IN /\ events' = queue
          /\ publisher' = [seq |-> publisher.seq + 1, gap |-> lost, pending |-> ticked.pending,
                           quiet |-> publisher.quiet /\ ~signal,
                           unreported |-> lost \/ ticked.unreported, gone |-> ~connected]
  /\ UNCHANGED <<callerVars, ready, consumerVars, worker, stream, world, limits>>

\* The stream, the filter, a link or the connection reports an error, or the
\* deadline of a stream that is not linked yet passes.
StreamFails ==
  /\ At("listen") /\ Going
  /\ \/ world.up = FALSE /\ Fail("connection") /\ UNCHANGED limits
     \/ world.up /\ Active /\ ~(stream.inputs \subseteq world.nodes) /\ Fail("stream") /\ UNCHANGED limits
     \/ world.up /\ Linked /\ CallFails /\ Fail("stream")
     \/ world.up /\ Active /\ ~Linked /\ CallFails /\ Fail("unlinked")
  /\ UNCHANGED <<callerVars, consumerVars, world>>

Iterated ==
  /\ At("listen") /\ Going /\ world.up
  /\ ready' = IF Linked /\ Unanswered THEN "ok" ELSE ready
  /\ worker' = [worker EXCEPT !.pc = "select", !.told = IF Linked THEN ToldNothing ELSE @]
  /\ \E silent \in {FALSE, ~publisher.quiet} :
       LET ticked == Ticked(IF silent THEN "Waiting" ELSE publisher.pending)
       IN IF Active
            THEN /\ events' = ticked.queue
                 /\ publisher' = [publisher EXCEPT !.pending = ticked.pending, !.unreported = ticked.unreported,
                                                   !.quiet = @ \/ silent, !.gone = ~connected]
            ELSE UNCHANGED <<events, publisher>>
  /\ UNCHANGED <<callerVars, consumerVars, stream, world, limits>>

-----------------------------------------------------------------------------
GraphChanges ==
  /\ SourceChanges
  /\ \/ world' = [world EXCEPT !.up = ~@]
     \/ \E n \in world.nodes : world' = [world EXCEPT !.nodes = @ \ {n}]
     \/ \E serial \in Ids \ {n.serial : n \in world.nodes}, name \in Ids :
          world' = [world EXCEPT !.nodes = @ \cup {Node(serial, name)}]
     \/ \E name \in Ids \ {world.default} : world' = [world EXCEPT !.default = name]
  /\ UNCHANGED <<channelVars, workerVars>>

\* Where the thread goes on by itself.
PipeWireThread ==
  \/ EndLoop \/ ConnectGraph \/ ConnectFails \/ OpenAudio \/ KeepStream \/ OpenStreamFails \/ NoTarget
  \/ StreamFails \/ Iterated

PipeWireNext == ChannelNext \/ StartPipeWire \/ PipeWireThread \/ Refresh \/ Hear \/ HearDefault \/ Link \/ Process \/ GraphChanges

PipeWireSpec == PipeWireInit /\ [][PipeWireNext]_audioVars

\* The threads run.  What the server tells of its nodes arrives, and the default
\* is read again once in a second, however the loop goes round meanwhile.
PipeWireFairness ==
  /\ WF_audioVars(AwaitReady) /\ WF_audioVars(Join) /\ WF_audioVars(Forward) /\ WF_audioVars(PipeWireThread)
  /\ SF_audioVars(Hear) /\ SF_audioVars(Refresh) /\ SF_audioVars(Link)

FairPipeWireSpec == PipeWireSpec /\ PipeWireFairness
-----------------------------------------------------------------------------
TargetAvailable == world.up /\ Unique(Selected(world.nodes, world.default))

TargetCaptured == Linked /\ stream.inputs = Selected(world.nodes, world.default)

\* A thread that sleeps before its next attempt, having told why, is the thread
\* of a session that is shown as waiting.
OutageIsShown ==
  (At("retry") /\ call = "running" /\ connected /\ events = <<>> /\ worker.told # ToldNothing)
    => shown # "Running"
=============================================================================
