-------------------------- MODULE ConfigurationSync -------------------------
(***************************************************************************)
(* Changing the configuration from several WebViews (configuration.ts) and  *)
(* from the host (configuration.rs).  A WebView keeps a copy of the         *)
(* snapshot, collects changes while a write is under way, writes them on    *)
(* top of its copy with the revision it expects, reads back what the host   *)
(* has, and rebases once when its copy was stale.  The host announces every *)
(* accepted snapshot to all WebViews.                                       *)
(*                                                                          *)
(* Commands are served one at a time on the main thread.  A configuration   *)
(* is the set of the changes it contains.                                   *)
(***************************************************************************)
EXTENDS Integers, SequencesExt

CONSTANTS
  WebViews,     \* the windows that may write: main and Appearance
  Changes,      \* changes that the user makes in a WebView, each one once
  Native,       \* changes the host makes by itself, as selecting a model
  MayFail       \* the repository may fail to save

VARIABLES
  host,      \* ConfigurationState.snapshot
  view,      \* WebView -> ConfigurationController.snapshotValue
  pump,        \* WebView -> the await its pump stands at
  attempt,   \* WebView -> attempts of writeBatch made
  pending,   \* WebView -> ConfigurationController.pending
  batch,     \* WebView -> the changes being written
  request,   \* WebView -> the command on its way to the host
  expected,  \* WebView -> the snapshot the host says it has accepted
  inbox,     \* WebView -> events and answers on their way to it
  overtaken, \* an answer has arrived out of its order with the events
  resolved,  \* changes whose promise is fulfilled
  rejected   \* changes whose promise is rejected

pumpVars == <<pump, attempt, pending, batch, expected>>
windowVars == <<host, view, pumpVars, request, inbox, overtaken, resolved, rejected>>

All == Changes \cup Native
Snapshot(revision, config) == [revision |-> revision, config |-> config]
First == Snapshot(1, {})
NoRequest == [kind |-> "none", revision |-> 0, config |-> {}]
Message(kind, snapshot) ==
  [kind |-> kind, revision |-> snapshot.revision, config |-> snapshot.config]
Carried(message) == Snapshot(message.revision, message.config)
Fetch == Message("fetch", Snapshot(0, {}))
Write(snapshot) == Message("write", snapshot)

\* initializeConfiguration has read the first snapshot; nothing is imported
\* from an earlier WebView storage.
WindowsInit ==
  /\ host = First
  /\ view = [w \in WebViews |-> First]
  /\ pump = [w \in WebViews |-> "unconnected"]
  /\ attempt = [w \in WebViews |-> 0]
  /\ pending = [w \in WebViews |-> {}] /\ batch = [w \in WebViews |-> {}]
  /\ request = [w \in WebViews |-> NoRequest]
  /\ expected = [w \in WebViews |-> First]
  /\ inbox = [w \in WebViews |-> <<>>] /\ overtaken = FALSE
  /\ resolved = {} /\ rejected = {}

-----------------------------------------------------------------------------
(* The host                                                                 *)

\* publish: an event to every WebView that listens.
Announced(snapshot) ==
  [w \in WebViews |->
     IF pump[w] = "unconnected" THEN inbox[w] ELSE Append(inbox[w], Message("event", snapshot))]

Answers(w, message, boxes) ==
  /\ inbox' = [boxes EXCEPT ![w] = Append(@, message)]
  /\ request' = [request EXCEPT ![w] = NoRequest]
  /\ UNCHANGED overtaken

\* ConfigurationRuntime::update.
HostAccepts(w) ==
  LET next == Snapshot(host.revision + 1, request[w].config)
  IN /\ request[w].kind = "write"
     /\ request[w].revision = host.revision
     /\ host' = next
     /\ Answers(w, Message("accepted", next), Announced(next))
     /\ UNCHANGED <<view, pumpVars, resolved, rejected>>

HostRefuses(w) ==
  /\ request[w].kind = "write"
  /\ \/ request[w].revision # host.revision
        /\ Answers(w, Message("stale", First), inbox)
     \/ request[w].revision = host.revision /\ MayFail
        /\ Answers(w, Message("failed", First), inbox)
  /\ UNCHANGED <<host, view, pumpVars, resolved, rejected>>

\* configuration_snapshot.
HostReads(w) ==
  /\ request[w].kind = "fetch"
  /\ Answers(w, Message("snapshot", host), inbox)
  /\ UNCHANGED <<host, view, pumpVars, resolved, rejected>>

\* set_speech_model.
HostMutates(change) ==
  LET next == Snapshot(host.revision + 1, host.config \cup {change})
  IN /\ change \in Native \ host.config
     /\ host' = next
     /\ inbox' = Announced(next)
     /\ UNCHANGED <<view, pumpVars, request, overtaken, resolved, rejected>>

-----------------------------------------------------------------------------
(* A WebView                                                                *)

\* connect: listen, then read once more.
Connect(w) ==
  /\ pump[w] = "unconnected"
  /\ pump' = [pump EXCEPT ![w] = "connecting"]
  /\ request' = [request EXCEPT ![w] = Fetch]
  /\ UNCHANGED <<host, view, attempt, pending, batch, expected, inbox, overtaken, resolved, rejected>>

\* update.
Change(w, change) ==
  /\ pump[w] \notin {"unconnected", "connecting"}
  /\ change \notin resolved \cup rejected
  /\ \A v \in WebViews : change \notin pending[v] \cup batch[v]
  /\ pending' = [pending EXCEPT ![w] = @ \cup {change}]
  /\ UNCHANGED <<host, view, pump, attempt, batch, request, expected, inbox, overtaken, resolved, rejected>>

\* writeBatch makes an attempt on top of the copy it has.
Attempts(w, changes, from) ==
  /\ request' = [request EXCEPT ![w] = Write(Snapshot(from.revision, from.config \cup changes))]
  /\ pump' = [pump EXCEPT ![w] = "writing"]

Pump(w) ==
  /\ pump[w] = "idle"
  /\ pending[w] # {}
  /\ batch' = [batch EXCEPT ![w] = pending[w]]
  /\ pending' = [pending EXCEPT ![w] = {}]
  /\ attempt' = [attempt EXCEPT ![w] = 0]
  /\ Attempts(w, pending[w], view[w])
  /\ UNCHANGED <<host, view, expected, inbox, overtaken, resolved, rejected>>

\* The messages that may be delivered: events in their order, an answer at its
\* place among them or at any time.
Deliverable(w, i) ==
  /\ i \in 1..Len(inbox[w])
  /\ \/ i = 1
     \/ inbox[w][i].kind # "event"
     \/ \A j \in 1..(i - 1) : inbox[w][j].kind # "event"

Takes(w, i) ==
  /\ inbox' = [inbox EXCEPT ![w] = RemoveAt(@, i)]
  /\ overtaken' = (overtaken \/ i # 1)

\* Faulty: events are ignored while a write is under way.
EventArrivesWhenIdle(w, i) ==
  /\ Deliverable(w, i) /\ inbox[w][i].kind = "event"
  /\ Takes(w, i)
  /\ view' = IF inbox[w][i].revision < view[w].revision \/ pump[w] # "idle" THEN view
             ELSE [view EXCEPT ![w] = Carried(inbox[w][i])]
  /\ UNCHANGED <<host, pumpVars, request, resolved, rejected>>
EventArrives(w, i) ==
  /\ Deliverable(w, i) /\ inbox[w][i].kind = "event"
  /\ Takes(w, i)
  /\ view' = IF inbox[w][i].revision < view[w].revision THEN view
             ELSE [view EXCEPT ![w] = Carried(inbox[w][i])]
  /\ UNCHANGED <<host, pumpVars, request, resolved, rejected>>

\* The end of connect.
Connected(w, i) ==
  /\ Deliverable(w, i) /\ pump[w] = "connecting" /\ inbox[w][i].kind = "snapshot"
  /\ Takes(w, i)
  /\ view' = IF inbox[w][i].revision < view[w].revision THEN view
             ELSE [view EXCEPT ![w] = Carried(inbox[w][i])]
  /\ pump' = [pump EXCEPT ![w] = "idle"]
  /\ UNCHANGED <<host, attempt, pending, batch, request, expected, resolved, rejected>>

\* The write is accepted and is read back.
WriteAccepted(w, i) ==
  /\ Deliverable(w, i) /\ pump[w] = "writing" /\ inbox[w][i].kind = "accepted"
  /\ Takes(w, i)
  /\ expected' = [expected EXCEPT ![w] = Carried(inbox[w][i])]
  /\ request' = [request EXCEPT ![w] = Fetch]
  /\ pump' = [pump EXCEPT ![w] = "readback"]
  /\ UNCHANGED <<host, view, attempt, pending, batch, resolved, rejected>>

Finish(w) ==
  /\ batch' = [batch EXCEPT ![w] = {}]
  /\ pump' = [pump EXCEPT ![w] = "idle"]

ReadbackAgrees(w, i) ==
  /\ Deliverable(w, i) /\ pump[w] = "readback" /\ inbox[w][i].kind = "snapshot"
  /\ Carried(inbox[w][i]) = expected[w]
  /\ Takes(w, i)
  /\ view' = [view EXCEPT ![w] = expected[w]]
  /\ resolved' = resolved \cup batch[w]
  /\ Finish(w)
  /\ UNCHANGED <<host, attempt, pending, request, expected, rejected>>

ReadbackDiffers(w, i) ==
  /\ Deliverable(w, i) /\ pump[w] = "readback" /\ inbox[w][i].kind = "snapshot"
  /\ Carried(inbox[w][i]) # expected[w]
  /\ Takes(w, i)
  /\ rejected' = rejected \cup batch[w]
  /\ Finish(w)
  /\ UNCHANGED <<host, view, attempt, pending, request, expected, resolved>>

\* A stale first attempt reads what the host has; anything else is final.
WriteRefused(w, i) ==
  /\ Deliverable(w, i) /\ pump[w] = "writing" /\ inbox[w][i].kind \in {"stale", "failed"}
  /\ Takes(w, i)
  /\ IF inbox[w][i].kind = "stale" /\ attempt[w] = 0
     THEN /\ request' = [request EXCEPT ![w] = Fetch]
          /\ pump' = [pump EXCEPT ![w] = "rebasing"]
          /\ UNCHANGED <<batch, rejected>>
     ELSE /\ rejected' = rejected \cup batch[w]
          /\ Finish(w)
          /\ UNCHANGED request
  /\ UNCHANGED <<host, view, attempt, pending, expected, resolved>>

\* The copy is replaced and the batch applied to it again.
\* Faulty: the new revision is taken and the old configuration written.
RebaseRevisionOnly(w, i) ==
  /\ Deliverable(w, i) /\ pump[w] = "rebasing" /\ inbox[w][i].kind = "snapshot"
  /\ Takes(w, i)
  /\ view' = [view EXCEPT ![w] = Carried(inbox[w][i])]
  /\ attempt' = [attempt EXCEPT ![w] = 1]
  /\ Attempts(w, batch[w], Snapshot(inbox[w][i].revision, view[w].config))
  /\ UNCHANGED <<host, pending, batch, expected, resolved, rejected>>
Rebase(w, i) ==
  /\ Deliverable(w, i) /\ pump[w] = "rebasing" /\ inbox[w][i].kind = "snapshot"
  /\ Takes(w, i)
  /\ view' = [view EXCEPT ![w] = Carried(inbox[w][i])]
  /\ attempt' = [attempt EXCEPT ![w] = 1]
  /\ Attempts(w, batch[w], Carried(inbox[w][i]))
  /\ UNCHANGED <<host, pending, batch, expected, resolved, rejected>>

-----------------------------------------------------------------------------
HostServes(w) == HostAccepts(w) \/ HostRefuses(w) \/ HostReads(w)

MessageArrives(w) ==
  \E i \in 1..Len(inbox[w]) :
    \/ EventArrives(w, i) \/ Connected(w, i)
    \/ WriteAccepted(w, i) \/ WriteRefused(w, i)
    \/ ReadbackAgrees(w, i) \/ ReadbackDiffers(w, i) \/ Rebase(w, i)

WindowsNext ==
  \/ \E change \in Native : HostMutates(change)
  \/ \E w \in WebViews :
       \/ HostServes(w) \/ MessageArrives(w) \/ Connect(w) \/ Pump(w)
       \/ \E change \in Changes : Change(w, change)

WindowsSpec == WindowsInit /\ [][WindowsNext]_windowVars

\* Commands are served, messages arrive and the event loop runs.
Fairness ==
  \A w \in WebViews :
    WF_windowVars(HostServes(w)) /\ WF_windowVars(MessageArrives(w)) /\ WF_windowVars(Pump(w))

FairWindowsSpec == WindowsSpec /\ Fairness

-----------------------------------------------------------------------------
(* Properties                                                               *)

WindowsTypeOK ==
  /\ host.revision \in Nat /\ host.config \subseteq All /\ overtaken \in BOOLEAN
  /\ \A w \in WebViews :
       /\ view[w].revision \in 1..host.revision /\ view[w].config \subseteq All
       /\ pump[w] \in {"unconnected", "connecting", "idle", "writing", "readback", "rebasing"}
       /\ attempt[w] \in {0, 1}
       /\ pending[w] \cup batch[w] \subseteq Changes
       /\ request[w].kind \in {"none", "fetch", "write"}
       /\ \A i \in 1..Len(inbox[w]) : inbox[w][i].revision \in 1..host.revision
  /\ resolved \cup rejected \subseteq Changes

\* No writer overwrites what another one has written, although each writes
\* the whole configuration: "stale writes rebase over concurrent native model
\* updates".
NothingIsOverwritten == [][host.config \subseteq host'.config]_host

\* A change whose promise is fulfilled is part of the configuration, of the
\* host's and of the copy of a WebView that is as new.
ResolvedIsSaved == resolved \subseteq host.config

\* A copy of the same revision is the same configuration.
CopiesAreFaithful ==
  \A w \in WebViews : view[w].revision = host.revision => view[w].config = host.config

Settled ==
  \A w \in WebViews :
    pump[w] = "idle" /\ pending[w] = {} /\ inbox[w] = <<>>

\* When nothing is on its way every WebView shows what the host has ("one
\* native configuration snapshot authoritative ... across every WebView"),
\* provided that answers and events came in the order they were sent in.
ViewsAgree == Settled /\ ~overtaken => \A w \in WebViews : view[w] = host

\* A change whose promise is rejected ("Could not save settings") is not saved.
RejectedIsNotSaved == rejected \cap host.config = {}

\* Every change is answered.
EveryChangeSettles ==
  \A change \in Changes, w \in WebViews :
    change \in pending[w] ~> change \in resolved \cup rejected
=============================================================================
