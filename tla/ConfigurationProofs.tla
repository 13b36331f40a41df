------------------------- MODULE ConfigurationProofs ------------------------
(***************************************************************************)
(* Proofs about the configuration: the windows never overwrite each other   *)
(* and agree when nothing is on its way (ConfigurationSync), and the         *)
(* directory implements the store (ConfigurationRepository).                *)
(***************************************************************************)
EXTENDS ConfigurationRepository, ConfigurationSync, FiniteSetTheorems, WellFoundedInduction, TLAPS

-----------------------------------------------------------------------------
(* The windows: the inductive invariant                                     *)

SnapshotType == [revision : Nat, config : SUBSET All]
Answering == {"snapshot", "accepted", "stale", "failed"}
MessageType == [kind : Answering \cup {"event"}, revision : Nat, config : SUBSET All]
RequestType == [kind : {"none", "fetch", "write"}, revision : Nat, config : SUBSET All]
Reading == {"connecting", "readback", "rebasing"}

WindowTypes ==
  /\ host \in SnapshotType
  /\ view \in [WebViews -> SnapshotType]
  /\ pump \in [WebViews -> {"unconnected", "idle", "writing"} \cup Reading]
  /\ attempt \in [WebViews -> {0, 1}]
  /\ pending \in [WebViews -> SUBSET Changes] /\ batch \in [WebViews -> SUBSET Changes]
  /\ request \in [WebViews -> RequestType]
  /\ expected \in [WebViews -> SnapshotType]
  /\ inbox \in [WebViews -> Seq(MessageType)]
  /\ overtaken \in BOOLEAN
  /\ resolved \in SUBSET Changes /\ rejected \in SUBSET Changes

Places(w) == 1..Len(inbox[w])

\* Whatever carries a snapshot carries one the host has had: an older one, or
\* the one it still has.
Faithful(s) ==
  /\ s.revision \in 1..host.revision
  /\ s.revision = host.revision => s.config = host.config

SnapshotsInv ==
  /\ Faithful(First)
  /\ \A w \in WebViews :
       /\ Faithful(view[w]) /\ Faithful(expected[w])
       /\ \A i \in Places(w) : Faithful(inbox[w][i])

\* A write that the host would accept has been made on top of what it has.
WritesInv ==
  \A w \in WebViews : request[w].kind = "write" =>
    /\ request[w].revision \in 1..host.revision
    /\ request[w].revision = host.revision => host.config \subseteq request[w].config
    /\ batch[w] \subseteq request[w].config

\* A WebView awaits one answer at a time, to what it has asked.
AnswersInv ==
  \A w \in WebViews :
    /\ request[w].kind = "fetch" => pump[w] \in Reading
    /\ request[w].kind = "write" => pump[w] = "writing"
    /\ \A i \in Places(w) :
         /\ inbox[w][i].kind = "snapshot" => pump[w] \in Reading
         /\ inbox[w][i].kind \in {"accepted", "stale", "failed"} => pump[w] = "writing"
         /\ inbox[w][i].kind # "event" => request[w].kind = "none"
         /\ \A j \in Places(w) :
              inbox[w][i].kind # "event" /\ inbox[w][j].kind # "event" => i = j

\* What is about to be resolved is part of the configuration.
SavedInv ==
  /\ resolved \subseteq host.config
  /\ \A w \in WebViews :
       /\ pump[w] = "readback" => batch[w] \subseteq host.config
       /\ \A i \in Places(w) : inbox[w][i].kind = "accepted" => batch[w] \subseteq host.config

\* As long as messages come in the order they were sent in, the snapshots that
\* are on their way to a WebView are in the order of their revisions and not
\* older than its copy,
Carrying == {"event", "snapshot"}
OrderInv ==
  \A w \in WebViews : \A i \in Places(w) : inbox[w][i].kind \in Carrying =>
    /\ view[w].revision <= inbox[w][i].revision
    /\ \A j \in Places(w) : i < j /\ inbox[w][j].kind \in Carrying =>
         inbox[w][i].revision <= inbox[w][j].revision

\* and one that listens has the host's snapshot or is going to get it.
Incoming(w, kinds) ==
  \E i \in Places(w) : inbox[w][i].kind \in kinds /\ inbox[w][i].revision = host.revision
NewsInv ==
  \A w \in WebViews :
    \/ pump[w] = "unconnected"
    \/ view[w].revision = host.revision
    \/ Incoming(w, {"event"})
    \/ pump[w] = "connecting" /\ (request[w].kind = "fetch" \/ Incoming(w, Carrying))

WindowsInv ==
  /\ WindowTypes /\ SnapshotsInv /\ WritesInv /\ AnswersInv /\ SavedInv
  /\ ~overtaken => OrderInv /\ NewsInv

-----------------------------------------------------------------------------
(* Messages that are sent and delivered                                     *)

\* RemoveAt, by index.
LEMMA RemovedAt ==
  ASSUME NEW S, NEW s \in Seq(S), NEW i \in 1..Len(s)
  PROVE  /\ RemoveAt(s, i) \in Seq(S)
         /\ Len(RemoveAt(s, i)) = Len(s) - 1
         /\ \A j \in 1..(Len(s) - 1) : RemoveAt(s, i)[j] = s[IF i <= j THEN j + 1 ELSE j]
<1> DEFINE p == SubSeq(s, 1, i - 1)
           q == SubSeq(s, i + 1, Len(s))
<1>1. p \in Seq(S) /\ Len(p) = i - 1 /\ \A j \in 1..(i - 1) : p[j] = s[j]
  OBVIOUS
<1>2. q \in Seq(S) /\ Len(q) = Len(s) - i /\ \A j \in 1..(Len(s) - i) : q[j] = s[i + j]
  <2>1. q \in Seq(S) /\ Len(q) = Len(s) - i
    OBVIOUS
  <2>2. ASSUME NEW j \in 1..(Len(s) - i) PROVE q[j] = s[i + j]
    OBVIOUS
  <2> QED BY <2>1, <2>2
<1>3. RemoveAt(s, i) = p \o q
  BY DEF RemoveAt
<1>4. Len(s) \in Nat /\ i \in 1..Len(s)
  OBVIOUS
<1>7. i \in Nat /\ i >= 1 /\ i <= Len(s)
  BY <1>4
<1> HIDE DEF p, q
<1>5. p \o q \in Seq(S) /\ Len(p \o q) = Len(s) - 1
  <2>1. p \o q \in Seq(S) /\ Len(p \o q) = Len(p) + Len(q)
    <3>1. p \in Seq(S) /\ q \in Seq(S)
      BY <1>1, <1>2
    <3> QED BY <3>1
  <2> QED BY <2>1, <1>1, <1>2, <1>7
<1>6. ASSUME NEW j \in 1..(Len(s) - 1)
      PROVE  (p \o q)[j] = s[IF i <= j THEN j + 1 ELSE j]
  <2>1. CASE j < i
    BY <2>1, <1>1, <1>2, <1>4
  <2>2. CASE i <= j
    <3>1. j - (i - 1) \in 1..(Len(s) - i)
      BY <2>2, <1>7
    <3>2. (p \o q)[j] = q[j - (i - 1)]
      BY <3>1, <2>2, <1>1, <1>2, <1>7
    <3>3. q[j - (i - 1)] = s[i + (j - (i - 1))]
      BY <3>1, <1>2
    <3>4. i + (j - (i - 1)) = j + 1
      BY <2>2, <1>7
    <3> QED BY <3>2, <3>3, <3>4, <2>2
  <2>3. j < i \/ i <= j
    BY <1>7
  <2> QED BY <2>1, <2>2, <2>3
<1> QED BY <1>3, <1>5, <1>6

\* Where the message stood that stands at place j of v after the one at place i
\* of w has been taken.
Stood(w, i, v, j) == IF v = w /\ i <= j THEN j + 1 ELSE j

\* Taking a message leaves the others in their order.
LEMMA TakenLeavesTheRest ==
  ASSUME WindowTypes, NEW w \in WebViews, NEW i \in Places(w), Takes(w, i)
  PROVE  /\ inbox' \in [WebViews -> Seq(MessageType)]
         /\ overtaken' \in BOOLEAN
         /\ ~overtaken' => ~overtaken /\ i = 1
         /\ \A v \in WebViews : \A j \in Places(v)' :
              /\ Stood(w, i, v, j) \in Places(v)
              /\ inbox'[v][j] = inbox[v][Stood(w, i, v, j)]
              /\ v = w => Stood(w, i, v, j) # i
         /\ \A v \in WebViews : \A k \in Places(v) : (v # w \/ k # i) =>
              \E j \in Places(v)' : inbox'[v][j] = inbox[v][k]
<1>1. /\ inbox \in [WebViews -> Seq(MessageType)] /\ inbox[w] \in Seq(MessageType)
      /\ i \in 1..Len(inbox[w]) /\ overtaken \in BOOLEAN
  BY DEF WindowTypes, Places
<1>2. /\ inbox' = [inbox EXCEPT ![w] = RemoveAt(inbox[w], i)]
      /\ overtaken' = (overtaken \/ i # 1)
  BY DEF Takes
<1>3. /\ inbox'[w] = RemoveAt(inbox[w], i)
      /\ \A v \in WebViews \ {w} : inbox'[v] = inbox[v]
  BY <1>1, <1>2
<1>4. /\ RemoveAt(inbox[w], i) \in Seq(MessageType)
      /\ Len(RemoveAt(inbox[w], i)) = Len(inbox[w]) - 1
      /\ \A j \in 1..(Len(inbox[w]) - 1) :
           RemoveAt(inbox[w], i)[j] = inbox[w][IF i <= j THEN j + 1 ELSE j]
  BY <1>1, RemovedAt
<1>5. inbox' \in [WebViews -> Seq(MessageType)] /\ overtaken' \in BOOLEAN
      /\ (~overtaken' => ~overtaken /\ i = 1)
  BY <1>1, <1>2, <1>4
<1>6. ASSUME NEW v \in WebViews, NEW j \in Places(v)'
      PROVE  /\ Stood(w, i, v, j) \in Places(v)
             /\ inbox'[v][j] = inbox[v][Stood(w, i, v, j)]
             /\ v = w => Stood(w, i, v, j) # i
  <2>1. j \in 1..Len(inbox'[v]) /\ inbox[v] \in Seq(MessageType)
    BY <1>1, <1>6 DEF Places
  <2>2. CASE v # w
    BY <2>1, <2>2, <1>3 DEF Stood, Places
  <2>3. CASE v = w
    <3>1. j \in 1..(Len(inbox[w]) - 1) /\ Len(inbox[w]) \in Nat
      BY <2>1, <2>3, <1>1, <1>3, <1>4
    <3>2. inbox'[w][j] = inbox[w][IF i <= j THEN j + 1 ELSE j]
      BY <3>1, <1>3, <1>4
    <3> QED BY <3>1, <3>2, <2>3, <1>1 DEF Stood, Places
  <2> QED BY <2>2, <2>3
<1>7. ASSUME NEW v \in WebViews, NEW k \in Places(v), v # w \/ k # i
      PROVE  \E j \in Places(v)' : inbox'[v][j] = inbox[v][k]
  <2>1. k \in 1..Len(inbox[v]) /\ inbox[v] \in Seq(MessageType)
    BY <1>1, <1>7 DEF Places
  <2>2. CASE v # w
    BY <2>1, <2>2, <1>3 DEF Places
  <2>3. CASE v = w
    <3> DEFINE j == IF k < i THEN k ELSE k - 1
    <3>1. k \in 1..Len(inbox[w]) /\ k # i /\ Len(inbox[w]) \in Nat
      BY <2>1, <2>3, <1>7
    <3>2. j \in 1..(Len(inbox[w]) - 1) /\ (IF i <= j THEN j + 1 ELSE j) = k
      BY <3>1, <1>1
    <3>3. inbox'[w][j] = inbox[w][k] /\ j \in 1..Len(inbox'[w])
      BY <3>2, <1>3, <1>4
    <3> QED BY <3>3, <2>3 DEF Places
  <2> QED BY <2>2, <2>3
<1> QED BY <1>5, <1>6, <1>7

\* Posting appends: what was on its way stays where it is, and the rest is new.
Posted(w, messages) ==
  /\ Len(inbox'[w]) = Len(inbox[w]) + Len(messages)
  /\ \A j \in Places(w) : inbox'[w][j] = inbox[w][j]
  /\ \A j \in 1..Len(messages) : inbox'[w][Len(inbox[w]) + j] = messages[j]

LEMMA PostedIsAppended ==
  ASSUME WindowTypes, NEW w \in WebViews, NEW n \in Seq(MessageType),
         inbox'[w] = inbox[w] \o n
  PROVE  inbox'[w] \in Seq(MessageType) /\ Posted(w, n)
<1>1. inbox[w] \in Seq(MessageType)
  BY DEF WindowTypes
<1> QED BY <1>1 DEF Posted, Places

LEMMA EventIsAMessage ==
  ASSUME NEW s \in SnapshotType, NEW k \in Answering \cup {"event"}
  PROVE  /\ Message(k, s) \in MessageType
         /\ Message(k, s).kind = k /\ Message(k, s).revision = s.revision
         /\ Message(k, s).config = s.config
BY DEF Message, MessageType, SnapshotType

\* The host announces a snapshot to those who listen.
LEMMA AnnouncedToAll ==
  ASSUME WindowTypes, NEW s \in SnapshotType, NEW w \in WebViews
  PROVE  /\ Announced(s)[w] = IF pump[w] = "unconnected" THEN inbox[w]
                              ELSE inbox[w] \o <<Message("event", s)>>
         /\ Announced(s)[w] \in Seq(MessageType)
<1>1. inbox[w] \in Seq(MessageType) /\ Message("event", s) \in MessageType
  BY EventIsAMessage DEF WindowTypes
<1>2. Append(inbox[w], Message("event", s)) = inbox[w] \o <<Message("event", s)>>
      /\ Append(inbox[w], Message("event", s)) \in Seq(MessageType)
  BY <1>1
<1> QED BY <1>1, <1>2 DEF Announced

LEMMA AnswerIsPosted ==
  ASSUME WindowTypes, NEW w \in WebViews, NEW k \in Answering, NEW s \in SnapshotType,
         Answers(w, Message(k, s), inbox)
  PROVE  /\ inbox' \in [WebViews -> Seq(MessageType)]
         /\ Posted(w, <<Message(k, s)>>)
         /\ \A v \in WebViews \ {w} : inbox'[v] = inbox[v]
         /\ request' \in [WebViews -> RequestType]
         /\ request'[w] = NoRequest
         /\ \A v \in WebViews \ {w} : request'[v] = request[v]
         /\ overtaken' = overtaken
<1>1. /\ inbox \in [WebViews -> Seq(MessageType)] /\ inbox[w] \in Seq(MessageType)
      /\ request \in [WebViews -> RequestType] /\ NoRequest \in RequestType
  BY DEF WindowTypes, RequestType, NoRequest
<1>2. Message(k, s) \in MessageType
  BY EventIsAMessage
<1>3. /\ inbox' = [inbox EXCEPT ![w] = Append(inbox[w], Message(k, s))]
      /\ request' = [request EXCEPT ![w] = NoRequest]
      /\ overtaken' = overtaken
  BY DEF Answers
<1>4. Append(inbox[w], Message(k, s)) = inbox[w] \o <<Message(k, s)>>
      /\ Append(inbox[w], Message(k, s)) \in Seq(MessageType)
      /\ <<Message(k, s)>> \in Seq(MessageType)
  BY <1>1, <1>2
<1> QED BY <1>1, <1>3, <1>4, PostedIsAppended

-----------------------------------------------------------------------------
(* The windows: types                                                       *)

LEMMA MessageAtAPlace ==
  ASSUME WindowTypes, NEW w \in WebViews, NEW i \in Places(w)
  PROVE  /\ inbox[w][i] \in MessageType
         /\ Carried(inbox[w][i]) \in SnapshotType
         /\ Carried(inbox[w][i]).revision = inbox[w][i].revision
         /\ Carried(inbox[w][i]).config = inbox[w][i].config
<1>1. inbox[w] \in Seq(MessageType) /\ i \in 1..Len(inbox[w])
  BY DEF WindowTypes, Places
<1>2. inbox[w][i] \in MessageType
  BY <1>1
<1> QED BY <1>2 DEF Carried, Snapshot, MessageType, SnapshotType

LEMMA FirstIsASnapshot == First \in SnapshotType /\ First.revision = 1 /\ First.config = {}
BY DEF First, Snapshot, SnapshotType

LEMMA FetchIsARequest ==
  /\ Fetch \in RequestType /\ Fetch.kind = "fetch"
  /\ NoRequest \in RequestType /\ NoRequest.kind = "none"
BY DEF Fetch, Message, Snapshot, RequestType, NoRequest

LEMMA WriteIsARequest ==
  ASSUME NEW s \in SnapshotType, NEW c \in SUBSET Changes
  PROVE  LET r == Write(Snapshot(s.revision, s.config \cup c))
         IN r \in RequestType /\ r.kind = "write" /\ r.revision = s.revision
            /\ r.config = s.config \cup c
BY DEF Write, Message, Snapshot, RequestType, SnapshotType, All

\* What the host publishes next.
LEMMA NextSnapshot ==
  ASSUME WindowTypes, NEW c \in SUBSET All
  PROVE  LET s == Snapshot(host.revision + 1, c)
         IN s \in SnapshotType /\ s.revision = host.revision + 1 /\ s.config = c
BY DEF WindowTypes, SnapshotType, Snapshot

\* An accepted write: everybody who listens is told, and the writer answered.
LEMMA AcceptedIsPosted ==
  ASSUME WindowsInv, NEW w \in WebViews, HostAccepts(w)
  PROVE  LET next == Snapshot(host.revision + 1, request[w].config)
             e == Message("event", next)
             a == Message("accepted", next)
         IN /\ next \in SnapshotType /\ next.revision = host.revision + 1
            /\ next.config = request[w].config
            /\ e \in MessageType /\ e.kind = "event"
            /\ a \in MessageType /\ a.kind = "accepted"
            /\ e.revision = host.revision + 1 /\ e.config = next.config
            /\ a.revision = host.revision + 1 /\ a.config = next.config
            /\ host' = next /\ host'.revision = host.revision + 1
            /\ pump[w] = "writing"
            /\ inbox' \in [WebViews -> Seq(MessageType)]
            /\ Posted(w, <<e, a>>)
            /\ \A v \in WebViews \ {w} :
                 IF pump[v] = "unconnected" THEN inbox'[v] = inbox[v] ELSE Posted(v, <<e>>)
            /\ request' \in [WebViews -> RequestType]
            /\ request'[w] = NoRequest
            /\ \A v \in WebViews \ {w} : request'[v] = request[v]
            /\ overtaken' = overtaken
<1> DEFINE next == Snapshot(host.revision + 1, request[w].config)
           e == Message("event", next)
           a == Message("accepted", next)
<1>1. WindowTypes /\ pump[w] = "writing"
  BY DEF WindowsInv, AnswersInv, HostAccepts
<1>2. /\ request \in [WebViews -> RequestType] /\ request[w] \in RequestType
      /\ request[w].config \in SUBSET All /\ inbox \in [WebViews -> Seq(MessageType)]
  BY <1>1 DEF WindowTypes, RequestType
<1>3. next \in SnapshotType /\ next.revision = host.revision + 1 /\ next.config = request[w].config
  BY <1>1, <1>2, NextSnapshot
<1>4. /\ host' = next /\ overtaken' = overtaken
      /\ inbox' = [Announced(next) EXCEPT ![w] = Append(Announced(next)[w], a)]
      /\ request' = [request EXCEPT ![w] = NoRequest]
  BY DEF HostAccepts, Answers
<1> HIDE DEF next
<1>5. /\ e \in MessageType /\ e.kind = "event" /\ e.revision = next.revision /\ e.config = next.config
      /\ a \in MessageType /\ a.kind = "accepted" /\ a.revision = next.revision /\ a.config = next.config
  BY <1>3, EventIsAMessage DEF Answering
<1> HIDE DEF e, a
<1>6. /\ Announced(next) = [v \in WebViews |-> Announced(next)[v]]
      /\ \A v \in WebViews : Announced(next)[v] \in Seq(MessageType)
  BY <1>1, <1>3, AnnouncedToAll DEF Announced
<1>7. /\ inbox'[w] = Append(Announced(next)[w], a)
      /\ \A v \in WebViews \ {w} : inbox'[v] = Announced(next)[v]
      /\ inbox' \in [WebViews -> Seq(MessageType)]
  BY <1>4, <1>5, <1>6
<1>8. Announced(next)[w] = inbox[w] \o <<e>>
  BY <1>1, <1>3, AnnouncedToAll DEF e
<1>9. inbox'[w] = inbox[w] \o <<e, a>>
  <2>1. inbox[w] \in Seq(MessageType)
    BY <1>2
  <2>2. e \in MessageType /\ a \in MessageType
    BY <1>5
  <2>3. Append(inbox[w] \o <<e>>, a) = inbox[w] \o <<e, a>>
    BY <2>1, <2>2
  <2> QED BY <1>7, <1>8, <2>3
<1>10. Posted(w, <<e, a>>)
  <2>1. <<e, a>> \in Seq(MessageType)
    BY <1>5
  <2> QED BY <1>1, <1>9, <2>1, PostedIsAppended
<1>11. ASSUME NEW v \in WebViews \ {w}
       PROVE  IF pump[v] = "unconnected" THEN inbox'[v] = inbox[v] ELSE Posted(v, <<e>>)
  <2>1. inbox'[v] = IF pump[v] = "unconnected" THEN inbox[v] ELSE inbox[v] \o <<e>>
    BY <1>1, <1>3, <1>7, AnnouncedToAll DEF e
  <2>2. <<e>> \in Seq(MessageType)
    BY <1>5
  <2> QED BY <1>1, <2>1, <2>2, PostedIsAppended
<1>12. /\ request' \in [WebViews -> RequestType] /\ request'[w] = NoRequest
       /\ \A v \in WebViews \ {w} : request'[v] = request[v]
  BY <1>2, <1>4, FetchIsARequest
<1> QED BY <1>1, <1>3, <1>4, <1>5, <1>7, <1>10, <1>11, <1>12 DEF next, e, a

\* A change by the host itself.
LEMMA MutationIsAnnounced ==
  ASSUME WindowsInv, NEW c \in Native, HostMutates(c)
  PROVE  LET next == Snapshot(host.revision + 1, host.config \cup {c})
             e == Message("event", next)
         IN /\ next \in SnapshotType /\ next.revision = host.revision + 1
            /\ next.config = host.config \cup {c}
            /\ e \in MessageType /\ e.kind = "event"
            /\ e.revision = host.revision + 1 /\ e.config = next.config
            /\ host' = next /\ host'.revision = host.revision + 1
            /\ inbox' \in [WebViews -> Seq(MessageType)]
            /\ \A v \in WebViews :
                 IF pump[v] = "unconnected" THEN inbox'[v] = inbox[v] ELSE Posted(v, <<e>>)
<1> DEFINE next == Snapshot(host.revision + 1, host.config \cup {c})
           e == Message("event", next)
<1>1. WindowTypes /\ host.config \cup {c} \in SUBSET All
  BY DEF WindowsInv, WindowTypes, SnapshotType, All
<1>2. next \in SnapshotType /\ next.revision = host.revision + 1 /\ next.config = host.config \cup {c}
  BY <1>1, NextSnapshot
<1>3. host' = next /\ inbox' = Announced(next)
  BY DEF HostMutates
<1> HIDE DEF next
<1>4. /\ e \in MessageType /\ e.kind = "event" /\ e.revision = next.revision /\ e.config = next.config
  BY <1>2, EventIsAMessage
<1> HIDE DEF e
<1>5. inbox' \in [WebViews -> Seq(MessageType)]
  BY <1>1, <1>2, <1>3, AnnouncedToAll DEF Announced
<1>6. ASSUME NEW v \in WebViews
      PROVE  IF pump[v] = "unconnected" THEN inbox'[v] = inbox[v] ELSE Posted(v, <<e>>)
  <2>1. inbox'[v] = IF pump[v] = "unconnected" THEN inbox[v] ELSE inbox[v] \o <<e>>
    BY <1>1, <1>2, <1>3, AnnouncedToAll DEF e
  <2>2. <<e>> \in Seq(MessageType)
    BY <1>4
  <2> QED BY <1>1, <2>1, <2>2, PostedIsAppended
<1> QED BY <1>2, <1>3, <1>4, <1>5, <1>6 DEF next, e

-----------------------------------------------------------------------------
(* The windows: a message arrives                                           *)

\* What the arrival of the message at place i of w does to the copy of w: it
\* takes what the message carries or nothing, and takes it when that is what the
\* host has and it is an event, or the end of connect.
Shows(w, i) ==
  /\ host' = host
  /\ \/ view' = view
     \/ inbox[w][i].kind \in Carrying /\ view' = [view EXCEPT ![w] = Carried(inbox[w][i])]
  /\ inbox[w][i].revision = host.revision
       /\ (inbox[w][i].kind = "event" \/ (inbox[w][i].kind = "snapshot" /\ pump[w] = "connecting"))
       => view'[w].revision = host.revision
  /\ \A v \in WebViews \ {w} : pump'[v] = pump[v] /\ request'[v] = request[v]
  /\ inbox[w][i].kind = "event" => pump'[w] = pump[w] /\ request'[w] = request[w]

LEMMA ShownIsACopy ==
  ASSUME WindowsInv, NEW w \in WebViews, NEW i \in Places(w), Shows(w, i)
  PROVE  /\ \A v \in WebViews \ {w} : view'[v] = view[v]
         /\ \/ view'[w] = view[w]
            \/ /\ inbox[w][i].kind \in Carrying
               /\ view'[w] = Carried(inbox[w][i])
               /\ view'[w].revision = inbox[w][i].revision
         /\ view' \in [WebViews -> SnapshotType]
<1>1. WindowTypes /\ view \in [WebViews -> SnapshotType]
  BY DEF WindowsInv, WindowTypes
<1>2. Carried(inbox[w][i]) \in SnapshotType
      /\ Carried(inbox[w][i]).revision = inbox[w][i].revision
  BY <1>1, MessageAtAPlace
<1> QED BY <1>1, <1>2 DEF Shows

LEMMA ArrivalKeepsSnapshots ==
  ASSUME WindowsInv, NEW w \in WebViews, NEW i \in Places(w), Takes(w, i), Shows(w, i),
         \A v \in WebViews : expected'[v] \in {expected[v], Carried(inbox[w][i])}
  PROVE  SnapshotsInv'
<1>1. /\ WindowTypes /\ SnapshotsInv /\ host' = host
      /\ view \in [WebViews -> SnapshotType]
  BY DEF WindowsInv, Shows, WindowTypes
<1>2. Faithful(Carried(inbox[w][i]))
  BY <1>1, MessageAtAPlace DEF SnapshotsInv, Faithful
<1>3. ASSUME NEW v \in WebViews
      PROVE  /\ view'[v] \in {view[v], Carried(inbox[w][i])}
             /\ \A j \in Places(v)' : \E k \in Places(v) : inbox'[v][j] = inbox[v][k]
  <2>1. v = w => view'[v] = view[v] \/ view'[v] = Carried(inbox[w][i])
    BY <1>1 DEF Shows
  <2>2. v # w => view'[v] = view[v]
    BY <1>1 DEF Shows
  <2>3. \A j \in Places(v)' :
          /\ Stood(w, i, v, j) \in Places(v)
          /\ inbox'[v][j] = inbox[v][Stood(w, i, v, j)]
    BY <1>1, TakenLeavesTheRest
  <2> QED BY <2>1, <2>2, <2>3
<1>4. \A s : Faithful(s) <=> Faithful(s)'
  BY <1>1 DEF Faithful
<1>5. Faithful(First)'
  BY <1>1 DEF SnapshotsInv, Faithful, First
<1>6. ASSUME NEW v \in WebViews
      PROVE  Faithful(view[v])' /\ Faithful(expected[v])'
  BY <1>1, <1>2, <1>3 DEF SnapshotsInv, Faithful
<1>7. ASSUME NEW v \in WebViews, NEW j \in Places(v)'
      PROVE  Faithful(inbox[v][j])'
  <2>1. PICK k \in Places(v) : inbox'[v][j] = inbox[v][k]
    BY <1>3
  <2>2. Faithful(inbox[v][k])
    BY <1>1 DEF SnapshotsInv
  <2> QED BY <2>1, <2>2, <1>1 DEF Faithful
<1> QED BY <1>5, <1>6, <1>7 DEF SnapshotsInv

LEMMA ArrivalKeepsOrder ==
  ASSUME WindowsInv, NEW w \in WebViews, NEW i \in Places(w), Takes(w, i), Shows(w, i),
         ~overtaken'
  PROVE  OrderInv'
<1>1. /\ WindowTypes /\ OrderInv /\ i = 1 /\ host' = host
      /\ inbox \in [WebViews -> Seq(MessageType)]
  BY TakenLeavesTheRest DEF WindowsInv, Shows, WindowTypes
<1>2. SUFFICES ASSUME NEW v \in WebViews, NEW j \in Places(v)', inbox'[v][j].kind \in Carrying
               PROVE  /\ view'[v].revision <= inbox'[v][j].revision
                      /\ \A k \in Places(v)' : j < k /\ inbox'[v][k].kind \in Carrying =>
                           inbox'[v][j].revision <= inbox'[v][k].revision
  BY DEF OrderInv
<1> DEFINE old(k) == Stood(w, i, v, k)
<1>3. /\ old(j) \in Places(v) /\ inbox'[v][j] = inbox[v][old(j)]
      /\ v = w => old(j) # i
  BY <1>1, TakenLeavesTheRest
<1>4. view'[v].revision <= inbox'[v][j].revision
  <2>1. view[v].revision <= inbox[v][old(j)].revision
    BY <1>1, <1>2, <1>3 DEF OrderInv
  <2>2. CASE view'[v] = view[v]
    BY <2>1, <2>2, <1>3
  <2>3. CASE /\ v = w /\ inbox[w][i].kind \in Carrying
             /\ view'[w].revision = inbox[w][i].revision
    <3>1. i < old(j) /\ inbox[w][i].revision <= inbox[w][old(j)].revision
      <4>1. i < old(j)
        BY <2>3, <1>1, <1>3 DEF Places
      <4> QED BY <4>1, <2>3, <1>1, <1>2, <1>3 DEF OrderInv
    <3> QED BY <3>1, <2>3, <1>3
  <2> QED BY <2>2, <2>3, ShownIsACopy
<1>5. ASSUME NEW k \in Places(v)', j < k, inbox'[v][k].kind \in Carrying
      PROVE  inbox'[v][j].revision <= inbox'[v][k].revision
  <2>1. old(k) \in Places(v) /\ inbox'[v][k] = inbox[v][old(k)]
    BY <1>1, <1>5, TakenLeavesTheRest
  <2>2. j \in Int /\ k \in Int /\ i \in Int
    BY DEF Places
  <2>3. old(j) < old(k)
    BY <2>2, <1>5 DEF Stood
  <2> QED BY <2>1, <2>3, <1>1, <1>2, <1>3, <1>5 DEF OrderInv
<1> QED BY <1>4, <1>5

LEMMA ArrivalKeepsNews ==
  ASSUME WindowsInv, NEW w \in WebViews, NEW i \in Places(w), Takes(w, i), Shows(w, i),
         ~overtaken', pump[w] # "unconnected" \/ inbox[w][i].kind = "event"
  PROVE  NewsInv'
<1>1. /\ WindowTypes /\ SnapshotsInv /\ AnswersInv /\ OrderInv /\ NewsInv
      /\ i = 1 /\ host' = host /\ i \in Places(w)
  BY TakenLeavesTheRest DEF WindowsInv, Shows
<1>2. SUFFICES ASSUME NEW v \in WebViews
               PROVE  \/ pump'[v] = "unconnected"
                      \/ view'[v].revision = host'.revision
                      \/ Incoming(v, {"event"})'
                      \/ /\ pump'[v] = "connecting"
                         /\ request'[v].kind = "fetch" \/ Incoming(v, Carrying)'
  BY DEF NewsInv
<1>3. \A k \in Places(v) : v # w \/ k # i =>
        \E j \in Places(v)' : inbox'[v][j] = inbox[v][k]
  BY <1>1, TakenLeavesTheRest
<1>4. ASSUME NEW K, NEW k \in Places(v), v # w \/ k # i,
             inbox[v][k].kind \in K, inbox[v][k].revision = host.revision
      PROVE  Incoming(v, K)'
  <2>1. PICK j \in Places(v)' : inbox'[v][j] = inbox[v][k]
    BY <1>3, <1>4
  <2> QED BY <2>1, <1>1, <1>4 DEF Incoming
<1>5. CASE v # w
  <2>1. view'[v] = view[v] /\ pump'[v] = pump[v] /\ request'[v] = request[v]
    BY <1>5, ShownIsACopy DEF Shows
  <2>2. \A K : Incoming(v, K) => Incoming(v, K)'
    BY <1>4, <1>5 DEF Incoming
  <2> QED BY <2>1, <2>2, <1>1 DEF NewsInv
<1>6. CASE v = w
  <2>1. \/ pump[w] = "unconnected"
        \/ view[w].revision = host.revision
        \/ Incoming(w, {"event"})
        \/ pump[w] = "connecting" /\ (request[w].kind = "fetch" \/ Incoming(w, Carrying))
    BY <1>1 DEF NewsInv
  <2>2. CASE pump[w] = "unconnected"
    BY <2>2, <1>6 DEF Shows
  <2>3. CASE view[w].revision = host.revision
    <3>1. CASE view'[w] = view[w]
      BY <3>1, <2>3, <1>1, <1>6
    <3>2. CASE /\ inbox[w][i].kind \in Carrying
               /\ view'[w].revision = inbox[w][i].revision
      <4>1. inbox[w][i].revision \in 1..host.revision /\ view[w].revision <= inbox[w][i].revision
        BY <3>2, <1>1 DEF SnapshotsInv, Faithful, OrderInv
      <4>2. host.revision \in Nat
        BY <1>1 DEF WindowTypes, SnapshotType
      <4>3. inbox[w][i].revision = host.revision
        BY <4>1, <4>2, <2>3
      <4> QED BY <4>3, <3>2, <1>1, <1>6
    <3> QED BY <3>1, <3>2, ShownIsACopy
  <2>4. CASE Incoming(w, {"event"})
    <3>1. PICK k \in Places(w) : inbox[w][k].kind = "event" /\ inbox[w][k].revision = host.revision
      BY <2>4 DEF Incoming
    <3>2. CASE k = i
      BY <3>1, <3>2, <1>1, <1>6 DEF Shows
    <3>3. CASE k # i
      BY <3>1, <3>3, <1>4, <1>6
    <3> QED BY <3>2, <3>3
  <2>5. CASE pump[w] = "connecting" /\ request[w].kind = "fetch"
    <3>1. inbox[w][i].kind = "event"
      BY <2>5, <1>1 DEF AnswersInv
    <3> QED BY <3>1, <2>5, <1>6 DEF Shows
  <2>6. CASE pump[w] = "connecting" /\ Incoming(w, Carrying)
    <3>1. PICK k \in Places(w) : inbox[w][k].kind \in Carrying /\ inbox[w][k].revision = host.revision
      BY <2>6 DEF Incoming
    <3>2. CASE k = i
      BY <3>1, <3>2, <2>6, <1>1, <1>6 DEF Shows, Carrying
    <3>3. CASE k # i /\ inbox[w][k].kind = "event"
      BY <3>1, <3>3, <1>4, <1>6
    <3>4. CASE k # i /\ inbox[w][k].kind # "event"
      <4>1. inbox[w][i].kind = "event"
        BY <3>4, <3>1, <1>1 DEF AnswersInv
      <4>2. pump'[w] = "connecting"
        BY <4>1, <2>6 DEF Shows
      <4> QED BY <4>2, <3>1, <3>4, <1>4, <1>6
    <3> QED BY <3>2, <3>3, <3>4
  <2> QED BY <2>1, <2>2, <2>3, <2>4, <2>5, <2>6
<1> QED BY <1>5, <1>6

\* An answer leaves no other one behind it, and an event the answers as they
\* were.
LEMMA ArrivalKeepsAnswers ==
  ASSUME WindowsInv, NEW w \in WebViews, NEW i \in Places(w), Takes(w, i), Shows(w, i),
         inbox[w][i].kind # "event" =>
           /\ request'[w].kind = "fetch" => pump'[w] \in Reading
           /\ request'[w].kind = "write" => pump'[w] = "writing"
  PROVE  AnswersInv'
<1>1. WindowTypes /\ AnswersInv
  BY DEF WindowsInv
<1>2. ASSUME NEW v \in WebViews, NEW j \in Places(v)'
      PROVE  /\ Stood(w, i, v, j) \in Places(v)
             /\ inbox'[v][j] = inbox[v][Stood(w, i, v, j)]
             /\ v = w => Stood(w, i, v, j) # i
  BY <1>1, <1>2, TakenLeavesTheRest
<1>3. ASSUME NEW v \in WebViews, v # w \/ inbox[w][i].kind = "event"
      PROVE  /\ request'[v].kind = "fetch" => pump'[v] \in Reading
             /\ request'[v].kind = "write" => pump'[v] = "writing"
             /\ \A j \in Places(v)' :
                  /\ inbox'[v][j].kind = "snapshot" => pump'[v] \in Reading
                  /\ inbox'[v][j].kind \in {"accepted", "stale", "failed"} => pump'[v] = "writing"
                  /\ inbox'[v][j].kind # "event" => request'[v].kind = "none"
                  /\ \A k \in Places(v)' :
                       inbox'[v][j].kind # "event" /\ inbox'[v][k].kind # "event" => j = k
  <2>1. pump'[v] = pump[v] /\ request'[v] = request[v]
    BY <1>3 DEF Shows
  <2>2. ASSUME NEW j \in Places(v)', NEW k \in Places(v)',
               inbox'[v][j].kind # "event", inbox'[v][k].kind # "event"
        PROVE  j = k
    <3>1. Stood(w, i, v, j) = Stood(w, i, v, k)
      BY <2>2, <1>1, <1>2 DEF AnswersInv
    <3>2. j \in Int /\ k \in Int /\ i \in Int
      BY DEF Places
    <3> QED BY <3>1, <3>2 DEF Stood
  <2> QED BY <2>1, <2>2, <1>1, <1>2 DEF AnswersInv
<1>4. ASSUME inbox[w][i].kind # "event", NEW j \in Places(w)'
      PROVE  inbox'[w][j].kind = "event"
  BY <1>4, <1>1, <1>2 DEF AnswersInv
<1>5. CASE inbox[w][i].kind = "event"
  BY <1>3, <1>5 DEF AnswersInv
<1>6. CASE inbox[w][i].kind # "event"
  BY <1>3, <1>4, <1>6 DEF AnswersInv
<1> QED BY <1>5, <1>6

LEMMA ArrivalKeepsWrites ==
  ASSUME WindowsInv, NEW w \in WebViews, NEW i \in Places(w), Takes(w, i), Shows(w, i),
         \A v \in WebViews \ {w} : batch'[v] = batch[v],
         \/ request'[w] = request[w] /\ batch'[w] \subseteq batch[w]
         \/ request'[w].kind # "write"
         \/ /\ request'[w].revision = inbox[w][i].revision
            /\ request'[w].config = inbox[w][i].config \cup batch'[w]
  PROVE  WritesInv'
<1>1. WindowTypes /\ WritesInv /\ SnapshotsInv /\ host' = host
  BY DEF WindowsInv, Shows
<1>2. ASSUME NEW v \in WebViews, request'[v].kind = "write"
      PROVE  /\ request'[v].revision \in 1..host.revision
             /\ request'[v].revision = host.revision => host.config \subseteq request'[v].config
             /\ batch'[v] \subseteq request'[v].config
  <2>1. CASE v # w
    BY <2>1, <1>1, <1>2 DEF Shows, WritesInv
  <2>2. CASE v = w /\ request'[w] = request[w] /\ batch'[w] \subseteq batch[w]
    BY <2>2, <1>1, <1>2 DEF WritesInv
  <2>3. CASE /\ v = w /\ request'[w].revision = inbox[w][i].revision
             /\ request'[w].config = inbox[w][i].config \cup batch'[w]
    BY <2>3, <1>1 DEF SnapshotsInv, Faithful
  <2> QED BY <2>1, <2>2, <2>3, <1>2
<1> QED BY <1>1, <1>2 DEF WritesInv

LEMMA ArrivalKeepsSaved ==
  ASSUME WindowsInv, NEW w \in WebViews, NEW i \in Places(w), Takes(w, i), Shows(w, i),
         \A v \in WebViews : batch'[v] \subseteq batch[v],
         resolved' \subseteq resolved \cup (IF pump[w] = "readback" THEN batch[w] ELSE {}),
         pump'[w] = "readback" => pump[w] = "readback" \/ inbox[w][i].kind = "accepted"
  PROVE  SavedInv'
<1>1. WindowTypes /\ SavedInv /\ host' = host
  BY DEF WindowsInv, Shows
<1>2. resolved' \subseteq host.config
  BY <1>1 DEF SavedInv
<1>3. ASSUME NEW v \in WebViews, pump'[v] = "readback"
      PROVE  batch'[v] \subseteq host.config
  BY <1>1, <1>3 DEF SavedInv, Shows
<1>4. ASSUME NEW v \in WebViews, NEW j \in Places(v)', inbox'[v][j].kind = "accepted"
      PROVE  batch'[v] \subseteq host.config
  BY <1>1, <1>4, TakenLeavesTheRest DEF SavedInv
<1> QED BY <1>1, <1>2, <1>3, <1>4 DEF SavedInv

LEMMA ArrivalKeepsTypes ==
  ASSUME WindowsInv, NEW w \in WebViews, NEW i \in Places(w), Takes(w, i), Shows(w, i),
         pump' \in [WebViews -> {"unconnected", "idle", "writing"} \cup Reading],
         attempt' \in [WebViews -> {0, 1}],
         pending' = pending, batch' \in [WebViews -> SUBSET Changes],
         request' \in [WebViews -> RequestType],
         expected' \in [WebViews -> SnapshotType],
         resolved' \in SUBSET Changes, rejected' \in SUBSET Changes
  PROVE  WindowTypes'
<1>1. WindowTypes
  BY DEF WindowsInv
<1>2. /\ view' \in [WebViews -> SnapshotType] /\ host' = host
      /\ inbox' \in [WebViews -> Seq(MessageType)] /\ overtaken' \in BOOLEAN
  BY <1>1, ShownIsACopy, TakenLeavesTheRest DEF Shows
<1> QED BY <1>1, <1>2 DEF WindowTypes

LEMMA EventArrivesKeepsInv ==
  ASSUME WindowsInv, NEW w \in WebViews, NEW i \in Places(w), EventArrives(w, i)
  PROVE  WindowsInv'
<1>1. WindowTypes /\ SnapshotsInv
  BY DEF WindowsInv
<1>2. /\ Takes(w, i) /\ inbox[w][i].kind = "event" /\ host' = host
      /\ UNCHANGED <<pump, attempt, pending, batch, expected, request, resolved, rejected>>
      /\ view' = IF inbox[w][i].revision < view[w].revision THEN view
                 ELSE [view EXCEPT ![w] = Carried(inbox[w][i])]
  BY DEF EventArrives, pumpVars
<1>3. view[w] \in SnapshotType /\ view[w].revision \in 1..host.revision
      /\ host.revision \in Nat /\ view \in [WebViews -> SnapshotType]
      /\ Carried(inbox[w][i]).revision = inbox[w][i].revision
  BY <1>1, MessageAtAPlace DEF WindowTypes, SnapshotsInv, Faithful, SnapshotType
<1>4. Shows(w, i)
  BY <1>2, <1>3 DEF Shows, Carrying
<1>5. WindowTypes'
  BY <1>1, <1>2, <1>4, ArrivalKeepsTypes DEF WindowTypes
<1>6. SnapshotsInv' /\ AnswersInv' /\ WritesInv' /\ SavedInv'
  BY <1>2, <1>4, ArrivalKeepsSnapshots, ArrivalKeepsAnswers, ArrivalKeepsWrites, ArrivalKeepsSaved
<1>7. ~overtaken' => OrderInv' /\ NewsInv'
  BY <1>2, <1>4, ArrivalKeepsOrder, ArrivalKeepsNews
<1> QED BY <1>5, <1>6, <1>7 DEF WindowsInv

LEMMA ConnectedKeepsInv ==
  ASSUME WindowsInv, NEW w \in WebViews, NEW i \in Places(w), Connected(w, i)
  PROVE  WindowsInv'
<1>1. /\ WindowTypes /\ SnapshotsInv /\ AnswersInv /\ pump \in [WebViews -> {"unconnected", "idle", "writing"} \cup Reading]
      /\ batch \in [WebViews -> SUBSET Changes] /\ request \in [WebViews -> RequestType]
      /\ expected \in [WebViews -> SnapshotType] /\ attempt \in [WebViews -> {0, 1}]
      /\ view \in [WebViews -> SnapshotType] /\ resolved \in SUBSET Changes /\ rejected \in SUBSET Changes
  BY DEF WindowsInv, WindowTypes
<1>2. /\ Carried(inbox[w][i]) \in SnapshotType /\ Carried(inbox[w][i]).revision = inbox[w][i].revision
      /\ Carried(inbox[w][i]).config = inbox[w][i].config
  BY <1>1, MessageAtAPlace
<1>3. /\ Takes(w, i) /\ pump[w] = "connecting" /\ inbox[w][i].kind = "snapshot" /\ host' = host
      /\ pump' = [pump EXCEPT ![w] = "idle"]
      /\ UNCHANGED <<attempt, pending, batch, request, expected, resolved, rejected>>
      /\ view' = IF inbox[w][i].revision < view[w].revision THEN view
                 ELSE [view EXCEPT ![w] = Carried(inbox[w][i])]
      /\ request[w].kind = "none"
  BY <1>1 DEF Connected, AnswersInv
<1>4. Shows(w, i)
  <2>1. view[w].revision \in 1..host.revision /\ host.revision \in Nat
    BY <1>1 DEF WindowTypes, SnapshotsInv, Faithful, SnapshotType
  <2> QED BY <1>1, <1>2, <1>3, <2>1 DEF Shows, Carrying
<1>5. WindowTypes'
  BY <1>1, <1>2, <1>3, <1>4, ArrivalKeepsTypes, FetchIsARequest DEF WindowTypes, Reading
<1>6. SnapshotsInv'
  BY <1>1, <1>3, <1>4, ArrivalKeepsSnapshots
<1>7. AnswersInv'
  BY <1>1, <1>3, <1>4, ArrivalKeepsAnswers, FetchIsARequest DEF Reading
<1>8. WritesInv'
  BY <1>1, <1>3, <1>4, ArrivalKeepsWrites, FetchIsARequest
<1>9. SavedInv'
  BY <1>1, <1>3, <1>4, ArrivalKeepsSaved
<1>10. ~overtaken' => OrderInv' /\ NewsInv'
  BY <1>3, <1>4, ArrivalKeepsOrder, ArrivalKeepsNews
<1> QED BY <1>5, <1>6, <1>7, <1>8, <1>9, <1>10 DEF WindowsInv

LEMMA WriteAcceptedKeepsInv ==
  ASSUME WindowsInv, NEW w \in WebViews, NEW i \in Places(w), WriteAccepted(w, i)
  PROVE  WindowsInv'
<1>1. /\ WindowTypes /\ SnapshotsInv /\ AnswersInv /\ pump \in [WebViews -> {"unconnected", "idle", "writing"} \cup Reading]
      /\ batch \in [WebViews -> SUBSET Changes] /\ request \in [WebViews -> RequestType]
      /\ expected \in [WebViews -> SnapshotType] /\ attempt \in [WebViews -> {0, 1}]
      /\ view \in [WebViews -> SnapshotType] /\ resolved \in SUBSET Changes /\ rejected \in SUBSET Changes
  BY DEF WindowsInv, WindowTypes
<1>2. /\ Carried(inbox[w][i]) \in SnapshotType /\ Carried(inbox[w][i]).revision = inbox[w][i].revision
      /\ Carried(inbox[w][i]).config = inbox[w][i].config
  BY <1>1, MessageAtAPlace
<1>3. /\ Takes(w, i) /\ pump[w] = "writing" /\ inbox[w][i].kind = "accepted" /\ host' = host
      /\ pump' = [pump EXCEPT ![w] = "readback"]
      /\ request' = [request EXCEPT ![w] = Fetch]
      /\ expected' = [expected EXCEPT ![w] = Carried(inbox[w][i])]
      /\ UNCHANGED <<view, attempt, pending, batch, resolved, rejected>>
  BY <1>1 DEF WriteAccepted
<1>4. Shows(w, i)
  BY <1>1, <1>2, <1>3 DEF Shows, Carrying
<1>5. WindowTypes'
  BY <1>1, <1>2, <1>3, <1>4, ArrivalKeepsTypes, FetchIsARequest DEF WindowTypes, Reading
<1>6. SnapshotsInv'
  BY <1>1, <1>3, <1>4, ArrivalKeepsSnapshots
<1>7. AnswersInv'
  BY <1>1, <1>3, <1>4, ArrivalKeepsAnswers, FetchIsARequest DEF Reading
<1>8. WritesInv'
  BY <1>1, <1>3, <1>4, ArrivalKeepsWrites, FetchIsARequest
<1>9. SavedInv'
  BY <1>1, <1>3, <1>4, ArrivalKeepsSaved
<1>10. ~overtaken' => OrderInv' /\ NewsInv'
  BY <1>3, <1>4, ArrivalKeepsOrder, ArrivalKeepsNews
<1> QED BY <1>5, <1>6, <1>7, <1>8, <1>9, <1>10 DEF WindowsInv

LEMMA ReadbackAgreesKeepsInv ==
  ASSUME WindowsInv, NEW w \in WebViews, NEW i \in Places(w), ReadbackAgrees(w, i)
  PROVE  WindowsInv'
<1>1. /\ WindowTypes /\ SnapshotsInv /\ AnswersInv /\ pump \in [WebViews -> {"unconnected", "idle", "writing"} \cup Reading]
      /\ batch \in [WebViews -> SUBSET Changes] /\ request \in [WebViews -> RequestType]
      /\ expected \in [WebViews -> SnapshotType] /\ attempt \in [WebViews -> {0, 1}]
      /\ view \in [WebViews -> SnapshotType] /\ resolved \in SUBSET Changes /\ rejected \in SUBSET Changes
  BY DEF WindowsInv, WindowTypes
<1>2. /\ Carried(inbox[w][i]) \in SnapshotType /\ Carried(inbox[w][i]).revision = inbox[w][i].revision
      /\ Carried(inbox[w][i]).config = inbox[w][i].config
  BY <1>1, MessageAtAPlace
<1>3. /\ Takes(w, i) /\ pump[w] = "readback" /\ inbox[w][i].kind = "snapshot" /\ host' = host
      /\ Carried(inbox[w][i]) = expected[w]
      /\ view' = [view EXCEPT ![w] = expected[w]]
      /\ resolved' = resolved \cup batch[w]
      /\ batch' = [batch EXCEPT ![w] = {}] /\ pump' = [pump EXCEPT ![w] = "idle"]
      /\ UNCHANGED <<attempt, pending, request, expected, rejected>>
      /\ request[w].kind = "none"
  BY <1>1 DEF ReadbackAgrees, Finish, AnswersInv
<1>4. Shows(w, i)
  BY <1>1, <1>2, <1>3 DEF Shows, Carrying
<1>5. WindowTypes'
  BY <1>1, <1>2, <1>3, <1>4, ArrivalKeepsTypes, FetchIsARequest DEF WindowTypes, Reading
<1>6. SnapshotsInv'
  BY <1>1, <1>3, <1>4, ArrivalKeepsSnapshots
<1>7. AnswersInv'
  BY <1>1, <1>3, <1>4, ArrivalKeepsAnswers, FetchIsARequest DEF Reading
<1>8. WritesInv'
  BY <1>1, <1>3, <1>4, ArrivalKeepsWrites, FetchIsARequest
<1>9. SavedInv'
  BY <1>1, <1>3, <1>4, ArrivalKeepsSaved
<1>10. ~overtaken' => OrderInv' /\ NewsInv'
  BY <1>3, <1>4, ArrivalKeepsOrder, ArrivalKeepsNews
<1> QED BY <1>5, <1>6, <1>7, <1>8, <1>9, <1>10 DEF WindowsInv

LEMMA ReadbackDiffersKeepsInv ==
  ASSUME WindowsInv, NEW w \in WebViews, NEW i \in Places(w), ReadbackDiffers(w, i)
  PROVE  WindowsInv'
<1>1. /\ WindowTypes /\ SnapshotsInv /\ AnswersInv /\ pump \in [WebViews -> {"unconnected", "idle", "writing"} \cup Reading]
      /\ batch \in [WebViews -> SUBSET Changes] /\ request \in [WebViews -> RequestType]
      /\ expected \in [WebViews -> SnapshotType] /\ attempt \in [WebViews -> {0, 1}]
      /\ view \in [WebViews -> SnapshotType] /\ resolved \in SUBSET Changes /\ rejected \in SUBSET Changes
  BY DEF WindowsInv, WindowTypes
<1>2. /\ Carried(inbox[w][i]) \in SnapshotType /\ Carried(inbox[w][i]).revision = inbox[w][i].revision
      /\ Carried(inbox[w][i]).config = inbox[w][i].config
  BY <1>1, MessageAtAPlace
<1>3. /\ Takes(w, i) /\ pump[w] = "readback" /\ inbox[w][i].kind = "snapshot" /\ host' = host
      /\ rejected' = rejected \cup batch[w]
      /\ batch' = [batch EXCEPT ![w] = {}] /\ pump' = [pump EXCEPT ![w] = "idle"]
      /\ UNCHANGED <<view, attempt, pending, request, expected, resolved>>
      /\ request[w].kind = "none"
  BY <1>1 DEF ReadbackDiffers, Finish, AnswersInv
<1>4. Shows(w, i)
  BY <1>1, <1>2, <1>3 DEF Shows, Carrying
<1>5. WindowTypes'
  BY <1>1, <1>2, <1>3, <1>4, ArrivalKeepsTypes, FetchIsARequest DEF WindowTypes, Reading
<1>6. SnapshotsInv'
  BY <1>1, <1>3, <1>4, ArrivalKeepsSnapshots
<1>7. AnswersInv'
  BY <1>1, <1>3, <1>4, ArrivalKeepsAnswers, FetchIsARequest DEF Reading
<1>8. WritesInv'
  BY <1>1, <1>3, <1>4, ArrivalKeepsWrites, FetchIsARequest
<1>9. SavedInv'
  BY <1>1, <1>3, <1>4, ArrivalKeepsSaved
<1>10. ~overtaken' => OrderInv' /\ NewsInv'
  BY <1>3, <1>4, ArrivalKeepsOrder, ArrivalKeepsNews
<1> QED BY <1>5, <1>6, <1>7, <1>8, <1>9, <1>10 DEF WindowsInv

LEMMA WriteRefusedKeepsInv ==
  ASSUME WindowsInv, NEW w \in WebViews, NEW i \in Places(w), WriteRefused(w, i)
  PROVE  WindowsInv'
<1>1. /\ WindowTypes /\ SnapshotsInv /\ AnswersInv /\ pump \in [WebViews -> {"unconnected", "idle", "writing"} \cup Reading]
      /\ batch \in [WebViews -> SUBSET Changes] /\ request \in [WebViews -> RequestType]
      /\ expected \in [WebViews -> SnapshotType] /\ attempt \in [WebViews -> {0, 1}]
      /\ view \in [WebViews -> SnapshotType] /\ resolved \in SUBSET Changes /\ rejected \in SUBSET Changes
  BY DEF WindowsInv, WindowTypes
<1>2. /\ Carried(inbox[w][i]) \in SnapshotType /\ Carried(inbox[w][i]).revision = inbox[w][i].revision
      /\ Carried(inbox[w][i]).config = inbox[w][i].config
  BY <1>1, MessageAtAPlace
<1>3. /\ Takes(w, i) /\ pump[w] = "writing" /\ inbox[w][i].kind \in {"stale", "failed"} /\ host' = host
      /\ \/ /\ request' = [request EXCEPT ![w] = Fetch]
            /\ pump' = [pump EXCEPT ![w] = "rebasing"]
            /\ batch' = batch /\ rejected' = rejected
         \/ /\ rejected' = rejected \cup batch[w]
            /\ batch' = [batch EXCEPT ![w] = {}] /\ pump' = [pump EXCEPT ![w] = "idle"]
            /\ request' = request
      /\ UNCHANGED <<view, attempt, pending, expected, resolved>>
      /\ request[w].kind = "none"
  <2>1. Takes(w, i) /\ pump[w] = "writing" /\ inbox[w][i].kind \in {"stale", "failed"} /\ host' = host
        /\ UNCHANGED <<view, attempt, pending, expected, resolved>>
    BY DEF WriteRefused
  <2>2. request[w].kind = "none"
    BY <1>1, <2>1 DEF AnswersInv
  <2> QED BY <2>1, <2>2 DEF WriteRefused, Finish
<1>4. Shows(w, i)
  BY <1>1, <1>2, <1>3 DEF Shows, Carrying
<1>5. WindowTypes'
  <2>1. /\ request' \in [WebViews -> RequestType] /\ batch' \in [WebViews -> SUBSET Changes]
        /\ pump' \in [WebViews -> {"unconnected", "idle", "writing"} \cup Reading]
        /\ rejected' \in SUBSET Changes
    BY <1>1, <1>3, FetchIsARequest DEF Reading
  <2>2. attempt' = attempt /\ pending' = pending /\ expected' = expected /\ resolved' = resolved
    BY <1>3
  <2> QED BY <2>1, <2>2, <1>1, <1>3, <1>4, ArrivalKeepsTypes
<1>6. SnapshotsInv'
  BY <1>1, <1>3, <1>4, ArrivalKeepsSnapshots
<1>7. AnswersInv'
  BY <1>1, <1>3, <1>4, ArrivalKeepsAnswers, FetchIsARequest DEF Reading
<1>8. WritesInv'
  BY <1>1, <1>3, <1>4, ArrivalKeepsWrites, FetchIsARequest
<1>9. SavedInv'
  BY <1>1, <1>3, <1>4, ArrivalKeepsSaved
<1>10. ~overtaken' => OrderInv' /\ NewsInv'
  BY <1>3, <1>4, ArrivalKeepsOrder, ArrivalKeepsNews
<1> QED BY <1>5, <1>6, <1>7, <1>8, <1>9, <1>10 DEF WindowsInv

LEMMA RebaseKeepsInv ==
  ASSUME WindowsInv, NEW w \in WebViews, NEW i \in Places(w), Rebase(w, i)
  PROVE  WindowsInv'
<1>1. /\ WindowTypes /\ SnapshotsInv /\ AnswersInv /\ pump \in [WebViews -> {"unconnected", "idle", "writing"} \cup Reading]
      /\ batch \in [WebViews -> SUBSET Changes] /\ request \in [WebViews -> RequestType]
      /\ expected \in [WebViews -> SnapshotType] /\ attempt \in [WebViews -> {0, 1}]
      /\ view \in [WebViews -> SnapshotType] /\ resolved \in SUBSET Changes /\ rejected \in SUBSET Changes
  BY DEF WindowsInv, WindowTypes
<1>2. /\ Carried(inbox[w][i]) \in SnapshotType /\ Carried(inbox[w][i]).revision = inbox[w][i].revision
      /\ Carried(inbox[w][i]).config = inbox[w][i].config
  BY <1>1, MessageAtAPlace
<1> DEFINE s == Carried(inbox[w][i])
           r == Write(Snapshot(s.revision, s.config \cup batch[w]))
<1>3. /\ Takes(w, i) /\ pump[w] = "rebasing" /\ inbox[w][i].kind = "snapshot" /\ host' = host
      /\ view' = [view EXCEPT ![w] = Carried(inbox[w][i])]
      /\ attempt' = [attempt EXCEPT ![w] = 1]
      /\ pump' = [pump EXCEPT ![w] = "writing"]
      /\ request' = [request EXCEPT ![w] = r]
      /\ r \in RequestType /\ r.kind = "write" /\ r.revision = inbox[w][i].revision
      /\ r.config = inbox[w][i].config \cup batch[w]
      /\ UNCHANGED <<pending, batch, expected, resolved, rejected>>
  <2>1. /\ Takes(w, i) /\ pump[w] = "rebasing" /\ inbox[w][i].kind = "snapshot" /\ host' = host
        /\ view' = [view EXCEPT ![w] = Carried(inbox[w][i])]
        /\ attempt' = [attempt EXCEPT ![w] = 1]
        /\ UNCHANGED <<pending, batch, expected, resolved, rejected>>
        /\ Attempts(w, batch[w], Carried(inbox[w][i]))
    BY DEF Rebase
  <2>2. pump' = [pump EXCEPT ![w] = "writing"] /\ request' = [request EXCEPT ![w] = r]
    BY <2>1, <1>2 DEF Attempts
  <2>3. batch[w] \in SUBSET Changes
    BY <1>1
  <2>4. r \in RequestType /\ r.kind = "write" /\ r.revision = s.revision /\ r.config = s.config \cup batch[w]
    BY <2>3, <1>2, WriteIsARequest
  <2>5. /\ r \in RequestType /\ r.kind = "write" /\ r.revision = inbox[w][i].revision
        /\ r.config = inbox[w][i].config \cup batch[w]
    BY <2>4, <1>2
  <2> QED BY <2>1, <2>2, <2>5
<1> HIDE DEF r, s
<1>4. Shows(w, i)
  BY <1>1, <1>2, <1>3 DEF Shows, Carrying
<1>5. WindowTypes'
  BY <1>1, <1>2, <1>3, <1>4, ArrivalKeepsTypes, FetchIsARequest DEF WindowTypes, Reading
<1>6. SnapshotsInv'
  BY <1>1, <1>3, <1>4, ArrivalKeepsSnapshots
<1>7. AnswersInv'
  BY <1>1, <1>3, <1>4, ArrivalKeepsAnswers, FetchIsARequest DEF Reading
<1>8. WritesInv'
  BY <1>1, <1>3, <1>4, ArrivalKeepsWrites, FetchIsARequest
<1>9. SavedInv'
  BY <1>1, <1>3, <1>4, ArrivalKeepsSaved
<1>10. ~overtaken' => OrderInv' /\ NewsInv'
  BY <1>3, <1>4, ArrivalKeepsOrder, ArrivalKeepsNews
<1> QED BY <1>5, <1>6, <1>7, <1>8, <1>9, <1>10 DEF WindowsInv

-----------------------------------------------------------------------------
(* The windows: the host publishes and answers                              *)

StillFaithful(s) ==
  /\ s.revision \in 1..host'.revision
  /\ s.revision = host'.revision => s.config = host'.config

\* What was on its way stays, in its place, and what follows it carries what
\* the host has now, or nothing.
Grows(v) ==
  /\ Places(v) \subseteq Places(v)'
  /\ \A j \in Places(v) : inbox'[v][j] = inbox[v][j]
  /\ \A j \in Places(v)' \ Places(v) :
       /\ j > Len(inbox[v])
       /\ StillFaithful(inbox'[v][j])
       /\ inbox'[v][j].kind \in Carrying => inbox'[v][j].revision = host'.revision

LEMMA OnePosted ==
  ASSUME WindowTypes, NEW v \in WebViews, NEW m \in MessageType, Posted(v, <<m>>)
  PROVE  LET n == Len(inbox[v]) IN
         /\ n \in Nat /\ n + 1 \in Places(v)' /\ inbox'[v][n + 1] = m
         /\ Places(v) \subseteq Places(v)'
         /\ \A j \in Places(v) : inbox'[v][j] = inbox[v][j]
         /\ \A j \in Places(v)' \ Places(v) : j = n + 1
<1>1. Len(inbox[v]) \in Nat
  BY DEF WindowTypes
<1> QED BY <1>1 DEF Posted, Places

LEMMA TwoPosted ==
  ASSUME WindowTypes, NEW v \in WebViews, NEW m \in MessageType, NEW a \in MessageType,
         Posted(v, <<m, a>>)
  PROVE  LET n == Len(inbox[v]) IN
         /\ n \in Nat
         /\ n + 1 \in Places(v)' /\ inbox'[v][n + 1] = m
         /\ n + 2 \in Places(v)' /\ inbox'[v][n + 2] = a
         /\ Places(v) \subseteq Places(v)'
         /\ \A j \in Places(v) : inbox'[v][j] = inbox[v][j]
         /\ \A j \in Places(v)' \ Places(v) : j \in {n + 1, n + 2}
<1>1. Len(inbox[v]) \in Nat
  BY DEF WindowTypes
<1>2. Len(<<m, a>>) = 2 /\ <<m, a>>[1] = m /\ <<m, a>>[2] = a
  OBVIOUS
<1> QED BY <1>1, <1>2 DEF Posted, Places

\* The host has the snapshot it had, or the next one, which contains it.
Advances == host' = host \/ (host'.revision = host.revision + 1 /\ host.config \subseteq host'.config)

LEMMA GrowthKeepsSnapshots ==
  ASSUME WindowsInv, Advances, view' = view, expected' = expected, \A v \in WebViews : Grows(v)
  PROVE  SnapshotsInv'
<1>1. /\ SnapshotsInv /\ host.revision \in Nat
  BY DEF WindowsInv, WindowTypes, SnapshotType
<1>2. ASSUME NEW s, Faithful(s)
      PROVE  s.revision \in 1..host'.revision /\ (s.revision = host'.revision => s.config = host'.config)
  <2>1. s.revision \in 1..host.revision /\ (s.revision = host.revision => s.config = host.config)
    BY <1>2 DEF Faithful
  <2> QED BY <2>1, <1>1 DEF Advances
<1>3. Faithful(First)'
  BY <1>1, <1>2 DEF SnapshotsInv, Faithful, First
<1>4. ASSUME NEW v \in WebViews
      PROVE  Faithful(view[v])' /\ Faithful(expected[v])'
  BY <1>1, <1>2 DEF SnapshotsInv, Faithful
<1>5. ASSUME NEW v \in WebViews, NEW j \in Places(v)'
      PROVE  Faithful(inbox[v][j])'
  <2>1. CASE j \in Places(v)
    <3>1. Faithful(inbox[v][j]) /\ inbox'[v][j] = inbox[v][j]
      BY <2>1, <1>1 DEF SnapshotsInv, Grows
    <3> QED BY <3>1, <1>2 DEF Faithful
  <2>2. CASE j \notin Places(v)
    BY <2>2, <1>5 DEF Grows, Faithful, StillFaithful
  <2> QED BY <2>1, <2>2
<1> QED BY <1>3, <1>4, <1>5 DEF SnapshotsInv

LEMMA GrowthKeepsOrder ==
  ASSUME WindowsInv, OrderInv, Advances, view' = view, \A v \in WebViews : Grows(v)
  PROVE  OrderInv'
<1>1. /\ SnapshotsInv /\ WindowTypes /\ host.revision \in Nat
  BY DEF WindowsInv, WindowTypes, SnapshotType
<1>2. SUFFICES ASSUME NEW v \in WebViews, NEW i \in Places(v)', inbox'[v][i].kind \in Carrying
               PROVE  /\ view[v].revision <= inbox'[v][i].revision
                      /\ \A j \in Places(v)' : i < j /\ inbox'[v][j].kind \in Carrying =>
                           inbox'[v][i].revision <= inbox'[v][j].revision
  BY DEF OrderInv
<1>3. host.revision <= host'.revision /\ host'.revision \in Nat
  BY <1>1 DEF Advances
<1>4. view[v].revision \in 1..host.revision
  BY <1>1 DEF SnapshotsInv, Faithful
<1>5. ASSUME NEW j \in Places(v)'
      PROVE  /\ inbox'[v][j].revision \in 1..host'.revision
             /\ j \notin Places(v) /\ inbox'[v][j].kind \in Carrying =>
                  inbox'[v][j].revision = host'.revision
  <2>1. CASE j \in Places(v)
    <3>1. Faithful(inbox[v][j]) /\ inbox'[v][j] = inbox[v][j]
      BY <2>1, <1>1 DEF SnapshotsInv, Grows
    <3> QED BY <2>1, <3>1, <1>1, <1>3 DEF Faithful
  <2>2. CASE j \notin Places(v)
    BY <2>2, <1>5 DEF Grows, StillFaithful
  <2> QED BY <2>1, <2>2
<1>6. view[v].revision <= inbox'[v][i].revision
  <2>1. CASE i \in Places(v)
    <3>1. inbox'[v][i] = inbox[v][i] /\ inbox[v][i].kind \in Carrying
      BY <2>1, <1>2 DEF Grows
    <3>2. view[v].revision <= inbox[v][i].revision
      BY <2>1, <3>1 DEF OrderInv
    <3> QED BY <3>1, <3>2
  <2>2. CASE i \notin Places(v)
    <3>1. inbox'[v][i].revision = host'.revision
      BY <2>2, <1>2, <1>5
    <3>2. view[v].revision <= host'.revision
      BY <1>1, <1>3, <1>4
    <3> QED BY <3>1, <3>2
  <2> QED BY <2>1, <2>2
<1>7. ASSUME NEW j \in Places(v)', i < j, inbox'[v][j].kind \in Carrying
      PROVE  inbox'[v][i].revision <= inbox'[v][j].revision
  <2>1. CASE j \in Places(v)
    <3>1. i \in Places(v)
      <4>1. i \in Nat /\ j \in 1..Len(inbox[v]) /\ Len(inbox[v]) \in Nat
        BY <2>1, <1>1 DEF Places, WindowTypes
      <4> QED BY <4>1, <1>7 DEF Grows
    <3>2. inbox'[v][i] = inbox[v][i] /\ inbox'[v][j] = inbox[v][j]
      BY <3>1, <2>1 DEF Grows
    <3>3. inbox[v][i].revision <= inbox[v][j].revision
      BY <3>1, <3>2, <2>1, <1>2, <1>7 DEF OrderInv
    <3> QED BY <3>2, <3>3
  <2>2. CASE j \notin Places(v)
    <3>1. inbox'[v][j].revision = host'.revision /\ inbox'[v][i].revision \in 1..host'.revision
      BY <2>2, <1>5, <1>7
    <3> QED BY <3>1, <1>3
  <2> QED BY <2>1, <2>2
<1> QED BY <1>6, <1>7

LEMMA NewsStaysUnderWay ==
  ASSUME NEW v \in WebViews, Grows(v), host' = host, NEW K, Incoming(v, K)
  PROVE  Incoming(v, K)'
<1>1. PICK i \in Places(v) : inbox[v][i].kind \in K /\ inbox[v][i].revision = host.revision
  BY DEF Incoming
<1>2. i \in Places(v)' /\ inbox'[v][i] = inbox[v][i]
  BY DEF Grows
<1> QED BY <1>1, <1>2 DEF Incoming

LEMMA HostAcceptsKeepsInv ==
  ASSUME WindowsInv, NEW w \in WebViews, HostAccepts(w)
  PROVE  WindowsInv'
<1> DEFINE next == Snapshot(host.revision + 1, request[w].config)
           e == Message("event", next)
           a == Message("accepted", next)
<1>1. /\ WindowTypes /\ SnapshotsInv /\ WritesInv /\ AnswersInv /\ SavedInv
      /\ host.revision \in Nat
  BY DEF WindowsInv, WindowTypes, SnapshotType
<1>2. /\ UNCHANGED <<view, pump, attempt, pending, batch, expected, resolved, rejected>>
      /\ request[w].kind = "write" /\ request[w].revision = host.revision
  BY DEF HostAccepts, pumpVars
<1>3. /\ next \in SnapshotType /\ next.config = request[w].config
      /\ e \in MessageType /\ e.kind = "event"
      /\ a \in MessageType /\ a.kind = "accepted"
      /\ e.revision = host.revision + 1 /\ e.config = next.config
      /\ a.revision = host.revision + 1 /\ a.config = next.config
      /\ host' = next /\ host'.revision = host.revision + 1
      /\ pump[w] = "writing"
      /\ inbox' \in [WebViews -> Seq(MessageType)]
      /\ Posted(w, <<e, a>>)
      /\ \A v \in WebViews \ {w} :
           IF pump[v] = "unconnected" THEN inbox'[v] = inbox[v] ELSE Posted(v, <<e>>)
      /\ request' \in [WebViews -> RequestType]
      /\ request'[w] = NoRequest
      /\ \A v \in WebViews \ {w} : request'[v] = request[v]
      /\ overtaken' = overtaken
  BY AcceptedIsPosted
<1> HIDE DEF next, e, a
<1>4. Advances
  BY <1>1, <1>2, <1>3 DEF Advances, WritesInv
<1>5. StillFaithful(e) /\ StillFaithful(a)
  BY <1>1, <1>3 DEF StillFaithful
<1>6. Grows(w) /\ \A j \in Places(w)' \ Places(w) : inbox'[w][j] \in {e, a}
  <2>1. /\ Len(inbox[w]) \in Nat /\ Places(w) \subseteq Places(w)'
        /\ inbox'[w][Len(inbox[w]) + 1] = e /\ inbox'[w][Len(inbox[w]) + 2] = a
        /\ \A j \in Places(w) : inbox'[w][j] = inbox[w][j]
        /\ \A j \in Places(w)' \ Places(w) : j \in {Len(inbox[w]) + 1, Len(inbox[w]) + 2}
    BY <1>1, <1>3, TwoPosted
  <2>2. \A j \in Places(w)' \ Places(w) : j > Len(inbox[w]) /\ inbox'[w][j] \in {e, a}
    BY <2>1
  <2> QED BY <2>1, <2>2, <1>3, <1>5 DEF Grows
<1>7. ASSUME NEW v \in WebViews \ {w}
      PROVE  Grows(v) /\ \A j \in Places(v)' \ Places(v) : inbox'[v][j] = e
  <2>1. CASE pump[v] = "unconnected"
    BY <2>1, <1>3 DEF Grows, Places
  <2>2. CASE pump[v] # "unconnected"
    <3>1. /\ Len(inbox[v]) \in Nat /\ Places(v) \subseteq Places(v)'
          /\ inbox'[v][Len(inbox[v]) + 1] = e
          /\ \A j \in Places(v) : inbox'[v][j] = inbox[v][j]
          /\ \A j \in Places(v)' \ Places(v) : j = Len(inbox[v]) + 1
      BY <2>2, <1>1, <1>3, OnePosted
    <3>2. \A j \in Places(v)' \ Places(v) : j > Len(inbox[v]) /\ inbox'[v][j] = e
      BY <3>1
    <3> QED BY <3>1, <3>2, <1>3, <1>5 DEF Grows
  <2> QED BY <2>1, <2>2
<1>8. WindowTypes'
  BY <1>1, <1>2, <1>3 DEF WindowTypes
<1>9. SnapshotsInv'
  BY <1>2, <1>4, <1>6, <1>7, GrowthKeepsSnapshots
<1>10. WritesInv'
  <2>1. SUFFICES ASSUME NEW v \in WebViews, request'[v].kind = "write"
                 PROVE  /\ request'[v].revision \in 1..host'.revision
                        /\ request'[v].revision # host'.revision
                        /\ batch'[v] \subseteq request'[v].config
    BY DEF WritesInv
  <2>2. v # w
    <3>1. request'[w].kind = "none"
      BY <1>3, FetchIsARequest
    <3> QED BY <2>1, <3>1
  <2>3. request'[v] = request[v] /\ batch'[v] = batch[v]
    BY <2>2, <1>2, <1>3
  <2>4. request[v].revision \in 1..host.revision /\ batch[v] \subseteq request[v].config
    BY <1>1, <2>1, <2>3 DEF WritesInv
  <2> QED BY <2>3, <2>4, <1>1, <1>3
<1>11. AnswersInv'
  <2>1. ASSUME NEW v \in WebViews \ {w}
        PROVE  /\ request'[v].kind = "fetch" => pump'[v] \in Reading
               /\ request'[v].kind = "write" => pump'[v] = "writing"
               /\ \A i \in Places(v)' :
                    /\ inbox'[v][i].kind = "snapshot" => pump'[v] \in Reading
                    /\ inbox'[v][i].kind \in {"accepted", "stale", "failed"} => pump'[v] = "writing"
                    /\ inbox'[v][i].kind # "event" => request'[v].kind = "none"
                    /\ \A j \in Places(v)' :
                         inbox'[v][i].kind # "event" /\ inbox'[v][j].kind # "event" => i = j
    <3>1. \A i \in Places(v)' : inbox'[v][i].kind # "event" =>
            i \in Places(v) /\ inbox'[v][i] = inbox[v][i]
      BY <1>3, <1>7 DEF Grows
    <3>2. request'[v] = request[v] /\ pump'[v] = pump[v]
      BY <1>2, <1>3
    <3> QED BY <3>1, <3>2, <1>1 DEF AnswersInv
  <2>2. /\ request'[w].kind = "none" /\ pump'[w] = "writing"
        /\ \A i \in Places(w)' : inbox'[w][i].kind # "event" =>
             inbox'[w][i].kind = "accepted" /\ i = Len(inbox[w]) + 2
    <3>1. \A i \in Places(w) : inbox[w][i].kind = "event" /\ inbox'[w][i] = inbox[w][i]
      BY <1>1, <1>2, <1>6 DEF AnswersInv, Grows
    <3>2. /\ inbox'[w][Len(inbox[w]) + 1] = e /\ inbox'[w][Len(inbox[w]) + 2] = a
          /\ \A j \in Places(w)' \ Places(w) : j \in {Len(inbox[w]) + 1, Len(inbox[w]) + 2}
      BY <1>1, <1>3, TwoPosted
    <3>3. \A i \in Places(w)' : inbox'[w][i].kind # "event" => i = Len(inbox[w]) + 2
      BY <3>1, <3>2, <1>3
    <3>4. request'[w].kind = "none" /\ pump'[w] = "writing"
      BY <1>2, <1>3, FetchIsARequest
    <3> QED BY <3>2, <3>3, <3>4, <1>3
  <2> QED BY <2>1, <2>2 DEF AnswersInv, Reading
<1>12. SavedInv'
  <2>1. host.config \subseteq host'.config /\ batch[w] \subseteq host'.config
    BY <1>1, <1>2, <1>3 DEF WritesInv
  <2>2. ASSUME NEW v \in WebViews, NEW i \in Places(v)', inbox'[v][i].kind = "accepted"
        PROVE  batch[v] \subseteq host'.config
    <3>1. CASE i \in Places(v)
      <4>1. inbox'[v][i] = inbox[v][i]
        BY <3>1, <1>6, <1>7 DEF Grows
      <4> QED BY <4>1, <3>1, <2>1, <2>2, <1>1 DEF SavedInv
    <3>2. CASE i \notin Places(v)
      BY <3>2, <2>1, <2>2, <1>3, <1>7
    <3> QED BY <3>1, <3>2
  <2> QED BY <2>1, <2>2, <1>1, <1>2 DEF SavedInv
<1>13. ~overtaken' => OrderInv' /\ NewsInv'
  <2>1. ~overtaken => OrderInv
    BY DEF WindowsInv
  <2>2. ASSUME NEW v \in WebViews
        PROVE  pump'[v] = "unconnected" \/ Incoming(v, {"event"})'
    <3>1. CASE v = w
      <4>1. Len(inbox[w]) + 1 \in Places(w)' /\ inbox'[w][Len(inbox[w]) + 1] = e
        BY <1>1, <1>3, TwoPosted
      <4> QED BY <4>1, <3>1, <1>3 DEF Incoming
    <3>2. CASE v # w /\ pump[v] # "unconnected"
      <4>1. Len(inbox[v]) + 1 \in Places(v)' /\ inbox'[v][Len(inbox[v]) + 1] = e
        BY <3>2, <1>1, <1>3, OnePosted
      <4> QED BY <4>1, <3>2, <1>3 DEF Incoming
    <3> QED BY <3>1, <3>2, <1>2
  <2> QED BY <2>1, <2>2, <1>2, <1>3, <1>4, <1>6, <1>7, GrowthKeepsOrder DEF NewsInv
<1> QED BY <1>8, <1>9, <1>10, <1>11, <1>12, <1>13 DEF WindowsInv

LEMMA HostMutatesKeepsInv ==
  ASSUME WindowsInv, NEW c \in Native, HostMutates(c)
  PROVE  WindowsInv'
<1> DEFINE next == Snapshot(host.revision + 1, host.config \cup {c})
           e == Message("event", next)
<1>1. /\ WindowTypes /\ SnapshotsInv /\ WritesInv /\ AnswersInv /\ SavedInv
      /\ host.revision \in Nat
  BY DEF WindowsInv, WindowTypes, SnapshotType
<1>2. UNCHANGED <<view, pump, attempt, pending, batch, expected, resolved, rejected, request, overtaken>>
  BY DEF HostMutates, pumpVars
<1>3. /\ next \in SnapshotType /\ next.config = host.config \cup {c}
      /\ e \in MessageType /\ e.kind = "event"
      /\ e.revision = host.revision + 1 /\ e.config = next.config
      /\ host' = next /\ host'.revision = host.revision + 1
      /\ inbox' \in [WebViews -> Seq(MessageType)]
      /\ \A v \in WebViews :
           IF pump[v] = "unconnected" THEN inbox'[v] = inbox[v] ELSE Posted(v, <<e>>)
  BY MutationIsAnnounced
<1> HIDE DEF next, e
<1>4. Advances
  BY <1>3 DEF Advances
<1>5. StillFaithful(e)
  BY <1>1, <1>3 DEF StillFaithful
<1>6. ASSUME NEW v \in WebViews
      PROVE  Grows(v) /\ \A j \in Places(v)' \ Places(v) : inbox'[v][j] = e
  <2>1. CASE pump[v] = "unconnected"
    BY <2>1, <1>3 DEF Grows, Places
  <2>2. CASE pump[v] # "unconnected"
    <3>1. /\ Len(inbox[v]) \in Nat /\ Places(v) \subseteq Places(v)'
          /\ inbox'[v][Len(inbox[v]) + 1] = e
          /\ \A j \in Places(v) : inbox'[v][j] = inbox[v][j]
          /\ \A j \in Places(v)' \ Places(v) : j = Len(inbox[v]) + 1
      BY <2>2, <1>1, <1>3, OnePosted
    <3>2. \A j \in Places(v)' \ Places(v) : j > Len(inbox[v]) /\ inbox'[v][j] = e
      BY <3>1
    <3> QED BY <3>1, <3>2, <1>3, <1>5 DEF Grows
  <2> QED BY <2>1, <2>2
<1>7. WindowTypes'
  BY <1>1, <1>2, <1>3 DEF WindowTypes
<1>8. SnapshotsInv'
  BY <1>2, <1>4, <1>6, GrowthKeepsSnapshots
<1>9. WritesInv'
  BY <1>1, <1>2, <1>3 DEF WritesInv
<1>10. ASSUME NEW v \in WebViews, NEW i \in Places(v)', inbox'[v][i].kind # "event"
       PROVE  i \in Places(v) /\ inbox'[v][i] = inbox[v][i]
  BY <1>3, <1>6, <1>10 DEF Grows
<1>11. AnswersInv'
  BY <1>1, <1>2, <1>10 DEF AnswersInv
<1>12. SavedInv'
  BY <1>1, <1>2, <1>3, <1>10 DEF SavedInv
<1>13. ~overtaken' => OrderInv' /\ NewsInv'
  <2>1. ~overtaken => OrderInv
    BY DEF WindowsInv
  <2>2. ASSUME NEW v \in WebViews, pump[v] # "unconnected"
        PROVE  Incoming(v, {"event"})'
    <3>1. Len(inbox[v]) + 1 \in Places(v)' /\ inbox'[v][Len(inbox[v]) + 1] = e
      BY <2>2, <1>1, <1>3, OnePosted
    <3> QED BY <3>1, <1>3 DEF Incoming
  <2> QED BY <2>1, <2>2, <1>2, <1>4, <1>6, GrowthKeepsOrder DEF NewsInv
<1> QED BY <1>7, <1>8, <1>9, <1>11, <1>12, <1>13 DEF WindowsInv

\* An answer that is not an acceptance: what the host has, or a refusal.
LEMMA AnswerKeepsInv ==
  ASSUME WindowsInv, NEW w \in WebViews, NEW k \in {"snapshot", "stale", "failed"},
         NEW s \in {host, First}, k = "snapshot" => s = host /\ request[w].kind = "fetch",
         k # "snapshot" => request[w].kind = "write",
         Answers(w, Message(k, s), inbox),
         UNCHANGED <<host, view, pumpVars, resolved, rejected>>
  PROVE  WindowsInv'
<1> DEFINE m == Message(k, s)
<1>1. /\ WindowTypes /\ SnapshotsInv /\ WritesInv /\ AnswersInv /\ SavedInv
      /\ host.revision \in Nat /\ host \in SnapshotType
  BY DEF WindowsInv, WindowTypes, SnapshotType
<1>2. UNCHANGED <<host, view, pump, attempt, pending, batch, expected, resolved, rejected>>
  BY DEF pumpVars
<1>3. /\ s \in SnapshotType /\ k \in Answering /\ m \in MessageType /\ m.kind = k
      /\ m.revision = s.revision /\ m.config = s.config
  BY <1>1, FirstIsASnapshot, EventIsAMessage DEF Answering
<1>4. /\ inbox' \in [WebViews -> Seq(MessageType)] /\ Posted(w, <<m>>)
      /\ \A v \in WebViews \ {w} : inbox'[v] = inbox[v]
      /\ request' \in [WebViews -> RequestType] /\ request'[w] = NoRequest
      /\ \A v \in WebViews \ {w} : request'[v] = request[v]
      /\ overtaken' = overtaken
  BY <1>1, <1>3, AnswerIsPosted
<1> HIDE DEF m
<1>5. Advances
  BY <1>2 DEF Advances
<1>6. StillFaithful(m)
  <2>1. Faithful(First) /\ Faithful(host)
    BY <1>1 DEF SnapshotsInv, Faithful
  <2> QED BY <2>1, <1>2, <1>3 DEF Faithful, StillFaithful
<1>7. /\ Len(inbox[w]) + 1 \in Places(w)' /\ inbox'[w][Len(inbox[w]) + 1] = m
      /\ \A j \in Places(w)' \ Places(w) : j = Len(inbox[w]) + 1 /\ inbox'[w][j] = m
      /\ Grows(w)
  <2>1. m.kind \in Carrying => m.revision = host'.revision
    BY <1>2, <1>3 DEF Carrying
  <2>2. Len(inbox[w]) \in Nat /\ Len(inbox[w]) + 1 > Len(inbox[w])
    BY <1>1, <1>3, <1>4, OnePosted
  <2> QED BY <2>1, <2>2, <1>1, <1>3, <1>4, <1>6, OnePosted DEF Grows
<1>8. \A v \in WebViews : Grows(v)
  BY <1>4, <1>7 DEF Grows, Places
<1>9. WindowTypes'
  BY <1>1, <1>2, <1>4 DEF WindowTypes
<1>10. SnapshotsInv'
  BY <1>2, <1>5, <1>8, GrowthKeepsSnapshots
<1>11. WritesInv'
  BY <1>1, <1>2, <1>4, FetchIsARequest DEF WritesInv
<1>12. AnswersInv'
  <2>1. ASSUME NEW i \in Places(w)', inbox'[w][i].kind # "event"
        PROVE  i = Len(inbox[w]) + 1 /\ inbox'[w][i] = m
    BY <2>1, <1>1, <1>7 DEF AnswersInv, Grows
  <2>2. (k = "snapshot" => pump[w] \in Reading) /\ (k # "snapshot" => pump[w] = "writing")
    BY <1>1 DEF AnswersInv
  <2>3. /\ \A i \in Places(w)' :
              /\ inbox'[w][i].kind = "snapshot" => pump'[w] \in Reading
              /\ inbox'[w][i].kind \in {"accepted", "stale", "failed"} => pump'[w] = "writing"
              /\ inbox'[w][i].kind # "event" => request'[w].kind = "none"
              /\ \A j \in Places(w)' :
                   inbox'[w][i].kind # "event" /\ inbox'[w][j].kind # "event" => i = j
        /\ request'[w].kind = "none"
    BY <2>1, <2>2, <1>2, <1>3, <1>4, FetchIsARequest
  <2>4. \A v \in WebViews \ {w} : inbox'[v] = inbox[v] /\ request'[v] = request[v] /\ pump'[v] = pump[v]
    BY <1>2, <1>4
  <2> QED BY <2>3, <2>4, <1>1 DEF AnswersInv, Places
<1>13. SavedInv'
  <2>1. ASSUME NEW v \in WebViews, NEW i \in Places(v)', inbox'[v][i].kind = "accepted"
        PROVE  i \in Places(v) /\ inbox'[v][i] = inbox[v][i]
    <3>1. CASE v = w
      BY <3>1, <2>1, <1>3, <1>7 DEF Grows
    <3>2. CASE v # w
      BY <3>2, <2>1, <1>4 DEF Places
    <3> QED BY <3>1, <3>2
  <2> QED BY <2>1, <1>1, <1>2 DEF SavedInv
<1>14. ~overtaken' => OrderInv' /\ NewsInv'
  <2>1. SUFFICES ASSUME ~overtaken PROVE OrderInv' /\ NewsInv'
    BY <1>4
  <2>2. OrderInv /\ NewsInv
    BY <2>1 DEF WindowsInv
  <2>3. OrderInv'
    BY <2>2, <1>2, <1>5, <1>8, GrowthKeepsOrder
  <2>4. ASSUME NEW v \in WebViews, NEW K, Incoming(v, K)
        PROVE  Incoming(v, K)'
    BY <2>4, <1>2, <1>8, NewsStaysUnderWay
  <2>5. ASSUME request[w].kind = "fetch"
        PROVE  Incoming(w, Carrying)'
    <3>1. m.kind = "snapshot" /\ m.revision = host'.revision
      BY <2>5, <1>2, <1>3
    <3> QED BY <3>1, <1>7 DEF Incoming, Carrying
  <2> QED BY <2>2, <2>3, <2>4, <2>5, <1>2, <1>4 DEF NewsInv
<1> QED BY <1>9, <1>10, <1>11, <1>12, <1>13, <1>14 DEF WindowsInv

-----------------------------------------------------------------------------
(* The windows: what a WebView begins                                       *)

LEMMA ConnectKeepsInv ==
  ASSUME WindowsInv, NEW w \in WebViews, Connect(w)
  PROVE  WindowsInv'
<1>1. /\ WindowTypes /\ SnapshotsInv /\ WritesInv /\ AnswersInv /\ SavedInv
      /\ pump \in [WebViews -> {"unconnected", "idle", "writing"} \cup Reading]
      /\ request \in [WebViews -> RequestType]
  BY DEF WindowsInv, WindowTypes
<1>2. /\ pump[w] = "unconnected" /\ pump' = [pump EXCEPT ![w] = "connecting"]
      /\ request' = [request EXCEPT ![w] = Fetch]
      /\ UNCHANGED <<host, view, attempt, pending, batch, expected, inbox, overtaken, resolved, rejected>>
  BY DEF Connect
<1>3. /\ pump'[w] = "connecting" /\ request'[w].kind = "fetch"
      /\ \A v \in WebViews \ {w} : pump'[v] = pump[v] /\ request'[v] = request[v]
      /\ request' \in [WebViews -> RequestType]
      /\ pump' \in [WebViews -> {"unconnected", "idle", "writing"} \cup Reading]
  BY <1>1, <1>2, FetchIsARequest DEF Reading
<1>4. \A v \in WebViews : Places(v)' = Places(v) /\ inbox'[v] = inbox[v]
  BY <1>2 DEF Places
<1>5. WindowTypes' /\ SnapshotsInv'
  BY <1>1, <1>2, <1>3, <1>4 DEF WindowTypes, SnapshotsInv, Faithful
<1>6. WritesInv'
  BY <1>1, <1>2, <1>3 DEF WritesInv
<1>7. AnswersInv'
  <2>1. \A i \in Places(w) : inbox[w][i].kind = "event"
    <3>1. ASSUME NEW i \in Places(w), inbox[w][i].kind # "event" PROVE FALSE
      <4>1. inbox[w][i].kind \in Answering
        BY <3>1, <1>1, MessageAtAPlace DEF MessageType
      <4> QED BY <4>1, <1>1, <1>2 DEF AnswersInv, Answering, Reading
    <3> QED BY <3>1
  <2>2. ASSUME NEW v \in WebViews
        PROVE  /\ request'[v].kind = "fetch" => pump'[v] \in Reading
               /\ request'[v].kind = "write" => pump'[v] = "writing"
               /\ \A i \in Places(v) :
                    /\ inbox[v][i].kind = "snapshot" => pump'[v] \in Reading
                    /\ inbox[v][i].kind \in {"accepted", "stale", "failed"} => pump'[v] = "writing"
                    /\ inbox[v][i].kind # "event" => request'[v].kind = "none"
                    /\ \A j \in Places(v) :
                         inbox[v][i].kind # "event" /\ inbox[v][j].kind # "event" => i = j
    <3>1. CASE v = w
      BY <3>1, <2>1, <1>3 DEF Reading
    <3>2. CASE v # w
      BY <3>2, <1>1, <1>3 DEF AnswersInv
    <3> QED BY <3>1, <3>2
  <2> QED BY <2>2, <1>4 DEF AnswersInv
<1>8. SavedInv'
  BY <1>1, <1>2, <1>3, <1>4 DEF SavedInv
<1>9. ~overtaken' => OrderInv' /\ NewsInv'
  <2>1. OrderInv => OrderInv'
    BY <1>2, <1>4 DEF OrderInv
  <2>2. ASSUME NEW v \in WebViews, NEW K PROVE Incoming(v, K)' <=> Incoming(v, K)
    BY <1>2, <1>4 DEF Incoming
  <2>3. NewsInv => NewsInv'
    BY <2>2, <1>2, <1>3 DEF NewsInv
  <2> QED BY <2>1, <2>3, <1>2 DEF WindowsInv
<1> QED BY <1>5, <1>6, <1>7, <1>8, <1>9 DEF WindowsInv

LEMMA ChangeKeepsInv ==
  ASSUME WindowsInv, NEW w \in WebViews, NEW c \in Changes, Change(w, c)
  PROVE  WindowsInv'
<1>1. /\ UNCHANGED <<host, view, pump, attempt, batch, request, expected, inbox, overtaken, resolved, rejected>>
      /\ pending' = [pending EXCEPT ![w] = @ \cup {c}]
  BY DEF Change
<1>2. WindowTypes'
  BY <1>1 DEF WindowsInv, WindowTypes
<1>3. /\ SnapshotsInv' <=> SnapshotsInv
      /\ WritesInv' <=> WritesInv
      /\ AnswersInv' <=> AnswersInv
      /\ SavedInv' <=> SavedInv
      /\ OrderInv' <=> OrderInv
      /\ NewsInv' <=> NewsInv
  BY <1>1 DEF SnapshotsInv, Faithful, WritesInv, AnswersInv, SavedInv, OrderInv, NewsInv,
    Incoming, Places
<1> QED BY <1>1, <1>2, <1>3 DEF WindowsInv

LEMMA PumpKeepsInv ==
  ASSUME WindowsInv, NEW w \in WebViews, Pump(w)
  PROVE  WindowsInv'
<1> DEFINE r == Write(Snapshot(view[w].revision, view[w].config \cup pending[w]))
<1>1. /\ WindowTypes /\ SnapshotsInv /\ WritesInv /\ AnswersInv /\ SavedInv
      /\ pump \in [WebViews -> {"unconnected", "idle", "writing"} \cup Reading]
      /\ request \in [WebViews -> RequestType]
      /\ batch \in [WebViews -> SUBSET Changes] /\ pending \in [WebViews -> SUBSET Changes]
      /\ attempt \in [WebViews -> {0, 1}]
      /\ view[w] \in SnapshotType /\ pending[w] \in SUBSET Changes
  BY DEF WindowsInv, WindowTypes
<1>2. r \in RequestType /\ r.kind = "write" /\ r.revision = view[w].revision
      /\ r.config = view[w].config \cup pending[w]
  BY <1>1, WriteIsARequest
<1>3. /\ pump[w] = "idle" /\ pump' = [pump EXCEPT ![w] = "writing"]
      /\ request' = [request EXCEPT ![w] = r]
      /\ batch' = [batch EXCEPT ![w] = pending[w]]
      /\ pending' = [pending EXCEPT ![w] = {}]
      /\ attempt' = [attempt EXCEPT ![w] = 0]
      /\ UNCHANGED <<host, view, expected, inbox, overtaken, resolved, rejected>>
  BY DEF Pump, Attempts
<1> HIDE DEF r
<1>4. /\ pump'[w] = "writing" /\ request'[w] = r /\ batch'[w] = pending[w]
      /\ \A v \in WebViews \ {w} : /\ pump'[v] = pump[v] /\ request'[v] = request[v]
                                   /\ batch'[v] = batch[v]
      /\ request' \in [WebViews -> RequestType]
      /\ batch' \in [WebViews -> SUBSET Changes] /\ pending' \in [WebViews -> SUBSET Changes]
      /\ attempt' \in [WebViews -> {0, 1}]
      /\ pump' \in [WebViews -> {"unconnected", "idle", "writing"} \cup Reading]
  BY <1>1, <1>2, <1>3 DEF Reading
<1>5. \A v \in WebViews : Places(v)' = Places(v) /\ inbox'[v] = inbox[v]
  BY <1>3 DEF Places
<1>6. WindowTypes'
  BY <1>1, <1>3, <1>4 DEF WindowTypes
<1>7. SnapshotsInv'
  BY <1>1, <1>3, <1>5 DEF SnapshotsInv, Faithful
<1>8. WritesInv'
  <2>1. ASSUME NEW v \in WebViews, request'[v].kind = "write"
        PROVE  /\ request'[v].revision \in 1..host.revision
               /\ request'[v].revision = host.revision => host.config \subseteq request'[v].config
               /\ batch'[v] \subseteq request'[v].config
    <3>1. CASE v = w
      <4>1. Faithful(view[w])
        BY <1>1 DEF SnapshotsInv
      <4> QED BY <4>1, <3>1, <1>2, <1>4 DEF Faithful
    <3>2. CASE v # w
      BY <3>2, <2>1, <1>1, <1>4 DEF WritesInv
    <3> QED BY <3>1, <3>2
  <2>2. host' = host
    BY <1>3
  <2> QED BY <2>1, <2>2 DEF WritesInv
<1>9. \A i \in Places(w) : inbox[w][i].kind = "event"
  <2>1. ASSUME NEW i \in Places(w), inbox[w][i].kind # "event" PROVE FALSE
    <3>1. inbox[w][i].kind \in Answering
      BY <2>1, <1>1, MessageAtAPlace DEF MessageType
    <3> QED BY <3>1, <1>1, <1>3 DEF AnswersInv, Answering, Reading
  <2> QED BY <2>1
<1>10. AnswersInv'
  <2>1. ASSUME NEW v \in WebViews
        PROVE  /\ request'[v].kind = "fetch" => pump'[v] \in Reading
               /\ request'[v].kind = "write" => pump'[v] = "writing"
               /\ \A i \in Places(v) :
                    /\ inbox[v][i].kind = "snapshot" => pump'[v] \in Reading
                    /\ inbox[v][i].kind \in {"accepted", "stale", "failed"} => pump'[v] = "writing"
                    /\ inbox[v][i].kind # "event" => request'[v].kind = "none"
                    /\ \A j \in Places(v) :
                         inbox[v][i].kind # "event" /\ inbox[v][j].kind # "event" => i = j
    <3>1. CASE v = w
      BY <3>1, <1>2, <1>4, <1>9
    <3>2. CASE v # w
      BY <3>2, <1>1, <1>4 DEF AnswersInv
    <3> QED BY <3>1, <3>2
  <2> QED BY <2>1, <1>5 DEF AnswersInv
<1>11. SavedInv'
  BY <1>1, <1>3, <1>4, <1>5, <1>9 DEF SavedInv
<1>12. ~overtaken' => OrderInv' /\ NewsInv'
  <2>1. OrderInv => OrderInv'
    BY <1>3, <1>5 DEF OrderInv
  <2>2. ASSUME NEW v \in WebViews, NEW K PROVE Incoming(v, K)' <=> Incoming(v, K)
    BY <1>3, <1>5 DEF Incoming
  <2>3. NewsInv => NewsInv'
    BY <2>2, <1>3, <1>4 DEF NewsInv
  <2> QED BY <2>1, <2>3, <1>3 DEF WindowsInv
<1> QED BY <1>6, <1>7, <1>8, <1>10, <1>11, <1>12 DEF WindowsInv

-----------------------------------------------------------------------------
(* The windows: the theorems                                                *)

LEMMA WindowsBegin == WindowsInit => WindowsInv
<1> SUFFICES ASSUME WindowsInit PROVE WindowsInv
  OBVIOUS
<1>1. /\ host = First /\ First \in SnapshotType /\ First.revision = 1 /\ First.config = {}
      /\ request = [w \in WebViews |-> NoRequest] /\ NoRequest.kind = "none"
      /\ NoRequest \in RequestType
  BY FirstIsASnapshot, FetchIsARequest DEF WindowsInit
<1>2. \A w \in WebViews : inbox[w] = <<>> /\ Places(w) = {}
  BY DEF WindowsInit, Places
<1>3. WindowTypes
  <2>1. /\ view = [w \in WebViews |-> First] /\ expected = [w \in WebViews |-> First]
        /\ pump = [w \in WebViews |-> "unconnected"] /\ attempt = [w \in WebViews |-> 0]
        /\ pending = [w \in WebViews |-> {}] /\ batch = [w \in WebViews |-> {}]
        /\ inbox = [w \in WebViews |-> <<>>] /\ resolved = {} /\ rejected = {}
    BY DEF WindowsInit
  <2>2. overtaken \in BOOLEAN
    BY DEF WindowsInit
  <2>3. inbox \in [WebViews -> Seq(MessageType)]
    BY <2>1
  <2>4. /\ pump \in [WebViews -> {"unconnected", "idle", "writing"} \cup Reading]
        /\ attempt \in [WebViews -> {0, 1}]
        /\ pending \in [WebViews -> SUBSET Changes] /\ batch \in [WebViews -> SUBSET Changes]
        /\ resolved \in SUBSET Changes /\ rejected \in SUBSET Changes
    BY <2>1
  <2>5. /\ host \in SnapshotType /\ view \in [WebViews -> SnapshotType]
        /\ expected \in [WebViews -> SnapshotType] /\ request \in [WebViews -> RequestType]
    BY <2>1, <1>1
  <2> QED BY <2>2, <2>3, <2>4, <2>5 DEF WindowTypes
<1>4. SnapshotsInv
  BY <1>1, <1>2 DEF WindowsInit, SnapshotsInv, Faithful
<1>5. WritesInv /\ AnswersInv /\ SavedInv /\ OrderInv /\ NewsInv
  BY <1>1, <1>2 DEF WindowsInit, WritesInv, AnswersInv, SavedInv, OrderInv, NewsInv
<1> QED BY <1>3, <1>4, <1>5 DEF WindowsInv

LEMMA WindowsStep == WindowsInv /\ [WindowsNext]_windowVars => WindowsInv'
<1> SUFFICES ASSUME WindowsInv, [WindowsNext]_windowVars PROVE WindowsInv'
  OBVIOUS
<1>1. ASSUME NEW c \in Native, HostMutates(c) PROVE WindowsInv'
  BY <1>1, HostMutatesKeepsInv
<1>2. ASSUME NEW w \in WebViews, HostServes(w) PROVE WindowsInv'
  <2>1. CASE HostAccepts(w)
    BY <2>1, HostAcceptsKeepsInv
  <2>2. CASE HostRefuses(w)
    <3>1. /\ request[w].kind = "write"
          /\ UNCHANGED <<host, view, pumpVars, resolved, rejected>>
          /\ \/ Answers(w, Message("stale", First), inbox)
             \/ Answers(w, Message("failed", First), inbox)
      BY <2>2 DEF HostRefuses
    <3> QED BY <3>1, AnswerKeepsInv
  <2>3. CASE HostReads(w)
    BY <2>3, AnswerKeepsInv DEF HostReads
  <2> QED BY <2>1, <2>2, <2>3, <1>2 DEF HostServes
<1>3. ASSUME NEW w \in WebViews, MessageArrives(w) PROVE WindowsInv'
  <2>1. PICK i \in Places(w) :
          \/ EventArrives(w, i) \/ Connected(w, i)
          \/ WriteAccepted(w, i) \/ WriteRefused(w, i)
          \/ ReadbackAgrees(w, i) \/ ReadbackDiffers(w, i) \/ Rebase(w, i)
    BY <1>3 DEF MessageArrives, Places
  <2> QED BY <2>1, EventArrivesKeepsInv, ConnectedKeepsInv, WriteAcceptedKeepsInv,
         WriteRefusedKeepsInv, ReadbackAgreesKeepsInv, ReadbackDiffersKeepsInv, RebaseKeepsInv
<1>4. ASSUME NEW w \in WebViews, Connect(w) \/ Pump(w) PROVE WindowsInv'
  BY <1>4, ConnectKeepsInv, PumpKeepsInv
<1>5. ASSUME NEW w \in WebViews, NEW c \in Changes, Change(w, c) PROVE WindowsInv'
  BY <1>5, ChangeKeepsInv
<1>6. CASE UNCHANGED windowVars
  BY <1>6 DEF windowVars, pumpVars, WindowsInv, WindowTypes, SnapshotsInv, Faithful, WritesInv,
    AnswersInv, SavedInv, OrderInv, NewsInv, Incoming, Places
<1> QED BY <1>1, <1>2, <1>3, <1>4, <1>5, <1>6 DEF WindowsNext

\* The inductive invariant: every snapshot and every write that is under way is
\* the host's or older, and what a WebView awaits is on its way to it.
THEOREM WindowsInvariant == WindowsSpec => []WindowsInv
BY WindowsBegin, WindowsStep, PTL DEF WindowsSpec

\* A save that the host accepts contains everything that the host has, although
\* each window writes the whole configuration from a copy of its own
\* (configuration.ts writeBatch, configuration.rs update).
THEOREM WritersBuildOnEachOther == WindowsSpec => NothingIsOverwritten
<1>1. WindowsInv /\ [WindowsNext]_windowVars => [host.config \subseteq host'.config]_host
  <2> SUFFICES ASSUME WindowsInv, [WindowsNext]_windowVars, host' # host
               PROVE  host.config \subseteq host'.config
    OBVIOUS
  <2>1. \/ \E c \in Native : HostMutates(c)
        \/ \E w \in WebViews : HostAccepts(w)
    BY DEF WindowsNext, windowVars, HostServes, HostRefuses, HostReads, MessageArrives, EventArrives,
      Connected, WriteAccepted, WriteRefused, ReadbackAgrees, ReadbackDiffers, Rebase, Connect, Pump,
      Change
  <2>2. ASSUME NEW c \in Native, HostMutates(c) PROVE host.config \subseteq host'.config
    BY <2>2, MutationIsAnnounced
  <2>3. ASSUME NEW w \in WebViews, HostAccepts(w) PROVE host.config \subseteq host'.config
    <3>1. host'.config = request[w].config
      BY <2>3, AcceptedIsPosted
    <3>2. request[w].kind = "write" /\ request[w].revision = host.revision
      BY <2>3 DEF HostAccepts
    <3> QED BY <3>1, <3>2 DEF WindowsInv, WritesInv
  <2> QED BY <2>1, <2>2, <2>3
<1> QED BY <1>1, WindowsInvariant, PTL DEF WindowsSpec, NothingIsOverwritten

\* When nothing is on its way, and answers and events have come in the order
\* they were sent in, every window shows what the host has (connect's listener
\* and its second read; writeBatch's readback and rebase).
THEOREM WindowsAgreeInTheEnd == WindowsSpec => []ViewsAgree
<1>1. WindowsInv => ViewsAgree
  <2> SUFFICES ASSUME WindowsInv, Settled, ~overtaken, NEW w \in WebViews PROVE view[w] = host
    BY DEF ViewsAgree
  <2>1. pump[w] = "idle" /\ Places(w) = {}
    BY DEF Settled, Places
  <2>2. view[w].revision = host.revision
    BY <2>1 DEF WindowsInv, NewsInv, Incoming
  <2>3. view[w].config = host.config
    BY <2>2 DEF WindowsInv, SnapshotsInv, Faithful
  <2>4. view[w] \in SnapshotType /\ host \in SnapshotType
    BY DEF WindowsInv, WindowTypes
  <2> QED BY <2>2, <2>3, <2>4 DEF SnapshotType
<1> QED BY <1>1, WindowsInvariant, PTL

\* A fulfilled promise tells the truth (the readback in writeBatch), and copies
\* of one revision are one configuration.
THEOREM PromisesAreKept == WindowsSpec => [](ResolvedIsSaved /\ CopiesAreFaithful)
<1>1. WindowsInv => ResolvedIsSaved /\ CopiesAreFaithful
  BY DEF WindowsInv, SavedInv, SnapshotsInv, Faithful, ResolvedIsSaved, CopiesAreFaithful
<1> QED BY <1>1, WindowsInvariant, PTL

\* The windows' state is what the type invariant says.
THEOREM WindowsAreTyped == WindowsSpec => []WindowsTypeOK
<1>1. WindowsInv => WindowsTypeOK
  <2> SUFFICES ASSUME WindowsInv PROVE WindowsTypeOK
    OBVIOUS
  <2>1. host.revision \in Nat /\ host.config \subseteq All /\ overtaken \in BOOLEAN
        /\ resolved \cup rejected \subseteq Changes
    BY DEF WindowsInv, WindowTypes, SnapshotType
  <2>2. ASSUME NEW w \in WebViews
        PROVE  /\ view[w].revision \in 1..host.revision /\ view[w].config \subseteq All
               /\ pump[w] \in {"unconnected", "connecting", "idle", "writing", "readback", "rebasing"}
               /\ attempt[w] \in {0, 1}
               /\ pending[w] \cup batch[w] \subseteq Changes
               /\ request[w].kind \in {"none", "fetch", "write"}
               /\ \A i \in 1..Len(inbox[w]) : inbox[w][i].revision \in 1..host.revision
    <3>1. view[w] \in SnapshotType /\ request[w] \in RequestType
      BY DEF WindowsInv, WindowTypes
    <3>2. pump[w] \in {"unconnected", "idle", "writing"} \cup Reading /\ attempt[w] \in {0, 1}
          /\ pending[w] \subseteq Changes /\ batch[w] \subseteq Changes
      BY DEF WindowsInv, WindowTypes
    <3>3. \A i \in 1..Len(inbox[w]) : inbox[w][i].revision \in 1..host.revision
      BY DEF WindowsInv, SnapshotsInv, Faithful, Places
    <3>4. view[w].revision \in 1..host.revision
      BY DEF WindowsInv, SnapshotsInv, Faithful
    <3> QED BY <3>1, <3>2, <3>3, <3>4 DEF SnapshotType, RequestType, Reading
  <2> QED BY <2>1, <2>2 DEF WindowsTypeOK
<1> QED BY <1>1, WindowsInvariant, PTL

-----------------------------------------------------------------------------
(* The directory: the inductive invariant                                   *)

Publishing == {"creating", "writing", "renaming"}
Published == {"syncing", "retaining"}
Committing == [revision : Revisions, config : Configs]

DiskTypes ==
  /\ dirs \in Seq(Directories) /\ Len(dirs) > 0
  /\ temps \in SUBSET Revisions /\ leftover \in SUBSET Revisions
  /\ pc \in {"down", "reading", "ready"} \cup Publishing \cup Published
  /\ task \in {"load", "save"}
  /\ candidates \in SUBSET Revisions
  /\ writing \in Committing \cup {NoSnapshot}
  /\ snapshot \in Committing \cup {NoSnapshot}
  /\ answer \in {"none", "accepted", "refused"}
  /\ damaged \in BOOLEAN /\ faults \in 0..MaxFaults

\* s is the newest file of the directory.
IsNewest(s) ==
  /\ \A r \in Present(Directory) : r <= s.revision
  /\ ~damaged => Directory[s.revision] = s.config

\* A process that is not there knows nothing.
DownInv ==
  /\ pc = "down" => task = "load" /\ leftover = {} /\ snapshot = NoSnapshot
  /\ pc \in {"down", "reading", "ready"} <=> writing = NoSnapshot
  /\ pc = "reading" => task = "load" /\ candidates = Present(Directory)

\* What is written is newer than any file, and follows what the host has.
PublishingInv ==
  pc \in Publishing =>
    /\ writing \in Committing
    /\ \A r \in Present(Directory) : r < writing.revision
    /\ task = "load" /\ ~damaged => writing.config = Recovered(Directory)

\* The file is there from the renaming on.
PublishedInv == pc \in Published => writing \in Committing /\ IsNewest(writing)

\* The host has the newest file when nothing, or a save of it, is under way.
ReadyInv ==
  pc = "ready" \/ (pc \in Publishing /\ task = "save") =>
    snapshot \in Committing /\ IsNewest(snapshot)

\* Temporary files are those that could not be removed, and the one that is
\* being written; a process that is not there knows of none.
LeftoverInv ==
  /\ leftover \subseteq temps
  /\ pc \in {"writing", "renaming"} => writing.revision \in temps \ leftover
  /\ pc # "down" =>
       temps \subseteq leftover \cup (IF pc \in {"writing", "renaming"} THEN {writing.revision} ELSE {})

DiskInv ==
  /\ DiskTypes /\ DownInv /\ PublishingInv /\ PublishedInv /\ ReadyInv /\ LeftoverInv

-----------------------------------------------------------------------------
(* The directory: what a launch makes of it                                 *)

\* Max of a set of revisions.
LEMMA GreatestRevision ==
  ASSUME NEW S, S \subseteq Revisions, S # {}
  PROVE  Max(S) \in S /\ \A r \in S : r <= Max(S)
<1> USE BoundsAssumption DEF Revisions
<1>1. \E x \in S : \A y \in S : x >= y
  <2> DEFINE down == {MaxRevision - x : x \in S}
  <2>1. down \subseteq Nat /\ down # {}
    <3>1. \A x \in S : MaxRevision - x \in Nat
      OBVIOUS
    <3> QED BY <3>1
  <2> HIDE DEF down
  <2>2. PICK n \in down : \A k \in down : ~(<<k, n>> \in OpToRel(<, Nat))
    <3>1. \E n \in down : \A k \in down : ~(<<k, n>> \in OpToRel(<, Nat))
      BY <2>1, NatLessThanWellFounded, WFMin
    <3> QED BY <3>1
  <2>3. \A k \in down : k >= n
    <3>1. ASSUME NEW k \in down, k < n PROVE FALSE
      <4>1. k \in Nat /\ n \in Nat
        BY <2>1
      <4>2. <<k, n>> \in OpToRel(<, Nat)
        BY <4>1, <3>1 DEF OpToRel
      <4> QED BY <4>2, <2>2
    <3>2. \A k \in down : k \in Nat /\ n \in Nat
      BY <2>1
    <3> QED BY <3>1, <3>2
  <2>4. PICK x \in S : n = MaxRevision - x
    BY DEF down
  <2>5. \A y \in S : MaxRevision - y \in down /\ y \in Int /\ x \in Int
    BY DEF down
  <2>6. \A y \in S : MaxRevision - y >= MaxRevision - x
    BY <2>3, <2>4, <2>5
  <2> QED BY <2>5, <2>6
<1>2. Max(S) \in S /\ \A y \in S : Max(S) >= y
  BY <1>1 DEF Max
<1>3. \A y \in S : y \in Int
  OBVIOUS
<1> QED BY <1>2, <1>3

LEMMA LoadableRevisions ==
  ASSUME NEW dir \in Directories
  PROVE  Loadable(dir) \subseteq Present(dir) /\ Present(dir) \subseteq Revisions
BY ConfigsAssumption DEF Loadable, Present

\* The newest loadable file is what a launch finds.
LEMMA RecoveredFromTheNewest ==
  ASSUME NEW dir \in Directories, NEW m \in Loadable(dir), \A r \in Loadable(dir) : r <= m
  PROVE  Recovered(dir) = IF dir[m] = "legacy" THEN Migrated ELSE dir[m]
<1>1. Loadable(dir) \subseteq Revisions /\ Loadable(dir) # {}
  BY DEF Loadable
<1>2. Max(Loadable(dir)) \in Loadable(dir) /\ m <= Max(Loadable(dir))
  BY <1>1, GreatestRevision
<1>3. Max(Loadable(dir)) = m
  <2>1. Max(Loadable(dir)) <= m
    BY <1>2
  <2>2. m \in Int /\ Max(Loadable(dir)) \in Int
    BY <1>1, <1>2, BoundsAssumption DEF Revisions
  <2> QED BY <2>1, <2>2, <1>2
<1> QED BY <1>1, <1>3 DEF Recovered

LEMMA RecoveredIsAConfiguration ==
  ASSUME NEW dir \in Directories
  PROVE  Recovered(dir) \in Configs
<1>1. CASE Loadable(dir) = {}
  BY <1>1, ConfigsAssumption DEF Recovered
<1>2. CASE Loadable(dir) # {}
  <2>1. Loadable(dir) \subseteq Revisions
    BY DEF Loadable
  <2>2. Max(Loadable(dir)) \in Loadable(dir)
    BY <2>1, <1>2, GreatestRevision
  <2>3. dir[Max(Loadable(dir))] \in Configs \cup {"legacy"}
    BY <2>2 DEF Loadable
  <2> QED BY <2>3, <1>2, ConfigsAssumption DEF Recovered
<1> QED BY <1>1, <1>2

\* Directories with the same loadable files are recovered alike.
LEMMA RecoveredAlike ==
  ASSUME NEW d \in Directories, NEW e \in Directories, Loadable(d) = Loadable(e),
         \A r \in Loadable(d) : d[r] = e[r]
  PROVE  Recovered(d) = Recovered(e)
<1>1. CASE Loadable(d) = {}
  BY <1>1 DEF Recovered
<1>2. CASE Loadable(d) # {}
  <2>1. Loadable(d) \subseteq Revisions
    BY DEF Loadable
  <2>2. Max(Loadable(d)) \in Loadable(d)
    BY <2>1, <1>2, GreatestRevision
  <2> QED BY <2>2, <1>2 DEF Recovered
<1> QED BY <1>1, <1>2

LEMMA DirectoryIsTyped ==
  ASSUME DiskTypes
  PROVE  Directory \in Directories
BY DEF DiskTypes, Directory

LEMMA DirectoryChanges ==
  ASSUME DiskTypes, NEW dir \in Directories, Changed(dir)
  PROVE  Directory' = dir /\ dirs' \in Seq(Directories) /\ Len(dirs') > 0
<1>1. dirs \in Seq(Directories) /\ dirs' = Append(dirs, dir)
  BY DEF DiskTypes, Changed
<1> QED BY <1>1 DEF Directory

LEMMA FilesChange ==
  ASSUME NEW dir \in Directories, NEW r \in Revisions, NEW c \in Contents,
         NEW d, d = [dir EXCEPT ![r] = c]
  PROVE  /\ d \in Directories /\ d[r] = c
         /\ \A q \in Revisions \ {r} : d[q] = dir[q]
         /\ c = "absent" => Present(d) = Present(dir) \ {r}
         /\ c # "absent" => Present(d) = Present(dir) \cup {r}
         /\ c \notin Configs \cup {"legacy"} => Loadable(d) = Loadable(dir) \ {r}
BY DEF Directories, Present, Loadable

\* A snapshot of the publishing code.
LEMMA CommittingIsASnapshot ==
  /\ \A s \in Committing : s.revision \in Revisions /\ s.config \in Configs /\ s # NoSnapshot
  /\ NoSnapshot.config = NoConfig /\ NoConfig \notin Configs
BY ConfigsAssumption DEF Committing, NoSnapshot

-----------------------------------------------------------------------------
(* The directory: the steps                                                 *)

LEMMA DiskBegins == Init => DiskInv
<1> SUFFICES ASSUME Init PROVE DiskInv
  OBVIOUS
<1>1. PICK dir \in Launches : dirs = <<dir>>
  BY DEF Init
<1>2. dirs \in Seq(Directories) /\ Len(dirs) > 0
  BY <1>1, LaunchesAssumption
<1>3. 0 \in 0..MaxFaults
  BY BoundsAssumption
<1>4. DiskTypes
  BY <1>2, <1>3 DEF Init, DiskTypes
<1> QED BY <1>4 DEF Init, DiskInv, DownInv, PublishingInv, PublishedInv, ReadyInv, LeftoverInv,
      Publishing, Published

\* Faults are counted.
LEMMA FaultsAreCounted ==
  ASSUME DiskTypes, Fault \/ Fine \/ (faults + 2 <= MaxFaults /\ faults' = faults + 2)
  PROVE  faults' \in 0..MaxFaults
BY BoundsAssumption DEF DiskTypes, Fault, Fine

\* The process goes away and the directory is one it has had.
LEMMA GoneKeepsInv ==
  ASSUME DiskTypes, Gone, dirs' \in Seq(Directories), Len(dirs') > 0,
         temps' \in SUBSET Revisions, damaged' \in BOOLEAN, faults' \in 0..MaxFaults
  PROVE  DiskInv'
<1>1. DiskTypes'
  BY DEF DiskTypes, Gone
<1> QED BY <1>1 DEF Gone, DiskInv, DownInv, PublishingInv, PublishedInv, ReadyInv, LeftoverInv,
      Publishing, Published

LEMMA LaunchKeepsInv ==
  ASSUME DiskInv, Launch
  PROVE  DiskInv'
<1>1. DiskTypes /\ DownInv /\ Directory' = Directory /\ Present(Directory) \in SUBSET Revisions
  BY DEF DiskInv, Launch, Directory, Present
<1>2. faults' \in 0..MaxFaults
  BY <1>1, FaultsAreCounted DEF Launch
<1>3. DiskTypes'
  BY <1>1, <1>2 DEF DiskTypes, Launch
<1>4. DownInv'
  BY <1>1 DEF DownInv, Launch
<1>5. PublishingInv' /\ PublishedInv' /\ ReadyInv' /\ LeftoverInv'
  BY <1>1 DEF DownInv, Launch, PublishingInv, PublishedInv, ReadyInv, LeftoverInv, Publishing, Published
<1> QED BY <1>3, <1>4, <1>5 DEF DiskInv

\* The newest file that load has still to read.
LEMMA NewestIsPresent ==
  ASSUME DiskInv, pc = "reading", candidates # {}
  PROVE  /\ Newest \in Present(Directory) /\ Newest \in Revisions /\ Newest \in candidates
         /\ \A r \in Present(Directory) : r <= Newest
         /\ task = "load" /\ candidates = Present(Directory) /\ writing = NoSnapshot
<1>1. candidates = Present(Directory) /\ candidates \subseteq Revisions /\ task = "load"
      /\ writing = NoSnapshot
  BY DEF DiskInv, DownInv, DiskTypes
<1> QED BY <1>1, GreatestRevision DEF Newest

LEMMA LoadCurrentKeepsInv ==
  ASSUME DiskInv, LoadCurrent
  PROVE  DiskInv'
<1>1. /\ DiskTypes /\ DownInv /\ LeftoverInv /\ Directory' = Directory /\ pc = "reading"
      /\ candidates # {} /\ Directory[Newest] \in Configs
      /\ snapshot' = [revision |-> Newest, config |-> Directory[Newest]]
      /\ pc' = "ready" /\ candidates' = {} /\ Fine
      /\ UNCHANGED <<dirs, temps, task, writing, answer, leftover, damaged>>
  BY DEF DiskInv, LoadCurrent, Directory, disk
<1>2. /\ Newest \in Revisions /\ \A r \in Present(Directory) : r <= Newest
      /\ task = "load" /\ writing = NoSnapshot
  BY <1>1, NewestIsPresent
<1>3. snapshot' \in Committing /\ snapshot'.revision = Newest /\ snapshot'.config = Directory[Newest]
  BY <1>1, <1>2 DEF Committing
<1>4. faults' \in 0..MaxFaults
  BY <1>1, FaultsAreCounted
<1>5. DiskTypes'
  BY <1>1, <1>3, <1>4 DEF DiskTypes
<1>6. ReadyInv'
  BY <1>1, <1>2, <1>3 DEF ReadyInv, IsNewest
<1> QED BY <1>1, <1>2, <1>5, <1>6 DEF DiskInv, DownInv, PublishingInv, PublishedInv, LeftoverInv,
      Publishing, Published

LEMMA LoadMigratesKeepsInv ==
  ASSUME DiskInv, LoadMigrates
  PROVE  DiskInv'
<1>1. /\ DiskTypes /\ DownInv /\ LeftoverInv /\ Directory' = Directory /\ pc = "reading"
      /\ candidates # {} /\ Directory[Newest] = "legacy" /\ Newest < MaxRevision
      /\ task' = "load" /\ writing' = [revision |-> Newest + 1, config |-> Migrated]
      /\ pc' = "creating" /\ candidates' = {} /\ Fine
      /\ UNCHANGED <<dirs, temps, snapshot, answer, leftover, damaged>>
      /\ Directory \in Directories
  BY DirectoryIsTyped DEF DiskInv, LoadMigrates, BeginPublish, Directory, disk
<1>2. /\ Newest \in Revisions /\ \A r \in Present(Directory) : r <= Newest
  BY <1>1, NewestIsPresent
<1>3. Newest + 1 \in Revisions /\ \A r \in Present(Directory) : r < Newest + 1
  BY <1>1, <1>2, BoundsAssumption DEF Revisions, Present
<1>4. writing' \in Committing /\ writing'.revision = Newest + 1 /\ writing'.config = Migrated
  BY <1>1, <1>3, ConfigsAssumption DEF Committing
<1>5. Recovered(Directory) = Migrated
  <2>1. Newest \in Loadable(Directory)
    BY <1>1, <1>2 DEF Loadable
  <2>2. \A r \in Loadable(Directory) : r <= Newest
    BY <1>1, <1>2, LoadableRevisions
  <2> QED BY <2>1, <2>2, <1>1, RecoveredFromTheNewest
<1>6. Recovered(Directory)' = Recovered(Directory) /\ Present(Directory)' = Present(Directory)
  BY <1>1 DEF Recovered, Loadable, Present
<1>7. faults' \in 0..MaxFaults
  BY <1>1, FaultsAreCounted
<1>8. DiskTypes'
  BY <1>1, <1>4, <1>7 DEF DiskTypes, Publishing
<1>9. PublishingInv'
  BY <1>3, <1>4, <1>5, <1>6 DEF PublishingInv
<1>10. writing' # NoSnapshot
  BY <1>4, CommittingIsASnapshot
<1> QED BY <1>1, <1>8, <1>9, <1>10 DEF DiskInv, DownInv, PublishedInv, ReadyInv, LeftoverInv,
      Publishing, Published

LEMMA LoadDefaultKeepsInv ==
  ASSUME DiskInv, LoadDefault
  PROVE  DiskInv'
<1>1. /\ DiskTypes /\ DownInv /\ LeftoverInv /\ Directory' = Directory /\ pc = "reading"
      /\ candidates = {} /\ Present(Directory) = {}
      /\ task' = "load" /\ writing' = [revision |-> 1, config |-> Default]
      /\ pc' = "creating" /\ Fine
      /\ UNCHANGED <<dirs, temps, candidates, snapshot, answer, leftover, damaged>>
      /\ Directory \in Directories
  BY DirectoryIsTyped DEF DiskInv, DownInv, LoadDefault, BeginPublish, Directory, disk
<1>2. writing' \in Committing /\ writing'.config = Default
  BY <1>1, ConfigsAssumption, BoundsAssumption DEF Committing, Revisions
<1>3. Recovered(Directory) = Default
  BY <1>1, LoadableRevisions DEF Recovered
<1>4. Recovered(Directory)' = Recovered(Directory) /\ Present(Directory)' = Present(Directory)
  BY <1>1 DEF Recovered, Loadable, Present
<1>5. faults' \in 0..MaxFaults
  BY <1>1, FaultsAreCounted
<1>6. DiskTypes'
  BY <1>1, <1>2, <1>5 DEF DiskTypes, Publishing
<1>7. PublishingInv'
  BY <1>1, <1>2, <1>3, <1>4 DEF PublishingInv
<1>8. writing' # NoSnapshot
  BY <1>2, CommittingIsASnapshot
<1> QED BY <1>1, <1>6, <1>7, <1>8 DEF DiskInv, DownInv, PublishedInv, ReadyInv, LeftoverInv,
      Publishing, Published

LEMMA QuarantineKeepsInv ==
  ASSUME DiskInv, Quarantine
  PROVE  DiskInv'
<1> DEFINE d == [Directory EXCEPT ![Newest] = "absent"]
<1>1. /\ DiskTypes /\ DownInv /\ LeftoverInv /\ pc = "reading" /\ candidates # {}
      /\ Changed(d) /\ candidates' = candidates \ {Newest}
      /\ UNCHANGED <<temps, pc, task, writing, snapshot, answer, leftover>>
      /\ damaged' \in {damaged, TRUE} /\ (Fine \/ Fault)
      /\ Directory \in Directories
  BY DirectoryIsTyped DEF DiskInv, Quarantine
<1>2. /\ Newest \in Revisions /\ candidates = Present(Directory)
  BY <1>1, NewestIsPresent
<1>9. d = [Directory EXCEPT ![Newest] = "absent"] /\ "absent" \in Contents
  BY DEF Contents
<1> HIDE DEF d
<1>3. d \in Directories /\ Present(d) = Present(Directory) \ {Newest}
  BY <1>1, <1>2, <1>9, FilesChange
<1>4. Directory' = d /\ dirs' \in Seq(Directories) /\ Len(dirs') > 0
  BY <1>1, <1>3, DirectoryChanges
<1>5. faults' \in 0..MaxFaults
  BY <1>1, FaultsAreCounted
<1>6. DiskTypes'
  BY <1>1, <1>4, <1>5 DEF DiskTypes
<1>7. Present(Directory') = Present(Directory) \ {Newest}
  BY <1>3, <1>4
<1>8. DownInv'
  BY <1>1, <1>2, <1>7 DEF DownInv, Present
<1> QED BY <1>1, <1>6, <1>8 DEF DiskInv, PublishingInv, PublishedInv, ReadyInv, LeftoverInv,
      Publishing, Published

\* Steps of the process that leave the directory alone.
LEMMA SameDirectory ==
  ASSUME dirs' = dirs
  PROVE  /\ Directory' = Directory /\ Present(Directory)' = Present(Directory)
         /\ Recovered(Directory)' = Recovered(Directory)
BY DEF Directory, Present, Recovered, Loadable

LEMMA SaveKeepsInv ==
  ASSUME DiskInv, NEW c \in Configs, Save(c)
  PROVE  DiskInv'
<1>1. /\ DiskTypes /\ DownInv /\ ReadyInv /\ LeftoverInv /\ pc = "ready"
      /\ snapshot.revision < MaxRevision
      /\ task' = "save" /\ writing' = [revision |-> snapshot.revision + 1, config |-> c]
      /\ pc' = "creating" /\ answer' = "none" /\ Fine
      /\ UNCHANGED <<dirs, temps, candidates, snapshot, leftover, damaged>>
  BY DEF DiskInv, Save, BeginPublish, disk
<1>2. snapshot \in Committing /\ IsNewest(snapshot) /\ snapshot.revision \in Revisions
  BY <1>1, CommittingIsASnapshot DEF ReadyInv
<1>3. writing' \in Committing /\ writing'.revision = snapshot.revision + 1
      /\ writing' # NoSnapshot
  BY <1>1, <1>2, BoundsAssumption, CommittingIsASnapshot DEF Committing, Revisions
<1>4. Directory' = Directory /\ Present(Directory)' = Present(Directory)
  BY <1>1, SameDirectory
<1>5. faults' \in 0..MaxFaults
  BY <1>1, FaultsAreCounted
<1>6. DiskTypes'
  BY <1>1, <1>3, <1>5 DEF DiskTypes, Publishing
<1>7. PublishingInv'
  <2>1. \A r \in Present(Directory) : r < snapshot.revision + 1
    BY <1>2, BoundsAssumption DEF IsNewest, Present, Revisions
  <2> QED BY <2>1, <1>1, <1>3, <1>4 DEF PublishingInv
<1>8. ReadyInv'
  BY <1>1, <1>2, <1>4 DEF ReadyInv, IsNewest
<1> QED BY <1>1, <1>3, <1>6, <1>7, <1>8 DEF DiskInv, DownInv, PublishedInv, LeftoverInv,
      Publishing, Published

LEMMA CreateTemporaryKeepsInv ==
  ASSUME DiskInv, CreateTemporary
  PROVE  DiskInv'
<1>1. /\ DiskTypes /\ DownInv /\ PublishingInv /\ ReadyInv /\ LeftoverInv /\ pc = "creating"
      /\ writing.revision \notin temps
      /\ temps' = temps \cup {writing.revision} /\ pc' = "writing" /\ Fine
      /\ UNCHANGED <<dirs, task, candidates, writing, snapshot, answer, leftover, damaged>>
  BY DEF DiskInv, CreateTemporary
<1>2. writing \in Committing /\ writing.revision \in Revisions /\ writing # NoSnapshot
  BY <1>1, CommittingIsASnapshot DEF PublishingInv, Publishing
<1>3. /\ Directory' = Directory /\ Present(Directory)' = Present(Directory)
      /\ Recovered(Directory)' = Recovered(Directory)
  BY <1>1, SameDirectory
<1>4. faults' \in 0..MaxFaults
  BY <1>1, FaultsAreCounted
<1>5. DiskTypes'
  BY <1>1, <1>2, <1>4 DEF DiskTypes, Publishing
<1>6. PublishingInv' /\ ReadyInv'
  BY <1>1, <1>3 DEF PublishingInv, ReadyInv, IsNewest, Publishing
<1>7. DownInv' /\ PublishedInv' /\ LeftoverInv'
  BY <1>1, <1>2 DEF DownInv, PublishedInv, LeftoverInv, Published
<1> QED BY <1>5, <1>6, <1>7 DEF DiskInv

LEMMA WriteTemporaryKeepsInv ==
  ASSUME DiskInv, WriteTemporary
  PROVE  DiskInv'
<1>1. /\ DiskTypes /\ DownInv /\ PublishingInv /\ ReadyInv /\ LeftoverInv /\ pc = "writing"
      /\ pc' = "renaming" /\ Fine
      /\ UNCHANGED <<dirs, temps, task, candidates, writing, snapshot, answer, leftover, damaged>>
  BY DEF DiskInv, WriteTemporary, disk
<1>2. writing # NoSnapshot
  BY <1>1 DEF DownInv
<1>3. /\ Directory' = Directory /\ Present(Directory)' = Present(Directory)
      /\ Recovered(Directory)' = Recovered(Directory)
  BY <1>1, SameDirectory
<1>4. faults' \in 0..MaxFaults
  BY <1>1, FaultsAreCounted
<1>5. DiskTypes'
  BY <1>1, <1>4 DEF DiskTypes, Publishing
<1>6. PublishingInv' /\ ReadyInv'
  BY <1>1, <1>3 DEF PublishingInv, ReadyInv, IsNewest, Publishing
<1>7. DownInv' /\ PublishedInv' /\ LeftoverInv'
  BY <1>1, <1>2 DEF DownInv, PublishedInv, LeftoverInv, Published
<1> QED BY <1>5, <1>6, <1>7 DEF DiskInv

\* A save that fails leaves the host with what it had.
LEMMA RefusalKeepsInv ==
  ASSUME DiskInv, pc \in Publishing, PublishFails, task = "save",
         temps' \in SUBSET temps, leftover' \in SUBSET temps',
         temps' \subseteq leftover',
         damaged' = damaged, faults' \in 0..MaxFaults
  PROVE  DiskInv'
<1>1. /\ DiskTypes /\ DownInv /\ PublishingInv /\ ReadyInv /\ LeftoverInv
      /\ pc' = "ready" /\ answer' = "refused" /\ writing' = NoSnapshot
      /\ UNCHANGED <<dirs, task, candidates, snapshot>>
  BY DEF DiskInv, PublishFails
<1>2. /\ Directory' = Directory /\ Present(Directory)' = Present(Directory)
  BY <1>1, SameDirectory
<1>3. DiskTypes'
  BY <1>1 DEF DiskTypes
<1>4. ReadyInv'
  BY <1>1, <1>2 DEF ReadyInv, IsNewest
<1> QED BY <1>1, <1>3, <1>4 DEF DiskInv, DownInv, PublishingInv, PublishedInv, LeftoverInv,
      Publishing, Published

LEMMA CreateFailsKeepsInv ==
  ASSUME DiskInv, CreateFails
  PROVE  DiskInv'
<1>1. /\ DiskTypes /\ LeftoverInv /\ pc = "creating" /\ PublishFails /\ dirs' = dirs
      /\ temps' = temps /\ damaged' = damaged /\ (Fine \/ Fault)
      /\ task = "save" => leftover' = leftover
  BY DEF DiskInv, CreateFails, PublishFails
<1>2. faults' \in 0..MaxFaults
  BY <1>1, FaultsAreCounted
<1>3. CASE task = "load"
  <2>1. Gone
    BY <1>1, <1>3 DEF PublishFails
  <2>2. /\ dirs' \in Seq(Directories) /\ Len(dirs') > 0 /\ temps' \in SUBSET Revisions
        /\ damaged' \in BOOLEAN
    BY <1>1 DEF DiskTypes
  <2> QED BY <2>1, <2>2, <1>1, <1>2, GoneKeepsInv
<1>4. CASE task = "save"
  <2>1. temps \subseteq leftover /\ leftover \subseteq temps
    BY <1>1 DEF LeftoverInv
  <2> QED BY <2>1, <1>1, <1>2, <1>4, RefusalKeepsInv DEF Publishing
<1> QED BY <1>1, <1>3, <1>4 DEF DiskTypes

LEMMA WriteFailsKeepsInv ==
  ASSUME DiskInv, WriteFails
  PROVE  DiskInv'
<1>1. /\ DiskTypes /\ LeftoverInv /\ pc \in {"writing", "renaming"} /\ PublishFails /\ dirs' = dirs
      /\ damaged' = damaged
      /\ \/ /\ temps' = temps \ {writing.revision} /\ Fault
            /\ task = "save" => leftover' = leftover
         \/ /\ faults + 2 <= MaxFaults /\ faults' = faults + 2 /\ temps' = temps
            /\ task = "save" => leftover' = leftover \cup {writing.revision}
  BY DEF DiskInv, WriteFails, PublishFails
<1>2. faults' \in 0..MaxFaults
  BY <1>1, FaultsAreCounted
<1>3. CASE task = "load"
  <2>1. Gone
    BY <1>1, <1>3 DEF PublishFails
  <2>2. /\ dirs' \in Seq(Directories) /\ Len(dirs') > 0 /\ temps' \in SUBSET Revisions
        /\ damaged' \in BOOLEAN
    BY <1>1 DEF DiskTypes
  <2> QED BY <2>1, <2>2, <1>1, <1>2, GoneKeepsInv
<1>4. CASE task = "save"
  <2>1. /\ temps \subseteq leftover \cup {writing.revision} /\ leftover \subseteq temps
        /\ writing.revision \in temps \ leftover
    BY <1>1 DEF LeftoverInv
  <2>2. temps' \in SUBSET temps /\ temps' \subseteq leftover'
    BY <2>1, <1>1, <1>4
  <2>3. leftover' \in SUBSET temps'
    BY <2>1, <1>1, <1>4
  <2> QED BY <2>2, <2>3, <1>1, <1>2, <1>4, RefusalKeepsInv DEF Publishing
<1> QED BY <1>1, <1>3, <1>4 DEF DiskTypes

LEMMA RenameKeepsInv ==
  ASSUME DiskInv, Rename
  PROVE  DiskInv'
<1> DEFINE d == [Directory EXCEPT ![writing.revision] = writing.config]
<1>1. /\ DiskTypes /\ DownInv /\ PublishingInv /\ LeftoverInv /\ pc = "renaming"
      /\ Changed(d) /\ temps' = temps \ {writing.revision} /\ pc' = "syncing" /\ Fine
      /\ UNCHANGED <<task, candidates, writing, snapshot, answer, leftover, damaged>>
      /\ Directory \in Directories
  BY DirectoryIsTyped DEF DiskInv, Rename
<1>2. /\ writing \in Committing /\ writing.revision \in Revisions /\ writing.config \in Configs
      /\ writing # NoSnapshot /\ writing.config # "absent" /\ writing.config \in Contents
      /\ \A r \in Present(Directory) : r < writing.revision
  BY <1>1, CommittingIsASnapshot, ConfigsAssumption DEF PublishingInv, Publishing, Contents
<1>8. d = [Directory EXCEPT ![writing.revision] = writing.config]
  OBVIOUS
<1> HIDE DEF d
<1>3. /\ d \in Directories /\ d[writing.revision] = writing.config
      /\ Present(d) = Present(Directory) \cup {writing.revision}
  <2>1. /\ Directory \in Directories /\ writing.revision \in Revisions
        /\ writing.config \in Contents /\ writing.config # "absent"
    BY <1>1, <1>2
  <2>3. d \in Directories
    BY <2>1, <1>8, FilesChange
  <2>4. d[writing.revision] = writing.config
    BY <2>1, <1>8 DEF Directories
  <2>5. \A q \in Revisions \ {writing.revision} : d[q] = Directory[q]
    BY <2>1, <1>8 DEF Directories
  <2>2. Present(d) = Present(Directory) \cup {writing.revision}
    BY <2>1, <2>4, <2>5 DEF Present
  <2> QED BY <2>2, <2>3, <2>4
<1>4. Directory' = d /\ dirs' \in Seq(Directories) /\ Len(dirs') > 0
  BY <1>1, <1>3, DirectoryChanges
<1>5. faults' \in 0..MaxFaults
  BY <1>1, FaultsAreCounted
<1>6. DiskTypes'
  BY <1>1, <1>4, <1>5 DEF DiskTypes, Published
<1>7. PublishedInv'
  <2>1. \A r \in Present(Directory') : r <= writing.revision
    BY <1>2, <1>3, <1>4, BoundsAssumption DEF Revisions, Present
  <2> QED BY <2>1, <1>1, <1>2, <1>3, <1>4 DEF PublishedInv, IsNewest
<1> QED BY <1>1, <1>2, <1>6, <1>7 DEF DiskInv, DownInv, PublishingInv, ReadyInv, LeftoverInv,
      Publishing, Published

LEMMA SyncDirectoryKeepsInv ==
  ASSUME DiskInv, SyncDirectory
  PROVE  DiskInv'
<1>1. /\ DiskTypes /\ DownInv /\ PublishedInv /\ LeftoverInv /\ pc = "syncing" /\ pc' = "retaining"
      /\ dirs' = <<Directory>> \/ dirs' = dirs
      /\ Fine \/ Fault
      /\ UNCHANGED <<temps, task, candidates, writing, snapshot, answer, leftover, damaged>>
      /\ Directory \in Directories
  BY DirectoryIsTyped DEF DiskInv, SyncDirectory
<1>2. Directory' = Directory /\ dirs' \in Seq(Directories) /\ Len(dirs') > 0
  <2>1. CASE dirs' = dirs
    BY <2>1, <1>1 DEF DiskTypes, Directory
  <2>2. CASE dirs' = <<Directory>>
    <3>1. Len(dirs') = 1 /\ dirs'[1] = Directory /\ dirs' \in Seq(Directories)
      BY <2>2, <1>1
    <3> QED BY <3>1 DEF Directory
  <2> QED BY <2>1, <2>2, <1>1
<1>3. Present(Directory)' = Present(Directory)
  BY <1>2 DEF Present
<1>4. faults' \in 0..MaxFaults
  BY <1>1, FaultsAreCounted
<1>5. DiskTypes'
  BY <1>1, <1>2, <1>4 DEF DiskTypes, Published
<1>6. PublishedInv'
  BY <1>1, <1>2, <1>3 DEF PublishedInv, IsNewest, Published
<1> QED BY <1>1, <1>5, <1>6 DEF DiskInv, DownInv, PublishingInv, ReadyInv, LeftoverInv,
      Publishing, Published

\* The file that is removed is neither the newest one nor the one before.
LEMMA ExcessIsOld ==
  ASSUME DiskTypes, Excess(Directory) # {}
  PROVE  LET r == Max(Excess(Directory))
         IN r \in Present(Directory) /\ \E a, b \in Present(Directory) : r < a /\ a < b
<1>1. Excess(Directory) \subseteq Revisions
  BY DEF Excess, Present
<1>2. Max(Excess(Directory)) \in Excess(Directory)
  BY <1>1, GreatestRevision
<1> QED BY <1>2 DEF Excess

LEMMA RemoveOldKeepsInv ==
  ASSUME DiskInv, RemoveOld
  PROVE  DiskInv'
<1> DEFINE r == Max(Excess(Directory))
           d == [Directory EXCEPT ![r] = "absent"]
<1>1. /\ DiskTypes /\ DownInv /\ PublishedInv /\ LeftoverInv /\ pc = "retaining"
      /\ Excess(Directory) # {} /\ Changed(d) /\ Fine
      /\ UNCHANGED <<temps, pc, task, candidates, writing, snapshot, answer, leftover, damaged>>
      /\ Directory \in Directories
  BY DirectoryIsTyped DEF DiskInv, RemoveOld, process
<1>2. PICK a, b \in Present(Directory) : r \in Present(Directory) /\ r < a /\ a < b
  BY <1>1, ExcessIsOld
<1> HIDE DEF r
<1>3. writing \in Committing /\ writing.revision \in Revisions /\ IsNewest(writing)
  BY <1>1, CommittingIsASnapshot DEF PublishedInv, Published
<1>4. r \in Revisions /\ r # writing.revision
  <2>1. r \in Revisions /\ a \in Revisions /\ b \in Revisions /\ b <= writing.revision
    BY <1>2, <1>3 DEF Present, IsNewest
  <2> QED BY <2>1, <1>2, <1>3, BoundsAssumption DEF Revisions
<1>11. d = [Directory EXCEPT ![r] = "absent"] /\ "absent" \in Contents
  BY DEF Contents
<1> HIDE DEF d
<1>5. /\ d \in Directories /\ Present(d) = Present(Directory) \ {r}
      /\ \A q \in Revisions \ {r} : d[q] = Directory[q]
  <2>1. Directory \in Directories
    BY <1>1
  <2>2. \A q \in Revisions \ {r} : d[q] = Directory[q]
    BY <2>1, <1>4, <1>11, FilesChange
  <2>5. d[r] = "absent"
    BY <2>1, <1>4, <1>11 DEF Directories
  <2>3. Present(d) = Present(Directory) \ {r}
    BY <2>2, <2>5 DEF Present
  <2>4. d \in Directories
    BY <2>1, <1>4, <1>11, FilesChange
  <2> QED BY <2>2, <2>3, <2>4
<1>6. Directory' = d /\ dirs' \in Seq(Directories) /\ Len(dirs') > 0
  BY <1>1, <1>5, DirectoryChanges
<1>7. /\ \A q \in Present(Directory') : q <= writing.revision
      /\ ~damaged => Directory'[writing.revision] = writing.config
  BY <1>3, <1>4, <1>5, <1>6 DEF IsNewest
<1>8. faults' \in 0..MaxFaults
  BY <1>1, FaultsAreCounted
<1>9. DiskTypes'
  BY <1>1, <1>6, <1>8 DEF DiskTypes
<1>10. PublishedInv'
  BY <1>1, <1>3, <1>7 DEF PublishedInv, IsNewest
<1> QED BY <1>1, <1>9, <1>10 DEF DiskInv, DownInv, PublishingInv, ReadyInv, LeftoverInv,
      Publishing, Published

LEMMA PublishDoneKeepsInv ==
  ASSUME DiskInv, PublishDone
  PROVE  DiskInv'
<1>1. /\ DiskTypes /\ DownInv /\ PublishedInv /\ LeftoverInv /\ pc = "retaining" /\ pc' = "ready"
      /\ snapshot' = writing /\ writing' = NoSnapshot
      /\ answer' \in {"accepted", "none"} /\ (Fine \/ Fault)
      /\ UNCHANGED <<dirs, temps, task, candidates, leftover, damaged>>
  BY DEF DiskInv, PublishDone, disk
<1>2. writing \in Committing /\ IsNewest(writing)
  BY <1>1 DEF PublishedInv, Published
<1>3. Directory' = Directory /\ Present(Directory)' = Present(Directory)
  BY <1>1, SameDirectory
<1>4. faults' \in 0..MaxFaults
  BY <1>1, FaultsAreCounted
<1>5. DiskTypes'
  BY <1>1, <1>2, <1>4 DEF DiskTypes
<1>6. ReadyInv'
  BY <1>1, <1>2, <1>3 DEF ReadyInv, IsNewest
<1> QED BY <1>1, <1>5, <1>6 DEF DiskInv, DownInv, PublishingInv, PublishedInv, LeftoverInv,
      Publishing, Published

LEMMA PowerFailsKeepsInv ==
  ASSUME DiskInv, PowerFails
  PROVE  DiskInv'
<1>1. /\ DiskTypes /\ Gone /\ Fault /\ temps' \in SUBSET temps
  BY DEF DiskInv, PowerFails
<1>2. PICK i \in 1..Len(dirs) : dirs' = <<dirs[i]>> /\ damaged' = (damaged \/ i < Len(dirs))
  BY DEF PowerFails
<1>3. dirs' \in Seq(Directories) /\ Len(dirs') > 0
  BY <1>1, <1>2 DEF DiskTypes
<1>4. damaged' \in BOOLEAN /\ temps' \in SUBSET Revisions
  BY <1>1, <1>2 DEF DiskTypes
<1>5. faults' \in 0..MaxFaults
  BY <1>1, FaultsAreCounted
<1> QED BY <1>1, <1>3, <1>4, <1>5, GoneKeepsInv

LEMMA FileIsDamagedKeepsInv ==
  ASSUME DiskInv, FileIsDamaged
  PROVE  DiskInv'
<1>1. /\ DiskTypes /\ DownInv /\ PublishingInv /\ PublishedInv /\ ReadyInv /\ LeftoverInv
      /\ damaged' = TRUE /\ Fault
      /\ UNCHANGED <<temps, pc, task, candidates, writing, snapshot, answer, leftover>>
      /\ Directory \in Directories
  BY DirectoryIsTyped DEF DiskInv, FileIsDamaged, process
<1>2. PICK r \in Present(Directory) :
        /\ Directory[r] \in Configs
        /\ dirs' = [i \in 1..Len(dirs) |->
                     IF dirs[i][r] = Directory[r] THEN [dirs[i] EXCEPT ![r] = "corrupt"] ELSE dirs[i]]
  BY DEF FileIsDamaged
<1>3. r \in Revisions /\ "corrupt" \in Contents
  BY <1>2 DEF Present, Contents, Unusable
<1>4. /\ dirs \in Seq(Directories) /\ Len(dirs) \in Nat /\ Len(dirs) > 0
      /\ \A i \in 1..Len(dirs) : dirs[i] \in Directories
  BY <1>1 DEF DiskTypes
<1>5. \A i \in 1..Len(dirs) :
        (IF dirs[i][r] = Directory[r] THEN [dirs[i] EXCEPT ![r] = "corrupt"] ELSE dirs[i]) \in Directories
  BY <1>3, <1>4, FilesChange
<1>6. dirs' \in Seq(Directories) /\ Len(dirs') = Len(dirs)
  BY <1>2, <1>4, <1>5
<1>7. Directory' = [Directory EXCEPT ![r] = "corrupt"]
  BY <1>2, <1>4, <1>6 DEF Directory
<1>8. Present(Directory') = Present(Directory)
  <2>1. Present([Directory EXCEPT ![r] = "corrupt"]) = Present(Directory) \cup {r}
    BY <1>1, <1>3, FilesChange
  <2> QED BY <2>1, <1>2, <1>7
<1>9. faults' \in 0..MaxFaults
  BY <1>1, FaultsAreCounted
<1>10. DiskTypes'
  BY <1>1, <1>4, <1>6, <1>9 DEF DiskTypes
<1>11. DownInv' /\ PublishingInv' /\ PublishedInv' /\ ReadyInv'
  BY <1>1, <1>8 DEF DownInv, PublishingInv, PublishedInv, ReadyInv, IsNewest
<1>12. LeftoverInv'
  BY <1>1 DEF LeftoverInv
<1> QED BY <1>10, <1>11, <1>12 DEF DiskInv

LEMMA DiskStep == DiskInv /\ [Next]_vars => DiskInv'
<1> SUFFICES ASSUME DiskInv, [Next]_vars PROVE DiskInv'
  OBVIOUS
<1>1. DiskTypes /\ dirs \in Seq(Directories) /\ Len(dirs) > 0 /\ temps \in SUBSET Revisions
      /\ damaged \in BOOLEAN
  BY DEF DiskInv, DiskTypes
<1>2. ASSUME LoadRefusesMigration \/ QuarantineFails \/ ProcessDies
      PROVE  DiskInv'
  <2>1. Gone /\ dirs' = dirs /\ temps' = temps /\ damaged' = damaged /\ (Fine \/ Fault)
    BY <1>2 DEF LoadRefusesMigration, QuarantineFails, ProcessDies, LoadFails, disk
  <2>2. faults' \in 0..MaxFaults
    BY <2>1, <1>1, FaultsAreCounted
  <2> QED BY <2>1, <2>2, <1>1, GoneKeepsInv
<1>3. ASSUME LoadStep PROVE DiskInv'
  BY <1>2, <1>3, LoadCurrentKeepsInv, LoadMigratesKeepsInv, QuarantineKeepsInv, LoadDefaultKeepsInv
    DEF LoadStep
<1>4. ASSUME PublishStep PROVE DiskInv'
  BY <1>4, CreateTemporaryKeepsInv, CreateFailsKeepsInv, WriteTemporaryKeepsInv, WriteFailsKeepsInv,
    RenameKeepsInv, SyncDirectoryKeepsInv, RemoveOldKeepsInv, PublishDoneKeepsInv DEF PublishStep
<1>5. CASE UNCHANGED vars
  BY <1>5 DEF vars, disk, process, DiskInv, DiskTypes, DownInv, PublishingInv, PublishedInv, ReadyInv,
    LeftoverInv, IsNewest, Directory, Present, Recovered, Loadable
<1> QED BY <1>2, <1>3, <1>4, <1>5, LaunchKeepsInv, SaveKeepsInv, PowerFailsKeepsInv,
       FileIsDamagedKeepsInv DEF Next

\* The inductive invariant of the directory.
THEOREM DiskInvariant == Spec => []DiskInv
BY DiskBegins, DiskStep, PTL DEF Spec

-----------------------------------------------------------------------------
(* The directory implements the store                                       *)

\* The store's variables.
Stored == Recovered(Directory)
Asked == IF task = "save" THEN writing.config ELSE NoConfig
Committed == (task = "save" /\ pc \in {"syncing", "retaining"})

\* The store's steps, in terms of the directory.
LEMMA AskStep ==
  ASSUME NEW c \in Configs, Asked = NoConfig, Asked' = c, answer' = "none",
         Stored' = Stored, Committed' = Committed, damaged' = damaged
  PROVE  Store!Next
BY DEF Store!Next, Store!Ask, Stored, Asked, Committed

LEMMA CommitStep ==
  ASSUME Asked # NoConfig, ~Committed, Stored' = Asked, Committed',
         Asked' = Asked, answer' = answer, damaged' = damaged
  PROVE  Store!Next
BY DEF Store!Next, Store!Commit, Stored, Asked, Committed

LEMMA AcceptStep ==
  ASSUME Committed, Asked' = NoConfig, ~Committed', answer' = "accepted",
         Stored' = Stored, damaged' = damaged
  PROVE  Store!Next
BY DEF Store!Next, Store!Accept, Stored, Asked, Committed

LEMMA RefuseStep ==
  ASSUME Asked # NoConfig, ~Committed, Asked' = NoConfig, answer' = "refused",
         Stored' = Stored, ~Committed', damaged' = damaged
  PROVE  Store!Next
BY DEF Store!Next, Store!Refuse, Stored, Asked, Committed

LEMMA CrashStep ==
  ASSUME Asked' = NoConfig, ~Committed', answer' = "none", Stored' = Stored, damaged' = damaged
  PROVE  Store!Next
BY DEF Store!Next, Store!Crash, Stored, Asked, Committed

LEMMA DamageStep ==
  ASSUME damaged', damaged' \in BOOLEAN, Stored' \in Configs,
         \/ Asked' = NoConfig /\ ~Committed' /\ answer' = "none"
         \/ Asked' = Asked /\ Committed' = Committed /\ answer' = answer
  PROVE  Store!Next
BY DEF Store!Next, Store!Damage, Stored, Asked, Committed

LEMMA QuietStep ==
  ASSUME Stored' = Stored, Asked' = Asked, Committed' = Committed, answer' = answer,
         damaged' = damaged
  PROVE  UNCHANGED Store!vars
BY DEF Store!vars, Stored, Asked, Committed

\* A process that goes away.
LEMMA GoneIsACrash ==
  ASSUME Gone, Stored' = Stored, damaged' = damaged
  PROVE  Store!Next
<1>1. Asked' = NoConfig /\ ~Committed' /\ answer' = "none"
  BY DEF Gone, Asked, Committed
<1> QED BY <1>1, CrashStep

LEMMA SameStored ==
  ASSUME dirs' = dirs
  PROVE  Stored' = Stored
BY SameDirectory DEF Stored

\* Setting an unusable file aside changes nothing that a launch would find.
LEMMA QuarantineMaps ==
  ASSUME DiskInv, Quarantine
  PROVE  [Store!Next]_(Store!vars)
<1> DEFINE d == [Directory EXCEPT ![Newest] = "absent"]
<1>1. /\ DiskTypes /\ DownInv /\ pc = "reading" /\ candidates # {} /\ Changed(d)
      /\ UNCHANGED <<pc, task, writing, answer>>
      /\ Directory \in Directories
  BY DirectoryIsTyped DEF DiskInv, Quarantine
<1>2. Newest \in Revisions
  BY <1>1, NewestIsPresent
<1>3. d = [Directory EXCEPT ![Newest] = "absent"] /\ "absent" \in Contents
  BY DEF Contents
<1>4. d \in Directories
  BY <1>1, <1>2, <1>3 DEF Directories
<1>5. Directory' = d
  BY <1>1, <1>4, DirectoryChanges
<1>6. Asked' = Asked /\ Committed' = Committed /\ answer' = answer
  BY <1>1 DEF Asked, Committed
<1>7. CASE Directory[Newest] \in Unusable
  <2>1. Fine /\ damaged' = damaged
    BY <1>7 DEF Quarantine
  <2>2. \A q \in Revisions \ {Newest} : d[q] = Directory[q]
    BY <1>1, <1>2, <1>3 DEF Directories
  <2>3. d[Newest] = "absent"
    BY <1>1, <1>2, <1>3 DEF Directories
  <2> HIDE DEF d
  <2>4. Directory[Newest] \notin Configs \cup {"legacy"} /\ "absent" \notin Configs \cup {"legacy"}
    BY <1>7, ConfigsAssumption DEF Unusable
  <2>5. Loadable(d) = Loadable(Directory)
    BY <2>2, <2>3, <2>4 DEF Loadable
  <2>6. \A q \in Loadable(d) : d[q] = Directory[q]
    BY <2>2, <2>3, <2>4 DEF Loadable
  <2>7. Recovered(d) = Recovered(Directory)
    BY <2>5, <2>6, <1>1, <1>4, RecoveredAlike
  <2>8. Stored' = Stored
    BY <2>7, <1>5 DEF Stored
  <2> QED BY <2>1, <2>8, <1>6, QuietStep
<1>8. CASE Directory[Newest] \notin Unusable
  <2>1. damaged' = TRUE
    BY <1>8 DEF Quarantine
  <2>2. Stored' \in Configs
    BY <1>4, <1>5, RecoveredIsAConfiguration DEF Stored
  <2> QED BY <2>1, <2>2, <1>6, DamageStep
<1> QED BY <1>7, <1>8

LEMMA SaveMaps ==
  ASSUME DiskInv, NEW c \in Configs, Save(c)
  PROVE  Store!Next
<1>1. /\ DownInv /\ pc = "ready" /\ task' = "save" /\ dirs' = dirs
      /\ writing' = [revision |-> snapshot.revision + 1, config |-> c]
      /\ pc' = "creating" /\ answer' = "none" /\ damaged' = damaged
  BY DEF DiskInv, Save, BeginPublish, disk
<1>2. writing.config = NoConfig
  BY <1>1, CommittingIsASnapshot DEF DownInv
<1>3. Asked = NoConfig /\ Asked' = c
  BY <1>1, <1>2 DEF Asked
<1>4. Stored' = Stored
  BY <1>1, SameStored
<1>5. Committed' = Committed
  BY <1>1 DEF Committed
<1>6. answer' = "none" /\ damaged' = damaged
  BY <1>1
<1> QED BY <1>3, <1>4, <1>5, <1>6, AskStep

\* A write that fails is a refusal of a save and the end of a load.
LEMMA PublishFailsMaps ==
  ASSUME DiskInv, pc \in Publishing, PublishFails, damaged' = damaged
  PROVE  Store!Next
<1>1. DiskTypes /\ PublishingInv /\ dirs' = dirs
  BY DEF DiskInv, PublishFails
<1>2. Stored' = Stored
  BY <1>1, SameStored
<1>3. CASE task = "load"
  <2>1. Gone
    BY <1>3 DEF PublishFails
  <2> QED BY <2>1, <1>2, GoneIsACrash
<1>4. CASE task = "save"
  <2>1. pc' = "ready" /\ answer' = "refused" /\ writing' = NoSnapshot /\ task' = "save"
    BY <1>4 DEF PublishFails
  <2>2. writing.config \in Configs
    BY <1>1, CommittingIsASnapshot DEF PublishingInv
  <2>3. Asked # NoConfig /\ Asked' = NoConfig
    BY <2>1, <2>2, <1>4, CommittingIsASnapshot DEF Asked
  <2>4. ~Committed /\ ~Committed'
    BY <2>1 DEF Committed, Publishing
  <2> QED BY <2>1, <2>3, <2>4, <1>2, RefuseStep
<1> QED BY <1>1, <1>3, <1>4 DEF DiskTypes

\* Renaming is the moment a save takes effect; what load writes is what it has
\* found.
LEMMA RenameMaps ==
  ASSUME DiskInv, Rename
  PROVE  [Store!Next]_(Store!vars)
<1> DEFINE d == [Directory EXCEPT ![writing.revision] = writing.config]
<1>1. /\ DiskTypes /\ PublishingInv /\ pc = "renaming" /\ pc' = "syncing"
      /\ Changed(d)
      /\ UNCHANGED <<task, writing, answer, damaged>>
      /\ Directory \in Directories
  BY DirectoryIsTyped DEF DiskInv, Rename
<1>2. /\ writing \in Committing /\ writing.revision \in Revisions /\ writing.config \in Configs
      /\ writing.config \in Contents /\ NoConfig \notin Configs
      /\ \A r \in Present(Directory) : r < writing.revision
  BY <1>1, CommittingIsASnapshot, ConfigsAssumption DEF PublishingInv, Publishing, Contents
<1>3. d \in Directories
  BY <1>1, <1>2 DEF Directories
<1>4. Directory' = d
  BY <1>1, <1>3, DirectoryChanges
<1>5. d[writing.revision] = writing.config /\ \A q \in Revisions \ {writing.revision} : d[q] = Directory[q]
  BY <1>1, <1>2 DEF Directories
<1> HIDE DEF d
<1>6. Recovered(d) = writing.config
  <2>1. writing.revision \in Loadable(d)
    BY <1>2, <1>5 DEF Loadable
  <2>2. ASSUME NEW r \in Loadable(d) PROVE r <= writing.revision
    <3>1. r \in Revisions
      BY <2>2 DEF Loadable
    <3>2. CASE r # writing.revision
      <4>1. r \in Loadable(Directory)
        BY <3>1, <3>2, <2>2, <1>5 DEF Loadable
      <4>2. r < writing.revision
        BY <4>1, <1>1, <1>2, LoadableRevisions
      <4> QED BY <4>2, <3>1, <1>2, BoundsAssumption DEF Revisions
    <3>3. CASE r = writing.revision
      BY <3>3, <1>2, BoundsAssumption DEF Revisions
    <3> QED BY <3>2, <3>3
  <2>3. Recovered(d) = IF d[writing.revision] = "legacy" THEN Migrated ELSE d[writing.revision]
    BY <2>1, <2>2, <1>3, RecoveredFromTheNewest
  <2>4. writing.config # "legacy"
    BY <1>2, ConfigsAssumption
  <2> QED BY <2>3, <2>4, <1>5
<1>7. Stored' = writing.config
  BY <1>4, <1>6 DEF Stored
<1>8. Asked' = Asked
  BY <1>1 DEF Asked
<1>9. CASE task = "save"
  <2>1. Asked = writing.config /\ Asked # NoConfig /\ ~Committed /\ Committed'
    BY <1>1, <1>2, <1>9 DEF Asked, Committed
  <2> QED BY <2>1, <1>1, <1>7, <1>8, CommitStep
<1>10. CASE task = "load" /\ damaged
  <2>1. Committed' = Committed
    BY <1>1, <1>10 DEF Committed
  <2> QED BY <2>1, <1>1, <1>2, <1>7, <1>8, <1>10, DamageStep DEF DiskTypes
<1>11. CASE task = "load" /\ ~damaged
  <2>1. Committed' = Committed
    BY <1>1, <1>11 DEF Committed
  <2>2. Stored' = Stored
    BY <1>1, <1>7, <1>11 DEF PublishingInv, Publishing, Stored
  <2> QED BY <2>1, <2>2, <1>1, <1>8, QuietStep
<1> QED BY <1>1, <1>9, <1>10, <1>11 DEF DiskTypes

\* Removing an old file is seen by nobody.
LEMMA RemoveOldMaps ==
  ASSUME DiskInv, RemoveOld
  PROVE  [Store!Next]_(Store!vars)
<1> DEFINE r == Max(Excess(Directory))
           d == [Directory EXCEPT ![r] = "absent"]
<1>1. /\ DiskTypes /\ PublishedInv /\ pc = "retaining"
      /\ Excess(Directory) # {} /\ Changed(d)
      /\ UNCHANGED <<pc, task, writing, answer, damaged>>
      /\ Directory \in Directories
  BY DirectoryIsTyped DEF DiskInv, RemoveOld, process
<1>2. PICK a, b \in Present(Directory) : r \in Present(Directory) /\ r < a /\ a < b
  BY <1>1, ExcessIsOld
<1> HIDE DEF r
<1>3. writing \in Committing /\ writing.revision \in Revisions /\ IsNewest(writing)
      /\ writing.config \in Configs
  BY <1>1, CommittingIsASnapshot DEF PublishedInv, Published
<1>4. r \in Revisions /\ r # writing.revision
  <2>1. r \in Revisions /\ a \in Revisions /\ b \in Revisions /\ b <= writing.revision
    BY <1>2, <1>3 DEF Present, IsNewest
  <2> QED BY <2>1, <1>2, <1>3, BoundsAssumption DEF Revisions
<1>5. d = [Directory EXCEPT ![r] = "absent"] /\ "absent" \in Contents
  BY DEF Contents
<1>6. d \in Directories /\ d[r] = "absent" /\ \A q \in Revisions \ {r} : d[q] = Directory[q]
  BY <1>1, <1>4, <1>5 DEF Directories
<1>7. Directory' = d
  BY <1>1, <1>6, DirectoryChanges
<1> HIDE DEF d
<1>8. Asked' = Asked /\ Committed' = Committed
  BY <1>1 DEF Asked, Committed
<1>9. CASE damaged
  <2>1. Stored' \in Configs
    BY <1>6, <1>7, RecoveredIsAConfiguration DEF Stored
  <2> QED BY <2>1, <1>1, <1>8, <1>9, DamageStep DEF DiskTypes
<1>10. CASE ~damaged
  <2>1. Directory[writing.revision] = writing.config /\ writing.config \in Configs
        /\ \A q \in Present(Directory) : q <= writing.revision
    BY <1>3, <1>10 DEF IsNewest
  <2>2. writing.revision \in Loadable(Directory)
    BY <2>1, <1>3 DEF Loadable
  <2>3. \A q \in Loadable(Directory) : q <= writing.revision
    BY <2>1, <1>1, LoadableRevisions
  <2>4. d[writing.revision] = Directory[writing.revision]
    BY <1>3, <1>4, <1>6
  <2>5. writing.revision \in Loadable(d)
    BY <2>1, <2>4, <1>3 DEF Loadable
  <2>6. Loadable(d) \subseteq Loadable(Directory)
    BY <1>4, <1>6, ConfigsAssumption DEF Loadable
  <2>7. Recovered(Directory) =
          IF Directory[writing.revision] = "legacy" THEN Migrated ELSE Directory[writing.revision]
    BY <2>2, <2>3, <1>1, RecoveredFromTheNewest
  <2>8. Recovered(d) = IF d[writing.revision] = "legacy" THEN Migrated ELSE d[writing.revision]
    BY <2>3, <2>5, <2>6, <1>6, RecoveredFromTheNewest
  <2>9. Stored' = Stored
    BY <2>4, <2>7, <2>8, <1>7 DEF Stored
  <2> QED BY <2>9, <1>1, <1>8, QuietStep
<1> QED BY <1>9, <1>10

LEMMA PublishDoneMaps ==
  ASSUME DiskInv, PublishDone
  PROVE  [Store!Next]_(Store!vars)
<1>1. /\ DiskTypes /\ DownInv /\ PublishedInv /\ pc = "retaining" /\ pc' = "ready" /\ dirs' = dirs
      /\ writing' = NoSnapshot /\ task' = task /\ damaged' = damaged
      /\ answer' = IF task = "save" THEN "accepted" ELSE "none"
  BY DEF DiskInv, PublishDone, disk
<1>2. Stored' = Stored
  BY <1>1, SameStored
<1>3. Asked' = NoConfig /\ ~Committed'
  BY <1>1, CommittingIsASnapshot DEF Asked, Committed
<1>4. CASE task = "save"
  <2>1. Committed /\ answer' = "accepted"
    BY <1>1, <1>4 DEF Committed
  <2> QED BY <2>1, <1>1, <1>2, <1>3, AcceptStep
<1>5. CASE task = "load"
  BY <1>1, <1>2, <1>3, <1>5, CrashStep
<1> QED BY <1>1, <1>4, <1>5 DEF DiskTypes

LEMMA PowerFailsMaps ==
  ASSUME DiskInv, DiskInv', PowerFails
  PROVE  Store!Next
<1>1. DiskTypes /\ DiskTypes' /\ Gone
  BY DEF DiskInv, PowerFails
<1>2. PICK i \in 1..Len(dirs) : dirs' = <<dirs[i]>> /\ damaged' = (damaged \/ i < Len(dirs))
  BY DEF PowerFails
<1>3. Len(dirs) \in Nat /\ i \in 1..Len(dirs) /\ Directory' = dirs[i]
  BY <1>1, <1>2 DEF DiskTypes, Directory
<1>4. CASE i = Len(dirs)
  <2>1. damaged' = damaged
    BY <1>1, <1>2, <1>3, <1>4 DEF DiskTypes
  <2>2. Stored' = Stored
    BY <1>3, <1>4 DEF Stored, Directory
  <2> QED BY <2>1, <2>2, <1>1, GoneIsACrash
<1>5. CASE i < Len(dirs)
  <2>1. damaged' /\ damaged' \in BOOLEAN
    BY <1>1, <1>2, <1>5 DEF DiskTypes
  <2>2. Stored' \in Configs
    BY <1>1, DirectoryIsTyped, RecoveredIsAConfiguration DEF Stored, DiskTypes, Directory
  <2>3. Asked' = NoConfig /\ ~Committed' /\ answer' = "none"
    BY <1>1 DEF Gone, Asked, Committed
  <2> QED BY <2>1, <2>2, <2>3, DamageStep
<1> QED BY <1>3, <1>4, <1>5

LEMMA FileIsDamagedMaps ==
  ASSUME DiskInv, DiskInv', FileIsDamaged
  PROVE  Store!Next
<1>1. DiskTypes' /\ damaged' = TRUE /\ UNCHANGED <<pc, task, writing, answer>>
  BY DEF DiskInv, FileIsDamaged, process
<1>2. Stored' \in Configs
  BY <1>1, RecoveredIsAConfiguration DEF Stored, DiskTypes, Directory
<1>3. Asked' = Asked /\ Committed' = Committed
  BY <1>1 DEF Asked, Committed
<1> QED BY <1>1, <1>2, <1>3, DamageStep

LEMMA StoreStep ==
  ASSUME DiskInv, DiskInv', [Next]_vars
  PROVE  [Store!Next]_(Store!vars)
<1>1. DiskTypes /\ DownInv /\ PublishingInv
  BY DEF DiskInv
<1>2. ASSUME LoadRefusesMigration \/ QuarantineFails \/ ProcessDies
      PROVE  Store!Next
  <2>1. Gone /\ dirs' = dirs /\ damaged' = damaged
    BY <1>2 DEF LoadRefusesMigration, QuarantineFails, ProcessDies, LoadFails, disk
  <2> QED BY <2>1, GoneIsACrash, SameStored
\* Steps before a save is asked for, and those between that and its renaming.
<1>3. ASSUME Launch \/ LoadCurrent \/ LoadMigrates \/ LoadDefault \/ CreateTemporary \/ WriteTemporary
             \/ SyncDirectory
      PROVE  UNCHANGED Store!vars
  <2>1. answer' = answer /\ damaged' = damaged
    BY <1>3 DEF Launch, LoadCurrent, LoadMigrates, LoadDefault, CreateTemporary, WriteTemporary,
      SyncDirectory
  <2>2. CASE SyncDirectory
    <3>1. dirs' = <<Directory>> \/ dirs' = dirs
      BY <2>2 DEF SyncDirectory
    <3>2. Directory' = Directory
      <4>1. ASSUME dirs' = <<Directory>> PROVE Directory' = Directory
        <5>1. Len(dirs') = 1 /\ dirs'[1] = Directory
          BY <4>1
        <5> QED BY <5>1 DEF Directory
      <4> QED BY <3>1, <4>1 DEF Directory
    <3>3. Stored' = Stored
      BY <3>2 DEF Stored
    <3>4. Asked' = Asked /\ Committed' = Committed
      BY <2>2 DEF SyncDirectory, Asked, Committed
    <3> QED BY <3>3, <3>4, <2>1, QuietStep
  <2>3. CASE Launch \/ LoadCurrent \/ LoadMigrates \/ LoadDefault \/ CreateTemporary \/ WriteTemporary
    <3>1. dirs' = dirs
      BY <2>3 DEF Launch, LoadCurrent, LoadMigrates, LoadDefault, CreateTemporary, WriteTemporary, disk
    <3>2. CASE LoadMigrates \/ LoadDefault
      <4>1. task = "load" /\ task' = "load"
        BY <3>2, <1>1 DEF LoadMigrates, LoadDefault, BeginPublish, DownInv
      <4> QED BY <4>1, <3>1, <2>1, SameStored, QuietStep DEF Asked, Committed
    <3>3. CASE Launch \/ LoadCurrent \/ CreateTemporary \/ WriteTemporary
      <4>1. /\ task' = task /\ writing' = writing
            /\ pc \notin {"syncing", "retaining"} /\ pc' \notin {"syncing", "retaining"}
        BY <3>3 DEF Launch, LoadCurrent, CreateTemporary, WriteTemporary
      <4> QED BY <4>1, <3>1, <2>1, SameStored, QuietStep DEF Asked, Committed
    <3> QED BY <2>3, <3>2, <3>3
  <2> QED BY <1>3, <2>2, <2>3
<1>4. ASSUME CreateFails \/ WriteFails
      PROVE  Store!Next
  <2>1. PublishFails /\ damaged' = damaged /\ pc \in Publishing
    BY <1>4 DEF CreateFails, WriteFails, Publishing
  <2> QED BY <2>1, PublishFailsMaps
<1>5. CASE UNCHANGED vars
  BY <1>5, SameStored, QuietStep DEF vars, disk, process, Asked, Committed
<1>6. CASE LoadStep
  BY <1>2, <1>3, <1>6, QuarantineMaps DEF LoadStep
<1>7. CASE PublishStep
  BY <1>3, <1>4, <1>7, RenameMaps, RemoveOldMaps, PublishDoneMaps DEF PublishStep
<1> QED BY <1>2, <1>3, <1>5, <1>6, <1>7, SaveMaps, PowerFailsMaps, FileIsDamagedMaps DEF Next

LEMMA StoreBegins == Init => Store!Init
<1> SUFFICES ASSUME Init PROVE Store!Init
  OBVIOUS
<1>1. DiskTypes
  BY DiskBegins DEF DiskInv
<1>2. Recovered(Directory) \in Configs
  BY <1>1, DirectoryIsTyped, RecoveredIsAConfiguration
<1>3. task = "load" /\ answer = "none" /\ damaged = FALSE
  BY DEF Init
<1> QED BY <1>2, <1>3 DEF Store!Init

-----------------------------------------------------------------------------
(* The directory: the theorems                                              *)

\* The directory of numbered files implements one stored configuration: a save
\* takes effect as a whole at its renaming or not at all, a crash between any two
\* of its steps leaves the old or the new configuration, setting files aside,
\* migrating them and removing old ones is not seen (config/src/lib.rs).
THEOREM DirectoryImplementsStore == Spec => ImplementsStore
<1>1. DiskInv /\ DiskInv' /\ [Next]_vars => [Store!Next]_(Store!vars)
  BY StoreStep
<1> QED BY <1>1, StoreBegins, DiskInvariant, PTL DEF Spec, ImplementsStore, Store!Spec

\* The host believes that it has what is on disk, after every save that failed
\* or succeeded (configuration.rs update).
THEOREM HostHasWhatIsOnDisk == Spec => []MemoryIsOnDisk
<1>1. DiskInv => MemoryIsOnDisk
  BY DEF DiskInv, ReadyInv, IsNewest, MemoryIsOnDisk
<1> QED BY <1>1, DiskInvariant, PTL

\* The types of the directory and of the process.
THEOREM DirectoryIsAlwaysTyped == Spec => []TypeOK
<1>1. DiskInv => TypeOK
  <2> SUFFICES ASSUME DiskInv PROVE TypeOK
    OBVIOUS
  <2>1. DiskTypes /\ LeftoverInv
    BY DEF DiskInv
  <2>2. Committing \subseteq Snapshots /\ NoSnapshot \in Snapshots
    BY BoundsAssumption DEF Committing, Snapshots, NoSnapshot, Revisions
  <2> QED BY <2>1, <2>2 DEF DiskTypes, LeftoverInv, TypeOK, Publishing, Published
<1> QED BY <1>1, DiskInvariant, PTL

\* Publishing never writes over the file of a revision.
THEOREM FilesAreWrittenOnce == Spec => RevisionsAreImmutable
<1>1. DiskInv /\ [Next]_vars =>
        [\A r \in Revisions :
           ~damaged' /\ Directory[r] \in Configs /\ Directory'[r] \in Configs
             => Directory'[r] = Directory[r]]_vars
  <2> SUFFICES ASSUME DiskInv, [Next]_vars, NEW r \in Revisions,
                      ~damaged', Directory[r] \in Configs, Directory'[r] \in Configs
               PROVE  Directory'[r] = Directory[r]
    OBVIOUS
  <2>1. DiskTypes /\ Directory \in Directories /\ PublishingInv
    BY DirectoryIsTyped DEF DiskInv
  <2>2. CASE dirs' = dirs
    BY <2>2 DEF Directory
  <2>3. CASE Quarantine
    <3>1. /\ Changed([Directory EXCEPT ![Newest] = "absent"])
          /\ Newest \in Revisions
      BY <2>3, NewestIsPresent DEF Quarantine
    <3>2. [Directory EXCEPT ![Newest] = "absent"] \in Directories
      BY <2>1, <3>1 DEF Directories, Contents
    <3>3. Directory' = [Directory EXCEPT ![Newest] = "absent"]
      BY <2>1, <3>1, <3>2, DirectoryChanges
    <3>4. CASE r = Newest
      BY <3>1, <3>3, <3>4, <2>1, ConfigsAssumption DEF Directories
    <3>5. CASE r # Newest
      BY <3>1, <3>3, <3>5, <2>1 DEF Directories
    <3> QED BY <3>4, <3>5
  <2>4. CASE Rename
    <3>1. /\ Changed([Directory EXCEPT ![writing.revision] = writing.config])
          /\ writing.revision \in Revisions /\ writing.config \in Configs
          /\ \A q \in Present(Directory) : q < writing.revision
      BY <2>1, <2>4, CommittingIsASnapshot DEF Rename, PublishingInv, Publishing
    <3>2. [Directory EXCEPT ![writing.revision] = writing.config] \in Directories
      BY <2>1, <3>1 DEF Directories, Contents
    <3>3. Directory' = [Directory EXCEPT ![writing.revision] = writing.config]
      BY <2>1, <3>1, <3>2, DirectoryChanges
    <3>4. r \in Present(Directory)
      BY ConfigsAssumption DEF Present
    <3>5. r # writing.revision
      BY <3>1, <3>4, BoundsAssumption DEF Revisions
    <3> QED BY <3>1, <3>3, <3>5, <2>1 DEF Directories
  <2>5. CASE SyncDirectory
    <3>1. CASE dirs' = <<Directory>>
      <4>1. Len(dirs') = 1 /\ dirs'[1] = Directory
        BY <3>1
      <4> QED BY <4>1 DEF Directory
    <3> QED BY <3>1, <2>2, <2>5 DEF SyncDirectory
  <2>6. CASE RemoveOld
    <3> DEFINE q == Max(Excess(Directory))
    <3>1. /\ Changed([Directory EXCEPT ![q] = "absent"])
          /\ q \in Revisions
      BY <2>1, <2>6, ExcessIsOld DEF RemoveOld, Present
    <3> HIDE DEF q
    <3>2. [Directory EXCEPT ![q] = "absent"] \in Directories
      BY <2>1, <3>1 DEF Directories, Contents
    <3>3. Directory' = [Directory EXCEPT ![q] = "absent"]
      BY <2>1, <3>1, <3>2, DirectoryChanges
    <3>4. CASE r = q
      BY <3>1, <3>3, <3>4, <2>1, ConfigsAssumption DEF Directories
    <3>5. CASE r # q
      BY <3>1, <3>3, <3>5, <2>1 DEF Directories
    <3> QED BY <3>4, <3>5
  <2>7. CASE PowerFails
    <3>1. PICK i \in 1..Len(dirs) : dirs' = <<dirs[i]>> /\ damaged' = (damaged \/ i < Len(dirs))
      BY <2>7 DEF PowerFails
    <3>2. ~(i < Len(dirs))
      BY <3>1, <2>1
    <3>3. Len(dirs) \in Nat /\ i \in Nat /\ i <= Len(dirs)
      BY <3>1, <2>1 DEF DiskTypes
    <3>4. i = Len(dirs)
      BY <3>2, <3>3
    <3>5. Len(dirs') = 1 /\ dirs'[1] = dirs[i]
      BY <3>1
    <3> QED BY <3>4, <3>5 DEF Directory
  <2>8. CASE FileIsDamaged
    BY <2>8 DEF FileIsDamaged
  <2> QED BY <2>2, <2>3, <2>4, <2>5, <2>6, <2>7, <2>8 DEF Next, LoadStep, PublishStep, Launch,
         LoadCurrent, LoadMigrates, LoadRefusesMigration, QuarantineFails, LoadDefault, LoadFails,
         CreateTemporary, CreateFails, WriteTemporary, WriteFails, PublishFails, PublishDone, Save,
         ProcessDies, vars, disk
<1> QED BY <1>1, DiskInvariant, PTL DEF Spec, RevisionsAreImmutable

\* What an earlier process has left behind makes no save fail.
THEOREM RefusalsHaveAReason == Spec => RefusedForAReason
<1>1. DiskInv /\ [Next]_vars =>
        [answer # "refused" /\ answer' = "refused" =>
           faults' > faults \/ writing.revision \in leftover]_vars
  <2> SUFFICES ASSUME DiskInv, [Next]_vars, answer # "refused", answer' = "refused"
               PROVE  faults' > faults \/ writing.revision \in leftover
    OBVIOUS
  <2>1. DiskTypes /\ LeftoverInv /\ faults \in Nat
    BY BoundsAssumption DEF DiskInv, DiskTypes
  <2>2. CreateFails \/ WriteFails
    BY DEF Next, LoadStep, PublishStep, Launch, LoadCurrent, LoadMigrates, LoadRefusesMigration,
       Quarantine, QuarantineFails, LoadDefault, LoadFails, Gone, CreateTemporary, WriteTemporary,
       Rename, SyncDirectory, RemoveOld, PublishDone, Save, ProcessDies, PowerFails, FileIsDamaged,
       vars, process
  <2>3. CASE CreateFails
    <3>1. pc = "creating" /\ (writing.revision \in temps \/ faults' = faults + 1)
      BY <2>3 DEF CreateFails, Fault
    <3> QED BY <3>1, <2>1 DEF LeftoverInv
  <2>4. CASE WriteFails
    BY <2>1, <2>4 DEF WriteFails, Fault
  <2> QED BY <2>2, <2>3, <2>4
<1> QED BY <1>1, DiskInvariant, PTL DEF Spec, RefusedForAReason
=============================================================================
