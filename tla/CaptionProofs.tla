--------------------------- MODULE CaptionProofs ----------------------------
(***************************************************************************)
(* Proofs about captions: how they are presented (CaptionPresentation),    *)
(* then how they are translated (TranslationScheduler).                    *)
(***************************************************************************)
EXTENDS CaptionPresentation, TranslationScheduler, SequenceTheorems, FiniteSetTheorems, WellFoundedInduction, TLAPS

-----------------------------------------------------------------------------
(***************************************************************************)
(* Theorems about CaptionPresentation, for any number of sessions, frames  *)
(* and snapshots: a caption does not come back after the clear that ended  *)
(* its session, on any occasion (ClearedForGood); and unless a session is  *)
(* overtaken, what the host has accepted and what the overlay shows agree  *)
(* once everything has settled, and a caption is of the live session       *)
(* (HostAndOverlayAgree).                                                  *)
(***************************************************************************)

-----------------------------------------------------------------------------
(* What holds on every occasion                                            *)

SnapshotType == [session : Sessions, phase : Phases]
StartType == [at : {"none", "begin", "preparing", "checked", "placed", "emitted", "done"}, revision : Nat]
MonitorType == [at : {"polling", "saw", "cleared", "emitted", "done"}, frame : FrameType]
MainType ==
  [at : {"idle", "lock", "stop", "stopEmit", "stopHide", "update", "updateEmit", "restore", "restoreShow"},
   frame : FrameType, previous : FrameType]

CaptionTypes ==
  /\ occasion \in Occasion
  /\ snapshots \in Seq(SnapshotType)
  /\ owned \in BOOLEAN /\ cleaned \subseteq Sessions
  /\ starting \in [Sessions -> StartType]
  /\ monitor \in [Sessions -> MonitorType]
  /\ main \in MainType
  /\ {current, frame, pending, sending} \subseteq FrameType
  /\ inbox \in Seq(FrameType)
  /\ lost \in BOOLEAN /\ seen \in 0..Revision /\ counter \in Nat

\* Sessions follow one another, and one that is no longer live stays so.
History(h) ==
  \A q \in 1..Len(h) : \A r \in 1..q :
    /\ h[r].session <= h[q].session
    /\ h[r].session = h[q].session /\ h[q].phase = "live" => h[r].phase = "live"

Live(h, r) == h[r].phase = "live"

\* A frame carries the revision of a snapshot of its session, a caption that
\* of a live one.
Sound(h, f) ==
  f = NoFrame \/ /\ f.runtime \in 1..Len(h)
                 /\ h[f.runtime].session = f.session
                 /\ f.content = "caption" => Live(h, f.runtime)

Ending(h, f, s) ==
  /\ f.runtime \in 1..Len(h)
  /\ h[f.runtime].session = s
  /\ f.session = s /\ f.content = "cleared" /\ ~Live(h, f.runtime)

\* What the overlay is still to receive, of what has been emitted.
OnTheWay == {inbox[i] : i \in 1..Len(inbox)}

FramesInv ==
  /\ \A f \in {current, frame, pending, sending, main.frame, main.previous} \cup OnTheWay :
       Sound(snapshots, f)
  /\ \A f \in {pending, sending} : f = NoFrame \/ f.content = "caption"
  /\ main.at \in {"update", "updateEmit"} => main.frame.content = "caption"
  /\ main.at \in {"stop", "stopEmit", "stopHide"} =>
       Ending(snapshots, main.frame, main.frame.session)
  /\ \A s \in Sessions :
       /\ monitor[s].at \in {"saw", "cleared", "emitted"} => Ending(snapshots, monitor[s].frame, s)
       /\ starting[s].at = "begin" =>
            /\ starting[s].revision \in 1..Revision
            /\ snapshots[starting[s].revision] = [session |-> s, phase |-> "live"]

\* The supervisor has an active session only once one has been published.
OwnedInv == owned => Snapshot.phase # "over"

CaptionInv == CaptionTypes /\ History(snapshots) /\ OwnedInv /\ FramesInv

-----------------------------------------------------------------------------
(* Frames and histories                                                    *)

LEMMA FramesAreTyped ==
  /\ NoFrame \in FrameType
  /\ \A s \in 0..MaxSession, r \in Nat, p \in Nat, c \in {"cleared", "caption"} :
       Frame(s, r, p, c) \in FrameType
BY CaptionBounds DEF NoFrame, Frame, FrameType

LEMMA FieldsOfAFrame ==
  ASSUME NEW s, NEW r, NEW p, NEW c
  PROVE  /\ Frame(s, r, p, c).session = s /\ Frame(s, r, p, c).runtime = r
         /\ Frame(s, r, p, c).presentation = p /\ Frame(s, r, p, c).content = c
BY DEF Frame

\* What is sound, and what ends a session, stays so as the history grows.
LEMMA HistoryGrows ==
  ASSUME NEW h, h \in Seq(SnapshotType), History(h),
         NEW x \in SnapshotType,
         h # <<>> => /\ h[Len(h)].session <= x.session
                     /\ h[Len(h)].session = x.session /\ x.phase = "live" => h[Len(h)].phase = "live"
  PROVE  /\ Append(h, x) \in Seq(SnapshotType)
         /\ Len(h) \in Nat /\ Len(Append(h, x)) = Len(h) + 1
         /\ Append(h, x)[Len(h) + 1] = x
         /\ \A r \in 1..Len(h) : Append(h, x)[r] = h[r]
         /\ History(Append(h, x))
         /\ \A f : Sound(h, f) => Sound(Append(h, x), f)
         /\ \A f, s : Ending(h, f, s) => Ending(Append(h, x), f, s)
<1> DEFINE k == Append(h, x)
<1>1. /\ k \in Seq(SnapshotType) /\ Len(h) \in Nat /\ Len(k) = Len(h) + 1
      /\ k[Len(h) + 1] = x /\ \A r \in 1..Len(h) : k[r] = h[r]
  OBVIOUS
<1>2. h # <<>> => Len(h) \in 1..Len(h)
  BY EmptySeq
<1>3. \A r \in 1..Len(h) : h[r] \in SnapshotType
  OBVIOUS
<1> HIDE DEF k
<1>4. History(k)
  <2>1. SUFFICES ASSUME NEW q \in 1..Len(k), NEW r \in 1..q
                 PROVE  /\ k[r].session <= k[q].session
                        /\ k[r].session = k[q].session /\ k[q].phase = "live" => k[r].phase = "live"
    BY DEF History
  <2>2. CASE q \in 1..Len(h)
    BY <1>1, <2>2 DEF History
  <2>3. CASE q = Len(h) + 1 /\ r = q
    BY <1>1, <2>3 DEF SnapshotType, Sessions
  <2>4. CASE q = Len(h) + 1 /\ r # q
    <3>1. r \in 1..Len(h) /\ h # <<>>
      BY <1>1, <2>4, EmptySeq
    <3>2. h[r].session <= h[Len(h)].session
          /\ (h[r].session = h[Len(h)].session /\ h[Len(h)].phase = "live" => h[r].phase = "live")
      BY <1>2, <3>1 DEF History
    <3>3. h[r].session \in Int /\ h[Len(h)].session \in Int /\ x.session \in Int
      BY <1>2, <1>3, <3>1, CaptionBounds DEF SnapshotType, Sessions
    <3> QED BY <1>1, <2>4, <3>1, <3>2, <3>3
  <2> QED BY <1>1, <2>2, <2>3, <2>4
<1>5. \A f : Sound(h, f) => Sound(k, f)
  BY <1>1 DEF Sound, Live
<1>6. \A f, s : Ending(h, f, s) => Ending(k, f, s)
  BY <1>1 DEF Ending, Live
<1> QED BY <1>1, <1>4, <1>5, <1>6 DEF k

LEMMA EndingsAreSound ==
  ASSUME NEW h, NEW f, NEW s, Ending(h, f, s)
  PROVE  Sound(h, f)
BY DEF Ending, Sound

\* What is emitted is on its way.
LEMMA Emitted ==
  ASSUME inbox \in Seq(FrameType), NEW f \in FrameType, inbox' = Append(inbox, f)
  PROVE  inbox' \in Seq(FrameType) /\ OnTheWay' = OnTheWay \cup {f}
<1>1. /\ inbox' \in Seq(FrameType) /\ Len(inbox) \in Nat /\ Len(inbox') = Len(inbox) + 1
      /\ inbox'[Len(inbox) + 1] = f /\ \A i \in 1..Len(inbox) : inbox'[i] = inbox[i]
  OBVIOUS
<1>2. \A i : i \in 1..Len(inbox') <=> i \in 1..Len(inbox) \/ i = Len(inbox) + 1
  BY <1>1
<1> QED BY <1>1, <1>2 DEF OnTheWay

LEMMA Received ==
  ASSUME inbox \in Seq(FrameType), inbox # <<>>, inbox' = Tail(inbox)
  PROVE  /\ inbox' \in Seq(FrameType) /\ Head(inbox) \in OnTheWay
         /\ OnTheWay = OnTheWay' \cup {Head(inbox)}
<1>1. /\ inbox' \in Seq(FrameType) /\ Len(inbox) \in Nat \ {0} /\ Len(inbox') = Len(inbox) - 1
      /\ Head(inbox) = inbox[1] /\ \A i \in 1..Len(inbox') : inbox'[i] = inbox[i + 1]
  BY EmptySeq
<1>2. \A i : i \in 1..Len(inbox) <=> i = 1 \/ (i - 1 \in 1..Len(inbox') /\ i \in Int)
  BY <1>1
<1>3. OnTheWay' \subseteq OnTheWay
  BY <1>1 DEF OnTheWay
<1>4. ASSUME NEW g \in OnTheWay
      PROVE  g = Head(inbox) \/ g \in OnTheWay'
  <2>1. PICK i \in 1..Len(inbox) : g = inbox[i]
    BY DEF OnTheWay
  <2>2. CASE i = 1
    BY <1>1, <2>1, <2>2
  <2>3. CASE i # 1
    <3>1. i - 1 \in 1..Len(inbox') /\ inbox'[i - 1] = inbox[(i - 1) + 1]
      BY <1>1, <2>3
    <3> QED BY <2>1, <3>1 DEF OnTheWay
  <2> QED BY <2>2, <2>3
<1>5. Head(inbox) \in OnTheWay
  BY <1>1 DEF OnTheWay
<1> QED BY <1>1, <1>3, <1>4, <1>5

-----------------------------------------------------------------------------
(* The steps of every occasion                                             *)

LEMMA LastSnapshot ==
  ASSUME CaptionTypes
  PROVE  /\ Revision \in Nat /\ (Revision = 0 <=> snapshots = <<>>)
         /\ Revision # 0 => Snapshot = snapshots[Revision] /\ Snapshot \in SnapshotType
         /\ Revision = 0 => Snapshot = NoSnapshot
         /\ Snapshot.session \in 0..MaxSession
<1>1. snapshots \in Seq(SnapshotType) /\ Revision \in Nat
  BY DEF CaptionTypes, Revision
<1>2. Revision = 0 <=> snapshots = <<>>
  BY <1>1, EmptySeq DEF Revision
<1>3. Revision # 0 => Snapshot = snapshots[Revision] /\ Snapshot \in SnapshotType
  BY <1>1 DEF Snapshot, SnapshotAt, Revision
<1>4. Revision = 0 => Snapshot = NoSnapshot
  BY DEF Snapshot, SnapshotAt
<1>5. Snapshot.session \in 0..MaxSession
  BY <1>1, <1>3, <1>4, CaptionBounds DEF NoSnapshot, SnapshotType, Sessions
<1> QED BY <1>1, <1>2, <1>3, <1>4, <1>5

LEMMA PublishGrows ==
  ASSUME CaptionInv, NEW s \in Sessions, NEW phase \in Phases, Publishes(s, phase),
         Snapshot.session <= s, s = Snapshot.session /\ phase = "live" => Snapshot.phase = "live"
  PROVE  /\ snapshots' \in Seq(SnapshotType) /\ Revision \in Nat /\ Revision' = Revision + 1
         /\ snapshots'[Revision + 1] = [session |-> s, phase |-> phase]
         /\ \A r \in 1..Revision : snapshots'[r] = snapshots[r]
         /\ History(snapshots')
         /\ \A f : Sound(snapshots, f) => Sound(snapshots', f)
         /\ \A f, t : Ending(snapshots, f, t) => Ending(snapshots', f, t)
<1>1. snapshots \in Seq(SnapshotType) /\ History(snapshots) /\ CaptionTypes
  BY DEF CaptionInv, CaptionTypes
<1>2. [session |-> s, phase |-> phase] \in SnapshotType
  BY DEF SnapshotType
<1>3. snapshots # <<>> => Snapshot = snapshots[Len(snapshots)]
  BY <1>1, LastSnapshot DEF Revision
<1> DEFINE x == [session |-> s, phase |-> phase]
<1>4. x.session = s /\ x.phase = phase /\ x \in SnapshotType
  BY <1>2
<1>5. snapshots' = Append(snapshots, x)
  BY DEF Publishes
<1> HIDE DEF x
<1>6. snapshots # <<>> =>
        /\ snapshots[Len(snapshots)].session <= x.session
        /\ snapshots[Len(snapshots)].session = x.session /\ x.phase = "live"
           => snapshots[Len(snapshots)].phase = "live"
  BY <1>3, <1>4
<1>7. /\ Append(snapshots, x) \in Seq(SnapshotType)
      /\ Len(snapshots) \in Nat /\ Len(Append(snapshots, x)) = Len(snapshots) + 1
      /\ Append(snapshots, x)[Len(snapshots) + 1] = x
      /\ \A r \in 1..Len(snapshots) : Append(snapshots, x)[r] = snapshots[r]
      /\ History(Append(snapshots, x))
      /\ \A f : Sound(snapshots, f) => Sound(Append(snapshots, x), f)
      /\ \A f, t : Ending(snapshots, f, t) => Ending(Append(snapshots, x), f, t)
  BY <1>1, <1>4, <1>6, HistoryGrows
<1>8. x = [session |-> s, phase |-> phase]
  BY DEF x
<1> QED BY <1>5, <1>7, <1>8 DEF Revision

\* What was sound stays so, whatever is published.
FramesStay ==
  /\ \A f : Sound(snapshots, f) => Sound(snapshots', f)
  /\ \A f, t : Ending(snapshots, f, t) => Ending(snapshots', f, t)
  /\ \A r \in 1..Revision : r \in 1..Revision' /\ snapshots'[r] = snapshots[r]

LEMMA PublishedStay ==
  ASSUME CaptionInv, NEW s \in Sessions, NEW phase \in Phases, Publishes(s, phase),
         Snapshot.session <= s, s = Snapshot.session /\ phase = "live" => Snapshot.phase = "live"
  PROVE  FramesStay /\ seen \in 0..Revision'
<1>1. /\ Revision \in Nat /\ Revision' = Revision + 1
      /\ \A r \in 1..Revision : snapshots'[r] = snapshots[r]
      /\ \A f : Sound(snapshots, f) => Sound(snapshots', f)
      /\ \A f, t : Ending(snapshots, f, t) => Ending(snapshots', f, t)
  BY PublishGrows
<1>2. seen \in 0..Revision
  BY DEF CaptionInv, CaptionTypes
<1> QED BY <1>1, <1>2 DEF FramesStay

LEMMA PublishedLast ==
  ASSUME CaptionInv, NEW s \in Sessions, NEW phase \in Phases, Publishes(s, phase),
         Snapshot.session <= s, s = Snapshot.session /\ phase = "live" => Snapshot.phase = "live"
  PROVE  Snapshot' = [session |-> s, phase |-> phase]
<1>1. /\ Revision \in Nat /\ Revision' = Revision + 1
      /\ snapshots'[Revision + 1] = [session |-> s, phase |-> phase]
  BY PublishGrows
<1> QED BY <1>1 DEF Snapshot, SnapshotAt

LEMMA UnpublishedStay ==
  ASSUME CaptionTypes, UNCHANGED snapshots
  PROVE  FramesStay /\ Revision' = Revision
BY DEF FramesStay, Revision

LEMMA StartSessionKeeps ==
  ASSUME CaptionInv, BeginSession
  PROVE  CaptionInv'
<1> DEFINE s == Snapshot.session + 1
<1>1. /\ Snapshot.session \in 0..MaxSession /\ CaptionTypes /\ FramesInv
      /\ MaxSession \in Nat
  BY LastSnapshot, CaptionBounds DEF CaptionInv
<1>2. occasion.sessions \in 0..MaxSession
  BY <1>1 DEF CaptionTypes, Occasion
<1>3. /\ s \in Sessions /\ Snapshot.session <= s /\ s # Snapshot.session
      /\ "live" \in Phases
  BY <1>1, <1>2 DEF BeginSession, Sessions, Phases
<1>4. /\ Publishes(s, "live") /\ owned' = TRUE
      /\ starting' = [starting EXCEPT ![s] = [at |-> "begin", revision |-> Revision + 1]]
      /\ UNCHANGED <<occasion, cleaned, monitor, main, current, inbox, lost, frame, window, appearance,
                     seen, counter, pending, sending>>
  BY DEF BeginSession, overlayVars, eventVars, webVars
<1> HIDE DEF s
<1>5. /\ snapshots' \in Seq(SnapshotType) /\ Revision \in Nat /\ Revision' = Revision + 1
      /\ snapshots'[Revision + 1] = [session |-> s, phase |-> "live"]
      /\ History(snapshots')
  BY <1>1, <1>3, <1>4, PublishGrows
<1>6. FramesStay /\ seen \in 0..Revision'
  BY <1>1, <1>3, <1>4, PublishedStay
<1>7. starting' \in [Sessions -> StartType]
  <2>1. [at |-> "begin", revision |-> Revision + 1] \in StartType
    BY <1>5 DEF StartType
  <2> QED BY <1>1, <1>4, <2>1 DEF CaptionTypes
<1>8. CaptionTypes'
  BY <1>1, <1>4, <1>5, <1>6, <1>7 DEF CaptionTypes
<1>9. OnTheWay' = OnTheWay
  BY <1>4 DEF OnTheWay
<1>10. ASSUME NEW t \in Sessions, starting'[t].at = "begin"
       PROVE  /\ starting'[t].revision \in 1..Revision'
              /\ snapshots'[starting'[t].revision] = [session |-> t, phase |-> "live"]
  <2>1. CASE t = s
    BY <2>1, <1>1, <1>3, <1>4, <1>5 DEF CaptionTypes
  <2>2. CASE t # s
    <3>1. starting'[t] = starting[t]
      BY <2>2, <1>1, <1>4 DEF CaptionTypes
    <3> QED BY <3>1, <1>1, <1>6, <1>10 DEF FramesInv, FramesStay
  <2> QED BY <2>1, <2>2
<1>11. FramesInv'
  BY <1>1, <1>4, <1>6, <1>9, <1>10 DEF FramesInv, FramesStay
<1>12. OwnedInv'
  <2>1. Snapshot' = [session |-> s, phase |-> "live"]
    BY <1>1, <1>3, <1>4, PublishedLast
  <2> QED BY <2>1 DEF OwnedInv
<1> QED BY <1>5, <1>8, <1>11, <1>12 DEF CaptionInv

\* A snapshot of the session, and nothing else but owned or the main thread.
LEMMA SnapshotKeeps ==
  ASSUME CaptionInv, Revision # 0, NEW phase \in Phases, Publishes(Snapshot.session, phase),
         phase = "live" => Snapshot.phase = "live",
         owned' \in BOOLEAN, owned' => phase # "over", main' \in MainType,
         main' = main \/ (/\ main'.at = "stop" /\ main'.previous = NoFrame
                          /\ Ending(snapshots', main'.frame, main'.frame.session)),
         UNCHANGED <<occasion, cleaned, starting, monitor, current, overlayVars, webVars>>
  PROVE  CaptionInv'
<1>1. Snapshot \in SnapshotType /\ CaptionTypes /\ FramesInv
  BY LastSnapshot DEF CaptionInv
<1>2. Snapshot.session \in Sessions /\ Snapshot.session <= Snapshot.session
  BY <1>1, CaptionBounds DEF SnapshotType, Sessions
<1>3. /\ snapshots' \in Seq(SnapshotType)
      /\ History(snapshots')
  BY <1>1, <1>2, PublishGrows
<1>4. FramesStay /\ seen \in 0..Revision'
  BY <1>1, <1>2, PublishedStay
<1>5. UNCHANGED <<occasion, cleaned, starting, monitor, current, inbox, lost, frame, window, appearance,
                  seen, counter, pending, sending>>
  BY DEF overlayVars, eventVars, webVars
<1>6. CaptionTypes'
  BY <1>1, <1>3, <1>4, <1>5 DEF CaptionTypes
<1>7. OnTheWay' = OnTheWay
  BY <1>5 DEF OnTheWay
<1>8. /\ Sound(snapshots', main'.frame) /\ Sound(snapshots', main'.previous)
      /\ main'.at \in {"update", "updateEmit"} => main'.frame.content = "caption"
      /\ main'.at \in {"stop", "stopEmit", "stopHide"} => Ending(snapshots', main'.frame, main'.frame.session)
  <2>1. CASE main' = main
    BY <2>1, <1>1, <1>4 DEF FramesInv, FramesStay
  <2>2. CASE main' # main
    <3>1. Sound(snapshots', NoFrame)
      BY DEF Sound
    <3> QED BY <2>2, <3>1, EndingsAreSound
  <2> QED BY <2>1, <2>2
<1>9. \A t \in Sessions :
        /\ monitor'[t].at \in {"saw", "cleared", "emitted"} => Ending(snapshots', monitor'[t].frame, t)
        /\ starting'[t].at = "begin" =>
             /\ starting'[t].revision \in 1..Revision'
             /\ snapshots'[starting'[t].revision] = [session |-> t, phase |-> "live"]
  BY <1>1, <1>4, <1>5 DEF FramesInv, FramesStay
<1>10. \A f \in {current', frame', pending', sending'} \cup OnTheWay' : Sound(snapshots', f)
  BY <1>1, <1>4, <1>5, <1>7 DEF FramesInv, FramesStay
<1>11. FramesInv'
  BY <1>1, <1>5, <1>8, <1>9, <1>10 DEF FramesInv
<1>12. OwnedInv'
  <2>1. Snapshot' = [session |-> Snapshot.session, phase |-> phase]
    BY <1>1, <1>2, PublishedLast
  <2> QED BY <2>1 DEF OwnedInv
<1> QED BY <1>3, <1>6, <1>11, <1>12 DEF CaptionInv

LEMMA SupervisorStepsKeep ==
  ASSUME CaptionInv, Progress \/ SessionFails \/ SessionReleased
  PROVE  CaptionInv'
<1>1. CaptionTypes /\ "live" \in Phases /\ "failed" \in Phases /\ "over" \in Phases /\ main \in MainType
  BY DEF CaptionInv, CaptionTypes, Phases
<1>2. Snapshot.phase # "over" => Revision # 0
  BY <1>1, LastSnapshot DEF NoSnapshot
<1>3. CASE Progress
  <2>1. owned' \in BOOLEAN /\ main' = main
    BY <1>1, <1>3 DEF Progress, CaptionTypes
  <2> QED BY <1>1, <1>2, <1>3, <2>1, SnapshotKeeps DEF Progress
<1>4. CASE SessionFails
  <2>1. owned' \in BOOLEAN /\ main' = main
    BY <1>1, <1>4 DEF SessionFails, CaptionTypes
  <2> QED BY <1>1, <1>2, <1>4, <2>1, SnapshotKeeps DEF SessionFails
<1>5. CASE SessionReleased
  <2>1. /\ owned' = FALSE
        /\ UNCHANGED <<occasion, cleaned, starting, monitor, main, current, overlayVars, webVars>>
        /\ Revision # 0
    BY <1>2, <1>5 DEF SessionReleased
  <2>2. CASE Publishes(Snapshot.session, "over")
    BY <1>1, <1>2, <2>1, <2>2, SnapshotKeeps
  <2>3. CASE UNCHANGED snapshots
    <3>1. UNCHANGED <<occasion, cleaned, starting, monitor, main, current, inbox, lost, frame, seen,
                      counter, pending, sending, snapshots>>
      BY <2>1, <2>3 DEF overlayVars, eventVars, webVars
    <3>2. CaptionTypes'
      BY <1>1, <2>1, <3>1 DEF CaptionTypes, Revision
    <3>3. FramesInv'
      BY <3>1 DEF CaptionInv, FramesInv, OnTheWay, Revision
    <3> QED BY <2>1, <3>1, <3>2, <3>3 DEF CaptionInv, OwnedInv
  <2> QED BY <1>5, <2>2, <2>3 DEF SessionReleased
<1> QED BY <1>3, <1>4, <1>5

LEMMA StopRequestsKeeps ==
  ASSUME CaptionInv, StopRequests, owned
  PROVE  CaptionInv'
<1> DEFINE s == Snapshot.session
           r == IF Snapshot.phase = "stopping" THEN Revision ELSE Revision + 1
<1>1. /\ CaptionTypes /\ FramesInv /\ owned
      /\ Snapshot.phase # "over" /\ "stopping" \in Phases
      /\ UNCHANGED <<occasion, owned, cleaned, starting, monitor, current, overlayVars, webVars>>
      /\ main' = [at |-> "stop", frame |-> Frame(s, r, 0, "cleared"), previous |-> NoFrame]
  BY DEF CaptionInv, OwnedInv, StopRequests, MainGoes, Phases
<1>2. Revision # 0 /\ Revision \in Nat
  BY <1>1, LastSnapshot DEF NoSnapshot
<1>3. Snapshot = snapshots[Revision] /\ Snapshot \in SnapshotType /\ s \in Sessions /\ s <= s
      /\ s \in 0..MaxSession
  BY <1>1, <1>2, LastSnapshot, CaptionBounds DEF SnapshotType, Sessions
<1>4. /\ main' \in MainType /\ main'.at = "stop" /\ main'.previous = NoFrame
      /\ main'.frame.runtime = r /\ main'.frame.session = s /\ main'.frame.content = "cleared"
  <2>1. Frame(s, r, 0, "cleared") \in FrameType /\ NoFrame \in FrameType
    BY <1>2, <1>3, FramesAreTyped
  <2> QED BY <1>1, <2>1, FieldsOfAFrame DEF MainType
<1>5. CASE Snapshot.phase = "stopping"
  <2>1. /\ UNCHANGED <<occasion, owned, cleaned, starting, monitor, current, inbox, lost, frame, seen,
                       counter, pending, sending, snapshots>>
    BY <1>1, <1>5 DEF StopRequests, overlayVars, eventVars, webVars
  <2>2. Ending(snapshots, main'.frame, main'.frame.session)
    BY <1>2, <1>3, <1>4, <1>5 DEF Ending, Live, Revision
  <2>3. Sound(snapshots, main'.frame) /\ Sound(snapshots, main'.previous)
    BY <1>4, <2>2, EndingsAreSound DEF Sound
  <2>4. CaptionTypes'
    BY <1>1, <1>4, <2>1 DEF CaptionTypes, Revision
  <2>5. FramesInv'
    BY <1>1, <1>4, <2>1, <2>2, <2>3 DEF FramesInv, OnTheWay, Revision
  <2> QED BY <2>1, <2>4, <2>5 DEF CaptionInv, OwnedInv, Snapshot, SnapshotAt, Revision
<1>6. CASE Snapshot.phase # "stopping"
  <2>1. Publishes(s, "stopping")
    BY <1>6 DEF StopRequests
  <2>2. /\ Revision' = Revision + 1
        /\ snapshots'[Revision + 1] = [session |-> s, phase |-> "stopping"]
    BY <1>1, <1>3, <2>1, PublishGrows
  <2>3. Ending(snapshots', main'.frame, main'.frame.session)
    BY <1>2, <1>4, <1>6, <2>2 DEF Ending, Live, Revision
  <2> QED BY <1>1, <1>2, <1>4, <2>1, <2>3, SnapshotKeeps
<1> QED BY <1>5, <1>6

\* Steps that publish nothing: the types, and the frames.
LEMMA SilentKeeps ==
  ASSUME CaptionInv, UNCHANGED snapshots, UNCHANGED owned, CaptionTypes', FramesInv'
  PROVE  CaptionInv'
BY DEF CaptionInv, OwnedInv, Snapshot, SnapshotAt, Revision

LEMMA ClearIsSound ==
  ASSUME CaptionInv, NEW s \in Sessions, NEW g \in FrameType, Ending(snapshots, g, s)
  PROVE  /\ ClearedFrame(s, g.runtime) \in FrameType
         /\ Ending(snapshots, ClearedFrame(s, g.runtime), s)
         /\ Sound(snapshots, ClearedFrame(s, g.runtime))
<1> DEFINE p == IF current.session = s THEN current.presentation + 1 ELSE 0
<1>1. p \in Nat /\ g.runtime \in Nat /\ s \in 0..MaxSession
  <2>1. current \in FrameType
    BY DEF CaptionInv, CaptionTypes
  <2>2. current.presentation \in Nat /\ g.runtime \in Nat
    BY <2>1 DEF FrameType
  <2>3. s \in 0..MaxSession
    BY CaptionBounds DEF Sessions
  <2> QED BY <2>2, <2>3
<1>2. ClearedFrame(s, g.runtime) = Frame(s, g.runtime, p, "cleared")
  BY DEF ClearedFrame
<1> HIDE DEF p
<1>3. ClearedFrame(s, g.runtime) \in FrameType
  BY <1>1, <1>2, FramesAreTyped
<1>4. Ending(snapshots, ClearedFrame(s, g.runtime), s)
  BY <1>2, FieldsOfAFrame DEF Ending
<1> QED BY <1>3, <1>4, EndingsAreSound

LEMMA StartStepKeeps ==
  ASSUME CaptionInv, NEW s \in Sessions, StartStep(s)
  PROVE  CaptionInv'
<1>1. CaptionTypes /\ FramesInv /\ Revision \in Nat
  BY LastSnapshot DEF CaptionInv
<1>2. starting[s] \in StartType /\ starting \in [Sessions -> StartType] /\ s \in 0..MaxSession
  BY <1>1, CaptionBounds DEF CaptionTypes, Sessions
<1>3. CASE StartBegins(s)
  <2>1. /\ starting[s].at = "begin"
        /\ current' = Frame(s, starting[s].revision, 0, "cleared")
        /\ starting' = [starting EXCEPT ![s] = [at |-> "preparing", revision |-> 0]]
        /\ UNCHANGED <<occasion, snapshots, owned, cleaned, monitor, main, inbox, lost, frame,
                       seen, counter, pending, sending>>
    BY <1>3 DEF StartBegins, overlayVars, eventVars, webVars
  <2>2. /\ starting[s].revision \in 1..Revision
        /\ snapshots[starting[s].revision] = [session |-> s, phase |-> "live"]
    BY <1>1, <2>1 DEF FramesInv
  <2>3. current' \in FrameType
    BY <1>1, <1>2, <2>1, <2>2, FramesAreTyped
  <2>4. Sound(snapshots, current')
    BY <2>1, <2>2, FieldsOfAFrame DEF Sound, Live, Revision
  <2>5. starting' \in [Sessions -> StartType]
    <3>1. [at |-> "preparing", revision |-> 0] \in StartType
      BY DEF StartType
    <3> QED BY <1>2, <2>1, <3>1
  <2>6. CaptionTypes'
    BY <1>1, <2>1, <2>3, <2>5 DEF CaptionTypes, Revision
  <2>7. \A t \in Sessions : starting'[t].at = "begin" => starting'[t] = starting[t]
    BY <1>2, <2>1
  <2>8. FramesInv'
    BY <1>1, <2>1, <2>4, <2>7 DEF FramesInv, OnTheWay, Revision
  <2> QED BY <2>1, <2>6, <2>8, SilentKeeps
<1>4. ASSUME NEW at \in {"checked", "placed", "emitted", "done"}, starting[s].at # "begin",
             starting' = [starting EXCEPT ![s].at = at],
             UNCHANGED <<occasion, snapshots, owned, cleaned, monitor, main, current, frame,
                         seen, counter, pending, sending>>,
             inbox' = inbox \/ inbox' = Append(inbox, current), lost' \in BOOLEAN
      PROVE  CaptionInv'
  <2>1. starting' \in [Sessions -> StartType]
    <3>1. [starting[s] EXCEPT !.at = at] \in StartType
      BY <1>2 DEF StartType
    <3> QED BY <1>2, <1>4, <3>1
  <2>2. inbox' \in Seq(FrameType) /\ OnTheWay' \subseteq OnTheWay \cup {current}
    <3>1. CASE inbox' = inbox
      BY <1>1, <3>1 DEF CaptionTypes, OnTheWay
    <3>2. CASE inbox' = Append(inbox, current)
      BY <1>1, <3>2, Emitted DEF CaptionTypes
    <3> QED BY <1>4, <3>1, <3>2
  <2>3. CaptionTypes'
    BY <1>1, <1>4, <2>1, <2>2 DEF CaptionTypes, Revision
  <2>4. \A t \in Sessions : starting'[t].at = "begin" => starting'[t] = starting[t]
    BY <1>2, <1>4
  <2>5. FramesInv'
    BY <1>1, <1>4, <2>2, <2>4 DEF FramesInv, Revision
  <2> QED BY <1>4, <2>3, <2>5, SilentKeeps
<1>5. CASE StartChecks(s)
  <2>1. PICK at \in {"done", "checked"} : starting' = [starting EXCEPT ![s].at = at]
    BY <1>5 DEF StartChecks
  <2>2. /\ UNCHANGED <<occasion, snapshots, owned, cleaned, monitor, main, current, frame,
                       seen, counter, pending, sending>>
        /\ inbox' = inbox /\ lost' \in BOOLEAN /\ starting[s].at # "begin"
    BY <1>1, <1>5 DEF StartChecks, overlayVars, eventVars, webVars, CaptionTypes
  <2> QED BY <2>1, <2>2, <1>4
<1>8. CASE StartPlaces(s)
  <2>1. PICK at \in {"placed", "done"} : starting' = [starting EXCEPT ![s].at = at]
    BY <1>8 DEF StartPlaces
  <2>2. /\ UNCHANGED <<occasion, snapshots, owned, cleaned, monitor, main, current, frame,
                       seen, counter, pending, sending>>
        /\ inbox' = inbox /\ lost' \in BOOLEAN /\ starting[s].at # "begin"
    BY <1>1, <1>8 DEF StartPlaces, overlayVars, eventVars, webVars, CaptionTypes
  <2> QED BY <2>1, <2>2, <1>4
<1>6. CASE StartEmits(s)
  <2>1. PICK at \in {"done", "emitted"} : starting' = [starting EXCEPT ![s].at = at]
    BY <1>6 DEF StartEmits
  <2>2. /\ UNCHANGED <<occasion, snapshots, owned, cleaned, monitor, main, current, frame,
                       seen, counter, pending, sending>>
        /\ inbox' = inbox \/ inbox' = Append(inbox, current)
        /\ lost' \in BOOLEAN /\ starting[s].at # "begin"
    BY <1>1, <1>6 DEF StartEmits, Emit, EmitFails, webVars, CaptionTypes
  <2> QED BY <2>1, <2>2, <1>4
<1>7. CASE StartShows(s)
  <2>1. /\ starting' = [starting EXCEPT ![s].at = "done"]
        /\ UNCHANGED <<occasion, snapshots, owned, cleaned, monitor, main, current, frame,
                       seen, counter, pending, sending>>
        /\ inbox' = inbox /\ lost' \in BOOLEAN /\ starting[s].at # "begin"
    BY <1>1, <1>7 DEF StartShows, eventVars, webVars, CaptionTypes
  <2> QED BY <2>1, <1>4
<1> QED BY <1>3, <1>5, <1>6, <1>7, <1>8 DEF StartStep

LEMMA MonitorStepKeeps ==
  ASSUME CaptionInv, NEW s \in Sessions, MonitorStep(s)
  PROVE  CaptionInv'
<1>1. CaptionTypes /\ FramesInv /\ Revision \in Nat
  BY LastSnapshot DEF CaptionInv
<1>2. /\ monitor[s] \in MonitorType /\ monitor \in [Sessions -> MonitorType]
      /\ monitor[s].frame \in FrameType /\ s \in 0..MaxSession
  BY <1>1, CaptionBounds DEF CaptionTypes, Sessions, MonitorType
<1>3. ASSUME NEW m \in MonitorType, monitor' = [monitor EXCEPT ![s] = m],
             m.at \in {"saw", "cleared", "emitted"} => Ending(snapshots, m.frame, s),
             UNCHANGED <<occasion, snapshots, owned, starting, main, frame,
                         seen, counter, pending, sending>>,
             inbox' = inbox \/ (inbox' = Append(inbox, monitor[s].frame) /\ Sound(snapshots, monitor[s].frame)),
             current' \in FrameType, Sound(snapshots, current'),
             cleaned' \in {cleaned, cleaned \cup {s}}, lost' \in BOOLEAN
      PROVE  CaptionInv'
  <2>1. /\ monitor' \in [Sessions -> MonitorType]
        /\ \A t \in Sessions : monitor'[t] \in {monitor[t], m} /\ (t # s => monitor'[t] = monitor[t])
    BY <1>2, <1>3
  <2>2. inbox' \in Seq(FrameType) /\ \A f \in OnTheWay' : Sound(snapshots, f)
    <3>1. CASE inbox' = inbox
      BY <1>1, <3>1 DEF CaptionTypes, OnTheWay, FramesInv
    <3>2. CASE inbox' = Append(inbox, monitor[s].frame) /\ Sound(snapshots, monitor[s].frame)
      <4>1. inbox' \in Seq(FrameType) /\ OnTheWay' = OnTheWay \cup {monitor[s].frame}
        BY <1>1, <1>2, <3>2, Emitted DEF CaptionTypes
      <4> QED BY <1>1, <3>2, <4>1 DEF FramesInv
    <3> QED BY <1>3, <3>1, <3>2
  <2>3. CaptionTypes'
    BY <1>1, <1>3, <2>1, <2>2 DEF CaptionTypes, Revision
  <2>4. \A t \in Sessions :
          monitor'[t].at \in {"saw", "cleared", "emitted"} => Ending(snapshots, monitor'[t].frame, t)
    <3>1. monitor'[s] = m
      BY <1>2, <1>3
    <3> QED BY <1>1, <1>3, <2>1, <3>1 DEF FramesInv
  <2>5. FramesInv'
    BY <1>1, <1>3, <2>2, <2>4 DEF FramesInv, Revision
  <2> QED BY <1>3, <2>3, <2>5, SilentKeeps
<1>4. current \in FrameType /\ Sound(snapshots, current) /\ lost \in BOOLEAN
  BY <1>1 DEF CaptionTypes, FramesInv
<1>5. CASE MonitorSees(s)
  <2> DEFINE f == Frame(s, Revision, 0, "cleared")
             m == [at |-> "saw", frame |-> f]
  <2>1. /\ Snapshot = [session |-> s, phase |-> "failed"]
        /\ monitor' = [monitor EXCEPT ![s] = m]
        /\ UNCHANGED <<occasion, snapshots, owned, cleaned, starting, main, current, inbox, frame,
                       seen, counter, pending, sending>>
        /\ lost' \in BOOLEAN
    BY <1>4, <1>5 DEF MonitorSees, overlayVars, eventVars, webVars
  <2>2. Revision # 0 /\ snapshots[Revision] = [session |-> s, phase |-> "failed"]
    BY <1>1, <2>1, LastSnapshot DEF NoSnapshot
  <2>3. f \in FrameType
    BY <1>1, <1>2, FramesAreTyped
  <2>4. Ending(snapshots, f, s)
    BY <1>1, <2>2, FieldsOfAFrame DEF Ending, Live, Revision
  <2>5. m \in MonitorType /\ m.frame = f
    BY <2>3 DEF MonitorType
  <2> HIDE DEF f, m
  <2> QED BY <1>3, <1>4, <2>1, <2>4, <2>5
<1>6. CASE MonitorClears(s)
  <2> DEFINE clear == ClearedFrame(s, monitor[s].frame.runtime)
             m == [at |-> "cleared", frame |-> clear]
  <2>1. /\ monitor[s].at = "saw"
        /\ current' = clear
        /\ monitor' = [monitor EXCEPT ![s] = m]
        /\ UNCHANGED <<occasion, snapshots, owned, cleaned, starting, main, inbox, frame,
                       seen, counter, pending, sending>>
        /\ lost' \in BOOLEAN
    BY <1>4, <1>6 DEF MonitorClears, overlayVars, eventVars, webVars
  <2>2. Ending(snapshots, monitor[s].frame, s)
    BY <1>1, <2>1 DEF FramesInv
  <2>3. clear \in FrameType /\ Ending(snapshots, clear, s) /\ Sound(snapshots, clear)
    BY <1>2, <2>2, ClearIsSound
  <2>4. m \in MonitorType /\ m.frame = clear
    BY <2>3 DEF MonitorType
  <2> HIDE DEF clear, m
  <2> QED BY <1>3, <1>4, <2>1, <2>3, <2>4
<1>7. CASE MonitorEmits(s)
  <2> DEFINE m == [monitor[s] EXCEPT !.at = "emitted"]
  <2>1. /\ monitor[s].at = "cleared"
        /\ monitor' = [monitor EXCEPT ![s] = m]
        /\ inbox' = inbox \/ inbox' = Append(inbox, monitor[s].frame)
        /\ lost' \in BOOLEAN
        /\ UNCHANGED <<occasion, snapshots, owned, cleaned, starting, main, current, frame,
                       seen, counter, pending, sending>>
    BY <1>2, <1>4, <1>7 DEF MonitorEmits, Emit, EmitFails, webVars
  <2>2. Ending(snapshots, monitor[s].frame, s) /\ Sound(snapshots, monitor[s].frame)
    BY <1>1, <2>1, EndingsAreSound DEF FramesInv
  <2>3. m \in MonitorType /\ m.frame = monitor[s].frame
    BY <1>2 DEF MonitorType
  <2> HIDE DEF m
  <2> QED BY <1>3, <1>4, <2>1, <2>2, <2>3
<1>8. CASE MonitorHides(s)
  <2> DEFINE m == [at |-> "done", frame |-> NoFrame]
  <2>1. /\ monitor' = [monitor EXCEPT ![s] = m]
        /\ cleaned' = cleaned \cup {s}
        /\ UNCHANGED <<occasion, snapshots, owned, starting, main, current, inbox, frame,
                       seen, counter, pending, sending>>
        /\ lost' \in BOOLEAN
    BY <1>4, <1>8 DEF MonitorHides, eventVars, webVars
  <2>2. m \in MonitorType /\ m.at = "done"
    BY FramesAreTyped DEF MonitorType
  <2> HIDE DEF m
  <2> QED BY <1>3, <1>4, <2>1, <2>2
<1> QED BY <1>5, <1>6, <1>7, <1>8 DEF MonitorStep

LEMMA MainKeeps ==
  ASSUME CaptionInv,
         UNCHANGED <<occasion, snapshots, owned, starting, monitor, frame, seen, counter, pending>>,
         main' \in MainType, Sound(snapshots, main'.frame), Sound(snapshots, main'.previous),
         main'.at \in {"update", "updateEmit"} => main'.frame.content = "caption",
         main'.at \in {"stop", "stopEmit", "stopHide"} =>
           Ending(snapshots, main'.frame, main'.frame.session),
         current' \in FrameType, Sound(snapshots, current'), sending' \in {sending, NoFrame},
         inbox' = inbox \/ inbox' = Append(inbox, main.frame) \/ inbox' = Append(inbox, current),
         cleaned' \subseteq Sessions, lost' \in BOOLEAN
  PROVE  CaptionInv'
<1>1. CaptionTypes /\ FramesInv
  BY DEF CaptionInv
<1>2. main.frame \in FrameType /\ current \in FrameType /\ NoFrame \in FrameType
  BY <1>1, FramesAreTyped DEF CaptionTypes, MainType
<1>3. inbox' \in Seq(FrameType) /\ OnTheWay' \subseteq OnTheWay \cup {main.frame, current}
  <2>1. CASE inbox' = inbox
    BY <1>1, <2>1 DEF CaptionTypes, OnTheWay
  <2>2. CASE inbox' = Append(inbox, main.frame)
    BY <1>1, <1>2, <2>2, Emitted DEF CaptionTypes
  <2>3. CASE inbox' = Append(inbox, current)
    BY <1>1, <1>2, <2>3, Emitted DEF CaptionTypes
  <2> QED BY <2>1, <2>2, <2>3
<1>4. CaptionTypes'
  BY <1>1, <1>2, <1>3 DEF CaptionTypes, Revision
<1>5. Sound(snapshots, NoFrame)
  BY DEF Sound
<1>6. FramesInv'
  BY <1>1, <1>3, <1>5 DEF FramesInv, Revision
<1> QED BY <1>4, <1>6, SilentKeeps

\* The frames of the main thread, as it goes on.
LEMMA MainWent ==
  ASSUME NEW at \in {"idle", "lock", "stop", "stopEmit", "stopHide", "update", "updateEmit", "restore",
                 "restoreShow"},
         NEW f \in FrameType, NEW g \in FrameType, MainGoes(at, f, g)
  PROVE  main' \in MainType /\ main'.at = at /\ main'.frame = f /\ main'.previous = g
BY DEF MainGoes, MainType

LEMMA MainIdles ==
  ASSUME main' = Idle
  PROVE  MainGoes("idle", NoFrame, NoFrame)
BY DEF Idle, MainGoes

\* The main thread waits for the control lock, or has nothing to stop.
LEMMA StopWaitsKeeps ==
  ASSUME CaptionInv, StopPressed \/ (StopRequests /\ ~owned)
  PROVE  CaptionInv'
<1>1. /\ CaptionTypes /\ FramesInv /\ NoFrame \in FrameType /\ Sound(snapshots, NoFrame)
      /\ current \in FrameType /\ Sound(snapshots, current)
      /\ cleaned \subseteq Sessions /\ lost \in BOOLEAN
  BY FramesAreTyped DEF CaptionInv, CaptionTypes, FramesInv, Sound
<1>2. /\ UNCHANGED <<occasion, snapshots, owned, starting, monitor, frame, seen, counter, pending>>
      /\ sending' = sending /\ cleaned' = cleaned /\ lost' = lost
      /\ current' = current /\ inbox' = inbox
      /\ MainGoes("lock", NoFrame, NoFrame) \/ MainGoes("idle", NoFrame, NoFrame)
  BY MainIdles DEF StopPressed, StopRequests, overlayVars, eventVars, webVars
<1>3. /\ main' \in MainType /\ main'.at \in {"lock", "idle"}
      /\ main'.frame = NoFrame /\ main'.previous = NoFrame
  BY <1>1, <1>2, MainWent
<1> QED BY <1>1, <1>2, <1>3, MainKeeps

LEMMA StopStepKeeps ==
  ASSUME CaptionInv, StopStep
  PROVE  CaptionInv'
<1>1. /\ CaptionTypes /\ FramesInv /\ NoFrame \in FrameType /\ Sound(snapshots, NoFrame)
      /\ main \in MainType /\ main.frame \in FrameType /\ current \in FrameType
      /\ Sound(snapshots, current) /\ Sound(snapshots, main.frame)
      /\ cleaned \subseteq Sessions /\ lost \in BOOLEAN
  BY FramesAreTyped DEF CaptionInv, CaptionTypes, FramesInv, Sound, MainType
<1>2. main.at \in {"stop", "stopEmit", "stopHide"} =>
        Ending(snapshots, main.frame, main.frame.session) /\ main.frame.session \in Sessions
  <2>1. ASSUME Ending(snapshots, main.frame, main.frame.session)
        PROVE  main.frame.session \in Sessions
    <3>1. /\ main.frame.runtime \in 1..Len(snapshots)
          /\ snapshots[main.frame.runtime].session = main.frame.session
      BY <2>1 DEF Ending
    <3>2. snapshots[main.frame.runtime] \in SnapshotType
      BY <1>1, <3>1 DEF CaptionTypes
    <3> QED BY <3>1, <3>2 DEF SnapshotType
  <2> QED BY <1>1, <2>1 DEF FramesInv
<1>3. CASE StopClears
  <2> DEFINE clear == ClearedFrame(main.frame.session, main.frame.runtime)
  <2>1. clear \in FrameType /\ Ending(snapshots, clear, main.frame.session) /\ Sound(snapshots, clear)
    BY <1>1, <1>2, <1>3, ClearIsSound DEF StopClears
  <2>2. current' = clear /\ MainGoes("stopEmit", clear, NoFrame)
    BY <1>3 DEF StopClears
  <2>3. /\ UNCHANGED <<occasion, snapshots, owned, starting, monitor, frame, seen, counter, pending>>
        /\ sending' = sending /\ inbox' = inbox /\ cleaned' \subseteq Sessions /\ lost' \in BOOLEAN
    BY <1>1, <1>3 DEF StopClears, overlayVars, eventVars, webVars
  <2> HIDE DEF clear
  <2>4. main' \in MainType /\ main'.at = "stopEmit" /\ main'.frame = clear /\ main'.previous = NoFrame
    BY <1>1, <2>1, <2>2, MainWent
  <2>5. Ending(snapshots, main'.frame, main'.frame.session)
    BY <2>1, <2>4 DEF Ending
  <2> QED BY <1>1, <2>1, <2>2, <2>3, <2>4, <2>5, MainKeeps
<1>4. CASE StopEmits
  <2>1. /\ UNCHANGED <<occasion, snapshots, owned, starting, monitor, frame, seen, counter, pending>>
        /\ sending' = sending /\ cleaned' \subseteq Sessions /\ lost' \in BOOLEAN
        /\ current' = current /\ MainGoes("stopHide", main.frame, NoFrame)
        /\ inbox' = inbox \/ inbox' = Append(inbox, main.frame)
    BY <1>1, <1>4 DEF StopEmits, Emit, EmitFails, webVars
  <2>2. main' \in MainType /\ main'.at = "stopHide" /\ main'.frame = main.frame /\ main'.previous = NoFrame
    BY <1>1, <2>1, MainWent
  <2>3. Ending(snapshots, main'.frame, main'.frame.session)
    BY <1>2, <1>4, <2>2 DEF StopEmits
  <2> QED BY <1>1, <2>1, <2>2, <2>3, MainKeeps
<1>5. CASE StopHides
  <2>1. /\ UNCHANGED <<occasion, snapshots, owned, starting, monitor, frame, seen, counter, pending>>
        /\ sending' = sending /\ cleaned' \subseteq Sessions /\ lost' \in BOOLEAN
        /\ current' = current /\ MainGoes("idle", NoFrame, NoFrame) /\ inbox' = inbox
    BY <1>1, <1>2, <1>5, MainIdles DEF StopHides, eventVars, webVars
  <2>2. main' \in MainType /\ main'.at = "idle" /\ main'.frame = NoFrame /\ main'.previous = NoFrame
    BY <1>1, <2>1, MainWent
  <2> QED BY <1>1, <2>1, <2>2, MainKeeps
<1>6. CASE StopRequests
  BY <1>6, StopRequestsKeeps, StopWaitsKeeps
<1> QED BY <1>3, <1>4, <1>5, <1>6 DEF StopStep

LEMMA UpdateStepKeeps ==
  ASSUME CaptionInv, UpdateStep
  PROVE  CaptionInv'
<1>1. /\ CaptionTypes /\ FramesInv /\ NoFrame \in FrameType /\ Sound(snapshots, NoFrame)
      /\ main \in MainType /\ main.frame \in FrameType /\ main.previous \in FrameType
      /\ current \in FrameType /\ sending \in FrameType
      /\ Sound(snapshots, current) /\ Sound(snapshots, main.frame) /\ Sound(snapshots, main.previous)
      /\ Sound(snapshots, sending) /\ (sending = NoFrame \/ sending.content = "caption")
      /\ main.at \in {"update", "updateEmit"} => main.frame.content = "caption"
      /\ cleaned \subseteq Sessions /\ lost \in BOOLEAN
  BY FramesAreTyped DEF CaptionInv, CaptionTypes, FramesInv, Sound, MainType
<1>2. ASSUME main' = Idle, current' \in {current, main.previous},
             UNCHANGED <<occasion, snapshots, owned, starting, monitor, frame, seen, counter, pending>>,
             sending' \in {sending, NoFrame}, cleaned' = cleaned, lost' \in BOOLEAN,
             inbox' = inbox \/ inbox' = Append(inbox, main.frame)
      PROVE  CaptionInv'
  <2>1. main' \in MainType /\ main'.at = "idle" /\ main'.frame = NoFrame /\ main'.previous = NoFrame
    BY <1>1, <1>2, MainIdles, MainWent
  <2> QED BY <1>1, <1>2, <2>1, MainKeeps
<1>3. CASE UpdateChecks
  <2>1. /\ UNCHANGED <<occasion, snapshots, owned, starting, monitor, frame, seen, counter, pending>>
        /\ cleaned' = cleaned /\ lost' \in BOOLEAN /\ current' = current /\ inbox' = inbox
        /\ main = Idle /\ sending # NoFrame
    BY <1>1, <1>3 DEF UpdateChecks, overlayVars, eventVars
  <2>2. CASE MainGoes("update", sending, NoFrame) /\ UNCHANGED sending
    <3>1. main' \in MainType /\ main'.at = "update" /\ main'.frame = sending /\ main'.previous = NoFrame
      BY <1>1, <2>2, MainWent
    <3> QED BY <1>1, <2>1, <2>2, <3>1, MainKeeps
  <2>3. CASE sending' = NoFrame /\ UNCHANGED main
    BY <1>1, <1>2, <2>1, <2>3
  <2> QED BY <1>3, <2>2, <2>3 DEF UpdateChecks
<1>4. CASE UpdateReplaces
  <2>1. /\ UNCHANGED <<occasion, snapshots, owned, starting, monitor, frame, seen, counter, pending>>
        /\ cleaned' = cleaned /\ lost' \in BOOLEAN /\ inbox' = inbox /\ main.at = "update"
    BY <1>1, <1>4 DEF UpdateReplaces, overlayVars, eventVars
  <2>2. CASE main' = Idle /\ sending' = NoFrame /\ UNCHANGED current
    BY <1>1, <1>2, <2>1, <2>2
  <2>3. CASE MainGoes("updateEmit", main.frame, current) /\ current' = main.frame /\ UNCHANGED sending
    <3>1. main' \in MainType /\ main'.at = "updateEmit" /\ main'.frame = main.frame /\ main'.previous = current
      BY <1>1, <2>3, MainWent
    <3> QED BY <1>1, <2>1, <2>3, <3>1, MainKeeps
  <2> QED BY <1>4, <2>2, <2>3 DEF UpdateReplaces
<1>5. CASE UpdateEmits
  <2>1. /\ UNCHANGED <<occasion, snapshots, owned, starting, monitor, frame, seen, counter, pending>>
        /\ cleaned' = cleaned /\ lost' \in BOOLEAN /\ sending' = NoFrame /\ main' = Idle
        /\ current' \in {current, main.previous}
        /\ inbox' = inbox \/ inbox' = Append(inbox, main.frame)
    BY <1>1, <1>5 DEF UpdateEmits, Emit, EmitFails
  <2> QED BY <1>2, <2>1
<1> QED BY <1>3, <1>4, <1>5 DEF UpdateStep

LEMMA AppearanceKeeps ==
  ASSUME CaptionInv, ShowAppearance \/ CloseAppearance \/ RestoreStep
  PROVE  CaptionInv'
<1>1. /\ CaptionTypes /\ FramesInv /\ NoFrame \in FrameType /\ Sound(snapshots, NoFrame)
      /\ main \in MainType /\ current \in FrameType /\ Sound(snapshots, current)
      /\ cleaned \subseteq Sessions /\ lost \in BOOLEAN
  BY FramesAreTyped DEF CaptionInv, CaptionTypes, FramesInv, Sound, MainType
<1>2. ASSUME NEW at \in {"idle", "restore", "restoreShow"}, MainGoes(at, NoFrame, NoFrame),
             UNCHANGED <<occasion, snapshots, owned, starting, monitor, frame, seen, counter, pending>>,
             current' = current, sending' = sending, cleaned' = cleaned, lost' \in BOOLEAN,
             inbox' = inbox \/ inbox' = Append(inbox, current)
      PROVE  CaptionInv'
  <2>1. main' \in MainType /\ main'.at = at /\ main'.frame = NoFrame /\ main'.previous = NoFrame
    BY <1>1, <1>2, MainWent
  <2> QED BY <1>1, <1>2, <2>1, MainKeeps
<1>3. main' = Idle => MainGoes("idle", NoFrame, NoFrame)
  BY MainIdles
<1>4. CASE ShowAppearance
  BY <1>1, <1>2, <1>3, <1>4 DEF ShowAppearance, hostVars, eventVars, webVars
<1>5. CASE CloseAppearance
  <2>1. /\ UNCHANGED <<occasion, snapshots, owned, starting, monitor, frame, seen, counter, pending>>
        /\ current' = current /\ sending' = sending /\ cleaned' = cleaned
        /\ lost' \in BOOLEAN /\ inbox' = inbox /\ main = Idle
        /\ MainGoes("restore", NoFrame, NoFrame) \/ main' = main
    BY <1>1, <1>5 DEF CloseAppearance, eventVars, webVars
  <2> QED BY <1>2, <1>3, <2>1
<1>6. CASE RestoreEmits
  <2>1. /\ UNCHANGED <<occasion, snapshots, owned, starting, monitor, frame, seen, counter, pending>>
        /\ current' = current /\ sending' = sending /\ cleaned' = cleaned /\ lost' \in BOOLEAN
        /\ inbox' = inbox \/ inbox' = Append(inbox, current)
        /\ MainGoes("restoreShow", NoFrame, NoFrame) \/ main' = Idle
    BY <1>1, <1>6 DEF RestoreEmits, Emit, EmitFails, eventVars, webVars
  <2> QED BY <1>2, <1>3, <2>1
<1>7. CASE RestoreShows
  <2>1. /\ UNCHANGED <<occasion, snapshots, owned, starting, monitor, frame, seen, counter, pending>>
        /\ current' = current /\ sending' = sending /\ cleaned' = cleaned
        /\ lost' \in BOOLEAN /\ inbox' = inbox /\ main' = Idle
    BY <1>1, <1>7 DEF RestoreShows, eventVars, webVars
  <2> QED BY <1>2, <1>3, <2>1
<1> QED BY <1>4, <1>5, <1>6, <1>7 DEF RestoreStep

LEMMA WebViewsKeep ==
  ASSUME CaptionInv, OverlayReceives \/ SeeSnapshot \/ CaptionsChange \/ Flush
  PROVE  CaptionInv'
<1>1. /\ CaptionTypes /\ FramesInv /\ NoFrame \in FrameType /\ Sound(snapshots, NoFrame)
      /\ snapshots \in Seq(SnapshotType) /\ seen \in 0..Revision /\ counter \in Nat /\ Revision \in Nat
      /\ lost \in BOOLEAN
  BY FramesAreTyped, LastSnapshot DEF CaptionInv, CaptionTypes, FramesInv, Sound
<1>2. CASE OverlayReceives
  <2>1. /\ UNCHANGED <<occasion, snapshots, owned, cleaned, starting, monitor, main, current,
                       seen, counter, pending, sending>>
        /\ inbox # <<>> /\ inbox' = Tail(inbox) /\ frame' \in {frame, Head(inbox)}
        /\ lost' \in BOOLEAN
    BY <1>1, <1>2 DEF OverlayReceives, hostVars, webVars
  <2>2. inbox' \in Seq(FrameType) /\ Head(inbox) \in OnTheWay /\ OnTheWay' \subseteq OnTheWay
    BY <1>1, <2>1, Received DEF CaptionTypes
  <2>3. Head(inbox) \in FrameType
    BY <1>1, <2>1 DEF CaptionTypes
  <2>4. CaptionTypes'
    BY <1>1, <2>1, <2>2, <2>3 DEF CaptionTypes, Revision
  <2>5. FramesInv'
    BY <1>1, <2>1, <2>2 DEF FramesInv, Revision
  <2> QED BY <2>1, <2>4, <2>5, SilentKeeps
<1>3. ASSUME UNCHANGED <<occasion, snapshots, owned, cleaned, starting, monitor, main, current, inbox, frame>>,
             lost' \in BOOLEAN, seen' \in 0..Revision, counter' \in Nat,
             {pending', sending'} \subseteq FrameType,
             \A f \in {pending', sending'} : Sound(snapshots, f) /\ (f = NoFrame \/ f.content = "caption")
      PROVE  CaptionInv'
  <2>1. CaptionTypes'
    BY <1>1, <1>3 DEF CaptionTypes, Revision
  <2>2. OnTheWay' = OnTheWay
    BY <1>3 DEF OnTheWay
  <2>3. FramesInv'
    BY <1>1, <1>3, <2>2 DEF FramesInv, Revision
  <2> QED BY <1>3, <2>1, <2>3, SilentKeeps
<1>4. /\ {pending, sending} \subseteq FrameType
      /\ \A f \in {pending, sending} : Sound(snapshots, f) /\ (f = NoFrame \/ f.content = "caption")
  BY <1>1 DEF CaptionTypes, FramesInv
<1>5. ASSUME NEW r \in 1..Revision, NEW p \in Nat, snapshots[r].phase = "live",
             Publish(snapshots[r].session, r, p)
      PROVE  /\ counter' \in Nat /\ pending' \in FrameType /\ Sound(snapshots, pending')
             /\ pending'.content = "caption"
  <2>1. snapshots[r] \in SnapshotType
    BY <1>1 DEF Revision
  <2>2. snapshots[r].session \in 0..MaxSession
    BY <2>1, CaptionBounds DEF SnapshotType, Sessions
  <2>3. pending' = Frame(snapshots[r].session, r, p, "caption") /\ counter' = p
    BY <1>5 DEF Publish
  <2>4. pending' \in FrameType
    BY <1>1, <2>2, <2>3, FramesAreTyped
  <2>5. Sound(snapshots, pending')
    BY <1>5, <2>3, FieldsOfAFrame DEF Sound, Live, Revision
  <2> QED BY <2>3, <2>4, <2>5, FieldsOfAFrame
<1>6. CASE SeeSnapshot
  <2>1. PICK r \in (seen + 1)..Revision :
          LET next == snapshots[r]
              p == IF next.session = Epoch.session /\ Epoch.phase = "live" THEN counter + 1 ELSE 1
          IN /\ seen' = r
             /\ IF next.phase = "live" THEN Publish(next.session, r, p) ELSE UNCHANGED <<counter, pending>>
             /\ UNCHANGED <<occasion, hostVars, overlayVars, sending>>
    BY <1>6 DEF SeeSnapshot
  <2>2. r \in 1..Revision /\ seen' \in 0..Revision
    BY <1>1, <2>1
  <2>3. /\ UNCHANGED <<occasion, snapshots, owned, cleaned, starting, monitor, main, current, inbox, frame, sending>>
        /\ lost' \in BOOLEAN
    BY <1>1, <2>1 DEF hostVars, overlayVars, eventVars
  <2>4. CASE snapshots[r].phase = "live"
    <3>1. PICK p \in Nat : Publish(snapshots[r].session, r, p)
      BY <1>1, <2>1, <2>4
    <3> QED BY <1>3, <1>4, <1>5, <2>2, <2>3, <2>4, <3>1
  <2>5. CASE snapshots[r].phase # "live"
    BY <1>1, <1>3, <1>4, <2>1, <2>2, <2>3, <2>5
  <2> QED BY <2>4, <2>5
<1>7. CASE CaptionsChange
  <2>1. /\ UNCHANGED <<occasion, snapshots, owned, cleaned, starting, monitor, main, current, inbox, frame, sending>>
        /\ lost' \in BOOLEAN /\ seen' \in 0..Revision /\ counter + 1 \in Nat
    BY <1>1, <1>7 DEF CaptionsChange, hostVars, overlayVars, eventVars
  <2>2. seen \in 1..Revision /\ Epoch = snapshots[seen] /\ Epoch.phase = "live"
    BY <1>1, <1>7 DEF CaptionsChange, Epoch, SnapshotAt, NoSnapshot
  <2>3. Publish(snapshots[seen].session, seen, counter + 1)
    BY <1>7, <2>2 DEF CaptionsChange
  <2> QED BY <1>3, <1>4, <1>5, <2>1, <2>2, <2>3
<1>8. CASE Flush
  <2>1. /\ UNCHANGED <<occasion, snapshots, owned, cleaned, starting, monitor, main, current, inbox, frame>>
        /\ lost' \in BOOLEAN /\ seen' \in 0..Revision /\ counter' \in Nat
        /\ sending' = pending /\ pending' = NoFrame
    BY <1>1, <1>8 DEF Flush, hostVars, overlayVars, eventVars
  <2> QED BY <1>1, <1>3, <1>4, <2>1
<1> QED BY <1>2, <1>6, <1>7, <1>8

LEMMA CaptionInit ==
  ASSUME CaptionsInit
  PROVE  CaptionInv
<1>1. NoFrame \in FrameType /\ Sound(snapshots, NoFrame)
  BY FramesAreTyped DEF Sound
<1>2. /\ snapshots = <<>> /\ Len(snapshots) = 0 /\ Revision = 0
  BY DEF CaptionsInit, Revision
<1>3. /\ starting \in [Sessions -> StartType] /\ monitor \in [Sessions -> MonitorType]
      /\ main \in MainType
  BY <1>1 DEF CaptionsInit, StartType, MonitorType, MainType, Idle
<1>4. CaptionTypes
  <2>1. occasion \in Occasion
    BY CaptionBounds DEF CaptionsInit
  <2>2. owned \in BOOLEAN /\ lost \in BOOLEAN /\ cleaned \subseteq Sessions
    BY DEF CaptionsInit
  <2>3. {current, frame, pending, sending} \subseteq FrameType
    BY <1>1 DEF CaptionsInit
  <2>4. snapshots \in Seq(SnapshotType) /\ inbox \in Seq(FrameType)
    BY DEF CaptionsInit
  <2>5. seen \in 0..Revision /\ counter \in Nat
    BY <1>2 DEF CaptionsInit
  <2> QED BY <1>3, <2>1, <2>2, <2>3, <2>4, <2>5 DEF CaptionTypes
<1>5. FramesInv
  BY <1>1 DEF CaptionsInit, FramesInv, OnTheWay, Idle
<1> QED BY <1>2, <1>4, <1>5 DEF CaptionInv, History, OwnedInv, CaptionsInit

LEMMA CaptionStep ==
  ASSUME CaptionInv, [CaptionsNext]_captionVars
  PROVE  CaptionInv'
<1>1. CASE UNCHANGED captionVars
  <2>1. UNCHANGED <<occasion, snapshots, owned, cleaned, starting, monitor, main, current, inbox, lost, frame,
                    seen, counter, pending, sending>>
    BY <1>1 DEF captionVars, hostVars, overlayVars, eventVars, webVars
  <2>2. CaptionTypes' /\ FramesInv'
    BY <2>1 DEF CaptionInv, CaptionTypes, FramesInv, OnTheWay, Revision
  <2> QED BY <2>1, <2>2, SilentKeeps
<1>2. CASE BeginSession
  BY <1>2, StartSessionKeeps
<1>3. CASE Progress \/ SessionFails \/ SessionReleased
  BY <1>3, SupervisorStepsKeep
<1>4. ASSUME NEW s \in Sessions, StartStep(s) \/ MonitorStep(s)
      PROVE  CaptionInv'
  BY <1>4, StartStepKeeps, MonitorStepKeeps
<1>5. CASE StopPressed \/ StopStep \/ UpdateStep
  BY <1>5, StopWaitsKeeps, StopStepKeeps, UpdateStepKeeps
<1>6. CASE ShowAppearance \/ CloseAppearance \/ RestoreStep
  BY <1>6, AppearanceKeeps
<1>7. CASE OverlayReceives \/ SeeSnapshot \/ CaptionsChange \/ Flush
  BY <1>7, WebViewsKeep
<1> QED BY <1>1, <1>2, <1>3, <1>4, <1>5, <1>6, <1>7 DEF CaptionsNext

\* Every frame anywhere is of a snapshot of its session, a caption of a live
\* one, and sessions follow one another and end once, whatever the
\* interleaving of start, monitor, Stop, update, Appearance and the WebViews.
THEOREM CaptionsInvariant == CaptionsSpec => []CaptionInv
<1>1. CaptionsInit => CaptionInv
  BY CaptionInit
<1>2. CaptionInv /\ [CaptionsNext]_captionVars => CaptionInv'
  BY CaptionStep
<1> QED BY <1>1, <1>2, PTL DEF CaptionsSpec

\* What the overlay accepts of a session whose clear it shows is no caption.
LEMMA ShownStaysCleared ==
  ASSUME CaptionInv, [CaptionsNext]_captionVars
  PROVE  [frame'.session = frame.session /\ frame'.content = "caption" /\ frame # NoFrame
          => snapshots[frame.runtime].phase = "live"]_captionVars
<1>1. CaptionTypes /\ FramesInv /\ History(snapshots) /\ Sound(snapshots, frame) /\ Revision \in Nat
  BY LastSnapshot DEF CaptionInv, FramesInv
<1>2. SUFFICES ASSUME frame'.session = frame.session, frame'.content = "caption", frame # NoFrame
               PROVE  snapshots[frame.runtime].phase = "live"
  OBVIOUS
<1>3. CASE frame' = frame
  BY <1>1, <1>2, <1>3 DEF Sound, Live
<1>4. CASE frame' # frame
  <2>1. OverlayReceives
    <3>1. CASE UNCHANGED captionVars
      BY <1>4, <3>1 DEF captionVars, overlayVars
    <3>2. CASE CaptionsNext
      BY <1>4, <3>2 DEF CaptionsNext, BeginSession, Progress, SessionFails, SessionReleased, StartStep, StartBegins,
        StartChecks, StartPlaces, StartEmits, StartShows, MonitorStep, MonitorSees, MonitorClears,
        MonitorEmits, MonitorHides, StopPressed, StopRequests, StopStep, StopClears, StopEmits, StopHides, UpdateStep, UpdateChecks,
        UpdateReplaces, UpdateEmits, ShowAppearance, CloseAppearance, RestoreStep, RestoreEmits,
        RestoreShows, SeeSnapshot, CaptionsChange, Flush, overlayVars
    <3> QED BY <3>1, <3>2
  <2>2. frame' = Head(inbox) /\ Accepts(frame') /\ frame' \in OnTheWay
    BY <1>1, <1>4, <2>1, Received DEF OverlayReceives, CaptionTypes
  <2>3. Sound(snapshots, frame') /\ frame' # NoFrame
    BY <1>1, <1>2, <2>2 DEF FramesInv, NoFrame
  <2>4. /\ frame.runtime \in 1..Revision /\ frame'.runtime \in 1..Revision
        /\ snapshots[frame.runtime].session = snapshots[frame'.runtime].session
        /\ snapshots[frame'.runtime].phase = "live"
    BY <1>1, <1>2, <2>3 DEF Sound, Live, Revision
  <2>5. frame'.runtime >= frame.runtime
    BY <1>2, <2>2 DEF Accepts
  <2>6. frame.runtime \in 1..frame'.runtime
    BY <2>4, <2>5
  <2> QED BY <1>1, <2>4, <2>6 DEF History, Revision
<1> QED BY <1>3, <1>4

\* A caption of a session is never shown again after the clear that ended it
\* (presentation-state.ts, acceptsPresentationFrame), in whatever order its
\* frames reach the overlay, with or without failing emissions.
THEOREM ClearsAreFinal == CaptionsSpec => ClearedForGood
<1>1. CaptionInv /\ [CaptionsNext]_captionVars =>
        [frame'.session = frame.session /\ frame'.content = "caption" /\ frame # NoFrame
         => snapshots[frame.runtime].phase = "live"]_captionVars
  BY ShownStaysCleared
<1> QED BY <1>1, CaptionsInvariant, PTL DEF CaptionsSpec, ClearedForGood

-----------------------------------------------------------------------------
(* The order of the frames on their way                                    *)

\* f would replace g on the overlay.
Newer(f, g) ==
  /\ f.runtime >= g.runtime
  /\ IF f.session = g.session THEN f.presentation > g.presentation ELSE f.runtime > g.runtime

\* P is what the overlay shows and is still to receive, c what is in the slot,
\* D the sessions that have been cleared.  A caption that is not in the slot
\* will be replaced, and one that is will arrive and replace what is before it.
Ordered(h, P, c, D) ==
  /\ \A f \in P \cup {c} : f # NoFrame /\ ~Live(h, f.runtime) => f.session \in D
  /\ \A f \in P : f.content = "caption" =>
       /\ f = c \/ \E g \in P : Newer(g, f)
       /\ \A g \in P \cup {c} : g = f \/ Newer(f, g) \/ Newer(g, f)
       /\ f.session = c.session => f.presentation <= c.presentation
  /\ c.content = "caption" => c \in P
  /\ c # NoFrame /\ Live(h, c.runtime) /\ c.session \notin D =>
       \A f \in P : f = c \/ Newer(c, f)

Frames(h, P) == \A f \in P : f \in FrameType /\ Sound(h, f)

LEMMA FramesInTime ==
  ASSUME NEW h \in Seq(SnapshotType), History(h), NEW f, NEW g, Frames(h, {f, g})
  PROVE  /\ f.runtime \in Nat /\ f.session \in Nat /\ f.presentation \in Nat
         /\ f # NoFrame => f.runtime \in 1..Len(h) /\ f.session \in Sessions /\ f.session # 0
         /\ f.runtime <= g.runtime => f.session <= g.session
         /\ f # NoFrame /\ g # NoFrame /\ f.session = g.session /\ Live(h, g.runtime) /\ ~Live(h, f.runtime)
            => g.runtime < f.runtime
<1>1. f \in FrameType /\ g \in FrameType /\ Sound(h, f) /\ Sound(h, g)
  BY DEF Frames
<1>2. /\ f.runtime \in Nat /\ f.session \in Nat /\ f.presentation \in Nat
      /\ g.runtime \in Nat /\ g.session \in Nat /\ g.presentation \in Nat
  BY <1>1, CaptionBounds DEF FrameType
<1>3. f # NoFrame => f.runtime \in 1..Len(h) /\ f.session = h[f.runtime].session
  BY <1>1 DEF Sound
<1>4. g # NoFrame => g.runtime \in 1..Len(h) /\ g.session = h[g.runtime].session
  BY <1>1 DEF Sound
<1>5. \A r \in 1..Len(h) : h[r] \in SnapshotType /\ h[r].session \in Sessions /\ h[r].session # 0
  <2>1. \A r \in 1..Len(h) : h[r] \in SnapshotType
    OBVIOUS
  <2> QED BY <2>1, CaptionBounds DEF SnapshotType, Sessions
<1>6. NoFrame.runtime = 0 /\ NoFrame.session = 0
  BY DEF NoFrame
<1>7. f.runtime <= g.runtime => f.session <= g.session
  <2>1. CASE f = NoFrame
    BY <1>2, <1>6, <2>1
  <2>2. CASE f # NoFrame /\ f.runtime <= g.runtime
    <3>1. g # NoFrame
      BY <1>2, <1>3, <1>6, <2>2
    <3>2. f.runtime \in 1..g.runtime
      BY <1>2, <1>3, <2>2
    <3> QED BY <1>3, <1>4, <2>2, <3>1, <3>2 DEF History
  <2> QED BY <2>1, <2>2
<1>8. ASSUME f # NoFrame, g # NoFrame, f.session = g.session, Live(h, g.runtime), ~Live(h, f.runtime)
      PROVE  g.runtime < f.runtime
  <2>1. SUFFICES ASSUME f.runtime <= g.runtime PROVE FALSE
    BY <1>2
  <2>2. f.runtime \in 1..g.runtime
    BY <1>2, <1>3, <1>8, <2>1
  <2>3. h[f.runtime].session = h[g.runtime].session
    BY <1>3, <1>4, <1>8
  <2> QED BY <1>4, <1>8, <2>2, <2>3 DEF History, Live
<1> QED BY <1>2, <1>3, <1>5, <1>7, <1>8

LEMMA NewerIsAnOrder ==
  ASSUME NEW h \in Seq(SnapshotType), History(h), NEW f, NEW g, NEW k, Frames(h, {f, g, k})
  PROVE  /\ Newer(f, g) /\ Newer(g, k) => Newer(f, k)
         /\ ~(Newer(f, g) /\ Newer(g, f))
         /\ ~Newer(f, f)
<1>1. Frames(h, {f, g}) /\ Frames(h, {g, f}) /\ Frames(h, {g, k}) /\ Frames(h, {k, g})
  BY DEF Frames
<1>2. /\ f.runtime \in Nat /\ f.session \in Nat /\ f.presentation \in Nat
      /\ g.runtime \in Nat /\ g.session \in Nat /\ g.presentation \in Nat
      /\ k.runtime \in Nat /\ k.session \in Nat /\ k.presentation \in Nat
  BY <1>1, FramesInTime
<1>3. /\ f.runtime <= g.runtime => f.session <= g.session
      /\ g.runtime <= f.runtime => g.session <= f.session
      /\ g.runtime <= k.runtime => g.session <= k.session
      /\ k.runtime <= g.runtime => k.session <= g.session
  BY <1>1, FramesInTime
<1>4. ASSUME Newer(f, g), Newer(g, k) PROVE Newer(f, k)
  <2>1. k.runtime <= g.runtime /\ g.runtime <= f.runtime
    BY <1>2, <1>4 DEF Newer
  <2>2. k.session <= g.session /\ g.session <= f.session
    BY <1>3, <2>1
  <2>3. CASE f.session = k.session
    <3>1. f.session = g.session /\ g.session = k.session
      BY <1>2, <2>2, <2>3
    <3> QED BY <1>2, <1>4, <2>1, <2>3, <3>1 DEF Newer
  <2>4. CASE f.session # k.session
    <3>1. f.runtime > g.runtime \/ g.runtime > k.runtime
      BY <1>2, <1>4, <2>4 DEF Newer
    <3> QED BY <1>2, <2>1, <2>4, <3>1 DEF Newer
  <2> QED BY <2>3, <2>4
<1>5. ~(Newer(f, g) /\ Newer(g, f)) /\ ~Newer(f, f)
  BY <1>2 DEF Newer
<1> QED BY <1>4, <1>5

\* Snapshots are published and sessions cleared: the order is what it was.
LEMMA OrderStays ==
  ASSUME NEW h \in Seq(SnapshotType), NEW P, NEW c, NEW D, Ordered(h, P, c, D), Frames(h, P \cup {c}),
         NEW k, \A r \in 1..Len(h) : k[r] = h[r], NEW E, D \subseteq E
  PROVE  Ordered(k, P, c, E)
<1>1. \A f \in P \cup {c} : f # NoFrame => f.runtime \in 1..Len(h)
  BY DEF Frames, Sound
<1>2. \A f \in P \cup {c} : f # NoFrame => (Live(k, f.runtime) <=> Live(h, f.runtime))
  BY <1>1 DEF Live
<1> QED BY <1>2 DEF Ordered

\* The frame in the slot is emitted once more.
LEMMA OrderWithRepeat ==
  ASSUME NEW h, NEW P, NEW c, NEW D, Ordered(h, P, c, D)
  PROVE  Ordered(h, P \cup {c}, c, D)
BY DEF Ordered

\* A clear of the newest session, which has ended, replaces what is in the slot.
LEMMA OrderWithClear ==
  ASSUME NEW h \in Seq(SnapshotType), History(h), NEW P, NEW c, NEW D, Ordered(h, P, c, D),
         Frames(h, P \cup {c}),
         NEW x, Frames(h, {x}), x # NoFrame, x.content = "cleared", ~Live(h, x.runtime),
         x.session = h[Len(h)].session,
         x.presentation = IF c.session = x.session THEN c.presentation + 1 ELSE 0,
         \A g \in P : g.content = "caption" /\ g.session = x.session => c.session = x.session,
         NEW E, D \subseteq E, x.session \in E
  PROVE  Ordered(h, P \cup {x}, x, E)
<1>1. ASSUME NEW g \in P, g.content = "caption"
      PROVE  Newer(x, g) /\ (g.session = x.session => g.presentation <= x.presentation)
  <2>1. Frames(h, {x, g}) /\ Frames(h, {g, x}) /\ Frames(h, {c, c})
    BY DEF Frames
  <2>2. /\ x.runtime \in Nat /\ x.session \in Nat /\ x.presentation \in Nat
        /\ g.runtime \in Nat /\ g.session \in Nat /\ g.presentation \in Nat
        /\ c.presentation \in Nat
        /\ x.runtime <= g.runtime => x.session <= g.session
    BY <2>1, FramesInTime
  <2>3. g # NoFrame /\ Live(h, g.runtime) /\ g.session = h[g.runtime].session
        /\ g.runtime \in 1..Len(h)
    BY <1>1, <2>1 DEF Frames, Sound, NoFrame
  <2>4. g.session <= x.session
    BY <2>3 DEF History
  <2>5. CASE g.session = x.session
    <3>1. g.runtime < x.runtime
      BY <2>1, <2>3, <2>5, FramesInTime
    <3>2. g.presentation <= c.presentation /\ c.session = x.session
      BY <1>1, <2>5 DEF Ordered
    <3> QED BY <2>2, <2>5, <3>1, <3>2 DEF Newer
  <2>6. CASE g.session # x.session
    BY <2>2, <2>4, <2>6 DEF Newer
  <2> QED BY <2>5, <2>6
<1>2. \A f \in P \cup {x} : f # NoFrame /\ ~Live(h, f.runtime) => f.session \in E
  BY DEF Ordered
<1>3. ASSUME NEW f \in P \cup {x}, f.content = "caption"
      PROVE  /\ \E g \in P \cup {x} : Newer(g, f)
             /\ \A g \in P \cup {x} : g = f \/ Newer(f, g) \/ Newer(g, f)
             /\ f.session = x.session => f.presentation <= x.presentation
  <2>1. f \in P
    BY <1>3
  <2>2. \A g \in P : g = f \/ Newer(f, g) \/ Newer(g, f)
    BY <1>3, <2>1 DEF Ordered
  <2> QED BY <1>1, <1>3, <2>1, <2>2
<1> QED BY <1>2, <1>3 DEF Ordered

\* The first frame of the newest session is put into the slot, of which nothing
\* but a clear can be on its way.
LEMMA OrderWithBegin ==
  ASSUME NEW h \in Seq(SnapshotType), History(h), NEW P, NEW c, NEW D, Ordered(h, P, c, D),
         Frames(h, P \cup {c}),
         NEW x, Frames(h, {x}), x # NoFrame, x.content = "cleared", Live(h, x.runtime),
         x.session = h[Len(h)].session, c.content # "caption",
         \A f \in P : f # NoFrame /\ Live(h, f.runtime) => f.session # x.session
  PROVE  Ordered(h, P, x, D)
<1>1. ASSUME NEW f \in P, f = NoFrame \/ f.session # x.session
      PROVE  Newer(x, f)
  <2>1. Frames(h, {x, f}) /\ Frames(h, {f, x})
    BY DEF Frames
  <2>2. /\ x.runtime \in Nat /\ x.session \in Nat /\ f.runtime \in Nat /\ f.session \in Nat
        /\ x.runtime <= f.runtime => x.session <= f.session
        /\ x.runtime \in 1..Len(h) /\ x.session # 0
    BY <2>1, FramesInTime
  <2>3. CASE f = NoFrame
    BY <2>2, <2>3 DEF Newer, NoFrame
  <2>4. CASE f # NoFrame
    <3>1. f.runtime \in 1..Len(h) /\ f.session = h[f.runtime].session
      BY <2>1, <2>4 DEF Frames, Sound
    <3>2. f.session <= x.session /\ f.session # x.session
      BY <1>1, <2>4, <3>1 DEF History
    <3> QED BY <2>2, <3>2 DEF Newer
  <2> QED BY <2>3, <2>4
<1>2. ASSUME NEW f \in P, f.content = "caption"
      PROVE  f.session # x.session /\ Newer(x, f)
  <2>1. f # NoFrame /\ Live(h, f.runtime)
    BY <1>2 DEF Frames, Sound, NoFrame
  <2> QED BY <1>1, <2>1
<1>3. \A f \in P \cup {x} : f # NoFrame /\ ~Live(h, f.runtime) => f.session \in D
  BY DEF Ordered
<1>4. ASSUME NEW f \in P, f.content = "caption"
      PROVE  /\ f = x \/ \E g \in P : Newer(g, f)
             /\ \A g \in P \cup {x} : g = f \/ Newer(f, g) \/ Newer(g, f)
             /\ f.session # x.session
  BY <1>2, <1>4 DEF Ordered
<1>5. x.session \notin D => \A f \in P : Newer(x, f)
  BY <1>1, <1>3
<1> QED BY <1>3, <1>4, <1>5 DEF Ordered

\* A caption replaces one frame of its session in the slot by a newer one.
LEMMA OrderWithUpdate ==
  ASSUME NEW h \in Seq(SnapshotType), History(h), NEW P, NEW c, NEW D, Ordered(h, P, c, D),
         Frames(h, P \cup {c}),
         NEW x, Frames(h, {x}), x # NoFrame, x.content = "caption", x.session \notin D,
         c # NoFrame, c.session = x.session, x.runtime >= c.runtime, x.presentation > c.presentation
  PROVE  Ordered(h, P \cup {x}, x, D)
<1>1. Live(h, c.runtime) /\ Live(h, x.runtime)
  BY DEF Ordered, Frames, Sound
<1>2. ASSUME NEW f \in P
      PROVE  Newer(x, f)
  <2>1. f = c \/ Newer(c, f)
    BY <1>1 DEF Ordered
  <2>2. Newer(x, c)
    BY DEF Newer
  <2>3. Frames(h, {x, c, f})
    BY DEF Frames
  <2> QED BY <2>1, <2>2, <2>3, NewerIsAnOrder
<1>3. \A f \in P \cup {x} : f # NoFrame /\ ~Live(h, f.runtime) => f.session \in D
  BY <1>1 DEF Ordered
<1>4. ASSUME NEW f \in P, f.content = "caption"
      PROVE  /\ \A g \in P \cup {x} : g = f \/ Newer(f, g) \/ Newer(g, f)
             /\ f.session = x.session => f.presentation <= x.presentation
  <2>1. \A g \in P : g = f \/ Newer(f, g) \/ Newer(g, f)
    BY <1>4 DEF Ordered
  <2>2. f.presentation \in Nat /\ x.presentation \in Nat
    BY CaptionBounds DEF Frames, FrameType
  <2> QED BY <1>2, <2>1, <2>2 DEF Newer
<1>5. x.presentation \in Nat
  BY DEF Frames, FrameType
<1> QED BY <1>2, <1>3, <1>4, <1>5 DEF Ordered

\* The overlay keeps k, which is R's or the frame that arrived, and gives up d.
LEMMA OrderWithoutOne ==
  ASSUME NEW h \in Seq(SnapshotType), History(h), NEW R, NEW k, NEW d, NEW c, NEW D,
         Ordered(h, R \cup {k, d}, c, D), Frames(h, R \cup {k, d, c}),
         c.session \in D => c.content # "caption",
         d = NoFrame \/ Newer(k, d) \/ ~Newer(d, k)
  PROVE  Ordered(h, R \cup {k}, c, D)
<1> DEFINE P == R \cup {k, d}
           Q == R \cup {k}
<1>1. Q \subseteq P /\ Frames(h, P \cup {c}) /\ Ordered(h, P, c, D)
  BY DEF Frames
<1>2. \A f, g, e \in P \cup {c} : Newer(f, g) /\ Newer(g, e) => Newer(f, e)
  <2> SUFFICES ASSUME NEW f \in P \cup {c}, NEW g \in P \cup {c}, NEW e \in P \cup {c}
               PROVE  Newer(f, g) /\ Newer(g, e) => Newer(f, e)
    OBVIOUS
  <2>1. Frames(h, {f, g, e})
    BY <1>1 DEF Frames
  <2> QED BY <2>1, NewerIsAnOrder
<1>3. \A f, g \in P \cup {c} : ~(Newer(f, g) /\ Newer(g, f))
  <2> SUFFICES ASSUME NEW f \in P \cup {c}, NEW g \in P \cup {c}
               PROVE  ~(Newer(f, g) /\ Newer(g, f))
    OBVIOUS
  <2>1. Frames(h, {f, g, g})
    BY <1>1 DEF Frames
  <2> QED BY <2>1, NewerIsAnOrder
<1>4. ASSUME NEW f \in Q, f.content = "caption"
      PROVE  f = c \/ \E g \in Q : Newer(g, f)
  <2>1. f = c \/ \E g \in P : Newer(g, f)
    BY <1>1, <1>4 DEF Ordered
  <2>2. SUFFICES ASSUME Newer(d, f) PROVE \E g \in Q : Newer(g, f)
    BY <2>1
  <2>3. CASE d = NoFrame
    <3>1. f # NoFrame
      BY <1>4 DEF NoFrame
    <3>2. f.runtime \in Nat /\ f.runtime # 0
      BY <1>1, <3>1 DEF Frames, Sound
    <3> QED BY <2>2, <2>3, <3>2 DEF Newer, NoFrame
  <2>4. CASE Newer(k, d)
    BY <1>2, <2>2, <2>4
  <2>5. CASE ~Newer(d, k)
    <3>1. k = f \/ Newer(f, k) \/ Newer(k, f)
      BY <1>1, <1>4 DEF Ordered
    <3> QED BY <1>2, <2>2, <2>5, <3>1
  <2> QED BY <2>3, <2>4, <2>5
<1>5. ASSUME c.content = "caption"
      PROVE  c \in Q
  <2>1. c \in P /\ c # NoFrame /\ Live(h, c.runtime)
    BY <1>1, <1>5 DEF Ordered, Frames, Sound, NoFrame
  <2>2. \A f \in P : f = c \/ Newer(c, f)
    BY <1>1, <1>5, <2>1 DEF Ordered
  <2>3. SUFFICES ASSUME c = d PROVE c \in Q
    BY <2>1
  <2>4. k = c \/ Newer(d, k)
    BY <2>2, <2>3
  <2> QED BY <1>3, <2>1, <2>3, <2>4
<1>6. \A f \in Q \cup {c} : f # NoFrame /\ ~Live(h, f.runtime) => f.session \in D
  BY <1>1 DEF Ordered
<1>7. \A f \in Q : f.content = "caption" =>
        /\ \A g \in Q \cup {c} : g = f \/ Newer(f, g) \/ Newer(g, f)
        /\ f.session = c.session => f.presentation <= c.presentation
  BY <1>1 DEF Ordered
<1>8. c # NoFrame /\ Live(h, c.runtime) /\ c.session \notin D => \A f \in Q : f = c \/ Newer(c, f)
  BY <1>1 DEF Ordered
<1> HIDE DEF P, Q
<1>9. Ordered(h, Q, c, D)
  BY <1>4, <1>5, <1>6, <1>7, <1>8 DEF Ordered
<1> QED BY <1>9 DEF Q

-----------------------------------------------------------------------------
(* What holds as long as nothing is lost and no session is overtaken       *)

Calm == ~lost /\ ~Disturbed("overtaking")

\* What the main thread and the monitors are about to emit.
MainOut == IF main.at \in {"stopEmit", "updateEmit"} THEN {main.frame} ELSE {}
MonitorOut == {monitor[s].frame : s \in {t \in Sessions : monitor[t].at = "cleared"}}
Pool == {frame} \cup OnTheWay \cup MainOut \cup MonitorOut

Begun(s) == starting[s].at \notin {"none", "begin"}

\* s has been cleared by its monitor or by Stop.
Cleared(s) ==
  \/ s \in cleaned
  \/ monitor[s].at \in {"cleared", "emitted", "done"}
  \/ main.at \in {"stopEmit", "stopHide"} /\ main.frame.session = s

ClearedSessions == {s \in Sessions : Cleared(s)}

Ended(s) == \E r \in 1..Revision : snapshots[r].session = s /\ ~Live(snapshots, r)

\* The first frame of a session is the clear with which it begins.
BegunInv ==
  /\ \A f \in Pool \cup {current, pending, sending} :
       f # NoFrame /\ Live(snapshots, f.runtime) => Begun(f.session)
  /\ main.at = "update" => Begun(main.frame.session)
  /\ seen # 0 /\ Live(snapshots, seen) => Begun(snapshots[seen].session)
  /\ \A s \in Sessions : Begun(s) => s <= current.session

\* Who is about to clear the slot, or to begin, is of the session.
TurnsInv ==
  /\ \A s \in Sessions :
       /\ monitor[s].at = "saw" \/ starting[s].at = "begin" => owned /\ Snapshot.session = s
       /\ starting[s].at = "none" => Snapshot.session < s
  /\ main.at = "stop" => owned /\ main.frame.session = Snapshot.session

\* A session that ends is cleared, and only then the next one begins.
EndsInv ==
  /\ \A s \in Sessions : Cleared(s) => Ended(s)
  /\ \A s \in Sessions : s < Snapshot.session => s \in cleaned
  /\ Revision > 0 /\ ~owned => Snapshot.session \in cleaned
  /\ Snapshot.phase = "stopping" => main.at = "stop" \/ Cleared(Snapshot.session)

\* What clears a session leaves no caption of it in the slot, and lets none in.
ClearedInv ==
  \A s \in Sessions : Cleared(s) /\ current.session = s =>
    /\ current.content = "cleared"
    /\ main.at = "update" /\ main.frame.session = s => ~Live(snapshots, current.runtime)

OrderInv == Ordered(snapshots, Pool, current, ClearedSessions)

CalmInv == BegunInv /\ TurnsInv /\ EndsInv /\ ClearedInv /\ OrderInv

SlotInv == CaptionInv /\ (Calm => CalmInv)

-----------------------------------------------------------------------------

LEMMA PoolIsSound ==
  ASSUME CaptionInv
  PROVE  /\ Frames(snapshots, Pool \cup {current, pending, sending, main.frame})
         /\ snapshots \in Seq(SnapshotType) /\ History(snapshots)
<1>1. CaptionTypes /\ FramesInv /\ History(snapshots)
  BY DEF CaptionInv
<1>2. \A f \in OnTheWay \cup {frame, current, pending, sending, main.frame} : Sound(snapshots, f)
  BY <1>1 DEF FramesInv
<1>3. \A f \in OnTheWay \cup {frame, current, pending, sending, main.frame} : f \in FrameType
  BY <1>1 DEF CaptionTypes, MainType, OnTheWay
<1>4. \A s \in Sessions : monitor[s].frame \in FrameType
  BY <1>1 DEF CaptionTypes, MonitorType
<1>5. \A s \in Sessions : monitor[s].at = "cleared" => Sound(snapshots, monitor[s].frame)
  BY <1>1, EndingsAreSound DEF FramesInv
<1>6. Frames(snapshots, MonitorOut)
  BY <1>4, <1>5 DEF MonitorOut, Frames
<1>7. Frames(snapshots, MainOut)
  BY <1>2, <1>3 DEF MainOut, Frames
<1> QED BY <1>1, <1>2, <1>3, <1>6, <1>7 DEF Frames, Pool, CaptionTypes

\* The session of the slot is not newer than the one of the supervisor.
LEMMA SlotIsNotNewer ==
  ASSUME CaptionInv
  PROVE  /\ current.session \in 0..Snapshot.session /\ current.session \in 0..MaxSession
         /\ Snapshot.session \in 0..MaxSession
         /\ current.session = 0 => current = NoFrame
         /\ current # NoFrame => current.session \in Sessions
<1>1. /\ Frames(snapshots, {current, current}) /\ snapshots \in Seq(SnapshotType) /\ History(snapshots)
      /\ CaptionTypes
  BY PoolIsSound DEF Frames, CaptionInv
<1>2. current \in FrameType /\ current.session \in 0..MaxSession
  BY <1>1 DEF CaptionTypes, FrameType
<1>3. current # NoFrame => current.session \in Sessions /\ current.session # 0
  BY <1>1, FramesInTime
<1>4. Revision \in Nat /\ Snapshot.session \in 0..MaxSession
      /\ (Revision # 0 => Snapshot = snapshots[Revision])
  BY <1>1, LastSnapshot
<1>5. CASE current = NoFrame
  BY <1>2, <1>4, <1>5 DEF NoFrame
<1>6. CASE current # NoFrame
  <2>1. current.runtime \in 1..Revision /\ snapshots[current.runtime].session = current.session
    BY <1>1, <1>6 DEF Frames, Sound, Revision
  <2>2. Revision \in 1..Revision /\ current.runtime \in 1..Revision
    BY <1>4, <2>1
  <2>3. current.session <= Snapshot.session
    BY <1>1, <1>4, <2>1, <2>2 DEF History, Revision
  <2> QED BY <1>2, <1>3, <1>4, <1>6, <2>3
<1> QED BY <1>5, <1>6

\* A session that has ended is not live any more.
LEMMA EndedIsNotLive ==
  ASSUME CaptionInv, NEW s \in Sessions, Ended(s)
  PROVE  ~IsLive(s)
<1>1. CaptionTypes /\ History(snapshots)
  BY DEF CaptionInv
<1>2. PICK r \in 1..Revision : snapshots[r].session = s /\ snapshots[r].phase # "live"
  BY DEF Ended, Live
<1>3. Revision \in Nat /\ Revision # 0 /\ Snapshot = snapshots[Revision] /\ Revision \in 1..Revision
  BY <1>1, <1>2, LastSnapshot
<1>4. SUFFICES ASSUME Snapshot.session = s, Snapshot.phase = "live" PROVE FALSE
  BY DEF IsLive
<1> QED BY <1>1, <1>2, <1>3, <1>4 DEF History, Revision

\* Nothing is done to the slot, the frames on their way, or what is cleared.
SlotStays ==
  /\ Pool' = Pool /\ current' = current
  /\ \A s \in Sessions : (Cleared(s)' <=> Cleared(s)) /\ (Begun(s)' <=> Begun(s))

LEMMA SlotStaysKeeps ==
  ASSUME CaptionInv, CaptionInv', BegunInv, ClearedInv, OrderInv, EndsInv, FramesStay, SlotStays,
         \A f \in {pending', sending'} :
           f \in {pending, sending, NoFrame} \/ (f.session \in Sessions /\ Begun(f.session)),
         main'.at = "update" =>
           main' = main \/ (main'.frame = sending /\ sending # NoFrame /\ IsLive(sending.session)),
         seen' = seen \/ (seen' \in 1..Revision /\ (Live(snapshots, seen') =>
                             snapshots[seen'].session \in Sessions /\ Begun(snapshots[seen'].session)))
  PROVE  BegunInv' /\ ClearedInv' /\ OrderInv'
<1>1. /\ Frames(snapshots, Pool \cup {current, pending, sending, main.frame})
      /\ snapshots \in Seq(SnapshotType) /\ History(snapshots)
  BY PoolIsSound
<1>2. \A f \in Pool \cup {current, pending, sending} : f # NoFrame =>
        /\ f.runtime \in 1..Len(snapshots) /\ f.session \in Sessions
        /\ (Live(snapshots', f.runtime) <=> Live(snapshots, f.runtime))
  <2> SUFFICES ASSUME NEW f \in Pool \cup {current, pending, sending}, f # NoFrame
               PROVE  /\ f.runtime \in 1..Len(snapshots) /\ f.session \in Sessions
                      /\ (Live(snapshots', f.runtime) <=> Live(snapshots, f.runtime))
    OBVIOUS
  <2>1. Frames(snapshots, {f, f})
    BY <1>1 DEF Frames
  <2>2. f.runtime \in 1..Len(snapshots) /\ f.session \in Sessions
    BY <1>1, <2>1, FramesInTime
  <2> QED BY <2>2 DEF FramesStay, Live, Revision
<1>3. sending # NoFrame => sending.content = "caption" /\ Live(snapshots, sending.runtime)
  <2>1. sending # NoFrame => sending.content = "caption"
    BY DEF CaptionInv, FramesInv
  <2> QED BY <1>1, <2>1 DEF Frames, Sound
<1>4. \A s \in Sessions : Begun(s)' <=> Begun(s)
  BY DEF SlotStays
<1>5. ASSUME NEW f \in Pool' \cup {current', pending', sending'}, f # NoFrame, Live(snapshots', f.runtime)
      PROVE  f.session \in Sessions /\ Begun(f.session)
  <2>1. CASE f \in Pool \cup {current, pending, sending}
    BY <1>2, <1>5, <2>1 DEF BegunInv
  <2>2. CASE f \notin Pool \cup {current, pending, sending}
    BY <1>5, <2>2 DEF SlotStays
  <2> QED BY <2>1, <2>2
<1>6. main'.at = "update" => Begun(main'.frame.session) /\ main'.frame.session \in Sessions
  <2>1. CASE main' = main
    <3>1. ASSUME main.at = "update"
          PROVE  main.frame.session \in Sessions
      <4>1. main.frame # NoFrame
        BY <3>1 DEF CaptionInv, FramesInv, NoFrame
      <4>2. Frames(snapshots, {main.frame, main.frame})
        BY <1>1 DEF Frames
      <4> QED BY <1>1, <4>1, <4>2, FramesInTime
    <3> QED BY <2>1, <3>1 DEF BegunInv
  <2>2. CASE main' # main
    BY <1>2, <1>3, <2>2 DEF BegunInv
  <2> QED BY <2>1, <2>2
<1>7. BegunInv'
  <2>1. \A f \in Pool' \cup {current', pending', sending'} :
          f # NoFrame /\ Live(snapshots', f.runtime) => starting'[f.session].at \notin {"none", "begin"}
    BY <1>4, <1>5 DEF Begun
  <2>2. main'.at = "update" => starting'[main'.frame.session].at \notin {"none", "begin"}
    BY <1>4, <1>6 DEF Begun
  <2>3. \A s \in Sessions : Begun(s)' => s <= current'.session
    BY <1>4 DEF BegunInv, SlotStays
  <2>4. ASSUME seen' # 0, Live(snapshots', seen')
        PROVE  starting'[snapshots'[seen'].session].at \notin {"none", "begin"}
    <3>1. seen' \in 1..Revision
      BY <2>4 DEF CaptionInv, CaptionTypes
    <3>2. snapshots'[seen'] = snapshots[seen'] /\ snapshots[seen'] \in SnapshotType
      BY <1>1, <3>1 DEF FramesStay, Revision
    <3>3. snapshots[seen'].session \in Sessions /\ Begun(snapshots[seen'].session)
      BY <2>4, <3>2 DEF BegunInv, Live, SnapshotType
    <3> QED BY <1>4, <3>2, <3>3 DEF Begun
  <2> QED BY <2>1, <2>2, <2>3, <2>4 DEF BegunInv, Begun
<1>8. ClearedInv'
  <2>1. SUFFICES ASSUME NEW s \in Sessions, Cleared(s)', current'.session = s
                 PROVE  /\ current'.content = "cleared"
                        /\ main'.at = "update" /\ main'.frame.session = s => ~Live(snapshots', current'.runtime)
    BY DEF ClearedInv
  <2>2. /\ Cleared(s) /\ current' = current /\ current.content = "cleared"
        /\ main.at = "update" /\ main.frame.session = s => ~Live(snapshots, current.runtime)
    BY <2>1 DEF SlotStays, ClearedInv
  <2>3. current # NoFrame
    BY <2>1, <2>2, CaptionBounds DEF NoFrame, Sessions
  <2>4. ~IsLive(s)
    BY <2>2, EndedIsNotLive DEF EndsInv
  <2> QED BY <1>2, <2>2, <2>3, <2>4
<1>9. OrderInv'
  <2>1. Frames(snapshots, Pool \cup {current})
    BY <1>1 DEF Frames
  <2>2. \A r \in 1..Len(snapshots) : snapshots'[r] = snapshots[r]
    BY DEF FramesStay, Revision
  <2>3. ClearedSessions' = ClearedSessions
    BY DEF SlotStays, ClearedSessions
  <2>4. Ordered(snapshots', Pool, current, ClearedSessions)
    BY <1>1, <2>1, <2>2, OrderStays DEF OrderInv
  <2> QED BY <2>3, <2>4 DEF OrderInv, SlotStays
<1> QED BY <1>7, <1>8, <1>9

\* Nothing is published, and who has had his turn has cleared or begun.
LEMMA TurnsStay ==
  ASSUME CaptionInv, TurnsInv, EndsInv, UNCHANGED snapshots, UNCHANGED owned, cleaned \subseteq cleaned',
         \A s \in Sessions :
           /\ monitor'[s].at = "saw" => monitor[s].at = "saw" \/ (owned /\ Snapshot.session = s)
           /\ starting'[s].at \in {"none", "begin"} => starting'[s].at = starting[s].at
           /\ Cleared(s) => Cleared(s)'
           /\ Cleared(s)' => Cleared(s) \/ Ended(s),
         main'.at = "stop" => main' = main,
         \A s \in Sessions :
           main.at = "stop" /\ main.frame.session = s => main'.at = "stop" \/ Cleared(s)'
  PROVE  TurnsInv' /\ EndsInv'
<1>1. Snapshot' = Snapshot /\ Revision' = Revision
  BY DEF Snapshot, SnapshotAt, Revision
<1>2. \A s \in Sessions : Ended(s)' <=> Ended(s)
  BY <1>1 DEF Ended, Live
<1>3. TurnsInv'
  <2>1. \A s \in Sessions : monitor'[s].at = "saw" \/ starting'[s].at = "begin" =>
          owned /\ Snapshot.session = s
    BY DEF TurnsInv
  <2>4. \A s \in Sessions : starting'[s].at = "none" => Snapshot.session < s
    BY DEF TurnsInv
  <2>2. main'.at = "stop" => owned /\ main'.frame.session = Snapshot.session
    BY DEF TurnsInv
  <2>3. owned => owned'
    OBVIOUS
  <2> QED BY <1>1, <2>1, <2>2, <2>3, <2>4 DEF TurnsInv
<1>4. Snapshot.phase = "stopping" => Snapshot.session \in Sessions
  BY LastSnapshot DEF CaptionInv, NoSnapshot, SnapshotType
<1>5. ASSUME NEW s \in Sessions, Snapshot.session = s, Snapshot.phase = "stopping"
      PROVE  main'.at = "stop" \/ Cleared(s)'
  <2>1. main.at = "stop" \/ Cleared(s)
    BY <1>5 DEF EndsInv
  <2> QED BY <1>5, <2>1 DEF TurnsInv
<1>6. (\A s \in Sessions : Cleared(s) => Ended(s))'
  BY <1>2 DEF EndsInv
<1>7. /\ \A s \in Sessions : s < Snapshot'.session => s \in cleaned'
      /\ Revision' > 0 /\ ~owned' => Snapshot'.session \in cleaned'
  BY <1>1 DEF EndsInv
<1>8. (Snapshot.phase = "stopping" => main.at = "stop" \/ Cleared(Snapshot.session))'
  <2>1. SUFFICES ASSUME Snapshot'.phase = "stopping"
                 PROVE  main'.at = "stop" \/ Cleared(Snapshot.session)'
    OBVIOUS
  <2>2. PICK s \in Sessions : Snapshot.session = s
    BY <1>1, <1>4, <2>1
  <2>3. main'.at = "stop" \/ Cleared(s)'
    BY <1>1, <1>5, <2>1, <2>2
  <2> QED BY <1>1, <2>2, <2>3 DEF Cleared
<1> QED BY <1>3, <1>6, <1>7, <1>8 DEF EndsInv

-----------------------------------------------------------------------------
(* The steps of a calm behaviour                                           *)

\* Steps that neither publish nor touch the slot.
LEMMA QuietKeeps ==
  ASSUME CaptionInv, CaptionInv', CalmInv, UNCHANGED snapshots, UNCHANGED owned, SlotStays,
         cleaned \subseteq cleaned',
         \A f \in {pending', sending'} :
           f \in {pending, sending, NoFrame} \/ (f.session \in Sessions /\ Begun(f.session)),
         main'.at = "update" =>
           main' = main \/ (main'.frame = sending /\ sending # NoFrame /\ IsLive(sending.session)),
         seen' = seen \/ (seen' \in 1..Revision /\ (Live(snapshots, seen') =>
                             snapshots[seen'].session \in Sessions /\ Begun(snapshots[seen'].session))),
         \A s \in Sessions :
           /\ monitor'[s].at = "saw" => monitor[s].at = "saw" \/ (owned /\ Snapshot.session = s)
           /\ starting'[s].at \in {"none", "begin"} => starting'[s].at = starting[s].at,
         main'.at = "stop" => main' = main,
         main.at = "stop" => main'.at = "stop"
  PROVE  CalmInv'
<1>1. BegunInv /\ TurnsInv /\ EndsInv /\ ClearedInv /\ OrderInv
  BY DEF CalmInv
<1>2. FramesStay
  BY UnpublishedStay DEF CaptionInv
<1>3. BegunInv' /\ ClearedInv' /\ OrderInv'
  BY <1>1, <1>2, SlotStaysKeeps
<1>4. \A s \in Sessions : (Cleared(s) => Cleared(s)') /\ (Cleared(s)' => Cleared(s) \/ Ended(s))
  BY DEF SlotStays
<1>5. TurnsInv' /\ EndsInv'
  BY <1>1, <1>4, TurnsStay
<1> QED BY <1>3, <1>5 DEF CalmInv

\* One thread of start or of the monitor goes on, and the others stay.
LEMMA StartGoesOn ==
  ASSUME CaptionTypes, NEW s \in Sessions, NEW x, starting' = [starting EXCEPT ![s].at = x]
  PROVE  starting'[s].at = x /\ \A t \in Sessions : t # s => starting'[t] = starting[t]
BY DEF CaptionTypes, StartType

LEMMA MonitorGoesOn ==
  ASSUME CaptionTypes, NEW s \in Sessions, NEW m, monitor' = [monitor EXCEPT ![s] = m]
  PROVE  /\ monitor'[s] = m /\ \A t \in Sessions : t # s => monitor'[t] = monitor[t]
         /\ m.at # "cleared" /\ monitor[s].at # "cleared" => MonitorOut' = MonitorOut
         /\ m.at # "cleared" /\ monitor[s].at = "cleared" =>
              MonitorOut' \cup {monitor[s].frame} = MonitorOut
         /\ m.at = "cleared" /\ monitor[s].at # "cleared" => MonitorOut' = MonitorOut \cup {m.frame}
<1>1. monitor'[s] = m /\ \A t \in Sessions : t # s => monitor'[t] = monitor[t]
  BY DEF CaptionTypes
<1>2. \A f : f \in MonitorOut <=> \E t \in Sessions : monitor[t].at = "cleared" /\ f = monitor[t].frame
  BY DEF MonitorOut
<1>3. \A f : f \in MonitorOut' <=> \E t \in Sessions : monitor'[t].at = "cleared" /\ f = monitor'[t].frame
  BY DEF MonitorOut
<1>4. \A f : f \in MonitorOut' => f \in MonitorOut \/ (m.at = "cleared" /\ f = m.frame)
  BY <1>1, <1>2, <1>3
<1>5. \A f : f \in MonitorOut => f \in MonitorOut' \/ (monitor[s].at = "cleared" /\ f = monitor[s].frame)
  BY <1>1, <1>2, <1>3
<1>6. monitor[s].at = "cleared" => monitor[s].frame \in MonitorOut
  BY <1>2
<1>7. m.at = "cleared" => m.frame \in MonitorOut'
  BY <1>1, <1>3
<1>8. m.at # "cleared" => MonitorOut' \subseteq MonitorOut
  BY <1>4
<1>9. monitor[s].at # "cleared" => MonitorOut \subseteq MonitorOut'
  BY <1>5
<1> QED BY <1>1, <1>4, <1>5, <1>6, <1>7, <1>8, <1>9

LEMMA StartGoesOnCalmly ==
  ASSUME CaptionInv, CaptionInv', CalmInv, NEW s \in Sessions, StartChecks(s) \/ StartPlaces(s) \/ StartShows(s)
  PROVE  CalmInv'
<1>1. CaptionTypes
  BY DEF CaptionInv
<1>2. PICK x \in {"checked", "placed", "done"} : starting' = [starting EXCEPT ![s].at = x]
  BY DEF StartChecks, StartPlaces, StartShows
<1>3. /\ starting[s].at \in {"preparing", "checked", "emitted"}
      /\ UNCHANGED <<snapshots, owned, cleaned, monitor, main, current, inbox, frame, seen, pending, sending>>
  BY DEF StartChecks, StartPlaces, StartShows, overlayVars, eventVars, webVars
<1>4. starting'[s].at = x /\ \A t \in Sessions : t # s => starting'[t] = starting[t]
  BY <1>1, <1>2, StartGoesOn
<1>5. SlotStays
  BY <1>2, <1>3, <1>4 DEF SlotStays, Pool, OnTheWay, MainOut, MonitorOut, Cleared, Begun
<1> QED BY <1>2, <1>3, <1>4, <1>5, QuietKeeps

LEMMA MonitorSeesCalmly ==
  ASSUME CaptionInv, CaptionInv', CalmInv, NEW s \in Sessions, MonitorSees(s)
  PROVE  CalmInv'
<1> DEFINE m == [at |-> "saw", frame |-> Frame(s, Revision, 0, "cleared")]
<1>1. /\ CaptionTypes /\ monitor[s].at = "polling" /\ monitor' = [monitor EXCEPT ![s] = m]
      /\ owned /\ Snapshot.session = s
      /\ UNCHANGED <<snapshots, owned, cleaned, starting, main, current, inbox, frame, seen, pending, sending>>
  BY DEF CaptionInv, MonitorSees, overlayVars, eventVars, webVars
<1>2. m.at = "saw"
  OBVIOUS
<1> HIDE DEF m
<1>3. /\ monitor'[s] = m /\ \A t \in Sessions : t # s => monitor'[t] = monitor[t]
      /\ MonitorOut' = MonitorOut
  BY <1>1, <1>2, MonitorGoesOn
<1>4. Pool' = Pool
  BY <1>1, <1>3 DEF Pool, OnTheWay, MainOut
<1>5. SlotStays
  BY <1>1, <1>2, <1>3, <1>4 DEF SlotStays, Cleared, Begun
<1> QED BY <1>1, <1>2, <1>3, <1>5, QuietKeeps

LEMMA MonitorEmitsCalmly ==
  ASSUME CaptionInv, CaptionInv', CalmInv, NEW s \in Sessions, MonitorEmits(s), ~lost'
  PROVE  CalmInv'
<1> DEFINE m == [monitor[s] EXCEPT !.at = "emitted"]
<1>1. /\ CaptionTypes /\ monitor[s].at = "cleared" /\ monitor' = [monitor EXCEPT ![s] = m]
      /\ inbox' = Append(inbox, monitor[s].frame)
      /\ UNCHANGED <<snapshots, owned, cleaned, starting, main, current, frame, seen, pending, sending>>
  BY DEF CaptionInv, CaptionTypes, MonitorEmits, Emit, EmitFails, webVars
<1>2. m.at = "emitted" /\ monitor[s].frame \in FrameType
  BY <1>1 DEF CaptionTypes, MonitorType
<1> HIDE DEF m
<1>3. /\ monitor'[s] = m /\ \A t \in Sessions : t # s => monitor'[t] = monitor[t]
      /\ MonitorOut' \cup {monitor[s].frame} = MonitorOut
  BY <1>1, <1>2, MonitorGoesOn
<1>4. OnTheWay' = OnTheWay \cup {monitor[s].frame}
  BY <1>1, <1>2, Emitted DEF CaptionTypes
<1>5. Pool' = Pool
  BY <1>1, <1>3, <1>4 DEF Pool, MainOut
<1>6. SlotStays
  BY <1>1, <1>2, <1>3, <1>5 DEF SlotStays, Cleared, Begun
<1> QED BY <1>1, <1>2, <1>3, <1>6, QuietKeeps

LEMMA MonitorHidesCalmly ==
  ASSUME CaptionInv, CaptionInv', CalmInv, NEW s \in Sessions, MonitorHides(s)
  PROVE  CalmInv'
<1> DEFINE m == [at |-> "done", frame |-> NoFrame]
<1>1. /\ CaptionTypes /\ monitor[s].at = "emitted" /\ monitor' = [monitor EXCEPT ![s] = m]
      /\ cleaned' = cleaned \cup {s}
      /\ UNCHANGED <<snapshots, owned, starting, main, current, inbox, frame, seen, pending, sending>>
  BY DEF CaptionInv, MonitorHides, eventVars, webVars
<1>2. m.at = "done"
  OBVIOUS
<1> HIDE DEF m
<1>3. /\ monitor'[s] = m /\ \A t \in Sessions : t # s => monitor'[t] = monitor[t]
      /\ MonitorOut' = MonitorOut
  BY <1>1, <1>2, MonitorGoesOn
<1>4. Pool' = Pool
  BY <1>1, <1>3 DEF Pool, OnTheWay, MainOut
<1>5. SlotStays
  BY <1>1, <1>2, <1>3, <1>4 DEF SlotStays, Cleared, Begun
<1> QED BY <1>1, <1>2, <1>3, <1>5, QuietKeeps

LEMMA StopGoesOnCalmly ==
  ASSUME CaptionInv, CaptionInv', CalmInv, StopEmits \/ StopHides, ~lost'
  PROVE  CalmInv'
<1>1. /\ CaptionTypes /\ main.frame \in FrameType
      /\ UNCHANGED <<snapshots, owned, starting, monitor, current, frame, seen, pending, sending>>
  BY DEF CaptionInv, CaptionTypes, MainType, StopEmits, StopHides, eventVars, webVars
<1>2. MonitorOut' = MonitorOut
  BY <1>1 DEF MonitorOut
<1>3. CASE StopEmits
  <2>1. /\ main.at = "stopEmit" /\ inbox' = Append(inbox, main.frame) /\ cleaned' = cleaned
        /\ main' = [at |-> "stopHide", frame |-> main.frame, previous |-> NoFrame]
    BY <1>3 DEF StopEmits, Emit, EmitFails, MainGoes
  <2>2. OnTheWay' = OnTheWay \cup {main.frame}
    BY <1>1, <2>1, Emitted DEF CaptionTypes
  <2>3. Pool' = Pool
    BY <1>1, <1>2, <2>1, <2>2 DEF Pool, MainOut
  <2>4. SlotStays
    BY <1>1, <2>1, <2>3 DEF SlotStays, Cleared, Begun
  <2> QED BY <1>1, <2>1, <2>4, QuietKeeps
<1>4. CASE StopHides
  <2>1. /\ main.at = "stopHide" /\ inbox' = inbox /\ cleaned' = cleaned \cup {main.frame.session}
        /\ main' = Idle
    BY <1>4 DEF StopHides, eventVars
  <2>2. Pool' = Pool
    BY <1>1, <1>2, <2>1 DEF Pool, MainOut, OnTheWay, Idle
  <2>3. SlotStays
    BY <1>1, <2>1, <2>2 DEF SlotStays, Cleared, Begun, Idle
  <2> QED BY <1>1, <2>1, <2>3, QuietKeeps DEF Idle
<1> QED BY <1>3, <1>4

\* The main thread goes on with other work than Stop.
LEMMA MainGoesOnCalmly ==
  ASSUME CaptionInv, CaptionInv', CalmInv,
         UNCHANGED <<snapshots, owned, cleaned, starting, monitor, current, frame, seen, pending>>,
         main.at \notin {"stop", "stopEmit", "stopHide"}, main'.at \notin {"stop", "stopEmit", "stopHide"},
         main'.at # "updateEmit",
         sending' \in {sending, NoFrame},
         OnTheWay' = OnTheWay \cup (IF main.at = "updateEmit" THEN {main.frame} ELSE {}),
         main'.at = "update" =>
           main' = main \/ (main'.frame = sending /\ sending # NoFrame /\ IsLive(sending.session))
  PROVE  CalmInv'
<1>1. MonitorOut' = MonitorOut
  BY DEF MonitorOut
<1>2. Pool' = Pool
  BY <1>1 DEF Pool, MainOut
<1>3. SlotStays
  BY <1>2 DEF SlotStays, Cleared, Begun
<1> QED BY <1>3, QuietKeeps

LEMMA UpdateGoesOnCalmly ==
  ASSUME CaptionInv, CaptionInv', CalmInv, ~lost',
         UpdateChecks \/ UpdateEmits \/ (UpdateReplaces /\ Outdated(main.frame))
  PROVE  CalmInv'
<1>1. UNCHANGED <<snapshots, owned, cleaned, starting, monitor, frame, seen, pending>>
  BY DEF UpdateChecks, UpdateReplaces, UpdateEmits, overlayVars, eventVars
<1>2. CASE UpdateChecks
  <2>1. main = Idle /\ inbox' = inbox /\ current' = current
    BY <1>2 DEF UpdateChecks, overlayVars, eventVars
  <2>2. CASE MainGoes("update", sending, NoFrame) /\ UNCHANGED sending /\ IsLive(sending.session)
    BY <1>1, <1>2, <2>1, <2>2, MainGoesOnCalmly DEF MainGoes, Idle, OnTheWay, UpdateChecks
  <2>3. CASE sending' = NoFrame /\ UNCHANGED main
    BY <1>1, <2>1, <2>3, MainGoesOnCalmly DEF Idle, OnTheWay
  <2> QED BY <1>2, <2>2, <2>3 DEF UpdateChecks
<1>3. CASE UpdateEmits
  <2>1. /\ main.at = "updateEmit" /\ inbox' = Append(inbox, main.frame) /\ current' = current
        /\ main' = Idle /\ sending' = NoFrame
    BY <1>3 DEF UpdateEmits, Emit, EmitFails
  <2>2. OnTheWay' = OnTheWay \cup {main.frame}
    BY <2>1, Emitted DEF CaptionInv, CaptionTypes, MainType
  <2> QED BY <1>1, <2>1, <2>2, MainGoesOnCalmly DEF Idle
<1>4. CASE UpdateReplaces /\ Outdated(main.frame)
  <2>1. main.at = "update" /\ main' = Idle /\ sending' = NoFrame /\ current' = current /\ inbox' = inbox
    BY <1>4 DEF UpdateReplaces, overlayVars, eventVars
  <2> QED BY <1>1, <2>1, MainGoesOnCalmly DEF Idle, OnTheWay
<1> QED BY <1>2, <1>3, <1>4

LEMMA StopWaitsCalmly ==
  ASSUME CaptionInv, CaptionInv', CalmInv, StopPressed \/ (StopRequests /\ ~owned)
  PROVE  CalmInv'
<1>1. /\ UNCHANGED <<snapshots, owned, cleaned, starting, monitor, current, frame, seen, pending, sending>>
      /\ inbox' = inbox /\ (main = Idle \/ main.at = "lock")
      /\ main' = Idle \/ MainGoes("lock", NoFrame, NoFrame)
  BY DEF StopPressed, StopRequests, overlayVars, eventVars, webVars
<1>2. main.at \in {"idle", "lock"} /\ main'.at \in {"idle", "lock"}
  BY <1>1 DEF Idle, MainGoes
<1> QED BY <1>1, <1>2, MainGoesOnCalmly DEF OnTheWay

LEMMA AppearanceGoesOnCalmly ==
  ASSUME CaptionInv, CaptionInv', CalmInv, ~lost',
         ShowAppearance \/ CloseAppearance \/ RestoreShows \/ (RestoreEmits /\ current = NoFrame)
  PROVE  CalmInv'
<1>1. /\ UNCHANGED <<snapshots, owned, cleaned, starting, monitor, current, frame, seen, pending, sending>>
      /\ inbox' = inbox /\ (main = Idle \/ main.at \in {"restore", "restoreShow"})
      /\ main' \in {main, Idle} \/ MainGoes("restore", NoFrame, NoFrame)
         \/ MainGoes("restoreShow", NoFrame, NoFrame)
  BY DEF ShowAppearance, CloseAppearance, RestoreShows, RestoreEmits, EmitFails,
         hostVars, eventVars, webVars
<1>2. main.at \in {"idle", "restore", "restoreShow"} /\ main'.at \in {"idle", "restore", "restoreShow"}
  BY <1>1 DEF Idle, MainGoes
<1> QED BY <1>1, <1>2, MainGoesOnCalmly DEF OnTheWay

LEMMA WebViewGoesOnCalmly ==
  ASSUME CaptionInv, CaptionInv', CalmInv, SeeSnapshot \/ CaptionsChange \/ Flush
  PROVE  CalmInv'
<1>1. UNCHANGED <<snapshots, owned, cleaned, starting, monitor, main, current, inbox, frame>>
  BY DEF SeeSnapshot, CaptionsChange, Flush, hostVars, overlayVars, eventVars
<1>2. SlotStays
  BY <1>1 DEF SlotStays, Pool, OnTheWay, MainOut, MonitorOut, Cleared, Begun
<1>3. /\ CaptionTypes /\ TurnsInv /\ BegunInv /\ snapshots \in Seq(SnapshotType)
      /\ Revision \in Nat /\ seen \in 0..Revision
  BY LastSnapshot DEF CaptionInv, CalmInv, CaptionTypes
<1>4. CASE SeeSnapshot
  <2>1. PICK r \in (seen + 1)..Revision :
          /\ seen' = r /\ sending' = sending
          /\ snapshots[r].phase = "live" => starting[snapshots[r].session].at # "begin"
          /\ \/ snapshots[r].phase = "live" /\ \E q : pending' = Frame(snapshots[r].session, r, q, "caption")
             \/ pending' = pending
    BY <1>4 DEF SeeSnapshot, Publish
  <2>2. r \in 1..Revision
    BY <1>3, <2>1
  <2>3. snapshots[r] \in SnapshotType /\ snapshots[r].session \in Sessions
    <3>1. snapshots[r] \in SnapshotType
      BY <1>3, <2>2 DEF Revision
    <3> QED BY <3>1 DEF SnapshotType
  <2>4. snapshots[r].session <= Snapshot.session
    <3>1. Revision \in 1..Revision /\ r \in 1..Revision /\ Revision # 0
      BY <1>3, <2>2
    <3>2. Snapshot = snapshots[Revision]
      BY <1>3, <3>1, LastSnapshot
    <3> QED BY <3>1, <3>2 DEF CaptionInv, History, Revision
  <2>5. starting[snapshots[r].session].at # "none"
    <3>1. snapshots[r].session \in Int /\ Snapshot.session \in Int
      BY <1>3, <2>3, LastSnapshot, CaptionBounds DEF Sessions
    <3> QED BY <1>3, <2>3, <2>4, <3>1 DEF TurnsInv
  <2>6. snapshots[r].phase = "live" => Begun(snapshots[r].session)
    BY <2>1, <2>5 DEF Begun
  <2>7. pending' \in {pending} \/ (pending'.session \in Sessions /\ Begun(pending'.session))
    <3>1. CASE pending' = pending
      BY <3>1
    <3>2. CASE snapshots[r].phase = "live" /\ \E q : pending' = Frame(snapshots[r].session, r, q, "caption")
      <4>1. pending'.session = snapshots[r].session
        BY <3>2, FieldsOfAFrame
      <4> QED BY <2>3, <2>6, <3>2, <4>1
    <3> QED BY <2>1, <3>1, <3>2
  <2>8. seen' \in 1..Revision /\ (Live(snapshots, seen') =>
          snapshots[seen'].session \in Sessions /\ Begun(snapshots[seen'].session))
    BY <2>1, <2>2, <2>3, <2>6 DEF Live
  <2> QED BY <1>1, <1>2, <2>1, <2>7, <2>8, QuietKeeps
<1>5. CASE CaptionsChange
  <2>1. seen \in 1..Revision /\ Epoch = snapshots[seen] /\ Live(snapshots, seen)
    BY <1>3, <1>5 DEF CaptionsChange, Epoch, SnapshotAt, NoSnapshot, Live
  <2>2. snapshots[seen].session \in Sessions /\ Begun(snapshots[seen].session)
    <3>1. snapshots[seen] \in SnapshotType /\ seen # 0
      BY <1>3, <2>1 DEF Revision
    <3> QED BY <1>3, <2>1, <3>1 DEF BegunInv, SnapshotType
  <2>3. pending' = Frame(snapshots[seen].session, seen, counter + 1, "caption")
        /\ sending' = sending /\ seen' = seen
    BY <1>5, <2>1 DEF CaptionsChange, Publish
  <2>4. pending'.session \in Sessions /\ Begun(pending'.session)
    BY <2>2, <2>3, FieldsOfAFrame
  <2> QED BY <1>1, <1>2, <2>3, <2>4, QuietKeeps
<1>6. CASE Flush
  <2>1. sending' = pending /\ pending' = NoFrame /\ seen' = seen
    BY <1>6 DEF Flush
  <2> QED BY <1>1, <1>2, <2>1, QuietKeeps
<1> QED BY <1>4, <1>5, <1>6

\* A snapshot leaves the slot, and who has been cleared, as they are.
LEMMA PublishedCalmly ==
  ASSUME CaptionInv, CaptionInv', CalmInv, NEW s \in Sessions, NEW phase \in Phases, Publishes(s, phase),
         Snapshot.session <= s, s = Snapshot.session /\ phase = "live" => Snapshot.phase = "live",
         UNCHANGED <<cleaned, monitor, current, inbox, frame, seen, pending, sending>>,
         \A t \in Sessions : Begun(t)' <=> Begun(t),
         main' = main \/ (main.at = "lock" /\ main'.at = "stop")
  PROVE  /\ Snapshot' = [session |-> s, phase |-> phase]
         /\ BegunInv' /\ ClearedInv' /\ OrderInv'
         /\ \A t \in Sessions : Cleared(t)' <=> Cleared(t)
         /\ \A t \in Sessions : Cleared(t)' => Ended(t)'
<1>1. Snapshot' = [session |-> s, phase |-> phase]
  BY PublishedLast
<1>2. FramesStay
  BY PublishedStay
<1>3. MainOut' = MainOut /\ \A t \in Sessions : Cleared(t)' <=> Cleared(t)
  BY DEF MainOut, Cleared, Idle
<1>4. SlotStays
  BY <1>3 DEF SlotStays, Pool, OnTheWay, MonitorOut
<1>5. BegunInv' /\ ClearedInv' /\ OrderInv'
  BY <1>2, <1>4, SlotStaysKeeps DEF CalmInv
<1>6. ASSUME NEW t \in Sessions, Cleared(t)
      PROVE  Ended(t)'
  <2>1. PICK r \in 1..Revision : snapshots[r].session = t /\ ~Live(snapshots, r)
    BY <1>6 DEF CalmInv, EndsInv, Ended
  <2>2. r \in 1..Revision' /\ snapshots'[r] = snapshots[r]
    BY <1>2 DEF FramesStay
  <2> QED BY <2>1, <2>2 DEF Ended, Live
<1> QED BY <1>1, <1>3, <1>5, <1>6

LEMMA StartSessionCalmly ==
  ASSUME CaptionInv, CaptionInv', CalmInv, BeginSession
  PROVE  CalmInv'
<1>1. /\ CaptionTypes /\ Snapshot.session \in 0..MaxSession /\ MaxSession \in Nat /\ Revision \in Nat
      /\ (Revision = 0 => Snapshot = NoSnapshot)
      /\ TurnsInv /\ EndsInv /\ BegunInv
      /\ occasion.sessions \in 0..MaxSession
  BY LastSnapshot, CaptionBounds DEF CaptionInv, CalmInv, CaptionTypes, Occasion
<1>0. PICK s \in Sessions : s = Snapshot.session + 1
  BY <1>1 DEF BeginSession, Sessions
<1>2. /\ ~owned /\ owned' = TRUE /\ Publishes(s, "live")
      /\ starting' = [starting EXCEPT ![s] = [at |-> "begin", revision |-> Revision + 1]]
      /\ UNCHANGED <<cleaned, monitor, main, current, inbox, frame, seen, pending, sending>>
  BY <1>0 DEF BeginSession, overlayVars, eventVars, webVars
<1>3. /\ s \in Sessions /\ Snapshot.session <= s /\ s # Snapshot.session /\ Snapshot.session < s
      /\ "live" \in Phases
      /\ \A t \in Sessions : t <= Snapshot.session => t # s
      /\ \A t \in Sessions : t < s => t < Snapshot.session \/ (t = Snapshot.session /\ Snapshot.session # 0)
      /\ \A t \in Sessions : Snapshot.session < t => t = s \/ s < t
  BY <1>0, <1>1 DEF Sessions, Phases
<1>4. /\ starting'[s].at = "begin" /\ \A t \in Sessions : t # s => starting'[t] = starting[t]
  BY <1>1, <1>2, <1>3 DEF CaptionTypes
<1>5. current.session <= Snapshot.session /\ current.session \in Nat
  BY SlotIsNotNewer
<1>6. ~Begun(s) /\ ~Begun(s)'
  <2>1. ~Begun(s)'
    BY <1>4 DEF Begun
  <2>2. ASSUME Begun(s) PROVE FALSE
    <3>1. s <= current.session
      BY <1>1, <1>3, <2>2 DEF BegunInv
    <3> QED BY <1>1, <1>3, <1>5, <3>1 DEF Sessions
  <2> QED BY <2>1, <2>2
<1>7. \A t \in Sessions : Begun(t)' <=> Begun(t)
  BY <1>4, <1>6 DEF Begun
<1>8. /\ Snapshot' = [session |-> s, phase |-> "live"]
      /\ BegunInv' /\ ClearedInv' /\ OrderInv'
      /\ \A t \in Sessions : Cleared(t)' => Ended(t)'
  BY <1>2, <1>3, <1>7, PublishedCalmly
<1>9. TurnsInv'
  <2>1. \A t \in Sessions : monitor[t].at # "saw"
    BY <1>1, <1>2 DEF TurnsInv
  <2>2. \A t \in Sessions : t # s => starting'[t].at # "begin"
    BY <1>1, <1>2, <1>4 DEF TurnsInv
  <2>3. main.at # "stop"
    BY <1>1, <1>2 DEF TurnsInv
  <2>4. \A t \in Sessions : starting'[t].at = "none" => s < t
    BY <1>1, <1>3, <1>4 DEF TurnsInv
  <2> QED BY <1>2, <1>8, <2>1, <2>2, <2>3, <2>4 DEF TurnsInv
<1>10. EndsInv'
  <2>1. Snapshot.session # 0 => Snapshot.session \in cleaned
    BY <1>1, <1>2 DEF EndsInv, NoSnapshot
  <2>2. \A t \in Sessions : t < s => t \in cleaned
    BY <1>1, <1>3, <2>1 DEF EndsInv
  <2> QED BY <1>2, <1>8, <2>2 DEF EndsInv
<1> QED BY <1>8, <1>9, <1>10 DEF CalmInv

\* A snapshot of the session that is not over: nobody's turn changes.
LEMMA SnapshotCalmly ==
  ASSUME CaptionInv, CaptionInv', CalmInv, Progress \/ SessionFails
  PROVE  CalmInv'
<1>1. PICK phase \in {"live", "failed"} :
        Publishes(Snapshot.session, phase) /\ (phase = "live" => Snapshot.phase = "live")
  BY DEF Progress, SessionFails
<1>2. /\ Snapshot.phase \in {"live", "stopping"}
      /\ UNCHANGED <<owned, cleaned, starting, monitor, main, current, inbox, frame, seen, pending, sending>>
  BY DEF Progress, SessionFails, overlayVars, eventVars, webVars
<1>3. /\ Snapshot.session \in Sessions /\ Snapshot.session <= Snapshot.session /\ phase \in Phases
      /\ Revision # 0 /\ Revision \in Nat
  <2>1. Revision # 0 /\ Revision \in Nat /\ Snapshot \in SnapshotType
    BY <1>2, LastSnapshot DEF CaptionInv, NoSnapshot
  <2> QED BY <2>1, CaptionBounds DEF SnapshotType, Sessions, Phases
<1>4. \A t \in Sessions : Begun(t)' <=> Begun(t)
  BY <1>2 DEF Begun
<1>5. /\ Snapshot' = [session |-> Snapshot.session, phase |-> phase]
      /\ BegunInv' /\ ClearedInv' /\ OrderInv'
      /\ \A t \in Sessions : Cleared(t)' => Ended(t)'
  BY <1>1, <1>2, <1>3, <1>4, PublishedCalmly
<1>6. TurnsInv'
  <2>1. owned => owned'
    BY <1>2
  <2> QED BY <1>2, <1>5, <2>1 DEF CalmInv, TurnsInv
<1>7. EndsInv'
  <2>1. ~owned' => ~owned
    BY <1>2
  <2> QED BY <1>2, <1>3, <1>5, <2>1 DEF CalmInv, EndsInv
<1> QED BY <1>5, <1>6, <1>7 DEF CalmInv

LEMMA SessionReleasedCalmly ==
  ASSUME CaptionInv, CaptionInv', CalmInv, ~Disturbed("overtaking"), SessionReleased
  PROVE  CalmInv'
<1> DEFINE s == Snapshot.session
<1>1. /\ s \in cleaned /\ owned' = FALSE /\ Snapshot.phase \in {"failed", "stopping"}
      /\ monitor[s].at # "saw" /\ starting[s].at # "begin" /\ main.at # "stop"
      /\ UNCHANGED <<cleaned, starting, monitor, main, current, inbox, frame, seen, pending, sending>>
  BY DEF SessionReleased, overlayVars, eventVars, webVars
<1>2. s \in Sessions /\ s <= s /\ "over" \in Phases /\ CaptionTypes
  BY <1>1, LastSnapshot, CaptionBounds DEF CaptionInv, CaptionTypes, Sessions, Phases
<1>3. \A t \in Sessions : Begun(t)' <=> Begun(t)
  BY <1>1 DEF Begun
<1>4. /\ Snapshot'.session = Snapshot.session /\ Snapshot'.phase # "stopping"
      /\ BegunInv' /\ ClearedInv' /\ OrderInv'
      /\ \A t \in Sessions : Cleared(t)' => Ended(t)'
  <2>1. CASE Publishes(s, "over")
    <3>1. /\ Snapshot' = [session |-> s, phase |-> "over"]
          /\ BegunInv' /\ ClearedInv' /\ OrderInv'
          /\ \A t \in Sessions : Cleared(t)' => Ended(t)'
      BY <1>1, <1>2, <1>3, <2>1, PublishedCalmly
    <3> QED BY <3>1
  <2>2. CASE Snapshot.phase # "stopping" /\ UNCHANGED snapshots
    <3>1. FramesStay /\ Revision' = Revision /\ Snapshot' = Snapshot
      BY <1>2, <2>2, UnpublishedStay DEF Snapshot, SnapshotAt
    <3>2. SlotStays
      BY <1>1, <1>3 DEF SlotStays, Pool, OnTheWay, MainOut, MonitorOut, Cleared
    <3>3. BegunInv' /\ ClearedInv' /\ OrderInv'
      BY <1>1, <3>1, <3>2, SlotStaysKeeps DEF CalmInv
    <3>4. \A t \in Sessions : Cleared(t)' => Ended(t)'
      BY <2>2, <3>1, <3>2 DEF SlotStays, CalmInv, EndsInv, Ended, Live
    <3> QED BY <2>2, <3>1, <3>3, <3>4
  <2> QED BY <2>1, <2>2 DEF SessionReleased
<1>5. \A t \in Sessions : monitor[t].at # "saw" /\ starting[t].at # "begin"
  BY <1>1, <1>2 DEF CalmInv, TurnsInv
<1>6. TurnsInv'
  BY <1>1, <1>4, <1>5 DEF CalmInv, TurnsInv
<1>7. EndsInv'
  BY <1>1, <1>4 DEF CalmInv, EndsInv
<1> QED BY <1>4, <1>6, <1>7 DEF CalmInv

LEMMA StopRequestsCalmly ==
  ASSUME CaptionInv, CaptionInv', CalmInv, StopRequests, owned
  PROVE  CalmInv'
<1> DEFINE s == Snapshot.session
<1>1. /\ main.at = "lock" /\ owned /\ owned' = owned
      /\ main'.at = "stop" /\ main'.frame.session = s
      /\ UNCHANGED <<cleaned, starting, monitor, current, inbox, frame, seen, pending, sending>>
  BY FieldsOfAFrame DEF StopRequests, MainGoes, overlayVars, eventVars, webVars
<1>2. s \in Sessions /\ s <= s /\ "stopping" \in Phases /\ CaptionTypes
  <2>1. Revision # 0 /\ Snapshot \in SnapshotType
    BY <1>1, LastSnapshot DEF CaptionInv, OwnedInv, NoSnapshot
  <2> QED BY <2>1, CaptionBounds DEF CaptionInv, SnapshotType, Sessions, Phases
<1>3. \A t \in Sessions : Begun(t)' <=> Begun(t)
  BY <1>1 DEF Begun
<1>4. /\ Snapshot' = [session |-> s, phase |-> "stopping"] \/ Snapshot' = Snapshot
      /\ BegunInv' /\ ClearedInv' /\ OrderInv'
      /\ \A t \in Sessions : Cleared(t)' => Ended(t)'
  <2>1. CASE Publishes(s, "stopping")
    BY <1>1, <1>2, <1>3, <2>1, PublishedCalmly
  <2>2. CASE UNCHANGED snapshots
    <3>1. FramesStay /\ Revision' = Revision /\ Snapshot' = Snapshot
      BY <1>2, <2>2, UnpublishedStay DEF Snapshot, SnapshotAt
    <3>2. SlotStays
      BY <1>1, <1>3 DEF SlotStays, Pool, OnTheWay, MainOut, MonitorOut, Cleared, Idle
    <3>3. BegunInv' /\ ClearedInv' /\ OrderInv'
      BY <1>1, <3>1, <3>2, SlotStaysKeeps DEF CalmInv
    <3>4. \A t \in Sessions : Cleared(t)' => Ended(t)'
      BY <2>2, <3>1, <3>2 DEF SlotStays, CalmInv, EndsInv, Ended, Live
    <3> QED BY <3>1, <3>3, <3>4
  <2> QED BY <2>1, <2>2 DEF StopRequests
<1>5. Snapshot'.session = Snapshot.session
  BY <1>4
<1>6. owned'
  BY <1>1
<1>7. TurnsInv'
  BY <1>1, <1>5, <1>6 DEF CalmInv, TurnsInv
<1>8. EndsInv'
  BY <1>1, <1>4, <1>5, <1>6 DEF CalmInv, EndsInv
<1> QED BY <1>4, <1>7, <1>8 DEF CalmInv

\* Nothing is published, and what is new on its way or in the slot ends its
\* session or has begun.
LEMMA BegunStays ==
  ASSUME CaptionInv, BegunInv, UNCHANGED <<snapshots, seen, pending>>, sending' \in {sending, NoFrame},
         \A s \in Sessions : Begun(s) => Begun(s)',
         \A f \in Pool' \cup {current'} :
           \/ f \in Pool \cup {current}
           \/ ~Live(snapshots, f.runtime)
           \/ starting'[f.session].at \notin {"none", "begin"},
         main'.at = "update" => main' = main,
         \A s \in Sessions : Begun(s)' => s <= current'.session
  PROVE  BegunInv'
<1>1. /\ Frames(snapshots, Pool \cup {current, pending, sending, main.frame})
      /\ snapshots \in Seq(SnapshotType) /\ History(snapshots) /\ CaptionTypes
  BY PoolIsSound DEF CaptionInv
<1>2. \A f \in Pool \cup {current, pending, sending, main.frame} : f # NoFrame => f.session \in Sessions
  <2> SUFFICES ASSUME NEW f \in Pool \cup {current, pending, sending, main.frame}, f # NoFrame
               PROVE  f.session \in Sessions
    OBVIOUS
  <2>1. Frames(snapshots, {f, f})
    BY <1>1 DEF Frames
  <2> QED BY <1>1, <2>1, FramesInTime
<1>3. ASSUME NEW f \in Pool \cup {current, pending, sending}, f # NoFrame, Live(snapshots, f.runtime)
      PROVE  starting'[f.session].at \notin {"none", "begin"}
  <2>1. f.session \in Sessions /\ Begun(f.session)
    BY <1>2, <1>3 DEF BegunInv
  <2> QED BY <2>1 DEF Begun
<1>4. \A f \in Pool' \cup {current', pending', sending'} :
        f # NoFrame /\ Live(snapshots, f.runtime) => starting'[f.session].at \notin {"none", "begin"}
  BY <1>3
<1>5. main'.at = "update" => starting'[main'.frame.session].at \notin {"none", "begin"}
  <2>1. SUFFICES ASSUME main.at = "update"
                 PROVE  starting'[main.frame.session].at \notin {"none", "begin"}
    OBVIOUS
  <2>2. main.frame # NoFrame
    BY <2>1 DEF CaptionInv, FramesInv, NoFrame
  <2>3. main.frame.session \in Sessions /\ Begun(main.frame.session)
    BY <1>2, <2>1, <2>2 DEF BegunInv
  <2> QED BY <2>3 DEF Begun
<1>6. ASSUME seen # 0, Live(snapshots, seen)
      PROVE  starting'[snapshots[seen].session].at \notin {"none", "begin"}
  <2>1. seen \in 1..Len(snapshots)
    BY <1>1, <1>6 DEF CaptionTypes, Revision
  <2>2. snapshots[seen] \in SnapshotType
    BY <1>1, <2>1
  <2>3. snapshots[seen].session \in Sessions /\ Begun(snapshots[seen].session)
    BY <1>6, <2>2 DEF BegunInv, SnapshotType
  <2> QED BY <2>3 DEF Begun
<1> QED BY <1>4, <1>5, <1>6 DEF BegunInv, Begun

\* The slot is emitted once more: start_capture and closing Appearance.
LEMMA RepeatCalmly ==
  ASSUME CaptionInv, CaptionInv', CalmInv,
         UNCHANGED <<snapshots, owned, cleaned, monitor, current, frame, seen, pending, sending>>,
         inbox' = Append(inbox, current),
         main' = main \/ (main.at = "restore" /\ main'.at = "restoreShow"),
         \A s \in Sessions : starting'[s].at = starting[s].at
                             \/ (starting[s].at = "placed" /\ starting'[s].at = "emitted")
  PROVE  CalmInv'
<1>1. /\ BegunInv /\ TurnsInv /\ EndsInv /\ ClearedInv /\ OrderInv /\ CaptionTypes
  BY DEF CalmInv, CaptionInv
<1>2. OnTheWay' = OnTheWay \cup {current}
  BY <1>1, Emitted DEF CaptionTypes
<1>3. MainOut' = MainOut /\ MonitorOut' = MonitorOut /\ Pool' = Pool \cup {current}
  BY <1>2 DEF MainOut, MonitorOut, Pool
<1>4. \A s \in Sessions : (Cleared(s)' <=> Cleared(s)) /\ (Begun(s)' <=> Begun(s))
  BY DEF Cleared, Begun
<1>5. ClearedSessions' = ClearedSessions
  BY <1>4 DEF ClearedSessions
<1>6. OrderInv'
  <2>1. Ordered(snapshots, Pool \cup {current}, current, ClearedSessions)
    BY <1>1, OrderWithRepeat DEF OrderInv
  <2> QED BY <1>3, <1>5, <2>1 DEF OrderInv
<1>7. ClearedInv'
  BY <1>1, <1>4 DEF ClearedInv
<1>8. TurnsInv' /\ EndsInv'
  BY <1>1, <1>4, TurnsStay
<1>9. BegunInv'
  <2>1. \A s \in Sessions : Begun(s)' => s <= current'.session
    BY <1>1, <1>4 DEF BegunInv
  <2> QED BY <1>1, <1>3, <1>4, <2>1, BegunStays
<1> QED BY <1>6, <1>7, <1>8, <1>9 DEF CalmInv

LEMMA EmissionsRepeatCalmly ==
  ASSUME CaptionInv, CaptionInv', CalmInv, ~lost',
         (\E s \in Sessions : StartEmits(s)) \/ (RestoreEmits /\ current # NoFrame)
  PROVE  CalmInv'
<1>1. ASSUME NEW s \in Sessions, StartEmits(s)
      PROVE  CalmInv'
  <2>1. /\ starting[s].at = "placed" /\ starting' = [starting EXCEPT ![s].at = "emitted"]
        /\ inbox' = Append(inbox, current)
        /\ UNCHANGED <<snapshots, owned, cleaned, monitor, main, current, frame, seen, pending, sending>>
    BY <1>1 DEF StartEmits, Emit, EmitFails, webVars
  <2>2. starting'[s].at = "emitted" /\ \A t \in Sessions : t # s => starting'[t] = starting[t]
    BY <2>1, StartGoesOn DEF CaptionInv
  <2> QED BY <2>1, <2>2, RepeatCalmly
<1>2. CASE RestoreEmits /\ current # NoFrame
  <2>1. /\ main.at = "restore" /\ main'.at = "restoreShow"
        /\ inbox' = Append(inbox, current)
        /\ UNCHANGED <<snapshots, owned, cleaned, starting, monitor, current, frame, seen, pending, sending>>
    BY <1>2 DEF RestoreEmits, Emit, EmitFails, MainGoes, webVars
  <2> QED BY <2>1, RepeatCalmly
<1> QED BY <1>1, <1>2

\* A clear of the newest session goes into the slot and on its way: the monitor
\* and Stop.
LEMMA ClearCalmly ==
  ASSUME CaptionInv, CaptionInv', CalmInv, NEW s \in Sessions, NEW x,
         Snapshot.session = s, Ending(snapshots, x, s), x \in FrameType,
         x.presentation = IF current.session = s THEN current.presentation + 1 ELSE 0,
         current' = x, Pool' = Pool \cup {x},
         UNCHANGED <<snapshots, owned, cleaned, starting, frame, seen, pending, sending>>,
         Cleared(s)', \A t \in Sessions : t # s => (Cleared(t)' <=> Cleared(t)),
         \A t \in Sessions : monitor'[t].at = "saw" => monitor[t].at = "saw",
         main'.at \in {"stop", "update"} => main' = main,
         main.at = "stop" => main'.at = "stop" \/ main.frame.session = s
  PROVE  CalmInv'
<1>1. /\ BegunInv /\ TurnsInv /\ EndsInv /\ ClearedInv /\ OrderInv /\ CaptionTypes
  BY DEF CalmInv, CaptionInv
<1>2. /\ Frames(snapshots, Pool \cup {current, pending, sending, main.frame})
      /\ snapshots \in Seq(SnapshotType) /\ History(snapshots)
  BY PoolIsSound
<1>3. /\ x.session = s /\ x.content = "cleared" /\ ~Live(snapshots, x.runtime) /\ Sound(snapshots, x)
      /\ x.runtime \in 1..Len(snapshots)
  BY EndingsAreSound DEF Ending
<1>4. x # NoFrame
  BY <1>3 DEF NoFrame
<1>5. Ended(s)
  BY <1>3 DEF Ending, Ended, Revision
<1>6. Len(snapshots) # 0 /\ snapshots[Len(snapshots)].session = s
  <2>1. Revision # 0
    BY <1>1, <1>3, LastSnapshot DEF Revision
  <2> QED BY <1>1, <2>1, LastSnapshot DEF Revision
<1>7. current.session \in 0..s /\ s \in Nat
  BY SlotIsNotNewer, CaptionBounds DEF Sessions
<1>8. \A t \in Sessions : Cleared(t) => Cleared(t)'
  OBVIOUS
<1>9. OrderInv'
  <2>1. \A g \in Pool : g.content = "caption" /\ g.session = s => current.session = s
    <3> SUFFICES ASSUME NEW g \in Pool, g.content = "caption", g.session = s
                 PROVE  current.session = s
      OBVIOUS
    <3>1. g # NoFrame /\ Live(snapshots, g.runtime)
      BY <1>2 DEF Frames, Sound, NoFrame
    <3>2. Begun(s)
      BY <1>1, <3>1 DEF BegunInv
    <3>3. s <= current.session
      BY <1>1, <3>2 DEF BegunInv
    <3> QED BY <1>7, <3>3
  <2>2. ClearedSessions \subseteq ClearedSessions' /\ s \in ClearedSessions'
    BY <1>8 DEF ClearedSessions
  <2>3. Frames(snapshots, Pool \cup {current}) /\ Frames(snapshots, {x})
    BY <1>2, <1>3 DEF Frames
  <2>4. \A E : ClearedSessions \subseteq E /\ s \in E => Ordered(snapshots, Pool \cup {x}, x, E)
    BY <1>1, <1>2, <1>3, <1>4, <1>6, <2>1, <2>3, OrderWithClear DEF OrderInv
  <2> QED BY <2>2, <2>4 DEF OrderInv
<1>10. ClearedInv'
  BY <1>3 DEF ClearedInv
<1>11. TurnsInv' /\ EndsInv'
  <2>1. \A t \in Sessions : Cleared(t)' => Cleared(t) \/ Ended(t)
    BY <1>5
  <2>2. \A t \in Sessions : main.at = "stop" /\ main.frame.session = t => main'.at = "stop" \/ Cleared(t)'
    OBVIOUS
  <2>3. main'.at = "stop" => main' = main
    OBVIOUS
  <2> QED BY <1>1, <1>8, <2>1, <2>2, <2>3, TurnsStay
<1>12. BegunInv'
  <2>1. \A t \in Sessions : Begun(t)' <=> Begun(t)
    BY DEF Begun
  <2>2. \A t \in Sessions : Begun(t)' => t <= current'.session
    BY <1>1, <1>3, <1>7, <2>1, CaptionBounds DEF BegunInv, Sessions
  <2> QED BY <1>1, <1>3, <2>1, <2>2, BegunStays
<1> QED BY <1>9, <1>10, <1>11, <1>12 DEF CalmInv

LEMMA FieldsOfAClear ==
  ASSUME NEW s, NEW r
  PROVE  ClearedFrame(s, r).presentation = IF current.session = s THEN current.presentation + 1 ELSE 0
BY FieldsOfAFrame DEF ClearedFrame

LEMMA MonitorClearsCalmly ==
  ASSUME CaptionInv, CaptionInv', CalmInv, NEW s \in Sessions, MonitorClears(s)
  PROVE  CalmInv'
<1>1. PICK x : x = ClearedFrame(s, monitor[s].frame.runtime)
  OBVIOUS
<1>2. PICK m : m = [at |-> "cleared", frame |-> x]
  OBVIOUS
<1>3. /\ monitor[s].at = "saw" /\ current' = x /\ monitor' = [monitor EXCEPT ![s] = m]
      /\ UNCHANGED <<snapshots, owned, cleaned, starting, main, inbox, frame, seen, pending, sending>>
  BY <1>1, <1>2 DEF MonitorClears, overlayVars, eventVars, webVars
<1>4. m.at = "cleared" /\ m.frame = x /\ CaptionTypes
  BY <1>2 DEF CaptionInv
<1>5. /\ monitor'[s] = m /\ \A t \in Sessions : t # s => monitor'[t] = monitor[t]
      /\ MonitorOut' = MonitorOut \cup {x}
  BY <1>3, <1>4, MonitorGoesOn
<1>6. Pool' = Pool \cup {x}
  BY <1>3, <1>5 DEF Pool, OnTheWay, MainOut
<1>7. Snapshot.session = s
  BY <1>3 DEF CalmInv, TurnsInv
<1>8. Ending(snapshots, monitor[s].frame, s) /\ monitor[s].frame \in FrameType
  BY <1>3, <1>4 DEF CaptionInv, FramesInv, CaptionTypes, MonitorType
<1>9. x \in FrameType /\ Ending(snapshots, x, s)
  BY <1>1, <1>8, ClearIsSound
<1>10. x.presentation = IF current.session = s THEN current.presentation + 1 ELSE 0
  BY <1>1, FieldsOfAClear
<1>11. Cleared(s)' /\ \A t \in Sessions : t # s => (Cleared(t)' <=> Cleared(t))
  BY <1>3, <1>4, <1>5 DEF Cleared
<1>12. \A t \in Sessions : monitor'[t].at = "saw" => monitor[t].at = "saw"
  BY <1>4, <1>5
<1> QED BY <1>3, <1>6, <1>7, <1>9, <1>10, <1>11, <1>12, ClearCalmly

LEMMA StopClearsCalmly ==
  ASSUME CaptionInv, CaptionInv', CalmInv, StopClears
  PROVE  CalmInv'
<1>1. PICK x : x = ClearedFrame(main.frame.session, main.frame.runtime)
  OBVIOUS
<1>2. /\ main.at = "stop" /\ current' = x
      /\ main'.at = "stopEmit" /\ main'.frame = x
      /\ UNCHANGED <<snapshots, owned, cleaned, starting, monitor, inbox, frame, seen, pending, sending>>
  BY <1>1 DEF StopClears, MainGoes, overlayVars, eventVars, webVars
<1>3. CaptionTypes /\ main.frame \in FrameType /\ snapshots \in Seq(SnapshotType)
  BY DEF CaptionInv, CaptionTypes, MainType
<1>4. Ending(snapshots, main.frame, main.frame.session)
  BY <1>2 DEF CaptionInv, FramesInv
<1>5. PICK s \in Sessions : main.frame.session = s
  <2>1. /\ main.frame.runtime \in 1..Len(snapshots)
        /\ snapshots[main.frame.runtime].session = main.frame.session
    BY <1>4 DEF Ending
  <2>2. snapshots[main.frame.runtime] \in SnapshotType
    BY <1>3, <2>1
  <2> QED BY <2>1, <2>2 DEF SnapshotType
<1>6. x \in FrameType /\ Ending(snapshots, x, s)
  BY <1>1, <1>3, <1>4, <1>5, ClearIsSound
<1>7. x.presentation = IF current.session = s THEN current.presentation + 1 ELSE 0
  BY <1>1, <1>5, FieldsOfAClear
<1>8. x.session = s
  BY <1>6 DEF Ending
<1>9. Pool' = Pool \cup {x}
  BY <1>2 DEF Pool, OnTheWay, MainOut, MonitorOut
<1>10. Snapshot.session = s
  BY <1>2, <1>5 DEF CalmInv, TurnsInv
<1>11. Cleared(s)' /\ \A t \in Sessions : t # s => (Cleared(t)' <=> Cleared(t))
  BY <1>2, <1>8 DEF Cleared
<1> QED BY <1>2, <1>5, <1>6, <1>7, <1>9, <1>10, <1>11, ClearCalmly

LEMMA StartBeginsCalmly ==
  ASSUME CaptionInv, CaptionInv', CalmInv, NEW s \in Sessions, StartBegins(s)
  PROVE  CalmInv'
<1>1. /\ BegunInv /\ TurnsInv /\ EndsInv /\ ClearedInv /\ OrderInv /\ CaptionTypes
  BY DEF CalmInv, CaptionInv
<1>2. /\ Frames(snapshots, Pool \cup {current, pending, sending, main.frame})
      /\ snapshots \in Seq(SnapshotType) /\ History(snapshots)
  BY PoolIsSound
<1>3. PICK x : x = Frame(s, starting[s].revision, 0, "cleared")
  OBVIOUS
<1>4. /\ starting[s].at = "begin" /\ current' = x
      /\ starting' = [starting EXCEPT ![s] = [at |-> "preparing", revision |-> 0]]
      /\ UNCHANGED <<snapshots, owned, cleaned, monitor, main, inbox, frame, seen, pending, sending>>
  BY <1>3 DEF StartBegins, overlayVars, eventVars, webVars
<1>5. /\ x.session = s /\ x.content = "cleared" /\ x.runtime = starting[s].revision
      /\ x.runtime \in 1..Len(snapshots) /\ Live(snapshots, x.runtime)
      /\ snapshots[x.runtime].session = s
  <2>1. /\ starting[s].revision \in 1..Revision
        /\ snapshots[starting[s].revision] = [session |-> s, phase |-> "live"]
    BY <1>4 DEF CaptionInv, FramesInv
  <2> QED BY <1>3, <2>1, FieldsOfAFrame DEF Live, Revision
<1>6. x # NoFrame /\ Frames(snapshots, {x})
  <2>1. x # NoFrame
    BY <1>5 DEF NoFrame
  <2>2. x \in FrameType
    BY <1>4 DEF CaptionInv, CaptionTypes
  <2> QED BY <1>5, <2>1, <2>2 DEF Frames, Sound
<1>7. Snapshot.session = s /\ ~Begun(s)
  BY <1>1, <1>4 DEF TurnsInv, Begun
<1>8. snapshots[Len(snapshots)].session = s
  <2>1. Revision # 0
    BY <1>1, <1>5, LastSnapshot DEF Revision
  <2> QED BY <1>1, <1>7, <2>1, LastSnapshot DEF Revision
<1>9. starting'[s].at = "preparing" /\ \A t \in Sessions : t # s => starting'[t] = starting[t]
  BY <1>1, <1>4 DEF CaptionTypes
<1>10. Pool' = Pool /\ \A t \in Sessions : Cleared(t)' <=> Cleared(t)
  BY <1>4 DEF Pool, OnTheWay, MainOut, MonitorOut, Cleared
<1>11. \A f \in Pool \cup {current} : f # NoFrame /\ Live(snapshots, f.runtime) => f.session # s
  BY <1>1, <1>7 DEF BegunInv
<1>12. current.content # "caption"
  <2>1. SUFFICES ASSUME current.content = "caption" PROVE FALSE
    OBVIOUS
  <2>2. current # NoFrame /\ Live(snapshots, current.runtime)
    BY <1>2, <2>1 DEF Frames, Sound, NoFrame
  <2>3. current.session \in Sessions /\ current.session < s
    <3>1. current.session # s
      BY <1>11, <2>2
    <3>2. current.session \in 0..s /\ current.session \in Sessions
      BY <1>7, <2>2, SlotIsNotNewer
    <3> QED BY <3>1, <3>2, CaptionBounds DEF Sessions
  <2>4. Cleared(current.session)
    BY <1>1, <1>7, <2>3 DEF EndsInv, Cleared
  <2> QED BY <1>1, <2>1, <2>3, <2>4 DEF ClearedInv
<1>13. OrderInv'
  <2>1. Frames(snapshots, Pool \cup {current})
    BY <1>2 DEF Frames
  <2>2. Ordered(snapshots, Pool, x, ClearedSessions)
    BY <1>1, <1>2, <1>5, <1>6, <1>8, <1>11, <1>12, <2>1, OrderWithBegin DEF OrderInv
  <2>3. ClearedSessions' = ClearedSessions
    BY <1>10 DEF ClearedSessions
  <2> QED BY <1>4, <1>10, <2>2, <2>3 DEF OrderInv
<1>14. ClearedInv'
  <2>1. main.at = "update" => main.frame.session # s
    BY <1>1, <1>7 DEF BegunInv
  <2> QED BY <1>4, <1>5, <2>1 DEF ClearedInv
<1>15. TurnsInv' /\ EndsInv'
  <2>1. \A t \in Sessions : starting'[t].at \in {"none", "begin"} => starting'[t].at = starting[t].at
    BY <1>9
  <2> QED BY <1>1, <1>4, <1>10, <2>1, TurnsStay
<1>16. BegunInv'
  <2>1. \A t \in Sessions : (Begun(t) => Begun(t)') /\ (Begun(t)' => Begun(t) \/ t = s)
    BY <1>9 DEF Begun
  <2>2. \A t \in Sessions : Begun(t)' => t <= current'.session
    <3>1. current.session \in 0..s
      BY <1>7, SlotIsNotNewer
    <3> QED BY <1>1, <1>4, <1>5, <2>1, <3>1, CaptionBounds DEF BegunInv, Sessions
  <2> QED BY <1>1, <1>4, <1>5, <1>9, <1>10, <2>1, <2>2, BegunStays
<1> QED BY <1>13, <1>14, <1>15, <1>16 DEF CalmInv

LEMMA UpdateReplacesCalmly ==
  ASSUME CaptionInv, CaptionInv', CalmInv, UpdateReplaces, ~Outdated(main.frame)
  PROVE  CalmInv'
<1>1. /\ BegunInv /\ TurnsInv /\ EndsInv /\ ClearedInv /\ OrderInv /\ CaptionTypes
  BY DEF CalmInv, CaptionInv
<1>2. /\ Frames(snapshots, Pool \cup {current, pending, sending, main.frame})
      /\ snapshots \in Seq(SnapshotType) /\ History(snapshots)
  BY PoolIsSound
<1>3. PICK x : x = main.frame
  OBVIOUS
<1>4. /\ main.at = "update" /\ main'.at = "updateEmit" /\ main'.frame = x /\ current' = x
      /\ UNCHANGED <<snapshots, owned, cleaned, starting, monitor, inbox, frame, seen, pending, sending>>
  BY <1>3 DEF UpdateReplaces, MainGoes, overlayVars, eventVars
<1>5. x.content = "caption" /\ x # NoFrame /\ Live(snapshots, x.runtime)
  <2>1. x.content = "caption"
    BY <1>3, <1>4 DEF CaptionInv, FramesInv
  <2> QED BY <1>2, <1>3, <2>1 DEF Frames, Sound, NoFrame
<1>6. Frames(snapshots, {x, x}) /\ Frames(snapshots, {x, current}) /\ Frames(snapshots, {current, x})
  BY <1>2, <1>3 DEF Frames
<1>7. x.session \in Sessions /\ Begun(x.session)
  BY <1>1, <1>2, <1>3, <1>4, <1>5, <1>6, FramesInTime DEF BegunInv
<1>8. current # NoFrame
  <2>1. x.session <= current.session
    BY <1>1, <1>7 DEF BegunInv
  <2> QED BY <1>7, <2>1, CaptionBounds DEF NoFrame, Sessions
<1>9. current.session = x.session /\ x.runtime >= current.runtime /\ x.presentation > current.presentation
  <2>1. /\ current.session = x.session /\ ~(x.runtime < current.runtime)
        /\ ~(x.presentation <= current.presentation)
    BY <1>3, <1>8 DEF Outdated
  <2>2. /\ x.runtime \in Nat /\ current.runtime \in Nat
        /\ x.presentation \in Nat /\ current.presentation \in Nat
    BY <1>2, <1>6, FramesInTime
  <2> QED BY <2>1, <2>2
<1>10. ~Cleared(x.session)
  <2>1. SUFFICES ASSUME Cleared(x.session) PROVE FALSE
    OBVIOUS
  <2>2. ~Live(snapshots, current.runtime)
    BY <1>1, <1>3, <1>4, <1>7, <1>9, <2>1 DEF ClearedInv
  <2>3. x.runtime < current.runtime
    BY <1>2, <1>5, <1>6, <1>8, <1>9, <2>2, FramesInTime
  <2>4. x.runtime \in Nat /\ current.runtime \in Nat
    BY <1>2, <1>6, FramesInTime
  <2> QED BY <1>9, <2>3, <2>4
<1>11. Pool' = Pool \cup {x} /\ \A t \in Sessions : (Cleared(t)' <=> Cleared(t)) /\ (Begun(t)' <=> Begun(t))
  BY <1>4 DEF Pool, OnTheWay, MainOut, MonitorOut, Cleared, Begun
<1>12. OrderInv'
  <2>1. Frames(snapshots, Pool \cup {current}) /\ Frames(snapshots, {x})
    BY <1>2, <1>6 DEF Frames
  <2>2. x.session \notin ClearedSessions
    BY <1>10 DEF ClearedSessions
  <2>3. Ordered(snapshots, Pool \cup {x}, x, ClearedSessions)
    BY <1>1, <1>2, <1>5, <1>8, <1>9, <2>1, <2>2, OrderWithUpdate DEF OrderInv
  <2>4. ClearedSessions' = ClearedSessions
    BY <1>11 DEF ClearedSessions
  <2> QED BY <1>4, <1>11, <2>3, <2>4 DEF OrderInv
<1>13. ClearedInv'
  <2>1. \A t \in Sessions : Cleared(t)' => t # x.session
    BY <1>10, <1>11
  <2> QED BY <1>4, <2>1 DEF ClearedInv
<1>14. TurnsInv' /\ EndsInv'
  BY <1>1, <1>4, <1>11, TurnsStay
<1>15. BegunInv'
  <2>1. \A t \in Sessions : Begun(t)' => t <= current'.session
    BY <1>1, <1>4, <1>9, <1>11 DEF BegunInv
  <2>2. starting'[x.session].at \notin {"none", "begin"}
    BY <1>4, <1>7 DEF Begun
  <2> QED BY <1>1, <1>4, <1>11, <2>1, <2>2, BegunStays
<1> QED BY <1>12, <1>13, <1>14, <1>15 DEF CalmInv

LEMMA OverlayReceivesCalmly ==
  ASSUME CaptionInv, CaptionInv', CalmInv, OverlayReceives
  PROVE  CalmInv'
<1>1. /\ BegunInv /\ TurnsInv /\ EndsInv /\ ClearedInv /\ OrderInv /\ CaptionTypes
  BY DEF CalmInv, CaptionInv
<1>2. /\ Frames(snapshots, Pool \cup {current, pending, sending, main.frame})
      /\ snapshots \in Seq(SnapshotType) /\ History(snapshots)
  BY PoolIsSound
<1>3. /\ inbox # <<>> /\ inbox' = Tail(inbox)
      /\ frame' = IF Accepts(Head(inbox)) THEN Head(inbox) ELSE frame
      /\ UNCHANGED <<snapshots, owned, cleaned, starting, monitor, main, current, seen, pending, sending>>
  BY DEF OverlayReceives, hostVars, webVars
<1>4. PICK n : n = Head(inbox)
  OBVIOUS
<1>5. OnTheWay = OnTheWay' \cup {n}
  BY <1>1, <1>3, <1>4, Received DEF CaptionTypes
<1>6. MainOut' = MainOut /\ MonitorOut' = MonitorOut
  BY <1>3 DEF MainOut, MonitorOut
<1>7. PICK R : R = OnTheWay' \cup MainOut \cup MonitorOut
  OBVIOUS
<1>8. Pool = R \cup {frame, n}
  BY <1>5, <1>7 DEF Pool
<1>9. PICK k, d : /\ k = frame' /\ {k, d} = {frame, n}
                  /\ d = NoFrame \/ Newer(k, d) \/ ~Newer(d, k)
  <2>1. CASE Accepts(n)
    <3>1. frame' = n /\ (frame = NoFrame \/ Newer(n, frame))
      BY <1>3, <1>4, <2>1 DEF Accepts, Newer
    <3> QED BY <3>1
  <2>2. CASE ~Accepts(n)
    <3>1. frame' = frame /\ ~Newer(n, frame)
      BY <1>3, <1>4, <2>2 DEF Accepts, Newer
    <3> QED BY <3>1
  <2> QED BY <2>1, <2>2
<1>10. Pool = R \cup {k, d} /\ Pool' = R \cup {k}
  <2>1. Pool' = R \cup {k}
    BY <1>6, <1>7, <1>9 DEF Pool
  <2> QED BY <1>8, <1>9, <2>1
<1>11. \A t \in Sessions : (Cleared(t)' <=> Cleared(t)) /\ (Begun(t)' <=> Begun(t))
  BY <1>3 DEF Cleared, Begun
<1>12. OrderInv'
  <2>1. Frames(snapshots, R \cup {k, d, current})
    BY <1>2, <1>10 DEF Frames
  <2>2. current.session \in ClearedSessions => current.content # "caption"
    BY <1>1 DEF ClearedInv, ClearedSessions
  <2>3. Ordered(snapshots, R \cup {k, d}, current, ClearedSessions)
    BY <1>1, <1>10 DEF OrderInv
  <2>4. Ordered(snapshots, R \cup {k}, current, ClearedSessions)
    BY <1>2, <1>9, <2>1, <2>2, <2>3, OrderWithoutOne
  <2>5. ClearedSessions' = ClearedSessions
    BY <1>11 DEF ClearedSessions
  <2> QED BY <1>3, <1>10, <2>4, <2>5 DEF OrderInv
<1>13. ClearedInv'
  BY <1>1, <1>3, <1>11 DEF ClearedInv
<1>14. TurnsInv' /\ EndsInv'
  BY <1>1, <1>3, <1>11, TurnsStay
<1>15. BegunInv'
  <2>1. Pool' \subseteq Pool
    BY <1>10
  <2>2. \A t \in Sessions : Begun(t)' => t <= current'.session
    BY <1>1, <1>3, <1>11 DEF BegunInv
  <2> QED BY <1>1, <1>3, <1>11, <2>1, <2>2, BegunStays
<1> QED BY <1>12, <1>13, <1>14, <1>15 DEF CalmInv

-----------------------------------------------------------------------------

LEMMA CalmInit ==
  ASSUME CaptionsInit
  PROVE  CalmInv
<1>1. /\ snapshots = <<>> /\ Revision = 0 /\ Snapshot = NoSnapshot
      /\ OnTheWay = {} /\ MainOut = {} /\ MonitorOut = {}
      /\ Snapshot.session = 0 /\ Snapshot.phase = "over"
  BY DEF CaptionsInit, Revision, Snapshot, SnapshotAt, NoSnapshot, OnTheWay, MainOut, MonitorOut, Idle
<1>2. Pool = {NoFrame} /\ current = NoFrame /\ pending = NoFrame /\ sending = NoFrame /\ seen = 0
  BY <1>1 DEF CaptionsInit, Pool
<1>3. \A s \in Sessions : ~Begun(s) /\ ~Cleared(s) /\ starting[s].at = "none" /\ monitor[s].at = "polling"
                          /\ 0 < s
  BY CaptionBounds DEF CaptionsInit, Begun, Cleared, Idle, Sessions
<1>4. BegunInv
  BY <1>2, <1>3 DEF BegunInv, CaptionsInit, Idle
<1>5. TurnsInv
  BY <1>1, <1>3 DEF TurnsInv, CaptionsInit, Idle
<1>6. EndsInv
  BY <1>1, <1>3, CaptionBounds DEF EndsInv, Sessions
<1>7. ClearedInv
  BY <1>3 DEF ClearedInv
<1>8. OrderInv
  BY <1>2 DEF OrderInv, Ordered, NoFrame
<1> QED BY <1>4, <1>5, <1>6, <1>7, <1>8 DEF CalmInv

LEMMA CalmStep ==
  ASSUME CaptionInv, CaptionInv', CalmInv, [CaptionsNext]_captionVars, ~lost', ~Disturbed("overtaking")
  PROVE  CalmInv'
<1>1. CASE UNCHANGED captionVars
  <2>1. UNCHANGED <<snapshots, owned, cleaned, starting, monitor, main, current, inbox, frame,
                    seen, pending, sending>>
    BY <1>1 DEF captionVars, hostVars, overlayVars, eventVars, webVars
  <2>2. SlotStays
    BY <2>1 DEF SlotStays, Pool, OnTheWay, MainOut, MonitorOut, Cleared, Begun
  <2> QED BY <2>1, <2>2, QuietKeeps
<1>2. CASE BeginSession \/ Progress \/ SessionFails \/ SessionReleased
  BY <1>2, StartSessionCalmly, SnapshotCalmly, SessionReleasedCalmly
<1>3. ASSUME NEW s \in Sessions, StartStep(s)
      PROVE  CalmInv'
  BY <1>3, StartBeginsCalmly, StartGoesOnCalmly, EmissionsRepeatCalmly DEF StartStep
<1>4. ASSUME NEW s \in Sessions, MonitorStep(s)
      PROVE  CalmInv'
  BY <1>4, MonitorSeesCalmly, MonitorClearsCalmly, MonitorEmitsCalmly, MonitorHidesCalmly DEF MonitorStep
<1>5. CASE StopPressed \/ StopStep
  BY <1>5, StopWaitsCalmly, StopRequestsCalmly, StopClearsCalmly, StopGoesOnCalmly DEF StopStep
<1>6. CASE UpdateStep
  BY <1>6, UpdateGoesOnCalmly, UpdateReplacesCalmly DEF UpdateStep
<1>7. CASE ShowAppearance \/ CloseAppearance \/ RestoreStep
  BY <1>7, AppearanceGoesOnCalmly, EmissionsRepeatCalmly DEF RestoreStep
<1>8. CASE OverlayReceives \/ SeeSnapshot \/ CaptionsChange \/ Flush
  BY <1>8, OverlayReceivesCalmly, WebViewGoesOnCalmly
<1> QED BY <1>1, <1>2, <1>3, <1>4, <1>5, <1>6, <1>7, <1>8 DEF CaptionsNext

\* A behaviour that was not calm does not become so.
LEMMA CalmWasCalm ==
  ASSUME CaptionInv, [CaptionsNext]_captionVars, Calm'
  PROVE  Calm /\ ~lost' /\ ~Disturbed("overtaking")
<1>1. occasion' = occasion /\ (lost' = lost \/ lost')
  BY DEF CaptionsNext, BeginSession, Progress, SessionFails, SessionReleased, StartStep, StartBegins,
    StartChecks, StartPlaces, StartEmits, StartShows, MonitorStep, MonitorSees, MonitorClears,
    MonitorEmits, MonitorHides, StopPressed, StopRequests, StopStep, StopClears, StopEmits, StopHides, UpdateStep, UpdateChecks,
    UpdateReplaces, UpdateEmits, ShowAppearance, CloseAppearance, RestoreStep, RestoreEmits,
    RestoreShows, OverlayReceives, SeeSnapshot, CaptionsChange, Flush, Emit, EmitFails,
    captionVars, hostVars, overlayVars, eventVars
<1> QED BY <1>1 DEF Calm, Disturbed

\* As long as no event to the overlay is lost and no session is overtaken, the
\* caption in the slot of the host is the newest one the overlay shows or is to
\* receive, whoever clears, updates or repeats the slot, and a session that has
\* been cleared has none.
THEOREM SlotInvariant == CaptionsSpec => []SlotInv
<1>1. CaptionsInit => SlotInv
  BY CaptionInit, CalmInit DEF SlotInv
<1>2. SlotInv /\ [CaptionsNext]_captionVars => SlotInv'
  <2> SUFFICES ASSUME SlotInv, [CaptionsNext]_captionVars PROVE SlotInv'
    OBVIOUS
  <2>1. CaptionInv /\ CaptionInv'
    BY CaptionStep DEF SlotInv
  <2>2. ASSUME Calm' PROVE CalmInv'
    BY <2>1, <2>2, CalmWasCalm, CalmStep DEF SlotInv
  <2> QED BY <2>1, <2>2 DEF SlotInv
<1> QED BY <1>1, <1>2, PTL DEF CaptionsSpec

LEMMA WhatIsSettledAgrees ==
  ASSUME SlotInv, ~Disturbed("overtaking")
  PROVE  HostAndOverlayAgree
<1>1. SUFFICES ASSUME Settled, ~lost, current.content = "caption" \/ frame.content = "caption"
               PROVE  frame = current /\ IsLive(frame.session)
  BY DEF HostAndOverlayAgree
<1>2. /\ CaptionInv /\ CaptionTypes /\ BegunInv /\ EndsInv /\ ClearedInv /\ OrderInv /\ TurnsInv
  BY <1>1 DEF SlotInv, Calm, CalmInv, CaptionInv
<1>3. /\ Frames(snapshots, Pool \cup {current}) /\ snapshots \in Seq(SnapshotType) /\ History(snapshots)
  BY <1>2, PoolIsSound DEF Frames
<1>4. main = Idle /\ inbox = <<>> /\ \A s \in Sessions : monitor[s].at \in {"polling", "done"}
  BY <1>1 DEF Settled
<1>5. Pool = {frame}
  BY <1>4 DEF Pool, OnTheWay, MainOut, MonitorOut, Idle
<1>6. frame = current
  <2>1. CASE current.content = "caption"
    BY <1>2, <1>5, <2>1 DEF OrderInv, Ordered
  <2>2. CASE frame.content = "caption"
    <3>1. frame = current \/ Newer(frame, frame)
      BY <1>2, <1>5, <2>2 DEF OrderInv, Ordered
    <3>2. Frames(snapshots, {frame, frame, frame})
      BY <1>3, <1>5 DEF Frames
    <3> QED BY <1>3, <3>1, <3>2, NewerIsAnOrder
  <2> QED BY <1>1, <2>1, <2>2
<1>7. current.content = "caption" /\ current # NoFrame
  BY <1>1, <1>6 DEF NoFrame
<1>8. PICK s \in Sessions : s = current.session
  BY <1>2, <1>7, SlotIsNotNewer
<1>9. ~Cleared(s)
  BY <1>2, <1>7, <1>8 DEF ClearedInv
<1>10. s \notin cleaned /\ monitor[s].at = "polling"
  BY <1>4, <1>9 DEF Cleared
<1>11. Revision # 0 /\ Revision \in Nat /\ Snapshot \in SnapshotType
  <2>1. current.runtime \in 1..Revision
    BY <1>3, <1>7 DEF Frames, Sound, Revision
  <2> QED BY <1>2, <2>1, LastSnapshot
<1>12. Snapshot.session = s
  <2>1. s \in 0..Snapshot.session /\ Snapshot.session \in 0..MaxSession
    BY <1>2, <1>8, SlotIsNotNewer
  <2>2. ~(s < Snapshot.session)
    BY <1>2, <1>10 DEF EndsInv
  <2> QED BY <2>1, <2>2, CaptionBounds
<1>13. owned
  BY <1>2, <1>10, <1>11, <1>12 DEF EndsInv
<1>14. Snapshot.phase = "live"
  <2>1. Snapshot.phase \in Phases
    BY <1>11 DEF SnapshotType
  <2>2. Snapshot.phase # "over"
    BY <1>2, <1>13 DEF CaptionInv, OwnedInv
  <2>3. Snapshot.phase # "stopping"
    BY <1>2, <1>4, <1>9, <1>12 DEF EndsInv, Idle
  <2>4. Snapshot # [session |-> s, phase |-> "failed"]
    BY <1>1, <1>10, <1>13 DEF Settled
  <2>5. Snapshot = [session |-> s, phase |-> Snapshot.phase]
    BY <1>11, <1>12 DEF SnapshotType
  <2> QED BY <2>1, <2>2, <2>3, <2>4, <2>5 DEF Phases
<1>15. Snapshot = [session |-> s, phase |-> "live"]
  BY <1>11, <1>12, <1>14 DEF SnapshotType
<1> QED BY <1>6, <1>8, <1>15 DEF IsLive

\* "A delayed translation or publish cannot revive a stopped session"
\* (presentation.rs, caption-output.ts, presentation-state.ts): once everything
\* has settled and no event was lost, the overlay shows a caption only if it is
\* the one the host has accepted last and its session is live, however many
\* sessions, frames and snapshots there have been; a session that is overtaken
\* between reading the snapshot and writing the slot is excepted.
THEOREM SettledViewsAgree == CaptionsSpec => [](~Disturbed("overtaking") => HostAndOverlayAgree)
<1>1. SlotInv => (~Disturbed("overtaking") => HostAndOverlayAgree)
  BY WhatIsSettledAgrees
<1> QED BY <1>1, SlotInvariant, PTL

-----------------------------------------------------------------------------
(***************************************************************************)
(* Proofs about TranslationScheduler, for any routes, keys and profiles,   *)
(* any policies, any deadline of a preparation and any number of sessions  *)
(* and jobs.                                                               *)
(*                                                                         *)
(* An answer can only be wrong if the scheduler mixes up executions: one   *)
(* run per session, of a job that is open and not queued any more          *)
(* (RunsInv), and one preparation in flight, which the session points to   *)
(* (PrepsInv).  The deadline of a job is then a sum that every tick and    *)
(* every settled preparation keeps (DeadlinesInv).                         *)
(***************************************************************************)

Open(j) == jobs[j].outcome = "open"
Mine(op) == op.gen = session.gen

\* Request IDs are handed out in order.
SentInOrder ==
  \E n \in 0..MaxJob : \A j \in JobIds :
    /\ j <= n <=> jobs[j].outcome # "unsent"
    /\ j > n => jobs[j].gen = 0

\* What is open belongs to the session, waiting in its queue or in a run.
JobsInv ==
  /\ SentInOrder
  /\ \A j \in queue : Open(j)
  /\ \A j \in JobIds : Open(j) =>
       /\ jobs[j].gen = session.gen /\ session.gen # 0
       /\ j \in queue \/ \E r \in runs : r.gen = session.gen /\ r.job = j
  /\ \A i \in queue, j \in JobIds :
       i < j /\ jobs[j].gen = jobs[i].gen => jobs[j].key # jobs[i].key

\* A session executes one job at a time; a run of an earlier session belongs to
\* a job that is settled.
RunsInv ==
  /\ \A r \in runs :
       /\ jobs[r.job].gen = r.gen /\ r.gen <= generation
       /\ jobs[r.job].outcome # "unsent"
       /\ Mine(r) => Open(r.job) /\ r.job \notin queue
  /\ \A r, q \in runs : Mine(r) /\ Mine(q) => r = q

\* While an older text of a key is open no newer one has been delivered.
TextsInv ==
  \A i, j \in JobIds :
    i < j /\ jobs[i].gen = jobs[j].gen /\ jobs[i].key = jobs[j].key /\ Open(i)
      => jobs[j].outcome # "delivered"

\* The preparation in flight is the one the session points to.
PrepsInv ==
  /\ IsFiniteSet(preps)
  /\ \A p, q \in preps : p.id = q.id => p = q
  /\ \A p \in preps : p.gen <= generation
  /\ \A p \in preps : p.outcome = "pending" => Mine(p) /\ p.id = session.preparation
  /\ session.preparation # 0 => \E p \in preps : Mine(p) /\ p.id = session.preparation
  /\ session.gen \in {0, generation}

\* Of the preparations of a session at most one has taken time, and that is what
\* its jobs are short of, as far as they have been there.
Least(m, n) == IF m < n THEN m ELSE n
DeadlineOf(j) == Budget[jobs[j].profile] - jobs[j].waited
Counts(j) == Open(j) /\ jobs[j].waited < Budget[jobs[j].profile]
Spent(p) == Mine(p) /\ p.elapsed > 0

DeadlinesInv ==
  /\ \A p, q \in preps : Spent(p) /\ Spent(q) => p = q
  /\ \A p \in preps : p.elapsed <= PreparationDeadline
  /\ \A j \in JobIds : jobs[j].age <= PreparationDeadline
  /\ \A j \in JobIds : Counts(j) =>
       /\ (\A p \in preps : ~Spent(p)) => jobs[j].left = DeadlineOf(j)
       /\ \A p \in preps : Spent(p) => jobs[j].left + Least(p.elapsed, jobs[j].age) = DeadlineOf(j)

\* What a run awaits is going to happen.
AwaitsInv ==
  \A r \in runs :
    /\ r.outcome = "waiting" => \E p \in preps : p.id = r.op /\ p.gen = r.gen
    /\ r.outcome = "pending" => Mine(r) /\
         \E i \in 1..Len(worker.requests) :
           worker.requests[i].kind = "translate" /\ worker.requests[i].of = r.job

RequestType == [kind : {"prepare", "translate"}, route : Routes, of : Nat]
WorkerType == [alive : BOOLEAN, loaded : Routes \cup {None}, requests : Seq(RequestType)]
SessionType == [gen : 0..MaxGeneration, route : Routes \cup {None}, preparation : Nat]

TypeInv ==
  /\ scenario \in Requests
  /\ session \in SessionType
  /\ generation \in 0..MaxGeneration
  /\ queue \subseteq JobIds
  /\ pumping \in BOOLEAN
  /\ jobs \in [JobIds -> JobType]
  /\ runs \subseteq RunType
  /\ preps \subseteq PreparationType
  /\ worker \in WorkerType
  /\ \A j \in JobIds : Open(j) => jobs[j].profile \in Profiles /\ jobs[j].route \in Routes

SchedulerInv == TypeInv /\ JobsInv /\ RunsInv /\ TextsInv /\ PrepsInv /\ DeadlinesInv /\ AwaitsInv

-----------------------------------------------------------------------------
(* The helpers                                                              *)

\* There is always a number for a new operation.
LEMMA FreshIsFresh ==
  ASSUME IsFiniteSet(preps)
  PROVE  FreshOperation \in Nat \ {0} /\ \A p \in preps : p.id # FreshOperation
  <1> DEFINE n == Cardinality(preps) + 1
             ids == {p.id : p \in preps}
             id == [p \in preps |-> p.id]
  <1>1. n \in Nat \ {0}
    BY FS_CardinalityType
  <1>2. id \in Surjection(preps, ids)
    BY DEF Surjection
  <1>3. IsFiniteSet(ids) /\ Cardinality(ids) <= Cardinality(preps)
    <2> HIDE DEF id, ids
    <2> QED
      BY <1>2, FS_Surjection
  <1>4. \E m \in 1..n : m \notin ids
    <2>1. SUFFICES ASSUME (1..n) \subseteq ids PROVE FALSE
      OBVIOUS
    <2> HIDE DEF ids
    <2>2. Cardinality(1..n) <= Cardinality(ids)
      BY <1>3, <2>1, FS_Subset
    <2>3. Cardinality(1..n) = n
      BY <1>1, FS_Interval
    <2> QED
      BY <1>1, <1>3, <2>2, <2>3, FS_CardinalityType
  <1>5. \E m \in 1..n : \A p \in preps : p.id # m
    BY <1>4
  <1> QED
    BY <1>1, <1>5 DEF FreshOperation

\* A settled job keeps its session and its key.
LEMMA UnsentType == Unsent \in JobType /\ Unsent.age = 0 /\ Unsent.gen = 0
  BY BoundsAssumption, SMT DEF Unsent, JobType, Unsettled

LEMMA SettleType ==
  ASSUME NEW J \in [JobIds -> JobType], NEW ids, NEW result \in Outcomes
  PROVE  /\ Settle(J, ids, result) \in [JobIds -> JobType]
         /\ \A j \in JobIds :
              LET job == Settle(J, ids, result)[j]
              IN IF j \in ids /\ J[j].outcome = "open"
                 THEN job.outcome = result /\ job.gen = J[j].gen /\ job.key = J[j].key /\ job.age = 0
                 ELSE job = J[j]
  <1> DEFINE done(j) == [Unsent EXCEPT !.outcome = result, !.gen = J[j].gen, !.key = J[j].key]
  <1>1. ASSUME NEW j \in JobIds
        PROVE  /\ done(j) \in JobType
               /\ done(j).outcome = result /\ done(j).gen = J[j].gen
               /\ done(j).key = J[j].key /\ done(j).age = 0
    <2>1. J[j].gen \in 0..MaxGeneration /\ J[j].key \in Keys \cup {None}
      BY DEF JobType
    <2> DEFINE u == [Unsent EXCEPT !.outcome = result]
               v == [u EXCEPT !.gen = J[j].gen]
    <2>2. u \in JobType /\ u.outcome = result /\ u.age = 0
      BY UnsentType, SMT DEF JobType
    <2> HIDE DEF u
    <2>3. v \in JobType /\ v.outcome = result /\ v.age = 0 /\ v.gen = J[j].gen
      BY <2>1, <2>2, SMT DEF JobType
    <2>4. done(j) = [v EXCEPT !.key = J[j].key]
      BY DEF u
    <2> HIDE DEF v, done
    <2> QED
      BY <2>1, <2>3, <2>4, SMT DEF JobType
  <1>2. Settle(J, ids, result) =
          [j \in JobIds |-> IF j \in ids /\ J[j].outcome = "open" THEN done(j) ELSE J[j]]
    BY DEF Settle
  <1> HIDE DEF done
  <1> QED
    BY <1>1, <1>2

\* Operations that are killed are the session's pending ones.
LEMMA KillRuns ==
  ASSUME SchedulerInv, NEW reason \in Rejections
  PROVE  /\ Kill(runs, reason) \subseteq RunType
         /\ \A r \in Kill(runs, reason) : \E q \in runs :
              /\ r.gen = q.gen /\ r.job = q.job /\ r.op = q.op
              /\ r.outcome # "pending"
              /\ r.outcome = IF q.outcome = "pending" THEN reason ELSE q.outcome
         /\ \A q \in runs : \E r \in Kill(runs, reason) : r.gen = q.gen /\ r.job = q.job
         /\ \A r, s \in Kill(runs, reason) : Mine(r) /\ Mine(s) => r = s
  <1> DEFINE dead(q) == IF Mine(q) /\ q.outcome = "pending" THEN [q EXCEPT !.outcome = reason] ELSE q
  <1>1. Kill(runs, reason) = {dead(q) : q \in runs}
    BY DEF Kill, Mine
  <1>2. ASSUME NEW q \in runs
        PROVE  /\ dead(q) \in RunType
               /\ dead(q).gen = q.gen /\ dead(q).job = q.job /\ dead(q).op = q.op
               /\ dead(q).outcome # "pending"
               /\ dead(q).outcome = IF q.outcome = "pending" THEN reason ELSE q.outcome
    <2>1. q \in RunType
      BY DEF SchedulerInv, TypeInv
    <2>2. q.outcome = "pending" => Mine(q)
      BY DEF SchedulerInv, AwaitsInv
    <2> QED
      BY <2>1, <2>2 DEF RunType, Rejections
  <1>3. ASSUME NEW q \in runs, NEW s \in runs, Mine(dead(q)), Mine(dead(s))
        PROVE  q = s
    BY <1>2, <1>3 DEF SchedulerInv, RunsInv, Mine
  <1> HIDE DEF dead
  <1> QED
    BY <1>1, <1>2, <1>3

LEMMA KillPreps ==
  ASSUME SchedulerInv, NEW reason \in Rejections, NEW P, P \subseteq preps
  PROVE  /\ Kill(P, reason) \subseteq PreparationType /\ IsFiniteSet(Kill(P, reason))
         /\ \A p \in Kill(P, reason) : \E q \in P :
              /\ p.id = q.id /\ p.gen = q.gen /\ p.elapsed = q.elapsed
              /\ p.outcome # "pending"
         /\ \A q \in P : \E p \in Kill(P, reason) :
              p.id = q.id /\ p.gen = q.gen /\ p.elapsed = q.elapsed
         /\ \A p, q \in Kill(P, reason) : p.id = q.id => p = q
  <1> DEFINE dead(q) == IF Mine(q) /\ q.outcome = "pending" THEN [q EXCEPT !.outcome = reason] ELSE q
             f == [q \in P |-> dead(q)]
  <1>1. Kill(P, reason) = {dead(q) : q \in P}
    BY DEF Kill, Mine
  <1>2. ASSUME NEW q \in P
        PROVE  /\ dead(q) \in PreparationType
               /\ dead(q).id = q.id /\ dead(q).gen = q.gen /\ dead(q).elapsed = q.elapsed
               /\ dead(q).outcome # "pending"
    <2>1. q \in PreparationType
      BY DEF SchedulerInv, TypeInv
    <2>2. q.outcome = "pending" => Mine(q)
      BY DEF SchedulerInv, PrepsInv
    <2> QED
      BY <2>1, <2>2 DEF PreparationType, Rejections
  <1>3. ASSUME NEW q \in P, NEW s \in P, dead(q).id = dead(s).id
        PROVE  q = s
    BY <1>2, <1>3 DEF SchedulerInv, PrepsInv
  <1>4. IsFiniteSet(Kill(P, reason))
    <2>1. IsFiniteSet(P)
      BY FS_Subset DEF SchedulerInv, PrepsInv
    <2>2. f \in Surjection(P, Kill(P, reason))
      BY <1>1 DEF Surjection
    <2> HIDE DEF f
    <2> QED
      BY <2>1, <2>2, FS_Surjection
  <1> HIDE DEF dead
  <1> QED
    BY <1>1, <1>2, <1>3, <1>4

\* A finite set that is not empty has a greatest element in any total order.
Orders(R, S) ==
  /\ \A x \in S : <<x, x>> \notin R
  /\ \A x, y \in S : x # y => <<x, y>> \in R \/ <<y, x>> \in R
  /\ \A x, y, z \in S : <<x, y>> \in R /\ <<y, z>> \in R => <<x, z>> \in R

LEMMA HasGreatest ==
  ASSUME NEW S, IsFiniteSet(S), S # {}, NEW R, Orders(R, S)
  PROVE  \E x \in S : \A y \in S \ {x} : <<y, x>> \in R
  <1> DEFINE above(x) == {y \in S : <<x, y>> \in R}
             sets == {above(x) : x \in S}
             O == StrictSubsetOrdering(S)
  <1>1. IsWellFoundedOn(O, FiniteSubsetsOf(S))
    BY FS_StrictSubsetOrderingWellFounded
  <1>2. sets \subseteq FiniteSubsetsOf(S) /\ sets # {}
    <2>1. ASSUME NEW x \in S PROVE above(x) \in FiniteSubsetsOf(S)
      <3>1. above(x) \in SUBSET S
        OBVIOUS
      <3> HIDE DEF above
      <3> QED
        BY <3>1, FS_Subset DEF FiniteSubsetsOf
    <2> HIDE DEF above
    <2> QED
      BY <2>1
  <1>3. PICK x \in S : \A y \in sets : <<y, above(x)>> \notin O
    <2> HIDE DEF sets, O
    <2>1. \E z \in sets : \A y \in sets : ~(<<y, z>> \in O)
      BY <1>1, <1>2, WFMin
    <2> QED
      BY <2>1 DEF sets
  <1>4. ASSUME NEW y \in S, <<x, y>> \in R
        PROVE  FALSE
    <2>1. above(y) \in SUBSET S /\ above(x) \in SUBSET S /\ above(y) \in sets
      OBVIOUS
    <2>2. above(y) \subseteq above(x) /\ y \in above(x) /\ y \notin above(y)
      BY <1>4 DEF Orders
    <2> HIDE DEF above, sets
    <2>3. <<above(y), above(x)>> \in O
      BY <2>1, <2>2 DEF StrictSubsetOrdering
    <2> QED
      BY <1>3, <2>1, <2>3
  <1> QED
    BY <1>4 DEF Orders

\* Jobs are ordered by their priority and their age.
LEMMA JobsAreOrdered ==
  ASSUME NEW J \in [JobIds -> JobType], NEW S, S \subseteq JobIds, S # {},
         \A j \in S : J[j].profile \in Profiles
  PROVE  /\ IsFiniteSet(S)
         /\ \E j \in S : \A i \in S \ {j} : Before(i, j, J)
         /\ \E i \in S : \A j \in S \ {i} : Before(i, j, J)
  <1>1. IsFiniteSet(S)
    <2>1. IsFiniteSet(JobIds)
      BY BoundsAssumption, FS_Interval DEF JobIds
    <2> QED
      BY <2>1, FS_Subset
  <1>2. /\ \A i \in S : ~Before(i, i, J)
        /\ \A i, j \in S : i # j => Before(i, j, J) \/ Before(j, i, J)
        /\ \A i, j, k \in S : Before(i, j, J) /\ Before(j, k, J) => Before(i, k, J)
    <2>1. \A i \in S : i \in Int /\ Priority[J[i].profile] \in Nat
      BY PoliciesAssumption, BoundsAssumption DEF JobIds
    <2> QED
      BY <2>1 DEF Before
  <1> DEFINE R == {p \in S \X S : Before(p[1], p[2], J)}
             T == {p \in S \X S : Before(p[2], p[1], J)}
  <1>3. \E j \in S : \A i \in S \ {j} : <<i, j>> \in R
    <2>1. \A i, j \in S : <<i, j>> \in R <=> Before(i, j, J)
      OBVIOUS
    <2> HIDE DEF R
    <2>2. Orders(R, S)
      BY <1>2, <2>1 DEF Orders
    <2> QED
      BY <1>1, <2>2, HasGreatest
  <1>4. \E i \in S : \A j \in S \ {i} : <<j, i>> \in T
    <2>1. \A i, j \in S : <<j, i>> \in T <=> Before(i, j, J)
      OBVIOUS
    <2> HIDE DEF T
    <2>2. Orders(T, S)
      BY <1>2, <2>1 DEF Orders
    <2> QED
      BY <1>1, <2>2, HasGreatest
  <1> QED
    BY <1>1, <1>3, <1>4

-----------------------------------------------------------------------------
(* What most steps keep                                                     *)

\* A job may be settled; one that stays open keeps its place, and with it what
\* it has left until its deadline.
JobsPlaced ==
  /\ jobs' \in [JobIds -> JobType]
  /\ \A j \in JobIds :
       /\ jobs'[j].gen = jobs[j].gen /\ jobs'[j].key = jobs[j].key
       /\ jobs'[j].outcome = "unsent" <=> jobs[j].outcome = "unsent"
       /\ jobs'[j].outcome = "open" =>
            /\ Open(j)
            /\ jobs'[j].profile = jobs[j].profile /\ jobs'[j].route = jobs[j].route
TimesKept ==
  \A j \in JobIds :
    /\ jobs'[j].age = jobs[j].age \/ jobs'[j].age = 0
    /\ jobs'[j].outcome = "open" =>
         /\ jobs'[j].left = jobs[j].left /\ jobs'[j].age = jobs[j].age
         /\ jobs'[j].waited = jobs[j].waited
JobsKept == JobsPlaced /\ TimesKept
USE DEF JobsKept

NothingDelivered ==
  \A j \in JobIds : jobs'[j].outcome = "delivered" => jobs[j].outcome = "delivered"

\* A run may end, and one may begin of a job taken out of the queue.
RunsKept ==
  /\ runs' \subseteq RunType
  /\ \A r \in runs' : \/ \E q \in runs : r.gen = q.gen /\ r.job = q.job
                      \/ Mine(r) /\ Open(r.job) /\ r.job \notin queue'
  /\ \A r, s \in runs' : Mine(r) /\ Mine(s) => r = s

\* A preparation may end; none begins that has already taken time.
PrepsKept ==
  /\ preps' \subseteq PreparationType /\ IsFiniteSet(preps')
  /\ \A p, q \in preps' : p.id = q.id => p = q
  /\ \A p \in preps' : \/ \E q \in preps : p.id = q.id /\ p.gen = q.gen /\ p.elapsed = q.elapsed
                       \/ Mine(p) /\ p.elapsed = 0
  /\ \A q \in preps : \E p \in preps' : p.id = q.id /\ p.gen = q.gen /\ p.elapsed = q.elapsed

SessionKept == session'.gen = session.gen /\ generation' = generation

LEMMA JobsStay ==
  ASSUME SchedulerInv, UNCHANGED jobs
  PROVE  JobsKept /\ NothingDelivered
  BY DEF SchedulerInv, TypeInv, JobsPlaced, TimesKept, NothingDelivered, Open

LEMMA JobsSettle ==
  ASSUME SchedulerInv, NEW ids, NEW result \in Outcomes, jobs' = Settle(jobs, ids, result)
  PROVE  /\ JobsKept
         /\ result # "delivered" => NothingDelivered
         /\ \A j \in JobIds : Open(j)' => Open(j) /\ j \notin ids
         /\ \A j \in JobIds : Open(j) /\ j \notin ids => Open(j)'
         /\ \A j \in JobIds : jobs'[j] = jobs[j] \/ (Open(j) /\ j \in ids /\ jobs'[j].outcome = result)
  <1>1. jobs \in [JobIds -> JobType] /\ jobs' \in [JobIds -> JobType]
    BY SettleType DEF SchedulerInv, TypeInv
  <1>2. ASSUME NEW j \in JobIds
        PROVE  IF j \in ids /\ Open(j)
               THEN jobs'[j].outcome = result /\ jobs'[j].gen = jobs[j].gen
                    /\ jobs'[j].key = jobs[j].key /\ jobs'[j].age = 0
               ELSE jobs'[j] = jobs[j]
    BY <1>1, SettleType DEF Open
  <1>3. result \notin {"unsent", "open"}
    BY DEF Outcomes
  <1>4. JobsKept
    <2> SUFFICES ASSUME NEW j \in JobIds
                 PROVE  /\ jobs'[j].gen = jobs[j].gen /\ jobs'[j].key = jobs[j].key
                        /\ jobs'[j].outcome = "unsent" <=> jobs[j].outcome = "unsent"
                        /\ jobs'[j].age = jobs[j].age \/ jobs'[j].age = 0
                        /\ jobs'[j].outcome = "open" => jobs'[j] = jobs[j]
      BY <1>1 DEF JobsPlaced, TimesKept, Open
    <2>1. CASE j \in ids /\ Open(j)
      BY <1>2, <1>3, <2>1 DEF Open
    <2>2. CASE ~(j \in ids /\ Open(j))
      BY <1>2, <2>2
    <2> QED
      BY <2>1, <2>2
  <1>5. ASSUME NEW j \in JobIds
        PROVE  /\ Open(j)' => Open(j) /\ j \notin ids
               /\ Open(j) /\ j \notin ids => Open(j)'
               /\ jobs'[j] = jobs[j] \/ (Open(j) /\ j \in ids /\ jobs'[j].outcome = result)
    BY <1>2, <1>3 DEF Open
  <1>6. result # "delivered" => NothingDelivered
    BY <1>2 DEF NothingDelivered
  <1> QED
    BY <1>4, <1>5, <1>6

LEMMA DeadlinesKept ==
  ASSUME SchedulerInv, JobsKept, PrepsKept, SessionKept
  PROVE  DeadlinesInv'
  <1>1. ASSUME NEW j \in JobIds
        PROVE  /\ Counts(j)' => Counts(j) /\ DeadlineOf(j)' = DeadlineOf(j)
                   /\ jobs'[j].left = jobs[j].left /\ jobs'[j].age = jobs[j].age
               /\ jobs'[j].age <= PreparationDeadline
    BY BoundsAssumption DEF SchedulerInv, DeadlinesInv, JobsPlaced, TimesKept, Counts, Open, DeadlineOf
  <1>2. ASSUME NEW p \in preps'
        PROVE  /\ Spent(p)' => \E q \in preps : Spent(q) /\ q.id = p.id /\ q.elapsed = p.elapsed
               /\ p.elapsed <= PreparationDeadline
    <2>1. CASE \E q \in preps : p.id = q.id /\ p.gen = q.gen /\ p.elapsed = q.elapsed
      BY <2>1 DEF SchedulerInv, DeadlinesInv, SessionKept, Spent, Mine
    <2>2. CASE p.elapsed = 0
      BY <2>2, BoundsAssumption DEF Spent
    <2> QED
      BY <2>1, <2>2 DEF PrepsKept
  <1>3. ASSUME NEW q \in preps, Spent(q)
        PROVE  \E p \in preps' : Spent(p)'
    BY <1>3 DEF PrepsKept, SessionKept, Spent, Mine
  <1>4. ASSUME NEW p \in preps', NEW q \in preps', Spent(p)', Spent(q)'
        PROVE  p = q
    BY <1>2, <1>4 DEF SchedulerInv, DeadlinesInv, PrepsKept
  <1>5. ASSUME NEW j \in JobIds, Counts(j)'
        PROVE  /\ (\A p \in preps' : ~Spent(p)') => jobs'[j].left = DeadlineOf(j)'
               /\ \A p \in preps' : Spent(p)' =>
                    jobs'[j].left + Least(p.elapsed, jobs'[j].age) = DeadlineOf(j)'
    <2>1. (\A p \in preps' : ~Spent(p)') => \A q \in preps : ~Spent(q)
      BY <1>3
    <2> QED
      BY <1>1, <1>2, <1>5, <2>1 DEF SchedulerInv, DeadlinesInv
  <1> QED
    BY <1>1, <1>2, <1>4, <1>5 DEF DeadlinesInv

LEMMA JobsInvKept ==
  ASSUME SchedulerInv, JobsPlaced, SessionKept, queue' \subseteq queue,
         \A j \in queue' : Open(j)',
         \A j \in JobIds : Open(j)' => j \in queue' \/ \E r \in runs' : r.gen = session.gen /\ r.job = j
  PROVE  JobsInv'
  <1>1. SentInOrder'
    BY DEF SchedulerInv, JobsInv, SentInOrder, JobsPlaced, TimesKept
  <1>2. \A j \in JobIds : Open(j)' => jobs'[j].gen = session'.gen /\ session'.gen # 0
    BY DEF SchedulerInv, JobsInv, JobsPlaced, TimesKept, SessionKept, Open
  <1>3. \A i \in queue', j \in JobIds : i < j /\ jobs'[j].gen = jobs'[i].gen => jobs'[j].key # jobs'[i].key
    BY DEF SchedulerInv, JobsInv, JobsPlaced, TimesKept, TypeInv
  <1> QED
    BY <1>1, <1>2, <1>3 DEF JobsInv, SessionKept

LEMMA RunsInvKept ==
  ASSUME SchedulerInv, JobsPlaced, SessionKept, RunsKept, queue' \subseteq queue,
         \A r \in runs' : Mine(r) => Open(r.job)'
  PROVE  RunsInv'
  <1>1. ASSUME NEW r \in runs'
        PROVE  /\ jobs'[r.job].gen = r.gen /\ r.gen <= generation'
               /\ jobs'[r.job].outcome # "unsent"
               /\ Mine(r)' => Open(r.job)' /\ r.job \notin queue'
    <2>1. r.job \in JobIds /\ r.gen \in Nat
      BY BoundsAssumption DEF RunsKept, RunType
    <2>2. CASE \E q \in runs : r.gen = q.gen /\ r.job = q.job
      BY <2>1, <2>2 DEF SchedulerInv, RunsInv, JobsPlaced, TimesKept, SessionKept, Mine
    <2>3. CASE Mine(r) /\ Open(r.job) /\ r.job \notin queue'
      BY <2>1, <2>3 DEF SchedulerInv, JobsInv, PrepsInv, TypeInv, JobsPlaced, TimesKept, SessionKept, Mine, Open
    <2> QED
      BY <2>2, <2>3 DEF RunsKept
  <1> QED
    BY <1>1 DEF RunsInv, RunsKept, SessionKept, Mine

LEMMA TextsInvKept ==
  ASSUME SchedulerInv, JobsPlaced, NothingDelivered
  PROVE  TextsInv'
  BY DEF SchedulerInv, TextsInv, JobsPlaced, TimesKept, NothingDelivered, Open

LEMMA OpsStay ==
  ASSUME SchedulerInv
  PROVE  /\ UNCHANGED preps => PrepsKept
         /\ UNCHANGED runs => RunsKept
         /\ UNCHANGED <<session, preps, generation>> => PrepsInv'
         /\ UNCHANGED <<session, preps, runs, worker>> => AwaitsInv'
  <1>1. UNCHANGED preps => PrepsKept
    BY DEF SchedulerInv, TypeInv, PrepsInv, PrepsKept
  <1>2. UNCHANGED runs => RunsKept
    BY DEF SchedulerInv, TypeInv, RunsInv, RunsKept
  <1>3. UNCHANGED <<session, preps, generation>> => PrepsInv'
    BY DEF SchedulerInv, PrepsInv, Mine
  <1>4. UNCHANGED <<session, preps, runs, worker>> => AwaitsInv'
    BY DEF SchedulerInv, AwaitsInv, Mine
  <1> QED
    BY <1>1, <1>2, <1>3, <1>4

\* A request is appended to those the worker has; a worker that is gone has none.
LEMMA RequestAppends ==
  ASSUME worker \in WorkerType, NEW kind \in {"prepare", "translate"},
         NEW route \in Routes, NEW of \in Nat, worker' = Request(kind, route, of)
  PROVE  /\ worker' \in WorkerType
         /\ \A i \in 1..Len(worker.requests) :
              i \in 1..Len(worker'.requests) /\ worker'.requests[i] = worker.requests[i]
         /\ worker.alive => \E i \in 1..Len(worker'.requests) :
              worker'.requests[i].kind = kind /\ worker'.requests[i].of = of
  <1> DEFINE request == [kind |-> kind, route |-> route, of |-> of]
  <1>1. request \in RequestType /\ request.kind = kind /\ request.of = of
    BY DEF RequestType
  <1>2. CASE ~worker.alive
    BY <1>2 DEF Request
  <1>3. CASE worker.alive
    <2>1. worker' = [worker EXCEPT !.requests = Append(@, request)]
      BY <1>3 DEF Request
    <2> HIDE DEF request
    <2>3. worker.requests \in Seq(RequestType)
      BY DEF WorkerType
    <2>6. Append(worker.requests, request) \in Seq(RequestType)
      BY <1>1, <2>3
    <2>2. worker'.requests = Append(worker.requests, request) /\ worker' \in WorkerType
      BY <2>1, <2>6 DEF WorkerType
    <2>4. /\ Len(worker'.requests) = Len(worker.requests) + 1
          /\ \A i \in 1..Len(worker.requests) : worker'.requests[i] = worker.requests[i]
          /\ worker'.requests[Len(worker.requests) + 1] = request
      BY <1>1, <2>2, <2>3
    <2>5. Len(worker.requests) \in Nat
      BY <2>3
    <2> QED
      BY <1>1, <2>2, <2>4, <2>5
  <1> QED
    BY <1>2, <1>3

-----------------------------------------------------------------------------
(* The steps                                                                *)

LEMMA InitInv ==
  ASSUME Init
  PROVE  SchedulerInv
  <1> USE BoundsAssumption
  <1>1. TypeInv
    <2>1. session \in SessionType
      BY DEF Init, NoSession, SessionType
    <2>2. jobs \in [JobIds -> JobType] /\ \A j \in JobIds : ~Open(j)
      <3>1. Unsent.outcome = "unsent"
        BY DEF Unsent
      <3> QED
        BY <3>1, UnsentType DEF Init, Open
    <2>3. worker \in WorkerType
      BY DEF Init, NewWorker, WorkerType
    <2>4. scenario \in Requests
      BY ChoicesAssumption DEF Init
    <2>5. /\ generation \in 0..MaxGeneration /\ queue \subseteq JobIds
          /\ runs \subseteq RunType /\ preps \subseteq PreparationType
      BY DEF Init
    <2>6. pumping \in BOOLEAN
      BY DEF Init
    <2> QED
      BY <2>1, <2>2, <2>3, <2>4, <2>5, <2>6 DEF TypeInv
  <1>2. \A j \in JobIds : jobs[j].outcome = "unsent" /\ jobs[j].gen = 0 /\ jobs[j].age = 0
    BY UnsentType DEF Init, Unsent
  <1>3. SentInOrder
    <2>1. \A j \in JobIds : ~(j <= 0)
      BY DEF JobIds
    <2> QED
      BY <1>2, <2>1 DEF SentInOrder
  <1>4. JobsInv /\ RunsInv /\ TextsInv
    BY <1>2, <1>3 DEF Init, JobsInv, RunsInv, TextsInv, Open
  <1>5. PrepsInv /\ AwaitsInv
    BY FS_EmptySet DEF Init, PrepsInv, AwaitsInv, NoSession
  <1>6. DeadlinesInv
    BY <1>2 DEF Init, DeadlinesInv, Counts, Open
  <1> QED
    BY <1>1, <1>4, <1>5, <1>6 DEF SchedulerInv

LEMMA NewWorkerType == NewWorker \in WorkerType
  BY DEF NewWorker, WorkerType

\* A new session, or none, leaves no job open and no operation pending.
LEMMA SessionEnds ==
  ASSUME SchedulerInv, UNCHANGED scenario,
         generation' \in 0..MaxGeneration, generation' >= generation,
         session' = NoSession \/ (session' = [NoSession EXCEPT !.gen = generation']
                                  /\ generation' > generation),
         jobs' = Settle(jobs, Cancelled, "cancelled"), runs' = Kill(runs, "cancelled"),
         preps' = Kill(preps, "cancelled"), queue' = {}, pumping' = FALSE,
         worker' = NewWorker
  PROVE  SchedulerInv'
  <1> USE BoundsAssumption
  <1>1. /\ JobsKept /\ NothingDelivered
        /\ \A j \in JobIds : ~Open(j)'
    <2>1. \A j \in JobIds : Open(j) => j \in Cancelled
      BY DEF SchedulerInv, JobsInv, Cancelled, Active
    <2> QED
      BY <2>1, JobsSettle DEF Outcomes
  <1>2. session' \in SessionType /\ session'.preparation = 0 /\ session'.gen \in {0, generation'}
        /\ \A g \in 1..MaxGeneration : g <= generation => g # session'.gen
    BY DEF NoSession, SessionType, SchedulerInv, TypeInv
  <1>3. /\ runs' \subseteq RunType
        /\ \A r \in runs' : \E q \in runs :
             /\ r.gen = q.gen /\ r.job = q.job /\ r.op = q.op
             /\ r.outcome # "pending"
             /\ r.outcome = IF q.outcome = "pending" THEN "cancelled" ELSE q.outcome
    BY KillRuns DEF Rejections
  <1>4. /\ preps' \subseteq PreparationType /\ IsFiniteSet(preps')
        /\ \A p \in preps' : \E q \in preps :
             p.id = q.id /\ p.gen = q.gen /\ p.elapsed = q.elapsed /\ p.outcome # "pending"
        /\ \A q \in preps : \E p \in preps' : p.id = q.id /\ p.gen = q.gen
        /\ \A p, q \in preps' : p.id = q.id => p = q
    BY KillPreps DEF Rejections
  <1>5. \A r \in runs' : r.gen <= generation /\ ~Mine(r)'
    BY <1>2, <1>3 DEF SchedulerInv, RunsInv, Mine, RunType
  <1>6. \A p \in preps' : p.gen <= generation /\ ~Mine(p)' /\ p.elapsed <= PreparationDeadline
    BY <1>2, <1>4 DEF SchedulerInv, PrepsInv, DeadlinesInv, Mine, PreparationType
  <1>7. TypeInv'
    BY <1>1, <1>2, <1>3, <1>4, NewWorkerType DEF SchedulerInv, TypeInv, JobsPlaced, TimesKept
  <1>8. JobsInv'
    <2>1. SentInOrder'
      BY <1>1 DEF SchedulerInv, JobsInv, SentInOrder, JobsPlaced, TimesKept
    <2> QED
      BY <1>1, <2>1 DEF JobsInv
  <1>9. RunsInv'
    <2>1. \A r \in runs' : /\ jobs'[r.job].gen = r.gen
                           /\ jobs'[r.job].outcome # "unsent"
      BY <1>1, <1>3 DEF SchedulerInv, RunsInv, JobsPlaced, TimesKept, TypeInv, RunType
    <2>2. \A r \in runs' : r.gen <= generation'
      BY <1>5, <1>3 DEF SchedulerInv, TypeInv, RunType
    <2> QED
      BY <1>5, <2>1, <2>2 DEF RunsInv
  <1>10. TextsInv'
    BY <1>1, TextsInvKept
  <1>11. PrepsInv'
    <2>1. \A p \in preps' : p.gen <= generation'
      BY <1>6, <1>4 DEF SchedulerInv, TypeInv, PreparationType
    <2> QED
      BY <1>2, <1>4, <2>1 DEF PrepsInv
  <1>12. DeadlinesInv'
    <2>1. \A j \in JobIds : jobs'[j].age <= PreparationDeadline
      BY <1>1 DEF JobsPlaced, TimesKept, SchedulerInv, DeadlinesInv
    <2> QED
      BY <1>1, <1>6, <2>1 DEF DeadlinesInv, Counts, Spent
  <1>13. AwaitsInv'
    BY <1>3, <1>4 DEF SchedulerInv, AwaitsInv
  <1> QED
    BY <1>7, <1>8, <1>9, <1>10, <1>11, <1>12, <1>13 DEF SchedulerInv

\* A step that takes no new job: what is left to show of it is what it does to
\* the preparations and to the deadlines, and that no open job loses its place.
LEMMA StepPlaces ==
  ASSUME SchedulerInv, UNCHANGED scenario, SessionKept, session' \in SessionType,
         queue' \subseteq queue, pumping' \in BOOLEAN, worker' \in WorkerType,
         preps' \subseteq PreparationType,
         JobsPlaced, TextsInv', RunsKept, PrepsInv', DeadlinesInv', AwaitsInv',
         \A j \in queue' : Open(j)',
         \A r \in runs' : Mine(r) => Open(r.job)',
         \A j \in JobIds : Open(j)' => j \in queue' \/ \E r \in runs' : r.gen = session.gen /\ r.job = j
  PROVE  SchedulerInv'
  <1>1. TypeInv'
    BY DEF SchedulerInv, TypeInv, SessionKept, JobsPlaced, RunsKept, Open
  <1> QED
    BY <1>1, JobsInvKept, RunsInvKept DEF SchedulerInv

LEMMA StepKeeps ==
  ASSUME SchedulerInv, UNCHANGED scenario, SessionKept, session' \in SessionType,
         queue' \subseteq queue, pumping' \in BOOLEAN, worker' \in WorkerType,
         JobsKept, TextsInv', RunsKept, PrepsKept, PrepsInv', AwaitsInv',
         \A j \in queue' : Open(j)',
         \A r \in runs' : Mine(r) => Open(r.job)',
         \A j \in JobIds : Open(j)' => j \in queue' \/ \E r \in runs' : r.gen = session.gen /\ r.job = j
  PROVE  SchedulerInv'
  BY StepPlaces, DeadlinesKept DEF PrepsKept

LEMMA RestartKeeps ==
  ASSUME SchedulerInv, RestartSession
  PROVE  SchedulerInv'
  <1>1. /\ session' \in SessionType /\ session'.gen = session.gen /\ session'.preparation = 0
        /\ UNCHANGED <<scenario, generation, queue, pumping, jobs>>
        /\ runs' = Kill(runs, "error") /\ preps' = Kill(preps, "error") /\ worker' = NewWorker
    BY DEF RestartSession, Restarted, SchedulerInv, TypeInv, SessionType
  <1>2. RunsKept /\ AwaitsInv' /\ \A q \in runs : \E r \in runs' : r.gen = q.gen /\ r.job = q.job
    <2>1. /\ runs' \subseteq RunType
          /\ \A r \in runs' : \E q \in runs :
               /\ r.gen = q.gen /\ r.job = q.job /\ r.op = q.op
               /\ r.outcome # "pending"
               /\ r.outcome = IF q.outcome = "pending" THEN "error" ELSE q.outcome
          /\ \A q \in runs : \E r \in runs' : r.gen = q.gen /\ r.job = q.job
          /\ \A r, s \in runs' : Mine(r) /\ Mine(s) => r = s
      BY <1>1, KillRuns DEF Rejections
    <2>2. \A q \in preps : \E p \in preps' : p.id = q.id /\ p.gen = q.gen
      BY <1>1, KillPreps DEF Rejections
    <2>3. AwaitsInv'
      BY <2>1, <2>2 DEF SchedulerInv, AwaitsInv
    <2> QED
      BY <2>1, <2>3 DEF RunsKept
  <1>3. PrepsKept /\ PrepsInv'
    <2>1. /\ preps' \subseteq PreparationType /\ IsFiniteSet(preps')
          /\ \A p \in preps' : \E q \in preps :
               p.id = q.id /\ p.gen = q.gen /\ p.elapsed = q.elapsed /\ p.outcome # "pending"
          /\ \A q \in preps : \E p \in preps' : p.id = q.id /\ p.gen = q.gen /\ p.elapsed = q.elapsed
          /\ \A p, q \in preps' : p.id = q.id => p = q
      BY <1>1, KillPreps DEF Rejections
    <2> QED
      BY <1>1, <2>1 DEF SchedulerInv, PrepsInv, PrepsKept, Mine
  <1>4. \A r \in runs' : Mine(r) => Open(r.job)'
    BY <1>1, <1>2 DEF SchedulerInv, RunsInv, RunsKept, Mine, Open
  <1>5. \A j \in JobIds : Open(j)' => j \in queue' \/ \E r \in runs' : r.gen = session.gen /\ r.job = j
    BY <1>1, <1>2 DEF SchedulerInv, JobsInv, Open
  <1> QED
    BY <1>1, <1>2, <1>3, <1>4, <1>5, JobsStay, TextsInvKept, NewWorkerType, StepKeeps
    DEF SchedulerInv, TypeInv, JobsInv, SessionKept, Open

LEMMA CancelQueuedKeeps ==
  ASSUME SchedulerInv, NEW key, CancelQueued(key)
  PROVE  SchedulerInv'
  <1> DEFINE stale == {j \in queue : jobs[j].key = key}
  <1>1. /\ queue' = queue \ stale /\ jobs' = Settle(jobs, stale, "superseded")
        /\ UNCHANGED <<session, scenario, generation, pumping, runs, preps, worker>>
    BY DEF CancelQueued
  <1>2. stale \subseteq queue
    OBVIOUS
  <1> HIDE DEF stale
  <1>3. /\ JobsKept /\ NothingDelivered
        /\ \A j \in JobIds : Open(j)' <=> Open(j) /\ j \notin stale
    BY <1>1, JobsSettle DEF Outcomes
  <1>4. \A r \in runs' : Mine(r) => Open(r.job)'
    BY <1>1, <1>2, <1>3 DEF SchedulerInv, TypeInv, RunsInv, RunType
  <1>5. /\ \A j \in queue' : Open(j)'
        /\ \A j \in JobIds : Open(j)' => j \in queue' \/ \E r \in runs' : r.gen = session.gen /\ r.job = j
    BY <1>1, <1>2, <1>3 DEF SchedulerInv, TypeInv, JobsInv
  <1>6. session' \in SessionType /\ pumping' \in BOOLEAN /\ worker' \in WorkerType /\ SessionKept
    BY <1>1 DEF SchedulerInv, TypeInv, SessionKept
  <1> QED
    BY <1>1, <1>3, <1>4, <1>5, <1>6, OpsStay, TextsInvKept, StepKeeps

LEMMA SourceVanishesKeeps ==
  ASSUME SchedulerInv, NEW j \in JobIds, SourceVanishes(j)
  PROVE  SchedulerInv'
  <1>1. /\ jobs' = [jobs EXCEPT ![j].visible = FALSE]
        /\ UNCHANGED <<session, scenario, generation, queue, pumping, runs, preps, worker>>
    BY DEF SourceVanishes
  <1>2. jobs' \in [JobIds -> JobType] /\ \A i \in JobIds : 
          /\ jobs'[i].outcome = jobs[i].outcome /\ jobs'[i].gen = jobs[i].gen
          /\ jobs'[i].key = jobs[i].key /\ jobs'[i].route = jobs[i].route
          /\ jobs'[i].profile = jobs[i].profile /\ jobs'[i].left = jobs[i].left
          /\ jobs'[i].age = jobs[i].age /\ jobs'[i].waited = jobs[i].waited
    <2>1. jobs \in [JobIds -> JobType]
      BY DEF SchedulerInv, TypeInv
    <2>2. jobs[j] \in JobType
      BY <2>1
    <2>3. [jobs[j] EXCEPT !.visible = FALSE] \in JobType
      BY <2>2 DEF JobType
    <2>4. jobs' = [jobs EXCEPT ![j] = [jobs[j] EXCEPT !.visible = FALSE]]
      BY <1>1, <2>1
    <2>5. jobs' \in [JobIds -> JobType]
      BY <2>1, <2>3, <2>4
    <2>6. \A i \in JobIds : jobs'[i] = IF i = j THEN [jobs[j] EXCEPT !.visible = FALSE] ELSE jobs[i]
      BY <2>1, <2>4
    <2> QED
      BY <2>2, <2>5, <2>6 DEF JobType
  <1>3. JobsKept /\ NothingDelivered /\ \A i \in JobIds : Open(i)' <=> Open(i)
    BY <1>2 DEF JobsPlaced, TimesKept, NothingDelivered, Open
  <1>4. \A r \in runs' : Mine(r) => Open(r.job)'
    BY <1>1, <1>3 DEF SchedulerInv, TypeInv, RunsInv, RunType
  <1>5. /\ \A i \in queue' : Open(i)'
        /\ \A i \in JobIds : Open(i)' => i \in queue' \/ \E r \in runs' : r.gen = session.gen /\ r.job = i
    BY <1>1, <1>3 DEF SchedulerInv, TypeInv, JobsInv
  <1>6. session' \in SessionType /\ pumping' \in BOOLEAN /\ worker' \in WorkerType /\ SessionKept
    BY <1>1 DEF SchedulerInv, TypeInv, SessionKept
  <1> QED
    BY <1>1, <1>3, <1>4, <1>5, <1>6, OpsStay, TextsInvKept, StepKeeps

\* What a preparation that begins does, called for ahead or by the pump.
LEMMA PreparationBegins ==
  ASSUME SchedulerInv, NEW route \in Routes, session.gen # 0, session.preparation = 0,
         session' = [session EXCEPT !.preparation = FreshOperation],
         preps' = preps \cup {Preparation(route)},
         worker' = Request("prepare", route, FreshOperation), UNCHANGED generation
  PROVE  /\ session' \in SessionType /\ SessionKept /\ worker' \in WorkerType
         /\ PrepsKept /\ PrepsInv'
         /\ \E p \in preps' : p.id = FreshOperation /\ p.gen = session.gen
         /\ \A i \in 1..Len(worker.requests) :
              i \in 1..Len(worker'.requests) /\ worker'.requests[i] = worker.requests[i]
  <1>1. FreshOperation \in Nat \ {0} /\ \A p \in preps : p.id # FreshOperation
    BY FreshIsFresh DEF SchedulerInv, PrepsInv
  <1> DEFINE new == Preparation(route)
  <1>2. /\ new \in PreparationType
        /\ new.id = FreshOperation /\ new.gen = session.gen /\ new.elapsed = 0
    <2>1. session.gen \in 1..MaxGeneration
      BY BoundsAssumption DEF SchedulerInv, TypeInv, SessionType
    <2>2. Sent \in {"pending", "ok"} \cup Rejections
      BY DEF Sent, Rejections
    <2> QED
      BY <1>1, <2>1, <2>2 DEF Preparation, PreparationType
  <1>3. /\ session' \in SessionType /\ SessionKept
        /\ session'.gen = session.gen /\ session'.preparation = FreshOperation
    BY <1>1 DEF SchedulerInv, TypeInv, SessionType, SessionKept
  <1>4. preps' = preps \cup {new}
    OBVIOUS
  <1> HIDE DEF new
  <1>5. IsFiniteSet(preps')
    BY <1>4, FS_AddElement DEF SchedulerInv, PrepsInv
  <1>6. PrepsKept
    BY <1>1, <1>2, <1>4, <1>5 DEF SchedulerInv, TypeInv, PrepsInv, PrepsKept, Mine
  <1>7. PrepsInv'
    <2>1. \A p \in preps' : p.gen <= generation'
      BY <1>2, <1>4, BoundsAssumption DEF SchedulerInv, PrepsInv, TypeInv, SessionType
    <2>2. \A p \in preps' : p.outcome = "pending" => Mine(p)' /\ p.id = session'.preparation
      BY <1>1, <1>2, <1>3, <1>4 DEF SchedulerInv, PrepsInv, TypeInv, PreparationType, Mine
    <2> QED
      BY <1>1, <1>2, <1>3, <1>4, <1>6, <2>1, <2>2 DEF SchedulerInv, PrepsInv, PrepsKept, Mine
  <1> QED
    BY <1>1, <1>2, <1>3, <1>4, <1>6, <1>7, RequestAppends DEF SchedulerInv, TypeInv

LEMMA PrepareKeeps ==
  ASSUME SchedulerInv, NEW route \in Routes, Prepare(route)
  PROVE  SchedulerInv'
  <1>1. UNCHANGED <<scenario, generation, queue, pumping, jobs, runs>>
    BY DEF Prepare
  <1>2. /\ session' \in SessionType /\ SessionKept /\ worker' \in WorkerType
        /\ PrepsKept /\ PrepsInv'
        /\ \A i \in 1..Len(worker.requests) :
             i \in 1..Len(worker'.requests) /\ worker'.requests[i] = worker.requests[i]
    BY PreparationBegins DEF Prepare
  <1>3. AwaitsInv'
    BY <1>1, <1>2 DEF SchedulerInv, AwaitsInv, PrepsKept, SessionKept, Mine
  <1>4. /\ \A r \in runs' : Mine(r) => Open(r.job)'
        /\ \A j \in queue' : Open(j)'
        /\ \A j \in JobIds : Open(j)' => j \in queue' \/ \E r \in runs' : r.gen = session.gen /\ r.job = j
    BY <1>1 DEF SchedulerInv, JobsInv, RunsInv, Mine, Open
  <1> QED
    BY <1>1, <1>2, <1>3, <1>4, OpsStay, JobsStay, TextsInvKept, StepKeeps DEF SchedulerInv, TypeInv

\* A new job is the newest of all.
LEMMA NextJobIsNew ==
  ASSUME SentInOrder, \E j \in JobIds : jobs[j].outcome = "unsent"
  PROVE  /\ NextJob \in JobIds /\ jobs[NextJob].outcome = "unsent"
         /\ \A j \in JobIds : j < NextJob <=> jobs[j].outcome # "unsent"
         /\ \A j \in JobIds : j > NextJob => jobs[j].gen = 0
  <1> USE BoundsAssumption DEF JobIds
  <1>1. PICK n \in 0..MaxJob : \A j \in JobIds :
          /\ j <= n <=> jobs[j].outcome # "unsent"
          /\ j > n => jobs[j].gen = 0
    BY DEF SentInOrder
  <1>2. n + 1 \in JobIds /\ jobs[n + 1].outcome = "unsent"
        /\ \A i \in 1..n : jobs[i].outcome # "unsent"
    BY <1>1
  <1>3. /\ NextJob \in JobIds /\ jobs[NextJob].outcome = "unsent"
        /\ \A i \in 1..(NextJob - 1) : jobs[i].outcome # "unsent"
    BY <1>2 DEF NextJob
  <1>4. NextJob = n + 1
    BY <1>1, <1>2, <1>3
  <1> QED
    BY <1>1, <1>3, <1>4

LEMMA SubmittedType ==
  ASSUME SchedulerInv, NEW route \in Routes, NEW profile \in Profiles, NEW key \in Keys
  PROVE  LET new == [outcome |-> "open", gen |-> session.gen, route |-> route,
                     profile |-> profile, key |-> key, left |-> Budget[profile],
                     age |-> 0, waited |-> 0, visible |-> TRUE]
         IN new \in JobType
  <1> DEFINE yes == TRUE
             new == [outcome |-> "open", gen |-> session.gen, route |-> route,
                     profile |-> profile, key |-> key, left |-> Budget[profile],
                     age |-> 0, waited |-> 0, visible |-> yes]
  <1>1. yes \in BOOLEAN
    OBVIOUS
  <1>2. session.gen \in 0..MaxGeneration /\ Budget[profile] \in Int
    BY PoliciesAssumption DEF SchedulerInv, TypeInv, SessionType
  <1>3. new \in JobType
    <2> HIDE DEF yes
    <2> QED
      BY <1>1, <1>2, BoundsAssumption DEF JobType, Unsettled
  <1> QED
    BY <1>3

LEMMA SubmitKeeps ==
  ASSUME SchedulerInv, NEW route \in Routes, NEW profile \in Profiles, NEW key \in Keys,
         Submit(route, profile, key)
  PROVE  SchedulerInv' /\ NothingDelivered
  <1> USE BoundsAssumption
  <1>0. PICK N \in JobIds : N = NextJob
    BY NextJobIsNew DEF Submit, SchedulerInv, JobsInv
  <1> DEFINE new == [outcome |-> "open", gen |-> session.gen, route |-> route,
                     profile |-> profile, key |-> key, left |-> Budget[profile],
                     age |-> 0, waited |-> 0, visible |-> TRUE]
             J == [jobs EXCEPT ![N] = new]
             Q == (queue \ Coalesced(key)) \cup {N}
             over == Overflow(Q, J)
             ids == Coalesced(key) \cup over
  <1>1. /\ session.gen # 0 /\ \E j \in JobIds : jobs[j].outcome = "unsent"
        /\ queue' = Q \ over /\ jobs' = Settle(J, ids, "superseded") /\ pumping' = TRUE
        /\ UNCHANGED <<session, scenario, generation, runs, preps, worker>>
    BY <1>0 DEF Submit
  <1>2. /\ N \in JobIds /\ jobs[N].outcome = "unsent"
        /\ \A j \in JobIds : j < N <=> jobs[j].outcome # "unsent"
        /\ \A j \in JobIds : j > N => jobs[j].gen = 0
    BY <1>0, <1>1, NextJobIsNew DEF SchedulerInv, JobsInv
  <1>3. /\ new \in JobType /\ new.outcome = "open" /\ new.gen = session.gen /\ new.key = key
        /\ new.profile = profile /\ new.route = route
        /\ new.left = Budget[profile] /\ new.age = 0 /\ new.waited = 0
    BY SubmittedType
  <1> HIDE DEF new
  <1>4. J \in [JobIds -> JobType] /\ J[N] = new /\ \A j \in JobIds \ {N} : J[j] = jobs[j]
    BY <1>2, <1>3 DEF SchedulerInv, TypeInv
  <1>5. Coalesced(key) \subseteq queue /\ \A j \in queue \ Coalesced(key) : jobs[j].key # key
    BY DEF Coalesced
  <1>6. over \subseteq Q /\ N \notin queue /\ queue \subseteq JobIds
    BY <1>2 DEF Overflow, SchedulerInv, TypeInv, JobsInv, Open
  <1> HIDE DEF J, over
  <1>7. jobs' \in [JobIds -> JobType]
        /\ \A j \in JobIds :
             IF j \in ids /\ J[j].outcome = "open"
             THEN jobs'[j].outcome = "superseded" /\ jobs'[j].gen = J[j].gen
                  /\ jobs'[j].key = J[j].key /\ jobs'[j].age = 0
             ELSE jobs'[j] = J[j]
    BY <1>1, <1>4, SettleType DEF Outcomes
  <1>8. /\ jobs'[N].gen = session.gen /\ jobs'[N].key = key /\ jobs'[N].age = 0
        /\ jobs'[N].outcome \in {"open", "superseded"}
        /\ Open(N)' => N \notin over /\ jobs'[N] = new
        /\ N \notin over => Open(N)'
    BY <1>2, <1>3, <1>4, <1>5, <1>6, <1>7 DEF Open
  <1>9. ASSUME NEW j \in JobIds, j # N
        PROVE  /\ jobs'[j].gen = jobs[j].gen /\ jobs'[j].key = jobs[j].key
               /\ jobs'[j].outcome = "unsent" <=> jobs[j].outcome = "unsent"
               /\ jobs'[j].age = jobs[j].age \/ jobs'[j].age = 0
               /\ jobs'[j].outcome = "delivered" => jobs[j].outcome = "delivered"
               /\ Open(j)' => Open(j) /\ j \notin ids /\ jobs'[j] = jobs[j]
               /\ Open(j) /\ j \notin ids => Open(j)'
    BY <1>4, <1>7, <1>9 DEF Open
  <1> HIDE DEF ids
  <1>10. ids \subseteq queue \cup {N} /\ queue' \subseteq queue \cup {N}
         /\ \A j \in queue : j \notin ids <=> j \in queue'
    BY <1>1, <1>5, <1>6 DEF ids
  <1>11. N \in queue' <=> N \notin over
    BY <1>1
  <1>12. TypeInv'
    <2>1. pumping' \in BOOLEAN
      BY <1>1
    <2>2. \A j \in JobIds : Open(j)' => jobs'[j].profile \in Profiles /\ jobs'[j].route \in Routes
      BY <1>3, <1>8, <1>9 DEF SchedulerInv, TypeInv
    <2> QED
      BY <1>1, <1>2, <1>6, <1>7, <1>10, <2>1, <2>2 DEF SchedulerInv, TypeInv
  <1>13. JobsInv'
    <2>1. SentInOrder'
      <3>1. N \in 0..MaxJob
        BY <1>2 DEF JobIds
      <3>2. \A j \in JobIds : j <= N <=> jobs'[j].outcome # "unsent"
        BY <1>2, <1>8, <1>9 DEF JobIds
      <3>3. \A j \in JobIds : j > N => jobs'[j].gen = 0
        BY <1>2, <1>9 DEF JobIds
      <3> QED
        BY <3>1, <3>2, <3>3 DEF SentInOrder
    <2>2. \A j \in queue' : Open(j)'
      BY <1>6, <1>8, <1>9, <1>10, <1>11 DEF SchedulerInv, JobsInv
    <2>3. ASSUME NEW j \in JobIds, Open(j)'
          PROVE  /\ jobs'[j].gen = session'.gen /\ session'.gen # 0
                 /\ j \in queue' \/ \E r \in runs' : r.gen = session'.gen /\ r.job = j
      <3>1. CASE j = N
        BY <1>1, <1>8, <1>11, <2>3, <3>1
      <3>2. CASE j # N
        BY <1>1, <1>9, <1>10, <2>3, <3>2 DEF SchedulerInv, JobsInv
      <3> QED
        BY <3>1, <3>2
    <2>4. ASSUME NEW i \in queue', NEW j \in JobIds, i < j, jobs'[j].gen = jobs'[i].gen
          PROVE  jobs'[j].key # jobs'[i].key
      <3>1. CASE i = N
        <4>1. j # N /\ jobs'[j].gen = 0
          BY <1>2, <1>9, <2>4, <3>1 DEF JobIds
        <4> QED
          BY <1>1, <1>8, <2>4, <3>1, <4>1
      <3>2. CASE i # N /\ j = N
        <4>1. i \in queue \ Coalesced(key)
          BY <1>1, <1>10, <3>2
        <4> QED
          BY <1>5, <1>6, <1>8, <1>9, <3>2, <4>1
      <3>3. CASE i # N /\ j # N
        BY <1>6, <1>9, <1>10, <2>4, <3>3 DEF SchedulerInv, JobsInv
      <3> QED
        BY <3>1, <3>2, <3>3
    <2> QED
      BY <2>1, <2>2, <2>3, <2>4 DEF JobsInv
  <1>14. RunsInv'
    <2>1. ASSUME NEW r \in runs
          PROVE  /\ jobs'[r.job].gen = r.gen /\ r.gen <= generation
                 /\ jobs'[r.job].outcome # "unsent"
                 /\ Mine(r) => Open(r.job)' /\ r.job \notin queue'
      <3>1. r.job \in JobIds /\ r.job # N
        BY <1>2 DEF SchedulerInv, TypeInv, RunsInv, RunType
      <3> QED
        BY <1>9, <1>10, <3>1 DEF SchedulerInv, RunsInv
    <2> QED
      BY <1>1, <2>1 DEF SchedulerInv, RunsInv, Mine
  <1>15. TextsInv'
    <2> SUFFICES ASSUME NEW i \in JobIds, NEW j \in JobIds, i < j, Open(i)',
                        jobs'[i].gen = jobs'[j].gen, jobs'[i].key = jobs'[j].key
                 PROVE  jobs'[j].outcome # "delivered"
      BY DEF TextsInv
    <2>1. CASE j = N
      BY <1>8, <2>1
    <2>2. CASE i = N
      BY <1>2, <1>9, <2>2 DEF JobIds
    <2>3. CASE i # N /\ j # N
      BY <1>9, <2>3 DEF SchedulerInv, TextsInv
    <2> QED
      BY <2>1, <2>2, <2>3
  <1>16. DeadlinesInv'
    <2>1. \A j \in JobIds : jobs'[j].age <= PreparationDeadline
      BY <1>8, <1>9 DEF SchedulerInv, DeadlinesInv
    <2>2. ASSUME NEW j \in JobIds, Counts(j)'
          PROVE  /\ (\A p \in preps : ~Spent(p)) => jobs'[j].left = DeadlineOf(j)'
                 /\ \A p \in preps : Spent(p) =>
                      jobs'[j].left + Least(p.elapsed, jobs'[j].age) = DeadlineOf(j)'
      <3>1. CASE j = N
        <4>1. jobs'[N] = new
          BY <1>8, <2>2, <3>1 DEF Counts
        <4>2. jobs'[N].left = Budget[profile] /\ jobs'[N].age = 0 /\ DeadlineOf(N)' = Budget[profile]
          BY <1>3, <4>1, PoliciesAssumption DEF DeadlineOf
        <4>3. \A p \in preps : Least(p.elapsed, 0) = 0
          BY DEF Least, SchedulerInv, TypeInv, PreparationType
        <4> QED
          BY <3>1, <4>2, <4>3, PoliciesAssumption
      <3>2. CASE j # N
        <4>1. jobs'[j] = jobs[j] /\ Counts(j) /\ DeadlineOf(j)' = DeadlineOf(j)
          BY <1>9, <2>2, <3>2 DEF Counts, DeadlineOf
        <4> QED
          BY <4>1 DEF SchedulerInv, DeadlinesInv
      <3> QED
        BY <3>1, <3>2
    <2> QED
      BY <1>1, <2>1, <2>2 DEF SchedulerInv, DeadlinesInv, Spent, Mine
  <1>17. NothingDelivered
    BY <1>8, <1>9 DEF NothingDelivered
  <1> QED
    BY <1>1, <1>12, <1>13, <1>14, <1>15, <1>16, <1>17, OpsStay DEF SchedulerInv

LEMMA ReadyToRun ==
  ASSUME SchedulerInv, queue # {}
  PROVE  TakeNext \in queue /\ TakeNext \in JobIds /\ Open(TakeNext)
  <1>1. /\ jobs \in [JobIds -> JobType] /\ queue \subseteq JobIds
        /\ \A j \in queue : jobs[j].profile \in Profiles /\ Open(j)
    BY DEF SchedulerInv, TypeInv, JobsInv
  <1>2. \E j \in queue : \A i \in queue \ {j} : Before(i, j, jobs)
    BY <1>1, JobsAreOrdered
  <1> QED
    BY <1>1, <1>2 DEF TakeNext

\* What inferring a job does that is the only one its session executes.
LEMMA InferKeeps ==
  ASSUME SchedulerInv, NEW j \in JobIds, NEW original \in BOOLEAN, NEW others,
         Infer(j, original, others), others \subseteq runs, \A r \in others : ~Mine(r),
         Open(j), session.gen # 0, UNCHANGED <<session, scenario, generation, pumping, preps>>,
         queue' = queue \ {j},
         \A i \in JobIds : Open(i) /\ i # j => i \in queue
  PROVE  SchedulerInv'
  <1> USE BoundsAssumption
  <1>1. session' \in SessionType /\ pumping' \in BOOLEAN /\ SessionKept /\ worker \in WorkerType
        /\ PrepsKept /\ PrepsInv'
    BY OpsStay DEF SchedulerInv, TypeInv, SessionKept
  <1>2. CASE \E result \in {"superseded", "expired"} :
               jobs' = Settle(jobs, {j}, result) /\ runs' = others /\ UNCHANGED worker
    <2>1. PICK result \in {"superseded", "expired"} :
            jobs' = Settle(jobs, {j}, result) /\ runs' = others /\ UNCHANGED worker
      BY <1>2
    <2>2. /\ JobsKept /\ NothingDelivered
          /\ \A i \in JobIds : Open(i)' <=> Open(i) /\ i # j
      BY <2>1, JobsSettle DEF Outcomes
    <2>3. RunsKept /\ AwaitsInv' /\ \A r \in runs' : ~Mine(r)
      BY <2>1 DEF SchedulerInv, TypeInv, RunsKept, AwaitsInv, Mine
    <2>4. /\ \A i \in queue' : Open(i)'
          /\ \A i \in JobIds : Open(i)' => i \in queue'
      BY <2>2 DEF SchedulerInv, TypeInv, JobsInv
    <2> QED
      BY <1>1, <2>1, <2>2, <2>3, <2>4, TextsInvKept, StepKeeps
  <1>3. CASE /\ runs' = others \cup
                  {[gen |-> session.gen, job |-> j, original |-> original, op |-> 0,
                    at |-> "translating", timer |-> jobs[j].left, outcome |-> Sent]}
             /\ worker' = Request("translate", jobs[j].route, j) /\ UNCHANGED jobs
    <2> DEFINE new == [gen |-> session.gen, job |-> j, original |-> original, op |-> 0,
                       at |-> "translating", timer |-> jobs[j].left, outcome |-> Sent]
    <2>1. new \in RunType /\ new.gen = session.gen /\ new.job = j /\ new.outcome = Sent
      <3>1. session.gen \in 1..MaxGeneration /\ jobs[j].left \in Int
        BY DEF SchedulerInv, TypeInv, SessionType, JobType
      <3>2. Sent \in {"waiting", "pending", "ok"} \cup Rejections
        BY DEF Sent, Rejections
      <3> QED
        BY <3>1, <3>2 DEF RunType
    <2>2. runs' = others \cup {new}
      BY <1>3
    <2> HIDE DEF new
    <2>3. /\ worker' \in WorkerType
          /\ \A i \in 1..Len(worker.requests) :
               i \in 1..Len(worker'.requests) /\ worker'.requests[i] = worker.requests[i]
          /\ worker.alive => \E i \in 1..Len(worker'.requests) :
               worker'.requests[i].kind = "translate" /\ worker'.requests[i].of = j
      <3>1. jobs[j].route \in Routes /\ j \in Nat
        BY DEF SchedulerInv, TypeInv, JobIds
      <3> QED
        BY <1>1, <1>3, <3>1, RequestAppends
    <2>4. JobsKept /\ NothingDelivered /\ \A i \in JobIds : Open(i)' <=> Open(i)
      BY <1>3, JobsStay DEF Open
    <2>5. RunsKept /\ \A r \in runs' : Mine(r) => Open(r.job)'
      BY <2>1, <2>2, <2>4 DEF SchedulerInv, TypeInv, RunsKept, Mine
    <2>6. AwaitsInv'
      <3>1. \A r \in others : r.outcome # "pending"
        BY DEF SchedulerInv, AwaitsInv
      <3>2. Sent \in {"pending", "terminated"} /\ (Sent = "pending" => worker.alive)
        BY DEF Sent
      <3> QED
        BY <2>1, <2>2, <2>3, <3>1, <3>2 DEF SchedulerInv, AwaitsInv, Mine
    <2>7. /\ \A i \in queue' : Open(i)'
          /\ \A i \in JobIds : Open(i)' => i \in queue' \/ \E r \in runs' : r.gen = session.gen /\ r.job = i
      BY <2>1, <2>2, <2>4 DEF SchedulerInv, TypeInv, JobsInv
    <2> QED
      BY <1>1, <2>3, <2>4, <2>5, <2>6, <2>7, TextsInvKept, StepKeeps
  <1> QED
    BY <1>2, <1>3 DEF Infer

\* While the pump may take a job the session runs none, so what is open is queued.
LEMMA PumpKeeps ==
  ASSUME SchedulerInv, PumpNext
  PROVE  SchedulerInv'
  <1> USE BoundsAssumption
  <1>1. /\ \A r \in runs : ~Mine(r)
        /\ \A j \in JobIds : Open(j) => j \in queue /\ jobs[j].gen = session.gen
        /\ UNCHANGED <<scenario, generation>>
    BY DEF PumpNext, SchedulerInv, JobsInv, Mine
  <1>2. CASE queue = {}
    <2>1. pumping' = FALSE /\ UNCHANGED <<session, queue, jobs, runs, preps, worker>>
      BY <1>2 DEF PumpNext
    <2>2. pumping' \in BOOLEAN
      BY <2>1
    <2>3. JobsKept /\ NothingDelivered /\ SessionKept /\ \A j \in JobIds : Open(j)' <=> Open(j)
      BY <1>1, <2>1, JobsStay DEF SessionKept, Open
    <2>4. /\ \A r \in runs' : Mine(r) => Open(r.job)'
          /\ \A i \in JobIds : Open(i)' => i \in queue'
      BY <1>1, <2>1, <2>3
    <2> QED
      BY <1>1, <1>2, <2>1, <2>2, <2>3, <2>4, OpsStay, TextsInvKept, StepKeeps
      DEF SchedulerInv, TypeInv
  <1>3. CASE queue # {}
    <2>1. PICK j \in JobIds : j = TakeNext /\ j \in queue /\ Open(j)
      BY <1>3, ReadyToRun
    <2>2. /\ queue' = queue \ {j} /\ pumping' = pumping
          /\ PumpExpires \/ PumpPrepares \/ PumpInfers
      BY <1>3, <2>1 DEF PumpNext
    <2>3. session.gen # 0
      BY <2>1 DEF SchedulerInv, JobsInv
    <2>4. CASE PumpExpires
      <3>1. jobs' = Settle(jobs, {j}, "expired") /\ UNCHANGED <<session, runs, preps, worker>>
        BY <2>1, <2>4 DEF PumpExpires
      <3>2. /\ JobsKept /\ NothingDelivered
            /\ \A i \in JobIds : Open(i)' <=> Open(i) /\ i # j
        BY <3>1, JobsSettle DEF Outcomes
      <3>3. /\ \A i \in queue' : Open(i)'
            /\ \A i \in JobIds : Open(i)' => i \in queue'
            /\ \A r \in runs' : ~Mine(r)
        BY <1>1, <2>2, <3>1, <3>2 DEF SchedulerInv, TypeInv, JobsInv
      <3> QED
        BY <1>1, <2>2, <3>1, <3>2, <3>3, OpsStay, TextsInvKept, StepKeeps
        DEF SchedulerInv, TypeInv, SessionKept
    <2>5. CASE PumpPrepares
      <3> DEFINE op == IF session.preparation # 0 THEN session.preparation ELSE FreshOperation
                 new == [gen |-> session.gen, job |-> j, original |-> TRUE, op |-> op,
                         at |-> "preparing", timer |-> 0, outcome |-> "waiting"]
      <3>1. /\ runs' = runs \cup {new} /\ UNCHANGED jobs
            /\ IF session.preparation # 0
               THEN UNCHANGED <<session, preps, worker>>
               ELSE /\ session' = [session EXCEPT !.preparation = op]
                    /\ preps' = preps \cup {Preparation(jobs[j].route)}
                    /\ worker' = Request("prepare", jobs[j].route, op)
        BY <2>1, <2>5 DEF PumpPrepares
      <3>2. op \in Nat /\ jobs[j].route \in Routes
        BY <2>1, FreshIsFresh DEF SchedulerInv, TypeInv, PrepsInv, SessionType
      <3>3. /\ session' \in SessionType /\ SessionKept /\ worker' \in WorkerType
            /\ PrepsKept /\ PrepsInv'
            /\ \E p \in preps' : p.id = op /\ p.gen = session.gen
            /\ \A i \in 1..Len(worker.requests) :
                 i \in 1..Len(worker'.requests) /\ worker'.requests[i] = worker.requests[i]
        <4>1. CASE session.preparation # 0
          BY <1>1, <3>1, <4>1, OpsStay DEF SchedulerInv, TypeInv, SessionKept, PrepsInv, Mine
        <4>2. CASE session.preparation = 0
          BY <1>1, <2>3, <3>1, <3>2, <4>2, PreparationBegins
        <4> QED
          BY <4>1, <4>2
      <3>4. new \in RunType /\ new.gen = session.gen /\ new.job = j
            /\ new.op = op /\ new.outcome = "waiting"
        <4> DEFINE yes == TRUE
        <4>1. yes \in BOOLEAN
          OBVIOUS
        <4>2. new = [gen |-> session.gen, job |-> j, original |-> yes, op |-> op,
                     at |-> "preparing", timer |-> 0, outcome |-> "waiting"]
          OBVIOUS
        <4>3. session.gen \in 1..MaxGeneration
          BY <2>3 DEF SchedulerInv, TypeInv, SessionType
        <4> HIDE DEF yes, op, new
        <4> QED
          BY <3>2, <4>1, <4>2, <4>3 DEF RunType
      <3> HIDE DEF new, op
      <3>5. JobsKept /\ NothingDelivered /\ \A i \in JobIds : Open(i)' <=> Open(i)
        BY <3>1, JobsStay DEF Open
      <3>6. RunsKept /\ \A r \in runs' : Mine(r) => Open(r.job)'
        BY <1>1, <2>1, <2>2, <3>1, <3>4, <3>5 DEF SchedulerInv, TypeInv, RunsKept, Mine
      <3>7. AwaitsInv'
        <4>1. \A r \in runs : r.outcome # "pending"
          BY <1>1 DEF SchedulerInv, AwaitsInv
        <4>2. \A r \in runs : r.outcome = "waiting" => \E p \in preps' : p.id = r.op /\ p.gen = r.gen
          BY <3>3 DEF SchedulerInv, AwaitsInv, PrepsKept
        <4> QED
          BY <3>1, <3>3, <3>4, <4>1, <4>2 DEF AwaitsInv
      <3>8. /\ \A i \in queue' : Open(i)'
            /\ \A i \in JobIds : Open(i)' => i \in queue' \/ \E r \in runs' : r.gen = session.gen /\ r.job = i
        BY <1>1, <2>2, <3>1, <3>4, <3>5 DEF SchedulerInv, TypeInv, JobsInv
      <3> QED
        BY <1>1, <2>2, <3>3, <3>5, <3>6, <3>7, <3>8, TextsInvKept, StepKeeps
        DEF SchedulerInv, TypeInv
    <2>6. CASE PumpInfers
      <3>1. Infer(j, TRUE, runs) /\ UNCHANGED <<session, preps>>
        BY <2>1, <2>6 DEF PumpInfers
      <3>2. TRUE \in BOOLEAN
        OBVIOUS
      <3> QED
        BY <1>1, <2>1, <2>2, <2>3, <3>1, <3>2, InferKeeps
    <2> QED
      BY <2>2, <2>4, <2>5, <2>6
  <1> QED
    BY <1>2, <1>3

LEMMA ExecutePreparedKeeps ==
  ASSUME SchedulerInv, NEW r \in runs, ExecutePrepared(r)
  PROVE  SchedulerInv'
  <1>1. /\ r \in RunType /\ r.job \in JobIds /\ r.gen \in 1..MaxGeneration /\ r.original \in BOOLEAN
        /\ r.outcome = "ok"
        /\ UNCHANGED <<session, scenario, generation, queue, pumping, preps>>
    BY DEF ExecutePrepared, SchedulerInv, TypeInv, RunType
  <1>2. CASE Mine(r)
    <2>1. Open(r.job) /\ r.job \notin queue /\ session.gen # 0
      BY <1>1, <1>2 DEF SchedulerInv, RunsInv, Mine
    <2>2. Infer(r.job, r.original, runs \ {r})
      BY <1>2, <2>1 DEF ExecutePrepared, Current, Mine, Open
    <2>3. \A q \in runs \ {r} : ~Mine(q)
      BY <1>2 DEF SchedulerInv, RunsInv
    <2>4. \A i \in JobIds : Open(i) /\ i # r.job => i \in queue
      BY <2>3 DEF SchedulerInv, JobsInv, Mine
    <2>5. queue' = queue \ {r.job}
      BY <1>1, <2>1
    <2> HIDE DEF Mine
    <2> QED
      BY <1>1, <2>1, <2>2, <2>3, <2>4, <2>5, InferKeeps
  <1>3. CASE ~Mine(r)
    <2>1. runs' = runs \ {r} /\ UNCHANGED <<jobs, worker>>
      BY <1>3 DEF ExecutePrepared, Current, Mine
    <2>2. JobsKept /\ NothingDelivered /\ \A i \in JobIds : Open(i)' <=> Open(i)
      BY <2>1, JobsStay DEF Open
    <2>3. RunsKept /\ AwaitsInv' /\ \A q \in runs' : Mine(q) => Open(q.job)'
      BY <1>1, <2>1, <2>2 DEF SchedulerInv, TypeInv, RunsKept, RunsInv, AwaitsInv, RunType, Mine
    <2>4. /\ \A i \in queue' : Open(i)'
          /\ \A i \in JobIds : Open(i)' => i \in queue' \/ \E q \in runs' : q.gen = session.gen /\ q.job = i
      BY <1>1, <1>3, <2>1, <2>2 DEF SchedulerInv, TypeInv, JobsInv, Mine
    <2> QED
      BY <1>1, <2>1, <2>2, <2>3, <2>4, OpsStay, TextsInvKept, StepKeeps
      DEF SchedulerInv, TypeInv, SessionKept
  <1> QED
    BY <1>2, <1>3

\* Once its run has ended the job of a run of the session is settled; one of an
\* earlier session has been settled before.
LEMMA RunEnds ==
  ASSUME SchedulerInv, NEW r \in runs, NEW result \in Outcomes,
         jobs' = Settle(jobs, {r.job}, result), runs' = runs \ {r}, queue' = queue
  PROVE  /\ JobsKept /\ RunsKept
         /\ result # "delivered" => NothingDelivered
         /\ \A j \in queue' : Open(j)'
         /\ \A q \in runs' : Mine(q) => Open(q.job)'
         /\ \A j \in JobIds : Open(j)' =>
              j \in queue' \/ \E q \in runs' : q.gen = session.gen /\ q.job = j
         /\ ~Mine(r) => \A j \in JobIds : jobs'[j] = jobs[j]
  <1>1. /\ JobsKept /\ (result # "delivered" => NothingDelivered)
        /\ \A j \in JobIds : Open(j)' <=> Open(j) /\ j # r.job
        /\ \A j \in JobIds : jobs'[j] = jobs[j] \/ (Open(j) /\ j = r.job)
    BY JobsSettle
  <1>2. \A q \in runs : q.job \in JobIds /\ jobs[q.job].gen = q.gen
    BY DEF SchedulerInv, TypeInv, RunsInv, RunType
  <1>3. RunsKept
    BY DEF SchedulerInv, TypeInv, RunsKept, RunsInv, Mine
  <1>4. Open(r.job) => Mine(r)
    BY <1>2 DEF SchedulerInv, JobsInv, Mine
  <1>5. \A j \in queue : j \in JobIds /\ Open(j) /\ j # r.job
    BY <1>4 DEF SchedulerInv, TypeInv, JobsInv, RunsInv
  <1>6. ASSUME NEW q \in runs', Mine(q)
        PROVE  Open(q.job)'
    <2>1. Open(q.job) /\ q.job \in JobIds /\ q # r
      BY <1>2, <1>6 DEF SchedulerInv, RunsInv
    <2>2. q.job # r.job
      BY <1>4, <1>6, <2>1 DEF SchedulerInv, RunsInv
    <2> QED
      BY <1>1, <2>1, <2>2
  <1>7. ASSUME NEW j \in JobIds, Open(j)'
        PROVE  j \in queue' \/ \E q \in runs' : q.gen = session.gen /\ q.job = j
    BY <1>1, <1>7 DEF SchedulerInv, JobsInv
  <1> QED
    BY <1>1, <1>3, <1>4, <1>5, <1>6, <1>7

\* Of the jobs of one key the newest is delivered last: the older ones are
\* queued, where no two of a key are, or settled.
LEMMA ExecuteTranslatedKeeps ==
  ASSUME SchedulerInv, NEW r \in runs, ExecuteTranslated(r)
  PROVE  SchedulerInv'
  <1>1. /\ r.outcome = "ok" /\ runs' = runs \ {r}
        /\ UNCHANGED <<session, scenario, generation, queue, pumping, preps, worker>>
    BY DEF ExecuteTranslated
  <1>2. r.job \in JobIds /\ r.gen \in 1..MaxGeneration
    BY DEF SchedulerInv, TypeInv, RunType
  <1>3. AwaitsInv'
    BY <1>1 DEF SchedulerInv, AwaitsInv, Mine
  <1>4. CASE Mine(r)
    <2>1. PICK result \in {"delivered", "superseded"} : jobs' = Settle(jobs, {r.job}, result)
      BY <1>2, <1>4 DEF ExecuteTranslated, Current, Mine
    <2>2. result \in Outcomes
      BY DEF Outcomes
    <2>3. /\ JobsKept
          /\ \A j \in JobIds : Open(j)' => Open(j) /\ j # r.job
          /\ \A j \in JobIds : jobs'[j] = jobs[j] \/ j = r.job
      BY <2>1, <2>2, JobsSettle
    <2>4. TextsInv'
      <3> SUFFICES ASSUME NEW i \in JobIds, NEW j \in JobIds, i < j, Open(i)',
                          jobs'[i].gen = jobs'[j].gen, jobs'[i].key = jobs'[j].key
                   PROVE  jobs'[j].outcome # "delivered"
        BY DEF TextsInv
      <3>1. Open(i) /\ i # r.job /\ jobs[i].gen = jobs[j].gen /\ jobs[i].key = jobs[j].key
        BY <2>3 DEF JobsPlaced
      <3>2. j # r.job
        <4>1. i \in queue
          BY <1>4, <3>1 DEF SchedulerInv, JobsInv, RunsInv, Mine
        <4> QED
          BY <3>1, <4>1 DEF SchedulerInv, JobsInv
      <3> QED
        BY <2>3, <3>1, <3>2 DEF SchedulerInv, TextsInv
    <2> QED
      BY <1>1, <1>3, <2>1, <2>2, <2>4, RunEnds, OpsStay, StepKeeps
      DEF SchedulerInv, TypeInv, SessionKept
  <1>5. CASE ~Mine(r)
    <2>1. UNCHANGED jobs
      BY <1>5 DEF ExecuteTranslated, Current, Mine
    <2>2. JobsKept /\ NothingDelivered /\ \A i \in JobIds : Open(i)' <=> Open(i)
      BY <2>1, JobsStay DEF Open
    <2>3. RunsKept /\ \A q \in runs' : Mine(q) => Open(q.job)'
      BY <1>1, <2>2 DEF SchedulerInv, TypeInv, RunsKept, RunsInv, RunType, Mine
    <2>4. /\ \A i \in queue' : Open(i)'
          /\ \A i \in JobIds : Open(i)' => i \in queue' \/ \E q \in runs' : q.gen = session.gen /\ q.job = i
      BY <1>1, <1>5, <2>2 DEF SchedulerInv, TypeInv, JobsInv, Mine
    <2> QED
      BY <1>1, <1>3, <2>2, <2>3, <2>4, OpsStay, TextsInvKept, StepKeeps
      DEF SchedulerInv, TypeInv, SessionKept
  <1> QED
    BY <1>4, <1>5

LEMMA RestartedType ==
  ASSUME SchedulerInv
  PROVE  Restarted \in SessionType /\ Restarted.gen = session.gen /\ Restarted.preparation = 0
  BY DEF Restarted, SchedulerInv, TypeInv, SessionType

LEMMA ExecuteFailsKeeps ==
  ASSUME SchedulerInv, NEW r \in runs, ExecuteFails(r)
  PROVE  SchedulerInv'
  <1>1. /\ r.outcome \in Rejections /\ runs' = runs \ {r}
        /\ jobs' = Settle(jobs, {r.job}, Verdict(r.outcome))
        /\ UNCHANGED <<scenario, generation, queue, pumping>>
    BY DEF ExecuteFails
  <1>2. Verdict(r.outcome) \in Outcomes \ {"delivered"}
    BY <1>1 DEF Verdict, Outcomes, DeadlineErrors, Rejections
  <1>3. TextsInv'
    BY <1>1, <1>2, RunEnds, TextsInvKept
  <1>4. CASE UNCHANGED <<session, preps, worker>>
    <2>1. AwaitsInv'
      BY <1>1, <1>4 DEF SchedulerInv, AwaitsInv, Mine
    <2> QED
      BY <1>1, <1>2, <1>3, <1>4, <2>1, RunEnds, OpsStay, StepKeeps
      DEF SchedulerInv, TypeInv, SessionKept
  <1>5. CASE /\ Mine(r) /\ session' = Restarted /\ preps' = Kill(preps, Reason(r.outcome))
             /\ worker' = NewWorker
    <2>1. Reason(r.outcome) \in Rejections
      BY <1>1 DEF Reason, Rejections
    <2>2. /\ preps' \subseteq PreparationType /\ IsFiniteSet(preps')
          /\ \A p \in preps' : \E q \in preps :
               p.id = q.id /\ p.gen = q.gen /\ p.elapsed = q.elapsed /\ p.outcome # "pending"
          /\ \A q \in preps : \E p \in preps' : p.id = q.id /\ p.gen = q.gen /\ p.elapsed = q.elapsed
          /\ \A p, q \in preps' : p.id = q.id => p = q
      BY <1>5, <2>1, KillPreps
    <2>3. session' \in SessionType /\ session'.gen = session.gen /\ session'.preparation = 0
      BY <1>5, RestartedType
    <2>4. PrepsKept /\ PrepsInv'
      BY <1>1, <2>2, <2>3 DEF SchedulerInv, PrepsInv, PrepsKept, Mine
    <2>5. AwaitsInv'
      <3>1. \A q \in runs' : q.outcome # "pending"
        BY <1>1, <1>5 DEF SchedulerInv, AwaitsInv, RunsInv
      <3> QED
        BY <1>1, <2>2, <3>1 DEF SchedulerInv, AwaitsInv
    <2> QED
      BY <1>1, <1>2, <1>3, <1>5, <2>3, <2>4, <2>5, NewWorkerType, RunEnds, StepKeeps
      DEF SchedulerInv, TypeInv, SessionKept
  <1> QED
    BY <1>4, <1>5 DEF ExecuteFails, Current, Mine

\* Operations of which some end, f saying how.
LEMMA PrepsEnd ==
  ASSUME SchedulerInv, UNCHANGED <<session, generation>>,
         NEW f \in [preps -> PreparationType], preps' = {f[p] : p \in preps},
         \A p \in preps : /\ f[p].id = p.id /\ f[p].gen = p.gen
                          /\ f[p].outcome = "pending" => p.outcome = "pending"
  PROVE  /\ IsFiniteSet(preps') /\ PrepsInv'
         /\ (\A p \in preps : f[p].elapsed = p.elapsed) => PrepsKept
  <1>1. IsFiniteSet(preps')
    <2>1. f \in Surjection(preps, preps')
      BY DEF Surjection
    <2> QED
      BY <2>1, FS_Surjection DEF SchedulerInv, PrepsInv
  <1>2. \A p, q \in preps' : p.id = q.id => p = q
    BY DEF SchedulerInv, PrepsInv
  <1>3. \A p \in preps' : p.gen <= generation' /\ (p.outcome = "pending" => Mine(p)' /\ p.id = session'.preparation)
    BY DEF SchedulerInv, PrepsInv, Mine
  <1>4. session'.preparation # 0 => \E p \in preps' : Mine(p)' /\ p.id = session'.preparation
    BY DEF SchedulerInv, PrepsInv, Mine
  <1>5. PrepsInv'
    BY <1>1, <1>2, <1>3, <1>4 DEF SchedulerInv, PrepsInv
  <1>6. (\A p \in preps : f[p].elapsed = p.elapsed) => PrepsKept
    BY <1>1, <1>2 DEF PrepsKept
  <1> QED
    BY <1>1, <1>5, <1>6

LEMMA RunsEnd ==
  ASSUME SchedulerInv, UNCHANGED queue, \A j \in JobIds : Open(j)' <=> Open(j),
         NEW f \in [runs -> RunType], runs' = {f[r] : r \in runs},
         \A r \in runs : f[r].gen = r.gen /\ f[r].job = r.job
  PROVE  /\ RunsKept
         /\ \A j \in queue' : Open(j)'
         /\ \A r \in runs' : Mine(r) => Open(r.job)'
         /\ \A j \in JobIds : Open(j)' =>
              j \in queue' \/ \E r \in runs' : r.gen = session.gen /\ r.job = j
  <1>1. RunsKept
    <2>1. \A r, s \in runs' : Mine(r) /\ Mine(s) => r = s
      BY DEF SchedulerInv, RunsInv, Mine
    <2> QED
      BY <2>1 DEF RunsKept
  <1>2. \A r \in runs' : Mine(r) => Open(r.job)'
    BY DEF SchedulerInv, TypeInv, RunType, RunsInv, Mine
  <1>3. \A j \in JobIds : Open(j)' =>
          j \in queue' \/ \E r \in runs' : r.gen = session.gen /\ r.job = j
    BY DEF SchedulerInv, JobsInv
  <1> QED
    BY <1>1, <1>2, <1>3 DEF SchedulerInv, TypeInv, JobsInv

LEMMA HeadRequest ==
  ASSUME worker \in WorkerType, worker.requests # <<>>
  PROVE  /\ Head(worker.requests) \in RequestType
         /\ Tail(worker.requests) \in Seq(RequestType)
         /\ \A i \in 1..Len(worker.requests) :
              \/ worker.requests[i] = Head(worker.requests)
              \/ \E k \in 1..Len(Tail(worker.requests)) :
                   Tail(worker.requests)[k] = worker.requests[i]
  <1> DEFINE q == worker.requests
  <1>1. q \in Seq(RequestType) /\ q # <<>>
    BY DEF WorkerType
  <1> HIDE DEF q
  <1>2. Head(q) \in RequestType /\ Tail(q) \in Seq(RequestType) /\ Head(q) = q[1]
        /\ Len(Tail(q)) = Len(q) - 1 /\ \A k \in 1..(Len(q) - 1) : Tail(q)[k] = q[k + 1]
    BY <1>1
  <1>3. ASSUME NEW i \in 1..Len(q), i # 1
        PROVE  i - 1 \in 1..Len(Tail(q)) /\ Tail(q)[i - 1] = q[i]
    BY <1>1, <1>2, <1>3
  <1> QED
    BY <1>2, <1>3 DEF q

LEMMA AnswerKeeps ==
  ASSUME SchedulerInv, worker.requests # <<>>, NEW result \in {"ok", "error"},
         NEW loaded \in Routes \cup {None},
         worker' = [worker EXCEPT !.loaded = loaded, !.requests = Tail(@)],
         Answer(Head(worker.requests), result),
         UNCHANGED <<session, scenario, generation, queue, pumping, jobs>>
  PROVE  SchedulerInv'
  <1> DEFINE request == Head(worker.requests)
             f == [p \in preps |->
                     IF request.kind = "prepare" /\ p.id = request.of /\ p.outcome = "pending"
                     THEN [p EXCEPT !.outcome = result] ELSE p]
             g == [r \in runs |->
                     IF request.kind = "translate" /\ r.job = request.of /\ r.outcome = "pending"
                     THEN [r EXCEPT !.outcome = result] ELSE r]
  <1>1. preps' = {f[p] : p \in preps} /\ runs' = {g[r] : r \in runs}
    BY DEF Answer
  <1>2. \A p \in preps : /\ f[p] \in PreparationType
                         /\ f[p].id = p.id /\ f[p].gen = p.gen /\ f[p].elapsed = p.elapsed
                         /\ f[p].outcome = "pending" => p.outcome = "pending"
    BY DEF SchedulerInv, TypeInv, PreparationType, Rejections
  <1>3. \A r \in runs : /\ g[r] \in RunType
                        /\ g[r].gen = r.gen /\ g[r].job = r.job /\ g[r].op = r.op
                        /\ g[r].outcome = "waiting" => r.outcome = "waiting"
                        /\ g[r].outcome = "pending" =>
                             /\ r.outcome = "pending"
                             /\ ~(request.kind = "translate" /\ request.of = r.job)
    BY DEF SchedulerInv, TypeInv, RunType, Rejections
  <1>4. f \in [preps -> PreparationType] /\ g \in [runs -> RunType]
    BY <1>2, <1>3
  <1> HIDE DEF f, g
  <1>5. PrepsKept /\ PrepsInv'
    BY <1>1, <1>2, <1>4, PrepsEnd
  <1>6. /\ worker' \in WorkerType /\ worker'.requests = Tail(worker.requests)
    BY HeadRequest DEF SchedulerInv, TypeInv, WorkerType
  <1>7. AwaitsInv'
    <2>1. ASSUME NEW r \in runs, g[r].outcome = "waiting"
          PROVE  \E p \in preps' : p.id = g[r].op /\ p.gen = g[r].gen
      BY <1>3, <1>5, <2>1 DEF SchedulerInv, AwaitsInv, PrepsKept
    <2>2. ASSUME NEW r \in runs, g[r].outcome = "pending"
          PROVE  /\ Mine(g[r])
                 /\ \E i \in 1..Len(worker'.requests) :
                      /\ worker'.requests[i].kind = "translate"
                      /\ worker'.requests[i].of = g[r].job
      <3>1. Mine(r)
        BY <1>3, <2>2 DEF SchedulerInv, AwaitsInv
      <3>2. PICK i \in 1..Len(worker.requests) :
              worker.requests[i].kind = "translate" /\ worker.requests[i].of = r.job
        BY <1>3, <2>2 DEF SchedulerInv, AwaitsInv
      <3>3. worker.requests[i] # request
        BY <1>3, <2>2, <3>2
      <3>4. \E k \in 1..Len(Tail(worker.requests)) : Tail(worker.requests)[k] = worker.requests[i]
        BY <3>3, HeadRequest DEF SchedulerInv, TypeInv
      <3> QED
        BY <1>3, <1>6, <3>1, <3>2, <3>4 DEF Mine
    <2> QED
      BY <1>1, <2>1, <2>2 DEF AwaitsInv, Mine
  <1> QED
    BY <1>1, <1>3, <1>4, <1>5, <1>6, <1>7, RunsEnd, JobsStay, TextsInvKept, StepKeeps
    DEF SchedulerInv, TypeInv, SessionKept, Open

LEMMA WorkerStepsKeep ==
  ASSUME SchedulerInv
  PROVE  /\ WorkerAnswers => SchedulerInv'
         /\ WorkerRefuses => SchedulerInv'
         /\ WorkerCrashes => SchedulerInv'
  <1>1. ASSUME WorkerAnswers PROVE SchedulerInv'
    <2>1. worker.requests # <<>> /\ Head(worker.requests).route \in Routes \cup {None}
      BY <1>1, HeadRequest DEF WorkerAnswers, SchedulerInv, TypeInv, RequestType
    <2> QED
      BY <1>1, <2>1, AnswerKeeps DEF WorkerAnswers
  <1>2. ASSUME WorkerRefuses PROVE SchedulerInv'
    <2>1. worker.requests # <<>>
      BY <1>2 DEF WorkerRefuses
    <2>2. Head(worker.requests).route \in Routes /\ worker.loaded \in Routes \cup {None}
      BY <2>1, HeadRequest DEF SchedulerInv, TypeInv, RequestType, WorkerType
    <2>3. LoadedAfterError(Head(worker.requests)) \subseteq Routes \cup {None}
      BY <2>2 DEF LoadedAfterError
    <2>4. PICK loaded \in Routes \cup {None} :
            worker' = [worker EXCEPT !.loaded = loaded, !.requests = Tail(@)]
      BY <1>2, <2>3 DEF WorkerRefuses
    <2> QED
      BY <1>2, <2>1, <2>4, AnswerKeeps DEF WorkerRefuses
  <1>3. ASSUME WorkerCrashes PROVE SchedulerInv'
    <2>1. /\ runs' = Kill(runs, "terminated") /\ preps' = Kill(preps, "terminated")
          /\ worker' = [NewWorker EXCEPT !.alive = FALSE]
          /\ UNCHANGED <<session, scenario, generation, queue, pumping, jobs>>
      BY <1>3 DEF WorkerCrashes
    <2>2. /\ runs' \subseteq RunType
          /\ \A r \in runs' : \E q \in runs :
               /\ r.gen = q.gen /\ r.job = q.job /\ r.op = q.op
               /\ r.outcome # "pending"
               /\ r.outcome = IF q.outcome = "pending" THEN "terminated" ELSE q.outcome
          /\ \A q \in runs : \E r \in runs' : r.gen = q.gen /\ r.job = q.job
          /\ \A r, s \in runs' : Mine(r) /\ Mine(s) => r = s
      BY <2>1, KillRuns DEF Rejections
    <2>3. /\ preps' \subseteq PreparationType /\ IsFiniteSet(preps')
          /\ \A p \in preps' : \E q \in preps :
               p.id = q.id /\ p.gen = q.gen /\ p.elapsed = q.elapsed /\ p.outcome # "pending"
          /\ \A q \in preps : \E p \in preps' : p.id = q.id /\ p.gen = q.gen /\ p.elapsed = q.elapsed
          /\ \A p, q \in preps' : p.id = q.id => p = q
      BY <2>1, KillPreps DEF Rejections
    <2>4. PrepsKept /\ PrepsInv'
      BY <2>1, <2>3 DEF SchedulerInv, PrepsInv, PrepsKept, Mine
    <2>5. RunsKept /\ AwaitsInv'
      BY <2>2, <2>3 DEF SchedulerInv, RunsKept, AwaitsInv
    <2>6. /\ \A r \in runs' : Mine(r) => Open(r.job)'
          /\ \A j \in queue' : Open(j)'
          /\ \A j \in JobIds : Open(j)' => j \in queue' \/ \E r \in runs' : r.gen = session.gen /\ r.job = j
      BY <2>1, <2>2 DEF SchedulerInv, JobsInv, RunsInv, Mine, Open
    <2>7. worker' \in WorkerType
      BY <2>1, NewWorkerType DEF WorkerType
    <2> QED
      BY <2>1, <2>4, <2>5, <2>6, <2>7, JobsStay, TextsInvKept, StepKeeps
      DEF SchedulerInv, TypeInv, SessionKept
  <1> QED
    BY <1>1, <1>2, <1>3

LEMMA TimeoutsKeep ==
  ASSUME SchedulerInv
  PROVE  /\ \A p \in preps : PreparationTimesOut(p) => SchedulerInv'
         /\ \A r \in runs : TranslationTimesOut(r) => SchedulerInv'
  <1>1. ASSUME NEW p \in preps, PreparationTimesOut(p) PROVE SchedulerInv'
    <2> DEFINE f == [q \in preps |-> IF q = p THEN [q EXCEPT !.outcome = "deadline"] ELSE q]
    <2>1. /\ preps' = (preps \ {p}) \cup {[p EXCEPT !.outcome = "deadline"]}
          /\ UNCHANGED <<session, scenario, generation, queue, pumping, jobs, runs, worker>>
      BY <1>1 DEF PreparationTimesOut
    <2>2. preps' = {f[q] : q \in preps}
      BY <2>1
    <2>3. \A q \in preps : /\ f[q] \in PreparationType
                           /\ f[q].id = q.id /\ f[q].gen = q.gen /\ f[q].elapsed = q.elapsed
                           /\ f[q].outcome = "pending" => q.outcome = "pending"
      BY DEF SchedulerInv, TypeInv, PreparationType, Rejections
    <2>4. f \in [preps -> PreparationType]
      BY <2>3
    <2> HIDE DEF f
    <2>5. PrepsKept /\ PrepsInv'
      BY <2>1, <2>2, <2>3, <2>4, PrepsEnd
    <2>6. AwaitsInv'
      BY <2>1, <2>5 DEF SchedulerInv, AwaitsInv, PrepsKept, Mine
    <2>7. JobsKept /\ NothingDelivered /\ RunsKept /\ SessionKept
      BY <2>1, OpsStay, JobsStay DEF SessionKept
    <2>8. /\ \A r \in runs' : Mine(r) => Open(r.job)'
          /\ \A j \in queue' : Open(j)'
          /\ \A j \in JobIds : Open(j)' => j \in queue' \/ \E r \in runs' : r.gen = session.gen /\ r.job = j
      BY <2>1 DEF SchedulerInv, JobsInv, RunsInv, Mine, Open
    <2> QED
      BY <2>1, <2>5, <2>6, <2>7, <2>8, TextsInvKept, StepKeeps DEF SchedulerInv, TypeInv
  <1>2. ASSUME NEW r \in runs, TranslationTimesOut(r) PROVE SchedulerInv'
    <2> DEFINE g == [q \in runs |-> IF q = r THEN [q EXCEPT !.outcome = "deadline"] ELSE q]
    <2>1. /\ runs' = (runs \ {r}) \cup {[r EXCEPT !.outcome = "deadline"]}
          /\ UNCHANGED <<session, scenario, generation, queue, pumping, jobs, preps, worker>>
      BY <1>2 DEF TranslationTimesOut
    <2>2. runs' = {g[q] : q \in runs}
      BY <2>1
    <2>3. \A q \in runs : /\ g[q] \in RunType
                          /\ g[q].gen = q.gen /\ g[q].job = q.job /\ g[q].op = q.op
                          /\ g[q].outcome = "waiting" => q.outcome = "waiting"
                          /\ g[q].outcome = "pending" => q.outcome = "pending"
      BY DEF SchedulerInv, TypeInv, RunType, Rejections
    <2>4. g \in [runs -> RunType]
      BY <2>3
    <2> HIDE DEF g
    <2>5. JobsKept /\ NothingDelivered /\ PrepsKept /\ PrepsInv' /\ SessionKept
          /\ \A j \in JobIds : Open(j)' <=> Open(j)
      BY <2>1, OpsStay, JobsStay DEF SessionKept, Open
    <2>6. AwaitsInv'
      BY <2>1, <2>2, <2>3 DEF SchedulerInv, AwaitsInv, Mine
    <2> QED
      BY <2>1, <2>2, <2>3, <2>4, <2>5, <2>6, RunsEnd, TextsInvKept, StepKeeps
      DEF SchedulerInv, TypeInv
  <1> QED
    BY <1>1, <1>2

\* Time passes only while a preparation in flight is the session's own one; what
\* a tick takes from a job is then either waited for or made up by the load.
LEMMA TickKeeps ==
  ASSUME SchedulerInv, Tick
  PROVE  SchedulerInv'
  <1> USE BoundsAssumption, PoliciesAssumption
  <1>1. /\ jobs' = [j \in JobIds |-> IF Open(j) THEN Aged(jobs[j]) ELSE jobs[j]]
        /\ preps' = {[p EXCEPT !.elapsed = IF @ < PreparationDeadline THEN @ + 1 ELSE @] : p \in preps}
        /\ runs' = {IF r.at = "translating" THEN [r EXCEPT !.timer = @ - 1] ELSE r : r \in runs}
        /\ UNCHANGED <<session, scenario, generation, queue, pumping, worker>>
    BY DEF Tick, Open
  <1>2. /\ \A p \in preps : p.outcome = "pending" /\ p.elapsed < PreparationDeadline /\ Mine(p)
        /\ \A p, q \in preps : p = q
    <2>1. \A p \in preps : p.outcome = "pending"
      BY DEF Tick, Quiet, Ready, SchedulerInv, TypeInv, PreparationType, Rejections
    <2>2. \A p \in preps : p.elapsed \in Nat /\ ~(p.elapsed >= PreparationDeadline)
      BY <2>1 DEF Tick, PreparationDue, SchedulerInv, TypeInv, PreparationType
    <2> QED
      BY <2>1, <2>2 DEF SchedulerInv, PrepsInv
  <1> DEFINE f == [p \in preps |->
                     [p EXCEPT !.elapsed = IF @ < PreparationDeadline THEN @ + 1 ELSE @]]
             g == [r \in runs |-> IF r.at = "translating" THEN [r EXCEPT !.timer = @ - 1] ELSE r]
  <1>3. preps' = {f[p] : p \in preps} /\ runs' = {g[r] : r \in runs}
    BY <1>1
  <1>4. \A p \in preps : /\ f[p] \in PreparationType
                         /\ f[p].id = p.id /\ f[p].gen = p.gen /\ f[p].outcome = p.outcome
                         /\ f[p].elapsed = p.elapsed + 1
    BY <1>2 DEF SchedulerInv, TypeInv, PreparationType
  <1>5. \A r \in runs : /\ g[r] \in RunType
                        /\ g[r].gen = r.gen /\ g[r].job = r.job /\ g[r].op = r.op
                        /\ g[r].outcome = r.outcome
    BY DEF SchedulerInv, TypeInv, RunType
  <1>6. f \in [preps -> PreparationType] /\ g \in [runs -> RunType]
    BY <1>4, <1>5
  <1> HIDE DEF f, g
  <1>7. PrepsInv' /\ preps' \subseteq PreparationType
    BY <1>1, <1>3, <1>4, <1>6, PrepsEnd
  <1>8. ASSUME NEW j \in JobIds
        PROVE  /\ jobs'[j] \in JobType
               /\ ~Open(j) => jobs'[j] = jobs[j]
               /\ Open(j) =>
                    /\ Open(j)'
                    /\ jobs'[j].gen = jobs[j].gen /\ jobs'[j].key = jobs[j].key
                    /\ jobs'[j].profile = jobs[j].profile /\ jobs'[j].route = jobs[j].route
                    /\ jobs'[j].left =
                         IF jobs[j].left > -PreparationDeadline THEN jobs[j].left - 1 ELSE jobs[j].left
                    /\ jobs'[j].age =
                         IF jobs[j].age < PreparationDeadline THEN jobs[j].age + 1 ELSE jobs[j].age
                    /\ jobs'[j].waited =
                         IF Loading \/ jobs[j].waited >= Budget[jobs[j].profile]
                         THEN jobs[j].waited ELSE jobs[j].waited + 1
    <2>1. jobs[j] \in JobType
      BY DEF SchedulerInv, TypeInv
    <2>2. CASE Open(j)
      <3>1. jobs'[j] = Aged(jobs[j])
        BY <1>1, <2>2
      <3> DEFINE a == [jobs[j] EXCEPT !.left = IF @ > -PreparationDeadline THEN @ - 1 ELSE @]
                 b == [a EXCEPT !.age = IF @ < PreparationDeadline THEN @ + 1 ELSE @]
                 w == IF Loading \/ jobs[j].waited >= Budget[jobs[j].profile]
                      THEN jobs[j].waited ELSE jobs[j].waited + 1
      <3>2. /\ a \in JobType
            /\ a.outcome = jobs[j].outcome /\ a.gen = jobs[j].gen /\ a.key = jobs[j].key
            /\ a.profile = jobs[j].profile /\ a.route = jobs[j].route
            /\ a.age = jobs[j].age /\ a.waited = jobs[j].waited
            /\ a.left = IF jobs[j].left > -PreparationDeadline THEN jobs[j].left - 1 ELSE jobs[j].left
        BY <2>1 DEF JobType
      <3>3. w \in Nat
        BY <2>1 DEF JobType
      <3>4. Aged(jobs[j]) = [b EXCEPT !.waited = w]
        BY <2>1 DEF Aged, JobType
      <3> HIDE DEF a, w
      <3>5. /\ b \in JobType
            /\ b.outcome = a.outcome /\ b.gen = a.gen /\ b.key = a.key
            /\ b.profile = a.profile /\ b.route = a.route
            /\ b.left = a.left /\ b.waited = a.waited
            /\ b.age = IF a.age < PreparationDeadline THEN a.age + 1 ELSE a.age
        BY <3>2 DEF JobType
      <3> HIDE DEF b
      <3>6. /\ Aged(jobs[j]) \in JobType
            /\ Aged(jobs[j]).outcome = b.outcome /\ Aged(jobs[j]).gen = b.gen
            /\ Aged(jobs[j]).key = b.key /\ Aged(jobs[j]).profile = b.profile
            /\ Aged(jobs[j]).route = b.route /\ Aged(jobs[j]).left = b.left
            /\ Aged(jobs[j]).age = b.age /\ Aged(jobs[j]).waited = w
        BY <3>3, <3>4, <3>5 DEF JobType
      <3> QED
        BY <2>2, <3>1, <3>2, <3>5, <3>6 DEF Open, w
    <2>3. CASE ~Open(j)
      BY <1>1, <2>1, <2>3
    <2> QED
      BY <2>2, <2>3
  <1>9. JobsPlaced /\ NothingDelivered /\ \A j \in JobIds : Open(j)' <=> Open(j)
    <2>1. jobs' \in [JobIds -> JobType]
      BY <1>1, <1>8
    <2> QED
      BY <1>8, <2>1 DEF JobsPlaced, NothingDelivered, Open
  <1>10. DeadlinesInv'
    <2>1. \A p, q \in preps' : Spent(p)' /\ Spent(q)' => p = q
      BY <1>2, <1>3
    <2>2. \A p \in preps' : p.elapsed <= PreparationDeadline
      BY <1>2, <1>3, <1>4 DEF SchedulerInv, TypeInv, PreparationType
    <2>3. \A j \in JobIds : jobs'[j].age <= PreparationDeadline
      BY <1>8 DEF SchedulerInv, TypeInv, DeadlinesInv, JobType
    <2>4. ASSUME NEW j \in JobIds, Counts(j)'
          PROVE  /\ (\A p \in preps' : ~Spent(p)') => jobs'[j].left = DeadlineOf(j)'
                 /\ \A p \in preps' : Spent(p)' =>
                      jobs'[j].left + Least(p.elapsed, jobs'[j].age) = DeadlineOf(j)'
      <3>1. /\ Open(j) /\ jobs[j].left \in Int /\ jobs[j].age \in Nat /\ jobs[j].waited \in Nat
            /\ Budget[jobs[j].profile] \in Nat \ {0} /\ jobs[j].age <= PreparationDeadline
        BY <1>9, <2>4 DEF Counts, SchedulerInv, TypeInv, DeadlinesInv, JobType
      <3>2. Counts(j) /\ DeadlineOf(j) >= 1 /\ DeadlineOf(j) \in Int
            /\ DeadlineOf(j)' = IF Loading THEN DeadlineOf(j) ELSE DeadlineOf(j) - 1
        BY <1>8, <2>4, <3>1 DEF Counts, DeadlineOf
      <3>3. CASE Loading
        <4>1. PICK p \in preps : preps = {p} /\ Mine(p)
          BY <1>2, <3>3 DEF Loading
        <4>0. PICK q : q = f[p]
          OBVIOUS
        <4>2. /\ preps' = {q} /\ q.elapsed = p.elapsed + 1 /\ Spent(q)'
              /\ p.elapsed \in Nat /\ p.elapsed < PreparationDeadline
          BY <4>0, <1>1, <1>2, <1>3, <1>4, <4>1 DEF Spent, Mine, SchedulerInv, TypeInv, PreparationType
        <4>3. jobs[j].left + Least(p.elapsed, jobs[j].age) = DeadlineOf(j)
          <5>1. CASE Spent(p)
            BY <3>2, <4>1, <5>1 DEF SchedulerInv, DeadlinesInv
          <5>2. CASE ~Spent(p)
            <6>1. p.elapsed = 0 /\ jobs[j].left = DeadlineOf(j)
              BY <3>2, <4>1, <4>2, <5>2 DEF SchedulerInv, DeadlinesInv, Spent
            <6> QED
              BY <3>1, <6>1 DEF Least
          <5> QED
            BY <5>1, <5>2
        <4>4. jobs[j].left > -PreparationDeadline
          BY <3>1, <3>2, <4>2, <4>3 DEF Least
        <4>5. jobs'[j].left + Least(q.elapsed, jobs'[j].age) = DeadlineOf(j)
          BY <1>8, <3>1, <4>2, <4>3, <4>4 DEF Least
        <4> QED
          BY <3>2, <3>3, <4>2, <4>5
      <3>4. CASE ~Loading
        <4>1. preps = {} /\ preps' = {}
          BY <1>2, <1>3, <3>4 DEF Loading, Mine
        <4>2. jobs[j].left = DeadlineOf(j)
          BY <3>2, <4>1 DEF SchedulerInv, DeadlinesInv
        <4> QED
          BY <1>8, <3>1, <3>2, <3>4, <4>1, <4>2
      <3> QED
        BY <3>3, <3>4
    <2> QED
      BY <2>1, <2>2, <2>3, <2>4 DEF DeadlinesInv
  <1>11. AwaitsInv'
    <2>1. \A r \in runs : r.outcome = "waiting" => \E p \in preps' : p.id = r.op /\ p.gen = r.gen
      BY <1>3, <1>4 DEF SchedulerInv, AwaitsInv
    <2>2. \A r \in runs' : \E q \in runs :
            r.gen = q.gen /\ r.job = q.job /\ r.op = q.op /\ r.outcome = q.outcome
      BY <1>3, <1>5
    <2>3. worker' = worker /\ session' = session
      BY <1>1
    <2> QED
      BY <2>1, <2>2, <2>3 DEF SchedulerInv, AwaitsInv, Mine
  <1> QED
    BY <1>1, <1>3, <1>5, <1>6, <1>7, <1>9, <1>10, <1>11, RunsEnd, TextsInvKept, StepPlaces
    DEF SchedulerInv, TypeInv, SessionKept

\* A preparation that has ended gives back to the open jobs of its session what
\* they have waited for it; the others have cost them nothing.
LEMMA ExtendedKeeps ==
  ASSUME SchedulerInv, NEW p \in preps,
         jobs' = IF Mine(p) THEN Extended(jobs, p, GivenBack) ELSE jobs,
         session'.gen = session.gen,
         \A q \in preps' : \E o \in preps \ {p} : q.id = o.id /\ q.gen = o.gen /\ q.elapsed = o.elapsed,
         \A o \in preps \ {p} : \E q \in preps' : q.id = o.id /\ q.gen = o.gen /\ q.elapsed = o.elapsed,
         \A q, o \in preps' : q.id = o.id => q = o
  PROVE  /\ JobsPlaced /\ NothingDelivered /\ DeadlinesInv'
         /\ \A j \in JobIds : Open(j)' <=> Open(j)
  <1> USE BoundsAssumption, PoliciesAssumption
  <1> DEFINE given(j) == IF Mine(p) THEN Least(p.elapsed, jobs[j].age) ELSE 0
  <1>1. p.elapsed \in Nat /\ \A j \in JobIds : jobs[j] \in JobType /\ given(j) \in Nat
    BY DEF SchedulerInv, TypeInv, PreparationType, JobType, Least
  <1>2. \A j \in JobIds : Open(j) => j \in GivenBack
    BY DEF SchedulerInv, JobsInv, GivenBack, Active
  <1>3. ASSUME NEW j \in JobIds
        PROVE  /\ jobs'[j] \in JobType
               /\ ~Open(j) => jobs'[j] = jobs[j]
               /\ Open(j) =>
                    /\ Open(j)'
                    /\ jobs'[j].gen = jobs[j].gen /\ jobs'[j].key = jobs[j].key
                    /\ jobs'[j].profile = jobs[j].profile /\ jobs'[j].route = jobs[j].route
                    /\ jobs'[j].left = jobs[j].left + given(j)
                    /\ jobs'[j].age = jobs[j].age /\ jobs'[j].waited = jobs[j].waited
    <2>1. CASE Mine(p) /\ Open(j)
      <3>1. jobs'[j] = [jobs[j] EXCEPT !.left = @ + given(j)]
        BY <1>2, <2>1 DEF Extended, Open, Least
      <3> HIDE DEF given
      <3> QED
        BY <1>1, <2>1, <3>1 DEF JobType, Open
    <2>2. CASE Mine(p) /\ ~Open(j)
      BY <1>1, <2>2 DEF Extended, Open
    <2>3. CASE ~Mine(p)
      BY <1>1, <2>3 DEF Open, JobType
    <2> QED
      BY <2>1, <2>2, <2>3
  <1>4. JobsPlaced /\ NothingDelivered /\ \A j \in JobIds : Open(j)' <=> Open(j)
    <2>1. jobs' \in [JobIds -> JobType]
      <3>1. jobs' = [j \in JobIds |-> jobs'[j]]
        BY DEF Extended, SchedulerInv, TypeInv
      <3> QED
        BY <1>3, <3>1
    <2> QED
      BY <1>3, <2>1 DEF JobsPlaced, NothingDelivered, Open
  <1>5. ASSUME NEW q \in preps'
        PROVE  /\ Spent(q)' => \E o \in preps \ {p} : Spent(o) /\ o.id = q.id /\ o.elapsed = q.elapsed
               /\ q.elapsed <= PreparationDeadline
    BY DEF SchedulerInv, DeadlinesInv, Spent, Mine
  <1>6. ASSUME NEW o \in preps \ {p}, Spent(o)
        PROVE  \E q \in preps' : Spent(q)'
    BY <1>6 DEF Spent, Mine
  <1>7. DeadlinesInv'
    <2>1. \A q, o \in preps' : Spent(q)' /\ Spent(o)' => q = o
      BY <1>5 DEF SchedulerInv, DeadlinesInv
    <2>2. \A j \in JobIds : jobs'[j].age <= PreparationDeadline
      BY <1>3 DEF SchedulerInv, DeadlinesInv
    <2>3. ASSUME NEW j \in JobIds, Counts(j)'
          PROVE  /\ (\A q \in preps' : ~Spent(q)') => jobs'[j].left = DeadlineOf(j)'
                 /\ \A q \in preps' : Spent(q)' =>
                      jobs'[j].left + Least(q.elapsed, jobs'[j].age) = DeadlineOf(j)'
      <3>1. /\ Counts(j) /\ DeadlineOf(j)' = DeadlineOf(j)
            /\ jobs'[j].left = jobs[j].left + given(j) /\ jobs'[j].age = jobs[j].age
            /\ jobs[j].left \in Int /\ jobs[j].age \in Nat
        BY <1>1, <1>3, <1>4, <2>3 DEF Counts, DeadlineOf, JobType
      <3>2. CASE Spent(p)
        <4>1. \A q \in preps' : ~Spent(q)'
          BY <1>5, <3>2 DEF SchedulerInv, DeadlinesInv
        <4>2. jobs[j].left + given(j) = DeadlineOf(j)
          BY <3>1, <3>2 DEF SchedulerInv, DeadlinesInv, Spent
        <4> QED
          BY <3>1, <4>1, <4>2
      <3>3. CASE ~Spent(p)
        <4>1. given(j) = 0
          BY <1>1, <3>1, <3>3 DEF Spent, Least
        <4>2. (\A q \in preps' : ~Spent(q)') => \A o \in preps : ~Spent(o)
          BY <1>6, <3>3
        <4> HIDE DEF given
        <4> QED
          BY <1>5, <3>1, <4>1, <4>2 DEF SchedulerInv, DeadlinesInv
      <3> QED
        BY <3>2, <3>3
    <2> QED
      BY <1>5, <2>1, <2>2, <2>3 DEF DeadlinesInv
  <1> QED
    BY <1>4, <1>7

LEMMA SettlesKeeps ==
  ASSUME SchedulerInv, NEW p \in preps, PreparationSettles(p)
  PROVE  SchedulerInv'
  <1> USE BoundsAssumption
  <1> DEFINE restart == Mine(p) /\ p.outcome \in Restarting
  <1>1. p \in PreparationType /\ p.gen # 0 /\ (Current(p.gen) <=> Mine(p))
        /\ p.outcome \in {"ok"} \cup Rejections
    BY DEF SchedulerInv, TypeInv, PreparationType, Current, Mine, PreparationSettles, Ready
  <1>2. /\ session' =
             IF restart THEN Restarted
             ELSE [session EXCEPT !.route = IF Mine(p) /\ p.outcome = "ok" THEN p.route ELSE @,
                                  !.preparation = IF Mine(p) /\ @ = p.id THEN 0 ELSE @]
        /\ preps' = IF restart THEN Kill(preps \ {p}, Reason(p.outcome)) ELSE preps \ {p}
        /\ runs' = {IF restart /\ r.gen = p.gen THEN [r EXCEPT !.original = FALSE] ELSE r :
                      r \in Awaiting(IF restart THEN Kill(runs, Reason(p.outcome)) ELSE runs,
                                     p, p.outcome)}
        /\ worker' = IF restart THEN NewWorker ELSE worker
        /\ jobs' = IF Mine(p) THEN Extended(jobs, p, GivenBack) ELSE jobs
        /\ UNCHANGED <<scenario, generation, queue, pumping>>
    BY <1>1 DEF PreparationSettles
  <1>3. restart => Reason(p.outcome) \in Rejections
    BY DEF Reason, Rejections, Restarting, DeadlineErrors
  <1>4. /\ session' \in SessionType /\ session'.gen = session.gen
        /\ session'.preparation =
             IF restart \/ (Mine(p) /\ session.preparation = p.id) THEN 0 ELSE session.preparation
    BY <1>1, <1>2, RestartedType DEF SchedulerInv, TypeInv, SessionType, PreparationType
  <1>5. /\ preps' \subseteq PreparationType /\ IsFiniteSet(preps')
        /\ \A q \in preps' : \E o \in preps \ {p} :
             /\ q.id = o.id /\ q.gen = o.gen /\ q.elapsed = o.elapsed
             /\ q.outcome = "pending" => o.outcome = "pending" /\ ~restart
        /\ \A o \in preps \ {p} : \E q \in preps' : q.id = o.id /\ q.gen = o.gen /\ q.elapsed = o.elapsed
        /\ \A q, o \in preps' : q.id = o.id => q = o
    <2>1. CASE restart
      <3> DEFINE P == preps \ {p}
      <3>1. P \subseteq preps /\ Reason(p.outcome) \in Rejections /\ preps' = Kill(P, Reason(p.outcome))
        BY <1>2, <1>3, <2>1
      <3> HIDE DEF P, restart
      <3>2. /\ preps' \subseteq PreparationType /\ IsFiniteSet(preps')
            /\ \A q \in preps' : \E o \in P :
                 q.id = o.id /\ q.gen = o.gen /\ q.elapsed = o.elapsed /\ q.outcome # "pending"
            /\ \A o \in P : \E q \in preps' : q.id = o.id /\ q.gen = o.gen /\ q.elapsed = o.elapsed
            /\ \A q, o \in preps' : q.id = o.id => q = o
        BY <3>1, KillPreps
      <3> QED
        BY <3>2 DEF P
    <2>2. CASE ~restart
      BY <1>2, <2>2, FS_Subset DEF SchedulerInv, TypeInv, PrepsInv
    <2> QED
      BY <2>1, <2>2
  <1>6. PrepsInv'
    <2>1. ASSUME NEW q \in preps'
          PROVE  /\ q.gen <= generation'
                 /\ q.outcome = "pending" => Mine(q)' /\ q.id = session'.preparation
      <3>1. PICK o \in preps \ {p} :
              /\ q.id = o.id /\ q.gen = o.gen
              /\ q.outcome = "pending" => o.outcome = "pending" /\ ~restart
        BY <1>5
      <3>2. /\ o.id # p.id /\ o.gen <= generation
            /\ (o.outcome = "pending" => Mine(o) /\ o.id = session.preparation)
        BY DEF SchedulerInv, PrepsInv
      <3> HIDE DEF restart
      <3> QED
        BY <1>2, <1>4, <3>1, <3>2 DEF Mine
    <2>2. session'.preparation # 0 => \E q \in preps' : Mine(q)' /\ q.id = session'.preparation
      BY <1>4, <1>5 DEF SchedulerInv, PrepsInv, Mine
    <2>3. session'.gen \in {0, generation'}
      BY <1>2, <1>4 DEF SchedulerInv, PrepsInv
    <2> QED
      BY <1>5, <2>1, <2>2, <2>3 DEF PrepsInv
  <1>7. /\ JobsPlaced /\ NothingDelivered /\ DeadlinesInv'
        /\ \A j \in JobIds : Open(j)' <=> Open(j)
    <2>1. \A q \in preps' : \E o \in preps \ {p} :
            q.id = o.id /\ q.gen = o.gen /\ q.elapsed = o.elapsed
      BY <1>5
    <2> HIDE DEF restart
    <2> QED
      BY <1>2, <1>4, <1>5, <2>1, ExtendedKeeps
  <1> DEFINE k(q) == IF restart /\ q.gen = session.gen /\ q.outcome = "pending"
                     THEN [q EXCEPT !.outcome = Reason(p.outcome)] ELSE q
             w(q) == IF k(q).gen = p.gen /\ k(q).op = p.id /\ k(q).outcome = "waiting"
                     THEN [k(q) EXCEPT !.outcome = p.outcome] ELSE k(q)
             f == [q \in runs |->
                     IF restart /\ w(q).gen = p.gen THEN [w(q) EXCEPT !.original = FALSE] ELSE w(q)]
  <1>8. runs' = {f[q] : q \in runs}
    <2>1. (IF restart THEN Kill(runs, Reason(p.outcome)) ELSE runs) = {k(q) : q \in runs}
      BY DEF Kill
    <2> HIDE DEF k
    <2>2. Awaiting({k(q) : q \in runs}, p, p.outcome) = {w(q) : q \in runs}
      BY DEF Awaiting
    <2> HIDE DEF w, restart
    <2> QED
      BY <1>2, <2>1, <2>2
  <1>9. ASSUME NEW q \in runs
        PROVE  /\ f[q] \in RunType
               /\ f[q].gen = q.gen /\ f[q].job = q.job /\ f[q].op = q.op
               /\ f[q].outcome = "waiting" => q.outcome = "waiting" /\ ~(q.gen = p.gen /\ q.op = p.id)
               /\ f[q].outcome = "pending" => q.outcome = "pending" /\ ~restart
    <2>1. q \in RunType /\ (q.outcome = "pending" => q.gen = session.gen)
      BY DEF SchedulerInv, TypeInv, AwaitsInv, Mine
    <2>2. /\ k(q) \in RunType
          /\ k(q).gen = q.gen /\ k(q).job = q.job /\ k(q).op = q.op
          /\ k(q).outcome = "waiting" => q.outcome = "waiting"
          /\ k(q).outcome = "pending" => q.outcome = "pending" /\ ~restart
      <3> HIDE DEF restart
      <3> QED
        BY <1>3, <2>1 DEF RunType, Rejections
    <2>3. /\ w(q) \in RunType
          /\ w(q).gen = q.gen /\ w(q).job = q.job /\ w(q).op = q.op
          /\ w(q).outcome = "waiting" => q.outcome = "waiting" /\ ~(q.gen = p.gen /\ q.op = p.id)
          /\ w(q).outcome = "pending" => q.outcome = "pending" /\ ~restart
      <3> HIDE DEF restart, k
      <3> QED
        BY <1>1, <2>2 DEF RunType, Rejections
    <2> HIDE DEF restart, w
    <2> QED
      BY <2>3 DEF RunType
  <1>10. f \in [runs -> RunType]
    BY <1>9
  <1> HIDE DEF f
  <1>11. AwaitsInv'
    <2>1. \A r \in runs' : \E q \in runs :
            /\ r.gen = q.gen /\ r.job = q.job /\ r.op = q.op
            /\ r.outcome = "waiting" => q.outcome = "waiting" /\ ~(q.gen = p.gen /\ q.op = p.id)
            /\ r.outcome = "pending" => q.outcome = "pending" /\ ~restart
      BY <1>8, <1>9
    <2>2. ASSUME NEW r \in runs', r.outcome = "waiting"
          PROVE  \E q \in preps' : q.id = r.op /\ q.gen = r.gen
      <3>1. \E o \in preps \ {p} : o.id = r.op /\ o.gen = r.gen
        BY <2>1, <2>2 DEF SchedulerInv, AwaitsInv
      <3> QED
        BY <1>5, <3>1
    <2>3. ~restart => worker' = worker
      BY <1>2
    <2> HIDE DEF restart
    <2> QED
      BY <1>4, <2>1, <2>2, <2>3 DEF SchedulerInv, AwaitsInv, Mine
  <1>12. worker' \in WorkerType
    BY <1>2, NewWorkerType DEF SchedulerInv, TypeInv
  <1>13. /\ RunsKept
         /\ \A j \in queue' : Open(j)'
         /\ \A r \in runs' : Mine(r) => Open(r.job)'
         /\ \A j \in JobIds : Open(j)' =>
              j \in queue' \/ \E r \in runs' : r.gen = session.gen /\ r.job = j
    BY <1>2, <1>7, <1>8, <1>9, <1>10, RunsEnd
  <1>14. SessionKept /\ queue' \subseteq queue /\ pumping' \in BOOLEAN /\ scenario' = scenario
    BY <1>2, <1>4 DEF SessionKept, SchedulerInv, TypeInv
  <1> QED
    BY <1>4, <1>5, <1>6, <1>7, <1>11, <1>12, <1>13, <1>14, TextsInvKept, StepPlaces

LEMMA SessionsKeep ==
  ASSUME SchedulerInv
  PROVE  /\ StartSession => SchedulerInv'
         /\ StopSession => SchedulerInv'
  <1> USE BoundsAssumption
  <1>1. ASSUME StartSession PROVE SchedulerInv'
    <2>1. generation' \in 0..MaxGeneration /\ generation' > generation /\ generation' >= generation
      <3>1. generation' = generation + 1 /\ generation < scenario.sessions
        BY <1>1 DEF StartSession
      <3>2. scenario.sessions \in 0..MaxGeneration /\ generation \in 0..MaxGeneration
        BY DEF SchedulerInv, TypeInv, Requests
      <3> QED
        BY <3>1, <3>2
    <2> QED
      BY <1>1, <2>1, SessionEnds DEF StartSession
  <1>2. ASSUME StopSession PROVE SchedulerInv'
    <2>1. generation' \in 0..MaxGeneration /\ generation' >= generation
      BY <1>2 DEF StopSession, SchedulerInv, TypeInv
    <2> QED
      BY <1>2, <2>1, SessionEnds DEF StopSession
  <1> QED
    BY <1>1, <1>2

LEMMA NextKeeps ==
  ASSUME SchedulerInv, [Next]_vars
  PROVE  SchedulerInv'
  <1>1. ASSUME UNCHANGED vars PROVE SchedulerInv'
    BY <1>1 DEF vars, SchedulerInv, TypeInv, JobsInv, SentInOrder, RunsInv, TextsInv, PrepsInv,
                DeadlinesInv, AwaitsInv, Open, Mine, Counts, DeadlineOf, Spent
  <1>2. ASSUME NEW route \in scenario.preloads, Prepare(route) PROVE SchedulerInv'
    BY <1>2, PrepareKeeps DEF SchedulerInv, TypeInv, Requests
  <1>3. ASSUME NEW s \in scenario.submissions, Submit(s[1], s[2], s[3]) PROVE SchedulerInv'
    <2>1. s[1] \in Routes /\ s[2] \in Profiles /\ s[3] \in Keys
      BY DEF SchedulerInv, TypeInv, Requests
    <2> QED
      BY <1>3, <2>1, SubmitKeeps
  <1>4. ASSUME NEW r \in runs, ExecuteResumes(r) PROVE SchedulerInv'
    BY <1>4, ExecutePreparedKeeps, ExecuteTranslatedKeeps, ExecuteFailsKeeps DEF ExecuteResumes
  <1> QED
    BY <1>1, <1>2, <1>3, <1>4, SessionsKeep, RestartKeeps, CancelQueuedKeeps, SourceVanishesKeeps,
       PumpKeeps, SettlesKeeps, WorkerStepsKeep, TimeoutsKeep, TickKeeps DEF Next

-----------------------------------------------------------------------------
(* Theorems                                                                 *)

\* The invariant of the scheduler: what is open is queued or run by the session,
\* one job and one preparation at a time, and every deadline adds up.
THEOREM SchedulerInvariant == Spec => []SchedulerInv
  <1>1. Init => SchedulerInv
    BY InitInv
  <1>2. SchedulerInv /\ [Next]_vars => SchedulerInv'
    BY NextKeeps
  <1> QED
    BY <1>1, <1>2, PTL DEF Spec

\* The state has its type.
THEOREM SchedulerTypes == Spec => []TypeOK
  <1>1. SchedulerInv => TypeOK
    <2> SUFFICES ASSUME SchedulerInv PROVE TypeOK
      OBVIOUS
    <2>1. /\ worker.alive \in BOOLEAN /\ worker.loaded \in Routes \cup {None}
          /\ worker.requests \in Seq(RequestType)
      BY DEF SchedulerInv, TypeInv, WorkerType
    <2>2. \A i \in DOMAIN worker.requests : worker.requests[i] \in RequestType
      BY <2>1
    <2>3. \A i \in DOMAIN worker.requests : worker.requests[i].route \in Routes
      BY <2>2 DEF RequestType
    <2> QED
      BY <2>1, <2>3 DEF SchedulerInv, TypeInv, TypeOK, SessionType
  <1> QED
    BY <1>1, SchedulerInvariant, PTL

\* Loading a model is never charged to a deadline, whatever the policies and the
\* ceiling of a preparation are.
THEOREM LoadingIsNotCharged == Spec => []DeadlinesExcludeLoading
  <1>1. SchedulerInv => DeadlinesExcludeLoading
    <2> SUFFICES ASSUME SchedulerInv, ~Loading, NEW j \in JobIds, Counts(j)
                 PROVE  jobs[j].left = DeadlineOf(j)
      BY DEF DeadlinesExcludeLoading, Counts, Open, DeadlineOf
    <2>1. \A p \in preps : ~Spent(p)
      BY DEF Loading, Spent, Mine
    <2> QED
      BY <2>1 DEF SchedulerInv, DeadlinesInv
  <1> QED
    BY <1>1, SchedulerInvariant, PTL

\* An open job has its place in the active session, and what its run awaits has
\* been asked for: a prepare operation in flight or a request of the worker.
THEOREM NothingIsForgotten == Spec => []NoJobIsForgotten
  <1>1. SchedulerInv => NoJobIsForgotten
    <2> SUFFICES ASSUME SchedulerInv PROVE NoJobIsForgotten
      OBVIOUS
    <2>1. DOMAIN worker.requests = 1..Len(worker.requests)
      BY DEF SchedulerInv, TypeInv, WorkerType
    <2> QED
      BY <2>1 DEF SchedulerInv, JobsInv, AwaitsInv, NoJobIsForgotten, Open
  <1> QED
    BY <1>1, SchedulerInvariant, PTL

\* Only the answer to the one run of the active session is delivered.
LEMMA OnlyTheActiveIsDelivered ==
  ASSUME SchedulerInv, [Next]_vars, NEW j \in JobIds,
         jobs'[j].outcome = "delivered", jobs[j].outcome # "delivered"
  PROVE  Open(j) /\ jobs[j].gen = session.gen /\ jobs[j].visible
  <1>1. ASSUME NEW ids, NEW result \in Outcomes \ {"delivered"},
               jobs' = Settle(jobs, ids, result)
        PROVE  FALSE
    BY <1>1, JobsSettle DEF NothingDelivered
  <1>2. ASSUME NEW i, NEW original, NEW others, Infer(i, original, others)
        PROVE  FALSE
    BY <1>1, <1>2 DEF Infer, Outcomes
  <1>3. ASSUME UNCHANGED jobs PROVE FALSE
    BY <1>3
  <1>4. CASE StartSession \/ StopSession \/ RestartSession \/ UNCHANGED vars
    BY <1>1, <1>3, <1>4 DEF StartSession, StopSession, RestartSession, vars, Outcomes
  <1>5. CASE \/ \E key \in Keys : CancelQueued(key)
             \/ \E route \in scenario.preloads : Prepare(route)
    BY <1>1, <1>3, <1>5 DEF CancelQueued, Prepare, Outcomes
  <1>6. CASE \E s \in scenario.submissions : Submit(s[1], s[2], s[3])
    <2>1. PICK s \in scenario.submissions : Submit(s[1], s[2], s[3])
      BY <1>6
    <2>2. s[1] \in Routes /\ s[2] \in Profiles /\ s[3] \in Keys
      BY DEF SchedulerInv, TypeInv, Requests
    <2>3. NothingDelivered
      BY <2>1, <2>2, SubmitKeeps
    <2> QED
      BY <2>3 DEF NothingDelivered
  <1>7. CASE \E i \in JobIds : SourceVanishes(i)
    BY <1>7 DEF SourceVanishes, SchedulerInv, TypeInv, JobType
  <1>8. CASE PumpNext
    BY <1>1, <1>2, <1>3, <1>8 DEF PumpNext, PumpExpires, PumpPrepares, PumpInfers, Outcomes
  <1>9. CASE \E p \in preps : PreparationSettles(p)
    BY <1>9 DEF PreparationSettles, Extended, SchedulerInv, TypeInv, JobType
  <1>10. CASE \E r \in runs : ExecutePrepared(r)
    BY <1>2, <1>3, <1>10 DEF ExecutePrepared
  <1>11. CASE \E r \in runs : ExecuteFails(r)
    BY <1>1, <1>11 DEF ExecuteFails, Verdict, Outcomes
  <1>12. CASE \E r \in runs : ExecuteTranslated(r)
    <2>1. PICK r \in runs : ExecuteTranslated(r)
      BY <1>12
    <2>2. Current(r.gen) /\ jobs' = Settle(jobs, {r.job}, IF jobs[r.job].visible THEN "delivered" ELSE "superseded")
      BY <1>3, <2>1 DEF ExecuteTranslated
    <2>3. jobs[r.job].visible /\ jobs' = Settle(jobs, {r.job}, "delivered")
      BY <1>1, <2>2 DEF Outcomes
    <2>4. Open(j) /\ j = r.job
      BY <2>3, JobsSettle DEF Outcomes
    <2> QED
      BY <2>2, <2>3, <2>4 DEF SchedulerInv, JobsInv
  <1>13. CASE WorkerAnswers \/ WorkerRefuses \/ WorkerCrashes
    BY <1>3, <1>13 DEF WorkerAnswers, WorkerRefuses, WorkerCrashes
  <1>14. CASE \/ \E p \in preps : PreparationTimesOut(p)
              \/ \E r \in runs : TranslationTimesOut(r)
    BY <1>3, <1>14 DEF PreparationTimesOut, TranslationTimesOut
  <1>15. CASE Tick
    <2>1. jobs'[j] = IF Open(j) THEN Aged(jobs[j]) ELSE jobs[j]
      BY <1>15 DEF Tick, Open
    <2>2. jobs[j] \in JobType
      BY DEF SchedulerInv, TypeInv
    <2> QED
      BY <2>1, <2>2 DEF Aged, Open, JobType
  <1> QED
    BY <1>4, <1>5, <1>6, <1>7, <1>8, <1>9, <1>10, <1>11, <1>12, <1>13, <1>14, <1>15
    DEF Next, ExecuteResumes

\* A result is delivered only to the session it was asked in, while its source is
\* shown.
THEOREM OnlyCurrentResults == Spec => ResultsAreCurrent
  <1>1. SchedulerInv /\ [Next]_vars =>
          \A j \in JobIds :
            jobs'[j].outcome = "delivered" /\ jobs[j].outcome # "delivered" =>
              jobs[j].gen = session.gen /\ jobs[j].visible
    BY OnlyTheActiveIsDelivered
  <1> QED
    BY <1>1, SchedulerInvariant, PTL DEF Spec, ResultsAreCurrent

\* The texts of a key are delivered in the order of their requests, although the
\* pump takes the newest first.
THEOREM NoOlderTextFollows == Spec => LatestTextWins
  <1>1. SchedulerInv /\ [Next]_vars =>
          \A i, j \in JobIds :
            i < j /\ jobs[i].gen = jobs[j].gen /\ jobs[i].key = jobs[j].key
              /\ jobs[j].outcome = "delivered" /\ jobs[i].outcome # "delivered"
            => jobs'[i].outcome # "delivered"
    BY OnlyTheActiveIsDelivered DEF SchedulerInv, TextsInv
  <1> QED
    BY <1>1, SchedulerInvariant, PTL DEF Spec, LatestTextWins

\* enforceBound drops one job when a new one is one too many: the least important
\* of them, of which there is exactly one.
LEMMA SubmitIsBounded ==
  ASSUME SchedulerInv, Cardinality(queue) <= scenario.queued,
         NEW route \in Routes, NEW profile \in Profiles, NEW key \in Keys,
         Submit(route, profile, key)
  PROVE  Cardinality(queue') <= scenario'.queued
  <1> USE BoundsAssumption
  <1>0. PICK N \in JobIds : N = NextJob
    BY NextJobIsNew DEF Submit, SchedulerInv, JobsInv
  <1> DEFINE new == [outcome |-> "open", gen |-> session.gen, route |-> route,
                     profile |-> profile, key |-> key, left |-> Budget[profile],
                     age |-> 0, waited |-> 0, visible |-> TRUE]
             J == [jobs EXCEPT ![N] = new]
             Q == (queue \ Coalesced(key)) \cup {N}
  <1>1. queue' = Q \ Overflow(Q, J) /\ scenario' = scenario
    BY <1>0 DEF Submit
  <1>2. queue \subseteq JobIds /\ IsFiniteSet(JobIds) /\ scenario.queued \in Nat \ {0}
    <2>1. IsFiniteSet(JobIds)
      BY FS_Interval DEF JobIds
    <2> QED
      BY <2>1 DEF SchedulerInv, TypeInv, Requests
  <1>3. IsFiniteSet(queue) /\ Cardinality(queue) \in Nat
    BY <1>2, FS_Subset, FS_CardinalityType
  <1>4. IsFiniteSet(queue \ Coalesced(key)) /\ Cardinality(queue \ Coalesced(key)) <= Cardinality(queue)
    BY <1>3, FS_Subset
  <1>5. Q \subseteq JobIds /\ Q # {} /\ IsFiniteSet(Q) /\ Cardinality(Q) \in Nat
        /\ Cardinality(Q) <= Cardinality(queue) + 1
    <2>1. Cardinality(queue \ Coalesced(key)) \in Nat
      BY <1>4, FS_CardinalityType
    <2>2. /\ IsFiniteSet(Q)
          /\ Cardinality(Q) = IF N \in queue \ Coalesced(key) THEN Cardinality(queue \ Coalesced(key))
                              ELSE Cardinality(queue \ Coalesced(key)) + 1
      BY <1>4, FS_AddElement
    <2> QED
      BY <1>2, <1>3, <1>4, <2>1, <2>2
  <1>6. \A j \in Q : J[j].profile \in Profiles
    <2>1. J[N].profile = profile /\ \A j \in JobIds \ {N} : J[j] = jobs[j]
      BY DEF SchedulerInv, TypeInv
    <2>2. \A j \in queue : jobs[j].profile \in Profiles
      BY <1>2 DEF SchedulerInv, TypeInv, JobsInv
    <2> HIDE DEF J
    <2> QED
      BY <1>2, <2>1, <2>2
  <1>7. \E i \in Q : \A j \in Q \ {i} : Before(i, j, J)
    <2>1. J \in [JobIds -> JobType]
      BY SubmittedType DEF SchedulerInv, TypeInv
    <2> HIDE DEF J, Q
    <2> QED
      BY <1>5, <1>6, <2>1, JobsAreOrdered
  <1> HIDE DEF J, Q
  <1>8. CASE Cardinality(Q) <= scenario.queued
    <2>1. queue' = Q
      BY <1>1, <1>2, <1>5, <1>8 DEF Overflow
    <2> QED
      BY <1>1, <1>8, <2>1
  <1>9. CASE Cardinality(Q) > scenario.queued
    <2>1. PICK i \in Q : i \in Overflow(Q, J)
      BY <1>7, <1>9 DEF Overflow
    <2>2. queue' \subseteq Q \ {i}
      BY <1>1, <2>1
    <2>3. IsFiniteSet(Q \ {i}) /\ Cardinality(Q \ {i}) = Cardinality(Q) - 1
      BY <1>5, <2>1, FS_RemoveElement
    <2>4. Cardinality(queue') <= Cardinality(Q \ {i}) /\ Cardinality(queue') \in Nat
      BY <2>2, <2>3, FS_Subset, FS_CardinalityType
    <2> QED
      BY <1>1, <1>2, <1>3, <1>5, <2>3, <2>4
  <1> QED
    BY <1>2, <1>5, <1>8, <1>9

\* The queue never grows beyond MAX_QUEUED_JOBS, and holds one job of a key.
THEOREM QueueStaysBounded == Spec => []QueueIsBounded
  <1> DEFINE Bounded == Cardinality(queue) <= scenario.queued
  <1>1. Init => Bounded
    <2> SUFFICES ASSUME Init PROVE Bounded
      OBVIOUS
    <2>1. queue = {} /\ scenario \in Requests
      BY ChoicesAssumption DEF Init
    <2>2. scenario.queued \in Nat /\ Cardinality(queue) = 0
      BY <2>1, FS_EmptySet DEF Requests
    <2> QED
      BY <2>2
  <1>2. SchedulerInv /\ Bounded /\ [Next]_vars => Bounded'
    <2> SUFFICES ASSUME SchedulerInv, Bounded, [Next]_vars PROVE Bounded'
      OBVIOUS
    <2>1. CASE \E s \in scenario.submissions : Submit(s[1], s[2], s[3])
      <3>1. PICK s \in scenario.submissions : Submit(s[1], s[2], s[3])
        BY <2>1
      <3>2. s[1] \in Routes /\ s[2] \in Profiles /\ s[3] \in Keys
        BY DEF SchedulerInv, TypeInv, Requests
      <3> QED
        BY <3>1, <3>2, SubmitIsBounded
    <2>2. CASE ~\E s \in scenario.submissions : Submit(s[1], s[2], s[3])
      <3>1. queue' \subseteq queue /\ scenario' = scenario
        BY <2>2 DEF Next, vars, StartSession, StopSession, RestartSession, CancelQueued, Prepare,
             SourceVanishes, PumpNext, PreparationSettles, ExecuteResumes, ExecutePrepared,
             ExecuteTranslated, ExecuteFails, WorkerAnswers, WorkerRefuses, WorkerCrashes,
             PreparationTimesOut, TranslationTimesOut, Tick
      <3>2. IsFiniteSet(queue) /\ scenario.queued \in Nat
        <4>1. queue \subseteq JobIds /\ IsFiniteSet(JobIds)
          BY BoundsAssumption, FS_Interval DEF SchedulerInv, TypeInv, JobIds
        <4> QED
          BY <4>1, FS_Subset DEF SchedulerInv, TypeInv, Requests
      <3>3. Cardinality(queue') <= Cardinality(queue) /\ Cardinality(queue') \in Nat /\ Cardinality(queue) \in Nat
        BY <3>1, <3>2, FS_Subset, FS_CardinalityType
      <3> QED
        BY <3>1, <3>2, <3>3
    <2> QED
      BY <2>1, <2>2
  <1>3. SchedulerInv /\ Bounded => QueueIsBounded
    <2> SUFFICES ASSUME SchedulerInv, NEW i \in queue, NEW j \in queue, i # j
                 PROVE  jobs[i].key # jobs[j].key
      BY DEF QueueIsBounded
    <2>1. i \in JobIds /\ j \in JobIds /\ jobs[i].gen = jobs[j].gen
      BY DEF SchedulerInv, TypeInv, JobsInv
    <2>2. i < j \/ j < i
      BY <2>1 DEF JobIds
    <2> QED
      BY <2>1, <2>2 DEF SchedulerInv, JobsInv
  <1> HIDE DEF Bounded
  <1> QED
    BY <1>1, <1>2, <1>3, SchedulerInvariant, PTL DEF Spec
=============================================================================
