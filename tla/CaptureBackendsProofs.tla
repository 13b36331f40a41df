------------------------ MODULE CaptureBackendsProofs ------------------------
(***************************************************************************)
(* Proofs about what captures: the two audio backends, and the screens     *)
(* that are read and, on Linux, shared.                                    *)
(*                                                                         *)
(* Audio, for any devices, processes and graphs, any channel and any       *)
(* number of frames and faults: splices are visible, and each backend      *)
(* keeps the promise of AudioBackend.  What the two share comes first: the *)
(* channel of events grows at its end, the caller and the consumer do what *)
(* AudioBackend allows, and a frame that is sent keeps splices visible.    *)
(*                                                                         *)
(* Screens, for any places, contents of the screen, sources, sizes and     *)
(* bounds.  Reading: CacheIsCurrent is inductive once the scanner's areas  *)
(* have the shape of areas: what prepare keeps is what it compared.  That  *)
(* nothing is read after a cancel needs the order of the flag and the      *)
(* token on both sides (CancelIsSeen).                                     *)
(*                                                                         *)
(* Sharing: that a region is as drawn rests on a queue of at least three   *)
(* events (the code has sixteen).  The end of a capture may push the       *)
(* oldest event out; what is left then still has two announcements, which  *)
(* differ, so that one of them shows the reader that the picture has       *)
(* changed.  With a queue of two it need not.                              *)
(***************************************************************************)
EXTENDS WasapiCapture, PipeWireCapture, ScreenReading, ScreenCapture, SequenceTheorems, TLAPS

States == {"none", "Capturing", "Waiting"}
AudioKinds == {"Capturing", "Waiting", "Recovery", "FramesDropped", "Stopped", "Error"}
Notes == {Note(kind) : kind \in AudioKinds}
FrameSet == {Frame(seq, gap, opening) : seq \in Nat, gap \in BOOLEAN, opening \in Nat}
Messages == Notes \cup FrameSet
Harmless == {e \in Messages : ~Backend!Terminal(e)}
Reports == Notes \cap Harmless

\* A thread that has not ended has not said so, and there is none before the start.
PromiseInv ==
  /\ events \in Seq(Messages)
  /\ worker.pc # "ended" => \A i \in 1..Len(events) : events[i] \in Harmless
  /\ call = "idle" => worker.pc = "none"

\* The next frame is marked, or continues the last number in the same opening.
\* (Wasapi opens a stream before it announces it and marks what follows.)
SplicesInv ==
  /\ publisher.seq \in Nat /\ publisher.gap \in BOOLEAN /\ publisher.pending \in States
  /\ stream.opening \in Nat
  /\ \A f \in Frames : f.seq \in Nat /\ f.seq < publisher.seq
  /\ ~publisher.gap /\ worker.pc # "announce" =>
       \A f \in Frames : f.seq + 1 = publisher.seq => f.opening = stream.opening
  /\ SplicesAreVisible

ChannelInv == PromiseInv /\ SplicesInv

-----------------------------------------------------------------------------
(* What is added to the channel                                             *)

\* t is s with elements of new behind it.
Grown(s, t, new) ==
  /\ s \in Seq(Messages) /\ t \in Seq(Messages)
  /\ Len(s) <= Len(t)
  /\ \A i \in 1..Len(s) : t[i] = s[i]
  /\ \A i \in (Len(s) + 1)..Len(t) : t[i] \in new

LEMMA NothingAdded ==
  ASSUME NEW s \in Seq(Messages), NEW new
  PROVE  Grown(s, s, new)
  BY DEF Grown

LEMMA OneSent ==
  ASSUME NEW s, NEW t, NEW new \in SUBSET Messages, Grown(s, t, new), NEW e \in new
  PROVE  Grown(s, Sent(t, e), new)
  <1>1. t \in Seq(Messages) /\ s \in Seq(Messages) /\ e \in Messages /\ Len(t) \in Nat /\ Len(s) \in Nat
    BY DEF Grown
  <1>2. CASE Sent(t, e) = t
    BY <1>2
  <1>3. CASE Sent(t, e) = Append(t, e)
    <2>1. /\ Append(t, e) \in Seq(Messages) /\ Len(Append(t, e)) = Len(t) + 1
          /\ \A i \in 1..Len(t) : Append(t, e)[i] = t[i]
          /\ Append(t, e)[Len(t) + 1] = e
      BY <1>1, AppendProperties
    <2> QED
      BY <1>1, <1>3, <2>1 DEF Grown
  <1> QED
    BY <1>2, <1>3 DEF Sent

LEMMA MoreMayBeNew ==
  ASSUME NEW s, NEW t, NEW new, NEW more, new \subseteq more, Grown(s, t, new)
  PROVE  Grown(s, t, more)
  BY DEF Grown

LEMMA GrownExtends ==
  ASSUME NEW s, NEW t, Grown(s, t, Messages)
  PROVE  Backend!Extends(s, t)
  <1>1. s \in Seq(Messages) /\ t \in Seq(Messages) /\ Len(s) \in Nat /\ Len(t) \in Nat
    BY DEF Grown
  <1>2. SubSeq(t, 1, Len(s)) \in Seq(Messages) /\ Len(SubSeq(t, 1, Len(s))) = Len(s)
        /\ \A i \in 1..Len(s) : SubSeq(t, 1, Len(s))[i] = t[i]
    BY <1>1, SubSeqProperties DEF Grown
  <1>3. SubSeq(t, 1, Len(s)) = s
    BY <1>1, <1>2, SeqEqual DEF Grown
  <1> QED
    BY <1>3 DEF Grown, Backend!Extends

LEMMA FramesAdded ==
  ASSUME NEW s, NEW t, NEW new, Grown(s, t, new)
  PROVE  FramesIn(t) \subseteq FramesIn(s) \cup {e \in new : e.kind = "Frame"}
  <1>1. DOMAIN s = 1..Len(s) /\ DOMAIN t = 1..Len(t) /\ Len(s) \in Nat /\ Len(t) \in Nat
    BY LenProperties DEF Grown
  <1> QED
    BY <1>1 DEF Grown, FramesIn, Range

LEMMA NotesAreHarmless ==
  ASSUME NEW kind \in AudioKinds
  PROVE  /\ Note(kind) \in Messages /\ Note(kind).kind = kind
         /\ kind \notin {"Stopped", "Error"} => Note(kind) \in Harmless
  BY DEF Note, Notes, Messages, Harmless, Backend!Terminal, AudioKinds

LEMMA FramesAreHarmless ==
  ASSUME NEW seq \in Nat, NEW gap \in BOOLEAN, NEW opening \in Nat
  PROVE  Frame(seq, gap, opening) \in Harmless
  BY DEF Frame, FrameSet, Messages, Harmless, Backend!Terminal

LEMMA NoteSent ==
  ASSUME NEW s, NEW t, Grown(s, t, Reports), NEW kind \in AudioKinds, kind \notin {"Stopped", "Error"}
  PROVE  Grown(s, Sent(t, Note(kind)), Reports)
  <1>1. Reports \in SUBSET Messages /\ Note(kind) \in Reports
    BY NotesAreHarmless DEF Reports, Notes, Harmless
  <1> QED
    BY <1>1, OneSent

\* A pending state and the count of what was dropped, in front of what is sent.
LEMMA StateFlushed ==
  ASSUME NEW s, NEW t, Grown(s, t, Reports), NEW state \in States
  PROVE  Grown(s, Flushed(t, state), Reports)
  BY NoteSent DEF Flushed, States, AudioKinds

LEMMA DropsReported ==
  ASSUME NEW s, NEW t, Grown(s, t, Reports), NEW due
  PROVE  Grown(s, Reported(t, due), Reports)
  BY NoteSent DEF Reported, AudioKinds

LEMMA FrameAdded ==
  ASSUME NEW s, NEW t, Grown(s, t, Reports),
         NEW seq \in Nat, NEW gap \in BOOLEAN, NEW opening \in Nat
  PROVE  /\ Grown(s, Sent(t, Frame(seq, gap, opening)), Harmless)
         /\ Grown(s, Sent(t, Frame(seq, gap, opening)), Reports \cup {Frame(seq, gap, opening)})
  <1> DEFINE f == Frame(seq, gap, opening)
  <1>1. f \in Harmless /\ Harmless \in SUBSET Messages /\ Reports \in SUBSET Messages
        /\ Reports \subseteq Harmless
    BY FramesAreHarmless DEF Harmless, Reports
  <1>2. Grown(s, t, Harmless) /\ Grown(s, t, Reports \cup {f})
    BY <1>1, MoreMayBeNew
  <1>3. Reports \cup {f} \in SUBSET Messages
    BY <1>1
  <1> HIDE DEF f
  <1>4. Grown(s, Sent(t, f), Harmless) /\ Grown(s, Sent(t, f), Reports \cup {f})
    BY <1>1, <1>2, <1>3, OneSent
  <1> QED
    BY <1>4 DEF f

LEMMA StateKept ==
  ASSUME NEW state \in States, NEW queue, NEW flushed
  PROVE  Kept(state, queue, flushed) \in States
  BY DEF Kept, States

-----------------------------------------------------------------------------
(* The caller and the consumer                                              *)

\* What the worker has said is not the caller's.
WorkerUnchanged == UNCHANGED <<worker, publisher, stream>>

LEMMA CallerStep ==
  ASSUME ChannelInv, AwaitReady \/ Stop \/ Join
  PROVE  ChannelInv' /\ [Backend!Next]_(Backend!vars)
  <1>1. WorkerUnchanged /\ UNCHANGED <<events, last>> /\ call' # "idle"
    BY DEF AwaitReady, Stop, Join, workerVars, consumerVars, WorkerUnchanged
  <1>2. ChannelInv'
    BY <1>1 DEF ChannelInv, PromiseInv, SplicesInv, SplicesAreVisible, Frames, WorkerUnchanged
  <1>3. CASE AwaitReady
    BY <1>1, <1>2, <1>3 DEF AwaitReady, WorkerUnchanged, Backend!Next, Backend!Answer
  <1>4. CASE Stop
    BY <1>1, <1>2, <1>4 DEF Stop, WorkerUnchanged, Backend!Next, Backend!Stop
  <1>5. CASE Join
    BY <1>1, <1>2, <1>5 DEF Join, ThreadEnded, At, WorkerUnchanged, Backend!Next, Backend!Return
  <1> QED
    BY <1>2, <1>3, <1>4, <1>5

LEMMA TailIsPart ==
  ASSUME NEW s \in Seq(Messages), s # <<>>
  PROVE  Range(Tail(s)) \subseteq Range(s) /\ Head(s) \in Range(s)
  <1>1. /\ Tail(s) \in Seq(Messages) /\ Len(s) \in Nat \ {0} /\ Len(Tail(s)) = Len(s) - 1
        /\ \A i \in 1..Len(Tail(s)) : Tail(s)[i] = s[i + 1]
        /\ Head(s) = s[1]
    BY EmptySeq, HeadTailProperties
  <1>2. DOMAIN s = 1..Len(s) /\ DOMAIN Tail(s) = 1..Len(Tail(s))
    BY <1>1, LenProperties
  <1> QED
    BY <1>1, <1>2 DEF Range

\* The consumer takes from the front.
LEMMA ConsumerStep ==
  ASSUME ChannelInv, Forward \/ Leave
  PROVE  ChannelInv' /\ [Backend!Next]_(Backend!vars)
  <1>1. WorkerUnchanged /\ UNCHANGED call
    BY DEF Forward, Leave, callerVars, workerVars, WorkerUnchanged
  <1>2. CASE Forward
    <2>1. events \in Seq(Messages) /\ events # <<>> /\ events' = Tail(events)
          /\ last' = IF Head(events).kind = "Frame" THEN Head(events) ELSE last
      BY <1>2 DEF Forward, ChannelInv, PromiseInv
    <2>2. /\ events' \in Seq(Messages) /\ Len(events) \in Nat \ {0} /\ Len(events') = Len(events) - 1
          /\ \A i \in 1..Len(events') : events'[i] = events[i + 1]
      BY <2>1, EmptySeq, HeadTailProperties
    <2>3. Range(events') \subseteq Range(events) /\ Head(events) \in Range(events)
      BY <2>1, TailIsPart
    <2>4. Frames' \subseteq Frames
      BY <2>1, <2>3 DEF Frames, FramesIn
    <2>5. PromiseInv'
      BY <1>1, <2>2 DEF ChannelInv, PromiseInv, WorkerUnchanged
    <2>6. SplicesInv'
      BY <1>1, <2>4 DEF ChannelInv, SplicesInv, SplicesAreVisible, WorkerUnchanged
    <2> QED
      BY <1>1, <2>1, <2>5, <2>6 DEF ChannelInv, WorkerUnchanged, Backend!Next, Backend!Receive
  <1>3. CASE Leave
    <2>1. events' = <<>> /\ last' = last /\ events' \in Seq(Messages) /\ Len(events') = 0
          /\ Range(events') = {}
      BY <1>3, EmptySeq DEF Leave, Range
    <2>2. Frames' \subseteq Frames
      BY <2>1 DEF Frames, FramesIn
    <2>3. PromiseInv'
      BY <1>1, <2>1 DEF ChannelInv, PromiseInv, WorkerUnchanged
    <2>4. SplicesInv'
      BY <1>1, <2>2 DEF ChannelInv, SplicesInv, SplicesAreVisible, WorkerUnchanged
    <2> QED
      BY <1>1, <2>1, <2>3, <2>4 DEF ChannelInv, WorkerUnchanged, Backend!Next, Backend!Discard
  <1> QED
    BY <1>2, <1>3

LEMMA ChannelStep ==
  ASSUME ChannelInv, ChannelNext
  PROVE  ChannelInv' /\ [Backend!Next]_(Backend!vars)
  BY CallerStep, ConsumerStep DEF ChannelNext

-----------------------------------------------------------------------------
(* The capture thread                                                       *)

\* The thread starts.
LEMMA ThreadStarts ==
  ASSUME PromiseInv, call = "idle", call' = "starting", UNCHANGED events,
         worker'.pc \notin {"none", "ended"}
  PROVE  PromiseInv' /\ [Backend!Next]_(Backend!vars)
  BY DEF PromiseInv, Backend!Next, Backend!Start

\* The thread says what is not an end, or what is and ends.
LEMMA ThreadSends ==
  ASSUME PromiseInv, UNCHANGED call, worker.pc \notin {"none", "ended"}, worker'.pc # "none",
         \/ Grown(events, events', Harmless)
         \/ worker'.pc = "ended" /\ \E kind \in AudioKinds : events' = Sent(events, Note(kind))
  PROVE  PromiseInv' /\ [Backend!Next]_(Backend!vars)
  <1>1. events \in Seq(Messages) /\ Len(events) \in Nat /\ call # "idle"
        /\ \A i \in 1..Len(events) : events[i] \in Harmless
    BY DEF PromiseInv
  <1>2. Grown(events, events', Messages)
    <2>1. CASE Grown(events, events', Harmless)
      BY <2>1, MoreMayBeNew DEF Harmless
    <2>2. ASSUME NEW kind \in AudioKinds, events' = Sent(events, Note(kind))
          PROVE  Grown(events, events', Messages)
      BY <1>1, <2>2, NothingAdded, OneSent, NotesAreHarmless
    <2> QED
      BY <2>1, <2>2
  <1>3. events' \in Seq(Messages) /\ Len(events') \in Nat /\ Len(events) <= Len(events')
        /\ Backend!Extends(events, events')
    BY <1>2, GrownExtends DEF Grown
  <1>4. \A i \in 1..(Len(events') - 1) : events'[i] \in Harmless
    <2>1. CASE Grown(events, events', Harmless)
      BY <1>1, <1>3, <2>1 DEF Grown
    <2>2. ASSUME NEW kind \in AudioKinds, events' = Sent(events, Note(kind))
          PROVE  \A i \in 1..(Len(events') - 1) : events'[i] \in Harmless
      <3>1. Note(kind) \in Messages
        BY NotesAreHarmless
      <3>2. Len(events') <= Len(events) + 1
        BY <1>1, <2>2, <3>1, AppendProperties DEF Sent
      <3> QED
        BY <1>1, <1>2, <1>3, <3>2 DEF Grown
    <2> QED
      BY <2>1, <2>2
  <1>5. worker'.pc # "ended" => \A i \in 1..Len(events') : events'[i] \in Harmless
    BY <1>1, <1>3 DEF Grown
  <1>6. PromiseInv'
    BY <1>1, <1>3, <1>5 DEF PromiseInv
  <1>7. /\ \A i \in 1..(Len(events') - 1) : ~Backend!Terminal(events'[i])
        /\ worker'.pc # "ended" /\ events' # <<>> => ~Backend!Terminal(events'[Len(events')])
        /\ events # <<>> => ~Backend!Terminal(events[Len(events)])
    <2>1. events # <<>> => Len(events) \in 1..Len(events)
      BY <1>1, EmptySeq
    <2>2. events' # <<>> => Len(events') \in 1..Len(events')
      BY <1>3, EmptySeq
    <2> QED
      BY <1>1, <1>4, <1>5, <2>1, <2>2 DEF Harmless
  <1>8. Backend!Send
    <2>1. (worker.pc \notin {"none", "ended"}) = TRUE /\ ~Backend!Over
      BY <1>7 DEF Backend!Over
    <2>2. CASE worker'.pc = "ended"
      <3>1. (worker'.pc \notin {"none", "ended"}) = FALSE
        BY <2>2
      <3> QED
        BY <1>3, <1>7, <2>1, <3>1 DEF Backend!Send
    <2>3. CASE worker'.pc # "ended"
      <3>1. (worker'.pc \notin {"none", "ended"}) = TRUE
        BY <2>3
      <3> QED
        BY <1>3, <1>7, <2>1, <2>3, <3>1 DEF Backend!Send
    <2> QED
      BY <2>2, <2>3
  <1> QED
    BY <1>6, <1>8 DEF Backend!Next

\* No frame is sent, and the opening changes only if the next one is marked.
LEMMA NoFrameSent ==
  ASSUME SplicesInv, Frames' \subseteq Frames, publisher'.seq = publisher.seq,
         publisher'.gap \in BOOLEAN, publisher'.pending \in States, stream'.opening \in Nat,
         \/ publisher'.gap \/ worker'.pc = "announce"
         \/ /\ publisher'.gap = publisher.gap /\ stream'.opening = stream.opening
            /\ worker.pc # "announce"
  PROVE  SplicesInv'
  BY DEF SplicesInv, SplicesAreVisible

\* The frame that is sent, if there is room for it, has the next number.
LEMMA FrameSent ==
  ASSUME SplicesInv, worker.pc # "announce",
         Frames' \subseteq Frames \cup {Frame(publisher.seq, publisher.gap, stream.opening)},
         publisher'.seq = publisher.seq + 1, publisher'.gap \in BOOLEAN,
         publisher'.pending \in States, stream'.opening = stream.opening
  PROVE  SplicesInv'
  <1> DEFINE g == Frame(publisher.seq, publisher.gap, stream.opening)
  <1>1. g.seq = publisher.seq /\ g.gap = publisher.gap /\ g.opening = stream.opening
    BY DEF Frame
  <1> HIDE DEF g
  <1>2. \A f \in Frames' : f = g \/ f \in Frames
    BY DEF g
  <1>3. /\ publisher'.seq \in Nat /\ stream'.opening \in Nat
        /\ \A f \in Frames' : f.seq \in Nat /\ f.seq < publisher'.seq
        /\ \A f \in Frames' : f.seq + 1 = publisher'.seq => f.opening = stream'.opening
    BY <1>1, <1>2 DEF SplicesInv
  <1>4. SplicesAreVisible'
    <2>1. ASSUME NEW e \in Frames', NEW f \in Frames', f.seq = e.seq + 1, ~f.gap
          PROVE  f.opening = e.opening
      BY <1>1, <1>2, <2>1 DEF SplicesInv, SplicesAreVisible
    <2> QED
      BY <2>1 DEF SplicesAreVisible
  <1> QED
    BY <1>3, <1>4 DEF SplicesInv

\* What a thread does that sends no frame.
Quiet ==
  /\ UNCHANGED <<call, last>> /\ worker.pc \notin {"none", "ended"} /\ worker'.pc # "none"
  /\ \/ Grown(events, events', Reports)
     \/ worker'.pc = "ended" /\ \E kind \in AudioKinds : events' = Sent(events, Note(kind))
  /\ publisher'.seq = publisher.seq /\ publisher'.gap \in BOOLEAN
  /\ publisher'.pending \in States /\ stream'.opening \in Nat
  /\ \/ publisher'.gap \/ worker'.pc = "announce"
     \/ publisher'.gap = publisher.gap /\ stream'.opening = stream.opening /\ worker.pc # "announce"

LEMMA QuietStep ==
  ASSUME ChannelInv, Quiet
  PROVE  ChannelInv' /\ [Backend!Next]_(Backend!vars)
  <1>1. Grown(events, events', Reports) => Grown(events, events', Harmless)
    BY MoreMayBeNew DEF Reports
  <1>2. PromiseInv' /\ [Backend!Next]_(Backend!vars)
    BY <1>1, ThreadSends DEF ChannelInv, Quiet
  <1>3. Grown(events, events', Notes)
    <2>1. CASE Grown(events, events', Reports)
      BY <2>1, MoreMayBeNew DEF Reports
    <2>2. ASSUME NEW kind \in AudioKinds, events' = Sent(events, Note(kind))
          PROVE  Grown(events, events', Notes)
      <3>1. Note(kind) \in Notes /\ Notes \in SUBSET Messages
        BY DEF Notes, Messages
      <3> QED
        BY <2>2, <3>1, NothingAdded, OneSent DEF ChannelInv, PromiseInv
    <2> QED
      BY <2>1, <2>2 DEF Quiet
  <1>4. Frames' \subseteq Frames
    <2>1. FramesIn(events') \subseteq FramesIn(events)
      BY <1>3, FramesAdded DEF Notes, Note, AudioKinds
    <2> QED
      BY <2>1 DEF Frames, Quiet
  <1>5. SplicesInv'
    BY <1>4, NoFrameSent DEF ChannelInv, Quiet
  <1> QED
    BY <1>2, <1>5 DEF ChannelInv

\* What it does with a packet: a state and a count may go first.
Packed ==
  /\ UNCHANGED <<call, last>> /\ worker.pc \notin {"none", "ended", "announce"}
  /\ worker'.pc # "none"
  /\ \E queue \in Seq(Messages) :
       /\ Grown(events, queue, Reports)
       /\ events' = Sent(queue, Frame(publisher.seq, publisher.gap, stream.opening))
  /\ publisher'.seq = publisher.seq + 1 /\ publisher'.gap \in BOOLEAN
  /\ publisher'.pending \in States /\ stream'.opening = stream.opening

LEMMA PackedStep ==
  ASSUME ChannelInv, Packed
  PROVE  ChannelInv' /\ [Backend!Next]_(Backend!vars)
  <1> DEFINE seq == publisher.seq
             gap == publisher.gap
             opening == stream.opening
  <1>1. seq \in Nat /\ gap \in BOOLEAN /\ opening \in Nat
    BY DEF ChannelInv, SplicesInv
  <1>2. PICK queue \in Seq(Messages) :
               Grown(events, queue, Reports) /\ events' = Sent(queue, Frame(seq, gap, opening))
    BY DEF Packed
  <1>3. Grown(events, events', Harmless) /\ Grown(events, events', Reports \cup {Frame(seq, gap, opening)})
    <2> HIDE DEF seq, gap, opening
    <2> QED
      BY <1>1, <1>2, FrameAdded
  <1>4. PromiseInv' /\ [Backend!Next]_(Backend!vars)
    BY <1>3, ThreadSends DEF ChannelInv, Packed
  <1>5. Frames' \subseteq Frames \cup {Frame(seq, gap, opening)}
    <2> HIDE DEF seq, gap, opening
    <2>1. FramesIn(events') \subseteq FramesIn(events) \cup {Frame(seq, gap, opening)}
      BY <1>3, FramesAdded DEF Reports, Notes, Note, AudioKinds
    <2> QED
      BY <2>1 DEF Frames, Packed
  <1>6. SplicesInv'
    BY <1>5, FrameSent DEF ChannelInv, Packed
  <1> QED
    BY <1>4, <1>6 DEF ChannelInv

-----------------------------------------------------------------------------
(* The capture thread of crates/audio-windows                               *)

WasapiPlaces == {"none", "resolve", "open", "announce", "capture", "wait", "ended"}

WasapiShape ==
  /\ worker = [pc |-> worker.pc, target |-> worker.target, process |-> worker.process,
               told |-> worker.told]
  /\ publisher = [seq |-> publisher.seq, gap |-> publisher.gap, pending |-> publisher.pending,
                  quiet |-> publisher.quiet, unreported |-> publisher.unreported]
  /\ stream = [opening |-> stream.opening, source |-> stream.source, watched |-> stream.watched]
  /\ worker.pc \in WasapiPlaces

WasapiInv == WasapiShape /\ ChannelInv

-----------------------------------------------------------------------------
LEMMA WasapiStarts ==
  ASSUME WasapiInit
  PROVE  WasapiInv /\ Backend!Init
  <1>1. PICK target \in Targets :
          worker = [pc |-> "none", target |-> target, process |-> 0, told |-> ToldNothing]
    BY DEF WasapiInit
  <1>2. /\ publisher = [seq |-> 0, gap |-> TRUE, pending |-> "none", quiet |-> FALSE,
                        unreported |-> FALSE]
        /\ stream = [opening |-> 0, source |-> 0, watched |-> FALSE]
        /\ call = "idle" /\ events = <<>> /\ last = NoAudioFrame
    BY DEF WasapiInit, ChannelInit
  <1>3. WasapiShape
    BY <1>1, <1>2 DEF WasapiShape, WasapiPlaces
  <1>4. PromiseInv
    BY <1>1, <1>2 DEF PromiseInv
  <1>5. Frames = {}
    BY <1>2 DEF Frames, FramesIn, Range
  <1>6. SplicesInv
    BY <1>2, <1>5 DEF SplicesInv, SplicesAreVisible, States
  <1>7. (worker.pc \notin {"none", "ended"}) = FALSE
    BY <1>1
  <1> QED
    BY <1>2, <1>3, <1>4, <1>6, <1>7 DEF WasapiInv, ChannelInv, Backend!Init

\* What the thread does that sends no frame.
LEMMA WasapiGoesOn ==
  ASSUME WasapiInv, Quiet, WasapiShape'
  PROVE  WasapiInv' /\ [Backend!Next]_(Backend!vars)
  BY QuietStep DEF WasapiInv

LEMMA WasapiNothingSent ==
  ASSUME WasapiInv
  PROVE  Grown(events, events, Reports)
  BY NothingAdded DEF WasapiInv, ChannelInv, PromiseInv

LEMMA SentNote ==
  ASSUME WasapiInv, NEW kind \in AudioKinds, kind \notin {"Stopped", "Error"}
  PROVE  Grown(events, Sent(events, Note(kind)), Reports)
  BY WasapiNothingSent, NoteSent

\* Nothing is opened and nothing numbered: only a note is sent.
LEMMA NoteStep ==
  ASSUME WasapiInv, UNCHANGED <<call, last, publisher, stream>>,
         worker.pc \notin {"none", "announce", "ended"},
         NEW pc \in WasapiPlaces \ {"none"}, NEW process, NEW note,
         worker' = [worker EXCEPT !.pc = pc, !.process = process, !.told = note],
         \/ Grown(events, events', Reports)
         \/ pc = "ended" /\ \E kind \in AudioKinds : events' = Sent(events, Note(kind))
  PROVE  WasapiInv' /\ [Backend!Next]_(Backend!vars)
  <1>1. WasapiShape' /\ worker'.pc = pc
    BY DEF WasapiInv, WasapiShape, WasapiPlaces
  <1>2. Quiet
    BY <1>1 DEF Quiet, WasapiInv, ChannelInv, SplicesInv
  <1> QED
    BY <1>1, <1>2, WasapiGoesOn

LEMMA RecoverStep ==
  ASSUME WasapiInv, NEW reason, Recover(reason), UNCHANGED <<call, last, publisher, stream>>,
         worker.pc \notin {"none", "announce", "ended"}
  PROVE  WasapiInv' /\ [Backend!Next]_(Backend!vars)
  <1>1. Grown(events, events', Reports)
    BY WasapiNothingSent, SentNote DEF Recover, Publish, AudioKinds
  <1>2. \/ worker' = [worker EXCEPT !.pc = "wait", !.process = Cleared, !.told = reason]
        \/ worker' = [worker EXCEPT !.pc = "ended", !.process = worker.process, !.told = worker.told]
    BY DEF Recover, Publish, WasapiInv, WasapiShape
  <1>3. {"wait", "ended"} \subseteq WasapiPlaces \ {"none"}
    BY DEF WasapiPlaces
  <1> QED
    BY <1>1, <1>2, <1>3, NoteStep

LEMMA RefuseStep ==
  ASSUME WasapiInv, Refuse, UNCHANGED <<call, last, publisher, stream>>,
         worker.pc \notin {"none", "announce", "ended"}
  PROVE  WasapiInv' /\ [Backend!Next]_(Backend!vars)
  <1>1. /\ worker' = [worker EXCEPT !.pc = "ended", !.process = worker.process, !.told = worker.told]
        /\ events' = events /\ "ended" \in WasapiPlaces \ {"none"}
    BY DEF Refuse, Goto, WasapiInv, WasapiShape, WasapiPlaces
  <1> QED
    BY <1>1, WasapiNothingSent, NoteStep

-----------------------------------------------------------------------------
(* The steps                                                                *)

LEMMA WasapiStartStep ==
  ASSUME WasapiInv, StartWasapi
  PROVE  WasapiInv' /\ [Backend!Next]_(Backend!vars)
  <1>1. /\ call = "idle" /\ call' = "starting" /\ UNCHANGED <<events, last, publisher, stream>>
        /\ \E process : worker' = [worker EXCEPT !.pc = "resolve", !.process = process]
    BY DEF StartWasapi, consumerVars
  <1>2. WasapiShape' /\ worker'.pc = "resolve"
    BY <1>1 DEF WasapiInv, WasapiShape, WasapiPlaces
  <1>3. PromiseInv' /\ [Backend!Next]_(Backend!vars)
    BY <1>1, <1>2, ThreadStarts DEF WasapiInv, ChannelInv
  <1>4. worker.pc # "announce"
    BY <1>1 DEF WasapiInv, ChannelInv, PromiseInv
  <1>5. SplicesInv'
    BY <1>1, <1>2, <1>4 DEF WasapiInv, ChannelInv, SplicesInv, SplicesAreVisible, Frames
  <1> QED
    BY <1>2, <1>3, <1>5 DEF WasapiInv, ChannelInv

LEMMA ResolveFailsStep ==
  ASSUME WasapiInv, ResolveFails
  PROVE  WasapiInv' /\ [Backend!Next]_(Backend!vars)
  <1>1. call = "idle" /\ call' = "failed" /\ UNCHANGED <<events, last, worker, publisher, stream>>
    BY DEF ResolveFails, consumerVars, workerVars
  <1>2. WasapiInv'
    BY <1>1 DEF WasapiInv, WasapiShape, ChannelInv, PromiseInv, SplicesInv, SplicesAreVisible, Frames
  <1> QED
    BY <1>1, <1>2 DEF Backend!Next, Backend!Refuse

LEMMA ReturnStep ==
  ASSUME WasapiInv, Returns
  PROVE  WasapiInv' /\ [Backend!Next]_(Backend!vars)
  <1>1. /\ UNCHANGED <<call, last, publisher, stream>> /\ worker.pc \in {"resolve", "wait", "capture"}
        /\ worker' = [worker EXCEPT !.pc = "ended", !.process = worker.process, !.told = worker.told]
        /\ events' = Sent(events, Note("Stopped")) /\ "Stopped" \in AudioKinds
        /\ "ended" \in WasapiPlaces \ {"none"}
    BY DEF Returns, EndWorker, At, Goto, callerVars, consumerVars, WasapiInv, WasapiShape, AudioKinds, WasapiPlaces
  <1> QED
    BY <1>1, NoteStep

LEMMA ResolveStep ==
  ASSUME WasapiInv, Resolve
  PROVE  WasapiInv' /\ [Backend!Next]_(Backend!vars)
  <1>1. /\ UNCHANGED <<call, last, publisher, stream>> /\ worker.pc = "resolve"
        /\ "open" \in WasapiPlaces \ {"none"}
    BY DEF Resolve, At, callerVars, consumerVars, WasapiPlaces
  <1>2. \/ /\ UNCHANGED events
           /\ \E p : worker' = [worker EXCEPT !.pc = "open", !.process = p, !.told = worker.told]
        \/ Refuse
        \/ \E reason \in {"unavailable", "ambiguous"} : Recover(reason)
    <2>1. CASE ~Application \/ worker.process # 0
      <3>1. worker' = [worker EXCEPT !.pc = "open"] /\ UNCHANGED events
        BY <2>1 DEF Resolve, Goto
      <3>2. worker' = [worker EXCEPT !.pc = "open", !.process = worker.process,
                                     !.told = worker.told]
        BY <3>1 DEF WasapiInv, WasapiShape
      <3> QED
        BY <3>1, <3>2
    <2>2. CASE ~(~Application \/ worker.process # 0)
      <3>1. \/ \E p : worker' = [worker EXCEPT !.pc = "open", !.process = p] /\ UNCHANGED events
            \/ Refuse
            \/ Recover(IF Instances = {} THEN "unavailable" ELSE "ambiguous")
        BY <2>2 DEF Resolve
      <3>2. \A p : [worker EXCEPT !.pc = "open", !.process = p]
                     = [worker EXCEPT !.pc = "open", !.process = p, !.told = worker.told]
        BY DEF WasapiInv, WasapiShape
      <3> QED
        BY <3>1, <3>2
    <2> QED
      BY <2>1, <2>2
  <1> QED
    BY <1>1, <1>2, WasapiNothingSent, NoteStep, RefuseStep, RecoverStep

LEMMA WasapiOpenStep ==
  ASSUME WasapiInv, Open
  PROVE  WasapiInv' /\ [Backend!Next]_(Backend!vars)
  <1>1. /\ UNCHANGED <<call, last, events, publisher>> /\ worker.pc = "open"
        /\ \E source, watched :
             stream' = [opening |-> stream.opening + 1, source |-> source, watched |-> watched]
        /\ worker' = [worker EXCEPT !.pc = "announce", !.told = ToldNothing]
    BY DEF Open, At, callerVars, consumerVars
  <1>2. WasapiShape' /\ worker'.pc = "announce" /\ stream'.opening = stream.opening + 1
    <2>1. worker'.pc = "announce"
          /\ worker' = [pc |-> worker'.pc, target |-> worker'.target,
                        process |-> worker'.process, told |-> worker'.told]
      BY <1>1 DEF WasapiInv, WasapiShape
    <2>2. /\ stream' = [opening |-> stream'.opening, source |-> stream'.source,
                        watched |-> stream'.watched]
          /\ stream'.opening = stream.opening + 1
      <3> DEFINE n == stream.opening + 1
      <3>1. \E source, watched :
              stream' = [opening |-> n, source |-> source, watched |-> watched]
        BY <1>1
      <3> HIDE DEF n
      <3>2. stream' = [opening |-> stream'.opening, source |-> stream'.source,
                       watched |-> stream'.watched]
            /\ stream'.opening = n
        BY <3>1
      <3> QED
        BY <3>2 DEF n
    <2> QED
      BY <1>1, <2>1, <2>2 DEF WasapiInv, WasapiShape, WasapiPlaces
  <1>3. Quiet
    BY <1>1, <1>2, WasapiNothingSent DEF Quiet, WasapiInv, ChannelInv, SplicesInv
  <1> QED
    BY <1>2, <1>3, WasapiGoesOn

LEMMA WasapiFailingStep ==
  ASSUME WasapiInv, OpenSourceFails \/ SourceLost \/ CaptureFails
  PROVE  WasapiInv' /\ [Backend!Next]_(Backend!vars)
  <1>1. UNCHANGED <<call, last, publisher, stream>> /\ worker.pc \in {"open", "capture"}
    BY DEF OpenSourceFails, SourceLost, CaptureFails, At, callerVars, consumerVars
  <1>2. \/ Refuse
        \/ \E reason \in {"unavailable", "changed"} : Recover(reason)
        \/ /\ events' = Sent(events, Note("Error")) /\ "Error" \in AudioKinds
           /\ worker' = [worker EXCEPT !.pc = "ended", !.process = worker.process,
                                       !.told = worker.told]
           /\ "ended" \in WasapiPlaces \ {"none"}
    BY DEF OpenSourceFails, SourceLost, CaptureFails, Goto, WasapiInv, WasapiShape, AudioKinds, WasapiPlaces
  <1> QED
    BY <1>1, <1>2, NoteStep, RefuseStep, RecoverStep

LEMMA AnnounceStep ==
  ASSUME WasapiInv, Announce
  PROVE  WasapiInv' /\ [Backend!Next]_(Backend!vars)
  <1>1. /\ UNCHANGED <<call, last, stream>> /\ worker.pc = "announce"
        /\ events' = Sent(events, Note("Capturing")) /\ "Capturing" \in AudioKinds
        /\ publisher' = [publisher EXCEPT !.gap = TRUE, !.pending = "none", !.quiet = FALSE,
                                          !.unreported = FALSE]
        /\ \E pc \in {"capture", "ended"} : worker' = [worker EXCEPT !.pc = pc]
    BY DEF Announce, Publish, At, callerVars, consumerVars, AudioKinds
  <1>2. /\ WasapiShape' /\ worker'.pc # "none" /\ publisher'.seq = publisher.seq
        /\ publisher'.gap = TRUE /\ publisher'.pending = "none"
    BY <1>1 DEF WasapiInv, WasapiShape, WasapiPlaces
  <1>3. Quiet
    <2>1. Grown(events, events', Reports)
      BY <1>1, SentNote
    <2>2. publisher'.gap /\ publisher'.gap \in BOOLEAN
      BY <1>2
    <2>3. publisher'.pending \in States /\ stream'.opening \in Nat
      BY <1>1, <1>2 DEF States, WasapiInv, ChannelInv, SplicesInv
    <2> QED
      BY <1>1, <1>2, <2>1, <2>2, <2>3 DEF Quiet
  <1> QED
    BY <1>2, <1>3, WasapiGoesOn

LEMMA WaitStep ==
  ASSUME WasapiInv, Wait
  PROVE  WasapiInv' /\ [Backend!Next]_(Backend!vars)
  <1>1. /\ UNCHANGED <<call, last, events, publisher, stream>> /\ worker.pc = "wait"
        /\ worker' = [worker EXCEPT !.pc = "resolve", !.process = worker.process,
                                    !.told = worker.told]
        /\ "resolve" \in WasapiPlaces \ {"none"}
    BY DEF Wait, At, Goto, channelVars, callerVars, consumerVars, WasapiInv, WasapiShape, WasapiPlaces
  <1> QED
    BY <1>1, WasapiNothingSent, NoteStep

LEMMA TickStep ==
  ASSUME WasapiInv, Tick
  PROVE  WasapiInv' /\ [Backend!Next]_(Backend!vars)
  <1> DEFINE state == IF ~publisher.quiet THEN "Waiting" ELSE publisher.pending
             flushed == Flushed(events, state)
             reported == Reported(flushed, publisher.unreported)
             kept == Kept(state, events, flushed)
  <1>1. state \in States
    BY DEF States, WasapiInv, ChannelInv, SplicesInv
  <1>2. Grown(events, reported, Reports) /\ kept \in States
    <2> HIDE DEF state
    <2> QED
      BY <1>1, WasapiNothingSent, StateFlushed, DropsReported, StateKept
  <1>3. /\ UNCHANGED <<call, last, stream>> /\ worker.pc = "capture"
        /\ events' = reported
        /\ \E pc \in {"capture", "ended"} : worker' = [worker EXCEPT !.pc = pc]
        /\ \E unreported : publisher' = [publisher EXCEPT !.quiet = TRUE, !.pending = kept,
                                                          !.unreported = unreported]
    BY DEF Tick, At, callerVars, consumerVars, WasapiInv, WasapiShape
  <1> HIDE DEF reported, kept
  <1>4. /\ WasapiShape' /\ worker'.pc # "none" /\ publisher'.seq = publisher.seq
        /\ publisher'.gap = publisher.gap /\ publisher'.pending = kept
    BY <1>3 DEF WasapiInv, WasapiShape, WasapiPlaces
  <1>5. Quiet
    BY <1>2, <1>3, <1>4 DEF Quiet, WasapiInv, ChannelInv, SplicesInv
  <1> QED
    BY <1>4, <1>5, WasapiGoesOn

LEMMA PacketStep ==
  ASSUME WasapiInv, Packet
  PROVE  WasapiInv' /\ [Backend!Next]_(Backend!vars)
  <1>1. PICK signal \in BOOLEAN :
          LET state == IF signal /\ publisher.quiet THEN "Capturing" ELSE publisher.pending
              flushed == Flushed(events, state)
              reported == Reported(flushed, publisher.unreported)
              queue == Sent(reported, Frame(publisher.seq, publisher.gap, stream.opening))
          IN /\ events' = queue
             /\ worker' = IF connected THEN worker ELSE [worker EXCEPT !.pc = "ended"]
             /\ publisher' = [seq |-> publisher.seq + 1, gap |-> FALSE,
                              pending |-> Kept(state, events, flushed),
                              quiet |-> publisher.quiet /\ ~signal,
                              unreported |-> queue = reported \/ (publisher.unreported /\ reported = flushed)]
    BY DEF Packet
  <1> DEFINE state == IF signal /\ publisher.quiet THEN "Capturing" ELSE publisher.pending
             flushed == Flushed(events, state)
             reported == Reported(flushed, publisher.unreported)
             kept == Kept(state, events, flushed)
  <1>2. state \in States
    BY DEF States, WasapiInv, ChannelInv, SplicesInv
  <1>3. Grown(events, reported, Reports) /\ kept \in States
    <2> HIDE DEF state
    <2> QED
      BY <1>2, WasapiNothingSent, StateFlushed, DropsReported, StateKept
  <1>4. /\ events' = Sent(reported, Frame(publisher.seq, publisher.gap, stream.opening))
        /\ \E quiet, unreported :
             publisher' = [seq |-> publisher.seq + 1, gap |-> FALSE, pending |-> kept,
                           quiet |-> quiet, unreported |-> unreported]
        /\ \E pc \in {"capture", "ended"} : worker' = [worker EXCEPT !.pc = pc]
        /\ UNCHANGED <<call, last, stream>> /\ worker.pc = "capture"
    BY <1>1 DEF Packet, At, callerVars, consumerVars, WasapiInv, WasapiShape
  <1> HIDE DEF reported, kept
  <1>5. /\ WasapiShape' /\ worker'.pc # "none" /\ publisher'.seq = publisher.seq + 1
        /\ publisher'.gap = FALSE /\ publisher'.pending = kept
    BY <1>4 DEF WasapiInv, WasapiShape, WasapiPlaces
  <1>6. Packed
    <2>1. publisher'.gap \in BOOLEAN
      BY <1>5
    <2> QED
      BY <1>3, <1>4, <1>5, <2>1 DEF Packed, Grown
  <1> QED
    BY <1>5, <1>6, PackedStep DEF WasapiInv

\* What a stream was open on goes: the numbering of the stream stays.
LEMMA DevicesStep ==
  ASSUME WasapiInv, DevicesChange
  PROVE  WasapiInv' /\ [Backend!Next]_(Backend!vars)
  <1>1. /\ UNCHANGED <<call, events, last, worker, publisher>>
        /\ \E source : stream' = [stream EXCEPT !.source = source]
    BY DEF DevicesChange, channelVars, callerVars, consumerVars
  <1>2. WasapiShape' /\ stream'.opening = stream.opening
    BY <1>1 DEF WasapiInv, WasapiShape
  <1>3. ChannelInv'
    BY <1>1, <1>2 DEF WasapiInv, ChannelInv, PromiseInv, SplicesInv, SplicesAreVisible, Frames
  <1>4. UNCHANGED Backend!vars
    BY <1>1 DEF Backend!vars
  <1> QED
    BY <1>2, <1>3, <1>4 DEF WasapiInv

LEMMA WasapiOtherStep ==
  ASSUME WasapiInv, ChannelNext \/ UNCHANGED audioVars
  PROVE  WasapiInv' /\ [Backend!Next]_(Backend!vars)
  <1>1. UNCHANGED <<worker, publisher, stream>>
    BY DEF ChannelNext, AwaitReady, Stop, Join, Forward, Leave, audioVars, workerVars
  <1>2. WasapiShape'
    BY <1>1 DEF WasapiInv, WasapiShape
  <1>3. CASE ChannelNext
    BY <1>2, <1>3, ChannelStep DEF WasapiInv
  <1>4. CASE UNCHANGED audioVars
    <2>1. UNCHANGED <<call, events, last>>
      BY <1>4 DEF audioVars, channelVars, callerVars, consumerVars
    <2>2. ChannelInv'
      BY <1>1, <2>1 DEF WasapiInv, ChannelInv, PromiseInv, SplicesInv, SplicesAreVisible, Frames
    <2>3. UNCHANGED Backend!vars
      BY <1>1, <2>1 DEF Backend!vars
    <2> QED
      BY <1>2, <2>2, <2>3 DEF WasapiInv
  <1> QED
    BY <1>3, <1>4

LEMMA WasapiStep ==
  ASSUME WasapiInv, [WasapiNext]_audioVars
  PROVE  WasapiInv' /\ [Backend!Next]_(Backend!vars)
  <1>1. CASE StartWasapi \/ ResolveFails
    BY <1>1, WasapiStartStep, ResolveFailsStep
  <1>2. CASE WasapiThread
    BY <1>2, ReturnStep, ResolveStep, WasapiOpenStep, WasapiFailingStep, AnnounceStep, WaitStep DEF WasapiThread
  <1>3. CASE Tick \/ Packet
    BY <1>3, TickStep, PacketStep
  <1>4. CASE CaptureFails
    BY <1>4, WasapiFailingStep
  <1>5. CASE ChannelNext \/ DevicesChange \/ UNCHANGED audioVars
    BY <1>5, WasapiOtherStep, DevicesStep
  <1> QED
    BY <1>1, <1>2, <1>3, <1>4, <1>5 DEF WasapiNext

-----------------------------------------------------------------------------
(* Theorems                                                                 *)

\* The invariant of the capture thread and its channel.
THEOREM WindowsInvariant == WasapiSpec => []WasapiInv
  <1>1. WasapiInit => WasapiInv
    BY WasapiStarts
  <1>2. WasapiInv /\ [WasapiNext]_audioVars => WasapiInv'
    BY WasapiStep
  <1> QED
    BY <1>1, <1>2, PTL DEF WasapiSpec

\* A packet that was lost in a full channel, or between two devices, is never
\* joined up as if nothing were missing.
THEOREM WindowsSplicesAreVisible == WasapiSpec => []SplicesAreVisible
  <1>1. WasapiInv => SplicesAreVisible
    BY DEF WasapiInv, ChannelInv, SplicesInv
  <1> QED
    BY <1>1, WindowsInvariant, PTL

\* The capture thread of crates/audio-windows, with the calls that start and stop
\* it, keeps what AudioBackend promises.
THEOREM WindowsKeepsThePromise == WasapiSpec => BackendPromise
  <1>1. WasapiInit => Backend!Init
    BY WasapiStarts
  <1>2. WasapiInv /\ [WasapiNext]_audioVars => [Backend!Next]_(Backend!vars)
    BY WasapiStep
  <1> QED
    BY <1>1, <1>2, WindowsInvariant, PTL DEF WasapiSpec, BackendPromise, Backend!Spec

-----------------------------------------------------------------------------
(* The capture thread of crates/audio-pipewire                              *)

PipeWirePlaces == {"none", "connect", "select", "listen", "retry", "ended"}

PipeWireShape ==
  /\ worker = [pc |-> worker.pc, target |-> worker.target, name |-> worker.name,
               told |-> worker.told]
  /\ publisher = [seq |-> publisher.seq, gap |-> publisher.gap, pending |-> publisher.pending,
                  quiet |-> publisher.quiet, unreported |-> publisher.unreported,
                  gone |-> publisher.gone]
  /\ stream = [opening |-> stream.opening, inputs |-> stream.inputs, linked |-> stream.linked,
               nodes |-> stream.nodes, default |-> stream.default]
  /\ worker.pc \in PipeWirePlaces

PipeWireInv == PipeWireShape /\ ChannelInv

-----------------------------------------------------------------------------
LEMMA PipeWireStarts ==
  ASSUME PipeWireInit
  PROVE  PipeWireInv /\ Backend!Init
  <1>1. PICK target \in Targets, nodes \in {{Node(1, 1)}, {Node(id, id) : id \in Ids}} :
               /\ worker = [pc |-> "none", target |-> target, name |-> 1, told |-> ToldNothing]
               /\ world = [up |-> TRUE, nodes |-> nodes, default |-> 1]
    BY DEF PipeWireInit
  <1>2. /\ publisher = [seq |-> 0, gap |-> TRUE, pending |-> "none", quiet |-> FALSE,
                        unreported |-> FALSE, gone |-> FALSE]
        /\ stream = [opening |-> 0, inputs |-> NoStream, linked |-> {}, nodes |-> {}, default |-> 0]
        /\ call = "idle" /\ events = <<>> /\ last = NoAudioFrame
    BY DEF PipeWireInit, ChannelInit
  <1>3. PipeWireShape
    BY <1>1, <1>2 DEF PipeWireShape, PipeWirePlaces
  <1>4. PromiseInv
    BY <1>1, <1>2 DEF PromiseInv
  <1>5. Frames = {}
    BY <1>2 DEF Frames, FramesIn, Range
  <1>6. SplicesInv
    BY <1>2, <1>5 DEF SplicesInv, SplicesAreVisible, States
  <1>7. (worker.pc \notin {"none", "ended"}) = FALSE
    BY <1>1
  <1> QED
    BY <1>2, <1>3, <1>4, <1>6, <1>7 DEF PipeWireInv, ChannelInv, Backend!Init

\* What a thread does that sends no frame.
LEMMA PipeWireGoesOn ==
  ASSUME PipeWireInv, Quiet, PipeWireShape'
  PROVE  PipeWireInv' /\ [Backend!Next]_(Backend!vars)
  BY QuietStep DEF PipeWireInv

LEMMA PipeWireNothingSent ==
  ASSUME PipeWireInv
  PROVE  Grown(events, events, Reports)
  BY NothingAdded DEF PipeWireInv, ChannelInv, PromiseInv

LEMMA SentRecovery ==
  ASSUME PipeWireInv
  PROVE  Grown(events, Sent(events, Note("Recovery")), Reports)
  BY PipeWireNothingSent, NoteSent DEF AudioKinds

\* Where the loop's body ends with an error.
LEMMA FailStep ==
  ASSUME PipeWireInv, NEW reason, Fail(reason), UNCHANGED <<call, last>>,
         worker.pc \notin {"none", "ended"}
  PROVE  PipeWireInv' /\ [Backend!Next]_(Backend!vars)
  <1>1. stream' = Dropped /\ stream'.opening = stream.opening
        /\ publisher' = [publisher EXCEPT !.gone = ~connected]
    BY DEF Fail, Dropped, PipeWireInv, PipeWireShape
  <1>2. publisher'.seq = publisher.seq /\ publisher'.gap = publisher.gap
        /\ publisher'.pending = publisher.pending
    BY <1>1 DEF PipeWireInv, PipeWireShape
  <1>3. CASE Unanswered
    <2>1. worker' = [worker EXCEPT !.pc = "ended"] /\ events' = Sent(events, Note("Stopped"))
      BY <1>3 DEF Fail, Goto
    <2>2. PipeWireShape' /\ worker'.pc = "ended"
      BY <1>1, <2>1 DEF PipeWireInv, PipeWireShape, PipeWirePlaces, Dropped
    <2>3. Quiet
      BY <1>1, <1>2, <2>1, <2>2 DEF Quiet, AudioKinds, PipeWireInv, ChannelInv, SplicesInv, PipeWireShape, PipeWirePlaces
    <2> QED
      BY <2>2, <2>3, PipeWireGoesOn
  <1>4. CASE ~Unanswered
    <2>1. /\ events' \in {events, Sent(events, Note("Recovery"))}
          /\ \E note : worker' = [worker EXCEPT !.pc = "retry", !.told = note]
      BY <1>4 DEF Fail, Report
    <2>2. PipeWireShape' /\ worker'.pc = "retry"
      BY <1>1, <2>1 DEF PipeWireInv, PipeWireShape, PipeWirePlaces, Dropped
    <2>3. Quiet
      BY <1>1, <1>2, <2>1, <2>2, PipeWireNothingSent, SentRecovery
         DEF Quiet, PipeWireInv, ChannelInv, SplicesInv, PipeWireShape, PipeWirePlaces
    <2> QED
      BY <2>2, <2>3, PipeWireGoesOn
  <1> QED
    BY <1>3, <1>4

-----------------------------------------------------------------------------
(* The steps                                                                *)

LEMMA PipeWireStartStep ==
  ASSUME PipeWireInv, StartPipeWire
  PROVE  PipeWireInv' /\ [Backend!Next]_(Backend!vars)
  <1>1. /\ call = "idle" /\ call' = "starting" /\ UNCHANGED <<events, last, publisher, stream>>
        /\ worker' = [worker EXCEPT !.pc = "connect"]
    BY DEF StartPipeWire, Goto, consumerVars
  <1>2. PipeWireShape' /\ worker'.pc = "connect"
    BY <1>1 DEF PipeWireInv, PipeWireShape, PipeWirePlaces
  <1>3. PromiseInv' /\ [Backend!Next]_(Backend!vars)
    BY <1>1, <1>2, ThreadStarts DEF PipeWireInv, ChannelInv
  <1>4. SplicesInv'
    BY <1>1, <1>2 DEF PipeWireInv, ChannelInv, SplicesInv, SplicesAreVisible, Frames, PipeWireShape, PipeWirePlaces
  <1> QED
    BY <1>2, <1>3, <1>4 DEF PipeWireInv, ChannelInv

LEMMA FinishStep ==
  ASSUME PipeWireInv, EndLoop
  PROVE  PipeWireInv' /\ [Backend!Next]_(Backend!vars)
  <1>1. /\ UNCHANGED <<call, last, publisher>> /\ worker.pc \notin {"none", "ended"}
        /\ worker' = [worker EXCEPT !.pc = "ended"] /\ events' = Sent(events, Note("Stopped"))
        /\ stream' = Dropped
    BY DEF EndLoop, Goto, callerVars, consumerVars
  <1>2. PipeWireShape' /\ worker'.pc = "ended" /\ stream'.opening = stream.opening
    BY <1>1 DEF PipeWireInv, PipeWireShape, PipeWirePlaces, Dropped
  <1>3. Quiet
    BY <1>1, <1>2 DEF Quiet, AudioKinds, PipeWireInv, ChannelInv, SplicesInv, PipeWireShape, PipeWirePlaces
  <1> QED
    BY <1>2, <1>3, PipeWireGoesOn

\* The thread, or the server, changes what is known of the graph or linked.
LEMMA GraphStep ==
  ASSUME PipeWireInv, ConnectGraph \/ Refresh \/ Hear \/ HearDefault \/ KeepStream \/ Link
  PROVE  PipeWireInv' /\ [Backend!Next]_(Backend!vars)
  <1>1. /\ UNCHANGED <<call, last, events, publisher>> /\ worker.pc \notin {"none", "ended"}
        /\ \/ worker' = worker
           \/ \E pc \in PipeWirePlaces \ {"none"} : worker' = [worker EXCEPT !.pc = pc]
        /\ stream' = [opening |-> stream.opening, inputs |-> stream'.inputs,
                      linked |-> stream'.linked, nodes |-> stream'.nodes,
                      default |-> stream'.default]
    <2>1. CASE ConnectGraph
      BY <2>1 DEF ConnectGraph, Goto, Dropped, channelVars, callerVars, consumerVars, PipeWireInv, PipeWireShape,
                  PipeWirePlaces
    <2>2. CASE Refresh \/ Hear \/ HearDefault
      BY <2>2 DEF Refresh, Hear, HearDefault, At, channelVars, callerVars, consumerVars,
                  PipeWireInv, PipeWireShape
    <2>3. CASE KeepStream
      BY <2>3 DEF KeepStream, At, Goto, channelVars, callerVars, consumerVars, PipeWireInv, PipeWireShape,
                  PipeWirePlaces
    <2>4. CASE Link
      BY <2>4 DEF Link, At, channelVars, callerVars, consumerVars, PipeWireInv, PipeWireShape
    <2> QED
      BY <2>1, <2>2, <2>3, <2>4
  <1>2. PipeWireShape' /\ worker'.pc # "none" /\ stream'.opening = stream.opening
    BY <1>1 DEF PipeWireInv, PipeWireShape, PipeWirePlaces
  <1>3. Quiet
    BY <1>1, <1>2, PipeWireNothingSent DEF Quiet, PipeWireInv, ChannelInv, SplicesInv, PipeWireShape, PipeWirePlaces
  <1> QED
    BY <1>2, <1>3, PipeWireGoesOn

LEMMA PipeWireFailingStep ==
  ASSUME PipeWireInv, ConnectFails \/ OpenStreamFails \/ StreamFails
  PROVE  PipeWireInv' /\ [Backend!Next]_(Backend!vars)
  <1>1. UNCHANGED <<call, last>> /\ worker.pc \notin {"none", "ended"}
    BY DEF ConnectFails, OpenStreamFails, StreamFails, At, callerVars, consumerVars
  <1>2. \E reason \in {"connection", "open", "stream", "unlinked"} : Fail(reason)
    BY DEF ConnectFails, OpenStreamFails, StreamFails
  <1> QED
    BY <1>1, <1>2, FailStep

LEMMA PipeWireOpenStep ==
  ASSUME PipeWireInv, OpenAudio
  PROVE  PipeWireInv' /\ [Backend!Next]_(Backend!vars)
  <1>1. /\ UNCHANGED <<call, last>> /\ worker.pc = "select"
        /\ events' \in {events, Sent(events, Note("Recovery"))}
        /\ \E gone : publisher' = [Reopened EXCEPT !.gone = gone]
        /\ \E note : worker' = [worker EXCEPT !.pc = "listen", !.told = note]
        /\ stream' = [stream EXCEPT !.opening = @ + 1, !.inputs = Heard, !.linked = {}]
    BY DEF OpenAudio, At, callerVars, consumerVars
  <1>2. /\ publisher'.seq = publisher.seq /\ publisher'.gap = TRUE
        /\ publisher'.pending = "Capturing" /\ stream'.opening = stream.opening + 1
    BY <1>1 DEF Reopened, PipeWireInv, PipeWireShape
  <1>3. PipeWireShape' /\ worker'.pc = "listen"
    BY <1>1 DEF Reopened, PipeWireInv, PipeWireShape, PipeWirePlaces
  <1>4. Quiet
    <2>1. Grown(events, events', Reports) /\ worker.pc \notin {"none", "ended"}
          /\ worker'.pc # "none"
      BY <1>1, <1>3, PipeWireNothingSent, SentRecovery
    <2>2. publisher'.gap /\ publisher'.gap \in BOOLEAN
      BY <1>2
    <2>3. publisher'.pending \in States /\ stream'.opening \in Nat
      BY <1>2 DEF States, PipeWireInv, ChannelInv, SplicesInv
    <2> QED
      BY <1>1, <1>2, <2>1, <2>2, <2>3 DEF Quiet
  <1> QED
    BY <1>3, <1>4, PipeWireGoesOn

LEMMA NoTargetStep ==
  ASSUME PipeWireInv, NoTarget
  PROVE  PipeWireInv' /\ [Backend!Next]_(Backend!vars)
  <1>1. UNCHANGED <<call, last>> /\ worker.pc = "select"
    BY DEF NoTarget, At, callerVars, consumerVars
  <1>2. CASE Unanswered
    <2>1. \E reason \in {"unavailable", "ambiguous"} : Fail(reason)
      BY <1>2 DEF NoTarget
    <2> QED
      BY <1>1, <2>1, FailStep
  <1>3. CASE ~Unanswered
    <2>1. /\ events' \in {events, Sent(events, Note("Recovery"))}
          /\ \E note : worker' = [worker EXCEPT !.pc = "listen", !.told = note]
          /\ publisher' = [publisher EXCEPT !.gone = ~connected]
          /\ stream' = Dropped
      BY <1>3 DEF NoTarget, Report
    <2>2. /\ PipeWireShape' /\ worker'.pc = "listen"
          /\ publisher'.seq = publisher.seq /\ publisher'.gap = publisher.gap
          /\ publisher'.pending = publisher.pending /\ stream'.opening = stream.opening
      BY <2>1 DEF Dropped, PipeWireInv, PipeWireShape, PipeWirePlaces
    <2>3. Quiet
      BY <1>1, <2>1, <2>2, PipeWireNothingSent, SentRecovery
         DEF Quiet, PipeWireInv, ChannelInv, SplicesInv
    <2> QED
      BY <2>2, <2>3, PipeWireGoesOn
  <1> QED
    BY <1>2, <1>3

LEMMA TickedStates ==
  ASSUME PipeWireInv, NEW state \in States
  PROVE  /\ Ticked(state).pending \in States
         /\ Grown(events, Ticked(state).queue, Reports)
  BY PipeWireNothingSent, StateFlushed, DropsReported, StateKept DEF Ticked

LEMMA ProcessStep ==
  ASSUME PipeWireInv, Process
  PROVE  PipeWireInv' /\ [Backend!Next]_(Backend!vars)
  <1>1. PICK signal \in BOOLEAN :
          LET ticked == Ticked(IF signal /\ publisher.quiet THEN "Capturing" ELSE publisher.pending)
              queue == Sent(ticked.queue, Frame(publisher.seq, publisher.gap, stream.opening))
              lost == queue = ticked.queue
          IN /\ events' = queue
             /\ publisher' = [seq |-> publisher.seq + 1, gap |-> lost, pending |-> ticked.pending,
                              quiet |-> publisher.quiet /\ ~signal,
                              unreported |-> lost \/ ticked.unreported, gone |-> ~connected]
    BY DEF Process
  <1> DEFINE state == IF signal /\ publisher.quiet THEN "Capturing" ELSE publisher.pending
             ticked == Ticked(state)
  <1>2. state \in States
    BY DEF States, PipeWireInv, ChannelInv, SplicesInv
  <1>3. ticked.pending \in States /\ Grown(events, ticked.queue, Reports)
    <2> HIDE DEF state
    <2> QED
      BY <1>2, TickedStates
  <1> HIDE DEF state
  <1>4. /\ events' = Sent(ticked.queue, Frame(publisher.seq, publisher.gap, stream.opening))
        /\ publisher'.seq = publisher.seq + 1 /\ publisher'.gap \in BOOLEAN
        /\ publisher'.pending = ticked.pending
        /\ publisher' = [seq |-> publisher'.seq, gap |-> publisher'.gap,
                         pending |-> publisher'.pending, quiet |-> publisher'.quiet,
                         unreported |-> publisher'.unreported, gone |-> publisher'.gone]
    <2> HIDE DEF ticked
    <2> QED
      BY <1>1 DEF state, ticked
  <1>5. UNCHANGED <<call, last, worker, stream>> /\ worker.pc = "listen"
    BY DEF Process, At, callerVars, consumerVars
  <1>6. PipeWireShape'
    BY <1>4, <1>5 DEF PipeWireInv, PipeWireShape
  <1>7. Packed
    BY <1>3, <1>4, <1>5 DEF Packed, Grown
  <1> QED
    BY <1>6, <1>7, PackedStep DEF PipeWireInv

LEMMA IteratedStep ==
  ASSUME PipeWireInv, Iterated
  PROVE  PipeWireInv' /\ [Backend!Next]_(Backend!vars)
  <1>1. /\ UNCHANGED <<call, last, stream>> /\ worker.pc = "listen"
        /\ \E note : worker' = [worker EXCEPT !.pc = "select", !.told = note]
    BY DEF Iterated, At, callerVars, consumerVars
  <1>2. PICK silent \in {FALSE, ~publisher.quiet} :
          LET ticked == Ticked(IF silent THEN "Waiting" ELSE publisher.pending)
          IN IF Active
               THEN /\ events' = ticked.queue
                    /\ publisher' = [publisher EXCEPT !.pending = ticked.pending,
                                       !.unreported = ticked.unreported,
                                       !.quiet = @ \/ silent, !.gone = ~connected]
               ELSE UNCHANGED <<events, publisher>>
    BY DEF Iterated
  <1> DEFINE state == IF silent THEN "Waiting" ELSE publisher.pending
             ticked == Ticked(state)
  <1>3. state \in States
    BY DEF States, PipeWireInv, ChannelInv, SplicesInv
  <1>4. ticked.pending \in States /\ Grown(events, ticked.queue, Reports)
    <2> HIDE DEF state
    <2> QED
      BY <1>3, TickedStates
  <1>5. \/ events' = ticked.queue /\ publisher' = [publisher EXCEPT !.pending = ticked.pending,
                                       !.unreported = ticked.unreported,
                                       !.quiet = @ \/ silent, !.gone = ~connected]
        \/ UNCHANGED <<events, publisher>>
    BY <1>2 DEF state, ticked
  <1> HIDE DEF ticked
  <1>6. /\ PipeWireShape' /\ worker'.pc = "select"
        /\ publisher'.seq = publisher.seq /\ publisher'.gap = publisher.gap
        /\ publisher'.pending \in {publisher.pending, ticked.pending}
    BY <1>1, <1>5 DEF PipeWireInv, PipeWireShape, PipeWirePlaces
  <1>7. Quiet
    BY <1>1, <1>4, <1>5, <1>6, PipeWireNothingSent DEF Quiet, PipeWireInv, ChannelInv, SplicesInv
  <1> QED
    BY <1>6, <1>7, PipeWireGoesOn

LEMMA PipeWireOtherStep ==
  ASSUME PipeWireInv, ChannelNext \/ GraphChanges \/ UNCHANGED audioVars
  PROVE  PipeWireInv' /\ [Backend!Next]_(Backend!vars)
  <1>1. UNCHANGED <<worker, publisher, stream>>
    BY DEF ChannelNext, AwaitReady, Stop, Join, Forward, Leave, GraphChanges, audioVars, workerVars
  <1>2. PipeWireShape'
    BY <1>1 DEF PipeWireInv, PipeWireShape
  <1>3. CASE ChannelNext
    BY <1>2, <1>3, ChannelStep DEF PipeWireInv
  <1>4. CASE GraphChanges \/ UNCHANGED audioVars
    <2>1. UNCHANGED <<call, events, last>>
      BY <1>4 DEF GraphChanges, audioVars, channelVars, callerVars, consumerVars
    <2>2. ChannelInv'
      BY <1>1, <2>1 DEF PipeWireInv, ChannelInv, PromiseInv, SplicesInv, SplicesAreVisible, Frames
    <2>3. UNCHANGED Backend!vars
      BY <1>1, <2>1 DEF Backend!vars
    <2> QED
      BY <1>2, <2>2, <2>3 DEF PipeWireInv
  <1> QED
    BY <1>3, <1>4

LEMMA PipeWireStep ==
  ASSUME PipeWireInv, [PipeWireNext]_audioVars
  PROVE  PipeWireInv' /\ [Backend!Next]_(Backend!vars)
  <1>1. CASE StartPipeWire
    BY <1>1, PipeWireStartStep
  <1>2. CASE PipeWireThread
    BY <1>2, FinishStep, GraphStep, PipeWireFailingStep, PipeWireOpenStep, NoTargetStep, IteratedStep DEF PipeWireThread
  <1>3. CASE Refresh \/ Hear \/ HearDefault \/ Link
    BY <1>3, GraphStep
  <1>4. CASE Process
    BY <1>4, ProcessStep
  <1>5. CASE ChannelNext \/ GraphChanges \/ UNCHANGED audioVars
    BY <1>5, PipeWireOtherStep
  <1> QED
    BY <1>1, <1>2, <1>3, <1>4, <1>5 DEF PipeWireNext

-----------------------------------------------------------------------------
(* Theorems                                                                 *)

\* The invariant of the capture thread and its channel.
THEOREM LinuxInvariant == PipeWireSpec => []PipeWireInv
  <1>1. PipeWireInit => PipeWireInv
    BY PipeWireStarts
  <1>2. PipeWireInv /\ [PipeWireNext]_audioVars => PipeWireInv'
    BY PipeWireStep
  <1> QED
    BY <1>1, <1>2, PTL DEF PipeWireSpec

\* What was lost in a full channel or between two openings of the stream is never
\* joined up as if nothing were missing.
THEOREM LinuxSplicesAreVisible == PipeWireSpec => []SplicesAreVisible
  <1>1. PipeWireInv => SplicesAreVisible
    BY DEF PipeWireInv, ChannelInv, SplicesInv
  <1> QED
    BY <1>1, LinuxInvariant, PTL

\* The capture thread of crates/audio-pipewire, with the calls that start and stop
\* it, keeps what AudioBackend promises.
THEOREM LinuxKeepsThePromise == PipeWireSpec => BackendPromise
  <1>1. PipeWireInit => Backend!Init
    BY PipeWireStarts
  <1>2. PipeWireInv /\ [PipeWireNext]_audioVars => [Backend!Next]_(Backend!vars)
    BY PipeWireStep
  <1> QED
    BY <1>1, <1>2, LinuxInvariant, PTL DEF PipeWireSpec, BackendPromise, Backend!Spec

-----------------------------------------------------------------------------
(* Reading                                                                  *)

\* A scanner is a record, its areas a function on the places, an area a record.
AreaFields == {"bounds", "line", "dirty", "last", "hadText"}
IsArea(r) == r = [f \in AreaFields |-> r[f]] /\ r.dirty \in BOOLEAN

IsScanner(s) ==
  /\ s = [previous |-> s.previous, odd |-> s.odd, regions |-> s.regions]
  /\ s.regions = [p \in Places |-> s.regions[p]]
  /\ \A p \in Places : IsArea(s.regions[p])

\* CacheIsCurrent, of a scanner.
LineIsCurrent(r, image, p) ==
  /\ r.line # Nothing => r.line = image[p].text
  /\ image # NoImage /\ ~r.dirty => r.line = image[p].text

IsCurrent(s) == \A p \in Places : LineIsCurrent(s.regions[p], s.previous, p)

\* Once cancel() has returned, the token of no pass is live.
CancelIsSeen == cancel = "done" => token # "live"

ReadingInv == IsScanner(scanner) /\ IsCurrent(scanner) /\ CancelIsSeen

-----------------------------------------------------------------------------
LEMMA NewScannerIsCurrent == IsScanner(NewScanner) /\ IsCurrent(NewScanner)
  BY DEF IsScanner, IsCurrent, LineIsCurrent, IsArea, AreaFields, NewScanner, NewRegion, NoImage

\* What prepare keeps of an area, it has compared with the frame before.
LEMMA PreparedIsCurrent ==
  ASSUME IsScanner(scanner), IsCurrent(scanner), NEW image
  PROVE  IsScanner(Prepared(image)) /\ IsCurrent(Prepared(image))
  <1> DEFINE KeptRegions(p) == ~(scanner.previous = NoImage \/ Bounds(p, image) # Aged(p).bounds)
             Old(p) == [Aged(p) EXCEPT
                          !.dirty = @ \/ image[p] # scanner.previous[p],
                          !.line = IF image[p].text = scanner.previous[p].text THEN @ ELSE Nothing]
             New(p) == Prepared(image).regions[p]
  <1>1. Prepared(image) = [previous |-> image, odd |-> ~scanner.odd, regions |-> Prepared(image).regions]
        /\ Prepared(image).regions = [p \in Places |-> New(p)]
    BY DEF Prepared
  <1>2. ASSUME NEW p \in Places
        PROVE  IsArea(New(p)) /\ LineIsCurrent(New(p), image, p)
    <2> DEFINE r == scanner.regions[p]
    <2>1. CASE ~KeptRegions(p)
      <3>1. New(p) = NewRegion(Bounds(p, image))
        BY <2>1 DEF Prepared
      <3> QED
        BY <3>1 DEF NewRegion, IsArea, AreaFields, LineIsCurrent
    <2>2. CASE KeptRegions(p)
      <3>1. New(p) = Old(p) /\ scanner.previous # NoImage
        BY <2>2 DEF Prepared
      <3>2. IsArea(r) /\ LineIsCurrent(r, scanner.previous, p)
        BY DEF IsScanner, IsCurrent
      <3> DEFINE dirty == Aged(p).dirty \/ image[p] # scanner.previous[p]
                 line == IF image[p].text = scanner.previous[p].text THEN Aged(p).line ELSE Nothing
      <3>3. IsArea(Aged(p)) /\ Aged(p).dirty = r.dirty /\ Aged(p).line = r.line
        <4> DEFINE rank == Rank(r.last)
        <4>1. Aged(p) = [r EXCEPT !.last = rank]
          BY DEF Aged
        <4> HIDE DEF rank, r
        <4> QED
          BY <3>2, <4>1 DEF IsArea, AreaFields
      <3>4. Old(p) = [Aged(p) EXCEPT !.dirty = dirty, !.line = line]
        OBVIOUS
      <3>5. IsArea(Old(p)) /\ Old(p).dirty = dirty /\ Old(p).line = line
        <4>1. dirty \in BOOLEAN
          BY <3>2, <3>3 DEF IsArea
        <4> HIDE DEF dirty, line, Old
        <4> QED
          BY <3>3, <3>4, <4>1 DEF IsArea, AreaFields
      <3>6. dirty = (r.dirty \/ image[p] # scanner.previous[p])
            /\ line = IF image[p].text = scanner.previous[p].text THEN r.line ELSE Nothing
        BY <3>3
      <3> HIDE DEF dirty, line, Old, New, r
      <3> QED
        BY <3>1, <3>2, <3>5, <3>6 DEF LineIsCurrent, IsArea
    <2> QED
      BY <2>1, <2>2
  <1> QED
    BY <1>1, <1>2 DEF IsScanner, IsCurrent

\* An area that was read has the line of the frame that was prepared.
LEMMA CompletedIsCurrent ==
  ASSUME IsScanner(scanner), IsCurrent(scanner), NEW a
  PROVE  IsScanner(Completed(a)) /\ IsCurrent(Completed(a))
  <1> DEFINE text == scanner.previous[a].text
             read == [bounds |-> scanner.regions[a].bounds, line |-> text, dirty |-> FALSE,
                      last |-> ThisPass, hadText |-> text # Nothing]
             regions == [scanner.regions EXCEPT ![a] = read]
  <1>1. Completed(a) = [scanner EXCEPT !.regions = regions]
    BY DEF Completed
  <1>2. regions = [p \in Places |-> IF p = a THEN read ELSE scanner.regions[p]]
    BY DEF IsScanner
  <1>3. Completed(a) = [previous |-> scanner.previous, odd |-> scanner.odd, regions |-> regions]
    <2> HIDE DEF regions
    <2> QED
      BY <1>1 DEF IsScanner
  <1>4. IsArea(read) /\ LineIsCurrent(read, scanner.previous, a)
    BY DEF IsArea, AreaFields, LineIsCurrent
  <1>5. \A p \in Places : IsArea(regions[p]) /\ LineIsCurrent(regions[p], scanner.previous, p)
    <2> HIDE DEF read, regions
    <2> QED
      BY <1>2, <1>4 DEF IsScanner, IsCurrent
  <1> HIDE DEF regions, read
  <1> QED
    BY <1>2, <1>3, <1>5 DEF IsScanner, IsCurrent

LEMMA ReadingInvInit == ReadingInit => ReadingInv
  BY NewScannerIsCurrent DEF ReadingInit, ReadingInv, CancelIsSeen

LEMMA ReadingInvStep == ReadingInv /\ [ReadingNext]_readingVars => ReadingInv'
  <1> SUFFICES ASSUME ReadingInv, [ReadingNext]_readingVars PROVE ReadingInv'
    OBVIOUS
  <1>1. scanner' \in {scanner, NewScanner, Prepared(processor.frame), Completed(Head(processor.work))}
    BY DEF ReadingNext, readingVars, ScreenChanges, Processor, CancelPass, Sample, Begin, ScanArea, EndPass, Deliver, LeaveReading
  <1>2. IsScanner(scanner') /\ IsCurrent(scanner')
    BY <1>1, NewScannerIsCurrent, PreparedIsCurrent, CompletedIsCurrent DEF ReadingInv
  <1>3. CancelIsSeen'
    <2>1. CASE CancelPass
      BY <2>1 DEF CancelPass, CancelIsSeen
    <2>2. CASE ~CancelPass
      <3>1. cancel' = cancel /\ (token' \in {token, "none", "cancelled"} \/ cancel = "none")
        BY <2>2 DEF ReadingNext, readingVars, ScreenChanges, Processor, Sample, Begin, ScanArea, EndPass, Deliver, LeaveReading
      <3> QED
        BY <3>1 DEF ReadingInv, CancelIsSeen
    <2> QED
      BY <2>1, <2>2
  <1> QED
    BY <1>2, <1>3 DEF ReadingInv

\* The strengthened invariant holds of every behaviour.
THEOREM ReadingInvariant == ReadingSpec => []ReadingInv
  <1> QED
    BY ReadingInvInit, ReadingInvStep, PTL DEF ReadingSpec

\* No pass goes on with text of pixels that are gone, for any number of areas and
\* contents, in whatever order the areas are read and passes are cut short.
THEOREM CacheIsAlwaysCurrent == ReadingSpec => []CacheIsCurrent
  <1>1. ReadingInv => CacheIsCurrent
    BY DEF ReadingInv, IsCurrent, LineIsCurrent, CacheIsCurrent
  <1> QED
    BY <1>1, ReadingInvariant, PTL

\* cancel() ends reading, wherever it meets a pass that begins or goes on.
THEOREM CancelEndsReading == ReadingSpec => NothingIsReadAfterCancel
  <1>1. ReadingInv /\ [ReadingNext]_readingVars => [cancel = "done" => ~ScanArea]_readingVars
    BY DEF ReadingInv, CancelIsSeen, ScanArea
  <1> QED
    BY <1>1, ReadingInvariant, PTL DEF ReadingSpec, NothingIsReadAfterCancel

-----------------------------------------------------------------------------
(* Sharing                                                                  *)

Kinds == {"Selected", "FormatChanged"} \cup Terminals
Events == [kind : Kinds, geometry : Int]
PortalPlaces == Requests \cup
  {"connect", "streaming", "joining", "closing", "disconnect", "reporting", "ended"}

Outcomes == Terminals \cup {"none"}
Portals == [pc : PortalPlaces, result : Outcomes, noticed : BOOLEAN]
VideoPlaces == {"none", "opening", "running", "sending", "replacing", "ended"}
Formats == {"none", "memory", "gpu"}
Videos == [pc : VideoPlaces, outcome : Outcomes, format : Formats, announced : Int, waited : Int]

TypeInv ==
  /\ portal \in Portals /\ video \in Videos
  /\ forwarder \in [pc : {"none", "choose", "drain", "over"}, closed : BOOLEAN]
  /\ app \in {"geometry", "checking", "receiving", "drawing", "drawn", "forwarding", "stopping",
              "joining", "dropping", "over"}
  /\ {frame, slot, held} \subseteq [n : Nat, geometry : Int]
  /\ geometry \in Int /\ revoked \in {"no", "Closed", "Failed"} /\ region \in BOOLEAN
  /\ eventQueue \in Seq(Events)

\* The portal thread outlives the video thread, and ends the sharing.
Unshared == portal.pc \in {"reporting", "ended"}
ThreadsInv ==
  /\ portal.pc \in {"connect"} \cup Requests => video.pc = "none" /\ eventQueue = <<>>
  /\ portal.pc \in {"closing", "disconnect", "reporting", "ended"} =>
       video.pc \in {"none", "ended"} /\ portal.result # "none"
  /\ Unshared => sharing = "no" /\ slot = NoFrame
  /\ video.pc = "none" => frame = NoFrame /\ video.announced = NoGeometry
  /\ video.pc \in {"sending", "replacing"} => video.announced # NoGeometry
  /\ video.pc = "ended" => video.outcome # "none"
  /\ portal.noticed => revoked # "no"

\* The startup worker starts the forwarder and waits for both threads.
AppInv ==
  /\ forwarder.pc # "none" <=> \/ app \in {"forwarding", "stopping", "joining"}
                               \/ app = "over" /\ forwarder.pc = "over"
  /\ app \in {"joining", "over"} => portal.pc = "ended"
  /\ app = "over" => forwarder.pc \in {"none", "over"}
  /\ forwarder.pc = "none" => output.frame = NoFrame

\* Announcements differ from the one before, nothing follows the end, and the
\* stream was selected before all.
IsFormat(i) == eventQueue[i].kind = "FormatChanged"
EventsInv ==
  /\ \A i \in 1..Len(eventQueue) :
       /\ eventQueue[i].kind = "Selected" => i = 1
       /\ eventQueue[i].kind \in Terminals => i = Len(eventQueue) /\ portal.pc = "ended"
       /\ IsFormat(i) /\ i = Len(eventQueue) => eventQueue[i].geometry = video.announced
       /\ IsFormat(i) /\ i < Len(eventQueue) /\ IsFormat(i + 1) => eventQueue[i].geometry # eventQueue[i + 1].geometry
  /\ frame.geometry = video.announced

\* Who reads frames has seen each geometry, or the queue will surprise it.
Reading == app \in {"checking", "receiving", "drawing", "drawn"} \/ forwarder.pc \in {"choose", "drain"}
AllAre(g) == \A f \in {slot, held, frame} : f # NoFrame => f.geometry = g
OnlyAnnounced(g) == \A i \in 1..Len(eventQueue) : IsFormat(i) => eventQueue[i].geometry = g

GeometryInv ==
  /\ app = "geometry" =>
       /\ geometry = NoGeometry
       /\ \A g \in Int : OnlyAnnounced(g) /\ (\E i \in 1..Len(eventQueue) : IsFormat(i))
            => AllAre(g) /\ video.announced = g
       /\ (\A i \in 1..Len(eventQueue) : ~IsFormat(i))
            => slot = NoFrame /\ held = NoFrame /\ video.announced = NoGeometry
  /\ region /\ Reading /\ ~Surprised => AllAre(geometry) /\ video.announced = geometry

DrawnInv ==
  /\ app = "drawing" => held # NoFrame
  /\ region =>
       /\ app = "drawn" => held # NoFrame /\ held.geometry = drawn
       /\ forwarder.pc \in {"choose", "drain"} => geometry = drawn
       /\ output.frame # NoFrame => output.frame.geometry = drawn /\ output.under = drawn
  /\ output.frame # NoFrame => Size[output.frame.geometry] = Size[output.under]

CaptureInv == TypeInv /\ ThreadsInv /\ AppInv /\ EventsInv /\ GeometryInv /\ DrawnInv

-----------------------------------------------------------------------------
LEMMA EventsTail ==
  ASSUME TypeInv, eventQueue # <<>>
  PROVE  /\ Head(eventQueue) \in Events /\ Head(eventQueue) = eventQueue[1]
         /\ Tail(eventQueue) \in Seq(Events)
         /\ Len(eventQueue) \in Nat \ {0} /\ Len(Tail(eventQueue)) = Len(eventQueue) - 1
         /\ \A i \in 1..Len(Tail(eventQueue)) : Tail(eventQueue)[i] = eventQueue[i + 1]
  <1>1. eventQueue \in Seq(Events)
    BY DEF TypeInv
  <1>2. Len(eventQueue) \in Nat \ {0} /\ Head(eventQueue) = eventQueue[1]
    BY <1>1, EmptySeq
  <1> QED
    BY <1>1, <1>2, HeadTailProperties

LEMMA EventsAppend ==
  ASSUME TypeInv, NEW e \in Events
  PROVE  /\ Append(eventQueue, e) \in Seq(Events)
         /\ Len(eventQueue) \in Nat /\ Len(Append(eventQueue, e)) = Len(eventQueue) + 1
         /\ Append(eventQueue, e)[Len(eventQueue) + 1] = e
         /\ \A i \in 1..Len(eventQueue) : Append(eventQueue, e)[i] = eventQueue[i] /\ eventQueue[i] \in Events
  BY DEF TypeInv

LEMMA SourceGeometry ==
  ASSUME TypeInv, frame.n < MaxFrames, NEW g \in Source[frame.n + 1]
  PROVE  g \in Int /\ g # NoGeometry
  <1>1. frame.n \in Nat
    BY DEF TypeInv
  <1>2. frame.n + 1 \in 1..Len(Source)
    BY <1>1, CaptureBounds DEF MaxFrames
  <1> QED
    BY <1>2, ElementOfSeq, CaptureBounds DEF NoGeometry

LEMMA EndWorkTypes ==
  ASSUME TypeInv, ThreadsInv, NEW result \in Terminals, EndWork(result)
  PROVE  portal' \in Portals
  <1> DEFINE pc == IF portal.pc = "connect" THEN "disconnect" ELSE "closing"
             end == IF portal.noticed THEN revoked ELSE result
  <1>1. pc \in PortalPlaces
    BY DEF PortalPlaces
  <1>2. end \in Outcomes
    BY DEF Outcomes, Terminals, TypeInv, ThreadsInv
  <1>3. portal' = [portal EXCEPT !.pc = pc, !.result = end]
    BY DEF EndWork
  <1> HIDE DEF pc, end
  <1> QED
    BY <1>1, <1>2, <1>3 DEF TypeInv, Portals

LEMMA EndedTypes ==
  ASSUME TypeInv, NEW outcome \in Terminals
  PROVE  Ended(outcome) \in Videos
  <1>1. outcome \in Outcomes /\ "ended" \in VideoPlaces /\ "none" \in Formats /\ -1 \in Int
    BY DEF Outcomes, VideoPlaces, Formats
  <1> QED
    BY <1>1 DEF TypeInv, Videos, Ended, Idle

LEMMA PortalTypes ==
  ASSUME TypeInv, NEW pc \in PortalPlaces
  PROVE  /\ [portal EXCEPT !.pc = pc] \in Portals
         /\ [portal EXCEPT !.noticed = TRUE] \in Portals
  BY DEF TypeInv, Portals

LEMMA TypeStep ==
  ASSUME TypeInv, ThreadsInv, [Next]_vars
  PROVE  TypeInv'
  <1>1. CASE Answer
    BY <1>1 DEF Answer, Requests, flags, portalVars, videoVars, appVars, TypeInv
  <1>2. CASE Revoke
    BY <1>2 DEF Revoke, flags, portalVars, videoVars, appVars, TypeInv
  <1>3. CASE Connect
    <2>1. portal' \in Portals
      BY <1>3, EndWorkTypes, PortalTypes DEF Connect, PortalPlaces, Terminals, Requests,
         ThreadsInv, TypeInv, Videos, Outcomes
    <2> QED
      BY <1>3, <2>1 DEF Connect, flags, portalVars, videoVars, appVars, TypeInv
  <1>4. CASE Proceed
    <2>1. Event("Selected") \in Events
      BY DEF Event, Events, Kinds, NoGeometry
    <2>2. eventQueue' \in Seq(Events)
      <3>1. eventQueue' = eventQueue \/ eventQueue' = Append(eventQueue, Event("Selected"))
        BY <1>4 DEF Proceed
      <3> HIDE DEF Event
      <3> QED
        BY <2>1, <3>1, EventsAppend DEF TypeInv
    <2>3. portal' \in Portals
      BY <1>4, PortalTypes DEF Proceed, Following, Requests, PortalPlaces
    <2>4. video' \in Videos
      <3>1. video' = video \/ video' = [video EXCEPT !.pc = "opening"]
        BY <1>4 DEF Proceed
      <3>2. [video EXCEPT !.pc = "opening"] \in Videos
        BY DEF TypeInv, Videos, VideoPlaces
      <3> QED
        BY <3>1, <3>2 DEF TypeInv
    <2> QED
      BY <1>4, <2>2, <2>3, <2>4 DEF Proceed, flags, portalVars, videoVars, appVars, TypeInv
  <1>5. CASE Refused
    <2>1. portal' \in Portals
      BY <1>5, EndWorkTypes, PortalTypes DEF Refused, PortalPlaces, Terminals, Requests,
         ThreadsInv, TypeInv, Videos, Outcomes
    <2> QED
      BY <1>5, <2>1 DEF Refused, flags, portalVars, videoVars, appVars, TypeInv
  <1>6. CASE CancelRequest
    <2>1. portal' \in Portals
      BY <1>6, EndWorkTypes, PortalTypes DEF CancelRequest, PortalPlaces, Terminals, Requests,
         ThreadsInv, TypeInv, Videos, Outcomes
    <2> QED
      BY <1>6, <2>1 DEF CancelRequest, flags, portalVars, videoVars, appVars, TypeInv
  <1>7. CASE Notice
    <2>1. portal' \in Portals
      BY <1>7, EndWorkTypes, PortalTypes DEF Notice, PortalPlaces, Terminals, Requests,
         ThreadsInv, TypeInv, Videos, Outcomes
    <2> QED
      BY <1>7, <2>1 DEF Notice, flags, portalVars, videoVars, appVars, TypeInv
  <1>8. CASE Watch
    <2>1. portal' \in Portals
      BY <1>8, EndWorkTypes, PortalTypes DEF Watch, PortalPlaces, Terminals, Requests,
         ThreadsInv, TypeInv, Videos, Outcomes
    <2> QED
      BY <1>8, <2>1 DEF Watch, flags, portalVars, videoVars, appVars, TypeInv
  <1>9. CASE JoinVideo
    <2>1. portal' \in Portals
      BY <1>9, EndWorkTypes, PortalTypes DEF JoinVideo, PortalPlaces, Terminals, Requests,
         ThreadsInv, TypeInv, Videos, Outcomes
    <2> QED
      BY <1>9, <2>1 DEF JoinVideo, flags, portalVars, videoVars, appVars, TypeInv
  <1>10. CASE CloseSession
    <2>1. portal' \in Portals
      BY <1>10, EndWorkTypes, PortalTypes DEF CloseSession, PortalPlaces, Terminals, Requests,
         ThreadsInv, TypeInv, Videos, Outcomes
    <2> QED
      BY <1>10, <2>1 DEF CloseSession, flags, portalVars, videoVars, appVars, TypeInv
  <1>11. CASE Disconnect
    <2>1. portal' \in Portals
      BY <1>11, EndWorkTypes, PortalTypes DEF Disconnect, NoFrame, NoGeometry, PortalPlaces,
         Terminals, Requests, ThreadsInv, TypeInv, Videos, Outcomes
    <2> QED
      BY <1>11, <2>1 DEF Disconnect, NoFrame, NoGeometry, flags, portalVars, videoVars,
         appVars, TypeInv
  <1>12. CASE ReportEnd
    <2>1. eventQueue' \in Seq(Events)
      <3>1. CASE Len(eventQueue) >= EventCap
        <4>1. eventQueue # <<>>
          BY <3>1, EmptySeq, CaptureBounds
        <4> QED
          BY <1>12, <3>1, <4>1, EventsTail DEF ReportEnd
      <3>2. CASE ~(Len(eventQueue) >= EventCap)
        <4>1. Event(portal.result) \in Events
          BY <1>12 DEF ReportEnd, Event, Events, Kinds, NoGeometry, ThreadsInv, TypeInv,
             Portals, Outcomes, Terminals
        <4> QED
          BY <1>12, <3>2, <4>1, EventsAppend DEF ReportEnd
      <3> QED
        BY <3>1, <3>2
    <2>2. portal' \in Portals
      BY <1>12, PortalTypes DEF ReportEnd, PortalPlaces, TypeInv
    <2> QED
      BY <1>12, <2>1, <2>2 DEF ReportEnd, flags, portalVars, videoVars, appVars, TypeInv
  <1>13. CASE OpenStream
    <2>1. video' \in {[video EXCEPT !.pc = "running", !.waited = 0], Ended("Cancelled"), Ended("Failed")}
      BY <1>13 DEF OpenStream, OnlyVideo
    <2> DEFINE pc == "running"
               n == 0
    <2>2. pc \in VideoPlaces /\ n \in Int
      BY DEF VideoPlaces
    <2>3. [video EXCEPT !.pc = pc, !.waited = n] \in Videos
      <3> HIDE DEF pc, n
      <3> QED
        BY <2>2 DEF TypeInv, Videos
    <2>5. video' \in Videos
      BY <2>1, <2>3, EndedTypes DEF Terminals
    <2> QED
      BY <1>13, <2>5 DEF OpenStream, OnlyVideo, flags, portalVars, videoVars, appVars, TypeInv
  <1>14. CASE NegotiateFormat
    <2>1. video' = Ended("Failed") \/ \E format \in {"none", "memory", "gpu"} : \E n \in {0, video.waited} :
            video' = [video EXCEPT !.format = format, !.waited = n]
      BY <1>14 DEF NegotiateFormat, OnlyVideo
    <2>3. ASSUME NEW format \in {"none", "memory", "gpu"}, NEW n \in {0, video.waited}
          PROVE  [video EXCEPT !.format = format, !.waited = n] \in Videos
      <3>1. format \in Formats /\ n \in Int
        BY DEF Formats, TypeInv, Videos
      <3> QED
        BY <3>1 DEF TypeInv, Videos
    <2>5. video' \in Videos
      BY <2>1, <2>3, EndedTypes DEF Terminals
    <2> QED
      BY <1>14, <2>5 DEF NegotiateFormat, OnlyVideo, flags, portalVars, videoVars, appVars,
         TypeInv
  <1>15. CASE FailedImport
    <2>1. video' \in {[video EXCEPT !.format = "none", !.waited = 0], Ended("Cancelled")}
      BY <1>15 DEF FailedImport, FallBack, OnlyVideo
    <2> DEFINE format == "none"
               n == 0
    <2>2. format \in Formats /\ n \in Int
      BY DEF Formats
    <2>3. [video EXCEPT !.format = format, !.waited = n] \in Videos
      <3> HIDE DEF format, n
      <3> QED
        BY <2>2 DEF TypeInv, Videos
    <2>5. video' \in Videos
      BY <2>1, <2>3, EndedTypes DEF Terminals
    <2> QED
      BY <1>15, <2>5 DEF FailedImport, FallBack, OnlyVideo, flags, portalVars, videoVars,
         appVars, TypeInv
  <1>16. CASE ReadBuffer
    <2>1. PICK g \in Source[frame.n + 1] :
            IF g # video.announced /\ Len(eventQueue) >= EventCap
            THEN video' = Ended("Failed") /\ UNCHANGED <<eventQueue, frame>>
            ELSE /\ eventQueue' = IF g = video.announced THEN eventQueue ELSE Append(eventQueue, FormatChanged(g))
                 /\ video' = [video EXCEPT !.pc = "sending", !.announced = g]
                 /\ frame' = [n |-> frame.n + 1, geometry |-> g]
      BY <1>16 DEF ReadBuffer
    <2>2. g \in Int
      BY <1>16, <2>1, SourceGeometry DEF ReadBuffer
    <2>3. FormatChanged(g) \in Events
      BY <2>2 DEF FormatChanged, Events, Kinds
    <2>4. eventQueue' \in Seq(Events)
      <3>1. eventQueue' = eventQueue \/ eventQueue' = Append(eventQueue, FormatChanged(g))
        BY <2>1
      <3> HIDE DEF FormatChanged
      <3> QED
        BY <2>3, <3>1, EventsAppend DEF TypeInv
    <2>5. video' \in Videos
      <3>1. video' = Ended("Failed") \/ video' = [video EXCEPT !.pc = "sending", !.announced = g]
        BY <2>1
      <3>2. [video EXCEPT !.pc = "sending", !.announced = g] \in Videos
        BY <2>2 DEF TypeInv, Videos, VideoPlaces
      <3> QED
        BY <3>1, <3>2, EndedTypes DEF Terminals
    <2>6. frame' \in [n : Nat, geometry : Int]
      BY <2>1, <2>2 DEF TypeInv
    <2> QED
      BY <1>16, <2>4, <2>5, <2>6 DEF ReadBuffer, flags, portalVars, videoVars, appVars, TypeInv
  <1>17. CASE SendFrame
    <2>1. video' \in {[video EXCEPT !.pc = "replacing"], [video EXCEPT !.pc = "running", !.waited = -1]}
      BY <1>17 DEF SendFrame, Idle
    <2> DEFINE pc == "running"
               n == -1
    <2>2. pc \in VideoPlaces /\ n \in Int
      BY DEF VideoPlaces
    <2>3. [video EXCEPT !.pc = pc, !.waited = n] \in Videos
      <3> HIDE DEF pc, n
      <3> QED
        BY <2>2 DEF TypeInv, Videos
    <2>4. [video EXCEPT !.pc = "replacing"] \in Videos
      BY DEF TypeInv, Videos, VideoPlaces
    <2>5. video' \in Videos
      BY <2>1, <2>3, <2>4, EndedTypes DEF Terminals
    <2> QED
      BY <1>17, <2>5 DEF SendFrame, Idle, flags, portalVars, videoVars, appVars, TypeInv
  <1>18. CASE LeaveLoop
    <2>1. video' \in {Ended("Closed"), Ended("Failed")}
      BY <1>18 DEF LeaveLoop, OnlyVideo
    <2>5. video' \in Videos
      BY <2>1, EndedTypes DEF Terminals
    <2> QED
      BY <1>18, <2>5 DEF LeaveLoop, OnlyVideo, flags, portalVars, videoVars, appVars, TypeInv
  <1>19. CASE WaitForFrame
    <2>1. video' = [video EXCEPT !.waited = video.waited + 1] \/ video' = Ended("Failed")
      BY <1>19 DEF WaitForFrame, OnlyVideo
    <2>3. [video EXCEPT !.waited = video.waited + 1] \in Videos
      BY DEF TypeInv, Videos
    <2>5. video' \in Videos
      BY <2>1, <2>3, EndedTypes DEF Terminals
    <2> QED
      BY <1>19, <2>5 DEF WaitForFrame, OnlyVideo, flags, portalVars, videoVars, appVars, TypeInv
  <1>20. CASE WaitForGeometry
    BY <1>20, EventsTail DEF WaitForGeometry, OnlyApp, Events, flags, portalVars, videoVars,
       appVars, TypeInv
  <1>21. CASE CheckStartup
    BY <1>21, EmptySeq DEF CheckStartup, OnlyApp, flags, portalVars, videoVars, appVars, TypeInv
  <1>22. CASE ReceiveFirst
    BY <1>22 DEF ReceiveFirst, OnlyApp, NoFrame, NoGeometry, flags, portalVars, videoVars,
       appVars, TypeInv
  <1>23. CASE DrawRegion
    BY <1>23 DEF DrawRegion, OnlyApp, flags, portalVars, videoVars, appVars, TypeInv
  <1>24. CASE AbandonStartup
    BY <1>24, EmptySeq DEF AbandonStartup, GiveUp, flags, portalVars, videoVars, appVars,
       TypeInv
  <1>25. CASE DismissRegion
    BY <1>25, EmptySeq DEF DismissRegion, GiveUp, flags, portalVars, videoVars, appVars, TypeInv
  <1>26. CASE ChooseFrame
    BY <1>26 DEF ChooseFrame, OnlyForwarder, NoFrame, NoGeometry, flags, portalVars, videoVars,
       appVars, TypeInv
  <1>27. CASE DrainEvent
    BY <1>27, EventsTail DEF DrainEvent, OnlyForwarder, EndForwarding, Events, flags,
       portalVars, videoVars, appVars, TypeInv
  <1>28. CASE ForwardFrame
    BY <1>28 DEF ForwardFrame, OnlyForwarder, EndForwarding, NoFrame, NoGeometry, flags,
       portalVars, videoVars, appVars, TypeInv
  <1>29. CASE QuitForwarding
    BY <1>29 DEF QuitForwarding, OnlyForwarder, flags, portalVars, videoVars, appVars, TypeInv
  <1>30. CASE Cancel
    BY <1>30 DEF Cancel, flags, portalVars, videoVars, appVars, TypeInv
  <1>31. CASE TakeEvent
    BY <1>31 DEF TakeEvent, OnlyApp, flags, portalVars, videoVars, appVars, TypeInv
  <1>32. CASE Release
    BY <1>32 DEF Release, flags, portalVars, videoVars, appVars, TypeInv
  <1>33. CASE JoinPortal
    BY <1>33 DEF JoinPortal, OnlyApp, NoFrame, NoGeometry, flags, portalVars, videoVars,
       appVars, TypeInv
  <1>34. CASE JoinForwarder
    BY <1>34 DEF JoinForwarder, OnlyApp, flags, portalVars, videoVars, appVars, TypeInv
  <1>35. CASE UNCHANGED vars
    BY <1>35 DEF vars, flags, portalVars, videoVars, appVars, TypeInv
  <1> QED
    BY <1>1, <1>2, <1>3, <1>4, <1>5, <1>6, <1>7, <1>8, <1>9, <1>10, <1>11, <1>12, <1>13, <1>14,
       <1>15, <1>16, <1>17, <1>18, <1>19, <1>20, <1>21, <1>22, <1>23, <1>24, <1>25, <1>26,
       <1>27, <1>28, <1>29, <1>30, <1>31, <1>32, <1>33, <1>34, <1>35
       DEF Next, PortalStep, StartupStep, ForwarderStep, ReleaseStep

LEMMA ThreadsStep ==
  ASSUME TypeInv, ThreadsInv, [Next]_vars
  PROVE  ThreadsInv'
  <1>1. CASE Answer
    BY <1>1 DEF Answer, Requests, flags, portalVars, videoVars, appVars, TypeInv, Portals,
       PortalPlaces, Videos, VideoPlaces, Outcomes, Terminals, ThreadsInv, Unshared, Requests
  <1>2. CASE Revoke
    BY <1>2 DEF Revoke, flags, portalVars, videoVars, appVars, TypeInv, Portals, PortalPlaces,
       Videos, VideoPlaces, Outcomes, Terminals, ThreadsInv, Unshared, Requests
  <1>3. CASE Connect
    BY <1>3 DEF Connect, EndWork, flags, portalVars, videoVars, appVars, TypeInv, Portals,
       PortalPlaces, Videos, VideoPlaces, Outcomes, Terminals, ThreadsInv, Unshared, Requests
  <1>4. CASE Proceed
    BY <1>4 DEF Proceed, Following, Event, Requests, flags, portalVars, videoVars, appVars,
       TypeInv, Portals, PortalPlaces, Videos, VideoPlaces, Outcomes, Terminals, ThreadsInv,
       Unshared, Requests
  <1>5. CASE Refused
    BY <1>5 DEF Refused, EndWork, Requests, flags, portalVars, videoVars, appVars, TypeInv,
       Portals, PortalPlaces, Videos, VideoPlaces, Outcomes, Terminals, ThreadsInv, Unshared,
       Requests
  <1>6. CASE CancelRequest
    BY <1>6 DEF CancelRequest, EndWork, Requests, flags, portalVars, videoVars, appVars,
       TypeInv, Portals, PortalPlaces, Videos, VideoPlaces, Outcomes, Terminals, ThreadsInv,
       Unshared, Requests
  <1>7. CASE Notice
    BY <1>7 DEF Notice, flags, portalVars, videoVars, appVars, TypeInv, Portals, PortalPlaces,
       Videos, VideoPlaces, Outcomes, Terminals, ThreadsInv, Unshared, Requests
  <1>8. CASE Watch
    BY <1>8 DEF Watch, flags, portalVars, videoVars, appVars, TypeInv, Portals, PortalPlaces,
       Videos, VideoPlaces, Outcomes, Terminals, ThreadsInv, Unshared, Requests
  <1>9. CASE JoinVideo
    BY <1>9 DEF JoinVideo, EndWork, flags, portalVars, videoVars, appVars, TypeInv, Portals,
       PortalPlaces, Videos, VideoPlaces, Outcomes, Terminals, ThreadsInv, Unshared, Requests
  <1>10. CASE CloseSession
    BY <1>10 DEF CloseSession, flags, portalVars, videoVars, appVars, TypeInv, Portals,
       PortalPlaces, Videos, VideoPlaces, Outcomes, Terminals, ThreadsInv, Unshared, Requests
  <1>11. CASE Disconnect
    BY <1>11 DEF Disconnect, NoFrame, flags, portalVars, videoVars, appVars, TypeInv, Portals,
       PortalPlaces, Videos, VideoPlaces, Outcomes, Terminals, ThreadsInv, Unshared, Requests
  <1>12. CASE ReportEnd
    BY <1>12 DEF ReportEnd, Event, flags, portalVars, videoVars, appVars, TypeInv, Portals,
       PortalPlaces, Videos, VideoPlaces, Outcomes, Terminals, ThreadsInv, Unshared, Requests
  <1>13. CASE OpenStream
    BY <1>13 DEF OpenStream, OnlyVideo, Ended, Idle, flags, portalVars, videoVars, appVars,
       TypeInv, Portals, PortalPlaces, Videos, VideoPlaces, Outcomes, Terminals, ThreadsInv,
       Unshared, Requests
  <1>14. CASE NegotiateFormat
    BY <1>14 DEF NegotiateFormat, OnlyVideo, Ended, Idle, flags, portalVars, videoVars,
       appVars, TypeInv, Portals, PortalPlaces, Videos, VideoPlaces, Outcomes, Terminals,
       ThreadsInv, Unshared, Requests
  <1>15. CASE FailedImport
    BY <1>15 DEF FailedImport, FallBack, OnlyVideo, Ended, Idle, flags, portalVars, videoVars,
       appVars, TypeInv, Portals, PortalPlaces, Videos, VideoPlaces, Outcomes, Terminals,
       ThreadsInv, Unshared, Requests
  <1>16. CASE ReadBuffer
    <2>1. PICK g \in Source[frame.n + 1] :
            IF g # video.announced /\ Len(eventQueue) >= EventCap
            THEN video' = Ended("Failed") /\ UNCHANGED <<eventQueue, frame>>
            ELSE /\ eventQueue' = IF g = video.announced THEN eventQueue ELSE Append(eventQueue, FormatChanged(g))
                 /\ video' = [video EXCEPT !.pc = "sending", !.announced = g]
                 /\ frame' = [n |-> frame.n + 1, geometry |-> g]
      BY <1>16 DEF ReadBuffer
    <2>2. g # NoGeometry
      BY <1>16, <2>1, SourceGeometry DEF ReadBuffer
    <2>3. UNCHANGED <<portal, sharing, slot, revoked>> /\ portal.pc \notin {"connect"} \cup Requests
          /\ portal.pc \notin {"closing", "disconnect", "reporting", "ended"}
      BY <1>16 DEF ReadBuffer, ThreadsInv, Requests, flags, portalVars, videoVars, appVars
    <2>4. video' = Ended("Failed") \/ video' = [video EXCEPT !.pc = "sending", !.announced = g]
      BY <2>1
    <2>5. CASE video' = Ended("Failed")
      <3>1. video'.pc = "ended" /\ video'.outcome = "Failed"
        BY <2>5 DEF Ended, TypeInv, Videos
      <3> QED
        BY <2>3, <3>1 DEF ThreadsInv, Unshared
    <2>6. CASE video' = [video EXCEPT !.pc = "sending", !.announced = g]
      <3> DEFINE pc == "sending"
      <3>1. video'.pc = pc /\ video'.announced = g
        <4> HIDE DEF pc
        <4> QED
          BY <2>6 DEF TypeInv, Videos, pc
      <3> QED
        BY <2>2, <2>3, <3>1 DEF ThreadsInv, Unshared
    <2> QED
      BY <2>4, <2>5, <2>6
  <1>17. CASE SendFrame
    BY <1>17 DEF SendFrame, Idle, flags, portalVars, videoVars, appVars, TypeInv, Portals,
       PortalPlaces, Videos, VideoPlaces, Outcomes, Terminals, ThreadsInv, Unshared, Requests
  <1>18. CASE LeaveLoop
    BY <1>18 DEF LeaveLoop, OnlyVideo, Ended, Idle, flags, portalVars, videoVars, appVars,
       TypeInv, Portals, PortalPlaces, Videos, VideoPlaces, Outcomes, Terminals, ThreadsInv,
       Unshared, Requests
  <1>19. CASE WaitForFrame
    BY <1>19 DEF WaitForFrame, OnlyVideo, Ended, Idle, flags, portalVars, videoVars, appVars,
       TypeInv, Portals, PortalPlaces, Videos, VideoPlaces, Outcomes, Terminals, ThreadsInv,
       Unshared, Requests
  <1>20. CASE WaitForGeometry
    BY <1>20 DEF WaitForGeometry, OnlyApp, flags, portalVars, videoVars, appVars, TypeInv,
       Portals, PortalPlaces, Videos, VideoPlaces, Outcomes, Terminals, ThreadsInv, Unshared,
       Requests
  <1>21. CASE CheckStartup
    BY <1>21 DEF CheckStartup, OnlyApp, flags, portalVars, videoVars, appVars, TypeInv,
       Portals, PortalPlaces, Videos, VideoPlaces, Outcomes, Terminals, ThreadsInv, Unshared,
       Requests
  <1>22. CASE ReceiveFirst
    BY <1>22 DEF ReceiveFirst, OnlyApp, NoFrame, flags, portalVars, videoVars, appVars,
       TypeInv, Portals, PortalPlaces, Videos, VideoPlaces, Outcomes, Terminals, ThreadsInv,
       Unshared, Requests
  <1>23. CASE DrawRegion
    BY <1>23 DEF DrawRegion, OnlyApp, flags, portalVars, videoVars, appVars, TypeInv, Portals,
       PortalPlaces, Videos, VideoPlaces, Outcomes, Terminals, ThreadsInv, Unshared, Requests
  <1>24. CASE AbandonStartup
    BY <1>24 DEF AbandonStartup, GiveUp, flags, portalVars, videoVars, appVars, TypeInv,
       Portals, PortalPlaces, Videos, VideoPlaces, Outcomes, Terminals, ThreadsInv, Unshared,
       Requests
  <1>25. CASE DismissRegion
    BY <1>25 DEF DismissRegion, GiveUp, flags, portalVars, videoVars, appVars, TypeInv,
       Portals, PortalPlaces, Videos, VideoPlaces, Outcomes, Terminals, ThreadsInv, Unshared,
       Requests
  <1>26. CASE ChooseFrame
    BY <1>26 DEF ChooseFrame, OnlyForwarder, NoFrame, flags, portalVars, videoVars, appVars,
       TypeInv, Portals, PortalPlaces, Videos, VideoPlaces, Outcomes, Terminals, ThreadsInv,
       Unshared, Requests
  <1>27. CASE DrainEvent
    BY <1>27 DEF DrainEvent, OnlyForwarder, EndForwarding, flags, portalVars, videoVars,
       appVars, TypeInv, Portals, PortalPlaces, Videos, VideoPlaces, Outcomes, Terminals,
       ThreadsInv, Unshared, Requests
  <1>28. CASE ForwardFrame
    BY <1>28 DEF ForwardFrame, OnlyForwarder, EndForwarding, NoFrame, flags, portalVars,
       videoVars, appVars, TypeInv, Portals, PortalPlaces, Videos, VideoPlaces, Outcomes,
       Terminals, ThreadsInv, Unshared, Requests
  <1>29. CASE QuitForwarding
    BY <1>29 DEF QuitForwarding, OnlyForwarder, flags, portalVars, videoVars, appVars, TypeInv,
       Portals, PortalPlaces, Videos, VideoPlaces, Outcomes, Terminals, ThreadsInv, Unshared,
       Requests
  <1>30. CASE Cancel
    BY <1>30 DEF Cancel, flags, portalVars, videoVars, appVars, TypeInv, Portals, PortalPlaces,
       Videos, VideoPlaces, Outcomes, Terminals, ThreadsInv, Unshared, Requests
  <1>31. CASE TakeEvent
    BY <1>31 DEF TakeEvent, OnlyApp, flags, portalVars, videoVars, appVars, TypeInv, Portals,
       PortalPlaces, Videos, VideoPlaces, Outcomes, Terminals, ThreadsInv, Unshared, Requests
  <1>32. CASE Release
    BY <1>32 DEF Release, flags, portalVars, videoVars, appVars, TypeInv, Portals,
       PortalPlaces, Videos, VideoPlaces, Outcomes, Terminals, ThreadsInv, Unshared, Requests
  <1>33. CASE JoinPortal
    BY <1>33 DEF JoinPortal, OnlyApp, NoFrame, flags, portalVars, videoVars, appVars, TypeInv,
       Portals, PortalPlaces, Videos, VideoPlaces, Outcomes, Terminals, ThreadsInv, Unshared,
       Requests
  <1>34. CASE JoinForwarder
    BY <1>34 DEF JoinForwarder, OnlyApp, flags, portalVars, videoVars, appVars, TypeInv,
       Portals, PortalPlaces, Videos, VideoPlaces, Outcomes, Terminals, ThreadsInv, Unshared,
       Requests
  <1>35. CASE UNCHANGED vars
    BY <1>35 DEF vars, flags, portalVars, videoVars, appVars, TypeInv, Portals, PortalPlaces,
       Videos, VideoPlaces, Outcomes, Terminals, ThreadsInv, Unshared, Requests
  <1> QED
    BY <1>1, <1>2, <1>3, <1>4, <1>5, <1>6, <1>7, <1>8, <1>9, <1>10, <1>11, <1>12, <1>13, <1>14,
       <1>15, <1>16, <1>17, <1>18, <1>19, <1>20, <1>21, <1>22, <1>23, <1>24, <1>25, <1>26,
       <1>27, <1>28, <1>29, <1>30, <1>31, <1>32, <1>33, <1>34, <1>35
       DEF Next, PortalStep, StartupStep, ForwarderStep, ReleaseStep

LEMMA AppStep ==
  ASSUME TypeInv, AppInv, ThreadsInv, [Next]_vars
  PROVE  AppInv'
  <1>1. CASE Answer
    BY <1>1 DEF Answer, Requests, flags, portalVars, videoVars, appVars, TypeInv, Portals,
       Videos, AppInv
  <1>2. CASE Revoke
    BY <1>2 DEF Revoke, flags, portalVars, videoVars, appVars, TypeInv, Portals, Videos, AppInv
  <1>3. CASE Connect
    BY <1>3 DEF Connect, EndWork, flags, portalVars, videoVars, appVars, TypeInv, Portals,
       Videos, AppInv
  <1>4. CASE Proceed
    BY <1>4 DEF Proceed, Following, Event, Requests, flags, portalVars, videoVars, appVars,
       TypeInv, Portals, Videos, AppInv
  <1>5. CASE Refused
    BY <1>5 DEF Refused, EndWork, Requests, flags, portalVars, videoVars, appVars, TypeInv,
       Portals, Videos, AppInv
  <1>6. CASE CancelRequest
    BY <1>6 DEF CancelRequest, EndWork, Requests, flags, portalVars, videoVars, appVars,
       TypeInv, Portals, Videos, AppInv
  <1>7. CASE Notice
    BY <1>7 DEF Notice, flags, portalVars, videoVars, appVars, TypeInv, Portals, Videos, AppInv
  <1>8. CASE Watch
    BY <1>8 DEF Watch, flags, portalVars, videoVars, appVars, TypeInv, Portals, Videos, AppInv
  <1>9. CASE JoinVideo
    BY <1>9 DEF JoinVideo, EndWork, flags, portalVars, videoVars, appVars, TypeInv, Portals,
       Videos, AppInv
  <1>10. CASE CloseSession
    BY <1>10 DEF CloseSession, flags, portalVars, videoVars, appVars, TypeInv, Portals, Videos,
       AppInv
  <1>11. CASE Disconnect
    BY <1>11 DEF Disconnect, NoFrame, flags, portalVars, videoVars, appVars, TypeInv, Portals,
       Videos, AppInv
  <1>12. CASE ReportEnd
    BY <1>12 DEF ReportEnd, Event, flags, portalVars, videoVars, appVars, TypeInv, Portals,
       Videos, AppInv
  <1>13. CASE OpenStream
    BY <1>13 DEF OpenStream, OnlyVideo, Ended, Idle, flags, portalVars, videoVars, appVars,
       TypeInv, Portals, Videos, AppInv
  <1>14. CASE NegotiateFormat
    BY <1>14 DEF NegotiateFormat, OnlyVideo, Ended, Idle, flags, portalVars, videoVars,
       appVars, TypeInv, Portals, Videos, AppInv
  <1>15. CASE FailedImport
    BY <1>15 DEF FailedImport, FallBack, OnlyVideo, Ended, Idle, flags, portalVars, videoVars,
       appVars, TypeInv, Portals, Videos, AppInv
  <1>16. CASE ReadBuffer
    BY <1>16 DEF ReadBuffer, Ended, Idle, FormatChanged, MaxFrames, flags, portalVars,
       videoVars, appVars, TypeInv, Portals, Videos, AppInv
  <1>17. CASE SendFrame
    BY <1>17 DEF SendFrame, Idle, flags, portalVars, videoVars, appVars, TypeInv, Portals,
       Videos, AppInv
  <1>18. CASE LeaveLoop
    BY <1>18 DEF LeaveLoop, OnlyVideo, Ended, Idle, flags, portalVars, videoVars, appVars,
       TypeInv, Portals, Videos, AppInv
  <1>19. CASE WaitForFrame
    BY <1>19 DEF WaitForFrame, OnlyVideo, Ended, Idle, flags, portalVars, videoVars, appVars,
       TypeInv, Portals, Videos, AppInv
  <1>20. CASE WaitForGeometry
    BY <1>20 DEF WaitForGeometry, OnlyApp, flags, portalVars, videoVars, appVars, TypeInv,
       Portals, Videos, AppInv
  <1>21. CASE CheckStartup
    BY <1>21 DEF CheckStartup, OnlyApp, flags, portalVars, videoVars, appVars, TypeInv,
       Portals, Videos, AppInv
  <1>22. CASE ReceiveFirst
    BY <1>22 DEF ReceiveFirst, OnlyApp, NoFrame, flags, portalVars, videoVars, appVars,
       TypeInv, Portals, Videos, AppInv
  <1>23. CASE DrawRegion
    BY <1>23 DEF DrawRegion, OnlyApp, flags, portalVars, videoVars, appVars, TypeInv, Portals,
       Videos, AppInv
  <1>24. CASE AbandonStartup
    BY <1>24 DEF AbandonStartup, GiveUp, flags, portalVars, videoVars, appVars, TypeInv,
       Portals, Videos, AppInv
  <1>25. CASE DismissRegion
    BY <1>25 DEF DismissRegion, GiveUp, flags, portalVars, videoVars, appVars, TypeInv,
       Portals, Videos, AppInv
  <1>26. CASE ChooseFrame
    BY <1>26 DEF ChooseFrame, OnlyForwarder, NoFrame, flags, portalVars, videoVars, appVars,
       TypeInv, Portals, Videos, AppInv
  <1>27. CASE DrainEvent
    BY <1>27 DEF DrainEvent, OnlyForwarder, EndForwarding, flags, portalVars, videoVars,
       appVars, TypeInv, Portals, Videos, AppInv
  <1>28. CASE ForwardFrame
    BY <1>28 DEF ForwardFrame, OnlyForwarder, EndForwarding, NoFrame, flags, portalVars,
       videoVars, appVars, TypeInv, Portals, Videos, AppInv
  <1>29. CASE QuitForwarding
    BY <1>29 DEF QuitForwarding, OnlyForwarder, flags, portalVars, videoVars, appVars, TypeInv,
       Portals, Videos, AppInv
  <1>30. CASE Cancel
    BY <1>30 DEF Cancel, flags, portalVars, videoVars, appVars, TypeInv, Portals, Videos, AppInv
  <1>31. CASE TakeEvent
    BY <1>31 DEF TakeEvent, OnlyApp, flags, portalVars, videoVars, appVars, TypeInv, Portals,
       Videos, AppInv
  <1>32. CASE Release
    BY <1>32 DEF Release, flags, portalVars, videoVars, appVars, TypeInv, Portals, Videos,
       AppInv
  <1>33. CASE JoinPortal
    BY <1>33 DEF JoinPortal, OnlyApp, NoFrame, flags, portalVars, videoVars, appVars, TypeInv,
       Portals, Videos, AppInv
  <1>34. CASE JoinForwarder
    BY <1>34 DEF JoinForwarder, OnlyApp, flags, portalVars, videoVars, appVars, TypeInv,
       Portals, Videos, AppInv
  <1>35. CASE UNCHANGED vars
    BY <1>35 DEF vars, flags, portalVars, videoVars, appVars, TypeInv, Portals, Videos, AppInv
  <1> QED
    BY <1>1, <1>2, <1>3, <1>4, <1>5, <1>6, <1>7, <1>8, <1>9, <1>10, <1>11, <1>12, <1>13, <1>14,
       <1>15, <1>16, <1>17, <1>18, <1>19, <1>20, <1>21, <1>22, <1>23, <1>24, <1>25, <1>26,
       <1>27, <1>28, <1>29, <1>30, <1>31, <1>32, <1>33, <1>34, <1>35
       DEF Next, PortalStep, StartupStep, ForwarderStep, ReleaseStep

-----------------------------------------------------------------------------
(* The queue of events                                                      *)

LEMMA Announces ==
  ASSUME TypeInv, NEW g
  PROVE  [video EXCEPT !.pc = "sending", !.announced = g].announced = g
  <1> DEFINE pc == "sending"
  <1>1. [video EXCEPT !.pc = pc, !.announced = g].announced = g
    <2> HIDE DEF pc
    <2> QED
      BY DEF TypeInv, Videos
  <1> QED
    BY <1>1

LEMMA EventsKept ==
  ASSUME EventsInv, UNCHANGED <<eventQueue, frame>>, video'.announced = video.announced,
         portal.pc = "ended" => portal'.pc = "ended"
  PROVE  EventsInv'
  BY DEF EventsInv, IsFormat

LEMMA EventsCleared ==
  ASSUME EventsInv, eventQueue' = <<>>, UNCHANGED frame, video'.announced = video.announced
  PROVE  EventsInv'
  BY EmptySeq DEF EventsInv, IsFormat

LEMMA EventsDropped ==
  ASSUME TypeInv, EventsInv, eventQueue # <<>>, eventQueue' = Tail(eventQueue), UNCHANGED <<frame, portal>>,
         video'.announced = video.announced
  PROVE  EventsInv'
  <1>1. Len(eventQueue) \in Nat \ {0} /\ Len(eventQueue') = Len(eventQueue) - 1
        /\ \A i \in 1..Len(eventQueue') : eventQueue'[i] = eventQueue[i + 1] /\ i + 1 \in 1..Len(eventQueue)
    BY EventsTail
  <1>2. ASSUME NEW i \in 1..Len(eventQueue')
        PROVE  /\ eventQueue'[i].kind # "Selected"
               /\ eventQueue'[i].kind \in Terminals => i = Len(eventQueue') /\ portal'.pc = "ended"
               /\ eventQueue'[i].kind = "FormatChanged" /\ i = Len(eventQueue') =>
                    eventQueue'[i].geometry = video'.announced
               /\ eventQueue'[i].kind = "FormatChanged" /\ i < Len(eventQueue') /\ eventQueue'[i + 1].kind = "FormatChanged"
                    => eventQueue'[i].geometry # eventQueue'[i + 1].geometry
    <2>1. eventQueue'[i] = eventQueue[i + 1] /\ i + 1 \in 1..Len(eventQueue) /\ i + 1 # 1 /\ i \in Nat
          /\ (i = Len(eventQueue') <=> i + 1 = Len(eventQueue)) /\ (i < Len(eventQueue') <=> i + 1 < Len(eventQueue))
      BY <1>1
    <2>2. i < Len(eventQueue') => eventQueue'[i + 1] = eventQueue[(i + 1) + 1]
      BY <1>1, <2>1
    <2> QED
      BY <2>1, <2>2 DEF EventsInv, IsFormat
  <1> QED
    BY <1>2 DEF EventsInv, IsFormat

LEMMA EventsAdded ==
  ASSUME TypeInv, EventsInv, NEW e \in Events, eventQueue' = Append(eventQueue, e), portal.pc # "ended",
         e.kind = "Selected" => eventQueue = <<>>,
         e.kind \in Terminals => portal'.pc = "ended",
         e.kind = "FormatChanged" => e.geometry # video.announced /\ e.geometry = video'.announced,
         e.kind # "FormatChanged" => video'.announced = video.announced,
         frame'.geometry = video'.announced
  PROVE  EventsInv'
  <1>1. Len(eventQueue) \in Nat /\ Len(eventQueue') = Len(eventQueue) + 1 /\ eventQueue'[Len(eventQueue) + 1] = e
        /\ \A i \in 1..Len(eventQueue) : eventQueue'[i] = eventQueue[i]
    BY EventsAppend
  <1>2. eventQueue = <<>> => Len(eventQueue) = 0
    BY EmptySeq
  <1>3. ASSUME NEW i \in 1..Len(eventQueue')
        PROVE  /\ eventQueue'[i].kind = "Selected" => i = 1
               /\ eventQueue'[i].kind \in Terminals => i = Len(eventQueue') /\ portal'.pc = "ended"
               /\ eventQueue'[i].kind = "FormatChanged" /\ i = Len(eventQueue') =>
                    eventQueue'[i].geometry = video'.announced
               /\ eventQueue'[i].kind = "FormatChanged" /\ i < Len(eventQueue') /\ eventQueue'[i + 1].kind = "FormatChanged"
                    => eventQueue'[i].geometry # eventQueue'[i + 1].geometry
    <2>1. CASE i = Len(eventQueue) + 1
      BY <1>1, <1>2, <2>1
    <2>2. CASE i # Len(eventQueue) + 1
      <3>1. i \in 1..Len(eventQueue) /\ eventQueue'[i] = eventQueue[i] /\ i < Len(eventQueue') /\ i # Len(eventQueue')
        BY <1>1, <2>2
      <3>2. i < Len(eventQueue) => eventQueue'[i + 1] = eventQueue[i + 1]
        BY <1>1, <3>1
      <3>3. i = Len(eventQueue) => eventQueue'[i + 1] = e
        BY <1>1, <3>1
      <3>4. i < Len(eventQueue) \/ i = Len(eventQueue)
        BY <1>1, <3>1
      <3> QED
        BY <3>1, <3>2, <3>3, <3>4 DEF EventsInv, IsFormat
    <2> QED
      BY <2>1, <2>2
  <1> QED
    BY <1>3 DEF EventsInv, IsFormat

\* Two events that are neither the first nor terminal are announcements that differ.
LEMMA TwoAnnouncements ==
  ASSUME TypeInv, EventsInv, portal.pc # "ended", NEW i \in 2..Len(eventQueue), i < Len(eventQueue)
  PROVE  IsFormat(i) /\ IsFormat(i + 1) /\ eventQueue[i].geometry # eventQueue[i + 1].geometry
  <1>1. Len(eventQueue) \in Nat /\ i \in 1..Len(eventQueue) /\ i + 1 \in 1..Len(eventQueue) /\ i # 1 /\ i + 1 # 1
    BY LenProperties DEF TypeInv
  <1>2. eventQueue[i] \in Events /\ eventQueue[i + 1] \in Events
    BY <1>1, ElementOfSeq DEF TypeInv
  <1> QED
    BY <1>1, <1>2 DEF EventsInv, IsFormat, Events, Kinds

LEMMA EventsStep ==
  ASSUME TypeInv, ThreadsInv, EventsInv, [Next]_vars
  PROVE  EventsInv'
  <1>1. CASE Answer
    BY <1>1, EventsKept DEF Answer, Requests, flags, portalVars, videoVars, appVars, TypeInv,
       Videos, Portals
  <1>2. CASE Revoke
    BY <1>2, EventsKept DEF Revoke, flags, portalVars, videoVars, appVars, TypeInv, Videos,
       Portals
  <1>3. CASE Connect
    BY <1>3, EventsKept DEF Connect, EndWork, flags, portalVars, videoVars, appVars, TypeInv,
       Videos, Portals
  <1>4. CASE Proceed
    <2>1. portal.pc # "ended" /\ eventQueue = <<>> /\ frame' = frame /\ video'.announced = video.announced
      BY <1>4 DEF Proceed, Requests, ThreadsInv, TypeInv, Videos, flags, portalVars, videoVars,
         appVars
    <2>2. CASE portal.pc = "open"
      <3> DEFINE e == Event("Selected")
      <3>1. eventQueue' = Append(eventQueue, e)
        BY <1>4, <2>2 DEF Proceed
      <3>2. e \in Events /\ e.kind = "Selected"
        BY DEF Event, Events, Kinds, NoGeometry
      <3>3. frame.geometry = video.announced
        BY DEF EventsInv
      <3> HIDE DEF e
      <3> QED
        BY <2>1, <3>1, <3>2, <3>3, EventsAdded DEF Terminals
    <2>3. CASE portal.pc # "open"
      BY <1>4, <2>1, <2>3, EventsKept DEF Proceed
    <2> QED
      BY <2>2, <2>3
  <1>5. CASE Refused
    BY <1>5, EventsKept DEF Refused, EndWork, Requests, flags, portalVars, videoVars, appVars,
       TypeInv, Videos, Portals
  <1>6. CASE CancelRequest
    BY <1>6, EventsKept DEF CancelRequest, EndWork, Requests, flags, portalVars, videoVars,
       appVars, TypeInv, Videos, Portals
  <1>7. CASE Notice
    BY <1>7, EventsKept DEF Notice, flags, portalVars, videoVars, appVars, TypeInv, Videos,
       Portals
  <1>8. CASE Watch
    BY <1>8, EventsKept DEF Watch, flags, portalVars, videoVars, appVars, TypeInv, Videos,
       Portals
  <1>9. CASE JoinVideo
    BY <1>9, EventsKept DEF JoinVideo, EndWork, flags, portalVars, videoVars, appVars, TypeInv,
       Videos, Portals
  <1>10. CASE CloseSession
    BY <1>10, EventsKept DEF CloseSession, flags, portalVars, videoVars, appVars, TypeInv,
       Videos, Portals
  <1>11. CASE Disconnect
    BY <1>11, EventsKept DEF Disconnect, NoFrame, flags, portalVars, videoVars, appVars,
       TypeInv, Videos, Portals
  <1>12. CASE ReportEnd
    <2>1. portal.pc # "ended" /\ frame' = frame /\ video' = video /\ frame.geometry = video.announced
      BY <1>12 DEF ReportEnd, EventsInv, flags, portalVars, videoVars, appVars
    <2>2. CASE Len(eventQueue) >= EventCap
      <3>1. eventQueue # <<>>
        BY <2>2, EmptySeq, CaptureBounds
      <3> QED
        BY <1>12, <2>1, <2>2, <3>1, EventsDropped DEF ReportEnd
    <2>3. CASE ~(Len(eventQueue) >= EventCap)
      <3> DEFINE e == Event(portal.result)
      <3>1. eventQueue' = Append(eventQueue, e) /\ portal'.pc = "ended"
        BY <1>12, <2>3 DEF ReportEnd, TypeInv, Portals
      <3>2. e \in Events /\ e.kind \in Terminals
        BY <1>12 DEF ReportEnd, Event, Events, Kinds, NoGeometry, ThreadsInv, TypeInv, Portals,
           Outcomes, Terminals
      <3> HIDE DEF e
      <3> QED
        BY <2>1, <3>1, <3>2, EventsAdded DEF Terminals
    <2> QED
      BY <2>2, <2>3
  <1>13. CASE OpenStream
    BY <1>13, EventsKept DEF OpenStream, OnlyVideo, Ended, Idle, flags, portalVars, videoVars,
       appVars, TypeInv, Videos, Portals
  <1>14. CASE NegotiateFormat
    BY <1>14, EventsKept DEF NegotiateFormat, OnlyVideo, Ended, Idle, flags, portalVars,
       videoVars, appVars, TypeInv, Videos, Portals
  <1>15. CASE FailedImport
    BY <1>15, EventsKept DEF FailedImport, FallBack, OnlyVideo, Ended, Idle, flags, portalVars,
       videoVars, appVars, TypeInv, Videos, Portals
  <1>16. CASE ReadBuffer
    <2>1. PICK g \in Source[frame.n + 1] :
            IF g # video.announced /\ Len(eventQueue) >= EventCap
            THEN video' = Ended("Failed") /\ UNCHANGED <<eventQueue, frame>>
            ELSE /\ eventQueue' = IF g = video.announced THEN eventQueue ELSE Append(eventQueue, FormatChanged(g))
                 /\ video' = [video EXCEPT !.pc = "sending", !.announced = g]
                 /\ frame' = [n |-> frame.n + 1, geometry |-> g]
      BY <1>16 DEF ReadBuffer
    <2>2. g \in Int
      BY <1>16, <2>1, SourceGeometry DEF ReadBuffer
    <2>3. FormatChanged(g) \in Events
      BY <2>2 DEF FormatChanged, Events, Kinds
    <2>4. portal' = portal /\ portal.pc # "ended"
      BY <1>16 DEF ReadBuffer, ThreadsInv, flags, portalVars, videoVars, appVars
    <2>5. ASSUME video' = [video EXCEPT !.pc = "sending", !.announced = g]
          PROVE  video'.announced = g
      <3>1. [video EXCEPT !.pc = "sending", !.announced = g].announced = g
        BY Announces
      <3> HIDE DEF Ended
      <3> QED
        BY <2>5, <3>1, Zenon
    <2>6. CASE g # video.announced /\ Len(eventQueue) >= EventCap
      BY <2>1, <2>4, <2>6, EventsKept DEF Ended, TypeInv, Videos
    <2>7. CASE g # video.announced /\ ~(Len(eventQueue) >= EventCap)
      <3> DEFINE e == FormatChanged(g)
      <3>1. eventQueue' = Append(eventQueue, e) /\ video'.announced = g /\ frame'.geometry = g
        BY <2>1, <2>7, <2>5
      <3>2. e \in Events /\ e.kind = "FormatChanged" /\ e.geometry = g
        BY <2>3 DEF FormatChanged
      <3> HIDE DEF e
      <3> QED
        BY <2>4, <2>7, <3>1, <3>2, EventsAdded DEF Terminals
    <2>8. CASE g = video.announced
      <3>1. eventQueue' = eventQueue /\ video'.announced = video.announced /\ frame'.geometry = video'.announced
        BY <2>1, <2>8, <2>5
      <3> QED
        BY <2>4, <3>1 DEF EventsInv, IsFormat
    <2> QED
      BY <2>6, <2>7, <2>8
  <1>17. CASE SendFrame
    BY <1>17, EventsKept DEF SendFrame, Idle, flags, portalVars, videoVars, appVars, TypeInv,
       Videos, Portals
  <1>18. CASE LeaveLoop
    BY <1>18, EventsKept DEF LeaveLoop, OnlyVideo, Ended, Idle, flags, portalVars, videoVars,
       appVars, TypeInv, Videos, Portals
  <1>19. CASE WaitForFrame
    BY <1>19, EventsKept DEF WaitForFrame, OnlyVideo, Ended, Idle, flags, portalVars,
       videoVars, appVars, TypeInv, Videos, Portals
  <1>20. CASE WaitForGeometry
    BY <1>20, EventsDropped DEF WaitForGeometry, OnlyApp, flags, portalVars, videoVars, appVars
  <1>21. CASE CheckStartup
    BY <1>21, EventsCleared DEF CheckStartup, OnlyApp, flags, portalVars, videoVars, appVars
  <1>22. CASE ReceiveFirst
    BY <1>22, EventsKept DEF ReceiveFirst, OnlyApp, NoFrame, flags, portalVars, videoVars,
       appVars, TypeInv, Videos, Portals
  <1>23. CASE DrawRegion
    BY <1>23, EventsKept DEF DrawRegion, OnlyApp, flags, portalVars, videoVars, appVars,
       TypeInv, Videos, Portals
  <1>24. CASE AbandonStartup
    BY <1>24, EventsCleared DEF AbandonStartup, GiveUp, flags, portalVars, videoVars, appVars
  <1>25. CASE DismissRegion
    BY <1>25, EventsCleared DEF DismissRegion, GiveUp, flags, portalVars, videoVars, appVars
  <1>26. CASE ChooseFrame
    BY <1>26, EventsKept DEF ChooseFrame, OnlyForwarder, NoFrame, flags, portalVars, videoVars,
       appVars, TypeInv, Videos, Portals
  <1>27. CASE DrainEvent
    BY <1>27, EventsDropped DEF DrainEvent, OnlyForwarder, EndForwarding, flags, portalVars,
       videoVars, appVars
  <1>28. CASE ForwardFrame
    BY <1>28, EventsKept DEF ForwardFrame, OnlyForwarder, EndForwarding, NoFrame, flags,
       portalVars, videoVars, appVars, TypeInv, Videos, Portals
  <1>29. CASE QuitForwarding
    BY <1>29, EventsKept DEF QuitForwarding, OnlyForwarder, flags, portalVars, videoVars,
       appVars, TypeInv, Videos, Portals
  <1>30. CASE Cancel
    BY <1>30, EventsKept DEF Cancel, flags, portalVars, videoVars, appVars, TypeInv, Videos,
       Portals
  <1>31. CASE TakeEvent
    BY <1>31, EventsKept DEF TakeEvent, OnlyApp, flags, portalVars, videoVars, appVars,
       TypeInv, Videos, Portals
  <1>32. CASE Release
    BY <1>32, EventsKept DEF Release, flags, portalVars, videoVars, appVars, TypeInv, Videos,
       Portals
  <1>33. CASE JoinPortal
    BY <1>33, EventsKept DEF JoinPortal, OnlyApp, NoFrame, flags, portalVars, videoVars,
       appVars, TypeInv, Videos, Portals
  <1>34. CASE JoinForwarder
    BY <1>34, EventsKept DEF JoinForwarder, OnlyApp, flags, portalVars, videoVars, appVars,
       TypeInv, Videos, Portals
  <1>35. CASE UNCHANGED vars
    BY <1>35, EventsKept DEF vars, flags, portalVars, videoVars, appVars, TypeInv, Videos,
       Portals
  <1> QED
    BY <1>1, <1>2, <1>3, <1>4, <1>5, <1>6, <1>7, <1>8, <1>9, <1>10, <1>11, <1>12, <1>13, <1>14,
       <1>15, <1>16, <1>17, <1>18, <1>19, <1>20, <1>21, <1>22, <1>23, <1>24, <1>25, <1>26,
       <1>27, <1>28, <1>29, <1>30, <1>31, <1>32, <1>33, <1>34, <1>35
       DEF Next, PortalStep, StartupStep, ForwarderStep, ReleaseStep

-----------------------------------------------------------------------------
(* Who reads the queue                                                      *)

\* A queue that surprises nobody has neither an end nor another geometry.
LEMMA NotSurprised ==
  ASSUME TypeInv
  PROVE  Surprised <=> \E i \in 1..Len(eventQueue) : eventQueue[i].kind \in Terminals
                          \/ (IsFormat(i) /\ eventQueue[i].geometry # geometry)
  <1>1. DOMAIN eventQueue = 1..Len(eventQueue)
    BY LenProperties DEF TypeInv
  <1> QED
    BY <1>1 DEF Surprised, Changes, IsFormat

\* Frames move, and nothing is added to the queue or taken from it.
LEMMA ReadingKept ==
  ASSUME GeometryInv, UNCHANGED <<region, eventQueue, geometry>>, video'.announced = video.announced,
         slot' \in {slot, NoFrame} \/ (slot' = frame /\ video.announced # NoGeometry),
         held' \in {held, slot, NoFrame}, frame'.geometry = video.announced,
         app' = "geometry" => app = "geometry", Reading' => Reading
  PROVE  GeometryInv'
  <1>1. ASSUME NEW g, AllAre(g), video.announced = g
        PROVE  AllAre(g)'
    BY <1>1 DEF AllAre
  <1>2. app' = "geometry" => GeometryInv!1'
    BY <1>1 DEF GeometryInv, OnlyAnnounced, IsFormat
  <1>3. GeometryInv!2'
    BY <1>1 DEF GeometryInv, Surprised, Changes, AllAre
  <1> QED
    BY <1>2, <1>3 DEF GeometryInv

\* What is not read for its geometry any more need not be known.
LEMMA NobodyReads ==
  ASSUME app' # "geometry", ~Reading'
  PROVE  GeometryInv'
  BY DEF GeometryInv

LEMMA ReadingStep ==
  ASSUME TypeInv, ThreadsInv, AppInv, EventsInv, GeometryInv, [Next]_vars
  PROVE  GeometryInv'
  <1>1. CASE Answer
    BY <1>1, ReadingKept DEF Answer, Requests, flags, portalVars, videoVars, appVars, TypeInv,
       Videos, Portals, Reading, AppInv, EventsInv
  <1>2. CASE Revoke
    BY <1>2, ReadingKept DEF Revoke, flags, portalVars, videoVars, appVars, TypeInv, Videos,
       Portals, Reading, AppInv, EventsInv
  <1>3. CASE Connect
    BY <1>3, ReadingKept DEF Connect, EndWork, flags, portalVars, videoVars, appVars, TypeInv,
       Videos, Portals, Reading, AppInv, EventsInv
  <1>4. CASE Proceed
    <2>1. eventQueue = <<>> /\ Len(eventQueue) = 0
          /\ UNCHANGED <<region, geometry, app, forwarder, slot, held, frame>>
          /\ video'.announced = video.announced /\ portal.pc # "ended" /\ frame.geometry = video.announced
      BY <1>4, EmptySeq DEF Proceed, Requests, ThreadsInv, EventsInv, TypeInv, Videos, flags,
         portalVars, videoVars, appVars
    <2>2. CASE eventQueue' = eventQueue
      BY <2>1, <2>2, ReadingKept DEF Reading
    <2>3. CASE eventQueue' = Append(eventQueue, Event("Selected"))
      <3> DEFINE e == Event("Selected")
      <3>1. e \in Events /\ e.kind = "Selected"
        BY DEF Event, Events, Kinds, NoGeometry
      <3> HIDE DEF e
      <3>2. Len(eventQueue') = 1 /\ eventQueue'[1] = e
        BY <2>1, <2>3, <3>1, EventsAppend DEF e
      <3>3. ~Surprised /\ \A i \in 1..Len(eventQueue') : eventQueue'[i].kind # "FormatChanged"
        BY <2>1, <3>1, <3>2, NotSurprised
      <3>4. \A g : AllAre(g) => AllAre(g)'
        BY <2>1 DEF AllAre
      <3>5. \A i \in 1..Len(eventQueue) : ~IsFormat(i)
        BY <2>1
      <3> QED
        BY <2>1, <3>3, <3>4, <3>5 DEF GeometryInv, Reading, IsFormat
    <2> QED
      BY <1>4, <2>2, <2>3 DEF Proceed
  <1>5. CASE Refused
    BY <1>5, ReadingKept DEF Refused, EndWork, Requests, flags, portalVars, videoVars, appVars,
       TypeInv, Videos, Portals, Reading, AppInv, EventsInv
  <1>6. CASE CancelRequest
    BY <1>6, ReadingKept DEF CancelRequest, EndWork, Requests, flags, portalVars, videoVars,
       appVars, TypeInv, Videos, Portals, Reading, AppInv, EventsInv
  <1>7. CASE Notice
    BY <1>7, ReadingKept DEF Notice, flags, portalVars, videoVars, appVars, TypeInv, Videos,
       Portals, Reading, AppInv, EventsInv
  <1>8. CASE Watch
    BY <1>8, ReadingKept DEF Watch, flags, portalVars, videoVars, appVars, TypeInv, Videos,
       Portals, Reading, AppInv, EventsInv
  <1>9. CASE JoinVideo
    BY <1>9, ReadingKept DEF JoinVideo, EndWork, flags, portalVars, videoVars, appVars,
       TypeInv, Videos, Portals, Reading, AppInv, EventsInv
  <1>10. CASE CloseSession
    BY <1>10, ReadingKept DEF CloseSession, flags, portalVars, videoVars, appVars, TypeInv,
       Videos, Portals, Reading, AppInv, EventsInv
  <1>11. CASE Disconnect
    BY <1>11, ReadingKept DEF Disconnect, NoFrame, flags, portalVars, videoVars, appVars,
       TypeInv, Videos, Portals, Reading, AppInv, EventsInv
  <1>12. CASE ReportEnd
    <2>1. portal.pc # "ended" /\ UNCHANGED <<region, geometry, app, forwarder, slot, held, frame, video>>
          /\ TypeInv'
      BY <1>12, TypeStep DEF ReportEnd, Next, PortalStep, flags, portalVars, videoVars, appVars
    <2>2. CASE Len(eventQueue) >= EventCap
      <3>1. eventQueue # <<>> /\ eventQueue' = Tail(eventQueue)
        BY <1>12, <2>2, EmptySeq, CaptureBounds DEF ReportEnd
      <3>2. /\ Len(eventQueue) \in Nat /\ Len(eventQueue) >= 3 /\ Len(eventQueue') = Len(eventQueue) - 1
            /\ eventQueue'[1] = eventQueue[2] /\ eventQueue'[2] = eventQueue[3]
            /\ 1 \in 1..Len(eventQueue') /\ 2 \in 1..Len(eventQueue')
        BY <2>2, <3>1, EventsTail, CaptureBounds
      <3>3. IsFormat(2) /\ IsFormat(3) /\ eventQueue[2].geometry # eventQueue[3].geometry
        BY <2>1, <3>2, TwoAnnouncements
      <3>4. \A g : ~OnlyAnnounced(g)'
        BY <3>2, <3>3 DEF OnlyAnnounced, IsFormat
      <3>5. Surprised'
        <4>1. DOMAIN eventQueue' = 1..Len(eventQueue')
          BY <2>1, LenProperties DEF TypeInv
        <4> QED
          BY <2>1, <3>2, <3>3, <4>1 DEF Surprised, Changes, IsFormat
      <3> QED
        BY <2>1, <3>2, <3>3, <3>4, <3>5 DEF GeometryInv, IsFormat
    <2>3. CASE ~(Len(eventQueue) >= EventCap)
      <3> DEFINE e == Event(portal.result)
      <3>1. eventQueue' = Append(eventQueue, e)
        BY <1>12, <2>3 DEF ReportEnd
      <3>2. e \in Events /\ e.kind \in Terminals
        BY <1>12 DEF ReportEnd, Event, Events, Kinds, NoGeometry, ThreadsInv, TypeInv, Portals,
           Outcomes, Terminals
      <3> HIDE DEF e
      <3>3. Len(eventQueue) \in Nat /\ Len(eventQueue') = Len(eventQueue) + 1 /\ eventQueue'[Len(eventQueue) + 1] = e
            /\ \A i \in 1..Len(eventQueue) : eventQueue'[i] = eventQueue[i]
        BY <3>1, <3>2, EventsAppend
      <3>4. \A i \in 1..Len(eventQueue') : eventQueue'[i].kind = "FormatChanged" => i \in 1..Len(eventQueue)
        BY <3>2, <3>3 DEF Terminals
      <3>5. Surprised'
        <4>1. DOMAIN eventQueue' = 1..Len(eventQueue')
          BY <2>1, LenProperties DEF TypeInv
        <4> QED
          BY <3>2, <3>3, <4>1 DEF Surprised
      <3>6. \A g : (OnlyAnnounced(g)' <=> OnlyAnnounced(g)) /\ (AllAre(g)' <=> AllAre(g))
        BY <2>1, <3>3, <3>4 DEF OnlyAnnounced, IsFormat, AllAre
      <3>7. (\E i \in 1..Len(eventQueue') : eventQueue'[i].kind = "FormatChanged")
              <=> \E i \in 1..Len(eventQueue) : IsFormat(i)
        BY <3>3, <3>4 DEF IsFormat
      <3> QED
        BY <2>1, <3>5, <3>6, <3>7 DEF GeometryInv, IsFormat, OnlyAnnounced, AllAre
    <2> QED
      BY <2>2, <2>3
  <1>13. CASE OpenStream
    BY <1>13, ReadingKept DEF OpenStream, OnlyVideo, Ended, Idle, flags, portalVars, videoVars,
       appVars, TypeInv, Videos, Portals, Reading, AppInv, EventsInv
  <1>14. CASE NegotiateFormat
    BY <1>14, ReadingKept DEF NegotiateFormat, OnlyVideo, Ended, Idle, flags, portalVars,
       videoVars, appVars, TypeInv, Videos, Portals, Reading, AppInv, EventsInv
  <1>15. CASE FailedImport
    BY <1>15, ReadingKept DEF FailedImport, FallBack, OnlyVideo, Ended, Idle, flags,
       portalVars, videoVars, appVars, TypeInv, Videos, Portals, Reading, AppInv, EventsInv
  <1>16. CASE ReadBuffer
    <2>1. PICK g \in Source[frame.n + 1] :
            IF g # video.announced /\ Len(eventQueue) >= EventCap
            THEN video' = Ended("Failed") /\ UNCHANGED <<eventQueue, frame>>
            ELSE /\ eventQueue' = IF g = video.announced THEN eventQueue ELSE Append(eventQueue, FormatChanged(g))
                 /\ video' = [video EXCEPT !.pc = "sending", !.announced = g]
                 /\ frame' = [n |-> frame.n + 1, geometry |-> g]
      BY <1>16 DEF ReadBuffer
    <2>2. g \in Int /\ g # NoGeometry
      BY <1>16, <2>1, SourceGeometry DEF ReadBuffer
    <2>3. UNCHANGED <<region, geometry, app, forwarder, slot, held>>
      BY <1>16 DEF ReadBuffer, flags, portalVars, videoVars, appVars
    <2>4. TypeInv' /\ DOMAIN eventQueue' = 1..Len(eventQueue') /\ frame.geometry = video.announced
      <3>1. TypeInv'
        BY <1>16, TypeStep DEF Next
      <3> QED
        BY <3>1, LenProperties DEF TypeInv, EventsInv
    <2>5. CASE g # video.announced /\ Len(eventQueue) >= EventCap
      <3>1. video'.announced = video.announced /\ UNCHANGED <<eventQueue, frame>>
        BY <2>1, <2>5 DEF Ended, TypeInv, Videos
      <3> QED
        BY <2>3, <2>4, <3>1, ReadingKept DEF Reading
    <2>6. video' = [video EXCEPT !.pc = "sending", !.announced = g] => video'.announced = g
      <3>1. [video EXCEPT !.pc = "sending", !.announced = g].announced = g
        BY Announces
      <3> QED
        BY <3>1, Zenon
    <2>7. CASE g # video.announced /\ ~(Len(eventQueue) >= EventCap)
      <3> DEFINE e == FormatChanged(g)
      <3>1. eventQueue' = Append(eventQueue, e) /\ video'.announced = g /\ frame'.geometry = g
        BY <2>1, <2>6, <2>7
      <3>2. e \in Events /\ e.kind = "FormatChanged" /\ e.geometry = g
        BY <2>2 DEF FormatChanged, Events, Kinds
      <3> HIDE DEF e
      <3>3. /\ Len(eventQueue) \in Nat /\ Len(eventQueue') = Len(eventQueue) + 1 /\ eventQueue'[Len(eventQueue) + 1] = e
            /\ \A i \in 1..Len(eventQueue) : eventQueue'[i] = eventQueue[i] /\ i \in 1..Len(eventQueue')
            /\ Len(eventQueue) + 1 \in 1..Len(eventQueue')
        BY <3>1, <3>2, EventsAppend
      <3>4. \A i \in 1..Len(eventQueue) :
               IsFormat(i) => /\ eventQueue'[i].kind = "FormatChanged"
                              /\ eventQueue'[i].geometry = eventQueue[i].geometry
        BY <3>3 DEF IsFormat
      <3>5. ASSUME app = "geometry", NEW h \in Int, OnlyAnnounced(h)'
            PROVE  AllAre(h)' /\ video'.announced = h
        <4>1. h = g /\ OnlyAnnounced(h)
          BY <3>2, <3>3, <3>4, <3>5 DEF OnlyAnnounced, IsFormat
        <4>2. \A i \in 1..Len(eventQueue) : ~IsFormat(i)
          BY <2>7, <3>5, <4>1 DEF GeometryInv
        <4>3. slot = NoFrame /\ held = NoFrame
          BY <3>5, <4>2 DEF GeometryInv
        <4> QED
          BY <2>3, <3>1, <4>1, <4>3 DEF AllAre
      <3>6. ASSUME region, Reading
            PROVE  Surprised'
        <4>1. CASE Surprised
          <5>1. PICK i \in 1..Len(eventQueue) :
                     eventQueue[i].kind \in Terminals \/ (IsFormat(i) /\ eventQueue[i].geometry # geometry)
            BY <4>1, NotSurprised
          <5> QED
            BY <2>3, <3>3, <5>1, <2>4 DEF Surprised, Changes, IsFormat
        <4>2. CASE ~Surprised
          <5>1. video.announced = geometry
            BY <3>6, <4>2 DEF GeometryInv
          <5> QED
            BY <2>3, <2>7, <3>2, <3>3, <5>1, <2>4 DEF Surprised, Changes
        <4> QED
          BY <4>1, <4>2
      <3> QED
        BY <2>3, <3>2, <3>3, <3>5, <3>6 DEF GeometryInv, Reading, IsFormat
    <2>8. CASE g = video.announced
      <3>1. eventQueue' = eventQueue /\ video'.announced = video.announced /\ frame'.geometry = video.announced
        BY <2>1, <2>6, <2>8
      <3> QED
        BY <2>3, <3>1, ReadingKept DEF Reading
    <2> QED
      BY <2>5, <2>7, <2>8
  <1>17. CASE SendFrame
    <2>1. video.announced # NoGeometry /\ frame.geometry = video.announced
      BY <1>17 DEF SendFrame, ThreadsInv, EventsInv
    <2>2. video'.announced = video.announced
      BY <1>17 DEF SendFrame, Idle, TypeInv, Videos
    <2> QED
      BY <1>17, <2>1, <2>2, ReadingKept DEF SendFrame, Reading, flags, portalVars, videoVars,
         appVars
  <1>18. CASE LeaveLoop
    BY <1>18, ReadingKept DEF LeaveLoop, OnlyVideo, Ended, Idle, flags, portalVars, videoVars,
       appVars, TypeInv, Videos, Portals, Reading, AppInv, EventsInv
  <1>19. CASE WaitForFrame
    BY <1>19, ReadingKept DEF WaitForFrame, OnlyVideo, Ended, Idle, flags, portalVars,
       videoVars, appVars, TypeInv, Videos, Portals, Reading, AppInv, EventsInv
  <1>20. CASE WaitForGeometry
    <2>1. /\ eventQueue # <<>> /\ Head(eventQueue).kind \notin Terminals /\ eventQueue' = Tail(eventQueue)
          /\ UNCHANGED <<region, slot, held, frame, video, forwarder>> /\ app = "geometry"
          /\ forwarder.pc = "none" /\ portal.pc # "none"
      BY <1>20 DEF WaitForGeometry, OnlyApp, AppInv, TypeInv, Portals, PortalPlaces, Requests,
         flags, portalVars, videoVars, appVars
    <2>2. /\ Len(eventQueue) \in Nat \ {0} /\ Len(eventQueue') = Len(eventQueue) - 1
          /\ Head(eventQueue) = eventQueue[1] /\ eventQueue[1] \in Events /\ 1 \in 1..Len(eventQueue)
          /\ \A i \in 1..Len(eventQueue') : eventQueue'[i] = eventQueue[i + 1] /\ i + 1 \in 1..Len(eventQueue)
      BY <2>1, EventsTail
    <2>3. \A h : AllAre(h) => AllAre(h)'
      BY <2>1 DEF AllAre
    <2>4. CASE Head(eventQueue).kind = "FormatChanged"
      <3>1. app' = "checking" /\ geometry' = eventQueue[1].geometry /\ IsFormat(1) /\ geometry' \in Int
        BY <1>20, <2>2, <2>4 DEF WaitForGeometry, IsFormat, Events
      <3>2. TypeInv' /\ DOMAIN eventQueue' = 1..Len(eventQueue')
        <4>1. TypeInv'
          BY <1>20, TypeStep DEF Next, StartupStep
        <4> QED
          BY <4>1, LenProperties DEF TypeInv
      <3>3. CASE Len(eventQueue) = 1
        <4>1. OnlyAnnounced(geometry')
          BY <2>2, <3>1, <3>3 DEF OnlyAnnounced
        <4> DEFINE h == geometry'
        <4>2. h \in Int /\ OnlyAnnounced(h) /\ (\E i \in 1..Len(eventQueue) : IsFormat(i))
          BY <2>2, <3>1, <4>1
        <4> HIDE DEF h
        <4>3. AllAre(h) /\ video.announced = h
          BY <2>1, <4>2 DEF GeometryInv
        <4>4. \A f \in {slot', held', frame'} : f # NoFrame => f.geometry = h
          BY <2>1, <4>3 DEF AllAre
        <4> QED
          BY <2>1, <3>1, <4>3, <4>4 DEF GeometryInv, AllAre, h
      <3>4. CASE Len(eventQueue) # 1
        <4>1. 1 \in 1..Len(eventQueue') /\ eventQueue'[1] = eventQueue[2] /\ 2 \in 1..Len(eventQueue) /\ 1 < Len(eventQueue)
          BY <2>2, <3>4
        <4>2. eventQueue[2].kind \in Terminals \/ IsFormat(2)
          <5>1. eventQueue[2] \in Events
            BY <4>1, ElementOfSeq DEF TypeInv
          <5>2. eventQueue[2].kind # "Selected"
            BY <4>1 DEF EventsInv
          <5> QED
            BY <5>1, <5>2 DEF Events, Kinds, IsFormat
        <4>3. IsFormat(2) => eventQueue[2].geometry # geometry'
          BY <3>1, <4>1 DEF EventsInv
        <4>4. Surprised'
          BY <3>2, <4>1, <4>2, <4>3 DEF Surprised, Changes, IsFormat
        <4> QED
          BY <3>1, <4>4 DEF GeometryInv
      <3> QED
        BY <3>3, <3>4
    <2>5. CASE Head(eventQueue).kind # "FormatChanged"
      <3>1. UNCHANGED <<geometry, app>> /\ ~IsFormat(1)
        BY <1>20, <2>2, <2>5 DEF WaitForGeometry, IsFormat
      <3>2. \A i \in 1..Len(eventQueue) : IsFormat(i) => i - 1 \in 1..Len(eventQueue') /\ eventQueue'[i - 1] = eventQueue[i]
        BY <2>2, <3>1
      <3>3. \A h : OnlyAnnounced(h)' => OnlyAnnounced(h)
        BY <3>2 DEF OnlyAnnounced, IsFormat
      <3>4. (\E i \in 1..Len(eventQueue') : eventQueue'[i].kind = "FormatChanged")
               => \E i \in 1..Len(eventQueue) : IsFormat(i)
        BY <2>2 DEF IsFormat
      <3>5. (\A i \in 1..Len(eventQueue') : eventQueue'[i].kind # "FormatChanged")
               => \A i \in 1..Len(eventQueue) : ~IsFormat(i)
        BY <3>2 DEF IsFormat
      <3>6. ~Reading'
        BY <2>1, <3>1 DEF Reading
      <3> QED
        BY <2>1, <2>3, <3>1, <3>3, <3>4, <3>5, <3>6 DEF GeometryInv, IsFormat
    <2> QED
      BY <2>4, <2>5
  <1>21. CASE CheckStartup
    <2>1. ~Surprised /\ Reading /\ app' # "geometry"
          /\ UNCHANGED <<region, geometry, slot, held, frame, video>>
      BY <1>21 DEF CheckStartup, OnlyApp, Reading, flags, portalVars, videoVars, appVars
    <2>2. AllAre(geometry) => AllAre(geometry)'
      BY <2>1 DEF AllAre
    <2> QED
      BY <2>1, <2>2 DEF GeometryInv, AllAre
  <1>22. CASE ReceiveFirst
    BY <1>22, ReadingKept DEF ReceiveFirst, OnlyApp, NoFrame, flags, portalVars, videoVars,
       appVars, TypeInv, Videos, Portals, Reading, AppInv, EventsInv
  <1>23. CASE DrawRegion
    BY <1>23, ReadingKept DEF DrawRegion, OnlyApp, flags, portalVars, videoVars, appVars,
       TypeInv, Videos, Portals, Reading, AppInv, EventsInv
  <1>24. CASE AbandonStartup
    <2>1. app' = "dropping" /\ forwarder'.pc = "none"
      BY <1>24 DEF AbandonStartup, GiveUp, AppInv, TypeInv
    <2> QED
      BY <2>1, NobodyReads DEF Reading
  <1>25. CASE DismissRegion
    <2>1. app' = "dropping" /\ forwarder'.pc = "none"
      BY <1>25 DEF DismissRegion, GiveUp, AppInv, TypeInv
    <2> QED
      BY <2>1, NobodyReads DEF Reading
  <1>26. CASE ChooseFrame
    BY <1>26, ReadingKept DEF ChooseFrame, OnlyForwarder, NoFrame, flags, portalVars,
       videoVars, appVars, TypeInv, Videos, Portals, Reading, AppInv, EventsInv
  <1>27. CASE DrainEvent
    <2>1. /\ eventQueue # <<>> /\ eventQueue' = Tail(eventQueue) /\ forwarder.pc = "drain"
          /\ UNCHANGED <<region, slot, frame, video, app>> /\ held' = held
          /\ app \in {"forwarding", "stopping", "joining"}
      BY <1>27 DEF DrainEvent, OnlyForwarder, EndForwarding, AppInv, flags, portalVars,
         videoVars, appVars
    <2>2. CASE ~region \/ forwarder'.pc = "over"
      BY <2>1, <2>2 DEF GeometryInv, Reading
    <2>3. CASE region /\ forwarder'.pc # "over"
      <3>1. Head(eventQueue).kind \notin Terminals /\ ~Changes(Head(eventQueue)) /\ geometry' = geometry
        BY <1>27, <2>3 DEF DrainEvent, EndForwarding, TypeInv
      <3>2. /\ Len(eventQueue) \in Nat \ {0} /\ Len(eventQueue') = Len(eventQueue) - 1 /\ Head(eventQueue) = eventQueue[1]
            /\ \A i \in 1..Len(eventQueue') : eventQueue'[i] = eventQueue[i + 1]
        BY <2>1, EventsTail
      <3>3. TypeInv' /\ DOMAIN eventQueue' = 1..Len(eventQueue')
        <4>1. TypeInv'
          BY <1>27, TypeStep DEF Next, ForwarderStep
        <4> QED
          BY <4>1, LenProperties DEF TypeInv
      <3>4. ASSUME Surprised
            PROVE  Surprised'
        <4>1. PICK i \in 1..Len(eventQueue) :
                     eventQueue[i].kind \in Terminals \/ (IsFormat(i) /\ eventQueue[i].geometry # geometry)
          BY <3>4, NotSurprised
        <4>2. i # 1
          BY <3>1, <3>2, <4>1 DEF Changes, IsFormat
        <4>3. i - 1 \in 1..Len(eventQueue') /\ eventQueue'[i - 1] = eventQueue[i]
          BY <3>2, <4>2
        <4> QED
          BY <3>1, <3>3, <4>1, <4>3 DEF Surprised, Changes, IsFormat
      <3>5. AllAre(geometry) => AllAre(geometry)'
        BY <2>1, <3>1 DEF AllAre
      <3> QED
        BY <2>1, <2>3, <3>1, <3>4, <3>5 DEF GeometryInv, Reading, AllAre
    <2> QED
      BY <2>2, <2>3
  <1>28. CASE ForwardFrame
    BY <1>28, ReadingKept DEF ForwardFrame, OnlyForwarder, EndForwarding, NoFrame, flags,
       portalVars, videoVars, appVars, TypeInv, Videos, Portals, Reading, AppInv, EventsInv
  <1>29. CASE QuitForwarding
    BY <1>29, ReadingKept DEF QuitForwarding, OnlyForwarder, flags, portalVars, videoVars,
       appVars, TypeInv, Videos, Portals, Reading, AppInv, EventsInv
  <1>30. CASE Cancel
    BY <1>30, ReadingKept DEF Cancel, flags, portalVars, videoVars, appVars, TypeInv, Videos,
       Portals, Reading, AppInv, EventsInv
  <1>31. CASE TakeEvent
    BY <1>31, ReadingKept DEF TakeEvent, OnlyApp, flags, portalVars, videoVars, appVars,
       TypeInv, Videos, Portals, Reading, AppInv, EventsInv
  <1>32. CASE Release
    BY <1>32, ReadingKept DEF Release, flags, portalVars, videoVars, appVars, TypeInv, Videos,
       Portals, Reading, AppInv, EventsInv
  <1>33. CASE JoinPortal
    BY <1>33, ReadingKept DEF JoinPortal, OnlyApp, NoFrame, flags, portalVars, videoVars,
       appVars, TypeInv, Videos, Portals, Reading, AppInv, EventsInv
  <1>34. CASE JoinForwarder
    BY <1>34, ReadingKept DEF JoinForwarder, OnlyApp, flags, portalVars, videoVars, appVars,
       TypeInv, Videos, Portals, Reading, AppInv, EventsInv
  <1>35. CASE UNCHANGED vars
    BY <1>35, ReadingKept DEF vars, flags, portalVars, videoVars, appVars, Reading, EventsInv
  <1> QED
    BY <1>1, <1>2, <1>3, <1>4, <1>5, <1>6, <1>7, <1>8, <1>9, <1>10, <1>11, <1>12, <1>13, <1>14,
       <1>15, <1>16, <1>17, <1>18, <1>19, <1>20, <1>21, <1>22, <1>23, <1>24, <1>25, <1>26,
       <1>27, <1>28, <1>29, <1>30, <1>31, <1>32, <1>33, <1>34, <1>35
       DEF Next, PortalStep, StartupStep, ForwarderStep, ReleaseStep

-----------------------------------------------------------------------------
(* What is shown                                                            *)

LEMMA DrawnStep ==
  ASSUME TypeInv, ThreadsInv, AppInv, EventsInv, GeometryInv, DrawnInv, [Next]_vars
  PROVE  DrawnInv'
  <1>1. CASE Answer
    BY <1>1 DEF Answer, Requests, flags, portalVars, videoVars, appVars, DrawnInv, AppInv,
       TypeInv
  <1>2. CASE Revoke
    BY <1>2 DEF Revoke, flags, portalVars, videoVars, appVars, DrawnInv, AppInv, TypeInv
  <1>3. CASE Connect
    BY <1>3 DEF Connect, EndWork, flags, portalVars, videoVars, appVars, DrawnInv, AppInv,
       TypeInv
  <1>4. CASE Proceed
    BY <1>4 DEF Proceed, Following, Event, Requests, flags, portalVars, videoVars, appVars,
       DrawnInv, AppInv, TypeInv
  <1>5. CASE Refused
    BY <1>5 DEF Refused, EndWork, Requests, flags, portalVars, videoVars, appVars, DrawnInv,
       AppInv, TypeInv
  <1>6. CASE CancelRequest
    BY <1>6 DEF CancelRequest, EndWork, Requests, flags, portalVars, videoVars, appVars,
       DrawnInv, AppInv, TypeInv
  <1>7. CASE Notice
    BY <1>7 DEF Notice, flags, portalVars, videoVars, appVars, DrawnInv, AppInv, TypeInv
  <1>8. CASE Watch
    BY <1>8 DEF Watch, flags, portalVars, videoVars, appVars, DrawnInv, AppInv, TypeInv
  <1>9. CASE JoinVideo
    BY <1>9 DEF JoinVideo, EndWork, flags, portalVars, videoVars, appVars, DrawnInv, AppInv,
       TypeInv
  <1>10. CASE CloseSession
    BY <1>10 DEF CloseSession, flags, portalVars, videoVars, appVars, DrawnInv, AppInv, TypeInv
  <1>11. CASE Disconnect
    BY <1>11 DEF Disconnect, NoFrame, flags, portalVars, videoVars, appVars, DrawnInv, AppInv,
       TypeInv
  <1>12. CASE ReportEnd
    BY <1>12 DEF ReportEnd, Event, flags, portalVars, videoVars, appVars, DrawnInv, AppInv,
       TypeInv
  <1>13. CASE OpenStream
    BY <1>13 DEF OpenStream, OnlyVideo, Ended, Idle, flags, portalVars, videoVars, appVars,
       DrawnInv, AppInv, TypeInv
  <1>14. CASE NegotiateFormat
    BY <1>14 DEF NegotiateFormat, OnlyVideo, Ended, Idle, flags, portalVars, videoVars,
       appVars, DrawnInv, AppInv, TypeInv
  <1>15. CASE FailedImport
    BY <1>15 DEF FailedImport, FallBack, OnlyVideo, Ended, Idle, flags, portalVars, videoVars,
       appVars, DrawnInv, AppInv, TypeInv
  <1>16. CASE ReadBuffer
    BY <1>16 DEF ReadBuffer, Ended, Idle, FormatChanged, MaxFrames, flags, portalVars,
       videoVars, appVars, DrawnInv, AppInv, TypeInv
  <1>17. CASE SendFrame
    BY <1>17 DEF SendFrame, Idle, flags, portalVars, videoVars, appVars, DrawnInv, AppInv,
       TypeInv
  <1>18. CASE LeaveLoop
    BY <1>18 DEF LeaveLoop, OnlyVideo, Ended, Idle, flags, portalVars, videoVars, appVars,
       DrawnInv, AppInv, TypeInv
  <1>19. CASE WaitForFrame
    BY <1>19 DEF WaitForFrame, OnlyVideo, Ended, Idle, flags, portalVars, videoVars, appVars,
       DrawnInv, AppInv, TypeInv
  <1>20. CASE WaitForGeometry
    <2>1. app = "geometry" /\ app' \in {"geometry", "checking"} /\ forwarder.pc = "none"
          /\ UNCHANGED <<region, drawn, forwarder, held, output>>
      BY <1>20 DEF WaitForGeometry, OnlyApp, AppInv, flags, portalVars, videoVars, appVars
    <2> QED
      BY <2>1 DEF DrawnInv
  <1>21. CASE CheckStartup
    <2>1. /\ ~Surprised /\ Reading /\ UNCHANGED <<region, geometry, drawn, held, output>>
          /\ \/ app = "drawn" /\ app' = "forwarding"
             \/ app = "checking" /\ app' = "receiving" /\ UNCHANGED forwarder
      BY <1>21 DEF CheckStartup, OnlyApp, Reading, flags, portalVars, videoVars, appVars
    <2>2. region /\ app = "drawn" => geometry = drawn
      BY <2>1 DEF GeometryInv, DrawnInv, AllAre
    <2> QED
      BY <2>1, <2>2 DEF DrawnInv
  <1>22. CASE ReceiveFirst
    BY <1>22 DEF ReceiveFirst, OnlyApp, NoFrame, flags, portalVars, videoVars, appVars,
       DrawnInv, AppInv, TypeInv
  <1>23. CASE DrawRegion
    <2>1. app = "drawing" /\ app' = "drawn" /\ drawn' = held.geometry
          /\ UNCHANGED <<region, geometry, forwarder, held, output>>
      BY <1>23 DEF DrawRegion, OnlyApp, flags, portalVars, videoVars, appVars
    <2>2. output.frame = NoFrame /\ forwarder.pc = "none"
      BY <2>1 DEF AppInv, TypeInv
    <2> QED
      BY <2>1, <2>2 DEF DrawnInv
  <1>24. CASE AbandonStartup
    BY <1>24 DEF AbandonStartup, GiveUp, flags, portalVars, videoVars, appVars, DrawnInv,
       AppInv, TypeInv
  <1>25. CASE DismissRegion
    BY <1>25 DEF DismissRegion, GiveUp, flags, portalVars, videoVars, appVars, DrawnInv,
       AppInv, TypeInv
  <1>26. CASE ChooseFrame
    BY <1>26 DEF ChooseFrame, OnlyForwarder, NoFrame, flags, portalVars, videoVars, appVars,
       DrawnInv, AppInv, TypeInv
  <1>27. CASE DrainEvent
    <2>1. /\ forwarder.pc = "drain" /\ UNCHANGED <<region, drawn, app, output>>
          /\ app \in {"forwarding", "stopping", "joining"}
          /\ geometry' # geometry => ~region
      BY <1>27 DEF DrainEvent, OnlyForwarder, EndForwarding, AppInv, flags, portalVars,
         videoVars, appVars
    <2> QED
      BY <2>1 DEF DrawnInv
  <1>28. CASE ForwardFrame
    <2>1. /\ forwarder.pc = "drain" /\ UNCHANGED <<region, geometry, drawn, app>>
          /\ app \in {"forwarding", "stopping", "joining"}
          /\ \/ UNCHANGED output
             \/ /\ held # NoFrame /\ Size[held.geometry] = Size[geometry]
                /\ output' = [frame |-> held, under |-> geometry]
      BY <1>28 DEF ForwardFrame, OnlyForwarder, EndForwarding, AppInv, flags, portalVars,
         videoVars, appVars
    <2>2. ~Surprised /\ Reading
      <3>1. eventQueue = <<>> /\ DOMAIN eventQueue = {}
        BY <1>28 DEF ForwardFrame
      <3> QED
        BY <2>1, <3>1 DEF Surprised, Reading
    <2>3. region => geometry = drawn /\ (held # NoFrame => held.geometry = drawn)
      BY <2>1, <2>2 DEF GeometryInv, DrawnInv, AllAre
    <2> QED
      BY <2>1, <2>3 DEF DrawnInv
  <1>29. CASE QuitForwarding
    BY <1>29 DEF QuitForwarding, OnlyForwarder, flags, portalVars, videoVars, appVars,
       DrawnInv, AppInv, TypeInv
  <1>30. CASE Cancel
    BY <1>30 DEF Cancel, flags, portalVars, videoVars, appVars, DrawnInv, AppInv, TypeInv
  <1>31. CASE TakeEvent
    BY <1>31 DEF TakeEvent, OnlyApp, flags, portalVars, videoVars, appVars, DrawnInv, AppInv,
       TypeInv
  <1>32. CASE Release
    BY <1>32 DEF Release, flags, portalVars, videoVars, appVars, DrawnInv, AppInv, TypeInv
  <1>33. CASE JoinPortal
    BY <1>33 DEF JoinPortal, OnlyApp, NoFrame, flags, portalVars, videoVars, appVars, DrawnInv,
       AppInv, TypeInv
  <1>34. CASE JoinForwarder
    BY <1>34 DEF JoinForwarder, OnlyApp, flags, portalVars, videoVars, appVars, DrawnInv,
       AppInv, TypeInv
  <1>35. CASE UNCHANGED vars
    BY <1>35 DEF vars, flags, portalVars, videoVars, appVars, DrawnInv, AppInv, TypeInv
  <1> QED
    BY <1>1, <1>2, <1>3, <1>4, <1>5, <1>6, <1>7, <1>8, <1>9, <1>10, <1>11, <1>12, <1>13, <1>14,
       <1>15, <1>16, <1>17, <1>18, <1>19, <1>20, <1>21, <1>22, <1>23, <1>24, <1>25, <1>26,
       <1>27, <1>28, <1>29, <1>30, <1>31, <1>32, <1>33, <1>34, <1>35
       DEF Next, PortalStep, StartupStep, ForwarderStep, ReleaseStep

-----------------------------------------------------------------------------
(* The invariant                                                            *)

LEMMA InitiallySound ==
  ASSUME Init
  PROVE  CaptureInv
  <1> USE DEF Init
  <1>1. TypeInv
    BY CaptureBounds DEF TypeInv, Portals, PortalPlaces, Requests, Videos, VideoPlaces, Formats, Outcomes,
           Terminals, NoFrame, NoGeometry, Idle
  <1>2. ThreadsInv /\ AppInv
    BY DEF ThreadsInv, AppInv, Unshared, Requests
  <1>3. EventsInv /\ GeometryInv /\ DrawnInv
    BY DEF EventsInv, GeometryInv, DrawnInv, AllAre, Reading, IsFormat, NoFrame, NoGeometry
  <1> QED
    BY <1>1, <1>2, <1>3 DEF CaptureInv

LEMMA CaptureInvStep ==
  ASSUME CaptureInv, [Next]_vars
  PROVE  CaptureInv'
  BY TypeStep, ThreadsStep, AppStep, EventsStep, ReadingStep, DrawnStep DEF CaptureInv

\* The invariant of the capture: what the threads leave behind at their end, which
\* events can lie in the queue, and who has still to read which geometry.
THEOREM CaptureInvariant == Spec => []CaptureInv
  <1>1. Init => CaptureInv
    BY InitiallySound
  <1>2. CaptureInv /\ [Next]_vars => CaptureInv'
    BY CaptureInvStep
  <1> QED
    BY <1>1, <1>2, PTL DEF Spec

\* Once the capture was stopped, or a start gave up, the desktop shares no screen
\* with it, no thread reads the stream, and no picture lies in the channel.
THEOREM StopEndsSharing == Spec => []StoppedIsUnshared
  <1>1. CaptureInv => StoppedIsUnshared
    BY DEF CaptureInv, ThreadsInv, AppInv, StoppedIsUnshared, Unshared
  <1> QED
    BY <1>1, CaptureInvariant, PTL

\* No picture is cropped with a region that was drawn on another geometry, nor
\* read with a geometry of another size.
THEOREM RegionStaysAsDrawn == Spec => []RegionIsAsDrawn
  <1>1. CaptureInv => RegionIsAsDrawn
    BY DEF CaptureInv, DrawnInv, RegionIsAsDrawn
  <1> QED
    BY <1>1, CaptureInvariant, PTL
=============================================================================
