---------------------------- MODULE ScreenReading ----------------------------
(***************************************************************************)
(* How a screen becomes labels: the loop of the visual processor           *)
(* (visual.rs), the gate that decides which frames are worth an OCR pass   *)
(* (visual-pipeline, change.rs), the scanner that divides a frame in areas *)
(* and reads the changed ones a few at a time (visual-ocr-rapid,           *)
(* regions.rs), the stabilizer that waits for text to be read twice        *)
(* (stabilize.rs) and the flag that ends a pass (RapidOcrCancellation).    *)
(*                                                                         *)
(* A screen has places, each an area with one line of text, or none, and   *)
(* other pixels, its skin.  Two texts look alike to the gate, which        *)
(* samples coarsely; to the scanner any two contents differ.  The screen   *)
(* may change at any step, so a frame is the screen when it is taken.      *)
(* Times are the order of samples, and a pass is slow or not.              *)
(***************************************************************************)
EXTENDS Integers, FiniteSets, SequencesExt

CONSTANTS
  Places,      \* numbered in the order of their static priority
  Screens,     \* what may be on the screen: functions on Places
  Moving,      \* places whose areas have other bounds when their content changes
  Focused,     \* the detection mode: one analysed frame is enough
  RefreshAge,  \* samples after which a frame is analysed whatever the gate sees
  MaxSlow      \* bound on the passes that end too late for a changed screen

ASSUME ReadingBounds ==
  /\ Places = 1..Cardinality(Places) /\ Moving \subseteq Places /\ Focused \in BOOLEAN
  /\ RefreshAge \in Nat \ {0} /\ MaxSlow \in Nat

VARIABLES
  screen,
  processor, \* its place, frame, areas to read, visible texts
  gate,      \* FrameGate: accepted fingerprint, awaiting_confirmation, age
  scanner,   \* RegionScanner: previous frame, parity of the pass, areas
  tracks,    \* TextStabilizer, by place
  shownText, \* what the main WebView was told to be visible
  cancel,    \* RapidOcrCancellation::cancel, with the session's token before it
  token,     \* the token of the pass that is active
  slow

readingVars == <<screen, processor, gate, scanner, tracks, shownText, cancel, token, slow>>

Nothing == "none"
NoText == [p \in Places |-> Nothing]
NoImage == <<>>
Required == IF Focused THEN 1 ELSE 2
MaxMissing == 1
ThisPass == Cardinality(Places) + 1

ProcessorAt(pc) == processor.pc = pc
ProcessorGoes(pc) == processor' = [processor EXCEPT !.pc = pc]
Smaller(a, b) == IF a < b THEN a ELSE b

NewRegion(bounds) == [bounds |-> bounds, line |-> Nothing, dirty |-> TRUE, last |-> 0, hadText |-> FALSE]
NewScanner == [previous |-> NoImage, odd |-> FALSE, regions |-> [p \in Places |-> NewRegion(0)]]
NewTracks == [p \in Places |-> [candidate |-> Nothing, hits |-> 0, missing |-> 0, visible |-> Nothing]]

ReadingInit ==
  /\ screen \in Screens
  /\ processor = [pc |-> "idle", frame |-> NoImage, work |-> <<>>, scanned |-> FALSE]
  /\ gate = [accepted |-> NoImage, confirm |-> FALSE, age |-> 0]
  /\ scanner = NewScanner /\ tracks = NewTracks
  /\ shownText = NoText
  /\ cancel = "none" /\ token = "none"
  /\ slow = MaxSlow

-----------------------------------------------------------------------------
(* The screen, while somebody looks at it.                                 *)

ScreenChanges ==
  /\ ~ProcessorAt("over")
  /\ screen' \in Screens \ {screen}
  /\ \E p \in Places : \A q \in Places \ {p} : screen'[q] = screen[q]
  /\ UNCHANGED <<processor, gate, scanner, tracks, shownText, cancel, token, slow>>

-----------------------------------------------------------------------------
(* FrameGate::evaluate_with_pending_work                                   *)

\* fingerprint: too coarse to tell one text from another.
Fingerprint(frame) == [p \in Places |-> [text |-> frame[p].text # Nothing, skin |-> frame[p].skin]]

Pending == scanner.previous # NoImage /\ \E p \in Places : scanner.regions[p].dirty

Decision(frame, age) ==
  CASE gate.accepted = NoImage -> "FirstFrame"
    [] gate.accepted # NoImage /\ gate.accepted # Fingerprint(frame) -> "Changed"
    [] gate.accepted = Fingerprint(frame) /\ gate.confirm -> "Confirmation"
    [] gate.accepted = Fingerprint(frame) /\ ~gate.confirm /\ (Pending \/ age >= RefreshAge) -> "Refresh"
    [] OTHER -> "Unchanged"

-----------------------------------------------------------------------------
(* RegionScanner                                                           *)

Bounds(p, frame) == IF p \in Moving THEN frame[p].skin ELSE 0

\* Only the order of the passes that read an area last matters.
Rank(r) ==
  LET passes == {scanner.regions[p].last : p \in Places} \ {0}
  IN IF r = 0 THEN 0 ELSE Cardinality({s \in passes : s <= r})
Aged(p) == [scanner.regions[p] EXCEPT !.last = Rank(@)]

\* Faulty: an area keeps its lines until it is read again.
PreparedKeepingLines(frame) ==
  [previous |-> frame, odd |-> ~scanner.odd,
   regions |-> [p \in Places |->
     IF scanner.previous = NoImage \/ Bounds(p, frame) # Aged(p).bounds
       THEN NewRegion(Bounds(p, frame))
       ELSE [Aged(p) EXCEPT !.dirty = @ \/ frame[p] # scanner.previous[p]]]]

\* prepare: an area whose bounds are new has never been read; one with other
\* pixels keeps the line whose own pixels are the same, until it is read again.
Prepared(frame) ==
  [previous |-> frame, odd |-> ~scanner.odd,
   regions |-> [p \in Places |->
     IF scanner.previous = NoImage \/ Bounds(p, frame) # Aged(p).bounds
       THEN NewRegion(Bounds(p, frame))
       ELSE [Aged(p) EXCEPT
               !.dirty = @ \/ frame[p] # scanner.previous[p],
               !.line = IF frame[p].text = scanner.previous[p].text THEN @ ELSE Nothing]]]

\* Faulty: the first place always belongs to an area that had text.
WorkOfHotAreas(s) ==
  LET Earlier(p, q) ==
        \/ s.regions[p].hadText /\ ~s.regions[q].hadText
        \/ s.regions[p].hadText = s.regions[q].hadText /\ p < q
  IN SetToSortSeq({p \in Places : s.regions[p].dirty}, Earlier)

\* work: oldest first, and on every second pass an area that had text before
\* all others.
Work(s) ==
  LET Earlier(p, q) ==
        \/ s.regions[p].last < s.regions[q].last
        \/ s.regions[p].last = s.regions[q].last /\ p < q
      work == SetToSortSeq({p \in Places : s.regions[p].dirty}, Earlier)
      hot == SelectInSeq(work, LAMBDA p : s.regions[p].hadText)
  IN IF s.odd /\ hot # 0 THEN <<work[hot]>> \o RemoveAt(work, hot) ELSE work

\* complete
Completed(p) ==
  [scanner EXCEPT !.regions[p] =
     [bounds |-> @.bounds, line |-> scanner.previous[p].text, dirty |-> FALSE,
      last |-> ThisPass, hadText |-> scanner.previous[p].text # Nothing]]

-----------------------------------------------------------------------------
(* TextStabilizer::update, for the text that is observed at one place.     *)

Updated(track, text) ==
  LET known == track.hits # 0
      repeated == known /\ text = track.candidate /\ track.missing = 0
      hits == IF repeated THEN Smaller(track.hits + 1, 2) ELSE 1
      missing == track.missing + 1
  IN IF text # Nothing
       THEN [candidate |-> text, hits |-> hits, missing |-> 0,
             visible |-> IF hits >= Required THEN text ELSE track.visible]
       ELSE IF known /\ missing <= MaxMissing
              THEN [track EXCEPT !.missing = missing]
              ELSE NewTracks[1]

Visible == [p \in Places |-> tracks[p].visible]

-----------------------------------------------------------------------------
(* The processor's loop and the pass.                                      *)

\* The newest frame is taken, or on Linux, where a source that does not change
\* sends none, the last one again; time may have passed since the last sample.
\* The gate decides whether the frame is analysed.
Sample ==
  /\ ProcessorAt("idle") /\ cancel = "none"
  /\ \E elapsed \in 1..RefreshAge :
       LET age == Smaller(gate.age + elapsed, RefreshAge)
           decision == Decision(screen, age)
       IN /\ gate' = [accepted |-> IF decision \in {"FirstFrame", "Changed", "Refresh"}
                                     THEN Fingerprint(screen) ELSE gate.accepted,
                      confirm |-> decision \in {"FirstFrame", "Changed"}
                                    \/ (gate.confirm /\ decision # "Confirmation"),
                      age |-> IF decision = "Unchanged" THEN age ELSE 0]
          /\ processor' = [processor EXCEPT !.frame = screen, !.pc = IF decision = "Unchanged" THEN @ ELSE "begin"]
  /\ UNCHANGED <<screen, scanner, tracks, shownText, cancel, token, slow>>

\* Faulty: the new token is installed without a look at the flag.
BeginUnaware ==
  /\ ProcessorAt("begin")
  /\ token' = "live"
  /\ scanner' = Prepared(processor.frame)
  /\ processor' = [processor EXCEPT !.pc = "scan", !.work = Work(Prepared(processor.frame)), !.scanned = FALSE]
  /\ UNCHANGED <<screen, gate, tracks, shownText, cancel, slow>>

\* RapidOcrCancellation::begin looks at the flag under the lock of the token.
Begin ==
  /\ ProcessorAt("begin")
  /\ token' = IF cancel = "none" THEN "live" ELSE "cancelled"
  /\ scanner' = Prepared(processor.frame)
  /\ processor' = [processor EXCEPT !.pc = "scan", !.work = Work(Prepared(processor.frame)), !.scanned = FALSE]
  /\ UNCHANGED <<screen, gate, tracks, shownText, cancel, slow>>

\* One inference; the budget is looked at before each but the first.
ScanArea ==
  /\ ProcessorAt("scan") /\ token = "live" /\ processor.work # <<>>
  /\ scanner' = Completed(Head(processor.work))
  /\ processor' = [processor EXCEPT !.work = Tail(@), !.scanned = TRUE]
  /\ UNCHANGED <<screen, gate, tracks, shownText, cancel, token, slow>>

\* Out of work or of budget, which is looked at before the token.
EndPass ==
  /\ ProcessorAt("scan") /\ (processor.scanned \/ processor.work = <<>>)
  /\ token' = "none"
  /\ tracks' = [p \in Places |-> Updated(tracks[p], scanner.regions[p].line)]
  /\ ProcessorGoes("done")
  /\ UNCHANGED <<screen, gate, scanner, shownText, cancel, slow>>

\* A pass that ends late is compared with the newest frame: when text it read
\* has changed since, or the whole scene, everything is forgotten, and of the
\* gate nothing.
Deliver ==
  /\ ProcessorAt("done") /\ cancel = "none"
  /\ \/ /\ shownText' = Visible
        /\ UNCHANGED <<scanner, tracks, slow>>
     \/ /\ slow > 0 /\ slow' = slow - 1
        /\ \/ \E p \in Places : Visible[p] # Nothing /\ screen[p].text # processor.frame[p].text
           \/ \A p \in Places : Fingerprint(screen)[p] # gate.accepted[p]
        /\ shownText' = NoText
        /\ scanner' = NewScanner /\ tracks' = NewTracks
  /\ ProcessorGoes("idle")
  /\ UNCHANGED <<screen, gate, cancel, token>>

\* The loop, the pass or what follows it finds that the session has ended.
LeaveReading ==
  /\ \/ cancel # "none" /\ (ProcessorAt("idle") \/ ProcessorAt("done"))
     \/ ProcessorAt("scan") /\ token = "cancelled"
  /\ ProcessorGoes("over")
  /\ token' = "none"
  /\ UNCHANGED <<screen, gate, scanner, tracks, shownText, cancel, slow>>

\* RapidOcrCancellation::cancel: the flag, then the token of the active pass.
CancelPass ==
  /\ \/ cancel = "none" /\ cancel' = "flagged" /\ UNCHANGED token
     \/ cancel = "flagged" /\ cancel' = "done"
        /\ token' = IF token = "live" THEN "cancelled" ELSE token
  /\ UNCHANGED <<screen, processor, gate, scanner, tracks, shownText, slow>>

Processor == Sample \/ Begin \/ ScanArea \/ EndPass \/ Deliver \/ LeaveReading

ReadingNext == ScreenChanges \/ Processor \/ CancelPass

ReadingSpec == ReadingInit /\ [][ReadingNext]_readingVars

\* The processor goes on; what is on the screen and when Stop is pressed is up
\* to others.
ReadingFairness == WF_readingVars(Processor)

FairReadingSpec == ReadingSpec /\ ReadingFairness

-----------------------------------------------------------------------------
(* Properties.                                                             *)

ReadingTypeOK ==
  /\ screen \in Screens /\ processor.frame \in Screens \cup {NoImage}
  /\ processor.pc \in {"idle", "begin", "scan", "done", "over"}
  /\ token \in {"none", "live", "cancelled"} /\ cancel \in {"none", "flagged", "done"}
  /\ slow \in 0..MaxSlow

\* A line in the cache is the text that the last prepared frame has there, and
\* an area that need not be read has no other: no pass goes on with text of
\* pixels that are gone, however the areas were read and interrupted.
CacheIsCurrent ==
  \A p \in Places :
    LET region == scanner.regions[p]
    IN /\ region.line # Nothing => region.line = scanner.previous[p].text
       /\ scanner.previous # NoImage /\ ~region.dirty => region.line = scanner.previous[p].text

\* When cancel() has returned no further area is read, also by a pass that
\* was about to begin.
NothingIsReadAfterCancel == [][cancel = "done" => ~ScanArea]_readingVars

\* Text that stays on the screen is shown in the end, and stays shown, and
\* what has left the screen does not, whatever the other places do meanwhile
\* and however few areas a pass can afford.
ScreenIsFollowed ==
  \A p \in Places : \A text \in {s[p].text : s \in Screens} :
    <>[](screen[p].text = text /\ cancel = "none") => <>[](shownText[p] = text)
=============================================================================
