------------------------------ MODULE MCScreen ------------------------------
(***************************************************************************)
(* Screens for TLC: either a screen that is read, or one that is shared on *)
(* Linux.                                                                  *)
(***************************************************************************)
EXTENDS ScreenReading, ScreenCapture

CONSTANTS a, b

VARIABLE subject   \* "reading" or "capture"

\* Two places: one with text beside a picture that may change, one whose text
\* may change to another that looks alike.
Content(text, skin) == [text |-> text, skin |-> skin]
MCScreens ==
  {<<Content(a, skin), Content(a, 0)>> : skin \in {0, 1}}
    \cup {<<Content(a, 0), Content(text, 0)>> : text \in {Nothing, b}}

\* Three geometries: a picture, the same turned around, and one of another
\* size.  The source shows the first one before it may change.  A region is
\* drawn where buffers are read from memory; a whole source may come from the
\* GPU.
MCSetups == {[region |-> TRUE, gpu |-> FALSE], [region |-> FALSE, gpu |-> TRUE]}
MCSource == <<{1}, {1, 2, 3}>>
MCSize == <<"wide", "wide", "tall">>

\* The other one of the two is in one of its initial states.
MCInit ==
  /\ ReadingInit /\ Init
  /\ \/ subject = "reading" /\ region
     \/ subject = "capture" /\ screen = <<Content(a, 0), Content(a, 0)>>

allVars == <<subject, readingVars, vars>>
Reads(A) == subject = "reading" /\ A /\ UNCHANGED <<subject, vars>>
Captures(A) == subject = "capture" /\ A /\ UNCHANGED <<subject, readingVars>>

MCNext == Reads(ReadingNext) \/ Captures(Next)

MCSpec ==
  /\ MCInit /\ [][MCNext]_allVars
  /\ WF_allVars(Reads(Processor))
  /\ WF_allVars(Captures(Connect)) /\ WF_allVars(Captures(Proceed))
  /\ WF_allVars(Captures(PortalStep)) /\ WF_allVars(Captures(OpenStream))
  /\ WF_allVars(Captures(SendFrame)) /\ WF_allVars(Captures(stop /\ LeaveLoop))
  /\ WF_allVars(Captures(WaitForFrame)) /\ WF_allVars(Captures(StartupStep))
  /\ WF_allVars(Captures(AbandonStartup))
  /\ WF_allVars(Captures(ForwarderStep))
  /\ WF_allVars(Captures(TakeEvent))
  /\ WF_allVars(Captures(cancelled /\ Release))
  /\ WF_allVars(Captures(ReleaseStep))

ReadScreenIsFollowed == subject = "reading" => ScreenIsFollowed
=============================================================================
