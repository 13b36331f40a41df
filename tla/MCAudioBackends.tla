--------------------------- MODULE MCAudioBackends ---------------------------
(***************************************************************************)
(* One of the two audio backends, on the same channel: the system of a     *)
(* behaviour is chosen at its start and seen in the shape of its world.    *)
(***************************************************************************)
EXTENDS WasapiCapture, PipeWireCapture

Bound(frames, changes, failures) == [frames |-> frames, changes |-> changes, failures |-> failures]

\* A change or a failure among two frames, and two changes, so that what has gone
\* away returns.
MCLimits == {Bound(2, 1, 0), Bound(1, 0, 1), Bound(0, 2, 0)}

OnLinux == "gone" \in DOMAIN publisher

Init == WasapiInit \/ PipeWireInit
Next == (~OnLinux /\ WasapiNext) \/ (OnLinux /\ PipeWireNext)

Fairness ==
  /\ WF_audioVars(AwaitReady) /\ WF_audioVars(Join) /\ WF_audioVars(Forward)
  /\ WF_audioVars(IF OnLinux THEN PipeWireThread ELSE WasapiThread)
  /\ SF_audioVars(OnLinux /\ Hear) /\ SF_audioVars(OnLinux /\ Refresh) /\ SF_audioVars(OnLinux /\ Link)

FairSpec == Init /\ [][Next]_audioVars /\ Fairness

Available == IF OnLinux THEN TargetAvailable ELSE SourceAvailable
Captured == IF OnLinux THEN TargetCaptured ELSE SourceCaptured

Unnoticed == ~OnLinux /\ LostUnwatched

\* A source that is there to stay, and means one thing, is captured again for
\* as long as the session goes on and somebody takes its events ("waiting for
\* the same application to return", audio-windows/src/platform.rs:945); on
\* Linux the stream of what was meant before is not kept either.  Not so on
\* Windows when no handle to the process was granted, because it had gone or
\* by a refusal, which is ignored: then its end is never noticed.
SourceIsCaptured ==
  (<>[](call = "running" /\ connected /\ Available)) => <>[](Captured \/ Unnoticed)
=============================================================================
