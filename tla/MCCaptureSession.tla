------------------------- MODULE MCCaptureSession -------------------------
(* CaptureSession for TLC: the environments of each run.                   *)
EXTENDS CaptureSession

Env(n, e, f) == [sessions |-> n, events |-> e, faults |-> f]

\* Two sessions, one session that sees events, one session with each fault, and
\* the model that is not there when the stop has already been given up.
MCScenarios ==
  {Env(2, 0, {}), Env(2, 0, {"prepare"}), Env(1, 2, {}), Env(1, 0, {"prepare", "slow"})}
    \cup {Env(2, 0, {"capture"})} \cup {Env(1, 0, {f}) : f \in FaultKinds}

RecognizerFails == {Env(1, 0, {"transcription"})}
ModelFailsLate == {Env(1, 0, {"prepare", "slow"})}
=============================================================================
