---------------------- MODULE MCCaptionPresentation ----------------------
(* CaptionPresentation for TLC: two sessions, one that follows itself with  *)
(* two frames, and one that is disturbed.                                   *)
EXTENDS CaptionPresentation

Bounds(sessions, presentations, revisions, disturbances) ==
  [sessions |-> sessions, presentations |-> presentations, revisions |-> revisions,
   disturbances |-> disturbances]
MCOccasions ==
  {Bounds(2, 1, 3, {}), Bounds(1, 2, 2, {}), Bounds(1, 1, 2, {"appearance"}), Bounds(1, 1, 2, {"emit"})}
=============================================================================
