-------------------------- MODULE MCVisualSession --------------------------
(* VisualSession for TLC: the environments of each run.                    *)
EXTENDS VisualSession

Platforms == {"linux", "windows"}

\* Environments whose session is stopped once, or never.
Env(platforms, faults, images, notices, published, presses) ==
  [platform : platforms, fault : faults, frames : {images}, events : {notices},
   presents : {published}, stops : {presses}]

\* Stop on both platforms; every failure; the loss of the source; frames that are
\* put back while the session fails; and on Linux a frame whose OCR fails, a capture
\* event and a Stop, so that three threads may wait for the main thread.
MCScenarios ==
  UNION {Env({"linux"}, {"none"}, 1, 0, 1, 1), Env({"windows"}, {"none"}, 1, 0, 0, 1),
         Env(Platforms, {"closed"}, 0, 1, 0, 0), Env(Platforms, {"spawn"}, 0, 0, 0, 0),
         Env({"linux"}, {"dismissed", "preparation", "captureStop", "slow", "closed"}, 0, 0, 0, 1),
         Env({"linux"}, {"report"}, 0, 1, 0, 1), Env({"linux"}, {"ocr"}, 1, 1, 0, 1),
         Env({"linux"}, {"emit"}, 2, 0, 2, 0), Env({"windows"}, {"emit"}, 1, 0, 1, 0)}

LinuxAtRest == Env({"linux"}, {"none"}, 0, 0, 0, 1)
OneWindowsEvent == Env({"windows"}, {"none"}, 0, 1, 0, 1)
=============================================================================
