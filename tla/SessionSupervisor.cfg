\* Two sessions (a third number is the limit at which checked_add refuses),
\* two workers, six publications.
SPECIFICATION Spec
SYMMETRY ModeSymmetry
CONSTANTS
  Modes = {audio, visual}
  Sources = {device}
  MaxSession = 3
  MaxWorker = 3
  MaxRevision = 6
INVARIANT NoWorkerOutlivesItsSession
PROPERTY NoRevival
PROPERTY ImplementsOwnership
CHECK_DEADLOCK FALSE
