-------------------------- MODULE SessionOwnership --------------------------
(***************************************************************************)
(* What the session supervisor promises, without lifecycles, snapshots or  *)
(* channels: sessions take turns.  A session owns the runtime from its     *)
(* start until its cleanup is done and every task enlisted for it has      *)
(* reported back; owners are numbered and a number never returns; once an  *)
(* owner is told to end it stays told.                                     *)
(***************************************************************************)
EXTENDS Integers

CONSTANTS Owners, Tasks

NoOwner == 0

VARIABLES
  owner,      \* who owns the runtime, NoOwner when it is free
  lastOwner,  \* the number given out last
  lastTask,   \* the task enlisted last
  ending,     \* the owner has been told to end
  tasks,      \* enlisted tasks that have not reported back
  cleaned     \* the owner's cleanup has been done

vars == <<owner, lastOwner, lastTask, ending, tasks, cleaned>>

Init ==
  /\ owner = NoOwner
  /\ lastOwner = 0
  /\ lastTask = 0
  /\ ending = FALSE
  /\ tasks = {}
  /\ cleaned = FALSE

Acquire ==
  /\ owner = NoOwner
  /\ lastOwner + 1 \in Owners
  /\ owner' = lastOwner + 1
  /\ lastOwner' = lastOwner + 1
  /\ UNCHANGED <<lastTask, ending, tasks, cleaned>>

Enlist ==
  /\ owner # NoOwner
  /\ lastTask + 1 \in Tasks
  /\ lastTask' = lastTask + 1
  /\ tasks' = tasks \cup {lastTask + 1}
  /\ UNCHANGED <<owner, lastOwner, ending, cleaned>>

End ==
  /\ owner # NoOwner
  /\ ending' = TRUE
  /\ UNCHANGED <<owner, lastOwner, lastTask, tasks, cleaned>>

\* A task reports back; its report may tell the owner to end.
Report(t) ==
  /\ t \in tasks
  /\ tasks' = tasks \ {t}
  /\ ending' \in {ending, TRUE}
  /\ UNCHANGED <<owner, lastOwner, lastTask, cleaned>>

\* The cleanup is done; its result may tell the owner to end.
Clean ==
  /\ owner # NoOwner
  /\ cleaned' = TRUE
  /\ ending' \in {ending, TRUE}
  /\ UNCHANGED <<owner, lastOwner, lastTask, tasks>>

Vacate ==
  /\ owner' = NoOwner
  /\ ending' = FALSE
  /\ tasks' = {}
  /\ cleaned' = FALSE
  /\ UNCHANGED <<lastOwner, lastTask>>

\* The last task has reported after the cleanup.
VacateOnReport(t) == tasks = {t} /\ cleaned /\ Vacate

\* The cleanup is done after the last task has reported.
VacateOnCleanup == owner # NoOwner /\ tasks = {} /\ Vacate

Next ==
  \/ Acquire \/ Enlist \/ End \/ Clean \/ VacateOnCleanup
  \/ \E t \in tasks : Report(t) \/ VacateOnReport(t)

Spec == Init /\ [][Next]_vars
=============================================================================
