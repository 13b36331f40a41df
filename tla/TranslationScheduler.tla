----------------------- MODULE TranslationScheduler -----------------------
(***************************************************************************)
(* TranslationScheduler of apps/desktop/src/translation-scheduler.ts with  *)
(* its disposable executor (WorkerTranslationExecutor of translation.ts    *)
(* and translation-inference.worker.ts behind it).                         *)
(*                                                                         *)
(* The scheduler is single-threaded JavaScript.  What a caller, a worker   *)
(* message or a timer starts (a task) is an action that may only begin     *)
(* when no continuation is ready (Quiet); the continuations of settled     *)
(* promises (PreparationSettles, ExecuteResumes, PumpNext) are actions of  *)
(* their own, taken in any order before the next task.                     *)
(*                                                                         *)
(* Time is kept in counters that run down with Tick: what a job has left   *)
(* until its deadline, how long a preparation has been loading.  Text and  *)
(* languages are a route; a job's importance within its workload is part   *)
(* of its priority.                                                        *)
(***************************************************************************)
EXTENDS Integers, FiniteSets, Sequences

CONSTANTS
  Routes,               \* source:target language pairs
  Keys,                 \* coalescing keys
  Profiles,             \* workload profiles
  Priority, Budget,     \* PROFILE_POLICIES: priority and deadline of a profile
  PreparationDeadline,  \* PREPARATION_DEADLINE_MS, in the same unit as Budget
  MaxJob,               \* bound: jobs submitted
  MaxGeneration,        \* bound: sessions started
  Scenarios             \* what the callers of a behaviour may ask for

\* How many sessions are started, what is submitted, <<route, profile, key>>,
\* the routes a caller prepares without submitting a job, and MAX_QUEUED_JOBS,
\* small enough to be met in one scenario and not in another.
Requests == [sessions : 0..MaxGeneration, queued : Nat \ {0}, preloads : SUBSET Routes,
             submissions : SUBSET (Routes \X Profiles \X Keys)]

ASSUME PoliciesAssumption ==
  /\ Priority \in [Profiles -> Nat]
  /\ Budget \in [Profiles -> Nat \ {0}]
ASSUME BoundsAssumption ==
  /\ PreparationDeadline \in Nat \ {0}
  /\ MaxJob \in Nat
  /\ MaxGeneration \in Nat
ASSUME ChoicesAssumption == Scenarios \subseteq Requests

VARIABLES
  scenario,
  session,     \* the ActiveSession: its generation, prepared route and preparation
  generation,  \* nextGeneration - 1
  queue,       \* session.queue, a set: every use sorts it or looks at all of it
  pumping,     \* session.pumping
  jobs,        \* request ID -> the job and its deferred
  runs,        \* executions of a job suspended in an await
  preps,       \* prepare operations whose chain has not run to its end
  worker       \* the inference worker of the session's executor

vars == <<scenario, session, generation, queue, pumping, jobs, runs, preps, worker>>

None == "none"
JobIds == 1..MaxJob

Unsettled == {"unsent", "open"}
Outcomes == {"delivered", "superseded", "cancelled", "expired", "failed"}

\* How a raced operation ends: "deadline" is its own timer, "killed" the
\* deadline error of another operation passed on by terminate.
Rejections == {"error", "deadline", "killed", "terminated", "cancelled"}
DeadlineErrors == {"deadline", "killed"}
Restarting == {"deadline", "killed", "terminated"}

NoSession == [gen |-> 0, route |-> None, preparation |-> 0]
NewWorker == [alive |-> TRUE, loaded |-> None, requests |-> <<>>]
Unsent == [outcome |-> "unsent", gen |-> 0, route |-> None, profile |-> None,
           key |-> None, left |-> 0, age |-> 0, waited |-> 0, visible |-> FALSE]

Init ==
  /\ scenario \in Scenarios
  /\ session = NoSession
  /\ generation = 0
  /\ queue = {}
  /\ pumping = FALSE
  /\ jobs = [j \in JobIds |-> Unsent]
  /\ runs = {}
  /\ preps = {}
  /\ worker = NewWorker

-----------------------------------------------------------------------------
(* Helpers                                                                 *)

Ready(op) == op.outcome \notin {"pending", "waiting"}
Active == {r.job : r \in {x \in runs : x.gen = session.gen}}
Current(gen) == gen = session.gen /\ gen # 0

\* Nothing runs and no continuation is ready: the next task may begin.
Quiet ==
  /\ ~\E op \in runs \cup preps : Ready(op)
  /\ pumping => \E r \in runs : r.gen = session.gen

\* deferred.resolve and deferred.reject: a settled deferred keeps its result.
\* Of a settled job only what the properties look at is kept.
Settle(J, ids, outcome) ==
  [j \in JobIds |->
     IF j \in ids /\ J[j].outcome = "open"
     THEN [Unsent EXCEPT !.outcome = outcome, !.gen = J[j].gen, !.key = J[j].key]
     ELSE J[j]]

\* executor.terminate(reason): every request that waits for it is rejected.
Kill(ops, reason) ==
  {IF o.gen = session.gen /\ o.outcome = "pending"
   THEN [o EXCEPT !.outcome = reason] ELSE o : o \in ops}

\* What cancelActive rejects.
Cancelled == queue \cup Active

\* The session with a new executor (restartExecutor).
Restarted == [session EXCEPT !.route = None, !.preparation = 0]

Reason(outcome) == IF outcome \in DeadlineErrors THEN "killed" ELSE outcome

\* A request to a worker that is gone is rejected at once.
Sent == IF worker.alive THEN "pending" ELSE "terminated"
Request(kind, route, of) ==
  IF worker.alive
  THEN [worker EXCEPT !.requests = Append(@, [kind |-> kind, route |-> route, of |-> of])]
  ELSE worker

\* The number of a new operation, which none in flight has.
FreshOperation ==
  CHOOSE n \in 1..(Cardinality(preps) + 1) : \A p \in preps : p.id # n

Preparation(route) ==
  [id |-> FreshOperation, gen |-> session.gen, route |-> route,
   elapsed |-> 0, outcome |-> Sent]

-----------------------------------------------------------------------------
(* Tasks: the calls of the callers                                         *)

\* cancelActive and a new session with an executor of its own.
StartSession ==
  /\ Quiet
  /\ generation < scenario.sessions
  /\ generation' = generation + 1
  /\ session' = [NoSession EXCEPT !.gen = generation + 1]
  /\ jobs' = Settle(jobs, Cancelled, "cancelled")
  /\ runs' = Kill(runs, "cancelled")
  /\ preps' = Kill(preps, "cancelled")
  /\ queue' = {}
  /\ pumping' = FALSE
  /\ worker' = NewWorker
  /\ UNCHANGED scenario

StopSession ==
  /\ Quiet
  /\ session.gen # 0
  /\ session' = NoSession
  /\ jobs' = Settle(jobs, Cancelled, "cancelled")
  /\ runs' = Kill(runs, "cancelled")
  /\ preps' = Kill(preps, "cancelled")
  /\ queue' = {}
  /\ pumping' = FALSE
  /\ worker' = NewWorker
  /\ UNCHANGED <<scenario, generation>>

RestartSession ==
  /\ Quiet
  /\ session.gen # 0
  /\ session' = Restarted
  /\ runs' = Kill(runs, "error")
  /\ preps' = Kill(preps, "error")
  /\ worker' = NewWorker
  /\ UNCHANGED <<scenario, generation, queue, pumping, jobs>>

CancelQueued(key) ==
  LET stale == {j \in queue : jobs[j].key = key}
  IN /\ Quiet
     /\ stale # {}
     /\ queue' = queue \ stale
     /\ jobs' = Settle(jobs, stale, "superseded")
     /\ UNCHANGED <<session, scenario, generation, pumping, runs, preps, worker>>

\* A caller's prepare that starts an operation: the route is not the prepared
\* one and no preparation, of whatever route, is in flight.
Prepare(route) ==
  /\ Quiet
  /\ session.gen # 0
  /\ session.route # route
  /\ session.preparation = 0
  /\ session' = [session EXCEPT !.preparation = FreshOperation]
  /\ preps' = preps \cup {Preparation(route)}
  /\ worker' = Request("prepare", route, FreshOperation)
  /\ UNCHANGED <<scenario, generation, queue, pumping, jobs, runs>>

NextJob == CHOOSE j \in JobIds : /\ jobs[j].outcome = "unsent"
                                 /\ \A i \in 1..(j - 1) : jobs[i].outcome # "unsent"

\* Faulty: the older request of the key stays queued.
CoalescedNothing(key) == {}
Coalesced(key) == {j \in queue : jobs[j].key = key}

\* enforceBound: of the least important jobs the oldest goes.
Before(i, j, J) ==
  \/ Priority[J[i].profile] < Priority[J[j].profile]
  \/ Priority[J[i].profile] = Priority[J[j].profile] /\ i < j
Overflow(Q, J) ==
  IF Cardinality(Q) > scenario.queued
  THEN {i \in Q : \A j \in Q \ {i} : Before(i, j, J)}
  ELSE {}

Submit(route, profile, key) ==
  LET J == [jobs EXCEPT ![NextJob] =
              [outcome |-> "open", gen |-> session.gen, route |-> route,
               profile |-> profile, key |-> key, left |-> Budget[profile],
               age |-> 0, waited |-> 0, visible |-> TRUE]]
      Q == (queue \ Coalesced(key)) \cup {NextJob}
  IN /\ Quiet
     /\ session.gen # 0
     /\ \E j \in JobIds : jobs[j].outcome = "unsent"
     /\ queue' = Q \ Overflow(Q, J)
     /\ jobs' = Settle(J, Coalesced(key) \cup Overflow(Q, J), "superseded")
     /\ pumping' = TRUE
     /\ UNCHANGED <<session, scenario, generation, runs, preps, worker>>

\* The caller's isCurrent begins to answer false.
SourceVanishes(j) ==
  /\ Quiet
  /\ jobs[j].outcome = "open"
  /\ jobs[j].visible
  /\ jobs' = [jobs EXCEPT ![j].visible = FALSE]
  /\ UNCHANGED <<session, scenario, generation, queue, pumping, runs, preps, worker>>

-----------------------------------------------------------------------------
(* Continuations                                                           *)

\* The part of execute from the check after its preparation to the call of
\* translate.  Every caller has found the session current and the job open.
Infer(j, original, otherRuns) ==
  \/ /\ ~jobs[j].visible
     /\ jobs' = Settle(jobs, {j}, "superseded")
     /\ runs' = otherRuns
     /\ UNCHANGED worker
  \/ /\ jobs[j].visible
     /\ jobs[j].left <= 0
     /\ jobs' = Settle(jobs, {j}, "expired")
     /\ runs' = otherRuns
     /\ UNCHANGED worker
  \/ /\ jobs[j].visible
     /\ jobs[j].left > 0
     /\ runs' = otherRuns \cup
          {[gen |-> session.gen, job |-> j, original |-> original, op |-> 0,
            at |-> "translating", timer |-> jobs[j].left, outcome |-> Sent]}
     /\ worker' = Request("translate", jobs[j].route, j)
     /\ UNCHANGED jobs

\* pump takes the most important and then the newest job and starts to
\* execute it: it expires, or its route is prepared first, or it is inferred.
TakeNext == CHOOSE j \in queue : \A i \in queue \ {j} : Before(i, j, jobs)

PumpExpires ==
  /\ jobs[TakeNext].left <= 0
  /\ jobs' = Settle(jobs, {TakeNext}, "expired")
  /\ UNCHANGED <<session, runs, preps, worker>>

PumpPrepares ==
  LET j == TakeNext
      op == IF session.preparation # 0 THEN session.preparation ELSE FreshOperation
  IN /\ jobs[j].left > 0
     /\ session.route # jobs[j].route
     /\ runs' = runs \cup
          {[gen |-> session.gen, job |-> j, original |-> TRUE, op |-> op,
            at |-> "preparing", timer |-> 0, outcome |-> "waiting"]}
     /\ IF session.preparation # 0
        THEN UNCHANGED <<session, preps, worker>>
        ELSE /\ session' = [session EXCEPT !.preparation = op]
             /\ preps' = preps \cup {Preparation(jobs[j].route)}
             /\ worker' = Request("prepare", jobs[j].route, op)
     /\ UNCHANGED jobs

PumpInfers ==
  /\ jobs[TakeNext].left > 0
  /\ session.route = jobs[TakeNext].route
  /\ Infer(TakeNext, TRUE, runs)
  /\ UNCHANGED <<session, preps>>

PumpNext ==
  /\ pumping
  /\ ~\E r \in runs : r.gen = session.gen
  /\ IF queue = {}
     THEN /\ pumping' = FALSE
          /\ UNCHANGED <<session, queue, jobs, runs, preps, worker>>
     ELSE /\ queue' = queue \ {TakeNext}
          /\ PumpExpires \/ PumpPrepares \/ PumpInfers
          /\ UNCHANGED pumping
  /\ UNCHANGED <<scenario, generation>>

\* finally of prepare: the time a job has spent waiting for this preparation
\* is given back to it.
Extended(J, p, ids) ==
  [j \in JobIds |->
     IF j \in ids /\ J[j].outcome = "open"
     THEN [J[j] EXCEPT !.left = @ + (IF p.elapsed < J[j].age THEN p.elapsed ELSE J[j].age)]
     ELSE J[j]]

\* Faulty: the active job pays for the load it waited for.
GivenBackToQueue == queue
GivenBack == queue \cup Active

Awaiting(ops, p, outcome) ==
  {IF r.gen = p.gen /\ r.op = p.id /\ r.outcome = "waiting"
   THEN [r EXCEPT !.outcome = outcome] ELSE r : r \in ops}

\* The then, catch and finally of a prepare operation.
PreparationSettles(p) ==
  LET restart == Current(p.gen) /\ p.outcome \in Restarting
  IN /\ Ready(p)
     /\ session' =
          IF restart THEN Restarted
          ELSE [session EXCEPT
                  !.route = IF Current(p.gen) /\ p.outcome = "ok" THEN p.route ELSE @,
                  !.preparation = IF Current(p.gen) /\ @ = p.id THEN 0 ELSE @]
     /\ preps' = IF restart THEN Kill(preps \ {p}, Reason(p.outcome)) ELSE preps \ {p}
     /\ runs' = {IF restart /\ r.gen = p.gen THEN [r EXCEPT !.original = FALSE] ELSE r :
                   r \in Awaiting(IF restart THEN Kill(runs, Reason(p.outcome)) ELSE runs,
                                  p, p.outcome)}
     /\ worker' = IF restart THEN NewWorker ELSE worker
     /\ jobs' = IF Current(p.gen) THEN Extended(jobs, p, GivenBack) ELSE jobs
     /\ UNCHANGED <<scenario, generation, queue, pumping>>

\* execute goes on after its preparation.
ExecutePrepared(r) ==
  /\ r.at = "preparing"
  /\ r.outcome = "ok"
  /\ IF Current(r.gen) /\ jobs[r.job].outcome = "open"
     THEN Infer(r.job, r.original, runs \ {r})
     ELSE runs' = runs \ {r} /\ UNCHANGED <<jobs, worker>>
  /\ UNCHANGED <<session, scenario, generation, queue, pumping, preps>>

\* Faulty: the answer of the worker is delivered whatever happened meanwhile.
ExecuteTranslatedBlindly(r) ==
  /\ r.at = "translating"
  /\ r.outcome = "ok"
  /\ runs' = runs \ {r}
  /\ jobs' = Settle(jobs, {r.job}, "delivered")
  /\ UNCHANGED <<session, scenario, generation, queue, pumping, preps, worker>>

ExecuteTranslated(r) ==
  /\ r.at = "translating"
  /\ r.outcome = "ok"
  /\ runs' = runs \ {r}
  /\ jobs' = IF Current(r.gen)
             THEN Settle(jobs, {r.job},
                         IF jobs[r.job].visible THEN "delivered" ELSE "superseded")
             ELSE jobs
  /\ UNCHANGED <<session, scenario, generation, queue, pumping, preps, worker>>

Verdict(outcome) ==
  CASE outcome \in DeadlineErrors -> "expired"
    [] outcome = "cancelled" -> "cancelled"
    [] OTHER -> "failed"

\* The catch of execute: the job is rejected, and a deadline or a lost worker
\* replaces the executor unless the preparation has already replaced it.
ExecuteFails(r) ==
  LET restart == Current(r.gen) /\ r.outcome \in Restarting /\ r.original
  IN /\ r.outcome \in Rejections
     /\ jobs' = Settle(jobs, {r.job}, Verdict(r.outcome))
     /\ runs' = runs \ {r}
     /\ IF restart
        THEN /\ session' = Restarted
             /\ preps' = Kill(preps, Reason(r.outcome))
             /\ worker' = NewWorker
        ELSE UNCHANGED <<session, preps, worker>>
     /\ UNCHANGED <<scenario, generation, queue, pumping>>

ExecuteResumes(r) == ExecutePrepared(r) \/ ExecuteTranslated(r) \/ ExecuteFails(r)

-----------------------------------------------------------------------------
(* Tasks: the worker and the timers                                        *)

Answer(request, outcome) ==
  /\ preps' = {IF request.kind = "prepare" /\ p.id = request.of /\ p.outcome = "pending"
               THEN [p EXCEPT !.outcome = outcome] ELSE p : p \in preps}
  /\ runs' = {IF request.kind = "translate" /\ r.job = request.of /\ r.outcome = "pending"
              THEN [r EXCEPT !.outcome = outcome] ELSE r : r \in runs}

\* The worker serves its requests one after the other; both kinds load the
\* model of their route when another one is loaded.
WorkerAnswers ==
  /\ Quiet
  /\ worker.requests # <<>>
  /\ worker' = [worker EXCEPT !.loaded = Head(worker.requests).route,
                              !.requests = Tail(@)]
  /\ Answer(Head(worker.requests), "ok")
  /\ UNCHANGED <<session, scenario, generation, queue, pumping, jobs>>

\* The route is not installed, or its model could not be opened (the old one
\* is already disposed of then), or inference with the right model failed.
LoadedAfterError(request) ==
  IF worker.loaded = request.route THEN {request.route}
  ELSE {worker.loaded, None}
         \cup (IF request.kind = "translate" THEN {request.route} ELSE {})

WorkerRefuses ==
  /\ Quiet
  /\ worker.requests # <<>>
  /\ \E loaded \in LoadedAfterError(Head(worker.requests)) :
       worker' = [worker EXCEPT !.loaded = loaded, !.requests = Tail(@)]
  /\ Answer(Head(worker.requests), "error")
  /\ UNCHANGED <<session, scenario, generation, queue, pumping, jobs>>

\* The error event: the executor terminates itself; the scheduler learns of
\* it from the requests it rejects, or from the next one.
WorkerCrashes ==
  /\ Quiet
  /\ session.gen # 0
  /\ worker.alive
  /\ worker' = [NewWorker EXCEPT !.alive = FALSE]
  /\ runs' = Kill(runs, "terminated")
  /\ preps' = Kill(preps, "terminated")
  /\ UNCHANGED <<session, scenario, generation, queue, pumping, jobs>>

\* Faulty: a preparation has no ceiling of its own.
PreparationDueNever(p) == FALSE
PreparationDue(p) == p.outcome = "pending" /\ p.elapsed >= PreparationDeadline
TranslationDue(r) == r.outcome = "pending" /\ r.timer <= 0

PreparationTimesOut(p) ==
  /\ Quiet
  /\ PreparationDue(p)
  /\ preps' = (preps \ {p}) \cup {[p EXCEPT !.outcome = "deadline"]}
  /\ UNCHANGED <<session, scenario, generation, queue, pumping, jobs, runs, worker>>

TranslationTimesOut(r) ==
  /\ Quiet
  /\ TranslationDue(r)
  /\ runs' = (runs \ {r}) \cup {[r EXCEPT !.outcome = "deadline"]}
  /\ UNCHANGED <<session, scenario, generation, queue, pumping, jobs, preps, worker>>

\* A unit of time.  "waited" counts what a job has waited with no preparation
\* in flight; counters stop where they no longer make a difference.
Loading == \E p \in preps : p.gen = session.gen
Aged(job) ==
  [job EXCEPT !.left = IF @ > -PreparationDeadline THEN @ - 1 ELSE @,
              !.age = IF @ < PreparationDeadline THEN @ + 1 ELSE @,
              !.waited = IF Loading \/ @ >= Budget[job.profile] THEN @ ELSE @ + 1]
Tick ==
  /\ Quiet
  /\ ~\E p \in preps : PreparationDue(p)
  /\ ~\E r \in runs : TranslationDue(r)
  /\ jobs' = [j \in JobIds |-> IF jobs[j].outcome = "open" THEN Aged(jobs[j]) ELSE jobs[j]]
  /\ preps' = {[p EXCEPT !.elapsed = IF @ < PreparationDeadline THEN @ + 1 ELSE @] :
                p \in preps}
  /\ runs' = {IF r.at = "translating" THEN [r EXCEPT !.timer = @ - 1] ELSE r : r \in runs}
  /\ UNCHANGED <<session, scenario, generation, queue, pumping, worker>>

-----------------------------------------------------------------------------
Next ==
  \/ StartSession
  \/ StopSession
  \/ RestartSession
  \/ \E key \in Keys : CancelQueued(key)
  \/ \E route \in scenario.preloads : Prepare(route)
  \/ \E s \in scenario.submissions : Submit(s[1], s[2], s[3])
  \/ \E j \in JobIds : SourceVanishes(j)
  \/ PumpNext
  \/ \E p \in preps : PreparationSettles(p)
  \/ \E r \in runs : ExecuteResumes(r)
  \/ WorkerAnswers
  \/ WorkerRefuses
  \/ WorkerCrashes
  \/ \E p \in preps : PreparationTimesOut(p)
  \/ \E r \in runs : TranslationTimesOut(r)
  \/ Tick

Spec == Init /\ [][Next]_vars

\* The event loop runs every ready continuation, time passes and a timer that
\* is due fires.  Neither the worker nor a caller has to do anything.
Fairness ==
  /\ WF_vars(PumpNext)
  /\ WF_vars(\E p \in preps : PreparationSettles(p))
  /\ WF_vars(\E r \in runs : ExecuteResumes(r))
  /\ SF_vars(\E p \in preps : PreparationTimesOut(p))
  /\ SF_vars(\E r \in runs : TranslationTimesOut(r))
  /\ SF_vars(Tick)

FairSpec == Spec /\ Fairness

-----------------------------------------------------------------------------
(* Properties                                                              *)

JobType ==
  [outcome : Unsettled \cup Outcomes, gen : 0..MaxGeneration, route : Routes \cup {None},
   profile : Profiles \cup {None}, key : Keys \cup {None}, left : Int, age : Nat,
   waited : Nat, visible : BOOLEAN]
RunType ==
  [gen : 1..MaxGeneration, job : JobIds, original : BOOLEAN, op : Nat,
   at : {"preparing", "translating"}, timer : Int,
   outcome : {"waiting", "pending", "ok"} \cup Rejections]
PreparationType ==
  [id : Nat \ {0}, gen : 1..MaxGeneration, route : Routes, elapsed : Nat,
   outcome : {"pending", "ok"} \cup Rejections]

\* The type of the state.
TypeOK ==
  /\ session \in [gen : 0..MaxGeneration, route : Routes \cup {None},
                  preparation : Nat]
  /\ generation \in 0..MaxGeneration
  /\ queue \subseteq JobIds
  /\ pumping \in BOOLEAN
  /\ jobs \in [JobIds -> JobType]
  /\ runs \subseteq RunType
  /\ preps \subseteq PreparationType
  /\ worker.alive \in BOOLEAN
  /\ worker.loaded \in Routes \cup {None}
  /\ \A i \in DOMAIN worker.requests : worker.requests[i].route \in Routes

\* The queue never holds more than MAX_QUEUED_JOBS jobs, nor two of one key
\* (coalesce and enforceBound, in whatever order jobs come and go).
QueueIsBounded ==
  /\ Cardinality(queue) <= scenario.queued
  /\ \A i, j \in queue : i # j => jobs[i].key # jobs[j].key

\* No promise is forgotten: a job whose caller still waits is queued or being
\* executed by the active session, and its execution waits for something that
\* is going to happen: a prepare operation, or a request the worker has.
NoJobIsForgotten ==
  /\ \A j \in JobIds : jobs[j].outcome = "open" =>
       /\ jobs[j].gen = session.gen
       /\ j \in queue \/ \E r \in runs : r.job = j
  /\ \A r \in runs : r.outcome = "waiting" =>
       \E p \in preps : p.id = r.op /\ p.gen = r.gen
  /\ \A r \in runs : r.outcome = "pending" =>
       \E i \in DOMAIN worker.requests :
         worker.requests[i].kind = "translate" /\ worker.requests[i].of = r.job

\* Loading a model is not charged to a job's deadline: between preparations
\* what a job has left is its budget less what it waited outside of them.
DeadlinesExcludeLoading ==
  Quiet /\ ~Loading =>
    \A j \in JobIds :
      jobs[j].outcome = "open" /\ jobs[j].waited < Budget[jobs[j].profile] =>
        jobs[j].left = Budget[jobs[j].profile] - jobs[j].waited

\* A job's inference is sent to an idle worker that has the job's model: it
\* neither waits for a load nor causes one within the job's deadline.
InferenceIsWarm ==
  \A i \in DOMAIN worker.requests : worker.requests[i].kind = "translate" =>
    i = 1 /\ worker.loaded = worker.requests[i].route

\* A result is delivered only while the session of its job is the active one
\* and its source is still shown.
ResultsAreCurrent ==
  [][\A j \in JobIds :
       jobs'[j].outcome = "delivered" /\ jobs[j].outcome # "delivered" =>
         jobs[j].gen = session.gen /\ jobs[j].visible]_vars

\* Of the texts of one key the caller never gets an older one after a newer
\* one, although the queue hands out the newest job first.
LatestTextWins ==
  [][\A i, j \in JobIds :
       i < j /\ jobs[i].gen = jobs[j].gen /\ jobs[i].key = jobs[j].key
         /\ jobs[j].outcome = "delivered" /\ jobs[i].outcome # "delivered"
       => jobs'[i].outcome # "delivered"]_vars

\* A job is reported as expired only when its own deadline has passed, or when
\* the timer of the operation it waits for has fired: never because of a
\* deadline that another operation missed.
TimeoutsAreDue ==
  [][\A j \in JobIds :
       jobs[j].outcome = "open" /\ jobs'[j].outcome = "expired" =>
         \/ jobs[j].left <= 0
         \/ \E r \in runs : r.job = j /\ r.outcome = "deadline"]_vars

\* Every submitted job is answered, whatever the worker does: again and again
\* no job is left open.
EveryJobSettles == []<>(\A j \in JobIds : jobs[j].outcome # "open")
=============================================================================
