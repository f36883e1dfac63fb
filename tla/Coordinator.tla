---------------------------- MODULE Coordinator ----------------------------
(***************************************************************************)
(* The coordinator of twerk: how one submitted job is turned into tasks,   *)
(* how the tasks reach the workers and how their outcomes move the job on  *)
(* (src/crates/twerk-app/src/engine/coordinator), together with the worker *)
(* loop that runs a task and the two REST calls that change a job.         *)
(*                                                                         *)
(* A message is handled by the handler that subscribed to its queue; every *)
(* handler is one action.  Handlers of different messages run in any order *)
(* (each delivery is a task of the async runtime), so the messages in      *)
(* flight are a bag.                                                       *)
(***************************************************************************)
EXTENDS Naturals, Sequences, FiniteSets, Bags

CONSTANTS
  Step,        \* the task definitions a workflow is written with
  Kind,        \* [Step -> StepKind]
  Children,    \* [Step -> Seq(Step)]: tasks of a parallel or a subjob; one per
               \* item of the list of an each
  Skipped,     \* the definitions whose `if` is the literal false
  RetryLimit,  \* [Step -> Nat]; 0 for a definition without retry
  Workflows,   \* the task lists a user of this instance may submit
  CancelFrom,  \* states of a job in which a user of this instance cancels it
  MaxTasks, MaxJobs,   \* bounds: tasks and jobs ever created
  MaxCopies,           \* bound: equal messages in flight
  MaxCalls,            \* bound: cancel and restart calls
  MaxCrashes           \* bound: workers that die while they run a task

StepKind == {"regular", "fanout", "subjob"}

ASSUME WorkflowAssumption ==
  /\ Kind \in [Step -> StepKind]
  /\ Children \in [Step -> Seq(Step)]
  /\ \A s \in Step : Kind[s] = "subjob" => Children[s] # <<>>
  /\ Skipped \subseteq Step
  /\ RetryLimit \in [Step -> Nat]
  /\ Workflows \subseteq Seq(Step) \ {<<>>}

JobState == {"Pending", "Scheduled", "Running", "Cancelled", "Completed",
             "Failed", "Restart"}
TaskState == {"Pending", "Scheduled", "Running", "Cancelled", "Completed",
              "Failed", "Skipped"}

ASSUME BoundAssumption ==
  /\ CancelFrom \subseteq JobState \ {"Completed", "Failed", "Cancelled"}
  /\ MaxTasks \in Nat /\ MaxJobs \in Nat \ {0} /\ MaxCopies \in Nat
  /\ MaxCalls \in Nat /\ MaxCrashes \in Nat

VARIABLES
  jobs,      \* the datastore's jobs, in order of creation; job 1 is submitted
  tasks,     \* the datastore's tasks, in order of creation
  msgs,      \* bag of the messages the broker has not delivered yet
  running,   \* bag of the tasks a worker is executing
  calls,     \* cancel and restart calls made
  crashes,   \* workers that died
  finished   \* history: tasks whose completion the coordinator has handled

vars == <<jobs, tasks, msgs, running, calls, crashes, finished>>

----------------------------------------------------------------------------
(* Records and messages.                                                   *)

\* Identifiers are positions in the two sequences; parent and subjob are 0 when
\* the field is not set.
Job == [tasks : Seq(Step), state : JobState, position : Nat, parent : Nat]
Task == [job : Nat, step : Step, parent : Nat, position : Nat,
         state : TaskState, attempts : Nat, completions : Nat,
         subjob : Nat, evaluated : BOOLEAN]

\* "worker" is the queue the task asks for; the progress queue carries the
\* worker's three reports, told apart by the state in the payload.
TaskQueue == {"x-pending", "x-completed", "x-failed", "x-redeliveries", "worker",
              "progress:Running", "progress:Completed", "progress:Failed"}

TaskMsg(q, t) == [queue |-> q, task |-> t]
JobMsg(js, j, st) == [queue |-> "x-jobs", job |-> j, state |-> st,
                      position |-> js[j].position]

TaskMessage == [queue : TaskQueue, task : Nat]
JobMessage  == [queue : {"x-jobs"}, job : Nat, state : JobState, position : Nat]
Message     == TaskMessage \cup JobMessage

\* Mutant: a failed job still counts as active.
JobActiveOrFailed(st) == st \notin {"Completed", "Cancelled"}
JobActive(st)  == st \in {"Pending", "Scheduled", "Running"}
TaskActive(st) == st \in {"Pending", "Scheduled", "Running"}

NewJob(list, parent) ==
  [tasks |-> list, state |-> "Pending", position |-> 0, parent |-> parent]

NewTask(j, s, parent, position, evaluated) ==
  [job |-> j, step |-> s, parent |-> parent, position |-> position,
   state |-> "Pending", attempts |-> 0, completions |-> 0, subjob |-> 0,
   evaluated |-> evaluated]

----------------------------------------------------------------------------
(* What a handler leaves behind: the datastore's new jobs and tasks, and   *)
(* the messages it publishes.                                              *)

Effect(js, ts, sent) == [jobs |-> js, tasks |-> ts, sent |-> sent]

WithState(ts, T, st) ==
  [t \in DOMAIN ts |-> IF t \in T THEN [ts[t] EXCEPT !.state = st] ELSE ts[t]]

\* One row written.  (Not [ts EXCEPT ![t] = r]: TLC's Append forgets the EXCEPT of
\* a sequence that WithState has defined and that it has not enumerated yet.)
WithTask(ts, t, r) == [u \in DOMAIN ts |-> IF u = t THEN r ELSE ts[u]]

\* skip_task: the task is published as completed without having run.
SkipTask(js, ts, t) ==
  Effect(js, WithState(ts, {t}, "Skipped"), {TaskMsg("x-completed", t)})

ScheduleRegular(js, ts, t) ==
  Effect(js, WithState(ts, {t}, "Scheduled"), {TaskMsg("worker", t)})

\* schedule_parallel_task and schedule_each_task: every subtask is created, then
\* every one is published (the concurrency of an each is not looked at).
ScheduleFanOut(js, ts, t) ==
  LET list == Children[ts[t].step]
  IN Effect(js,
            WithState(ts, {t}, "Running") \o
              [i \in 1 .. Len(list) |-> NewTask(ts[t].job, list[i], t, 0, TRUE)],
            {TaskMsg("x-pending", Len(ts) + i) : i \in 1 .. Len(list)})

ScheduleSubjob(js, ts, t) ==
  LET kid     == Len(js) + 1
      created == Append(js, NewJob(Children[ts[t].step], t))
  IN Effect(created,
            WithTask(ts, t, [ts[t] EXCEPT !.state = "Running", !.subjob = kid]),
            {JobMsg(created, kid, "Pending")})

\* handle_pending_task: skip the task, or schedule it according to its kind.
HandlePending(js, ts, t) ==
  LET kind == Kind[ts[t].step]
  IN IF ts[t].step \in Skipped THEN SkipTask(js, ts, t)
     ELSE CASE kind = "regular" -> ScheduleRegular(js, ts, t)
            [] kind = "fanout"  -> ScheduleFanOut(js, ts, t)
            [] kind = "subjob"  -> ScheduleSubjob(js, ts, t)

\* The active tasks the loop of cancel_active_tasks gets to.  A subjob task that
\* has not been scheduled has no subjob id yet: the error ends the loop there.
Cancellable(ts, j) ==
  LET active == {t \in DOMAIN ts : ts[t].job = j /\ TaskActive(ts[t].state)}
      noid   == {t \in active : Kind[ts[t].step] = "subjob" /\ ts[t].subjob = 0}
  IN {t \in active : \A u \in noid : t <= u}

SubjobCancels(js, ts, T) ==
  {JobMsg(js, ts[t].subjob, "Cancelled") : t \in {u \in T : ts[u].subjob # 0}}

\* Mutant: the subjobs are told but the tasks keep their state.
CancelActiveTasksUnsaved(js, ts, j) ==
  Effect(js, ts, SubjobCancels(js, ts, Cancellable(ts, j)))

\* cancel_active_tasks: the tasks become Cancelled and the subjob each of them
\* waits for is told.
CancelActiveTasks(js, ts, j) ==
  Effect(js, WithState(ts, Cancellable(ts, j), "Cancelled"),
         SubjobCancels(js, ts, Cancellable(ts, j)))

\* t and the composite tasks above it.
Lineage(ts, t) ==
  LET up[u \in 0 .. Len(ts)] == IF u = 0 THEN {} ELSE {u} \cup up[ts[u].parent]
  IN up[t]

\* Mutant: the last task of the list is never created.
AdvanceJobShort(ts, j) ==
  LET list == jobs[j].tasks
      next == jobs[j].position + 1
  IN IF next < Len(list)
       THEN Effect([jobs EXCEPT ![j].position = next],
                   Append(ts, NewTask(j, list[next], 0, next, FALSE)),
                   {TaskMsg("x-pending", Len(ts) + 1)})
       ELSE Effect(jobs, ts, {JobMsg(jobs, j, "Completed")})

\* Mutant: the list is indexed with the position that has just completed.
AdvanceJobSame(ts, j) ==
  LET list == jobs[j].tasks
      next == jobs[j].position + 1
  IN IF next <= Len(list)
       THEN Effect([jobs EXCEPT ![j].position = next],
                   Append(ts, NewTask(j, list[next - 1], 0, next, FALSE)),
                   {TaskMsg("x-pending", Len(ts) + 1)})
       ELSE Effect(jobs, ts, {JobMsg(jobs, j, "Completed")})

\* handle_top_level_task_completed: create the next task, or publish the job as
\* Completed.  The next task is the definition as written: it is not evaluated.
AdvanceJob(ts, j) ==
  LET list == jobs[j].tasks
      next == jobs[j].position + 1
  IN IF next <= Len(list)
       THEN Effect([jobs EXCEPT ![j].position = next],
                   Append(ts, NewTask(j, list[next], 0, next, FALSE)),
                   {TaskMsg("x-pending", Len(ts) + 1)})
       ELSE Effect(jobs, ts, {JobMsg(jobs, j, "Completed")})

\* Mutants: the fan-in is complete one subtask early, or never.
EnoughEarly(t) == t.completions + 1 >= Len(Children[t.step])
EnoughLate(t)  == t.completions > Len(Children[t.step])
Enough(t)      == t.completions >= Len(Children[t.step])

\* handle_subtask_completed: count the subtask, and complete the parent when
\* the count has reached the number of its children.
CountSubtask(ts, p) ==
  LET counted == WithTask(ts, p, [ts[p] EXCEPT !.completions = @ + 1])
  IN Effect(jobs, counted,
            IF Enough(counted[p]) THEN {TaskMsg("x-completed", p)} ELSE {})

\* Mutant: a subtask moves its job on like a task of the list.
RouteCompletedToJob(ts, t) == AdvanceJob(ts, ts[t].job)
RouteCompleted(ts, t) == IF ts[t].parent # 0 THEN CountSubtask(ts, ts[t].parent)
                                             ELSE AdvanceJob(ts, ts[t].job)

\* Mutants: the retry is published without being stored, or stored in a state
\* the coordinator does not expect.
RetryTaskUnsaved(ts, t) == Effect(jobs, ts, {TaskMsg("x-pending", Len(ts) + 1)})
RetryTaskCreated(ts, t) ==
  Effect(jobs, Append(ts, [ts[t] EXCEPT !.state = "Created", !.evaluated = TRUE,
                                        !.attempts = @ + 1]),
         {TaskMsg("x-pending", Len(ts) + 1)})

\* create_retry_task: a copy under a new id with one more attempt.
RetryTask(ts, t) ==
  Effect(jobs, Append(ts, [ts[t] EXCEPT !.state = "Pending", !.evaluated = TRUE,
                                        !.attempts = @ + 1]),
         {TaskMsg("x-pending", Len(ts) + 1)})

\* Mutant: one attempt too many.
CanRetryOnceMore(t) == t.attempts <= RetryLimit[t.step]
CanRetry(t) == t.attempts < RetryLimit[t.step]

\* Mutant: the restarted task is stored and not published.
ResumeUnpublished(js, j, position) ==
  LET list == js[j].tasks
  IN IF position \in 1 .. Len(list)
       THEN Effect(js, Append(tasks, NewTask(j, list[position], 0, position, TRUE)), {})
       ELSE Effect(js, tasks, {})

\* The task at the position is created again; 0 (a job that never started) is
\* out of bounds and leaves the job without a task.
Resume(js, j, position) ==
  LET list == js[j].tasks
  IN IF position \in 1 .. Len(list)
       THEN Effect(js, Append(tasks, NewTask(j, list[position], 0, position, TRUE)),
                   {TaskMsg("x-pending", Len(tasks) + 1)})
       ELSE Effect(js, tasks, {})

\* Mutant: whatever became of the subjob, the parent task has completed.
ToParentCompleted(j, q) ==
  IF jobs[j].parent = 0 THEN {} ELSE {TaskMsg("x-completed", jobs[j].parent)}
ToParent(j, q) ==
  IF jobs[j].parent = 0 THEN {} ELSE {TaskMsg(q, jobs[j].parent)}

----------------------------------------------------------------------------
(* Delivery: the handler takes m from the broker and publishes what its    *)
(* effect sends.                                                           *)

Take(m) == msgs (-) SetToBag({m})

Handle(m, e) ==
  /\ jobs' = e.jobs
  /\ tasks' = e.tasks
  /\ msgs' = Take(m) (+) SetToBag(e.sent)
  /\ Len(jobs') <= MaxJobs /\ Len(tasks') <= MaxTasks
  /\ \A x \in e.sent : msgs'[x] <= MaxCopies
  /\ UNCHANGED <<running, calls, crashes>>

JobEvent(m, st) == m.queue = "x-jobs" /\ m.state = st

----------------------------------------------------------------------------
(* Handlers of job events (handle_job_event).                              *)

StartJob(m) ==
  LET j    == m.job
      js   == [jobs EXCEPT ![j].state = "Scheduled", ![j].position = 1]
      ts   == Append(tasks, NewTask(j, jobs[j].tasks[1], 0, 1, TRUE))
  IN /\ JobEvent(m, "Pending")
     /\ Handle(m, HandlePending(js, ts, Len(ts)))
     /\ UNCHANGED finished

CompleteJob(m) ==
  /\ JobEvent(m, "Completed")
  /\ Handle(m, Effect([jobs EXCEPT ![m.job].state = "Completed"], tasks,
                      ToParent(m.job, "x-completed")))
  /\ UNCHANGED finished

\* A job that is no longer active keeps its state; its parent is told again
\* all the same, and its tasks are cancelled.
FailJob(m) ==
  LET j  == m.job
      js == IF JobActive(jobs[j].state)
              THEN [jobs EXCEPT ![j].state = "Failed"] ELSE jobs
      e  == CancelActiveTasks(js, tasks, j)
  IN /\ JobEvent(m, "Failed")
     /\ Handle(m, Effect(e.jobs, e.tasks, e.sent \cup ToParent(j, "x-failed")))
     /\ UNCHANGED finished

\* The guard on the update looks at the event's own copy of the job, whose
\* state is Cancelled: the stored state is left as it is.
HandleCancel(m) ==
  LET j  == m.job
      up == jobs[j].parent
      js == IF JobActive(m.state)
              THEN [jobs EXCEPT ![j].state = "Cancelled"] ELSE jobs
      e  == CancelActiveTasks(js, tasks, j)
  IN /\ JobEvent(m, "Cancelled")
     /\ Handle(m, Effect(e.jobs, e.tasks, e.sent \cup
                     IF up = 0 THEN {}
                     ELSE {JobMsg(js, tasks[up].job, "Cancelled")}))
     /\ UNCHANGED finished

\* The position comes from the event.
RestartJob(m) ==
  /\ JobEvent(m, "Restart")
  /\ Handle(m, Resume([jobs EXCEPT ![m.job].state = "Running"], m.job, m.position))
  /\ UNCHANGED finished

MarkJobAsRunning(m) ==
  /\ JobEvent(m, "Running")
  /\ Handle(m, Effect(IF jobs[m.job].state = "Scheduled"
                        THEN [jobs EXCEPT ![m.job].state = "Running"] ELSE jobs,
                      tasks, {}))
  /\ UNCHANGED finished

\* Mutant: the event creates the next task of the list.
IgnoreScheduledAdvances(m) ==
  /\ JobEvent(m, "Scheduled")
  /\ Handle(m, AdvanceJob(tasks, m.job))
  /\ UNCHANGED finished

IgnoreScheduled(m) ==
  /\ JobEvent(m, "Scheduled")
  /\ Handle(m, Effect(jobs, tasks, {}))
  /\ UNCHANGED finished

----------------------------------------------------------------------------
(* Handlers of task messages.                                              *)

HandlePendingTask(m) ==
  /\ m.queue = "x-pending"
  /\ Handle(m, HandlePending(jobs, tasks, m.task))
  /\ UNCHANGED finished

HandleTaskCompleted(m) ==
  LET t  == m.task
      ts == WithState(tasks, {t}, "Completed")
  IN /\ m.queue \in {"x-completed", "progress:Completed"}
     /\ Handle(m, RouteCompleted(ts, t))
     /\ finished' = finished \cup {t}

\* handle_error: also the subscriber of the queue it publishes the failed task
\* to.  handle_task_failed then fails every composite task above t and the job.
HandleError(m) ==
  LET t  == m.task
      j  == tasks[t].job
      ts == WithState(tasks, {t}, "Failed")
  IN /\ m.queue \in {"x-failed", "progress:Failed"}
     /\ Handle(m, IF ~JobActive(jobs[j].state) THEN Effect(jobs, ts, {})
                  ELSE IF CanRetry(ts[t]) THEN RetryTask(ts, t)
                  ELSE Effect(jobs, WithState(ts, Lineage(ts, t), "Failed"),
                              {TaskMsg("x-failed", t), JobMsg(jobs, j, "Failed")}))
     /\ UNCHANGED finished

\* handle_task_progress for a task that is Running: the report overwrites the
\* stored state whatever it is.
HandleTaskProgress(m) ==
  /\ m.queue = "progress:Running"
  /\ Handle(m, Effect(jobs, WithState(tasks, {m.task}, "Running"), {}))
  /\ UNCHANGED finished

\* Mutant: a task that somebody has begun is not published again.
RedeliverableUnlessBegun(st) == st = "Scheduled"
Redeliverable(st) == st \notin {"Completed", "Failed", "Cancelled"}

HandleRedelivered(m) ==
  /\ m.queue = "x-redeliveries"
  /\ Handle(m, Effect(jobs, tasks, IF Redeliverable(tasks[m.task].state)
                                     THEN {TaskMsg("worker", m.task)} ELSE {}))
  /\ UNCHANGED finished

----------------------------------------------------------------------------
(* The worker (execute_task): report Running, run, report the outcome.  A  *)
(* worker that dies before it reports leaves the delivery unacknowledged   *)
(* and the broker hands it to x-redeliveries.                              *)

WorkerStart(m) ==
  /\ m.queue = "worker"
  /\ running' = running (+) SetToBag({m.task})
  /\ msgs' = Take(m) (+) SetToBag({TaskMsg("progress:Running", m.task)})
  /\ UNCHANGED <<jobs, tasks, calls, crashes, finished>>

WorkerLeaves(t, q) ==
  /\ running' = running (-) SetToBag({t})
  /\ msgs' = msgs (+) SetToBag({TaskMsg(q, t)})
  /\ UNCHANGED <<jobs, tasks, calls, finished>>

WorkerFinish(t) ==
  /\ \E q \in {"progress:Completed", "progress:Failed"} : WorkerLeaves(t, q)
  /\ UNCHANGED crashes

WorkerCrash(t) ==
  /\ crashes < MaxCrashes
  /\ crashes' = crashes + 1
  /\ WorkerLeaves(t, "x-redeliveries")

----------------------------------------------------------------------------
(* The REST calls on a job.  Both publish the copy of the job they read    *)
(* before they updated it.                                                 *)

UserCall(j, st) ==
  /\ calls < MaxCalls
  /\ calls' = calls + 1
  /\ jobs' = [jobs EXCEPT ![j].state = st]
  /\ msgs' = msgs (+) SetToBag({JobMsg(jobs, j, jobs[j].state)})
  /\ UNCHANGED <<tasks, running, crashes, finished>>

CancelJob(j) ==
  /\ jobs[j].state \in CancelFrom
  /\ UserCall(j, "Cancelled")

RequestRestart(j) ==
  /\ jobs[j].state \in {"Failed", "Cancelled"}
  /\ UserCall(j, "Restart")

----------------------------------------------------------------------------
Init ==
  /\ \E w \in Workflows : jobs = <<NewJob(w, 0)>>
  /\ tasks = <<>>
  /\ msgs = SetToBag({JobMsg(jobs, 1, "Pending")})
  /\ running = EmptyBag
  /\ calls = 0 /\ crashes = 0
  /\ finished = {}

HandleJobEvent(m) ==
  \/ StartJob(m)     \/ CompleteJob(m) \/ FailJob(m)
  \/ HandleCancel(m) \/ RestartJob(m)  \/ MarkJobAsRunning(m)
  \/ IgnoreScheduled(m)

HandleTaskMessage(m) ==
  \/ HandlePendingTask(m)  \/ HandleTaskCompleted(m) \/ HandleError(m)
  \/ HandleTaskProgress(m) \/ HandleRedelivered(m)

Coordinator == \E m \in BagToSet(msgs) : HandleJobEvent(m) \/ HandleTaskMessage(m)

Worker ==
  \/ \E m \in BagToSet(msgs) : WorkerStart(m)
  \/ \E t \in BagToSet(running) : WorkerFinish(t) \/ WorkerCrash(t)

User == \E j \in DOMAIN jobs : CancelJob(j) \/ RequestRestart(j)

Next == Coordinator \/ Worker \/ User

Spec == Init /\ [][Next]_vars

\* Every subscription delivers what is published to its queue (the broker runs
\* the handler of a message once it is published), a worker takes the tasks of
\* its queue, and the runtime's run of a task ends.
Fairness ==
  /\ WF_vars(\E m \in BagToSet(msgs) : HandleJobEvent(m))
  /\ WF_vars(\E m \in BagToSet(msgs) : HandleTaskMessage(m))
  /\ WF_vars(\E m \in BagToSet(msgs) : WorkerStart(m))
  /\ WF_vars(\E t \in BagToSet(running) : WorkerFinish(t))

FairSpec == Spec /\ Fairness

----------------------------------------------------------------------------
(* Properties.                                                             *)

\* The type invariant: the rows of the datastore, the messages and the bounds.
TypeOK ==
  /\ jobs \in Seq(Job) /\ Len(jobs) <= MaxJobs
  /\ tasks \in Seq(Task) /\ Len(tasks) <= MaxTasks
  /\ IsABag(msgs) /\ BagToSet(msgs) \subseteq Message
  /\ IsABag(running)
  /\ calls \in 0 .. MaxCalls /\ crashes \in 0 .. MaxCrashes

Linked(js, ts) ==
  /\ \A j \in DOMAIN js : js[j].parent \in {0} \cup DOMAIN ts
  /\ \A t \in DOMAIN ts :
       /\ ts[t].job \in DOMAIN js
       /\ ts[t].parent \in {0} \cup DOMAIN ts
       /\ ts[t].subjob \in {0} \cup DOMAIN js

Refers(m, js, ts) ==
  IF m.queue = "x-jobs" THEN m.job \in DOMAIN js ELSE m.task \in DOMAIN ts

\* Every row a handler looks up is there: a message is published only after the
\* rows it names were created, and parents, subjobs and jobs name existing rows.
NoDanglingReference ==
  /\ Linked(jobs, tasks)
  /\ \A m \in BagToSet(msgs) : Refers(m, jobs, tasks)
  /\ BagToSet(running) \cup finished \subseteq DOMAIN tasks

FromList(ts, js, t) ==
  LET list == js[ts[t].job].tasks
  IN ts[t].position \in 1 .. Len(list) /\ ts[t].step = list[ts[t].position]

FromParent(ts, t) ==
  LET up == ts[ts[t].parent]
  IN /\ Kind[up.step] = "fanout" /\ up.job = ts[t].job
     /\ \E i \in DOMAIN Children[up.step] : ts[t].step = Children[up.step][i]

MatchesDefinitions(js, ts) ==
  /\ \A j \in DOMAIN js :
       /\ js[j].tasks # <<>> /\ js[j].position <= Len(js[j].tasks)
       /\ js[j].parent # 0 => js[j].tasks = Children[ts[js[j].parent].step]
  /\ \A t \in DOMAIN ts :
       /\ IF ts[t].parent = 0 THEN FromList(ts, js, t) ELSE FromParent(ts, t)
       /\ ts[t].attempts <= RetryLimit[ts[t].step]
       /\ ts[t].subjob # 0 => js[ts[t].subjob].tasks = Children[ts[t].step]

\* Whatever is retried, restarted or created for a fan-out, every task is the
\* definition at its position of its job's list, or a child of its parent, and
\* has used at most the attempts its definition allows.
TasksMatchDefinitions == MatchesDefinitions(jobs, tasks)

TopLevel(j) == {t \in DOMAIN tasks : tasks[t].job = j /\ tasks[t].parent = 0}

\* The tasks somebody still has to act on: published, being executed, or
\* reported and not handled.
InFlight ==
  BagToSet(running) \cup
  {m.task : m \in {x \in BagToSet(msgs) :
                     x.queue \in TaskQueue \ {"progress:Running", "x-failed"}}}

\* The tasks of a job run one step at a time: whatever is in flight belongs to
\* one top-level task (retries, redeliveries and subtasks included).
OneStepAtATime ==
  \A t, u \in InFlight :
    tasks[t].job = tasks[u].job =>
      Lineage(tasks, t) \cap Lineage(tasks, u) \cap TopLevel(tasks[t].job) # {}

\* A restart has been taken up: some step was created a second time, from the
\* beginning (a retry is a step created again with an attempt used).
SomeStepRestarted ==
  \E j \in DOMAIN jobs : \E t, u \in TopLevel(j) :
    /\ t # u /\ tasks[t].position = tasks[u].position
    /\ tasks[t].attempts = 0 /\ tasks[u].attempts = 0

\* No step is created before the step in front of it has completed, whatever is
\* cancelled, retried or redelivered.  A restart taken up while the step still
\* runs breaks the order: both completions move the job's position on.
StepsInOrder ==
  ~SomeStepRestarted =>
    \A j \in DOMAIN jobs : \A t \in TopLevel(j) :
      tasks[t].position > 1 =>
        \E u \in TopLevel(j) \cap finished : tasks[u].position = tasks[t].position - 1

\* A job that is Completed has completed every task of its list.
CompletedMeansAllDone ==
  \A j \in DOMAIN jobs :
    jobs[j].state = "Completed" =>
      \A p \in 1 .. Len(jobs[j].tasks) :
        \E u \in TopLevel(j) \cap finished : tasks[u].position = p

Subtasks(t) == {u \in DOMAIN tasks : tasks[u].parent = t}

\* The fan-in counter: a parallel or each task has counted exactly the subtasks
\* that completed, and it completes only when there is one for every child.
FanInExact ==
  \A t \in DOMAIN tasks : Kind[tasks[t].step] = "fanout" =>
    /\ tasks[t].completions = Cardinality(Subtasks(t) \cap finished)
    /\ t \in finished /\ tasks[t].step \notin Skipped =>
         \A s \in Step :
           Cardinality({u \in Subtasks(t) \cap finished : tasks[u].step = s})
             = Cardinality({i \in DOMAIN Children[tasks[t].step] :
                              Children[tasks[t].step][i] = s})

\* However often a definition is retried, no more tasks are created from one
\* place of the workflow than its limit allows.
RetryBudget ==
  \A t \in DOMAIN tasks :
    LET k     == tasks[t]
        slots == IF k.parent = 0 THEN {k.position}
                 ELSE {i \in DOMAIN Children[tasks[k.parent].step] :
                         Children[tasks[k.parent].step][i] = k.step}
    IN Cardinality({u \in DOMAIN tasks :
                      /\ tasks[u].job = k.job /\ tasks[u].parent = k.parent
                      /\ tasks[u].step = k.step /\ tasks[u].position = k.position})
         <= Cardinality(slots) * (RetryLimit[k.step] + 1)

\* A subjob task completes only when the job it created has completed.
ParentAwaitsSubjob ==
  \A t \in finished : Kind[tasks[t].step] = "subjob" /\ tasks[t].step \notin Skipped =>
    tasks[t].subjob # 0 /\ jobs[tasks[t].subjob].state = "Completed"

\* Whatever a user and the workers do, a job without subjobs that still looks
\* active has something in flight that will move it on.  The exceptions are jobs
\* started a second time: a cancel handled late cancels the new task and its
\* redelivery is dropped when the worker dies, or a restart read before the job
\* first started creates no task.
NoneStranded ==
  msgs = EmptyBag /\ running = EmptyBag /\ Len(jobs) = 1 /\ JobActive(jobs[1].state) =>
    SomeStepRestarted /\ (crashes > 0 \/ "Pending" \in CancelFrom)

\* A job that has completed or failed stays so (complete_job does not look at
\* the state it overwrites).
OutcomeIsFinal ==
  [][\A j \in DOMAIN jobs :
       jobs[j].state \in {"Completed", "Failed"} => jobs'[j].state = jobs[j].state]_vars

\* The abstract view of the submitted job.
Promise == INSTANCE JobPromise WITH
  total <- Len(jobs[1].tasks),
  done  <- Cardinality({tasks[t].position : t \in TopLevel(1) \cap finished}),
  phase <- CASE jobs[1].state = "Pending" -> "Waiting"
             [] jobs[1].state \in {"Completed", "Failed"} -> jobs[1].state
             [] OTHER -> "Active"

\* A job nobody cancels is run as JobPromise says.
KeepsPromise == Promise!Spec

\* The submitted job ends, one way or the other.
JobTerminates == <>(jobs[1].state \in {"Completed", "Failed"})

\* The handlers that publish to a queue they are themselves reached from (failed
\* tasks, cancelled subjobs and their parents) come to rest.
Quiesces == <>[](msgs = EmptyBag /\ running = EmptyBag)

----------------------------------------------------------------------------
(* What the documentation says and the code does not do.                   *)

\* COMPREHENSIVE_GUIDE.md draws CANCELLED as a state a job leaves only when it
\* is restarted; cancelling a job that is still Pending hands the coordinator
\* the Pending copy, and it starts the job.
CancelledStays ==
  [][\A j \in DOMAIN jobs :
       jobs[j].state = "Cancelled" => jobs'[j].state \in {"Cancelled", "Restart"}]_vars

\* cancellation.rs: cancel_active_tasks "cancels all active tasks for a job", but
\* stops at a subjob task that has no subjob yet.
CancelsAll ==
  [][\A m \in BagToSet(msgs) : FailJob(m) \/ HandleCancel(m) =>
       \A t \in DOMAIN tasks' : tasks'[t].job = m.job => ~TaskActive(tasks'[t].state)]_vars

\* rest-api.md: PUT /jobs/{id}/restart restarts a job.  The request stores
\* Restart, and the coordinator should take the job up again.
RestartIsTakenUp == [](jobs[1].state = "Restart" => <>(jobs[1].state = "Running"))

\* COMPREHENSIVE_GUIDE.md writes {{ }} expressions in any task of a job: a
\* worker should only be given tasks whose expressions have been evaluated.
WorkersRunEvaluated ==
  \A m \in BagToSet(msgs) : m.queue = "worker" => tasks[m.task].evaluated

=============================================================================
