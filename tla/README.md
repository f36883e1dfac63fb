# twerk in TLA+

A model of the twerk workflow engine: how a submitted job becomes tasks, how the
tasks reach workers and are run, how their outcomes move the job on, how parallel
subtasks are counted, how scheduled jobs are kept and triggered under a lock, how
timers fire, how an engine starts and stops, and how its two machines evaluate
expressions. TLC checks the modules on small instances; TLAPS proves nearly all of
their safety properties for every value of the constants.

Run everything from this directory:

    tlc -workers 2 -config workflow.cfg MCCoordinator.tla   # one line per run, see "Runs"
    tlapm CoordinatorProofs.tla                             # one line per module of proofs

| module of proofs | obligations | | module of proofs | obligations |
|---|---|---|---|---|
| `CoordinatorProofs` | 5824 | | `ScheduleProofs` | 1488 |
| `OrderProofs` | 7848 | | `TriggerProofs` | 819 |
| `FanInProofs` | 530 | | `TimerWheelProofs` | 312 |
| `WorkerProofs` | 2578 | | `ExprVmProofs` | 864 |

| file | what it is |
|---|---|
| `JobPromise.tla` | abstract specification: what a user who submits a job and leaves it alone is promised |
| `Coordinator.tla` | job and task handlers, scheduler, worker loop, cancel and restart calls; one action per handler |
| `MCCoordinator.tla` | its workflows for TLC |
| `CoordinatorProofs.tla` | its types, references and definitions, with theorems; the books in which the next module argues, and what each entry in them keeps |
| `OrderProofs.tla` | that every handler is an entry in the books; theorems about the order of a job's tasks, counters, retries, subjobs, outcomes, the refinement of `JobPromise`, and that no job is stranded |
| `FanIn.tla` | the completion of one parallel or each task, its handlers split at their awaits, on both datastores |
| `MCFanIn.tla`, `FanInProofs.tla` | its subtasks for TLC; its theorems |
| `Worker.tla`, `MCWorker.tla`, `WorkerProofs.tla` | brokers' deliveries, `execute_task` at its awaits, the runtimes' run and stop, cancel, stop and death of workers; its slots and limits for TLC; its theorems |
| `Engine.tla` | start, terminate and await_shutdown of an engine, its task for signals, what a stopped coordinator does |
| `ExprVm.tla`, `ExprVmProofs.tla` | the two machines that evaluate compiled expressions, on the same program; its theorems |
| `MCProcess.tla` | the instance of `Worker`, `Engine` and `ExprVm` |
| `Schedule.tla`, `ScheduleProofs.tla` | one scheduled job: the REST calls on it, their events, the cron entries of each coordinator; its theorems |
| `Trigger.tla`, `TriggerProofs.tla` | what a tick does: lock, create, publish; the in-memory and the PostgreSQL locker with its pool; its theorems |
| `MCSchedule.tla` | the instance of these two |
| `TimerWheel.tla`, `TimerWheelProofs.tla` | the timer wheel and its two persistences; its theorems |
| `MCStores.tla` | the instance of `FanIn` and `TimerWheel` |
| `*.cfg` | one per run |
| `PROJECT.json` | components, runs, mutants, source map, findings, hazards, theorems |

## 1. The system

Paths are below `src/crates/`; "C" is `twerk-app/src/engine/coordinator/`.

| component | state it keeps | operations | speaks to |
|---|---|---|---|
| Coordinator handlers (`C/handlers/*`) | none of its own; rows of jobs and tasks in the datastore | one handler per queue: `handle_job_event`, `handle_task_progress` (pending, completed, failed), `handle_redelivered`, `handle_started`, log parts, heartbeats | datastore (read, `update_*` with a closure), broker (publish) |
| Scheduler (`C/scheduler/*`) | none | `schedule_task`: regular, parallel, each, subjob | datastore, broker |
| Subscriptions, submission (`C/mod.rs`) | stop token | `start` subscribes the handlers, `submit_job` creates the job and publishes it | broker |
| Engine worker (`twerk-app/src/engine/worker/mod.rs`) | `active_tasks` | `execute_task`: publish Running, run, publish Completed or Failed; `stop`; heartbeat | broker, runtime |
| REST calls (`twerk-web/src/api/handlers/jobs/*`) | none | create, cancel, restart, delete, read | datastore, broker |
| Broker (`twerk-infrastructure/src/broker/*`) | queues, handlers, topics | publish, subscribe, ack/nack (RabbitMQ), broadcast (in memory) | coordinator, workers |
| Datastore (`.../datastore/*`) | jobs, tasks, nodes, scheduled jobs, logs | create, `update_*(id, closure)`, queries | PostgreSQL or DashMaps |
| Scheduled jobs (`C/schedule.rs`, `twerk-web/src/api/handlers/scheduled.rs`) | rows; a map from scheduled job to cron entry in every coordinator | create, pause, resume, delete; `handle_active`, `handle_paused`, `trigger_scheduled_job` | datastore, broker's events, cron library, locker |
| Locker (`.../locker/*`) | keys in a map; a pool of sessions with advisory locks | `acquire_lock`, `release_lock`, drop | PostgreSQL |
| Runtimes (`twerk-app/src/engine/worker/{shell,docker,podman}.rs`) | process, directory or container of each task | `run`, `stop` | processes, Docker, Podman |
| Timer wheel (`.../runtime/timer/*`) | map of pending timers, rows, a bounded channel | schedule, cancel, start (recover), shutdown | persistence, signal registry |
| Engine (`twerk-app/src/engine/{engine,engine_lifecycle,engine_registration,signals}.rs`) | state, mode, a worker, a coordinator, a broadcast channel, a `Notify` | `start`, `run`, `terminate`, `await_shutdown`, `set_mode`, `submit_job`; the task that waits for a signal | worker, coordinator, the CLI |
| Expressions (`twerk-core/src/{eval/vm,ir/expr_vm}.rs`) | a stack, a position | one per instruction | compiler, frame |
| Infrastructure worker (`.../worker/internal/*`), cache, triggers, nodes | `active_tasks`, `notify`; entries with deadlines; registry; rows | see section 6 | |
| Templates, compiler, CLI, rest of the web API | no protocol state | pure translation, I/O | |

**How a job runs.** `submit_job` stores the job and publishes it to `x-jobs`.
`start_job` creates its first task and publishes it to `x-pending`. The scheduler
publishes a regular task to the queue of the workers, creates the children of a
parallel or each task, or submits the subjob of a subjob task. A worker reports
Running, then Completed or Failed, through the progress queue. A completed
top-level task makes `handle_top_level_task_completed` create the next one or
publish the job as Completed; a completed subtask is counted in its parent's row.
A failed task is retried as a new row or fails its job, and `fail_job` cancels
the job's other tasks. The job of a subjob reports to its parent task when it
ends.

**What is hard here.** Every delivery is its own async task, so messages of one
job overtake each other. Messages carry copies: an event's state, position and
attempts may be stale when handled. `handle_error` publishes to the queue it is
subscribed to. Cancelling goes from a parent job to its subjob and back. A
worker dies holding a task and the broker delivers the task again. The
completions of subtasks meet in one counter. Two runs of one task share the
entries of `active_tasks` and of the runtime. The events of scheduled jobs may
overtake the rows they copy, and a session of the locker's pool keeps its keys
after the lock is dropped. The timer wheel sends into a bounded channel with its
map locked. `terminate`, the task of the signal and those who wait for the end
meet in an engine whose `Notify` keeps no permit. The list, at its lines, is `hazards` in `PROJECT.json`.

**What makes it correct.** The steps of a job run one at a time and in order;
Completed means that every task completed; a fan-out waits for all its subtasks
and has one outcome; retries stay within their limit; a parent waits for its
subjob; an outcome is final; every name in a message resolves to a row; nothing
is left active with nobody to move it; the exchange of messages comes to rest;
a job ends. A published task runs a bounded number of times and is reported in
the end; stop waits for what runs. A scheduled job that is active has one cron
entry everywhere and none otherwise, and two ticks never hold its lock at once. A
timer fires, once in the life of a wheel, and not after it was cancelled. An engine
that is terminated or signalled stops its parts, and whoever waits for that
returns. An expression has one value, whichever machine evaluates it. (Not all of
this holds without exception: sections 3 and 5 have the exceptions.)

## 2. Modules and the code

### Coordinator

| model | code |
|---|---|
| `jobs`, `tasks` | the datastore's rows in order of creation (the order in which the in-memory datastore lists active tasks); an identifier is a position in the sequence |
| `msgs` | the messages of all queues, a bag: the in-memory broker spawns each delivery, and RabbitMQ consumers of different queues run side by side |
| `running` | tasks in a worker's hands |
| `calls`, `crashes` | how often a user called and a worker died, for the bounds |
| `finished` | history: tasks whose completion the coordinator has handled |
| `StartJob`, `CompleteJob`, `FailJob`, `HandleCancel`, `RestartJob`, `MarkJobAsRunning`, `IgnoreScheduled` | the branches of `handle_job_event` |
| `HandlePendingTask`, `HandleTaskCompleted`, `HandleError`, `HandleTaskProgress`, `HandleRedelivered` | the task handlers; what they call is an operator that returns an `Effect`: new jobs, new tasks, messages sent |
| `WorkerStart`, `WorkerFinish`, `WorkerCrash` | `execute_task` with either outcome, and a worker that dies before its report |
| `CancelJob`, `RequestRestart` | `cancel_job_impl`, `restart_job_handler` |

Abstractions. A definition is a model value; expressions are reduced to whether
the task was evaluated. A parallel and an each are both "fanout": they differ in
how the list of children comes about, not in how it is counted (the
`concurrency` of an each is ignored by the code). Every handler is atomic here;
`FanIn` splits the handlers whose interleaving shares a counter. A message
carries the fields the handlers branch on, the state and position of a job event
being the copy it was published with.

Read in the code and reflected in the model: nothing publishes to `x-started`,
so `handle_started` is not an action and tasks go from Scheduled to Running
through the progress queue; `node_id` is never set, so the branch of
`cancel_task_affinity` for a node's own queue is unreachable; `handle_cancel` is
called only with an event Cancelled and therefore never stores Cancelled, so a
subjob cancelled through its parent keeps running; an error in the loop of
`cancel_active_tasks` (a subjob task without a subjob id) leaves the remaining
tasks active; a Running report handled after the Completed one sets the task
back to Running; Skipped is overwritten by Completed when the skipped task's own
message is handled.

### JobPromise

Three variables: how many tasks the job has, how many have completed, and
whether the user sees it Waiting, Active, Completed or Failed. Tasks complete
one by one, Completed comes after the last and Failed before it, and a job all
of whose tasks are done does complete. `KeepsPromise` in `Coordinator` is its
specification under the mapping `total <- Len(jobs[1].tasks)`, `done <-` the
positions in `finished`, `phase <-` the stored state. It is claimed of jobs
nobody cancels.

### FanIn

The completion of one parallel or each task, at the awaits. The places a report
goes through are the values of `at`: `completed` or `failed` (queued),
`persisted` (after `persist_completed_task`), `counting` (in memory: the row has
been cloned), `counted` (the row is written), `failing`, `marking`, `marked` (the
same on the failure path), `done` (acknowledged). `row` is the parent's row,
`copy` the clones, `last` the `is_last` flags, `published` and `handled` the
messages that announce the parent, `job` the job around it. `store` says which
datastore the deployment has: `update_task_impl` of PostgreSQL reads with FOR
UPDATE and commits, so count and write are one step (`CountLocked`,
`FailLocked`); `update_task` in memory is `CloneRow` followed by `InsertCount` or
`InsertFailed`. `PublishRefused` is a broker error, after which the consumer
requeues the message; `CoordinatorCrash` returns everything in the hands of a
dead coordinator. Retries of a subtask are modelled in `Coordinator` only. What
`fail_job` and the completion of the parent write to the row is one step each on
either datastore: by then the counter decides nothing.

### Worker

Here the workers are in detail and the coordinator is one step (`Redeliver`).

| model | code |
|---|---|
| `Slot` | `spawn_queue_subscribers` subscribes once per unit of concurrency; RabbitMQ hands one message at a time to each subscription (prefetch 1), the in-memory broker spawns the handler of every subscription for every task (`Send`) |
| `queue`, `redel` | the queue of the workers, with the mark `redelivered` (`again`), and `x-redeliveries` |
| `exec[e].at` | where `execute_task` is: `began` (in `active_tasks`, Running not yet published), `launch`, `running`, `exited` (the process has ended), `report` (out of `active_tasks`), `ack`; `redirected` is a message sent to `x-redeliveries` and not yet acknowledged |
| `active` | `active_tasks`, keyed by task, so two executions share an entry |
| `tracked`, `tempdir` | the maps of the shell and Docker runtimes, keyed by task |
| `torn` | executions whose directory another one removed |
| `Fails` | a handler that returns an error: requeued, or in memory logged and gone |
| `HandleCancel`, `StopRun` | the listener on `cancel.<id>` and the runtime's `stop` |
| `Stop`, `StopReturns` | `stop` polls `active_tasks` for ten seconds; the slots go on consuming for as long as the process is there |
| `Leave`, `Die`, `Gone` | the process leaves after a stop (which `Engine` shows it need not do) or dies, and RabbitMQ requeues what it had not acknowledged |

The shell's `stop` sends SIGTERM and then starts a program `wait`, which does not
exist: it never waits and never kills, so the process may go on (`StopRun` leaves
it running in one of its outcomes). Podman is given no way to find a container by
task, so its `stop` finds nothing. Nobody sends a cancel message today, because
the node of a task is never set; `Cancel` stands for whoever does.

### Schedule and Trigger

`Schedule` follows one scheduled job. A REST call is in the places `update`,
`insert` (in memory: the clone has been modified and not yet inserted), `delete`,
`reread`, `publish`; `seen` is the copy it publishes. `events` are the events a
coordinator has not handled: on RabbitMQ its exclusive queue, handled one at a
time; in memory spawned tasks, in any order. `entries` are the cron entries that
tick, `known` the one the map names: they differ because `handle_active` adds a
second entry without looking for a first and `handle_paused` forgets its entry
before it removes it. `Start` loads the active rows and `Subscribe` comes later;
events between the two are lost to that coordinator, as in the code. `tidy` is a
history variable: it is true as long as calls follow one another, no coordinator
starts in the middle of one, and the cron library refuses nothing. What
`AtRestMatches` and `Settles` claim they claim of tidy histories; with two
overlapping calls a paused scheduled job goes on firing (`schedule_overlap`), and
after a refused removal its event stays in the queue for ever.

`Trigger` follows ticks: `client` (asking the pool), `lock`, `create`, `publish`,
`give` (the lock goes out of scope). The in-memory locker is a set of keys and
`removals`, the tasks that will remove a key. The PostgreSQL locker is a pool per
process: `idle` is the stack of its sessions, each with the keys whose
transaction it still has open, and `open` is `open_count`. `Drop` puts a session
back with its transaction open, which is what `PostgresLock::drop` does;
`Release` is `release_lock`, which rolls back first and which the cron closure
never calls (`Explicit` says for which lockers an instance calls it). The rest
of the two sides is external: the cron library, PostgreSQL's advisory locks.

### TimerWheel

`payload` is the state in each row's payload, `map` the wheel's map, `task` the
spawned task of a timer (`arming`, `sleeping`, `sending` with the map locked,
`deleting`), `channel` the bounded channel. `Start` reads the expired rows,
`Recover` sends them, `List` and `Load` fill the map, and only then does the loop
receive. In PostgreSQL `update_timer_state` changes a column that no query reads,
so a cancelled timer is still pending in its row: `StillPending` are those among
what start reads, and the history variable `revived` collects them, together with
the timers cancelled after start had read them. `raced` are those start read as
expired although this life has a task for them, or has sent them. `Restart` is a
new process: rows in memory go, rows in PostgreSQL stay. Nothing in the program constructs a
wheel yet; its callers are whoever will. A second start, which fails after it has
sent and loaded, is not modelled.

### Engine

| model | code |
|---|---|
| `estate`, `mode`, `stored` | the fields of `Engine`; `stored` is `None`, a part that runs or one that has been stopped |
| `orphans` | parts that were started and that the engine does not hold: a `start` that failed half-way, repeated |
| `writer`, `readers` | `&mut self` and `&self`, or the two sides of the lock around the default engine |
| `doing` | what each caller is in the middle of; `waiting` is inside `notified().await` |
| `listener` | the task of `spawn_signal_handler`: `spawned` (not yet subscribed), `listening`, `woken`, `half` (worker stopped), `done` |
| `Submit`, `Handle` | `submit_job`, and a handler of the coordinator, which returns Ok once `stop_token` is cancelled |

A start is one step: nobody can look at the engine before it returns. `StartFails`
has the places where it returns early as its disjuncts. `Signal` before the task
has registered for the signals has their default effect, the end of the process.
The broker and the datastore are assumed to initialise or to fail, and stopping a
part takes the `stop` of `Worker` as one step.

### ExprVm

`eval::vm` and `ir::expr_vm` are two machines for what looks like one language. The
module runs both on one program, which TLC chooses instruction by instruction
(sound because no instruction is executed twice, `NothingTwice`). Both are on a
stack of bounded size; they differ in the order they pop operands, in their
conversions, in overflow (`ir` fails, `eval` saturates), in division (`eval`
divides the smallest number by -1, which panics), in their instructions
(`OnlyIr`, `OnlyEv`), and only `ir` jumps. Numbers have `Width` bits. A text is a
word over the digits 0 and 1 and a letter. `eval` reads a word of digits as a number
wherever it wants one (`as_float`), `ir` never does; words with a sign, a point or an
exponent, which read as numbers too, are left out. Floats exist in `eval` alone: a
value that would depend on one is any value of its type. Lists and objects are left
out. `numerals` is a history variable: two texts that both read as numbers were
compared or added.

## 3. Runs

| run | what it asks | distinct states |
|---|---|---|
| `workflow` | a job of every kind of task that nobody touches, any outcome of any task, any order of delivery, one dying worker: eleven properties, among them the refinement `KeepsPromise` | 46,110 |
| `user_calls` | cancel and restart calls at any moment: three on a job of one task, with a dying worker; two, with a retry and a dying worker, on a job of two tasks or of a subjob | 159,662 |
| `stores` | three subtasks on either datastore, two refused publications, one dying coordinator; and two timers on either persistence, a channel of one place, two starts, one failure | 153,505 |
| `process` | two workers, one of them with two slots, two tasks, both brokers, all runtimes, one refused publication, one cancel, one stop or death; an engine with two callers in three modes, two failed starts; all programs of up to five instructions | 168,415 |
| `schedule` | a scheduled job under three calls, two coordinators that start and crash; and three ticks on either locker | 182,855 |
| `cancel_pending` | violated: `CancelledStays` | |
| `restart_endpoint` | violated: `RestartIsTakenUp` | |
| `retried_subjob` | violated: `RetryBudget` | |
| `fan_in_memory` | violated: `FanInEnds` | |
| `tick` | violated: `TicksMakeJobs` | |
| `memory_twice` | violated: `RunsOnce` | |
| `shutdown` | violated: `AwaitReturns` | |
@@@END
@@@OLD
overlapping calls a paused scheduled job goes on firing (`schedule_overlap`), and
after a refused removal its event stays in the queue for ever.
@@@NEW
overlapping calls a paused scheduled job goes on firing (`PausedIsQuiet`, section 5),
and after a refused removal its event stays in the queue for ever.

`stores`, `process` and `schedule` each hold two or three modules that share no
variable: `part` says which of them a behaviour is about, the others keep one of
their initial states.

What the passing runs show:

- `OneStepAtATime`, `StepsInOrder`: whatever is in flight of a job belongs to
  one top-level task, and no step exists before the one in front of it has
  completed, also with retries, redeliveries and cancels. A restart taken up while
  a step still runs creates that step a second time, both completions move the
  position on and the last step is created after the first alone; so
  `StepsInOrder` excepts jobs with a restarted step. (The instance of `user_calls`
  restarts lists of two steps at most, where this does not show; with the list
  `<<a, c, c>>` and three calls TLC finds it in fourteen states, and with the
  exception it finds none, 3.9 million states.)
- `CompletedMeansAllDone`, `FanInExact`, `ParentAwaitsSubjob`: completion says
  what it seems to say, for jobs, fan-outs and subjobs.
- `RetryBudget`: one place of the workflow never has more rows than its limit
  allows. It holds for regular tasks and is violated for subjob tasks (below).
- `OutcomeIsFinal`, `KeepsPromise`, `JobTerminates`: an undisturbed job runs as
  `JobPromise` says, ends once, and ends.
- `NoneStranded`: a job without subjobs that still looks active has something in
  flight. With subjobs it would be false: a subjob cancelled by a direct call
  does not report to its parent, which goes on waiting. Two kinds of job that is
  restarted are excepted, each of which TLC finds stranded: a cancel handled after
  the restart cancels the new task, whose redelivery is then dropped if its worker
  dies; and a restart that is read before the job first started creates no task.
  It holds on the instance of `workflow` as well, where it has no exception and
  where `JobTerminates` asks for more.
- `Quiesces`: the handlers that feed their own queues come to rest.
- `BarrierHolds`, `OneOutcome`, `NothingUncounted`, `LockedFanInEnds`: the parent
  waits for all, is published once and not also failed, no count is lost under
  row locks, and there the fan-in always ends.

- `NothingLost`, `RunsBounded`, `EveryTaskReported`: over RabbitMQ a task that
  has not been reported is somewhere from where it will run again, it runs at most once
  for its publication and each refused report, doubled by every worker that stops
  or dies, and it is reported, whatever is refused and whoever dies. In memory none
  of this is claimed: an error loses the task. The bound is a power because a dying
  worker can turn one copy into two: it redirects a redelivered message, dies before
  the acknowledgement, and both come back.
- `StopSeesRuns`, `DirectoryKept`: the entries two executions of a task share go
  wrong only for tasks that were cancelled or run twice at a time on one worker.
  For those they do go wrong: the first of two executions to end removes the entry,
  and stop does not wait for the second.
- `AtRestMatches`, `Settles`, `DeletedForGood`: once calls that followed one
  another have been handled, every coordinator has the one cron entry of an active
  scheduled job and knows it; no event is redelivered for ever; in PostgreSQL a
  deleted scheduled job does not come back, whatever the calls.
- `HoldersExclude`, `PoolWithinLimit`, `KeysComeBack`: the lock excludes although
  sessions go back to the pool with their keys, and although those sessions may
  take such a key again; the pool never exceeds its limit, although refused runs
  never give their place back (so in the end it is exhausted, until the
  process starts again).
- `RowUntilSent`, `OncePerLife`, `FiresInTheEnd`: timers are not lost between row,
  map, task and channel, and not sent twice in the life of a wheel. Excepted from
  `OncePerLife` are those start read as expired when this life had a task for them or
  had sent them: the task and start then send one each.
- `CancelledStaysQuiet`: what a call of cancel ended is sent by no task and by no
  start of this or a later life, with two exceptions. A timer start had read before
  the call is sent, on either persistence; and in PostgreSQL start reads a cancelled
  timer as pending (`ExpiredAreLive`, section 5). In memory a start after the call
  never sends it.
- `StartReturns`: start returns if what is to be sent before the loop runs fits the
  channel: what is in it, what start has to send, and the tasks that may wake
  meanwhile. The last count too: a task that meets a full channel keeps the map
  locked, which start then waits for after it has sent everything. When they do not
  fit, start waits for ever (`ExpiredAreFired`, section 5).
- `PartsStop`: after terminate or a signal the worker and the coordinator of the
  engine stop, also when the broadcast is missed; a signal is not enough after a
  start that failed in another mode.
- `MachinesAgree`, `NothingTwice`: where both machines give a program a value it is
  the same one, unless it compares or adds two texts that both read as numbers
  (`"1"` and `"2"` add up to a text in `ir` and to a number in `eval`, and `"10"` is
  less than `"9"` in `ir` alone); and every program ends.

### Bounds

- `MaxTasks` 8 caps the rows ever created; a handler that would exceed it is
  disabled. It never bites in the passing runs: with 7 or 9 they have exactly the
  same states. `MaxJobs` is the submitted job and the subjobs its retries or
  restarts can create.
- `MaxCopies` caps equal messages in flight: 1 in `workflow`, 2 elsewhere. It is
  needed because `handle_error` publishes to its own queue, which makes the
  state space infinite. Equal messages are handled in the same way, and a
  duplicate handled after the first is possible under any bound; all of
  `workflow`'s properties also hold with 2 (91,748 states).
- `MaxCalls` 2 or 3 is what it takes to cancel, restart, and cancel again;
  `MaxCrashes` 1 makes one task be run again. `CancelFrom` selects the states in
  which the user of an instance cancels. `Bounds` in `MCCoordinator`, an
  action constraint on the users' calls and the crashes (for neither of which any
  fairness is assumed), gives three calls and the crash to the job of one task, two and the crash to the
  others, whose users cancel a scheduled job or one that has ended.
- Fan-outs have two subtasks in `Coordinator`, with the same definition so that
  they can be confused, and three in `FanIn`, so that one is first, one last and
  one in between. Subjobs have two tasks.
- `MaxFaults` 2 lets the same report be refused twice or two reports once.
- `process`, workers: two slots on one worker are what it takes for two executions of a
  task to share an entry, a second worker is where the task goes when the first
  dies. On RabbitMQ `MCWorker` runs the shell only, and one task on the in-memory
  broker where the worker has two slots; the omitted combinations differ in what
  `run` tracks, which the broker does not see.
- `process`, engine: two callers are one who waits and one who acts; `MaxFailed` 2
  is a failure in one mode and a failure in another before a start; two jobs are
  one handled and one dropped.
- `process`, expressions: `Width` 3 is -4 to 3, which has every sign, a sum, a
  product and a quotient that overflow; five instructions are a comparison of the
  result of an operation with a constant, or a jump over one; `StackMax` 2 is
  exceeded by a third value. `MaxLetters` 2 has two words with one number
  (`0` and `00`), words one of which begins another, words in which a letter follows
  a digit, and the empty one.
- `schedule`: three calls reach pause, resume and delete after a create; three
  starts are two coordinators and one restart. The entries a coordinator can have
  (`Entry`) are more than these bounds can use. Three ticks are a holder, a
  session left in the pool and a rival; `MaxOpen` 2 and `MaxIdle` 1 make a
  returned session both kept and closed.
- `stores`, timers: `Cap` 1 makes the channel full with one timer, where the code has 100;
  a timer that arms, one that is cancelled or due, and two starts with a restart
  between them reach every order of list, load, wake and cancel.

`CHECK_DEADLOCK FALSE` is in every configuration because a job that has ended
has nothing left to do. No instance has an each over an empty list; it is listed
as a hazard.

### Fairness

`Coordinator` assumes weak fairness of: handling some job event, handling some
task message, a worker taking some task, a run ending. The code justifies it: the
broker runs the handler of every message of a subscribed queue, and the engine
worker waits for the runtime's `run`, which is assumed to end (the engine worker
sets no timeout). Nothing is assumed about single messages, about users or about
crashes. `FanIn` assumes that each subtask's worker ends, that each report's
handler is run on, and that what the fan-in publishes is handled; refusals and
crashes are bounded, not fair. `Worker` assumes that spawned tasks run, that a
process or container ends, that RabbitMQ delivers to a free subscription and that
the coordinator handles a redelivery, but not that a stopped worker leaves;
`EveryTaskReported` needs a worker that is up again and again. `Engine` assumes
that the spawned task runs, that a terminate that has begun goes on, and that
messages are delivered; a signal, a start or a terminate need never come. `MCStores`
states the fairness of `FanIn` for the behaviours that are about it, because its
subtasks are under way from the start. `Schedule` assumes that a call being served and a coordinator
that is up go on, `Trigger` that a run and a spawned removal do, `TimerWheel` that
time passes and that tasks, start and the loop go on. Nobody is obliged to call,
to tick, to start, to fail or to die.

## 4. Proofs

Every theorem holds for every value of the constants that satisfies the named
assumptions of its module (`WorkflowAssumption`, `BoundAssumption`,
`FanInAssumption`, `WorkerAssumption` and so on: finite sets of processes, tasks
and slots, natural bounds), so in particular for bounds that never bite. Where a
theorem has a hypothesis of its own it is named here.

**CoordinatorProofs.** `TypeCorrect` (`TypeOK`), `ReferencesResolve`
(`NoDanglingReference`), `TasksFollowDefinitions` (`TasksMatchDefinitions`).
The three are inductive only together: that a handler stores a well-typed row
needs that the rows it looks up exist, and that the next task is the definition
at its position needs that the position lies within the list. `IInv` is their
conjunction; `Rows` says the same row by row, which suits the provers. The
argument rests on one lemma, `Extension`: when jobs and tasks are only added or
changed in fields the invariant does not mention, and every added row is sound,
soundness of the rest survives. Each operator that returns an `Effect` gets a
lemma that its effect is `Allowed` (sound rows, at least as many, and messages
that name existing rows); each action's step cites the lemma of its operator.

**OrderProofs, the order.** `OneStepAtATimeTheorem`, `StepsInOrderTheorem`,
`CompletedMeansAllDoneTheorem`, `FanInExactTheorem`, `ParentAwaitsSubjobTheorem`,
`RetryBudgetTheorem`: the order in which a job runs, for every workflow, any
outcome of every task, any order of delivery, any number of retries and dying
workers. Hypothesis: `LeftAlone`, that is, `MaxCalls = 0` and no retry on subjob
tasks. Both are needed: a restart breaks the order (section 3), and `retried_subjob`
violates `RetryBudget`. The instance of `workflow` satisfies it.

None of the six is inductive, and they are so only together. The invariant,
`Ordered`, is kept in *books*, a record of the rows, of who holds a task (`pend`:
its first delivery is on the way; `act`: it is with a worker or its completion is
on the way; `fin`: it has finished) and of the job events on the way. `Exactly`
says that a task or event has one such message at most, `AllProper` that only
regular tasks reach a worker and only those out of attempts are published as
failed, and `Balanced`, the six parts of the argument:

- `HeldOnce`: a task is in one place, and is younger than its parent;
- `Counts`: a fan-out's counter is the number of its finished subtasks, and of
  whatever *set* of definitions one looks at, it has no more live subtasks than
  children. (For one definition at a time the fact is not strong enough to know
  that the last count leaves none missing.) A task is live if somebody holds it or
  it is composite; a regular task nobody holds was retried or is lost;
- `Line`: of a job's list, all before the position have finished, one at most is
  live at each position, and a Completed event or state comes after the last;
- `Nesting`: a subjob and its task name each other, and the task is only held
  again once the job has completed;
- `Budget`: a retry has a task of the attempt before it that is no longer live.
  Hence by the least attempt that had too many (`NoFirst`) the bound per attempt,
  and so `RetryBudget`;
- `Sound`, from `CoordinatorProofs`.

Every handler is one of six entries in the books, or two in a row: a delivery is
passed on or dropped (`Pass`), a completion is handled, a row is added as the next
of a list, as the subtasks of a fan-out, as a subjob with its job, or as a retry.
One lemma per entry says the books stay balanced, and one lemma per action that
its messages and rows are such an entry. `OneStepAtATime` then follows by going up
from a task in flight to the least task above it that is live, which is one of the
list (`TopOf`); since `Lineage` is recursive, that its recursion has a solution is a
lemma as well (`LineageUnfolds`, with the least closed set above a task).

**OrderProofs, the outcome.** `OutcomeIsFinalTheorem` (an action property) and
`PromiseStepsTheorem` (the initial states of `Coordinator` are initial states of
`JobPromise`, and each step is one of its steps or a stutter), under `LeftAlone`.
`complete_job` does not look at the state it overwrites, so what keeps a failed job
failed is that no Completed event can come any more. The invariant is `Failing`: a
failed job is `Stuck`, that is, every task left at its position is composite and
`Broken` (a subjob task whose job has failed, a fan-out recorded as failed); and a
fan-out is recorded as failed only when it is `Short` of a live subtask or has a
broken one (`Accounted`). `Reason` asks of every message that reports a failure that
its task is `Lost`, and that the job of a Failed event is stuck. A stuck job stays
stuck and a lost task stays lost, and the outcome of a job is not overwritten
(`Leads`): there is one lemma for each kind of entry in the books. `Promised` then
reads each entry as a step of `JobPromise`: the tasks done are counted by position,
one at a time, because `Line` has them finish in order.

**OrderProofs, progress.** `NoneStrandedTheorem`, under `LeftAlone` and `FansOut`: no
parallel or each has an empty list of children. Validation refuses a parallel without
tasks and an each without an expression
(`twerk-core/src/validation/task.rs:54`, `:62`); that the expression yields no element
is found out only at run time, and then the theorem's conclusion is false: the parent
stays Running with nothing to count (`C/scheduler/shared.rs:62`). The invariant
(`Underway`) says that a job without subjobs is over, or its failure has been reported,
or it is `Moving`: its first event is on the way, or its last, or a task at its
position has not finished; a fan-out has a live subtask for each of its children
(`AllLive`) and, while nobody holds it, has not counted them all (`Counting`). A task
at work is not recorded as ended (`AtWork`), so that its redelivery is published and
not dropped when its worker dies. If nobody held anything, the unfinished task at the
position would be a fan-out, and each such fan-out would wait for a younger one
(`WaitsForYounger`), which cannot go on (`NoFirst`).

**FanInProofs.** `BarrierTheorem` (`BarrierHolds`) and `OneOutcomeTheorem`
(`OneOutcome`), for any finite number of subtasks, on either datastore, with any
number of refused publications. Neither is inductive. The strengthening has four
parts: `Counters` (the row's counter and every clone are at most the number of
subtasks counted, which is where lost updates are harmless to safety), `Token`
(at most one report is between the count that completed the set and the parent's
publication, and none after it), `Places` (where an uncounted subtask can be),
and `Failures` (whatever looks failed is owed to a subtask that will never be
counted, so the set is never complete then). With a crash the token is
duplicated, which is why both are stated for `crashes = 0` (see `WaitsForAll` in
section 5). `NothingUncountedTheorem` (`NothingUncounted`) holds with crashes; its
strengthening `Locks` says that under row locks no clone is ever outstanding.
`FanInTypeTheorem` is the types.

**WorkerProofs.** `NothingLostTheorem`, `RunsBoundedTheorem`,
`StopSeesRunsTheorem`, `DirectoryKeptTheorem`, `WorkerTypeTheorem`, for any finite
workers, slots and tasks and any number of refusals, cancels, stops and deaths.
`Unsent` (what was not published is nowhere) makes the in-memory broker's delivery
overwrite nothing; `Tracks`, `Alone` and `Known` say that whoever is missing from a
shared map was cancelled or met another execution, which `disturbed` records;
`Somewhere` is `NothingLost` with the places in which a slot still owes a report.
`RunsBounded` is a potential (`Fits`): runs made and copies that may still run
(queued, to be redelivered, or not yet launched) are at most
(1 + refused) * 2 ^ (workers gone), and so are the copies a death would leave: those,
what has run and is not acknowledged, and the redirected messages, which count
twice. The proof refuted the bound this property used to state, which grew by a
constant with each death: three deaths of workers with one, two and four slots
exceed it.

**ScheduleProofs.** `AtRestMatchesTheorem`, `DeletedForGoodTheorem` (an action
property) and `ScheduleTypeTheorem`. For the first, `Tells`: what was announced
last to a coordinator, be it handled (`Fires`) or still queued (`Told`), is what
the row asks for, except between the write of a call and its event, when it is the
opposite; and the events of a queue alternate, beginning with one that changes
something (`InTurn`). `Enough` shows that the cron entries a coordinator may need
do not run out.

**TriggerProofs.** `HoldersExcludeTheorem`, `PoolWithinLimitTheorem`,
`TriggerTypeTheorem`. In memory a key stays in the map from the run that put it
there to the one spawned task that removes it (`InMap`); in PostgreSQL one session
at most holds a key, with a run or in the pool (`OneSession`); `open_count` covers
the sessions idle and in use (`Within`). Hypothesis of the first: `"memory"` is not in
`Explicit`, that is, nobody calls `release_lock` in memory, which the cron closure
does not; section 5 has what happens otherwise.

**TimerWheelProofs.** `RowUntilSentTheorem`, `OncePerLifeTheorem`,
`CancelledStaysQuietTheorem` (an action property), `TimerTypeTheorem`. A timer has
an entry, a spawned task or a place in what start has yet to send only after it was
saved (`Known`), and one of the last two at most (`Once`); what was cancelled has
neither, nor an entry its sleeping task could find, unless start has read it
(`Quiet`). That the row is pending no more is part of `Quiet` in memory; in
PostgreSQL it is not so, which is why `revived` is needed there.

**ExprVmProofs.** `MachinesAgreeTheorem`, `NothingTwiceTheorem` (an action
property), `ExprTypeTheorem`, for any `Width`, any length of texts and programs and
any stack. While neither machine has failed and no two texts that read as numbers
have met, their stacks are equal and free of floats (`Alike`), so every instruction
meets the same operands, and one lemma per group of instructions compares what the
two make of them. A text that does not read as a number, or whose partner does not,
makes `eval` fail where `ir` goes on, or both fail.

Only model-checked:

- all liveness (`JobTerminates`, `Quiesces`, `LockedFanInEnds`, `FiresInTheEnd`,
  `StartReturns`, `EveryTaskReported`, `PartsStop`, `Settles`, `KeysComeBack`, and of
  `KeepsPromise` the fairness of `JobPromise`): liveness under fairness and ENABLED
  are out of the prover's reach;
- `NoneStranded` and `StepsInOrder` under user calls: their invariant would have to
  follow every stale copy of a cancelled or restarted job's event;
- `PeriodicTypeOK`, `StoresTypeOK`, `ProcessTypeOK`, the unions of the type
  invariants of the modules an instance joins: each part but `Engine`'s is proved.

A remark for who changes `Coordinator`: one row is written with `WithTask` and not
with EXCEPT, because TLC's `Append` to a sequence that was defined as a function and
never enumerated forgets an EXCEPT applied to it. The proofs found it: their
invariant was violated by a state no step of the specification leads to.

## 5. Where the code and its documentation disagree

With a run of their own; `PROJECT.json` quotes the lines:

1. `cancel_pending`: cancelling a job that is still Pending publishes its
   Pending copy, and the coordinator starts the cancelled job.
2. `restart_endpoint`: the restart call publishes the Failed or Cancelled copy;
   `restart_job` is not reached and the job stays in Restart.
3. `retried_subjob`: every duplicate of a subjob's Failed event is announced to
   the parent task again, and each announcement retries it.
4. `fan_in_memory`: on the in-memory datastore two subtasks counted at once can
   be counted as one, and the job never ends.
5. `tick`: the job of a tick is named with a hyphenated UUID of 36 characters, the
   id column of PostgreSQL has 32: there no scheduled job ever runs.
6. `memory_twice`: on the in-memory broker a worker with concurrency n runs every
   task of the queue n times.
7. `shutdown`: `await_shutdown` is where the process of the command line waits.
   After a signal its parts are stopped and nobody notifies it, and a notification
   that came before would have been lost: the process stays until it is killed.

Stated in the modules and without a run of their own; TLC refutes each:

- `CancelsAll` (`MCCoordinator`, `OneFan` with `MixedChildren`): the loop that cancels
  the tasks of a job ("Cancels all active tasks for a job.", `C/handlers/cancellation.rs:76`)
  ends with an error at a subjob task that has not been scheduled; in memory the tasks
  behind it stay active and are run. (RabbitMQ delivers the event again and the rest is
  cancelled then; `Coordinator` leaves out that requeue.)
- `PausedIsQuiet` (`Schedule`, one coordinator, two clients, three calls): a pause that
  rereads the row after a resume publishes Active too; of the two cron entries the map
  knows one, a pause removes that one and the other goes on firing. The module
  "Handles scheduling and unscheduling of jobs based on their state" (`C/schedule.rs:3`).
- `DeletedStaysAway` (`Schedule`, the same instance): in memory the update of a pause
  or resume under way brings a deleted scheduled job back.
- `ExpiredAreLive` (`TimerWheel`, one timer, one start): in PostgreSQL cancel changes
  the column `state` (`persistence.rs:247`), start reads the payload and fires what was
  cancelled, where it should get timers "in a pending/active/firing state"
  (`persistence.rs:40`).
- `ExpiredAreFired` (`TimerWheel`, two timers, a channel of one place, one start):
  nobody empties the channel before start has sent all expired timers, so with more of
  them than the channel holds start never returns and the rest is not fired, which
  `wheel.rs:44` says it is.
- `WorkersRunEvaluated` (`Coordinator`, the instance of `workflow`): from the
  second task on, a worker receives a task whose expressions were not evaluated.
- `WaitsForAll` (`FanIn`, three subtasks): a coordinator that dies between
  the count and the acknowledgement makes one subtask count twice, and the parent
  completes while another is still running.
- `HoldersExclude` with `Explicit = {"memory"}` (`Trigger`): `release_lock` in
  memory removes the key and its spawned task removes it again, by then perhaps
  another's. The cron closure does not call it.
- `NoJobDropped` (`Engine`, the instance of `shutdown`): the handlers of a stopped
  coordinator return Ok, so its messages are acknowledged and nobody handles them.
  With the process that stays, jobs disappear into it.
- `NeverPanics` (`ExprVm`): `eval::vm` saturates sums and products, but computes
  `a / b` and `a % b` as they are, which panics for the smallest number and -1.
- `JumpsAsCommented` (`ExprVm`): `ir::expr_vm` says that a jump skips the increment
  of the loop (`expr_vm.rs:331`); it does not, and a jump by n goes n + 1 further.
- `MachinesAlwaysAgree` (`ExprVm`): the two machines on two texts that both read as
  numbers, see section 3. No document says what their sum is.
- `FiresWhenDue` (`TimerWheel`, one timer, two starts): a timer that start loads
  before it is due is put into the map and never slept on.
- `CancelledNeverSent` (`TimerWheel`, one timer, one start): start sends what was
  cancelled after it had been read.

## 6. Not modelled, and the plan

Not modelled in `Coordinator`: handler and broker errors (with
`rollback_failed_publish`), evaluation errors, webhooks, progress percentages,
log parts, heartbeats, `delete_job`, the stop token (`Engine` has it). REST calls on jobs are
atomic. A worker that dies after its report is in `Worker`.

Left out as components, and why:

- the infrastructure worker is a library the engine does not start; its stop
  checks `active_tasks` and then waits for `notify_waiters`, which wakes only
  those already waiting;
- the trigger API is a map of its own that nothing fires yet. Its
  `update_trigger` (`twerk-web/src/api/trigger_api/datastore/state.rs:111`) reads
  under one lock and inserts under another, the pattern `FanIn` shows to lose
  counts and `Schedule` to bring a deleted row back: two updates with one
  version can both be accepted;
- heartbeats write one row each and nobody decides by it; the cache is used by no
  handler;
- task templates, the state language, the compiler, configuration, redaction
  and generated documents are translations of data without protocol state, and by
  far the largest part of the source.

Next, in this order:

1. Proofs: `StepsInOrder` and `NoneStranded` under user calls. `LeftAlone` enters where
   `Exactly` says that a job has one event at most on the way; with calls each event
   needs the state it was copied from, and which restart it belongs to.
2. The await points of `AdvanceJob`, beside `FanIn`: two completions of one step.
3. The library's worker and the trigger API, when the engine uses them.
