------------------------------- MODULE Worker -------------------------------
(***************************************************************************)
(* Workers that execute tasks: deliveries of the broker, execute_task at   *)
(* its awaits, the runtimes' run and stop, cancel messages, the graceful   *)
(* stop and the death of a worker.  Coordinator takes all of this as one   *)
(* step of the worker; here it is the coordinator that is one step.        *)
(*                                                                         *)
(* A worker subscribes to its queue once per unit of concurrency; each     *)
(* subscription is a slot.  RabbitMQ hands a message to one slot and the   *)
(* next when that is acknowledged.  The in-memory broker spawns the        *)
(* handler of every slot for every task.                                   *)
(*                                                                         *)
(* No coordinator sends a cancel message (see cancel_task_affinity: the    *)
(* node of a task is never set); the worker's handler is modelled for      *)
(* whoever does.                                                           *)
(***************************************************************************)
EXTENDS Naturals, FiniteSets

CONSTANTS
  Task, Worker,
  Slot,        \* the slots of each worker: pairs of a worker and a number
  Brokers,     \* the brokers to run on: memory, rabbitmq
  Runtimes,    \* the runtimes: shell, docker, podman
  MaxRefused,  \* bound: publications the broker refuses
  MaxCancels,  \* bound: cancel messages
  MaxEnds      \* bound: workers that stop or die

ASSUME WorkerAssumption ==
  /\ IsFiniteSet(Task) /\ IsFiniteSet(Worker)
  /\ IsFiniteSet(Slot) /\ Slot \subseteq Worker \X Nat
  /\ Brokers \subseteq {"memory", "rabbitmq"}
  /\ Runtimes \subseteq {"shell", "docker", "podman"}
  /\ MaxRefused \in Nat /\ MaxCancels \in Nat /\ MaxEnds \in Nat

VARIABLES
  broker, runtime,
  phase,     \* of each worker: up, stopping, stopped, dead (or never started)
  consumes,  \* the slots that have subscribed
  queue,     \* RabbitMQ: copies of each task, fresh and marked redelivered
  redel,     \* RabbitMQ: copies of each task in x-redeliveries
  sent,      \* the tasks the coordinator has published
  exec,      \* the execution of each task in each slot
  active,    \* active_tasks of each worker
  tracked,   \* the execution whose process or container the runtime knows
  tempdir,   \* the execution whose directory the shell runtime knows
  torn,      \* executions whose directory another one, or a stop, removed
  reports,   \* the outcomes of each task reported to the coordinator
  cancels,   \* cancel messages not handled yet
  disturbed, \* history: a task cancelled, or run twice at a time, on a worker
  runs,      \* history: how often each task was started
  refused, ends, cancelled

wvars == <<broker, runtime, phase, consumes, queue, redel, sent, exec, active, tracked,
           tempdir, torn, reports, cancels, disturbed, runs, refused, ends, cancelled>>

\* An execution: of a task in a slot.
Exec == Slot \X Task
W(e) == e[1][1]
T(e) == e[2]
Nobody == <<>>

Place == {"none", "began", "launch", "running", "exited", "report", "ack", "redirected"}
Free     == [at |-> "none", out |-> "none"]
At(e, p) == exec[e].at = p
Moves(e, p, q) == At(e, p) /\ exec' = [exec EXCEPT ![e].at = q]
SlotFree(s) == \A t \in Task : At(<<s, t>>, "none")
Alive(w) == phase[w] \in {"up", "stopping", "stopped"}

Refuses == refused < MaxRefused /\ refused' = refused + 1

----------------------------------------------------------------------------
(* Deliveries.                                                             *)

\* spawn_queue_worker subscribes in a spawned task.
Subscribe(s) ==
  /\ phase[s[1]] \in {"up", "stopping"} /\ s \notin consumes
  /\ consumes' = consumes \cup {s}
  /\ UNCHANGED <<broker, runtime, phase, queue, redel, sent, exec, active, tracked, tempdir,
                 torn, reports, cancels, disturbed, runs, refused, ends, cancelled>>

\* execute_task begins: the entry of active_tasks overwrites that of another
\* execution of the task.
Starts(E) ==
  /\ exec' = [e \in Exec |-> IF e \in E THEN [at |-> "began", out |-> "none"] ELSE exec[e]]
  /\ active' = [w \in Worker |-> active[w] \cup {T(e) : e \in {f \in E : W(f) = w}}]
  /\ disturbed' = disturbed \cup
       {<<W(e), T(e)>> : e \in {f \in E : \E g \in Exec \ {f} :
           W(g) = W(f) /\ T(g) = T(f) /\ (g \in E \/ ~At(g, "none"))}}

\* The coordinator publishes a task.  RabbitMQ queues it; the in-memory broker
\* gives it to all slots there are now, and to none if there are none.
Send(t) ==
  /\ t \notin sent /\ sent' = sent \cup {t}
  /\ IF broker = "rabbitmq"
       THEN queue' = [queue EXCEPT ![t].fresh = @ + 1] /\ UNCHANGED <<exec, active, disturbed>>
       ELSE Starts({e \in Exec : e[1] \in consumes /\ T(e) = t}) /\ UNCHANGED queue
  /\ UNCHANGED <<broker, runtime, phase, consumes, redel, tracked, tempdir, torn, reports,
                 cancels, runs, refused, ends, cancelled>>

Consumes(e) == broker = "rabbitmq" /\ e[1] \in consumes /\ SlotFree(e[1])

Deliver(e) ==
  /\ Consumes(e) /\ queue[T(e)].fresh > 0
  /\ queue' = [queue EXCEPT ![T(e)].fresh = @ - 1]
  /\ Starts({e})
  /\ UNCHANGED <<broker, runtime, phase, consumes, redel, sent, tracked, tempdir, torn, reports,
                 cancels, runs, refused, ends, cancelled>>

\* A redelivered message goes to x-redeliveries and is acknowledged after that;
\* while the broker refuses it, it stays in the queue.
Redirect(e) ==
  /\ Consumes(e) /\ queue[T(e)].again > 0
  /\ queue' = [queue EXCEPT ![T(e)].again = @ - 1]
  /\ redel' = [redel EXCEPT ![T(e)] = @ + 1]
  /\ exec' = [exec EXCEPT ![e].at = "redirected"]
  /\ UNCHANGED <<broker, runtime, phase, consumes, sent, active, tracked, tempdir, torn, reports,
                 cancels, disturbed, runs, refused, ends, cancelled>>

\* handle_redelivered publishes the task once more, unless it has ended; the
\* report of its end may not have been handled yet.
Redeliver(t) ==
  /\ redel[t] > 0
  /\ redel' = [redel EXCEPT ![t] = @ - 1]
  /\ \/ queue' = [queue EXCEPT ![t].fresh = @ + 1]
     \/ reports[t] # {} /\ UNCHANGED queue
  /\ UNCHANGED <<broker, runtime, phase, consumes, sent, exec, active, tracked, tempdir, torn,
                 reports, cancels, disturbed, runs, refused, ends, cancelled>>

\* Mutant: a handler that fails has its message acknowledged.
AckOnError(e) == exec' = [exec EXCEPT ![e] = Free] /\ UNCHANGED queue

\* A handler that fails: RabbitMQ requeues, the in-memory broker logs.
Fails(e) ==
  /\ exec' = [exec EXCEPT ![e] = Free]
  /\ IF broker = "rabbitmq" THEN queue' = [queue EXCEPT ![T(e)].again = @ + 1] ELSE UNCHANGED queue

----------------------------------------------------------------------------
(* execute_task.                                                           *)

ReportRunning(e) ==
  /\ At(e, "began")
  /\ \/ Moves(e, "began", "launch") /\ UNCHANGED <<queue, refused>>
     \/ Fails(e) /\ Refuses
  /\ UNCHANGED <<broker, runtime, phase, consumes, redel, sent, active, tracked, tempdir, torn,
                 reports, cancels, disturbed, runs, ends, cancelled>>

\* run, up to the process or the container: the shell runtime tracks both its
\* directory and its process, Docker its container, Podman nothing.
Launch(e) ==
  /\ Moves(e, "launch", "running")
  /\ tracked' = IF runtime = "podman" THEN tracked ELSE [tracked EXCEPT ![W(e)][T(e)] = e]
  /\ tempdir' = IF runtime = "shell" THEN [tempdir EXCEPT ![W(e)][T(e)] = e] ELSE tempdir
  /\ runs' = [runs EXCEPT ![T(e)] = @ + 1]
  /\ UNCHANGED <<broker, runtime, phase, consumes, queue, redel, sent, active, torn, reports,
                 cancels, disturbed, refused, ends, cancelled>>

\* Mutant: the result of a run is not put into the task.
ExitUnnoticed(e) ==
  /\ Moves(e, "running", "exited")
  /\ tracked' = [tracked EXCEPT ![W(e)][T(e)] = Nobody]
  /\ UNCHANGED <<broker, runtime, phase, consumes, queue, redel, sent, active, tempdir, torn,
                 reports, cancels, disturbed, runs, refused, ends, cancelled>>

\* The process ends; the entry removed is whichever the task has by now.
Exit(e) ==
  /\ At(e, "running")
  /\ \E o \in {"Completed", "Failed"} : exec' = [exec EXCEPT ![e] = [at |-> "exited", out |-> o]]
  /\ tracked' = [tracked EXCEPT ![W(e)][T(e)] = Nobody]
  /\ UNCHANGED <<broker, runtime, phase, consumes, queue, redel, sent, active, tempdir, torn,
                 reports, cancels, disturbed, runs, refused, ends, cancelled>>

\* Mutant: the directory of any other task goes as well.
CleanupAll(w, t, e) ==
  /\ tempdir' = [tempdir EXCEPT ![w] = [u \in Task |-> Nobody]]
  /\ torn' = torn \cup ({tempdir[w][u] : u \in Task} \ {Nobody, e})

\* cleanup_temp_dir removes the directory the map names for the task.
Cleanup(w, t, e) ==
  /\ tempdir' = [tempdir EXCEPT ![w][t] = Nobody]
  /\ torn' = torn \cup ({tempdir[w][t]} \ {Nobody, e})

\* Mutant: every entry of active_tasks goes, not only that of the task.
LeavesAll(e) == active' = [active EXCEPT ![W(e)] = {}]
Leaves(e) == active' = [active EXCEPT ![W(e)] = @ \ {T(e)}]

\* The rest of run and the arm of execute_task that takes its result: a run
\* whose directory is gone fails, and cleans up nothing.
Collect(e) ==
  /\ At(e, "exited")
  /\ exec' = [exec EXCEPT ![e] = [at |-> "report", out |-> IF e \in torn THEN "Failed" ELSE @.out]]
  /\ IF runtime = "shell" /\ e \notin torn
       THEN Cleanup(W(e), T(e), e)
       ELSE torn' = torn \ {e} /\ UNCHANGED tempdir
  /\ Leaves(e)
  /\ UNCHANGED <<broker, runtime, phase, consumes, queue, redel, sent, tracked, reports,
                 cancels, disturbed, runs, refused, ends, cancelled>>

Report(e) ==
  /\ At(e, "report")
  /\ \/ /\ Moves(e, "report", "ack")
        /\ reports' = [reports EXCEPT ![T(e)] = @ \cup {exec[e].out}]
        /\ UNCHANGED <<queue, refused>>
     \/ Fails(e) /\ Refuses /\ UNCHANGED reports
  /\ UNCHANGED <<broker, runtime, phase, consumes, redel, sent, active, tracked, tempdir, torn,
                 cancels, disturbed, runs, ends, cancelled>>

\* Mutant: a message that was handled is requeued.
AcknowledgeNot(e) ==
  /\ exec[e].at \in {"ack", "redirected"}
  /\ Fails(e)
  /\ UNCHANGED <<broker, runtime, phase, consumes, redel, sent, active, tracked, tempdir,
                 torn, reports, cancels, disturbed, runs, refused, ends, cancelled>>

Acknowledge(e) ==
  /\ exec[e].at \in {"ack", "redirected"}
  /\ exec' = [exec EXCEPT ![e] = Free]
  /\ UNCHANGED <<broker, runtime, phase, consumes, queue, redel, sent, active, tracked, tempdir,
                 torn, reports, cancels, disturbed, runs, refused, ends, cancelled>>

----------------------------------------------------------------------------
(* Cancel, stop and death.                                                 *)

Cancel(w, t) ==
  /\ phase[w] = "up" /\ cancelled < MaxCancels /\ cancelled' = cancelled + 1
  /\ cancels' = cancels \cup {<<w, t>>}
  /\ UNCHANGED <<broker, runtime, phase, consumes, queue, redel, sent, exec, active, tracked,
                 tempdir, torn, reports, disturbed, runs, refused, ends>>

\* stop of what the runtime knows: Docker removes the container; the shell
\* signals the process, which may ignore that (the "wait" it starts next is no
\* program), forgets it and removes its directory.
StopRun(w, t) ==
  LET x == tracked[w][t] IN
    /\ tracked' = [tracked EXCEPT ![w][t] = Nobody]
    /\ IF x = Nobody
         THEN UNCHANGED <<exec, tempdir, torn>>
         ELSE /\ IF runtime = "shell" THEN Cleanup(w, t, Nobody) ELSE UNCHANGED <<tempdir, torn>>
              /\ \/ exec' = [exec EXCEPT ![x] = [at |-> "exited", out |-> "Failed"]]
                 \/ runtime = "shell" /\ UNCHANGED exec

HandleCancel(w, t) ==
  /\ <<w, t>> \in cancels /\ Alive(w)
  /\ cancels' = cancels \ {<<w, t>>}
  /\ active' = [active EXCEPT ![w] = @ \ {t}]
  /\ disturbed' = disturbed \cup {<<w, t>>}
  /\ IF t \in active[w] THEN StopRun(w, t) ELSE UNCHANGED <<exec, tracked, tempdir, torn>>
  /\ UNCHANGED <<broker, runtime, phase, consumes, queue, redel, sent, reports, runs, refused,
                 ends, cancelled>>

\* stop: the broker goes on delivering to the slots.
Stop(w) ==
  /\ phase[w] = "up" /\ ends < MaxEnds /\ ends' = ends + 1
  /\ phase' = [phase EXCEPT ![w] = "stopping"]
  /\ UNCHANGED <<broker, runtime, consumes, queue, redel, sent, exec, active, tracked, tempdir,
                 torn, reports, cancels, disturbed, runs, refused, cancelled>>

\* stop returns when there are no active tasks, or after ten seconds; the slots go
\* on consuming for as long as the process is there.
StopReturns(w) ==
  /\ phase[w] = "stopping"
  /\ phase' = [phase EXCEPT ![w] = "stopped"]
  /\ UNCHANGED <<broker, runtime, consumes, queue, redel, sent, exec, active, tracked, tempdir,
                 torn, reports, cancels, disturbed, runs, refused, ends, cancelled>>

\* The process is gone, after a stop or for any other reason; RabbitMQ requeues
\* what was not acknowledged.
Gone(w) ==
  /\ broker = "rabbitmq"
  /\ phase' = [phase EXCEPT ![w] = "dead"]
  /\ consumes' = {s \in consumes : s[1] # w}
  /\ queue' = [t \in Task |-> [queue[t] EXCEPT !.again =
                 @ + Cardinality({e \in Exec : W(e) = w /\ T(e) = t /\ ~At(e, "none")})]]
  /\ exec' = [e \in Exec |-> IF W(e) = w THEN Free ELSE exec[e]]
  /\ active' = [active EXCEPT ![w] = {}]
  /\ tracked' = [tracked EXCEPT ![w] = [t \in Task |-> Nobody]]
  /\ tempdir' = [tempdir EXCEPT ![w] = [t \in Task |-> Nobody]]
  /\ torn' = {e \in torn : W(e) # w}
  /\ cancels' = {c \in cancels : c[1] # w}
  /\ UNCHANGED <<broker, runtime, redel, sent, reports, disturbed, runs, refused, cancelled>>

Die(w)     == phase[w] = "up" /\ ends < MaxEnds /\ ends' = ends + 1 /\ Gone(w)
Leave(w)   == phase[w] = "stopped" /\ Gone(w) /\ UNCHANGED ends

----------------------------------------------------------------------------

WorkerInit ==
  /\ broker \in Brokers /\ runtime \in Runtimes
  /\ phase \in [Worker -> {"up", "dead"}]
  /\ broker = "memory" => \E w \in Worker : \A v \in Worker : phase[v] = "up" <=> v = w
  /\ consumes = {}
  /\ queue = [t \in Task |-> [fresh |-> 0, again |-> 0]]
  /\ redel = [t \in Task |-> 0]
  /\ sent = {}
  /\ exec = [e \in Exec |-> Free]
  /\ active = [w \in Worker |-> {}]
  /\ tracked = [w \in Worker |-> [t \in Task |-> Nobody]]
  /\ tempdir = tracked
  /\ torn = {}
  /\ reports = [t \in Task |-> {}]
  /\ cancels = {} /\ disturbed = {}
  /\ runs = [t \in Task |-> 0]
  /\ refused = 0 /\ ends = 0 /\ cancelled = 0

Executes(e) == ReportRunning(e) \/ Launch(e) \/ Exit(e) \/ Collect(e) \/ Report(e) \/ Acknowledge(e)
Takes(t)    == \E e \in Exec : T(e) = t /\ (Deliver(e) \/ Redirect(e))

WorkerNext ==
  \/ \E t \in Task : Send(t) \/ Takes(t) \/ Redeliver(t)
  \/ \E e \in Exec : Executes(e)
  \/ \E s \in Slot : Subscribe(s)
  \/ \E w \in Worker :
       \/ \E t \in Task : Cancel(w, t) \/ HandleCancel(w, t)
       \/ Stop(w) \/ StopReturns(w) \/ Leave(w) \/ Die(w)

\* Spawned tasks run, processes end, RabbitMQ delivers and the coordinator
\* handles redeliveries; a worker that has stopped may stay for ever (see Engine).
WorkerFairness ==
  /\ \A t \in Task : WF_wvars(Takes(t)) /\ WF_wvars(Redeliver(t))
  /\ \A e \in Exec : WF_wvars(Executes(e))
  /\ \A s \in Slot : WF_wvars(Subscribe(s))

WorkerSpec == WorkerInit /\ [][WorkerNext]_wvars /\ WorkerFairness

----------------------------------------------------------------------------

\* The type invariant of the deliveries, the executions and the runtime's maps.
WorkerTypeOK ==
  /\ broker \in Brokers /\ runtime \in Runtimes
  /\ phase \in [Worker -> {"up", "stopping", "stopped", "dead"}]
  /\ consumes \subseteq Slot
  /\ queue \in [Task -> [fresh : Nat, again : Nat]] /\ redel \in [Task -> Nat]
  /\ sent \subseteq Task
  /\ exec \in [Exec -> [at : Place, out : {"none", "Completed", "Failed"}]]
  /\ active \in [Worker -> SUBSET Task]
  /\ \A w \in Worker, t \in Task : {tracked[w][t], tempdir[w][t]} \subseteq
       {Nobody} \cup {e \in Exec : W(e) = w /\ T(e) = t}
  /\ torn \subseteq Exec
  /\ reports \in [Task -> SUBSET {"Completed", "Failed"}]
  /\ cancels \subseteq Worker \X Task /\ disturbed \subseteq Worker \X Task
  /\ runs \in [Task -> Nat]

\* Over RabbitMQ a task without a reported outcome is always somewhere from
\* where it will run again: queued, to be redelivered or not acknowledged.
NothingLost ==
  broker = "rabbitmq" => \A t \in sent :
    reports[t] = {} => \/ queue[t].fresh + queue[t].again + redel[t] > 0
                       \/ \E e \in Exec : T(e) = t /\ ~At(e, "none")

\* A task runs once for its publication and, at most, as often again for every report
\* refused; a worker that dies or stops can double that: the message it redirected to
\* x-redeliveries and not acknowledged comes back besides the copy it runs.
RunsBounded ==
  broker = "rabbitmq" => \A t \in Task : runs[t] <= (1 + refused) * 2 ^ ends

\* stop waits for every task that runs, except those an earlier cancel or a second
\* run of the same task on this worker removed from active_tasks.
StopSeesRuns ==
  \A e \in Exec : exec[e].at \in {"began", "launch", "running", "exited"}
                  /\ <<W(e), T(e)>> \notin disturbed => T(e) \in active[W(e)]

\* A run of a worker with one slot keeps its directory to its end, unless it is
\* cancelled: cleanup_temp_dir never takes that of another run.
DirectoryKept ==
  \A e \in torn : <<W(e), T(e)>> \in disturbed

\* Over RabbitMQ every task is reported in the end, whatever is refused and
\* whoever stops or dies, while some worker stays.
EveryTaskReported ==
  broker = "rabbitmq" /\ (\E w \in Worker : []<>(phase[w] = "up"))
    => \A t \in Task : t \in sent ~> reports[t] # {}

----------------------------------------------------------------------------
(* What the documentation says and the code does not do.                   *)

\* COMPREHENSIVE_GUIDE.md: high-priority = 5 is the concurrency of a queue.  A
\* task published once, with nothing refused, should run once.
RunsOnce == refused = 0 /\ ends = 0 => \A t \in Task : runs[t] <= 1

=============================================================================
