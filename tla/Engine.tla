-------------------------------- MODULE Engine --------------------------------
(***************************************************************************)
(* The life of an engine in its process: start, run, terminate and         *)
(* await_shutdown, the task that waits for a signal, and what a stopped    *)
(* coordinator does with the jobs it goes on receiving.                    *)
(*                                                                         *)
(* start, run and terminate need the engine for themselves (&mut self, or  *)
(* the write lock of default.rs), await_shutdown and submit_job share it.  *)
(* Nothing of start is seen by others before it returns, so it is one step *)
(* with the place where it fails as a choice; terminate waits for the      *)
(* worker, and the task of the signal may stop the same parts meanwhile.   *)
(***************************************************************************)
EXTENDS Naturals, FiniteSets

CONSTANTS
  Caller,      \* who holds a reference to the engine
  Modes,       \* the modes set_mode is called with
  MaxFailed,   \* bound: starts that fail
  MaxSubmits   \* bound: jobs submitted

ASSUME EngineAssumption ==
  /\ IsFiniteSet(Caller)
  /\ Modes \subseteq {"Coordinator", "Worker", "Standalone"}
  /\ MaxFailed \in Nat /\ MaxSubmits \in Nat

VARIABLES
  estate,    \* Idle, Running, Terminating, Terminated
  mode,
  stored,    \* the worker and the coordinator the engine has
  orphans,   \* started ones it no longer has, or never stored
  failed,    \* history: starts that failed
  listener,  \* the task of spawn_signal_handler
  writer,    \* who has the engine for itself, as a set
  readers,   \* who shares it
  doing,     \* what each caller is in the middle of
  jobs,      \* jobs submitted here and still queued, handled, or dropped
  gone       \* a signal has ended the process

evars == <<estate, mode, stored, orphans, failed, listener, writer, readers, doing, jobs, gone>>

Part == {"worker", "coordinator"}
PartsOf(m) ==
  {p \in Part : \/ m = "Standalone"
                \/ m = "Worker" /\ p = "worker"
                \/ m = "Coordinator" /\ p = "coordinator"}

Up(S)        == \E p \in S : stored[p] = "up"
StopPart(p)  == stored' = [stored EXCEPT ![p] = IF @ = "up" THEN "stopped" ELSE @]
Reading(c)   == ~gone /\ doing[c] = "free" /\ writer = {}
Exclusive(c) == Reading(c) /\ readers = {}

----------------------------------------------------------------------------
(* Start.                                                                  *)

\* set_mode; ignored unless Idle.
SetMode(c, m) ==
  /\ Exclusive(c) /\ estate = "Idle" /\ m # mode
  /\ mode' = m
  /\ UNCHANGED <<estate, stored, orphans, failed, listener, writer, readers, doing, jobs, gone>>

\* The parts S are started and stored; what was stored there is dropped, and
\* its subscriptions and its heartbeats are not.
Stores(S) == stored' = [p \in Part |-> IF p \in S THEN "up" ELSE stored[p]]
LeftBy(S) == [p \in Part |-> orphans[p] + (IF p \in S /\ stored[p] = "up" THEN 1 ELSE 0)]

\* A start that fails leaves the engine Idle: before anything was started; in
\* Standalone with the worker running; or in the coordinator's start, whose
\* subscriptions up to there remain.
StartFails(c) ==
  /\ Exclusive(c) /\ estate = "Idle"
  /\ failed < MaxFailed /\ failed' = failed + 1
  /\ LET first == PartsOf(mode) \ {"coordinator"} IN
       \/ UNCHANGED <<stored, orphans>>
       \/ mode = "Standalone" /\ Stores(first) /\ orphans' = LeftBy(first)
       \/ /\ mode # "Worker" /\ Stores(first)
          /\ orphans' = [LeftBy(first) EXCEPT !["coordinator"] = @ + 1]
  /\ UNCHANGED <<estate, mode, listener, writer, readers, doing, jobs, gone>>

\* start, and run, which then waits and keeps the engine for itself.
Start(c) ==
  /\ Exclusive(c) /\ estate = "Idle"
  /\ estate' = "Running" /\ listener' = "spawned"
  /\ Stores(PartsOf(mode)) /\ orphans' = LeftBy(PartsOf(mode))
  /\ \/ UNCHANGED <<writer, doing>>
     \/ writer' = {c} /\ doing' = [doing EXCEPT ![c] = "waiting"]
  /\ UNCHANGED <<mode, failed, readers, jobs, gone>>

\* await_shutdown; a permit is not kept for it by notify_waiters.
AwaitShutdown(c) ==
  /\ Reading(c)
  /\ readers' = readers \cup {c} /\ doing' = [doing EXCEPT ![c] = "waiting"]
  /\ UNCHANGED <<estate, mode, stored, orphans, failed, listener, writer, jobs, gone>>

----------------------------------------------------------------------------
(* Terminate.                                                              *)

Broadcast == listener' = IF listener = "listening" THEN "woken" ELSE listener

\* Mutant: the parts are left to the task of the signal.
TerminateByBroadcast(c) ==
  /\ Exclusive(c) /\ estate = "Running"
  /\ estate' = "Terminating" /\ Broadcast
  /\ writer' = {c} /\ doing' = [doing EXCEPT ![c] = "notify"]
  /\ UNCHANGED <<mode, stored, orphans, failed, readers, jobs, gone>>

Terminate(c) ==
  /\ Exclusive(c) /\ estate = "Running"
  /\ estate' = "Terminating" /\ Broadcast
  /\ writer' = {c} /\ doing' = [doing EXCEPT ![c] = "stopWorker"]
  /\ UNCHANGED <<mode, stored, orphans, failed, readers, jobs, gone>>

TerminateWorker(c) ==
  /\ ~gone /\ doing[c] = "stopWorker" /\ doing' = [doing EXCEPT ![c] = "stopCoordinator"]
  /\ StopPart("worker")
  /\ UNCHANGED <<estate, mode, orphans, failed, listener, writer, readers, jobs, gone>>

TerminateCoordinator(c) ==
  /\ ~gone /\ doing[c] = "stopCoordinator" /\ doing' = [doing EXCEPT ![c] = "notify"]
  /\ StopPart("coordinator")
  /\ UNCHANGED <<estate, mode, orphans, failed, listener, writer, readers, jobs, gone>>

\* notify_waiters wakes those that wait now.
Notify(c) ==
  /\ ~gone /\ doing[c] = "notify"
  /\ doing' = [d \in Caller |-> IF d = c \/ doing[d] = "waiting" THEN "free" ELSE doing[d]]
  /\ readers' = {d \in readers : doing[d] # "waiting"}
  /\ estate' = "Terminated" /\ writer' = {}
  /\ UNCHANGED <<mode, stored, orphans, failed, listener, jobs, gone>>

----------------------------------------------------------------------------
(* Signals.                                                                *)

\* The spawned task registers for the signals and subscribes to the broadcast.
Listen ==
  /\ ~gone /\ listener = "spawned" /\ listener' = "listening"
  /\ UNCHANGED <<estate, mode, stored, orphans, failed, writer, readers, doing, jobs, gone>>

\* SIGINT or SIGTERM: fatal until the task has registered; after that it wakes
\* the task, once, and nothing else ever makes the process leave.
Signal ==
  /\ ~gone
  /\ \/ listener \in {"none", "spawned"} /\ gone' = TRUE /\ UNCHANGED listener
     \/ listener = "listening" /\ listener' = "woken" /\ UNCHANGED gone
  /\ UNCHANGED <<estate, mode, stored, orphans, failed, writer, readers, doing, jobs>>

\* The cleanup of the mode: the worker first, then the coordinator.
RunCleanup ==
  /\ ~gone
  /\ \/ /\ listener = "woken" /\ "worker" \in PartsOf(mode)
        /\ StopPart("worker")
        /\ listener' = IF mode = "Worker" THEN "done" ELSE "half"
     \/ /\ \/ listener = "half"
           \/ listener = "woken" /\ mode = "Coordinator"
        /\ StopPart("coordinator")
        /\ listener' = "done"
  /\ UNCHANGED <<estate, mode, orphans, failed, writer, readers, doing, jobs, gone>>

----------------------------------------------------------------------------
(* Jobs.                                                                   *)

\* submit_job looks at the state and the mode, not at whether the coordinator
\* has been stopped.
Submit(c) ==
  /\ Reading(c) /\ estate = "Running" /\ mode # "Worker"
  /\ jobs.queued + jobs.handled + jobs.dropped < MaxSubmits
  /\ jobs' = [jobs EXCEPT !.queued = @ + 1]
  /\ UNCHANGED <<estate, mode, stored, orphans, failed, listener, writer, readers, doing, gone>>

\* A handler of the coordinator: after stop it returns Ok, so that the message is
\* acknowledged although nobody has looked at it.
Handle ==
  /\ ~gone /\ jobs.queued > 0
  /\ \/ /\ stored["coordinator"] = "up" \/ orphans["coordinator"] > 0
        /\ jobs' = [jobs EXCEPT !.queued = @ - 1, !.handled = @ + 1]
     \/ /\ stored["coordinator"] = "stopped"
        /\ jobs' = [jobs EXCEPT !.queued = @ - 1, !.dropped = @ + 1]
  /\ UNCHANGED <<estate, mode, stored, orphans, failed, listener, writer, readers, doing, gone>>

----------------------------------------------------------------------------

EngineInit ==
  /\ estate = "Idle" /\ mode \in Modes
  /\ stored = [p \in Part |-> "none"] /\ orphans = [p \in Part |-> 0] /\ failed = 0
  /\ listener = "none"
  /\ writer = {} /\ readers = {} /\ doing = [c \in Caller |-> "free"]
  /\ jobs = [queued |-> 0, handled |-> 0, dropped |-> 0]
  /\ gone = FALSE

Terminates(c) == TerminateWorker(c) \/ TerminateCoordinator(c) \/ Notify(c)

EngineNext ==
  \/ \E c \in Caller :
       \/ \E m \in Modes : SetMode(c, m)
       \/ StartFails(c) \/ Start(c) \/ AwaitShutdown(c) \/ Submit(c)
       \/ Terminate(c) \/ Terminates(c)
  \/ Listen \/ Signal \/ RunCleanup \/ Handle

\* Spawned tasks run, terminate goes on once it has begun, messages are delivered.
EngineFairness ==
  /\ \A c \in Caller : WF_evars(Terminates(c))
  /\ WF_evars(Listen) /\ WF_evars(RunCleanup) /\ WF_evars(Handle)

EngineSpec == EngineInit /\ [][EngineNext]_evars /\ EngineFairness

----------------------------------------------------------------------------

\* The type invariant of the engine, of its parts and of who holds it.
EngineTypeOK ==
  /\ estate \in {"Idle", "Running", "Terminating", "Terminated"}
  /\ mode \in Modes /\ failed \in 0 .. MaxFailed
  /\ stored \in [Part -> {"none", "up", "stopped"}] /\ orphans \in [Part -> Nat]
  /\ listener \in {"none", "spawned", "listening", "woken", "half", "done"}
  /\ writer \subseteq Caller /\ Cardinality(writer) <= 1 /\ readers \subseteq Caller
  /\ doing \in [Caller -> {"free", "waiting", "stopWorker", "stopCoordinator", "notify"}]
  /\ jobs \in [{"queued", "handled", "dropped"} -> 0 .. MaxSubmits]
  /\ gone \in BOOLEAN

\* terminate stops what the engine has, whichever start left it there, also when its
\* broadcast comes before the spawned task subscribes and is missed; and so does a
\* signal, unless a start that failed left a part of another mode, which the cleanup
\* of this mode does not know.
PartsStop ==
  /\ estate = "Terminating" ~> gone \/ ~Up(Part)
  /\ listener = "woken" /\ failed = 0 ~> gone \/ ~Up(Part)

----------------------------------------------------------------------------
(* What the documentation says and the code does not do.                   *)

\* engine_lifecycle.rs: await_shutdown waits for the shutdown to complete, "no more
\* missed signals", and returns immediately if that was notified already.
AwaitReturns ==
  \A c \in Caller :
    doing[c] = "waiting" /\ (estate = "Terminated" \/ listener = "done")
      ~> gone \/ doing[c] # "waiting"

\* A job that submit_job accepts is handled by some coordinator, or still queued.
NoJobDropped == jobs.dropped = 0

=============================================================================
