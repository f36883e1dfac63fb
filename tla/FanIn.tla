------------------------------- MODULE FanIn -------------------------------
(***************************************************************************)
(* The fan-in of one parallel or each task, at the awaits of its handlers. *)
(* Coordinator takes every handler as one step; here the handlers of the   *)
(* subtasks' reports (handle_task_completed and handle_error, down to the  *)
(* update of the parent's row) run concurrently on one of the two          *)
(* datastores: PostgreSQL locks the row from the read to the write, the    *)
(* in-memory one clones it, modifies the clone and inserts that.  Several  *)
(* coordinators may share a broker and a PostgreSQL datastore.             *)
(*                                                                         *)
(* A handler that returns an error, and one whose coordinator dies, has    *)
(* its message delivered again.  Retries of a subtask are Coordinator's;   *)
(* the copy of a failed subtask that handle_error publishes to itself      *)
(* repeats the same writes and is left out.                                *)
(***************************************************************************)
EXTENDS Naturals, FiniteSets

CONSTANTS
  Subtask,     \* the subtasks, as many as the parent has children
  Stores,      \* the datastores to run on
  MaxFaults,   \* bound: publications the broker refuses
  MaxCrashes   \* bound: coordinators that die

ASSUME FanInAssumption ==
  /\ IsFiniteSet(Subtask) /\ Subtask # {}
  /\ Stores \subseteq {"postgres", "inmemory"}
  /\ MaxFaults \in Nat /\ MaxCrashes \in Nat

VARIABLES
  store,       \* the datastore of this deployment
  row,         \* the parent's row: its state and its counter
  at,          \* where the report about each subtask is
  copy,        \* the clone of the row each handler of the in-memory store holds
  last,        \* is_last of each handler
  published,   \* how often the parent was published as completed
  handled,     \* how many of these messages the coordinator has handled
  job,         \* the job: active, its failure published, or failed
  faults, crashes,
  counted      \* history: the subtasks the parent's row has counted

vars == <<store, row, at, copy, last, published, handled, job, faults, crashes, counted>>

Row == [state : {"Running", "Completed", "Failed", "Cancelled"}, completions : Nat]

\* running: in a worker's hands; completed, failed: reported and queued; done:
\* acknowledged.  The others are the awaits inside the handlers.
Place == {"running", "completed", "persisted", "counting", "counted",
          "failed", "failing", "marking", "marked", "done"}

Moves(s, from, to) == at[s] = from /\ at' = [at EXCEPT ![s] = to]

\* Mutants: the threshold is one too low, or is met only exactly.
EnoughEarly(n)   == n + 1 >= Cardinality(Subtask)
EnoughExactly(n) == n = Cardinality(Subtask)
Enough(n)        == n >= Cardinality(Subtask)

\* Mutant: the row is not locked.
NeverLocked == FALSE
Locked      == store = "postgres"

----------------------------------------------------------------------------
(* handle_task_completed of a subtask.                                     *)

WorkerReports(s) ==
  /\ \E q \in {"completed", "failed"} : Moves(s, "running", q)
  /\ UNCHANGED <<store, row, copy, last, published, handled, job, faults, crashes, counted>>

PersistCompleted(s) ==
  /\ Moves(s, "completed", "persisted")
  /\ UNCHANGED <<store, row, copy, last, published, handled, job, faults, crashes, counted>>

\* The closure given to update_task, applied to the row r it read.
StoreCount(s, r) ==
  /\ row' = [r EXCEPT !.completions = @ + 1]
  /\ last' = [last EXCEPT ![s] = Enough(row'.completions)]
  /\ counted' = counted \cup {s}
  /\ UNCHANGED <<store, copy, published, handled, job, faults, crashes>>

CountLocked(s) == Locked /\ Moves(s, "persisted", "counted") /\ StoreCount(s, row)

CloneRow(s) ==
  /\ ~Locked
  /\ Moves(s, "persisted", "counting") \/ Moves(s, "failing", "marking")
  /\ copy' = [copy EXCEPT ![s] = row]
  /\ UNCHANGED <<store, row, last, published, handled, job, faults, crashes, counted>>

InsertCount(s) == Moves(s, "counting", "counted") /\ StoreCount(s, copy[s])

\* Mutant: every handler publishes the parent.
PublishAlways(s) ==
  /\ Moves(s, "counted", "done")
  /\ published' = published + 1
  /\ UNCHANGED <<store, row, copy, last, handled, job, faults, crashes, counted>>

PublishParent(s) ==
  /\ Moves(s, "counted", "done")
  /\ published' = IF last[s] THEN published + 1 ELSE published
  /\ UNCHANGED <<store, row, copy, last, handled, job, faults, crashes, counted>>

----------------------------------------------------------------------------
(* handle_error of a subtask without retries, then handle_task_failed of   *)
(* the parent.                                                             *)

HandleError(s) ==
  /\ Moves(s, "failed", IF job = "failed" THEN "done" ELSE "failing")
  /\ UNCHANGED <<store, row, copy, last, published, handled, job, faults, crashes, counted>>

StoreFailed(r) ==
  /\ row' = [r EXCEPT !.state = "Failed"]
  /\ UNCHANGED <<store, copy, last, published, handled, job, faults, crashes, counted>>

FailLocked(s)   == Locked /\ Moves(s, "failing", "marked") /\ StoreFailed(row)
InsertFailed(s) == Moves(s, "marking", "marked") /\ StoreFailed(copy[s])

PublishJobFailed(s) ==
  /\ Moves(s, "marked", "done")
  /\ job' = IF job = "active" THEN "failing" ELSE job
  /\ UNCHANGED <<store, row, copy, last, published, handled, faults, crashes, counted>>

----------------------------------------------------------------------------
(* The handlers of what the fan-in publishes, each a step: their effect on *)
(* the counter is of no consequence any more.                              *)

\* fail_job: the parent is cancelled when its row still looks active.
FailJob ==
  /\ job = "failing"
  /\ job' = "failed"
  /\ row' = IF row.state = "Running" THEN [row EXCEPT !.state = "Cancelled"] ELSE row
  /\ UNCHANGED <<store, at, copy, last, published, handled, faults, crashes, counted>>

\* handle_task_completed of the parent, which moves the job on.
\* Mutant: the parent's message is handled without being consumed.
ParentCompletedAgain ==
  /\ published > 0
  /\ handled' = handled + 1
  /\ row' = [row EXCEPT !.state = "Completed"]
  /\ UNCHANGED <<store, at, copy, last, published, job, faults, crashes, counted>>

ParentCompleted ==
  /\ handled < published
  /\ handled' = handled + 1
  /\ row' = [row EXCEPT !.state = "Completed"]
  /\ UNCHANGED <<store, at, copy, last, published, job, faults, crashes, counted>>

\* What is delivered again when a handler does not come to its end.
Redelivered(p) == CASE p \in {"persisted", "counting", "counted"} -> "completed"
                    [] p \in {"failing", "marking", "marked"}      -> "failed"
                    [] OTHER                                       -> p

\* The broker refuses what the handler publishes: the handler returns the error
\* and its own message is queued again.
PublishRefused(s) ==
  /\ faults < MaxFaults
  /\ at[s] \in {"failing", "marked"} \/ (at[s] = "counted" /\ last[s])
  /\ at' = [at EXCEPT ![s] = Redelivered(@)]
  /\ faults' = faults + 1
  /\ UNCHANGED <<store, row, copy, last, published, handled, job, crashes, counted>>

\* A coordinator dies with the handlers it runs.  The in-memory datastore does
\* not outlive it.
CoordinatorCrash ==
  /\ crashes < MaxCrashes /\ store = "postgres"
  /\ \E dead \in SUBSET Subtask :
       at' = [s \in Subtask |-> IF s \in dead THEN Redelivered(at[s]) ELSE at[s]]
  /\ at' # at
  /\ crashes' = crashes + 1
  /\ UNCHANGED <<store, row, copy, last, published, handled, job, faults, counted>>

----------------------------------------------------------------------------
Init ==
  /\ store \in Stores
  /\ row = [state |-> "Running", completions |-> 0]
  /\ at = [s \in Subtask |-> "running"]
  /\ copy = [s \in Subtask |-> row]
  /\ last = [s \in Subtask |-> FALSE]
  /\ published = 0 /\ handled = 0
  /\ job = "active"
  /\ faults = 0 /\ crashes = 0
  /\ counted = {}

HandleReport(s) ==
  \/ PersistCompleted(s) \/ CountLocked(s) \/ InsertCount(s) \/ PublishParent(s)
  \/ HandleError(s)      \/ FailLocked(s)  \/ InsertFailed(s)
  \/ PublishJobFailed(s) \/ CloneRow(s)

Next ==
  \/ \E s \in Subtask : WorkerReports(s) \/ HandleReport(s) \/ PublishRefused(s)
  \/ FailJob
  \/ ParentCompleted
  \/ CoordinatorCrash

Spec == Init /\ [][Next]_vars

\* The runtime runs every handler on, workers end, messages are delivered.
Fairness ==
  /\ \A s \in Subtask : WF_vars(WorkerReports(s)) /\ WF_vars(HandleReport(s))
  /\ WF_vars(FailJob) /\ WF_vars(ParentCompleted)

FairSpec == Spec /\ Fairness

----------------------------------------------------------------------------
(* Properties.                                                             *)

TypeOK ==
  /\ row \in Row
  /\ at \in [Subtask -> Place]
  /\ copy \in [Subtask -> Row]
  /\ last \in [Subtask -> BOOLEAN]
  /\ published \in Nat /\ handled \in 0 .. published
  /\ job \in {"active", "failing", "failed"}
  /\ faults \in 0 .. MaxFaults /\ crashes \in 0 .. MaxCrashes
  /\ counted \subseteq Subtask

\* A parallel or each task goes on when its subtasks are complete, not before:
\* handle_subtask_completed publishes the parent as completed only when the
\* report of every subtask was counted.
WaitsForAll == published > 0 => counted = Subtask

\* On either datastore, and whatever the broker refuses, it does so, as long as
\* no coordinator dies between the count and the end of its handler.
BarrierHolds == crashes = 0 => WaitsForAll

\* The subtasks of one parent have one outcome between them: handle_subtask_completed
\* publishes the parent once, and then handle_subtask_failed has not failed it,
\* nor will fail_job cancel it.
OneOutcome ==
  crashes = 0 =>
    /\ published <= 1
    /\ published = 1 => job = "active" /\ row.state \in {"Running", "Completed"}

\* With row locks the counter never falls behind the subtasks it has counted,
\* not even when coordinators die in update_task's callers.
NothingUncounted == store = "postgres" => row.completions >= Cardinality(counted)

\* The fan-in ends: its job is moved on or has failed.
Ended     == handled > 0 \/ job = "failed"
FanInEnds == <>Ended

\* With row locks it ends whatever is refused and whoever dies.
LockedFanInEnds == store = "postgres" ~> Ended
=============================================================================
