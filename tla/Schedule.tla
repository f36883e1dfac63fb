------------------------------ MODULE Schedule ------------------------------
(***************************************************************************)
(* One scheduled job: the calls of the REST API that create, pause, resume *)
(* and delete it, the events those calls publish, and the cron entries     *)
(* that JobSchedulerHandler of every coordinator keeps for it.             *)
(*                                                                         *)
(* The deployment is "memory" (one process, events handled by spawned      *)
(* tasks in any order, rows cloned and inserted) or "distributed"          *)
(* (PostgreSQL locks the row of an update, RabbitMQ keeps the events of    *)
(* each coordinator in a queue and hands out one at a time).               *)
(***************************************************************************)
EXTENDS Naturals, Sequences, FiniteSets

CONSTANTS
  Coordinator,   \* processes that run a coordinator and the REST API
  Caller,        \* clients of the REST API
  MaxCalls,      \* bound: calls
  MaxStarts,     \* bound: starts of a coordinator
  MaxRefusals    \* bound: removals the cron library refuses

ASSUME ScheduleAssumption ==
  /\ IsFiniteSet(Coordinator) /\ IsFiniteSet(Caller)
  /\ MaxCalls \in Nat /\ MaxStarts \in Nat /\ MaxRefusals \in Nat

VARIABLES
  deployment,
  row,        \* the row of the scheduled job
  call,       \* the call each client is in
  phase,      \* of each coordinator: down, loaded (not yet subscribed), up
  events,     \* the events each coordinator has not handled yet
  entries,    \* the live cron entries of each coordinator
  known,      \* the entry its jobs map names, 0 for none
  adding,     \* entries added to the cron library and not yet in the map
  calls, starts, refusals,
  tidy        \* history: no two of the things that race have overlapped

svars == <<deployment, row, call, phase, events, entries, known, adding,
           calls, starts, refusals, tidy>>

RowState == {"Active", "Paused"}
Exists   == row \in RowState
Entry    == 1 .. (2 * MaxCalls + MaxStarts + 1)

Idle == [op |-> "none", at |-> "idle", seen |-> "none", server |-> "none"]

\* Mutant: the row of an update is not locked.
NeverLocked == FALSE
Locked      == deployment = "distributed"

InCall(u) == call[u].at # "idle"

\* The events of coordinator c that a handler may take up: RabbitMQ delivers the
\* next one when the last is acknowledged, the in-memory broker spawns them all.
Deliverable(c) ==
  IF deployment = "distributed"
  THEN {i \in DOMAIN events[c] : i = 1 /\ adding[c] = {}}
  ELSE DOMAIN events[c]

Without(q, i) == SubSeq(q, 1, i - 1) \o SubSeq(q, i + 1, Len(q))

\* Nothing is under way.
Calm == /\ \A u \in Caller : ~InCall(u)
        /\ \A c \in Coordinator :
             events[c] = <<>> /\ adding[c] = {} /\ phase[c] # "loaded"

\* Calls that follow one another; in memory, events that do so too.
Orderly ==
  /\ \A u \in Caller : ~InCall(u)
  /\ \A c \in Coordinator : phase[c] # "loaded"
  /\ deployment = "distributed" \/ Calm

----------------------------------------------------------------------------
(* The REST API.                                                           *)

\* What a call leaves in the row; which state it must find there.
Target(op) == IF op = "pause" THEN "Paused" ELSE "Active"
Admits(op) == CASE op = "create" -> row = "unborn"
                [] op = "pause"  -> row = "Active"
                [] op = "resume" -> row = "Paused"
                [] op = "delete" -> Exists

Begin(u, op, c) ==
  /\ ~InCall(u) /\ phase[c] = "up" /\ calls < MaxCalls
  /\ Admits(op)
  /\ call' = [call EXCEPT ![u] =
       [op |-> op, seen |-> row, server |-> c,
        at |-> CASE op = "create" -> "reread" [] op = "delete" -> "delete" [] OTHER -> "update"]]
  /\ row' = IF op = "create" THEN "Active" ELSE row
  /\ calls' = calls + 1
  /\ tidy' = (tidy /\ Orderly)
  /\ UNCHANGED <<deployment, phase, events, entries, known, adding, starts, refusals>>

Step(u, at) == call' = [call EXCEPT ![u].at = at]
Ends(u)     == call' = [call EXCEPT ![u] = Idle]

Stays == UNCHANGED <<deployment, phase, events, entries, known, adding,
                     calls, starts, refusals, tidy>>

\* update_scheduled_job; the in-memory one goes on with a clone of the row.
Update(u) ==
  /\ call[u].at = "update"
  /\ \/ Exists /\ Locked  /\ row' = Target(call[u].op) /\ Step(u, "reread")
     \/ Exists /\ ~Locked /\ row' = row /\ Step(u, "insert")
     \/ ~Exists /\ row' = row /\ Ends(u)
  /\ Stays

Insert(u) ==
  /\ call[u].at = "insert"
  /\ row' = Target(call[u].op) /\ Step(u, "reread")
  /\ Stays

\* Mutant: a delete tells the coordinators of a paused scheduled job too.
DeleteTellsAlways(u) ==
  /\ call[u].at = "delete"
  /\ row' = "deleted"
  /\ call' = [call EXCEPT ![u].seen = "Paused", ![u].at = "publish"]
  /\ Stays

Delete(u) ==
  /\ call[u].at = "delete"
  /\ row' = "deleted"
  /\ IF call[u].seen = "Active"
       THEN call' = [call EXCEPT ![u].seen = "Paused", ![u].at = "publish"]
       ELSE Ends(u)
  /\ Stays

\* Mutant: the event of a pause or a resume carries the copy read at first.
PublishFirstCopy(u) == call[u].at = "reread" /\ Step(u, "publish") /\ UNCHANGED row /\ Stays

Reread(u) ==
  /\ call[u].at = "reread"
  /\ IF Exists THEN call' = [call EXCEPT ![u].seen = row, ![u].at = "publish"] ELSE Ends(u)
  /\ UNCHANGED row
  /\ Stays

Publish(u) ==
  /\ call[u].at = "publish"
  /\ events' = [c \in Coordinator |->
       IF phase[c] = "up" THEN Append(events[c], call[u].seen) ELSE events[c]]
  /\ Ends(u)
  /\ UNCHANGED <<deployment, row, phase, entries, known, adding, calls, starts, refusals, tidy>>

----------------------------------------------------------------------------
(* JobSchedulerHandler.                                                    *)

Fresh(c) == CHOOSE e \in Entry \ (entries[c] \cup {known[c]}) :
              \A f \in Entry \ (entries[c] \cup {known[c]}) : e <= f

\* JobSchedulerHandler::new: the active rows are scheduled and the cron library
\* started; the subscription to events comes later (see Subscribe).
Start(c) ==
  /\ phase[c] = "down" /\ starts < MaxStarts
  /\ phase' = [phase EXCEPT ![c] = "loaded"]
  /\ entries' = [entries EXCEPT ![c] = IF row = "Active" THEN {1} ELSE {}]
  /\ known' = [known EXCEPT ![c] = IF row = "Active" THEN 1 ELSE 0]
  /\ starts' = starts + 1
  /\ tidy' = (tidy /\ \A u \in Caller : ~InCall(u))
  /\ UNCHANGED <<deployment, row, call, events, adding, calls, refusals>>

Subscribe(c) ==
  /\ phase[c] = "loaded"
  /\ phase' = [phase EXCEPT ![c] = "up"]
  /\ UNCHANGED <<deployment, row, call, events, entries, known, adding,
                 calls, starts, refusals, tidy>>

\* handle_active adds a cron entry, whether or not there is one already, and
\* takes the lock of the map only then.
Activate(c, i) ==
  /\ i \in Deliverable(c) /\ events[c][i] = "Active"
  /\ events' = [events EXCEPT ![c] = Without(@, i)]
  /\ entries' = [entries EXCEPT ![c] = @ \cup {Fresh(c)}]
  /\ adding' = [adding EXCEPT ![c] = @ \cup {Fresh(c)}]
  /\ UNCHANGED <<deployment, row, call, phase, known, calls, starts, refusals, tidy>>

Remember(c, e) ==
  /\ e \in adding[c]
  /\ known' = [known EXCEPT ![c] = e]
  /\ adding' = [adding EXCEPT ![c] = @ \ {e}]
  /\ UNCHANGED <<deployment, row, call, phase, events, entries, calls, starts, refusals, tidy>>

\* handle_paused of an entry the map knows.
Pause(c, i) ==
  /\ i \in Deliverable(c) /\ events[c][i] = "Paused" /\ known[c] # 0
  /\ known' = [known EXCEPT ![c] = 0]
  /\ events' = [events EXCEPT ![c] = Without(@, i)]
  /\ entries' = [entries EXCEPT ![c] = @ \ {known[c]}]
  /\ UNCHANGED <<deployment, row, call, phase, adding, calls, starts, refusals, tidy>>

\* The cron library refuses: the entry is forgotten and still fires, and the
\* event is delivered again by RabbitMQ.
PauseRefused(c, i) ==
  /\ i \in Deliverable(c) /\ events[c][i] = "Paused" /\ known[c] # 0
  /\ refusals < MaxRefusals /\ refusals' = refusals + 1
  /\ known' = [known EXCEPT ![c] = 0]
  /\ events' = IF deployment = "distributed" THEN events
               ELSE [events EXCEPT ![c] = Without(@, i)]
  /\ tidy' = FALSE
  /\ UNCHANGED <<deployment, row, call, phase, entries, adding, calls, starts>>

\* UnknownScheduledJob.  The in-memory broker logs the error; RabbitMQ requeues
\* the event at the head of the queue, which leaves everything as it was.
PauseUnknown(c, i) ==
  /\ deployment = "memory"
  /\ i \in Deliverable(c) /\ events[c][i] = "Paused" /\ known[c] = 0
  /\ events' = [events EXCEPT ![c] = Without(@, i)]
  /\ UNCHANGED <<deployment, row, call, phase, entries, known, adding, calls, starts, refusals,
                 tidy>>

\* A coordinator of several dies, with its entries, its queue and its calls.
Crash(c) ==
  /\ deployment = "distributed" /\ phase[c] # "down" /\ starts < MaxStarts
  /\ phase' = [phase EXCEPT ![c] = "down"]
  /\ events' = [events EXCEPT ![c] = <<>>]
  /\ entries' = [entries EXCEPT ![c] = {}]
  /\ known' = [known EXCEPT ![c] = 0]
  /\ adding' = [adding EXCEPT ![c] = {}]
  /\ call' = [u \in Caller |-> IF InCall(u) /\ call[u].server = c THEN Idle ELSE call[u]]
  /\ tidy' = (tidy /\ call' = call)
  /\ UNCHANGED <<deployment, row, calls, starts, refusals>>

----------------------------------------------------------------------------

ScheduleInit ==
  /\ \/ deployment = "memory" /\ row = "unborn"
     \/ deployment = "distributed" /\ row \in {"unborn"} \cup RowState
  /\ call = [u \in Caller |-> Idle]
  /\ phase = [c \in Coordinator |-> "down"]
  /\ events = [c \in Coordinator |-> <<>>]
  /\ entries = [c \in Coordinator |-> {}]
  /\ known = [c \in Coordinator |-> 0]
  /\ adding = [c \in Coordinator |-> {}]
  /\ calls = 0 /\ starts = 0 /\ refusals = 0
  /\ tidy = TRUE

\* There is one process in memory.
Member(c) == deployment = "distributed" \/ \A d \in Coordinator \ {c} : phase[d] = "down"

CallStep(u) == Update(u) \/ Insert(u) \/ Delete(u) \/ Reread(u) \/ Publish(u)

Handler(c) ==
  \/ Subscribe(c)
  \/ \E i \in DOMAIN events[c] : Activate(c, i) \/ Pause(c, i) \/ PauseUnknown(c, i)
  \/ \E e \in adding[c] : Remember(c, e)

ScheduleNext ==
  \/ \E u \in Caller :
       \/ CallStep(u)
       \/ \E op \in {"create", "pause", "resume", "delete"}, c \in Coordinator : Begin(u, op, c)
  \/ \E c \in Coordinator :
       \/ Handler(c)
       \/ Member(c) /\ Start(c)
       \/ Crash(c)
       \/ \E i \in DOMAIN events[c] : PauseRefused(c, i)

\* A call that is being served and a coordinator that runs go on; nothing obliges
\* a client to call, a coordinator to start or die, or the library to refuse.
ScheduleFairness ==
  /\ \A u \in Caller : WF_svars(CallStep(u))
  /\ \A c \in Coordinator : WF_svars(Handler(c))

ScheduleSpec == ScheduleInit /\ [][ScheduleNext]_svars /\ ScheduleFairness

----------------------------------------------------------------------------

\* The type invariant of the row, the calls, the events and the cron entries.
ScheduleTypeOK ==
  /\ deployment \in {"memory", "distributed"}
  /\ row \in RowState \cup {"unborn", "deleted"}
  /\ call \in [Caller -> [op : {"none", "create", "pause", "resume", "delete"},
                          at : {"idle", "update", "insert", "delete", "reread", "publish"},
                          seen : RowState \cup {"none", "unborn"},
                          server : Coordinator \cup {"none"}]]
  /\ phase \in [Coordinator -> {"down", "loaded", "up"}]
  /\ \A c \in Coordinator : \A i \in DOMAIN events[c] : events[c][i] \in RowState
  /\ entries \in [Coordinator -> SUBSET Entry]
  /\ known \in [Coordinator -> Entry \cup {0}]
  /\ \A c \in Coordinator : adding[c] \subseteq entries[c] /\ known[c] \in entries[c] \cup {0}
  /\ tidy \in BOOLEAN

\* handle_active and handle_paused: once calls that followed one another have
\* been handled, every coordinator fires an active scheduled job once per tick
\* and any other not at all, and it knows the entry it must remove to stop it.
AtRestMatches ==
  tidy /\ Calm => \A c \in Coordinator : phase[c] = "up" =>
    /\ Cardinality(entries[c]) = (IF row = "Active" THEN 1 ELSE 0)
    /\ entries[c] = {known[c]} \ {0}

\* update_scheduled_job: a scheduled job deleted from PostgreSQL does not come
\* back, whatever calls were under way when it was deleted.
DeletedForGood ==
  [][row = "deleted" /\ deployment = "distributed" => row' = "deleted"]_svars

\* handle_paused fails for a job the map does not know, and RabbitMQ delivers
\* its event for ever: with calls that follow one another that never happens,
\* and every event is handled in the end.
Settles == [](tidy) => <>[]Calm

----------------------------------------------------------------------------
(* What the documentation says and the code does not do.                   *)

\* schedule.rs: "scheduling and unscheduling of jobs based on their state", but of
\* two entries for one scheduled job only the last is removed, even where events
\* arrive in the order they were published in.
PausedIsQuiet ==
  deployment = "distributed" /\ Calm /\ row = "Paused" =>
    \A c \in Coordinator : phase[c] = "up" => entries[c] = {}

\* README.md: DELETE deletes a scheduled job, but in memory the update of another
\* call that is under way inserts it again.
DeletedStaysAway == [][row = "deleted" => row' = "deleted"]_svars

=============================================================================
