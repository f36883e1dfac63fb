----------------------------- MODULE TimerWheel -----------------------------
(***************************************************************************)
(* The timer wheel: timers are saved, slept on by a spawned task each, put *)
(* into a bounded channel and handled by one loop; start recovers what the *)
(* persistence has.  A wheel lives as long as its process; the rows of     *)
(* PostgreSQL outlive it, those in memory do not.                          *)
(*                                                                         *)
(* No part of the program makes a wheel yet; its callers are whoever will. *)
(***************************************************************************)
EXTENDS Naturals, Sequences, FiniteSets

CONSTANTS
  Timer,
  Cron,         \* the timers made by schedule_cron
  Cap,          \* capacity of the channel, 100 in the code
  MaxStarts,    \* bound: starts, in all lives
  MaxFailures   \* bound: failures of the persistence

ASSUME TimerAssumption ==
  /\ IsFiniteSet(Timer) /\ Cron \subseteq Timer
  /\ Cap \in Nat \ {0} /\ MaxStarts \in Nat /\ MaxFailures \in Nat

VARIABLES
  persistence, \* memory or postgres
  phase,      \* of the wheel: off, recovering, loading, up
  due,        \* the timers whose time has come
  payload,    \* the state in each row, "none" without one
  map,        \* the state of each entry of the map, "none" without one
  task,       \* the spawned task of each timer
  channel,    \* the entries sent to the loop and not handled
  todo,       \* the expired timers start has yet to send
  listed,     \* the timers start has read and not put into the map
  sent,       \* how often each timer was sent in this life
  fired,      \* the timers the loop handled in this life
  saved,      \* history: timers whose schedule call got as far as the row
  cancelled,  \* history: timers that a call of cancel ended, in any life
  over,       \* history: timers cancelled, cleared by shutdown or sent in an earlier life
  raced,      \* history: timers this life had scheduled or sent when start read them as expired
  revived,    \* history: cancelled timers start read all the same, or had read before
  starts, failures

rvars == <<persistence, phase, due, payload, map, task, channel, todo, listed, sent, fired,
           saved, cancelled, over, raced, revived, starts, failures>>

Fails == failures < MaxFailures /\ failures' = failures + 1

\* The lock of the map, which the task of a timer keeps while it sends.
Unlocked == \A t \in Timer : task[t] # "sending"

Sleepers == {t \in Timer : task[t] \in {"sleeping", "sending"}}

\* The cancelled timers of those start has read that it reads as pending: PostgreSQL
\* keeps the state in a column as well, which cancel changes and nothing reads.
StillPending(read) == IF persistence = "postgres" THEN read \cap cancelled ELSE {}

----------------------------------------------------------------------------
(* Scheduling and firing.                                                  *)

\* add_timer.
Add(t) ==
  /\ t \notin saved /\ Unlocked
  /\ \/ /\ payload' = [payload EXCEPT ![t] = "pending"]
        /\ map' = [map EXCEPT ![t] = "pending"]
        /\ saved' = saved \cup {t}
        /\ UNCHANGED failures
     \/ Fails /\ UNCHANGED <<payload, map, saved>>
  /\ task' = IF t \in Cron \/ saved' = saved THEN task ELSE [task EXCEPT ![t] = "arming"]
  /\ UNCHANGED <<persistence, phase, due, channel, todo, listed, sent, fired, cancelled, over,
                 raced, revived, starts>>

\* schedule_timer_entry, which fails for an entry that is gone again.
Arm(t) ==
  /\ task[t] = "arming" /\ Unlocked
  /\ task' = [task EXCEPT ![t] = IF map[t] = "none" THEN "none" ELSE "sleeping"]
  /\ UNCHANGED <<persistence, phase, due, payload, map, channel, todo, listed, sent, fired,
                 saved, cancelled, over, raced, revived, starts, failures>>

Expire(t) ==
  /\ t \in saved \ (due \cup Cron)
  /\ due' = due \cup {t}
  /\ UNCHANGED <<persistence, phase, payload, map, task, channel, todo, listed, sent, fired,
                 saved, cancelled, over, raced, revived, starts, failures>>

\* Mutant: the row goes before the entry is sent.
WakeDeletes(t) ==
  /\ task[t] = "sleeping" /\ t \in due /\ Unlocked
  /\ task' = [task EXCEPT ![t] = IF map[t] = "none" THEN "deleting" ELSE "sending"]
  /\ map' = [map EXCEPT ![t] = "none"]
  /\ payload' = [payload EXCEPT ![t] = "none"]
  /\ UNCHANGED <<persistence, phase, due, channel, todo, listed, sent, fired, saved, cancelled,
                 over, raced, revived, starts, failures>>

\* The entry is taken out in whatever state it is.
Wake(t) ==
  /\ task[t] = "sleeping" /\ t \in due /\ Unlocked
  /\ task' = [task EXCEPT ![t] = IF map[t] = "none" THEN "deleting" ELSE "sending"]
  /\ map' = [map EXCEPT ![t] = "none"]
  /\ UNCHANGED <<persistence, phase, due, payload, channel, todo, listed, sent, fired, saved,
                 cancelled, over, raced, revived, starts, failures>>

\* Mutant: a channel without a limit.
PutUnbounded(t) ==
  /\ channel' = Append(channel, t)
  /\ sent' = [sent EXCEPT ![t] = @ + 1]

\* Mutant: the last place of the channel is not used.
PutOneLess(t) ==
  /\ Len(channel) + 1 < Cap
  /\ channel' = Append(channel, t)
  /\ sent' = [sent EXCEPT ![t] = @ + 1]

Put(t) ==
  /\ Len(channel) < Cap
  /\ channel' = Append(channel, t)
  /\ sent' = [sent EXCEPT ![t] = @ + 1]

Send(t) ==
  /\ task[t] = "sending" /\ Put(t)
  /\ task' = [task EXCEPT ![t] = "deleting"]
  /\ UNCHANGED <<persistence, phase, due, payload, map, todo, listed, fired, saved, cancelled,
                 over, raced, revived, starts, failures>>

Delete(t) ==
  /\ task[t] = "deleting"
  /\ task' = [task EXCEPT ![t] = "none"]
  /\ \/ payload' = [payload EXCEPT ![t] = "none"] /\ UNCHANGED failures
     \/ Fails /\ UNCHANGED payload
  /\ UNCHANGED <<persistence, phase, due, map, channel, todo, listed, sent, fired, saved,
                 cancelled, over, raced, revived, starts>>

\* process_fire, for a waiter or for nobody.
Handle ==
  /\ phase = "up" /\ channel # <<>>
  /\ channel' = Tail(channel)
  /\ fired' = fired \cup {Head(channel)}
  /\ UNCHANGED <<persistence, phase, due, payload, map, task, todo, listed, sent, saved,
                 cancelled, over, raced, revived, starts, failures>>

\* Mutant: the entry stays in the map, marked as cancelled.
CancelKeeps(t) ==
  /\ map[t] = "pending" /\ task[t] # "arming" /\ Unlocked
  /\ map' = [map EXCEPT ![t] = "cancelled"]
  /\ cancelled' = cancelled \cup {t} /\ over' = over \cup {t}
  /\ revived' = (revived \ {t}) \cup ({t} \cap (todo \cup listed))
  /\ UNCHANGED <<persistence, phase, due, payload, task, channel, todo, listed, sent, fired,
                 saved, raced, starts, failures>>

\* cancel: PostgreSQL does not change the payload; when the persistence fails, the
\* entry stays in the map.
Cancel(t) ==
  /\ map[t] = "pending" /\ task[t] # "arming" /\ Unlocked
  /\ \/ /\ payload' = IF persistence = "memory" /\ payload[t] # "none"
                    THEN [payload EXCEPT ![t] = "cancelled"] ELSE payload
        /\ map' = [map EXCEPT ![t] = "none"]
        /\ cancelled' = cancelled \cup {t} /\ over' = over \cup {t}
        /\ revived' = (revived \ {t}) \cup ({t} \cap (todo \cup listed))
        /\ UNCHANGED failures
     \/ /\ Fails /\ map' = [map EXCEPT ![t] = "cancelled"]
        /\ UNCHANGED <<payload, cancelled, over, revived>>
  /\ UNCHANGED <<persistence, phase, due, task, channel, todo, listed, sent, fired, saved,
                 raced, starts>>

----------------------------------------------------------------------------
(* Start, shutdown and the end of the process.                             *)

Tasks == {t \in Timer : task[t] # "none"}

\* get_expired_timers.
Start ==
  /\ phase = "off" /\ starts < MaxStarts /\ starts' = starts + 1
  /\ \/ /\ phase' = "recovering"
        /\ todo' = {t \in due : payload[t] = "pending"}
        /\ raced' = raced \cup (todo' \cap (Tasks \cup {t \in Timer : sent[t] > 0}))
        /\ revived' = revived \cup StillPending(todo')
        /\ UNCHANGED failures
     \/ Fails /\ UNCHANGED <<phase, todo, raced, revived>>
  /\ UNCHANGED <<persistence, due, payload, map, task, channel, listed, sent, fired, saved,
                 cancelled, over>>

\* Nobody takes from the channel yet.
Recover(t) ==
  /\ phase = "recovering" /\ t \in todo /\ Put(t)
  /\ todo' = todo \ {t}
  /\ UNCHANGED <<persistence, phase, due, payload, map, task, listed, fired, saved, cancelled,
                 over, raced, revived, starts, failures>>

\* list_timers; an error ends start.
List ==
  /\ phase = "recovering" /\ todo = {}
  /\ \/ /\ phase' = "loading"
        /\ listed' = {t \in Timer : payload[t] = "pending"}
        /\ revived' = revived \cup StillPending(listed')
        /\ UNCHANGED failures
     \/ Fails /\ phase' = "off" /\ UNCHANGED <<listed, revived>>
  /\ UNCHANGED <<persistence, due, payload, map, task, channel, todo, sent, fired, saved,
                 cancelled, over, raced, starts>>

\* Mutant: a recovered timer is slept on like one that was just scheduled.
LoadArms ==
  /\ phase = "loading" /\ Unlocked
  /\ map' = [t \in Timer |-> IF t \in listed THEN "pending" ELSE map[t]]
  /\ task' = [t \in Timer |-> IF t \in listed \ Cron THEN "sleeping" ELSE task[t]]
  /\ listed' = {} /\ phase' = "up"
  /\ UNCHANGED <<persistence, due, payload, channel, todo, sent, fired, saved, cancelled, over,
                 raced, revived, starts, failures>>

\* Mutant: the map is replaced by what was listed.
LoadReplaces ==
  /\ phase = "loading" /\ Unlocked
  /\ map' = [t \in Timer |-> IF t \in listed THEN "pending" ELSE "none"]
  /\ listed' = {} /\ phase' = "up"
  /\ UNCHANGED <<persistence, due, payload, task, channel, todo, sent, fired, saved, cancelled,
                 over, raced, revived, starts, failures>>

\* The rest of recover_timers, and start_fire_handler.
Load ==
  /\ phase = "loading" /\ Unlocked
  /\ map' = [t \in Timer |-> IF t \in listed THEN "pending" ELSE map[t]]
  /\ listed' = {} /\ phase' = "up"
  /\ UNCHANGED <<persistence, due, payload, task, channel, todo, sent, fired, saved, cancelled,
                 over, raced, revived, starts, failures>>

\* shutdown clears the map and stops neither the tasks nor the loop.
Shutdown ==
  /\ phase = "up" /\ Unlocked
  /\ map' = [t \in Timer |-> "none"]
  /\ over' = over \cup {t \in Timer : map[t] # "none"}
  /\ UNCHANGED <<persistence, phase, due, payload, task, channel, todo, listed, sent, fired,
                 saved, cancelled, raced, revived, starts, failures>>

\* The process ends and another one makes a new wheel.
Restart ==
  /\ starts < MaxStarts /\ starts > 0
  /\ phase' = "off"
  /\ map' = [t \in Timer |-> "none"] /\ task' = [t \in Timer |-> "none"]
  /\ channel' = <<>> /\ todo' = {} /\ listed' = {} /\ raced' = {} /\ revived' = {}
  /\ sent' = [t \in Timer |-> 0] /\ fired' = {}
  /\ over' = over \cup {t \in Timer : sent[t] > 0}
  /\ payload' = IF persistence = "memory" THEN [t \in Timer |-> "none"] ELSE payload
  /\ UNCHANGED <<persistence, due, saved, cancelled, starts, failures>>

----------------------------------------------------------------------------

TimerInit ==
  /\ persistence \in {"memory", "postgres"} /\ phase = "off"
  /\ due = {} /\ saved = {} /\ cancelled = {} /\ over = {} /\ raced = {} /\ revived = {}
  /\ payload = [t \in Timer |-> "none"] /\ map = payload /\ task = payload
  /\ channel = <<>> /\ todo = {} /\ listed = {}
  /\ sent = [t \in Timer |-> 0] /\ fired = {}
  /\ starts = 0 /\ failures = 0

\* The steps of the task schedule_delay spawns, and of start and its loop.
Fires(t)  == Arm(t) \/ Wake(t) \/ Send(t) \/ Delete(t)
Starting  == List \/ Load \/ \E t \in Timer : Recover(t)

TimerNext ==
  \/ \E t \in Timer : Add(t) \/ Expire(t) \/ Fires(t) \/ Cancel(t)
  \/ Starting \/ Handle
  \/ Start \/ Shutdown \/ Restart

\* Time passes, tasks run and the loop takes what is there.
TimerFairness ==
  /\ \A t \in Timer : WF_rvars(Expire(t)) /\ WF_rvars(Fires(t))
  /\ WF_rvars(Starting) /\ WF_rvars(Handle)

TimerSpec == TimerInit /\ [][TimerNext]_rvars /\ TimerFairness

----------------------------------------------------------------------------

\* The type invariant of the rows, the map, the tasks and the channel.
TimerTypeOK ==
  /\ persistence \in {"memory", "postgres"}
  /\ phase \in {"off", "recovering", "loading", "up"}
  /\ {due, todo, listed, fired, saved, cancelled, over, raced, revived} \subseteq SUBSET Timer
  /\ payload \in [Timer -> {"none", "pending", "cancelled"}]
  /\ map \in [Timer -> {"none", "pending", "cancelled"}]
  /\ task \in [Timer -> {"none", "arming", "sleeping", "sending", "deleting"}]
  /\ Len(channel) <= Cap /\ \A i \in DOMAIN channel : channel[i] \in Timer
  /\ sent \in [Timer -> Nat]

\* schedule_timer_entry: in PostgreSQL the row of a timer that nobody cancelled
\* or cleared stays until its entry is in the channel of a running wheel.
RowUntilSent ==
  persistence = "postgres" => \A t \in saved \ over : payload[t] = "pending" \/ sent[t] > 0

\* recover_timers and the tasks together: in the life of a wheel a timer is sent
\* once, unless start read it as expired when this very life had a task for it or
\* had sent it.
OncePerLife == \A t \in Timer \ raced : sent[t] <= 1

\* cancel: what a call cancelled is not sent afterwards, neither by the task that
\* still sleeps nor by a start of this or a later life, with two exceptions: start
\* had read the timer before the call, or it read it as pending in PostgreSQL.
CancelledStaysQuiet ==
  [][\A t \in cancelled \ revived : sent'[t] <= sent[t]]_rvars

\* A timer scheduled in this life of a wheel that is up is handled in the end.
FiresInTheEnd ==
  \A t \in Timer : (task[t] = "sleeping" /\ phase = "up")
                     ~> (t \in fired \cup over \/ phase # "up")

Begun == phase \in {"recovering", "loading"}

\* start returns, if what is to be sent before the loop runs fits the channel: it
\* neither stays with what it sends itself nor waits for the map for ever.
StartReturns ==
  [](Begun => Len(channel) + Cardinality(todo \cup Sleepers) <= Cap) => (Begun ~> ~Begun)

----------------------------------------------------------------------------
(* What the documentation says and the code does not do.                   *)

\* wheel.rs: "On startup, checks for and fires expired timers", which start does
\* not when there are more of them than the channel holds.
ExpiredAreFired == \A t \in Timer : (t \in todo) ~> (t \in fired \/ phase = "off")

\* persistence.rs: what start reads are timers "in a pending/active/firing state",
\* which one that was cancelled is not.
ExpiredAreLive ==
  [][phase = "off" /\ phase' = "recovering" => todo' \cap cancelled = {}]_rvars

\* Nothing sends a timer after it was cancelled; it fails on either persistence,
\* where start had read the timer before the call.
CancelledNeverSent ==
  [][\A t \in cancelled : sent'[t] <= sent[t]]_rvars

\* wheel.rs: "manages pending timers and fires them when due", which those that
\* start loaded should be too.
FiresWhenDue ==
  \A t \in Timer \ Cron : (map[t] = "pending" /\ phase = "up")
                            ~> (sent[t] > 0 \/ t \in over \/ phase # "up")

=============================================================================
