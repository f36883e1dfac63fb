------------------------------ MODULE Trigger ------------------------------
(***************************************************************************)
(* What a tick of the cron library does: trigger_scheduled_job takes the   *)
(* lock of its scheduled job, creates a job, publishes it and drops the    *)
(* lock.  With it, the two lockers: the one in memory, which removes the   *)
(* key of a dropped lock in a spawned task, and the one of PostgreSQL,     *)
(* which keeps a transaction with an advisory lock open on a connection    *)
(* of a bounded pool.  A dropped lock goes back to the pool with its       *)
(* transaction open: the session holds the key until the connection is     *)
(* used again, expires or dies.                                            *)
(***************************************************************************)
EXTENDS Naturals, Sequences, FiniteSets

CONSTANTS
  Process,      \* processes that run a coordinator
  Key,         \* scheduled jobs
  Tick,        \* ticks of the cron library
  Explicit,    \* the lockers whose locks are given back with release_lock
  MaxOpen,     \* max_open_conns of the pool
  MaxIdle,     \* max_idle_conns of the pool
  MaxFailures, \* bound: failures of PostgreSQL, the datastore or the broker
  MaxDeaths    \* bound: processes that die

ASSUME TriggerAssumption ==
  /\ IsFiniteSet(Process) /\ IsFiniteSet(Key) /\ IsFiniteSet(Tick)
  /\ Explicit \subseteq {"memory", "postgres"}
  /\ MaxOpen \in Nat /\ MaxIdle \in Nat /\ MaxFailures \in Nat /\ MaxDeaths \in Nat

VARIABLES
  locker,     \* memory (one process) or postgres
  run,        \* the run of each tick
  locked,     \* memory: the keys in the map
  removals,   \* memory: the spawned tasks that will remove a key
  idle,       \* postgres: the pool of each process, as the keys each session holds
  open,       \* postgres: open_count of each pool
  made,       \* jobs created and, of these, published
  failures, deaths

tvars == <<locker, run, locked, removals, idle, open, made, failures, deaths>>

At == {"due", "client", "lock", "create", "publish", "give", "done"}

Due  == [at |-> "due", by |-> "none", key |-> "none", held |-> {}]
Done == [Due EXCEPT !.at = "done"]

Holds(t)   == run[t].at \in {"create", "publish", "give"}
\* The run has a connection to PostgreSQL in its hands.
HasConn(t) == locker = "postgres" /\ (Holds(t) \/ run[t].at = "lock")
InUse(m)   == {t \in Tick : HasConn(t) /\ run[t].by = m}

Goes(t, at) == run' = [run EXCEPT ![t].at = at]
Finish(t)  == run' = [run EXCEPT ![t] = Done]
Fails       == failures < MaxFailures /\ failures' = failures + 1

Rest(s, n) == SubSeq(s, n + 1, Len(s))

----------------------------------------------------------------------------

\* trigger_scheduled_job reads the row; one that is gone ends the run.
Fire(t, m, k) ==
  /\ run[t].at = "due"
  /\ locker = "postgres" \/ \A u \in Tick : run[u].at \in {"due", "done"} \/ run[u].by = m
  /\ \/ run' = [run EXCEPT ![t] = [at |-> IF locker = "memory" THEN "lock" ELSE "client",
                                   by |-> m, key |-> k, held |-> {}]]
     \/ Finish(t)
  /\ UNCHANGED <<locker, locked, removals, idle, open, made, failures, deaths>>

\* Mutant: the limit of the pool is checked one too late.
RoomForOneMore(n) == n <= MaxOpen
Room(n)           == n < MaxOpen

\* SyncPostgresPool::get: n connections on top of the stack have expired.
Reuse(t, m, n) ==
  /\ n < Len(idle[m])
  /\ run' = [run EXCEPT ![t].at = "lock", ![t].held = idle[m][n + 1]]
  /\ idle' = [idle EXCEPT ![m] = Rest(@, n + 1)]
  /\ open' = [open EXCEPT ![m] = @ - n]
  /\ UNCHANGED failures

\* A connection that cannot be made keeps its place in open_count.
Connect(t, m) ==
  /\ idle' = [idle EXCEPT ![m] = <<>>]
  /\ LET count == open[m] - Len(idle[m]) IN
       IF Room(count)
       THEN /\ open' = [open EXCEPT ![m] = count + 1]
            /\ \/ Goes(t, "lock") /\ UNCHANGED failures
               \/ Finish(t) /\ Fails
       ELSE open' = [open EXCEPT ![m] = count] /\ Finish(t) /\ UNCHANGED failures

Get(t) ==
  /\ run[t].at = "client"
  /\ \/ \E n \in DOMAIN idle[run[t].by] \cup {0} : Reuse(t, run[t].by, n)
     \/ Connect(t, run[t].by)
  /\ UNCHANGED <<locker, locked, removals, made, deaths>>

\* pg_try_advisory_xact_lock: a session may take again what it holds already.
\* Mutant: only the sessions of the process itself are looked at.
HeldAtHome(t) ==
  \E u \in Tick \ {t} : HasConn(u) /\ run[t].key \in run[u].held /\ run[u].by = run[t].by
HeldElsewhere(t) ==
  \/ \E u \in Tick \ {t} : HasConn(u) /\ run[t].key \in run[u].held
  \/ \E m \in Process : \E i \in DOMAIN idle[m] : run[t].key \in idle[m][i]

\* acquire_advisory_lock: a refusal rolls back, which gives up all the session
\* holds, and lets go of the connection without a word to the pool; so does a
\* statement that fails.
TryAdvisory(t) ==
  /\ run[t].at = "lock" /\ locker = "postgres"
  /\ \/ ~HeldElsewhere(t) /\ UNCHANGED failures
        /\ run' = [run EXCEPT ![t].at = "create", ![t].held = @ \cup {run[t].key}]
     \/ HeldElsewhere(t) /\ Finish(t) /\ UNCHANGED failures
     \/ Finish(t) /\ Fails
  /\ UNCHANGED <<locker, locked, removals, idle, open, made, deaths>>

TryInMemory(t) ==
  /\ run[t].at = "lock" /\ locker = "memory"
  /\ IF run[t].key \in locked
       THEN Finish(t) /\ UNCHANGED locked
       ELSE Goes(t, "create") /\ locked' = locked \cup {run[t].key}
  /\ UNCHANGED <<locker, removals, idle, open, made, failures, deaths>>

\* The id of the job is a hyphenated UUID; PostgreSQL keeps ids in varchar(32).
JobIdLength  == 36
IdColumn     == 32
Storable     == locker = "memory" \/ JobIdLength <= IdColumn

CreateJob(t) ==
  /\ run[t].at = "create"
  /\ \/ /\ Storable /\ Goes(t, "publish")
        /\ made' = [made EXCEPT !.created = @ + 1] /\ UNCHANGED failures
     \/ ~Storable /\ Goes(t, "give") /\ UNCHANGED <<made, failures>>
     \/ Storable  /\ Goes(t, "give") /\ Fails /\ UNCHANGED made
  /\ UNCHANGED <<locker, locked, removals, idle, open, deaths>>

PublishJob(t) ==
  /\ run[t].at = "publish"
  /\ Goes(t, "give")
  /\ \/ made' = [made EXCEPT !.published = @ + 1] /\ UNCHANGED failures
     \/ Fails /\ UNCHANGED made
  /\ UNCHANGED <<locker, locked, removals, idle, open, deaths>>

\* SyncPostgresPool::put.
Put(m, held) ==
  IF Len(idle[m]) >= MaxIdle
  THEN open' = [open EXCEPT ![m] = @ - 1] /\ UNCHANGED idle
  ELSE idle' = [idle EXCEPT ![m] = <<held>> \o @] /\ UNCHANGED open

\* Mutant: the sender of a dropped lock wakes nobody.
DropUnnoticed(t) ==
  /\ run[t].at = "give" /\ Finish(t)
  /\ IF locker = "postgres" THEN Put(run[t].by, run[t].held) ELSE UNCHANGED <<idle, open>>
  /\ UNCHANGED <<locker, locked, removals, made, failures, deaths>>

\* The lock goes out of scope.
Drop(t) ==
  /\ run[t].at = "give" /\ Finish(t)
  /\ IF locker = "postgres"
       THEN Put(run[t].by, run[t].held) /\ UNCHANGED removals
       ELSE removals' = [removals EXCEPT ![run[t].key] = @ + 1] /\ UNCHANGED <<idle, open>>
  /\ UNCHANGED <<locker, locked, made, failures, deaths>>

\* release_lock, which the cron closure does not call: PostgreSQL rolls back
\* first; in memory the key goes at once, and the sender with it.
Release(t) ==
  /\ run[t].at = "give" /\ locker \in Explicit /\ Finish(t)
  /\ IF locker = "postgres"
       THEN Put(run[t].by, {}) /\ UNCHANGED <<locked, removals>>
       ELSE /\ locked' = locked \ {run[t].key}
            /\ removals' = [removals EXCEPT ![run[t].key] = @ + 1]
            /\ UNCHANGED <<idle, open>>
  /\ UNCHANGED <<locker, made, failures, deaths>>

\* Mutant: the spawned task does not wait for the sender.
RemoveUnasked(k) ==
  /\ removals' = [removals EXCEPT ![k] = @ - 1]
  /\ locked' = locked \ {k}
  /\ UNCHANGED <<locker, run, idle, open, made, failures, deaths>>

\* The task InMemLock::new spawned removes the key, whoever has it now.
RemoveKey(k) ==
  /\ removals[k] > 0
  /\ removals' = [removals EXCEPT ![k] = @ - 1]
  /\ locked' = locked \ {k}
  /\ UNCHANGED <<locker, run, idle, open, made, failures, deaths>>

\* A process dies: PostgreSQL closes its sessions.
Die(m) ==
  /\ locker = "postgres" /\ deaths < MaxDeaths /\ deaths' = deaths + 1
  /\ run' = [t \in Tick |-> IF run[t].by = m THEN Done ELSE run[t]]
  /\ idle' = [idle EXCEPT ![m] = <<>>]
  /\ open' = [open EXCEPT ![m] = 0]
  /\ UNCHANGED <<locker, locked, removals, made, failures>>

----------------------------------------------------------------------------

TriggerInit ==
  /\ locker \in {"memory", "postgres"}
  /\ run = [t \in Tick |-> Due]
  /\ locked = {} /\ removals = [k \in Key |-> 0]
  /\ idle = [m \in Process |-> <<>>] /\ open = [m \in Process |-> 0]
  /\ made = [created |-> 0, published |-> 0]
  /\ failures = 0 /\ deaths = 0

Runs(t) == Get(t) \/ TryAdvisory(t) \/ TryInMemory(t) \/ CreateJob(t) \/ PublishJob(t)
           \/ Drop(t) \/ Release(t)

TriggerNext ==
  \/ \E t \in Tick : Runs(t) \/ \E m \in Process, k \in Key : Fire(t, m, k)
  \/ \E k \in Key : RemoveKey(k)
  \/ \E m \in Process : Die(m)

\* A run goes on until it ends, and a spawned task runs; ticks need not come.
TriggerFairness == /\ \A t \in Tick : WF_tvars(Runs(t))
                   /\ \A k \in Key : WF_tvars(RemoveKey(k))

TriggerSpec == TriggerInit /\ [][TriggerNext]_tvars /\ TriggerFairness

----------------------------------------------------------------------------

\* The type invariant of the runs, the two lockers and the pools.
TriggerTypeOK ==
  /\ locker \in {"memory", "postgres"}
  /\ run \in [Tick -> [at : At, by : Process \cup {"none"}, key : Key \cup {"none"},
                       held : SUBSET Key]]
  /\ locked \subseteq Key /\ removals \in [Key -> Nat]
  /\ \A m \in Process : \A i \in DOMAIN idle[m] : idle[m][i] \subseteq Key
  /\ open \in [Process -> Nat]
  /\ made \in [created : Nat, published : Nat]

\* acquire_lock: two runs never have the lock of one scheduled job, though
\* sessions keep keys nobody uses and may take them a second time.
HoldersExclude ==
  \A t, u \in Tick : t # u /\ Holds(t) /\ Holds(u) => run[t].key # run[u].key

\* SyncPostgresPool: open_count covers every connection of the process and
\* stays within max_open_conns, although refused runs never give theirs back.
PoolWithinLimit ==
  \A m \in Process : /\ Len(idle[m]) + Cardinality(InUse(m)) <= open[m]
                    /\ open[m] <= MaxOpen

\* InMemLock: the key of a lock that goes out of scope is free in the end, and
\* so the next tick of the scheduled job can run.
KeysComeBack == <>[](locked = {})

----------------------------------------------------------------------------
(* What the documentation says and the code does not do.                   *)

\* README.md runs scheduled jobs on PostgreSQL: a tick that got its lock, when
\* nothing has failed, should have made a job.
TicksMakeJobs ==
  failures = 0 /\ deaths = 0 /\ (\E t \in Tick : run[t].at = "give") => made.published > 0

=============================================================================
