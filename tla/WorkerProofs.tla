---------------------------- MODULE WorkerProofs ----------------------------
(***************************************************************************)
(* Workers lose no task and know what they run, for any finite number of   *)
(* workers, slots and tasks, on either broker and any runtime, whatever is *)
(* refused or cancelled and whoever stops or dies.                         *)
(*                                                                         *)
(* The argument: what was not sent has left no trace, so a delivery of the *)
(* in-memory broker overwrites nothing; and two executions of a task on    *)
(* one worker disturb each other from the moment the second one begins.    *)
(***************************************************************************)
EXTENDS Worker, FiniteSetTheorems, FunctionTheorems, TLAPS

----------------------------------------------------------------------------
(* The inductive invariants.                                               *)

Outcome == {"Completed", "Failed"}
Going   == {"began", "launch", "running", "exited"}

ExecTypes == exec \in [Exec -> [at : Place, out : {"none"} \cup Outcome]]

\* A run that has ended has an outcome; the maps of the runtime have an entry for
\* every worker and task.
Types ==
  /\ WorkerTypeOK /\ ExecTypes
  /\ \A e \in Exec : exec[e].at \in {"exited", "report"} => exec[e].out \in Outcome
  /\ tracked \in [Worker -> [Task -> {Nobody} \cup Exec]]
  /\ tempdir \in [Worker -> [Task -> {Nobody} \cup Exec]]

\* A task that was not published is nowhere.
Unsent ==
  \A t \in Task \ sent :
    /\ queue[t].fresh = 0 /\ queue[t].again = 0 /\ redel[t] = 0 /\ runs[t] = 0
    /\ \A e \in Exec : T(e) = t => exec[e].at = "none"

\* The runtime tracks what runs; the shell has the directory of what was not collected.
Tracks ==
  \A w \in Worker, t \in Task :
    /\ tracked[w][t] # Nobody => exec[tracked[w][t]].at = "running"
    /\ tempdir[w][t] # Nobody => runtime = "shell"
    /\ tempdir[w][t] # Nobody /\ <<w, t>> \notin disturbed
         => exec[tempdir[w][t]].at \in {"running", "exited"}

\* Two executions of a task on a worker have disturbed each other.
Alone ==
  \A e, f \in Exec :
    /\ e # f /\ W(e) = W(f) /\ T(e) = T(f)
    /\ exec[e].at \in Going /\ exec[f].at \in Going
    => <<W(e), T(e)>> \in disturbed

\* A task without a reported outcome is queued or with a slot that has not passed it on.
Somewhere ==
  broker = "rabbitmq" => \A t \in sent :
    reports[t] = {} => \/ queue[t].fresh + queue[t].again + redel[t] > 0
                       \/ \E e \in Exec : T(e) = t /\ exec[e].at \in Going \cup {"report"}

----------------------------------------------------------------------------
(* Executions, one at a time.                                              *)

\* An execution is of a task on a worker.
LEMMA Parts ==
  ASSUME NEW e \in Exec
  PROVE  W(e) \in Worker /\ T(e) \in Task /\ e[1] \in Slot /\ e = <<e[1], e[2]>>
BY WorkerAssumption DEF Exec, W, T

\* What one execution that moves on leaves as it was.
LEMMA Moved ==
  ASSUME ExecTypes, NEW e \in Exec, NEW p, exec' = [exec EXCEPT ![e].at = p]
  PROVE  /\ \A f \in Exec \ {e} : exec'[f] = exec[f]
         /\ exec'[e].at = p /\ exec'[e].out = exec[e].out
         /\ p \in Place => ExecTypes'
<1>1. exec[e] \in [at : Place, out : {"none"} \cup Outcome]
  BY DEF ExecTypes
<1> QED BY <1>1 DEF ExecTypes

\* What one execution that gets another record leaves as it was.
LEMMA Gets ==
  ASSUME ExecTypes, NEW e \in Exec, NEW p \in Place, NEW o \in {"none"} \cup Outcome,
         exec' = [exec EXCEPT ![e] = [at |-> p, out |-> o]]
  PROVE  /\ \A f \in Exec \ {e} : exec'[f] = exec[f]
         /\ exec'[e].at = p /\ exec'[e].out = o
         /\ ExecTypes'
BY DEF ExecTypes

\* What executions that begin leave as they were, whom they disturb, and that the
\* worker knows of them.
LEMMA Begin ==
  ASSUME ExecTypes, active \in [Worker -> SUBSET Task], disturbed \subseteq Worker \X Task,
         NEW E \in SUBSET Exec, Starts(E)
  PROVE  /\ \A f \in Exec \ E : exec'[f] = exec[f]
         /\ \A f \in E : exec'[f].at = "began"
         /\ ExecTypes'
         /\ active' \in [Worker -> SUBSET Task] /\ disturbed' \subseteq Worker \X Task
         /\ \A w \in Worker : active[w] \subseteq active'[w]
         /\ \A f \in E : T(f) \in active'[W(f)]
         /\ disturbed \subseteq disturbed'
         /\ \A f \in E, g \in Exec :
              g # f /\ W(g) = W(f) /\ T(g) = T(f) /\ (g \in E \/ exec[g].at # "none")
              => <<W(f), T(f)>> \in disturbed'
<1>1. \A f \in Exec : W(f) \in Worker /\ T(f) \in Task
  BY Parts
<1>2. /\ \A f \in Exec \ E : exec'[f] = exec[f]
      /\ \A f \in E : exec'[f].at = "began"
      /\ ExecTypes'
  BY DEF Starts, ExecTypes, Place
<1>3. active' = [w \in Worker |-> active[w] \cup {T(e) : e \in {f \in E : W(f) = w}}]
  BY DEF Starts
<1>4. active' \in [Worker -> SUBSET Task]
  BY <1>1, <1>3
<1>5. \A w \in Worker : active[w] \subseteq active'[w]
  BY <1>3
<1>6. \A f \in E : T(f) \in active'[W(f)]
  BY <1>1, <1>3
<1> DEFINE D == {<<W(e), T(e)>> : e \in {f \in E : \E g \in Exec \ {f} :
                   W(g) = W(f) /\ T(g) = T(f) /\ (g \in E \/ ~At(g, "none"))}}
<1>7. disturbed' = disturbed \cup D
  BY Zenon DEF Starts
<1>8. D \subseteq Worker \X Task
  BY <1>1
<1>9. ASSUME NEW f \in E, NEW g \in Exec,
             g # f, W(g) = W(f), T(g) = T(f), g \in E \/ exec[g].at # "none"
      PROVE  <<W(f), T(f)>> \in D
  BY <1>9, Zenon DEF At
<1> HIDE DEF D
<1> QED BY <1>2, <1>4, <1>5, <1>6, <1>7, <1>8, <1>9

----------------------------------------------------------------------------
(* Types.                                                                  *)

\* The parts of the types that different actions change.
MapTypes ==
  /\ tracked \in [Worker -> [Task -> {Nobody} \cup Exec]]
  /\ tempdir \in [Worker -> [Task -> {Nobody} \cup Exec]]
  /\ \A w \in Worker, t \in Task :
       /\ tracked[w][t] # Nobody => W(tracked[w][t]) = w /\ T(tracked[w][t]) = t
       /\ tempdir[w][t] # Nobody => W(tempdir[w][t]) = w /\ T(tempdir[w][t]) = t
  /\ torn \subseteq Exec

QueueTypes == queue \in [Task -> [fresh : Nat, again : Nat]] /\ redel \in [Task -> Nat]

Ended == \A e \in Exec : exec[e].at \in {"exited", "report"} => exec[e].out \in Outcome

RestTypes ==
  /\ broker \in Brokers /\ runtime \in Runtimes
  /\ phase \in [Worker -> {"up", "stopping", "stopped", "dead"}]
  /\ consumes \subseteq Slot
  /\ sent \subseteq Task
  /\ active \in [Worker -> SUBSET Task]
  /\ reports \in [Task -> SUBSET Outcome]
  /\ cancels \subseteq Worker \X Task /\ disturbed \subseteq Worker \X Task
  /\ runs \in [Task -> Nat]

\* The types are those parts.
LEMMA TypeParts == Types <=> ExecTypes /\ Ended /\ MapTypes /\ QueueTypes /\ RestTypes
<1>1. ASSUME Types PROVE MapTypes
  <2>1. \A w \in Worker, t \in Task :
          {tracked[w][t], tempdir[w][t]} \subseteq {Nobody} \cup {e \in Exec : W(e) = w /\ T(e) = t}
    BY <1>1, Zenon DEF Types, WorkerTypeOK
  <2>2. ASSUME NEW w \in Worker, NEW t \in Task
        PROVE  /\ tracked[w][t] # Nobody => W(tracked[w][t]) = w /\ T(tracked[w][t]) = t
               /\ tempdir[w][t] # Nobody => W(tempdir[w][t]) = w /\ T(tempdir[w][t]) = t
    <3>1. {tracked[w][t], tempdir[w][t]} \subseteq {Nobody} \cup {e \in Exec : W(e) = w /\ T(e) = t}
      BY <2>1, Zenon
    <3> QED BY <3>1
  <2> QED BY <1>1, <2>2, Zenon DEF Types, WorkerTypeOK, MapTypes
<1>2. ASSUME MapTypes, NEW w \in Worker, NEW t \in Task
      PROVE  {tracked[w][t], tempdir[w][t]} \subseteq {Nobody} \cup {e \in Exec : W(e) = w /\ T(e) = t}
  BY <1>2 DEF MapTypes
<1> QED BY <1>1, <1>2, Zenon DEF Types, WorkerTypeOK, ExecTypes, Ended, MapTypes, QueueTypes, RestTypes, Outcome

\* What a queue that gains or loses copies of one task leaves as it was.
LEMMA Queued ==
  ASSUME QueueTypes, NEW t \in Task, NEW n \in Nat
  PROVE  /\ queue' = [queue EXCEPT ![t].fresh = n] =>
              /\ queue' \in [Task -> [fresh : Nat, again : Nat]]
              /\ \A u \in Task \ {t} : queue'[u] = queue[u]
              /\ queue'[t].fresh = n /\ queue'[t].again = queue[t].again
         /\ queue' = [queue EXCEPT ![t].again = n] =>
              /\ queue' \in [Task -> [fresh : Nat, again : Nat]]
              /\ \A u \in Task \ {t} : queue'[u] = queue[u]
              /\ queue'[t].again = n /\ queue'[t].fresh = queue[t].fresh
<1>1. queue[t] \in [fresh : Nat, again : Nat]
  BY DEF QueueTypes
<1>2. /\ [queue[t] EXCEPT !.fresh = n] = [fresh |-> n, again |-> queue[t].again]
      /\ [queue[t] EXCEPT !.again = n] = [fresh |-> queue[t].fresh, again |-> n]
  BY <1>1
<1> QED BY <1>1, <1>2 DEF QueueTypes

\* The counts of a queue are numbers.
LEMMA Counts ==
  ASSUME QueueTypes, NEW t \in Task
  PROVE  queue[t].fresh \in Nat /\ queue[t].again \in Nat /\ redel[t] \in Nat
BY DEF QueueTypes

\* A handler that fails: its slot is free again, and RabbitMQ has its task once more.
LEMMA Failing ==
  ASSUME Types, NEW e \in Exec, Fails(e)
  PROVE  /\ \A f \in Exec \ {e} : exec'[f] = exec[f]
         /\ exec'[e].at = "none"
         /\ ExecTypes' /\ Ended'
         /\ queue' \in [Task -> [fresh : Nat, again : Nat]]
         /\ \A u \in Task \ {T(e)} : queue'[u] = queue[u]
         /\ queue'[T(e)].fresh = queue[T(e)].fresh
         /\ queue'[T(e)].again = queue[T(e)].again + (IF broker = "rabbitmq" THEN 1 ELSE 0)
<1>1. /\ \A f \in Exec \ {e} : exec'[f] = exec[f]
      /\ exec'[e].at = "none"
      /\ ExecTypes'
  BY Gets DEF Fails, Free, Place, Types
<1>2. Ended'
  BY <1>1 DEF Ended, Types
<1>3. QueueTypes /\ T(e) \in Task
  BY TypeParts, Parts
<1>4. queue[T(e)].again \in Nat
  BY <1>3, Counts
<1>5. CASE broker = "rabbitmq"
  <2> DEFINE n == queue[T(e)].again + 1
  <2>1. queue' = [queue EXCEPT ![T(e)].again = n]
    BY <1>5 DEF Fails
  <2>2. n \in Nat
    BY <1>4
  <2>3. /\ queue' \in [Task -> [fresh : Nat, again : Nat]]
        /\ \A u \in Task \ {T(e)} : queue'[u] = queue[u]
        /\ queue'[T(e)].again = n /\ queue'[T(e)].fresh = queue[T(e)].fresh
    <3> HIDE DEF n
    <3> QED BY <1>3, <2>1, <2>2, Queued
  <2> QED BY <1>1, <1>2, <1>5, <2>3
<1>6. CASE broker # "rabbitmq"
  <2>1. queue' = queue
    BY <1>6 DEF Fails
  <2> QED BY <1>1, <1>2, <1>3, <1>4, <1>6, <2>1 DEF QueueTypes
<1> QED BY <1>5, <1>6

\* cleanup_temp_dir and stop leave the maps of the runtime with their types.
LEMMA Cleaning ==
  ASSUME MapTypes, NEW w \in Worker, NEW t \in Task, NEW x,
         Cleanup(w, t, x)
  PROVE  /\ tempdir' \in [Worker -> [Task -> {Nobody} \cup Exec]]
         /\ tempdir'[w][t] = Nobody
         /\ \A v \in Worker, u \in Task : v # w \/ u # t => tempdir'[v][u] = tempdir[v][u]
         /\ torn' \subseteq torn \cup {tempdir[w][t]}
         /\ torn' \subseteq Exec
BY DEF Cleanup, MapTypes

\* A process that ends, or is signalled, is no longer tracked.
LEMMA Untracked ==
  ASSUME MapTypes, NEW w \in Worker, NEW t \in Task, tracked' = [tracked EXCEPT ![w][t] = Nobody]
  PROVE  /\ tracked' \in [Worker -> [Task -> {Nobody} \cup Exec]]
         /\ tracked'[w][t] = Nobody
         /\ \A v \in Worker, u \in Task : v # w \/ u # t => tracked'[v][u] = tracked[v][u]
BY DEF MapTypes

\* There are finitely many executions.
LEMMA ExecFinite == IsFiniteSet(Exec)
BY WorkerAssumption, FS_Product DEF Exec

\* What a worker that is gone had and had not acknowledged is queued again.
LEMMA GoneQueue ==
  ASSUME QueueTypes, NEW w \in Worker, Gone(w)
  PROVE  /\ QueueTypes'
         /\ \A t \in Task :
              /\ queue'[t].fresh = queue[t].fresh
              /\ queue'[t].again = queue[t].again +
                   Cardinality({e \in Exec : W(e) = w /\ T(e) = t /\ ~At(e, "none")})
<1> DEFINE c(t) == Cardinality({e \in Exec : W(e) = w /\ T(e) = t /\ ~At(e, "none")})
<1>1. \A t \in Task : c(t) \in Nat
  <2> SUFFICES ASSUME NEW t \in Task PROVE c(t) \in Nat
    OBVIOUS
  <2> DEFINE S == {e \in Exec : W(e) = w /\ T(e) = t /\ ~At(e, "none")}
  <2>1. IsFiniteSet(S)
    BY ExecFinite, FS_Subset
  <2> QED BY <2>1, FS_CardinalityType
<1>2. queue' = [t \in Task |-> [queue[t] EXCEPT !.again = queue[t].again + c(t)]]
  BY DEF Gone
<1>3. redel' = redel
  BY DEF Gone
<1> HIDE DEF c
<1>4. ASSUME NEW t \in Task
      PROVE  [queue[t] EXCEPT !.again = queue[t].again + c(t)]
             = [fresh |-> queue[t].fresh, again |-> queue[t].again + c(t)]
  BY DEF QueueTypes
<1>5. queue' = [t \in Task |-> [fresh |-> queue[t].fresh, again |-> queue[t].again + c(t)]]
  BY <1>2, <1>4, Zenon
<1>6. QueueTypes' /\ \A t \in Task : queue'[t].fresh = queue[t].fresh /\ queue'[t].again = queue[t].again + c(t)
  BY <1>1, <1>3, <1>5 DEF QueueTypes
<1> QED BY <1>6 DEF c

\* Every step keeps the types.
LEMMA TypesStep == Types /\ [WorkerNext]_wvars => Types'
<1> SUFFICES ASSUME ExecTypes, Ended, MapTypes, QueueTypes, RestTypes, [WorkerNext]_wvars
             PROVE  ExecTypes' /\ Ended' /\ MapTypes' /\ QueueTypes' /\ RestTypes'
  <2>1. (Types <=> ExecTypes /\ Ended /\ MapTypes /\ QueueTypes /\ RestTypes)'
    BY TypeParts, PTL
  <2> QED BY <2>1, TypeParts
<1>0. Types
  BY TypeParts
<1> DEFINE Goal == ExecTypes' /\ Ended' /\ MapTypes' /\ QueueTypes' /\ RestTypes'
<1>1. ASSUME NEW t \in Task, Send(t) PROVE Goal
  <2>1. CASE broker = "rabbitmq"
    <3> DEFINE n == queue[t].fresh + 1
    <3>1. queue' = [queue EXCEPT ![t].fresh = n] /\ UNCHANGED <<exec, active, disturbed>>
      BY <1>1, <2>1 DEF Send
    <3>2. n \in Nat
      BY Counts
    <3>3. queue' \in [Task -> [fresh : Nat, again : Nat]]
      <4> HIDE DEF n
      <4> QED BY <3>1, <3>2, Queued
    <3> QED BY <1>1, <3>1, <3>3 DEF Send, ExecTypes, Ended, MapTypes, QueueTypes, RestTypes
  <2>2. CASE broker # "rabbitmq"
    <3> DEFINE E == {e \in Exec : e[1] \in consumes /\ T(e) = t}
    <3>1. Starts(E) /\ queue' = queue
      BY <1>1, <2>2 DEF Send
    <3>2. E \in SUBSET Exec
      OBVIOUS
    <3>3. /\ \A f \in Exec \ E : exec'[f] = exec[f]
          /\ \A f \in E : exec'[f].at = "began"
          /\ ExecTypes' /\ active' \in [Worker -> SUBSET Task] /\ disturbed' \subseteq Worker \X Task
      <4> HIDE DEF E
      <4> QED BY <3>1, <3>2, Begin DEF RestTypes
    <3>4. Ended'
      BY <3>3 DEF Ended
    <3> QED BY <1>1, <3>1, <3>3, <3>4 DEF Send, MapTypes, QueueTypes, RestTypes
  <2> QED BY <2>1, <2>2
<1>2. ASSUME NEW e \in Exec, Deliver(e) PROVE Goal
  <2> DEFINE n == queue[T(e)].fresh - 1
  <2>1. T(e) \in Task
    BY Parts
  <2>2. queue' = [queue EXCEPT ![T(e)].fresh = n] /\ n \in Nat
    BY <1>2, <2>1, Counts DEF Deliver
  <2>3. queue' \in [Task -> [fresh : Nat, again : Nat]]
    <3> HIDE DEF n
    <3> QED BY <2>1, <2>2, Queued
  <2>4. Starts({e}) /\ {e} \in SUBSET Exec
    BY <1>2 DEF Deliver
  <2>5. /\ \A f \in Exec \ {e} : exec'[f] = exec[f]
        /\ \A f \in {e} : exec'[f].at = "began"
        /\ ExecTypes' /\ active' \in [Worker -> SUBSET Task] /\ disturbed' \subseteq Worker \X Task
    BY <2>4, Begin DEF RestTypes
  <2>6. Ended'
    BY <2>5 DEF Ended
  <2> QED BY <1>2, <2>3, <2>5, <2>6 DEF Deliver, MapTypes, QueueTypes, RestTypes
<1>3. ASSUME NEW e \in Exec, Redirect(e) PROVE Goal
  <2> DEFINE n == queue[T(e)].again - 1
  <2>1. T(e) \in Task
    BY Parts
  <2>2. queue' = [queue EXCEPT ![T(e)].again = n] /\ n \in Nat
    BY <1>3, <2>1, Counts DEF Redirect
  <2>3. queue' \in [Task -> [fresh : Nat, again : Nat]]
    <3> HIDE DEF n
    <3> QED BY <2>1, <2>2, Queued
  <2>4. redel' \in [Task -> Nat]
    BY <1>3, <2>1 DEF Redirect, QueueTypes
  <2>5. /\ \A f \in Exec \ {e} : exec'[f] = exec[f]
        /\ exec'[e].at = "redirected" /\ ExecTypes'
    BY <1>3, Moved DEF Redirect, Place
  <2>6. Ended'
    BY <2>5 DEF Ended
  <2> QED BY <1>3, <2>3, <2>4, <2>5, <2>6 DEF Redirect, MapTypes, QueueTypes, RestTypes
<1>4. ASSUME NEW t \in Task, Redeliver(t) PROVE Goal
  <2> DEFINE n == queue[t].fresh + 1
  <2>1. (queue' = [queue EXCEPT ![t].fresh = n] \/ queue' = queue) /\ n \in Nat
    BY <1>4, Counts DEF Redeliver
  <2>2. queue' \in [Task -> [fresh : Nat, again : Nat]]
    <3> HIDE DEF n
    <3> QED BY <2>1, Queued DEF QueueTypes
  <2>3. redel' \in [Task -> Nat]
    BY <1>4, Counts DEF Redeliver, QueueTypes
  <2> QED BY <1>4, <2>2, <2>3 DEF Redeliver, ExecTypes, Ended, MapTypes, QueueTypes, RestTypes
<1>5. ASSUME NEW e \in Exec, ReportRunning(e) PROVE Goal
  <2>1. ExecTypes' /\ Ended' /\ queue' \in [Task -> [fresh : Nat, again : Nat]]
    <3>1. CASE Moves(e, "began", "launch") /\ UNCHANGED queue
      <4>1. /\ \A f \in Exec \ {e} : exec'[f] = exec[f]
            /\ exec'[e].at = "launch" /\ ExecTypes'
        BY <3>1, Moved DEF Moves, Place
      <4> QED BY <3>1, <4>1 DEF Ended, QueueTypes
    <3>2. CASE Fails(e)
      BY <1>0, <3>2, Failing
    <3> QED BY <1>5, <3>1, <3>2 DEF ReportRunning
  <2> QED BY <1>5, <2>1 DEF ReportRunning, MapTypes, QueueTypes, RestTypes
<1>6. ASSUME NEW e \in Exec, Launch(e) PROVE Goal
  <2>1. W(e) \in Worker /\ T(e) \in Task
    BY Parts
  <2>2. /\ \A f \in Exec \ {e} : exec'[f] = exec[f]
        /\ exec'[e].at = "running" /\ ExecTypes'
    BY <1>6, Moved DEF Launch, Moves, Place
  <2>3. Ended'
    BY <2>2 DEF Ended
  <2>4. MapTypes'
    BY <1>6, <2>1 DEF Launch, MapTypes
  <2>5. runs' \in [Task -> Nat]
    BY <1>6, <2>1 DEF Launch, RestTypes
  <2> QED BY <1>6, <2>2, <2>3, <2>4, <2>5 DEF Launch, QueueTypes, RestTypes
<1>7. ASSUME NEW e \in Exec, Exit(e) PROVE Goal
  <2>1. W(e) \in Worker /\ T(e) \in Task
    BY Parts
  <2>2. PICK o \in {"Completed", "Failed"} : exec' = [exec EXCEPT ![e] = [at |-> "exited", out |-> o]]
    BY <1>7 DEF Exit
  <2>3. /\ \A f \in Exec \ {e} : exec'[f] = exec[f]
        /\ exec'[e].at = "exited" /\ exec'[e].out = o /\ ExecTypes'
    BY <2>2, Gets DEF Place, Outcome
  <2>4. Ended'
    BY <2>3 DEF Ended, Outcome
  <2>5. MapTypes'
    BY <1>7, <2>1, Untracked DEF Exit, MapTypes
  <2> QED BY <1>7, <2>3, <2>4, <2>5 DEF Exit, QueueTypes, RestTypes
<1>8. ASSUME NEW e \in Exec, Collect(e) PROVE Goal
  <2>1. W(e) \in Worker /\ T(e) \in Task
    BY Parts
  <2> DEFINE o == IF e \in torn THEN "Failed" ELSE exec[e].out
  <2>2. exec' = [exec EXCEPT ![e] = [at |-> "report", out |-> o]]
    BY <1>8 DEF Collect
  <2>3. o \in Outcome
    BY <1>8 DEF Collect, At, Ended, Outcome
  <2>4. /\ \A f \in Exec \ {e} : exec'[f] = exec[f]
        /\ exec'[e].at = "report" /\ exec'[e].out = o /\ ExecTypes'
    <3> HIDE DEF o
    <3> QED BY <2>2, <2>3, Gets DEF Place
  <2>5. Ended'
    BY <2>3, <2>4 DEF Ended
  <2>6. active' \in [Worker -> SUBSET Task]
    BY <1>8, <2>1 DEF Collect, Leaves, RestTypes
  <2>7. MapTypes'
    <3>1. CASE Cleanup(W(e), T(e), e)
      <4>1. tracked' = tracked
        BY <1>8 DEF Collect
      <4>2. /\ tempdir' \in [Worker -> [Task -> {Nobody} \cup Exec]]
            /\ tempdir'[W(e)][T(e)] = Nobody
            /\ \A v \in Worker, u \in Task :
                 v # W(e) \/ u # T(e) => tempdir'[v][u] = tempdir[v][u]
            /\ torn' \subseteq Exec
        BY <2>1, <3>1, Cleaning, Zenon
      <4> QED BY <2>1, <4>1, <4>2 DEF MapTypes
    <3>2. CASE torn' = torn \ {e} /\ UNCHANGED tempdir
      <4>1. tracked' = tracked
        BY <1>8 DEF Collect
      <4> QED BY <3>2, <4>1 DEF MapTypes
    <3> QED BY <1>8, <3>1, <3>2 DEF Collect
  <2> QED BY <1>8, <2>4, <2>5, <2>6, <2>7 DEF Collect, QueueTypes, RestTypes
<1>9. ASSUME NEW e \in Exec, Report(e) PROVE Goal
  <2>1. T(e) \in Task
    BY Parts
  <2>2. CASE Moves(e, "report", "ack") /\ reports' = [reports EXCEPT ![T(e)] = @ \cup {exec[e].out}] /\ UNCHANGED queue
    <3>1. /\ \A f \in Exec \ {e} : exec'[f] = exec[f]
          /\ exec'[e].at = "ack" /\ ExecTypes'
      BY <2>2, Moved DEF Moves, Place
    <3>2. Ended'
      BY <3>1 DEF Ended
    <3>3. exec[e].out \in Outcome
      BY <1>9 DEF Report, At, Ended
    <3>4. reports' \in [Task -> SUBSET Outcome]
      BY <2>1, <2>2, <3>3 DEF RestTypes
    <3> QED BY <1>9, <2>2, <3>1, <3>2, <3>4 DEF Report, MapTypes, QueueTypes, RestTypes
  <2>3. CASE Fails(e) /\ UNCHANGED reports
    <3>1. ExecTypes' /\ Ended' /\ queue' \in [Task -> [fresh : Nat, again : Nat]]
      BY <1>0, <2>3, Failing
    <3> QED BY <1>9, <2>3, <3>1 DEF Report, MapTypes, QueueTypes, RestTypes
  <2> QED BY <1>9, <2>2, <2>3 DEF Report
<1>10. ASSUME NEW e \in Exec, Acknowledge(e) PROVE Goal
  <2>1. /\ \A f \in Exec \ {e} : exec'[f] = exec[f]
        /\ exec'[e].at = "none" /\ ExecTypes'
    BY <1>10, Gets DEF Acknowledge, Free, Place
  <2>2. Ended'
    BY <2>1 DEF Ended
  <2> QED BY <1>10, <2>1, <2>2 DEF Acknowledge, MapTypes, QueueTypes, RestTypes
<1>11. ASSUME NEW s \in Slot, Subscribe(s) PROVE Goal
  BY <1>11 DEF Subscribe, ExecTypes, Ended, MapTypes, QueueTypes, RestTypes
<1>12. ASSUME NEW w \in Worker, NEW t \in Task, Cancel(w, t) PROVE Goal
  BY <1>12 DEF Cancel, ExecTypes, Ended, MapTypes, QueueTypes, RestTypes
<1>13. ASSUME NEW w \in Worker, NEW t \in Task, HandleCancel(w, t) PROVE Goal
  <2>1. ExecTypes' /\ Ended' /\ MapTypes'
    <3>1. CASE UNCHANGED <<exec, tracked, tempdir, torn>>
      BY <3>1 DEF ExecTypes, Ended, MapTypes
    <3>2. CASE StopRun(w, t)
      <4> DEFINE x == tracked[w][t]
      <4>1. tracked' = [tracked EXCEPT ![w][t] = Nobody]
        BY <3>2 DEF StopRun
      <4>2. ExecTypes' /\ Ended'
        <5>1. CASE exec' = exec
          BY <5>1 DEF ExecTypes, Ended
        <5>2. CASE x # Nobody /\ exec' = [exec EXCEPT ![x] = [at |-> "exited", out |-> "Failed"]]
          <6>1. x \in Exec
            BY <5>2 DEF MapTypes
          <6>2. /\ \A f \in Exec \ {x} : exec'[f] = exec[f]
                /\ exec'[x].at = "exited" /\ exec'[x].out = "Failed" /\ ExecTypes'
            <7> HIDE DEF x
            <7> QED BY <5>2, <6>1, Gets DEF Place, Outcome
          <6> QED BY <6>1, <6>2 DEF Ended, Outcome
        <5> QED BY <3>2, <5>1, <5>2 DEF StopRun
      <4>3. MapTypes'
        <5>1. CASE UNCHANGED <<tempdir, torn>>
          BY <4>1, <5>1, Untracked DEF MapTypes
        <5>2. CASE Cleanup(w, t, Nobody)
          BY <4>1, <5>2, Untracked, Cleaning DEF MapTypes
        <5> QED BY <3>2, <5>1, <5>2 DEF StopRun
      <4> QED BY <4>2, <4>3
    <3> QED BY <1>13, <3>1, <3>2 DEF HandleCancel
  <2>2. active' \in [Worker -> SUBSET Task]
    BY <1>13 DEF HandleCancel, RestTypes
  <2> QED BY <1>13, <2>1, <2>2 DEF HandleCancel, QueueTypes, RestTypes
<1>14. ASSUME NEW w \in Worker, Stop(w) \/ StopReturns(w) PROVE Goal
  <2>1. /\ UNCHANGED <<exec, tracked, tempdir, torn, queue, redel, broker, runtime, sent, active,
                      reports, cancels, disturbed, runs>>
        /\ \/ phase' = [phase EXCEPT ![w] = "stopping"] \/ phase' = [phase EXCEPT ![w] = "stopped"]
    BY <1>14 DEF Stop, StopReturns
  <2>2. ExecTypes' /\ Ended' /\ MapTypes' /\ QueueTypes'
    BY <2>1 DEF ExecTypes, Ended, MapTypes, QueueTypes
  <2> QED BY <1>14, <2>1, <2>2 DEF Stop, StopReturns, RestTypes
<1>15. ASSUME NEW w \in Worker, Gone(w) PROVE Goal
  <2>1. ExecTypes' /\ Ended'
    BY <1>15 DEF Gone, Free, ExecTypes, Ended, Place
  <2>2. MapTypes'
    BY <1>15 DEF Gone, MapTypes
  <2>3. QueueTypes'
    BY <1>15, GoneQueue
  <2> QED BY <1>15, <2>1, <2>2, <2>3 DEF Gone, RestTypes
<1>16. CASE UNCHANGED wvars
  BY <1>16 DEF wvars, ExecTypes, Ended, MapTypes, QueueTypes, RestTypes
<1> QED BY <1>1, <1>2, <1>3, <1>4, <1>5, <1>6, <1>7, <1>8, <1>9, <1>10, <1>11, <1>12, <1>13, <1>14,
           <1>15, <1>16 DEF WorkerNext, Takes, Executes, Die, Leave

----------------------------------------------------------------------------
(* Every step but the death of a worker is about one task.                 *)

\* What a step about the task t leaves as it was.
Only(t) ==
  \A u \in Task \ {t} :
    /\ queue'[u] = queue[u] /\ redel'[u] = redel[u]
    /\ runs'[u] = runs[u] /\ reports'[u] = reports[u]
    /\ \A f \in Exec : T(f) = u => exec'[f].at = exec[f].at

Still == UNCHANGED <<sent, queue, redel, runs, reports, exec>>

\* An execution that is under way is of a task that was sent, and so is a queued copy.
LEMMA Underway ==
  ASSUME Unsent
  PROVE  /\ \A e \in Exec : exec[e].at # "none" => T(e) \in sent
         /\ \A t \in Task : redel[t] # 0 \/ queue[t].fresh # 0 \/ queue[t].again # 0 => t \in sent
BY Parts DEF Unsent

\* The steps about a task.
About(t) ==
  \/ Send(t) \/ Takes(t) \/ Redeliver(t)
  \/ \E e \in Exec : T(e) = t /\ Executes(e)
  \/ \E w \in Worker : HandleCancel(w, t)

\* A step is about a task, or a worker is gone, or it moves neither a task nor a message.
LEMMA Cases ==
  ASSUME [WorkerNext]_wvars
  PROVE  (\E t \in Task : About(t)) \/ (\E w \in Worker : Gone(w)) \/ Still
<1>1. ASSUME NEW e \in Exec, Executes(e) PROVE \E t \in Task : About(t)
  BY <1>1, Parts DEF About
<1>2. ASSUME NEW t \in Task, Send(t) \/ Takes(t) \/ Redeliver(t) \/ \E w \in Worker : HandleCancel(w, t)
      PROVE  \E u \in Task : About(u)
  BY <1>2 DEF About
<1>3. ASSUME NEW s \in Slot, Subscribe(s) PROVE Still
  BY <1>3 DEF Subscribe, Still
<1>4. ASSUME NEW w \in Worker, NEW t \in Task, Cancel(w, t) PROVE Still
  BY <1>4 DEF Cancel, Still
<1>5. ASSUME NEW w \in Worker, Stop(w) \/ StopReturns(w) PROVE Still
  BY <1>5 DEF Stop, StopReturns, Still
<1>6. CASE UNCHANGED wvars
  BY <1>6 DEF wvars, Still
<1> QED BY <1>1, <1>2, <1>3, <1>4, <1>5, <1>6, Zenon DEF WorkerNext, Die, Leave

\* A step about a task leaves the others as they were, and is about one that was sent.
LEMMA OneTask ==
  ASSUME Types, Unsent, Tracks, NEW t0 \in Task, About(t0)
  PROVE  (t0 \in sent' /\ sent' = sent \cup {t0} /\ Only(t0)) \/ Still
<1>0. ExecTypes /\ Ended /\ MapTypes /\ QueueTypes /\ RestTypes
  BY TypeParts
<1> DEFINE Goal(t) == t \in sent' /\ sent' = sent \cup {t} /\ Only(t)
<1>a. ASSUME NEW e \in Exec, sent' = sent, T(e) \in sent, Only(T(e)) PROVE Goal(T(e))
  BY <1>a
<1>1. ASSUME NEW t \in Task, Send(t) PROVE Goal(t)
  <2>1. /\ t \in sent' /\ sent' = sent \cup {t}
        /\ UNCHANGED <<redel, runs, reports>>
    BY <1>1 DEF Send
  <2>2. CASE broker = "rabbitmq"
    <3> DEFINE n == queue[t].fresh + 1
    <3>1. queue' = [queue EXCEPT ![t].fresh = n] /\ UNCHANGED exec
      BY <1>1, <2>2 DEF Send
    <3>2. n \in Nat
      BY <1>0, Counts
    <3>3. \A u \in Task \ {t} : queue'[u] = queue[u]
      <4> HIDE DEF n
      <4> QED BY <1>0, <3>1, <3>2, Queued
    <3> QED BY <2>1, <3>1, <3>3 DEF Only
  <2>3. CASE broker # "rabbitmq"
    <3> DEFINE E == {e \in Exec : e[1] \in consumes /\ T(e) = t}
    <3>1. Starts(E) /\ queue' = queue
      BY <1>1, <2>3 DEF Send
    <3>2. E \in SUBSET Exec
      OBVIOUS
    <3>3. \A f \in Exec \ E : exec'[f] = exec[f]
      <4> HIDE DEF E
      <4> QED BY <1>0, <3>1, <3>2, Begin DEF RestTypes
    <3> QED BY <2>1, <3>1, <3>3 DEF Only
  <2> QED BY <2>2, <2>3
<1>2. ASSUME NEW e \in Exec, Deliver(e) PROVE Goal(T(e))
  <2> DEFINE n == queue[T(e)].fresh - 1
  <2>1. T(e) \in Task
    BY Parts
  <2>2. queue' = [queue EXCEPT ![T(e)].fresh = n] /\ n \in Nat /\ queue[T(e)].fresh # 0
    BY <1>0, <1>2, <2>1, Counts DEF Deliver
  <2>3. \A u \in Task \ {T(e)} : queue'[u] = queue[u]
    <3>1. queue' = [queue EXCEPT ![T(e)].fresh = n] /\ n \in Nat
      BY <2>2
    <3> HIDE DEF n
    <3> QED BY <1>0, <2>1, <3>1, Queued
  <2>4. Starts({e}) /\ {e} \in SUBSET Exec
    BY <1>2 DEF Deliver
  <2>5. \A f \in Exec \ {e} : exec'[f] = exec[f]
    BY <1>0, <2>4, Begin DEF RestTypes
  <2>6. Only(T(e))
    BY <1>2, <2>3, <2>5 DEF Deliver, Only
  <2> QED BY <1>a, <1>2, <2>1, <2>2, <2>6, Underway DEF Deliver
<1>3. ASSUME NEW e \in Exec, Redirect(e) PROVE Goal(T(e))
  <2> DEFINE n == queue[T(e)].again - 1
  <2>1. T(e) \in Task
    BY Parts
  <2>2. queue' = [queue EXCEPT ![T(e)].again = n] /\ n \in Nat /\ queue[T(e)].again # 0
    BY <1>0, <1>3, <2>1, Counts DEF Redirect
  <2>3. \A u \in Task \ {T(e)} : queue'[u] = queue[u]
    <3>1. queue' = [queue EXCEPT ![T(e)].again = n] /\ n \in Nat
      BY <2>2
    <3> HIDE DEF n
    <3> QED BY <1>0, <2>1, <3>1, Queued
  <2>4. \A f \in Exec \ {e} : exec'[f] = exec[f]
    BY <1>0, <1>3, Moved DEF Redirect
  <2>5. Only(T(e))
    BY <1>0, <1>3, <2>3, <2>4 DEF Redirect, Only, QueueTypes
  <2> QED BY <1>a, <1>3, <2>1, <2>2, <2>5, Underway DEF Redirect
<1>4. ASSUME NEW t \in Task, Redeliver(t) PROVE Goal(t)
  <2> DEFINE n == queue[t].fresh + 1
  <2>1. (queue' = [queue EXCEPT ![t].fresh = n] \/ queue' = queue) /\ n \in Nat
    BY <1>0, <1>4, Counts DEF Redeliver
  <2>2. \A u \in Task \ {t} : queue'[u] = queue[u]
    <3> HIDE DEF n
    <3> QED BY <1>0, <2>1, Queued
  <2>3. Only(t)
    BY <1>0, <1>4, <2>2 DEF Redeliver, Only, QueueTypes
  <2>4. t \in sent
    BY <1>0, <1>4, Counts, Underway DEF Redeliver
  <2> QED BY <1>4, <2>3, <2>4 DEF Redeliver
<1>5. ASSUME NEW e \in Exec, ReportRunning(e) PROVE Goal(T(e))
  <2>1. /\ \A f \in Exec \ {e} : exec'[f] = exec[f]
        /\ \A u \in Task \ {T(e)} : queue'[u] = queue[u]
    <3>1. CASE Moves(e, "began", "launch") /\ UNCHANGED queue
      BY <1>0, <3>1, Moved DEF Moves
    <3>2. CASE Fails(e)
      BY <3>2, Failing
    <3> QED BY <1>5, <3>1, <3>2 DEF ReportRunning
  <2>2. Only(T(e))
    BY <1>5, <2>1 DEF ReportRunning, Only
  <2> QED BY <1>a, <1>5, <2>2, Underway DEF ReportRunning, At
<1>6. ASSUME NEW e \in Exec, Launch(e) PROVE Goal(T(e))
  <2>1. \A f \in Exec \ {e} : exec'[f] = exec[f]
    BY <1>0, <1>6, Moved DEF Launch, Moves
  <2>2. Only(T(e))
    BY <1>0, <1>6, <2>1 DEF Launch, Only, RestTypes
  <2> QED BY <1>a, <1>6, <2>2, Underway DEF Launch, Moves, At
<1>7. ASSUME NEW e \in Exec, Exit(e) \/ Collect(e) PROVE Goal(T(e))
  <2>1. \A f \in Exec \ {e} : exec'[f] = exec[f]
    BY <1>0, <1>7 DEF Exit, Collect, ExecTypes
  <2>2. Only(T(e))
    BY <1>7, <2>1 DEF Exit, Collect, Only
  <2> QED BY <1>a, <1>7, <2>2, Underway DEF Exit, Collect, At
<1>8. ASSUME NEW e \in Exec, Report(e) PROVE Goal(T(e))
  <2>1. /\ \A f \in Exec \ {e} : exec'[f] = exec[f]
        /\ \A u \in Task \ {T(e)} : queue'[u] = queue[u] /\ reports'[u] = reports[u]
    <3>1. CASE Moves(e, "report", "ack") /\ reports' = [reports EXCEPT ![T(e)] = @ \cup {exec[e].out}] /\ UNCHANGED queue
      <4>1. \A f \in Exec \ {e} : exec'[f] = exec[f]
        BY <1>0, <3>1, Moved DEF Moves
      <4> QED BY <1>0, <3>1, <4>1 DEF RestTypes
    <3>2. CASE Fails(e) /\ UNCHANGED reports
      BY <3>2, Failing
    <3> QED BY <1>8, <3>1, <3>2 DEF Report
  <2>2. Only(T(e))
    BY <1>8, <2>1 DEF Report, Only
  <2> QED BY <1>a, <1>8, <2>2, Underway DEF Report, At
<1>9. ASSUME NEW e \in Exec, Acknowledge(e) PROVE Goal(T(e))
  <2>1. \A f \in Exec \ {e} : exec'[f] = exec[f]
    BY <1>0, <1>9 DEF Acknowledge, ExecTypes
  <2>2. Only(T(e))
    BY <1>9, <2>1 DEF Acknowledge, Only
  <2> QED BY <1>a, <1>9, <2>2, Underway DEF Acknowledge
<1>10. ASSUME NEW w \in Worker, NEW t \in Task, HandleCancel(w, t) PROVE Goal(t) \/ Still
  <2> DEFINE x == tracked[w][t]
  <2>1. CASE exec' = exec
    BY <1>10, <2>1 DEF HandleCancel, Still
  <2>2. CASE x # Nobody /\ exec' = [exec EXCEPT ![x] = [at |-> "exited", out |-> "Failed"]]
    <3>1. x \in Exec /\ T(x) = t /\ exec[x].at = "running"
      BY <1>0, <2>2, ZenonT(30) DEF MapTypes, Tracks
    <3>2. \A f \in Exec \ {x} : exec'[f] = exec[f]
      <4> HIDE DEF x
      <4> QED BY <1>0, <2>2, <3>1 DEF ExecTypes
    <3>3. Only(T(x))
      BY <1>10, <3>1, <3>2 DEF HandleCancel, Only
    <3> HIDE DEF x
    <3> QED BY <1>a, <1>10, <3>1, <3>3, Underway DEF HandleCancel
  <2> QED BY <1>10, <2>1, <2>2 DEF HandleCancel, StopRun
<1> QED BY <1>1, <1>2, <1>3, <1>4, <1>5, <1>6, <1>7, <1>8, <1>9, <1>10 DEF About, Takes, Executes

\* What was not sent leaves no trace: a step is about a task that was sent, and a
\* worker that is gone had nothing of the others.
LEMMA UnsentStep == Types /\ Unsent /\ Tracks /\ [WorkerNext]_wvars => Unsent'
<1> SUFFICES ASSUME Types, Unsent, Tracks, [WorkerNext]_wvars PROVE Unsent'
  OBVIOUS
<1>0. QueueTypes
  BY TypeParts
<1>1. ASSUME NEW t \in sent', sent' = sent \cup {t}, Only(t) PROVE Unsent'
  BY <1>1 DEF Unsent, Only
<1>2. ASSUME NEW w \in Worker, Gone(w) PROVE Unsent'
  <2>1. /\ \A t \in Task :
             /\ queue'[t].fresh = queue[t].fresh
             /\ queue'[t].again = queue[t].again +
                  Cardinality({e \in Exec : W(e) = w /\ T(e) = t /\ ~At(e, "none")})
    BY <1>0, <1>2, GoneQueue
  <2>2. sent' = sent /\ redel' = redel /\ runs' = runs
    BY <1>2 DEF Gone
  <2>3. \A e \in Exec : exec'[e].at = exec[e].at \/ exec'[e].at = "none"
    BY <1>2 DEF Gone, Free
  <2>4. ASSUME NEW t \in Task \ sent PROVE queue'[t].fresh = 0 /\ queue'[t].again = 0
    <3>1. {e \in Exec : W(e) = w /\ T(e) = t /\ ~At(e, "none")} = {}
      BY Underway DEF At
    <3>2. Cardinality({e \in Exec : W(e) = w /\ T(e) = t /\ ~At(e, "none")}) = 0
      BY <3>1, FS_EmptySet
    <3> QED BY <2>1, <3>2 DEF Unsent
  <2> QED BY <2>2, <2>3, <2>4 DEF Unsent
<1>3. CASE Still
  BY <1>3 DEF Still, Unsent
<1> QED BY <1>1, <1>2, <1>3, Cases, OneTask

----------------------------------------------------------------------------
(* Nothing is lost.                                                        *)

\* The task t has an outcome, or a copy of it will be handled.
Kept(t) ==
  reports[t] = {} => \/ queue[t].fresh + queue[t].again + redel[t] > 0
                     \/ \E e \in Exec : T(e) = t /\ exec[e].at \in Going \cup {"report"}

\* An execution under way keeps its task.
LEMMA KeptBy ==
  ASSUME NEW e \in Exec, exec'[e].at \in Going \cup {"report"}
  PROVE  Kept(T(e))'
BY DEF Kept, T

\* Queued copies keep their task.
LEMMA KeptIn ==
  ASSUME QueueTypes', NEW t \in Task,
         queue'[t].fresh > 0 \/ queue'[t].again > 0 \/ redel'[t] > 0 \/ reports'[t] # {}
  PROVE  Kept(t)'
BY DEF Kept, QueueTypes

\* Over RabbitMQ a step keeps the task it is about.
LEMMA KeptStep ==
  ASSUME Types, Types', Unsent, Tracks, Somewhere, broker = "rabbitmq", [WorkerNext]_wvars,
         NEW t \in sent'
  PROVE  Kept(t)'
<1>0. ExecTypes /\ Ended /\ MapTypes /\ QueueTypes /\ RestTypes
  BY TypeParts
<1>00. QueueTypes'
  <2>1. (Types <=> ExecTypes /\ Ended /\ MapTypes /\ QueueTypes /\ RestTypes)'
    BY TypeParts, PTL
  <2> QED BY <2>1
<1>a. t \in sent => Kept(t)
  BY Zenon DEF Somewhere, Kept
<1>b. t \in Task
  <2>1. sent' = sent \/ \E u \in Task : sent' = sent \cup {u}
    BY Cases, OneTask DEF Still, Gone
  <2> QED BY <1>0, <2>1 DEF RestTypes
<1>c. ASSUME t \in sent, queue'[t] = queue[t], redel'[t] = redel[t], reports'[t] = reports[t],
             \A f \in Exec : T(f) = t /\ exec[f].at \in Going \cup {"report"} => exec'[f].at = exec[f].at
      PROVE  Kept(t)'
  BY <1>a, <1>c DEF Kept
<1>d. ASSUME NEW u \in Task, Only(u), u # t, t \in sent PROVE Kept(t)'
  <2>1. /\ queue'[t] = queue[t] /\ redel'[t] = redel[t] /\ reports'[t] = reports[t]
        /\ \A f \in Exec : T(f) = t => exec'[f].at = exec[f].at
    BY <1>b, <1>d DEF Only
  <2> QED BY <1>c, <1>d, <2>1
<1>e. Still => Kept(t)'
  BY <1>c DEF Still
<1>1. ASSUME NEW u \in Task, Send(u), u = t PROVE Kept(t)'
  <2> DEFINE n == queue[t].fresh + 1
  <2>1. queue' = [queue EXCEPT ![t].fresh = n] /\ n \in Nat /\ n > 0
    BY <1>0, <1>1, Counts DEF Send
  <2>2. queue'[t].fresh = n
    <3> HIDE DEF n
    <3> QED BY <1>0, <1>b, <2>1, Queued
  <2> QED BY <1>00, <1>b, <2>1, <2>2, KeptIn
<1>2. ASSUME NEW e \in Exec, Deliver(e), T(e) = t PROVE Kept(t)'
  <2>1. Starts({e}) /\ {e} \in SUBSET Exec
    BY <1>2 DEF Deliver
  <2>2. \A f \in {e} : exec'[f].at = "began"
    BY <1>0, <2>1, Begin DEF RestTypes
  <2>3. exec'[e].at \in Going \cup {"report"}
    BY <2>2 DEF Going
  <2> QED BY <1>2, <2>3, KeptBy
<1>3. ASSUME NEW e \in Exec, Redirect(e), T(e) = t PROVE Kept(t)'
  <2>1. redel'[t] > 0
    BY <1>0, <1>b, <1>3 DEF Redirect, QueueTypes
  <2> QED BY <1>00, <1>b, <2>1, KeptIn
<1>4. ASSUME Redeliver(t) PROVE Kept(t)'
  <2> DEFINE n == queue[t].fresh + 1
  <2>1. (queue' = [queue EXCEPT ![t].fresh = n] \/ reports'[t] # {}) /\ n \in Nat /\ n > 0
    BY <1>0, <1>b, <1>4, Counts DEF Redeliver
  <2>2. queue'[t].fresh = n \/ reports'[t] # {}
    <3> HIDE DEF n
    <3> QED BY <1>0, <1>b, <2>1, Queued
  <2> QED BY <1>00, <1>b, <2>1, <2>2, KeptIn
<1>5. ASSUME NEW e \in Exec, Fails(e), T(e) = t PROVE Kept(t)'
  <2>1. queue'[t].again = queue[t].again + 1
    BY <1>5, Failing
  <2>2. queue'[t].again > 0
    BY <1>0, <1>b, <2>1, Counts
  <2> QED BY <1>00, <1>b, <2>2, KeptIn
<1>6. ASSUME NEW e \in Exec, ReportRunning(e) \/ Launch(e) \/ Exit(e) \/ Collect(e), T(e) = t
      PROVE  Kept(t)'
  <2>1. CASE Fails(e)
    BY <1>5, <1>6, <2>1
  <2>2. CASE ~Fails(e)
    <3>1. exec'[e].at \in {"launch", "running", "exited", "report"}
      <4>1. CASE Moves(e, "began", "launch")
        BY <1>0, <4>1, Moved DEF Moves
      <4>2. CASE Launch(e)
        BY <1>0, <4>2, Moved DEF Launch, Moves
      <4>3. CASE Exit(e) \/ Collect(e)
        BY <1>0, <4>3 DEF Exit, Collect, ExecTypes
      <4> QED BY <1>6, <2>2, <4>1, <4>2, <4>3 DEF ReportRunning
    <3> QED BY <1>6, <3>1, KeptBy DEF Going
  <2> QED BY <2>1, <2>2
<1>7. ASSUME NEW e \in Exec, Report(e), T(e) = t PROVE Kept(t)'
  <2>1. CASE Fails(e)
    BY <1>5, <1>7, <2>1
  <2>2. CASE reports' = [reports EXCEPT ![T(e)] = @ \cup {exec[e].out}]
    <3>1. reports'[t] # {}
      BY <1>0, <1>b, <1>7, <2>2 DEF RestTypes
    <3> QED BY <1>00, <1>b, <3>1, KeptIn
  <2> QED BY <1>7, <2>1, <2>2 DEF Report
<1>8. ASSUME NEW e \in Exec, Acknowledge(e), T(e) = t PROVE Kept(t)'
  <2>1. /\ t \in sent /\ queue'[t] = queue[t] /\ redel'[t] = redel[t] /\ reports'[t] = reports[t]
    BY <1>8 DEF Acknowledge
  <2>2. \A f \in Exec : T(f) = t /\ exec[f].at \in Going \cup {"report"} => exec'[f].at = exec[f].at
    BY <1>0, <1>8 DEF Acknowledge, ExecTypes, Going
  <2> QED BY <1>c, <2>1, <2>2
<1>9. ASSUME NEW w \in Worker, HandleCancel(w, t) PROVE Kept(t)'
  <2> DEFINE x == tracked[w][t]
  <2>1. CASE exec' = exec
    BY <1>e, <1>9, <2>1 DEF HandleCancel, Still
  <2>2. CASE x # Nobody /\ exec' = [exec EXCEPT ![x] = [at |-> "exited", out |-> "Failed"]]
    <3>1. x \in Exec /\ T(x) = t
      BY <1>0, <1>b, <2>2 DEF MapTypes
    <3>2. exec'[x].at = "exited"
      <4> HIDE DEF x
      <4> QED BY <1>0, <2>2, <3>1 DEF ExecTypes
    <3> HIDE DEF x
    <3> QED BY <3>1, <3>2, KeptBy DEF Going
  <2> QED BY <1>9, <2>1, <2>2 DEF HandleCancel, StopRun
<1>10. ASSUME NEW w \in Worker, Gone(w) PROVE Kept(t)'
  <2>1. sent' = sent /\ redel' = redel /\ reports' = reports
    BY <1>10 DEF Gone
  <2>2. /\ queue'[t].fresh = queue[t].fresh
        /\ queue'[t].again = queue[t].again +
             Cardinality({e \in Exec : W(e) = w /\ T(e) = t /\ ~At(e, "none")})
    BY <1>0, <1>10, <1>b, GoneQueue
  <2> DEFINE S == {e \in Exec : W(e) = w /\ T(e) = t /\ ~At(e, "none")}
  <2>3. IsFiniteSet(S) /\ Cardinality(S) \in Nat
    BY ExecFinite, FS_Subset, FS_CardinalityType
  <2>4. ASSUME NEW e \in Exec, T(e) = t, exec[e].at \in Going \cup {"report"} PROVE Kept(t)'
    <3>1. CASE W(e) = w
      <4>1. e \in S
        BY <2>4, <3>1 DEF At, Going
      <4>2. Cardinality(S) # 0
        BY <2>3, <4>1, FS_EmptySet
      <4>3. queue'[t].again > 0
        <5> HIDE DEF S
        <5>1. queue'[t].again = queue[t].again + Cardinality(S)
          BY <2>2 DEF S
        <5> QED BY <1>0, <1>b, <2>3, <4>2, <5>1, Counts
      <4> QED BY <1>00, <1>b, <4>3, KeptIn
    <3>2. CASE W(e) # w
      <4>1. exec'[e] = exec[e]
        BY <1>10, <3>2 DEF Gone
      <4> QED BY <2>4, <4>1, KeptBy
    <3> QED BY <3>1, <3>2
  <2>5. CASE queue[t].fresh + queue[t].again + redel[t] > 0
    <3>1. queue'[t].again >= queue[t].again /\ queue[t].again \in Nat /\ queue[t].fresh \in Nat /\ redel[t] \in Nat
      <4>1. queue'[t].again = queue[t].again + Cardinality(S)
        BY <2>2
      <4> HIDE DEF S
      <4> QED BY <1>0, <1>b, <2>3, <4>1, Counts
    <3>2. queue'[t].fresh = queue[t].fresh /\ redel'[t] = redel[t]
      BY <2>1, <2>2
    <3>3. queue'[t].again \in Nat
      BY <1>00, <1>b DEF QueueTypes
    <3>4. queue'[t].fresh > 0 \/ queue'[t].again > 0 \/ redel'[t] > 0
      BY <2>5, <3>1, <3>2, <3>3
    <3> QED BY <1>00, <1>b, <3>4, KeptIn
  <2>6. CASE reports[t] # {}
    BY <1>00, <1>b, <2>1, <2>6, KeptIn
  <2> QED BY <1>a, <2>1, <2>4, <2>5, <2>6 DEF Kept
<1>11. ASSUME NEW u \in Task, About(u) PROVE Kept(t)'
  <2>1. CASE u = t
    BY <1>1, <1>2, <1>3, <1>4, <1>6, <1>7, <1>8, <1>9, <1>11, <2>1 DEF About, Takes, Executes
  <2>2. CASE u # t
    BY <1>d, <1>e, <1>11, <2>2, OneTask
  <2> QED BY <2>1, <2>2
<1> QED BY <1>e, <1>10, <1>11, Cases

\* Every step keeps every task that was sent.
LEMMA SomewhereStep ==
  Types /\ Types' /\ Unsent /\ Tracks /\ Somewhere /\ [WorkerNext]_wvars => Somewhere'
<1> SUFFICES ASSUME Types, Types', Unsent, Tracks, Somewhere, [WorkerNext]_wvars, broker' = "rabbitmq",
                    NEW t \in sent'
             PROVE  Kept(t)'
  BY Zenon DEF Somewhere, Kept
<1>1. broker' = broker
  BY DEF WorkerNext, Takes, Executes, Send, Deliver, Redirect, Redeliver, ReportRunning, Launch, Exit,
         Collect, Report, Acknowledge, Subscribe, Cancel, HandleCancel, Stop, StopReturns,
         Leave, Die, Gone, wvars
<1> QED BY <1>1, KeptStep

\* What is kept is not lost.
LEMMA SomewhereFindsAll == Somewhere => NothingLost
BY DEF Somewhere, NothingLost, At, Going

----------------------------------------------------------------------------
(* What a worker knows of its executions.                                  *)

\* A step that begins no execution, and forgets no disturbance.
Begins == \E e \in Exec : exec'[e].at \in Going /\ exec[e].at \notin Going

\* Executions that begin are where nothing was.
LEMMA Fresh ==
  ASSUME Types, Unsent, NEW E \in SUBSET Exec,
         Starts(E),
         \/ \E t \in Task \ sent : \A e \in E : T(e) = t
         \/ \E e \in Exec : E = {e} /\ SlotFree(e[1])
  PROVE  \A e \in E : exec[e].at = "none"
<1>1. ASSUME NEW t \in Task \ sent, \A e \in E : T(e) = t, NEW e \in E PROVE exec[e].at = "none"
  BY <1>1 DEF Unsent
<1>2. ASSUME NEW e \in Exec, SlotFree(e[1]) PROVE exec[e].at = "none"
  <2>1. T(e) \in Task /\ e = <<e[1], T(e)>>
    BY Parts DEF T
  <2> QED BY <1>2, <2>1, Zenon DEF SlotFree, At
<1> QED BY <1>1, <1>2

\* An invariant is kept by executions that begin on a slot that is free.
LEMMA BeginKeeps ==
  ASSUME Types, Unsent, Tracks, Alone, StopSeesRuns, DirectoryKept, NEW E \in SUBSET Exec,
         Starts(E), \A e \in E : exec[e].at = "none",
         UNCHANGED <<runtime, tracked, tempdir, torn>>
  PROVE  Tracks' /\ Alone' /\ StopSeesRuns' /\ DirectoryKept'
<1>0. ExecTypes /\ MapTypes /\ RestTypes
  BY TypeParts
<1>1. /\ \A f \in Exec \ E : exec'[f] = exec[f]
      /\ \A f \in E : exec'[f].at = "began"
      /\ \A w \in Worker : active[w] \subseteq active'[w]
      /\ \A f \in E : T(f) \in active'[W(f)]
      /\ disturbed \subseteq disturbed'
      /\ \A f \in E, g \in Exec :
           g # f /\ W(g) = W(f) /\ T(g) = T(f) /\ (g \in E \/ exec[g].at # "none")
           => <<W(f), T(f)>> \in disturbed'
  BY <1>0, Begin DEF RestTypes
<1>2. Tracks'
  <2> SUFFICES ASSUME NEW w \in Worker, NEW t \in Task
               PROVE  /\ tracked[w][t] # Nobody => exec'[tracked[w][t]].at = "running"
                      /\ tempdir[w][t] # Nobody => runtime = "shell"
                      /\ tempdir[w][t] # Nobody /\ <<w, t>> \notin disturbed'
                           => exec'[tempdir[w][t]].at \in {"running", "exited"}
    BY DEF Tracks
  <2>1. /\ tracked[w][t] # Nobody => tracked[w][t] \in Exec
        /\ tempdir[w][t] # Nobody => tempdir[w][t] \in Exec
    BY <1>0 DEF MapTypes
  <2> QED BY <1>1, <2>1 DEF Tracks
<1>3. Alone'
  <2> SUFFICES ASSUME NEW e \in Exec, NEW f \in Exec, e # f, W(e) = W(f), T(e) = T(f),
                      exec'[e].at \in Going, exec'[f].at \in Going
               PROVE  <<W(e), T(e)>> \in disturbed'
    BY Zenon DEF Alone, W, T
  <2>1. CASE e \notin E /\ f \notin E
    BY <1>1, <2>1 DEF Alone
  <2>2. CASE e \in E
    BY <1>1, <2>2 DEF Going
  <2>3. CASE f \in E
    BY <1>1, <2>3 DEF Going
  <2> QED BY <2>1, <2>2, <2>3
<1>4. StopSeesRuns'
  <2> SUFFICES ASSUME NEW e \in Exec, exec'[e].at \in Going, <<W(e), T(e)>> \notin disturbed'
               PROVE  T(e) \in active'[W(e)]
    BY Zenon DEF StopSeesRuns, Going, W, T
  <2>1. W(e) \in Worker
    BY Parts
  <2> QED BY <1>1, <2>1 DEF StopSeesRuns, Going
<1>5. DirectoryKept'
  BY <1>1 DEF DirectoryKept, W, T
<1> QED BY <1>2, <1>3, <1>4, <1>5

\* Where no execution begins, and the worker forgets nothing, it still knows what it runs.
LEMMA NoneBegins ==
  ASSUME Types, Alone, StopSeesRuns, ~Begins, disturbed \subseteq disturbed'
  PROVE  /\ Alone'
         /\ (\A e \in Exec : exec'[e].at \in Going /\ <<W(e), T(e)>> \notin disturbed'
               => active[W(e)] \subseteq active'[W(e)]) => StopSeesRuns'
<1>1. Alone'
  <2> SUFFICES ASSUME NEW e \in Exec, NEW f \in Exec, e # f, W(e) = W(f), T(e) = T(f),
                      exec'[e].at \in Going, exec'[f].at \in Going
               PROVE  <<W(e), T(e)>> \in disturbed'
    BY Zenon DEF Alone, W, T
  <2> QED BY DEF Alone, Begins
<1>2. ASSUME \A e \in Exec : exec'[e].at \in Going /\ <<W(e), T(e)>> \notin disturbed'
               => active[W(e)] \subseteq active'[W(e)]
      PROVE  StopSeesRuns'
  <2> SUFFICES ASSUME NEW e \in Exec, exec'[e].at \in Going, <<W(e), T(e)>> \notin disturbed'
               PROVE  T(e) \in active'[W(e)]
    BY Zenon DEF StopSeesRuns, Going, W, T
  <2>1. exec[e].at \in Going /\ <<W(e), T(e)>> \notin disturbed
    BY DEF Begins
  <2>2. T(e) \in active[W(e)]
    BY <2>1 DEF StopSeesRuns, Going
  <2> QED BY <1>2, <2>2
<1> QED BY <1>1, <1>2

\* The invariants of this part.
Known == Tracks /\ Alone /\ StopSeesRuns /\ DirectoryKept

\* An execution whose directory is not known moves on and touches nothing of the runtime.
LEMMA Passes ==
  ASSUME Types, Known, NEW e \in Exec,
         \A f \in Exec \ {e} : exec'[f] = exec[f],
         exec[e].at \notin {"running", "exited"},
         exec'[e].at \in Going => exec[e].at \in Going,
         UNCHANGED <<runtime, tracked, tempdir, torn, active, disturbed>>
  PROVE  Known'
<1>0. MapTypes
  BY TypeParts
<1>1. Alone' /\ StopSeesRuns'
  <2>1. ~Begins /\ disturbed \subseteq disturbed'
    BY DEF Begins
  <2>2. \A f \in Exec : active[W(f)] \subseteq active'[W(f)]
    OBVIOUS
  <2> QED BY <2>1, <2>2, NoneBegins DEF Known
<1>2. Tracks'
  <2> SUFFICES ASSUME NEW w \in Worker, NEW t \in Task
               PROVE  /\ tracked[w][t] # Nobody => exec'[tracked[w][t]].at = "running"
                      /\ tempdir[w][t] # Nobody => runtime = "shell"
                      /\ tempdir[w][t] # Nobody /\ <<w, t>> \notin disturbed
                           => exec'[tempdir[w][t]].at \in {"running", "exited"}
    BY DEF Tracks
  <2>1. /\ tracked[w][t] # Nobody => tracked[w][t] \in Exec
        /\ tempdir[w][t] # Nobody => tempdir[w][t] \in Exec
    BY <1>0 DEF MapTypes
  <2> QED BY <2>1 DEF Known, Tracks
<1>3. DirectoryKept'
  BY DEF Known, DirectoryKept, W, T
<1> QED BY <1>1, <1>2, <1>3 DEF Known

\* Every step keeps what the workers know.
LEMMA KnownStep == Types /\ Unsent /\ Known /\ [WorkerNext]_wvars => Known'
<1> SUFFICES ASSUME Types, Unsent, Known, [WorkerNext]_wvars PROVE Known'
  OBVIOUS
<1>0. ExecTypes /\ Ended /\ MapTypes /\ QueueTypes /\ RestTypes
  BY TypeParts
<1>00. Tracks /\ Alone /\ StopSeesRuns /\ DirectoryKept
  BY DEF Known
<1>a. ASSUME UNCHANGED <<runtime, exec, tracked, tempdir, torn, active, disturbed>> PROVE Known'
  BY <1>00, <1>a DEF Known, Tracks, Alone, StopSeesRuns, DirectoryKept, W, T
<1>1. ASSUME NEW t \in Task, Send(t) PROVE Known'
  <2>1. CASE broker = "rabbitmq"
    BY <1>1, <1>a, <2>1 DEF Send
  <2>2. CASE broker # "rabbitmq"
    <3> DEFINE E == {e \in Exec : e[1] \in consumes /\ T(e) = t}
    <3>1. Starts(E)
      BY <1>1, <2>2 DEF Send
    <3>2. E \in SUBSET Exec /\ t \in Task \ sent /\ \A e \in E : T(e) = t
      BY <1>1 DEF Send
    <3>3. UNCHANGED <<runtime, tracked, tempdir, torn>>
      BY <1>1 DEF Send
    <3> HIDE DEF E
    <3>4. \A e \in E : exec[e].at = "none"
      BY <3>1, <3>2, Fresh
    <3> QED BY <1>00, <3>1, <3>2, <3>3, <3>4, BeginKeeps DEF Known
  <2> QED BY <2>1, <2>2
<1>2. ASSUME NEW e \in Exec, Deliver(e) PROVE Known'
  <2>1. Starts({e}) /\ {e} \in SUBSET Exec /\ SlotFree(e[1])
    BY <1>2 DEF Deliver, Consumes
  <2>2. UNCHANGED <<runtime, tracked, tempdir, torn>>
    BY <1>2 DEF Deliver
  <2>3. \A f \in {e} : exec[f].at = "none"
    BY <2>1, Fresh
  <2> QED BY <1>00, <2>1, <2>2, <2>3, BeginKeeps DEF Known
<1>3. ASSUME NEW e \in Exec, Redirect(e) PROVE Known'
  <2>1. /\ \A f \in Exec \ {e} : exec'[f] = exec[f]
        /\ exec'[e].at = "redirected"
    BY <1>0, <1>3, Moved DEF Redirect
  <2>2. exec[e].at = "none"
    <3>1. SlotFree(e[1]) /\ T(e) \in Task /\ e = <<e[1], T(e)>>
      BY <1>3, Parts DEF Redirect, Consumes, T
    <3> QED BY <3>1, Zenon DEF SlotFree, At
  <2> QED BY <1>3, <2>1, <2>2, Passes DEF Redirect, Going
<1>4. ASSUME NEW t \in Task, Redeliver(t) PROVE Known'
  BY <1>4, <1>a DEF Redeliver
<1>5. ASSUME NEW e \in Exec, ReportRunning(e) PROVE Known'
  <2>1. /\ \A f \in Exec \ {e} : exec'[f] = exec[f]
        /\ exec[e].at = "began"
    <3>1. CASE Moves(e, "began", "launch")
      BY <1>0, <3>1, Moved DEF Moves, At
    <3>2. CASE Fails(e)
      BY <1>5, <3>2, Failing DEF ReportRunning, At
    <3> QED BY <1>5, <3>1, <3>2 DEF ReportRunning
  <2>2. UNCHANGED <<runtime, tracked, tempdir, torn, active, disturbed>>
    BY <1>5 DEF ReportRunning
  <2> QED BY <2>1, <2>2, Passes DEF Going
<1>6. ASSUME NEW e \in Exec, Report(e) PROVE Known'
  <2>1. /\ \A f \in Exec \ {e} : exec'[f] = exec[f]
        /\ exec[e].at = "report" /\ exec'[e].at \in {"ack", "none"}
    <3>1. CASE Moves(e, "report", "ack")
      BY <1>0, <3>1, Moved DEF Moves, At
    <3>2. CASE Fails(e)
      BY <1>6, <3>2, Failing DEF Report, At
    <3> QED BY <1>6, <3>1, <3>2 DEF Report
  <2>2. UNCHANGED <<runtime, tracked, tempdir, torn, active, disturbed>>
    BY <1>6 DEF Report
  <2> QED BY <2>1, <2>2, Passes DEF Going
<1>7. ASSUME NEW e \in Exec, Acknowledge(e) PROVE Known'
  <2>1. /\ \A f \in Exec \ {e} : exec'[f] = exec[f]
        /\ exec'[e].at = "none" /\ exec[e].at \in {"ack", "redirected"}
    BY <1>0, <1>7, Gets DEF Acknowledge, Free, Place
  <2>2. UNCHANGED <<runtime, tracked, tempdir, torn, active, disturbed>>
    BY <1>7 DEF Acknowledge
  <2> QED BY <2>1, <2>2, Passes DEF Going
<1>8. ASSUME NEW e \in Exec, Launch(e) PROVE Known'
  <2>1. /\ \A f \in Exec \ {e} : exec'[f] = exec[f]
        /\ exec[e].at = "launch" /\ exec'[e].at = "running"
    BY <1>0, <1>8, Moved DEF Launch, Moves, At
  <2>2. UNCHANGED <<runtime, torn, active, disturbed>>
    BY <1>8 DEF Launch
  <2>3. Alone' /\ StopSeesRuns'
    <3>1. ~Begins /\ disturbed \subseteq disturbed'
      BY <2>1, <2>2 DEF Begins, Going
    <3>2. \A f \in Exec : active[W(f)] \subseteq active'[W(f)]
      BY <2>2
    <3> QED BY <1>00, <3>1, <3>2, NoneBegins
  <2>4. Tracks'
    <3> SUFFICES ASSUME NEW w \in Worker, NEW t \in Task
                 PROVE  /\ tracked'[w][t] # Nobody => exec'[tracked'[w][t]].at = "running"
                        /\ tempdir'[w][t] # Nobody => runtime = "shell"
                        /\ tempdir'[w][t] # Nobody /\ <<w, t>> \notin disturbed
                             => exec'[tempdir'[w][t]].at \in {"running", "exited"}
      BY <2>2 DEF Tracks
    <3>1. /\ tracked[w][t] # Nobody => tracked[w][t] \in Exec
          /\ tempdir[w][t] # Nobody => tempdir[w][t] \in Exec
      BY <1>0 DEF MapTypes
    <3>2. /\ tracked'[w][t] = tracked[w][t] \/ tracked'[w][t] = e
          /\ tempdir'[w][t] = tempdir[w][t] \/ (tempdir'[w][t] = e /\ runtime = "shell")
      <4>1. W(e) \in Worker /\ T(e) \in Task
        BY Parts
      <4> QED BY <1>0, <1>8, <4>1 DEF Launch, MapTypes
    <3> QED BY <1>00, <2>1, <3>1, <3>2 DEF Tracks
  <2>5. DirectoryKept'
    BY <1>00, <2>2 DEF DirectoryKept, W, T
  <2> QED BY <2>3, <2>4, <2>5 DEF Known
<1>9. ASSUME NEW e \in Exec, Exit(e) PROVE Known'
  <2>0. W(e) \in Worker /\ T(e) \in Task
    BY Parts
  <2>1. /\ \A f \in Exec \ {e} : exec'[f] = exec[f]
        /\ exec[e].at = "running" /\ exec'[e].at = "exited"
    BY <1>0, <1>9 DEF Exit, At, ExecTypes
  <2>2. UNCHANGED <<runtime, tempdir, torn, active, disturbed>>
    BY <1>9 DEF Exit
  <2>3. Alone' /\ StopSeesRuns'
    <3>1. ~Begins /\ disturbed \subseteq disturbed'
      BY <2>1, <2>2 DEF Begins, Going
    <3>2. \A f \in Exec : active[W(f)] \subseteq active'[W(f)]
      BY <2>2
    <3> QED BY <1>00, <3>1, <3>2, NoneBegins
  <2>4. Tracks'
    <3> SUFFICES ASSUME NEW w \in Worker, NEW t \in Task
                 PROVE  /\ tracked'[w][t] # Nobody => exec'[tracked'[w][t]].at = "running"
                        /\ tempdir[w][t] # Nobody => runtime = "shell"
                        /\ tempdir[w][t] # Nobody /\ <<w, t>> \notin disturbed
                             => exec'[tempdir[w][t]].at \in {"running", "exited"}
      BY <2>2 DEF Tracks
    <3>1. /\ tracked[w][t] # Nobody => tracked[w][t] \in Exec /\ W(tracked[w][t]) = w /\ T(tracked[w][t]) = t
          /\ tempdir[w][t] # Nobody => tempdir[w][t] \in Exec
      BY <1>0 DEF MapTypes
    <3>2. /\ w = W(e) /\ t = T(e) => tracked'[w][t] = Nobody
          /\ w # W(e) \/ t # T(e) => tracked'[w][t] = tracked[w][t]
      <4>1. tracked' = [tracked EXCEPT ![W(e)][T(e)] = Nobody]
        BY <1>9 DEF Exit
      <4>2. /\ tracked'[W(e)][T(e)] = Nobody
            /\ \A v \in Worker, u \in Task : v # W(e) \/ u # T(e) => tracked'[v][u] = tracked[v][u]
        BY <1>0, <2>0, <4>1, Untracked, ZenonT(30)
      <4> QED BY <4>2
    <3> QED BY <1>00, <2>1, <3>1, <3>2 DEF Tracks
  <2>5. DirectoryKept'
    BY <1>00, <2>2 DEF DirectoryKept, W, T
  <2> QED BY <2>3, <2>4, <2>5 DEF Known
<1>10. ASSUME NEW e \in Exec, Collect(e) PROVE Known'
  <2>0. W(e) \in Worker /\ T(e) \in Task
    BY Parts
  <2>1. /\ \A f \in Exec \ {e} : exec'[f] = exec[f]
        /\ exec[e].at = "exited" /\ exec'[e].at = "report"
    BY <1>0, <1>10 DEF Collect, At, ExecTypes
  <2>2. UNCHANGED <<runtime, tracked, disturbed>>
    BY <1>10 DEF Collect
  <2>3. Alone' /\ StopSeesRuns'
    <3>1. ~Begins /\ disturbed \subseteq disturbed'
      BY <2>1, <2>2 DEF Begins, Going
    <3>2. /\ \A w \in Worker \ {W(e)} : active'[w] = active[w]
          /\ active'[W(e)] = active[W(e)] \ {T(e)}
      BY <1>0, <1>10, <2>0 DEF Collect, Leaves, RestTypes
    <3>3. StopSeesRuns'
      <4> SUFFICES ASSUME NEW f \in Exec, exec'[f].at \in Going, <<W(f), T(f)>> \notin disturbed
                   PROVE  T(f) \in active'[W(f)]
        BY <2>2, Zenon DEF StopSeesRuns, Going, W, T
      <4>1. f # e /\ exec[f].at \in Going /\ W(f) \in Worker
        BY <2>1, Parts DEF Going
      <4>2. T(f) \in active[W(f)]
        BY <1>00, <4>1 DEF StopSeesRuns, Going
      <4>3. W(f) # W(e) \/ T(f) # T(e)
        BY <1>00, <2>1, <4>1 DEF Alone, Going
      <4> QED BY <3>2, <4>1, <4>2, <4>3
    <3> QED BY <1>00, <3>1, <3>3, NoneBegins
  <2>4. CASE Cleanup(W(e), T(e), e) /\ e \notin torn
    <3>1. /\ tempdir'[W(e)][T(e)] = Nobody
          /\ \A v \in Worker, u \in Task : v # W(e) \/ u # T(e) => tempdir'[v][u] = tempdir[v][u]
          /\ torn' \subseteq torn \cup {tempdir[W(e)][T(e)]}
          /\ torn' = torn \cup ({tempdir[W(e)][T(e)]} \ {Nobody, e})
      <4>1. /\ tempdir'[W(e)][T(e)] = Nobody
            /\ \A v \in Worker, u \in Task : v # W(e) \/ u # T(e) => tempdir'[v][u] = tempdir[v][u]
            /\ torn' \subseteq torn \cup {tempdir[W(e)][T(e)]}
        BY <1>0, <2>0, <2>4, Cleaning, Zenon
      <4>2. torn' = torn \cup ({tempdir[W(e)][T(e)]} \ {Nobody, e})
        BY <2>4 DEF Cleanup
      <4> QED BY <4>1, <4>2
    <3>2. Tracks'
      <4> SUFFICES ASSUME NEW w \in Worker, NEW t \in Task
                   PROVE  /\ tracked[w][t] # Nobody => exec'[tracked[w][t]].at = "running"
                          /\ tempdir'[w][t] # Nobody => runtime = "shell"
                          /\ tempdir'[w][t] # Nobody /\ <<w, t>> \notin disturbed
                               => exec'[tempdir'[w][t]].at \in {"running", "exited"}
        BY <2>2 DEF Tracks
      <4>1. /\ tracked[w][t] # Nobody => tracked[w][t] \in Exec
            /\ tempdir[w][t] # Nobody => tempdir[w][t] \in Exec /\ W(tempdir[w][t]) = w /\ T(tempdir[w][t]) = t
        BY <1>0 DEF MapTypes
      <4> QED BY <1>00, <2>1, <3>1, <4>1 DEF Tracks
    <3>3. DirectoryKept'
      <4> DEFINE x == tempdir[W(e)][T(e)]
      <4> SUFFICES ASSUME NEW f \in torn' PROVE <<W(f), T(f)>> \in disturbed
        BY <2>2, Zenon DEF DirectoryKept, W, T
      <4>1. CASE f \in torn
        BY <1>00, <4>1 DEF DirectoryKept
      <4>2. CASE f = x /\ f # Nobody /\ f # e
        <5>1. f \in Exec /\ W(f) = W(e) /\ T(f) = T(e)
          BY <1>0, <2>0, <4>2 DEF MapTypes
        <5>2. <<W(f), T(f)>> \in disturbed \/ exec[f].at \in {"running", "exited"}
          BY <1>00, <2>0, <4>2, <5>1 DEF Tracks
        <5> QED BY <1>00, <2>1, <4>2, <5>1, <5>2 DEF Alone, Going
      <4> QED BY <3>1, <4>1, <4>2
    <3> QED BY <2>3, <3>2, <3>3 DEF Known
  <2>5. CASE torn' = torn \ {e} /\ UNCHANGED tempdir /\ (runtime = "shell" => e \in torn)
    <3>1. Tracks'
      <4> SUFFICES ASSUME NEW w \in Worker, NEW t \in Task
                   PROVE  /\ tracked[w][t] # Nobody => exec'[tracked[w][t]].at = "running"
                          /\ tempdir[w][t] # Nobody => runtime = "shell"
                          /\ tempdir[w][t] # Nobody /\ <<w, t>> \notin disturbed
                               => exec'[tempdir[w][t]].at \in {"running", "exited"}
        BY <2>2, <2>5 DEF Tracks
      <4>1. /\ tracked[w][t] # Nobody => tracked[w][t] \in Exec
            /\ tempdir[w][t] # Nobody => tempdir[w][t] \in Exec /\ W(tempdir[w][t]) = w /\ T(tempdir[w][t]) = t
        BY <1>0 DEF MapTypes
      <4>2. runtime = "shell" => <<W(e), T(e)>> \in disturbed
        BY <1>00, <2>5 DEF DirectoryKept
      <4> QED BY <1>00, <2>1, <4>1, <4>2 DEF Tracks
    <3>2. DirectoryKept'
      BY <1>00, <2>2, <2>5 DEF DirectoryKept, W, T
    <3> QED BY <2>3, <3>1, <3>2 DEF Known
  <2> QED BY <1>10, <2>4, <2>5 DEF Collect
<1>11. ASSUME NEW w \in Worker, NEW t \in Task, HandleCancel(w, t) PROVE Known'
  <2>1. /\ UNCHANGED runtime
        /\ disturbed' = disturbed \cup {<<w, t>>}
        /\ \A v \in Worker \ {w} : active'[v] = active[v]
        /\ active'[w] = active[w] \ {t}
    BY <1>0, <1>11 DEF HandleCancel, RestTypes
  <2>2. /\ \A f \in Exec : exec'[f] = exec[f] \/
             (exec[f].at = "running" /\ exec'[f].at = "exited" /\ W(f) = w /\ T(f) = t)
        /\ \A f \in Exec : exec'[f] # exec[f] => tracked'[w][t] = Nobody
    <3> DEFINE x == tracked[w][t]
    <3>1. CASE exec' = exec
      BY <3>1
    <3>2. CASE x # Nobody /\ exec' = [exec EXCEPT ![x] = [at |-> "exited", out |-> "Failed"]]
               /\ tracked' = [tracked EXCEPT ![w][t] = Nobody]
      <4>1. x \in Exec /\ W(x) = w /\ T(x) = t /\ exec[x].at = "running"
        BY <1>0, <1>00, <3>2, ZenonT(30) DEF MapTypes, Tracks
      <4>2. tracked'[w][t] = Nobody
        BY <1>0, <3>2, Untracked
      <4>3. (\A f \in Exec \ {x} : exec'[f] = exec[f]) /\ exec'[x].at = "exited"
        <5> HIDE DEF x
        <5> QED BY <1>0, <3>2, <4>1 DEF ExecTypes
      <4> HIDE DEF x
      <4> QED BY <4>1, <4>2, <4>3
    <3> QED BY <1>11, <3>1, <3>2 DEF HandleCancel, StopRun
  <2>3. /\ \A v \in Worker, u \in Task : v # w \/ u # t =>
             tracked'[v][u] = tracked[v][u] /\ tempdir'[v][u] = tempdir[v][u]
        /\ tracked'[w][t] \in {tracked[w][t], Nobody}
        /\ tempdir'[w][t] \in {tempdir[w][t], Nobody}
        /\ torn' \subseteq torn \cup {tempdir[w][t]}
        /\ Nobody \in torn' => Nobody \in torn
    <3>1. CASE UNCHANGED <<tracked, tempdir, torn>>
      BY <3>1
    <3>2. CASE tracked' = [tracked EXCEPT ![w][t] = Nobody] /\ UNCHANGED <<tempdir, torn>>
      BY <1>0, <3>2, Untracked
    <3>3. CASE tracked' = [tracked EXCEPT ![w][t] = Nobody] /\ Cleanup(w, t, Nobody)
      <4>1. /\ tempdir'[w][t] = Nobody
            /\ \A v \in Worker, u \in Task : v # w \/ u # t => tempdir'[v][u] = tempdir[v][u]
            /\ torn' \subseteq torn \cup {tempdir[w][t]}
        BY <1>0, <3>3, Cleaning
      <4>2. Nobody \in torn' => Nobody \in torn
        BY <3>3 DEF Cleanup
      <4> QED BY <1>0, <3>3, <4>1, <4>2, Untracked
    <3> QED BY <1>11, <3>1, <3>2, <3>3 DEF HandleCancel, StopRun
  <2>4. Alone' /\ StopSeesRuns'
    <3>1. ~Begins /\ disturbed \subseteq disturbed'
      BY <2>1, <2>2 DEF Begins, Going
    <3>2. StopSeesRuns'
      <4> SUFFICES ASSUME NEW f \in Exec, exec'[f].at \in Going, <<W(f), T(f)>> \notin disturbed'
                   PROVE  T(f) \in active'[W(f)]
        BY Zenon DEF StopSeesRuns, Going, W, T
      <4>1. exec[f].at \in Going /\ W(f) \in Worker /\ T(f) \in Task
        BY <2>2, Parts DEF Going
      <4>2. T(f) \in active[W(f)]
        BY <1>00, <2>1, <4>1 DEF StopSeesRuns, Going
      <4>3. W(f) # w \/ T(f) # t
        BY <2>1
      <4> QED BY <2>1, <4>1, <4>2, <4>3
    <3> QED BY <1>00, <3>1, <3>2, NoneBegins
  <2>5. Tracks'
    <3> SUFFICES ASSUME NEW v \in Worker, NEW u \in Task
                 PROVE  /\ tracked'[v][u] # Nobody => exec'[tracked'[v][u]].at = "running"
                        /\ tempdir'[v][u] # Nobody => runtime = "shell"
                        /\ tempdir'[v][u] # Nobody /\ <<v, u>> \notin disturbed'
                             => exec'[tempdir'[v][u]].at \in {"running", "exited"}
      BY <2>1 DEF Tracks
    <3>1. /\ tracked[v][u] # Nobody => tracked[v][u] \in Exec /\ W(tracked[v][u]) = v /\ T(tracked[v][u]) = u
          /\ tempdir[v][u] # Nobody => tempdir[v][u] \in Exec
      BY <1>0 DEF MapTypes
    <3>2. /\ tracked'[v][u] \in {tracked[v][u], Nobody}
          /\ tempdir'[v][u] \in {tempdir[v][u], Nobody}
      BY <2>3
    <3> QED BY <1>00, <2>1, <2>2, <3>1, <3>2 DEF Tracks
  <2>6. DirectoryKept'
    <3> SUFFICES ASSUME NEW f \in torn' PROVE <<W(f), T(f)>> \in disturbed'
      BY Zenon DEF DirectoryKept, W, T
    <3>1. CASE f \in torn
      BY <1>00, <2>1, <3>1 DEF DirectoryKept
    <3>2. CASE f = tempdir[w][t] /\ f # Nobody
      BY <1>0, <2>1, <3>2 DEF MapTypes
    <3> QED BY <2>3, <3>1, <3>2
  <2> QED BY <2>4, <2>5, <2>6 DEF Known
<1>12. ASSUME NEW w \in Worker, Gone(w) PROVE Known'
  <2>1. /\ \A f \in Exec : W(f) = w => exec'[f].at = "none"
        /\ \A f \in Exec : W(f) # w => exec'[f] = exec[f]
        /\ \A v \in Worker \ {w} : active'[v] = active[v] /\ tracked'[v] = tracked[v] /\ tempdir'[v] = tempdir[v]
        /\ \A t \in Task : tracked'[w][t] = Nobody /\ tempdir'[w][t] = Nobody
        /\ torn' \subseteq torn
        /\ UNCHANGED <<runtime, disturbed>>
    BY <1>0, <1>12 DEF Gone, Free, RestTypes, MapTypes
  <2>2. Alone' /\ StopSeesRuns'
    <3>1. ~Begins /\ disturbed \subseteq disturbed'
      BY <2>1 DEF Begins, Going
    <3>2. \A f \in Exec : exec'[f].at \in Going => active[W(f)] \subseteq active'[W(f)]
      BY <2>1, Parts DEF Going
    <3> QED BY <1>00, <3>1, <3>2, NoneBegins
  <2>3. Tracks'
    <3> SUFFICES ASSUME NEW v \in Worker, NEW u \in Task
                 PROVE  /\ tracked'[v][u] # Nobody => exec'[tracked'[v][u]].at = "running"
                        /\ tempdir'[v][u] # Nobody => runtime = "shell"
                        /\ tempdir'[v][u] # Nobody /\ <<v, u>> \notin disturbed
                             => exec'[tempdir'[v][u]].at \in {"running", "exited"}
      BY <2>1, ZenonT(30) DEF Tracks
    <3>1. /\ tracked[v][u] # Nobody => tracked[v][u] \in Exec /\ W(tracked[v][u]) = v
          /\ tempdir[v][u] # Nobody => tempdir[v][u] \in Exec /\ W(tempdir[v][u]) = v
      BY <1>0 DEF MapTypes
    <3> QED BY <1>00, <2>1, <3>1 DEF Tracks
  <2>4. DirectoryKept'
    BY <1>00, <2>1 DEF DirectoryKept, W, T
  <2> QED BY <2>2, <2>3, <2>4 DEF Known
<1>13. ASSUME NEW s \in Slot, Subscribe(s) PROVE Known'
  BY <1>13, <1>a DEF Subscribe
<1>14. ASSUME NEW w \in Worker, NEW t \in Task, Cancel(w, t) PROVE Known'
  BY <1>14, <1>a DEF Cancel
<1>15. ASSUME NEW w \in Worker, Stop(w) \/ StopReturns(w) PROVE Known'
  BY <1>15, <1>a DEF Stop, StopReturns
<1>16. CASE UNCHANGED wvars
  BY <1>16, <1>a DEF wvars
<1> QED BY <1>1, <1>2, <1>3, <1>4, <1>5, <1>6, <1>7, <1>8, <1>9, <1>10, <1>11, <1>12, <1>13, <1>14,
           <1>15, <1>16 DEF WorkerNext, Takes, Executes, Die, Leave

----------------------------------------------------------------------------
(* Powers of two, from the number of subsets.                              *)

\* There are twice as many sets of one number more.
LEMMA Doubles ==
  ASSUME NEW n \in Nat
  PROVE  2 ^ n \in Nat /\ 2 ^ n >= 1 /\ 2 ^ (n + 1) = 2 * (2 ^ n)
<1> DEFINE U == SUBSET (1 .. n)
           V == {X \cup {n + 1} : X \in U}
<1>1. IsFiniteSet(U) /\ Cardinality(U) = 2 ^ n
  <2>1. IsFiniteSet(1 .. n) /\ Cardinality(1 .. n) = n
    BY FS_Interval
  <2> QED BY <2>1, FS_SUBSET
<1>2. IsFiniteSet(SUBSET (1 .. (n + 1))) /\ Cardinality(SUBSET (1 .. (n + 1))) = 2 ^ (n + 1)
  <2>1. IsFiniteSet(1 .. (n + 1)) /\ Cardinality(1 .. (n + 1)) = n + 1
    BY FS_Interval
  <2> QED BY <2>1, FS_SUBSET
<1>3. Cardinality(U) \in Nat /\ Cardinality(U) >= 1
  <2>1. Cardinality(U) \in Nat
    BY <1>1, FS_CardinalityType
  <2>2. {} \in U
    OBVIOUS
  <2>3. Cardinality(U) # 0
    BY <1>1, <2>2, FS_EmptySet
  <2> QED BY <2>1, <2>3
<1>4. IsFiniteSet(V) /\ Cardinality(V) = Cardinality(U)
  <2> DEFINE f == [X \in U |-> X \cup {n + 1}]
  <2>1. \A X \in U : n + 1 \notin X
    OBVIOUS
  <2>2. \A X, Y \in U : X \cup {n + 1} = Y \cup {n + 1} => X = Y
    BY <2>1
  <2>3. f \in Bijection(U, V)
    <3>1. f \in [U -> V]
      OBVIOUS
    <3>2. \A X, Y \in U : f[X] = f[Y] => X = Y
      BY <2>2
    <3>3. \A Y \in V : \E X \in U : f[X] = Y
      OBVIOUS
    <3> QED BY <3>1, <3>2, <3>3, Fun_IsBij
  <2> QED BY <1>1, <2>3, FS_Bijection DEF ExistsBijection
<1>5. SUBSET (1 .. (n + 1)) = U \cup V /\ U \cap V = {}
  <2>1. ASSUME NEW X \in SUBSET (1 .. (n + 1)) PROVE X \in U \cup V
    <3>1. X \ {n + 1} \in U
      BY <2>1
    <3>2. CASE n + 1 \in X
      <4>1. X = (X \ {n + 1}) \cup {n + 1}
        BY <3>2
      <4> QED BY <3>1, <4>1, Zenon
    <3>3. CASE n + 1 \notin X
      <4>1. X = X \ {n + 1}
        BY <3>3
      <4> QED BY <3>1, <4>1, Zenon
    <3> QED BY <3>2, <3>3
  <2>2. ASSUME NEW X \in U PROVE X \in SUBSET (1 .. (n + 1)) /\ X \cup {n + 1} \in SUBSET (1 .. (n + 1))
                                 /\ n + 1 \notin X
    OBVIOUS
  <2>3. U \cup V \subseteq SUBSET (1 .. (n + 1)) /\ U \cap V = {}
    <3>1. \A Y \in V : \E X \in U : Y = X \cup {n + 1}
      BY Zenon
    <3> HIDE DEF U, V
    <3> QED BY <2>2, <3>1
  <2> QED BY <2>1, <2>3
<1> HIDE DEF U, V
<1>6. Cardinality(U \cup V) = Cardinality(U) + Cardinality(V) - Cardinality({})
  <2>1. U \cap V = {}
    BY <1>5
  <2>2. Cardinality(U \cup V) = Cardinality(U) + Cardinality(V) - Cardinality(U \cap V)
    BY <1>1, <1>4, FS_Union
  <2> QED BY <2>1, <2>2
<1>7. 2 ^ (n + 1) = Cardinality(U) + Cardinality(U)
  <2>1. Cardinality(U \cup V) = 2 ^ (n + 1)
    BY <1>2, <1>5
  <2> QED BY <1>3, <1>4, <1>6, <2>1, FS_EmptySet
<1> QED BY <1>1, <1>3, <1>7

\* More halts leave room for at least as many runs.
LEMMA Grows ==
  ASSUME NEW m \in Nat, NEW n \in Nat, m <= n
  PROVE  2 ^ m <= 2 ^ n
<1>1. IsFiniteSet(1 .. m) /\ Cardinality(1 .. m) = m
  BY FS_Interval
<1>2. IsFiniteSet(1 .. n) /\ Cardinality(1 .. n) = n
  BY FS_Interval
<1>3. /\ IsFiniteSet(SUBSET (1 .. n)) /\ Cardinality(SUBSET (1 .. n)) = 2 ^ n
      /\ Cardinality(SUBSET (1 .. m)) = 2 ^ m
  BY <1>1, <1>2, FS_SUBSET
<1>4. SUBSET (1 .. m) \in SUBSET (SUBSET (1 .. n))
  OBVIOUS
<1>5. Cardinality(SUBSET (1 .. m)) <= Cardinality(SUBSET (1 .. n))
  BY <1>3, <1>4, FS_Subset
<1> QED BY <1>3, <1>5

----------------------------------------------------------------------------
(* How often a task runs.                                                  *)

Before == {"began", "launch"}
Ran    == {"running", "exited", "report", "ack"}
Passed == {"redirected"}

\* How many executions of a task are at one of the places P, anywhere and on a worker.
Num(t, P)     == Cardinality({e \in Exec : T(e) = t /\ exec[e].at \in P})
Here(w, t, P) == Cardinality({e \in Exec : T(e) = t /\ exec[e].at \in P /\ W(e) = w})

\* The copies of a task that will still run, or may.
Copies(t) == queue[t].fresh + queue[t].again + redel[t] + Num(t, Before)

\* A stop counts when the process is gone.
Halting == {w \in Worker : phase[w] \in {"stopping", "stopped"}}
Halts   == ends - Cardinality(Halting)
Room    == (1 + refused) * 2 ^ Halts

CountTypes == refused \in Nat /\ ends \in Nat /\ Cardinality(Halting) <= ends

\* What has run and what may still run fit; so does what a death would queue again.
Fits(t) ==
  /\ runs[t] + Copies(t) <= Room
  /\ Num(t, Ran) + Copies(t) + Num(t, Passed) + queue[t].again <= Room

Bounds == CountTypes /\ (broker = "rabbitmq" => \A t \in Task : Fits(t))

\* The numbers are numbers.
LEMMA NumTypes ==
  ASSUME NEW t
  PROVE  \A P : Num(t, P) \in Nat /\ \A w : Here(w, t, P) \in Nat /\ Here(w, t, P) <= Num(t, P)
<1> SUFFICES ASSUME NEW P
             PROVE  Num(t, P) \in Nat /\ \A w : Here(w, t, P) \in Nat /\ Here(w, t, P) <= Num(t, P)
  OBVIOUS
<1> DEFINE S == {e \in Exec : T(e) = t /\ exec[e].at \in P}
<1>1. IsFiniteSet(S) /\ Cardinality(S) \in Nat
  BY ExecFinite, FS_Subset, FS_CardinalityType
<1>2. ASSUME NEW w
      PROVE  Here(w, t, P) \in Nat /\ Here(w, t, P) <= Cardinality(S)
  <2> DEFINE H == {e \in Exec : T(e) = t /\ exec[e].at \in P /\ W(e) = w}
  <2>1. H \in SUBSET S
    OBVIOUS
  <2>2. IsFiniteSet(H) /\ Cardinality(H) <= Cardinality(S) /\ Cardinality(H) \in Nat
    <3> HIDE DEF H, S
    <3> QED BY <1>1, <2>1, FS_Subset, FS_CardinalityType
  <2> QED BY <2>2 DEF Here
<1> QED BY <1>1, <1>2 DEF Num

\* An execution that moves leaves the places it was at, and is at another one.
LEMMA NumMoves ==
  ASSUME NEW e \in Exec, \A f \in Exec \ {e} : exec'[f] = exec[f], NEW P
  PROVE  Num(T(e), P)' = Num(T(e), P) + (IF exec'[e].at \in P THEN 1 ELSE 0)
                                      - (IF exec[e].at \in P THEN 1 ELSE 0)
<1> DEFINE t == T(e)
           A == {f \in Exec : T(f) = t /\ exec[f].at \in P}
           B == {f \in Exec : T(f) = t /\ exec'[f].at \in P}
<1>1. IsFiniteSet(A) /\ Cardinality(A) \in Nat
  BY ExecFinite, FS_Subset, FS_CardinalityType
<1>2. IsFiniteSet(A \ {e}) /\ Cardinality(A \ {e}) = Cardinality(A) - (IF e \in A THEN 1 ELSE 0)
  <2> HIDE DEF A
  <2> QED BY <1>1, FS_RemoveElement
<1>3. e \in A <=> exec[e].at \in P
  OBVIOUS
<1>4. /\ exec'[e].at \in P => B = (A \ {e}) \cup {e}
      /\ exec'[e].at \notin P => B = A \ {e}
  OBVIOUS
<1>5. Cardinality((A \ {e}) \cup {e}) = Cardinality(A \ {e}) + 1
  <2> HIDE DEF A
  <2> QED BY <1>2, FS_AddElement
<1>6. Cardinality(B) = Cardinality(A) + (IF exec'[e].at \in P THEN 1 ELSE 0)
                                      - (IF exec[e].at \in P THEN 1 ELSE 0)
  <2> HIDE DEF A, B
  <2>1. Cardinality(A \ {e}) = Cardinality(A) - (IF exec[e].at \in P THEN 1 ELSE 0)
    BY <1>2, <1>3, Zenon
  <2>2. CASE exec'[e].at \in P
    <3>1. Cardinality(B) = Cardinality(A \ {e}) + 1
      BY <1>4, <1>5, <2>2, Zenon
    <3> QED BY <1>1, <2>1, <2>2, <3>1
  <2>3. CASE exec'[e].at \notin P
    <3>1. Cardinality(B) = Cardinality(A \ {e})
      BY <1>4, <2>3, Zenon
    <3> QED BY <1>1, <2>1, <2>3, <3>1
  <2> QED BY <2>2, <2>3
<1> QED BY <1>6 DEF Num, T

\* What a worker that is gone had is nowhere any more.
LEMMA NumGone ==
  ASSUME NEW w \in Worker, Gone(w), NEW t, NEW P, "none" \notin P
  PROVE  Num(t, P)' = Num(t, P) - Here(w, t, P)
<1> DEFINE A == {e \in Exec : T(e) = t /\ exec[e].at \in P}
           B == {e \in Exec : T(e) = t /\ exec'[e].at \in P}
           H == {e \in Exec : T(e) = t /\ exec[e].at \in P /\ W(e) = w}
<1>1. IsFiniteSet(A)
  BY ExecFinite, FS_Subset
<1>2. A \cap H = H
  OBVIOUS
<1>3. B = A \ H
  <2>1. \A e \in Exec : IF W(e) = w THEN exec'[e].at = "none" ELSE exec'[e] = exec[e]
    BY DEF Gone, Free
  <2> QED BY <2>1
<1>4. Cardinality(B) = Cardinality(A) - Cardinality(H)
  <2> HIDE DEF A, B, H
  <2>1. Cardinality(A \ H) = Cardinality(A) - Cardinality(A \cap H)
    BY <1>1, FS_Difference
  <2> QED BY <1>2, <1>3, <2>1, Zenon
<1> QED BY <1>4 DEF Num, Here, T

\* All that a worker had and had not acknowledged.
LEMMA HereAll ==
  ASSUME ExecTypes, NEW w, NEW t
  PROVE  Cardinality({e \in Exec : W(e) = w /\ T(e) = t /\ ~At(e, "none")})
         = Here(w, t, Before) + Here(w, t, Ran) + Here(w, t, Passed)
<1> DEFINE S == {e \in Exec : W(e) = w /\ T(e) = t /\ ~At(e, "none")}
           H(P) == {e \in Exec : T(e) = t /\ exec[e].at \in P /\ W(e) = w}
           B == H(Before)
           R == H(Ran)
           Z == H(Passed)
<1>1. IsFiniteSet(B) /\ IsFiniteSet(R) /\ IsFiniteSet(Z)
  BY ExecFinite, FS_Subset
<1>2. S = (B \cup R) \cup Z /\ B \cap R = {} /\ (B \cup R) \cap Z = {}
  BY DEF At, ExecTypes, Place, Before, Ran, Passed
<1>3. Cardinality(B) \in Nat /\ Cardinality(R) \in Nat /\ Cardinality(Z) \in Nat
  <2> HIDE DEF B, R, Z
  <2> QED BY <1>1, FS_CardinalityType
<1>4. Cardinality(S) = Cardinality(B) + Cardinality(R) + Cardinality(Z)
  <2> HIDE DEF S, B, R, Z
  <2>1. IsFiniteSet(B \cup R) /\ Cardinality(B \cup R) = Cardinality(B) + Cardinality(R) - Cardinality({})
    BY <1>1, <1>2, FS_Union
  <2>2. Cardinality((B \cup R) \cup Z) = Cardinality(B \cup R) + Cardinality(Z) - Cardinality({})
    BY <1>1, <1>2, <2>1, FS_Union
  <2> QED BY <1>2, <1>3, <2>1, <2>2, FS_EmptySet
<1> QED BY <1>4 DEF Here

\* The room is a number, which grows by a refusal and doubles by a death.
LEMMA RoomMoves ==
  ASSUME CountTypes, CountTypes'
  PROVE  /\ Room \in Nat /\ Room >= 1 /\ Halts \in Nat /\ Room' \in Nat
         /\ refused' = refused /\ Halts' = Halts => Room' = Room
         /\ refused' = refused + 1 /\ Halts' = Halts => Room' >= Room + 1
         /\ refused' = refused /\ Halts' = Halts + 1 => Room' = 2 * Room
<1> DEFINE p == 2 ^ Halts
           q == 2 ^ (Halts')
<1>1. refused \in Nat /\ refused' \in Nat /\ Halts \in Nat /\ Halts' \in Nat
  <2>1. IsFiniteSet(Halting) /\ Cardinality(Halting) \in Nat
    BY WorkerAssumption, FS_Subset, FS_CardinalityType DEF Halting
  <2>2. IsFiniteSet(Halting') /\ Cardinality(Halting') \in Nat
    BY WorkerAssumption, FS_Subset, FS_CardinalityType DEF Halting
  <2> QED BY <2>1, <2>2 DEF CountTypes, Halts
<1>2. /\ p \in Nat /\ p >= 1 /\ 2 ^ (Halts + 1) = 2 * p
      /\ q \in Nat
  BY <1>1, Doubles
<1>3. Halts' = Halts => q = p
  OBVIOUS
<1>4. Halts' = Halts + 1 => q = 2 * p
  BY <1>2
<1> HIDE DEF p, q
<1>5. (1 + refused) * p \in Nat /\ (1 + refused) * p >= 1 /\ (1 + refused') * q \in Nat
  <2>1. ASSUME NEW k \in Nat, NEW r \in Nat PROVE (1 + k) * r \in Nat /\ (1 + k) * r = r + k * r /\ k * r \in Nat
    OBVIOUS
  <2>2. (1 + refused) * p \in Nat /\ (1 + refused') * q \in Nat
    BY <1>1, <1>2, <2>1, Zenon
  <2>3. (1 + refused) * p = p + refused * p /\ refused * p \in Nat
    BY <1>1, <1>2, <2>1, Zenon
  <2>4. (1 + refused) * p >= 1
    <3> DEFINE x == refused * p
               y == (1 + refused) * p
    <3>1. y = p + x /\ x \in Nat
      BY <2>3
    <3> HIDE DEF x, y
    <3>2. y >= 1
      BY <1>2, <3>1
    <3> QED BY <3>2 DEF y
  <2> QED BY <2>2, <2>4
<1>6. (1 + (refused + 1)) * p = (1 + refused) * p + p
  BY <1>1, <1>2
<1>7. (1 + refused) * (2 * p) = 2 * ((1 + refused) * p)
  BY <1>1, <1>2
<1>8. Room = (1 + refused) * p /\ Room' = (1 + refused') * q
  BY DEF Room, p, q
<1>9. refused' = refused /\ Halts' = Halts => Room' = Room
  BY <1>3, <1>8, Zenon
<1>10. ASSUME refused' = refused + 1, Halts' = Halts PROVE Room' >= Room + 1
  <2>1. Room' = (1 + (refused + 1)) * p
    BY <1>3, <1>8, <1>10, Zenon
  <2>2. Room' = Room + p
    BY <1>6, <1>8, <2>1, Zenon
  <2>3. Room \in Nat
    BY <1>5, <1>8, Zenon
  <2> QED BY <1>2, <2>2, <2>3
<1>11. ASSUME refused' = refused, Halts' = Halts + 1 PROVE Room' = 2 * Room
  <2>1. Room' = (1 + refused) * (2 * p)
    BY <1>4, <1>8, <1>11, Zenon
  <2> QED BY <1>7, <1>8, <2>1, Zenon
<1>12. Room \in Nat /\ Room >= 1 /\ Room' \in Nat
  BY <1>5, <1>8, Zenon
<1> QED BY <1>1, <1>9, <1>10, <1>11, <1>12

\* A stop counts when the process is gone, a death at once.
LEMMA HaltStep ==
  ASSUME RestTypes, CountTypes, [WorkerNext]_wvars
  PROVE  /\ CountTypes'
         /\ phase' = phase /\ ends' = ends => Halts' = Halts
         /\ \A w \in Worker : Stop(w) \/ StopReturns(w) => Halts' = Halts
         /\ \A w \in Worker : Die(w) \/ Leave(w) => Halts' = Halts + 1
<1>1. IsFiniteSet(Halting) /\ Cardinality(Halting) \in Nat
  BY WorkerAssumption, FS_Subset, FS_CardinalityType DEF Halting
<1>2. refused \in Nat /\ ends \in Nat /\ Cardinality(Halting) <= ends
  BY DEF CountTypes
<1>3. ASSUME phase' = phase, ends' = ends, refused' \in {refused, refused + 1}
      PROVE  CountTypes' /\ Halts' = Halts
  BY <1>2, <1>3 DEF CountTypes, Halts, Halting
<1>4. ASSUME NEW w \in Worker, Stop(w) PROVE CountTypes' /\ Halts' = Halts
  <2>1. Halting' = Halting \cup {w} /\ w \notin Halting /\ ends' = ends + 1 /\ refused' = refused
    BY <1>4 DEF Stop, Halting, RestTypes
  <2>2. Cardinality(Halting') = Cardinality(Halting) + 1
    BY <1>1, <2>1, FS_AddElement
  <2> QED BY <1>1, <1>2, <2>1, <2>2 DEF CountTypes, Halts
<1>5. ASSUME NEW w \in Worker, StopReturns(w) PROVE CountTypes' /\ Halts' = Halts
  <2>1. Halting' = Halting /\ ends' = ends /\ refused' = refused
    BY <1>5 DEF StopReturns, Halting, RestTypes
  <2> QED BY <1>2, <2>1 DEF CountTypes, Halts
<1>6. ASSUME NEW w \in Worker, Die(w) PROVE CountTypes' /\ Halts' = Halts + 1
  <2>1. Halting' = Halting /\ ends' = ends + 1 /\ refused' = refused
    BY <1>6 DEF Die, Gone, Halting, RestTypes
  <2> QED BY <1>1, <1>2, <2>1 DEF CountTypes, Halts
<1>7. ASSUME NEW w \in Worker, Leave(w) PROVE CountTypes' /\ Halts' = Halts + 1
  <2>1. Halting' = Halting \ {w} /\ w \in Halting /\ ends' = ends /\ refused' = refused
    BY <1>7 DEF Leave, Gone, Halting, RestTypes
  <2>2. Cardinality(Halting') = Cardinality(Halting) - 1
    BY <1>1, <2>1, FS_RemoveElement
  <2>3. Cardinality(Halting) \in Nat /\ Cardinality(Halting') \in Nat
    <3>1. IsFiniteSet(Halting')
      BY WorkerAssumption, FS_Subset DEF Halting
    <3> QED BY <1>1, <3>1, FS_CardinalityType
  <2> QED BY <1>2, <2>1, <2>2, <2>3 DEF CountTypes, Halts
<1>8. ASSUME NEW t \in Task, About(t)
      PROVE  phase' = phase /\ ends' = ends /\ refused' \in {refused, refused + 1}
  BY <1>8 DEF About, Takes, Executes, Send, Deliver, Redirect, Redeliver, ReportRunning, Launch, Exit,
              Collect, Report, Acknowledge, HandleCancel, Refuses
<1>9. ASSUME NEW s \in Slot, Subscribe(s) PROVE phase' = phase /\ ends' = ends /\ refused' = refused
  BY <1>9 DEF Subscribe
<1>10. ASSUME NEW w \in Worker, NEW t \in Task, Cancel(w, t)
       PROVE  phase' = phase /\ ends' = ends /\ refused' = refused
  BY <1>10 DEF Cancel
<1>11. ASSUME UNCHANGED wvars PROVE CountTypes'
  BY <1>3, <1>11 DEF wvars
<1>12. ASSUME NEW e \in Exec, Executes(e) PROVE \E t \in Task : About(t)
  BY <1>12, Parts DEF About
<1>13. ASSUME NEW t \in Task, Send(t) \/ Takes(t) \/ Redeliver(t) \/ \E w \in Worker : HandleCancel(w, t)
       PROVE  \E u \in Task : About(u)
  BY <1>13 DEF About
<1>14. CountTypes'
  <2>1. ASSUME NEW t \in Task, About(t) PROVE CountTypes'
    BY <1>3, <1>8, <2>1
  <2>2. ASSUME NEW s \in Slot, Subscribe(s) PROVE CountTypes'
    BY <1>3, <1>9, <2>2
  <2>3. ASSUME NEW w \in Worker, NEW t \in Task, Cancel(w, t) PROVE CountTypes'
    BY <1>3, <1>10, <2>3
  <2> QED BY <1>4, <1>5, <1>6, <1>7, <1>11, <1>12, <1>13, <2>1, <2>2, <2>3, Zenon DEF WorkerNext
<1>15. phase' = phase /\ ends' = ends => Halts' = Halts
  BY DEF Halts, Halting
<1> QED BY <1>4, <1>5, <1>6, <1>7, <1>14, <1>15

\* All that is counted of a task is a number.
LEMMA Numbers ==
  ASSUME Types, NEW t \in Task
  PROVE  /\ queue[t].fresh \in Nat /\ queue[t].again \in Nat /\ redel[t] \in Nat /\ runs[t] \in Nat
         /\ Num(t, Before) \in Nat /\ Num(t, Ran) \in Nat /\ Num(t, Passed) \in Nat
<1>1. QueueTypes /\ RestTypes
  BY TypeParts
<1>2. queue[t].fresh \in Nat /\ queue[t].again \in Nat /\ redel[t] \in Nat /\ runs[t] \in Nat
  BY <1>1, Counts DEF RestTypes
<1>3. Num(t, Before) \in Nat /\ Num(t, Ran) \in Nat /\ Num(t, Passed) \in Nat
  BY NumTypes, Zenon
<1> QED BY <1>2, <1>3

\* What one execution adds to the numbers, and takes from them.
LEMMA NumSteps ==
  ASSUME NEW e \in Exec, \A f \in Exec \ {e} : exec'[f] = exec[f]
  PROVE  \A P \in {Before, Ran, Passed} :
           Num(T(e), P)' = Num(T(e), P) + (IF exec'[e].at \in P THEN 1 ELSE 0)
                                        - (IF exec[e].at \in P THEN 1 ELSE 0)
BY NumMoves, Zenon

\* A handler that fails makes room for one run more.
LEMMA FitsFailed ==
  ASSUME Types, CountTypes, CountTypes', NEW e \in Exec, Fits(T(e)), broker = "rabbitmq",
         Fails(e), Refuses, phase' = phase, ends' = ends, UNCHANGED <<redel, runs>>,
         exec[e].at \in Before \cup Ran
  PROVE  Fits(T(e))'
<1> DEFINE t == T(e)
<1>1. t \in Task
  BY Parts
<1>2. /\ \A f \in Exec \ {e} : exec'[f] = exec[f]
      /\ exec'[e].at = "none"
      /\ queue'[t].fresh = queue[t].fresh
      /\ queue'[t].again = queue[t].again + 1
  BY Failing
<1>3. /\ Num(t, Before)' = Num(t, Before) - (IF exec[e].at \in Before THEN 1 ELSE 0)
      /\ Num(t, Ran)' = Num(t, Ran) - (IF exec[e].at \in Ran THEN 1 ELSE 0)
      /\ Num(t, Passed)' = Num(t, Passed)
  <2>1. /\ Num(t, Before)' = Num(t, Before) + (IF exec'[e].at \in Before THEN 1 ELSE 0)
                                            - (IF exec[e].at \in Before THEN 1 ELSE 0)
        /\ Num(t, Ran)' = Num(t, Ran) + (IF exec'[e].at \in Ran THEN 1 ELSE 0)
                                      - (IF exec[e].at \in Ran THEN 1 ELSE 0)
        /\ Num(t, Passed)' = Num(t, Passed) + (IF exec'[e].at \in Passed THEN 1 ELSE 0)
                                            - (IF exec[e].at \in Passed THEN 1 ELSE 0)
    BY <1>2, NumSteps
  <2>2. exec'[e].at \notin Before /\ exec'[e].at \notin Ran /\ exec'[e].at \notin Passed /\ exec[e].at \notin Passed
    BY <1>2 DEF Before, Ran, Passed
  <2> QED BY <1>1, <2>1, <2>2, Numbers
<1>4. Room' >= Room + 1 /\ Room \in Nat /\ Room' \in Nat
  <2>1. refused' = refused + 1
    BY DEF Refuses
  <2>2. Halts' = Halts
    BY DEF Halts, Halting
  <2> QED BY <2>1, <2>2, RoomMoves
<1>5. exec[e].at \in Before <=> exec[e].at \notin Ran
  BY DEF Before, Ran
<1>6. /\ queue[t].fresh \in Nat /\ queue[t].again \in Nat /\ redel[t] \in Nat /\ runs[t] \in Nat
      /\ Num(t, Before) \in Nat /\ Num(t, Ran) \in Nat /\ Num(t, Passed) \in Nat
  BY <1>1, Numbers
<1> HIDE DEF t
<1>7. Fits(t) => Fits(t)'
  BY <1>2, <1>3, <1>4, <1>5, <1>6 DEF Fits, Copies
<1> QED BY <1>7 DEF t

\* The numbers of a task that the step is not about.
LEMMA NumSame ==
  ASSUME NEW t, \A f \in Exec : T(f) = t => exec'[f].at = exec[f].at, NEW P
  PROVE  Num(t, P)' = Num(t, P)
<1>1. {f \in Exec : T(f) = t /\ exec'[f].at \in P} = {f \in Exec : T(f) = t /\ exec[f].at \in P}
  OBVIOUS
<1> QED BY <1>1 DEF Num, T

\* A task that nothing changes for still fits.
LEMMA FitsSame ==
  ASSUME Types, CountTypes, CountTypes', NEW t \in Task, Fits(t),
         Room' >= Room,
         queue'[t] = queue[t], redel'[t] = redel[t], runs'[t] = runs[t],
         \A f \in Exec : T(f) = t => exec'[f].at = exec[f].at
  PROVE  Fits(t)'
<1>1. Num(t, Before)' = Num(t, Before) /\ Num(t, Ran)' = Num(t, Ran) /\ Num(t, Passed)' = Num(t, Passed)
  BY NumSame
<1>2. Room \in Nat /\ Room' \in Nat
  BY RoomMoves
<1>3. /\ queue[t].fresh \in Nat /\ queue[t].again \in Nat /\ redel[t] \in Nat /\ runs[t] \in Nat
      /\ Num(t, Before) \in Nat /\ Num(t, Ran) \in Nat /\ Num(t, Passed) \in Nat
  BY Numbers
<1> QED BY <1>1, <1>2, <1>3 DEF Fits, Copies

\* A death doubles the room: what it queues again, besides what still runs or will,
\* is at most what fitted before.
LEMMA FitsGone ==
  ASSUME Types, CountTypes, CountTypes', NEW w \in Worker, Gone(w), Halts' = Halts + 1,
         NEW t \in Task, Fits(t)
  PROVE  Fits(t)'
<1>0. QueueTypes /\ ExecTypes
  BY TypeParts
<1>1. Room' = 2 * Room /\ Room \in Nat
  <2>1. refused' = refused
    BY DEF Gone
  <2> QED BY <2>1, RoomMoves
<1>2. /\ queue'[t].fresh = queue[t].fresh
      /\ queue'[t].again = queue[t].again + (Here(w, t, Before) + Here(w, t, Ran) + Here(w, t, Passed))
  BY <1>0, GoneQueue, HereAll
<1>3. redel' = redel /\ runs' = runs
  BY DEF Gone
<1>4. /\ Num(t, Before)' = Num(t, Before) - Here(w, t, Before)
      /\ Num(t, Ran)' = Num(t, Ran) - Here(w, t, Ran)
      /\ Num(t, Passed)' = Num(t, Passed) - Here(w, t, Passed)
  <2>1. "none" \notin Before /\ "none" \notin Ran /\ "none" \notin Passed
    BY DEF Before, Ran, Passed
  <2> QED BY <2>1, NumGone
<1>5. /\ Here(w, t, Before) \in Nat /\ Here(w, t, Ran) \in Nat /\ Here(w, t, Passed) \in Nat
      /\ Here(w, t, Before) <= Num(t, Before) /\ Here(w, t, Ran) <= Num(t, Ran)
      /\ Here(w, t, Passed) <= Num(t, Passed)
  BY NumTypes, Zenon
<1>6. /\ queue[t].fresh \in Nat /\ queue[t].again \in Nat /\ redel[t] \in Nat /\ runs[t] \in Nat
      /\ Num(t, Before) \in Nat /\ Num(t, Ran) \in Nat /\ Num(t, Passed) \in Nat
  BY Numbers
<1> QED BY <1>1, <1>2, <1>3, <1>4, <1>5, <1>6 DEF Fits, Copies

\* Over RabbitMQ the task that a step is about still fits.
LEMMA FitsStep ==
  ASSUME Types, Unsent, Tracks, CountTypes, CountTypes', broker = "rabbitmq",
         NEW t \in Task, Fits(t), About(t)
  PROVE  Fits(t)'
<1>0. ExecTypes /\ Ended /\ MapTypes /\ QueueTypes /\ RestTypes
  BY TypeParts
<1>n. /\ queue[t].fresh \in Nat /\ queue[t].again \in Nat /\ redel[t] \in Nat /\ runs[t] \in Nat
      /\ Num(t, Before) \in Nat /\ Num(t, Ran) \in Nat /\ Num(t, Passed) \in Nat
  BY Numbers
<1>r. Room \in Nat /\ Room >= 1 /\ Room' \in Nat
  BY RoomMoves
<1>s. ASSUME UNCHANGED <<refused, phase, ends>> PROVE Room' = Room
  BY <1>s DEF Room, Halts, Halting
<1>d. Before = {"began", "launch"} /\ Ran = {"running", "exited", "report", "ack"} /\ Passed = {"redirected"}
  BY DEF Before, Ran, Passed
<1>m. ASSUME NEW e \in Exec, T(e) = t, \A f \in Exec \ {e} : exec'[f] = exec[f]
      PROVE  /\ Num(t, Before)' = Num(t, Before) + (IF exec'[e].at \in Before THEN 1 ELSE 0)
                                                 - (IF exec[e].at \in Before THEN 1 ELSE 0)
             /\ Num(t, Ran)' = Num(t, Ran) + (IF exec'[e].at \in Ran THEN 1 ELSE 0)
                                           - (IF exec[e].at \in Ran THEN 1 ELSE 0)
             /\ Num(t, Passed)' = Num(t, Passed) + (IF exec'[e].at \in Passed THEN 1 ELSE 0)
                                                 - (IF exec[e].at \in Passed THEN 1 ELSE 0)
  BY <1>m, NumSteps
<1>1. ASSUME Send(t) PROVE Fits(t)'
  <2> DEFINE n == queue[t].fresh + 1
  <2>1. queue' = [queue EXCEPT ![t].fresh = n] /\ UNCHANGED exec /\ t \notin sent /\ UNCHANGED <<redel, runs>>
    BY <1>1 DEF Send
  <2>2. n \in Nat
    BY <1>n
  <2>3. queue'[t].fresh = n /\ queue'[t].again = queue[t].again
    <3> HIDE DEF n
    <3> QED BY <1>0, <2>1, <2>2, Queued
  <2>4. /\ queue[t].fresh = 0 /\ queue[t].again = 0 /\ redel[t] = 0 /\ runs[t] = 0
        /\ \A e \in Exec : T(e) = t => exec[e].at = "none"
    BY <2>1 DEF Unsent
  <2>5. Num(t, Before)' = 0 /\ Num(t, Ran)' = 0 /\ Num(t, Passed)' = 0
    <3>1. ASSUME NEW P, "none" \notin P PROVE Num(t, P) = 0
      <4>1. {e \in Exec : T(e) = t /\ exec[e].at \in P} = {}
        BY <2>4, <3>1
      <4> QED BY <4>1, FS_EmptySet DEF Num
    <3>2. Num(t, Before)' = Num(t, Before) /\ Num(t, Ran)' = Num(t, Ran) /\ Num(t, Passed)' = Num(t, Passed)
      BY <2>1, NumSame
    <3>3. Num(t, Before) = 0 /\ Num(t, Ran) = 0 /\ Num(t, Passed) = 0
      BY <3>1, <1>d
    <3> QED BY <3>2, <3>3
  <2>6. Room' = Room
    BY <1>1, <1>s DEF Send
  <2> QED BY <1>r, <2>1, <2>3, <2>4, <2>5, <2>6 DEF Fits, Copies
<1>2. ASSUME NEW e \in Exec, Deliver(e), T(e) = t PROVE Fits(t)'
  <2> DEFINE n == queue[t].fresh - 1
  <2>1. queue' = [queue EXCEPT ![t].fresh = n] /\ n \in Nat /\ UNCHANGED <<redel, runs, refused, phase, ends>>
    BY <1>2, <1>n DEF Deliver
  <2>2. queue'[t].fresh = n /\ queue'[t].again = queue[t].again
    <3> HIDE DEF n
    <3> QED BY <1>0, <2>1, Queued
  <2>3. Starts({e}) /\ {e} \in SUBSET Exec /\ SlotFree(e[1])
    BY <1>2 DEF Deliver, Consumes
  <2>4. /\ \A f \in Exec \ {e} : exec'[f] = exec[f]
        /\ exec'[e].at = "began"
    BY <1>0, <2>3, Begin DEF RestTypes
  <2>5. exec[e].at = "none"
    BY <2>3, Fresh
  <2>6. /\ Num(t, Before)' = Num(t, Before) + 1
        /\ Num(t, Ran)' = Num(t, Ran) /\ Num(t, Passed)' = Num(t, Passed)
    BY <1>2, <1>d, <1>m, <1>n, <2>4, <2>5
  <2>7. Room' = Room
    BY <1>s, <2>1
  <2> QED BY <1>n, <1>r, <2>1, <2>2, <2>6, <2>7 DEF Fits, Copies
<1>3. ASSUME NEW e \in Exec, Redirect(e), T(e) = t PROVE Fits(t)'
  <2> DEFINE n == queue[t].again - 1
  <2>1. queue' = [queue EXCEPT ![t].again = n] /\ n \in Nat /\ UNCHANGED <<runs, refused, phase, ends>>
    BY <1>3, <1>n DEF Redirect
  <2>2. queue'[t].again = n /\ queue'[t].fresh = queue[t].fresh
    <3> HIDE DEF n
    <3> QED BY <1>0, <2>1, Queued
  <2>3. redel'[t] = redel[t] + 1
    BY <1>0, <1>3 DEF Redirect, QueueTypes
  <2>4. /\ \A f \in Exec \ {e} : exec'[f] = exec[f]
        /\ exec'[e].at = "redirected"
    BY <1>0, <1>3, Moved DEF Redirect
  <2>5. exec[e].at = "none"
    <3>1. SlotFree(e[1]) /\ T(e) \in Task /\ e = <<e[1], T(e)>>
      BY <1>3, Parts DEF Redirect, Consumes, T
    <3> QED BY <3>1, Zenon DEF SlotFree, At
  <2>6. /\ Num(t, Passed)' = Num(t, Passed) + 1
        /\ Num(t, Ran)' = Num(t, Ran) /\ Num(t, Before)' = Num(t, Before)
    BY <1>3, <1>d, <1>m, <1>n, <2>4, <2>5
  <2>7. Room' = Room
    BY <1>s, <2>1
  <2> QED BY <1>n, <1>r, <2>1, <2>2, <2>3, <2>6, <2>7 DEF Fits, Copies
<1>4. ASSUME Redeliver(t) PROVE Fits(t)'
  <2> DEFINE n == queue[t].fresh + 1
  <2>1. queue' = [queue EXCEPT ![t].fresh = n] \/ queue' = queue
    BY <1>4 DEF Redeliver
  <2>2. n \in Nat
    BY <1>n
  <2>3. /\ queue'[t].fresh = n \/ queue'[t].fresh = queue[t].fresh
        /\ queue'[t].again = queue[t].again
    <3> HIDE DEF n
    <3> QED BY <1>0, <2>1, <2>2, Queued
  <2>4. redel'[t] = redel[t] - 1
    BY <1>0, <1>4 DEF Redeliver, QueueTypes
  <2>5. UNCHANGED <<exec, runs, refused, phase, ends>>
    BY <1>4 DEF Redeliver
  <2>6. Num(t, Passed)' = Num(t, Passed) /\ Num(t, Ran)' = Num(t, Ran) /\ Num(t, Before)' = Num(t, Before)
    BY <2>5, NumSame
  <2>7. Room' = Room
    BY <1>s, <2>5
  <2> QED BY <1>n, <1>r, <2>3, <2>4, <2>5, <2>6, <2>7 DEF Fits, Copies
<1>5. ASSUME NEW e \in Exec, Launch(e), T(e) = t PROVE Fits(t)'
  <2>1. /\ \A f \in Exec \ {e} : exec'[f] = exec[f]
        /\ exec[e].at = "launch" /\ exec'[e].at = "running"
    BY <1>0, <1>5, Moved DEF Launch, Moves, At
  <2>2. runs'[t] = runs[t] + 1 /\ UNCHANGED <<queue, redel, refused, phase, ends>>
    BY <1>0, <1>5 DEF Launch, RestTypes
  <2>3. /\ Num(t, Before)' = Num(t, Before) - 1 /\ Num(t, Ran)' = Num(t, Ran) + 1
        /\ Num(t, Passed)' = Num(t, Passed)
    BY <1>5, <1>d, <1>m, <1>n, <2>1
  <2>4. Room' = Room
    BY <1>s, <2>2
  <2> QED BY <1>n, <1>r, <2>2, <2>3, <2>4 DEF Fits, Copies
<1>6. ASSUME NEW e \in Exec, Fails(e), Refuses, T(e) = t, exec[e].at \in Before \cup Ran,
             UNCHANGED <<redel, runs, phase, ends>>
      PROVE  Fits(t)'
  <2>1. Fits(T(e))'
    BY <1>6, FitsFailed
  <2> QED BY <1>6, <2>1
<1>7. ASSUME NEW e \in Exec, T(e) = t, \A f \in Exec \ {e} : exec'[f] = exec[f],
             UNCHANGED <<queue, redel, runs, refused, phase, ends>>,
             \/ exec[e].at \in Before /\ exec'[e].at \in Before
             \/ exec[e].at \in Ran /\ exec'[e].at \in Ran
             \/ exec[e].at \in Ran \cup Passed /\ exec'[e].at = "none"
      PROVE  Fits(t)'
  <2>1. /\ Num(t, Before)' = Num(t, Before) /\ Num(t, Ran)' <= Num(t, Ran) /\ Num(t, Passed)' <= Num(t, Passed)
        /\ Num(t, Ran)' \in Int /\ Num(t, Passed)' \in Int
    BY <1>7, <1>d, <1>m, <1>n
  <2>2. Room' = Room
    BY <1>s, <1>7
  <2> QED BY <1>n, <1>r, <1>7, <2>1, <2>2 DEF Fits, Copies
<1>8. ASSUME NEW e \in Exec, ReportRunning(e), T(e) = t PROVE Fits(t)'
  <2>1. CASE Fails(e) /\ Refuses
    BY <1>6, <1>8, <1>d, <2>1 DEF ReportRunning, At
  <2>2. CASE Moves(e, "began", "launch") /\ UNCHANGED <<queue, refused>>
    <3>1. /\ \A f \in Exec \ {e} : exec'[f] = exec[f]
          /\ exec[e].at = "began" /\ exec'[e].at = "launch"
      BY <1>0, <2>2, Moved DEF Moves, At
    <3> QED BY <1>7, <1>8, <1>d, <2>2, <3>1 DEF ReportRunning
  <2> QED BY <1>8, <2>1, <2>2 DEF ReportRunning
<1>9. ASSUME NEW e \in Exec, Exit(e) \/ Collect(e), T(e) = t PROVE Fits(t)'
  <2>1. /\ \A f \in Exec \ {e} : exec'[f] = exec[f]
        /\ exec[e].at \in Ran /\ exec'[e].at \in Ran
    BY <1>0, <1>9, <1>d DEF Exit, Collect, At, ExecTypes
  <2> QED BY <1>7, <1>9, <2>1 DEF Exit, Collect
<1>10. ASSUME NEW e \in Exec, Report(e), T(e) = t PROVE Fits(t)'
  <2>1. CASE Fails(e) /\ Refuses
    BY <1>6, <1>10, <1>d, <2>1 DEF Report, At
  <2>2. CASE Moves(e, "report", "ack") /\ UNCHANGED <<queue, refused>>
    <3>1. /\ \A f \in Exec \ {e} : exec'[f] = exec[f]
          /\ exec[e].at = "report" /\ exec'[e].at = "ack"
      BY <1>0, <2>2, Moved DEF Moves, At
    <3> QED BY <1>7, <1>10, <1>d, <2>2, <3>1 DEF Report
  <2> QED BY <1>10, <2>1, <2>2 DEF Report
<1>11. ASSUME NEW e \in Exec, Acknowledge(e), T(e) = t PROVE Fits(t)'
  <2>1. /\ \A f \in Exec \ {e} : exec'[f] = exec[f]
        /\ exec[e].at \in {"ack", "redirected"} /\ exec'[e].at = "none"
    BY <1>0, <1>11, Gets DEF Acknowledge, Free, Place
  <2> QED BY <1>7, <1>11, <1>d, <2>1 DEF Acknowledge
<1>12. ASSUME NEW w \in Worker, HandleCancel(w, t) PROVE Fits(t)'
  <2> DEFINE x == tracked[w][t]
  <2>0. UNCHANGED <<queue, redel, runs, refused, phase, ends>>
    BY <1>12 DEF HandleCancel
  <2>1. CASE exec' = exec
    <3>1. Room' >= Room
      BY <1>r, <1>s, <2>0
    <3> QED BY <2>0, <2>1, <3>1, FitsSame
  <2>2. CASE x # Nobody /\ exec' = [exec EXCEPT ![x] = [at |-> "exited", out |-> "Failed"]]
    <3>1. x \in Exec /\ T(x) = t /\ exec[x].at = "running"
      BY <1>0, <2>2 DEF MapTypes, Tracks
    <3>2. (\A f \in Exec \ {x} : exec'[f] = exec[f]) /\ exec'[x].at = "exited"
      <4> HIDE DEF x
      <4> QED BY <1>0, <2>2, <3>1 DEF ExecTypes
    <3> HIDE DEF x
    <3> QED BY <1>7, <1>d, <2>0, <3>1, <3>2
  <2> QED BY <1>12, <2>1, <2>2 DEF HandleCancel, StopRun
<1> QED BY <1>1, <1>2, <1>3, <1>4, <1>5, <1>8, <1>9, <1>10, <1>11, <1>12 DEF About, Takes, Executes

\* Every step keeps the bounds.
LEMMA BoundsStep ==
  ASSUME Types, Unsent, Tracks, Bounds, [WorkerNext]_wvars
  PROVE  Bounds'
<1>0. RestTypes /\ CountTypes
  BY TypeParts DEF Bounds
<1>1. CountTypes'
  BY <1>0, HaltStep
<1> SUFFICES ASSUME broker' = "rabbitmq", NEW t \in Task PROVE Fits(t)'
  BY <1>1 DEF Bounds
<1>2. broker = "rabbitmq"
  BY DEF WorkerNext, Takes, Executes, Send, Deliver, Redirect, Redeliver, ReportRunning, Launch, Exit,
         Collect, Report, Acknowledge, Subscribe, Cancel, HandleCancel, Stop, StopReturns,
         Leave, Die, Gone, wvars
<1>3. Fits(t)
  BY <1>2 DEF Bounds
<1>r. Room \in Nat
  BY <1>0, <1>1, RoomMoves
<1>4. ASSUME NEW u \in Task, About(u) PROVE Fits(t)'
  <2>1. CASE u = t
    BY <1>0, <1>1, <1>2, <1>3, <1>4, <2>1, FitsStep
  <2>2. CASE u # t
    <3>1. Only(u) \/ Still
      BY <1>4, OneTask
    <3>2. /\ queue'[t] = queue[t] /\ redel'[t] = redel[t] /\ runs'[t] = runs[t]
          /\ \A f \in Exec : T(f) = t => exec'[f].at = exec[f].at
      BY <2>2, <3>1 DEF Only, Still
    <3>3. Room' >= Room
      <4>1. Halts' = Halts /\ (refused' = refused \/ refused' = refused + 1)
        <5>1. phase' = phase /\ ends' = ends /\ (refused' = refused \/ refused' = refused + 1)
          BY <1>4 DEF About, Takes, Executes, Send, Deliver, Redirect, Redeliver, ReportRunning, Launch,
                      Exit, Collect, Report, Acknowledge, HandleCancel, Refuses
        <5> QED BY <5>1, <1>0, HaltStep
      <4>2. Room' = Room \/ Room' >= Room + 1
        BY <1>0, <1>1, <4>1, RoomMoves
      <4>3. Room' \in Nat
        BY <1>0, <1>1, RoomMoves
      <4> QED BY <1>r, <4>2, <4>3
    <3> QED BY <1>0, <1>1, <1>3, <3>2, <3>3, FitsSame
  <2> QED BY <2>1, <2>2
<1>5. ASSUME NEW w \in Worker, Die(w) \/ Leave(w) PROVE Fits(t)'
  <2>1. Halts' = Halts + 1
    BY <1>0, <1>5, HaltStep
  <2> QED BY <1>0, <1>1, <1>3, <1>5, <2>1, FitsGone DEF Die, Leave
<1>6. ASSUME refused' = refused, Halts' = Halts, Still PROVE Fits(t)'
  <2>1. Room' = Room
    BY <1>0, <1>1, <1>6, RoomMoves
  <2> QED BY <1>0, <1>1, <1>3, <1>6, <1>r, <2>1, FitsSame DEF Still
<1>7. ASSUME NEW w \in Worker, Stop(w) \/ StopReturns(w) PROVE Fits(t)'
  <2>1. Halts' = Halts
    BY <1>0, <1>7, HaltStep
  <2>2. refused' = refused /\ Still
    BY <1>7 DEF Stop, StopReturns, Still
  <2> QED BY <1>6, <2>1, <2>2
<1>8. ASSUME \/ \E s \in Slot : Subscribe(s)
             \/ \E w \in Worker, u \in Task : Cancel(w, u)
             \/ UNCHANGED wvars
      PROVE  Fits(t)'
  <2>1. phase' = phase /\ ends' = ends /\ refused' = refused /\ Still
    BY <1>8 DEF Subscribe, Cancel, wvars, Still
  <2>2. Halts' = Halts
    BY <1>0, <2>1, HaltStep
  <2> QED BY <1>6, <2>1, <2>2
<1>9. ASSUME NEW e \in Exec, Executes(e) PROVE \E u \in Task : About(u)
  BY <1>9, Parts DEF About
<1>10. ASSUME NEW u \in Task, Send(u) \/ Takes(u) \/ Redeliver(u) \/ \E w \in Worker : HandleCancel(w, u)
       PROVE  About(u)
  BY <1>10 DEF About
<1> QED BY <1>4, <1>5, <1>7, <1>8, <1>9, <1>10, Zenon DEF WorkerNext

----------------------------------------------------------------------------
(* The theorems.                                                           *)

WorkerInv == Types /\ Unsent /\ Known /\ Somewhere /\ Bounds

\* The invariant holds at first.
LEMMA WorkerInit0 == WorkerInit => WorkerInv
<1> SUFFICES ASSUME WorkerInit PROVE WorkerInv
  OBVIOUS
<1>1. exec = [e \in Exec |-> Free] /\ Free = [at |-> "none", out |-> "none"]
  BY Zenon DEF WorkerInit, Free
<1>2. ExecTypes /\ Ended /\ \A e \in Exec : exec[e].at = "none"
  BY <1>1 DEF ExecTypes, Ended, Place
<1>3. MapTypes
  BY DEF WorkerInit, MapTypes
<1>4. QueueTypes /\ RestTypes
  BY DEF WorkerInit, QueueTypes, RestTypes
<1>5. Types
  BY <1>2, <1>3, <1>4, TypeParts
<1>6. Unsent
  BY <1>2 DEF WorkerInit, Unsent
<1>7. Tracks /\ DirectoryKept
  BY DEF WorkerInit, Tracks, DirectoryKept
<1>8. Alone /\ StopSeesRuns
  BY <1>2 DEF Alone, StopSeesRuns, Going
<1>9. Somewhere
  BY DEF WorkerInit, Somewhere
<1>10. Halting = {} /\ Cardinality(Halting) = 0
  <2>1. Halting = {}
    BY DEF WorkerInit, Halting
  <2> QED BY <2>1, FS_EmptySet
<1>11. CountTypes /\ Room = 1
  <2>1. CountTypes /\ Halts = 0
    BY <1>10 DEF WorkerInit, CountTypes, Halts
  <2>2. 2 ^ 0 = 1
    OBVIOUS
  <2>3. Room = (1 + 0) * 1
    BY <2>1, <2>2 DEF WorkerInit, Room
  <2> QED BY <2>1, <2>3
<1>12. ASSUME NEW t \in Task PROVE Fits(t)
  <2>1. ASSUME NEW P, "none" \notin P PROVE Num(t, P) = 0
    <3>1. {e \in Exec : T(e) = t /\ exec[e].at \in P} = {}
      BY <1>2, <2>1
    <3> QED BY <3>1, FS_EmptySet DEF Num
  <2>2. Num(t, Before) = 0 /\ Num(t, Ran) = 0 /\ Num(t, Passed) = 0
    BY <2>1 DEF Before, Ran, Passed
  <2>3. queue[t].fresh = 0 /\ queue[t].again = 0 /\ redel[t] = 0 /\ runs[t] = 0
    BY DEF WorkerInit
  <2> QED BY <1>11, <2>2, <2>3 DEF Fits, Copies
<1>13. Bounds
  BY <1>11, <1>12 DEF Bounds
<1> QED BY <1>5, <1>6, <1>7, <1>8, <1>9, <1>13 DEF WorkerInv, Known

\* Every step keeps the invariant.
LEMMA WorkerStep == WorkerInv /\ [WorkerNext]_wvars => WorkerInv'
<1> SUFFICES ASSUME WorkerInv, [WorkerNext]_wvars PROVE WorkerInv'
  OBVIOUS
<1>1. Types /\ Unsent /\ Known /\ Tracks /\ Somewhere
  BY DEF WorkerInv, Known
<1>2. Types'
  BY <1>1, TypesStep
<1>3. Unsent'
  BY <1>1, UnsentStep
<1>4. Known'
  BY <1>1, KnownStep
<1>5. Somewhere'
  BY <1>1, <1>2, SomewhereStep
<1>6. Bounds'
  BY <1>1, BoundsStep DEF WorkerInv
<1> QED BY <1>2, <1>3, <1>4, <1>5, <1>6 DEF WorkerInv

\* The invariant always holds.
LEMMA WorkerAlways == WorkerSpec => []WorkerInv
<1>1. WorkerInit => WorkerInv
  BY WorkerInit0
<1>2. WorkerInv /\ [WorkerNext]_wvars => WorkerInv'
  BY WorkerStep
<1> QED BY <1>1, <1>2, PTL DEF WorkerSpec

\* The deliveries, the executions and the maps of the runtimes have their types.
THEOREM WorkerTypeTheorem == WorkerSpec => []WorkerTypeOK
<1>1. WorkerInv => WorkerTypeOK
  BY DEF WorkerInv, Types
<1> QED BY <1>1, WorkerAlways, PTL

\* Over RabbitMQ a task without a reported outcome is queued, to be redelivered or not
\* acknowledged, whatever is refused and whoever stops or dies.
THEOREM NothingLostTheorem == WorkerSpec => []NothingLost
<1>1. WorkerInv => NothingLost
  BY SomewhereFindsAll DEF WorkerInv
<1> QED BY <1>1, WorkerAlways, PTL

\* The stop of a worker waits for every run that no cancel and no second run of the same
\* task took out of active_tasks.
THEOREM StopSeesRunsTheorem == WorkerSpec => []StopSeesRuns
<1>1. WorkerInv => StopSeesRuns
  BY DEF WorkerInv, Known
<1> QED BY <1>1, WorkerAlways, PTL

\* Only a run that is cancelled, or meets another run of its task on the same worker,
\* loses its directory.
THEOREM DirectoryKeptTheorem == WorkerSpec => []DirectoryKept
<1>1. WorkerInv => DirectoryKept
  BY DEF WorkerInv, Known
<1> QED BY <1>1, WorkerAlways, PTL

\* What fits is in the bound, for no more than all that has stopped is gone.
LEMMA FitsInBound == WorkerInv => RunsBounded
<1> SUFFICES ASSUME WorkerInv, broker = "rabbitmq", NEW t \in Task
             PROVE  runs[t] <= (1 + refused) * 2 ^ ends
  BY DEF RunsBounded
<1>1. Types /\ CountTypes /\ Fits(t)
  BY DEF WorkerInv, Bounds
<1>2. IsFiniteSet(Halting) /\ Cardinality(Halting) \in Nat
  BY WorkerAssumption, FS_Subset, FS_CardinalityType DEF Halting
<1>3. Halts \in Nat /\ ends \in Nat /\ refused \in Nat /\ Halts <= ends
  BY <1>1, <1>2 DEF CountTypes, Halts
<1>4. 2 ^ Halts <= 2 ^ ends /\ 2 ^ Halts \in Nat /\ 2 ^ ends \in Nat
  BY <1>3, Grows, Doubles
<1>5. runs[t] <= Room
  <2>1. /\ queue[t].fresh \in Nat /\ queue[t].again \in Nat /\ redel[t] \in Nat /\ runs[t] \in Nat
        /\ Num(t, Before) \in Nat
    BY <1>1, Numbers
  <2>2. Room \in Nat
    <3>1. ASSUME NEW k \in Nat, NEW p \in Nat PROVE (1 + k) * p \in Nat
      OBVIOUS
    <3> QED BY <1>3, <1>4, <3>1 DEF Room
  <2> QED BY <1>1, <2>1, <2>2 DEF Fits, Copies
<1>6. Room <= (1 + refused) * 2 ^ ends
  <2> DEFINE p == 2 ^ Halts
             q == 2 ^ ends
  <2>1. p \in Nat /\ q \in Nat /\ p <= q
    BY <1>4
  <2> HIDE DEF p, q
  <2>2. ASSUME NEW k \in Nat PROVE k * p <= k * q
    BY <2>1, <2>2
  <2>3. (1 + refused) * p <= (1 + refused) * q
    BY <1>3, <2>2
  <2> QED BY <2>3 DEF Room, p, q
<1>7. /\ runs[t] \in Nat /\ Room \in Nat /\ (1 + refused) * 2 ^ ends \in Nat
  <2>1. ASSUME NEW k \in Nat, NEW p \in Nat PROVE (1 + k) * p \in Nat
    OBVIOUS
  <2>2. Room \in Nat /\ (1 + refused) * 2 ^ ends \in Nat
    BY <1>3, <1>4, <2>1 DEF Room
  <2> QED BY <1>1, <2>2, Numbers
<1> DEFINE r == (1 + refused) * 2 ^ ends
<1>8. runs[t] <= Room /\ Room <= r /\ runs[t] \in Nat /\ Room \in Nat /\ r \in Nat
  BY <1>5, <1>6, <1>7
<1> HIDE DEF r
<1>9. runs[t] <= r
  BY <1>8
<1> QED BY <1>9 DEF r

\* Over RabbitMQ a task runs at most once for its publication and for each report that
\* the broker refused, doubled by each worker that stops or dies.
THEOREM RunsBoundedTheorem == WorkerSpec => []RunsBounded
BY FitsInBound, WorkerAlways, PTL

=============================================================================
