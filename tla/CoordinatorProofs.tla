-------------------------- MODULE CoordinatorProofs --------------------------
(***************************************************************************)
(* What TLAPS proves of the coordinator for every set of definitions,      *)
(* every workflow and every bound: the rows of the datastore keep their    *)
(* types, every identifier the coordinator follows names a row, and every  *)
(* task it creates is one its job's definition asks for.                   *)
(*                                                                         *)
(* A handler is an effect (the datastore and the messages it leaves), so   *)
(* the proof has a lemma for each effect, one for the delivery that        *)
(* applies it, and one step for each action.                               *)
(*                                                                         *)
(* The second half keeps the coordinator's work in books: the datastore,   *)
(* who holds a task, and the job events on their way.  Every handler is    *)
(* one of a few entries in the books, or two of them in a row, and each    *)
(* entry keeps the books balanced, leaves what has failed for good as it   *)
(* is, and keeps a job that can still move on moving; OrderProofs shows    *)
(* which entries a handler makes.                                          *)
(***************************************************************************)
EXTENDS Coordinator, SequenceTheorems, FiniteSetTheorems, WellFoundedInduction, TLAPS

----------------------------------------------------------------------------
(* Bags.                                                                   *)

\* A set of messages published at once is a bag.
LEMMA SetToBagIsBag ==
  ASSUME NEW S
  PROVE  IsABag(SetToBag(S)) /\ BagToSet(SetToBag(S)) = S
BY DEF IsABag, SetToBag, BagToSet

\* What publishing adds to a bag is in it afterwards, and it stays a bag.
LEMMA UnionIsBag ==
  ASSUME NEW A, NEW B, IsABag(A), IsABag(B)
  PROVE  IsABag(A (+) B) /\ BagToSet(A (+) B) = BagToSet(A) \cup BagToSet(B)
BY DEF IsABag, BagToSet, (+)

\* Taking a delivery out of a bag leaves a bag of what was in it.
LEMMA DifferenceIsBag ==
  ASSUME NEW A, NEW B, IsABag(A), IsABag(B)
  PROVE  IsABag(A (-) B) /\ BagToSet(A (-) B) \subseteq BagToSet(A)
BY DEF IsABag, BagToSet, (-)

\* What is in flight after a delivery was in flight before or has been sent.
LEMMA Delivered ==
  ASSUME NEW B, NEW m, NEW S, IsABag(B)
  PROVE  /\ IsABag((B (-) SetToBag({m})) (+) SetToBag(S))
         /\ BagToSet((B (-) SetToBag({m})) (+) SetToBag(S)) \subseteq BagToSet(B) \cup S
<1>1. IsABag(B (-) SetToBag({m})) /\ BagToSet(B (-) SetToBag({m})) \subseteq BagToSet(B)
  BY SetToBagIsBag, DifferenceIsBag
<1>2. QED BY <1>1, SetToBagIsBag, UnionIsBag

----------------------------------------------------------------------------
(* Sequences.                                                              *)

\* A function on 1 .. n is a sequence: the subtasks a fan-out creates.
LEMMA FunctionIsSeq ==
  ASSUME NEW S, NEW n \in Nat, NEW f \in [1 .. n -> S]
  PROVE  f \in Seq(S) /\ Len(f) = n /\ DOMAIN f = 1 .. n
<1>1. f \in Seq(S) BY SeqDef
<1>2. QED BY <1>1, LenProperties

\* Writing one row is a function update.
LEMMA WithTaskUpdates ==
  ASSUME NEW S, NEW ts \in Seq(S), NEW t, NEW r
  PROVE  WithTask(ts, t, r) = [ts EXCEPT ![t] = r]
BY DEF WithTask

\* Replacing one row leaves a sequence of rows of the same length.
LEMMA UpdateIsSeq ==
  ASSUME NEW S, NEW seq \in Seq(S), NEW i \in 1 .. Len(seq), NEW x \in S
  PROVE  /\ [seq EXCEPT ![i] = x] \in Seq(S)
         /\ Len([seq EXCEPT ![i] = x]) = Len(seq)
         /\ [seq EXCEPT ![i] = x][i] = x
         /\ \A j \in 1 .. Len(seq) : j # i => [seq EXCEPT ![i] = x][j] = seq[j]
BY ExceptSeq

----------------------------------------------------------------------------
(* The datastore: what the invariants say of one row, and what an effect   *)
(* may do to the rows there are.                                           *)

JobRow(js, ts, j) ==
  /\ js[j].parent \in {0} \cup DOMAIN ts
  /\ js[j].tasks # <<>> /\ js[j].position <= Len(js[j].tasks)
  /\ js[j].parent # 0 => js[j].tasks = Children[ts[js[j].parent].step]

TaskRow(js, ts, t) ==
  /\ ts[t].job \in DOMAIN js
  /\ ts[t].parent \in {0} \cup DOMAIN ts
  /\ ts[t].subjob \in {0} \cup DOMAIN js
  /\ IF ts[t].parent = 0 THEN FromList(ts, js, t) ELSE FromParent(ts, t)
  /\ ts[t].attempts <= RetryLimit[ts[t].step]
  /\ ts[t].subjob # 0 => js[ts[t].subjob].tasks = Children[ts[t].step]

Sound(js, ts) ==
  /\ js \in Seq(Job) /\ ts \in Seq(Task)
  /\ \A j \in 1 .. Len(js) : JobRow(js, ts, j)
  /\ \A t \in 1 .. Len(ts) : TaskRow(js, ts, t)

\* Soundness of the datastore, row by row.
LEMMA SoundRows ==
  ASSUME NEW js \in Seq(Job), NEW ts \in Seq(Task)
  PROVE  Sound(js, ts) <=> Linked(js, ts) /\ MatchesDefinitions(js, ts)
<1>1. DOMAIN js = 1 .. Len(js) /\ DOMAIN ts = 1 .. Len(ts)
  BY LenProperties
<1>2. QED BY <1>1 DEF Sound, Linked, MatchesDefinitions, JobRow, TaskRow

\* The fields of a row that no handler changes.
SameJob(r, s)  == r.tasks = s.tasks /\ r.parent = s.parent
SameTask(r, s) == /\ r.job = s.job /\ r.step = s.step /\ r.parent = s.parent
                  /\ r.position = s.position /\ r.attempts = s.attempts

\* The rows of js and ts keep those fields, and the rows js2 and ts2 have beyond
\* them are sound.
Extends(js, ts, js2, ts2) ==
  /\ js2 \in Seq(Job) /\ ts2 \in Seq(Task)
  /\ Len(js) <= Len(js2) /\ Len(ts) <= Len(ts2)
  /\ \A j \in 1 .. Len(js) :
       SameJob(js2[j], js[j]) /\ js2[j].position <= Len(js2[j].tasks)
  /\ \A j \in 1 .. Len(js2) : j > Len(js) => JobRow(js2, ts2, j)
  /\ \A t \in 1 .. Len(ts) :
       /\ SameTask(ts2[t], ts[t])
       /\ \/ ts2[t].subjob = ts[t].subjob
          \/ /\ ts2[t].subjob \in 1 .. Len(js2)
             /\ js2[ts2[t].subjob].tasks = Children[ts2[t].step]
  /\ \A t \in 1 .. Len(ts2) : t > Len(ts) => TaskRow(js2, ts2, t)

\* A datastore that only grows, its old rows keeping what links them, stays sound.
LEMMA Extension ==
  ASSUME NEW js, NEW ts, NEW js2, NEW ts2, Sound(js, ts), Extends(js, ts, js2, ts2)
  PROVE  Sound(js2, ts2)
<1>1. /\ DOMAIN js = 1 .. Len(js) /\ DOMAIN js2 = 1 .. Len(js2)
      /\ DOMAIN ts = 1 .. Len(ts) /\ DOMAIN ts2 = 1 .. Len(ts2)
      /\ Len(js) \in Nat /\ Len(js2) \in Nat /\ Len(ts) \in Nat /\ Len(ts2) \in Nat
      /\ Len(js) <= Len(js2) /\ Len(ts) <= Len(ts2)
  BY LenProperties DEF Sound, Extends
<1>2. ASSUME NEW j \in 1 .. Len(js) PROVE JobRow(js2, ts2, j)
  <2>1. JobRow(js, ts, j) BY DEF Sound
  <2>2. SameJob(js2[j], js[j]) /\ js2[j].position <= Len(js2[j].tasks)
    BY DEF Extends
  <2>3. \A t \in 1 .. Len(ts) : ts2[t].step = ts[t].step BY DEF Extends, SameTask
  <2>4. QED BY <1>1, <2>1, <2>2, <2>3 DEF JobRow, SameJob
<1>3. ASSUME NEW t \in 1 .. Len(ts) PROVE TaskRow(js2, ts2, t)
  <2>1. TaskRow(js, ts, t) BY DEF Sound
  <2>2. SameTask(ts2[t], ts[t]) BY DEF Extends
  <2>3. \A j \in 1 .. Len(js) : js2[j].tasks = js[j].tasks BY DEF Extends, SameJob
  <2>4. \A u \in 1 .. Len(ts) : ts2[u].step = ts[u].step /\ ts2[u].job = ts[u].job
    BY DEF Extends, SameTask
  <2>5. IF ts2[t].parent = 0 THEN FromList(ts2, js2, t) ELSE FromParent(ts2, t)
    <3>1. CASE ts[t].parent = 0
      <4>1. FromList(ts, js, t) BY <2>1, <3>1 DEF TaskRow
      <4>2. js2[ts2[t].job].tasks = js[ts[t].job].tasks
        BY <1>1, <2>1, <2>2, <2>3 DEF TaskRow, SameTask
      <4>3. ts2[t].position = ts[t].position /\ ts2[t].step = ts[t].step
        BY <2>2 DEF SameTask
      <4>4. FromList(ts2, js2, t)
        BY <4>1, <4>2, <4>3 DEF FromList
      <4>5. QED BY <2>2, <3>1, <4>4 DEF SameTask
    <3>2. CASE ts[t].parent # 0
      <4>1. FromParent(ts, t) BY <2>1, <3>2 DEF TaskRow
      <4>2. ts[t].parent \in 1 .. Len(ts) BY <1>1, <2>1, <3>2 DEF TaskRow
      <4>3. /\ ts2[ts2[t].parent].step = ts[ts[t].parent].step
            /\ ts2[ts2[t].parent].job = ts[ts[t].parent].job
        BY <2>2, <2>4, <4>2 DEF SameTask
      <4>4. FromParent(ts2, t)
        BY <2>2, <4>1, <4>3 DEF FromParent, SameTask
      <4>5. QED BY <2>2, <3>2, <4>4 DEF SameTask
    <3>3. QED BY <3>1, <3>2
  <2>6. /\ ts2[t].subjob \in {0} \cup DOMAIN js2
        /\ ts2[t].subjob # 0 => js2[ts2[t].subjob].tasks = Children[ts2[t].step]
    <3>1. ts2[t].step = ts[t].step BY <2>2 DEF SameTask
    <3>2. \/ ts2[t].subjob = ts[t].subjob
          \/ ts2[t].subjob \in 1 .. Len(js2) /\ js2[ts2[t].subjob].tasks = Children[ts2[t].step]
      BY DEF Extends
    <3>3. CASE ts2[t].subjob = ts[t].subjob
      <4>1. /\ ts[t].subjob \in {0} \cup 1 .. Len(js)
            /\ ts[t].subjob # 0 => js[ts[t].subjob].tasks = Children[ts[t].step]
        BY <1>1, <2>1 DEF TaskRow
      <4>2. QED BY <1>1, <2>3, <3>1, <3>3, <4>1
    <3>4. QED BY <1>1, <3>2, <3>3
  <2>7. QED BY <1>1, <2>1, <2>2, <2>5, <2>6 DEF TaskRow, SameTask
<1>4. QED BY <1>1, <1>2, <1>3 DEF Sound, Extends

\* The fields of a new or updated job.
LEMMA JobStateSound ==
  ASSUME NEW js, NEW ts, Sound(js, ts), NEW j \in 1 .. Len(js), NEW st \in JobState
  PROVE  /\ Sound([js EXCEPT ![j].state = st], ts)
         /\ Len([js EXCEPT ![j].state = st]) = Len(js)
         /\ \A k \in 1 .. Len(js) : [js EXCEPT ![j].state = st][k].tasks = js[k].tasks
<1> DEFINE r   == [js[j] EXCEPT !.state = st]
           js2 == [js EXCEPT ![j] = r]
<1>1. js \in Seq(Job) /\ ts \in Seq(Task) BY DEF Sound
<1>2. js[j] \in Job BY <1>1, ElementOfSeq
<1>3. r \in Job /\ SameJob(r, js[j]) /\ r.position = js[j].position
  BY <1>2 DEF Job, SameJob
<1>4. /\ js2 \in Seq(Job) /\ Len(js2) = Len(js) /\ js2[j] = r
      /\ \A k \in 1 .. Len(js) : k # j => js2[k] = js[k]
  <2> HIDE DEF r
  <2>1. QED BY <1>1, <1>3, UpdateIsSeq
<1>5. \A k \in 1 .. Len(js) : SameJob(js2[k], js[k]) /\ js2[k].position = js[k].position
  <2> HIDE DEF r, js2
  <2>1. QED BY <1>3, <1>4 DEF SameJob
<1>6. \A k \in 1 .. Len(js) : js2[k].position <= Len(js2[k].tasks)
  <2> HIDE DEF js2
  <2>1. QED BY <1>5 DEF Sound, JobRow, SameJob
<1>7. Sound(js2, ts)
  <2> HIDE DEF js2
  <2>1. Len(js) \in Nat /\ Len(ts) \in Nat BY <1>1, LenProperties
  <2>2. Extends(js, ts, js2, ts)
    BY <1>1, <1>4, <1>5, <1>6, <2>1 DEF Extends, SameTask
  <2>3. QED BY <2>2, Extension
<1>8. [js EXCEPT ![j].state = st] = js2 OBVIOUS
<1>9. QED BY <1>4, <1>5, <1>7, <1>8 DEF SameJob

\* Moving a job to a position of its list keeps the datastore sound.
LEMMA JobPositionSound ==
  ASSUME NEW js, NEW ts, Sound(js, ts), NEW j \in 1 .. Len(js),
         NEW p \in 1 .. Len(js[j].tasks)
  PROVE  /\ Sound([js EXCEPT ![j].position = p], ts)
         /\ Len([js EXCEPT ![j].position = p]) = Len(js)
         /\ \A k \in 1 .. Len(js) : [js EXCEPT ![j].position = p][k].tasks = js[k].tasks
<1> DEFINE r   == [js[j] EXCEPT !.position = p]
           js2 == [js EXCEPT ![j] = r]
<1>1. js \in Seq(Job) /\ ts \in Seq(Task) BY DEF Sound
<1>2. js[j] \in Job BY <1>1, ElementOfSeq
<1>3. r \in Job /\ SameJob(r, js[j]) /\ r.position <= Len(r.tasks)
  <2>1. Len(js[j].tasks) \in Nat BY <1>2, LenProperties DEF Job
  <2>2. QED BY <1>2, <2>1 DEF Job, SameJob
<1>4. /\ js2 \in Seq(Job) /\ Len(js2) = Len(js) /\ js2[j] = r
      /\ \A k \in 1 .. Len(js) : k # j => js2[k] = js[k]
  <2> HIDE DEF r
  <2>1. QED BY <1>1, <1>3, UpdateIsSeq
<1>5. \A k \in 1 .. Len(js) :
        SameJob(js2[k], js[k]) /\ js2[k].position <= Len(js2[k].tasks)
  <2> HIDE DEF r, js2
  <2>1. QED BY <1>3, <1>4 DEF SameJob, Sound, JobRow
<1>6. Sound(js2, ts)
  <2> HIDE DEF js2
  <2>1. Len(js) \in Nat /\ Len(ts) \in Nat BY <1>1, LenProperties
  <2>2. Extends(js, ts, js2, ts)
    BY <1>1, <1>4, <1>5, <2>1 DEF Extends, SameTask
  <2>3. QED BY <2>2, Extension
<1>7. [js EXCEPT ![j].position = p] = js2 OBVIOUS
<1>8. QED BY <1>4, <1>5, <1>6, <1>7 DEF SameJob

\* So does a new state or completion count of one task.
LEMMA TaskUpdateSound ==
  ASSUME NEW js, NEW ts, Sound(js, ts), NEW t \in 1 .. Len(ts), NEW r \in Task,
         SameTask(r, ts[t]), r.subjob = ts[t].subjob
  PROVE  Sound(js, [ts EXCEPT ![t] = r]) /\ Len([ts EXCEPT ![t] = r]) = Len(ts)
<1> DEFINE ts2 == [ts EXCEPT ![t] = r]
<1>1. js \in Seq(Job) /\ ts \in Seq(Task) BY DEF Sound
<1>2. /\ ts2 \in Seq(Task) /\ Len(ts2) = Len(ts) /\ ts2[t] = r
      /\ \A u \in 1 .. Len(ts) : u # t => ts2[u] = ts[u]
  BY <1>1, UpdateIsSeq
<1> HIDE DEF ts2
<1>3. \A u \in 1 .. Len(ts) : SameTask(ts2[u], ts[u]) /\ ts2[u].subjob = ts[u].subjob
  BY <1>2 DEF SameTask
<1>4. \A k \in 1 .. Len(js) : SameJob(js[k], js[k]) /\ js[k].position <= Len(js[k].tasks)
  BY DEF SameJob, Sound, JobRow
<1>5. Len(js) \in Nat /\ Len(ts) \in Nat BY <1>1, LenProperties
<1>6. Extends(js, ts, js, ts2)
  BY <1>1, <1>2, <1>3, <1>4, <1>5 DEF Extends
<1>7. QED BY <1>2, <1>6, Extension DEF ts2

\* So does a new state for a set of tasks.
LEMMA WithStateSound ==
  ASSUME NEW js, NEW ts, Sound(js, ts), NEW T, NEW st \in TaskState
  PROVE  Sound(js, WithState(ts, T, st)) /\ Len(WithState(ts, T, st)) = Len(ts)
<1> DEFINE ts2 == WithState(ts, T, st)
<1>1. js \in Seq(Job) /\ ts \in Seq(Task) BY DEF Sound
<1>2. DOMAIN ts = 1 .. Len(ts) /\ Len(ts) \in Nat /\ Len(js) \in Nat BY <1>1, LenProperties
<1>3. \A u \in 1 .. Len(ts) : ts[u] \in Task BY <1>1, ElementOfSeq
<1>4. \A u \in 1 .. Len(ts) :
        /\ ts2[u] \in Task /\ SameTask(ts2[u], ts[u])
        /\ ts2[u].subjob = ts[u].subjob
  BY <1>2, <1>3 DEF WithState, Task, SameTask
<1>5. ts2 \in [1 .. Len(ts) -> Task] BY <1>2, <1>4 DEF WithState
<1> HIDE DEF ts2
<1>6. ts2 \in Seq(Task) /\ Len(ts2) = Len(ts) BY <1>2, <1>5, FunctionIsSeq
<1>7. \A k \in 1 .. Len(js) : SameJob(js[k], js[k]) /\ js[k].position <= Len(js[k].tasks)
  BY DEF SameJob, Sound, JobRow
<1>8. Extends(js, ts, js, ts2) BY <1>1, <1>2, <1>4, <1>6, <1>7 DEF Extends
<1>9. QED BY <1>6, <1>8, Extension DEF ts2

\* A task created for a position of its job's list.
TopLevelRow(js, r) ==
  /\ r \in Task /\ r.job \in 1 .. Len(js)
  /\ r.parent = 0 /\ r.subjob = 0 /\ r.attempts = 0
  /\ r.position \in 1 .. Len(js[r.job].tasks)
  /\ r.step = js[r.job].tasks[r.position]

\* So does a task appended by a handler, when its row is right.
LEMMA NewTaskSound ==
  ASSUME NEW js, NEW ts, NEW r, Sound(js, ts), TopLevelRow(js, r)
  PROVE  Sound(js, Append(ts, r)) /\ Len(Append(ts, r)) = Len(ts) + 1
<1> DEFINE ts2 == Append(ts, r)
           j   == r.job
           p   == r.position
<1>1. js \in Seq(Job) /\ ts \in Seq(Task) BY DEF Sound
<1>2. js[j] \in Job BY <1>1, ElementOfSeq DEF TopLevelRow
<1>3. js[j].tasks \in Seq(Step) BY <1>2 DEF Job
<1>4. Len(js[j].tasks) \in Nat /\ js[j].tasks[p] \in Step
  BY <1>3, LenProperties, ElementOfSeq DEF TopLevelRow
<1>5. r \in Task BY DEF TopLevelRow
<1>6. /\ r.job = j /\ r.parent = 0 /\ r.subjob = 0 /\ r.attempts = 0
      /\ r.position = p /\ r.step = js[j].tasks[p]
      /\ j \in 1 .. Len(js) /\ p \in 1 .. Len(js[j].tasks)
  BY DEF TopLevelRow
<1> HIDE DEF j, p
<1>7. /\ ts2 \in Seq(Task) /\ Len(ts2) = Len(ts) + 1
      /\ \A u \in 1 .. Len(ts) : ts2[u] = ts[u]
      /\ ts2[Len(ts) + 1] = r
  BY <1>1, <1>5, AppendProperties
<1>8. /\ DOMAIN js = 1 .. Len(js) /\ DOMAIN ts2 = 1 .. Len(ts2)
      /\ Len(ts) \in Nat /\ Len(js) \in Nat
  BY <1>1, <1>7, LenProperties
<1> HIDE DEF ts2
<1>9. TaskRow(js, ts2, Len(ts) + 1)
  <2>1. FromList(ts2, js, Len(ts) + 1) BY <1>6, <1>7 DEF FromList
  <2>2. 0 <= RetryLimit[r.step] BY <1>4, <1>6, WorkflowAssumption
  <2>3. QED BY <1>6, <1>7, <1>8, <2>1, <2>2 DEF TaskRow
<1>10. \A k \in 1 .. Len(js) : SameJob(js[k], js[k]) /\ js[k].position <= Len(js[k].tasks)
  BY DEF SameJob, Sound, JobRow
<1>11. \A u \in 1 .. Len(ts) : SameTask(ts2[u], ts[u]) /\ ts2[u].subjob = ts[u].subjob
  BY <1>7 DEF SameTask
<1>12. \A u \in 1 .. Len(ts2) : u > Len(ts) => TaskRow(js, ts2, u)
  BY <1>7, <1>8, <1>9
<1>13. Extends(js, ts, js, ts2)
  BY <1>1, <1>7, <1>8, <1>10, <1>11, <1>12 DEF Extends
<1>14. QED BY <1>7, <1>13, Extension DEF ts2

\* A new task of a job's list is right when it is the definition at its position.
LEMMA NewTaskRow ==
  ASSUME NEW js, NEW ts, Sound(js, ts), NEW j \in 1 .. Len(js),
         NEW p \in 1 .. Len(js[j].tasks), NEW ev \in BOOLEAN
  PROVE  TopLevelRow(js, NewTask(j, js[j].tasks[p], 0, p, ev))
<1>1. js \in Seq(Job) /\ js[j] \in Job BY ElementOfSeq DEF Sound
<1>2. js[j].tasks \in Seq(Step) /\ Len(js) \in Nat BY <1>1, LenProperties DEF Job
<1>3. Len(js[j].tasks) \in Nat /\ js[j].tasks[p] \in Step
  BY <1>2, LenProperties, ElementOfSeq
<1>4. QED BY <1>2, <1>3 DEF TopLevelRow, NewTask, Task, TaskState

----------------------------------------------------------------------------
(* Effects.                                                                *)

\* A message that names one of the first nj jobs or nt tasks.
Sendable(x, nj, nt) ==
  /\ x \in Message
  /\ IF x.queue = "x-jobs" THEN x.job \in 1 .. nj ELSE x.task \in 1 .. nt

\* What every handler guarantees when it runs on a sound datastore.
Allowed(e, js, ts) ==
  /\ Sound(e.jobs, e.tasks)
  /\ Len(js) <= Len(e.jobs) /\ Len(ts) <= Len(e.tasks)
  /\ \A x \in e.sent : Sendable(x, Len(e.jobs), Len(e.tasks))

\* The three parts of an effect the invariant allows.
LEMMA EffectAllowed ==
  ASSUME NEW js, NEW ts, NEW js2, NEW ts2, NEW S, Sound(js2, ts2),
         Len(js) <= Len(js2), Len(ts) <= Len(ts2),
         \A x \in S : Sendable(x, Len(js2), Len(ts2))
  PROVE  Allowed(Effect(js2, ts2, S), js, ts)
BY DEF Allowed, Effect

\* A task message may be published once its task has a row.
LEMMA TaskMsgSendable ==
  ASSUME NEW q \in TaskQueue, NEW nj, NEW nt \in Nat, NEW t \in 1 .. nt
  PROVE  Sendable(TaskMsg(q, t), nj, nt)
BY DEF Sendable, TaskMsg, Message, TaskMessage, TaskQueue

\* A job event may be published once its job has a row.
LEMMA JobMsgSendable ==
  ASSUME NEW js \in Seq(Job), NEW j \in 1 .. Len(js), NEW st \in JobState, NEW nt
  PROVE  Sendable(JobMsg(js, j, st), Len(js), nt)
<1>1. js[j] \in Job /\ Len(js) \in Nat BY ElementOfSeq, LenProperties
<1>2. JobMsg(js, j, st) \in JobMessage BY <1>1 DEF JobMsg, JobMessage, Job
<1>3. QED BY <1>2 DEF Sendable, Message, JobMsg

\* handle_pending_task leaves the datastore sound whatever the kind of task.
LEMMA PendingAllowed ==
  ASSUME NEW js, NEW ts, Sound(js, ts), NEW t \in 1 .. Len(ts)
  PROVE  Allowed(HandlePending(js, ts, t), js, ts)
<1> DEFINE s == ts[t].step
<1>1. js \in Seq(Job) /\ ts \in Seq(Task) BY DEF Sound
<1>2. Len(js) \in Nat /\ Len(ts) \in Nat /\ ts[t] \in Task
  BY <1>1, LenProperties, ElementOfSeq
<1>3. s \in Step /\ ts[t].job \in Nat BY <1>2 DEF Task
<1>4. Children[s] \in Seq(Step) /\ Kind[s] \in StepKind /\ RetryLimit[s] \in Nat
  BY <1>3, WorkflowAssumption
<1>5. Len(Children[s]) \in Nat /\ DOMAIN Children[s] = 1 .. Len(Children[s])
  BY <1>4, LenProperties
<1>6. TaskRow(js, ts, t) BY DEF Sound
<1>7. CASE s \in Skipped
  <2>1. /\ Sound(js, WithState(ts, {t}, "Skipped"))
        /\ Len(WithState(ts, {t}, "Skipped")) = Len(ts)
    BY WithStateSound DEF TaskState
  <2>2. Sendable(TaskMsg("x-completed", t), Len(js), Len(ts))
    BY <1>2, TaskMsgSendable DEF TaskQueue
  <2>3. HandlePending(js, ts, t) =
          Effect(js, WithState(ts, {t}, "Skipped"), {TaskMsg("x-completed", t)})
    BY <1>7 DEF HandlePending, SkipTask
  <2>4. QED BY <1>2, <2>1, <2>2, <2>3, EffectAllowed
<1>8. CASE s \notin Skipped /\ Kind[s] = "regular"
  <2>1. /\ Sound(js, WithState(ts, {t}, "Scheduled"))
        /\ Len(WithState(ts, {t}, "Scheduled")) = Len(ts)
    BY WithStateSound DEF TaskState
  <2>2. Sendable(TaskMsg("worker", t), Len(js), Len(ts))
    BY <1>2, TaskMsgSendable DEF TaskQueue
  <2>3. HandlePending(js, ts, t) =
          Effect(js, WithState(ts, {t}, "Scheduled"), {TaskMsg("worker", t)})
    BY <1>8 DEF HandlePending, ScheduleRegular
  <2>4. QED BY <1>2, <2>1, <2>2, <2>3, EffectAllowed
<1>9. CASE s \notin Skipped /\ Kind[s] = "fanout"
  <2> DEFINE n    == Len(Children[s])
             run  == WithState(ts, {t}, "Running")
             kids == [i \in 1 .. n |-> NewTask(ts[t].job, Children[s][i], t, 0, TRUE)]
             ts2  == run \o kids
             sent == {TaskMsg("x-pending", Len(ts) + i) : i \in 1 .. n}
  <2>1. Sound(js, run) /\ Len(run) = Len(ts)
    BY WithStateSound DEF TaskState
  <2>2. \A i \in 1 .. n : Children[s][i] \in Step BY <1>4, ElementOfSeq
  <2>3. \A i \in 1 .. n : kids[i] \in Task
    BY <1>2, <1>3, <2>2 DEF NewTask, Task, TaskState
  <2>4. kids \in [1 .. n -> Task] BY <2>3
  <2>5. /\ run[t].step = s /\ run[t].job = ts[t].job
    <3>1. DOMAIN ts = 1 .. Len(ts) BY <1>1, LenProperties
    <3>2. QED BY <1>2, <3>1 DEF WithState, Task
  <2>6. \A i \in 1 .. n : /\ kids[i].job = ts[t].job /\ kids[i].parent = t
                          /\ kids[i].step = Children[s][i] /\ kids[i].subjob = 0
                          /\ kids[i].attempts = 0
    BY DEF NewTask
  <2> HIDE DEF kids, run
  <2>7. kids \in Seq(Task) /\ Len(kids) = n BY <1>5, <2>4, FunctionIsSeq
  <2>8. run \in Seq(Task) /\ \A u \in 1 .. Len(run) : run[u] \in Task
    BY <2>1, ElementOfSeq DEF Sound
  <2>9. /\ ts2 \in Seq(Task) /\ Len(ts2) = Len(ts) + n
        /\ \A u \in 1 .. Len(ts) : ts2[u] = run[u]
        /\ \A u \in 1 .. Len(ts2) : u > Len(ts) => ts2[u] = kids[u - Len(ts)]
    <3>1. /\ run \o kids \in Seq(Task)
          /\ Len(run \o kids) = Len(run) + Len(kids)
          /\ \A u \in 1 .. Len(run) + Len(kids) : (run \o kids)[u] =
               IF u <= Len(run) THEN run[u] ELSE kids[u - Len(run)]
      BY <2>7, <2>8, ConcatProperties
    <3>2. QED BY <1>2, <1>5, <2>1, <2>7, <3>1
  <2>10. DOMAIN js = 1 .. Len(js) /\ DOMAIN ts2 = 1 .. Len(ts2)
    BY <1>1, <2>9, LenProperties
  <2> HIDE DEF ts2
  <2>11. ASSUME NEW u \in 1 .. Len(ts2), u > Len(ts) PROVE TaskRow(js, ts2, u)
    <3>1. u - Len(ts) \in 1 .. n BY <1>2, <1>5, <2>9, <2>11
    <3>2. ts2[u] = kids[u - Len(ts)] BY <2>9, <2>11
    <3>3. ts2[t].step = s /\ ts2[t].job = ts[t].job BY <2>5, <2>9
    <3>4. /\ ts2[u].job = ts[t].job /\ ts2[u].parent = t /\ ts2[u].subjob = 0
          /\ ts2[u].step = Children[s][u - Len(ts)] /\ ts2[u].attempts = 0
      BY <2>6, <3>1, <3>2
    <3>5. FromParent(ts2, u) BY <1>5, <1>9, <3>1, <3>3, <3>4 DEF FromParent
    <3>6. t # 0 /\ t \in 1 .. Len(ts2) BY <1>2, <1>5, <2>9
    <3>7. ts[t].job \in 1 .. Len(js) BY <1>6, <2>10 DEF TaskRow
    <3>8. ts2[u].step \in Step BY <2>2, <3>1, <3>4
    <3>9. 0 <= RetryLimit[ts2[u].step] BY <3>8, WorkflowAssumption
    <3>10. QED BY <2>10, <3>4, <3>5, <3>6, <3>7, <3>9 DEF TaskRow
  <2>12. Extends(js, run, js, ts2)
    <3>1. \A k \in 1 .. Len(js) : SameJob(js[k], js[k]) /\ js[k].position <= Len(js[k].tasks)
      BY DEF SameJob, Sound, JobRow
    <3>2. \A u \in 1 .. Len(run) : SameTask(ts2[u], run[u]) /\ ts2[u].subjob = run[u].subjob
      BY <2>1, <2>9 DEF SameTask
    <3>3. Len(run) <= Len(ts2) BY <1>2, <1>5, <2>1, <2>9
    <3>4. QED BY <1>1, <1>2, <2>1, <2>9, <2>11, <3>1, <3>2, <3>3 DEF Extends
  <2>13. Sound(js, ts2) BY <2>1, <2>12, Extension
  <2>14. \A x \in sent : Sendable(x, Len(js), Len(ts2))
    <3>1. ASSUME NEW i \in 1 .. n
          PROVE  Sendable(TaskMsg("x-pending", Len(ts) + i), Len(js), Len(ts2))
      <4>1. Len(ts) + i \in 1 .. Len(ts2) /\ Len(ts2) \in Nat BY <1>2, <1>5, <2>9
      <4>2. QED BY <4>1, TaskMsgSendable DEF TaskQueue
    <3>2. QED BY <3>1
  <2>15. HandlePending(js, ts, t) = Effect(js, ts2, sent)
    BY <1>9 DEF HandlePending, ScheduleFanOut, ts2, run, kids
  <2>16. Len(ts) <= Len(ts2) BY <1>2, <1>5, <2>9
  <2> HIDE DEF sent
  <2>17. QED BY <1>2, <2>13, <2>14, <2>15, <2>16, EffectAllowed
<1>10. CASE s \notin Skipped /\ Kind[s] = "subjob"
  <2> DEFINE kid == Len(js) + 1
             new == NewJob(Children[s], t)
             js2 == Append(js, new)
             r   == [ts[t] EXCEPT !.state = "Running", !.subjob = kid]
             ts2 == [ts EXCEPT ![t] = r]
  <2>1. new \in Job BY <1>1, <1>2, <1>4 DEF NewJob, Job, JobState
  <2>2. new.tasks = Children[s] /\ new.parent = t /\ new.position = 0
    BY DEF NewJob
  <2>3. r \in Task /\ SameTask(r, ts[t]) /\ r.subjob = kid
    <3>1. kid \in Nat BY <1>2
    <3> HIDE DEF kid
    <3>2. r.subjob = kid /\ SameTask(r, ts[t]) BY <1>2 DEF Task, SameTask
    <3>3. r \in Task BY <1>2, <3>1 DEF Task, TaskState
    <3>4. QED BY <3>2, <3>3
  <2>4. Children[s] # <<>> BY <1>3, <1>10, WorkflowAssumption
  <2> HIDE DEF new, r
  <2>5. /\ js2 \in Seq(Job) /\ Len(js2) = Len(js) + 1 /\ js2[kid] = new
        /\ \A k \in 1 .. Len(js) : js2[k] = js[k]
    BY <1>1, <2>1, AppendProperties
  <2>6. /\ ts2 \in Seq(Task) /\ Len(ts2) = Len(ts) /\ ts2[t] = r
        /\ \A u \in 1 .. Len(ts) : u # t => ts2[u] = ts[u]
    BY <1>1, <2>3, UpdateIsSeq
  <2>7. DOMAIN js2 = 1 .. Len(js2) /\ DOMAIN ts2 = 1 .. Len(ts2)
    BY <2>5, <2>6, LenProperties
  <2> HIDE DEF js2, ts2
  <2>8. JobRow(js2, ts2, kid)
    <3>1. ts2[t].step = s BY <2>3, <2>6 DEF SameTask
    <3>2. 0 <= Len(js2[kid].tasks) BY <1>5, <2>2, <2>5
    <3>3. QED BY <1>2, <2>2, <2>4, <2>5, <2>6, <2>7, <3>1, <3>2 DEF JobRow
  <2>9. Extends(js, ts, js2, ts2)
    <3>1. \A k \in 1 .. Len(js) :
            SameJob(js2[k], js[k]) /\ js2[k].position <= Len(js2[k].tasks)
      BY <2>5 DEF SameJob, Sound, JobRow
    <3>2. \A k \in 1 .. Len(js2) : k > Len(js) => JobRow(js2, ts2, k)
      BY <1>2, <2>5, <2>8
    <3>3. /\ ts2[t].subjob \in 1 .. Len(js2)
          /\ js2[ts2[t].subjob].tasks = Children[ts2[t].step]
      BY <1>2, <2>2, <2>3, <2>5, <2>6 DEF SameTask
    <3>4. \A u \in 1 .. Len(ts) :
            /\ SameTask(ts2[u], ts[u])
            /\ \/ ts2[u].subjob = ts[u].subjob
               \/ /\ ts2[u].subjob \in 1 .. Len(js2)
                  /\ js2[ts2[u].subjob].tasks = Children[ts2[u].step]
      BY <2>3, <2>6, <3>3 DEF SameTask
    <3>5. Len(js) <= Len(js2) /\ Len(ts) <= Len(ts2) BY <1>2, <2>5, <2>6
    <3>6. \A u \in 1 .. Len(ts2) : u > Len(ts) => TaskRow(js2, ts2, u) BY <1>2, <2>6
    <3>7. QED BY <2>5, <2>6, <3>1, <3>2, <3>4, <3>5, <3>6 DEF Extends
  <2>10. Sound(js2, ts2) BY <2>9, Extension
  <2>11. Sendable(JobMsg(js2, kid, "Pending"), Len(js2), Len(ts2))
    <3>1. kid \in 1 .. Len(js2) BY <1>2, <2>5
    <3>2. QED BY <2>5, <3>1, JobMsgSendable DEF JobState
  <2>12. HandlePending(js, ts, t) = Effect(js2, ts2, {JobMsg(js2, kid, "Pending")})
    BY <1>1, <1>10, WithTaskUpdates DEF HandlePending, ScheduleSubjob, js2, ts2, new, r
  <2>13. Len(js) <= Len(js2) /\ Len(ts) <= Len(ts2) BY <1>2, <2>5, <2>6
  <2>14. QED BY <2>10, <2>11, <2>12, <2>13, EffectAllowed
<1>11. QED BY <1>4, <1>7, <1>8, <1>9, <1>10 DEF StepKind

\* The facts every effect starts from.
LEMMA SoundTypes ==
  ASSUME NEW js, NEW ts, Sound(js, ts)
  PROVE  /\ js \in Seq(Job) /\ ts \in Seq(Task)
         /\ Len(js) \in Nat /\ Len(ts) \in Nat
         /\ DOMAIN js = 1 .. Len(js) /\ DOMAIN ts = 1 .. Len(ts)
         /\ \A j \in 1 .. Len(js) : js[j] \in Job
         /\ \A t \in 1 .. Len(ts) : ts[t] \in Task
BY LenProperties, ElementOfSeq DEF Sound

\* The links the handlers follow lead to rows.
LEMMA SoundLinks ==
  ASSUME NEW js, NEW ts, Sound(js, ts)
  PROVE  /\ \A j \in 1 .. Len(js) : js[j].parent # 0 => js[j].parent \in 1 .. Len(ts)
         /\ \A t \in 1 .. Len(ts) :
              /\ ts[t].job \in 1 .. Len(js)
              /\ ts[t].parent # 0 => ts[t].parent \in 1 .. Len(ts)
              /\ ts[t].subjob # 0 => ts[t].subjob \in 1 .. Len(js)
<1>1. DOMAIN js = 1 .. Len(js) /\ DOMAIN ts = 1 .. Len(ts) BY SoundTypes
<1>2. ASSUME NEW j \in 1 .. Len(js) PROVE js[j].parent # 0 => js[j].parent \in 1 .. Len(ts)
  <2>1. JobRow(js, ts, j) BY DEF Sound
  <2>2. QED BY <1>1, <2>1 DEF JobRow
<1>3. ASSUME NEW t \in 1 .. Len(ts)
      PROVE  /\ ts[t].job \in 1 .. Len(js)
             /\ ts[t].parent # 0 => ts[t].parent \in 1 .. Len(ts)
             /\ ts[t].subjob # 0 => ts[t].subjob \in 1 .. Len(js)
  <2>1. TaskRow(js, ts, t) BY DEF Sound
  <2>2. QED BY <1>1, <2>1 DEF TaskRow
<1>4. QED BY <1>2, <1>3

\* The cancellations of cancel_active_tasks go to subjobs that exist.
LEMMA CancelAllowed ==
  ASSUME NEW js, NEW ts, Sound(js, ts), NEW j
  PROVE  /\ Allowed(CancelActiveTasks(js, ts, j), js, ts)
         /\ CancelActiveTasks(js, ts, j).jobs = js
         /\ Len(CancelActiveTasks(js, ts, j).tasks) = Len(ts)
<1> DEFINE T    == Cancellable(ts, j)
           ts2  == WithState(ts, T, "Cancelled")
           sent == SubjobCancels(js, ts, T)
<1>1. T \subseteq 1 .. Len(ts) BY SoundTypes DEF Cancellable
<1> HIDE DEF T
<1>2. Sound(js, ts2) /\ Len(ts2) = Len(ts) BY WithStateSound DEF TaskState
<1> HIDE DEF ts2
<1>3. \A t \in T : ts[t].subjob # 0 =>
        Sendable(JobMsg(js, ts[t].subjob, "Cancelled"), Len(js), Len(ts2))
  BY <1>1, SoundTypes, SoundLinks, JobMsgSendable DEF JobState
<1>4. \A x \in sent : Sendable(x, Len(js), Len(ts2)) BY <1>3 DEF SubjobCancels
<1>5. CancelActiveTasks(js, ts, j) = Effect(js, ts2, sent)
  BY DEF CancelActiveTasks, ts2, T
<1> HIDE DEF sent
<1>6. Len(js) <= Len(js) /\ Len(ts) <= Len(ts2) BY <1>2, SoundTypes
<1>7. QED BY <1>2, <1>4, <1>5, <1>6, EffectAllowed DEF Effect

\* The next task of the list is the one its position names.
LEMMA AdvanceAllowed ==
  ASSUME NEW ts, Sound(jobs, ts), NEW j \in 1 .. Len(jobs)
  PROVE  Allowed(AdvanceJob(ts, j), jobs, ts)
<1> DEFINE list == jobs[j].tasks
           next == jobs[j].position + 1
<1>1. /\ Len(jobs) \in Nat /\ Len(ts) \in Nat /\ jobs \in Seq(Job)
      /\ list \in Seq(Step) /\ jobs[j].position \in Nat
  BY SoundTypes DEF Job
<1>2. Len(list) \in Nat BY <1>1, LenProperties
<1>3. CASE next <= Len(list)
  <2> DEFINE js2 == [jobs EXCEPT ![j].position = next]
             r   == NewTask(j, list[next], 0, next, FALSE)
             ts2 == Append(ts, r)
  <2>1. next \in 1 .. Len(list) BY <1>1, <1>2, <1>3
  <2>2. /\ Sound(js2, ts) /\ Len(js2) = Len(jobs)
        /\ js2[j].tasks = list
    BY <2>1, JobPositionSound
  <2>3. TopLevelRow(jobs, r) BY <2>1, NewTaskRow
  <2>4. Sound(js2, ts2) /\ Len(ts2) = Len(ts) + 1
    <3>1. r.job = j BY DEF NewTask
    <3> HIDE DEF js2, list, next, r
    <3>2. TopLevelRow(js2, r) BY <2>2, <2>3, <3>1 DEF TopLevelRow, list
    <3>3. QED BY <2>2, <3>2, NewTaskSound
  <2> HIDE DEF js2, list, next
  <2>5. Sendable(TaskMsg("x-pending", Len(ts) + 1), Len(js2), Len(ts2))
    BY <1>1, <2>4, TaskMsgSendable DEF TaskQueue
  <2>6. AdvanceJob(ts, j) = Effect(js2, ts2, {TaskMsg("x-pending", Len(ts) + 1)})
    BY <1>3 DEF AdvanceJob, js2, list, next
  <2> HIDE DEF ts2
  <2>7. Len(jobs) <= Len(js2) /\ Len(ts) <= Len(ts2) BY <1>1, <2>2, <2>4
  <2>8. QED BY <2>4, <2>5, <2>6, <2>7, EffectAllowed
<1>4. CASE ~(next <= Len(list))
  <2>1. AdvanceJob(ts, j) = Effect(jobs, ts, {JobMsg(jobs, j, "Completed")})
    BY <1>4 DEF AdvanceJob
  <2>2. Sendable(JobMsg(jobs, j, "Completed"), Len(jobs), Len(ts))
    BY <1>1, JobMsgSendable DEF JobState
  <2>3. QED BY <1>1, <2>1, <2>2, EffectAllowed
<1>5. QED BY <1>3, <1>4

\* Counting a completed subtask leaves the datastore sound.
LEMMA CountAllowed ==
  ASSUME NEW ts, Sound(jobs, ts), NEW p \in 1 .. Len(ts)
  PROVE  Allowed(CountSubtask(ts, p), jobs, ts)
<1> DEFINE r    == [ts[p] EXCEPT !.completions = @ + 1]
           ts2  == [ts EXCEPT ![p] = r]
           sent == IF Enough(ts2[p]) THEN {TaskMsg("x-completed", p)} ELSE {}
<1>1. Len(jobs) \in Nat /\ Len(ts) \in Nat /\ ts[p] \in Task BY SoundTypes
<1>2. r \in Task /\ SameTask(r, ts[p]) /\ r.subjob = ts[p].subjob
  BY <1>1, SMTT(30) DEF Task, SameTask
<1> HIDE DEF r
<1>3. Sound(jobs, ts2) /\ Len(ts2) = Len(ts) BY <1>2, TaskUpdateSound
<1>4. Sendable(TaskMsg("x-completed", p), Len(jobs), Len(ts))
  BY <1>1, TaskMsgSendable DEF TaskQueue
<1>5. \A x \in sent : Sendable(x, Len(jobs), Len(ts2)) BY <1>3, <1>4
<1>6. CountSubtask(ts, p) = Effect(jobs, ts2, sent)
  <2>1. ts \in Seq(Task) BY SoundTypes
  <2>2. [ts[p] EXCEPT !.completions = @ + 1] = r BY DEF r
  <2>3. WithTask(ts, p, r) = ts2 BY <2>1, WithTaskUpdates
  <2>4. QED BY <2>2, <2>3 DEF CountSubtask
<1> HIDE DEF ts2, sent
<1>7. QED BY <1>1, <1>3, <1>5, <1>6, EffectAllowed

\* Both ways of handle_task_completed leave it sound.
LEMMA RouteCompletedAllowed ==
  ASSUME NEW ts, Sound(jobs, ts), NEW t \in 1 .. Len(ts)
  PROVE  Allowed(RouteCompleted(ts, t), jobs, ts)
<1>1. CASE ts[t].parent # 0
  <2>1. ts[t].parent \in 1 .. Len(ts) BY <1>1, SoundLinks
  <2>2. QED BY <1>1, <2>1, CountAllowed DEF RouteCompleted
<1>2. CASE ts[t].parent = 0
  <2>1. ts[t].job \in 1 .. Len(jobs) BY SoundLinks
  <2>2. QED BY <1>2, <2>1, AdvanceAllowed DEF RouteCompleted
<1>3. QED BY <1>1, <1>2

\* A retry has used one more attempt, and its definition allows it.
LEMMA RetryAllowed ==
  ASSUME NEW ts, Sound(jobs, ts), NEW t \in 1 .. Len(ts), CanRetry(ts[t])
  PROVE  Allowed(RetryTask(ts, t), jobs, ts)
<1> DEFINE r   == [ts[t] EXCEPT !.state = "Pending", !.evaluated = TRUE,
                                !.attempts = @ + 1]
           ts2 == Append(ts, r)
<1>1. /\ Len(jobs) \in Nat /\ Len(ts) \in Nat /\ ts[t] \in Task
      /\ jobs \in Seq(Job) /\ ts \in Seq(Task) /\ DOMAIN ts = 1 .. Len(ts)
  BY SoundTypes
<1>2. /\ r \in Task /\ r.job = ts[t].job /\ r.step = ts[t].step
      /\ r.parent = ts[t].parent /\ r.position = ts[t].position
      /\ r.subjob = ts[t].subjob /\ r.attempts = ts[t].attempts + 1
  <2> DEFINE n == ts[t].attempts + 1
  <2>1. n \in Nat
    <3>1. ts[t] \in Task BY <1>1
    <3>2. ts[t].attempts \in Nat BY <3>1 DEF Task
    <3>3. QED BY <3>2
  <2>2. r = [ts[t] EXCEPT !.state = "Pending", !.evaluated = TRUE, !.attempts = n]
    OBVIOUS
  <2> HIDE DEF n, r
  <2>3. r \in Task BY <1>1, <2>1, <2>2 DEF Task, TaskState
  <2>4. /\ r.job = ts[t].job /\ r.step = ts[t].step
        /\ r.parent = ts[t].parent /\ r.position = ts[t].position
        /\ r.subjob = ts[t].subjob /\ r.attempts = n
    BY <1>1, <2>2 DEF Task
  <2>5. QED BY <2>3, <2>4 DEF n
<1> HIDE DEF r
<1>3. /\ ts2 \in Seq(Task) /\ Len(ts2) = Len(ts) + 1
      /\ \A u \in 1 .. Len(ts) : ts2[u] = ts[u]
      /\ ts2[Len(ts) + 1] = r
  BY <1>1, <1>2, AppendProperties
<1>4. DOMAIN ts2 = 1 .. Len(ts2) BY <1>3, LenProperties
<1> HIDE DEF ts2
<1>5. TaskRow(jobs, ts2, Len(ts) + 1)
  <2>1. TaskRow(jobs, ts, t) BY DEF Sound
  <2>2. r.attempts <= RetryLimit[r.step]
    <3>1. RetryLimit[ts[t].step] \in Nat /\ ts[t].attempts \in Nat
      BY <1>1, WorkflowAssumption DEF Task
    <3>2. QED BY <1>2, <3>1 DEF CanRetry
  <2>3. CASE ts[t].parent = 0
    <3>1. FromList(ts, jobs, t) BY <2>1, <2>3 DEF TaskRow
    <3>2. FromList(ts2, jobs, Len(ts) + 1) BY <1>2, <1>3, <3>1 DEF FromList
    <3>3. QED BY <1>1, <1>2, <1>3, <1>4, <2>1, <2>2, <2>3, <3>2 DEF TaskRow
  <2>4. CASE ts[t].parent # 0
    <3>1. FromParent(ts, t) BY <2>1, <2>4 DEF TaskRow
    <3>2. ts[t].parent \in 1 .. Len(ts) BY <2>4, SoundLinks
    <3>3. ts2[ts[t].parent] = ts[ts[t].parent] BY <1>3, <3>2
    <3>4. FromParent(ts2, Len(ts) + 1) BY <1>2, <1>3, <3>1, <3>3 DEF FromParent
    <3>5. ts[t].parent \in 1 .. Len(ts2) BY <1>1, <1>3, <3>2
    <3>6. QED BY <1>2, <1>3, <1>4, <2>1, <2>2, <2>4, <3>4, <3>5 DEF TaskRow
  <2>5. QED BY <2>3, <2>4
<1>6. Extends(jobs, ts, jobs, ts2)
  <2>1. \A k \in 1 .. Len(jobs) :
          SameJob(jobs[k], jobs[k]) /\ jobs[k].position <= Len(jobs[k].tasks)
    BY DEF SameJob, Sound, JobRow
  <2>2. \A u \in 1 .. Len(ts) : SameTask(ts2[u], ts[u]) /\ ts2[u].subjob = ts[u].subjob
    BY <1>3 DEF SameTask
  <2>3. \A u \in 1 .. Len(ts2) : u > Len(ts) => TaskRow(jobs, ts2, u)
    BY <1>1, <1>3, <1>5
  <2>4. QED BY <1>1, <1>3, <2>1, <2>2, <2>3 DEF Extends
<1>7. Sound(jobs, ts2) BY <1>6, Extension
<1>8. Sendable(TaskMsg("x-pending", Len(ts) + 1), Len(jobs), Len(ts2))
  BY <1>1, <1>3, TaskMsgSendable DEF TaskQueue
<1>9. RetryTask(ts, t) = Effect(jobs, ts2, {TaskMsg("x-pending", Len(ts) + 1)})
  BY DEF RetryTask, ts2, r
<1>10. Len(ts) <= Len(ts2) BY <1>1, <1>3
<1>11. QED BY <1>1, <1>7, <1>8, <1>9, <1>10, EffectAllowed

\* So does restart_job, whatever position its event carries.
LEMMA ResumeAllowed ==
  ASSUME NEW js, Sound(js, tasks), NEW j \in 1 .. Len(js), NEW p
  PROVE  Allowed(Resume(js, j, p), js, tasks)
<1>1. Len(js) \in Nat /\ Len(tasks) \in Nat BY SoundTypes
<1>2. CASE p \in 1 .. Len(js[j].tasks)
  <2> DEFINE r   == NewTask(j, js[j].tasks[p], 0, p, TRUE)
             ts2 == Append(tasks, r)
  <2>1. Sound(js, ts2) /\ Len(ts2) = Len(tasks) + 1
    <3>1. TopLevelRow(js, r) BY <1>2, NewTaskRow
    <3> HIDE DEF r
    <3>2. QED BY <3>1, NewTaskSound
  <2>2. Resume(js, j, p) = Effect(js, ts2, {TaskMsg("x-pending", Len(tasks) + 1)})
    BY <1>2 DEF Resume
  <2> HIDE DEF ts2
  <2>3. Sendable(TaskMsg("x-pending", Len(tasks) + 1), Len(js), Len(ts2))
    BY <1>1, <2>1, TaskMsgSendable DEF TaskQueue
  <2>4. QED BY <1>1, <2>1, <2>2, <2>3, EffectAllowed
<1>3. CASE p \notin 1 .. Len(js[j].tasks)
  <2>1. Resume(js, j, p) = Effect(js, tasks, {}) BY <1>3 DEF Resume
  <2>2. QED BY <1>1, <2>1, EffectAllowed
<1>4. QED BY <1>2, <1>3

\* A job's parent task exists when the job tells it the outcome.
LEMMA ToParentSendable ==
  ASSUME Sound(jobs, tasks), NEW j \in 1 .. Len(jobs), NEW q \in TaskQueue, NEW nj
  PROVE  \A x \in ToParent(j, q) : Sendable(x, nj, Len(tasks))
BY SoundTypes, SoundLinks, TaskMsgSendable DEF ToParent

\* An effect computed from an already updated datastore is allowed as well.
LEMMA AllowedFrom ==
  ASSUME NEW e, NEW js, NEW ts, NEW js0, NEW ts0, Allowed(e, js, ts),
         Sound(js0, ts0), Sound(js, ts), Len(js0) <= Len(js), Len(ts0) <= Len(ts)
  PROVE  Allowed(e, js0, ts0)
BY SoundTypes DEF Allowed

----------------------------------------------------------------------------
(* The inductive invariant, and the delivery that preserves it.            *)

\* The three invariants are inductive together: a task can only be typed if the
\* job it was taken from has its list, and it only has its list if the rows that
\* name it are there.
IInv == TypeOK /\ NoDanglingReference /\ TasksMatchDefinitions

\* The same, row by row.
Rows ==
  /\ Sound(jobs, tasks) /\ Len(jobs) <= MaxJobs /\ Len(tasks) <= MaxTasks
  /\ IsABag(msgs) /\ \A m \in BagToSet(msgs) : Sendable(m, Len(jobs), Len(tasks))
  /\ IsABag(running) /\ BagToSet(running) \subseteq 1 .. Len(tasks)
  /\ finished \subseteq 1 .. Len(tasks)
  /\ calls \in 0 .. MaxCalls /\ crashes \in 0 .. MaxCrashes

\* The row-by-row form of the invariant is the invariant.
LEMMA RowsAreInvariants == Rows <=> IInv
<1>1. ASSUME Rows PROVE IInv
  <2>1. /\ jobs \in Seq(Job) /\ tasks \in Seq(Task)
        /\ DOMAIN jobs = 1 .. Len(jobs) /\ DOMAIN tasks = 1 .. Len(tasks)
    BY <1>1, SoundTypes DEF Rows
  <2>2. Linked(jobs, tasks) /\ MatchesDefinitions(jobs, tasks)
    BY <1>1, <2>1, SoundRows DEF Rows
  <2>3. \A m \in BagToSet(msgs) : m \in Message /\ Refers(m, jobs, tasks)
    BY <1>1, <2>1 DEF Rows, Sendable, Refers
  <2>4. QED BY <1>1, <2>1, <2>2, <2>3
            DEF Rows, IInv, TypeOK, NoDanglingReference, TasksMatchDefinitions
<1>2. ASSUME IInv PROVE Rows
  <2>1. jobs \in Seq(Job) /\ tasks \in Seq(Task) BY <1>2 DEF IInv, TypeOK
  <2>2. DOMAIN jobs = 1 .. Len(jobs) /\ DOMAIN tasks = 1 .. Len(tasks)
    BY <2>1, LenProperties
  <2>3. Sound(jobs, tasks)
    BY <1>2, <2>1, SoundRows DEF IInv, NoDanglingReference, TasksMatchDefinitions
  <2>4. \A m \in BagToSet(msgs) : Sendable(m, Len(jobs), Len(tasks))
    BY <1>2, <2>2 DEF IInv, TypeOK, NoDanglingReference, Sendable, Refers
  <2>5. QED BY <1>2, <2>2, <2>3, <2>4 DEF Rows, IInv, TypeOK, NoDanglingReference
<1>3. QED BY <1>1, <1>2

\* A message that names existing rows does so when there are more of them.
LEMMA SendableLater ==
  ASSUME NEW x, NEW nj \in Nat, NEW nt \in Nat, NEW nj2 \in Nat, NEW nt2 \in Nat,
         Sendable(x, nj, nt), nj <= nj2, nt <= nt2
  PROVE  Sendable(x, nj2, nt2)
BY DEF Sendable

\* A handler whose effect is allowed preserves the invariant.
LEMMA HandlePreserves ==
  ASSUME Rows, NEW m, NEW e, Allowed(e, jobs, tasks), Handle(m, e),
         finished' \subseteq 1 .. Len(tasks)
  PROVE  Rows'
<1>1. /\ jobs' = e.jobs /\ tasks' = e.tasks
      /\ msgs' = (msgs (-) SetToBag({m})) (+) SetToBag(e.sent)
      /\ Len(jobs') <= MaxJobs /\ Len(tasks') <= MaxTasks
      /\ running' = running /\ calls' = calls /\ crashes' = crashes
  BY DEF Handle, Take
<1>2. /\ Sound(jobs', tasks') /\ Len(jobs) <= Len(jobs') /\ Len(tasks) <= Len(tasks')
      /\ \A x \in e.sent : Sendable(x, Len(jobs'), Len(tasks'))
  BY <1>1 DEF Allowed
<1>3. /\ Len(jobs) \in Nat /\ Len(tasks) \in Nat
      /\ Len(jobs') \in Nat /\ Len(tasks') \in Nat
  BY <1>2, SoundTypes DEF Rows
<1>4. IsABag(msgs') /\ BagToSet(msgs') \subseteq BagToSet(msgs) \cup e.sent
  BY <1>1, Delivered DEF Rows
<1>5. \A x \in BagToSet(msgs) : Sendable(x, Len(jobs'), Len(tasks'))
  BY <1>2, <1>3, SendableLater DEF Rows
<1>6. \A x \in BagToSet(msgs') : Sendable(x, Len(jobs'), Len(tasks'))
  BY <1>2, <1>4, <1>5
<1>7. /\ IsABag(running') /\ BagToSet(running') \subseteq 1 .. Len(tasks')
      /\ finished' \subseteq 1 .. Len(tasks')
  BY <1>1, <1>2, <1>3 DEF Rows
<1>8. QED BY <1>1, <1>2, <1>4, <1>6, <1>7 DEF Rows

\* The row a message names.
LEMMA MessageRow ==
  ASSUME Rows, NEW m \in BagToSet(msgs)
  PROVE  /\ m.queue = "x-jobs" => m.job \in 1 .. Len(jobs)
         /\ m.queue # "x-jobs" => m.task \in 1 .. Len(tasks)
BY DEF Rows, Sendable

----------------------------------------------------------------------------
(* The handlers of job events.                                             *)

\* start_job.
LEMMA StartJobPreserves ==
  ASSUME Rows, NEW m \in BagToSet(msgs), StartJob(m)
  PROVE  Rows'
<1> DEFINE j   == m.job
           js1 == [jobs EXCEPT ![j].state = "Scheduled"]
           js  == [js1 EXCEPT ![j].position = 1]
           r   == NewTask(j, jobs[j].tasks[1], 0, 1, TRUE)
           ts  == Append(tasks, r)
<1>1. j \in 1 .. Len(jobs) /\ Sound(jobs, tasks) BY MessageRow DEF StartJob, JobEvent, Rows
<1>2. 1 \in 1 .. Len(jobs[j].tasks)
  <2>1. jobs[j] \in Job /\ JobRow(jobs, tasks, j) BY <1>1, SoundTypes DEF Sound
  <2>2. jobs[j].tasks \in Seq(Step) /\ jobs[j].tasks # <<>> BY <2>1 DEF Job, JobRow
  <2>3. QED BY <2>2, LenProperties, EmptySeq
<1>3. /\ Sound(js1, tasks) /\ Len(js1) = Len(jobs)
      /\ \A k \in 1 .. Len(jobs) : js1[k].tasks = jobs[k].tasks
  BY <1>1, JobStateSound, ZenonT(30) DEF JobState
<1>4. TopLevelRow(jobs, r) /\ r.job = j BY <1>1, <1>2, NewTaskRow DEF NewTask
<1>5. /\ Sound(js, tasks) /\ Len(js) = Len(jobs) /\ js[j].tasks = jobs[j].tasks
  <2> HIDE DEF j, js1
  <2>1. j \in 1 .. Len(js1) /\ 1 \in 1 .. Len(js1[j].tasks) BY <1>1, <1>2, <1>3
  <2>2. /\ Sound(js, tasks) /\ Len(js) = Len(js1)
        /\ \A k \in 1 .. Len(js1) : js[k].tasks = js1[k].tasks
    <3>1. PICK p : p = 1 OBVIOUS
    <3> HIDE DEF js
    <3>2. js = [js1 EXCEPT ![j].position = p] BY <3>1 DEF js
    <3>3. p \in 1 .. Len(js1[j].tasks) BY <2>1, <3>1
    <3>4. /\ Sound([js1 EXCEPT ![j].position = p], tasks)
          /\ Len([js1 EXCEPT ![j].position = p]) = Len(js1)
          /\ \A k \in 1 .. Len(js1) :
               [js1 EXCEPT ![j].position = p][k].tasks = js1[k].tasks
      BY <1>3, <2>1, <3>3, JobPositionSound
    <3>5. QED BY <3>2, <3>4
  <2> HIDE DEF js
  <2>3. QED BY <1>1, <1>3, <2>1, <2>2
<1>6. js = [jobs EXCEPT ![j].state = "Scheduled", ![j].position = 1]
  BY <1>1, SoundTypes
<1>7. Handle(m, HandlePending(js, ts, Len(ts))) /\ finished' = finished
  BY <1>6 DEF StartJob
<1> HIDE DEF j, js1, js, r
<1>8. Sound(js, ts) /\ Len(ts) = Len(tasks) + 1
  <2>1. TopLevelRow(js, r) BY <1>4, <1>5 DEF TopLevelRow
  <2>2. QED BY <1>5, <2>1, NewTaskSound
<1> HIDE DEF ts
<1>9. Len(tasks) \in Nat /\ Len(ts) \in 1 .. Len(ts) /\ Len(js) <= Len(js)
      /\ Len(jobs) <= Len(js) /\ Len(tasks) <= Len(ts)
  BY <1>1, <1>5, <1>8, SoundTypes
<1>10. Allowed(HandlePending(js, ts, Len(ts)), js, ts) BY <1>8, <1>9, PendingAllowed
<1>11. Allowed(HandlePending(js, ts, Len(ts)), jobs, tasks)
  BY <1>1, <1>8, <1>9, <1>10, AllowedFrom
<1>12. QED BY <1>7, <1>11, HandlePreserves DEF Rows

\* complete_job.
LEMMA CompleteJobPreserves ==
  ASSUME Rows, NEW m \in BagToSet(msgs), CompleteJob(m)
  PROVE  Rows'
<1> DEFINE js == [jobs EXCEPT ![m.job].state = "Completed"]
<1>1. m.job \in 1 .. Len(jobs) /\ Sound(jobs, tasks)
  BY MessageRow DEF CompleteJob, JobEvent, Rows
<1>2. Sound(js, tasks) /\ Len(js) = Len(jobs) BY <1>1, JobStateSound DEF JobState
<1>3. /\ Handle(m, Effect(js, tasks, ToParent(m.job, "x-completed")))
      /\ finished' = finished
  BY DEF CompleteJob
<1> HIDE DEF js
<1>4. \A x \in ToParent(m.job, "x-completed") : Sendable(x, Len(js), Len(tasks))
  BY <1>1, ToParentSendable DEF TaskQueue
<1>5. Len(jobs) <= Len(js) /\ Len(tasks) <= Len(tasks) BY <1>1, <1>2, SoundTypes
<1>6. Allowed(Effect(js, tasks, ToParent(m.job, "x-completed")), jobs, tasks)
  BY <1>2, <1>4, <1>5, EffectAllowed
<1>7. QED BY <1>3, <1>6, HandlePreserves DEF Rows

\* Shared by FailJob and HandleCancel: the tasks are cancelled, and what else is
\* sent is sendable.
LEMMA CancelAndTell ==
  ASSUME Sound(jobs, tasks), NEW j, NEW js, Sound(js, tasks), Len(js) = Len(jobs), NEW S,
         \A x \in S : Sendable(x, Len(js), Len(tasks)), NEW e,
         e = CancelActiveTasks(js, tasks, j)
  PROVE  Allowed(Effect(e.jobs, e.tasks, e.sent \cup S), jobs, tasks)
<1>1. Allowed(e, js, tasks) /\ e.jobs = js /\ Len(e.tasks) = Len(tasks)
  BY CancelAllowed
<1>2. \A x \in e.sent \cup S : Sendable(x, Len(e.jobs), Len(e.tasks))
  BY <1>1 DEF Allowed
<1>3. Sound(e.jobs, e.tasks) BY <1>1 DEF Allowed
<1>4. Len(jobs) <= Len(e.jobs) /\ Len(tasks) <= Len(e.tasks)
  BY <1>1, SoundTypes
<1>5. QED BY <1>2, <1>3, <1>4, EffectAllowed

\* fail_job.
LEMMA FailJobPreserves ==
  ASSUME Rows, NEW m \in BagToSet(msgs), FailJob(m)
  PROVE  Rows'
<1> DEFINE j  == m.job
           js == IF JobActive(jobs[j].state)
                   THEN [jobs EXCEPT ![j].state = "Failed"] ELSE jobs
           e  == CancelActiveTasks(js, tasks, j)
           S  == ToParent(j, "x-failed")
<1>1. j \in 1 .. Len(jobs) /\ Sound(jobs, tasks) BY MessageRow DEF FailJob, JobEvent, Rows
<1>2. Sound(js, tasks) /\ Len(js) = Len(jobs) BY <1>1, JobStateSound DEF JobState
<1>3. Handle(m, Effect(e.jobs, e.tasks, e.sent \cup S)) /\ finished' = finished
  BY DEF FailJob
<1>4. \A x \in S : Sendable(x, Len(js), Len(tasks)) BY <1>1, ToParentSendable DEF TaskQueue
<1> HIDE DEF j, js, S
<1>5. Allowed(Effect(e.jobs, e.tasks, e.sent \cup S), jobs, tasks)
  BY <1>1, <1>2, <1>4, CancelAndTell
<1> HIDE DEF e
<1>6. QED BY <1>3, <1>5, HandlePreserves DEF Rows

\* handle_cancel.
LEMMA HandleCancelPreserves ==
  ASSUME Rows, NEW m \in BagToSet(msgs), HandleCancel(m)
  PROVE  Rows'
<1> DEFINE j  == m.job
           up == jobs[j].parent
           js == IF JobActive(m.state)
                   THEN [jobs EXCEPT ![j].state = "Cancelled"] ELSE jobs
           e  == CancelActiveTasks(js, tasks, j)
           S  == IF up = 0 THEN {} ELSE {JobMsg(js, tasks[up].job, "Cancelled")}
<1>1. j \in 1 .. Len(jobs) /\ Sound(jobs, tasks)
  BY MessageRow DEF HandleCancel, JobEvent, Rows
<1>2. Sound(js, tasks) /\ Len(js) = Len(jobs) BY <1>1, JobStateSound DEF JobState
<1>3. Handle(m, Effect(e.jobs, e.tasks, e.sent \cup S)) /\ finished' = finished
  BY DEF HandleCancel
<1>4. \A x \in S : Sendable(x, Len(js), Len(tasks))
  <2>1. up # 0 => tasks[up].job \in 1 .. Len(js) BY <1>1, <1>2, SoundLinks
  <2> HIDE DEF js, up
  <2>2. js \in Seq(Job) BY <1>2 DEF Sound
  <2>3. QED BY <2>1, <2>2, JobMsgSendable DEF JobState
<1> HIDE DEF j, js, S
<1>5. Allowed(Effect(e.jobs, e.tasks, e.sent \cup S), jobs, tasks)
  BY <1>1, <1>2, <1>4, CancelAndTell
<1> HIDE DEF e
<1>6. QED BY <1>3, <1>5, HandlePreserves DEF Rows

\* restart_job.
LEMMA RestartJobPreserves ==
  ASSUME Rows, NEW m \in BagToSet(msgs), RestartJob(m)
  PROVE  Rows'
<1> DEFINE js == [jobs EXCEPT ![m.job].state = "Running"]
           e  == Resume(js, m.job, m.position)
<1>1. m.job \in 1 .. Len(jobs) /\ Sound(jobs, tasks)
  BY MessageRow DEF RestartJob, JobEvent, Rows
<1>2. Sound(js, tasks) /\ Len(js) = Len(jobs) BY <1>1, JobStateSound DEF JobState
<1>3. Handle(m, e) /\ finished' = finished BY DEF RestartJob
<1> HIDE DEF js
<1>4. Allowed(e, js, tasks) BY <1>1, <1>2, ResumeAllowed
<1> HIDE DEF e
<1>5. Len(jobs) <= Len(js) /\ Len(tasks) <= Len(tasks) BY <1>1, <1>2, SoundTypes
<1>6. Allowed(e, jobs, tasks) BY <1>1, <1>2, <1>4, <1>5, AllowedFrom
<1>7. QED BY <1>3, <1>6, HandlePreserves DEF Rows

\* mark_job_as_running.
LEMMA MarkJobAsRunningPreserves ==
  ASSUME Rows, NEW m \in BagToSet(msgs), MarkJobAsRunning(m)
  PROVE  Rows'
<1> DEFINE js == IF jobs[m.job].state = "Scheduled"
                   THEN [jobs EXCEPT ![m.job].state = "Running"] ELSE jobs
<1>1. m.job \in 1 .. Len(jobs) /\ Sound(jobs, tasks)
  BY MessageRow DEF MarkJobAsRunning, JobEvent, Rows
<1>2. Sound(js, tasks) /\ Len(js) = Len(jobs) BY <1>1, JobStateSound DEF JobState
<1>3. Handle(m, Effect(js, tasks, {})) /\ finished' = finished BY DEF MarkJobAsRunning
<1> HIDE DEF js
<1>4. Len(jobs) <= Len(js) /\ Len(tasks) <= Len(tasks) BY <1>1, <1>2, SoundTypes
<1>5. Allowed(Effect(js, tasks, {}), jobs, tasks) BY <1>2, <1>4, EffectAllowed
<1>6. QED BY <1>3, <1>5, HandlePreserves DEF Rows

\* The Scheduled event, which no handler acts on.
LEMMA IgnoreScheduledPreserves ==
  ASSUME Rows, NEW m \in BagToSet(msgs), IgnoreScheduled(m)
  PROVE  Rows'
<1>1. Handle(m, Effect(jobs, tasks, {})) /\ finished' = finished BY DEF IgnoreScheduled
<1>2. Sound(jobs, tasks) /\ Len(jobs) <= Len(jobs) /\ Len(tasks) <= Len(tasks)
  BY SoundTypes DEF Rows
<1>3. Allowed(Effect(jobs, tasks, {}), jobs, tasks) BY <1>2, EffectAllowed
<1>4. QED BY <1>1, <1>3, HandlePreserves DEF Rows

----------------------------------------------------------------------------
(* The handlers of task messages.                                          *)

\* handle_pending_task.
LEMMA HandlePendingTaskPreserves ==
  ASSUME Rows, NEW m \in BagToSet(msgs), HandlePendingTask(m)
  PROVE  Rows'
<1>1. m.task \in 1 .. Len(tasks) BY MessageRow DEF HandlePendingTask
<1>2. Handle(m, HandlePending(jobs, tasks, m.task)) /\ finished' = finished
  BY DEF HandlePendingTask
<1>3. Allowed(HandlePending(jobs, tasks, m.task), jobs, tasks)
  BY <1>1, PendingAllowed DEF Rows
<1>4. QED BY <1>2, <1>3, HandlePreserves DEF Rows

\* handle_task_completed.
LEMMA HandleTaskCompletedPreserves ==
  ASSUME Rows, NEW m \in BagToSet(msgs), HandleTaskCompleted(m)
  PROVE  Rows'
<1> DEFINE t  == m.task
           ts == WithState(tasks, {t}, "Completed")
<1>1. t \in 1 .. Len(tasks) /\ Sound(jobs, tasks)
  BY MessageRow DEF HandleTaskCompleted, Rows
<1>2. Sound(jobs, ts) /\ Len(ts) = Len(tasks) BY <1>1, WithStateSound DEF TaskState
<1>3. Handle(m, RouteCompleted(ts, t)) /\ finished' = finished \cup {t}
  BY DEF HandleTaskCompleted
<1> HIDE DEF t, ts
<1>4. Allowed(RouteCompleted(ts, t), jobs, ts) BY <1>1, <1>2, RouteCompletedAllowed
<1>5. Len(jobs) <= Len(jobs) /\ Len(tasks) <= Len(ts) BY <1>1, <1>2, SoundTypes
<1>6. Allowed(RouteCompleted(ts, t), jobs, tasks)
  BY <1>1, <1>2, <1>4, <1>5, AllowedFrom
<1>7. finished' \subseteq 1 .. Len(tasks) BY <1>1, <1>3 DEF Rows
<1>8. QED BY <1>3, <1>6, <1>7, HandlePreserves

\* handle_error: a retry, or the failure of the task and all above it.
LEMMA HandleErrorPreserves ==
  ASSUME Rows, NEW m \in BagToSet(msgs), HandleError(m)
  PROVE  Rows'
<1> DEFINE t  == m.task
           j  == tasks[t].job
           ts == WithState(tasks, {t}, "Failed")
           up == WithState(ts, Lineage(ts, t), "Failed")
<1>1. t \in 1 .. Len(tasks) /\ Sound(jobs, tasks) BY MessageRow DEF HandleError, Rows
<1>2. Sound(jobs, ts) /\ Len(ts) = Len(tasks) BY <1>1, WithStateSound DEF TaskState
<1>3. j \in 1 .. Len(jobs) BY <1>1, SoundLinks
<1>4. /\ Handle(m, IF ~JobActive(jobs[j].state) THEN Effect(jobs, ts, {})
                   ELSE IF CanRetry(ts[t]) THEN RetryTask(ts, t)
                   ELSE Effect(jobs, up, {TaskMsg("x-failed", t), JobMsg(jobs, j, "Failed")}))
      /\ finished' = finished
  BY DEF HandleError
<1>5. Sound(jobs, up) /\ Len(up) = Len(tasks)
  <2> HIDE DEF ts
  <2>1. QED BY <1>2, WithStateSound DEF TaskState
<1> HIDE DEF t, j, ts, up
<1>6. /\ Len(jobs) <= Len(jobs) /\ Len(tasks) <= Len(ts) /\ Len(tasks) <= Len(up)
      /\ Len(tasks) \in Nat /\ jobs \in Seq(Job)
  BY <1>1, <1>2, <1>5, SoundTypes
<1>7. CASE ~JobActive(jobs[j].state)
  <2>1. Allowed(Effect(jobs, ts, {}), jobs, tasks) BY <1>2, <1>6, EffectAllowed
  <2>2. QED BY <1>4, <1>7, <2>1, HandlePreserves DEF Rows
<1>8. CASE JobActive(jobs[j].state) /\ CanRetry(ts[t])
  <2>1. Allowed(RetryTask(ts, t), jobs, ts) BY <1>1, <1>2, <1>8, RetryAllowed
  <2>2. Allowed(RetryTask(ts, t), jobs, tasks)
    BY <1>1, <1>2, <1>6, <2>1, AllowedFrom
  <2>3. QED BY <1>4, <1>8, <2>2, HandlePreserves DEF Rows
<1>9. CASE JobActive(jobs[j].state) /\ ~CanRetry(ts[t])
  <2> DEFINE S == {TaskMsg("x-failed", t), JobMsg(jobs, j, "Failed")}
  <2>1. Sendable(TaskMsg("x-failed", t), Len(jobs), Len(up))
    BY <1>1, <1>5, <1>6, TaskMsgSendable DEF TaskQueue
  <2>2. Sendable(JobMsg(jobs, j, "Failed"), Len(jobs), Len(up))
    BY <1>3, <1>6, JobMsgSendable DEF JobState
  <2>3. \A x \in S : Sendable(x, Len(jobs), Len(up)) BY <2>1, <2>2
  <2>4. Handle(m, Effect(jobs, up, S)) BY <1>4, <1>9
  <2> HIDE DEF S
  <2>5. Allowed(Effect(jobs, up, S), jobs, tasks)
    BY <1>5, <1>6, <2>3, EffectAllowed
  <2>6. QED BY <1>4, <2>4, <2>5, HandlePreserves DEF Rows
<1>10. QED BY <1>7, <1>8, <1>9

\* handle_task_progress.
LEMMA HandleTaskProgressPreserves ==
  ASSUME Rows, NEW m \in BagToSet(msgs), HandleTaskProgress(m)
  PROVE  Rows'
<1> DEFINE ts == WithState(tasks, {m.task}, "Running")
<1>1. Sound(jobs, tasks) BY DEF Rows
<1>2. Sound(jobs, ts) /\ Len(ts) = Len(tasks) BY <1>1, WithStateSound DEF TaskState
<1>3. Handle(m, Effect(jobs, ts, {})) /\ finished' = finished BY DEF HandleTaskProgress
<1> HIDE DEF ts
<1>4. Len(jobs) <= Len(jobs) /\ Len(tasks) <= Len(ts) BY <1>1, <1>2, SoundTypes
<1>5. Allowed(Effect(jobs, ts, {}), jobs, tasks) BY <1>2, <1>4, EffectAllowed
<1>6. QED BY <1>3, <1>5, HandlePreserves DEF Rows

\* handle_redelivered.
LEMMA HandleRedeliveredPreserves ==
  ASSUME Rows, NEW m \in BagToSet(msgs), HandleRedelivered(m)
  PROVE  Rows'
<1> DEFINE S == IF Redeliverable(tasks[m.task].state)
                  THEN {TaskMsg("worker", m.task)} ELSE {}
<1>1. m.task \in 1 .. Len(tasks) /\ Sound(jobs, tasks)
  BY MessageRow DEF HandleRedelivered, Rows
<1>2. Handle(m, Effect(jobs, tasks, S)) /\ finished' = finished BY DEF HandleRedelivered
<1>3. Len(jobs) <= Len(jobs) /\ Len(tasks) <= Len(tasks) /\ Len(tasks) \in Nat
  BY <1>1, SoundTypes
<1>4. Sendable(TaskMsg("worker", m.task), Len(jobs), Len(tasks))
  BY <1>1, <1>3, TaskMsgSendable DEF TaskQueue
<1>5. \A x \in S : Sendable(x, Len(jobs), Len(tasks)) BY <1>4
<1> HIDE DEF S
<1>6. Allowed(Effect(jobs, tasks, S), jobs, tasks) BY <1>1, <1>3, <1>5, EffectAllowed
<1>7. QED BY <1>2, <1>6, HandlePreserves DEF Rows

----------------------------------------------------------------------------
(* The workers and the user.                                               *)

\* execute_task takes a delivery.
LEMMA WorkerStartPreserves ==
  ASSUME Rows, NEW m \in BagToSet(msgs), WorkerStart(m)
  PROVE  Rows'
<1> DEFINE S == {TaskMsg("progress:Running", m.task)}
<1>1. m.task \in 1 .. Len(tasks) /\ Len(tasks) \in Nat
  BY MessageRow, SoundTypes DEF WorkerStart, Rows
<1>2. /\ msgs' = (msgs (-) SetToBag({m})) (+) SetToBag(S)
      /\ running' = running (+) SetToBag({m.task})
      /\ UNCHANGED <<jobs, tasks, calls, crashes, finished>>
  BY DEF WorkerStart, Take
<1>3. \A x \in S : Sendable(x, Len(jobs), Len(tasks))
  BY <1>1, TaskMsgSendable DEF TaskQueue
<1> HIDE DEF S
<1>4. IsABag(msgs') /\ BagToSet(msgs') \subseteq BagToSet(msgs) \cup S
  BY <1>2, Delivered DEF Rows
<1>5. IsABag(running') /\ BagToSet(running') = BagToSet(running) \cup {m.task}
  BY <1>2, SetToBagIsBag, UnionIsBag DEF Rows
<1>6. QED BY <1>1, <1>2, <1>3, <1>4, <1>5 DEF Rows

\* execute_task reports, or its worker dies.
LEMMA WorkerLeavesPreserves ==
  ASSUME Rows, NEW t \in BagToSet(running),
         NEW q \in {"progress:Completed", "progress:Failed", "x-redeliveries"},
         WorkerLeaves(t, q), crashes' \in 0 .. MaxCrashes
  PROVE  Rows'
<1>1. t \in 1 .. Len(tasks) /\ Len(tasks) \in Nat BY SoundTypes DEF Rows
<1>2. /\ msgs' = msgs (+) SetToBag({TaskMsg(q, t)})
      /\ running' = running (-) SetToBag({t})
      /\ UNCHANGED <<jobs, tasks, calls, finished>>
  BY DEF WorkerLeaves
<1>3. Sendable(TaskMsg(q, t), Len(jobs), Len(tasks))
  BY <1>1, TaskMsgSendable DEF TaskQueue
<1>4. IsABag(msgs') /\ BagToSet(msgs') = BagToSet(msgs) \cup {TaskMsg(q, t)}
  BY <1>2, SetToBagIsBag, UnionIsBag DEF Rows
<1>5. IsABag(running') /\ BagToSet(running') \subseteq BagToSet(running)
  BY <1>2, SetToBagIsBag, DifferenceIsBag DEF Rows
<1>6. QED BY <1>1, <1>2, <1>3, <1>4, <1>5 DEF Rows

\* The REST calls publish a job that exists.
LEMMA UserCallPreserves ==
  ASSUME Rows, NEW j \in 1 .. Len(jobs), NEW st \in JobState, UserCall(j, st)
  PROVE  Rows'
<1> DEFINE js == [jobs EXCEPT ![j].state = st]
           x  == JobMsg(jobs, j, jobs[j].state)
<1>1. /\ Sound(jobs, tasks) /\ jobs \in Seq(Job) /\ Len(jobs) \in Nat
      /\ Len(tasks) \in Nat /\ jobs[j].state \in JobState
  BY SoundTypes DEF Rows, Job
<1>2. Sound(js, tasks) /\ Len(js) = Len(jobs) BY <1>1, JobStateSound
<1>3. Sendable(x, Len(jobs), Len(tasks)) BY <1>1, JobMsgSendable
<1>4. /\ jobs' = js /\ msgs' = msgs (+) SetToBag({x})
      /\ calls < MaxCalls /\ calls' = calls + 1
      /\ UNCHANGED <<tasks, running, crashes, finished>>
  BY DEF UserCall
<1> HIDE DEF js, x
<1>5. IsABag(msgs') /\ BagToSet(msgs') = BagToSet(msgs) \cup {x}
  BY <1>4, SetToBagIsBag, UnionIsBag DEF Rows
<1>6. calls' \in 0 .. MaxCalls BY <1>4, BoundAssumption DEF Rows
<1>7. QED BY <1>2, <1>3, <1>4, <1>5, <1>6 DEF Rows

----------------------------------------------------------------------------
(* The specification.                                                      *)

\* A submitted job has a list and nothing else.
LEMMA InitRows == Init => Rows
<1> SUFFICES ASSUME Init PROVE Rows OBVIOUS
<1>1. PICK w \in Workflows : jobs = <<NewJob(w, 0)>> BY DEF Init
<1>2. w \in Seq(Step) /\ w # <<>> BY WorkflowAssumption
<1>3. Len(w) \in Nat BY <1>2, LenProperties
<1>4. NewJob(w, 0) \in Job BY <1>2 DEF NewJob, Job, JobState
<1>5. /\ jobs \in Seq(Job) /\ Len(jobs) = 1 /\ jobs[1] = NewJob(w, 0)
  BY <1>1, <1>4
<1>6. tasks \in Seq(Task) /\ Len(tasks) = 0 /\ tasks = <<>> BY EmptySeq DEF Init
<1>7. JobRow(jobs, tasks, 1) BY <1>2, <1>3, <1>5 DEF JobRow, NewJob
<1>8. Sound(jobs, tasks) BY <1>5, <1>6, <1>7 DEF Sound
<1>9. Sendable(JobMsg(jobs, 1, "Pending"), Len(jobs), Len(tasks))
  <2>1. PICK j : j = 1 OBVIOUS
  <2>2. j \in 1 .. Len(jobs) BY <1>5, <2>1
  <2>3. Sendable(JobMsg(jobs, j, "Pending"), Len(jobs), Len(tasks))
    BY <1>5, <2>2, JobMsgSendable DEF JobState
  <2>4. QED BY <2>1, <2>3
<1>10. IsABag(msgs) /\ BagToSet(msgs) = {JobMsg(jobs, 1, "Pending")}
  BY SetToBagIsBag DEF Init
<1>11. IsABag(running) /\ BagToSet(running) = {}
  BY SetToBagIsBag DEF Init, EmptyBag
<1>12. finished = {} /\ calls = 0 /\ crashes = 0 BY DEF Init
<1>13. QED BY <1>5, <1>6, <1>8, <1>9, <1>10, <1>11, <1>12, BoundAssumption DEF Rows

\* Every step of the coordinator, a worker or a user preserves the invariant.
LEMMA NextRows == Rows /\ [Next]_vars => Rows'
<1> SUFFICES ASSUME Rows, [Next]_vars PROVE Rows' OBVIOUS
<1>1. ASSUME NEW m \in BagToSet(msgs), HandleJobEvent(m) PROVE Rows'
  BY <1>1, StartJobPreserves, CompleteJobPreserves, FailJobPreserves,
     HandleCancelPreserves, RestartJobPreserves, MarkJobAsRunningPreserves,
     IgnoreScheduledPreserves DEF HandleJobEvent
<1>2. ASSUME NEW m \in BagToSet(msgs), HandleTaskMessage(m) PROVE Rows'
  BY <1>2, HandlePendingTaskPreserves, HandleTaskCompletedPreserves,
     HandleErrorPreserves, HandleTaskProgressPreserves, HandleRedeliveredPreserves
     DEF HandleTaskMessage
<1>3. ASSUME NEW m \in BagToSet(msgs), WorkerStart(m) PROVE Rows'
  BY <1>3, WorkerStartPreserves
<1>4. ASSUME NEW t \in BagToSet(running), WorkerFinish(t) PROVE Rows'
  <2>1. crashes' \in 0 .. MaxCrashes BY <1>4 DEF WorkerFinish, Rows
  <2>2. QED BY <1>4, <2>1, WorkerLeavesPreserves DEF WorkerFinish
<1>5. ASSUME NEW t \in BagToSet(running), WorkerCrash(t) PROVE Rows'
  <2>1. crashes' \in 0 .. MaxCrashes
    BY <1>5, BoundAssumption DEF WorkerCrash, Rows
  <2>2. QED BY <1>5, <2>1, WorkerLeavesPreserves DEF WorkerCrash
<1>6. ASSUME NEW j \in DOMAIN jobs, CancelJob(j) \/ RequestRestart(j) PROVE Rows'
  <2>1. j \in 1 .. Len(jobs) BY SoundTypes DEF Rows
  <2>2. QED BY <1>6, <2>1, UserCallPreserves DEF CancelJob, RequestRestart, JobState
<1>7. CASE UNCHANGED vars
  BY <1>7 DEF vars, Rows, Sound, JobRow, TaskRow, FromList, FromParent, Sendable, IsABag,
     BagToSet
<1>8. QED BY <1>1, <1>2, <1>3, <1>4, <1>5, <1>6, <1>7 DEF Next, Coordinator, Worker, User

\* The invariant holds throughout: of every coordinator, whatever the
\* definitions, the workflows and the bounds.
THEOREM Invariance == Spec => []IInv
<1>1. Spec => []Rows BY InitRows, NextRows, PTL DEF Spec
<1>2. Rows => IInv BY RowsAreInvariants
<1>3. QED BY <1>1, <1>2, PTL

\* The jobs, tasks and messages keep their types.
THEOREM TypeCorrect == Spec => []TypeOK
<1>1. IInv => TypeOK BY DEF IInv
<1>2. QED BY <1>1, Invariance, PTL

\* A handler never looks up a row that is not there: get_job_by_id and
\* get_task_by_id of an identifier taken from a message or from another row
\* succeed.
THEOREM ReferencesResolve == Spec => []NoDanglingReference
<1>1. IInv => NoDanglingReference BY DEF IInv
<1>2. QED BY <1>1, Invariance, PTL

\* Retries, restarts, skips, fan-outs and subjobs never create a task that its
\* job's list or its parent's children do not ask for, nor one whose attempts
\* exceed its limit.
THEOREM TasksFollowDefinitions == Spec => []TasksMatchDefinitions
<1>1. IInv => TasksMatchDefinitions BY DEF IInv
<1>2. QED BY <1>1, Invariance, PTL

----------------------------------------------------------------------------
(* The books.  A task is held while its first delivery is pending (pend),  *)
(* while it is with a worker or its completion is on the way (act), and    *)
(* once it has finished (fin).  begins and ends are the jobs whose Pending *)
(* and Completed events are on the way.                                    *)

Book(js, ts, p, a, f, s, e) ==
  [jobs |-> js, tasks |-> ts, pend |-> p, act |-> a, fin |-> f, begins |-> s, ends |-> e]

Ids(b)    == 1 .. Len(b.tasks)
JobIds(b) == 1 .. Len(b.jobs)

Regular(r) == Kind[r.step] = "regular"
FanOut(r)  == Kind[r.step] = "fanout" /\ r.step \notin Skipped
Nested(r)  == Kind[r.step] = "subjob" /\ r.step \notin Skipped

Kids(b, p) == {t \in Ids(b) : b.tasks[t].parent = p}
Tops(b, j) == {t \in Ids(b) : b.tasks[t].job = j /\ b.tasks[t].parent = 0}

\* The tasks that may still complete or have completed: a regular task nobody
\* holds was retried or is lost; a composite task waits for what it created.
Live(b) == {t \in Ids(b) : t \in b.pend \cup b.act \cup b.fin \/ ~Regular(b.tasks[t])}

SlotsIn(s, D) == {i \in DOMAIN Children[s] : Children[s][i] \in D}

\* Nobody is held twice, and parents are older than their subtasks.
HeldOnce(b) ==
  /\ b.pend \subseteq Ids(b) /\ b.act \subseteq Ids(b) /\ b.fin \subseteq Ids(b)
  /\ b.pend \cap b.act = {} /\ b.pend \cap b.fin = {} /\ b.act \cap b.fin = {}
  /\ \A t \in Ids(b) : b.tasks[t].parent < t

\* A fan-out task counts the subtasks that have finished.  Whatever set of
\* definitions one looks at, it has no more live subtasks than children.
CountsOf(b, p) ==
  /\ b.tasks[p].completions = Cardinality(Kids(b, p) \cap b.fin)
  /\ p \in b.pend \/ ~FanOut(b.tasks[p]) => Kids(b, p) = {}
  /\ p \in b.act \cup b.fin /\ FanOut(b.tasks[p]) =>
       b.tasks[p].completions = Len(Children[b.tasks[p].step])
  /\ \A D \in SUBSET Step :
       Cardinality({u \in Kids(b, p) \cap Live(b) : b.tasks[u].step \in D})
         <= Cardinality(SlotsIn(b.tasks[p].step, D))

Counts(b) == \A p \in Ids(b) : Kind[b.tasks[p].step] = "fanout" => CountsOf(b, p)

\* The last step of the list has finished.
LastDone(b, j) ==
  /\ b.jobs[j].position = Len(b.jobs[j].tasks)
  /\ \E u \in Tops(b, j) \cap b.fin : b.tasks[u].position = b.jobs[j].position

\* The tasks of a job's list: those before the current position have finished,
\* and one at most is live at each position.
LineOf(b, j) ==
  /\ j \in b.begins => b.jobs[j].position = 0
  /\ \A t \in Tops(b, j) : b.tasks[t].position <= b.jobs[j].position
  /\ \A t \in Tops(b, j) \cap Live(b) :
       t \in b.fin \/ b.tasks[t].position = b.jobs[j].position
  /\ \A t, u \in Tops(b, j) \cap Live(b) :
       b.tasks[t].position = b.tasks[u].position => t = u
  /\ \A q \in 1 .. b.jobs[j].position : q < b.jobs[j].position =>
       \E u \in Tops(b, j) \cap b.fin : b.tasks[u].position = q
  /\ j \in b.ends \/ b.jobs[j].state = "Completed" => LastDone(b, j)
  /\ j \in b.ends => b.jobs[j].state # "Completed"

Line(b) == /\ b.begins \subseteq JobIds(b) /\ b.ends \subseteq JobIds(b)
           /\ \A j \in JobIds(b) : LineOf(b, j)

\* A subjob task and the job it waits for.
Nesting(b) ==
  /\ \A k \in JobIds(b) : b.jobs[k].parent # 0 =>
       Nested(b.tasks[b.jobs[k].parent]) /\ b.tasks[b.jobs[k].parent].subjob = k
  /\ \A t \in Ids(b) :
       /\ b.tasks[t].subjob # 0 => b.jobs[b.tasks[t].subjob].parent = t /\ t \notin b.pend
       /\ t \in b.act \cup b.fin /\ Nested(b.tasks[t]) =>
            b.tasks[t].subjob # 0 /\ b.jobs[b.tasks[t].subjob].state = "Completed"

\* The copies of one place of the workflow, by the attempts they had used.
Place(b, j, p, s, q, n) ==
  {u \in Ids(b) : /\ b.tasks[u].job = j /\ b.tasks[u].parent = p /\ b.tasks[u].step = s
                  /\ b.tasks[u].position = q /\ b.tasks[u].attempts = n}

Room(b, p, s) == IF p = 0 THEN 1 ELSE Cardinality(SlotsIn(b.tasks[p].step, {s}))

\* A place has one first copy for each slot, and every retry has a task of the
\* attempt before it that is no longer live.
Budget(b) ==
  \A j \in Nat, p \in 0 .. Len(b.tasks), q \in Nat, s \in Step :
    /\ Cardinality(Place(b, j, p, s, q, 0)) <= Room(b, p, s)
    /\ \A n \in Nat : Cardinality(Place(b, j, p, s, q, n + 1))
                        <= Cardinality(Place(b, j, p, s, q, n) \ Live(b))

Balanced(b) ==
  /\ Sound(b.jobs, b.tasks)
  /\ HeldOnce(b) /\ Counts(b) /\ Line(b) /\ Nesting(b) /\ Budget(b)

----------------------------------------------------------------------------
(* Finite sets.                                                            *)

\* Sets of row numbers, and of the slots of a definition, are finite.
LEMMA FiniteIds ==
  ASSUME NEW n \in Nat, NEW T, T \subseteq 1 .. n
  PROVE  IsFiniteSet(T) /\ Cardinality(T) \in Nat
<1>1. IsFiniteSet(1 .. n) BY FS_Interval
<1>2. QED BY <1>1, FS_Subset, FS_CardinalityType

LEMMA Fewer ==
  ASSUME NEW n \in Nat, NEW T, T \subseteq 1 .. n, NEW U, U \subseteq T
  PROVE  Cardinality(U) <= Cardinality(T)
<1>1. IsFiniteSet(T) BY FiniteIds
<1>2. QED BY <1>1, FS_Subset

LEMMA OneMore ==
  ASSUME NEW n \in Nat, NEW T, T \subseteq 1 .. n, NEW x, x \notin T
  PROVE  Cardinality(T \cup {x}) = Cardinality(T) + 1
<1>1. IsFiniteSet(T) BY FiniteIds
<1>2. QED BY <1>1, FS_AddElement

\* A proper subset is smaller.
LEMMA ProperlyFewer ==
  ASSUME NEW n \in Nat, NEW T, T \subseteq 1 .. n, NEW U, U \subseteq T,
         NEW x \in T, x \notin U
  PROVE  Cardinality(U) + 1 <= Cardinality(T)
<1>1. U \cup {x} \subseteq T /\ U \subseteq 1 .. n OBVIOUS
<1>2. Cardinality(U \cup {x}) = Cardinality(U) + 1 BY <1>1, OneMore
<1>3. QED BY <1>1, <1>2, Fewer

\* What the definitions give a handler.
LEMMA ChildrenOf ==
  ASSUME NEW s \in Step
  PROVE  /\ Children[s] \in Seq(Step) /\ Len(Children[s]) \in Nat
         /\ DOMAIN Children[s] = 1 .. Len(Children[s])
         /\ SlotsIn(s, Step) = 1 .. Len(Children[s])
         /\ Cardinality(SlotsIn(s, Step)) = Len(Children[s])
         /\ \A D : SlotsIn(s, D) \subseteq 1 .. Len(Children[s])
<1>1. Children[s] \in Seq(Step) BY WorkflowAssumption
<1>2. Len(Children[s]) \in Nat /\ DOMAIN Children[s] = 1 .. Len(Children[s])
  BY <1>1, LenProperties
<1>3. SlotsIn(s, Step) = 1 .. Len(Children[s]) BY <1>1, <1>2, ElementOfSeq DEF SlotsIn
<1>4. Cardinality(1 .. Len(Children[s])) = Len(Children[s]) BY <1>2, FS_Interval
<1>5. QED BY <1>1, <1>2, <1>3, <1>4 DEF SlotsIn

----------------------------------------------------------------------------
(* The rows the books are about.                                           *)

LEMMA BookRows ==
  ASSUME NEW b, Sound(b.jobs, b.tasks)
  PROVE  /\ Len(b.jobs) \in Nat /\ Len(b.tasks) \in Nat
         /\ \A j \in JobIds(b) :
              /\ b.jobs[j] \in Job
              /\ b.jobs[j].position <= Len(b.jobs[j].tasks) /\ b.jobs[j].tasks # <<>>
              /\ b.jobs[j].parent # 0 => b.jobs[j].parent \in Ids(b)
         /\ \A t \in Ids(b) :
              /\ b.tasks[t] \in Task
              /\ b.tasks[t].job \in JobIds(b)
              /\ b.tasks[t].parent # 0 => b.tasks[t].parent \in Ids(b)
              /\ b.tasks[t].subjob # 0 => b.tasks[t].subjob \in JobIds(b)
BY SoundTypes, SoundLinks DEF Ids, JobIds, Sound, JobRow

\* A subtask belongs to a fan-out task of its job; a task of the list has its place
\* in the list.
LEMMA BookPlaces ==
  ASSUME NEW b, Sound(b.jobs, b.tasks), NEW t \in Ids(b)
  PROVE  IF b.tasks[t].parent = 0
           THEN /\ b.tasks[t].position \in 1 .. Len(b.jobs[b.tasks[t].job].tasks)
                /\ b.tasks[t].step = b.jobs[b.tasks[t].job].tasks[b.tasks[t].position]
           ELSE /\ Kind[b.tasks[b.tasks[t].parent].step] = "fanout"
                /\ b.tasks[b.tasks[t].parent].job = b.tasks[t].job
BY DEF Sound, TaskRow, FromList, FromParent, Ids

\* The fields of a row an entry leaves alone.
Same(r, s) == SameTask(r, s) /\ r.completions = s.completions /\ r.subjob = s.subjob

\* The rows of c are those of b, states apart.
Alike(b, c) ==
  /\ Sound(c.jobs, c.tasks)
  /\ Len(c.jobs) = Len(b.jobs) /\ Len(c.tasks) = Len(b.tasks)
  /\ \A j \in JobIds(b) :
       SameJob(c.jobs[j], b.jobs[j]) /\ c.jobs[j].position = b.jobs[j].position
  /\ \A t \in Ids(b) : SameTask(c.tasks[t], b.tasks[t]) /\ c.tasks[t].subjob = b.tasks[t].subjob

LEMMA AlikeSets ==
  ASSUME NEW b, NEW c, Alike(b, c)
  PROVE  /\ Ids(c) = Ids(b) /\ JobIds(c) = JobIds(b)
         /\ \A p : Kids(c, p) = Kids(b, p)
         /\ \A j : Tops(c, j) = Tops(b, j)
         /\ \A j, p, s, q, n : Place(c, j, p, s, q, n) = Place(b, j, p, s, q, n)
         /\ \A t \in Ids(b) :
              /\ c.tasks[t].step = b.tasks[t].step
              /\ Regular(c.tasks[t]) <=> Regular(b.tasks[t])
              /\ FanOut(c.tasks[t]) <=> FanOut(b.tasks[t])
              /\ Nested(c.tasks[t]) <=> Nested(b.tasks[t])
<1>1. Ids(c) = Ids(b) /\ JobIds(c) = JobIds(b) BY DEF Alike, Ids, JobIds
<1>2. \A t \in Ids(b) : SameTask(c.tasks[t], b.tasks[t]) BY DEF Alike
<1>3. \A p : Kids(c, p) = Kids(b, p) BY <1>1, <1>2 DEF Kids, SameTask
<1>4. \A j : Tops(c, j) = Tops(b, j) BY <1>1, <1>2 DEF Tops, SameTask
<1>5. \A j, p, s, q, n : Place(c, j, p, s, q, n) = Place(b, j, p, s, q, n)
  BY <1>1, <1>2 DEF Place, SameTask
<1>6. \A t \in Ids(b) :
        /\ c.tasks[t].step = b.tasks[t].step
        /\ Regular(c.tasks[t]) <=> Regular(b.tasks[t])
        /\ FanOut(c.tasks[t]) <=> FanOut(b.tasks[t])
        /\ Nested(c.tasks[t]) <=> Nested(b.tasks[t])
  BY <1>2 DEF SameTask, Regular, FanOut, Nested
<1>7. QED BY <1>1, <1>3, <1>4, <1>5, <1>6

----------------------------------------------------------------------------
(* First entry: a delivery is passed on, dropped or turned into a          *)
(* completion, and rows change their state.                                *)

Passed(b, c) ==
  /\ Alike(b, c) /\ \A t \in Ids(b) : c.tasks[t].completions = b.tasks[t].completions
  /\ c.fin = b.fin /\ c.pend \subseteq b.pend
  /\ c.act \subseteq Ids(b) /\ c.act \cap c.pend = {} /\ c.act \cap b.fin = {}
  /\ \A t \in c.act \ b.act :
       /\ t \in b.pend \/ ~Regular(b.tasks[t])
       /\ FanOut(b.tasks[t]) => b.tasks[t].completions = Len(Children[b.tasks[t].step])
       /\ Nested(b.tasks[t]) =>
            b.tasks[t].subjob # 0 /\ c.jobs[b.tasks[t].subjob].state = "Completed"
  /\ c.begins \subseteq b.begins /\ c.ends \subseteq JobIds(b)
  /\ \A j \in JobIds(b) :
       /\ b.jobs[j].state = "Completed" => c.jobs[j].state = "Completed"
       /\ j \in c.ends \/ c.jobs[j].state = "Completed" =>
            j \in b.ends \/ b.jobs[j].state = "Completed" \/ LastDone(b, j)
       /\ j \in c.ends => c.jobs[j].state # "Completed"

LEMMA PassedLive ==
  ASSUME NEW b, NEW c, HeldOnce(b), Passed(b, c)
  PROVE  Live(c) \subseteq Live(b)
<1>1. Alike(b, c) BY DEF Passed
<1>2. QED BY <1>1, AlikeSets DEF Passed, Live

LEMMA PassedCounts ==
  ASSUME NEW b, NEW c, Balanced(b), Passed(b, c)
  PROVE  Counts(c)
<1>1. Alike(b, c) /\ c.fin = b.fin BY DEF Passed
<1>2. Ids(c) = Ids(b) /\ \A p : Kids(c, p) = Kids(b, p) BY <1>1, AlikeSets
<1>3. SUFFICES ASSUME NEW p \in Ids(b), Kind[c.tasks[p].step] = "fanout"
               PROVE  CountsOf(c, p)
  BY <1>2 DEF Counts
<1>4. c.tasks[p].step = b.tasks[p].step /\ (FanOut(c.tasks[p]) <=> FanOut(b.tasks[p]))
  BY <1>1, AlikeSets
<1>5. CountsOf(b, p) BY <1>3, <1>4 DEF Balanced, Counts
<1>6. c.tasks[p].completions = b.tasks[p].completions BY DEF Passed
<1>7. p \in c.pend \/ ~FanOut(c.tasks[p]) => Kids(c, p) = {}
  BY <1>2, <1>4, <1>5 DEF CountsOf, Passed
<1>8. p \in c.act \cup c.fin /\ FanOut(c.tasks[p]) =>
        c.tasks[p].completions = Len(Children[c.tasks[p].step])
  BY <1>1, <1>4, <1>5, <1>6 DEF CountsOf, Passed
<1>9. ASSUME NEW D \in SUBSET Step
      PROVE  Cardinality({u \in Kids(c, p) \cap Live(c) : c.tasks[u].step \in D})
               <= Cardinality(SlotsIn(c.tasks[p].step, D))
  <2> DEFINE U == {u \in Kids(b, p) \cap Live(b) : b.tasks[u].step \in D}
             V == {u \in Kids(c, p) \cap Live(c) : c.tasks[u].step \in D}
  <2>1. Kids(b, p) \subseteq Ids(b) /\ Len(b.tasks) \in Nat
    BY BookRows DEF Balanced, Kids
  <2>2. V \subseteq U
    BY <1>1, <1>2, <2>1, AlikeSets, PassedLive DEF Balanced
  <2>3. U \subseteq 1 .. Len(b.tasks) BY <2>1 DEF Ids
  <2>4. Cardinality(V) <= Cardinality(U) BY <2>1, <2>2, <2>3, Fewer
  <2>5. Cardinality(U) <= Cardinality(SlotsIn(b.tasks[p].step, D)) BY <1>5 DEF CountsOf
  <2>6. /\ Cardinality(U) \in Nat /\ Cardinality(V) \in Nat
        /\ Cardinality(SlotsIn(b.tasks[p].step, D)) \in Nat
    <3>1. b.tasks[p].step \in Step BY BookRows DEF Balanced, Task
    <3>2. V \subseteq 1 .. Len(b.tasks) BY <2>2, <2>3
    <3>3. QED BY <2>1, <2>3, <3>1, <3>2, FiniteIds, ChildrenOf
  <2> HIDE DEF U, V
  <2>7. Cardinality(V) <= Cardinality(SlotsIn(b.tasks[p].step, D)) BY <2>4, <2>5, <2>6
  <2>8. QED BY <1>4, <2>7 DEF V
<1>10. c.tasks[p].completions = Cardinality(Kids(c, p) \cap c.fin)
  BY <1>1, <1>2, <1>5, <1>6 DEF CountsOf
<1>11. QED BY <1>7, <1>8, <1>9, <1>10 DEF CountsOf

LEMMA PassedLine ==
  ASSUME NEW b, NEW c, Balanced(b), Passed(b, c)
  PROVE  Line(c)
<1>1. Alike(b, c) /\ c.fin = b.fin BY DEF Passed
<1>2. Ids(c) = Ids(b) /\ JobIds(c) = JobIds(b) /\ \A j : Tops(c, j) = Tops(b, j)
  BY <1>1, AlikeSets
<1>3. c.begins \subseteq JobIds(b) /\ c.ends \subseteq JobIds(b)
  BY DEF Passed, Balanced, Line
<1>4. SUFFICES ASSUME NEW j \in JobIds(b) PROVE LineOf(c, j)
  BY <1>2, <1>3 DEF Line
<1>5. LineOf(b, j) BY DEF Balanced, Line
<1>6. c.jobs[j].position = b.jobs[j].position /\ c.jobs[j].tasks = b.jobs[j].tasks
  BY <1>1 DEF Alike, SameJob
<1>7. \A t \in Tops(b, j) : t \in Ids(b) /\ c.tasks[t].position = b.tasks[t].position
  BY <1>1 DEF Alike, SameTask, Tops
<1>8. Live(c) \subseteq Live(b) BY PassedLive DEF Balanced
<1>9. LastDone(b, j) => LastDone(c, j)
  BY <1>1, <1>2, <1>6, <1>7 DEF LastDone
<1>10. /\ j \in c.ends \/ c.jobs[j].state = "Completed" => LastDone(c, j)
       /\ j \in c.ends => c.jobs[j].state # "Completed"
  BY <1>5, <1>9 DEF Passed, LineOf
<1>11. j \in c.begins => c.jobs[j].position = 0 BY <1>5, <1>6 DEF LineOf, Passed
<1>12. \A q \in 1 .. c.jobs[j].position : q < c.jobs[j].position =>
         \E u \in Tops(c, j) \cap c.fin : c.tasks[u].position = q
  BY <1>1, <1>2, <1>5, <1>6, <1>7 DEF LineOf
<1>13. /\ \A t \in Tops(c, j) : c.tasks[t].position <= c.jobs[j].position
       /\ \A t \in Tops(c, j) \cap Live(c) :
            t \in c.fin \/ c.tasks[t].position = c.jobs[j].position
       /\ \A t, u \in Tops(c, j) \cap Live(c) :
            c.tasks[t].position = c.tasks[u].position => t = u
  BY <1>1, <1>2, <1>5, <1>6, <1>7, <1>8 DEF LineOf
<1>14. QED BY <1>10, <1>11, <1>12, <1>13 DEF LineOf

LEMMA PassedNesting ==
  ASSUME NEW b, NEW c, Balanced(b), Passed(b, c)
  PROVE  Nesting(c)
<1>1. Alike(b, c) /\ c.fin = b.fin BY DEF Passed
<1>2. Ids(c) = Ids(b) /\ JobIds(c) = JobIds(b) BY <1>1, AlikeSets
<1>3. Nesting(b) BY DEF Balanced
<1>4. \A j \in JobIds(b) : c.jobs[j].parent = b.jobs[j].parent BY <1>1 DEF Alike, SameJob
<1>5. \A t \in Ids(b) : c.tasks[t].subjob = b.tasks[t].subjob BY <1>1 DEF Alike
<1>6. ASSUME NEW k \in JobIds(b), c.jobs[k].parent # 0
      PROVE  Nested(c.tasks[c.jobs[k].parent]) /\ c.tasks[c.jobs[k].parent].subjob = k
  <2>1. c.jobs[k].parent = b.jobs[k].parent /\ b.jobs[k].parent \in Ids(b)
    BY <1>4, <1>6, BookRows DEF Balanced
  <2>2. Nested(b.tasks[b.jobs[k].parent]) /\ b.tasks[b.jobs[k].parent].subjob = k
    BY <1>3, <1>6, <2>1 DEF Nesting
  <2>3. QED BY <1>1, <1>5, <2>1, <2>2, AlikeSets
<1>7. ASSUME NEW t \in Ids(b)
      PROVE  /\ c.tasks[t].subjob # 0 => c.jobs[c.tasks[t].subjob].parent = t /\ t \notin c.pend
             /\ t \in c.act \cup c.fin /\ Nested(c.tasks[t]) =>
                  c.tasks[t].subjob # 0 /\ c.jobs[c.tasks[t].subjob].state = "Completed"
  <2>1. b.tasks[t].subjob # 0 => b.tasks[t].subjob \in JobIds(b) BY BookRows DEF Balanced
  <2>2. Nested(c.tasks[t]) <=> Nested(b.tasks[t]) BY <1>1, AlikeSets
  <2>3. c.tasks[t].subjob # 0 => c.jobs[c.tasks[t].subjob].parent = t /\ t \notin c.pend
    BY <1>3, <1>4, <1>5, <2>1, SMTT(30) DEF Nesting, Passed
  <2>4. ASSUME t \in c.act \cup c.fin, Nested(c.tasks[t])
        PROVE  c.tasks[t].subjob # 0 /\ c.jobs[c.tasks[t].subjob].state = "Completed"
    <3>1. CASE t \in b.act \cup b.fin
      <4>1. b.tasks[t].subjob # 0 /\ b.jobs[b.tasks[t].subjob].state = "Completed"
        BY <1>3, <2>2, <2>4, <3>1 DEF Nesting
      <4>2. QED BY <1>5, <2>1, <4>1 DEF Passed
    <3>2. CASE t \notin b.act \cup b.fin
      BY <1>1, <1>5, <2>2, <2>4, <3>2 DEF Passed
    <3>3. QED BY <3>1, <3>2
  <2>5. QED BY <2>3, <2>4
<1>8. QED BY <1>2, <1>6, <1>7 DEF Nesting

\* The live tasks only become fewer, so the budget holds.
LEMMA AlikeBudget ==
  ASSUME NEW b, NEW c, Sound(b.jobs, b.tasks), Budget(b), Alike(b, c), Live(c) \subseteq Live(b)
  PROVE  Budget(c)
<1>1. Len(c.tasks) = Len(b.tasks) /\ Len(b.tasks) \in Nat BY BookRows DEF Alike
<1>2. SUFFICES ASSUME NEW j \in Nat, NEW p \in 0 .. Len(b.tasks), NEW q \in Nat, NEW s \in Step
      PROVE  /\ Cardinality(Place(c, j, p, s, q, 0)) <= Room(c, p, s)
             /\ \A n \in Nat : Cardinality(Place(c, j, p, s, q, n + 1))
                                 <= Cardinality(Place(c, j, p, s, q, n) \ Live(c))
  BY <1>1 DEF Budget
<1>3. \A n : Place(c, j, p, s, q, n) = Place(b, j, p, s, q, n) BY AlikeSets
<1>4. Room(c, p, s) = Room(b, p, s)
  <2>1. CASE p = 0 BY <2>1 DEF Room
  <2>2. CASE p # 0
    <3>1. p \in Ids(b) BY <1>1, <2>2 DEF Ids
    <3>2. QED BY <2>2, <3>1, AlikeSets DEF Room
  <2>3. QED BY <2>1, <2>2
<1>5. Cardinality(Place(b, j, p, s, q, 0)) <= Room(b, p, s) BY DEF Budget
<1>6. ASSUME NEW n \in Nat
      PROVE  Cardinality(Place(c, j, p, s, q, n + 1))
               <= Cardinality(Place(c, j, p, s, q, n) \ Live(c))
  <2> DEFINE U == Place(b, j, p, s, q, n)
             V == Place(b, j, p, s, q, n + 1)
  <2>1. U \subseteq 1 .. Len(b.tasks) /\ V \subseteq 1 .. Len(b.tasks)
    BY DEF Place, Ids
  <2>2. Cardinality(V) <= Cardinality(U \ Live(b)) BY DEF Budget
  <2> HIDE DEF U, V
  <2>3. U \ Live(b) \subseteq U \ Live(c) /\ U \ Live(c) \subseteq 1 .. Len(b.tasks)
    BY <2>1
  <2>4. Cardinality(U \ Live(b)) <= Cardinality(U \ Live(c)) BY <1>1, <2>3, Fewer
  <2>5. /\ Cardinality(V) \in Nat /\ Cardinality(U \ Live(b)) \in Nat
        /\ Cardinality(U \ Live(c)) \in Nat
    BY <1>1, <2>1, FiniteIds
  <2>6. Cardinality(V) <= Cardinality(U \ Live(c)) BY <2>2, <2>4, <2>5
  <2>7. Place(c, j, p, s, q, n) = U /\ Place(c, j, p, s, q, n + 1) = V BY <1>3 DEF U, V
  <2>8. QED BY <2>6, <2>7
<1>7. QED BY <1>3, <1>4, <1>5, <1>6

LEMMA Pass ==
  ASSUME NEW b, NEW c, Balanced(b), Passed(b, c)
  PROVE  Balanced(c)
<1>1. Alike(b, c) /\ Sound(c.jobs, c.tasks) BY DEF Passed, Alike
<1>2. HeldOnce(c)
  <2>1. Ids(c) = Ids(b) BY <1>1, AlikeSets
  <2>2. \A t \in Ids(b) : c.tasks[t].parent = b.tasks[t].parent BY <1>1 DEF Alike, SameTask
  <2>3. QED BY <2>1, <2>2 DEF Passed, HeldOnce, Balanced
<1>3. Budget(c) BY <1>1, AlikeBudget, PassedLive DEF Balanced
<1>4. QED BY <1>1, <1>2, <1>3, PassedCounts, PassedLine, PassedNesting DEF Balanced

----------------------------------------------------------------------------
(* Second entry: the completion of a held task is handled.                 *)

\* A fan-out task whose subtask is live and has not finished is held by nobody, and
\* it has not counted them all.
LEMMA Awaits ==
  ASSUME NEW b, Balanced(b), NEW t \in Ids(b), b.tasks[t].parent # 0,
         t \in Live(b), t \notin b.fin
  PROVE  LET p == b.tasks[t].parent
         IN /\ p \in Ids(b) /\ FanOut(b.tasks[p]) /\ p \notin b.pend \cup b.act \cup b.fin
            /\ b.tasks[p].completions + 1 <= Len(Children[b.tasks[p].step])
            /\ b.tasks[p].completions \in Nat
<1> DEFINE p == b.tasks[t].parent
           U == {u \in Kids(b, p) \cap Live(b) : b.tasks[u].step \in Step}
           V == Kids(b, p) \cap b.fin
<1>1. /\ Len(b.tasks) \in Nat /\ p \in Ids(b) /\ Kind[b.tasks[p].step] = "fanout"
      /\ \A u \in Ids(b) : b.tasks[u].step \in Step
  BY BookRows, BookPlaces DEF Balanced, Task
<1>2. CountsOf(b, p) BY <1>1 DEF Balanced, Counts
<1>3. t \in Kids(b, p) BY DEF Kids
<1>4. FanOut(b.tasks[p]) /\ p \notin b.pend BY <1>2, <1>3 DEF CountsOf
<1>5. U \subseteq 1 .. Len(b.tasks) /\ V \subseteq U /\ t \in U /\ t \notin V
  BY <1>1, <1>3 DEF Kids, Ids, Live
<1>6. Cardinality(V) + 1 <= Cardinality(U) BY <1>1, <1>5, ProperlyFewer
<1>7. Cardinality(U) <= Cardinality(SlotsIn(b.tasks[p].step, Step)) BY <1>2 DEF CountsOf
<1>8. Cardinality(SlotsIn(b.tasks[p].step, Step)) = Len(Children[b.tasks[p].step])
      /\ Len(Children[b.tasks[p].step]) \in Nat
  BY <1>1, ChildrenOf
<1>9. Cardinality(V) \in Nat /\ Cardinality(U) \in Nat BY <1>1, <1>5, FiniteIds
<1>10. b.tasks[p].completions = Cardinality(V) BY <1>2 DEF CountsOf
<1> HIDE DEF U, V
<1>11. b.tasks[p].completions + 1 <= Len(Children[b.tasks[p].step])
  BY <1>6, <1>7, <1>8, <1>9, <1>10
<1>12. p \notin b.act \cup b.fin
  <2>1. SUFFICES ASSUME p \in b.act \cup b.fin PROVE FALSE OBVIOUS
  <2>2. b.tasks[p].completions = Len(Children[b.tasks[p].step])
    BY <1>2, <1>4, <2>1 DEF CountsOf
  <2> DEFINE n == Len(Children[b.tasks[p].step])
  <2>3. n \in Nat /\ n + 1 <= n BY <1>8, <1>11, <2>2
  <2> HIDE DEF n
  <2>4. QED BY <2>3
<1>13. QED BY <1>1, <1>4, <1>9, <1>10, <1>11, <1>12

\* A task of the list that is live and has not finished is at its job's position, and
\* every other live one has finished.
LEMMA AtPosition ==
  ASSUME NEW b, Balanced(b), NEW t \in Ids(b), b.tasks[t].parent = 0,
         t \in Live(b), t \notin b.fin
  PROVE  LET j == b.tasks[t].job
         IN /\ j \in JobIds(b) /\ b.tasks[t].position = b.jobs[j].position
            /\ b.jobs[j].position # 0 /\ b.jobs[j].position \in Nat /\ j \notin b.begins
            /\ \A u \in Tops(b, j) \cap Live(b) : u \in b.fin \/ u = t
            /\ j \notin b.ends /\ b.jobs[j].state # "Completed"
<1> DEFINE j == b.tasks[t].job
<1>1. j \in JobIds(b) /\ b.jobs[j] \in Job BY BookRows DEF Balanced
<1>2. t \in Tops(b, j) BY DEF Tops
<1>3. LineOf(b, j) BY <1>1 DEF Balanced, Line
<1>4. b.tasks[t].position = b.jobs[j].position BY <1>2, <1>3 DEF LineOf
<1>5. b.tasks[t].position # 0 BY BookPlaces DEF Balanced
<1>6. \A u \in Tops(b, j) \cap Live(b) : u \in b.fin \/ u = t
  BY <1>2, <1>3, <1>4 DEF LineOf
<1>7. ~LastDone(b, j)
  <2>1. SUFFICES ASSUME NEW u \in Tops(b, j) \cap b.fin, b.tasks[u].position = b.jobs[j].position
                 PROVE FALSE
    BY DEF LastDone
  <2>2. u \in Live(b) BY DEF Live, Tops
  <2>3. u = t BY <1>2, <1>3, <1>4, <2>1, <2>2 DEF LineOf
  <2>4. QED BY <2>3
<1>8. j \notin b.ends /\ b.jobs[j].state # "Completed" BY <1>3, <1>7 DEF LineOf
<1>9. j \notin b.begins /\ b.jobs[j].position # 0 BY <1>3, <1>4, <1>5 DEF LineOf
<1>10. b.jobs[j].position \in Nat BY <1>1 DEF Job
<1>11. QED BY <1>1, <1>4, <1>6, <1>8, <1>9, <1>10

Finished(b, c, t) ==
  /\ Alike(b, c) /\ t \in b.act
  /\ c.jobs = b.jobs
  /\ \A u \in Ids(b) : c.tasks[u].completions =
       IF u = b.tasks[t].parent THEN b.tasks[u].completions + 1 ELSE b.tasks[u].completions
  /\ c.pend = b.pend /\ c.act = b.act \ {t} /\ c.fin = b.fin \cup {t}
  /\ c.begins = b.begins /\ c.ends = b.ends

LEMMA FinishedLive ==
  ASSUME NEW b, NEW c, NEW t, Finished(b, c, t)
  PROVE  Live(c) = Live(b)
<1>1. Alike(b, c) BY DEF Finished
<1>2. QED BY <1>1, AlikeSets DEF Finished, Live

LEMMA FinishedCounts ==
  ASSUME NEW b, NEW c, NEW t, Balanced(b), Finished(b, c, t)
  PROVE  Counts(c)
<1>1. Alike(b, c) BY DEF Finished
<1>2. Ids(c) = Ids(b) /\ \A p : Kids(c, p) = Kids(b, p) BY <1>1, AlikeSets
<1>3. SUFFICES ASSUME NEW p \in Ids(b), Kind[c.tasks[p].step] = "fanout"
               PROVE  CountsOf(c, p)
  BY <1>2 DEF Counts
<1>4. c.tasks[p].step = b.tasks[p].step /\ (FanOut(c.tasks[p]) <=> FanOut(b.tasks[p]))
  BY <1>1, AlikeSets
<1>5. CountsOf(b, p) BY <1>3, <1>4 DEF Balanced, Counts
<1>6. t \in Ids(b) /\ t \notin b.fin /\ t \in Live(b)
  BY DEF Balanced, HeldOnce, Finished, Live
<1>7. p \in c.pend \/ ~FanOut(c.tasks[p]) => Kids(c, p) = {}
  BY <1>2, <1>4, <1>5 DEF CountsOf, Finished
<1>8. p \in c.act \cup c.fin => p \in b.act \cup b.fin BY DEF Finished
<1>9. p \in c.act \cup c.fin => p # b.tasks[t].parent
  <2>1. SUFFICES ASSUME p = b.tasks[t].parent PROVE p \notin b.act \cup b.fin BY <1>8
  <2>2. b.tasks[t].parent # 0 BY <2>1, BookRows DEF Balanced, Ids
  <2>3. QED BY <1>6, <2>1, <2>2, Awaits
<1>10. p \in c.act \cup c.fin /\ FanOut(c.tasks[p]) =>
        c.tasks[p].completions = Len(Children[c.tasks[p].step])
  BY <1>4, <1>5, <1>8, <1>9 DEF CountsOf, Finished
<1>11. \A D \in SUBSET Step :
         Cardinality({u \in Kids(c, p) \cap Live(c) : c.tasks[u].step \in D})
               <= Cardinality(SlotsIn(c.tasks[p].step, D))
  <2>1. \A u \in Kids(b, p) : c.tasks[u].step = b.tasks[u].step BY <1>1, AlikeSets DEF Kids
  <2>2. \A D : {u \in Kids(c, p) \cap Live(c) : c.tasks[u].step \in D}
                 = {u \in Kids(b, p) \cap Live(b) : b.tasks[u].step \in D}
    BY <1>2, <2>1, FinishedLive
  <2>3. QED BY <1>4, <1>5, <2>2 DEF CountsOf
<1>12. c.tasks[p].completions = Cardinality(Kids(c, p) \cap c.fin)
  <2> DEFINE V == Kids(b, p) \cap b.fin
  <2>1. Len(b.tasks) \in Nat BY BookRows DEF Balanced
  <2>2. V \subseteq 1 .. Len(b.tasks) /\ t \notin V BY <1>6 DEF Kids, Ids
  <2>3. Cardinality(V \cup {t}) = Cardinality(V) + 1 BY <2>1, <2>2, OneMore
  <2>4. b.tasks[p].completions = Cardinality(V) BY <1>5 DEF CountsOf
  <2>5. Kids(c, p) \cap c.fin = IF p = b.tasks[t].parent THEN V \cup {t} ELSE V
    BY <1>2, <1>6 DEF Finished, Kids
  <2>6. QED BY <2>3, <2>4, <2>5 DEF Finished
<1>13. QED BY <1>7, <1>10, <1>11, <1>12 DEF CountsOf

LEMMA FinishedLine ==
  ASSUME NEW b, NEW c, NEW t, Balanced(b), Finished(b, c, t)
  PROVE  Line(c)
<1>1. Alike(b, c) BY DEF Finished
<1>2. Ids(c) = Ids(b) /\ JobIds(c) = JobIds(b) /\ \A j : Tops(c, j) = Tops(b, j)
  BY <1>1, AlikeSets
<1>3. c.begins \subseteq JobIds(b) /\ c.ends \subseteq JobIds(b)
  BY DEF Finished, Balanced, Line
<1>4. SUFFICES ASSUME NEW j \in JobIds(b) PROVE LineOf(c, j)
  BY <1>2, <1>3 DEF Line
<1>5. LineOf(b, j) BY DEF Balanced, Line
<1>6. c.jobs[j] = b.jobs[j] BY DEF Finished
<1>7. \A u \in Tops(b, j) : u \in Ids(b) /\ c.tasks[u].position = b.tasks[u].position
  BY <1>1 DEF Alike, SameTask, Tops
<1>8. Live(c) = Live(b) /\ b.fin \subseteq c.fin BY FinishedLive DEF Finished
<1>9. LastDone(b, j) => LastDone(c, j) BY <1>2, <1>6, <1>7, <1>8 DEF LastDone
<1>10. /\ j \in c.begins => c.jobs[j].position = 0
       /\ j \in c.ends \/ c.jobs[j].state = "Completed" => LastDone(c, j)
       /\ j \in c.ends => c.jobs[j].state # "Completed"
  BY <1>5, <1>6, <1>9 DEF Finished, LineOf
<1>12. \A q \in 1 .. c.jobs[j].position : q < c.jobs[j].position =>
         \E u \in Tops(c, j) \cap c.fin : c.tasks[u].position = q
  BY <1>2, <1>5, <1>6, <1>7, <1>8 DEF LineOf
<1>13. /\ \A u \in Tops(c, j) : c.tasks[u].position <= c.jobs[j].position
       /\ \A u \in Tops(c, j) \cap Live(c) :
            u \in c.fin \/ c.tasks[u].position = c.jobs[j].position
       /\ \A u, v \in Tops(c, j) \cap Live(c) :
            c.tasks[u].position = c.tasks[v].position => u = v
  BY <1>2, <1>5, <1>6, <1>7, <1>8 DEF LineOf
<1>14. QED BY <1>10, <1>12, <1>13 DEF LineOf

LEMMA FinishedNesting ==
  ASSUME NEW b, NEW c, NEW t, Balanced(b), Finished(b, c, t)
  PROVE  Nesting(c)
<1>1. Alike(b, c) /\ c.jobs = b.jobs /\ c.pend = b.pend BY DEF Finished
<1>2. Ids(c) = Ids(b) /\ JobIds(c) = JobIds(b) BY <1>1, AlikeSets
<1>3. Nesting(b) BY DEF Balanced
<1>4. \A u \in Ids(b) : c.tasks[u].subjob = b.tasks[u].subjob BY <1>1 DEF Alike
<1>5. c.act \cup c.fin = b.act \cup b.fin BY DEF Finished
<1>6. \A k \in JobIds(b) : b.jobs[k].parent # 0 => b.jobs[k].parent \in Ids(b)
  BY BookRows DEF Balanced
<1>7. \A k \in JobIds(c) : c.jobs[k].parent # 0 =>
        Nested(c.tasks[c.jobs[k].parent]) /\ c.tasks[c.jobs[k].parent].subjob = k
  <2>1. \A u \in Ids(b) : c.tasks[u].step = b.tasks[u].step BY <1>1, AlikeSets
  <2>2. QED BY <1>1, <1>2, <1>3, <1>4, <1>6, <2>1 DEF Nesting, Nested
<1>8. ASSUME NEW u \in Ids(c)
      PROVE  /\ c.tasks[u].subjob # 0 => c.jobs[c.tasks[u].subjob].parent = u /\ u \notin c.pend
             /\ u \in c.act \cup c.fin /\ Nested(c.tasks[u]) =>
                  c.tasks[u].subjob # 0 /\ c.jobs[c.tasks[u].subjob].state = "Completed"
  <2>1. u \in Ids(b) /\ c.tasks[u].subjob = b.tasks[u].subjob BY <1>2, <1>4
  <2>2. /\ b.tasks[u].subjob # 0 => b.jobs[b.tasks[u].subjob].parent = u /\ u \notin b.pend
        /\ u \in b.act \cup b.fin /\ Nested(b.tasks[u]) =>
             b.tasks[u].subjob # 0 /\ b.jobs[b.tasks[u].subjob].state = "Completed"
    BY <1>3, <2>1 DEF Nesting
  <2>3. Nested(c.tasks[u]) => Nested(b.tasks[u])
    BY <1>1, <2>1, AlikeSets DEF Nested
  <2>4. QED BY <1>1, <1>5, <2>1, <2>2, <2>3
<1>9. QED BY <1>7, <1>8 DEF Nesting

LEMMA Finish ==
  ASSUME NEW b, NEW c, NEW t, Balanced(b), Finished(b, c, t)
  PROVE  Balanced(c)
<1>1. Alike(b, c) /\ Sound(c.jobs, c.tasks) BY DEF Finished, Alike
<1>2. HeldOnce(c)
  <2>1. Ids(c) = Ids(b) BY <1>1, AlikeSets
  <2>2. \A u \in Ids(b) : c.tasks[u].parent = b.tasks[u].parent BY <1>1 DEF Alike, SameTask
  <2>3. QED BY <2>1, <2>2 DEF Finished, HeldOnce, Balanced
<1>3. Budget(c) BY <1>1, AlikeBudget, FinishedLive DEF Balanced
<1>4. QED BY <1>1, <1>2, <1>3, FinishedCounts, FinishedLine, FinishedNesting DEF Balanced

----------------------------------------------------------------------------
(* Entries that create rows.                                               *)

\* The rows of b are in c, states, subjob identifiers and positions of jobs apart.
Grown(b, c) ==
  /\ Sound(c.jobs, c.tasks)
  /\ Len(b.jobs) <= Len(c.jobs) /\ Len(b.tasks) <= Len(c.tasks)
  /\ \A j \in JobIds(b) : SameJob(c.jobs[j], b.jobs[j])
  /\ \A t \in Ids(b) : /\ SameTask(c.tasks[t], b.tasks[t])
                       /\ c.tasks[t].completions = b.tasks[t].completions

LEMMA GrownSets ==
  ASSUME NEW b, NEW c, Sound(b.jobs, b.tasks), Grown(b, c)
  PROVE  /\ Ids(b) \subseteq Ids(c) /\ JobIds(b) \subseteq JobIds(c)
         /\ \A p : Kids(b, p) = Kids(c, p) \cap Ids(b)
         /\ \A j : Tops(b, j) = Tops(c, j) \cap Ids(b)
         /\ \A t \in Ids(b) : c.tasks[t].step = b.tasks[t].step
<1>1. Ids(b) \subseteq Ids(c) /\ JobIds(b) \subseteq JobIds(c)
  <2>1. /\ Len(b.jobs) \in Nat /\ Len(b.tasks) \in Nat
        /\ Len(c.jobs) \in Nat /\ Len(c.tasks) \in Nat
    BY BookRows DEF Grown
  <2>2. QED BY <2>1 DEF Grown, Ids, JobIds
<1>2. \A t \in Ids(b) : SameTask(c.tasks[t], b.tasks[t]) BY DEF Grown
<1>3. \A p : Kids(b, p) = Kids(c, p) \cap Ids(b) BY <1>1, <1>2 DEF Kids, SameTask
<1>4. \A j : Tops(b, j) = Tops(c, j) \cap Ids(b) BY <1>1, <1>2 DEF Tops, SameTask
<1>5. \A t \in Ids(b) : c.tasks[t].step = b.tasks[t].step BY <1>2 DEF SameTask
<1>6. QED BY <1>1, <1>3, <1>4, <1>5

LEMMA GrownPlace ==
  ASSUME NEW b, NEW c, Sound(b.jobs, b.tasks), Grown(b, c),
         NEW j, NEW p, NEW s, NEW q, NEW n
  PROVE  Place(b, j, p, s, q, n) = Place(c, j, p, s, q, n) \cap Ids(b)
<1>1. Ids(b) \subseteq Ids(c) BY GrownSets
<1>2. QED BY <1>1 DEF Place, Grown, SameTask

\* A task that creates no subtask counts as before.
LEMMA CountsKept ==
  ASSUME NEW b, NEW c, Sound(b.jobs, b.tasks), Grown(b, c), NEW p \in Ids(b), CountsOf(b, p),
         Kids(c, p) = Kids(b, p), c.fin = b.fin,
         Live(c) \cap Ids(b) \subseteq Live(b),
         p \in c.pend => p \in b.pend,
         p \in c.act /\ FanOut(b.tasks[p]) => p \in b.act
  PROVE  CountsOf(c, p)
<1>1. /\ c.tasks[p].step = b.tasks[p].step /\ c.tasks[p].completions = b.tasks[p].completions
      /\ Len(b.tasks) \in Nat /\ b.tasks[p].step \in Step
  BY GrownSets, BookRows DEF Grown, Task
<1>2. \A u \in Kids(b, p) : u \in Ids(b) /\ c.tasks[u].step = b.tasks[u].step
  BY GrownSets DEF Kids
<1>3. FanOut(c.tasks[p]) => FanOut(b.tasks[p]) BY <1>1 DEF FanOut
<1>4. ~FanOut(c.tasks[p]) => ~FanOut(b.tasks[p]) BY <1>1 DEF FanOut
<1>5. p \in c.pend \/ ~FanOut(c.tasks[p]) => Kids(c, p) = {} BY <1>4 DEF CountsOf
<1>6. p \in c.act \cup c.fin /\ FanOut(c.tasks[p]) =>
        c.tasks[p].completions = Len(Children[c.tasks[p].step])
  BY <1>1, <1>3 DEF CountsOf
<1>7. ASSUME NEW D \in SUBSET Step
      PROVE  Cardinality({u \in Kids(c, p) \cap Live(c) : c.tasks[u].step \in D})
               <= Cardinality(SlotsIn(c.tasks[p].step, D))
  <2> DEFINE U == {u \in Kids(b, p) \cap Live(b) : b.tasks[u].step \in D}
             V == {u \in Kids(c, p) \cap Live(c) : c.tasks[u].step \in D}
  <2>1. V \subseteq U /\ U \subseteq 1 .. Len(b.tasks) BY <1>2 DEF Ids
  <2>2. Cardinality(U) <= Cardinality(SlotsIn(b.tasks[p].step, D)) BY DEF CountsOf
  <2> HIDE DEF U, V
  <2>3. Cardinality(V) <= Cardinality(U) BY <1>1, <2>1, Fewer
  <2>4. /\ Cardinality(U) \in Nat /\ Cardinality(V) \in Nat
        /\ Cardinality(SlotsIn(b.tasks[p].step, D)) \in Nat
    BY <1>1, <2>1, FiniteIds, ChildrenOf
  <2>5. Cardinality(V) <= Cardinality(SlotsIn(b.tasks[p].step, D)) BY <2>2, <2>3, <2>4
  <2>6. QED BY <1>1, <2>5 DEF V
<1>8. c.tasks[p].completions = Cardinality(Kids(c, p) \cap c.fin) BY <1>1 DEF CountsOf
<1>9. QED BY <1>5, <1>6, <1>7, <1>8 DEF CountsOf

\* A task that has just been created has counted nothing.
LEMMA CountsNew ==
  ASSUME NEW c, Sound(c.jobs, c.tasks), NEW p \in Ids(c), Kids(c, p) = {},
         c.tasks[p].completions = 0, p \notin c.act \cup c.fin
  PROVE  CountsOf(c, p)
<1>1. c.tasks[p].step \in Step BY BookRows DEF Task
<1>2. Cardinality({}) = 0 BY FS_EmptySet
<1>3. \A D : Cardinality(SlotsIn(c.tasks[p].step, D)) \in Nat BY <1>1, FiniteIds, ChildrenOf
<1>4. \A D : {u \in Kids(c, p) \cap Live(c) : c.tasks[u].step \in D} = {} OBVIOUS
<1>5. QED BY <1>2, <1>3, <1>4 DEF CountsOf

\* A job none of whose tasks and fields change stands where it stood.
LEMMA LineKept ==
  ASSUME NEW b, NEW c, Sound(b.jobs, b.tasks), Grown(b, c), NEW j \in JobIds(b), LineOf(b, j),
         Tops(c, j) = Tops(b, j), c.fin = b.fin, Live(c) \cap Ids(b) \subseteq Live(b),
         c.jobs[j] = b.jobs[j], j \in c.begins => j \in b.begins, j \in c.ends => j \in b.ends
  PROVE  LineOf(c, j)
<1>1. \A u \in Tops(b, j) : u \in Ids(b) /\ c.tasks[u].position = b.tasks[u].position
  BY DEF Grown, SameTask, Tops
<1>2. LastDone(b, j) => LastDone(c, j) BY <1>1 DEF LastDone
<1>3. \A u \in Tops(c, j) \cap Live(c) : u \in Tops(b, j) \cap Live(b) BY <1>1
<1>4. /\ j \in c.begins => c.jobs[j].position = 0
      /\ j \in c.ends \/ c.jobs[j].state = "Completed" => LastDone(c, j)
      /\ j \in c.ends => c.jobs[j].state # "Completed"
  BY <1>2 DEF LineOf
<1>5. \A q \in 1 .. c.jobs[j].position : q < c.jobs[j].position =>
        \E u \in Tops(c, j) \cap c.fin : c.tasks[u].position = q
  BY <1>1 DEF LineOf
<1>6. /\ \A u \in Tops(c, j) : c.tasks[u].position <= c.jobs[j].position
      /\ \A u \in Tops(c, j) \cap Live(c) :
           u \in c.fin \/ c.tasks[u].position = c.jobs[j].position
      /\ \A u, v \in Tops(c, j) \cap Live(c) :
           c.tasks[u].position = c.tasks[v].position => u = v
  BY <1>1, <1>3 DEF LineOf
<1>7. QED BY <1>4, <1>5, <1>6 DEF LineOf

\* A place that gets no new copy keeps to its budget.
LEMMA PlaceKept ==
  ASSUME NEW b, NEW c, Sound(b.jobs, b.tasks), Grown(b, c), Budget(b),
         Live(c) \cap Ids(b) \subseteq Live(b),
         NEW j \in Nat, NEW p \in 0 .. Len(b.tasks), NEW q \in Nat, NEW s \in Step, NEW n \in Nat,
         Place(c, j, p, s, q, n + 1) \subseteq Ids(b)
  PROVE  Cardinality(Place(c, j, p, s, q, n + 1))
           <= Cardinality(Place(c, j, p, s, q, n) \ Live(c))
<1> DEFINE U == Place(b, j, p, s, q, n) \ Live(b)
           V == Place(b, j, p, s, q, n + 1)
           W == Place(c, j, p, s, q, n) \ Live(c)
<1>1. Len(b.tasks) \in Nat /\ Len(c.tasks) \in Nat BY BookRows DEF Grown
<1>2. Place(c, j, p, s, q, n + 1) = V
  <2>1. V = Place(c, j, p, s, q, n + 1) \cap Ids(b) BY GrownPlace
  <2>2. QED BY <2>1
<1>3. U \subseteq W
  <2>1. Place(b, j, p, s, q, n) = Place(c, j, p, s, q, n) \cap Ids(b) BY GrownPlace
  <2>2. QED BY <2>1
<1>4. W \subseteq 1 .. Len(c.tasks) /\ V \subseteq 1 .. Len(b.tasks) BY DEF Place, Ids
<1>5. Cardinality(V) <= Cardinality(U) BY DEF Budget
<1> HIDE DEF U, V, W
<1>6. Cardinality(U) <= Cardinality(W) BY <1>1, <1>3, <1>4, Fewer
<1>7. U \subseteq 1 .. Len(c.tasks) BY <1>3, <1>4
<1>8. Cardinality(U) \in Nat /\ Cardinality(W) \in Nat /\ Cardinality(V) \in Nat
  BY <1>1, <1>4, <1>7, FiniteIds
<1>9. Cardinality(V) <= Cardinality(W) BY <1>5, <1>6, <1>8
<1>10. QED BY <1>2, <1>9 DEF W

LEMMA RoomKept ==
  ASSUME NEW b, NEW c, Sound(b.jobs, b.tasks), Grown(b, c), NEW p \in 0 .. Len(b.tasks), NEW s
  PROVE  Room(c, p, s) = Room(b, p, s)
<1>1. CASE p = 0 BY <1>1 DEF Room
<1>2. CASE p # 0
  <2>1. p \in Ids(b) BY <1>2, BookRows DEF Ids
  <2>2. QED BY <1>2, <2>1, GrownSets DEF Room
<1>3. QED BY <1>1, <1>2

\* A place is empty when no row has its parent or its attempts.
LEMMA NoRow ==
  ASSUME NEW c, Sound(c.jobs, c.tasks), NEW j \in Nat, NEW p \in 0 .. Len(c.tasks),
         NEW q \in Nat, NEW s \in Step, NEW n
  PROVE  /\ Place(c, j, p, s, q, n) = {} =>
              \A k \in Nat : Cardinality(Place(c, j, p, s, q, n))
                               <= Cardinality(Place(c, j, p, s, q, k) \ Live(c))
         /\ Place(c, j, p, s, q, n) = {} => Cardinality(Place(c, j, p, s, q, n)) <= Room(c, p, s)
         /\ Room(c, p, s) \in Nat
         /\ Cardinality(Place(c, j, p, s, q, n)) \in Nat
<1>1. Len(c.tasks) \in Nat BY BookRows
<1>2. Room(c, p, s) \in Nat
  <2>1. CASE p = 0 BY <2>1 DEF Room
  <2>2. CASE p # 0
    <3>1. p \in Ids(c) BY <1>1, <2>2 DEF Ids
    <3>2. c.tasks[p].step \in Step BY <3>1, BookRows DEF Task
    <3>3. QED BY <2>2, <3>2, ChildrenOf, FiniteIds DEF Room
  <2>3. QED BY <2>1, <2>2
<1>3. \A k : Place(c, j, p, s, q, k) \subseteq 1 .. Len(c.tasks) BY DEF Place, Ids
<1>4. ASSUME NEW k
      PROVE  /\ Cardinality(Place(c, j, p, s, q, k)) \in Nat
             /\ Cardinality(Place(c, j, p, s, q, k) \ Live(c)) \in Nat
  <2>1. Place(c, j, p, s, q, k) \ Live(c) \subseteq 1 .. Len(c.tasks) BY <1>3
  <2>2. QED BY <1>1, <1>3, <2>1, FiniteIds
<1>5. Cardinality({}) = 0 BY FS_EmptySet
<1>6. Place(c, j, p, s, q, n) = {} => Cardinality(Place(c, j, p, s, q, n)) = 0
  BY <1>5
<1>7. \A x \in Nat : 0 <= x OBVIOUS
<1>8. Place(c, j, p, s, q, n) = {} =>
        \A k \in Nat : Cardinality(Place(c, j, p, s, q, n))
                         <= Cardinality(Place(c, j, p, s, q, k) \ Live(c))
  <2>1. ASSUME NEW k \in Nat PROVE 0 <= Cardinality(Place(c, j, p, s, q, k) \ Live(c))
    <3> DEFINE x == Cardinality(Place(c, j, p, s, q, k) \ Live(c))
    <3>1. x \in Nat BY <1>4
    <3> HIDE DEF x
    <3>2. 0 <= x BY <3>1
    <3>3. QED BY <3>2 DEF x
  <2>2. QED BY <1>6, <2>1
<1>9. Place(c, j, p, s, q, n) = {} => Cardinality(Place(c, j, p, s, q, n)) <= Room(c, p, s)
  <2> DEFINE x == Room(c, p, s)
  <2>1. 0 <= x BY <1>2
  <2>2. QED BY <1>6, <2>1
<1>10. QED BY <1>2, <1>4, <1>8, <1>9

\* The task at the next position of a job's list is created, once the one at the
\* current position has finished.
Last(c) == Len(c.tasks)

Added(b, c, j) ==
  /\ Grown(b, c) /\ Len(c.jobs) = Len(b.jobs) /\ Len(c.tasks) = Len(b.tasks) + 1
  /\ j \in JobIds(b)
  /\ c.jobs[j].position = b.jobs[j].position + 1 /\ c.jobs[j].state # "Completed"
  /\ \A k \in JobIds(b) : k # j => c.jobs[k] = b.jobs[k]
  /\ \A u \in Ids(b) : c.tasks[u].subjob = b.tasks[u].subjob
  /\ c.tasks[Last(c)].job = j /\ c.tasks[Last(c)].parent = 0
  /\ c.tasks[Last(c)].position = c.jobs[j].position /\ c.tasks[Last(c)].attempts = 0
  /\ c.tasks[Last(c)].completions = 0 /\ c.tasks[Last(c)].subjob = 0
  /\ c.pend = b.pend \cup {Last(c)} /\ c.act = b.act /\ c.fin = b.fin
  /\ c.begins = b.begins \ {j} /\ c.ends = b.ends
  /\ \A u \in Tops(b, j) \cap Live(b) : u \in b.fin
  /\ b.jobs[j].position # 0 =>
       \E u \in Tops(b, j) \cap b.fin : b.tasks[u].position = b.jobs[j].position
  /\ j \notin b.ends /\ b.jobs[j].state # "Completed"

LEMMA AddedSets ==
  ASSUME NEW b, NEW c, NEW j, Balanced(b), Added(b, c, j)
  PROVE  /\ Len(b.tasks) \in Nat /\ Last(c) \notin Ids(b) /\ Ids(c) = Ids(b) \cup {Last(c)}
         /\ JobIds(c) = JobIds(b) /\ Last(c) \in Nat
         /\ Live(c) = Live(b) \cup {Last(c)}
         /\ \A p \in Ids(c) : Kids(c, p) = Kids(b, p)
         /\ \A k \in JobIds(b) : Tops(c, k) = Tops(b, k) \cup (IF k = j THEN {Last(c)} ELSE {})
         /\ Kids(c, Last(c)) = {}
<1>1. Grown(b, c) /\ Sound(b.jobs, b.tasks) BY DEF Added, Balanced
<1>2. Len(b.tasks) \in Nat /\ Len(c.tasks) = Len(b.tasks) + 1 BY <1>1, BookRows DEF Added
<1>3. /\ Last(c) \notin Ids(b) /\ Ids(c) = Ids(b) \cup {Last(c)} /\ Last(c) \in Nat
      /\ \A u \in Ids(b) : u \in Nat /\ u < Last(c)
  BY <1>2 DEF Ids, Last
<1>4. JobIds(c) = JobIds(b) BY DEF Added, JobIds
<1>5. \A u \in Ids(b) : c.tasks[u].step = b.tasks[u].step BY <1>1, GrownSets
<1>6. Live(c) = Live(b) \cup {Last(c)}
  <2>1. Last(c) \in Live(c) BY <1>3 DEF Added, Live
  <2>2. \A u \in Ids(b) : u \in Live(c) <=> u \in Live(b)
    BY <1>3, <1>5 DEF Added, Live, Regular
  <2>3. Live(b) \subseteq Ids(b) /\ Live(c) \subseteq Ids(c) BY DEF Live
  <2>4. QED BY <1>3, <2>1, <2>2, <2>3
<1>7. \A p \in Ids(c) : Kids(c, p) = Kids(b, p)
  <2>1. ASSUME NEW p \in Ids(c) PROVE Kids(c, p) = Kids(b, p)
    <3>1. p # 0 BY <1>2 DEF Ids, Added
    <3>2. Last(c) \notin Kids(c, p) BY <3>1 DEF Kids, Added
    <3>3. Kids(b, p) = Kids(c, p) \cap Ids(b) BY <1>1, GrownSets
    <3>4. QED BY <1>3, <3>2, <3>3 DEF Kids
  <2>2. QED BY <2>1
<1>8. ASSUME NEW k \in JobIds(b)
      PROVE  Tops(c, k) = Tops(b, k) \cup (IF k = j THEN {Last(c)} ELSE {})
  <2>1. Tops(b, k) = Tops(c, k) \cap Ids(b) BY <1>1, GrownSets
  <2>2. Last(c) \in Tops(c, k) <=> k = j BY <1>3 DEF Tops, Added
  <2>3. Tops(c, k) \subseteq Ids(c) BY DEF Tops
  <2>4. QED BY <1>3, <2>1, <2>2, <2>3
<1>9. Kids(c, Last(c)) = {}
  <2>1. \A u \in Ids(b) : b.tasks[u].parent < u /\ b.tasks[u].parent \in Nat
    BY <1>1, BookRows DEF Balanced, HeldOnce, Task
  <2>2. Kids(b, Last(c)) = {} BY <1>3, <2>1 DEF Kids
  <2>3. QED BY <1>3, <1>7, <2>2
<1>10. QED BY <1>2, <1>3, <1>4, <1>6, <1>7, <1>8, <1>9

LEMMA AddedCounts ==
  ASSUME NEW b, NEW c, NEW j, Balanced(b), Added(b, c, j)
  PROVE  Counts(c)
<1>1. SUFFICES ASSUME NEW p \in Ids(c), Kind[c.tasks[p].step] = "fanout"
               PROVE  CountsOf(c, p)
  BY DEF Counts
<1>2. Grown(b, c) /\ Sound(b.jobs, b.tasks) /\ Sound(c.jobs, c.tasks)
  BY DEF Added, Balanced, Grown
<1>3. CASE p = Last(c)
  <2>1. Kids(c, p) = {} /\ p \notin b.act \cup b.fin
    BY <1>3, AddedSets DEF Balanced, HeldOnce
  <2>2. c.tasks[p].completions = 0 /\ c.act = b.act /\ c.fin = b.fin BY <1>3 DEF Added
  <2>3. QED BY <1>2, <2>1, <2>2, CountsNew
<1>4. CASE p # Last(c)
  <2>1. p \in Ids(b) /\ Kids(c, p) = Kids(b, p) /\ Live(c) \cap Ids(b) \subseteq Live(b)
    BY <1>4, AddedSets
  <2>2. c.tasks[p].step = b.tasks[p].step BY <1>2, <2>1, GrownSets
  <2>3. CountsOf(b, p) BY <1>1, <2>1, <2>2 DEF Balanced, Counts
  <2>4. c.fin = b.fin /\ (p \in c.pend => p \in b.pend) /\ (p \in c.act => p \in b.act)
    BY <1>4 DEF Added
  <2>5. QED BY <1>2, <2>1, <2>3, <2>4, CountsKept
<1>5. QED BY <1>3, <1>4

LEMMA AddedLine ==
  ASSUME NEW b, NEW c, NEW j, Balanced(b), Added(b, c, j)
  PROVE  Line(c)
<1>1. Grown(b, c) /\ Sound(b.jobs, b.tasks) /\ Sound(c.jobs, c.tasks)
  BY DEF Added, Balanced, Grown
<1>2. /\ JobIds(c) = JobIds(b) /\ Last(c) \notin Ids(b)
      /\ Live(c) = Live(b) \cup {Last(c)}
      /\ \A k \in JobIds(b) : Tops(c, k) = Tops(b, k) \cup (IF k = j THEN {Last(c)} ELSE {})
  BY AddedSets
<1>3. c.begins \subseteq JobIds(b) /\ c.ends \subseteq JobIds(b)
  BY DEF Balanced, Line, Added
<1>4. ASSUME NEW k \in JobIds(b), k # j PROVE LineOf(c, k)
  <2>1. Tops(c, k) = Tops(b, k) /\ Live(c) \cap Ids(b) \subseteq Live(b) BY <1>2, <1>4
  <2>2. LineOf(b, k) BY DEF Balanced, Line
  <2>3. c.jobs[k] = b.jobs[k] /\ c.fin = b.fin BY <1>4 DEF Added
  <2>4. (k \in c.begins => k \in b.begins) /\ (k \in c.ends => k \in b.ends) BY DEF Added
  <2>5. QED BY <1>1, <2>1, <2>2, <2>3, <2>4, LineKept
<1>5. LineOf(c, j)
  <2> DEFINE x == b.jobs[j].position
             y == c.jobs[j].position
  <2>1. j \in JobIds(b) /\ LineOf(b, j) BY DEF Balanced, Line, Added
  <2>2. x \in Nat /\ y = x + 1 BY <1>1, <2>1, BookRows DEF Job, Added
  <2>3. Tops(c, j) = Tops(b, j) \cup {Last(c)} BY <1>2, <2>1
  <2>4. ASSUME NEW u \in Tops(b, j)
        PROVE  /\ u \in Ids(b) /\ c.tasks[u].position = b.tasks[u].position
               /\ b.tasks[u].position \in Nat /\ b.tasks[u].position <= x
    <3>1. u \in Ids(b) BY DEF Tops
    <3>2. b.tasks[u].position \in Nat BY <1>1, <3>1, BookRows DEF Task
    <3>3. SameTask(c.tasks[u], b.tasks[u]) BY <1>1, <3>1 DEF Grown
    <3>4. QED BY <2>1, <3>1, <3>2, <3>3 DEF LineOf, SameTask
  <2>5. c.tasks[Last(c)].position = y BY DEF Added
  <2>6. c.fin = b.fin /\ \A u \in Tops(b, j) \cap Live(b) : u \in b.fin BY DEF Added
  <2>7. j \notin c.begins /\ j \notin c.ends /\ c.jobs[j].state # "Completed" BY DEF Added
  <2>8. ASSUME NEW q \in 1 .. y, q < y
        PROVE  \E u \in Tops(c, j) \cap c.fin : c.tasks[u].position = q
    <3>1. \E u \in Tops(b, j) \cap b.fin : b.tasks[u].position = q
      <4>1. CASE q < x BY <2>1, <2>2, <2>8, <4>1 DEF LineOf
      <4>2. CASE q = x BY <2>2, <4>2 DEF Added
      <4>3. QED BY <2>2, <2>8, <4>1, <4>2
    <3>2. QED BY <2>3, <2>4, <2>6, <3>1
  <2> HIDE DEF x, y
  <2>9. \A u \in Tops(c, j) : c.tasks[u].position <= y
    BY <2>2, <2>3, <2>4, <2>5
  <2>10. \A u \in Tops(c, j) \cap Live(c) : u \in c.fin \/ c.tasks[u].position = y
    BY <1>2, <2>3, <2>5, <2>6
  <2>11. ASSUME NEW u \in Tops(c, j) \cap Live(c), NEW v \in Tops(c, j) \cap Live(c),
                c.tasks[u].position = c.tasks[v].position
         PROVE  u = v
    <3>1. \A w \in Tops(b, j) : c.tasks[w].position # y BY <2>2, <2>4
    <3>2. CASE u = Last(c) \/ v = Last(c) BY <2>3, <2>5, <2>11, <3>1, <3>2
    <3>3. CASE u # Last(c) /\ v # Last(c)
      <4>1. u \in Tops(b, j) \cap Live(b) /\ v \in Tops(b, j) \cap Live(b)
        BY <1>2, <2>3, <2>11, <3>3
      <4>2. QED BY <2>1, <2>4, <2>11, <4>1 DEF LineOf
    <3>4. QED BY <3>2, <3>3
  <2>12. QED BY <2>7, <2>8, <2>9, <2>10, <2>11 DEF LineOf, y
<1>6. QED BY <1>2, <1>3, <1>4, <1>5 DEF Line

LEMMA AddedNesting ==
  ASSUME NEW b, NEW c, NEW j, Balanced(b), Added(b, c, j)
  PROVE  Nesting(c)
<1>1. Grown(b, c) /\ Sound(b.jobs, b.tasks) /\ Sound(c.jobs, c.tasks) /\ Nesting(b)
  BY DEF Added, Balanced, Grown
<1>2. /\ JobIds(c) = JobIds(b) /\ Last(c) \notin Ids(b) /\ Ids(c) = Ids(b) \cup {Last(c)}
  BY AddedSets
<1>3. \A k \in JobIds(b) : c.jobs[k].parent = b.jobs[k].parent BY <1>1 DEF Grown, SameJob
<1>4. \A u \in Ids(b) : c.tasks[u].step = b.tasks[u].step /\ c.tasks[u].subjob = b.tasks[u].subjob
  BY <1>1, GrownSets DEF Added
<1>5. \A k \in JobIds(b) : b.jobs[k].state = "Completed" => c.jobs[k].state = "Completed"
  BY DEF Added
<1>6. \A k \in JobIds(c) : c.jobs[k].parent # 0 =>
        Nested(c.tasks[c.jobs[k].parent]) /\ c.tasks[c.jobs[k].parent].subjob = k
  <2>1. ASSUME NEW k \in JobIds(b), b.jobs[k].parent # 0
        PROVE  Nested(c.tasks[b.jobs[k].parent]) /\ c.tasks[b.jobs[k].parent].subjob = k
    <3>1. b.jobs[k].parent \in Ids(b) BY <1>1, <2>1, BookRows
    <3>2. Nested(b.tasks[b.jobs[k].parent]) /\ b.tasks[b.jobs[k].parent].subjob = k
      BY <1>1, <2>1 DEF Nesting
    <3>3. QED BY <1>4, <3>1, <3>2 DEF Nested
  <2>2. QED BY <1>2, <1>3, <2>1
<1>7. ASSUME NEW u \in Ids(c)
      PROVE  /\ c.tasks[u].subjob # 0 => c.jobs[c.tasks[u].subjob].parent = u /\ u \notin c.pend
             /\ u \in c.act \cup c.fin /\ Nested(c.tasks[u]) =>
                  c.tasks[u].subjob # 0 /\ c.jobs[c.tasks[u].subjob].state = "Completed"
  <2>1. CASE u = Last(c)
    <3>1. u \notin c.act \cup c.fin BY <1>2, <2>1 DEF Added, Balanced, HeldOnce
    <3>2. c.tasks[u].subjob = 0 BY <2>1 DEF Added
    <3>3. QED BY <3>1, <3>2
  <2>2. CASE u # Last(c)
    <3>1. u \in Ids(b) BY <1>2, <2>2
    <3>2. b.tasks[u].subjob # 0 => b.tasks[u].subjob \in JobIds(b) BY <1>1, <3>1, BookRows
    <3>3. /\ b.tasks[u].subjob # 0 => b.jobs[b.tasks[u].subjob].parent = u /\ u \notin b.pend
          /\ u \in b.act \cup b.fin /\ Nested(b.tasks[u]) =>
               b.tasks[u].subjob # 0 /\ b.jobs[b.tasks[u].subjob].state = "Completed"
      BY <1>1, <3>1 DEF Nesting
    <3>4. Nested(c.tasks[u]) => Nested(b.tasks[u]) BY <1>4, <3>1 DEF Nested
    <3>5. (u \in c.pend => u \in b.pend) /\ c.act = b.act /\ c.fin = b.fin BY <2>2 DEF Added
    <3>6. QED BY <1>3, <1>4, <1>5, <3>1, <3>2, <3>3, <3>4, <3>5
  <2>3. QED BY <2>1, <2>2
<1>8. QED BY <1>6, <1>7 DEF Nesting

LEMMA AddedBudget ==
  ASSUME NEW b, NEW c, NEW j, Balanced(b), Added(b, c, j)
  PROVE  Budget(c)
<1>1. Grown(b, c) /\ Sound(b.jobs, b.tasks) /\ Sound(c.jobs, c.tasks) /\ Budget(b)
  BY DEF Added, Balanced, Grown
<1>2. /\ Len(b.tasks) \in Nat /\ Last(c) \notin Ids(b) /\ Ids(c) = Ids(b) \cup {Last(c)}
      /\ Live(c) \cap Ids(b) \subseteq Live(b) /\ Kids(c, Last(c)) = {} /\ Last(c) \in Nat
  BY AddedSets
<1>3. SUFFICES ASSUME NEW k \in Nat, NEW p \in 0 .. Len(c.tasks), NEW q \in Nat, NEW s \in Step
      PROVE  /\ Cardinality(Place(c, k, p, s, q, 0)) <= Room(c, p, s)
             /\ \A n \in Nat : Cardinality(Place(c, k, p, s, q, n + 1))
                                 <= Cardinality(Place(c, k, p, s, q, n) \ Live(c))
  BY DEF Budget
<1>4. CASE p = Last(c)
  <2>1. \A n : Place(c, k, p, s, q, n) = {} BY <1>2, <1>4 DEF Place, Kids
  <2>2. QED BY <1>1, <2>1, NoRow
<1>5. CASE p # Last(c)
  <2>1. p \in 0 .. Len(b.tasks) BY <1>2, <1>5 DEF Last, Added
  <2>2. ASSUME NEW n \in Nat
        PROVE  Cardinality(Place(c, k, p, s, q, n + 1))
                 <= Cardinality(Place(c, k, p, s, q, n) \ Live(c))
    <3>1. Last(c) \notin Place(c, k, p, s, q, n + 1) BY DEF Place, Added
    <3>2. Place(c, k, p, s, q, n + 1) \subseteq Ids(b) BY <1>2, <3>1 DEF Place
    <3>3. QED BY <1>1, <1>2, <2>1, <3>2, PlaceKept
  <2>3. Cardinality(Place(c, k, p, s, q, 0)) <= Room(c, p, s)
    <3>1. CASE Last(c) \notin Place(c, k, p, s, q, 0)
      <4>1. Place(c, k, p, s, q, 0) \subseteq Ids(b) BY <1>2, <3>1 DEF Place
      <4>2. Place(c, k, p, s, q, 0) = Place(b, k, p, s, q, 0)
        <5>1. Place(b, k, p, s, q, 0) = Place(c, k, p, s, q, 0) \cap Ids(b)
          BY <1>1, GrownPlace
        <5>2. QED BY <4>1, <5>1
      <4>3. Room(c, p, s) = Room(b, p, s) BY <1>1, <2>1, RoomKept
      <4>4. Cardinality(Place(b, k, p, s, q, 0)) <= Room(b, p, s) BY <1>1, <2>1 DEF Budget
      <4>5. QED BY <4>2, <4>3, <4>4
    <3>2. CASE Last(c) \in Place(c, k, p, s, q, 0)
      <4>1. k = j /\ p = 0 /\ q = b.jobs[j].position + 1 BY <3>2 DEF Place, Added
      <4>2. j \in JobIds(b) /\ LineOf(b, j) /\ b.jobs[j].position \in Nat
        <5>1. j \in JobIds(b) /\ LineOf(b, j) BY DEF Balanced, Line, Added
        <5>2. b.jobs[j] \in Job BY <1>1, <5>1, BookRows
        <5>3. QED BY <5>1, <5>2 DEF Job
      <4>3. ASSUME NEW u \in Place(b, k, p, s, q, 0) PROVE FALSE
        <5>1. u \in Tops(b, j) /\ b.tasks[u].position = b.jobs[j].position + 1
          BY <4>1, <4>3 DEF Place, Tops
        <5>2. b.tasks[u].position <= b.jobs[j].position BY <4>2, <5>1 DEF LineOf
        <5>3. QED BY <4>2, <5>1, <5>2
      <4>4. Place(b, k, p, s, q, 0) = Place(c, k, p, s, q, 0) \cap Ids(b)
        BY <1>1, GrownPlace
      <4>5. Place(c, k, p, s, q, 0) \subseteq Ids(b) \cup {Last(c)} BY <1>2 DEF Place
      <4>6. Place(c, k, p, s, q, 0) = {Last(c)} BY <3>2, <4>3, <4>4, <4>5
      <4>7. Cardinality(Place(c, k, p, s, q, 0)) = 1 BY <4>6, FS_Singleton
      <4>8. QED BY <4>1, <4>7 DEF Room
    <3>3. QED BY <3>1, <3>2
  <2>4. QED BY <2>2, <2>3
<1>6. QED BY <1>4, <1>5

LEMMA Add ==
  ASSUME NEW b, NEW c, NEW j, Balanced(b), Added(b, c, j)
  PROVE  Balanced(c)
<1>1. Sound(c.jobs, c.tasks) /\ Grown(b, c) BY DEF Added, Grown
<1>2. HeldOnce(c)
  <2>1. Ids(c) = Ids(b) \cup {Last(c)} /\ Last(c) \notin Ids(b) /\ Last(c) \in Nat /\ Len(b.tasks) \in Nat
    BY AddedSets
  <2>2. \A u \in Ids(b) : c.tasks[u].parent < u
    BY <1>1 DEF Grown, SameTask, HeldOnce, Balanced
  <2>3. c.tasks[Last(c)].parent < Last(c)
    <3>1. 0 < Last(c) BY <2>1 DEF Last, Added
    <3>2. QED BY <3>1 DEF Added
  <2>4. QED BY <2>1, <2>2, <2>3 DEF Added, HeldOnce, Balanced
<1>3. QED BY <1>1, <1>2, AddedCounts, AddedLine, AddedNesting, AddedBudget DEF Balanced

----------------------------------------------------------------------------
(* A regular task that failed is created again with one more attempt.      *)

Retried(b, c, t) ==
  /\ Grown(b, c) /\ c.jobs = b.jobs /\ Len(c.tasks) = Len(b.tasks) + 1
  /\ t \in b.act /\ Regular(b.tasks[t])
  /\ \A u \in Ids(b) : c.tasks[u].subjob = b.tasks[u].subjob
  /\ c.tasks[Last(c)].job = b.tasks[t].job /\ c.tasks[Last(c)].parent = b.tasks[t].parent
  /\ c.tasks[Last(c)].step = b.tasks[t].step
  /\ c.tasks[Last(c)].position = b.tasks[t].position
  /\ c.tasks[Last(c)].attempts = b.tasks[t].attempts + 1
  /\ c.tasks[Last(c)].subjob = b.tasks[t].subjob
  /\ c.pend = b.pend \cup {Last(c)} /\ c.act = b.act \ {t} /\ c.fin = b.fin
  /\ c.begins = b.begins /\ c.ends = b.ends

LEMMA RetriedSets ==
  ASSUME NEW b, NEW c, NEW t, Balanced(b), Retried(b, c, t)
  PROVE  /\ Len(b.tasks) \in Nat /\ Last(c) \notin Ids(b) /\ Ids(c) = Ids(b) \cup {Last(c)}
         /\ Last(c) \in Nat /\ t \in Ids(b) /\ t \in Live(b) /\ t \notin b.fin
         /\ Live(c) = (Live(b) \ {t}) \cup {Last(c)}
         /\ \A p \in Ids(b) : Kids(c, p) =
              Kids(b, p) \cup (IF p = b.tasks[t].parent THEN {Last(c)} ELSE {})
         /\ Kids(c, Last(c)) = {}
         /\ \A k \in JobIds(b) : Tops(c, k) = Tops(b, k) \cup
              (IF b.tasks[t].parent = 0 /\ k = b.tasks[t].job THEN {Last(c)} ELSE {})
<1>1. Grown(b, c) /\ Sound(b.jobs, b.tasks) BY DEF Retried, Balanced
<1>2. Len(b.tasks) \in Nat /\ Len(c.tasks) = Len(b.tasks) + 1 BY <1>1, BookRows DEF Retried
<1>3. /\ Last(c) \notin Ids(b) /\ Ids(c) = Ids(b) \cup {Last(c)} /\ Last(c) \in Nat
      /\ \A u \in Ids(b) : u \in Nat /\ u < Last(c)
  BY <1>2 DEF Ids, Last
<1>4. t \in Ids(b) /\ t \in Live(b) /\ t \notin b.fin /\ t \notin b.pend
  BY DEF Retried, Balanced, HeldOnce, Live
<1>5. \A u \in Ids(b) : c.tasks[u].step = b.tasks[u].step BY <1>1, GrownSets
<1>6. Live(c) = (Live(b) \ {t}) \cup {Last(c)}
  <2>1. Last(c) \in Live(c) BY <1>3 DEF Retried, Live
  <2>2. \A u \in Ids(b) : u # t => (u \in Live(c) <=> u \in Live(b))
    BY <1>3, <1>5 DEF Retried, Live, Regular
  <2>3. t \notin Live(c) BY <1>3, <1>4, <1>5 DEF Retried, Live, Regular
  <2>4. Live(b) \subseteq Ids(b) /\ Live(c) \subseteq Ids(c) BY DEF Live
  <2>5. QED BY <1>3, <2>1, <2>2, <2>3, <2>4
<1>7. ASSUME NEW p \in Ids(b)
      PROVE  Kids(c, p) = Kids(b, p) \cup (IF p = b.tasks[t].parent THEN {Last(c)} ELSE {})
  <2>1. Kids(b, p) = Kids(c, p) \cap Ids(b) BY <1>1, GrownSets
  <2>2. Last(c) \in Kids(c, p) <=> p = b.tasks[t].parent BY <1>3 DEF Kids, Retried
  <2>3. Kids(c, p) \subseteq Ids(c) BY DEF Kids
  <2>4. QED BY <1>3, <2>1, <2>2, <2>3
<1>8. Kids(c, Last(c)) = {}
  <2>1. \A u \in Ids(b) : b.tasks[u].parent < u /\ b.tasks[u].parent \in Nat
    BY <1>1, BookRows DEF Balanced, HeldOnce, Task
  <2>2. Last(c) # b.tasks[t].parent BY <1>3, <1>4, <2>1
  <2>3. \A u \in Ids(b) : c.tasks[u].parent = b.tasks[u].parent BY <1>1 DEF Grown, SameTask
  <2>4. QED BY <1>3, <2>1, <2>2, <2>3 DEF Kids, Retried
<1>9. ASSUME NEW k \in JobIds(b)
      PROVE  Tops(c, k) = Tops(b, k) \cup
               (IF b.tasks[t].parent = 0 /\ k = b.tasks[t].job THEN {Last(c)} ELSE {})
  <2>1. Tops(b, k) = Tops(c, k) \cap Ids(b) BY <1>1, GrownSets
  <2>2. Last(c) \in Tops(c, k) <=> b.tasks[t].parent = 0 /\ k = b.tasks[t].job
    BY <1>3 DEF Tops, Retried
  <2>3. Tops(c, k) \subseteq Ids(c) BY DEF Tops
  <2>4. QED BY <1>3, <2>1, <2>2, <2>3
<1>10. QED BY <1>2, <1>3, <1>4, <1>6, <1>7, <1>8, <1>9

LEMMA RetriedCounts ==
  ASSUME NEW b, NEW c, NEW t, Balanced(b), Retried(b, c, t)
  PROVE  Counts(c)
<1>1. SUFFICES ASSUME NEW p \in Ids(c), Kind[c.tasks[p].step] = "fanout"
               PROVE  CountsOf(c, p)
  BY DEF Counts
<1>2. Grown(b, c) /\ Sound(b.jobs, b.tasks) /\ Sound(c.jobs, c.tasks)
  BY DEF Retried, Balanced, Grown
<1>3. p # Last(c) BY <1>1 DEF Retried, Regular
<1>4. p \in Ids(b) /\ Len(b.tasks) \in Nat /\ Len(c.tasks) \in Nat
  BY <1>2, <1>3, RetriedSets, BookRows
<1>5. c.tasks[p].step = b.tasks[p].step BY <1>2, <1>4, GrownSets
<1>6. CountsOf(b, p) BY <1>1, <1>4, <1>5 DEF Balanced, Counts
<1>7. CASE p # b.tasks[t].parent
  <2>1. Kids(c, p) = Kids(b, p)
    <3>1. Kids(c, p) = Kids(b, p) \cup (IF p = b.tasks[t].parent THEN {Last(c)} ELSE {})
      BY <1>4, RetriedSets
    <3>2. QED BY <1>7, <3>1
  <2>2. Live(c) \cap Ids(b) \subseteq Live(b)
    <3>1. Live(c) = (Live(b) \ {t}) \cup {Last(c)} /\ Last(c) \notin Ids(b)
      BY RetriedSets
    <3>2. QED BY <3>1
  <2>3. c.fin = b.fin /\ (p \in c.pend => p \in b.pend) /\ (p \in c.act => p \in b.act)
    BY <1>3 DEF Retried
  <2>4. QED BY <1>2, <1>4, <1>6, <2>1, <2>2, <2>3, CountsKept
<1>8. CASE p = b.tasks[t].parent
  <2>1. b.tasks[t].parent # 0 BY <1>4, <1>8 DEF Ids
  <2>2. /\ FanOut(b.tasks[p]) /\ p \notin b.pend \cup b.act \cup b.fin
        /\ t \in Ids(b) /\ t \in Live(b) /\ t \notin b.fin
    BY <1>8, <2>1, Awaits, RetriedSets
  <2>3. /\ Kids(c, p) = Kids(b, p) \cup {Last(c)} /\ Last(c) \notin Ids(b)
        /\ Live(c) = (Live(b) \ {t}) \cup {Last(c)} /\ Ids(c) = Ids(b) \cup {Last(c)}
    BY <1>4, <1>8, RetriedSets
  <2>4. p \notin c.pend /\ p \notin c.act \cup c.fin /\ FanOut(c.tasks[p])
    BY <1>3, <1>5, <2>2 DEF Retried, FanOut
  <2>5. Kids(c, p) \cap c.fin = Kids(b, p) \cap b.fin
    BY <2>3 DEF Retried, Balanced, HeldOnce
  <2>6. c.tasks[p].completions = Cardinality(Kids(c, p) \cap c.fin)
    BY <1>2, <1>4, <1>6, <2>5 DEF CountsOf, Grown
  <2>7. ASSUME NEW D \in SUBSET Step
        PROVE  Cardinality({u \in Kids(c, p) \cap Live(c) : c.tasks[u].step \in D})
                 <= Cardinality(SlotsIn(c.tasks[p].step, D))
    <3> DEFINE U == {u \in Kids(b, p) \cap Live(b) : b.tasks[u].step \in D}
               V == {u \in Kids(c, p) \cap Live(c) : c.tasks[u].step \in D}
    <3>1. U \subseteq 1 .. Len(b.tasks) BY DEF Live, Ids
    <3>2. Cardinality(U) <= Cardinality(SlotsIn(b.tasks[p].step, D)) BY <1>6 DEF CountsOf
    <3>3. \A u \in Ids(b) : c.tasks[u].step = b.tasks[u].step BY <1>2, GrownSets
    <3>4. c.tasks[Last(c)].step = b.tasks[t].step BY DEF Retried
    <3>5. t \in Kids(b, p) BY <1>8, <2>2 DEF Kids
    <3>6. IF b.tasks[t].step \in D THEN V = (U \ {t}) \cup {Last(c)} /\ t \in U ELSE V = U
      <4>1. \A u \in Ids(b) : u \in V <=> u \in U /\ u # t
        BY <2>3, <3>3
      <4>2. Last(c) \in V <=> b.tasks[t].step \in D BY <2>3, <3>4
      <4>3. V \subseteq Ids(c) /\ U \subseteq Ids(b) BY DEF Kids
      <4>4. t \in U <=> b.tasks[t].step \in D BY <2>2, <3>5
      <4> HIDE DEF U, V
      <4>5. QED BY <2>3, <4>1, <4>2, <4>3, <4>4
    <3>7. U \ {t} \subseteq 1 .. Len(b.tasks) /\ Last(c) \notin U \ {t}
      BY <2>3, <3>1 DEF Ids
    <3> HIDE DEF U, V
    <3>8. Cardinality((U \ {t}) \cup {Last(c)}) = Cardinality(U \ {t}) + 1
      BY <1>4, <3>7, OneMore
    <3>9. t \in U => Cardinality(U \ {t}) + 1 <= Cardinality(U)
      BY <1>4, <3>1, ProperlyFewer
    <3>10. Cardinality(V) <= Cardinality(U) BY <1>4, <3>1, <3>6, <3>8, <3>9, Fewer
    <3>11. V \subseteq 1 .. Len(c.tasks) BY DEF V, Live, Ids
    <3>12. b.tasks[p].step \in Step BY <1>2, <1>4, BookRows DEF Task
    <3>13. /\ Cardinality(U) \in Nat /\ Cardinality(V) \in Nat
           /\ Cardinality(SlotsIn(b.tasks[p].step, D)) \in Nat
      BY <1>4, <3>1, <3>11, <3>12, FiniteIds, ChildrenOf
    <3>14. Cardinality(V) <= Cardinality(SlotsIn(b.tasks[p].step, D))
      BY <3>2, <3>10, <3>13
    <3>15. QED BY <1>5, <3>14 DEF V
  <2>8. QED BY <2>4, <2>6, <2>7 DEF CountsOf
<1>9. QED BY <1>7, <1>8

LEMMA RetriedLine ==
  ASSUME NEW b, NEW c, NEW t, Balanced(b), Retried(b, c, t)
  PROVE  Line(c)
<1>1. Grown(b, c) /\ Sound(b.jobs, b.tasks) BY DEF Retried, Balanced
<1>2. /\ t \in Ids(b) /\ t \in Live(b) /\ t \notin b.fin /\ Last(c) \notin Ids(b)
      /\ Live(c) = (Live(b) \ {t}) \cup {Last(c)}
      /\ \A k \in JobIds(b) : Tops(c, k) = Tops(b, k) \cup
           (IF b.tasks[t].parent = 0 /\ k = b.tasks[t].job THEN {Last(c)} ELSE {})
  BY RetriedSets
<1>3. c.jobs = b.jobs /\ c.fin = b.fin /\ c.begins = b.begins /\ c.ends = b.ends
      /\ JobIds(c) = JobIds(b)
  BY DEF Retried, JobIds
<1>4. SUFFICES ASSUME NEW k \in JobIds(b) PROVE LineOf(c, k)
  BY <1>3 DEF Line, Balanced
<1>5. LineOf(b, k) BY DEF Balanced, Line
<1>6. CASE ~(b.tasks[t].parent = 0 /\ k = b.tasks[t].job)
  <2>1. Tops(c, k) = Tops(b, k) /\ Live(c) \cap Ids(b) \subseteq Live(b) BY <1>2, <1>6
  <2>2. QED BY <1>1, <1>3, <1>5, <2>1, LineKept
<1>7. CASE b.tasks[t].parent = 0 /\ k = b.tasks[t].job
  <2>1. /\ b.tasks[t].position = b.jobs[k].position /\ b.jobs[k].position \in Nat
        /\ k \notin b.begins /\ k \notin b.ends /\ b.jobs[k].state # "Completed"
    BY <1>2, <1>7, AtPosition
  <2>2. t \in Tops(b, k) BY <1>2, <1>7 DEF Tops
  <2>3. Tops(c, k) = Tops(b, k) \cup {Last(c)} BY <1>2, <1>7
  <2>4. c.tasks[Last(c)].position = b.jobs[k].position BY <2>1 DEF Retried
  <2>5. \A u \in Tops(b, k) : u \in Ids(b) /\ c.tasks[u].position = b.tasks[u].position
    BY <1>1 DEF Grown, SameTask, Tops
  <2>6. \A q \in 1 .. c.jobs[k].position : q < c.jobs[k].position =>
          \E u \in Tops(c, k) \cap c.fin : c.tasks[u].position = q
    BY <1>3, <1>5, <2>3, <2>5 DEF LineOf
  <2>7. /\ \A u \in Tops(c, k) : c.tasks[u].position <= c.jobs[k].position
        /\ \A u \in Tops(c, k) \cap Live(c) :
             u \in c.fin \/ c.tasks[u].position = c.jobs[k].position
    BY <1>2, <1>3, <1>5, <2>1, <2>3, <2>4, <2>5 DEF LineOf
  <2>8. ASSUME NEW u \in Tops(c, k) \cap Live(c), NEW v \in Tops(c, k) \cap Live(c),
               c.tasks[u].position = c.tasks[v].position
        PROVE  u = v
    <3>1. ASSUME NEW w \in Tops(b, k) \cap Live(c) PROVE c.tasks[w].position # b.jobs[k].position
      <4>1. w \in Live(b) /\ w # t BY <1>2, <2>5, <3>1
      <4>2. QED BY <1>2, <1>5, <2>1, <2>2, <2>5, <4>1 DEF LineOf
    <3>2. CASE u = Last(c) \/ v = Last(c) BY <2>3, <2>4, <2>8, <3>1, <3>2
    <3>3. CASE u # Last(c) /\ v # Last(c)
      <4>1. u \in Tops(b, k) \cap Live(b) /\ v \in Tops(b, k) \cap Live(b)
        BY <1>2, <2>3, <2>8, <3>3
      <4>2. QED BY <1>5, <2>5, <2>8, <4>1 DEF LineOf
    <3>4. QED BY <3>2, <3>3
  <2>9. QED BY <1>3, <2>1, <2>6, <2>7, <2>8 DEF LineOf
<1>8. QED BY <1>6, <1>7

LEMMA RetriedNesting ==
  ASSUME NEW b, NEW c, NEW t, Balanced(b), Retried(b, c, t)
  PROVE  Nesting(c)
<1>1. Grown(b, c) /\ Sound(b.jobs, b.tasks) /\ Nesting(b) /\ c.jobs = b.jobs
  BY DEF Retried, Balanced
<1>2. /\ t \in Ids(b) /\ Last(c) \notin Ids(b) /\ Ids(c) = Ids(b) \cup {Last(c)}
      /\ JobIds(c) = JobIds(b)
  BY RetriedSets DEF Retried, JobIds
<1>3. \A u \in Ids(b) : c.tasks[u].step = b.tasks[u].step /\ c.tasks[u].subjob = b.tasks[u].subjob
  BY <1>1, GrownSets DEF Retried
<1>4. b.tasks[t].subjob = 0
  <2>1. b.tasks[t].subjob # 0 => b.tasks[t].subjob \in JobIds(b) BY <1>1, <1>2, BookRows
  <2>2. t # 0 BY <1>2 DEF Ids
  <2>3. Regular(b.tasks[t]) BY DEF Retried
  <2>4. \A k \in JobIds(b) : b.jobs[k].parent # 0 => Nested(b.tasks[b.jobs[k].parent])
    BY <1>1 DEF Nesting
  <2>5. b.tasks[t].subjob # 0 => b.jobs[b.tasks[t].subjob].parent = t
    BY <1>1, <1>2 DEF Nesting
  <2>6. ~Nested(b.tasks[t]) BY <2>3 DEF Nested, Regular
  <2>7. QED BY <2>1, <2>2, <2>4, <2>5, <2>6
<1>5. ASSUME NEW k \in JobIds(b), b.jobs[k].parent # 0
      PROVE  Nested(c.tasks[b.jobs[k].parent]) /\ c.tasks[b.jobs[k].parent].subjob = k
  <2>1. b.jobs[k].parent \in Ids(b) BY <1>1, <1>5, BookRows
  <2>2. Nested(b.tasks[b.jobs[k].parent]) /\ b.tasks[b.jobs[k].parent].subjob = k
    BY <1>1, <1>5 DEF Nesting
  <2>3. QED BY <1>3, <2>1, <2>2 DEF Nested
<1>6. ASSUME NEW u \in Ids(c)
      PROVE  /\ c.tasks[u].subjob # 0 => c.jobs[c.tasks[u].subjob].parent = u /\ u \notin c.pend
             /\ u \in c.act \cup c.fin /\ Nested(c.tasks[u]) =>
                  c.tasks[u].subjob # 0 /\ c.jobs[c.tasks[u].subjob].state = "Completed"
  <2>1. CASE u = Last(c)
    <3>1. c.tasks[u].subjob = 0 /\ u \notin c.act \cup c.fin
      BY <1>2, <1>4, <2>1 DEF Retried, Balanced, HeldOnce
    <3>2. QED BY <3>1
  <2>2. CASE u # Last(c)
    <3>1. u \in Ids(b) BY <1>2, <2>2
    <3>2. /\ b.tasks[u].subjob # 0 => b.jobs[b.tasks[u].subjob].parent = u /\ u \notin b.pend
          /\ u \in b.act \cup b.fin /\ Nested(b.tasks[u]) =>
               b.tasks[u].subjob # 0 /\ b.jobs[b.tasks[u].subjob].state = "Completed"
      BY <1>1, <3>1 DEF Nesting
    <3>3. Nested(c.tasks[u]) => Nested(b.tasks[u]) BY <1>3, <3>1 DEF Nested
    <3>4. /\ u \in c.pend => u \in b.pend
          /\ u \in c.act \cup c.fin => u \in b.act \cup b.fin
      BY <2>2 DEF Retried
    <3>5. QED BY <1>1, <1>3, <3>1, <3>2, <3>3, <3>4
  <2>3. QED BY <2>1, <2>2
<1>7. QED BY <1>1, <1>2, <1>5, <1>6 DEF Nesting

LEMMA RetriedBudget ==
  ASSUME NEW b, NEW c, NEW t, Balanced(b), Retried(b, c, t)
  PROVE  Budget(c)
<1>1. Grown(b, c) /\ Sound(b.jobs, b.tasks) /\ Sound(c.jobs, c.tasks) /\ Budget(b)
  BY DEF Retried, Balanced, Grown
<1>2. /\ Len(b.tasks) \in Nat /\ Last(c) \notin Ids(b) /\ Ids(c) = Ids(b) \cup {Last(c)}
      /\ Live(c) = (Live(b) \ {t}) \cup {Last(c)} /\ Live(c) \cap Ids(b) \subseteq Live(b)
      /\ Kids(c, Last(c)) = {} /\ Last(c) \in Nat /\ t \in Ids(b) /\ t \in Live(b)
  BY RetriedSets
<1>3. b.tasks[t].attempts \in Nat BY <1>1, <1>2, BookRows DEF Task
<1>4. SUFFICES ASSUME NEW k \in Nat, NEW p \in 0 .. Len(c.tasks), NEW q \in Nat, NEW s \in Step
      PROVE  /\ Cardinality(Place(c, k, p, s, q, 0)) <= Room(c, p, s)
             /\ \A n \in Nat : Cardinality(Place(c, k, p, s, q, n + 1))
                                 <= Cardinality(Place(c, k, p, s, q, n) \ Live(c))
  BY DEF Budget
<1>5. CASE p = Last(c)
  <2>1. \A n : Place(c, k, p, s, q, n) = {} BY <1>2, <1>5 DEF Place, Kids
  <2>2. QED BY <1>1, <2>1, NoRow
<1>6. CASE p # Last(c)
  <2>1. p \in 0 .. Len(b.tasks) BY <1>2, <1>6 DEF Last, Retried
  <2>2. ASSUME NEW n \in Nat
        PROVE  Cardinality(Place(c, k, p, s, q, n + 1))
                 <= Cardinality(Place(c, k, p, s, q, n) \ Live(c))
    <3>1. CASE Last(c) \notin Place(c, k, p, s, q, n + 1)
      <4>1. Place(c, k, p, s, q, n + 1) \subseteq Ids(b) BY <1>2, <3>1 DEF Place
      <4>2. QED BY <1>1, <1>2, <2>1, <4>1, PlaceKept
    <3>2. CASE Last(c) \in Place(c, k, p, s, q, n + 1)
      <4> DEFINE U == Place(b, k, p, s, q, n) \ Live(b)
                 V == Place(b, k, p, s, q, n + 1)
                 W == Place(c, k, p, s, q, n) \ Live(c)
      <4>1. /\ b.tasks[t].job = k /\ b.tasks[t].parent = p /\ b.tasks[t].step = s
            /\ b.tasks[t].position = q /\ b.tasks[t].attempts = n
        <5>1. /\ c.tasks[Last(c)].job = k /\ c.tasks[Last(c)].parent = p
              /\ c.tasks[Last(c)].step = s /\ c.tasks[Last(c)].position = q
              /\ c.tasks[Last(c)].attempts = n + 1
          BY <3>2 DEF Place
        <5> HIDE DEF U, V, W
        <5>2. b.tasks[t].attempts + 1 = n + 1 BY <5>1 DEF Retried
        <5>3. QED BY <1>3, <5>1, <5>2 DEF Retried
      <4>2. t \in Place(b, k, p, s, q, n) BY <1>2, <4>1 DEF Place
      <4>3. Place(b, k, p, s, q, n) = Place(c, k, p, s, q, n) \cap Ids(b) BY <1>1, GrownPlace
      <4>4. V = Place(c, k, p, s, q, n + 1) \cap Ids(b) BY <1>1, GrownPlace
      <4>5. Place(c, k, p, s, q, n + 1) = V \cup {Last(c)}
        <5>1. Place(c, k, p, s, q, n + 1) \subseteq Ids(c) BY DEF Place
        <5> HIDE DEF V
        <5>2. QED BY <1>2, <3>2, <4>4, <5>1
      <4>6. U \subseteq W /\ t \in W /\ t \notin U
        BY <1>2, <4>2, <4>3
      <4>7. V \subseteq 1 .. Len(b.tasks) /\ Last(c) \notin V BY <1>2 DEF Place, Ids
      <4>8. W \subseteq 1 .. Len(c.tasks) /\ U \subseteq 1 .. Len(b.tasks) BY DEF Place, Ids
      <4>9. Cardinality(V) <= Cardinality(U) BY <1>1, <2>1 DEF Budget
      <4> HIDE DEF U, V, W
      <4>10. Len(c.tasks) \in Nat BY <1>1, BookRows
      <4>11. Cardinality(U) + 1 <= Cardinality(W) BY <4>6, <4>8, <4>10, ProperlyFewer
      <4>12. Cardinality(V \cup {Last(c)}) = Cardinality(V) + 1 BY <1>2, <4>7, OneMore
      <4>13. Cardinality(U) \in Nat /\ Cardinality(V) \in Nat /\ Cardinality(W) \in Nat
        BY <1>2, <4>7, <4>8, <4>10, FiniteIds
      <4>14. Cardinality(V \cup {Last(c)}) <= Cardinality(W) BY <4>9, <4>11, <4>12, <4>13
      <4>15. QED BY <4>5, <4>14 DEF W
    <3>3. QED BY <3>1, <3>2
  <2>3. Cardinality(Place(c, k, p, s, q, 0)) <= Room(c, p, s)
    <3>1. Last(c) \notin Place(c, k, p, s, q, 0) BY <1>3 DEF Place, Retried
    <3>2. Place(c, k, p, s, q, 0) \subseteq Ids(b) BY <1>2, <3>1 DEF Place
    <3>3. Place(b, k, p, s, q, 0) = Place(c, k, p, s, q, 0) \cap Ids(b) BY <1>1, GrownPlace
    <3>4. Place(c, k, p, s, q, 0) = Place(b, k, p, s, q, 0) BY <3>2, <3>3
    <3>5. Room(c, p, s) = Room(b, p, s) BY <1>1, <2>1, RoomKept
    <3>6. Cardinality(Place(b, k, p, s, q, 0)) <= Room(b, p, s) BY <1>1, <2>1 DEF Budget
    <3>7. QED BY <3>4, <3>5, <3>6
  <2>4. QED BY <2>2, <2>3
<1>7. QED BY <1>5, <1>6

LEMMA Retry ==
  ASSUME NEW b, NEW c, NEW t, Balanced(b), Retried(b, c, t)
  PROVE  Balanced(c)
<1>1. Sound(c.jobs, c.tasks) /\ Grown(b, c) BY DEF Retried, Grown
<1>2. HeldOnce(c)
  <2>1. /\ Ids(c) = Ids(b) \cup {Last(c)} /\ Last(c) \notin Ids(b) /\ Last(c) \in Nat
        /\ Len(b.tasks) \in Nat /\ t \in Ids(b)
    BY RetriedSets
  <2>2. \A u \in Ids(b) : c.tasks[u].parent < u /\ b.tasks[u].parent < u /\ b.tasks[u].parent \in Nat
    BY <1>1, BookRows DEF Grown, SameTask, HeldOnce, Balanced, Task
  <2>3. c.tasks[Last(c)].parent < Last(c)
    <3>1. t < Last(c) BY <2>1 DEF Last, Retried, Ids
    <3>2. t \in Nat BY <2>1 DEF Ids
    <3>3. QED BY <2>1, <2>2, <3>1, <3>2 DEF Retried
  <2>4. QED BY <2>1, <2>2, <2>3 DEF Retried, HeldOnce, Balanced
<1>3. QED BY <1>1, <1>2, RetriedCounts, RetriedLine, RetriedNesting, RetriedBudget DEF Balanced

----------------------------------------------------------------------------
(* A pending fan-out task creates its subtasks and waits for them.         *)

New(b, c) == Ids(c) \ Ids(b)

FannedOut(b, c, t) ==
  /\ Grown(b, c) /\ c.jobs = b.jobs
  /\ t \in b.pend /\ FanOut(b.tasks[t])
  /\ Len(c.tasks) = Len(b.tasks) + Len(Children[b.tasks[t].step])
  /\ \A u \in Ids(b) : c.tasks[u].subjob = b.tasks[u].subjob
  /\ \A u \in New(b, c) :
       /\ c.tasks[u].job = b.tasks[t].job /\ c.tasks[u].parent = t
       /\ c.tasks[u].step = Children[b.tasks[t].step][u - Len(b.tasks)]
       /\ c.tasks[u].attempts = 0 /\ c.tasks[u].completions = 0 /\ c.tasks[u].subjob = 0
  /\ c.pend = (b.pend \ {t}) \cup New(b, c) /\ c.act = b.act /\ c.fin = b.fin
  /\ c.begins = b.begins /\ c.ends = b.ends

LEMMA FannedOutSets ==
  ASSUME NEW b, NEW c, NEW t, Balanced(b), FannedOut(b, c, t)
  PROVE  /\ Len(b.tasks) \in Nat /\ Len(c.tasks) \in Nat /\ t \in Ids(b) /\ t # 0
         /\ t \notin b.act \cup b.fin
         /\ Ids(c) = Ids(b) \cup New(b, c) /\ Ids(b) \cap New(b, c) = {}
         /\ \A u \in New(b, c) : u \in Nat /\ t < u
              /\ u - Len(b.tasks) \in 1 .. Len(Children[b.tasks[t].step])
         /\ Live(c) = Live(b) \cup New(b, c)
         /\ Kids(b, t) = {} /\ Kids(c, t) = New(b, c)
         /\ \A p \in Ids(b) : p # t => Kids(c, p) = Kids(b, p)
         /\ \A p \in New(b, c) : Kids(c, p) = {}
         /\ \A k \in JobIds(b) : Tops(c, k) = Tops(b, k)
<1>1. Grown(b, c) /\ Sound(b.jobs, b.tasks) BY DEF FannedOut, Balanced
<1>2. /\ Len(b.tasks) \in Nat /\ Len(c.tasks) = Len(b.tasks) + Len(Children[b.tasks[t].step])
      /\ t \in Ids(b) /\ b.tasks[t].step \in Step
  <2>1. t \in Ids(b) BY DEF FannedOut, Balanced, HeldOnce
  <2>2. b.tasks[t] \in Task /\ Len(b.tasks) \in Nat BY <1>1, <2>1, BookRows
  <2>3. QED BY <2>1, <2>2 DEF Task, FannedOut
<1>3. Len(Children[b.tasks[t].step]) \in Nat BY <1>2, ChildrenOf
<1>4. /\ Ids(c) = Ids(b) \cup New(b, c) /\ Ids(b) \cap New(b, c) = {} /\ t # 0
      /\ Len(c.tasks) \in Nat
      /\ \A u \in New(b, c) : u \in Nat /\ t < u
           /\ u - Len(b.tasks) \in 1 .. Len(Children[b.tasks[t].step])
      /\ \A u \in Ids(b) : u \in Nat /\ \A v \in New(b, c) : u < v
  <2> DEFINE n == Len(b.tasks)
             k == Len(Children[b.tasks[t].step])
  <2>1. n \in Nat /\ k \in Nat /\ Len(c.tasks) = n + k BY <1>2, <1>3
  <2>2. Ids(b) = 1 .. n /\ Ids(c) = 1 .. (n + k) BY <2>1 DEF Ids
  <2> HIDE DEF n, k
  <2>3. \A u \in New(b, c) : u \in (n + 1) .. (n + k) BY <2>1, <2>2 DEF New
  <2>4. \A u \in New(b, c) : u \in Nat /\ u - n \in 1 .. k /\ \A v \in 1 .. n : v < u
    BY <2>1, <2>3
  <2>5. \A u \in 1 .. n : u \in Nat /\ u # 0 BY <2>1
  <2>6. t \in 1 .. n BY <1>2, <2>2
  <2>7. Len(c.tasks) \in Nat BY <2>1
  <2>8. Ids(c) = Ids(b) \cup New(b, c) /\ Ids(b) \cap New(b, c) = {}
    BY <2>1, <2>2 DEF New
  <2>9. QED BY <2>2, <2>4, <2>5, <2>6, <2>7, <2>8 DEF n, k
<1>5. \A u \in Ids(b) : c.tasks[u].step = b.tasks[u].step BY <1>1, GrownSets
<1>6. t \notin b.act \cup b.fin BY DEF FannedOut, Balanced, HeldOnce
<1>7. Live(c) = Live(b) \cup New(b, c)
  <2>1. \A u \in New(b, c) : u \in Live(c) BY <1>4 DEF FannedOut, Live
  <2>2. \A u \in Ids(b) : u # t => (u \in Live(c) <=> u \in Live(b))
    BY <1>4, <1>5 DEF FannedOut, Live, Regular
  <2>3. t \in Live(c) /\ t \in Live(b)
    BY <1>2, <1>4, <1>5 DEF FannedOut, Live, Regular, FanOut
  <2>4. Live(b) \subseteq Ids(b) /\ Live(c) \subseteq Ids(c) BY DEF Live
  <2>5. QED BY <1>2, <1>4, <2>1, <2>2, <2>3, <2>4
<1>8. \A p : Kids(b, p) = Kids(c, p) \cap Ids(b) BY <1>1, GrownSets
<1>9. Kids(b, t) = {}
  <2>1. CountsOf(b, t) BY <1>2 DEF Balanced, Counts, FannedOut, FanOut
  <2>2. QED BY <2>1 DEF CountsOf, FannedOut
<1>10. \A u \in New(b, c) : u \in Ids(c) /\ c.tasks[u].parent = t BY <1>4 DEF FannedOut
<1>11. Kids(c, t) = New(b, c)
  <2>1. New(b, c) \subseteq Kids(c, t) BY <1>10 DEF Kids
  <2>2. Kids(c, t) \subseteq Ids(c) BY DEF Kids
  <2>3. QED BY <1>4, <1>8, <1>9, <2>1, <2>2
<1>12. ASSUME NEW p \in Ids(b), p # t PROVE Kids(c, p) = Kids(b, p)
  <2>1. Kids(c, p) \cap New(b, c) = {} BY <1>10, <1>12 DEF Kids
  <2>2. Kids(c, p) \subseteq Ids(c) BY DEF Kids
  <2>3. Kids(b, p) = Kids(c, p) \cap Ids(b) BY <1>8
  <2>4. QED BY <1>4, <2>1, <2>2, <2>3
<1>13. ASSUME NEW p \in New(b, c), NEW u \in Kids(c, p) PROVE FALSE
  <2>1. u \in Ids(c) /\ c.tasks[u].parent = p BY DEF Kids
  <2>2. p # t BY <1>2, <1>4
  <2>3. u \in Ids(b) BY <1>4, <1>10, <2>1, <2>2
  <2>4. b.tasks[u].parent = p BY <1>1, <2>1, <2>3 DEF Grown, SameTask
  <2>5. b.tasks[u].parent < u BY <2>3 DEF Balanced, HeldOnce
  <2>6. u \in Nat /\ p \in Nat /\ u < p BY <1>4, <2>3
  <2>7. QED BY <2>4, <2>5, <2>6
<1>14. ASSUME NEW k \in JobIds(b) PROVE Tops(c, k) = Tops(b, k)
  <2>1. Tops(b, k) = Tops(c, k) \cap Ids(b) BY <1>1, GrownSets
  <2>2. Tops(c, k) \cap New(b, c) = {} BY <1>4, <1>10 DEF Tops
  <2>3. Tops(c, k) \subseteq Ids(c) BY DEF Tops
  <2>4. QED BY <1>4, <2>1, <2>2, <2>3
<1>15. QED BY <1>2, <1>4, <1>6, <1>7, <1>9, <1>11, <1>12, <1>13, <1>14

\* The new subtasks of some definitions fit the slots of those definitions.
LEMMA FannedOutSlots ==
  ASSUME NEW b, NEW c, NEW t, Balanced(b), FannedOut(b, c, t), NEW D,
         NEW U, U \subseteq New(b, c), \A u \in U : c.tasks[u].step \in D
  PROVE  Cardinality(U) <= Cardinality(SlotsIn(b.tasks[t].step, D))
<1> DEFINE s == b.tasks[t].step
           f == [u \in U |-> u - Len(b.tasks)]
<1>1. s \in Step /\ Len(b.tasks) \in Nat
  <2>1. t \in Ids(b) BY FannedOutSets
  <2>2. b.tasks[t] \in Task /\ Len(b.tasks) \in Nat BY <2>1, BookRows DEF Balanced
  <2>3. QED BY <2>2 DEF Task
<1>2. /\ DOMAIN Children[s] = 1 .. Len(Children[s]) /\ SlotsIn(s, D) \subseteq 1 .. Len(Children[s])
      /\ Len(Children[s]) \in Nat
  BY <1>1, ChildrenOf
<1>3. ASSUME NEW u \in U
      PROVE  u \in Nat /\ u - Len(b.tasks) \in SlotsIn(s, D)
  <2>1. u \in New(b, c) /\ c.tasks[u].step \in D OBVIOUS
  <2>2. u \in Nat /\ u - Len(b.tasks) \in 1 .. Len(Children[s]) BY <2>1, FannedOutSets
  <2>3. c.tasks[u].step = Children[s][u - Len(b.tasks)] BY <2>1 DEF FannedOut
  <2>4. QED BY <1>2, <2>1, <2>2, <2>3 DEF SlotsIn
<1> HIDE DEF s
<1>4. f \in [U -> SlotsIn(s, D)] BY <1>3
<1>5. \A u, v \in U : f[u] = f[v] => u = v BY <1>1, <1>3
<1> HIDE DEF f
<1>6. f \in Injection(U, SlotsIn(s, D)) BY <1>4, <1>5 DEF Injection, IsInjective
<1>7. IsFiniteSet(SlotsIn(s, D)) BY <1>2, FiniteIds
<1>8. QED BY <1>6, <1>7, FS_Injection DEF s

LEMMA FannedOutCounts ==
  ASSUME NEW b, NEW c, NEW t, Balanced(b), FannedOut(b, c, t)
  PROVE  Counts(c)
<1>1. SUFFICES ASSUME NEW p \in Ids(c), Kind[c.tasks[p].step] = "fanout"
               PROVE  CountsOf(c, p)
  BY DEF Counts
<1>2. Grown(b, c) /\ Sound(b.jobs, b.tasks) /\ Sound(c.jobs, c.tasks)
  BY DEF FannedOut, Balanced, Grown
<1>3. Ids(c) = Ids(b) \cup New(b, c) /\ Ids(b) \cap New(b, c) = {} BY FannedOutSets
<1>4. c.fin = b.fin /\ c.act = b.act /\ c.pend = (b.pend \ {t}) \cup New(b, c)
  BY DEF FannedOut
<1>5. b.act \subseteq Ids(b) /\ b.fin \subseteq Ids(b) BY DEF Balanced, HeldOnce
<1>6. CASE p \in New(b, c)
  <2>1. Kids(c, p) = {} BY <1>6, FannedOutSets
  <2>2. p \notin c.act \cup c.fin BY <1>3, <1>4, <1>5, <1>6
  <2>3. c.tasks[p].completions = 0 BY <1>6 DEF FannedOut
  <2>4. QED BY <1>2, <2>1, <2>2, <2>3, CountsNew
<1>7. CASE p \in Ids(b) /\ p # t
  <2>1. Kids(c, p) = Kids(b, p) BY <1>7, FannedOutSets
  <2>2. Live(c) \cap Ids(b) \subseteq Live(b)
    <3>1. Live(c) = Live(b) \cup New(b, c) BY FannedOutSets
    <3>2. QED BY <1>3, <3>1
  <2>3. c.tasks[p].step = b.tasks[p].step BY <1>2, <1>7, GrownSets
  <2>4. CountsOf(b, p) BY <1>1, <1>7, <2>3 DEF Balanced, Counts
  <2>5. (p \in c.pend => p \in b.pend) /\ (p \in c.act => p \in b.act)
    BY <1>3, <1>4, <1>7
  <2>6. QED BY <1>2, <1>4, <1>7, <2>1, <2>2, <2>4, <2>5, CountsKept
<1>8. CASE p = t
  <2>1. /\ t \in Ids(b) /\ Kids(b, t) = {} /\ Kids(c, t) = New(b, c) /\ t \notin b.act \cup b.fin
    BY FannedOutSets
  <2>2. c.tasks[t].step = b.tasks[t].step /\ c.tasks[t].completions = b.tasks[t].completions
    BY <1>2, <2>1, GrownSets DEF Grown
  <2>3. CountsOf(b, t) BY <1>1, <1>8, <2>1, <2>2 DEF Balanced, Counts
  <2>4. b.tasks[t].completions = Cardinality({})
    <3>1. Kids(b, t) \cap b.fin = {} BY <2>1
    <3>2. QED BY <2>3, <3>1 DEF CountsOf
  <2>5. Kids(c, t) \cap c.fin = {} BY <1>3, <1>4, <1>5, <2>1
  <2>6. t \notin c.pend /\ t \notin c.act \cup c.fin BY <1>3, <1>4, <2>1
  <2>7. FanOut(c.tasks[t]) BY <2>2 DEF FannedOut, FanOut
  <2>8. ASSUME NEW D \in SUBSET Step
        PROVE  Cardinality({u \in Kids(c, t) \cap Live(c) : c.tasks[u].step \in D})
                 <= Cardinality(SlotsIn(c.tasks[t].step, D))
    <3> DEFINE U == {u \in Kids(c, t) \cap Live(c) : c.tasks[u].step \in D}
    <3>1. U \subseteq New(b, c) /\ \A u \in U : c.tasks[u].step \in D BY <2>1
    <3> HIDE DEF U
    <3>2. Cardinality(U) <= Cardinality(SlotsIn(b.tasks[t].step, D))
      BY <3>1, FannedOutSlots
    <3>3. QED BY <2>2, <3>2 DEF U
  <2>9. QED BY <1>8, <2>2, <2>4, <2>5, <2>6, <2>7, <2>8 DEF CountsOf
<1>9. QED BY <1>3, <1>6, <1>7, <1>8

LEMMA FannedOutLine ==
  ASSUME NEW b, NEW c, NEW t, Balanced(b), FannedOut(b, c, t)
  PROVE  Line(c)
<1>1. Grown(b, c) /\ Sound(b.jobs, b.tasks) BY DEF FannedOut, Balanced
<1>2. Live(c) \cap Ids(b) \subseteq Live(b)
  <2>1. Live(c) = Live(b) \cup New(b, c) /\ Ids(b) \cap New(b, c) = {} BY FannedOutSets
  <2>2. QED BY <2>1
<1>3. c.jobs = b.jobs /\ c.fin = b.fin /\ c.begins = b.begins /\ c.ends = b.ends
      /\ JobIds(c) = JobIds(b)
  BY DEF FannedOut, JobIds
<1>4. ASSUME NEW k \in JobIds(b) PROVE LineOf(c, k)
  <2>1. Tops(c, k) = Tops(b, k) BY FannedOutSets
  <2>2. LineOf(b, k) BY DEF Balanced, Line
  <2>3. QED BY <1>1, <1>2, <1>3, <2>1, <2>2, LineKept
<1>5. QED BY <1>3, <1>4 DEF Line, Balanced

LEMMA FannedOutNesting ==
  ASSUME NEW b, NEW c, NEW t, Balanced(b), FannedOut(b, c, t)
  PROVE  Nesting(c)
<1>1. Grown(b, c) /\ Sound(b.jobs, b.tasks) /\ Nesting(b) /\ c.jobs = b.jobs
      /\ JobIds(c) = JobIds(b)
  BY DEF FannedOut, Balanced, JobIds
<1>2. Ids(c) = Ids(b) \cup New(b, c) /\ Ids(b) \cap New(b, c) = {} BY FannedOutSets
<1>3. \A u \in Ids(b) : c.tasks[u].step = b.tasks[u].step /\ c.tasks[u].subjob = b.tasks[u].subjob
  BY <1>1, GrownSets DEF FannedOut
<1>4. ASSUME NEW k \in JobIds(b), b.jobs[k].parent # 0
      PROVE  Nested(c.tasks[b.jobs[k].parent]) /\ c.tasks[b.jobs[k].parent].subjob = k
  <2>1. b.jobs[k].parent \in Ids(b) BY <1>1, <1>4, BookRows
  <2>2. Nested(b.tasks[b.jobs[k].parent]) /\ b.tasks[b.jobs[k].parent].subjob = k
    BY <1>1, <1>4 DEF Nesting
  <2>3. QED BY <1>3, <2>1, <2>2 DEF Nested
<1>5. ASSUME NEW u \in Ids(c)
      PROVE  /\ c.tasks[u].subjob # 0 => c.jobs[c.tasks[u].subjob].parent = u /\ u \notin c.pend
             /\ u \in c.act \cup c.fin /\ Nested(c.tasks[u]) =>
                  c.tasks[u].subjob # 0 /\ c.jobs[c.tasks[u].subjob].state = "Completed"
  <2>1. CASE u \in New(b, c)
    <3>1. c.tasks[u].subjob = 0 BY <2>1 DEF FannedOut
    <3>2. u \notin c.act \cup c.fin BY <1>2, <2>1 DEF FannedOut, Balanced, HeldOnce
    <3>3. QED BY <3>1, <3>2
  <2>2. CASE u \in Ids(b)
    <3>1. /\ b.tasks[u].subjob # 0 => b.jobs[b.tasks[u].subjob].parent = u /\ u \notin b.pend
          /\ u \in b.act \cup b.fin /\ Nested(b.tasks[u]) =>
               b.tasks[u].subjob # 0 /\ b.jobs[b.tasks[u].subjob].state = "Completed"
      BY <1>1, <2>2 DEF Nesting
    <3>2. Nested(c.tasks[u]) => Nested(b.tasks[u]) BY <1>3, <2>2 DEF Nested
    <3>3. (u \in c.pend => u \in b.pend) /\ c.act = b.act /\ c.fin = b.fin
      BY <1>2, <2>2 DEF FannedOut
    <3>4. QED BY <1>1, <1>3, <2>2, <3>1, <3>2, <3>3
  <2>3. QED BY <1>2, <2>1, <2>2
<1>6. QED BY <1>1, <1>4, <1>5 DEF Nesting

LEMMA FannedOutBudget ==
  ASSUME NEW b, NEW c, NEW t, Balanced(b), FannedOut(b, c, t)
  PROVE  Budget(c)
<1>1. Grown(b, c) /\ Sound(b.jobs, b.tasks) /\ Sound(c.jobs, c.tasks) /\ Budget(b)
  BY DEF FannedOut, Balanced, Grown
<1>2. /\ Len(b.tasks) \in Nat /\ Len(c.tasks) \in Nat /\ t \in Ids(b) /\ t # 0
      /\ Ids(c) = Ids(b) \cup New(b, c) /\ Ids(b) \cap New(b, c) = {}
      /\ Kids(b, t) = {}
  BY FannedOutSets
<1>3. Live(c) \cap Ids(b) \subseteq Live(b)
  <2>1. Live(c) = Live(b) \cup New(b, c) BY FannedOutSets
  <2>2. QED BY <1>2, <2>1
<1>4. SUFFICES ASSUME NEW k \in Nat, NEW p \in 0 .. Len(c.tasks), NEW q \in Nat, NEW s \in Step
      PROVE  /\ Cardinality(Place(c, k, p, s, q, 0)) <= Room(c, p, s)
             /\ \A n \in Nat : Cardinality(Place(c, k, p, s, q, n + 1))
                                 <= Cardinality(Place(c, k, p, s, q, n) \ Live(c))
  BY DEF Budget
<1>5. \A n : Place(c, k, p, s, q, n) \subseteq Ids(c) BY DEF Place
<1>6. CASE p \in New(b, c)
  <2>1. Kids(c, p) = {} BY <1>6, FannedOutSets
  <2>2. \A n : Place(c, k, p, s, q, n) = {} BY <2>1 DEF Place, Kids
  <2>3. QED BY <1>1, <2>2, NoRow
<1>7. CASE p \notin New(b, c)
  <2>1. p \in 0 .. Len(b.tasks)
    <3>1. p = 0 \/ p \in Ids(c) BY <1>2 DEF Ids
    <3>2. p = 0 \/ p \in Ids(b) BY <1>2, <1>7, <3>1
    <3>3. QED BY <1>2, <3>2 DEF Ids
  <2>2. ASSUME NEW n \in Nat
        PROVE  Cardinality(Place(c, k, p, s, q, n + 1))
                 <= Cardinality(Place(c, k, p, s, q, n) \ Live(c))
    <3>1. ASSUME NEW u \in Place(c, k, p, s, q, n + 1) PROVE u \notin New(b, c)
      <4>1. c.tasks[u].attempts = n + 1 BY DEF Place
      <4>2. QED BY <4>1 DEF FannedOut
    <3>2. Place(c, k, p, s, q, n + 1) \subseteq Ids(b) BY <1>2, <1>5, <3>1
    <3>3. QED BY <1>1, <1>3, <2>1, <3>2, PlaceKept
  <2>3. Place(b, k, p, s, q, 0) = Place(c, k, p, s, q, 0) \cap Ids(b) BY <1>1, GrownPlace
  <2>4. Room(c, p, s) = Room(b, p, s) BY <1>1, <2>1, RoomKept
  <2>5. CASE p # t
    <3>1. ASSUME NEW u \in Place(c, k, p, s, q, 0) PROVE u \notin New(b, c)
      <4>1. c.tasks[u].parent = p BY DEF Place
      <4>2. QED BY <2>5, <4>1 DEF FannedOut
    <3>2. Place(c, k, p, s, q, 0) = Place(b, k, p, s, q, 0) BY <1>2, <1>5, <2>3, <3>1
    <3>3. Cardinality(Place(b, k, p, s, q, 0)) <= Room(b, p, s) BY <1>1, <2>1 DEF Budget
    <3>4. QED BY <2>2, <2>4, <3>2, <3>3
  <2>6. CASE p = t
    <3>1. Place(b, k, t, s, q, 0) = {} BY <1>2 DEF Place, Kids
    <3>2. Place(c, k, t, s, q, 0) \subseteq New(b, c) BY <1>2, <1>5, <2>3, <2>6, <3>1
    <3>3. \A u \in Place(c, k, t, s, q, 0) : c.tasks[u].step \in {s} BY DEF Place
    <3>4. Cardinality(Place(c, k, t, s, q, 0)) <= Cardinality(SlotsIn(b.tasks[t].step, {s}))
      BY <3>2, <3>3, FannedOutSlots
    <3>5. Room(b, t, s) = Cardinality(SlotsIn(b.tasks[t].step, {s})) BY <1>2 DEF Room
    <3>6. QED BY <2>2, <2>4, <2>6, <3>4, <3>5
  <2>7. QED BY <2>5, <2>6
<1>8. QED BY <1>6, <1>7

LEMMA FanTasksOut ==
  ASSUME NEW b, NEW c, NEW t, Balanced(b), FannedOut(b, c, t)
  PROVE  Balanced(c)
<1>1. Sound(c.jobs, c.tasks) /\ Grown(b, c) BY DEF FannedOut, Grown
<1>2. HeldOnce(c)
  <2>1. Ids(c) = Ids(b) \cup New(b, c) /\ Ids(b) \cap New(b, c) = {} BY FannedOutSets
  <2>2. \A u \in Ids(b) : c.tasks[u].parent < u
    BY <1>1 DEF Grown, SameTask, HeldOnce, Balanced
  <2>3. ASSUME NEW u \in New(b, c) PROVE c.tasks[u].parent < u
    <3>1. t < u BY FannedOutSets
    <3>2. c.tasks[u].parent = t BY DEF FannedOut
    <3>3. QED BY <3>1, <3>2
  <2>4. QED BY <2>1, <2>2, <2>3 DEF FannedOut, HeldOnce, Balanced
<1>3. QED BY <1>1, <1>2, FannedOutCounts, FannedOutLine, FannedOutNesting, FannedOutBudget
      DEF Balanced

----------------------------------------------------------------------------
(* A pending subjob task creates its job and waits for it.                 *)

Descended(b, c, t) ==
  /\ Grown(b, c) /\ Len(c.tasks) = Len(b.tasks) /\ Len(c.jobs) = Len(b.jobs) + 1
  /\ t \in b.pend /\ Nested(b.tasks[t])
  /\ \A k \in JobIds(b) : c.jobs[k] = b.jobs[k]
  /\ c.jobs[Len(c.jobs)].parent = t /\ c.jobs[Len(c.jobs)].position = 0
  /\ c.jobs[Len(c.jobs)].state = "Pending"
  /\ \A u \in Ids(b) :
       c.tasks[u].subjob = IF u = t THEN Len(c.jobs) ELSE b.tasks[u].subjob
  /\ c.pend = b.pend \ {t} /\ c.act = b.act /\ c.fin = b.fin
  /\ c.begins = b.begins \cup {Len(c.jobs)} /\ c.ends = b.ends

LEMMA DescendedSets ==
  ASSUME NEW b, NEW c, NEW t, Balanced(b), Descended(b, c, t)
  PROVE  /\ Len(b.jobs) \in Nat /\ Len(c.jobs) \in Nat /\ Len(c.jobs) # 0
         /\ Len(c.jobs) \notin JobIds(b) /\ JobIds(c) = JobIds(b) \cup {Len(c.jobs)}
         /\ Ids(c) = Ids(b) /\ t \in Ids(b) /\ t # 0 /\ t \notin b.act \cup b.fin
         /\ b.tasks[t].subjob = 0
         /\ Live(c) = Live(b)
         /\ \A p : Kids(c, p) = Kids(b, p)
         /\ \A k : Tops(c, k) = Tops(b, k)
         /\ Tops(c, Len(c.jobs)) = {}
         /\ \A k, p, s, q, n : Place(c, k, p, s, q, n) = Place(b, k, p, s, q, n)
<1>1. Grown(b, c) /\ Sound(b.jobs, b.tasks) BY DEF Descended, Balanced
<1>2. Len(b.jobs) \in Nat /\ Len(c.jobs) = Len(b.jobs) + 1 BY <1>1, BookRows DEF Descended
<1>3. /\ Len(c.jobs) \notin JobIds(b) /\ JobIds(c) = JobIds(b) \cup {Len(c.jobs)}
      /\ Len(c.jobs) \in Nat /\ Len(c.jobs) # 0
  BY <1>2 DEF JobIds
<1>4. Ids(c) = Ids(b) BY DEF Descended, Ids
<1>5. t \in Ids(b) /\ t # 0 /\ t \notin b.act \cup b.fin
  BY DEF Descended, Balanced, HeldOnce, Ids
<1>6. \A u \in Ids(b) : SameTask(c.tasks[u], b.tasks[u]) BY <1>1 DEF Grown
<1>7. b.tasks[t].subjob = 0 BY <1>5 DEF Descended, Balanced, Nesting
<1>8. Live(c) = Live(b)
  <2>1. ~Regular(b.tasks[t]) /\ ~Regular(c.tasks[t])
    BY <1>5, <1>6 DEF Descended, Regular, Nested, SameTask
  <2>2. \A u \in Ids(b) : u # t => (u \in Live(c) <=> u \in Live(b))
    BY <1>4, <1>6 DEF Descended, Live, Regular, SameTask
  <2>3. Live(b) \subseteq Ids(b) /\ Live(c) \subseteq Ids(b) BY <1>4 DEF Live
  <2>4. t \in Live(b) /\ t \in Live(c) BY <1>4, <1>5, <2>1 DEF Live
  <2>5. QED BY <2>2, <2>3, <2>4
<1>9. \A p : Kids(c, p) = Kids(b, p) BY <1>4, <1>6 DEF Kids, SameTask
<1>10. \A k : Tops(c, k) = Tops(b, k) BY <1>4, <1>6 DEF Tops, SameTask
<1>11. Tops(b, Len(c.jobs)) = {}
  <2>1. \A u \in Ids(b) : b.tasks[u].job \in JobIds(b) BY <1>1, BookRows
  <2>2. QED BY <1>3, <2>1 DEF Tops
<1>12. \A k, p, s, q, n : Place(c, k, p, s, q, n) = Place(b, k, p, s, q, n)
  BY <1>4, <1>6 DEF Place, SameTask
<1>13. QED BY <1>2, <1>3, <1>4, <1>5, <1>7, <1>8, <1>9, <1>10, <1>11, <1>12

LEMMA DescendedCounts ==
  ASSUME NEW b, NEW c, NEW t, Balanced(b), Descended(b, c, t)
  PROVE  Counts(c)
<1>1. SUFFICES ASSUME NEW p \in Ids(c), Kind[c.tasks[p].step] = "fanout"
               PROVE  CountsOf(c, p)
  BY DEF Counts
<1>2. Grown(b, c) /\ Sound(b.jobs, b.tasks) BY DEF Descended, Balanced
<1>3. p \in Ids(b) BY DescendedSets
<1>4. Kids(c, p) = Kids(b, p) /\ Live(c) = Live(b) BY DescendedSets
<1>5. c.tasks[p].step = b.tasks[p].step BY <1>2, <1>3, GrownSets
<1>6. CountsOf(b, p) BY <1>1, <1>3, <1>5 DEF Balanced, Counts
<1>7. c.fin = b.fin /\ c.act = b.act /\ c.pend \subseteq b.pend BY DEF Descended
<1>8. Live(c) \cap Ids(b) \subseteq Live(b) BY <1>4
<1>9. QED BY <1>2, <1>3, <1>4, <1>6, <1>7, <1>8, CountsKept

LEMMA DescendedLine ==
  ASSUME NEW b, NEW c, NEW t, Balanced(b), Descended(b, c, t)
  PROVE  Line(c)
<1>1. Grown(b, c) /\ Sound(b.jobs, b.tasks) BY DEF Descended, Balanced
<1>2. JobIds(c) = JobIds(b) \cup {Len(c.jobs)} /\ Len(c.jobs) \notin JobIds(b)
  BY DescendedSets
<1>3. b.begins \subseteq JobIds(b) /\ b.ends \subseteq JobIds(b) BY DEF Balanced, Line
<1>4. c.begins = b.begins \cup {Len(c.jobs)} /\ c.ends = b.ends /\ c.fin = b.fin
  BY DEF Descended
<1>5. ASSUME NEW k \in JobIds(b) PROVE LineOf(c, k)
  <2>1. Tops(c, k) = Tops(b, k) /\ Live(c) = Live(b) BY DescendedSets
  <2>2. LineOf(b, k) BY DEF Balanced, Line
  <2>3. c.jobs[k] = b.jobs[k] BY DEF Descended
  <2>4. Live(c) \cap Ids(b) \subseteq Live(b) BY <2>1
  <2>5. (k \in c.begins => k \in b.begins) /\ (k \in c.ends => k \in b.ends) BY <1>2, <1>4
  <2>6. QED BY <1>1, <1>4, <2>1, <2>2, <2>3, <2>4, <2>5, LineKept
<1>6. LineOf(c, Len(c.jobs))
  <2> DEFINE k == Len(c.jobs)
  <2>1. c.jobs[k].position = 0 /\ c.jobs[k].state = "Pending" BY DEF Descended
  <2>2. Tops(c, k) = {} BY DescendedSets
  <2>3. k \notin c.ends BY <1>2, <1>3, <1>4
  <2> HIDE DEF k
  <2>4. 1 .. c.jobs[k].position = {} BY <2>1
  <2>5. LineOf(c, k) BY <2>1, <2>2, <2>3, <2>4 DEF LineOf
  <2>6. QED BY <2>5 DEF k
<1>7. QED BY <1>2, <1>3, <1>4, <1>5, <1>6 DEF Line

LEMMA DescendedNesting ==
  ASSUME NEW b, NEW c, NEW t, Balanced(b), Descended(b, c, t)
  PROVE  Nesting(c)
<1>1. Grown(b, c) /\ Sound(b.jobs, b.tasks) /\ Nesting(b) BY DEF Descended, Balanced
<1>2. /\ JobIds(c) = JobIds(b) \cup {Len(c.jobs)} /\ Len(c.jobs) \notin JobIds(b)
      /\ Ids(c) = Ids(b) /\ t \in Ids(b) /\ t \notin b.act \cup b.fin /\ b.tasks[t].subjob = 0
      /\ Len(c.jobs) # 0
  BY DescendedSets
<1>3. \A u \in Ids(b) : c.tasks[u].step = b.tasks[u].step BY <1>1, GrownSets
<1>4. /\ c.tasks[t].subjob = Len(c.jobs) /\ c.jobs[Len(c.jobs)].parent = t /\ Nested(b.tasks[t])
      /\ \A u \in Ids(b) : u # t => c.tasks[u].subjob = b.tasks[u].subjob
      /\ c.pend = b.pend \ {t} /\ c.act = b.act /\ c.fin = b.fin
      /\ \A k \in JobIds(b) : c.jobs[k] = b.jobs[k]
  BY <1>2 DEF Descended
<1>5. ASSUME NEW k \in JobIds(c), c.jobs[k].parent # 0
      PROVE  Nested(c.tasks[c.jobs[k].parent]) /\ c.tasks[c.jobs[k].parent].subjob = k
  <2>1. CASE k = Len(c.jobs) BY <1>2, <1>3, <1>4, <2>1 DEF Nested
  <2>2. CASE k \in JobIds(b)
    <3>1. c.jobs[k].parent = b.jobs[k].parent /\ b.jobs[k].parent \in Ids(b)
      BY <1>1, <1>4, <1>5, <2>2, BookRows
    <3>2. Nested(b.tasks[b.jobs[k].parent]) /\ b.tasks[b.jobs[k].parent].subjob = k
      BY <1>1, <1>5, <2>2, <3>1 DEF Nesting
    <3>3. k # 0 BY <2>2 DEF JobIds
    <3>4. b.jobs[k].parent # t BY <1>2, <3>2, <3>3
    <3>5. QED BY <1>3, <1>4, <3>1, <3>2, <3>4 DEF Nested
  <2>3. QED BY <1>2, <2>1, <2>2
<1>6. ASSUME NEW u \in Ids(c)
      PROVE  /\ c.tasks[u].subjob # 0 => c.jobs[c.tasks[u].subjob].parent = u /\ u \notin c.pend
             /\ u \in c.act \cup c.fin /\ Nested(c.tasks[u]) =>
                  c.tasks[u].subjob # 0 /\ c.jobs[c.tasks[u].subjob].state = "Completed"
  <2>1. CASE u = t BY <1>2, <1>4, <2>1
  <2>2. CASE u # t
    <3>1. u \in Ids(b) BY <1>2
    <3>2. b.tasks[u].subjob # 0 => b.tasks[u].subjob \in JobIds(b) BY <1>1, <3>1, BookRows
    <3>3. /\ b.tasks[u].subjob # 0 => b.jobs[b.tasks[u].subjob].parent = u /\ u \notin b.pend
          /\ u \in b.act \cup b.fin /\ Nested(b.tasks[u]) =>
               b.tasks[u].subjob # 0 /\ b.jobs[b.tasks[u].subjob].state = "Completed"
      BY <1>1, <3>1 DEF Nesting
    <3>4. Nested(c.tasks[u]) => Nested(b.tasks[u]) BY <1>3, <3>1 DEF Nested
    <3>5. QED BY <1>4, <2>2, <3>1, <3>2, <3>3, <3>4
  <2>3. QED BY <2>1, <2>2
<1>7. QED BY <1>5, <1>6 DEF Nesting

LEMMA DescendedBudget ==
  ASSUME NEW b, NEW c, NEW t, Balanced(b), Descended(b, c, t)
  PROVE  Budget(c)
<1>1. Grown(b, c) /\ Sound(b.jobs, b.tasks) /\ Budget(b) /\ Len(c.tasks) = Len(b.tasks)
  BY DEF Descended, Balanced
<1>2. Live(c) = Live(b) BY DescendedSets
<1>3. ASSUME NEW k \in Nat, NEW p \in 0 .. Len(c.tasks), NEW q \in Nat, NEW s \in Step
      PROVE  /\ Cardinality(Place(c, k, p, s, q, 0)) <= Room(c, p, s)
             /\ \A n \in Nat : Cardinality(Place(c, k, p, s, q, n + 1))
                                 <= Cardinality(Place(c, k, p, s, q, n) \ Live(c))
  <2>1. \A n : Place(c, k, p, s, q, n) = Place(b, k, p, s, q, n) BY DescendedSets
  <2>2. Room(c, p, s) = Room(b, p, s) BY <1>1, RoomKept
  <2>3. Cardinality(Place(b, k, p, s, q, 0)) <= Room(b, p, s) BY <1>1 DEF Budget
  <2>4. \A n \in Nat : Cardinality(Place(b, k, p, s, q, n + 1))
                         <= Cardinality(Place(b, k, p, s, q, n) \ Live(b))
    BY <1>1 DEF Budget
  <2>5. QED BY <1>2, <2>1, <2>2, <2>3, <2>4
<1>4. QED BY <1>3 DEF Budget

LEMMA Descend ==
  ASSUME NEW b, NEW c, NEW t, Balanced(b), Descended(b, c, t)
  PROVE  Balanced(c)
<1>1. Sound(c.jobs, c.tasks) /\ Grown(b, c) BY DEF Descended, Grown
<1>2. HeldOnce(c)
  <2>1. Ids(c) = Ids(b) BY DescendedSets
  <2>2. \A u \in Ids(b) : c.tasks[u].parent = b.tasks[u].parent BY <1>1 DEF Grown, SameTask
  <2>3. QED BY <2>1, <2>2 DEF Descended, HeldOnce, Balanced
<1>3. QED BY <1>1, <1>2, DescendedCounts, DescendedLine, DescendedNesting, DescendedBudget
      DEF Balanced

----------------------------------------------------------------------------
(* The least of a set.                                                    *)

\* A set of natural numbers has a least element.
LEMMA Smallest ==
  ASSUME NEW S \in SUBSET Nat, S # {}
  PROVE  \E e \in S : \A f \in S : e <= f
<1> DEFINE upTo == {0 .. e : e \in S}
<1>1. upTo \subseteq FiniteSubsetsOf(Nat) /\ upTo # {}
  <2>1. ASSUME NEW e \in S PROVE 0 .. e \in SUBSET Nat /\ IsFiniteSet(0 .. e)
    BY FS_Interval
  <2>2. QED BY <2>1 DEF FiniteSubsetsOf
<1>2. IsWellFoundedOn(StrictSubsetOrdering(Nat), FiniteSubsetsOf(Nat))
  BY FS_StrictSubsetOrderingWellFounded
<1>3. \E x \in upTo : \A y \in upTo : <<y, x>> \notin StrictSubsetOrdering(Nat)
  BY <1>1, <1>2, WFMin, Zenon
<1>4. PICK e \in S : \A f \in S : <<0 .. f, 0 .. e>> \notin StrictSubsetOrdering(Nat)
  BY <1>3
<1>5. ASSUME NEW f \in S, f < e PROVE FALSE
  <2>1. 0 .. f \subseteq 0 .. e /\ e \in 0 .. e /\ e \notin 0 .. f BY <1>5
  <2>2. 0 .. f \in SUBSET Nat /\ 0 .. e \in SUBSET Nat /\ 0 .. f # 0 .. e BY <2>1
  <2>3. <<0 .. f, 0 .. e>> \in StrictSubsetOrdering(Nat)
    BY <2>1, <2>2 DEF StrictSubsetOrdering
  <2>4. QED BY <1>4, <2>3
<1>6. QED BY <1>5

\* A property no number can be the first to lack is one that every number has.
LEMMA NoFirst ==
  ASSUME NEW S \in SUBSET Nat, \A n \in S : \E k \in S : k < n
  PROVE  S = {}
<1>1. CASE S # {}
  <2>1. PICK e \in S : \A f \in S : e <= f BY <1>1, Smallest
  <2>2. PICK k \in S : k < e OBVIOUS
  <2>3. e <= k BY <2>1
  <2>4. QED BY <2>2, <2>3
<1>2. QED BY <1>1

----------------------------------------------------------------------------
(* The lineage of a task: the recursion that collects it has a solution.   *)

\* A set of tasks that holds, of each of them, the task that created it.
Upwards(ts, S) == \A v \in S : ts[v].parent # 0 => ts[v].parent \in S

\* The tasks above u, as the least closed set that u is in.
Above(ts, u) ==
  {v \in 1 .. Len(ts) : \A S \in SUBSET (1 .. Len(ts)) : u \in S /\ Upwards(ts, S) => v \in S}

LEMMA AboveUnfolds ==
  ASSUME NEW ts, NEW u \in 1 .. Len(ts), ts[u].parent \in 0 .. Len(ts),
         Len(ts) \in Nat
  PROVE  \A v : v \in Above(ts, u) <=>
           v = u \/ (ts[u].parent # 0 /\ v \in Above(ts, ts[u].parent))
<1> DEFINE p == ts[u].parent
<1>1. u \in Above(ts, u) BY DEF Above
<1>2. ASSUME NEW v, p # 0, v \in Above(ts, p) PROVE v \in Above(ts, u)
  BY <1>2 DEF Above, Upwards
<1>3. ASSUME NEW v \in Above(ts, u), v # u PROVE p # 0 /\ v \in Above(ts, p)
  <2>1. v \in 1 .. Len(ts) BY DEF Above
  <2>2. p # 0
    <3>1. SUFFICES ASSUME p = 0 PROVE FALSE OBVIOUS
    <3>2. PICK S : S = {u} OBVIOUS
    <3>3. S \in SUBSET (1 .. Len(ts)) /\ u \in S /\ Upwards(ts, S) BY <3>1, <3>2 DEF Upwards
    <3>4. v \in S BY <3>3 DEF Above
    <3>5. QED BY <1>3, <3>2, <3>4
  <2>3. ASSUME NEW S \in SUBSET (1 .. Len(ts)), p \in S, Upwards(ts, S) PROVE v \in S
    <3>1. PICK T : T = S \cup {u} OBVIOUS
    <3>2. T \in SUBSET (1 .. Len(ts)) /\ u \in T /\ Upwards(ts, T)
      BY <2>3, <3>1 DEF Upwards
    <3>3. v \in T BY <3>2 DEF Above
    <3>4. QED BY <1>3, <3>1, <3>3
  <2>4. QED BY <2>1, <2>2, <2>3 DEF Above
<1>4. ASSUME NEW v
      PROVE  v \in Above(ts, u) <=> v = u \/ (p # 0 /\ v \in Above(ts, p))
  <2> HIDE DEF p
  <2>1. ASSUME v \in Above(ts, u) PROVE v = u \/ (p # 0 /\ v \in Above(ts, p))
    BY <1>3, <2>1
  <2>2. ASSUME v = u \/ (p # 0 /\ v \in Above(ts, p)) PROVE v \in Above(ts, u)
    <3>1. CASE v = u BY <1>1, <3>1
    <3>2. CASE p # 0 /\ v \in Above(ts, p) BY <1>2, <3>2
    <3>3. QED BY <2>2, <3>1, <3>2
  <2>3. QED BY <2>1, <2>2
<1>5. QED BY <1>4

LEMMA LineageUnfolds ==
  ASSUME NEW ts, Len(ts) \in Nat, \A u \in 1 .. Len(ts) : ts[u].parent \in 0 .. Len(ts)
  PROVE  /\ Lineage(ts, 0) = {}
         /\ \A u \in 1 .. Len(ts) : Lineage(ts, u) = {u} \cup Lineage(ts, ts[u].parent)
<1> DEFINE Solves(f) == f = [u \in 0 .. Len(ts) |-> IF u = 0 THEN {}
                                                    ELSE {u} \cup f[ts[u].parent]]
           g  == [u \in 0 .. Len(ts) |-> IF u = 0 THEN {} ELSE Above(ts, u)]
           up == CHOOSE f : Solves(f)
<1>1. Solves(g)
  <2> DEFINE h == [u \in 0 .. Len(ts) |-> IF u = 0 THEN {} ELSE {u} \cup g[ts[u].parent]]
  <2>1. ASSUME NEW u \in 0 .. Len(ts) PROVE g[u] = h[u]
    <3>1. CASE u = 0 BY <3>1
    <3>2. CASE u # 0
      <4>1. u \in 1 .. Len(ts) BY <3>2
      <4>2. PICK p \in 0 .. Len(ts) : p = ts[u].parent BY <4>1
      <4>3. h[u] = {u} \cup g[p] /\ g[u] = Above(ts, u) BY <3>2, <4>2
      <4>4. \A v : v \in Above(ts, u) <=> v = u \/ (p # 0 /\ v \in Above(ts, p))
        BY <4>1, <4>2, AboveUnfolds
      <4>5. g[p] = IF p = 0 THEN {} ELSE Above(ts, p) OBVIOUS
      <4> HIDE DEF g, h
      <4>6. \A v : v \in g[p] <=> p # 0 /\ v \in Above(ts, p) BY <4>5
      <4>7. PICK X, Y, Z, A : X = g[u] /\ Y = h[u] /\ Z = g[p] /\ A = Above(ts, p)
        OBVIOUS
      <4>8. \A v : v \in X <=> v = u \/ v \in Z
        <5>1. \A v : v \in Z <=> p # 0 /\ v \in A BY <4>6, <4>7
        <5>2. \A v : v \in X <=> v = u \/ (p # 0 /\ v \in A) BY <4>3, <4>4, <4>7
        <5>3. ASSUME NEW v \in X PROVE v = u \/ v \in Z BY <5>1, <5>2
        <5>4. ASSUME NEW v, v = u \/ v \in Z PROVE v \in X BY <5>1, <5>2, <5>4
        <5>5. QED BY <5>3, <5>4
      <4>9. Y = {u} \cup Z BY <4>3, <4>7
      <4>10. X = Y BY <4>8, <4>9
      <4>11. QED BY <4>7, <4>10
    <3>3. QED BY <3>1, <3>2
  <2>2. g = h
    <3>1. g = [u \in 0 .. Len(ts) |-> g[u]] /\ h = [u \in 0 .. Len(ts) |-> h[u]] OBVIOUS
    <3> HIDE DEF g, h
    <3>2. QED BY <2>1, <3>1
  <2>3. QED BY <2>2
<1>2. Solves(up)
  <2> HIDE DEF Solves, g
  <2>1. QED BY <1>1
<1>3. \A t : Lineage(ts, t) = up[t] BY Zenon DEF Lineage
<1>4. up = [u \in 0 .. Len(ts) |-> IF u = 0 THEN {} ELSE {u} \cup up[ts[u].parent]]
  BY <1>2
<1> HIDE DEF up
<1>5. up[0] = {} BY <1>4
<1>6. ASSUME NEW u \in 1 .. Len(ts) PROVE up[u] = {u} \cup up[ts[u].parent]
  BY <1>4
<1>7. QED BY <1>3, <1>5, <1>6

----------------------------------------------------------------------------
(* How a job fails.  A failed job is stuck: at its position no task is     *)
(* left that could complete.  A task that failed is held by nobody, and a  *)
(* fan-out task it belongs to stays short of it.                           *)

Held(b) == b.pend \cup b.act \cup b.fin

\* A composite task whose failure has been recorded: it never completes.
Broken(b, t) ==
  \/ FanOut(b.tasks[t]) /\ b.tasks[t].state = "Failed"
  \/ /\ Nested(b.tasks[t]) /\ b.tasks[t].subjob # 0
     /\ b.jobs[b.tasks[t].subjob].state = "Failed"

\* A fan-out task with fewer live subtasks than children.
Short(b, p) == Cardinality(Kids(b, p) \cap Live(b)) < Len(Children[b.tasks[p].step])

\* No task at the position of the job can complete.
Stuck(b, j) ==
  /\ b.jobs[j].position # 0
  /\ \A u \in Tops(b, j) \cap Live(b) :
       b.tasks[u].position = b.jobs[j].position => Broken(b, u)

\* A task that has failed for good.
Lost(b, t) ==
  /\ t \notin Held(b)
  /\ IF Regular(b.tasks[t])
       THEN IF b.tasks[t].parent # 0 THEN Short(b, b.tasks[t].parent)
                                     ELSE Stuck(b, b.tasks[t].job)
       ELSE Nested(b.tasks[t]) /\ Broken(b, t)

\* A fan-out task recorded as failed has a child that cannot complete.
Doomed(b, t) == /\ t \notin Held(b)
                /\ Short(b, t) \/ \E v \in Kids(b, t) : Broken(b, v)

\* Every failure on record has its reason, and a job left alone is pending until it
\* starts and neither cancelled nor restarted.
Accounted(b) ==
  /\ \A t \in Ids(b) : FanOut(b.tasks[t]) /\ b.tasks[t].state = "Failed" => Doomed(b, t)
  /\ \A j \in JobIds(b) :
       /\ b.jobs[j].state = "Failed" => Stuck(b, j)
       /\ b.jobs[j].state = "Pending" <=> b.jobs[j].position = 0
       /\ b.jobs[j].state \notin {"Cancelled", "Restart"}

\* So has every failure a message reports.
Reason(b, m) ==
  /\ m.queue = "x-failed" => Lost(b, m.task)
  /\ JobEvent(m, "Failed") => Stuck(b, m.job)

\* A held task is not broken.
LEMMA HeldWhole ==
  ASSUME NEW b, Balanced(b), Accounted(b), NEW t \in Ids(b), t \in Held(b)
  PROVE  ~Broken(b, t)
<1>1. Nesting(b) BY DEF Balanced
<1>2. ~(FanOut(b.tasks[t]) /\ b.tasks[t].state = "Failed") BY DEF Accounted, Doomed
<1>3. ASSUME Nested(b.tasks[t]), b.tasks[t].subjob # 0
      PROVE  b.jobs[b.tasks[t].subjob].state = "Completed"
  <2>1. t \notin b.pend BY <1>1, <1>3 DEF Nesting
  <2>2. t \in b.act \cup b.fin BY <2>1 DEF Held
  <2>3. QED BY <1>1, <1>3, <2>2 DEF Nesting
<1>4. QED BY <1>2, <1>3 DEF Broken

\* A job with a task at its position that is held is not stuck.
LEMMA NotStuck ==
  ASSUME NEW b, Balanced(b), Accounted(b), NEW j, NEW u \in Tops(b, j), u \in Held(b),
         b.tasks[u].position = b.jobs[j].position
  PROVE  ~Stuck(b, j)
<1>1. u \in Ids(b) BY DEF Tops
<1>2. u \in Live(b) BY <1>1 DEF Live, Held
<1>3. ~Broken(b, u) BY <1>1, HeldWhole
<1>4. QED BY <1>2, <1>3 DEF Stuck

\* A fan-out task that is short of a child is not held once it has been scheduled.
LEMMA Hopeless ==
  ASSUME NEW b, Balanced(b), NEW p \in Ids(b), FanOut(b.tasks[p]), p \notin b.pend, Short(b, p)
  PROVE  p \notin Held(b)
<1>1. SUFFICES ASSUME p \in b.act \cup b.fin PROVE FALSE BY DEF Held
<1>2. CountsOf(b, p) BY DEF Balanced, Counts, FanOut
<1>3. /\ b.tasks[p].completions = Cardinality(Kids(b, p) \cap b.fin)
      /\ b.tasks[p].completions = Len(Children[b.tasks[p].step])
  BY <1>1, <1>2 DEF CountsOf
<1>4. Sound(b.jobs, b.tasks) BY DEF Balanced
<1>5. Len(b.tasks) \in Nat /\ b.tasks[p] \in Task BY <1>4, BookRows
<1>6. Len(Children[b.tasks[p].step]) \in Nat BY <1>5, ChildrenOf DEF Task
<1>7. PICK T : T = Kids(b, p) \cap Live(b) OBVIOUS
<1>8. PICK U : U = Kids(b, p) \cap b.fin OBVIOUS
<1>9. U \subseteq T /\ T \subseteq 1 .. Len(b.tasks) BY <1>7, <1>8 DEF Kids, Ids, Live
<1>10. Cardinality(U) <= Cardinality(T) /\ Cardinality(T) \in Nat BY <1>5, <1>9, Fewer, FiniteIds
<1>11. Cardinality(T) < Len(Children[b.tasks[p].step]) BY <1>7 DEF Short
<1>12. Cardinality(U) = Len(Children[b.tasks[p].step]) BY <1>3, <1>8
<1>13. QED BY <1>6, <1>10, <1>11, <1>12

----------------------------------------------------------------------------
(* What every entry leaves as it was.                                      *)

Later(b, c) ==
  /\ Ids(b) \subseteq Ids(c) /\ JobIds(b) \subseteq JobIds(c)
  /\ \A t \in Ids(b) :
       /\ SameTask(c.tasks[t], b.tasks[t])
       /\ b.tasks[t].subjob # 0 => c.tasks[t].subjob = b.tasks[t].subjob
  /\ Live(c) \cap Ids(b) \subseteq Live(b)
  /\ c.fin \subseteq Held(b) /\ c.pend \cap Ids(b) \subseteq b.pend
  /\ \A p \in Ids(b) \ b.pend : Short(b, p) => Short(c, p)
  /\ \A j \in JobIds(b) : Stuck(b, j) =>
       /\ c.jobs[j].position = b.jobs[j].position
       /\ \A u \in Tops(c, j) \cap Live(c) :
            c.tasks[u].position = c.jobs[j].position => u \in Ids(b)

\* A failure on record stays there.
Recorded(b, c) ==
  /\ \A t \in Ids(b) : FanOut(b.tasks[t]) /\ b.tasks[t].state = "Failed" /\ t \notin Held(b) =>
       c.tasks[t].state = "Failed"
  /\ \A j \in JobIds(b) : b.jobs[j].state = "Failed" => c.jobs[j].state = "Failed"

\* Nothing recorded before a step loses its reason with it.
LEMMA Persists ==
  ASSUME NEW b, NEW c, Balanced(b), Balanced(c), Accounted(b), Later(b, c), Recorded(b, c)
  PROVE  /\ \A t \in Ids(b) : Broken(b, t) => Broken(c, t)
         /\ \A j \in JobIds(b) : Stuck(b, j) => Stuck(c, j)
         /\ \A t \in Ids(b) : Lost(b, t) => Lost(c, t)
         /\ \A t \in Ids(b) : FanOut(b.tasks[t]) /\ b.tasks[t].state = "Failed" => Doomed(c, t)
<1>1. /\ Sound(b.jobs, b.tasks) /\ Nesting(b) /\ Nesting(c) /\ Counts(b)
      /\ Len(b.tasks) \in Nat
      /\ \A t \in Ids(b) : /\ b.tasks[t].job \in JobIds(b)
                           /\ b.tasks[t].parent # 0 => b.tasks[t].parent \in Ids(b)
                           /\ b.tasks[t].subjob # 0 => b.tasks[t].subjob \in JobIds(b)
  BY BookRows DEF Balanced
<1>2. ASSUME NEW t \in Ids(b)
      PROVE  /\ t \in Ids(c) /\ SameTask(c.tasks[t], b.tasks[t])
             /\ Regular(c.tasks[t]) <=> Regular(b.tasks[t])
             /\ FanOut(c.tasks[t]) <=> FanOut(b.tasks[t])
             /\ Nested(c.tasks[t]) <=> Nested(b.tasks[t])
             /\ b.tasks[t].subjob # 0 => c.tasks[t].subjob = b.tasks[t].subjob
  BY DEF Later, SameTask, Regular, FanOut, Nested
<1>3. ASSUME NEW t \in Ids(b), Broken(b, t) PROVE Broken(c, t)
  <2>1. CASE FanOut(b.tasks[t]) /\ b.tasks[t].state = "Failed"
    <3>1. t \notin Held(b) BY <2>1 DEF Accounted, Doomed
    <3>2. c.tasks[t].state = "Failed" BY <2>1, <3>1 DEF Recorded
    <3>3. QED BY <1>2, <2>1, <3>2 DEF Broken
  <2>2. CASE /\ Nested(b.tasks[t]) /\ b.tasks[t].subjob # 0
             /\ b.jobs[b.tasks[t].subjob].state = "Failed"
    <3>1. c.jobs[b.tasks[t].subjob].state = "Failed" BY <1>1, <2>2 DEF Recorded
    <3>2. QED BY <1>2, <2>2, <3>1 DEF Broken
  <2>3. QED BY <1>3, <2>1, <2>2 DEF Broken
<1>4. ASSUME NEW j \in JobIds(b), Stuck(b, j) PROVE Stuck(c, j)
  <2>1. /\ c.jobs[j].position = b.jobs[j].position
        /\ \A u \in Tops(c, j) \cap Live(c) :
             c.tasks[u].position = c.jobs[j].position => u \in Ids(b)
    BY <1>4 DEF Later
  <2>2. ASSUME NEW u \in Tops(c, j) \cap Live(c), c.tasks[u].position = c.jobs[j].position
        PROVE  Broken(c, u)
    <3>1. u \in Ids(b) BY <2>1, <2>2
    <3>2. u \in Live(b) BY <3>1 DEF Later
    <3>3. u \in Tops(b, j) /\ b.tasks[u].position = b.jobs[j].position
      BY <1>2, <2>1, <2>2, <3>1 DEF Tops, SameTask
    <3>4. Broken(b, u) BY <1>4, <3>2, <3>3 DEF Stuck
    <3>5. QED BY <1>3, <3>1, <3>4
  <2>3. QED BY <1>4, <2>1, <2>2 DEF Stuck
<1>5. ASSUME NEW t \in Ids(b), Nested(b.tasks[t]), Broken(b, t), t \notin Held(b)
      PROVE  t \notin Held(c)
  <2>1. t \notin c.pend BY <1>5 DEF Later, Held
  <2>2. Broken(c, t) /\ Nested(c.tasks[t]) BY <1>2, <1>3, <1>5
  <2>3. c.tasks[t].subjob # 0 /\ c.jobs[c.tasks[t].subjob].state = "Failed"
    BY <2>2 DEF Broken, FanOut, Nested
  <2>4. t \notin c.act \cup c.fin BY <1>1, <1>2, <2>2, <2>3 DEF Nesting
  <2>5. QED BY <2>1, <2>4 DEF Held
<1>6. ASSUME NEW t \in Ids(b), Lost(b, t) PROVE Lost(c, t)
  <2>1. CASE Regular(b.tasks[t])
    <3>1. t \notin Held(c)
      <4>1. t \notin Live(b) BY <1>6, <2>1 DEF Lost, Live, Held
      <4>2. t \notin Live(c) BY <4>1 DEF Later
      <4>3. QED BY <1>2, <4>2 DEF Live, Held
    <3>2. CASE b.tasks[t].parent # 0
      <4>1. PICK p : p = b.tasks[t].parent OBVIOUS
      <4>2. p \in Ids(b) /\ t \in Kids(b, p) /\ Kind[b.tasks[p].step] = "fanout"
        BY <1>1, <3>2, <4>1, BookPlaces DEF Kids
      <4>3. p \notin b.pend BY <1>1, <4>2 DEF Counts, CountsOf
      <4>4. Short(b, p) BY <1>6, <2>1, <3>2, <4>1 DEF Lost
      <4>5. Short(c, p) BY <4>2, <4>3, <4>4 DEF Later
      <4>6. c.tasks[t].parent = p BY <1>2, <4>1 DEF SameTask
      <4>7. QED BY <1>2, <2>1, <3>1, <3>2, <4>1, <4>5, <4>6 DEF Lost
    <3>3. CASE b.tasks[t].parent = 0
      <4>1. Stuck(b, b.tasks[t].job) BY <1>6, <2>1, <3>3 DEF Lost
      <4>2. Stuck(c, b.tasks[t].job) BY <1>1, <1>4, <4>1
      <4>3. c.tasks[t].parent = 0 /\ c.tasks[t].job = b.tasks[t].job BY <1>2, <3>3 DEF SameTask
      <4>4. QED BY <1>2, <2>1, <3>1, <4>2, <4>3 DEF Lost
    <3>4. QED BY <3>2, <3>3
  <2>2. CASE ~Regular(b.tasks[t])
    <3>1. Nested(b.tasks[t]) /\ Broken(b, t) /\ t \notin Held(b) BY <1>6, <2>2 DEF Lost
    <3>2. t \notin Held(c) /\ Broken(c, t) BY <1>3, <1>5, <3>1
    <3>3. QED BY <1>2, <2>2, <3>1, <3>2 DEF Lost
  <2>3. QED BY <2>1, <2>2
<1>7. ASSUME NEW t \in Ids(b), FanOut(b.tasks[t]), b.tasks[t].state = "Failed"
      PROVE  Doomed(c, t)
  <2>1. t \notin Held(b) /\ (Short(b, t) \/ \E v \in Kids(b, t) : Broken(b, v))
    BY <1>7 DEF Accounted, Doomed
  <2>2. t \notin c.pend /\ t \notin b.pend BY <2>1 DEF Later, Held
  <2>3. CASE Short(b, t)
    <3>1. Short(c, t) BY <2>2, <2>3 DEF Later
    <3>2. t \notin Held(c) BY <1>2, <1>7, <2>2, <3>1, Hopeless
    <3>3. QED BY <3>1, <3>2 DEF Doomed
  <2>4. CASE \E v \in Kids(b, t) : Broken(b, v)
    <3>1. PICK v \in Kids(b, t) : Broken(b, v) BY <2>4
    <3>2. v \in Ids(b) /\ b.tasks[v].parent = t BY DEF Kids
    <3>3. v \in Ids(c) /\ c.tasks[v].parent = t /\ Broken(c, v) BY <1>2, <1>3, <3>1, <3>2 DEF SameTask
    <3>4. v \notin c.fin
      <4>1. CASE Nested(b.tasks[v])
        <5>1. Nested(c.tasks[v]) BY <1>2, <3>2, <4>1
        <5>2. c.tasks[v].subjob # 0 /\ c.jobs[c.tasks[v].subjob].state = "Failed"
          BY <3>3, <5>1 DEF Broken, FanOut, Nested
        <5>3. QED BY <1>1, <3>3, <5>1, <5>2 DEF Nesting
      <4>2. CASE ~Nested(b.tasks[v])
        <5>1. v \notin Held(b) BY <3>1, <3>2, <4>2 DEF Broken, Accounted, Doomed
        <5>2. QED BY <5>1 DEF Later
      <4>3. QED BY <4>1, <4>2
    <3>5. v \in Live(c) BY <3>3 DEF Broken, Live, FanOut, Nested, Regular
    <3>6. t # 0 BY <1>1 DEF Ids
    <3>7. t \notin Held(c) BY <3>3, <3>4, <3>5, <3>6, Awaits DEF Held
    <3>8. v \in Kids(c, t) BY <3>3 DEF Kids
    <3>9. QED BY <3>3, <3>7, <3>8 DEF Doomed
  <2>5. QED BY <2>1, <2>3, <2>4
<1>8. QED BY <1>3, <1>4, <1>6, <1>7

----------------------------------------------------------------------------
(* The entries, and what they leave as it was.                             *)

\* What may become of a pending delivery.
Onto(b, c) == Passed(b, c) \/ \E t : FannedOut(b, c, t) \/ Descended(b, c, t)

LEMMA PassedLater ==
  ASSUME NEW b, NEW c, Balanced(b), Passed(b, c)
  PROVE  Later(b, c)
<1>1. Alike(b, c) /\ HeldOnce(b) /\ Sound(b.jobs, b.tasks) BY DEF Passed, Balanced
<1>2. /\ Ids(c) = Ids(b) /\ JobIds(c) = JobIds(b) /\ \A p : Kids(c, p) = Kids(b, p)
      /\ \A t \in Ids(b) : c.tasks[t].step = b.tasks[t].step
  BY <1>1, AlikeSets
<1>3. Live(c) \subseteq Live(b) BY <1>1, PassedLive
<1>4. \A t \in Ids(b) : SameTask(c.tasks[t], b.tasks[t]) /\ c.tasks[t].subjob = b.tasks[t].subjob
  BY <1>1 DEF Alike
<1>5. ASSUME NEW p \in Ids(b), Short(b, p) PROVE Short(c, p)
  <2>1. Len(b.tasks) \in Nat /\ b.tasks[p] \in Task BY <1>1, BookRows
  <2>2. Len(Children[b.tasks[p].step]) \in Nat BY <2>1, ChildrenOf DEF Task
  <2>3. PICK T : T = Kids(b, p) \cap Live(b) OBVIOUS
  <2>4. PICK U : U = Kids(c, p) \cap Live(c) OBVIOUS
  <2>5. U \subseteq T /\ T \subseteq 1 .. Len(b.tasks) BY <1>2, <1>3, <2>3, <2>4 DEF Kids, Ids
  <2>6. Cardinality(U) <= Cardinality(T) /\ Cardinality(T) \in Nat /\ Cardinality(U) \in Nat
    BY <2>1, <2>5, Fewer, FiniteIds
  <2>7. Cardinality(T) < Len(Children[b.tasks[p].step]) BY <1>5, <2>3 DEF Short
  <2>8. Cardinality(U) < Len(Children[b.tasks[p].step]) BY <2>2, <2>6, <2>7
  <2>9. QED BY <1>2, <2>4, <2>8 DEF Short
<1>6. c.fin \subseteq Held(b) /\ c.pend \cap Ids(b) \subseteq b.pend BY DEF Passed, Held
<1>7. \A j \in JobIds(b) : c.jobs[j].position = b.jobs[j].position BY <1>1 DEF Alike
<1>8. \A j : Tops(c, j) \subseteq Ids(b) BY <1>2 DEF Tops
<1>9. QED BY <1>2, <1>3, <1>4, <1>5, <1>6, <1>7, <1>8 DEF Later

LEMMA FinishedLater ==
  ASSUME NEW b, NEW c, NEW t, Balanced(b), Finished(b, c, t)
  PROVE  Later(b, c)
<1>1. Alike(b, c) /\ HeldOnce(b) /\ Sound(b.jobs, b.tasks) BY DEF Finished, Balanced
<1>2. /\ Ids(c) = Ids(b) /\ JobIds(c) = JobIds(b) /\ \A p : Kids(c, p) = Kids(b, p)
      /\ \A u \in Ids(b) : c.tasks[u].step = b.tasks[u].step
  BY <1>1, AlikeSets
<1>3. Live(c) = Live(b) BY FinishedLive
<1>4. \A u \in Ids(b) : SameTask(c.tasks[u], b.tasks[u]) /\ c.tasks[u].subjob = b.tasks[u].subjob
  BY <1>1 DEF Alike
<1>5. \A p \in Ids(b) : Short(b, p) => Short(c, p) BY <1>2, <1>3 DEF Short
<1>6. c.fin \subseteq Held(b) /\ c.pend \cap Ids(b) \subseteq b.pend BY DEF Finished, Held
<1>7. \A j \in JobIds(b) : c.jobs[j].position = b.jobs[j].position BY <1>1 DEF Alike
<1>8. \A j : Tops(c, j) \subseteq Ids(b) BY <1>2 DEF Tops
<1>9. QED BY <1>2, <1>3, <1>4, <1>5, <1>6, <1>7, <1>8 DEF Later

\* The next task is only created when the one before it has finished.
LEMMA AddedLater ==
  ASSUME NEW b, NEW c, NEW j, Balanced(b), Accounted(b), Added(b, c, j)
  PROVE  Later(b, c)
<1>1. Sound(b.jobs, b.tasks) /\ HeldOnce(b) /\ Grown(b, c) BY DEF Balanced, Added
<1>2. /\ Last(c) \notin Ids(b) /\ Ids(c) = Ids(b) \cup {Last(c)} /\ JobIds(c) = JobIds(b)
      /\ Live(c) = Live(b) \cup {Last(c)}
      /\ \A p \in Ids(c) : Kids(c, p) = Kids(b, p)
      /\ \A k \in JobIds(b) : Tops(c, k) = Tops(b, k) \cup (IF k = j THEN {Last(c)} ELSE {})
  BY AddedSets
<1>3. \A t \in Ids(b) : SameTask(c.tasks[t], b.tasks[t]) /\ c.tasks[t].subjob = b.tasks[t].subjob
  BY <1>1 DEF Added, Grown
<1>4. ASSUME NEW p \in Ids(b), Short(b, p) PROVE Short(c, p)
  <2>1. Kids(c, p) = Kids(b, p) /\ Kids(b, p) \subseteq Ids(b) BY <1>2 DEF Kids
  <2>2. Kids(c, p) \cap Live(c) = Kids(b, p) \cap Live(b) BY <1>2, <2>1
  <2>3. c.tasks[p].step = b.tasks[p].step BY <1>3 DEF SameTask
  <2>4. QED BY <1>4, <2>2, <2>3 DEF Short
<1>5. c.fin \subseteq Held(b) /\ c.pend \cap Ids(b) \subseteq b.pend BY <1>2 DEF Added, Held
<1>6. ASSUME NEW k \in JobIds(b), Stuck(b, k)
      PROVE  c.jobs[k].position = b.jobs[k].position /\ Tops(c, k) \subseteq Ids(b)
  <2>1. k # j
    <3>1. SUFFICES ASSUME k = j PROVE FALSE OBVIOUS
    <3>2. b.jobs[j].position # 0 BY <1>6, <3>1 DEF Stuck
    <3>3. PICK u \in Tops(b, j) \cap b.fin : b.tasks[u].position = b.jobs[j].position
      BY <3>2 DEF Added
    <3>4. ~Stuck(b, j) BY <3>3, NotStuck DEF Held
    <3>5. QED BY <1>6, <3>1, <3>4
  <2>2. c.jobs[k] = b.jobs[k] BY <2>1 DEF Added
  <2>3. Tops(c, k) = Tops(b, k) BY <1>2, <2>1
  <2>4. QED BY <2>2, <2>3 DEF Tops
<1>7. QED BY <1>2, <1>3, <1>4, <1>5, <1>6 DEF Later

\* The failed task and its copy change places.
LEMMA RetriedLater ==
  ASSUME NEW b, NEW c, NEW t, Balanced(b), Accounted(b), Retried(b, c, t)
  PROVE  Later(b, c)
<1>1. Sound(b.jobs, b.tasks) /\ HeldOnce(b) /\ Grown(b, c) BY DEF Balanced, Retried
<1>2. /\ Len(b.tasks) \in Nat /\ Last(c) \notin Ids(b) /\ Ids(c) = Ids(b) \cup {Last(c)}
      /\ t \in Ids(b) /\ t \in Live(b) /\ t \notin b.fin
      /\ Live(c) = (Live(b) \ {t}) \cup {Last(c)}
      /\ \A p \in Ids(b) : Kids(c, p) =
           Kids(b, p) \cup (IF p = b.tasks[t].parent THEN {Last(c)} ELSE {})
      /\ \A k \in JobIds(b) : Tops(c, k) = Tops(b, k) \cup
           (IF b.tasks[t].parent = 0 /\ k = b.tasks[t].job THEN {Last(c)} ELSE {})
  BY RetriedSets
<1>3. JobIds(c) = JobIds(b) /\ c.jobs = b.jobs BY DEF Retried, JobIds
<1>4. \A u \in Ids(b) : SameTask(c.tasks[u], b.tasks[u]) /\ c.tasks[u].subjob = b.tasks[u].subjob
  BY <1>1 DEF Retried, Grown
<1>5. ASSUME NEW p \in Ids(b), Short(b, p) PROVE Short(c, p)
  <2>1. PICK x : x = Last(c) OBVIOUS
  <2>2. PICK K : K = Kids(b, p) \cap Live(b) OBVIOUS
  <2>3. PICK L : L = Kids(c, p) \cap Live(c) OBVIOUS
  <2>4. K \subseteq 1 .. Len(b.tasks) /\ x \notin K BY <1>2, <2>1, <2>2 DEF Kids, Ids
  <2>5. Cardinality(L) = Cardinality(K)
    <3>1. CASE p = b.tasks[t].parent
      <4>1. t \in K BY <1>2, <2>2, <3>1 DEF Kids
      <4>2. Kids(b, p) \subseteq Ids(b) BY DEF Kids
      <4>3. PICK T : T = K \ {t} OBVIOUS
      <4>4. L = T \cup {x} BY <1>2, <2>1, <2>2, <2>3, <3>1, <4>2, <4>3
      <4>5. K = T \cup {t} /\ t \notin T /\ x \notin T BY <2>4, <4>1, <4>3
      <4>6. T \subseteq 1 .. Len(b.tasks) BY <2>4, <4>3
      <4>7. QED BY <1>2, <4>4, <4>5, <4>6, OneMore
    <3>2. CASE p # b.tasks[t].parent
      <4>1. t \notin K BY <2>2, <3>2 DEF Kids
      <4>2. Kids(c, p) = Kids(b, p) /\ Kids(b, p) \subseteq Ids(b) BY <1>2, <3>2 DEF Kids
      <4>3. L = K BY <1>2, <2>2, <2>3, <4>1, <4>2
      <4>4. QED BY <4>3
    <3>3. QED BY <3>1, <3>2
  <2>6. c.tasks[p].step = b.tasks[p].step BY <1>4 DEF SameTask
  <2>7. QED BY <1>5, <2>2, <2>3, <2>5, <2>6 DEF Short
<1>6. c.fin \subseteq Held(b) /\ c.pend \cap Ids(b) \subseteq b.pend BY <1>2 DEF Retried, Held
<1>7. ASSUME NEW k \in JobIds(b), Stuck(b, k) PROVE Tops(c, k) \subseteq Ids(b)
  <2>1. ~(b.tasks[t].parent = 0 /\ k = b.tasks[t].job)
    <3>1. SUFFICES ASSUME b.tasks[t].parent = 0, k = b.tasks[t].job PROVE FALSE OBVIOUS
    <3>2. b.tasks[t].position = b.jobs[k].position BY <1>2, <3>1, AtPosition
    <3>3. t \in Tops(b, k) BY <1>2, <3>1 DEF Tops
    <3>4. t \in Held(b) BY DEF Retried, Held
    <3>5. QED BY <1>7, <3>2, <3>3, <3>4, NotStuck
  <2>2. Tops(c, k) = Tops(b, k) BY <1>2, <2>1
  <2>3. QED BY <2>2 DEF Tops
<1>8. QED BY <1>2, <1>3, <1>4, <1>5, <1>6, <1>7 DEF Later

LEMMA FannedOutLater ==
  ASSUME NEW b, NEW c, NEW t, Balanced(b), FannedOut(b, c, t)
  PROVE  Later(b, c)
<1>1. Sound(b.jobs, b.tasks) /\ HeldOnce(b) /\ Grown(b, c) BY DEF Balanced, FannedOut
<1>2. /\ Ids(c) = Ids(b) \cup New(b, c) /\ Ids(b) \cap New(b, c) = {}
      /\ Live(c) = Live(b) \cup New(b, c)
      /\ \A p \in Ids(b) : p # t => Kids(c, p) = Kids(b, p)
      /\ \A k \in JobIds(b) : Tops(c, k) = Tops(b, k)
  BY FannedOutSets
<1>3. JobIds(c) = JobIds(b) /\ c.jobs = b.jobs BY DEF FannedOut, JobIds
<1>4. \A u \in Ids(b) : SameTask(c.tasks[u], b.tasks[u]) /\ c.tasks[u].subjob = b.tasks[u].subjob
  BY <1>1 DEF FannedOut, Grown
<1>5. ASSUME NEW p \in Ids(b) \ b.pend, Short(b, p) PROVE Short(c, p)
  <2>1. p # t BY DEF FannedOut
  <2>2. Kids(c, p) = Kids(b, p) /\ Kids(b, p) \subseteq Ids(b) BY <1>2, <2>1 DEF Kids
  <2>3. Kids(c, p) \cap Live(c) = Kids(b, p) \cap Live(b) BY <1>2, <2>2
  <2>4. c.tasks[p].step = b.tasks[p].step BY <1>4 DEF SameTask
  <2>5. QED BY <1>5, <2>3, <2>4 DEF Short
<1>6. c.fin \subseteq Held(b) /\ c.pend \cap Ids(b) \subseteq b.pend BY <1>2 DEF FannedOut, Held
<1>7. \A k \in JobIds(b) : Tops(c, k) \subseteq Ids(b) BY <1>2 DEF Tops
<1>8. QED BY <1>2, <1>3, <1>4, <1>5, <1>6, <1>7 DEF Later

LEMMA DescendedLater ==
  ASSUME NEW b, NEW c, NEW t, Balanced(b), Descended(b, c, t)
  PROVE  Later(b, c)
<1>1. Sound(b.jobs, b.tasks) /\ HeldOnce(b) /\ Grown(b, c) BY DEF Balanced, Descended
<1>2. /\ JobIds(c) = JobIds(b) \cup {Len(c.jobs)} /\ Ids(c) = Ids(b)
      /\ b.tasks[t].subjob = 0 /\ Live(c) = Live(b)
      /\ \A p : Kids(c, p) = Kids(b, p)
  BY DescendedSets
<1>3. \A u \in Ids(b) : /\ SameTask(c.tasks[u], b.tasks[u])
                        /\ b.tasks[u].subjob # 0 => c.tasks[u].subjob = b.tasks[u].subjob
  BY <1>1, <1>2 DEF Descended, Grown
<1>4. \A p \in Ids(b) : c.tasks[p].step = b.tasks[p].step BY <1>3 DEF SameTask
<1>5. \A p \in Ids(b) : Short(b, p) => Short(c, p) BY <1>2, <1>4 DEF Short
<1>6. c.fin \subseteq Held(b) /\ c.pend \cap Ids(b) \subseteq b.pend BY DEF Descended, Held
<1>7. \A k \in JobIds(b) : c.jobs[k] = b.jobs[k] BY DEF Descended
<1>8. \A k : Tops(c, k) \subseteq Ids(b) BY <1>2 DEF Tops
<1>9. QED BY <1>2, <1>3, <1>5, <1>6, <1>7, <1>8 DEF Later

\* What becomes of a delivery.
Entry(b, c) ==
  Onto(b, c) \/ (\E j : Added(b, c, j)) \/ (\E t : Finished(b, c, t) \/ Retried(b, c, t))

LEMMA EntryLater ==
  ASSUME NEW b, NEW c, Balanced(b), Accounted(b), Entry(b, c)
  PROVE  Balanced(c) /\ Later(b, c)
<1>1. CASE Passed(b, c) BY <1>1, Pass, PassedLater
<1>2. ASSUME NEW t, FannedOut(b, c, t) PROVE Balanced(c) /\ Later(b, c)
  BY <1>2, FanTasksOut, FannedOutLater
<1>3. ASSUME NEW t, Descended(b, c, t) PROVE Balanced(c) /\ Later(b, c)
  BY <1>3, Descend, DescendedLater
<1>4. ASSUME NEW j, Added(b, c, j) PROVE Balanced(c) /\ Later(b, c)
  BY <1>4, Add, AddedLater
<1>5. ASSUME NEW t, Finished(b, c, t) PROVE Balanced(c) /\ Later(b, c)
  BY <1>5, Finish, FinishedLater
<1>6. ASSUME NEW t, Retried(b, c, t) PROVE Balanced(c) /\ Later(b, c)
  BY <1>6, Retry, RetriedLater
<1>7. QED BY <1>1, <1>2, <1>3, <1>4, <1>5, <1>6 DEF Entry, Onto

\* A completed job stays completed.
LEMMA EntryCompleted ==
  ASSUME NEW b, NEW c, Entry(b, c), NEW j \in JobIds(b), b.jobs[j].state = "Completed"
  PROVE  c.jobs[j].state = "Completed"
<1>1. CASE Passed(b, c) BY <1>1 DEF Passed
<1>2. ASSUME NEW t, FannedOut(b, c, t) PROVE c.jobs = b.jobs BY <1>2 DEF FannedOut
<1>3. ASSUME NEW t, Descended(b, c, t) PROVE c.jobs[j] = b.jobs[j] BY <1>3 DEF Descended
<1>4. ASSUME NEW k, Added(b, c, k) PROVE c.jobs[j] = b.jobs[j] BY <1>4 DEF Added
<1>5. ASSUME NEW t, Finished(b, c, t) PROVE c.jobs = b.jobs BY <1>5 DEF Finished
<1>6. ASSUME NEW t, Retried(b, c, t) PROVE c.jobs = b.jobs BY <1>6 DEF Retried
<1>7. QED BY <1>1, <1>2, <1>3, <1>4, <1>5, <1>6 DEF Entry, Onto

\* No state written tells of a failure that has no reason.
TasksTame(b, c) ==
  /\ \A t \in Ids(b) : FanOut(b.tasks[t]) /\ b.tasks[t].state = "Failed" /\ t \notin Held(b) =>
       c.tasks[t].state = "Failed"
  /\ \A t \in Ids(c) : FanOut(c.tasks[t]) /\ c.tasks[t].state = "Failed" =>
       t \in Ids(b) /\ b.tasks[t].state = "Failed"

JobsTame(b, c) ==
  /\ \A j \in JobIds(b) : b.jobs[j].state = "Failed" => c.jobs[j].state = "Failed"
  /\ \A j \in JobIds(c) :
       /\ c.jobs[j].state = "Failed" =>
            j \in JobIds(b) /\ (b.jobs[j].state = "Failed" \/ Stuck(b, j))
       /\ c.jobs[j].state = "Pending" <=> c.jobs[j].position = 0
       /\ c.jobs[j].state \notin {"Cancelled", "Restart"}

\* What has failed stays so, and so does what has completed.
Leads(b, c) ==
  /\ \A t \in Ids(b) : t \in Ids(c) /\ (Lost(b, t) => Lost(c, t))
  /\ \A j \in JobIds(b) :
       /\ j \in JobIds(c) /\ (Stuck(b, j) => Stuck(c, j))
       /\ b.jobs[j].state \in {"Completed", "Failed"} => c.jobs[j].state = b.jobs[j].state

LEMMA Enters ==
  ASSUME NEW b, NEW c, Balanced(b), Accounted(b), Entry(b, c), TasksTame(b, c), JobsTame(b, c)
  PROVE  Balanced(c) /\ Accounted(c) /\ Leads(b, c)
<1>1. Balanced(c) /\ Later(b, c) BY EntryLater
<1>2. Recorded(b, c) BY DEF Recorded, TasksTame, JobsTame
<1>3. /\ \A t \in Ids(b) : Lost(b, t) => Lost(c, t)
      /\ \A j \in JobIds(b) : Stuck(b, j) => Stuck(c, j)
      /\ \A t \in Ids(b) : FanOut(b.tasks[t]) /\ b.tasks[t].state = "Failed" => Doomed(c, t)
  BY <1>1, <1>2, Persists
<1>4. ASSUME NEW t \in Ids(c), FanOut(c.tasks[t]), c.tasks[t].state = "Failed"
      PROVE  Doomed(c, t)
  <2>1. t \in Ids(b) /\ b.tasks[t].state = "Failed" BY <1>4 DEF TasksTame
  <2>2. FanOut(b.tasks[t]) BY <1>1, <1>4, <2>1 DEF Later, SameTask, FanOut
  <2>3. QED BY <1>3, <2>1, <2>2
<1>5. ASSUME NEW j \in JobIds(c), c.jobs[j].state = "Failed" PROVE Stuck(c, j)
  <2>1. j \in JobIds(b) /\ (b.jobs[j].state = "Failed" \/ Stuck(b, j)) BY <1>5 DEF JobsTame
  <2>2. Stuck(b, j) BY <2>1 DEF Accounted
  <2>3. QED BY <1>3, <2>1, <2>2
<1>6. Accounted(c) BY <1>4, <1>5 DEF Accounted, JobsTame
<1>7. ASSUME NEW j \in JobIds(b), b.jobs[j].state \in {"Completed", "Failed"}
      PROVE  c.jobs[j].state = b.jobs[j].state
  BY <1>7, EntryCompleted DEF JobsTame
<1>8. Ids(b) \subseteq Ids(c) /\ JobIds(b) \subseteq JobIds(c) BY <1>1 DEF Later
<1>9. QED BY <1>1, <1>3, <1>6, <1>7, <1>8 DEF Leads

LEMMA LeadsOn ==
  ASSUME NEW b, NEW c, NEW d, Leads(b, c), Leads(c, d)
  PROVE  Leads(b, d)
<1>1. ASSUME NEW t \in Ids(b) PROVE t \in Ids(d) /\ (Lost(b, t) => Lost(d, t))
  BY DEF Leads
<1>2. ASSUME NEW j \in JobIds(b) PROVE j \in JobIds(d) /\ (Stuck(b, j) => Stuck(d, j))
  BY DEF Leads
<1>3. ASSUME NEW j \in JobIds(b), b.jobs[j].state \in {"Completed", "Failed"}
      PROVE  d.jobs[j].state = b.jobs[j].state
  <2>1. j \in JobIds(c) /\ c.jobs[j].state = b.jobs[j].state BY <1>3 DEF Leads
  <2>2. c.jobs[j].state \in {"Completed", "Failed"} BY <1>3, <2>1
  <2>3. d.jobs[j].state = c.jobs[j].state BY <2>1, <2>2 DEF Leads
  <2>4. QED BY <2>1, <2>3
<1>4. QED BY <1>1, <1>2, <1>3 DEF Leads

\* Jobs nobody writes are tame.
LEMMA SameJobsTame ==
  ASSUME NEW b, NEW c, Accounted(b), c.jobs = b.jobs
  PROVE  JobsTame(b, c)
BY DEF JobsTame, Accounted, JobIds

\* States written over those of the same tasks.
LEMMA SameTasksTame ==
  ASSUME NEW b, NEW c, Alike(b, c),
         \A t \in Ids(b) : \/ c.tasks[t].state = b.tasks[t].state
                           \/ ~FanOut(b.tasks[t])
                           \/ /\ c.tasks[t].state # "Failed"
                              /\ b.tasks[t].state # "Failed" \/ t \in Held(b)
  PROVE  TasksTame(b, c)
<1>1. Ids(c) = Ids(b) /\ \A t \in Ids(b) : FanOut(c.tasks[t]) <=> FanOut(b.tasks[t])
  BY AlikeSets
<1>2. QED BY <1>1 DEF TasksTame

----------------------------------------------------------------------------
(* A task out of attempts.                                                 *)

\* A broken task of the list that the job waits for leaves it stuck.
LEMMA StuckAt ==
  ASSUME NEW b, Balanced(b), NEW a \in Ids(b), b.tasks[a].parent = 0, a \in Live(b),
         a \notin b.fin, Broken(b, a)
  PROVE  Stuck(b, b.tasks[a].job)
<1>1. PICK j : j = b.tasks[a].job OBVIOUS
<1>2. /\ j \in JobIds(b) /\ b.tasks[a].position = b.jobs[j].position /\ b.jobs[j].position # 0
  BY <1>1, AtPosition
<1>3. LineOf(b, j) BY <1>2 DEF Balanced, Line
<1>4. a \in Tops(b, j) BY <1>1 DEF Tops
<1>5. \A u \in Tops(b, j) \cap Live(b) : b.tasks[u].position = b.jobs[j].position => u = a
  BY <1>2, <1>3, <1>4 DEF LineOf
<1>6. QED BY <1>1, <1>2, <1>5 DEF Stuck

\* A regular task whose last attempt has failed is lost.
LEMMA LostNow ==
  ASSUME NEW b, NEW c, Balanced(b), Passed(b, c), NEW t \in b.act, Regular(b.tasks[t]),
         t \notin c.act
  PROVE  Lost(c, t)
<1>1. Alike(b, c) /\ Sound(b.jobs, b.tasks) /\ HeldOnce(b) BY DEF Passed, Balanced
<1>2. t \in Ids(b) /\ t \notin b.pend /\ t \notin b.fin BY <1>1 DEF HeldOnce
<1>3. t \in Live(b) BY <1>2 DEF Live
<1>4. /\ Ids(c) = Ids(b) /\ \A p : Kids(c, p) = Kids(b, p)
      /\ \A j : Tops(c, j) = Tops(b, j)
      /\ \A u \in Ids(b) : /\ c.tasks[u].step = b.tasks[u].step
                           /\ Regular(c.tasks[u]) <=> Regular(b.tasks[u])
  BY <1>1, AlikeSets
<1>5. \A u \in Ids(b) : SameTask(c.tasks[u], b.tasks[u]) BY <1>1 DEF Alike
<1>6. t \notin Held(c) BY <1>2 DEF Held, Passed
<1>7. t \notin Live(c) /\ Live(c) \subseteq Live(b) BY <1>1, <1>4, <1>6, PassedLive DEF Live, Held
<1>8. CASE b.tasks[t].parent # 0
  <2>1. PICK p : p = b.tasks[t].parent OBVIOUS
  <2>2. /\ Len(b.tasks) \in Nat /\ p \in Ids(b) /\ Kind[b.tasks[p].step] = "fanout"
        /\ \A u \in Ids(b) : b.tasks[u] \in Task
    BY <1>1, <1>2, <1>8, <2>1, BookRows, BookPlaces
  <2>3. \A u \in Ids(b) : b.tasks[u].step \in Step BY <2>2 DEF Task
  <2>4. PICK T : T = {u \in Kids(b, p) \cap Live(b) : b.tasks[u].step \in Step} OBVIOUS
  <2>5. PICK U : U = Kids(c, p) \cap Live(c) OBVIOUS
  <2>6. Kids(c, p) = Kids(b, p) /\ Kids(b, p) \subseteq Ids(b) BY <1>4 DEF Kids
  <2>7. t \in Kids(b, p) BY <1>2, <2>1 DEF Kids
  <2>8. T \subseteq 1 .. Len(b.tasks) BY <2>4, <2>6 DEF Ids
  <2>9. t \in T BY <1>2, <1>3, <2>3, <2>4, <2>7
  <2>10. U \subseteq T /\ t \notin U BY <1>7, <2>3, <2>4, <2>5, <2>6
  <2>11. T \subseteq 1 .. Len(b.tasks) /\ U \subseteq T /\ t \in T /\ t \notin U
    BY <2>8, <2>9, <2>10
  <2>12. Cardinality(U) + 1 <= Cardinality(T) BY <2>2, <2>11, ProperlyFewer
  <2>13. Cardinality(T) <= Cardinality(SlotsIn(b.tasks[p].step, Step))
    BY <2>2, <2>4 DEF Balanced, Counts, CountsOf
  <2>14. PICK n : n = Len(Children[b.tasks[p].step]) OBVIOUS
  <2>15. Cardinality(SlotsIn(b.tasks[p].step, Step)) = n /\ n \in Nat
    BY <2>2, <2>3, <2>14, ChildrenOf
  <2>16. U \subseteq 1 .. Len(b.tasks) BY <2>11
  <2>17. Cardinality(U) \in Nat /\ Cardinality(T) \in Nat BY <2>2, <2>11, <2>16, FiniteIds
  <2>18. Cardinality(U) < n BY <2>12, <2>13, <2>15, <2>17
  <2>19. Short(c, p) BY <1>4, <2>2, <2>5, <2>14, <2>18 DEF Short
  <2>20. c.tasks[t].parent = p BY <1>2, <1>5, <2>1 DEF SameTask
  <2>21. QED BY <1>2, <1>4, <1>6, <1>8, <2>1, <2>19, <2>20 DEF Lost
<1>9. CASE b.tasks[t].parent = 0
  <2>1. PICK j : j = b.tasks[t].job OBVIOUS
  <2>2. /\ j \in JobIds(b) /\ b.tasks[t].position = b.jobs[j].position /\ b.jobs[j].position # 0
    BY <1>2, <1>3, <1>9, <2>1, AtPosition
  <2>3. LineOf(b, j) BY <2>2 DEF Balanced, Line
  <2>4. t \in Tops(b, j) BY <1>2, <1>9, <2>1 DEF Tops
  <2>5. c.jobs[j].position = b.jobs[j].position BY <1>1, <2>2 DEF Alike
  <2>6. ASSUME NEW u \in Tops(c, j) \cap Live(c), c.tasks[u].position = c.jobs[j].position
        PROVE  FALSE
    <3>1. u \in Tops(b, j) /\ u \in Live(b) /\ u \in Ids(b) BY <1>4, <1>7, <2>6 DEF Tops
    <3>2. b.tasks[u].position = b.jobs[j].position BY <1>5, <2>5, <2>6, <3>1 DEF SameTask
    <3>3. u = t BY <1>3, <2>2, <2>3, <2>4, <3>1, <3>2 DEF LineOf
    <3>4. QED BY <1>7, <2>6, <3>3
  <2>7. Stuck(c, j) BY <2>2, <2>5, <2>6 DEF Stuck
  <2>8. c.tasks[t].parent = 0 /\ c.tasks[t].job = j BY <1>2, <1>5, <1>9, <2>1 DEF SameTask
  <2>9. QED BY <1>2, <1>4, <1>6, <2>7, <2>8 DEF Lost
<1>10. QED BY <1>8, <1>9

\* The fan-out task above one that is lost, or that waits in vain, waits in vain.
LEMMA ParentLost ==
  ASSUME NEW b, Balanced(b), NEW t \in Ids(b), t \notin Held(b),
         Lost(b, t) \/ FanOut(b.tasks[t]), b.tasks[t].parent # 0
  PROVE  LET p == b.tasks[t].parent
         IN /\ p \in Ids(b) /\ FanOut(b.tasks[p]) /\ p \notin Held(b)
            /\ b.tasks[p].job = b.tasks[t].job /\ p < t
<1>1. PICK p : p = b.tasks[t].parent OBVIOUS
<1>2. Sound(b.jobs, b.tasks) /\ HeldOnce(b) BY DEF Balanced
<1>3. /\ p \in Ids(b) /\ Kind[b.tasks[p].step] = "fanout" /\ b.tasks[p].job = b.tasks[t].job
      /\ p < t
  BY <1>1, <1>2, BookRows, BookPlaces DEF HeldOnce
<1>4. FanOut(b.tasks[p]) /\ p \notin Held(b)
  <2>1. CASE Regular(b.tasks[t])
    <3>1. Lost(b, t) BY <2>1 DEF Regular, FanOut
    <3>2. Short(b, p) BY <1>1, <2>1, <3>1 DEF Lost
    <3>3. t \in Kids(b, p) BY <1>1 DEF Kids
    <3>4. FanOut(b.tasks[p]) /\ p \notin b.pend
      BY <1>3, <3>3 DEF Balanced, Counts, CountsOf
    <3>5. QED BY <1>3, <3>2, <3>4, Hopeless
  <2>2. CASE ~Regular(b.tasks[t])
    <3>1. t \in Live(b) /\ t \notin b.fin BY <2>2 DEF Live, Held
    <3>2. QED BY <1>1, <3>1, Awaits DEF Held
  <2>3. QED BY <2>1, <2>2
<1>5. QED BY <1>1, <1>3, <1>4

\* So do all the tasks above it, and one of them is in the list of the job.
LEMMA AboveLost ==
  ASSUME NEW b, Balanced(b), NEW t \in Ids(b), Lost(b, t)
  PROVE  /\ \A v \in Lineage(b.tasks, t) :
              /\ v \in Ids(b) /\ v \notin Held(b) /\ b.tasks[v].job = b.tasks[t].job
              /\ v # t => /\ FanOut(b.tasks[v])
                          /\ \E w \in Kids(b, v) : w \in Lineage(b.tasks, t)
         /\ \E a \in Lineage(b.tasks, t) : b.tasks[a].parent = 0
         /\ t \in Lineage(b.tasks, t)
<1> DEFINE L(u) == Lineage(b.tasks, u)
           Good(u) == u \in Ids(b) /\ u \notin Held(b) /\ (Lost(b, u) \/ FanOut(b.tasks[u]))
           Below(u, v) == /\ FanOut(b.tasks[v])
                          /\ \E w \in Kids(b, v) : w \in L(u)
           Holds(u) == /\ \A v \in L(u) :
                            /\ v \in Ids(b) /\ v \notin Held(b)
                            /\ b.tasks[v].job = b.tasks[u].job
                            /\ v # u => Below(u, v)
                       /\ \E a \in L(u) : b.tasks[a].parent = 0
           S == {u \in Ids(b) : Good(u) /\ ~Holds(u)}
<1>1. Sound(b.jobs, b.tasks) BY DEF Balanced
<1>2. Len(b.tasks) \in Nat BY <1>1, SoundTypes
<1>3. \A u \in 1 .. Len(b.tasks) : b.tasks[u].parent \in 0 .. Len(b.tasks)
  BY <1>1, <1>2, SoundLinks
<1>4. L(0) = {} /\ \A u \in Ids(b) : L(u) = {u} \cup L(b.tasks[u].parent)
  BY <1>2, <1>3, LineageUnfolds DEF Ids
<1>5. ASSUME NEW u \in Ids(b), Good(u), b.tasks[u].parent # 0
      PROVE  LET p == b.tasks[u].parent
             IN Good(p) /\ p < u /\ b.tasks[p].job = b.tasks[u].job /\ FanOut(b.tasks[p])
  BY <1>5, ParentLost
<1> HIDE DEF L, Good
<1>6. ASSUME NEW u \in S PROVE \E k \in S : k < u
  <2>1. u \in Ids(b) /\ Good(u) /\ ~Holds(u) OBVIOUS
  <2>2. PICK p : p = b.tasks[u].parent OBVIOUS
  <2>3. L(u) = {u} \cup L(p) BY <1>4, <2>1, <2>2
  <2>4. u \notin Held(b) BY <2>1 DEF Good
  <2>5. p # 0
    <3>1. SUFFICES ASSUME p = 0 PROVE FALSE OBVIOUS
    <3>2. L(u) = {u} BY <1>4, <2>3, <3>1
    <3>3. Holds(u) BY <2>1, <2>2, <2>4, <3>1, <3>2
    <3>4. QED BY <2>1, <3>3
  <2>6. Good(p) /\ p < u /\ b.tasks[p].job = b.tasks[u].job /\ FanOut(b.tasks[p])
    BY <1>5, <2>1, <2>2, <2>5
  <2>7. ASSUME Holds(p) PROVE FALSE
    <3>1. ASSUME NEW v \in L(u)
          PROVE  /\ v \in Ids(b) /\ v \notin Held(b) /\ b.tasks[v].job = b.tasks[u].job
                 /\ v # u => Below(u, v)
      <4>1. CASE v = u BY <2>1, <2>4, <4>1
      <4>2. CASE v # u
        <5>1. v \in L(p) BY <2>3, <4>2
        <5>2. v \in Ids(b) /\ v \notin Held(b) /\ b.tasks[v].job = b.tasks[u].job
          BY <2>6, <2>7, <5>1
        <5>3. CASE v = p
          <6>1. u \in Kids(b, v) /\ u \in L(u) BY <2>1, <2>2, <2>3, <5>3 DEF Kids
          <6>2. Below(u, v) BY <2>6, <5>3, <6>1
          <6>3. QED BY <5>2, <6>2
        <5>4. CASE v # p
          <6>1. Below(p, v) BY <2>7, <5>1, <5>4
          <6>2. Below(u, v) BY <2>3, <6>1
          <6>3. QED BY <5>2, <6>2
        <5>5. QED BY <5>3, <5>4
      <4>3. QED BY <4>1, <4>2
    <3>2. \E a \in L(u) : b.tasks[a].parent = 0 BY <2>3, <2>7
    <3>3. Holds(u) BY <3>1, <3>2
    <3>4. QED BY <2>1, <3>3
  <2>8. p \in Ids(b) BY <2>6 DEF Good
  <2>9. p \in S BY <2>6, <2>7, <2>8
  <2>10. QED BY <2>6, <2>9
<1>7. S \in SUBSET Nat BY <1>2 DEF Ids
<1> HIDE DEF S
<1>8. S = {} BY <1>6, <1>7, NoFirst
<1>9. Good(t) BY DEF Good, Lost
<1>10. Holds(t) BY <1>8, <1>9 DEF S
<1>11. t \in L(t) BY <1>4
<1>12. QED BY <1>10, <1>11 DEF L

\* The lineage of a task depends on nothing but who created whom.
LEMMA LineageSame ==
  ASSUME NEW ts, NEW ts2, Len(ts) \in Nat, Len(ts2) = Len(ts),
         \A u \in 1 .. Len(ts) : /\ ts[u].parent \in 0 .. Len(ts) /\ ts[u].parent < u
                                 /\ ts2[u].parent = ts[u].parent
  PROVE  \A u \in 1 .. Len(ts) : Lineage(ts2, u) = Lineage(ts, u)
<1> DEFINE S == {u \in 1 .. Len(ts) : Lineage(ts2, u) # Lineage(ts, u)}
<1>1. /\ Lineage(ts, 0) = {}
      /\ \A u \in 1 .. Len(ts) : Lineage(ts, u) = {u} \cup Lineage(ts, ts[u].parent)
  BY LineageUnfolds
<1>2. /\ Lineage(ts2, 0) = {}
      /\ \A u \in 1 .. Len(ts) : Lineage(ts2, u) = {u} \cup Lineage(ts2, ts[u].parent)
  <2>1. \A u \in 1 .. Len(ts2) : ts2[u].parent \in 0 .. Len(ts2) OBVIOUS
  <2>2. /\ Lineage(ts2, 0) = {}
        /\ \A u \in 1 .. Len(ts2) : Lineage(ts2, u) = {u} \cup Lineage(ts2, ts2[u].parent)
    BY <2>1, LineageUnfolds
  <2>3. QED BY <2>2
<1>3. ASSUME NEW u \in S PROVE \E k \in S : k < u
  <2>1. u \in 1 .. Len(ts) /\ Lineage(ts2, u) # Lineage(ts, u) OBVIOUS
  <2>2. PICK p : p = ts[u].parent OBVIOUS
  <2>3. Lineage(ts2, p) # Lineage(ts, p) BY <1>1, <1>2, <2>1, <2>2
  <2>4. p # 0 BY <1>1, <1>2, <2>3
  <2>5. p \in 0 .. Len(ts) /\ p < u BY <2>1, <2>2
  <2>6. p \in 1 .. Len(ts) BY <2>4, <2>5
  <2>7. QED BY <2>3, <2>5, <2>6
<1>4. S \in SUBSET Nat OBVIOUS
<1> HIDE DEF S
<1>5. S = {} BY <1>3, <1>4, NoFirst
<1>6. QED BY <1>5 DEF S

\* handle_task_failed: the failure of a lost task is the reason for every state it
\* writes, and for that of the job.
LEMMA FailureAccounted ==
  ASSUME NEW b, NEW c, Balanced(b), Accounted(b), Balanced(c), Passed(b, c), c.jobs = b.jobs,
         NEW t \in Ids(b), ~FanOut(b.tasks[t]), Lost(c, t),
         \A u \in Ids(b) : c.tasks[u].state =
           IF u \in Lineage(c.tasks, t) THEN "Failed" ELSE b.tasks[u].state
  PROVE  Accounted(c) /\ Leads(b, c) /\ Stuck(c, b.tasks[t].job)
<1>1. PICK L : L = Lineage(c.tasks, t) OBVIOUS
<1>2. Alike(b, c) BY DEF Passed
<1>3. /\ Ids(c) = Ids(b) /\ JobIds(c) = JobIds(b)
      /\ \A u \in Ids(b) : FanOut(c.tasks[u]) <=> FanOut(b.tasks[u])
  BY <1>2, AlikeSets
<1>4. /\ \A v \in L : /\ v \in Ids(c) /\ v \notin Held(c) /\ c.tasks[v].job = c.tasks[t].job
                      /\ v # t => FanOut(c.tasks[v]) /\ \E w \in Kids(c, v) : w \in L
      /\ \E a \in L : c.tasks[a].parent = 0
      /\ t \in L
  BY <1>1, <1>3, AboveLost
<1>5. \A u \in Ids(b) : c.tasks[u].state = IF u \in L THEN "Failed" ELSE b.tasks[u].state
  BY <1>1
<1>6. Recorded(b, c) BY <1>5 DEF Recorded
<1>7. Later(b, c) BY PassedLater
<1>8. /\ \A u \in Ids(b) : Lost(b, u) => Lost(c, u)
      /\ \A j \in JobIds(b) : Stuck(b, j) => Stuck(c, j)
      /\ \A u \in Ids(b) : FanOut(b.tasks[u]) /\ b.tasks[u].state = "Failed" => Doomed(c, u)
  BY <1>6, <1>7, Persists
<1>9. ~FanOut(c.tasks[t]) BY <1>3
<1>10. ASSUME NEW v \in Ids(c), FanOut(c.tasks[v]), c.tasks[v].state = "Failed"
       PROVE  Doomed(c, v)
  <2>1. CASE v \notin L
    <3>1. v \in Ids(b) /\ FanOut(b.tasks[v]) /\ b.tasks[v].state = "Failed"
      BY <1>3, <1>5, <1>10, <2>1
    <3>2. QED BY <1>8, <3>1
  <2>2. CASE v \in L
    <3>1. v # t /\ v \notin Held(c) BY <1>4, <1>9, <1>10, <2>2
    <3>2. PICK w \in Kids(c, v) : w \in L BY <1>4, <2>2, <3>1
    <3>3. CASE w # t
      <4>1. w \in Ids(b) /\ FanOut(c.tasks[w]) BY <1>3, <1>4, <3>2, <3>3
      <4>2. Broken(c, w) BY <1>5, <3>2, <4>1 DEF Broken
      <4>3. QED BY <3>1, <3>2, <4>2 DEF Doomed
    <3>4. CASE w = t
      <4>1. c.tasks[t].parent = v BY <3>2, <3>4 DEF Kids
      <4>2. CASE Regular(c.tasks[t])
        <5>1. Len(c.tasks) \in Nat BY BookRows DEF Balanced
        <5>2. v # 0 BY <1>10, <5>1 DEF Ids
        <5>3. Short(c, v) BY <4>1, <4>2, <5>2 DEF Lost
        <5>4. QED BY <3>1, <5>3 DEF Doomed
      <4>3. CASE ~Regular(c.tasks[t])
        <5>1. Broken(c, t) BY <4>3 DEF Lost
        <5>2. QED BY <3>1, <3>2, <3>4, <5>1 DEF Doomed
      <4>4. QED BY <4>2, <4>3
    <3>5. QED BY <3>3, <3>4
  <2>3. QED BY <2>1, <2>2
<1>11. ASSUME NEW j \in JobIds(c)
       PROVE  /\ c.jobs[j].state = "Failed" => Stuck(c, j)
              /\ c.jobs[j].state = "Pending" <=> c.jobs[j].position = 0
              /\ c.jobs[j].state \notin {"Cancelled", "Restart"}
  <2>1. j \in JobIds(b) /\ c.jobs[j] = b.jobs[j] BY <1>3
  <2>2. QED BY <1>8, <2>1 DEF Accounted
<1>12. Accounted(c) BY <1>10, <1>11 DEF Accounted
<1>13. Leads(b, c) BY <1>3, <1>8 DEF Leads
<1>14. Stuck(c, c.tasks[t].job)
  <2>1. PICK a \in L : c.tasks[a].parent = 0 BY <1>4
  <2>2. a \in Ids(c) /\ a \notin c.fin /\ c.tasks[a].job = c.tasks[t].job
    BY <1>4 DEF Held
  <2>3. CASE a = t /\ Regular(c.tasks[t]) BY <2>1, <2>3 DEF Lost
  <2>4. CASE a # t
    <3>1. FanOut(c.tasks[a]) /\ c.tasks[a].state = "Failed" BY <1>3, <1>4, <1>5, <2>2, <2>4
    <3>2. Broken(c, a) BY <3>1 DEF Broken
    <3>3. a \in Live(c) BY <2>2, <3>1 DEF Live, FanOut, Regular
    <3>4. Stuck(c, c.tasks[a].job) BY <2>1, <2>2, <3>2, <3>3, StuckAt
    <3>5. QED BY <2>2, <3>4
  <2>5. CASE a = t /\ ~Regular(c.tasks[t])
    <3>1. Broken(c, a) BY <2>5 DEF Lost
    <3>2. a \in Live(c) BY <2>2, <2>5 DEF Live
    <3>3. Stuck(c, c.tasks[a].job) BY <2>1, <2>2, <3>1, <3>2, StuckAt
    <3>4. QED BY <2>2, <3>3
  <2>6. QED BY <2>3, <2>4, <2>5
<1>15. c.tasks[t].job = b.tasks[t].job BY <1>2 DEF Alike, SameTask
<1>16. QED BY <1>12, <1>13, <1>14, <1>15

----------------------------------------------------------------------------
(* What keeps a job without subjobs going.  Its first event is on its way, *)
(* or a task at its position has not finished, or its last event is on its *)
(* way; a fan-out task has a live subtask for each of its children, and    *)
(* waits for one that has not finished.                                    *)

Starting(b) == b.jobs[1].position = 0 => 1 \in b.begins

Continuing(b) ==
  b.jobs[1].position # 0 =>
    \/ 1 \in b.ends
    \/ \E u \in (Tops(b, 1) \cap Live(b)) \ b.fin : b.tasks[u].position = b.jobs[1].position

AllLive(b) == \A p \in Ids(b) \ b.pend : FanOut(b.tasks[p]) => ~Short(b, p)

\* A fan-out task whose count is full has been reported; x, if there is one, is about to be.
Behind(b, p)   == b.tasks[p].completions < Len(Children[b.tasks[p].step])
Counting(b, x) ==
  \A p \in Ids(b) \ Held(b) : FanOut(b.tasks[p]) /\ p # x => Behind(b, p)

Composites(b) == \A t \in Ids(b) \ Held(b) : Regular(b.tasks[t]) \/ FanOut(b.tasks[t])

Sustained(b, x) == AllLive(b) /\ Counting(b, x) /\ Composites(b)
Moving(b)       == Starting(b) /\ Continuing(b) /\ Sustained(b, 0)

\* A delivery that is passed on: whoever was held still is, but for fan-out tasks.
LEMMA PassedMoving ==
  ASSUME NEW b, NEW c, NEW x, Balanced(b), Sustained(b, x), Passed(b, c),
         Held(b) \subseteq Held(c), \A p \in b.pend \ c.pend : ~FanOut(b.tasks[p])
  PROVE  /\ Sustained(c, x)
         /\ 1 \in JobIds(b) /\ Starting(b) /\ b.begins \subseteq c.begins => Starting(c)
         /\ 1 \in JobIds(b) /\ Continuing(b) /\ b.ends \subseteq c.ends => Continuing(c)
<1>1. Alike(b, c) /\ c.fin = b.fin /\ c.pend \subseteq b.pend BY DEF Passed
<1>2. /\ Ids(c) = Ids(b) /\ JobIds(c) = JobIds(b) /\ \A p : Kids(c, p) = Kids(b, p)
      /\ \A j : Tops(c, j) = Tops(b, j)
  BY <1>1, AlikeSets
<1>3. \A t \in Ids(b) : /\ c.tasks[t].step = b.tasks[t].step
                        /\ c.tasks[t].position = b.tasks[t].position
                        /\ c.tasks[t].completions = b.tasks[t].completions
  BY <1>1 DEF Alike, SameTask, Passed
<1>4. Live(b) \subseteq Live(c) BY <1>2, <1>3 DEF Live, Held, Regular
<1>5. AllLive(c)
  <2>1. SUFFICES ASSUME NEW p \in Ids(b), p \notin c.pend, FanOut(b.tasks[p])
                 PROVE  ~Short(c, p)
    BY <1>2, <1>3 DEF AllLive, FanOut
  <2>2. ~Short(b, p) BY <2>1 DEF Sustained, AllLive
  <2>3. PICK U : U = Kids(b, p) \cap Live(b) OBVIOUS
  <2>4. PICK V : V = Kids(c, p) \cap Live(c) OBVIOUS
  <2>5. U \subseteq V /\ V \subseteq 1 .. Len(b.tasks)
    BY <1>2, <1>4, <2>3, <2>4 DEF Kids, Ids
  <2>6. Len(b.tasks) \in Nat BY SoundTypes DEF Balanced
  <2>7. Cardinality(U) <= Cardinality(V) /\ Cardinality(V) \in Nat /\ Cardinality(U) \in Nat
    BY <2>5, <2>6, Fewer, FiniteIds
  <2>8. b.tasks[p].step \in Step BY <2>1, SoundTypes DEF Balanced, Ids, Task
  <2>9. PICK n \in Nat : n = Len(Children[b.tasks[p].step]) BY <2>8, ChildrenOf
  <2>10. ~(Cardinality(U) < n) BY <2>2, <2>3, <2>9 DEF Short
  <2>11. ~(Cardinality(V) < n) BY <2>7, <2>9, <2>10
  <2>12. QED BY <1>3, <2>1, <2>4, <2>9, <2>11 DEF Short
<1>6. Counting(c, x) BY <1>2, <1>3 DEF Sustained, Counting, Behind, FanOut
<1>7. Composites(c) BY <1>2, <1>3 DEF Sustained, Composites, Regular, FanOut
<1>8. 1 \in JobIds(b) => c.jobs[1].position = b.jobs[1].position BY <1>1 DEF Alike
<1>9. 1 \in JobIds(b) /\ Starting(b) /\ b.begins \subseteq c.begins => Starting(c)
  BY <1>8 DEF Starting
<1>10. 1 \in JobIds(b) /\ Continuing(b) /\ b.ends \subseteq c.ends => Continuing(c)
  <2>1. Tops(b, 1) \subseteq Ids(b) BY DEF Tops
  <2>2. QED BY <1>1, <1>2, <1>3, <1>4, <1>8, <2>1 DEF Continuing
<1>11. QED BY <1>5, <1>6, <1>7, <1>9, <1>10 DEF Sustained

\* A fan-out task has created its subtasks, one at least.
LEMMA FannedOutMoving ==
  ASSUME NEW b, NEW c, NEW t, Balanced(b), Moving(b), FannedOut(b, c, t), 1 \in JobIds(b),
         Children[b.tasks[t].step] # <<>>
  PROVE  Moving(c)
<1>1. /\ Grown(b, c) /\ c.jobs = b.jobs /\ t \in b.pend /\ FanOut(b.tasks[t])
      /\ c.pend = (b.pend \ {t}) \cup New(b, c) /\ c.act = b.act /\ c.fin = b.fin
      /\ c.begins = b.begins /\ c.ends = b.ends
      /\ \A u \in New(b, c) : c.tasks[u].parent = t
  BY DEF FannedOut
<1>2. /\ t \in Ids(b) /\ t \notin b.act \cup b.fin
      /\ Ids(c) = Ids(b) \cup New(b, c) /\ Ids(b) \cap New(b, c) = {}
      /\ Live(c) = Live(b) \cup New(b, c) /\ Len(b.tasks) \in Nat /\ Len(c.tasks) \in Nat
  BY FannedOutSets
<1>3. /\ \A p : Kids(b, p) = Kids(c, p) \cap Ids(b)
      /\ \A j : Tops(b, j) = Tops(c, j) \cap Ids(b)
  BY <1>1, GrownSets DEF Balanced
<1>4. \A u \in Ids(b) : /\ c.tasks[u].step = b.tasks[u].step
                        /\ c.tasks[u].position = b.tasks[u].position
                        /\ c.tasks[u].completions = b.tasks[u].completions
  BY <1>1 DEF Grown, SameTask
<1>5. Held(c) = (Held(b) \ {t}) \cup New(b, c) BY <1>1, <1>2 DEF Held
<1>6. b.tasks[t].step \in Step BY <1>2, SoundTypes DEF Balanced, Ids, Task
<1>7. PICK n \in Nat : n = Len(Children[b.tasks[t].step]) BY <1>6, ChildrenOf
<1>8. n # 0 BY <1>6, <1>7, EmptySeq, WorkflowAssumption
<1>9. AllLive(c)
  <2>1. SUFFICES ASSUME NEW p \in Ids(c) \ c.pend, FanOut(c.tasks[p]) PROVE ~Short(c, p)
    BY DEF AllLive
  <2>2. p \in Ids(b) BY <1>1, <1>2, <2>1
  <2>3. CASE p = t
    <3>1. Kids(c, t) \cap Live(c) = New(b, c)
      <4>1. New(b, c) \subseteq Kids(c, t) BY <1>1, <1>2 DEF Kids
      <4>2. Kids(b, t) = {}
        <5>1. Kind[b.tasks[t].step] = "fanout" BY <1>1 DEF FanOut
        <5>2. CountsOf(b, t) BY <1>2, <5>1 DEF Balanced, Counts
        <5>3. QED BY <1>1, <5>2 DEF CountsOf
      <4>3. Kids(c, t) \subseteq Ids(c) BY DEF Kids
      <4>4. Kids(c, t) \cap Ids(b) = {} BY <1>3, <4>2
      <4>5. Live(b) \subseteq Ids(b) BY DEF Live
      <4>6. QED BY <1>2, <4>1, <4>3, <4>4, <4>5
    <3>2. New(b, c) = (Len(b.tasks) + 1) .. Len(c.tasks)
      BY <1>2 DEF New, Ids
    <3>3. Len(c.tasks) = Len(b.tasks) + n BY <1>7 DEF FannedOut
    <3>4. Cardinality(New(b, c)) = n
      <4>1. PICK x : x = Len(b.tasks) OBVIOUS
      <4>2. x + 1 \in Int /\ x + n \in Int BY <1>2, <4>1
      <4>3. Cardinality((x + 1) .. (x + n)) =
              IF x + 1 > x + n THEN 0 ELSE (x + n) - (x + 1) + 1
        BY <4>2, FS_Interval
      <4>4. Cardinality((x + 1) .. (x + n)) = n BY <1>2, <1>8, <4>1, <4>3
      <4>5. New(b, c) = (x + 1) .. (x + n) BY <3>2, <3>3, <4>1
      <4>6. QED BY <4>4, <4>5
    <3>5. c.tasks[t].step = b.tasks[t].step BY <1>2, <1>4
    <3>6. PICK k : k = Cardinality(Kids(c, t) \cap Live(c)) OBVIOUS
    <3>7. k = n BY <3>1, <3>4, <3>6
    <3>8. ~(k < n) BY <3>7
    <3>9. ~Short(c, t) BY <1>7, <3>5, <3>6, <3>8 DEF Short
    <3>10. QED BY <2>3, <3>9
  <2>4. CASE p # t
    <3>1. p \notin b.pend BY <1>1, <2>1, <2>4
    <3>2. c.tasks[p].step = b.tasks[p].step BY <1>4, <2>2
    <3>3. ~Short(b, p)
      BY <2>1, <2>2, <3>1, <3>2 DEF Moving, Sustained, AllLive, FanOut
    <3>4. Kids(c, p) \cap Live(c) = Kids(b, p) \cap Live(b)
      <4>1. \A u \in New(b, c) : u \notin Kids(c, p) BY <1>1, <2>4 DEF Kids
      <4>2. Kids(c, p) \subseteq Ids(c) BY DEF Kids
      <4>3. Live(b) \subseteq Ids(b) BY DEF Live
      <4>4. QED BY <1>2, <1>3, <4>1, <4>2, <4>3
    <3>5. QED BY <3>2, <3>3, <3>4 DEF Short
  <2>5. QED BY <2>3, <2>4
<1>10. Counting(c, 0)
  <2>1. SUFFICES ASSUME NEW p \in Ids(c) \ Held(c), FanOut(c.tasks[p]) PROVE Behind(c, p)
    BY DEF Counting
  <2>2. p \in Ids(b) /\ (p = t \/ p \notin Held(b)) BY <1>2, <1>5, <2>1
  <2>3. c.tasks[p].step = b.tasks[p].step /\ c.tasks[p].completions = b.tasks[p].completions
    BY <1>4, <2>2
  <2>4. CASE p = t
    <3>1. Kind[b.tasks[t].step] = "fanout" BY <1>1 DEF FanOut
    <3>2. CountsOf(b, t) BY <1>2, <3>1 DEF Balanced, Counts
    <3>3. b.tasks[t].completions = Cardinality(Kids(b, t) \cap b.fin) /\ Kids(b, t) = {}
      BY <1>1, <3>2 DEF CountsOf
    <3>4. Kids(b, t) \cap b.fin = {} BY <3>3
    <3>5. b.tasks[t].completions = 0 BY <3>3, <3>4, FS_EmptySet
    <3>6. 0 < n BY <1>8
    <3>7. QED BY <1>7, <2>3, <2>4, <3>5, <3>6 DEF Behind
  <2>5. CASE p # t
    <3>1. p # 0 BY <2>2 DEF Ids
    <3>2. QED BY <2>1, <2>2, <2>3, <2>5, <3>1 DEF Moving, Sustained, Counting, Behind, FanOut
  <2>6. QED BY <2>4, <2>5
<1>11. Composites(c)
  <2>1. SUFFICES ASSUME NEW u \in Ids(c) \ Held(c)
                 PROVE  Regular(c.tasks[u]) \/ FanOut(c.tasks[u])
    BY DEF Composites
  <2>2. u \in Ids(b) /\ (u = t \/ u \notin Held(b)) BY <1>2, <1>5, <2>1
  <2>3. c.tasks[u].step = b.tasks[u].step BY <1>4, <2>2
  <2>4. QED BY <1>1, <2>2, <2>3 DEF Moving, Sustained, Composites, Regular, FanOut
<1>12. Starting(c) BY <1>1 DEF Moving, Starting
<1>13. Continuing(c)
  <2>1. Tops(b, 1) \subseteq Tops(c, 1) /\ Tops(b, 1) \subseteq Ids(b)
    BY <1>3 DEF Tops
  <2>2. QED BY <1>1, <1>2, <1>4, <2>1 DEF Moving, Continuing
<1>14. QED BY <1>9, <1>10, <1>11, <1>12, <1>13 DEF Moving, Sustained

\* A task with as many live subtasks as before is no shorter of them.
LEMMA AsManyLive ==
  ASSUME NEW b, NEW c, NEW p, c.tasks[p].step = b.tasks[p].step, ~Short(b, p),
         Cardinality(Kids(c, p) \cap Live(c)) = Cardinality(Kids(b, p) \cap Live(b))
  PROVE  ~Short(c, p)
BY DEF Short

\* The job's next task has been created.
LEMMA AddedMoving ==
  ASSUME NEW b, NEW c, Balanced(b), Sustained(b, 0), Added(b, c, 1)
  PROVE  Moving(c)
<1>1. PICK z : z = Last(c) OBVIOUS
<1>2. /\ z \notin Ids(b) /\ Ids(c) = Ids(b) \cup {z} /\ Live(c) = Live(b) \cup {z}
      /\ \A p \in Ids(c) : Kids(c, p) = Kids(b, p)
      /\ 1 \in JobIds(b) => Tops(c, 1) = Tops(b, 1) \cup {z}
  BY <1>1, AddedSets
<1>3. /\ Grown(b, c) /\ 1 \in JobIds(b) /\ c.jobs[1].position = b.jobs[1].position + 1
      /\ c.tasks[z].position = c.jobs[1].position
      /\ c.pend = b.pend \cup {z} /\ c.act = b.act /\ c.fin = b.fin
  BY <1>1 DEF Added
<1>4. \A u \in Ids(b) : /\ c.tasks[u].step = b.tasks[u].step
                        /\ c.tasks[u].completions = b.tasks[u].completions
  BY <1>3 DEF Grown, SameTask
<1>5. Held(c) = Held(b) \cup {z} BY <1>3 DEF Held
<1>6. AllLive(c)
  <2>1. SUFFICES ASSUME NEW p \in Ids(c) \ c.pend, FanOut(c.tasks[p]) PROVE ~Short(c, p)
    BY DEF AllLive
  <2>2. p \in Ids(b) \ b.pend BY <1>2, <1>3, <2>1
  <2>3. ~Short(b, p) BY <1>4, <2>1, <2>2 DEF Sustained, AllLive, FanOut
  <2>4. Kids(c, p) \cap Live(c) = Kids(b, p) \cap Live(b)
    <3>1. z \notin Kids(b, p) BY <1>2 DEF Kids
    <3>2. QED BY <1>2, <2>1, <3>1
  <2>5. QED BY <1>4, <2>2, <2>3, <2>4, AsManyLive
<1>7. Counting(c, 0)
  <2>1. SUFFICES ASSUME NEW p \in Ids(c) \ Held(c), FanOut(c.tasks[p]), p # 0
                 PROVE  Behind(c, p)
    BY DEF Counting
  <2>2. p \in Ids(b) \ Held(b) BY <1>2, <1>5, <2>1
  <2>3. QED BY <1>4, <2>1, <2>2 DEF Sustained, Counting, Behind, FanOut
<1>8. Composites(c)
  <2>1. SUFFICES ASSUME NEW u \in Ids(c) \ Held(c)
                 PROVE  Regular(c.tasks[u]) \/ FanOut(c.tasks[u])
    BY DEF Composites
  <2>2. u \in Ids(b) \ Held(b) BY <1>2, <1>5, <2>1
  <2>3. QED BY <1>4, <2>2 DEF Sustained, Composites, Regular, FanOut
<1>9. Starting(c)
  <2>1. b.jobs[1] \in Job BY <1>3, BookRows DEF Balanced
  <2>2. b.jobs[1].position \in Nat BY <2>1 DEF Job
  <2>3. QED BY <1>3, <2>2 DEF Starting
<1>10. Continuing(c)
  <2>1. z \notin c.fin BY <1>2, <1>3 DEF Balanced, HeldOnce
  <2>2. QED BY <1>2, <1>3, <2>1 DEF Continuing
<1>11. QED BY <1>6, <1>7, <1>8, <1>9, <1>10 DEF Moving, Sustained

\* A task has finished: its parent has counted it, or the job has still to move on.
LEMMA FinishedMoving ==
  ASSUME NEW b, NEW c, NEW t, Balanced(b), Moving(b), Finished(b, c, t), 1 \in JobIds(b)
  PROVE  /\ Sustained(c, b.tasks[t].parent) /\ Starting(c)
         /\ b.tasks[t].parent # 0 => Continuing(c)
<1>1. Alike(b, c) /\ t \in b.act /\ c.jobs = b.jobs
  BY DEF Finished
<1>2. /\ Ids(c) = Ids(b) /\ JobIds(c) = JobIds(b) /\ \A p : Kids(c, p) = Kids(b, p)
      /\ \A j : Tops(c, j) = Tops(b, j)
  BY <1>1, AlikeSets
<1>3. Live(c) = Live(b) BY FinishedLive
<1>4. \A u \in Ids(b) : /\ c.tasks[u].step = b.tasks[u].step
                        /\ c.tasks[u].position = b.tasks[u].position
  BY <1>1 DEF Alike, SameTask
<1>5. c.pend = b.pend /\ Held(c) = Held(b) BY <1>1 DEF Finished, Held
<1>6. AllLive(c)
  <2>1. SUFFICES ASSUME NEW p \in Ids(b) \ b.pend, FanOut(c.tasks[p]) PROVE ~Short(c, p)
    BY <1>2, <1>5 DEF AllLive
  <2>2. ~Short(b, p) BY <1>4, <2>1 DEF Moving, Sustained, AllLive, FanOut
  <2>3. Kids(c, p) \cap Live(c) = Kids(b, p) \cap Live(b) BY <1>2, <1>3
  <2>4. QED BY <1>4, <2>1, <2>2, <2>3, AsManyLive
<1>7. Counting(c, b.tasks[t].parent)
  <2>1. SUFFICES ASSUME NEW p \in Ids(b) \ Held(b), FanOut(c.tasks[p]), p # b.tasks[t].parent
                 PROVE  Behind(c, p)
    BY <1>2, <1>5 DEF Counting
  <2>2. c.tasks[p].completions = b.tasks[p].completions BY <2>1 DEF Finished
  <2>3. p # 0 BY <2>1 DEF Ids
  <2>4. QED BY <1>4, <2>1, <2>2, <2>3 DEF Moving, Sustained, Counting, Behind, FanOut
<1>8. Composites(c)
  BY <1>2, <1>4, <1>5 DEF Moving, Sustained, Composites, Regular, FanOut
<1>9. Starting(c)
  <2>1. c.begins = b.begins BY DEF Finished
  <2>2. QED BY <1>1, <2>1 DEF Moving, Starting
<1>10. ASSUME b.tasks[t].parent # 0 PROVE Continuing(c)
  <2>1. t \notin Tops(b, 1) /\ Tops(b, 1) \subseteq Ids(b) BY <1>10 DEF Tops
  <2>2. c.fin = b.fin \cup {t} /\ c.ends = b.ends BY DEF Finished
  <2>3. QED BY <1>1, <1>2, <1>3, <1>4, <2>1, <2>2 DEF Moving, Continuing
<1>11. QED BY <1>6, <1>7, <1>8, <1>9, <1>10 DEF Sustained

\* A task that failed has a copy in its place.
LEMMA RetriedMoving ==
  ASSUME NEW b, NEW c, NEW t, Balanced(b), Moving(b), Retried(b, c, t), 1 \in JobIds(b)
  PROVE  Moving(c)
<1>1. PICK z : z = Last(c) OBVIOUS
<1>2. PICK q : q = b.tasks[t].parent OBVIOUS
<1>3. /\ Len(b.tasks) \in Nat /\ z \notin Ids(b) /\ Ids(c) = Ids(b) \cup {z}
      /\ t \in Ids(b) /\ t \in Live(b) /\ t \notin b.fin
      /\ Live(c) = (Live(b) \ {t}) \cup {z}
      /\ \A p \in Ids(b) : Kids(c, p) = Kids(b, p) \cup (IF p = q THEN {z} ELSE {})
      /\ Tops(c, 1) = Tops(b, 1) \cup (IF q = 0 /\ 1 = b.tasks[t].job THEN {z} ELSE {})
  BY <1>1, <1>2, RetriedSets
<1>4. /\ Grown(b, c) /\ c.jobs = b.jobs /\ Regular(b.tasks[t])
      /\ c.tasks[z].position = b.tasks[t].position
      /\ c.pend = b.pend \cup {z} /\ c.act = b.act \ {t} /\ c.fin = b.fin
      /\ c.begins = b.begins /\ c.ends = b.ends
  BY <1>1 DEF Retried
<1>5. \A u \in Ids(b) : /\ c.tasks[u].step = b.tasks[u].step
                        /\ c.tasks[u].position = b.tasks[u].position
                        /\ c.tasks[u].completions = b.tasks[u].completions
  BY <1>4 DEF Grown, SameTask
<1>6. Held(b) \subseteq Held(c) \cup {t} /\ z \in Held(c) BY <1>4 DEF Held
<1>7. ~FanOut(b.tasks[t]) BY <1>4 DEF Regular, FanOut
<1>8. AllLive(c)
  <2>1. SUFFICES ASSUME NEW p \in Ids(c) \ c.pend, FanOut(c.tasks[p]) PROVE ~Short(c, p)
    BY DEF AllLive
  <2>2. p \in Ids(b) \ b.pend BY <1>3, <1>4, <2>1
  <2>3. ~Short(b, p) BY <1>5, <2>1, <2>2 DEF Moving, Sustained, AllLive, FanOut
  <2>4. z \notin Kids(b, p) /\ Kids(b, p) \subseteq Ids(b) /\ z \notin Live(b)
    BY <1>3 DEF Kids, Live
  <2>5. PICK K : K = Kids(b, p) \cap Live(b) OBVIOUS
  <2>6. PICK M : M = Kids(c, p) \cap Live(c) OBVIOUS
  <2>7. Cardinality(M) = Cardinality(K)
    <3>1. CASE p # q
      <4>1. t \notin Kids(b, p) BY <1>2, <3>1 DEF Kids
      <4>2. M = K BY <1>3, <2>2, <2>4, <2>5, <2>6, <3>1, <4>1
      <4>3. QED BY <4>2
    <3>2. CASE p = q
      <4>1. t \in K BY <1>2, <1>3, <2>5, <3>2 DEF Kids
      <4>2. PICK L : L = K \ {t} OBVIOUS
      <4>3. K = L \cup {t} /\ M = L \cup {z} /\ t \notin L /\ z \notin L
        BY <1>3, <2>2, <2>4, <2>5, <2>6, <3>2, <4>1, <4>2
      <4>4. L \subseteq 1 .. Len(b.tasks) BY <2>4, <2>5, <4>2 DEF Ids
      <4>5. /\ Cardinality(L \cup {t}) = Cardinality(L) + 1
            /\ Cardinality(L \cup {z}) = Cardinality(L) + 1
        BY <1>3, <4>3, <4>4, OneMore
      <4>6. QED BY <4>3, <4>5
    <3>3. QED BY <3>1, <3>2
  <2>8. QED BY <1>5, <2>2, <2>3, <2>5, <2>6, <2>7, AsManyLive
<1>9. Counting(c, 0)
  <2>1. SUFFICES ASSUME NEW p \in Ids(c) \ Held(c), FanOut(c.tasks[p]), p # 0
                 PROVE  Behind(c, p)
    BY DEF Counting
  <2>2. p \in Ids(b) /\ FanOut(b.tasks[p]) BY <1>3, <1>5, <1>6, <2>1 DEF FanOut
  <2>3. p \notin Held(b) BY <1>6, <1>7, <2>1, <2>2
  <2>4. Behind(b, p) BY <2>1, <2>2, <2>3 DEF Moving, Sustained, Counting
  <2>5. QED BY <1>5, <2>2, <2>4 DEF Behind
<1>10. Composites(c)
  <2>1. SUFFICES ASSUME NEW u \in Ids(c) \ Held(c)
                 PROVE  Regular(c.tasks[u]) \/ FanOut(c.tasks[u])
    BY DEF Composites
  <2>2. u \in Ids(b) /\ (u = t \/ u \notin Held(b)) BY <1>3, <1>6, <2>1
  <2>3. Regular(b.tasks[u]) \/ FanOut(b.tasks[u])
    BY <1>4, <2>2 DEF Moving, Sustained, Composites
  <2>4. QED BY <1>5, <2>2, <2>3 DEF Regular, FanOut
<1>11. Starting(c) BY <1>4 DEF Moving, Starting
<1>12. Continuing(c)
  <2>1. SUFFICES ASSUME c.jobs[1].position # 0, 1 \notin c.ends
                 PROVE  \E u \in (Tops(c, 1) \cap Live(c)) \ c.fin :
                          c.tasks[u].position = c.jobs[1].position
    BY DEF Continuing
  <2>2. PICK u \in (Tops(b, 1) \cap Live(b)) \ b.fin : b.tasks[u].position = b.jobs[1].position
    BY <1>4, <2>1 DEF Moving, Continuing
  <2>3. u \in Ids(b) /\ b.tasks[u].job = 1 /\ b.tasks[u].parent = 0 BY <2>2 DEF Tops
  <2>4. CASE u = t
    <3>1. z \in Tops(c, 1) /\ z \in Live(c) BY <1>2, <1>3, <2>3, <2>4
    <3>2. z \notin c.fin BY <1>3, <1>4 DEF Balanced, HeldOnce
    <3>3. QED BY <1>4, <2>2, <2>4, <3>1, <3>2
  <2>5. CASE u # t
    <3>1. u \in Tops(c, 1) /\ u \in Live(c) BY <1>3, <2>2, <2>5
    <3>2. QED BY <1>4, <1>5, <2>2, <2>3, <3>1
  <2>6. QED BY <2>4, <2>5
<1>13. QED BY <1>8, <1>9, <1>10, <1>11, <1>12 DEF Moving, Sustained

\* A task at work has not been recorded as done.
AtWork(b) == \A t \in b.act : Regular(b.tasks[t]) =>
               b.tasks[t].state \notin {"Completed", "Failed", "Cancelled"}

\* A delivery after which whoever was held still is, and a task at work is recorded as
\* such: nothing is lost.
LEMMA HeldMoving ==
  ASSUME NEW b, NEW c, Balanced(b), Moving(b), AtWork(b), Passed(b, c), 1 \in JobIds(b),
         Held(b) \subseteq Held(c), c.pend = b.pend,
         b.begins \subseteq c.begins, b.ends \subseteq c.ends,
         \A u \in Ids(b) : \/ c.tasks[u].state = b.tasks[u].state
                           \/ c.tasks[u].state \notin {"Completed", "Failed", "Cancelled"}
  PROVE  Moving(c) /\ AtWork(c)
<1>1. /\ Alike(b, c) /\ c.act \subseteq Ids(b) /\ c.act \cap c.pend = {}
      /\ \A u \in c.act \ b.act : u \in b.pend \/ ~Regular(b.tasks[u])
  BY DEF Passed
<1>2. Moving(c) BY PassedMoving DEF Moving
<1>3. AtWork(c)
  <2>1. SUFFICES ASSUME NEW u \in c.act, Regular(c.tasks[u])
                 PROVE  c.tasks[u].state \notin {"Completed", "Failed", "Cancelled"}
    BY DEF AtWork
  <2>2. u \in Ids(b) /\ Regular(b.tasks[u]) BY <1>1, <2>1, AlikeSets
  <2>3. u \in b.act BY <1>1, <2>1, <2>2
  <2>4. QED BY <2>2, <2>3 DEF AtWork
<1>4. QED BY <1>2, <1>3

\* Who is still at work has not been recorded as done.
LEMMA StillAtWork ==
  ASSUME NEW b, NEW d, NEW t, Balanced(b), AtWork(b), d.act \subseteq b.act \ {t},
         \A u \in Ids(b) : u # t => /\ d.tasks[u].state = b.tasks[u].state
                                    /\ d.tasks[u].step = b.tasks[u].step
  PROVE  AtWork(d)
<1>1. SUFFICES ASSUME NEW u \in d.act, Regular(d.tasks[u])
               PROVE  d.tasks[u].state \notin {"Completed", "Failed", "Cancelled"}
  BY DEF AtWork
<1>2. u \in b.act /\ u # t OBVIOUS
<1>3. u \in Ids(b) BY <1>2 DEF Balanced, HeldOnce
<1>4. Regular(b.tasks[u]) BY <1>1, <1>2, <1>3 DEF Regular
<1>5. QED BY <1>2, <1>3, <1>4 DEF AtWork

\* A task of the list has finished: the next one is created, or the job reported done.
LEMMA ListMoving ==
  ASSUME NEW b, NEW c, NEW d, NEW t, Balanced(b), Balanced(c),
         Moving(b), AtWork(b), Finished(b, c, t), b.tasks[t].parent = 0, 1 \in JobIds(b),
         Added(c, d, 1) \/ (Passed(c, d) /\ 1 \in d.ends),
         c.pend \subseteq d.pend, c.act \subseteq d.act,
         Passed(c, d) => c.begins \subseteq d.begins,
         \A u \in Ids(b) : u # t => d.tasks[u].state = b.tasks[u].state
  PROVE  Moving(d) /\ AtWork(d)
<1>1. Sustained(c, 0) /\ Starting(c) BY FinishedMoving
<1>2. Alike(b, c) /\ c.act = b.act \ {t} /\ c.pend = b.pend BY DEF Finished
<1>3. /\ Ids(c) = Ids(b) /\ JobIds(c) = JobIds(b)
      /\ \A u \in Ids(b) : c.tasks[u].step = b.tasks[u].step
  BY <1>2, AlikeSets DEF Alike, SameTask
<1>4. CASE Added(c, d, 1)
  <2>1. Moving(d) BY <1>1, <1>4, AddedMoving
  <2>2. /\ d.act = c.act
        /\ \A u \in Ids(c) : d.tasks[u].step = c.tasks[u].step
    BY <1>4 DEF Added, Grown, SameTask
  <2>3. \A u \in Ids(b) : u # t => /\ d.tasks[u].state = b.tasks[u].state
                                   /\ d.tasks[u].step = b.tasks[u].step
    BY <1>3, <2>2
  <2>4. d.act \subseteq b.act \ {t} BY <1>2, <2>2
  <2>5. AtWork(d) BY <2>3, <2>4, StillAtWork
  <2>6. QED BY <2>1, <2>5
<1>5. CASE Passed(c, d) /\ 1 \in d.ends
  <2>1. /\ d.fin = c.fin /\ d.act \cap d.pend = {}
        /\ \A u \in d.act \ c.act : u \in c.pend \/ ~Regular(c.tasks[u])
        /\ \A u \in Ids(c) : d.tasks[u].step = c.tasks[u].step
        /\ d.act \subseteq Ids(c)
    BY <1>5 DEF Passed, Alike, SameTask
  <2>2. Held(c) \subseteq Held(d) BY <2>1 DEF Held
  <2>3. \A q \in c.pend \ d.pend : ~FanOut(c.tasks[q]) OBVIOUS
  <2>4. Sustained(d, 0) /\ Starting(d) BY <1>1, <1>3, <1>5, <2>2, <2>3, PassedMoving
  <2>5. Moving(d) BY <1>5, <2>4 DEF Moving, Continuing
  <2>6. AtWork(d)
    <3>1. SUFFICES ASSUME NEW u \in d.act, Regular(d.tasks[u])
                   PROVE  d.tasks[u].state \notin {"Completed", "Failed", "Cancelled"}
      BY DEF AtWork
    <3>2. u \in Ids(b) /\ Regular(c.tasks[u]) /\ Regular(b.tasks[u])
      BY <1>3, <2>1, <3>1 DEF Regular
    <3>3. u \in c.act BY <2>1, <3>2
    <3>4. QED BY <1>2, <3>2, <3>3 DEF AtWork
  <2>7. QED BY <2>5, <2>6
<1>6. QED BY <1>4, <1>5

\* The parent has counted the task: it is reported, or it waits for another one.
LEMMA CountedMoving ==
  ASSUME NEW b, NEW c, NEW d, NEW t, Balanced(b), Balanced(c), Balanced(d),
         Moving(b), AtWork(b), Finished(b, c, t), Passed(c, d) \/ d = c, 1 \in JobIds(b),
         NEW p \in Ids(b), p = b.tasks[t].parent,
         p \in d.act \/ ~Enough(d.tasks[p]),
         c.pend \subseteq d.pend, c.act \subseteq d.act,
         c.begins \subseteq d.begins, c.ends \subseteq d.ends,
         \A u \in Ids(b) : u # t => d.tasks[u].state = b.tasks[u].state
  PROVE  Moving(d) /\ AtWork(d)
<1>1. Sustained(c, p) /\ Starting(c) /\ Continuing(c)
  <2>1. p # 0 BY DEF Ids
  <2>2. QED BY <2>1, FinishedMoving
<1>2. /\ Alike(b, c) /\ t \in b.act /\ c.act = b.act \ {t} /\ c.fin = b.fin \cup {t}
      /\ c.jobs = b.jobs /\ c.pend = b.pend
  BY DEF Finished
<1>3. Ids(c) = Ids(b) /\ JobIds(c) = JobIds(b) BY <1>2, AlikeSets
<1>4. /\ Sustained(d, p) /\ Starting(d) /\ Continuing(d) /\ Ids(d) = Ids(b)
      /\ \A u \in d.act : u \in c.act \/ ~Regular(d.tasks[u])
  <2>1. CASE d = c BY <1>1, <1>3, <2>1
  <2>2. CASE Passed(c, d)
    <3>1. /\ Alike(c, d) /\ d.fin = c.fin /\ d.act \cap d.pend = {} /\ d.act \subseteq Ids(c)
          /\ \A u \in d.act \ c.act : u \in c.pend \/ ~Regular(c.tasks[u])
      BY <2>2 DEF Passed
    <3>2. Ids(d) = Ids(c) BY <3>1, AlikeSets
    <3>3. \A u \in Ids(c) : d.tasks[u].step = c.tasks[u].step BY <3>1 DEF Alike, SameTask
    <3>4. \A u \in d.act : u \in c.act \/ ~Regular(d.tasks[u])
      BY <3>1, <3>3 DEF Regular
    <3>5. Held(c) \subseteq Held(d) BY <3>1 DEF Held
    <3>6. \A q \in c.pend \ d.pend : ~FanOut(c.tasks[q]) OBVIOUS
    <3>7. Sustained(d, p) /\ Starting(d) /\ Continuing(d)
      BY <1>1, <1>3, <2>2, <3>5, <3>6, PassedMoving
    <3>8. QED BY <1>3, <3>2, <3>4, <3>7
  <2>3. QED BY <2>1, <2>2
<1>5. p \in Held(d) \/ Behind(d, p)
  <2>1. d.tasks[p].step \in Step /\ d.tasks[p].completions \in Nat
    BY <1>4, SoundTypes DEF Balanced, Ids, Task
  <2>2. PICK n \in Nat : n = Len(Children[d.tasks[p].step]) BY <2>1, ChildrenOf
  <2>3. QED BY <2>1, <2>2 DEF Enough, Behind, Held
<1>6. Counting(d, 0) BY <1>4, <1>5 DEF Sustained, Counting
<1>7. Moving(d) BY <1>4, <1>6 DEF Moving, Sustained
<1>8. AtWork(d)
  <2>1. SUFFICES ASSUME NEW u \in d.act, Regular(d.tasks[u])
                 PROVE  d.tasks[u].state \notin {"Completed", "Failed", "Cancelled"}
    BY DEF AtWork
  <2>2. u \in b.act /\ u # t BY <1>2, <1>4, <2>1
  <2>3. u \in Ids(b) BY <2>2 DEF Balanced, HeldOnce
  <2>4. /\ c.tasks[u].step = b.tasks[u].step
    BY <1>2, <2>3 DEF Alike, SameTask
  <2>5. d.tasks[u].step = c.tasks[u].step
    BY <1>3, <2>3 DEF Passed, Alike, SameTask
  <2>6. Regular(b.tasks[u]) BY <2>1, <2>4, <2>5 DEF Regular
  <2>7. QED BY <2>2, <2>3, <2>6 DEF AtWork
<1>9. QED BY <1>7, <1>8

\* A fan-out task nobody holds waits for a younger one.
LEMMA WaitsForYounger ==
  ASSUME NEW b, Balanced(b), Sustained(b, 0), NEW p \in Ids(b) \ Held(b), FanOut(b.tasks[p]),
         b.pend = {}, b.act = {}
  PROVE  \E k \in Ids(b) \ Held(b) : FanOut(b.tasks[k]) /\ p < k
<1>1. b.tasks[p].step \in Step /\ Len(b.tasks) \in Nat
  BY SoundTypes DEF Balanced, Ids, Task
<1>2. PICK n \in Nat : n = Len(Children[b.tasks[p].step]) BY <1>1, ChildrenOf
<1>3. PICK K : K = Kids(b, p) \cap Live(b) OBVIOUS
<1>4. PICK F : F = Kids(b, p) \cap b.fin OBVIOUS
<1>5. K \subseteq 1 .. Len(b.tasks) /\ F \subseteq 1 .. Len(b.tasks)
  BY <1>3, <1>4 DEF Kids, Ids
<1>6. Cardinality(K) \in Nat /\ Cardinality(F) \in Nat BY <1>1, <1>5, FiniteIds
<1>7. ~(Cardinality(K) < n)
  <2>1. ~Short(b, p) BY DEF Sustained, AllLive, Held
  <2>2. QED BY <1>2, <1>3, <2>1 DEF Short
<1>8. Cardinality(F) < n
  <2>1. p # 0 BY DEF Ids
  <2>2. Behind(b, p) BY <2>1 DEF Sustained, Counting
  <2>3. CountsOf(b, p) BY DEF Balanced, Counts, FanOut
  <2>4. QED BY <1>2, <1>4, <2>2, <2>3 DEF Behind, CountsOf
<1>9. PICK k \in K : k \notin F
  <2>1. CASE K \subseteq F
    <3>1. Cardinality(K) <= Cardinality(F) BY <1>1, <1>5, <2>1, Fewer
    <3>2. QED BY <1>6, <1>7, <1>8, <3>1
  <2>2. QED BY <2>1
<1>10. k \in Ids(b) /\ b.tasks[k].parent = p /\ k \in Live(b) /\ k \notin b.fin
  BY <1>3, <1>4, <1>9 DEF Kids
<1>11. k \notin Held(b) BY <1>10 DEF Held
<1>12. ~Regular(b.tasks[k]) BY <1>10, <1>11 DEF Live, Held
<1>13. FanOut(b.tasks[k]) BY <1>10, <1>11, <1>12 DEF Sustained, Composites
<1>14. p < k BY <1>10 DEF Balanced, HeldOnce
<1>15. QED BY <1>10, <1>11, <1>13, <1>14

\* A job that is kept going is held by somebody.
LEMMA SomebodyHolds ==
  ASSUME NEW b, Balanced(b), Moving(b), 1 \in JobIds(b)
  PROVE  b.pend \cup b.act \cup b.begins \cup b.ends # {}
<1>1. SUFFICES ASSUME b.pend = {}, b.act = {}, b.begins = {}, b.ends = {} PROVE FALSE
  OBVIOUS
<1>2. PICK u \in (Tops(b, 1) \cap Live(b)) \ b.fin : TRUE
  BY <1>1 DEF Moving, Starting, Continuing
<1>3. u \in Ids(b) /\ u \notin Held(b) /\ FanOut(b.tasks[u])
  <2>1. u \in Ids(b) /\ u \notin Held(b) /\ u \in Live(b) BY <1>1 DEF Tops, Held
  <2>2. ~Regular(b.tasks[u]) BY <2>1 DEF Live, Held
  <2>3. QED BY <2>1, <2>2 DEF Moving, Sustained, Composites
<1>4. PICK n \in Nat : n = Len(b.tasks) BY SoundTypes DEF Balanced
<1>5. PICK S : S = {n - p : p \in {q \in Ids(b) \ Held(b) : FanOut(b.tasks[q])}} OBVIOUS
<1>6. S \in SUBSET Nat BY <1>4, <1>5 DEF Ids
<1>7. \A i \in S : \E k \in S : k < i
  <2>1. SUFFICES ASSUME NEW p \in Ids(b) \ Held(b), FanOut(b.tasks[p])
                 PROVE  \E k \in S : k < n - p
    BY <1>5
  <2>2. PICK k \in Ids(b) \ Held(b) : FanOut(b.tasks[k]) /\ p < k
    BY <1>1, <2>1, WaitsForYounger DEF Moving
  <2>3. n - k \in S BY <1>5, <2>2
  <2>4. n - k < n - p BY <1>4, <2>2 DEF Ids
  <2>5. QED BY <2>3, <2>4
<1>8. S = {} BY <1>6, <1>7, NoFirst
<1>9. n - u \in S BY <1>3, <1>5
<1>10. QED BY <1>8, <1>9
=============================================================================
