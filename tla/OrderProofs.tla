---------------------------- MODULE OrderProofs ----------------------------
(***************************************************************************)
(* What TLAPS proves of a job that is left alone (nobody cancels or        *)
(* restarts it, and no subjob task is retried), for every workflow and     *)
(* every bound: the steps of a job run one at a time and in the order of   *)
(* its list, a fan-in counts every child once, retries keep to their       *)
(* limit, a subjob is waited for, the outcome of a job is final, and a job *)
(* without subjobs is never left with nobody to move it on.                *)
(*                                                                         *)
(* The argument is kept in the books of CoordinatorProofs: every handler   *)
(* is shown to be one of their entries, or two in a row, and the messages  *)
(* in flight to say what the books say.                                    *)
(***************************************************************************)
EXTENDS CoordinatorProofs

----------------------------------------------------------------------------
(* What the messages say.  A token is a message whose handling an entry    *)
(* stands for: somebody holds the task it names, or it is the job's own    *)
(* start or end.  The other messages change nothing the books record.      *)

Worked == {"worker", "x-redeliveries", "progress:Completed", "progress:Failed"}
Acting == Worked \cup {"x-completed"}

TaskToken(m) == m.queue = "x-pending" \/ m.queue \in Acting
JobToken(m)  == JobEvent(m, "Pending") \/ JobEvent(m, "Completed")

Tasks(S)  == {x.task : x \in S}
Events(S) == {x.job : x \in S}

PendOf(S)   == Tasks({x \in S : x.queue = "x-pending"})
ActOf(S)    == Tasks({x \in S : x.queue \in Acting})
BeginsOf(S) == Events({x \in S : JobEvent(x, "Pending")})
EndsOf(S)   == Events({x \in S : JobEvent(x, "Completed")})

Pend   == PendOf(BagToSet(msgs))
Act    == ActOf(BagToSet(msgs)) \cup BagToSet(running)
Begins == BeginsOf(BagToSet(msgs))
Ends   == EndsOf(BagToSet(msgs))

\* The books of the coordinator.
Books == Book(jobs, tasks, Pend, Act, finished, Begins, Ends)

\* Two tokens for one task, or for one event of a job.
Clash(x, y) ==
  \/ TaskToken(x) /\ TaskToken(y) /\ x.task = y.task
  \/ JobToken(x) /\ JobToken(y) /\ x.job = y.job /\ x.state = y.state

NoClash(S) == \A x, y \in S : Clash(x, y) => x = y

\* Every token is there once.
Exactly ==
  /\ \A m \in BagToSet(msgs) : TaskToken(m) \/ JobToken(m) => msgs[m] = 1
  /\ \A t \in BagToSet(running) : running[t] = 1
  /\ NoClash(BagToSet(msgs))
  /\ \A m \in BagToSet(msgs) : TaskToken(m) => m.task \notin BagToSet(running)

\* What may be sent: tokens for tasks nobody holds but the message handled, and for
\* events that are not on their way.
Fresh(m, S) ==
  /\ \A x \in S : TaskToken(x) =>
       (TaskToken(m) /\ x.task = m.task) \/ x.task \notin Pend \cup Act
  /\ \A x \in S : JobEvent(x, "Pending") => x.job \notin Begins
  /\ \A x \in S : JobEvent(x, "Completed") => x.job \notin Ends
  /\ NoClash(S)

\* A message taken and some sent, message by message.
LEMMA Counted ==
  ASSUME NEW B, NEW m, NEW S, IsABag(B), m \in BagToSet(B)
  PROVE  LET C == (B (-) SetToBag({m})) (+) SetToBag(S)
         IN /\ BagToSet(C) = (IF B[m] = 1 THEN BagToSet(B) \ {m} ELSE BagToSet(B)) \cup S
            /\ \A x \in BagToSet(C) : x # m =>
                 C[x] = (IF x \in BagToSet(B) THEN B[x] ELSE 0) + (IF x \in S THEN 1 ELSE 0)
            /\ m \in S => C[m] = B[m]
<1> DEFINE D == B (-) SetToBag({m})
           C == D (+) SetToBag(S)
<1>1. /\ IsABag(D)
      /\ BagToSet(D) = (IF B[m] = 1 THEN BagToSet(B) \ {m} ELSE BagToSet(B))
      /\ \A x \in BagToSet(D) : D[x] = IF x = m THEN B[x] - 1 ELSE B[x]
  BY DEF IsABag, SetToBag, BagToSet, (-)
<1> HIDE DEF D
<1>2. /\ BagToSet(C) = BagToSet(D) \cup S
      /\ \A x \in BagToSet(C) :
           C[x] = (IF x \in BagToSet(D) THEN D[x] ELSE 0) + (IF x \in S THEN 1 ELSE 0)
  BY <1>1 DEF IsABag, SetToBag, BagToSet, (+)
<1> HIDE DEF C
<1>3. \A x \in BagToSet(B) : B[x] \in Nat /\ B[x] > 0 BY DEF IsABag, BagToSet
<1>4. BagToSet(C) = (IF B[m] = 1 THEN BagToSet(B) \ {m} ELSE BagToSet(B)) \cup S
  BY <1>1, <1>2
<1>5. \A x \in BagToSet(C) : x # m =>
        C[x] = (IF x \in BagToSet(B) THEN B[x] ELSE 0) + (IF x \in S THEN 1 ELSE 0)
  BY <1>1, <1>2
<1>6. m \in S => C[m] = B[m]
  <2>1. SUFFICES ASSUME m \in S PROVE C[m] = B[m] OBVIOUS
  <2>2. C[m] = (IF m \in BagToSet(D) THEN D[m] ELSE 0) + 1 BY <1>2, <2>1
  <2>3. CASE B[m] = 1
    <3>1. m \notin BagToSet(D) BY <1>1, <2>3
    <3>2. QED BY <2>2, <2>3, <3>1
  <2>4. CASE B[m] # 1
    <3>1. m \in BagToSet(D) /\ D[m] = B[m] - 1 BY <1>1, <2>4
    <3>2. B[m] \in Nat BY <1>3
    <3>3. QED BY <2>2, <3>1, <3>2
  <2>5. QED BY <2>3, <2>4
<1>7. QED BY <1>4, <1>5, <1>6 DEF C, D

\* What a set of messages says of the books.
LEMMA Says ==
  ASSUME NEW S, NEW T
  PROVE  /\ PendOf(S \cup T) = PendOf(S) \cup PendOf(T)
         /\ ActOf(S \cup T) = ActOf(S) \cup ActOf(T)
         /\ BeginsOf(S \cup T) = BeginsOf(S) \cup BeginsOf(T)
         /\ EndsOf(S \cup T) = EndsOf(S) \cup EndsOf(T)
         /\ \A x \in S : /\ x.queue = "x-pending" => x.task \in PendOf(S)
                         /\ x.queue \in Acting => x.task \in ActOf(S)
                         /\ JobEvent(x, "Pending") => x.job \in BeginsOf(S)
                         /\ JobEvent(x, "Completed") => x.job \in EndsOf(S)
         /\ \A t \in PendOf(S) : \E x \in S : x.queue = "x-pending" /\ x.task = t
         /\ \A t \in ActOf(S) : \E x \in S : x.queue \in Acting /\ x.task = t
         /\ \A j \in BeginsOf(S) : \E x \in S : JobEvent(x, "Pending") /\ x.job = j
         /\ \A j \in EndsOf(S) : \E x \in S : JobEvent(x, "Completed") /\ x.job = j
BY DEF PendOf, ActOf, BeginsOf, EndsOf, Tasks, Events

LEMMA SaysOne ==
  ASSUME NEW m
  PROVE  /\ PendOf({m}) = IF m.queue = "x-pending" THEN {m.task} ELSE {}
         /\ ActOf({m}) = IF m.queue \in Acting THEN {m.task} ELSE {}
         /\ BeginsOf({m}) = IF JobEvent(m, "Pending") THEN {m.job} ELSE {}
         /\ EndsOf({m}) = IF JobEvent(m, "Completed") THEN {m.job} ELSE {}
         /\ PendOf({}) = {} /\ ActOf({}) = {} /\ BeginsOf({}) = {} /\ EndsOf({}) = {}
BY DEF PendOf, ActOf, BeginsOf, EndsOf, Tasks, Events

\* A queue is of one kind.
LEMMA Kinds ==
  ASSUME NEW x
  PROVE  /\ x.queue = "x-pending" => x.queue \notin Acting /\ ~JobToken(x)
         /\ x.queue \in Acting => x.queue # "x-pending" /\ ~JobToken(x)
         /\ JobEvent(x, "Pending") => ~JobEvent(x, "Completed") /\ ~TaskToken(x)
         /\ JobEvent(x, "Completed") => ~JobEvent(x, "Pending") /\ ~TaskToken(x)
BY DEF Acting, Worked, JobToken, JobEvent, TaskToken

\* Without a token, the books no longer say what it said.
LEMMA Unsaid ==
  ASSUME NEW S, NoClash(S), NEW m \in S
  PROVE  /\ PendOf(S \ {m}) = PendOf(S) \ PendOf({m})
         /\ ActOf(S \ {m}) = ActOf(S) \ ActOf({m})
         /\ BeginsOf(S \ {m}) = BeginsOf(S) \ BeginsOf({m})
         /\ EndsOf(S \ {m}) = EndsOf(S) \ EndsOf({m})
<1> DEFINE T == S \ {m}
<1>1. S = T \cup {m} OBVIOUS
<1>2. /\ PendOf(S) = PendOf(T) \cup PendOf({m}) /\ ActOf(S) = ActOf(T) \cup ActOf({m})
      /\ BeginsOf(S) = BeginsOf(T) \cup BeginsOf({m})
      /\ EndsOf(S) = EndsOf(T) \cup EndsOf({m})
  <2> HIDE DEF T
  <2>1. QED BY <1>1, Says
<1>3. \A x \in T : ~Clash(x, m) BY DEF NoClash
<1> HIDE DEF T
<1>4. ASSUME NEW t \in PendOf({m}), t \in PendOf(T) PROVE FALSE
  <2>1. m.queue = "x-pending" /\ m.task = t BY <1>4, SaysOne
  <2>2. PICK x \in T : x.queue = "x-pending" /\ x.task = t BY <1>4, Says
  <2>3. QED BY <1>3, <2>1, <2>2 DEF Clash, TaskToken
<1>5. ASSUME NEW t \in ActOf({m}), t \in ActOf(T) PROVE FALSE
  <2>1. m.queue \in Acting /\ m.task = t BY <1>5, SaysOne
  <2>2. PICK x \in T : x.queue \in Acting /\ x.task = t BY <1>5, Says
  <2>3. QED BY <1>3, <2>1, <2>2 DEF Clash, TaskToken
<1>6. ASSUME NEW j \in BeginsOf({m}), j \in BeginsOf(T) PROVE FALSE
  <2>1. JobEvent(m, "Pending") /\ m.job = j BY <1>6, SaysOne
  <2>2. PICK x \in T : JobEvent(x, "Pending") /\ x.job = j BY <1>6, Says
  <2>3. QED BY <1>3, <2>1, <2>2 DEF Clash, JobToken, JobEvent
<1>7. ASSUME NEW j \in EndsOf({m}), j \in EndsOf(T) PROVE FALSE
  <2>1. JobEvent(m, "Completed") /\ m.job = j BY <1>7, SaysOne
  <2>2. PICK x \in T : JobEvent(x, "Completed") /\ x.job = j BY <1>7, Says
  <2>3. QED BY <1>3, <2>1, <2>2 DEF Clash, JobToken, JobEvent
<1>8. QED BY <1>2, <1>4, <1>5, <1>6, <1>7 DEF T

\* A message that is no token says nothing.
LEMMA Silent ==
  ASSUME NEW m, ~TaskToken(m), ~JobToken(m)
  PROVE  PendOf({m}) = {} /\ ActOf({m}) = {} /\ BeginsOf({m}) = {} /\ EndsOf({m}) = {}
BY SaysOne DEF TaskToken, JobToken

\* A token that is sent clashes with nothing but the message handled.
LEMMA FreshClash ==
  ASSUME NEW m \in BagToSet(msgs), NEW S, Exactly, Fresh(m, S),
         NEW x \in S, NEW y \in BagToSet(msgs), Clash(x, y)
  PROVE  y = m
<1>1. NoClash(BagToSet(msgs)) BY DEF Exactly
<1>2. CASE TaskToken(x) /\ TaskToken(y) /\ x.task = y.task
  <2>1. y.task \in Pend \cup Act BY <1>2, Says DEF Pend, Act, TaskToken
  <2>2. TaskToken(m) /\ x.task = m.task BY <1>2, <2>1 DEF Fresh
  <2>3. Clash(y, m) BY <1>2, <2>2 DEF Clash
  <2>4. QED BY <1>1, <2>3 DEF NoClash
<1>3. CASE JobToken(x) /\ JobToken(y) /\ x.job = y.job /\ x.state = y.state
  <2>1. CASE JobEvent(y, "Pending")
    <3>1. y.job \in Begins BY <2>1, Says DEF Begins
    <3>2. JobEvent(x, "Pending") BY <1>3, <2>1 DEF JobToken, JobEvent
    <3>3. QED BY <1>3, <3>1, <3>2 DEF Fresh
  <2>2. CASE JobEvent(y, "Completed")
    <3>1. y.job \in Ends BY <2>2, Says DEF Ends
    <3>2. JobEvent(x, "Completed") BY <1>3, <2>2 DEF JobToken, JobEvent
    <3>3. QED BY <1>3, <3>1, <3>2 DEF Fresh
  <2>3. QED BY <1>3, <2>1, <2>2 DEF JobToken
<1>4. QED BY <1>2, <1>3 DEF Clash

\* What a delivery does to the tokens.
LEMMA Handled ==
  ASSUME Rows, Exactly, NEW m \in BagToSet(msgs), NEW e, Handle(m, e), Fresh(m, e.sent)
  PROVE  /\ Exactly'
         /\ Pend' = (Pend \ PendOf({m})) \cup PendOf(e.sent)
         /\ Act' = (Act \ ActOf({m})) \cup ActOf(e.sent)
         /\ Begins' = (Begins \ BeginsOf({m})) \cup BeginsOf(e.sent)
         /\ Ends' = (Ends \ EndsOf({m})) \cup EndsOf(e.sent)
         /\ BagToSet(msgs') \subseteq BagToSet(msgs) \cup e.sent
         /\ running' = running
<1> DEFINE M == BagToSet(msgs)
           N == BagToSet(msgs')
           S == e.sent
           K == IF msgs[m] = 1 THEN M \ {m} ELSE M
           Token(x) == TaskToken(x) \/ JobToken(x)
<1>1. running' = running /\ msgs' = (msgs (-) SetToBag({m})) (+) SetToBag(S)
  BY DEF Handle, Take
<1>2. /\ N = K \cup S
      /\ \A x \in N : x # m =>
           msgs'[x] = (IF x \in M THEN msgs[x] ELSE 0) + (IF x \in S THEN 1 ELSE 0)
      /\ m \in S => msgs'[m] = msgs[m]
  <2> HIDE DEF S
  <2>1. IsABag(msgs) BY DEF Rows
  <2>2. QED BY <1>1, <2>1, Counted
<1>3. \A x \in S, y \in M : Clash(x, y) => y = m BY FreshClash
<1>4. /\ \A x \in M : Token(x) => msgs[x] = 1
      /\ NoClash(M) /\ m \in M
  BY DEF Exactly
<1>5. NoClash(S) BY DEF Fresh
<1>6. \A x : Token(x) => Clash(x, x) BY DEF Clash
<1> HIDE DEF M, N, S
<1>7. ASSUME NEW x \in N, Token(x) PROVE msgs'[x] = 1
  <2>1. CASE x = m
    <3>1. msgs[m] = 1 BY <1>4, <1>7, <2>1
    <3>2. m \in S BY <1>2, <2>1, <3>1
    <3>3. QED BY <1>2, <2>1, <3>1, <3>2
  <2>2. CASE x # m
    <3>1. ~(x \in M /\ x \in S) BY <1>3, <1>6, <1>7, <2>2
    <3>2. x \in M \/ x \in S BY <1>2
    <3>3. x \in M => msgs[x] = 1 BY <1>4, <1>7
    <3>4. QED BY <1>2, <2>2, <3>1, <3>2, <3>3
  <2>3. QED BY <2>1, <2>2
<1>8. ASSUME NEW x \in N, NEW y \in N, Clash(x, y) PROVE x = y
  <2>1. Token(x) /\ Token(y) /\ Clash(y, x) BY <1>8 DEF Clash
  <2>2. ASSUME NEW z \in N, Token(z), z \notin S PROVE z \in M /\ z # m
    <3>1. z \in K /\ (msgs[m] # 1 \/ z # m) BY <1>2, <2>2
    <3>2. z = m => msgs[m] = 1 BY <1>4, <2>2
    <3>3. QED BY <1>4, <3>1, <3>2
  <2>3. CASE x \in S /\ y \in S BY <1>5, <1>8, <2>3 DEF NoClash
  <2>4. CASE x \in S /\ y \notin S BY <1>3, <1>8, <2>1, <2>2, <2>4
  <2>5. CASE x \notin S /\ y \in S BY <1>3, <1>8, <2>1, <2>2, <2>5
  <2>6. CASE x \notin S /\ y \notin S BY <1>4, <1>8, <2>1, <2>2, <2>6 DEF NoClash
  <2>7. QED BY <2>3, <2>4, <2>5, <2>6
<1>9. ASSUME NEW x \in N, TaskToken(x) PROVE x.task \notin BagToSet(running')
  <2>1. \A y \in M : TaskToken(y) => y.task \notin BagToSet(running) BY DEF Exactly, M
  <2>2. CASE x \in S
    <3>1. (TaskToken(m) /\ x.task = m.task) \/ x.task \notin Act
      BY <1>9, <2>2 DEF Fresh, S
    <3>2. QED BY <1>1, <1>4, <2>1, <3>1 DEF Act
  <2>3. CASE x \notin S
    <3>1. x \in M BY <1>2, <2>3
    <3>2. QED BY <1>1, <1>9, <2>1, <3>1
  <2>4. QED BY <2>2, <2>3
<1>10. Exactly'
  <2>1. NoClash(N) BY <1>8 DEF NoClash
  <2>2. \A x \in N : TaskToken(x) \/ JobToken(x) => msgs'[x] = 1 BY <1>7
  <2>3. \A x \in BagToSet(running') : running'[x] = 1 BY <1>1 DEF Exactly
  <2>4. QED BY <1>9, <2>1, <2>2, <2>3 DEF Exactly, N
<1>11. /\ PendOf(N) = PendOf(K) \cup PendOf(S) /\ ActOf(N) = ActOf(K) \cup ActOf(S)
       /\ BeginsOf(N) = BeginsOf(K) \cup BeginsOf(S)
       /\ EndsOf(N) = EndsOf(K) \cup EndsOf(S)
  <2> HIDE DEF K
  <2>1. QED BY <1>2, Says
<1>12. /\ PendOf(K) = PendOf(M) \ PendOf({m}) /\ ActOf(K) = ActOf(M) \ ActOf({m})
       /\ BeginsOf(K) = BeginsOf(M) \ BeginsOf({m})
       /\ EndsOf(K) = EndsOf(M) \ EndsOf({m})
  <2>1. CASE msgs[m] = 1
    <3>1. K = M \ {m} BY <2>1
    <3> HIDE DEF K
    <3>2. QED BY <1>4, <3>1, Unsaid
  <2>2. CASE msgs[m] # 1
    <3>1. K = M BY <2>2
    <3>2. ~TaskToken(m) /\ ~JobToken(m) BY <1>4, <2>2
    <3> HIDE DEF K
    <3>3. PendOf({m}) = {} /\ ActOf({m}) = {} /\ BeginsOf({m}) = {} /\ EndsOf({m}) = {}
      BY <3>2, Silent
    <3>4. QED BY <3>1, <3>3
  <2>3. QED BY <2>1, <2>2
<1>13. ActOf({m}) \cap BagToSet(running) = {} BY <1>4, SaysOne DEF Exactly, TaskToken, M
<1>14. /\ Pend = PendOf(M) /\ Act = ActOf(M) \cup BagToSet(running)
       /\ Begins = BeginsOf(M) /\ Ends = EndsOf(M)
  BY DEF Pend, Act, Begins, Ends, M
<1>15. /\ Pend' = PendOf(N) /\ Act' = ActOf(N) \cup BagToSet(running)
       /\ Begins' = BeginsOf(N) /\ Ends' = EndsOf(N)
  BY <1>1 DEF Pend, Act, Begins, Ends, N
<1>16. N \subseteq M \cup S BY <1>2
<1>17. Act' = (Act \ ActOf({m})) \cup ActOf(S) BY <1>11, <1>12, <1>13, <1>14, <1>15
<1>18. /\ Pend' = (Pend \ PendOf({m})) \cup PendOf(S)
       /\ Begins' = (Begins \ BeginsOf({m})) \cup BeginsOf(S)
       /\ Ends' = (Ends \ EndsOf({m})) \cup EndsOf(S)
  BY <1>11, <1>12, <1>14, <1>15
<1>19. QED BY <1>1, <1>10, <1>16, <1>17, <1>18 DEF M, N, S

----------------------------------------------------------------------------
(* The inductive invariant: the tokens are exact, every message is one the *)
(* handlers expect, and the books balance.                                 *)

Workable(r) == Regular(r) /\ r.step \notin Skipped

\* Only regular tasks reach a worker, only tasks out of attempts are published as
\* failed, and a job left alone has no other events.
Proper(ts, m) ==
  /\ m.queue \in Worked \cup {"progress:Running"} => Workable(ts[m.task])
  /\ m.queue = "x-failed" => Kind[ts[m.task].step] # "fanout" /\ ~CanRetry(ts[m.task])
  /\ m.queue = "x-jobs" => m.state \in {"Pending", "Completed", "Failed", "Cancelled"}

AllProper ==
  /\ \A m \in BagToSet(msgs) : Proper(tasks, m)
  /\ \A t \in BagToSet(running) : Workable(tasks[t])

Ordered == Exactly /\ AllProper /\ Balanced(Books)

\* The books once m is handled with effect e.
After(m, e, f) ==
  Book(e.jobs, e.tasks,
       (Pend \ PendOf({m})) \cup PendOf(e.sent), (Act \ ActOf({m})) \cup ActOf(e.sent), f,
       (Begins \ BeginsOf({m})) \cup BeginsOf(e.sent),
       (Ends \ EndsOf({m})) \cup EndsOf(e.sent))

\* A row that keeps what no handler changes is expected where it was.
LEMMA ProperLater ==
  ASSUME NEW ts, NEW ts2, NEW m, Proper(ts, m),
         m.queue # "x-jobs" => SameTask(ts2[m.task], ts[m.task])
  PROVE  Proper(ts2, m)
BY DEF Proper, Worked, Workable, Regular, CanRetry, SameTask

\* A delivery that leaves balanced books preserves the invariant.
LEMMA Settled ==
  ASSUME Rows, Ordered, NEW m \in BagToSet(msgs), NEW e, Handle(m, e), Fresh(m, e.sent),
         \A x \in e.sent : Proper(e.tasks, x),
         \A t \in 1 .. Len(tasks) : SameTask(e.tasks[t], tasks[t]),
         Balanced(After(m, e, finished'))
  PROVE  Ordered' /\ Books' = After(m, e, finished')
<1>1. /\ Exactly'
      /\ Pend' = (Pend \ PendOf({m})) \cup PendOf(e.sent)
      /\ Act' = (Act \ ActOf({m})) \cup ActOf(e.sent)
      /\ Begins' = (Begins \ BeginsOf({m})) \cup BeginsOf(e.sent)
      /\ Ends' = (Ends \ EndsOf({m})) \cup EndsOf(e.sent)
      /\ BagToSet(msgs') \subseteq BagToSet(msgs) \cup e.sent
      /\ running' = running
  BY Handled DEF Ordered
<1>2. jobs' = e.jobs /\ tasks' = e.tasks BY DEF Handle
<1>3. Books' = After(m, e, finished') BY <1>1, <1>2 DEF Books, After
<1>4. Balanced(Books)' BY <1>3
<1>5. AllProper'
  <2>1. ASSUME NEW x \in BagToSet(msgs) PROVE Proper(e.tasks, x)
    <3>1. Proper(tasks, x) BY DEF Ordered, AllProper
    <3>2. x.queue # "x-jobs" => x.task \in 1 .. Len(tasks) BY MessageRow
    <3>3. QED BY <3>1, <3>2, ProperLater
  <2>2. ASSUME NEW t \in BagToSet(running) PROVE Workable(e.tasks[t])
    <3>1. Workable(tasks[t]) /\ t \in 1 .. Len(tasks) BY DEF Ordered, AllProper, Rows
    <3>2. QED BY <3>1 DEF Workable, Regular, SameTask
  <2>3. QED BY <1>1, <1>2, <2>1, <2>2 DEF AllProper
<1>6. QED BY <1>1, <1>3, <1>4, <1>5 DEF Ordered

----------------------------------------------------------------------------
(* What the handlers' operators leave alone.                               *)

LEMMA WithStateKeeps ==
  ASSUME NEW ts \in Seq(Task), NEW T, NEW st
  PROVE  \A u \in 1 .. Len(ts) :
           /\ SameTask(WithState(ts, T, st)[u], ts[u])
           /\ WithState(ts, T, st)[u].completions = ts[u].completions
           /\ WithState(ts, T, st)[u].subjob = ts[u].subjob
<1>1. DOMAIN ts = 1 .. Len(ts) /\ \A u \in 1 .. Len(ts) : ts[u] \in Task
  BY LenProperties, ElementOfSeq
<1>2. QED BY <1>1 DEF WithState, Task, SameTask

LEMMA JobStateKeeps ==
  ASSUME NEW js \in Seq(Job), NEW j \in 1 .. Len(js), NEW st \in JobState
  PROVE  /\ Len([js EXCEPT ![j].state = st]) = Len(js)
         /\ \A k \in 1 .. Len(js) :
              /\ SameJob([js EXCEPT ![j].state = st][k], js[k])
              /\ [js EXCEPT ![j].state = st][k].position = js[k].position
              /\ [js EXCEPT ![j].state = st][k].state = IF k = j THEN st ELSE js[k].state
<1> DEFINE r   == [js[j] EXCEPT !.state = st]
           js2 == [js EXCEPT ![j] = r]
<1>1. js[j] \in Job BY ElementOfSeq
<1>2. /\ r \in Job /\ SameJob(r, js[j]) /\ r.position = js[j].position /\ r.state = st
  BY <1>1 DEF Job, SameJob
<1>3. /\ Len(js2) = Len(js) /\ js2[j] = r
      /\ \A k \in 1 .. Len(js) : k # j => js2[k] = js[k]
  <2> HIDE DEF r
  <2>1. QED BY <1>2, UpdateIsSeq
<1>4. [js EXCEPT ![j].state = st] = js2 OBVIOUS
<1> HIDE DEF r, js2
<1>5. QED BY <1>2, <1>3, <1>4 DEF SameJob

\* What one message says.
LEMMA SaysTask ==
  ASSUME NEW q \in TaskQueue, NEW t, NEW m, m = TaskMsg(q, t)
  PROVE  m.queue = q /\ m.task = t /\ ~JobToken(m)
BY DEF TaskMsg, TaskQueue, JobToken, JobEvent

LEMMA SaysJob ==
  ASSUME NEW js, NEW j, NEW st, NEW m, m = JobMsg(js, j, st)
  PROVE  m.queue = "x-jobs" /\ m.job = j /\ m.state = st /\ ~TaskToken(m)
BY DEF JobMsg, TaskToken, Acting, Worked

LEMMA NoClashOne == \A m : NoClash({m})
BY DEF NoClash

\* Rows that change their states only.
LEMMA Restated ==
  ASSUME NEW b, Sound(b.jobs, b.tasks), NEW c, Sound(c.jobs, b.tasks),
         Len(c.jobs) = Len(b.jobs),
         \A j \in JobIds(b) :
           SameJob(c.jobs[j], b.jobs[j]) /\ c.jobs[j].position = b.jobs[j].position,
         NEW T, NEW st \in TaskState, c.tasks = WithState(b.tasks, T, st)
  PROVE  Alike(b, c) /\ \A t \in Ids(b) : c.tasks[t].completions = b.tasks[t].completions
<1>1. Sound(c.jobs, c.tasks) /\ Len(c.tasks) = Len(b.tasks) BY WithStateSound
<1>2. b.tasks \in Seq(Task) BY SoundTypes
<1>3. \A t \in Ids(b) : /\ SameTask(c.tasks[t], b.tasks[t])
                        /\ c.tasks[t].completions = b.tasks[t].completions
                        /\ c.tasks[t].subjob = b.tasks[t].subjob
  BY <1>2, WithStateKeeps DEF Ids
<1>4. QED BY <1>1, <1>3 DEF Alike

\* A delivery that is dropped.
LEMMA Dropped ==
  ASSUME NEW b, Balanced(b), NEW c, Alike(b, c),
         \A t \in Ids(b) : c.tasks[t].completions = b.tasks[t].completions,
         c.fin = b.fin, c.pend \subseteq b.pend, c.act \subseteq b.act,
         c.begins \subseteq b.begins, c.ends \subseteq b.ends,
         \A j \in JobIds(b) :
           b.jobs[j].state = "Completed" <=> c.jobs[j].state = "Completed"
  PROVE  Balanced(c) /\ Passed(b, c)
<1>1. HeldOnce(b) /\ Line(b) BY DEF Balanced
<1>2. /\ c.act \subseteq Ids(b) /\ c.act \cap c.pend = {} /\ c.act \cap b.fin = {}
      /\ c.ends \subseteq JobIds(b)
  BY <1>1 DEF HeldOnce, Line
<1>3. \A j \in JobIds(b) : j \in c.ends => c.jobs[j].state # "Completed"
  BY <1>1 DEF Line, LineOf
<1>4. Passed(b, c) BY <1>2, <1>3 DEF Passed
<1>5. QED BY <1>4, Pass

----------------------------------------------------------------------------
(* handle_pending_task, as an entry in the books.                          *)

\* The books once the pending delivery of t is handled with effect e.
Onward(b, t, e) ==
  Book(e.jobs, e.tasks, (b.pend \ {t}) \cup PendOf(e.sent), b.act \cup ActOf(e.sent), b.fin,
       b.begins \cup BeginsOf(e.sent), b.ends \cup EndsOf(e.sent))

\* What is sent on: tokens for t and for new tasks, the start of a new job, and
\* nothing the handlers do not expect.
SentOn(b, t, e) ==
  /\ \A u \in Ids(b) : SameTask(e.tasks[u], b.tasks[u])
  /\ \A x \in e.sent :
       /\ Proper(e.tasks, x)
       /\ TaskToken(x) => x.task = t \/ x.task \notin Ids(b)
       /\ JobEvent(x, "Pending") => x.job \notin JobIds(b)
       /\ ~JobEvent(x, "Completed")
  /\ NoClash(e.sent)

\* skip_task and the scheduling of a regular task.
LEMMA MovedOn ==
  ASSUME NEW b, Balanced(b), NEW t \in b.pend, NEW st \in TaskState,
         NEW q \in {"x-completed", "worker"}, NEW e,
         e = Effect(b.jobs, WithState(b.tasks, {t}, st), {TaskMsg(q, t)}),
         q = "worker" => Workable(b.tasks[t]),
         q = "x-completed" => b.tasks[t].step \in Skipped
  PROVE  /\ Balanced(Onward(b, t, e)) /\ SentOn(b, t, e)
         /\ Onto(b, Onward(b, t, e))
<1> DEFINE c == Onward(b, t, e)
           m == TaskMsg(q, t)
<1>1. /\ Sound(b.jobs, b.tasks) /\ HeldOnce(b) /\ Line(b) BY DEF Balanced
<1>2. t \in Ids(b) BY <1>1 DEF HeldOnce
<1>3. q \in TaskQueue /\ q \in Acting /\ q # "x-pending" BY DEF TaskQueue, Acting, Worked
<1>4. /\ m.queue = q /\ m.task = t /\ ~JobToken(m) /\ NoClash({m})
      /\ PendOf({m}) = {} /\ ActOf({m}) = {t} /\ BeginsOf({m}) = {} /\ EndsOf({m}) = {}
  <2>1. m.queue = q /\ m.task = t /\ ~JobToken(m) BY <1>3, SaysTask
  <2> HIDE DEF m
  <2>2. PendOf({m}) = {} /\ ActOf({m}) = {t} BY <1>3, <2>1, SaysOne
  <2>3. BeginsOf({m}) = {} /\ EndsOf({m}) = {} BY <2>1, SaysOne DEF JobToken
  <2>4. QED BY <2>1, <2>2, <2>3, NoClashOne
<1> HIDE DEF m
<1>5. e.jobs = b.jobs /\ e.tasks = WithState(b.tasks, {t}, st) /\ e.sent = {m}
  BY DEF Effect, m
<1>6. /\ c.jobs = b.jobs /\ c.tasks = WithState(b.tasks, {t}, st) /\ c.fin = b.fin
      /\ c.pend = b.pend \ {t} /\ c.act = b.act \cup {t}
      /\ c.begins = b.begins /\ c.ends = b.ends
  BY <1>4, <1>5 DEF Onward, Book
<1> HIDE DEF c
<1>7. /\ Alike(b, c)
      /\ \A u \in Ids(b) : c.tasks[u].completions = b.tasks[u].completions
  <2>1. /\ Sound(c.jobs, b.tasks) /\ Len(c.jobs) = Len(b.jobs)
        /\ \A j \in JobIds(b) :
             SameJob(c.jobs[j], b.jobs[j]) /\ c.jobs[j].position = b.jobs[j].position
    BY <1>1, <1>6 DEF SameJob
  <2>2. PICK T : T = {t} OBVIOUS
  <2>3. c.tasks = WithState(b.tasks, T, st) BY <1>6, <2>2
  <2>4. Sound(b.jobs, b.tasks) BY <1>1
  <2>5. QED BY <2>1, <2>3, <2>4, Restated
<1>8. /\ c.act \subseteq Ids(b) /\ c.act \cap c.pend = {} /\ c.act \cap b.fin = {}
  BY <1>1, <1>2, <1>6 DEF HeldOnce
<1>9. ~FanOut(b.tasks[t]) /\ ~Nested(b.tasks[t])
  BY DEF Workable, Regular, FanOut, Nested
<1>10. Passed(b, c)
  <2>1. \A u \in c.act \ b.act : u = t BY <1>6
  <2>2. c.ends \subseteq JobIds(b) BY <1>1, <1>6 DEF Line
  <2>3. \A j \in JobIds(b) : j \in c.ends => c.jobs[j].state # "Completed"
    BY <1>1, <1>6 DEF Line, LineOf
  <2>4. QED BY <1>6, <1>7, <1>8, <1>9, <2>1, <2>2, <2>3 DEF Passed
<1>11. Balanced(c) BY <1>10, Pass
<1>12. \A u \in Ids(b) : SameTask(e.tasks[u], b.tasks[u]) BY <1>5, <1>6, <1>7 DEF Alike
<1>13. Proper(e.tasks, m)
  <2>1. q = "worker" => Workable(e.tasks[t])
    BY <1>2, <1>12 DEF Workable, Regular, SameTask
  <2>2. QED BY <1>3, <1>4, <2>1 DEF Proper, Worked
<1>14. SentOn(b, t, e)
  BY <1>4, <1>5, <1>12, <1>13 DEF SentOn, JobToken
<1>15. QED BY <1>10, <1>11, <1>14 DEF c, Onto

\* schedule_parallel_task and schedule_each_task, row by row: n rows are created.
FanRows(js, ts, t, n, e) ==
  /\ e.jobs = js /\ Len(e.tasks) = Len(ts) + n
  /\ \A u \in 1 .. Len(ts) :
       /\ SameTask(e.tasks[u], ts[u]) /\ e.tasks[u].subjob = ts[u].subjob
       /\ e.tasks[u].completions = ts[u].completions
  /\ \A u \in Len(ts) + 1 .. Len(ts) + n :
       /\ e.tasks[u].job = ts[t].job /\ e.tasks[u].parent = t
       /\ e.tasks[u].step = Children[ts[t].step][u - Len(ts)]
       /\ e.tasks[u].attempts = 0 /\ e.tasks[u].completions = 0
       /\ e.tasks[u].subjob = 0
  /\ \A u \in Len(ts) + 1 .. Len(ts) + n : TaskMsg("x-pending", u) \in e.sent
  /\ \A x \in e.sent : \E u \in Len(ts) + 1 .. Len(ts) + n : x = TaskMsg("x-pending", u)

LEMMA FanOutRows ==
  ASSUME NEW js, NEW ts, Sound(js, ts), NEW t \in 1 .. Len(ts)
  PROVE  FanRows(js, ts, t, Len(Children[ts[t].step]), ScheduleFanOut(js, ts, t))
<1> DEFINE s    == ts[t].step
           n    == Len(Children[s])
           run  == WithState(ts, {t}, "Running")
           kids == [i \in 1 .. n |-> NewTask(ts[t].job, Children[s][i], t, 0, TRUE)]
           e    == ScheduleFanOut(js, ts, t)
<1>1. ts \in Seq(Task) /\ Len(ts) \in Nat /\ ts[t] \in Task BY SoundTypes
<1>2. s \in Step /\ ts[t].job \in Nat BY <1>1 DEF Task
<1>3. n \in Nat /\ \A i \in 1 .. n : Children[s][i] \in Step
  BY <1>2, ChildrenOf, ElementOfSeq
<1>22. t \in Nat BY <1>1
<1>4. run \in Seq(Task) /\ Len(run) = Len(ts) BY WithStateSound DEF TaskState, Sound
<1>5. \A u \in 1 .. Len(ts) :
        /\ SameTask(run[u], ts[u]) /\ run[u].subjob = ts[u].subjob
        /\ run[u].completions = ts[u].completions
  BY <1>1, WithStateKeeps
<1>6. /\ e.jobs = js /\ e.tasks = run \o kids
      /\ e.sent = {TaskMsg("x-pending", Len(ts) + i) : i \in 1 .. n}
  BY DEF ScheduleFanOut, Effect
<1>7. \A i \in 1 .. n : kids[i] \in Task
  <2> HIDE DEF n, s
  <2>1. QED BY <1>2, <1>3, <1>22 DEF NewTask, Task, TaskState
<1>8. kids \in [1 .. n -> Task] BY <1>7
<1>9. \A i \in 1 .. n : /\ kids[i].job = ts[t].job /\ kids[i].parent = t
                        /\ kids[i].step = Children[s][i] /\ kids[i].subjob = 0
                        /\ kids[i].attempts = 0 /\ kids[i].completions = 0
  BY DEF NewTask
<1> HIDE DEF kids, run, n, e
<1>10. kids \in Seq(Task) /\ Len(kids) = n BY <1>3, <1>8, FunctionIsSeq
<1>11. /\ Len(run \o kids) = Len(ts) + n
       /\ \A u \in 1 .. Len(ts) + n : (run \o kids)[u] =
            IF u <= Len(ts) THEN run[u] ELSE kids[u - Len(ts)]
  <2>1. /\ Len(run \o kids) = Len(run) + Len(kids)
        /\ \A u \in 1 .. Len(run) + Len(kids) : (run \o kids)[u] =
             IF u <= Len(run) THEN run[u] ELSE kids[u - Len(run)]
    BY <1>4, <1>10, ConcatProperties
  <2>2. QED BY <1>4, <1>10, <2>1
<1>12. \A u \in 1 .. Len(ts) : e.tasks[u] = run[u] BY <1>1, <1>3, <1>6, <1>11
<1>13. ASSUME NEW u \in Len(ts) + 1 .. Len(ts) + n
       PROVE  e.tasks[u] = kids[u - Len(ts)] /\ u - Len(ts) \in 1 .. n
  BY <1>1, <1>3, <1>6, <1>11
<1>14. \A u \in Len(ts) + 1 .. Len(ts) + n :
         /\ e.tasks[u].job = ts[t].job /\ e.tasks[u].parent = t
         /\ e.tasks[u].step = Children[s][u - Len(ts)]
         /\ e.tasks[u].attempts = 0 /\ e.tasks[u].completions = 0
         /\ e.tasks[u].subjob = 0
  BY <1>9, <1>13
<1>15. Len(e.tasks) = Len(ts) + n BY <1>6, <1>11
<1>16. \A u \in 1 .. Len(ts) :
         /\ SameTask(e.tasks[u], ts[u]) /\ e.tasks[u].subjob = ts[u].subjob
         /\ e.tasks[u].completions = ts[u].completions
  BY <1>5, <1>12
<1>17. ASSUME NEW u \in Len(ts) + 1 .. Len(ts) + n
       PROVE  TaskMsg("x-pending", u) \in e.sent
  <2>1. u - Len(ts) \in 1 .. n /\ Len(ts) + (u - Len(ts)) = u BY <1>1, <1>3
  <2>2. QED BY <1>6, <2>1
<1>19. \A x \in e.sent : \E u \in Len(ts) + 1 .. Len(ts) + n : x = TaskMsg("x-pending", u)
  <2>1. ASSUME NEW i \in 1 .. n PROVE Len(ts) + i \in Len(ts) + 1 .. Len(ts) + n
    BY <1>1, <1>3
  <2>2. QED BY <1>6, <2>1
<1>20. FanRows(js, ts, t, n, e)
  BY <1>6, <1>14, <1>15, <1>16, <1>17, <1>19 DEF FanRows
<1>21. QED BY <1>20 DEF e, n

LEMMA FannedOn ==
  ASSUME NEW b, Balanced(b), NEW t \in b.pend, FanOut(b.tasks[t]), NEW e,
         e = ScheduleFanOut(b.jobs, b.tasks, t), Sound(e.jobs, e.tasks)
  PROVE  /\ Balanced(Onward(b, t, e)) /\ SentOn(b, t, e)
         /\ Onto(b, Onward(b, t, e))
<1> DEFINE c == Onward(b, t, e)
           n == Len(Children[b.tasks[t].step])
<1>1. Sound(b.jobs, b.tasks) /\ t \in Ids(b) BY DEF Balanced, HeldOnce
<1>2. Len(b.tasks) \in Nat /\ n \in Nat
  <2>1. Len(b.tasks) \in Nat /\ b.tasks[t] \in Task BY <1>1, BookRows
  <2>2. b.tasks[t].step \in Step BY <2>1 DEF Task
  <2>3. QED BY <2>1, <2>2, ChildrenOf
<1>20. FanRows(b.jobs, b.tasks, t, n, e) BY <1>1, FanOutRows DEF Ids
<1>21. Len(c.tasks) = Len(b.tasks) + Len(Children[b.tasks[t].step])
  BY <1>20 DEF Onward, Book, FanRows
<1> HIDE DEF n
<1>3. /\ e.jobs = b.jobs /\ Len(e.tasks) = Len(b.tasks) + n
      /\ \A u \in 1 .. Len(b.tasks) :
           /\ SameTask(e.tasks[u], b.tasks[u]) /\ e.tasks[u].subjob = b.tasks[u].subjob
           /\ e.tasks[u].completions = b.tasks[u].completions
      /\ \A u \in Len(b.tasks) + 1 .. Len(b.tasks) + n :
           /\ e.tasks[u].job = b.tasks[t].job /\ e.tasks[u].parent = t
           /\ e.tasks[u].step = Children[b.tasks[t].step][u - Len(b.tasks)]
           /\ e.tasks[u].attempts = 0 /\ e.tasks[u].completions = 0
           /\ e.tasks[u].subjob = 0
  BY <1>20 DEF FanRows
<1>4. ASSUME NEW x \in e.sent
      PROVE  /\ x.queue = "x-pending"
             /\ x.task \in Len(b.tasks) + 1 .. Len(b.tasks) + n
             /\ x = TaskMsg("x-pending", x.task)
  <2>1. PICK u \in Len(b.tasks) + 1 .. Len(b.tasks) + n : x = TaskMsg("x-pending", u)
    BY <1>20 DEF FanRows
  <2>2. x.queue = "x-pending" /\ x.task = u BY <2>1 DEF TaskMsg
  <2>3. QED BY <2>1, <2>2
<1>5. ASSUME NEW u \in Len(b.tasks) + 1 .. Len(b.tasks) + n
      PROVE  \E x \in e.sent : x.queue = "x-pending" /\ x.task = u
  <2>1. TaskMsg("x-pending", u) \in e.sent BY <1>20 DEF FanRows
  <2>2. QED BY <2>1 DEF TaskMsg
<1>6. PendOf(e.sent) = Len(b.tasks) + 1 .. Len(b.tasks) + n
  <2>1. \A u \in PendOf(e.sent) : \E x \in e.sent : x.task = u BY DEF PendOf, Tasks
  <2>2. \A u \in Len(b.tasks) + 1 .. Len(b.tasks) + n : u \in PendOf(e.sent)
    BY <1>5 DEF PendOf, Tasks
  <2>3. PICK K : K = Len(b.tasks) + 1 .. Len(b.tasks) + n OBVIOUS
  <2>4. \A u \in PendOf(e.sent) : u \in K BY <1>4, <2>1, <2>3
  <2>5. \A u \in K : u \in PendOf(e.sent) BY <2>2, <2>3
  <2>6. PendOf(e.sent) = K BY <2>4, <2>5
  <2>7. QED BY <2>3, <2>6
<1>7. ActOf(e.sent) = {} /\ BeginsOf(e.sent) = {} /\ EndsOf(e.sent) = {}
  BY <1>4, Kinds DEF ActOf, BeginsOf, EndsOf, Tasks, Events, JobToken
<1>8. /\ c.jobs = e.jobs /\ c.tasks = e.tasks /\ c.fin = b.fin
      /\ c.pend = (b.pend \ {t}) \cup (Len(b.tasks) + 1 .. Len(b.tasks) + n)
      /\ c.act = b.act /\ c.begins = b.begins /\ c.ends = b.ends
  BY <1>6, <1>7 DEF Onward, Book
<1> HIDE DEF c
<1>9. New(b, c) = Len(b.tasks) + 1 .. Len(b.tasks) + n
  BY <1>2, <1>3, <1>8 DEF New, Ids
<1>10. Grown(b, c)
  BY <1>2, <1>3, <1>8 DEF Grown, Ids, SameJob
<1>11. FannedOut(b, c, t)
  <2>2. \A u \in Ids(b) : c.tasks[u].subjob = b.tasks[u].subjob BY <1>3, <1>8 DEF Ids
  <2>3. \A u \in New(b, c) :
          /\ c.tasks[u].job = b.tasks[t].job /\ c.tasks[u].parent = t
          /\ c.tasks[u].step = Children[b.tasks[t].step][u - Len(b.tasks)]
          /\ c.tasks[u].attempts = 0 /\ c.tasks[u].completions = 0 /\ c.tasks[u].subjob = 0
    BY <1>3, <1>8, <1>9
  <2>4. c.pend = (b.pend \ {t}) \cup New(b, c) BY <1>8, <1>9
  <2>5. QED BY <1>3, <1>8, <1>10, <1>21, <2>2, <2>3, <2>4 DEF FannedOut
<1>12. Balanced(c) BY <1>11, FanTasksOut
<1>13. NoClash(e.sent)
  <2>1. \A x \in e.sent : ~JobToken(x) BY <1>4, Kinds
  <2>2. \A x, y \in e.sent : x.task = y.task => x = y BY <1>4
  <2>3. QED BY <2>1, <2>2 DEF NoClash, Clash
<1>14. \A x \in e.sent : /\ Proper(e.tasks, x) /\ x.task \notin Ids(b) /\ ~JobToken(x)
  BY <1>2, <1>4 DEF Proper, Worked, Ids, JobToken, JobEvent
<1>15. SentOn(b, t, e)
  BY <1>3, <1>13, <1>14 DEF SentOn, Ids, JobToken
<1>16. QED BY <1>11, <1>12, <1>15 DEF c, Onto

\* schedule_subjob_task.
LEMMA SubjobOn ==
  ASSUME NEW b, Balanced(b), NEW t \in b.pend, Nested(b.tasks[t]), NEW e,
         e = ScheduleSubjob(b.jobs, b.tasks, t), Sound(e.jobs, e.tasks)
  PROVE  /\ Balanced(Onward(b, t, e)) /\ SentOn(b, t, e)
         /\ Onto(b, Onward(b, t, e))
<1> DEFINE js  == b.jobs
           ts  == b.tasks
           kid == Len(js) + 1
           new == NewJob(Children[ts[t].step], t)
           js2 == Append(js, new)
           r   == [ts[t] EXCEPT !.state = "Running", !.subjob = kid]
           ts2 == WithTask(ts, t, r)
           x   == JobMsg(js2, kid, "Pending")
           c   == Onward(b, t, e)
<1>1. Sound(js, ts) /\ t \in Ids(b) /\ Line(b) BY DEF Balanced, HeldOnce
<1>2. /\ js \in Seq(Job) /\ ts \in Seq(Task) /\ Len(js) \in Nat /\ Len(ts) \in Nat
      /\ ts[t] \in Task /\ DOMAIN ts = 1 .. Len(ts)
  BY <1>1, SoundTypes DEF Ids
<1>3. Children[ts[t].step] \in Seq(Step) BY <1>2, WorkflowAssumption DEF Task
<1>4. new \in Job /\ new.parent = t /\ new.position = 0 /\ new.state = "Pending"
  BY <1>1, <1>3 DEF NewJob, Job, JobState, Ids
<1>5. r \in Task /\ SameTask(r, ts[t]) /\ r.subjob = kid /\ r.completions = ts[t].completions
  <2>1. kid \in Nat BY <1>2
  <2> HIDE DEF kid
  <2>2. r.subjob = kid /\ SameTask(r, ts[t]) /\ r.completions = ts[t].completions
    BY <1>2 DEF Task, SameTask
  <2>3. r \in Task BY <1>2, <2>1 DEF Task, TaskState
  <2>4. QED BY <2>2, <2>3
<1>6. e.jobs = js2 /\ e.tasks = ts2 /\ e.sent = {x} BY DEF ScheduleSubjob, Effect
<1>7. /\ x.queue = "x-jobs" /\ x.job = kid /\ x.state = "Pending" /\ ~TaskToken(x)
      /\ PendOf({x}) = {} /\ ActOf({x}) = {} /\ BeginsOf({x}) = {kid} /\ EndsOf({x}) = {}
      /\ NoClash({x})
  <2> HIDE DEF kid, js2
  <2>1. x.queue = "x-jobs" /\ x.job = kid /\ x.state = "Pending" /\ ~TaskToken(x)
    BY SaysJob
  <2> HIDE DEF x
  <2>2. PendOf({x}) = {} /\ ActOf({x}) = {} BY <2>1, SaysOne DEF TaskToken
  <2>3. BeginsOf({x}) = {kid} /\ EndsOf({x}) = {} BY <2>1, SaysOne DEF JobEvent
  <2>4. QED BY <2>1, <2>2, <2>3, NoClashOne
<1> HIDE DEF new, r, x
<1>8. /\ Len(js2) = kid /\ js2[kid] = new /\ \A k \in 1 .. Len(js) : js2[k] = js[k]
  BY <1>2, <1>4, AppendProperties
<1>9. /\ Len(ts2) = Len(ts) /\ ts2[t] = r /\ \A u \in 1 .. Len(ts) : u # t => ts2[u] = ts[u]
  <2>1. t \in 1 .. Len(ts) BY <1>1 DEF Ids
  <2>2. ts2 = [ts EXCEPT ![t] = r] BY <1>2, WithTaskUpdates
  <2> HIDE DEF ts2, ts
  <2>3. QED BY <1>2, <1>5, <2>1, <2>2, UpdateIsSeq
<1> HIDE DEF js2, ts2
<1>10. /\ c.jobs = js2 /\ c.tasks = ts2 /\ c.fin = b.fin
       /\ c.pend = b.pend \ {t} /\ c.act = b.act
       /\ c.begins = b.begins \cup {kid} /\ c.ends = b.ends
  BY <1>6, <1>7 DEF Onward, Book
<1> HIDE DEF c
<1>11. \A u \in Ids(b) : /\ SameTask(ts2[u], ts[u]) /\ ts2[u].completions = ts[u].completions
                         /\ ts2[u].subjob = IF u = t THEN kid ELSE ts[u].subjob
  BY <1>5, <1>9 DEF Ids, SameTask
<1>12. Grown(b, c)
  BY <1>2, <1>6, <1>8, <1>9, <1>10, <1>11 DEF Grown, Ids, JobIds, SameJob
<1>13. Descended(b, c, t)
  BY <1>4, <1>8, <1>9, <1>10, <1>11, <1>12 DEF Descended, Ids, JobIds
<1>14. Balanced(c) BY <1>13, Descend
<1>15. SentOn(b, t, e)
  <2>1. Proper(e.tasks, x) BY <1>7 DEF Proper, Worked
  <2>2. kid \notin JobIds(b) BY <1>2 DEF JobIds
  <2>3. ~JobEvent(x, "Completed") BY <1>7 DEF JobEvent
  <2>4. QED BY <1>6, <1>7, <1>11, <2>1, <2>2, <2>3 DEF SentOn
<1>16. QED BY <1>13, <1>14, <1>15 DEF c, Onto

LEMMA PendingEntry ==
  ASSUME NEW b, Balanced(b), NEW t \in b.pend, NEW e, e = HandlePending(b.jobs, b.tasks, t)
  PROVE  /\ Balanced(Onward(b, t, e)) /\ SentOn(b, t, e)
         /\ Onto(b, Onward(b, t, e))
<1>1. Sound(b.jobs, b.tasks) /\ t \in 1 .. Len(b.tasks) BY DEF Balanced, HeldOnce, Ids
<1>2. Sound(e.jobs, e.tasks) BY <1>1, PendingAllowed DEF Allowed
<1>3. Kind[b.tasks[t].step] \in StepKind
  <2>1. b.tasks[t].step \in Step BY <1>1, SoundTypes DEF Task
  <2>2. QED BY <2>1, WorkflowAssumption
<1>4. CASE b.tasks[t].step \in Skipped
  <2>1. e = Effect(b.jobs, WithState(b.tasks, {t}, "Skipped"), {TaskMsg("x-completed", t)})
    BY <1>4 DEF HandlePending, SkipTask
  <2>2. QED BY <1>4, <2>1, MovedOn DEF TaskState
<1>5. CASE b.tasks[t].step \notin Skipped /\ Kind[b.tasks[t].step] = "regular"
  <2>1. e = Effect(b.jobs, WithState(b.tasks, {t}, "Scheduled"), {TaskMsg("worker", t)})
    BY <1>5 DEF HandlePending, ScheduleRegular
  <2>2. Workable(b.tasks[t]) BY <1>5 DEF Workable, Regular
  <2>3. QED BY <2>1, <2>2, MovedOn DEF TaskState
<1>6. CASE b.tasks[t].step \notin Skipped /\ Kind[b.tasks[t].step] = "fanout"
  <2>1. e = ScheduleFanOut(b.jobs, b.tasks, t) BY <1>6 DEF HandlePending
  <2>2. FanOut(b.tasks[t]) BY <1>6 DEF FanOut
  <2>3. QED BY <1>2, <2>1, <2>2, FannedOn
<1>7. CASE b.tasks[t].step \notin Skipped /\ Kind[b.tasks[t].step] = "subjob"
  <2>1. e = ScheduleSubjob(b.jobs, b.tasks, t) BY <1>7 DEF HandlePending
  <2>2. Nested(b.tasks[t]) BY <1>7 DEF Nested
  <2>3. QED BY <1>2, <2>1, <2>2, SubjobOn
<1>8. QED BY <1>3, <1>4, <1>5, <1>6, <1>7 DEF StepKind

----------------------------------------------------------------------------
(* The handlers.  A job left alone: no user call is made, and no subjob    *)
(* task is retried (the retry would keep the subjob of the first attempt). *)

LeftAlone == MaxCalls = 0 /\ \A s \in Step : Kind[s] = "subjob" => RetryLimit[s] = 0

LEMMA BooksAre ==
  /\ Books.jobs = jobs /\ Books.tasks = tasks /\ Books.pend = Pend /\ Books.act = Act
  /\ Books.fin = finished /\ Books.begins = Begins /\ Books.ends = Ends
  /\ Ids(Books) = 1 .. Len(tasks) /\ JobIds(Books) = 1 .. Len(jobs)
BY DEF Books, Book, Ids, JobIds

\* What the messages say is true of the rows.
LEMMA Holders ==
  ASSUME Ordered
  PROVE  /\ Sound(jobs, tasks)
         /\ Pend \subseteq 1 .. Len(tasks) /\ Act \subseteq 1 .. Len(tasks)
         /\ finished \subseteq 1 .. Len(tasks)
         /\ Pend \cap Act = {} /\ Pend \cap finished = {} /\ Act \cap finished = {}
         /\ Begins \subseteq 1 .. Len(jobs) /\ Ends \subseteq 1 .. Len(jobs)
         /\ Balanced(Books)
         /\ \A j \in 1 .. Len(jobs) : LineOf(Books, j)
BY BooksAre DEF Ordered, Balanced, HeldOnce, Line

\* The token a message is.
LEMMA Told ==
  ASSUME NEW m \in BagToSet(msgs)
  PROVE  /\ m.queue = "x-pending" => m.task \in Pend
         /\ m.queue \in Acting => m.task \in Act
         /\ JobEvent(m, "Pending") => m.job \in Begins
         /\ JobEvent(m, "Completed") => m.job \in Ends
BY Says DEF Pend, Act, Begins, Ends

\* Messages that are no tokens say nothing.
LEMMA SilentAll ==
  ASSUME NEW S, \A x \in S : ~TaskToken(x) /\ ~JobToken(x)
  PROVE  PendOf(S) = {} /\ ActOf(S) = {} /\ BeginsOf(S) = {} /\ EndsOf(S) = {}
BY DEF PendOf, ActOf, BeginsOf, EndsOf, Tasks, Events, TaskToken, JobToken

\* The rows stay; states may change, but no job completes or is no longer complete.
Kept(js, ts) ==
  /\ Sound(js, ts) /\ Len(js) = Len(jobs) /\ Len(ts) = Len(tasks)
  /\ \A j \in 1 .. Len(jobs) :
       /\ SameJob(js[j], jobs[j]) /\ js[j].position = jobs[j].position
       /\ jobs[j].state = "Completed" <=> js[j].state = "Completed"
  /\ \A t \in 1 .. Len(tasks) :
       /\ SameTask(ts[t], tasks[t]) /\ ts[t].completions = tasks[t].completions
       /\ ts[t].subjob = tasks[t].subjob

LEMMA KeptAll ==
  ASSUME Sound(jobs, tasks)
  PROVE  Kept(jobs, tasks)
BY DEF Kept, SameJob, SameTask

LEMMA KeptStates ==
  ASSUME NEW js, NEW ts, Kept(js, ts), NEW T, NEW st \in TaskState
  PROVE  Kept(js, WithState(ts, T, st))
<1> DEFINE ts2 == WithState(ts, T, st)
<1>1. Sound(js, ts2) /\ Len(ts2) = Len(ts) BY WithStateSound DEF Kept
<1>2. ts \in Seq(Task) BY SoundTypes DEF Kept
<1>3. \A u \in 1 .. Len(ts) :
        /\ SameTask(ts2[u], ts[u]) /\ ts2[u].completions = ts[u].completions
        /\ ts2[u].subjob = ts[u].subjob
  BY <1>2, WithStateKeeps
<1> HIDE DEF ts2
<1>4. \A u \in 1 .. Len(tasks) :
        /\ SameTask(ts2[u], tasks[u]) /\ ts2[u].completions = tasks[u].completions
        /\ ts2[u].subjob = tasks[u].subjob
  BY <1>3 DEF Kept, SameTask
<1>5. QED BY <1>1, <1>4 DEF Kept, ts2

LEMMA KeptJob ==
  ASSUME Sound(jobs, tasks), NEW j \in 1 .. Len(jobs), NEW st \in JobState,
         jobs[j].state # "Completed", st # "Completed"
  PROVE  Kept([jobs EXCEPT ![j].state = st], tasks)
<1> DEFINE js == [jobs EXCEPT ![j].state = st]
<1>1. Sound(js, tasks) /\ Len(js) = Len(jobs) BY JobStateSound
<1>2. jobs \in Seq(Job) BY SoundTypes
<1>3. \A k \in 1 .. Len(jobs) :
        /\ SameJob(js[k], jobs[k]) /\ js[k].position = jobs[k].position
        /\ js[k].state = IF k = j THEN st ELSE jobs[k].state
  BY <1>2, JobStateKeeps
<1> HIDE DEF js
<1>4. QED BY <1>1, <1>3 DEF Kept, SameTask, js

\* A delivery that neither moves a token on nor makes one.
LEMMA Ignored ==
  ASSUME Rows, Ordered, NEW m \in BagToSet(msgs), NEW e, Handle(m, e),
         finished' = finished, Kept(e.jobs, e.tasks),
         \A x \in e.sent : ~TaskToken(x) /\ ~JobToken(x) /\ Proper(e.tasks, x)
  PROVE  Ordered' /\ Passed(Books, Books')
<1> DEFINE c == After(m, e, finished)
           b == Books
<1>1. PendOf(e.sent) = {} /\ ActOf(e.sent) = {} /\ BeginsOf(e.sent) = {} /\ EndsOf(e.sent) = {}
  BY SilentAll
<1>2. /\ c.jobs = e.jobs /\ c.tasks = e.tasks /\ c.fin = finished
      /\ c.pend \subseteq Pend /\ c.act \subseteq Act
      /\ c.begins \subseteq Begins /\ c.ends \subseteq Ends
  <2>1. /\ c.jobs = e.jobs /\ c.tasks = e.tasks /\ c.fin = finished
        /\ c.pend = (Pend \ PendOf({m})) \cup PendOf(e.sent)
        /\ c.act = (Act \ ActOf({m})) \cup ActOf(e.sent)
        /\ c.begins = (Begins \ BeginsOf({m})) \cup BeginsOf(e.sent)
        /\ c.ends = (Ends \ EndsOf({m})) \cup EndsOf(e.sent)
    BY DEF After, Book
  <2> HIDE DEF c
  <2>2. QED BY <1>1, <2>1
<1>3. /\ b.jobs = jobs /\ b.tasks = tasks /\ b.pend = Pend /\ b.act = Act
      /\ b.fin = finished /\ b.begins = Begins /\ b.ends = Ends
      /\ Ids(b) = 1 .. Len(tasks) /\ JobIds(b) = 1 .. Len(jobs) /\ Balanced(b)
  BY BooksAre, Holders
<1> HIDE DEF c, b
<1>4. Alike(b, c) BY <1>2, <1>3 DEF Alike, Kept
<1>5. Balanced(c) /\ Passed(b, c) BY <1>2, <1>3, <1>4, Dropped DEF Kept
<1>6. Fresh(m, e.sent)
  <2>1. NoClash(e.sent) BY DEF NoClash, Clash
  <2>2. QED BY <2>1 DEF Fresh, JobToken
<1>7. \A t \in 1 .. Len(tasks) : SameTask(e.tasks[t], tasks[t]) BY DEF Kept
<1>8. Balanced(After(m, e, finished')) BY <1>5 DEF c
<1>9. Ordered' /\ Books' = After(m, e, finished') BY <1>6, <1>7, <1>8, Settled
<1>10. QED BY <1>5, <1>9 DEF b, c

\* The jobs told are told that they failed or are cancelled.
LEMMA CancelsTold ==
  ASSUME NEW js, NEW ts, NEW ts2, NEW T, NEW x \in SubjobCancels(js, ts, T)
  PROVE  ~TaskToken(x) /\ ~JobToken(x) /\ Proper(ts2, x)
<1>1. PICK t \in T : x = JobMsg(js, ts[t].subjob, "Cancelled") BY DEF SubjobCancels
<1>2. x.queue = "x-jobs" /\ x.state = "Cancelled" BY <1>1 DEF JobMsg
<1>3. QED BY <1>2 DEF TaskToken, JobToken, JobEvent, Acting, Worked, Proper

\* A job's parent is a subjob task, which has no attempts left.
LEMMA ParentTold ==
  ASSUME LeftAlone, Ordered, NEW ts, Kept(jobs, ts), NEW j \in 1 .. Len(jobs),
         NEW x \in ToParent(j, "x-failed")
  PROVE  ~TaskToken(x) /\ ~JobToken(x) /\ Proper(ts, x)
<1> DEFINE p == jobs[j].parent
<1>1. p # 0 /\ x = TaskMsg("x-failed", p) BY DEF ToParent
<1>2. x.queue = "x-failed" /\ x.task = p BY <1>1 DEF TaskMsg
<1>3. p \in 1 .. Len(tasks) BY <1>1, Holders, SoundLinks
<1>4. Kind[tasks[p].step] = "subjob"
  BY <1>1, Holders, BooksAre DEF Balanced, Nesting, Nested
<1>5. tasks[p] \in Task BY <1>3, Holders, SoundTypes
<1>6. tasks[p].step \in Step /\ tasks[p].attempts \in Nat BY <1>5 DEF Task
<1>7. ts[p].step = tasks[p].step /\ ts[p].attempts = tasks[p].attempts
  BY <1>3 DEF Kept, SameTask
<1>8. Kind[ts[p].step] # "fanout" /\ ~CanRetry(ts[p])
  <2>1. RetryLimit[tasks[p].step] = 0 BY <1>4, <1>6 DEF LeftAlone
  <2>2. ~(tasks[p].attempts < 0) BY <1>6
  <2>3. QED BY <1>4, <1>7, <2>1, <2>2 DEF CanRetry
<1>9. Proper(ts, x) BY <1>2, <1>8 DEF Proper, Worked
<1>10. QED BY <1>2, <1>9 DEF TaskToken, JobToken, JobEvent, Acting, Worked

\* The tasks cancel_active_tasks cancels keep everything else.
LEMMA CancelKeeps ==
  ASSUME NEW js, Kept(js, tasks), NEW j
  PROVE  LET e == CancelActiveTasks(js, tasks, j)
         IN /\ Kept(e.jobs, e.tasks) /\ e.jobs = js
            /\ \A x \in e.sent : ~TaskToken(x) /\ ~JobToken(x) /\ Proper(e.tasks, x)
<1> DEFINE T   == Cancellable(tasks, j)
           ts2 == WithState(tasks, T, "Cancelled")
           S   == SubjobCancels(js, tasks, T)
<1>1. CancelActiveTasks(js, tasks, j) = Effect(js, ts2, S) BY DEF CancelActiveTasks
<1>2. Kept(js, ts2)
  <2> HIDE DEF T
  <2>1. QED BY KeptStates DEF TaskState
<1>3. \A x \in S : ~TaskToken(x) /\ ~JobToken(x) /\ Proper(ts2, x)
  <2> HIDE DEF T, ts2
  <2>1. QED BY CancelsTold
<1> HIDE DEF S, ts2
<1>4. QED BY <1>1, <1>2, <1>3 DEF Effect

\* fail_job.
LEMMA FailJobOrdered ==
  ASSUME LeftAlone, Rows, Ordered, NEW m \in BagToSet(msgs), FailJob(m)
  PROVE  Ordered' /\ Passed(Books, Books')
<1> DEFINE j  == m.job
           js == IF JobActive(jobs[j].state)
                   THEN [jobs EXCEPT ![j].state = "Failed"] ELSE jobs
           e0 == CancelActiveTasks(js, tasks, j)
           e  == Effect(e0.jobs, e0.tasks, e0.sent \cup ToParent(j, "x-failed"))
<1>1. j \in 1 .. Len(jobs) BY MessageRow DEF FailJob, JobEvent
<1>2. Handle(m, e) /\ finished' = finished BY DEF FailJob
<1>3. Sound(jobs, tasks) BY Holders
<1>4. Kept(js, tasks)
  <2>1. CASE JobActive(jobs[j].state)
    <3>1. jobs[j].state # "Completed" BY <2>1 DEF JobActive
    <3>2. "Failed" \in JobState /\ "Failed" # "Completed" BY DEF JobState
    <3> HIDE DEF j
    <3>3. QED BY <1>1, <1>3, <2>1, <3>1, <3>2, KeptJob
  <2>2. CASE ~JobActive(jobs[j].state) BY <1>3, <2>2, KeptAll
  <2>3. QED BY <2>1, <2>2
<1> HIDE DEF js
<1>5. /\ Kept(e0.jobs, e0.tasks)
      /\ \A x \in e0.sent : ~TaskToken(x) /\ ~JobToken(x) /\ Proper(e0.tasks, x)
  BY <1>4, CancelKeeps
<1>6. \A x \in ToParent(j, "x-failed") :
        ~TaskToken(x) /\ ~JobToken(x) /\ Proper(e0.tasks, x)
  <2>1. Kept(jobs, e0.tasks)
    <3>1. e0 = CancelActiveTasks(js, tasks, j) OBVIOUS
    <3>2. e0.tasks = WithState(tasks, Cancellable(tasks, j), "Cancelled")
      BY DEF CancelActiveTasks, Effect
    <3>3. Kept(jobs, tasks) BY <1>3, KeptAll
    <3> HIDE DEF e0
    <3>4. QED BY <3>2, <3>3, KeptStates DEF TaskState
  <2> HIDE DEF e0, j
  <2>2. QED BY <1>1, <2>1, ParentTold
<1> HIDE DEF e0
<1>7. e.jobs = e0.jobs /\ e.tasks = e0.tasks /\ e.sent = e0.sent \cup ToParent(j, "x-failed")
  BY DEF Effect
<1> HIDE DEF e
<1>8. QED BY <1>2, <1>5, <1>6, <1>7, Ignored

\* cancel_job, for a subjob whose parent was cancelled.
LEMMA HandleCancelOrdered ==
  ASSUME Rows, Ordered, NEW m \in BagToSet(msgs), HandleCancel(m)
  PROVE  Ordered' /\ Passed(Books, Books')
<1> DEFINE j  == m.job
           up == jobs[j].parent
           e0 == CancelActiveTasks(jobs, tasks, j)
           U  == IF up = 0 THEN {} ELSE {JobMsg(jobs, tasks[up].job, "Cancelled")}
           e  == Effect(e0.jobs, e0.tasks, e0.sent \cup U)
<1>1. Handle(m, e) /\ finished' = finished BY DEF HandleCancel, JobEvent, JobActive
<1>2. Kept(jobs, tasks) BY Holders, KeptAll
<1>3. /\ Kept(e0.jobs, e0.tasks)
      /\ \A x \in e0.sent : ~TaskToken(x) /\ ~JobToken(x) /\ Proper(e0.tasks, x)
  BY <1>2, CancelKeeps
<1>4. ASSUME NEW x \in U PROVE ~TaskToken(x) /\ ~JobToken(x) /\ Proper(e0.tasks, x)
  <2>1. x = JobMsg(jobs, tasks[up].job, "Cancelled") OBVIOUS
  <2>2. x.queue = "x-jobs" /\ x.state = "Cancelled" BY <2>1 DEF JobMsg
  <2>3. QED BY <2>2 DEF TaskToken, JobToken, JobEvent, Acting, Worked, Proper
<1> HIDE DEF e0, U
<1>5. e.jobs = e0.jobs /\ e.tasks = e0.tasks /\ e.sent = e0.sent \cup U BY DEF Effect
<1> HIDE DEF e
<1>6. QED BY <1>1, <1>3, <1>4, <1>5, Ignored

\* A job left alone is not restarted, and has no Running or Scheduled event.
LEMMA OtherEventsOrdered ==
  ASSUME Ordered, NEW m \in BagToSet(msgs),
         RestartJob(m) \/ MarkJobAsRunning(m) \/ IgnoreScheduled(m)
  PROVE  FALSE
BY DEF Ordered, AllProper, Proper, RestartJob, MarkJobAsRunning, IgnoreScheduled, JobEvent

\* handle_task_progress.
LEMMA HandleTaskProgressOrdered ==
  ASSUME Rows, Ordered, NEW m \in BagToSet(msgs), HandleTaskProgress(m)
  PROVE  Ordered' /\ Passed(Books, Books')
<1> DEFINE e == Effect(jobs, WithState(tasks, {m.task}, "Running"), {})
<1>1. Handle(m, e) /\ finished' = finished BY DEF HandleTaskProgress
<1>2. Kept(jobs, tasks) BY Holders, KeptAll
<1>3. PICK T : T = {m.task} OBVIOUS
<1>4. Kept(jobs, WithState(tasks, T, "Running")) BY <1>2, KeptStates DEF TaskState
<1>5. Kept(e.jobs, e.tasks) /\ e.sent = {} BY <1>3, <1>4 DEF Effect
<1> HIDE DEF e
<1>6. QED BY <1>1, <1>5, Ignored

\* handle_redelivered.
LEMMA HandleRedeliveredOrdered ==
  ASSUME Rows, Ordered, NEW m \in BagToSet(msgs), HandleRedelivered(m)
  PROVE  Ordered' /\ (Passed(Books, Books') \/ Books' = Books)
<1> DEFINE t == m.task
           e == Effect(jobs, tasks, IF Redeliverable(tasks[t].state)
                                      THEN {TaskMsg("worker", t)} ELSE {})
           x == TaskMsg("worker", t)
           c == After(m, e, finished)
           b == Books
<1>1. Handle(m, e) /\ finished' = finished /\ m.queue = "x-redeliveries"
  BY DEF HandleRedelivered
<1>2. Kept(jobs, tasks) BY Holders, KeptAll
<1>3. CASE ~Redeliverable(tasks[t].state)
  <2>1. Kept(e.jobs, e.tasks) /\ e.sent = {} BY <1>2, <1>3 DEF Effect
  <2> HIDE DEF e
  <2>2. QED BY <1>1, <2>1, Ignored
<1>4. CASE Redeliverable(tasks[t].state)
  <2>1. e.jobs = jobs /\ e.tasks = tasks /\ e.sent = {x} BY <1>4 DEF Effect
  <2>2. x.queue = "worker" /\ x.task = t BY DEF TaskMsg
  <2> HIDE DEF e, x
  <2>3. TaskToken(m) /\ m.queue \in Acting /\ t \in Act
    BY <1>1, Told DEF TaskToken, Acting, Worked
  <2>4. /\ PendOf({m}) = {} /\ ActOf({m}) = {t} /\ BeginsOf({m}) = {} /\ EndsOf({m}) = {}
    BY <1>1, SaysOne DEF Acting, Worked, JobEvent
  <2>5. /\ PendOf({x}) = {} /\ ActOf({x}) = {t} /\ BeginsOf({x}) = {} /\ EndsOf({x}) = {}
    BY <2>2, SaysOne DEF Acting, Worked, JobEvent
  <2>6. /\ c.jobs = jobs /\ c.tasks = tasks /\ c.fin = finished
        /\ c.pend = Pend /\ c.act = Act /\ c.begins = Begins /\ c.ends = Ends
    BY <2>1, <2>3, <2>4, <2>5 DEF After, Book
  <2>7. c = b
    <3>1. c = Book(jobs, tasks, Pend, Act, finished, Begins, Ends)
      BY <2>1, <2>3, <2>4, <2>5 DEF After, Book
    <3>2. QED BY <3>1 DEF Books
  <2>8. Balanced(After(m, e, finished')) BY <1>1, <2>7, Holders
  <2>9. Fresh(m, {x})
    BY <2>2, <2>3, NoClashOne DEF Fresh, JobEvent
  <2>10. Proper(tasks, x)
    <3>1. Proper(tasks, m) BY DEF Ordered, AllProper
    <3>2. Workable(tasks[t]) BY <1>1, <3>1 DEF Proper, Worked
    <3>3. QED BY <2>2, <3>2 DEF Proper
  <2>11. \A u \in 1 .. Len(tasks) : SameTask(e.tasks[u], tasks[u]) BY <2>1 DEF SameTask
  <2>12. Fresh(m, e.sent) /\ \A y \in e.sent : Proper(e.tasks, y) BY <2>1, <2>9, <2>10
  <2>13. Ordered' /\ Books' = After(m, e, finished') BY <1>1, <2>8, <2>11, <2>12, Settled
  <2>14. QED BY <1>1, <2>7, <2>13 DEF b, c
<1>5. QED BY <1>3, <1>4

\* handle_pending_task.
LEMMA HandlePendingTaskOrdered ==
  ASSUME Rows, Ordered, NEW m \in BagToSet(msgs), HandlePendingTask(m)
  PROVE  Ordered' /\ Onto(Books, Books')
<1> DEFINE t == m.task
           e == HandlePending(jobs, tasks, t)
           b == Books
<1>1. Handle(m, e) /\ finished' = finished /\ m.queue = "x-pending"
  BY DEF HandlePendingTask
<1>2. t \in Pend /\ TaskToken(m) BY <1>1, Told DEF TaskToken
<1>3. /\ b.jobs = jobs /\ b.tasks = tasks /\ b.pend = Pend /\ b.act = Act
      /\ b.fin = finished /\ b.begins = Begins /\ b.ends = Ends
      /\ Ids(b) = 1 .. Len(tasks) /\ JobIds(b) = 1 .. Len(jobs) /\ Balanced(b)
  BY BooksAre, Holders
<1> HIDE DEF b
<1>4. e = HandlePending(b.jobs, b.tasks, t) BY <1>3
<1> HIDE DEF e
<1>5. Balanced(Onward(b, t, e)) /\ SentOn(b, t, e) /\ Onto(b, Onward(b, t, e))
  BY <1>2, <1>3, <1>4, PendingEntry
<1>6. PendOf({m}) = {t} /\ ActOf({m}) = {} /\ BeginsOf({m}) = {} /\ EndsOf({m}) = {}
  BY <1>1, SaysOne DEF Acting, Worked, JobEvent
<1>7. After(m, e, finished) = Onward(b, t, e)
  BY <1>3, <1>6 DEF After, Onward
<1>8. Fresh(m, e.sent)
  <2>1. Pend \subseteq Ids(b) /\ Act \subseteq Ids(b) /\ Begins \subseteq JobIds(b)
    BY <1>3, Holders
  <2>2. QED BY <1>2, <1>5, <2>1 DEF Fresh, SentOn
<1>9. \A u \in 1 .. Len(tasks) : SameTask(e.tasks[u], tasks[u]) BY <1>3, <1>5 DEF SentOn
<1>10. \A x \in e.sent : Proper(e.tasks, x) BY <1>5 DEF SentOn
<1>11. Ordered' /\ Books' = After(m, e, finished')
  BY <1>1, <1>5, <1>7, <1>8, <1>9, <1>10, Settled
<1>12. QED BY <1>1, <1>5, <1>7, <1>11 DEF b

\* complete_job.
LEMMA CompleteJobOrdered ==
  ASSUME Rows, Ordered, NEW m \in BagToSet(msgs), CompleteJob(m)
  PROVE  Ordered' /\ Passed(Books, Books')
<1> DEFINE j  == m.job
           js == [jobs EXCEPT ![j].state = "Completed"]
           U  == ToParent(j, "x-completed")
           p  == jobs[j].parent
           e  == Effect(js, tasks, U)
           c  == After(m, e, finished)
           b  == Books
<1>1. /\ Handle(m, e) /\ finished' = finished /\ m.queue = "x-jobs" /\ m.state = "Completed"
  BY DEF CompleteJob, JobEvent
<1>2. j \in 1 .. Len(jobs) /\ Sound(jobs, tasks) /\ j \in Ends
  BY <1>1, MessageRow, Holders, Told DEF JobEvent
<1>3. /\ b.jobs = jobs /\ b.tasks = tasks /\ b.pend = Pend /\ b.act = Act
      /\ b.fin = finished /\ b.begins = Begins /\ b.ends = Ends
      /\ Ids(b) = 1 .. Len(tasks) /\ JobIds(b) = 1 .. Len(jobs) /\ Balanced(b)
  BY BooksAre, Holders
<1>4. /\ Sound(js, tasks) /\ Len(js) = Len(jobs)
      /\ \A k \in 1 .. Len(jobs) :
           /\ SameJob(js[k], jobs[k]) /\ js[k].position = jobs[k].position
           /\ js[k].state = IF k = j THEN "Completed" ELSE jobs[k].state
  <2>1. jobs \in Seq(Job) BY <1>2, SoundTypes
  <2>2. "Completed" \in JobState BY DEF JobState
  <2> HIDE DEF j
  <2>3. QED BY <1>2, <2>1, <2>2, JobStateSound, JobStateKeeps
<1> HIDE DEF js, b
<1>5. jobs[j].state # "Completed" BY <1>2, Holders, BooksAre DEF LineOf
<1>6. p # 0 => /\ p \in 1 .. Len(tasks) /\ Nested(tasks[p]) /\ tasks[p].subjob = j
               /\ p \notin Pend /\ p \notin Act \cup finished
  <2>1. SUFFICES ASSUME p # 0
                 PROVE  /\ p \in 1 .. Len(tasks) /\ Nested(tasks[p]) /\ tasks[p].subjob = j
                        /\ p \notin Pend /\ p \notin Act \cup finished
    OBVIOUS
  <2>2. p \in 1 .. Len(tasks) BY <1>2, <2>1, SoundLinks
  <2>3. Nesting(b) BY <1>3 DEF Balanced
  <2>4. Nested(tasks[p]) /\ tasks[p].subjob = j BY <1>2, <1>3, <2>1, <2>3 DEF Nesting
  <2>5. j # 0 BY <1>2, SoundTypes
  <2>6. p \notin Pend /\ p \notin Act \cup finished
    BY <1>3, <1>5, <2>2, <2>3, <2>4, <2>5 DEF Nesting
  <2>7. QED BY <2>2, <2>4, <2>6
<1>7. ASSUME NEW x \in U
      PROVE  p # 0 /\ x.queue = "x-completed" /\ x.task = p /\ U = {x}
  BY DEF ToParent, TaskMsg
<1>8. /\ PendOf(U) = {} /\ ActOf(U) = (IF p = 0 THEN {} ELSE {p})
      /\ BeginsOf(U) = {} /\ EndsOf(U) = {}
  <2>1. CASE p = 0
    <3>1. U = {} BY <2>1 DEF ToParent
    <3> HIDE DEF U
    <3>2. QED BY <2>1, <3>1, SaysOne
  <2>2. CASE p # 0
    <3>1. PICK x : x = TaskMsg("x-completed", p) OBVIOUS
    <3>2. U = {x} BY <2>2, <3>1 DEF ToParent
    <3>3. x.queue = "x-completed" /\ x.task = p BY <3>1 DEF TaskMsg
    <3> HIDE DEF U
    <3>4. PendOf({x}) = {} /\ ActOf({x}) = {p} /\ BeginsOf({x}) = {} /\ EndsOf({x}) = {}
      BY <3>3, SaysOne DEF Acting, Worked, JobEvent
    <3>5. QED BY <2>2, <3>2, <3>4
  <2>3. QED BY <2>1, <2>2
<1>9. PendOf({m}) = {} /\ ActOf({m}) = {} /\ BeginsOf({m}) = {} /\ EndsOf({m}) = {j}
  BY <1>1, SaysOne DEF Acting, Worked, JobEvent
<1> HIDE DEF U
<1>10. e.jobs = js /\ e.tasks = tasks /\ e.sent = U BY DEF Effect
<1> HIDE DEF e
<1>11. /\ c.jobs = js /\ c.tasks = tasks /\ c.fin = finished
       /\ c.pend = Pend /\ c.act = Act \cup (IF p = 0 THEN {} ELSE {p})
       /\ c.begins = Begins /\ c.ends = Ends \ {j}
  <2>1. /\ c.jobs = js /\ c.tasks = tasks /\ c.fin = finished
        /\ c.pend = (Pend \ PendOf({m})) \cup PendOf(U)
        /\ c.act = (Act \ ActOf({m})) \cup ActOf(U)
        /\ c.begins = (Begins \ BeginsOf({m})) \cup BeginsOf(U)
        /\ c.ends = (Ends \ EndsOf({m})) \cup EndsOf(U)
    BY <1>10 DEF After, Book
  <2> HIDE DEF c, j, p
  <2>2. QED BY <1>8, <1>9, <2>1
<1> HIDE DEF c
<1>12. Passed(b, c)
  <2>1. Alike(b, c) BY <1>3, <1>4, <1>11 DEF Alike, SameTask
  <2>2. /\ Pend \subseteq 1 .. Len(tasks) /\ Act \subseteq 1 .. Len(tasks)
        /\ Pend \cap Act = {} /\ Act \cap finished = {} /\ Ends \subseteq 1 .. Len(jobs)
    BY Holders
  <2>3. /\ c.act \subseteq Ids(b) /\ c.act \cap c.pend = {} /\ c.act \cap b.fin = {}
    BY <1>3, <1>6, <1>11, <2>2, ZenonT(30)
  <2>4. ASSUME NEW u \in c.act \ b.act
        PROVE  /\ ~Regular(b.tasks[u]) /\ ~FanOut(b.tasks[u])
               /\ b.tasks[u].subjob # 0 /\ c.jobs[b.tasks[u].subjob].state = "Completed"
    <3>1. u = p /\ p # 0 BY <1>3, <1>11
    <3>2. Nested(tasks[p]) /\ tasks[p].subjob = j BY <1>6, <3>1
    <3>3. j # 0 /\ js[j].state = "Completed" BY <1>2, <1>4, SoundTypes
    <3>4. QED BY <1>3, <1>11, <3>1, <3>2, <3>3 DEF Nested, Regular, FanOut
  <2>5. \A k \in 1 .. Len(jobs) : k \in Ends => jobs[k].state # "Completed"
    BY Holders, BooksAre DEF LineOf
  <2>6. \A k \in JobIds(b) :
          /\ b.jobs[k].state = "Completed" => c.jobs[k].state = "Completed"
          /\ k \in c.ends \/ c.jobs[k].state = "Completed" =>
               k \in b.ends \/ b.jobs[k].state = "Completed"
          /\ k \in c.ends => c.jobs[k].state # "Completed"
    BY <1>2, <1>3, <1>4, <1>11, <2>5
  <2>7. c.ends \subseteq JobIds(b) BY <1>3, <1>11, <2>2
  <2>8. /\ c.fin = b.fin /\ c.pend \subseteq b.pend /\ c.begins \subseteq b.begins
        /\ \A t \in Ids(b) : c.tasks[t].completions = b.tasks[t].completions
    BY <1>3, <1>11
  <2>9. QED BY <2>1, <2>3, <2>4, <2>6, <2>7, <2>8 DEF Passed
<1>13. Balanced(After(m, e, finished')) BY <1>1, <1>3, <1>12, Pass DEF c
<1>14. Fresh(m, e.sent)
  <2>1. NoClash(U) BY <1>7 DEF NoClash
  <2>2. \A x \in U : x.task \notin Pend \cup Act BY <1>6, <1>7
  <2>3. QED BY <1>7, <1>10, <2>1, <2>2 DEF Fresh, JobEvent
<1>15. \A x \in e.sent : Proper(e.tasks, x) BY <1>7, <1>10 DEF Proper, Worked
<1>16. \A u \in 1 .. Len(tasks) : SameTask(e.tasks[u], tasks[u]) BY <1>10 DEF SameTask
<1>17. Ordered' /\ Books' = After(m, e, finished')
  BY <1>1, <1>13, <1>14, <1>15, <1>16, Settled
<1>18. QED BY <1>1, <1>12, <1>17 DEF b, c

----------------------------------------------------------------------------
(* The handlers that create a task of the list.                            *)

LEMMA JobPositionKeeps ==
  ASSUME NEW js, NEW ts, Sound(js, ts), NEW j \in 1 .. Len(js),
         NEW p \in 1 .. Len(js[j].tasks)
  PROVE  LET js2 == [js EXCEPT ![j].position = p]
         IN /\ SameJob(js2[j], js[j]) /\ js2[j].position = p /\ js2[j].state = js[j].state
            /\ \A k \in 1 .. Len(js) : k # j => js2[k] = js[k]
<1> DEFINE r   == [js[j] EXCEPT !.position = p]
           js2 == [js EXCEPT ![j] = r]
<1>1. js \in Seq(Job) /\ js[j] \in Job BY SoundTypes
<1>2. js[j].tasks \in Seq(Step) BY <1>1 DEF Job
<1>3. p \in Nat BY <1>2, LenProperties
<1>4. r \in Job BY <1>1, <1>3 DEF Job
<1>5. SameJob(r, js[j]) /\ r.position = p /\ r.state = js[j].state
  BY <1>1 DEF Job, SameJob
<1> HIDE DEF r
<1>6. js2[j] = r /\ \A k \in 1 .. Len(js) : k # j => js2[k] = js[k]
  BY <1>1, <1>4, UpdateIsSeq
<1>7. [js EXCEPT ![j].position = p] = js2 BY DEF r
<1> HIDE DEF js2
<1>8. QED BY <1>5, <1>6, <1>7

\* The job j moves on in js to its next position, and nothing of it is in flight.
NextStep(b, j, js) ==
  /\ j \in JobIds(b) /\ Sound(js, b.tasks) /\ Len(js) = Len(b.jobs)
  /\ SameJob(js[j], b.jobs[j]) /\ js[j].state # "Completed"
  /\ js[j].position = b.jobs[j].position + 1 /\ js[j].position \in 1 .. Len(js[j].tasks)
  /\ \A k \in JobIds(b) : k # j => js[k] = b.jobs[k]
  /\ \A u \in Tops(b, j) \cap Live(b) : u \in b.fin
  /\ b.jobs[j].position # 0 =>
       \E u \in Tops(b, j) \cap b.fin : b.tasks[u].position = b.jobs[j].position
  /\ j \notin b.ends /\ b.jobs[j].state # "Completed"

\* The books once the task ts ends with is created.
Created(b, j, js, ts) ==
  Book(js, ts, b.pend \cup {Len(ts)}, b.act, b.fin, b.begins \ {j}, b.ends)

\* r is the first copy of the task at the position of j.
StepRow(js, j, r) ==
  /\ TopLevelRow(js, r) /\ r.job = j /\ r.parent = 0 /\ r.position = js[j].position
  /\ r.attempts = 0 /\ r.completions = 0 /\ r.subjob = 0

LEMMA NewStepRow ==
  ASSUME NEW js, NEW ts, Sound(js, ts), NEW j \in 1 .. Len(js),
         js[j].position \in 1 .. Len(js[j].tasks), NEW ev \in BOOLEAN
  PROVE  StepRow(js, j, NewTask(j, js[j].tasks[js[j].position], 0, js[j].position, ev))
<1> DEFINE p == js[j].position
           r == NewTask(j, js[j].tasks[p], 0, p, ev)
<1>1. /\ r.job = j /\ r.parent = 0 /\ r.position = p /\ r.attempts = 0
      /\ r.completions = 0 /\ r.subjob = 0
  BY DEF NewTask
<1>2. p \in 1 .. Len(js[j].tasks) OBVIOUS
<1>3. TopLevelRow(js, r)
  <2> HIDE DEF p
  <2>1. QED BY <1>2, NewTaskRow
<1> HIDE DEF r
<1>4. StepRow(js, j, r) BY <1>1, <1>3 DEF StepRow
<1>5. QED BY <1>4 DEF r

\* The next task of the list, created when nothing of the job is in flight.
LEMMA StepAdded ==
  ASSUME NEW b, Balanced(b), NEW j, NEW js, NextStep(b, j, js),
         NEW r, StepRow(js, j, r), NEW ts, ts = Append(b.tasks, r)
  PROVE  /\ Balanced(Created(b, j, js, ts)) /\ Len(ts) = Len(b.tasks) + 1
         /\ Len(b.tasks) \in Nat /\ Added(b, Created(b, j, js, ts), j)
<1> DEFINE p == js[j].position
           c == Created(b, j, js, ts)
<1>0. /\ j \in JobIds(b) /\ Sound(js, b.tasks) /\ Len(js) = Len(b.jobs)
      /\ SameJob(js[j], b.jobs[j]) /\ js[j].state # "Completed"
      /\ js[j].position = b.jobs[j].position + 1 /\ js[j].position \in 1 .. Len(js[j].tasks)
      /\ \A k \in JobIds(b) : k # j => js[k] = b.jobs[k]
  BY DEF NextStep
<1>1. Sound(b.jobs, b.tasks) /\ Len(b.jobs) \in Nat /\ Len(b.tasks) \in Nat
      /\ b.tasks \in Seq(Task)
  BY SoundTypes DEF Balanced
<1>2. j \in 1 .. Len(js) BY <1>0 DEF JobIds
<1>3. TopLevelRow(js, r) /\ r \in Task BY DEF StepRow, TopLevelRow
<1>4. /\ r.job = j /\ r.parent = 0 /\ r.position = p /\ r.attempts = 0
      /\ r.completions = 0 /\ r.subjob = 0
  BY DEF StepRow
<1>5. ts = Append(b.tasks, r) OBVIOUS
<1>6. /\ Sound(js, ts) /\ Len(ts) = Len(b.tasks) + 1
  BY <1>0, <1>3, <1>5, NewTaskSound
<1>7. /\ \A u \in 1 .. Len(b.tasks) : ts[u] = b.tasks[u]
      /\ ts[Len(b.tasks) + 1] = r
  BY <1>1, <1>3, <1>5, AppendProperties
<1>8. /\ c.jobs = js /\ c.tasks = ts /\ c.pend = b.pend \cup {Len(ts)} /\ c.act = b.act
      /\ c.fin = b.fin /\ c.begins = b.begins \ {j} /\ c.ends = b.ends
  BY DEF Created, Book
<1> HIDE DEF c
<1>9. Grown(b, c)
  <2>1. \A k \in JobIds(b) : SameJob(js[k], b.jobs[k]) BY <1>0 DEF SameJob
  <2>2. \A t \in Ids(b) : SameTask(ts[t], b.tasks[t]) /\ ts[t].completions = b.tasks[t].completions
    BY <1>7 DEF SameTask, Ids
  <2>3. Len(b.jobs) <= Len(js) /\ Len(b.tasks) <= Len(ts)
    <3>1. Len(b.jobs) \in Nat /\ Len(b.tasks) \in Nat BY <1>1
    <3>2. Len(js) = Len(b.jobs) /\ Len(ts) = Len(b.tasks) + 1 BY <1>0, <1>6
    <3>3. QED BY <3>1, <3>2
  <2>4. Sound(js, ts) BY <1>6
  <2>5. \A k \in JobIds(b) : SameJob(c.jobs[k], b.jobs[k]) BY <1>8, <2>1
  <2>6. \A t \in Ids(b) : SameTask(c.tasks[t], b.tasks[t]) /\ c.tasks[t].completions = b.tasks[t].completions
    BY <1>8, <2>2
  <2>7. Sound(c.jobs, c.tasks) /\ Len(b.jobs) <= Len(c.jobs) /\ Len(b.tasks) <= Len(c.tasks)
    BY <1>8, <2>3, <2>4
  <2>8. QED BY <2>5, <2>6, <2>7 DEF Grown
<1>10. /\ Last(c) = Len(b.tasks) + 1 /\ c.tasks[Last(c)] = r
  BY <1>6, <1>7, <1>8 DEF Last
<1>11. Added(b, c, j)
  <2>1. Len(c.jobs) = Len(b.jobs) /\ Len(c.tasks) = Len(b.tasks) + 1 BY <1>0, <1>6, <1>8
  <2>2. \A u \in Ids(b) : c.tasks[u].subjob = b.tasks[u].subjob BY <1>7, <1>8 DEF Ids
  <2>3. c.pend = b.pend \cup {Last(c)} BY <1>8 DEF Last
  <2>4. /\ c.jobs[j].position = b.jobs[j].position + 1 /\ c.jobs[j].state # "Completed"
        /\ \A k \in JobIds(b) : k # j => c.jobs[k] = b.jobs[k]
    BY <1>0, <1>8
  <2>5. /\ c.tasks[Last(c)].job = j /\ c.tasks[Last(c)].parent = 0
        /\ c.tasks[Last(c)].position = c.jobs[j].position /\ c.tasks[Last(c)].attempts = 0
        /\ c.tasks[Last(c)].completions = 0 /\ c.tasks[Last(c)].subjob = 0
    <3>1. c.jobs[j].position = p BY <1>8
    <3>2. PICK x : x = c.tasks[Last(c)] OBVIOUS
    <3>3. x = r BY <1>10, <3>2
    <3> HIDE DEF p
    <3>4. /\ x.job = j /\ x.parent = 0 /\ x.position = p /\ x.attempts = 0
          /\ x.completions = 0 /\ x.subjob = 0
      BY <1>4, <3>3
    <3>5. QED BY <3>1, <3>2, <3>4
  <2>6. c.act = b.act /\ c.fin = b.fin /\ c.begins = b.begins \ {j} /\ c.ends = b.ends BY <1>8
  <2>7. /\ \A u \in Tops(b, j) \cap Live(b) : u \in b.fin
        /\ b.jobs[j].position # 0 =>
             \E u \in Tops(b, j) \cap b.fin : b.tasks[u].position = b.jobs[j].position
        /\ j \notin b.ends /\ b.jobs[j].state # "Completed" /\ j \in JobIds(b)
    BY DEF NextStep
  <2>8. QED BY <1>9, <2>1, <2>2, <2>3, <2>4, <2>5, <2>6, <2>7 DEF Added
<1>12. Balanced(c) BY <1>11, Add
<1>13. QED BY <1>1, <1>6, <1>7, <1>11, <1>12 DEF Ids, c

\* start_job.
LEMMA StartJobOrdered ==
  ASSUME Rows, Ordered, NEW m \in BagToSet(msgs), StartJob(m)
  PROVE  LET js == [jobs EXCEPT ![m.job].state = "Scheduled", ![m.job].position = 1]
             ts == Append(tasks, NewTask(m.job, jobs[m.job].tasks[1], 0, 1, TRUE))
             c  == Created(Books, m.job, js, ts)
         IN Ordered' /\ Added(Books, c, m.job) /\ Onto(c, Books')
<1> DEFINE j   == m.job
           js1 == [jobs EXCEPT ![j].state = "Scheduled"]
           js  == [js1 EXCEPT ![j].position = 1]
           ts  == Append(tasks, NewTask(j, jobs[j].tasks[1], 0, 1, TRUE))
           n   == Len(ts)
           e   == HandlePending(js, ts, n)
           b   == Books
           c   == Created(b, j, js, ts)
<1>1. /\ j \in 1 .. Len(jobs) /\ Sound(jobs, tasks) /\ j \in Begins
      /\ m.queue = "x-jobs" /\ m.state = "Pending"
  BY MessageRow, Holders, Told DEF StartJob, JobEvent
<1>2. /\ b.jobs = jobs /\ b.tasks = tasks /\ b.pend = Pend /\ b.act = Act
      /\ b.fin = finished /\ b.begins = Begins /\ b.ends = Ends
      /\ Ids(b) = 1 .. Len(tasks) /\ JobIds(b) = 1 .. Len(jobs) /\ Balanced(b)
  BY BooksAre, Holders
<1>3. jobs \in Seq(Job) /\ jobs[j] \in Job /\ Len(tasks) \in Nat /\ DOMAIN jobs = 1 .. Len(jobs)
  BY <1>1, SoundTypes
<1>4. 1 \in 1 .. Len(jobs[j].tasks)
  <2>1. JobRow(jobs, tasks, j) BY <1>1 DEF Sound
  <2>2. jobs[j].tasks \in Seq(Step) /\ jobs[j].tasks # <<>> BY <1>3, <2>1 DEF Job, JobRow
  <2>3. QED BY <2>2, LenProperties, EmptySeq
<1>5. /\ Sound(js1, tasks) /\ Len(js1) = Len(jobs)
      /\ \A k \in 1 .. Len(jobs) :
           /\ SameJob(js1[k], jobs[k]) /\ js1[k].position = jobs[k].position
           /\ js1[k].state = IF k = j THEN "Scheduled" ELSE jobs[k].state
      /\ \A k \in 1 .. Len(jobs) : k # j => js1[k] = jobs[k]
  <2>1. "Scheduled" \in JobState BY DEF JobState
  <2>2. \A k \in 1 .. Len(jobs) : k # j => js1[k] = jobs[k] BY <1>3
  <2>3. PICK st \in JobState : st = "Scheduled" BY <2>1
  <2> HIDE DEF j
  <2>4. Sound([jobs EXCEPT ![j].state = st], tasks) BY <1>1, JobStateSound
  <2>5. LET js2 == [jobs EXCEPT ![j].state = st]
        IN /\ Len(js2) = Len(jobs)
           /\ \A k \in 1 .. Len(jobs) :
                /\ SameJob(js2[k], jobs[k]) /\ js2[k].position = jobs[k].position
                /\ js2[k].state = IF k = j THEN st ELSE jobs[k].state
    BY <1>1, <1>3, JobStateKeeps
  <2>6. js1 = [jobs EXCEPT ![j].state = st] BY <2>3
  <2> HIDE DEF js1
  <2>7. QED BY <2>2, <2>3, <2>4, <2>5, <2>6
<1>6. js = [jobs EXCEPT ![j].state = "Scheduled", ![j].position = 1] BY <1>1, <1>3
<1>7. Handle(m, e) /\ finished' = finished BY <1>6 DEF StartJob
<1> HIDE DEF js1
<1>8. /\ Sound(js, tasks) /\ Len(js) = Len(jobs) /\ js[j].position = 1
      /\ SameJob(js[j], jobs[j]) /\ js[j].state = "Scheduled"
      /\ \A k \in 1 .. Len(jobs) : k # j => js[k] = jobs[k]
  <2>1. PICK p : p = 1 OBVIOUS
  <2>2. j \in 1 .. Len(js1) /\ p \in 1 .. Len(js1[j].tasks)
    BY <1>1, <1>4, <1>5, <2>1 DEF SameJob
  <2>3. js = [js1 EXCEPT ![j].position = p] BY <2>1
  <2> HIDE DEF js, j
  <2>7. Sound([js1 EXCEPT ![j].position = p], tasks) /\ Len([js1 EXCEPT ![j].position = p]) = Len(js1)
    BY <1>5, <2>2, JobPositionSound
  <2>4. Sound(js, tasks) /\ Len(js) = Len(js1) BY <2>3, <2>7
  <2>5. /\ SameJob(js[j], js1[j]) /\ js[j].position = p /\ js[j].state = js1[j].state
        /\ \A k \in 1 .. Len(js1) : k # j => js[k] = js1[k]
    BY <1>5, <2>2, <2>3, JobPositionKeeps
  <2>6. QED BY <1>1, <1>5, <2>1, <2>4, <2>5 DEF SameJob
<1> HIDE DEF js
<1>9. jobs[j].position = 0 /\ Tops(b, j) = {}
  <2>1. LineOf(b, j) BY <1>1, Holders
  <2>2. jobs[j].position = 0 BY <1>1, <1>2, <2>1 DEF LineOf
  <2>3. ASSUME NEW t \in Tops(b, j) PROVE FALSE
    <3>1. t \in Ids(b) /\ b.tasks[t].position <= 0 BY <1>2, <2>1, <2>2, <2>3 DEF LineOf, Tops
    <3>2. b.tasks[t].job = j /\ b.tasks[t].parent = 0 BY <2>3 DEF Tops
    <3>3. b.tasks[t].position \in 1 .. Len(jobs[j].tasks)
      BY <1>2, <3>1, <3>2, BookPlaces DEF Balanced
    <3>4. QED BY <3>1, <3>3
  <2>4. QED BY <2>2, <2>3
<1>10. j \notin Ends /\ jobs[j].state # "Completed"
  <2>1. LineOf(b, j) BY <1>1, Holders
  <2>2. ~LastDone(b, j) BY <1>9 DEF LastDone
  <2>3. QED BY <1>2, <2>1, <2>2 DEF LineOf
<1>11. js[j].tasks = jobs[j].tasks BY <1>8 DEF SameJob
<1>12. ts = Append(b.tasks, NewTask(j, js[j].tasks[js[j].position], 0, js[j].position, TRUE))
  BY <1>2, <1>8, <1>11
<1>14. js[j].position = b.jobs[j].position + 1 /\ js[j].position \in 1 .. Len(js[j].tasks)
  BY <1>2, <1>4, <1>8, <1>9, <1>11
<1> HIDE DEF ts, b, c
<1>15. /\ Balanced(c) /\ Added(b, c, j) /\ Len(ts) = Len(b.tasks) + 1 /\ Len(b.tasks) \in Nat
       /\ \A u \in 1 .. Len(tasks) : ts[u] = tasks[u]
  <2>1. Sound(js, b.tasks) /\ Len(js) = Len(b.jobs) /\ SameJob(js[j], b.jobs[j])
        /\ js[j].state # "Completed" /\ j \in JobIds(b)
    BY <1>1, <1>2, <1>8
  <2>2. \A k \in JobIds(b) : k # j => js[k] = b.jobs[k] BY <1>2, <1>8
  <2>3. b.jobs[j].position = 0 /\ j \notin b.ends /\ b.jobs[j].state # "Completed"
    BY <1>2, <1>9, <1>10
  <2>4. \A u \in Tops(b, j) \cap Live(b) : u \in b.fin BY <1>9
  <2>5. PICK row : row = NewTask(j, js[j].tasks[js[j].position], 0, js[j].position, TRUE)
    OBVIOUS
  <2>6. ts = Append(b.tasks, row) BY <1>12, <2>5
  <2>7. Balanced(b) BY <1>2
  <2> HIDE DEF j, n
  <2>8. NextStep(b, j, js) BY <1>14, <2>1, <2>2, <2>3, <2>4 DEF NextStep
  <2>9. StepRow(js, j, row)
    <3>1. j \in 1 .. Len(js) /\ js[j].position \in 1 .. Len(js[j].tasks)
      BY <1>1, <1>8, <1>14
    <3>2. StepRow(js, j, NewTask(j, js[j].tasks[js[j].position], 0, js[j].position, TRUE))
      BY <1>8, <3>1, NewStepRow
    <3>3. QED BY <2>5, <3>2
  <2>10. /\ Balanced(Created(b, j, js, ts)) /\ Len(ts) = Len(b.tasks) + 1
         /\ Len(b.tasks) \in Nat /\ Added(b, Created(b, j, js, ts), j)
    BY <2>6, <2>7, <2>8, <2>9, StepAdded
  <2>11. \A u \in 1 .. Len(tasks) : ts[u] = tasks[u]
    <3>1. row \in Task BY <2>9 DEF StepRow, TopLevelRow
    <3>2. tasks \in Seq(Task) /\ ts = Append(tasks, row) BY <1>1, <1>2, <2>6, SoundTypes
    <3>3. QED BY <3>1, <3>2, AppendProperties
  <2>12. QED BY <1>2, <2>10, <2>11 DEF c
<1>16. /\ c.jobs = js /\ c.tasks = ts /\ c.pend = Pend \cup {n} /\ c.act = Act
       /\ c.fin = finished /\ c.begins = Begins \ {j} /\ c.ends = Ends
       /\ JobIds(c) = 1 .. Len(jobs)
  BY <1>2, <1>8 DEF c, Created, Book, JobIds, n
<1>17. n = Len(tasks) + 1 /\ n \notin 1 .. Len(tasks) /\ Ids(c) = 1 .. n
  BY <1>2, <1>3, <1>15, <1>16 DEF Ids
<1> HIDE DEF n
<1>18. Balanced(Onward(c, n, e)) /\ SentOn(c, n, e) /\ Onto(c, Onward(c, n, e))
  <2>1. n \in c.pend /\ e = HandlePending(c.jobs, c.tasks, n) BY <1>16
  <2> HIDE DEF e
  <2>2. QED BY <1>15, <2>1, PendingEntry
<1> HIDE DEF e
<1>19. PendOf({m}) = {} /\ ActOf({m}) = {} /\ BeginsOf({m}) = {j} /\ EndsOf({m}) = {}
  BY <1>1, SaysOne DEF Acting, Worked, JobEvent
<1>20. After(m, e, finished) = Onward(c, n, e)
  <2>1. /\ Pend \ PendOf({m}) = c.pend \ {n} /\ Act \ ActOf({m}) = c.act
        /\ Begins \ BeginsOf({m}) = c.begins /\ Ends \ EndsOf({m}) = c.ends
    <3>1. n \notin Pend BY <1>17, Holders
    <3>2. QED BY <1>16, <1>19, <3>1
  <2>2. QED BY <1>16, <2>1 DEF After, Onward
<1>21. Fresh(m, e.sent)
  <2>1. /\ Pend \subseteq Ids(c) /\ Act \subseteq Ids(c) /\ Begins \subseteq JobIds(c)
        /\ n \notin Pend \cup Act
    BY <1>3, <1>16, <1>17, Holders
  <2>2. QED BY <1>18, <2>1 DEF Fresh, SentOn
<1>22. \A u \in 1 .. Len(tasks) : SameTask(e.tasks[u], tasks[u])
  <2>1. \A u \in 1 .. Len(tasks) : u \in Ids(c) /\ c.tasks[u] = tasks[u]
    BY <1>2, <1>3, <1>15, <1>16, <1>17
  <2>2. QED BY <1>18, <2>1 DEF SentOn
<1>23. \A x \in e.sent : Proper(e.tasks, x) BY <1>18 DEF SentOn
<1>24. Ordered' /\ Books' = After(m, e, finished')
  BY <1>7, <1>18, <1>20, <1>21, <1>22, <1>23, Settled
<1>25. Added(b, c, j) /\ Onto(c, Books') BY <1>7, <1>15, <1>18, <1>20, <1>24
<1>26. PICK js2 : js2 = [jobs EXCEPT ![j].state = "Scheduled", ![j].position = 1] OBVIOUS
<1>27. PICK ts2 : ts2 = Append(tasks, NewTask(j, jobs[j].tasks[1], 0, 1, TRUE)) OBVIOUS
<1>28. js = js2 /\ ts = ts2 BY <1>6, <1>26, <1>27 DEF ts
<1>29. c = Created(b, j, js2, ts2) BY <1>28 DEF c
<1>30. QED BY <1>24, <1>25, <1>26, <1>27, <1>29 DEF b

----------------------------------------------------------------------------
(* handle_task_completed: the task finishes, and then the job moves on or  *)
(* the parent has counted it.                                              *)

\* The books once t has finished.
Closed(b, ts, t) ==
  Book(b.jobs, ts, b.pend, b.act \ {t}, b.fin \cup {t}, b.begins, b.ends)

LEMMA Closing ==
  ASSUME NEW b, Balanced(b), NEW t \in b.act, NEW ts, Sound(b.jobs, ts),
         Len(ts) = Len(b.tasks),
         \A u \in Ids(b) :
           /\ SameTask(ts[u], b.tasks[u]) /\ ts[u].subjob = b.tasks[u].subjob
           /\ ts[u].completions = IF u = b.tasks[t].parent THEN b.tasks[u].completions + 1
                                                           ELSE b.tasks[u].completions
  PROVE  Balanced(Closed(b, ts, t)) /\ Finished(b, Closed(b, ts, t), t)
<1> DEFINE c == Closed(b, ts, t)
<1>1. /\ c.jobs = b.jobs /\ c.tasks = ts /\ c.pend = b.pend /\ c.act = b.act \ {t}
      /\ c.fin = b.fin \cup {t} /\ c.begins = b.begins /\ c.ends = b.ends
  BY DEF Closed, Book
<1> HIDE DEF c
<1>2. \A j \in JobIds(b) :
        SameJob(c.jobs[j], b.jobs[j]) /\ c.jobs[j].position = b.jobs[j].position
  BY <1>1 DEF SameJob
<1>3. \A u \in Ids(b) : SameTask(c.tasks[u], b.tasks[u]) /\ c.tasks[u].subjob = b.tasks[u].subjob
  BY <1>1
<1>4. Alike(b, c) BY <1>1, <1>2, <1>3 DEF Alike
<1>5. \A u \in Ids(b) : c.tasks[u].completions =
        IF u = b.tasks[t].parent THEN b.tasks[u].completions + 1 ELSE b.tasks[u].completions
  BY <1>1
<1>6. Finished(b, c, t) BY <1>1, <1>4, <1>5 DEF Finished
<1>7. QED BY <1>6, Finish DEF c

\* The parent has counted its last child.
LEMMA ParentDone ==
  ASSUME NEW b, Balanced(b), NEW p \in Ids(b), FanOut(b.tasks[p]),
         p \notin b.pend \cup b.act \cup b.fin,
         b.tasks[p].completions = Len(Children[b.tasks[p].step])
  PROVE  LET c == Book(b.jobs, b.tasks, b.pend, b.act \cup {p}, b.fin, b.begins, b.ends)
         IN Balanced(c) /\ Passed(b, c)
<1> DEFINE c == Book(b.jobs, b.tasks, b.pend, b.act \cup {p}, b.fin, b.begins, b.ends)
<1>1. /\ c.jobs = b.jobs /\ c.tasks = b.tasks /\ c.pend = b.pend /\ c.act = b.act \cup {p}
      /\ c.fin = b.fin /\ c.begins = b.begins /\ c.ends = b.ends
  BY DEF Book
<1> HIDE DEF c
<1>2. Sound(b.jobs, b.tasks) /\ HeldOnce(b) /\ Line(b) BY DEF Balanced
<1>3. Alike(b, c) BY <1>1, <1>2 DEF Alike, SameJob, SameTask
<1>4. /\ c.act \subseteq Ids(b) /\ c.act \cap c.pend = {} /\ c.act \cap b.fin = {}
  BY <1>1, <1>2 DEF HeldOnce
<1>5. c.ends \subseteq JobIds(b) /\ \A j \in JobIds(b) : j \in c.ends => c.jobs[j].state # "Completed"
  BY <1>1, <1>2 DEF Line, LineOf
<1>6. ~Regular(b.tasks[p]) /\ ~Nested(b.tasks[p]) BY DEF FanOut, Regular, Nested
<1>7. \A t \in c.act \ b.act : t = p BY <1>1
<1>8. Passed(b, c) BY <1>1, <1>3, <1>4, <1>5, <1>6, <1>7 DEF Passed
<1>9. QED BY <1>8, Pass DEF c

\* The job is published as completed.
LEMMA JobDone ==
  ASSUME NEW b, Balanced(b), NEW j \in JobIds(b), LastDone(b, j),
         b.jobs[j].state # "Completed"
  PROVE  LET c == Book(b.jobs, b.tasks, b.pend, b.act, b.fin, b.begins, b.ends \cup {j})
         IN Balanced(c) /\ Passed(b, c)
<1> DEFINE c == Book(b.jobs, b.tasks, b.pend, b.act, b.fin, b.begins, b.ends \cup {j})
<1>1. /\ c.jobs = b.jobs /\ c.tasks = b.tasks /\ c.pend = b.pend /\ c.act = b.act
      /\ c.fin = b.fin /\ c.begins = b.begins /\ c.ends = b.ends \cup {j}
  BY DEF Book
<1> HIDE DEF c
<1>2. Sound(b.jobs, b.tasks) /\ HeldOnce(b) /\ Line(b) BY DEF Balanced
<1>3. Alike(b, c) BY <1>1, <1>2 DEF Alike, SameJob, SameTask
<1>4. /\ c.act \subseteq Ids(b) /\ c.act \cap c.pend = {} /\ c.act \cap b.fin = {}
  BY <1>1, <1>2 DEF HeldOnce
<1>5. c.ends \subseteq JobIds(b) /\ \A k \in JobIds(b) : k \in c.ends => c.jobs[k].state # "Completed"
  BY <1>1, <1>2 DEF Line, LineOf
<1>6. \A k \in JobIds(b) : k \in c.ends \/ c.jobs[k].state = "Completed" =>
        k \in b.ends \/ b.jobs[k].state = "Completed" \/ LastDone(b, k)
  BY <1>1
<1>7. c.act \ b.act = {} BY <1>1
<1>8. Passed(b, c) BY <1>1, <1>3, <1>4, <1>5, <1>6, <1>7 DEF Passed
<1>9. QED BY <1>8, Pass DEF c

\* A subtask has finished.
LEMMA SubtaskCompletedOrdered ==
  ASSUME Rows, Ordered, NEW m \in BagToSet(msgs), HandleTaskCompleted(m),
         tasks[m.task].parent # 0
  PROVE  LET c == Closed(Books, tasks', m.task)
         IN Ordered' /\ Finished(Books, c, m.task) /\ (Passed(c, Books') \/ Books' = c)
<1> DEFINE t  == m.task
           p  == tasks[t].parent
           ts == WithState(tasks, {t}, "Completed")
           r  == [ts[p] EXCEPT !.completions = @ + 1]
           counted == [ts EXCEPT ![p] = r]
           x  == TaskMsg("x-completed", p)
           e  == CountSubtask(ts, p)
           b  == Books
           c  == Closed(b, counted, t)
           c2 == Book(c.jobs, c.tasks, c.pend, c.act \cup {p}, c.fin, c.begins, c.ends)
           d  == After(m, e, finished')
<1>1. /\ b.jobs = jobs /\ b.tasks = tasks /\ b.pend = Pend /\ b.act = Act
      /\ b.fin = finished /\ b.begins = Begins /\ b.ends = Ends
      /\ Ids(b) = 1 .. Len(tasks) /\ JobIds(b) = 1 .. Len(jobs) /\ Balanced(b)
  BY BooksAre, Holders
<1>2. /\ m.queue \in {"x-completed", "progress:Completed"} /\ finished' = finished \cup {t}
      /\ t \in 1 .. Len(tasks) /\ t \in Act /\ t \notin finished /\ TaskToken(m)
  <2>1. m.queue \in {"x-completed", "progress:Completed"} /\ finished' = finished \cup {t}
    BY DEF HandleTaskCompleted
  <2>2. m.queue \in Acting BY <2>1 DEF Acting, Worked
  <2>3. t \in Act BY <2>2, Told
  <2>4. QED BY <2>1, <2>2, <2>3, Holders DEF TaskToken
<1>3. /\ Sound(jobs, ts) /\ Len(ts) = Len(tasks) /\ ts \in Seq(Task)
      /\ \A u \in 1 .. Len(tasks) :
           /\ SameTask(ts[u], tasks[u]) /\ ts[u].completions = tasks[u].completions
           /\ ts[u].subjob = tasks[u].subjob
  <2>1. Kept(jobs, tasks) BY Holders, KeptAll
  <2>2. PICK T : T = {t} OBVIOUS
  <2>3. Kept(jobs, WithState(tasks, T, "Completed")) BY <2>1, KeptStates DEF TaskState
  <2>4. Kept(jobs, ts) BY <2>2, <2>3
  <2> HIDE DEF ts
  <2>5. QED BY <2>4, SoundTypes DEF Kept
<1>4. Handle(m, e)
  <2>1. ts[t].parent = p BY <1>2, <1>3 DEF SameTask
  <2>2. RouteCompleted(ts, t) = CountSubtask(ts, p) BY <2>1 DEF RouteCompleted
  <2>3. QED BY <2>2 DEF HandleTaskCompleted
<1> HIDE DEF ts
<1>5. /\ p \in 1 .. Len(tasks) /\ FanOut(tasks[p]) /\ p \notin Pend \cup Act \cup finished
      /\ tasks[p].completions + 1 <= Len(Children[tasks[p].step])
      /\ tasks[p].completions \in Nat
  <2>1. t \in Live(b) BY <1>1, <1>2 DEF Live
  <2> HIDE DEF b
  <2>2. QED BY <1>1, <1>2, <2>1, Awaits
<1>6. /\ r \in Task /\ SameTask(r, ts[p]) /\ r.subjob = ts[p].subjob
      /\ r.completions = tasks[p].completions + 1
  <2>1. ts[p] \in Task /\ ts[p].completions = tasks[p].completions
    BY <1>3, <1>5, ElementOfSeq
  <2>2. PICK n \in Nat : n = ts[p].completions + 1 BY <1>5, <2>1
  <2>3. r = [ts[p] EXCEPT !.completions = n] BY <2>2
  <2> HIDE DEF r
  <2>4. r \in Task BY <2>1, <2>2, <2>3 DEF Task
  <2>5. SameTask(r, ts[p]) /\ r.subjob = ts[p].subjob /\ r.completions = n
    BY <2>1, <2>3 DEF Task, SameTask
  <2>6. QED BY <2>1, <2>2, <2>4, <2>5
<1>7. CountSubtask(ts, p) = Effect(jobs, counted, IF Enough(counted[p]) THEN {x} ELSE {})
  <2>1. WithTask(ts, p, r) = counted BY <1>3, WithTaskUpdates
  <2>2. QED BY <2>1 DEF CountSubtask
<1>8. e.jobs = jobs /\ e.tasks = counted /\ e.sent = IF Enough(counted[p]) THEN {x} ELSE {}
  BY <1>7 DEF Effect
<1> HIDE DEF r, e
<1>9. /\ counted[p] = r /\ Len(counted) = Len(tasks) /\ Sound(jobs, counted)
      /\ \A u \in 1 .. Len(tasks) : u # p => counted[u] = ts[u]
  <2>1. ts \in Seq(Task) /\ p \in 1 .. Len(ts) /\ r \in Task BY <1>3, <1>5, <1>6
  <2>2. /\ counted[p] = r /\ Len(counted) = Len(ts)
        /\ \A u \in 1 .. Len(ts) : u # p => counted[u] = ts[u]
    BY <2>1, UpdateIsSeq
  <2>3. Sound(jobs, counted)
    BY <1>3, <1>6, <2>1, TaskUpdateSound
  <2> HIDE DEF counted
  <2>4. QED BY <1>3, <2>2, <2>3
<1> HIDE DEF counted
<1>10. \A u \in 1 .. Len(tasks) :
         /\ SameTask(counted[u], tasks[u]) /\ counted[u].subjob = tasks[u].subjob
         /\ counted[u].completions = IF u = p THEN tasks[u].completions + 1
                                              ELSE tasks[u].completions
  <2>1. ASSUME NEW u \in 1 .. Len(tasks)
        PROVE  /\ SameTask(counted[u], tasks[u]) /\ counted[u].subjob = tasks[u].subjob
               /\ counted[u].completions = IF u = p THEN tasks[u].completions + 1
                                                    ELSE tasks[u].completions
    <3>1. /\ SameTask(ts[u], tasks[u]) /\ ts[u].completions = tasks[u].completions
          /\ ts[u].subjob = tasks[u].subjob
      BY <1>3
    <3>2. CASE u = p BY <1>6, <1>9, <3>1, <3>2 DEF SameTask
    <3>3. CASE u # p BY <1>9, <3>1, <3>3
    <3>4. QED BY <3>2, <3>3
  <2>2. QED BY <2>1
<1>11. /\ c.jobs = jobs /\ c.tasks = counted /\ c.pend = Pend /\ c.act = Act \ {t}
       /\ c.fin = finished \cup {t} /\ c.begins = Begins /\ c.ends = Ends
       /\ Ids(c) = 1 .. Len(tasks)
  BY <1>1, <1>9 DEF Closed, Book, Ids
<1>12. Balanced(c) /\ Finished(b, c, t)
  <2>1. Balanced(b) /\ t \in b.act /\ Sound(b.jobs, counted) /\ Len(counted) = Len(b.tasks)
    BY <1>1, <1>2, <1>9
  <2>2. \A u \in Ids(b) :
          /\ SameTask(counted[u], b.tasks[u]) /\ counted[u].subjob = b.tasks[u].subjob
          /\ counted[u].completions = IF u = b.tasks[t].parent THEN b.tasks[u].completions + 1
                                                               ELSE b.tasks[u].completions
    BY <1>1, <1>10
  <2> HIDE DEF b, p
  <2>3. QED BY <2>1, <2>2, Closing
<1>13. PendOf({m}) = {} /\ ActOf({m}) = {t} /\ BeginsOf({m}) = {} /\ EndsOf({m}) = {}
  BY <1>2, SaysOne DEF Acting, Worked, JobEvent
<1>14. /\ x.queue = "x-completed" /\ x.task = p
       /\ PendOf({x}) = {} /\ ActOf({x}) = {p} /\ BeginsOf({x}) = {} /\ EndsOf({x}) = {}
       /\ PendOf({}) = {} /\ ActOf({}) = {} /\ BeginsOf({}) = {} /\ EndsOf({}) = {}
  <2>1. x.queue = "x-completed" /\ x.task = p BY DEF TaskMsg
  <2> HIDE DEF x
  <2>2. QED BY <2>1, SaysOne DEF Acting, Worked, JobEvent
<1> HIDE DEF b, c, x
<1>15. Balanced(d) /\ (Passed(c, d) \/ d = c)
  <2>1. CASE Enough(counted[p])
    <3>1. /\ FanOut(c.tasks[p]) /\ p \notin c.pend \cup c.act \cup c.fin /\ p \in Ids(c)
          /\ c.tasks[p].completions = Len(Children[c.tasks[p].step])
      <4>1. counted[p].step = tasks[p].step /\ counted[p].completions = tasks[p].completions + 1
        BY <1>5, <1>10 DEF SameTask
      <4>2. counted[p].completions >= Len(Children[counted[p].step]) BY <2>1 DEF Enough
      <4>3. tasks[p].step \in Step
        <5>1. tasks[p] \in Task BY <1>5, Holders, SoundTypes
        <5>2. QED BY <5>1 DEF Task
      <4>4. counted[p].completions = Len(Children[counted[p].step])
        <5>1. Len(Children[tasks[p].step]) \in Nat BY <4>3, ChildrenOf
        <5>2. QED BY <1>5, <4>1, <4>2, <5>1, SMTT(30)
      <4>5. p # t BY <1>2, <1>5
      <4>6. QED BY <1>5, <1>11, <4>1, <4>4, <4>5 DEF FanOut
    <3>2. Balanced(c2) /\ Passed(c, c2)
      <4> HIDE DEF p
      <4>1. QED BY <1>12, <3>1, ParentDone
    <3>3. d = Book(jobs, counted, Pend, (Act \ {t}) \cup {p}, finished \cup {t}, Begins, Ends)
      <4>1. e.sent = {x} BY <1>8, <2>1
      <4>2. QED BY <1>2, <1>8, <1>13, <1>14, <4>1 DEF After
    <3>4. c2 = Book(jobs, counted, Pend, (Act \ {t}) \cup {p}, finished \cup {t}, Begins, Ends)
      BY <1>11
    <3>5. QED BY <3>2, <3>3, <3>4
  <2>2. CASE ~Enough(counted[p])
    <3>1. e.sent = {} BY <1>8, <2>2
    <3>2. d = Book(jobs, counted, Pend, Act \ {t}, finished \cup {t}, Begins, Ends)
      BY <1>2, <1>8, <1>13, <1>14, <3>1 DEF After
    <3>3. c = Book(jobs, counted, Pend, Act \ {t}, finished \cup {t}, Begins, Ends)
      BY <1>1 DEF c, Closed
    <3>4. QED BY <1>12, <3>2, <3>3
  <2>3. QED BY <2>1, <2>2
<1>16. \A y \in e.sent : y = x BY <1>8
<1>17. Fresh(m, e.sent)
  <2>1. NoClash(e.sent) BY <1>16 DEF NoClash
  <2>2. \A y \in e.sent : y.task \notin Pend \cup Act /\ y.queue = "x-completed"
    BY <1>5, <1>14, <1>16
  <2>3. QED BY <2>1, <2>2 DEF Fresh, JobEvent
<1>18. \A y \in e.sent : Proper(e.tasks, y) BY <1>14, <1>16 DEF Proper, Worked
<1>19. \A u \in 1 .. Len(tasks) : SameTask(e.tasks[u], tasks[u]) BY <1>8, <1>10
<1> HIDE DEF d
<1>20. Ordered' /\ Books' = d BY <1>4, <1>15, <1>17, <1>18, <1>19, Settled DEF d
<1>21. c = Closed(b, tasks', t) BY <1>4, <1>8 DEF c, Handle
<1>22. QED BY <1>12, <1>15, <1>20, <1>21 DEF b

\* A task of the list has finished: the next one is created.
LEMMA NextTaskOrdered ==
  ASSUME Rows, Ordered, NEW m \in BagToSet(msgs), TaskToken(m), m.queue \in Acting,
         NEW t, t = m.task, tasks[t].parent = 0, finished' = finished \cup {t},
         NEW ts, Kept(jobs, ts), NEW j, j = tasks[t].job,
         NEW next, next = jobs[j].position + 1, next <= Len(jobs[j].tasks),
         Handle(m, AdvanceJob(ts, j))
  PROVE  LET c == Closed(Books, ts, t)
         IN Ordered' /\ Finished(Books, c, t) /\ Added(c, Books', j)
<1> DEFINE js == [jobs EXCEPT ![j].position = next]
           r  == NewTask(j, jobs[j].tasks[next], 0, next, FALSE)
           ts2 == Append(ts, r)
           n  == Len(ts) + 1
           x  == TaskMsg("x-pending", n)
           e  == AdvanceJob(ts, j)
           b  == Books
           c  == Closed(b, ts, t)
           d  == After(m, e, finished')
<1>1. /\ b.jobs = jobs /\ b.tasks = tasks /\ b.pend = Pend /\ b.act = Act
      /\ b.fin = finished /\ b.begins = Begins /\ b.ends = Ends
      /\ Ids(b) = 1 .. Len(tasks) /\ JobIds(b) = 1 .. Len(jobs) /\ Balanced(b)
  BY BooksAre, Holders
<1>2. t \in Act /\ t \in 1 .. Len(tasks) /\ t \notin finished /\ Len(tasks) \in Nat
  BY Told, Holders, SoundTypes
<1>3. /\ j \in 1 .. Len(jobs) /\ tasks[t].position = jobs[j].position
      /\ jobs[j].position # 0 /\ jobs[j].position \in Nat /\ j \notin Begins
      /\ \A u \in Tops(b, j) \cap Live(b) : u \in finished \/ u = t
      /\ j \notin Ends /\ jobs[j].state # "Completed"
  <2>1. t \in Live(b) BY <1>1, <1>2 DEF Live
  <2> HIDE DEF b
  <2>2. QED BY <1>1, <1>2, <2>1, AtPosition
<1>4. /\ Sound(jobs, ts) /\ Len(ts) = Len(tasks)
      /\ \A u \in 1 .. Len(tasks) :
           /\ SameTask(ts[u], tasks[u]) /\ ts[u].completions = tasks[u].completions
           /\ ts[u].subjob = tasks[u].subjob
  BY DEF Kept
<1>5. e.jobs = js /\ e.tasks = ts2 /\ e.sent = {x} BY DEF AdvanceJob, Effect
<1> HIDE DEF e
<1>6. next \in 1 .. Len(jobs[j].tasks)
  <2>1. jobs[j] \in Job BY <1>3, Holders, SoundTypes
  <2>2. Len(jobs[j].tasks) \in Nat BY <2>1, LenProperties DEF Job
  <2>3. QED BY <1>3, <2>2
<1>7. /\ Sound(js, ts) /\ Len(js) = Len(jobs)
      /\ SameJob(js[j], jobs[j]) /\ js[j].position = next /\ js[j].state = jobs[j].state
      /\ \A k \in 1 .. Len(jobs) : k # j => js[k] = jobs[k]
  <2>1. j \in 1 .. Len(jobs) /\ next \in 1 .. Len(jobs[j].tasks) /\ Sound(jobs, ts)
    BY <1>3, <1>4, <1>6
  <2>2. Sound(js, ts) /\ Len(js) = Len(jobs)
    BY <2>1, JobPositionSound
  <2>3. /\ SameJob(js[j], jobs[j]) /\ js[j].position = next /\ js[j].state = jobs[j].state
        /\ \A k \in 1 .. Len(jobs) : k # j => js[k] = jobs[k]
    BY <2>1, JobPositionKeeps
  <2> HIDE DEF js
  <2>4. QED BY <2>2, <2>3
<1> HIDE DEF js
<1>8. /\ c.jobs = jobs /\ c.tasks = ts /\ c.pend = Pend /\ c.act = Act \ {t}
      /\ c.fin = finished \cup {t} /\ c.begins = Begins /\ c.ends = Ends
      /\ Ids(c) = 1 .. Len(tasks) /\ JobIds(c) = 1 .. Len(jobs)
  BY <1>1, <1>4 DEF Closed, Book, Ids, JobIds
<1>9. Balanced(c) /\ Finished(b, c, t)
  <2>1. \A u \in 1 .. Len(tasks) : u # 0 BY <1>2
  <2>2. \A u \in Ids(b) :
          /\ SameTask(ts[u], b.tasks[u]) /\ ts[u].subjob = b.tasks[u].subjob
          /\ ts[u].completions = IF u = b.tasks[t].parent THEN b.tasks[u].completions + 1
                                                          ELSE b.tasks[u].completions
    BY <1>1, <1>4, <2>1
  <2>3. Balanced(b) /\ t \in b.act /\ Sound(b.jobs, ts) /\ Len(ts) = Len(b.tasks)
    BY <1>1, <1>2, <1>4
  <2> HIDE DEF b
  <2>4. QED BY <2>2, <2>3, Closing
<1>10. /\ \A u \in Tops(c, j) \cap Live(c) : u \in c.fin
       /\ \E u \in Tops(c, j) \cap c.fin : c.tasks[u].position = jobs[j].position
  <2>1. \A u \in 1 .. Len(tasks) : /\ ts[u].job = tasks[u].job /\ ts[u].parent = tasks[u].parent
                                   /\ ts[u].step = tasks[u].step
                                   /\ ts[u].position = tasks[u].position
    BY <1>4 DEF SameTask
  <2>2. Tops(c, j) = Tops(b, j) BY <1>1, <1>8, <2>1 DEF Tops
  <2>3. Live(c) \subseteq Live(b) BY <1>1, <1>2, <1>8, <2>1 DEF Live, Regular
  <2>4. t \in Tops(b, j) /\ ts[t].position = jobs[j].position BY <1>1, <1>2, <1>3, <2>1 DEF Tops
  <2> HIDE DEF b, c
  <2>5. QED BY <1>3, <1>8, <2>2, <2>3, <2>4
<1> HIDE DEF b
<1>11. r = NewTask(j, js[j].tasks[js[j].position], 0, js[j].position, FALSE)
  BY <1>7 DEF SameJob
<1>12. StepRow(js, j, r)
  <2>1. j \in 1 .. Len(js) /\ js[j].position \in 1 .. Len(js[j].tasks)
    BY <1>3, <1>6, <1>7 DEF SameJob
  <2>2. StepRow(js, j, NewTask(j, js[j].tasks[js[j].position], 0, js[j].position, FALSE))
    BY <1>7, <2>1, NewStepRow
  <2>3. QED BY <1>11, <2>2
<1> HIDE DEF r, c
<1>13. NextStep(c, j, js)
  <2>1. js[j].position \in 1 .. Len(js[j].tasks) BY <1>6, <1>7 DEF SameJob
  <2>2. QED BY <1>3, <1>7, <1>8, <1>10, <2>1 DEF NextStep
<1>14. /\ Balanced(Created(c, j, js, ts2)) /\ Len(ts2) = n
       /\ Added(c, Created(c, j, js, ts2), j)
  <2>1. ts2 = Append(c.tasks, r) BY <1>8
  <2> HIDE DEF ts2
  <2>2. /\ Balanced(Created(c, j, js, ts2)) /\ Len(ts2) = Len(c.tasks) + 1
        /\ Added(c, Created(c, j, js, ts2), j)
    BY <1>9, <1>12, <1>13, <2>1, StepAdded
  <2>3. QED BY <1>8, <2>2
<1>15. \A u \in 1 .. Len(tasks) : ts2[u] = ts[u]
  <2>1. r \in Task BY <1>12 DEF StepRow, TopLevelRow
  <2>2. ts \in Seq(Task) BY <1>4, SoundTypes
  <2>3. QED BY <1>4, <2>1, <2>2, AppendProperties
<1> HIDE DEF ts2
<1>16. PendOf({m}) = {} /\ ActOf({m}) = {t} /\ BeginsOf({m}) = {} /\ EndsOf({m}) = {}
  BY SaysOne DEF Acting, Worked, JobEvent
<1>17. /\ x.queue = "x-pending" /\ x.task = n
       /\ PendOf({x}) = {n} /\ ActOf({x}) = {} /\ BeginsOf({x}) = {} /\ EndsOf({x}) = {}
  <2>1. x.queue = "x-pending" /\ x.task = n BY DEF TaskMsg
  <2> HIDE DEF x
  <2>2. QED BY <2>1, SaysOne DEF Acting, Worked, JobEvent
<1> HIDE DEF x
<1>18. Balanced(d) /\ Added(c, d, j)
  <2>1. d = Book(js, ts2, Pend \cup {n}, Act \ {t}, finished \cup {t}, Begins, Ends)
    <3> HIDE DEF n
    <3>1. QED BY <1>5, <1>16, <1>17 DEF After
  <2>2. Created(c, j, js, ts2) =
          Book(js, ts2, Pend \cup {n}, Act \ {t}, finished \cup {t}, Begins \ {j}, Ends)
    BY <1>8, <1>14 DEF Created
  <2>3. Begins \ {j} = Begins BY <1>3
  <2>4. QED BY <1>14, <2>1, <2>2, <2>3
<1>19. Fresh(m, e.sent)
  <2>1. n \notin Pend \cup Act BY <1>2, <1>4, Holders
  <2>2. QED BY <1>5, <1>17, <2>1, NoClashOne DEF Fresh, JobEvent
<1>20. \A y \in e.sent : Proper(e.tasks, y) BY <1>5, <1>17 DEF Proper, Worked
<1>21. \A u \in 1 .. Len(tasks) : SameTask(e.tasks[u], tasks[u]) BY <1>4, <1>5, <1>15
<1> HIDE DEF d
<1>22. Ordered' /\ Books' = d BY <1>18, <1>19, <1>20, <1>21, Settled DEF d, e
<1>23. QED BY <1>9, <1>18, <1>22 DEF b, c

\* The last task of the list has finished: the job is published as completed.
LEMMA LastTaskOrdered ==
  ASSUME Rows, Ordered, NEW m \in BagToSet(msgs), TaskToken(m), m.queue \in Acting,
         NEW t, t = m.task, tasks[t].parent = 0, finished' = finished \cup {t},
         NEW ts, Kept(jobs, ts), NEW j, j = tasks[t].job,
         ~(jobs[j].position + 1 <= Len(jobs[j].tasks)),
         Handle(m, AdvanceJob(ts, j))
  PROVE  LET c == Closed(Books, ts, t)
         IN Ordered' /\ Finished(Books, c, t) /\ Passed(c, Books')
<1> DEFINE x  == JobMsg(jobs, j, "Completed")
           e  == AdvanceJob(ts, j)
           b  == Books
           c  == Closed(b, ts, t)
           d  == After(m, e, finished')
<1>1. /\ b.jobs = jobs /\ b.tasks = tasks /\ b.pend = Pend /\ b.act = Act
      /\ b.fin = finished /\ b.begins = Begins /\ b.ends = Ends
      /\ Ids(b) = 1 .. Len(tasks) /\ JobIds(b) = 1 .. Len(jobs) /\ Balanced(b)
  BY BooksAre, Holders
<1>2. t \in Act /\ t \in 1 .. Len(tasks) /\ t \notin finished /\ Len(tasks) \in Nat
  BY Told, Holders, SoundTypes
<1>3. /\ j \in 1 .. Len(jobs) /\ tasks[t].position = jobs[j].position
      /\ jobs[j].position # 0 /\ jobs[j].position \in Nat
      /\ j \notin Ends /\ jobs[j].state # "Completed"
  <2>1. t \in Live(b) BY <1>1, <1>2 DEF Live
  <2> HIDE DEF b
  <2>2. QED BY <1>1, <1>2, <2>1, AtPosition
<1>4. /\ Sound(jobs, ts) /\ Len(ts) = Len(tasks)
      /\ \A u \in 1 .. Len(tasks) :
           /\ SameTask(ts[u], tasks[u]) /\ ts[u].completions = tasks[u].completions
           /\ ts[u].subjob = tasks[u].subjob
  BY DEF Kept
<1>5. e.jobs = jobs /\ e.tasks = ts /\ e.sent = {x} BY DEF AdvanceJob, Effect
<1> HIDE DEF e
<1>6. jobs[j].position = Len(jobs[j].tasks)
  <2>1. JobRow(jobs, tasks, j) /\ jobs[j] \in Job BY <1>3, Holders, SoundTypes DEF Sound
  <2>2. jobs[j].position <= Len(jobs[j].tasks) /\ Len(jobs[j].tasks) \in Nat
    BY <2>1, LenProperties DEF Job, JobRow
  <2>3. QED BY <1>3, <2>2
<1>7. /\ c.jobs = jobs /\ c.tasks = ts /\ c.pend = Pend /\ c.act = Act \ {t}
      /\ c.fin = finished \cup {t} /\ c.begins = Begins /\ c.ends = Ends
      /\ Ids(c) = 1 .. Len(tasks) /\ JobIds(c) = 1 .. Len(jobs)
  BY <1>1, <1>4 DEF Closed, Book, Ids, JobIds
<1>8. Balanced(c) /\ Finished(b, c, t)
  <2>1. \A u \in 1 .. Len(tasks) : u # 0 BY <1>2
  <2>2. \A u \in Ids(b) :
          /\ SameTask(ts[u], b.tasks[u]) /\ ts[u].subjob = b.tasks[u].subjob
          /\ ts[u].completions = IF u = b.tasks[t].parent THEN b.tasks[u].completions + 1
                                                          ELSE b.tasks[u].completions
    BY <1>1, <1>4, <2>1
  <2>3. Balanced(b) /\ t \in b.act /\ Sound(b.jobs, ts) /\ Len(ts) = Len(b.tasks)
    BY <1>1, <1>2, <1>4
  <2> HIDE DEF b
  <2>4. QED BY <2>2, <2>3, Closing
<1> HIDE DEF b, c
<1>9. LastDone(c, j)
  <2>1. SameTask(ts[t], tasks[t]) BY <1>2, <1>4
  <2>2. t \in Tops(c, j) \cap c.fin /\ c.tasks[t].position = jobs[j].position
    BY <1>2, <1>3, <1>7, <2>1 DEF Tops, SameTask
  <2>3. QED BY <1>6, <1>7, <2>2 DEF LastDone
<1> DEFINE c2 == Book(c.jobs, c.tasks, c.pend, c.act, c.fin, c.begins, c.ends \cup {j})
<1>10. Balanced(c2) /\ Passed(c, c2)
  BY <1>3, <1>7, <1>8, <1>9, JobDone
<1>11. PendOf({m}) = {} /\ ActOf({m}) = {t} /\ BeginsOf({m}) = {} /\ EndsOf({m}) = {}
  BY SaysOne DEF Acting, Worked, JobEvent
<1>12. /\ x.queue = "x-jobs" /\ x.job = j /\ x.state = "Completed" /\ ~TaskToken(x)
       /\ PendOf({x}) = {} /\ ActOf({x}) = {} /\ BeginsOf({x}) = {} /\ EndsOf({x}) = {j}
  <2>1. x.queue = "x-jobs" /\ x.job = j /\ x.state = "Completed" BY DEF JobMsg
  <2> HIDE DEF x
  <2>2. QED BY <2>1, SaysOne DEF Acting, Worked, JobEvent, TaskToken
<1> HIDE DEF x
<1>13. Balanced(d) /\ Passed(c, d)
  <2>1. d = Book(jobs, ts, Pend, Act \ {t}, finished \cup {t}, Begins, Ends \cup {j})
    BY <1>5, <1>11, <1>12 DEF After
  <2>2. QED BY <1>7, <1>10, <2>1
<1>14. Fresh(m, e.sent)
  BY <1>3, <1>5, <1>12, NoClashOne DEF Fresh, JobEvent
<1>15. \A y \in e.sent : Proper(e.tasks, y) BY <1>5, <1>12 DEF Proper, Worked
<1>16. \A u \in 1 .. Len(tasks) : SameTask(e.tasks[u], tasks[u]) BY <1>4, <1>5
<1> HIDE DEF d
<1>17. Ordered' /\ Books' = d BY <1>13, <1>14, <1>15, <1>16, Settled DEF d, e
<1>18. QED BY <1>8, <1>13, <1>17 DEF b, c

\* handle_task_completed.
LEMMA HandleTaskCompletedOrdered ==
  ASSUME Rows, Ordered, NEW m \in BagToSet(msgs), HandleTaskCompleted(m)
  PROVE  /\ Ordered'
         /\ IF tasks[m.task].parent # 0
              THEN LET c == Closed(Books, tasks', m.task)
                   IN Finished(Books, c, m.task) /\ (Passed(c, Books') \/ Books' = c)
              ELSE LET c == Closed(Books, WithState(tasks, {m.task}, "Completed"), m.task)
                   IN /\ Finished(Books, c, m.task)
                      /\ Added(c, Books', tasks[m.task].job) \/ Passed(c, Books')
<1> DEFINE t  == m.task
           ts == WithState(tasks, {t}, "Completed")
           j  == tasks[t].job
<1>1. CASE tasks[t].parent # 0 BY <1>1, SubtaskCompletedOrdered
<1>2. CASE tasks[t].parent = 0
  <2>1. /\ m.queue \in {"x-completed", "progress:Completed"} /\ finished' = finished \cup {t}
        /\ Handle(m, RouteCompleted(ts, t))
    BY DEF HandleTaskCompleted
  <2>2. m.queue \in Acting /\ TaskToken(m) BY <2>1 DEF Acting, Worked, TaskToken
  <2>3. t \in 1 .. Len(tasks) BY <2>2, Told, Holders
  <2>4. Kept(jobs, ts)
    <3>1. Kept(jobs, tasks) BY Holders, KeptAll
    <3>2. PICK T : T = {t} OBVIOUS
    <3>3. Kept(jobs, WithState(tasks, T, "Completed")) BY <3>1, KeptStates DEF TaskState
    <3>4. QED BY <3>2, <3>3
  <2> HIDE DEF ts
  <2>5. ts[t].parent = 0 /\ ts[t].job = j BY <1>2, <2>3, <2>4 DEF Kept, SameTask
  <2>6. Handle(m, AdvanceJob(ts, j)) BY <2>1, <2>5 DEF RouteCompleted
  <2> HIDE DEF t, j
  <2>7. t = m.task /\ j = tasks[t].job /\ ts = WithState(tasks, {t}, "Completed")
    BY DEF t, j, ts
  <2> DEFINE c == Closed(Books, ts, t)
  <2>8. PICK next : next = jobs[j].position + 1 OBVIOUS
  <2>9. next <= Len(jobs[j].tasks) => Ordered' /\ Finished(Books, c, t) /\ Added(c, Books', j)
    BY <1>2, <2>1, <2>2, <2>4, <2>6, <2>7, <2>8, NextTaskOrdered
  <2>10. ~(next <= Len(jobs[j].tasks)) => Ordered' /\ Finished(Books, c, t) /\ Passed(c, Books')
    BY <1>2, <2>1, <2>2, <2>4, <2>6, <2>7, <2>8, LastTaskOrdered
  <2>11. QED BY <1>2, <2>7, <2>9, <2>10
<1>3. QED BY <1>1, <1>2

----------------------------------------------------------------------------
(* handle_error: another attempt, or the failure of the job.               *)

\* A copy with one more attempt, in the books.
LEMMA RetryEntry ==
  ASSUME NEW b, Balanced(b), NEW t \in b.act, Regular(b.tasks[t]),
         NEW ts, Len(ts) = Len(b.tasks), ts \in Seq(Task),
         \A u \in Ids(b) : /\ SameTask(ts[u], b.tasks[u])
                           /\ ts[u].completions = b.tasks[u].completions
                           /\ ts[u].subjob = b.tasks[u].subjob,
         NEW r \in Task, r.job = ts[t].job, r.step = ts[t].step, r.parent = ts[t].parent,
         r.position = ts[t].position, r.subjob = ts[t].subjob,
         r.attempts = ts[t].attempts + 1,
         Sound(b.jobs, Append(ts, r))
  PROVE  LET c == Book(b.jobs, Append(ts, r), b.pend \cup {Len(ts) + 1}, b.act \ {t}, b.fin,
                       b.begins, b.ends)
         IN Balanced(c) /\ Retried(b, c, t)
<1> DEFINE ts2 == Append(ts, r)
           c   == Book(b.jobs, ts2, b.pend \cup {Len(ts) + 1}, b.act \ {t}, b.fin,
                       b.begins, b.ends)
<1>1. Sound(b.jobs, b.tasks) /\ HeldOnce(b) BY DEF Balanced
<1>2. Len(b.tasks) \in Nat /\ Len(b.jobs) \in Nat /\ t \in Ids(b)
  BY <1>1, SoundTypes DEF HeldOnce
<1>3. /\ Len(ts2) = Len(ts) + 1 /\ ts2[Len(ts) + 1] = r
      /\ \A u \in 1 .. Len(ts) : ts2[u] = ts[u]
  BY <1>2, AppendProperties
<1>4. Sound(b.jobs, ts2) OBVIOUS
<1> HIDE DEF ts2
<1>5. /\ c.jobs = b.jobs /\ c.tasks = ts2 /\ c.pend = b.pend \cup {Len(ts) + 1}
      /\ c.act = b.act \ {t} /\ c.fin = b.fin /\ c.begins = b.begins /\ c.ends = b.ends
  BY DEF Book
<1> HIDE DEF c
<1>6. Last(c) = Len(ts) + 1 /\ c.tasks[Last(c)] = r /\ Len(c.tasks) = Len(b.tasks) + 1
  BY <1>3, <1>5 DEF Last
<1>7. \A u \in Ids(b) : /\ SameTask(c.tasks[u], b.tasks[u])
                        /\ c.tasks[u].completions = b.tasks[u].completions
                        /\ c.tasks[u].subjob = b.tasks[u].subjob
  BY <1>3, <1>5 DEF Ids
<1>8. Grown(b, c)
  <2>1. Len(b.jobs) <= Len(c.jobs) /\ Len(b.tasks) <= Len(c.tasks) BY <1>2, <1>5, <1>6
  <2>2. \A k \in JobIds(b) : SameJob(c.jobs[k], b.jobs[k]) BY <1>5 DEF SameJob
  <2>3. QED BY <1>4, <1>5, <1>7, <2>1, <2>2 DEF Grown
<1>9. SameTask(ts[t], b.tasks[t]) /\ ts[t].subjob = b.tasks[t].subjob BY <1>2
<1>10. PICK x : x = c.tasks[Last(c)] OBVIOUS
<1>11. /\ x.job = b.tasks[t].job /\ x.parent = b.tasks[t].parent /\ x.step = b.tasks[t].step
       /\ x.position = b.tasks[t].position /\ x.attempts = b.tasks[t].attempts + 1
       /\ x.subjob = b.tasks[t].subjob
  BY <1>6, <1>9, <1>10 DEF SameTask
<1>12. c.pend = b.pend \cup {Last(c)} BY <1>5, <1>6
<1>13. Retried(b, c, t) BY <1>5, <1>6, <1>7, <1>8, <1>10, <1>11, <1>12 DEF Retried
<1>14. QED BY <1>13, Retry DEF c, ts2

\* create_retry_task.
LEMMA RetryOrdered ==
  ASSUME Rows, Ordered, NEW m \in BagToSet(msgs), m.queue = "progress:Failed",
         NEW t, t = m.task, finished' = finished, NEW ts, Kept(jobs, ts), CanRetry(ts[t]),
         Handle(m, RetryTask(ts, t))
  PROVE  Ordered' /\ Retried(Books, Books', t)
<1> DEFINE r   == [ts[t] EXCEPT !.state = "Pending", !.evaluated = TRUE, !.attempts = @ + 1]
           ts2 == Append(ts, r)
           n   == Len(ts) + 1
           x   == TaskMsg("x-pending", n)
           e   == RetryTask(ts, t)
           b   == Books
           d   == After(m, e, finished')
<1>1. /\ b.jobs = jobs /\ b.tasks = tasks /\ b.pend = Pend /\ b.act = Act
      /\ b.fin = finished /\ b.begins = Begins /\ b.ends = Ends
      /\ Ids(b) = 1 .. Len(tasks) /\ JobIds(b) = 1 .. Len(jobs) /\ Balanced(b)
  BY BooksAre, Holders
<1>2. t \in Act /\ t \in 1 .. Len(tasks) /\ Len(tasks) \in Nat
  BY Told, Holders, SoundTypes DEF Acting, Worked
<1>3. Workable(tasks[t])
  <2>1. Proper(tasks, m) BY DEF Ordered, AllProper
  <2>2. QED BY <2>1 DEF Proper, Worked
<1>4. /\ Sound(jobs, ts) /\ Len(ts) = Len(tasks) /\ ts \in Seq(Task)
      /\ \A u \in 1 .. Len(tasks) :
           /\ SameTask(ts[u], tasks[u]) /\ ts[u].completions = tasks[u].completions
           /\ ts[u].subjob = tasks[u].subjob
  BY SoundTypes DEF Kept
<1>5. ts[t] \in Task BY <1>2, <1>4, ElementOfSeq
<1>6. /\ r \in Task /\ r.job = ts[t].job /\ r.step = ts[t].step
      /\ r.parent = ts[t].parent /\ r.position = ts[t].position
      /\ r.subjob = ts[t].subjob /\ r.attempts = ts[t].attempts + 1
  <2> DEFINE k == ts[t].attempts + 1
  <2>1. k \in Nat
    <3>1. ts[t].attempts \in Nat BY <1>5 DEF Task
    <3>2. QED BY <3>1
  <2>2. r = [ts[t] EXCEPT !.state = "Pending", !.evaluated = TRUE, !.attempts = k] OBVIOUS
  <2> HIDE DEF k, r
  <2>3. r \in Task BY <1>5, <2>1, <2>2 DEF Task, TaskState
  <2>4. /\ r.job = ts[t].job /\ r.step = ts[t].step
        /\ r.parent = ts[t].parent /\ r.position = ts[t].position
        /\ r.subjob = ts[t].subjob /\ r.attempts = k
    BY <1>5, <2>2 DEF Task
  <2>5. QED BY <2>3, <2>4 DEF k
<1>7. e.jobs = jobs /\ e.tasks = ts2 /\ e.sent = {x} BY DEF RetryTask, Effect
<1>8. Sound(jobs, e.tasks)
  <2>1. Allowed(e, jobs, ts) BY <1>2, <1>4, RetryAllowed
  <2> HIDE DEF e
  <2>2. QED BY <1>7, <2>1 DEF Allowed
<1> HIDE DEF e, r
<1>9. /\ Len(ts2) = n /\ \A u \in 1 .. Len(tasks) : ts2[u] = ts[u]
  BY <1>4, <1>6, AppendProperties
<1> HIDE DEF b
<1> DEFINE c == Book(jobs, ts2, Pend \cup {n}, Act \ {t}, finished, Begins, Ends)
<1>10. Balanced(c) /\ Retried(b, c, t)
  <2>1. Sound(b.jobs, Append(ts, r)) BY <1>1, <1>7, <1>8
  <2>2. Regular(b.tasks[t]) BY <1>1, <1>3 DEF Workable
  <2>3. \A u \in Ids(b) : /\ SameTask(ts[u], b.tasks[u])
                          /\ ts[u].completions = b.tasks[u].completions
                          /\ ts[u].subjob = b.tasks[u].subjob
    BY <1>1, <1>4
  <2>4. Balanced(b) /\ t \in b.act /\ Len(ts) = Len(b.tasks) BY <1>1, <1>2, <1>4
  <2> DEFINE c2 == Book(b.jobs, Append(ts, r), b.pend \cup {Len(ts) + 1}, b.act \ {t}, b.fin,
                        b.begins, b.ends)
  <2>5. Balanced(c2) /\ Retried(b, c2, t)
    BY <1>4, <1>6, <2>1, <2>2, <2>3, <2>4, RetryEntry
  <2>6. QED BY <1>1, <2>5
<1> HIDE DEF ts2
<1>11. PendOf({m}) = {} /\ ActOf({m}) = {t} /\ BeginsOf({m}) = {} /\ EndsOf({m}) = {}
  BY SaysOne DEF Acting, Worked, JobEvent
<1>12. /\ x.queue = "x-pending" /\ x.task = n
       /\ PendOf({x}) = {n} /\ ActOf({x}) = {} /\ BeginsOf({x}) = {} /\ EndsOf({x}) = {}
  <2>1. x.queue = "x-pending" /\ x.task = n BY DEF TaskMsg
  <2> HIDE DEF x
  <2>2. QED BY <2>1, SaysOne DEF Acting, Worked, JobEvent
<1>13. n \notin Pend \cup Act BY <1>2, <1>4, Holders
<1> HIDE DEF x, n
<1>14. Balanced(d) /\ d = c
  <2>1. d = c BY <1>7, <1>11, <1>12 DEF After
  <2> HIDE DEF c, d
  <2>2. QED BY <1>10, <2>1
<1>15. Fresh(m, e.sent) BY <1>7, <1>12, <1>13, NoClashOne DEF Fresh, JobEvent
<1>16. \A y \in e.sent : Proper(e.tasks, y) BY <1>7, <1>12 DEF Proper, Worked
<1>17. \A u \in 1 .. Len(tasks) : SameTask(e.tasks[u], tasks[u]) BY <1>4, <1>7, <1>9
<1> HIDE DEF c
<1>18. Ordered' /\ Books' = d BY <1>14, <1>15, <1>16, <1>17, Settled DEF e
<1>19. QED BY <1>10, <1>14, <1>18 DEF b

\* handle_error.
LEMMA HandleErrorOrdered ==
  ASSUME Rows, Ordered, NEW m \in BagToSet(msgs), HandleError(m)
  PROVE  /\ Ordered'
         /\ IF JobActive(jobs[tasks[m.task].job].state) /\ CanRetry(tasks[m.task])
              THEN Retried(Books, Books', m.task) ELSE Passed(Books, Books')
<1> DEFINE t   == m.task
           j   == tasks[t].job
           ts  == WithState(tasks, {t}, "Failed")
           U   == Lineage(ts, t)
           ts2 == WithState(ts, U, "Failed")
           x   == TaskMsg("x-failed", t)
           y   == JobMsg(jobs, j, "Failed")
<1>1. /\ m.queue \in {"x-failed", "progress:Failed"} /\ finished' = finished
      /\ Handle(m, IF ~JobActive(jobs[j].state) THEN Effect(jobs, ts, {})
                   ELSE IF CanRetry(ts[t]) THEN RetryTask(ts, t)
                   ELSE Effect(jobs, ts2, {x, y}))
  BY DEF HandleError
<1>2. t \in 1 .. Len(tasks) BY <1>1, MessageRow
<1>3. Kept(jobs, ts)
  <2>1. Kept(jobs, tasks) BY Holders, KeptAll
  <2>2. PICK T : T = {t} OBVIOUS
  <2>3. Kept(jobs, WithState(tasks, T, "Failed")) BY <2>1, KeptStates DEF TaskState
  <2>4. QED BY <2>2, <2>3
<1> HIDE DEF ts
<1>4. Kept(jobs, ts2)
  <2> HIDE DEF U
  <2>1. QED BY <1>3, KeptStates DEF TaskState
<1>5. SameTask(ts[t], tasks[t]) /\ SameTask(ts2[t], tasks[t]) BY <1>2, <1>3, <1>4 DEF Kept
<1>6. Proper(tasks, m) BY DEF Ordered, AllProper
<1> HIDE DEF ts2
<1>11. CanRetry(ts[t]) <=> CanRetry(tasks[t]) BY <1>5 DEF CanRetry, SameTask
<1>7. CASE ~JobActive(jobs[j].state)
  <2>1. PICK e : e = Effect(jobs, ts, {}) OBVIOUS
  <2>2. e.jobs = jobs /\ e.tasks = ts /\ e.sent = {} BY <2>1 DEF Effect
  <2>3. Handle(m, e) BY <1>1, <1>7, <2>1
  <2>4. Kept(e.jobs, e.tasks) BY <1>3, <2>2
  <2>5. Ordered' /\ Passed(Books, Books') BY <1>1, <2>2, <2>3, <2>4, Ignored
  <2>6. QED BY <1>7, <2>5
<1>8. CASE JobActive(jobs[j].state) /\ CanRetry(ts[t])
  <2>1. Handle(m, RetryTask(ts, t)) BY <1>1, <1>8
  <2>2. CanRetry(tasks[t]) BY <1>5, <1>8 DEF CanRetry, SameTask
  <2>3. m.queue = "progress:Failed" BY <1>1, <1>6, <2>2 DEF Proper
  <2>4. Ordered' /\ Retried(Books, Books', t) BY <1>1, <1>3, <1>8, <2>1, <2>3, RetryOrdered
  <2>5. QED BY <1>8, <2>2, <2>4
<1>9. CASE JobActive(jobs[j].state) /\ ~CanRetry(ts[t])
  <2>1. PICK e : e = Effect(jobs, ts2, {x, y}) OBVIOUS
  <2>2. e.jobs = jobs /\ e.tasks = ts2 /\ e.sent = {x, y} BY <2>1 DEF Effect
  <2>3. Handle(m, e) BY <1>1, <1>9, <2>1
  <2>4. /\ x.queue = "x-failed" /\ x.task = t /\ y.queue = "x-jobs" /\ y.state = "Failed"
    BY DEF TaskMsg, JobMsg
  <2> HIDE DEF x, y
  <2>5. Kind[ts2[t].step] # "fanout" /\ ~CanRetry(ts2[t])
    <3>1. Kind[tasks[t].step] # "fanout"
      BY <1>1, <1>6 DEF Proper, Worked, Workable, Regular
    <3>2. QED BY <1>5, <1>9, <3>1 DEF SameTask, CanRetry
  <2>6. Proper(ts2, x) BY <2>4, <2>5 DEF Proper, Worked
  <2>7. Proper(ts2, y) BY <2>4 DEF Proper, Worked
  <2>8. ~TaskToken(x) /\ ~JobToken(x) /\ ~TaskToken(y) /\ ~JobToken(y)
    BY <2>4 DEF TaskToken, JobToken, JobEvent, Acting, Worked
  <2>9. \A z \in e.sent : ~TaskToken(z) /\ ~JobToken(z) /\ Proper(e.tasks, z)
    BY <2>2, <2>6, <2>7, <2>8
  <2>10. Kept(e.jobs, e.tasks) BY <1>4, <2>2
  <2>11. Ordered' /\ Passed(Books, Books') BY <1>1, <2>3, <2>9, <2>10, Ignored
  <2>12. QED BY <1>9, <1>11, <2>11
<1>10. QED BY <1>7, <1>8, <1>9

----------------------------------------------------------------------------
(* The workers: a task stays with one worker, or with one message.         *)

LEMMA PutOne ==
  ASSUME NEW B, IsABag(B), NEW x, x \notin BagToSet(B), NEW C, C = B (+) SetToBag({x})
  PROVE  /\ \A y : y \in BagToSet(C) <=> y \in BagToSet(B) \/ y = x
         /\ C[x] = 1 /\ \A y \in BagToSet(B) : C[y] = B[y]
BY DEF IsABag, BagToSet, SetToBag, (+)

LEMMA TakeOne ==
  ASSUME NEW B, IsABag(B), NEW x \in BagToSet(B), B[x] = 1
  PROVE  LET C == B (-) SetToBag({x})
         IN /\ BagToSet(C) = BagToSet(B) \ {x}
            /\ \A y \in BagToSet(C) : C[y] = B[y]
BY DEF IsABag, BagToSet, SetToBag, (-)

LEMMA Exchanged ==
  ASSUME NEW B, IsABag(B), NEW m \in BagToSet(B), B[m] = 1, NEW x, x # m,
         NEW T, \A y : y \in T <=> y = m, NEW U, \A y : y \in U <=> y = x, NEW C, C = (B (-) SetToBag(T)) (+) SetToBag(U)
  PROVE  /\ \A y : y \in BagToSet(C) <=> (y \in BagToSet(B) /\ y # m) \/ y = x
         /\ \A y \in BagToSet(C) : y # x => C[y] = B[y]
<1> DEFINE D == B (-) SetToBag(T)
<1>1. /\ IsABag(D)
      /\ \A y : y \in BagToSet(D) <=> y \in BagToSet(B) /\ y # m
      /\ \A y \in BagToSet(D) : D[y] = B[y]
  BY DEF IsABag, BagToSet, SetToBag, (-)
<1> HIDE DEF D
<1>2. /\ \A y : y \in BagToSet(C) <=> y \in BagToSet(D) \/ y = x
      /\ \A y \in BagToSet(C) : y # x => C[y] = D[y]
  <2>1. C = D (+) SetToBag(U) BY DEF D
  <2>2. PICK S : S = SetToBag(U) OBVIOUS
  <2>3. IsABag(S) /\ \A y : y \in DOMAIN S <=> y = x
    BY <2>2 DEF IsABag, SetToBag
  <2>4. \A y : y \in DOMAIN C <=> y \in DOMAIN D \/ y = x
    BY <2>1, <2>2, <2>3 DEF (+)
  <2>5. \A y \in DOMAIN C : y # x => C[y] = (IF y \in DOMAIN D THEN D[y] ELSE 0) + 0
    BY <2>1, <2>2, <2>3, <2>4 DEF (+)
  <2>6. \A y \in DOMAIN D : D[y] \in Nat BY <1>1 DEF IsABag
  <2>7. ASSUME NEW y \in DOMAIN C, y # x PROVE C[y] = D[y]
    <3>1. y \in DOMAIN D BY <2>4, <2>7
    <3>2. C[y] = D[y] + 0 BY <2>5, <2>7, <3>1
    <3>3. D[y] \in Nat BY <2>6, <3>1
    <3>4. QED BY <3>2, <3>3
  <2>8. QED BY <2>4, <2>7 DEF BagToSet
<1>3. QED BY <1>1, <1>2

\* A worker takes a task.
LEMMA WorkerStartOrdered ==
  ASSUME Rows, Ordered, NEW m \in BagToSet(msgs), WorkerStart(m)
  PROVE  Ordered' /\ Books' = Books
<1> DEFINE t == m.task
           x == TaskMsg("progress:Running", t)
           M == BagToSet(msgs)
           N == BagToSet(msgs')
           K == M \ {m}
<1>1. /\ m.queue = "worker" /\ jobs' = jobs /\ tasks' = tasks /\ finished' = finished
      /\ running' = running (+) SetToBag({t})
      /\ msgs' = (msgs (-) SetToBag({m})) (+) SetToBag({x})
  BY DEF WorkerStart, Take
<1>2. TaskToken(m) /\ m.queue \in Acting BY <1>1 DEF TaskToken, Acting, Worked
<1>3. /\ \A y \in M : TaskToken(y) \/ JobToken(y) => msgs[y] = 1
      /\ \A u \in BagToSet(running) : running[u] = 1
      /\ NoClash(M) /\ \A y \in M : TaskToken(y) => y.task \notin BagToSet(running)
  BY DEF Ordered, Exactly
<1>4. IsABag(msgs) /\ IsABag(running) BY DEF Rows
<1>5. x.queue = "progress:Running" /\ x.task = t /\ ~TaskToken(x) /\ ~JobToken(x)
  BY DEF TaskMsg, TaskToken, JobToken, JobEvent, Acting, Worked
<1>6. t \notin BagToSet(running) BY <1>2, <1>3
<1>7. /\ BagToSet(running') = BagToSet(running) \cup {t}
      /\ \A u \in BagToSet(running') : running'[u] = 1
  <2> HIDE DEF t
  <2>1. /\ \A u : u \in BagToSet(running') <=> u \in BagToSet(running) \/ u = t
        /\ running'[t] = 1 /\ \A u \in BagToSet(running) : running'[u] = running[u]
    BY <1>1, <1>4, <1>6, PutOne
  <2>2. QED BY <1>3, <2>1
<1> HIDE DEF x
<1>8. /\ N = K \cup {x}
      /\ \A y \in N : y # x => msgs'[y] = msgs[y]
  <2>1. msgs[m] = 1 /\ x # m BY <1>1, <1>2, <1>3, <1>5
  <2>2. /\ \A y : y \in N <=> (y \in M /\ y # m) \/ y = x
        /\ \A y \in N : y # x => msgs'[y] = msgs[y]
    <3>1. IsABag(msgs) /\ m \in BagToSet(msgs) /\ msgs[m] = 1 /\ x # m BY <1>4, <2>1
    <3>6. PICK T : T = {m} OBVIOUS
    <3>7. PICK U : U = {x} OBVIOUS
    <3>2. msgs' = (msgs (-) SetToBag(T)) (+) SetToBag(U) BY <1>1, <3>6, <3>7
    <3>8. (\A y : y \in T <=> y = m) /\ (\A y : y \in U <=> y = x) BY <3>6, <3>7
    <3>3. \A y : y \in BagToSet(msgs') <=> (y \in BagToSet(msgs) /\ y # m) \/ y = x
      BY <3>1, <3>2, <3>8, Exchanged
    <3>4. ASSUME NEW y \in BagToSet(msgs'), y # x PROVE msgs'[y] = msgs[y]
      BY <3>1, <3>2, <3>4, <3>8, Exchanged
    <3>5. QED BY <3>3, <3>4
  <2>3. \A y : y \in K <=> y \in M /\ y # m OBVIOUS
  <2> HIDE DEF M, N, K
  <2>4. QED BY <2>2, <2>3
<1>9. /\ PendOf(N) = PendOf(M) \ PendOf({m}) /\ ActOf(N) = ActOf(M) \ ActOf({m})
      /\ BeginsOf(N) = BeginsOf(M) \ BeginsOf({m}) /\ EndsOf(N) = EndsOf(M) \ EndsOf({m})
  <2>1. /\ PendOf(N) = PendOf(K) \cup PendOf({x}) /\ ActOf(N) = ActOf(K) \cup ActOf({x})
        /\ BeginsOf(N) = BeginsOf(K) \cup BeginsOf({x}) /\ EndsOf(N) = EndsOf(K) \cup EndsOf({x})
    <3>1. PICK S : S = {x} OBVIOUS
    <3> HIDE DEF K
    <3>2. N = K \cup S BY <1>8, <3>1
    <3> HIDE DEF N
    <3>3. /\ PendOf(N) = PendOf(K) \cup PendOf(S) /\ ActOf(N) = ActOf(K) \cup ActOf(S)
          /\ BeginsOf(N) = BeginsOf(K) \cup BeginsOf(S) /\ EndsOf(N) = EndsOf(K) \cup EndsOf(S)
      BY <3>2, Says
    <3>4. QED BY <3>1, <3>3
  <2>2. PendOf({x}) = {} /\ ActOf({x}) = {} /\ BeginsOf({x}) = {} /\ EndsOf({x}) = {}
    BY <1>5, Silent
  <2>3. /\ PendOf(K) = PendOf(M) \ PendOf({m}) /\ ActOf(K) = ActOf(M) \ ActOf({m})
        /\ BeginsOf(K) = BeginsOf(M) \ BeginsOf({m}) /\ EndsOf(K) = EndsOf(M) \ EndsOf({m})
    BY <1>3, Unsaid
  <2>4. QED BY <2>1, <2>2, <2>3
<1>10. PendOf({m}) = {} /\ ActOf({m}) = {t} /\ BeginsOf({m}) = {} /\ EndsOf({m}) = {}
  BY <1>1, SaysOne DEF Acting, Worked, JobEvent
<1>11. t \in ActOf(M) BY <1>2, Says
<1>12. Pend' = Pend /\ Act' = Act /\ Begins' = Begins /\ Ends' = Ends
  <2>1. Act' = ActOf(N) \cup BagToSet(running') BY DEF Act
  <2>2. Act = ActOf(M) \cup BagToSet(running) BY DEF Act
  <2>3. ActOf(N) = ActOf(M) \ {t} BY <1>9, <1>10
  <2>4. Act' = Act BY <1>7, <1>11, <2>1, <2>2, <2>3
  <2>5. Pend' = PendOf(N) /\ Begins' = BeginsOf(N) /\ Ends' = EndsOf(N) BY DEF Pend, Begins, Ends
  <2>6. Pend = PendOf(M) /\ Begins = BeginsOf(M) /\ Ends = EndsOf(M) BY DEF Pend, Begins, Ends
  <2>7. QED BY <1>9, <1>10, <2>4, <2>5, <2>6
<1>13. Books' = Books BY <1>1, <1>12 DEF Books
<1>14. Balanced(Books)' BY <1>13 DEF Ordered
<1> HIDE DEF K
<1>15. \A y \in N : TaskToken(y) \/ JobToken(y) => y \in M /\ y # m /\ msgs'[y] = msgs[y]
  BY <1>5, <1>8 DEF K
<1>16. Exactly'
  <2>1. \A y \in N : TaskToken(y) \/ JobToken(y) => msgs'[y] = 1 BY <1>3, <1>15
  <2>2. NoClash(N)
    <3>1. \A y, z : Clash(y, z) => (TaskToken(y) \/ JobToken(y)) /\ (TaskToken(z) \/ JobToken(z))
      BY DEF Clash
    <3>2. QED BY <1>3, <1>15, <3>1 DEF NoClash
  <2>3. ASSUME NEW y \in N, TaskToken(y) PROVE y.task \notin BagToSet(running')
    <3>1. y \in M /\ y # m BY <1>15, <2>3
    <3>2. y.task # t BY <1>2, <1>3, <2>3, <3>1 DEF NoClash, Clash
    <3>3. y.task \notin BagToSet(running) BY <1>3, <2>3, <3>1
    <3>4. QED BY <1>7, <3>2, <3>3
  <2>4. QED BY <1>7, <2>1, <2>2, <2>3 DEF Exactly
<1>17. AllProper'
  <2>1. Proper(tasks, m) /\ \A y \in M : Proper(tasks, y) BY DEF Ordered, AllProper
  <2>2. Workable(tasks[t]) BY <1>1, <2>1 DEF Proper, Worked
  <2>3. Proper(tasks, x) BY <1>5, <2>2 DEF Proper, Worked
  <2>4. \A y \in N : Proper(tasks, y) BY <1>8, <2>1, <2>3 DEF K
  <2>5. \A u \in BagToSet(running') : Workable(tasks[u])
    BY <1>7, <2>2 DEF Ordered, AllProper
  <2>6. QED BY <1>1, <2>4, <2>5 DEF AllProper
<1>18. QED BY <1>13, <1>14, <1>16, <1>17 DEF Ordered

\* A worker reports a task, or dies with it.
LEMMA WorkerLeavesOrdered ==
  ASSUME Rows, Ordered, NEW t \in BagToSet(running),
         NEW q \in {"progress:Completed", "progress:Failed", "x-redeliveries"},
         WorkerLeaves(t, q)
  PROVE  Ordered' /\ Books' = Books
<1> DEFINE x == TaskMsg(q, t)
           M == BagToSet(msgs)
           N == BagToSet(msgs')
<1>1. /\ jobs' = jobs /\ tasks' = tasks /\ finished' = finished
      /\ running' = running (-) SetToBag({t}) /\ msgs' = msgs (+) SetToBag({x})
  BY DEF WorkerLeaves
<1>2. /\ x.queue = q /\ x.task = t /\ TaskToken(x) /\ ~JobToken(x)
      /\ x.queue \in Acting /\ x.queue \in Worked
  BY DEF TaskMsg, TaskToken, JobToken, JobEvent, Acting, Worked
<1>3. /\ \A y \in M : TaskToken(y) \/ JobToken(y) => msgs[y] = 1
      /\ \A u \in BagToSet(running) : running[u] = 1
      /\ NoClash(M) /\ \A y \in M : TaskToken(y) => y.task \notin BagToSet(running)
  BY DEF Ordered, Exactly
<1>4. IsABag(msgs) /\ IsABag(running) BY DEF Rows
<1>5. x \notin M BY <1>2, <1>3
<1>6. /\ BagToSet(running') = BagToSet(running) \ {t}
      /\ \A u \in BagToSet(running') : running'[u] = 1
  <2>1. running[t] = 1 BY <1>3
  <2>2. /\ BagToSet(running') = BagToSet(running) \ {t}
        /\ \A u \in BagToSet(running') : running'[u] = running[u]
    BY <1>1, <1>4, <2>1, TakeOne
  <2>3. QED BY <1>3, <2>2
<1> HIDE DEF x
<1>7. N = M \cup {x} /\ msgs'[x] = 1 /\ \A y \in M : msgs'[y] = msgs[y]
  <2>1. /\ \A y : y \in N <=> y \in M \/ y = x
        /\ msgs'[x] = 1 /\ \A y \in M : msgs'[y] = msgs[y]
    BY <1>1, <1>4, <1>5, PutOne
  <2> HIDE DEF M, N
  <2>2. QED BY <2>1
<1>8. /\ PendOf(N) = PendOf(M) /\ ActOf(N) = ActOf(M) \cup {t}
      /\ BeginsOf(N) = BeginsOf(M) /\ EndsOf(N) = EndsOf(M)
  <2>1. PICK S : S = {x} OBVIOUS
  <2>2. PendOf({x}) = {} /\ ActOf({x}) = {t} /\ BeginsOf({x}) = {} /\ EndsOf({x}) = {}
    BY <1>2, SaysOne DEF Acting, Worked, JobToken
  <2> HIDE DEF M
  <2>3. N = M \cup S BY <1>7, <2>1
  <2> HIDE DEF N
  <2>4. /\ PendOf(N) = PendOf(M) \cup PendOf(S) /\ ActOf(N) = ActOf(M) \cup ActOf(S)
        /\ BeginsOf(N) = BeginsOf(M) \cup BeginsOf(S) /\ EndsOf(N) = EndsOf(M) \cup EndsOf(S)
    BY <2>3, Says
  <2>5. QED BY <2>1, <2>2, <2>4
<1>9. Pend' = Pend /\ Act' = Act /\ Begins' = Begins /\ Ends' = Ends
  <2>1. Act' = ActOf(N) \cup BagToSet(running') BY DEF Act
  <2>2. Act = ActOf(M) \cup BagToSet(running) BY DEF Act
  <2>3. Act' = Act BY <1>6, <1>8, <2>1, <2>2
  <2>4. Pend' = PendOf(N) /\ Begins' = BeginsOf(N) /\ Ends' = EndsOf(N) BY DEF Pend, Begins, Ends
  <2>5. Pend = PendOf(M) /\ Begins = BeginsOf(M) /\ Ends = EndsOf(M) BY DEF Pend, Begins, Ends
  <2>6. QED BY <1>8, <2>3, <2>4, <2>5
<1>10. Books' = Books BY <1>1, <1>9 DEF Books
<1>11. Balanced(Books)' BY <1>10 DEF Ordered
<1>12. Exactly'
  <2>1. \A y \in N : TaskToken(y) \/ JobToken(y) => msgs'[y] = 1 BY <1>3, <1>7
  <2>2. NoClash(N)
    <3>1. ASSUME NEW y \in M PROVE ~Clash(x, y) /\ ~Clash(y, x) BY <1>2, <1>3 DEF Clash
    <3>2. QED BY <1>3, <1>7, <3>1 DEF NoClash
  <2>3. \A y \in N : TaskToken(y) => y.task \notin BagToSet(running')
    BY <1>2, <1>3, <1>6, <1>7
  <2>4. QED BY <1>6, <2>1, <2>2, <2>3 DEF Exactly
<1>13. AllProper'
  <2>1. /\ \A y \in M : Proper(tasks, y)
        /\ \A u \in BagToSet(running) : Workable(tasks[u])
    BY DEF Ordered, AllProper
  <2>2. Proper(tasks, x) BY <1>2, <2>1 DEF Proper, Worked
  <2>3. QED BY <1>1, <1>6, <1>7, <2>1, <2>2 DEF AllProper
<1>14. QED BY <1>10, <1>11, <1>12, <1>13 DEF Ordered

----------------------------------------------------------------------------
(* The invariant.                                                          *)

\* A submitted job waits for its Pending event.
LEMMA InitOrdered == Init => Ordered
<1> SUFFICES ASSUME Init PROVE Ordered OBVIOUS
<1> DEFINE x == JobMsg(jobs, 1, "Pending")
           b == Books
<1>1. Rows BY InitRows
<1>2. PICK w \in Workflows : jobs = <<NewJob(w, 0)>> BY DEF Init
<1>3. /\ Len(jobs) = 1 /\ jobs[1].position = 0 /\ jobs[1].parent = 0
      /\ jobs[1].state = "Pending" /\ jobs[1].tasks = w
  BY <1>2 DEF NewJob
<1>4. Len(w) \in Nat /\ Len(w) # 0
  BY WorkflowAssumption, LenProperties, EmptySeq
<1>5. tasks = <<>> /\ Len(tasks) = 0 /\ finished = {} BY EmptySeq DEF Init
<1>6. /\ BagToSet(msgs) = {x} /\ msgs[x] = 1 /\ BagToSet(running) = {}
  BY DEF Init, SetToBag, BagToSet, EmptyBag
<1>7. x.queue = "x-jobs" /\ x.state = "Pending" /\ x.job = 1 /\ ~TaskToken(x)
  BY DEF JobMsg, TaskToken, Acting, Worked
<1> HIDE DEF x
<1>8. Pend = {} /\ Act = {} /\ Begins = {1} /\ Ends = {}
  <2>1. PendOf({x}) = {} /\ ActOf({x}) = {} /\ BeginsOf({x}) = {1} /\ EndsOf({x}) = {}
    BY <1>7, SaysOne DEF Acting, Worked, JobEvent
  <2>2. QED BY <1>6, <2>1 DEF Pend, Act, Begins, Ends
<1>9. /\ b.jobs = jobs /\ b.tasks = tasks /\ b.pend = {} /\ b.act = {}
      /\ b.fin = {} /\ b.begins = {1} /\ b.ends = {}
      /\ Ids(b) = {} /\ JobIds(b) = {1}
  BY <1>3, <1>5, <1>8, BooksAre
<1> HIDE DEF b
<1>10. Exactly
  <2>1. NoClash({x}) BY NoClashOne
  <2>2. QED BY <1>6, <1>7, <2>1 DEF Exactly
<1>11. AllProper BY <1>6, <1>7 DEF AllProper, Proper, Worked
<1>12. Balanced(b)
  <2>1. Sound(b.jobs, b.tasks) BY <1>1, <1>9 DEF Rows
  <2>2. HeldOnce(b) /\ Counts(b) BY <1>9 DEF HeldOnce, Counts
  <2>3. Tops(b, 1) = {} BY <1>9 DEF Tops
  <2>4. LineOf(b, 1) BY <1>3, <1>9, <2>3 DEF LineOf
  <2>5. Line(b) BY <1>9, <2>4 DEF Line
  <2>6. Nesting(b) BY <1>3, <1>9 DEF Nesting
  <2>7. Budget(b)
    <3>1. SUFFICES ASSUME NEW j \in Nat, NEW p \in 0 .. Len(b.tasks), NEW q \in Nat, NEW s \in Step
                   PROVE  /\ Cardinality(Place(b, j, p, s, q, 0)) <= Room(b, p, s)
                          /\ \A n \in Nat : Cardinality(Place(b, j, p, s, q, n + 1))
                                              <= Cardinality(Place(b, j, p, s, q, n) \ Live(b))
      BY DEF Budget
    <3>2. \A n : Place(b, j, p, s, q, n) = {} BY <1>9 DEF Place
    <3>3. Cardinality({}) = 0 BY FS_EmptySet
    <3>4. p = 0 BY <1>5, <1>9
    <3>5. Room(b, p, s) = 1 BY <3>4 DEF Room
    <3>6. \A n \in Nat : Place(b, j, p, s, q, n) \ Live(b) = {} BY <3>2
    <3>7. Cardinality(Place(b, j, p, s, q, 0)) <= Room(b, p, s) BY <3>2, <3>3, <3>5
    <3>8. ASSUME NEW n \in Nat
          PROVE  Cardinality(Place(b, j, p, s, q, n + 1)) <= Cardinality(Place(b, j, p, s, q, n) \ Live(b))
      <4>1. Place(b, j, p, s, q, n + 1) = {} BY <3>2
      <4>2. Place(b, j, p, s, q, n) \ Live(b) = {} BY <3>6
      <4>3. PICK P : P = Place(b, j, p, s, q, n + 1) OBVIOUS
      <4>4. PICK Q : Q = Place(b, j, p, s, q, n) \ Live(b) OBVIOUS
      <4>5. Cardinality(P) = 0 /\ Cardinality(Q) = 0 BY <3>3, <4>1, <4>2, <4>3, <4>4
      <4>6. Cardinality(P) <= Cardinality(Q) BY <4>5
      <4>7. QED BY <4>3, <4>4, <4>6
    <3>9. QED BY <3>7, <3>8
  <2>8. QED BY <2>1, <2>2, <2>5, <2>6, <2>7 DEF Balanced
<1>13. QED BY <1>10, <1>11, <1>12 DEF Ordered, b

\* Every step of the coordinator or a worker preserves the invariant; a user takes
\* none.
LEMMA NextOrdered ==
  ASSUME LeftAlone, Rows, Ordered, [Next]_vars
  PROVE  Ordered'
<1>1. ASSUME NEW m \in BagToSet(msgs), HandleJobEvent(m) PROVE Ordered'
  <2>1. CASE StartJob(m) BY <2>1, StartJobOrdered
  <2>2. CASE CompleteJob(m) BY <2>2, CompleteJobOrdered
  <2>3. CASE FailJob(m) BY <2>3, FailJobOrdered
  <2>4. CASE HandleCancel(m) BY <2>4, HandleCancelOrdered
  <2>5. CASE RestartJob(m) \/ MarkJobAsRunning(m) \/ IgnoreScheduled(m)
    BY <2>5, OtherEventsOrdered
  <2>6. QED BY <1>1, <2>1, <2>2, <2>3, <2>4, <2>5 DEF HandleJobEvent
<1>2. ASSUME NEW m \in BagToSet(msgs), HandleTaskMessage(m) PROVE Ordered'
  BY <1>2, HandlePendingTaskOrdered, HandleTaskCompletedOrdered, HandleErrorOrdered,
     HandleTaskProgressOrdered, HandleRedeliveredOrdered DEF HandleTaskMessage
<1>3. ASSUME NEW m \in BagToSet(msgs), WorkerStart(m) PROVE Ordered'
  BY <1>3, WorkerStartOrdered
<1>4. ASSUME NEW t \in BagToSet(running), WorkerFinish(t) \/ WorkerCrash(t) PROVE Ordered'
  BY <1>4, WorkerLeavesOrdered DEF WorkerFinish, WorkerCrash
<1>5. ~User
  <2>1. ASSUME NEW j, NEW st PROVE ~UserCall(j, st)
    BY DEF UserCall, LeftAlone, Rows
  <2>2. QED BY <2>1 DEF User, CancelJob, RequestRestart
<1>6. ASSUME UNCHANGED vars PROVE Ordered'
  <2>1. /\ jobs' = jobs /\ tasks' = tasks /\ msgs' = msgs /\ running' = running
        /\ finished' = finished
    BY <1>6 DEF vars
  <2>2. Books' = Books BY <2>1 DEF Books, Pend, Act, Begins, Ends
  <2>3. Exactly' /\ AllProper' BY <2>1 DEF Ordered, Exactly, AllProper
  <2>4. QED BY <2>2, <2>3 DEF Ordered
<1>7. QED BY <1>1, <1>2, <1>3, <1>4, <1>5, <1>6 DEF Next, Coordinator, Worker

\* The books of a job left alone balance throughout.
LEMMA OrderedThroughout ==
  ASSUME LeftAlone
  PROVE  Spec => [](Rows /\ Ordered)
<1>1. Init => Rows /\ Ordered BY InitRows, InitOrdered
<1>2. Rows /\ Ordered /\ [Next]_vars => (Rows /\ Ordered)'
  BY NextRows, NextOrdered
<1>3. QED BY <1>1, <1>2, PTL DEF Spec

----------------------------------------------------------------------------
(* The list of a job.                                                      *)

\* Every step of a job left alone is created after the step in front of it has
\* completed.
LEMMA OrderedStepsInOrder == Ordered => StepsInOrder
<1> SUFFICES ASSUME Ordered PROVE StepsInOrder OBVIOUS
<1> DEFINE b == Books
<1>1. /\ b.jobs = jobs /\ b.tasks = tasks /\ b.fin = finished
      /\ Ids(b) = 1 .. Len(tasks) /\ JobIds(b) = 1 .. Len(jobs)
      /\ DOMAIN jobs = 1 .. Len(jobs) /\ DOMAIN tasks = 1 .. Len(tasks)
      /\ Sound(jobs, tasks)
  BY BooksAre, Holders, SoundTypes
<1> HIDE DEF b
<1>2. ASSUME NEW j \in DOMAIN jobs, NEW t \in TopLevel(j), tasks[t].position > 1
      PROVE  \E u \in TopLevel(j) \cap finished : tasks[u].position = tasks[t].position - 1
  <2>1. LineOf(b, j) BY <1>1, Holders DEF b
  <2>2. TopLevel(j) = Tops(b, j) BY <1>1 DEF TopLevel, Tops
  <2>3. t \in 1 .. Len(tasks) BY <1>1 DEF TopLevel
  <2>4. tasks[t] \in Task /\ jobs[j] \in Job BY <1>1, <2>3, SoundTypes
  <2>5. tasks[t].position \in Nat /\ jobs[j].position \in Nat BY <2>4 DEF Task, Job
  <2>6. tasks[t].position <= jobs[j].position BY <1>1, <1>2, <2>1, <2>2 DEF LineOf
  <2>7. PICK q : q = tasks[t].position - 1 OBVIOUS
  <2>8. q \in 1 .. jobs[j].position /\ q < jobs[j].position BY <1>2, <2>5, <2>6, <2>7
  <2>9. \E u \in Tops(b, j) \cap b.fin : b.tasks[u].position = q
    BY <1>1, <2>1, <2>8 DEF LineOf
  <2>10. QED BY <1>1, <2>2, <2>7, <2>9
<1>3. QED BY <1>2 DEF StepsInOrder

\* A job is only completed when the last step of its list has, and then they all have.
LEMMA OrderedAllDone == Ordered => CompletedMeansAllDone
<1> SUFFICES ASSUME Ordered PROVE CompletedMeansAllDone OBVIOUS
<1> DEFINE b == Books
<1>1. /\ b.jobs = jobs /\ b.tasks = tasks /\ b.fin = finished
      /\ Ids(b) = 1 .. Len(tasks) /\ JobIds(b) = 1 .. Len(jobs)
      /\ DOMAIN jobs = 1 .. Len(jobs) /\ DOMAIN tasks = 1 .. Len(tasks)
      /\ Sound(jobs, tasks)
  BY BooksAre, Holders, SoundTypes
<1> HIDE DEF b
<1>2. ASSUME NEW j \in DOMAIN jobs, jobs[j].state = "Completed",
             NEW q \in 1 .. Len(jobs[j].tasks)
      PROVE  \E u \in TopLevel(j) \cap finished : tasks[u].position = q
  <2>1. LineOf(b, j) BY <1>1, Holders DEF b
  <2>2. TopLevel(j) = Tops(b, j) BY <1>1 DEF TopLevel, Tops
  <2>3. LastDone(b, j) BY <1>1, <1>2, <2>1 DEF LineOf
  <2>4. jobs[j].position = Len(jobs[j].tasks) BY <1>1, <2>3 DEF LastDone
  <2>5. CASE q = jobs[j].position
    <3>1. \E u \in Tops(b, j) \cap b.fin : b.tasks[u].position = q
      BY <1>1, <2>3, <2>5 DEF LastDone
    <3>2. QED BY <1>1, <2>2, <3>1
  <2>6. CASE q # jobs[j].position
    <3>1. jobs[j] \in Job BY <1>1, SoundTypes
    <3>2. jobs[j].position \in Nat BY <3>1 DEF Job
    <3>3. q \in 1 .. jobs[j].position /\ q < jobs[j].position BY <2>4, <2>6, <3>2
    <3>4. \E u \in Tops(b, j) \cap b.fin : b.tasks[u].position = q
      BY <1>1, <2>1, <3>3 DEF LineOf
    <3>5. QED BY <1>1, <2>2, <3>4
  <2>7. QED BY <2>5, <2>6
<1>3. QED BY <1>2 DEF CompletedMeansAllDone

\* A subjob task is only completed by the job it created.
LEMMA OrderedAwaitsSubjob == Ordered => ParentAwaitsSubjob
<1> SUFFICES ASSUME Ordered, NEW t \in finished, Kind[tasks[t].step] = "subjob",
                    tasks[t].step \notin Skipped
             PROVE  tasks[t].subjob # 0 /\ jobs[tasks[t].subjob].state = "Completed"
  BY DEF ParentAwaitsSubjob
<1>1. Nested(tasks[t]) /\ t \in 1 .. Len(tasks) BY Holders DEF Nested
<1>2. Nesting(Books) BY Holders DEF Balanced
<1>3. QED BY <1>1, <1>2, BooksAre DEF Nesting

----------------------------------------------------------------------------
(* The counter of a fan-in.                                                *)

\* Two disjoint sets.
LEMMA Both ==
  ASSUME NEW n \in Nat, NEW S, S \subseteq 1 .. n, NEW T, T \subseteq S,
         NEW U, \A x : x \in U <=> x \in S /\ x \notin T
  PROVE  /\ Cardinality(S) = Cardinality(T) + Cardinality(U)
         /\ Cardinality(T) \in Nat /\ Cardinality(U) \in Nat
<1>1. IsFiniteSet(T) /\ IsFiniteSet(U) /\ Cardinality(T) \in Nat /\ Cardinality(U) \in Nat
  <2>1. T \subseteq 1 .. n /\ U \subseteq 1 .. n OBVIOUS
  <2>2. QED BY <2>1, FiniteIds
<1>2. T \cup U = S /\ T \cap U = {} OBVIOUS
<1>3. Cardinality(T \cup U) = Cardinality(T) + Cardinality(U) - Cardinality(T \cap U)
  BY <1>1, FS_Union
<1>4. Cardinality(T \cap U) = 0 BY <1>2, FS_EmptySet
<1>5. PICK x \in Nat, y \in Nat : x = Cardinality(T) /\ y = Cardinality(U) BY <1>1
<1>6. PICK z : z = Cardinality(T \cap U) OBVIOUS
<1>7. z = 0 BY <1>4, <1>6
<1>8. Cardinality(S) = x + y - z BY <1>2, <1>3, <1>5, <1>6
<1>9. Cardinality(S) = x + y BY <1>5, <1>7, <1>8
<1>10. QED BY <1>5, <1>9

\* As many subtasks of a definition as children of it have finished: neither it nor
\* the other definitions can have more, and together they have all.
LEMMA OrderedFanIn == Ordered => FanInExact
<1> SUFFICES ASSUME Ordered, NEW t \in DOMAIN tasks, Kind[tasks[t].step] = "fanout"
             PROVE  /\ tasks[t].completions = Cardinality(Subtasks(t) \cap finished)
                    /\ t \in finished /\ tasks[t].step \notin Skipped =>
                         \A s \in Step :
                           Cardinality({u \in Subtasks(t) \cap finished : tasks[u].step = s})
                             = Cardinality({i \in DOMAIN Children[tasks[t].step] :
                                              Children[tasks[t].step][i] = s})
  BY DEF FanInExact
<1> DEFINE b == Books
           F == Kids(b, t) \cap b.fin
           a == tasks[t].step
<1>1. /\ b.jobs = jobs /\ b.tasks = tasks /\ b.fin = finished
      /\ Ids(b) = 1 .. Len(tasks) /\ DOMAIN tasks = 1 .. Len(tasks)
      /\ Len(tasks) \in Nat /\ Sound(jobs, tasks)
  BY BooksAre, Holders, SoundTypes
<1>2. CountsOf(b, t)
  <2>1. Counts(b) BY Holders DEF Balanced
  <2>2. QED BY <1>1, <2>1 DEF Counts
<1>3. /\ a \in Step /\ \A u \in 1 .. Len(tasks) : tasks[u].step \in Step
  <2>1. \A u \in 1 .. Len(tasks) : tasks[u] \in Task BY <1>1, SoundTypes
  <2>2. QED BY <1>1, <2>1 DEF Task
<1> HIDE DEF b
<1>4. Subtasks(t) \cap finished = F /\ F \subseteq Live(b) /\ F \subseteq 1 .. Len(tasks)
  BY <1>1 DEF Subtasks, Kids, Live
<1>5. tasks[t].completions = Cardinality(F) BY <1>1, <1>2 DEF CountsOf
<1>6. ASSUME t \in finished, a \notin Skipped, NEW s \in Step
      PROVE  Cardinality({u \in F : tasks[u].step = s})
               = Cardinality({i \in DOMAIN Children[a] : Children[a][i] = s})
  <2> DEFINE T == {u \in F : tasks[u].step = s}
             U == F \ T
             D == {s}
             E == Step \ {s}
             I == SlotsIn(a, D)
             K == SlotsIn(a, E)
  <2>1. Cardinality(F) = Len(Children[a])
    BY <1>1, <1>2, <1>5, <1>6 DEF CountsOf, FanOut
  <2>2. /\ Children[a] \in Seq(Step) /\ DOMAIN Children[a] = 1 .. Len(Children[a])
        /\ Len(Children[a]) \in Nat /\ SlotsIn(a, Step) = 1 .. Len(Children[a])
        /\ Cardinality(SlotsIn(a, Step)) = Len(Children[a])
    BY <1>3, ChildrenOf
  <2>3. /\ Cardinality(F) = Cardinality(T) + Cardinality(U)
        /\ Cardinality(T) \in Nat /\ Cardinality(U) \in Nat
    <3>1. T \subseteq F /\ \A x : x \in U <=> x \in F /\ x \notin T OBVIOUS
    <3>2. F \subseteq 1 .. Len(tasks) /\ Len(tasks) \in Nat BY <1>1, <1>4
    <3> HIDE DEF F, T, U
    <3>3. QED BY <3>1, <3>2, Both
  <2>4. /\ Len(Children[a]) = Cardinality(I) + Cardinality(K)
        /\ Cardinality(I) \in Nat /\ Cardinality(K) \in Nat
    <3>1. PICK S : S = SlotsIn(a, Step) OBVIOUS
    <3>2. S \subseteq 1 .. Len(Children[a]) /\ Cardinality(S) = Len(Children[a])
      BY <2>2, <3>1
    <3>3. I \subseteq S /\ \A x : x \in K <=> x \in S /\ x \notin I
      <4>1. \A i \in DOMAIN Children[a] : Children[a][i] \in Step BY <2>2, ElementOfSeq
      <4>2. QED BY <3>1, <4>1 DEF SlotsIn
    <3> HIDE DEF I, K
    <3>4. PICK n \in Nat : n = Len(Children[a]) BY <2>2
    <3>5. S \subseteq 1 .. n /\ Cardinality(S) = n BY <3>2, <3>4
    <3>6. /\ Cardinality(S) = Cardinality(I) + Cardinality(K)
          /\ Cardinality(I) \in Nat /\ Cardinality(K) \in Nat
      BY <3>3, <3>5, Both
    <3>7. QED BY <3>4, <3>5, <3>6
  <2>5. Cardinality(T) <= Cardinality(I)
    <3>1. PICK A : A = {u \in Kids(b, t) \cap Live(b) : b.tasks[u].step \in D} OBVIOUS
    <3>2. D \in SUBSET Step OBVIOUS
    <3> HIDE DEF D
    <3>3. Cardinality(A) <= Cardinality(I) BY <1>1, <1>2, <3>1, <3>2 DEF CountsOf
    <3>4. T \subseteq A BY <1>1, <1>4, <3>1 DEF D
    <3>5. A \subseteq 1 .. Len(tasks) BY <1>1, <3>1 DEF Kids
    <3> HIDE DEF T, I
    <3>6. Cardinality(T) <= Cardinality(A) BY <1>1, <3>4, <3>5, Fewer
    <3>7. Cardinality(A) \in Nat BY <1>1, <3>5, FiniteIds
    <3>8. QED BY <2>3, <2>4, <3>3, <3>6, <3>7
  <2>6. Cardinality(U) <= Cardinality(K)
    <3>1. PICK A : A = {u \in Kids(b, t) \cap Live(b) : b.tasks[u].step \in E} OBVIOUS
    <3>2. E \in SUBSET Step OBVIOUS
    <3> HIDE DEF E
    <3>3. Cardinality(A) <= Cardinality(K) BY <1>1, <1>2, <3>1, <3>2 DEF CountsOf
    <3>4. U \subseteq A BY <1>1, <1>3, <1>4, <3>1 DEF E
    <3>5. A \subseteq 1 .. Len(tasks) BY <1>1, <3>1 DEF Kids
    <3> HIDE DEF U, K
    <3>6. Cardinality(U) <= Cardinality(A) BY <1>1, <3>4, <3>5, Fewer
    <3>7. Cardinality(A) \in Nat BY <1>1, <3>5, FiniteIds
    <3>8. QED BY <2>3, <2>4, <3>3, <3>6, <3>7
  <2>7. I = {i \in DOMAIN Children[a] : Children[a][i] = s} BY DEF SlotsIn
  <2> HIDE DEF T, U, I, K, F
  <2>8. Cardinality(T) = Cardinality(I)
    <3>1. PICK x \in Nat, y \in Nat, z \in Nat, w \in Nat :
            /\ x = Cardinality(T) /\ y = Cardinality(U)
            /\ z = Cardinality(I) /\ w = Cardinality(K)
      BY <2>3, <2>4
    <3>2. x + y = z + w BY <2>1, <2>3, <2>4, <3>1
    <3>3. x <= z /\ y <= w BY <2>5, <2>6, <3>1
    <3>4. x = z BY <3>2, <3>3
    <3>5. QED BY <3>1, <3>4
  <2>9. QED BY <2>7, <2>8 DEF T
<1>7. QED BY <1>4, <1>5, <1>6

----------------------------------------------------------------------------
(* Retries and the task in flight.                                         *)

\* One place of the workflow has as many copies of an attempt as slots, at most.
LEMMA CopiesOfAttempt ==
  ASSUME NEW b, Balanced(b), NEW j \in Nat, NEW p \in 0 .. Len(b.tasks), NEW s \in Step,
         NEW q \in Nat
  PROVE  \A n \in Nat : Cardinality(Place(b, j, p, s, q, n)) <= Room(b, p, s)
<1> DEFINE R == Room(b, p, s)
           P(n) == Place(b, j, p, s, q, n)
           Bad == {n \in Nat : ~(Cardinality(P(n)) <= R)}
<1>1. Sound(b.jobs, b.tasks) /\ Budget(b) BY DEF Balanced
<1>2. Len(b.tasks) \in Nat BY <1>1, SoundTypes
<1>3. R \in Nat BY <1>1, NoRow
<1>4. \A n : P(n) \subseteq 1 .. Len(b.tasks) BY DEF Place, Ids
<1>5. \A n : Cardinality(P(n)) \in Nat
  <2> HIDE DEF P
  <2>1. QED BY <1>2, <1>4, FiniteIds
<1>6. /\ Cardinality(P(0)) <= R
      /\ \A n \in Nat : Cardinality(P(n + 1)) <= Cardinality(P(n) \ Live(b))
  BY <1>1 DEF Budget
<1> HIDE DEF P, R
<1>7. ASSUME NEW n \in Bad PROVE \E k \in Bad : k < n
  <2>1. n # 0 /\ n \in Nat BY <1>6
  <2>2. PICK k \in Nat : n = k + 1
    <3>1. n - 1 \in Nat /\ n = (n - 1) + 1 BY <2>1
    <3>2. QED BY <3>1
  <2>3. PICK A : A = P(k) OBVIOUS
  <2>4. PICK B : B = P(k) \ Live(b) OBVIOUS
  <2>5. Cardinality(P(n)) <= Cardinality(B) BY <1>6, <2>2, <2>4
  <2>6. Cardinality(B) <= Cardinality(A) /\ Cardinality(B) \in Nat
    <3>1. A \subseteq 1 .. Len(b.tasks) /\ B \subseteq A BY <1>4, <2>3, <2>4
    <3>2. B \subseteq 1 .. Len(b.tasks) BY <3>1
    <3>3. QED BY <1>2, <3>1, <3>2, Fewer, FiniteIds
  <2>7. ~(Cardinality(P(n)) <= R) OBVIOUS
  <2>8. ~(Cardinality(A) <= R)
    <3>1. Cardinality(A) \in Nat /\ Cardinality(P(n)) \in Nat BY <1>5, <2>3
    <3>2. QED BY <1>3, <2>5, <2>6, <2>7, <3>1
  <2>9. k \in Bad /\ k < n BY <2>2, <2>3, <2>8
  <2>10. QED BY <2>9
<1>8. Bad = {}
  <2>1. Bad \in SUBSET Nat OBVIOUS
  <2> HIDE DEF Bad
  <2>2. QED BY <1>7, <2>1, NoFirst
<1>9. \A n \in Nat : Cardinality(P(n)) <= R BY <1>8
<1>10. QED BY <1>9 DEF P, R

\* The copies of one place that had used n attempts at most.
CopiesWithin(b, j, p, s, q, n) ==
  {u \in Ids(b) : /\ b.tasks[u].job = j /\ b.tasks[u].parent = p /\ b.tasks[u].step = s
                  /\ b.tasks[u].position = q /\ b.tasks[u].attempts <= n}

\* So it has as many copies as slots for every attempt, at most.
LEMMA CopiesUpTo ==
  ASSUME NEW b, Balanced(b), NEW j \in Nat, NEW p \in 0 .. Len(b.tasks), NEW s \in Step,
         NEW q \in Nat
  PROVE  \A n \in Nat :
           Cardinality(CopiesWithin(b, j, p, s, q, n)) <= Room(b, p, s) * (n + 1)
<1> DEFINE R == Room(b, p, s)
           P(n) == Place(b, j, p, s, q, n)
           A(n) == CopiesWithin(b, j, p, s, q, n)
           Bad == {n \in Nat : ~(Cardinality(A(n)) <= R * (n + 1))}
<1>1. Sound(b.jobs, b.tasks) BY DEF Balanced
<1>2. Len(b.tasks) \in Nat /\ \A u \in Ids(b) : b.tasks[u].attempts \in Nat
  <2>1. \A u \in Ids(b) : b.tasks[u] \in Task BY <1>1, SoundTypes DEF Ids
  <2>2. QED BY <1>1, <2>1, SoundTypes DEF Task
<1>3. R \in Nat BY <1>1, NoRow
<1>4. \A n : A(n) \subseteq 1 .. Len(b.tasks) /\ P(n) \subseteq 1 .. Len(b.tasks)
  BY DEF Place, CopiesWithin, Ids
<1>5. A(0) = P(0) BY <1>2 DEF Place, CopiesWithin
<1>6. \A n \in Nat : A(n + 1) = A(n) \cup P(n + 1)
  <2>1. ASSUME NEW n \in Nat, NEW a \in Nat PROVE a <= n + 1 <=> a <= n \/ a = n + 1
    OBVIOUS
  <2>2. QED BY <1>2, <2>1 DEF Place, CopiesWithin
<1>7. \A n \in Nat : Cardinality(P(n)) <= R BY CopiesOfAttempt
<1> HIDE DEF A, P, R
<1>8. \A n : /\ Cardinality(A(n)) \in Nat /\ IsFiniteSet(A(n))
             /\ Cardinality(P(n)) \in Nat /\ IsFiniteSet(P(n))
  BY <1>2, <1>4, FiniteIds
<1>9. ASSUME NEW n \in Bad PROVE \E k \in Bad : k < n
  <2>1. n \in Nat /\ ~(Cardinality(A(n)) <= R * (n + 1)) OBVIOUS
  <2>2. n # 0
    <3>1. Cardinality(A(0)) <= R BY <1>5, <1>7
    <3>2. R * (0 + 1) = R BY <1>3
    <3>3. QED BY <2>1, <3>1, <3>2
  <2>3. PICK k \in Nat : n = k + 1
    <3>1. n - 1 \in Nat /\ n = (n - 1) + 1 BY <2>1, <2>2
    <3>2. QED BY <3>1
  <2>4. PICK X : X = A(k) OBVIOUS
  <2>5. PICK Y : Y = P(n) OBVIOUS
  <2>6. Cardinality(X \cup Y) = Cardinality(X) + Cardinality(Y) - Cardinality(X \cap Y)
    BY <1>8, <2>4, <2>5, FS_Union
  <2>7. PICK x \in Nat, y \in Nat, z \in Nat :
          x = Cardinality(X) /\ y = Cardinality(Y) /\ z = Cardinality(X \cap Y)
    <3>1. X \subseteq 1 .. Len(b.tasks) /\ Y \subseteq 1 .. Len(b.tasks) BY <1>4, <2>4, <2>5
    <3>2. PICK Z : Z = X \cap Y OBVIOUS
    <3>3. Z \subseteq 1 .. Len(b.tasks) BY <3>1, <3>2
    <3>4. Cardinality(Z) \in Nat BY <1>2, <3>3, FiniteIds
    <3>5. QED BY <1>2, <3>1, <3>2, <3>4, FiniteIds
  <2>8. A(n) = X \cup Y BY <1>6, <2>3, <2>4, <2>5
  <2>9. Cardinality(A(n)) = x + y - z BY <2>6, <2>7, <2>8
  <2>10. y <= R BY <1>7, <2>1, <2>5, <2>7
  <2>11. R * (n + 1) = R * (k + 1) + R BY <1>3, <2>3
  <2>12. PICK v \in Nat : v = R * (k + 1)
    <3>1. R * (k + 1) \in Nat BY <1>3
    <3>2. QED BY <3>1
  <2>13. ~(x <= v)
    <3>1. ~(x + y - z <= v + R) BY <2>1, <2>9, <2>11, <2>12
    <3>2. QED BY <1>3, <2>10, <3>1
  <2>14. k \in Bad BY <2>4, <2>7, <2>12, <2>13
  <2>15. k < n BY <2>3
  <2>16. QED BY <2>14, <2>15
<1>10. Bad = {}
  <2>1. Bad \in SUBSET Nat OBVIOUS
  <2> HIDE DEF Bad
  <2>2. QED BY <1>9, <2>1, NoFirst
<1>11. \A n \in Nat : Cardinality(A(n)) <= R * (n + 1) BY <1>10
<1>12. QED BY <1>11 DEF A, R

\* Retries keep to their limit.
LEMMA OrderedBudget == Ordered => RetryBudget
<1> SUFFICES ASSUME Ordered, NEW t \in DOMAIN tasks
             PROVE  LET k == tasks[t]
                        slots == IF k.parent = 0 THEN {k.position}
                                 ELSE {i \in DOMAIN Children[tasks[k.parent].step] :
                                         Children[tasks[k.parent].step][i] = k.step}
                    IN Cardinality({u \in DOMAIN tasks :
                                      /\ tasks[u].job = k.job /\ tasks[u].parent = k.parent
                                      /\ tasks[u].step = k.step
                                      /\ tasks[u].position = k.position})
                         <= Cardinality(slots) * (RetryLimit[k.step] + 1)
  BY DEF RetryBudget
<1> DEFINE b == Books
           k == tasks[t]
           n == RetryLimit[k.step]
           slots == IF k.parent = 0 THEN {k.position}
                    ELSE {i \in DOMAIN Children[tasks[k.parent].step] :
                            Children[tasks[k.parent].step][i] = k.step}
           U == {u \in DOMAIN tasks : /\ tasks[u].job = k.job /\ tasks[u].parent = k.parent
                                      /\ tasks[u].step = k.step
                                      /\ tasks[u].position = k.position}
           V == CopiesWithin(b, k.job, k.parent, k.step, k.position, n)
<1>1. /\ b.jobs = jobs /\ b.tasks = tasks /\ Ids(b) = 1 .. Len(tasks)
      /\ DOMAIN tasks = 1 .. Len(tasks) /\ Len(tasks) \in Nat /\ Sound(jobs, tasks)
      /\ Balanced(b)
  BY BooksAre, Holders, SoundTypes
<1>2. /\ k.job \in Nat /\ k.parent \in 0 .. Len(tasks) /\ k.step \in Step
      /\ k.position \in Nat
  <2>1. k \in Task BY <1>1, SoundTypes
  <2>2. k.parent = 0 \/ k.parent \in 1 .. Len(tasks) BY <1>1, SoundLinks
  <2>3. k.job \in Nat /\ k.step \in Step /\ k.position \in Nat BY <2>1 DEF Task
  <2>4. QED BY <1>1, <2>2, <2>3
<1>3. n \in Nat BY <1>2, WorkflowAssumption
<1>4. \A u \in DOMAIN tasks : tasks[u].attempts <= RetryLimit[tasks[u].step]
  BY <1>1 DEF Sound, TaskRow
<1>5. U = V BY <1>1, <1>4 DEF CopiesWithin
<1>6. Cardinality(slots) = Room(b, k.parent, k.step)
  <2>1. CASE k.parent = 0
    <3>1. slots = {k.position} BY <2>1
    <3>2. QED BY <2>1, <3>1, FS_Singleton DEF Room
  <2>2. CASE k.parent # 0
    <3>1. slots = SlotsIn(tasks[k.parent].step, {k.step}) BY <2>2 DEF SlotsIn
    <3>2. QED BY <1>1, <2>2, <3>1 DEF Room
  <2>3. QED BY <2>1, <2>2
<1>7. Cardinality(V) <= Room(b, k.parent, k.step) * (n + 1)
  <2> HIDE DEF b, k, n, slots, U
  <2>1. Balanced(b) BY <1>1
  <2>2. b.tasks = tasks BY <1>1
  <2>3. k.parent \in 0 .. Len(b.tasks) BY <1>2, <2>2
  <2>4. PICK j \in Nat, p \in 0 .. Len(b.tasks), s \in Step, q \in Nat :
          j = k.job /\ p = k.parent /\ s = k.step /\ q = k.position
    BY <1>2, <2>3
  <2>5. Cardinality(CopiesWithin(b, j, p, s, q, n)) <= Room(b, p, s) * (n + 1)
    BY <1>3, <2>1, CopiesUpTo
  <2>6. QED BY <2>4, <2>5
<1> HIDE DEF b, k, n, slots, U, V
<1>8. Cardinality(U) <= Cardinality(slots) * (n + 1) BY <1>5, <1>6, <1>7
<1>9. QED BY <1>8 DEF U, slots, n, k

----------------------------------------------------------------------------
(* One step at a time.                                                     *)

\* Above every live task that has not finished there is one of the list of its job,
\* live and not finished either.
LEMMA TopOf ==
  ASSUME NEW b, Balanced(b), NEW t \in Ids(b), t \in Live(b), t \notin b.fin
  PROVE  \E a \in Ids(b) :
           /\ a \in Live(b) /\ a \notin b.fin /\ b.tasks[a].parent = 0
           /\ b.tasks[a].job = b.tasks[t].job /\ a \in Lineage(b.tasks, t)
<1> DEFINE A == {v \in Ids(b) : /\ v \in Live(b) /\ v \notin b.fin
                                /\ b.tasks[v].job = b.tasks[t].job
                                /\ Lineage(b.tasks, v) \subseteq Lineage(b.tasks, t)}
<1>1. Sound(b.jobs, b.tasks) /\ HeldOnce(b) BY DEF Balanced
<1>2. Len(b.tasks) \in Nat BY <1>1, SoundTypes
<1>3. \A u \in 1 .. Len(b.tasks) : b.tasks[u].parent \in 0 .. Len(b.tasks)
  BY <1>1, <1>2, SoundLinks
<1>4. \A u \in Ids(b) : Lineage(b.tasks, u) = {u} \cup Lineage(b.tasks, b.tasks[u].parent)
  BY <1>2, <1>3, LineageUnfolds DEF Ids
<1>5. A \in SUBSET Nat /\ t \in A BY <1>2 DEF Ids
<1>6. PICK a \in A : \A v \in A : a <= v
  <2> HIDE DEF A
  <2>1. A \in SUBSET Nat /\ A # {} BY <1>5
  <2>2. QED BY <2>1, Smallest
<1>7. b.tasks[a].parent = 0
  <2>1. SUFFICES ASSUME b.tasks[a].parent # 0 PROVE FALSE OBVIOUS
  <2>2. PICK p : p = b.tasks[a].parent OBVIOUS
  <2>3. a \in Ids(b) /\ a \in Live(b) /\ a \notin b.fin OBVIOUS
  <2>4. p \in Ids(b) /\ FanOut(b.tasks[p]) /\ p \notin b.pend \cup b.act \cup b.fin
    BY <2>1, <2>2, <2>3, Awaits
  <2>5. p \in Live(b) /\ p \notin b.fin BY <2>4 DEF Live, FanOut, Regular
  <2>6. b.tasks[p].job = b.tasks[a].job BY <1>1, <2>1, <2>2, <2>3, BookPlaces
  <2>7. Lineage(b.tasks, p) \subseteq Lineage(b.tasks, a) BY <1>4, <2>2, <2>3
  <2>8. p \in A BY <2>4, <2>5, <2>6, <2>7
  <2>9. p < a BY <1>1, <2>2, <2>3 DEF HeldOnce
  <2>10. a <= p BY <1>6, <2>8
  <2>11. a \in Nat /\ p \in Nat BY <1>2, <2>3, <2>4 DEF Ids
  <2>12. QED BY <2>9, <2>10, <2>11
<1>8. a \in Lineage(b.tasks, t) BY <1>4
<1>9. QED BY <1>7, <1>8

\* Whoever is in flight is held by the books.
LEMMA FlightHeld == ASSUME Ordered PROVE InFlight \subseteq Pend \cup Act
<1>1. ASSUME NEW m \in BagToSet(msgs), m.queue \in TaskQueue \ {"progress:Running", "x-failed"}
      PROVE  m.task \in Pend \cup Act
  <2>1. m.queue = "x-pending" \/ m.queue \in Acting BY <1>1 DEF TaskQueue, Acting, Worked
  <2>2. QED BY <2>1, Told
<1>2. BagToSet(running) \subseteq Act BY DEF Act
<1>3. QED BY <1>1, <1>2 DEF InFlight

\* Whatever is in flight for a job is below the one task of its list that is.
LEMMA OrderedOneStep == Ordered => OneStepAtATime
<1> SUFFICES ASSUME Ordered, NEW t \in InFlight, NEW u \in InFlight,
                    tasks[t].job = tasks[u].job
             PROVE  Lineage(tasks, t) \cap Lineage(tasks, u) \cap TopLevel(tasks[t].job) # {}
  BY DEF OneStepAtATime
<1> DEFINE b == Books
<1>1. /\ b.tasks = tasks /\ b.fin = finished /\ b.pend = Pend /\ b.act = Act
      /\ Ids(b) = 1 .. Len(tasks) /\ DOMAIN tasks = 1 .. Len(tasks)
      /\ Balanced(b)
  BY BooksAre, Holders, SoundTypes
<1>2. ASSUME NEW v \in InFlight PROVE v \in Ids(b) /\ v \in Live(b) /\ v \notin b.fin
  <2>1. v \in Pend \cup Act BY FlightHeld
  <2>2. v \in 1 .. Len(tasks) /\ v \notin finished BY <2>1, Holders
  <2> HIDE DEF b
  <2>3. QED BY <1>1, <2>1, <2>2 DEF Live
<1> HIDE DEF b
<1>3. PICK v \in Ids(b) : /\ v \in Live(b) /\ v \notin b.fin /\ b.tasks[v].parent = 0
                          /\ b.tasks[v].job = b.tasks[t].job /\ v \in Lineage(b.tasks, t)
  BY <1>1, <1>2, TopOf
<1>4. PICK w \in Ids(b) : /\ w \in Live(b) /\ w \notin b.fin /\ b.tasks[w].parent = 0
                          /\ b.tasks[w].job = b.tasks[u].job /\ w \in Lineage(b.tasks, u)
  BY <1>1, <1>2, TopOf
<1>5. PICK j : j = b.tasks[v].job OBVIOUS
<1>6. \A x \in Tops(b, j) \cap Live(b) : x \in b.fin \/ x = v
  BY <1>1, <1>3, <1>5, AtPosition
<1>7. w \in Tops(b, j) BY <1>1, <1>3, <1>4, <1>5 DEF Tops
<1>8. w = v BY <1>4, <1>6, <1>7
<1>9. v \in TopLevel(tasks[t].job) BY <1>1, <1>3 DEF TopLevel
<1>10. QED BY <1>1, <1>3, <1>4, <1>8, <1>9

----------------------------------------------------------------------------
(* The invariant of the failures.                                          *)

Failing == Accounted(Books) /\ \A m \in BagToSet(msgs) : Reason(Books, m)

\* A reason stays one.
LEMMA ReasonLater ==
  ASSUME NEW b, NEW c, Leads(b, c), NEW x, Reason(b, x),
         x.queue = "x-jobs" => x.job \in JobIds(b),
         x.queue # "x-jobs" => x.task \in Ids(b)
  PROVE  Reason(c, x)
<1>1. ASSUME x.queue = "x-failed" PROVE Lost(c, x.task)
  BY <1>1 DEF Reason, Leads
<1>2. ASSUME JobEvent(x, "Failed") PROVE Stuck(c, x.job)
  BY <1>2 DEF Reason, Leads, JobEvent
<1>3. QED BY <1>1, <1>2 DEF Reason

\* A delivery that leaves every failure with its reason.
LEMMA FailingKept ==
  ASSUME Rows, Failing, NEW m \in BagToSet(msgs), NEW e, Handle(m, e),
         Accounted(Books'), Leads(Books, Books'), \A x \in e.sent : Reason(Books', x)
  PROVE  Failing' /\ Leads(Books, Books')
<1>1. BagToSet(msgs') \subseteq BagToSet(msgs) \cup e.sent
  BY Delivered DEF Rows, Handle, Take
<1>2. PICK b : b = Books OBVIOUS
<1>3. PICK c : c = Books' OBVIOUS
<1>4. ASSUME NEW x \in BagToSet(msgs') PROVE Reason(c, x)
  <2>1. CASE x \in e.sent BY <1>3, <2>1
  <2>2. CASE x \in BagToSet(msgs)
    <3>1. /\ x.queue = "x-jobs" => x.job \in JobIds(b)
          /\ x.queue # "x-jobs" => x.task \in Ids(b)
      BY <1>2, <2>2, MessageRow, BooksAre
    <3>2. Reason(b, x) BY <1>2, <2>2 DEF Failing
    <3>3. QED BY <1>2, <1>3, <3>1, <3>2, ReasonLater
  <2>3. QED BY <1>1, <1>4, <2>1, <2>2
<1>5. QED BY <1>3, <1>4 DEF Failing

\* What is no failure needs no reason.
LEMMA NoReason ==
  ASSUME NEW b, NEW x, x.queue # "x-failed", ~JobEvent(x, "Failed")
  PROVE  Reason(b, x)
BY DEF Reason

----------------------------------------------------------------------------
(* The states the handlers write.                                          *)

LEMMA StatesWritten ==
  ASSUME NEW ts \in Seq(Task), NEW T, NEW st
  PROVE  \A u \in 1 .. Len(ts) :
           WithState(ts, T, st)[u].state = IF u \in T THEN st ELSE ts[u].state
<1>1. DOMAIN ts = 1 .. Len(ts) /\ \A u \in 1 .. Len(ts) : ts[u] \in Task
  BY LenProperties, ElementOfSeq
<1>2. QED BY <1>1 DEF WithState, Task

\* handle_pending_task writes the state of its own task, and creates what is pending.
PendingRows(js, ts, t, e) ==
  /\ \A u \in 1 .. Len(ts) : u # t => e.tasks[u].state = ts[u].state
  /\ e.tasks[t].state \notin {"Completed", "Failed", "Cancelled"}
  /\ \A u \in 1 .. Len(e.tasks) : u \in 1 .. Len(ts) \/ e.tasks[u].state = "Pending"
  /\ \A j \in 1 .. Len(js) : e.jobs[j] = js[j]
  /\ \A j \in 1 .. Len(e.jobs) :
       j \in 1 .. Len(js) \/ (e.jobs[j].state = "Pending" /\ e.jobs[j].position = 0)
  /\ \A x \in e.sent : x.queue # "x-failed" /\ ~JobEvent(x, "Failed")
       /\ ~JobEvent(x, "Cancelled")

LEMMA OneStateWritten ==
  ASSUME NEW js, NEW ts, Sound(js, ts), NEW t \in 1 .. Len(ts),
         NEW st \in TaskState \ {"Completed", "Failed", "Cancelled"},
         NEW q \in {"x-completed", "worker"},
         NEW e, e = Effect(js, WithState(ts, {t}, st), {TaskMsg(q, t)})
  PROVE  PendingRows(js, ts, t, e)
<1>1. ts \in Seq(Task) BY SoundTypes
<1>2. /\ e.jobs = js /\ Len(e.tasks) = Len(ts)
      /\ \A u \in 1 .. Len(ts) : e.tasks[u].state = IF u = t THEN st ELSE ts[u].state
  <2>1. PICK T : T = {t} OBVIOUS
  <2>2. e.jobs = js /\ e.tasks = WithState(ts, T, st) BY <2>1 DEF Effect
  <2>3. Len(WithState(ts, T, st)) = Len(ts) BY WithStateSound
  <2>4. \A u \in 1 .. Len(ts) :
          WithState(ts, T, st)[u].state = IF u \in T THEN st ELSE ts[u].state
    BY <1>1, StatesWritten
  <2>5. QED BY <2>1, <2>2, <2>3, <2>4
<1>3. \A x \in e.sent : x.queue # "x-failed" /\ ~JobEvent(x, "Failed")
                             /\ ~JobEvent(x, "Cancelled")
  BY DEF Effect, TaskMsg, JobEvent
<1>4. QED BY <1>2, <1>3 DEF PendingRows

LEMMA FanOutStates ==
  ASSUME NEW js, NEW ts, Sound(js, ts), NEW t \in 1 .. Len(ts),
         NEW e, e = ScheduleFanOut(js, ts, t)
  PROVE  PendingRows(js, ts, t, e)
<1> DEFINE s    == ts[t].step
           n    == Len(Children[s])
           run  == WithState(ts, {t}, "Running")
           kids == [i \in 1 .. n |-> NewTask(ts[t].job, Children[s][i], t, 0, TRUE)]
<1>1. ts \in Seq(Task) /\ Len(ts) \in Nat /\ ts[t] \in Task BY SoundTypes
<1>14. t \in Nat BY <1>1
<1>2. s \in Step /\ ts[t].job \in Nat BY <1>1 DEF Task
<1>3. n \in Nat /\ \A i \in 1 .. n : Children[s][i] \in Step
  BY <1>2, ChildrenOf, ElementOfSeq
<1>4. /\ run \in Seq(Task) /\ Len(run) = Len(ts)
      /\ \A u \in 1 .. Len(ts) : run[u].state = IF u = t THEN "Running" ELSE ts[u].state
  <2>1. PICK T : T = {t} OBVIOUS
  <2>2. run = WithState(ts, T, "Running") BY <2>1
  <2> HIDE DEF run
  <2>3. run \in Seq(Task) /\ Len(run) = Len(ts)
    BY <2>2, WithStateSound DEF TaskState, Sound
  <2>4. \A u \in 1 .. Len(ts) : run[u].state = IF u \in T THEN "Running" ELSE ts[u].state
    BY <1>1, <2>2, StatesWritten
  <2>5. QED BY <2>1, <2>3, <2>4
<1>5. /\ e.jobs = js /\ e.tasks = run \o kids
      /\ e.sent = {TaskMsg("x-pending", Len(ts) + i) : i \in 1 .. n}
  BY DEF ScheduleFanOut, Effect
<1>6. \A i \in 1 .. n : kids[i] \in Task /\ kids[i].state = "Pending"
  <2> HIDE DEF n, s
  <2>1. QED BY <1>2, <1>3, <1>14 DEF NewTask, Task, TaskState
<1>7. kids \in [1 .. n -> Task] BY <1>6
<1> HIDE DEF kids, run, n
<1>8. kids \in Seq(Task) /\ Len(kids) = n BY <1>3, <1>7, FunctionIsSeq
<1>9. /\ Len(run \o kids) = Len(ts) + n
      /\ \A u \in 1 .. Len(ts) + n : (run \o kids)[u] =
           IF u <= Len(ts) THEN run[u] ELSE kids[u - Len(ts)]
  <2>1. /\ Len(run \o kids) = Len(run) + Len(kids)
        /\ \A u \in 1 .. Len(run) + Len(kids) : (run \o kids)[u] =
             IF u <= Len(run) THEN run[u] ELSE kids[u - Len(run)]
    BY <1>4, <1>8, ConcatProperties
  <2>2. QED BY <1>4, <1>8, <2>1
<1>10. \A u \in 1 .. Len(ts) : e.tasks[u] = run[u] BY <1>1, <1>3, <1>5, <1>9
<1>11. ASSUME NEW u \in 1 .. Len(e.tasks), u \notin 1 .. Len(ts)
       PROVE  e.tasks[u].state = "Pending"
  <2>1. e.tasks[u] = kids[u - Len(ts)] /\ u - Len(ts) \in 1 .. n
    BY <1>1, <1>3, <1>5, <1>9, <1>11
  <2>2. QED BY <1>6, <2>1
<1>12. \A x \in e.sent : x.queue # "x-failed" /\ ~JobEvent(x, "Failed")
                              /\ ~JobEvent(x, "Cancelled")
  BY <1>5 DEF TaskMsg, JobEvent
<1>13. QED BY <1>4, <1>5, <1>10, <1>11, <1>12 DEF PendingRows

LEMMA SubjobStates ==
  ASSUME NEW js, NEW ts, Sound(js, ts), NEW t \in 1 .. Len(ts),
         NEW e, e = ScheduleSubjob(js, ts, t)
  PROVE  PendingRows(js, ts, t, e)
<1> DEFINE kid == Len(js) + 1
           new == NewJob(Children[ts[t].step], t)
           js2 == Append(js, new)
           r   == [ts[t] EXCEPT !.state = "Running", !.subjob = kid]
           ts2 == WithTask(ts, t, r)
           x   == JobMsg(js2, kid, "Pending")
<1>1. /\ js \in Seq(Job) /\ ts \in Seq(Task) /\ Len(js) \in Nat /\ Len(ts) \in Nat
      /\ ts[t] \in Task /\ DOMAIN ts = 1 .. Len(ts)
  BY SoundTypes
<1>2. Children[ts[t].step] \in Seq(Step) BY <1>1, WorkflowAssumption DEF Task
<1>3. new \in Job /\ new.position = 0 /\ new.state = "Pending"
  BY <1>1, <1>2 DEF NewJob, Job, JobState
<1>4. r \in Task /\ r.state = "Running"
  <2>1. kid \in Nat BY <1>1
  <2> HIDE DEF kid
  <2>2. QED BY <1>1, <2>1 DEF Task, TaskState
<1>5. e.jobs = js2 /\ e.tasks = ts2 /\ e.sent = {x} BY DEF ScheduleSubjob, Effect
<1>6. x.queue = "x-jobs" /\ x.state = "Pending" BY DEF JobMsg
<1> HIDE DEF new, r, x
<1>7. /\ Len(js2) = kid /\ js2[kid] = new /\ \A k \in 1 .. Len(js) : js2[k] = js[k]
  BY <1>1, <1>3, AppendProperties
<1>8. /\ Len(ts2) = Len(ts) /\ ts2[t] = r /\ \A u \in 1 .. Len(ts) : u # t => ts2[u] = ts[u]
  <2>1. ts2 = [ts EXCEPT ![t] = r] BY <1>1, WithTaskUpdates
  <2> HIDE DEF ts2
  <2>2. QED BY <1>1, <1>4, <2>1, UpdateIsSeq
<1> HIDE DEF js2, ts2
<1>9. \A k \in 1 .. Len(e.jobs) : k \in 1 .. Len(js) \/ k = kid BY <1>1, <1>5, <1>7
<1>10. \A y \in e.sent : y.queue # "x-failed" /\ ~JobEvent(y, "Failed")
                              /\ ~JobEvent(y, "Cancelled")
  BY <1>5, <1>6 DEF JobEvent
<1> HIDE DEF kid
<1>11. QED BY <1>3, <1>4, <1>5, <1>7, <1>8, <1>9, <1>10 DEF PendingRows

LEMMA PendingStates ==
  ASSUME NEW js, NEW ts, Sound(js, ts), NEW t \in 1 .. Len(ts),
         NEW e, e = HandlePending(js, ts, t)
  PROVE  PendingRows(js, ts, t, e)
<1>1. Kind[ts[t].step] \in StepKind
  <2>1. ts[t].step \in Step BY SoundTypes DEF Task
  <2>2. QED BY <2>1, WorkflowAssumption
<1>2. CASE ts[t].step \in Skipped
  <2>1. e = Effect(js, WithState(ts, {t}, "Skipped"), {TaskMsg("x-completed", t)})
    BY <1>2 DEF HandlePending, SkipTask
  <2>2. QED BY <2>1, OneStateWritten DEF TaskState
<1>3. CASE ts[t].step \notin Skipped /\ Kind[ts[t].step] = "regular"
  <2>1. e = Effect(js, WithState(ts, {t}, "Scheduled"), {TaskMsg("worker", t)})
    BY <1>3 DEF HandlePending, ScheduleRegular
  <2>2. QED BY <2>1, OneStateWritten DEF TaskState
<1>4. CASE ts[t].step \notin Skipped /\ Kind[ts[t].step] = "fanout"
  <2>1. e = ScheduleFanOut(js, ts, t) BY <1>4 DEF HandlePending
  <2>2. QED BY <2>1, FanOutStates
<1>5. CASE ts[t].step \notin Skipped /\ Kind[ts[t].step] = "subjob"
  <2>1. e = ScheduleSubjob(js, ts, t) BY <1>5 DEF HandlePending
  <2>2. QED BY <2>1, SubjobStates
<1>6. QED BY <1>1, <1>2, <1>3, <1>4, <1>5 DEF StepKind

\* So its entry loses no reason and needs no new one.
LEMMA PendingAccounted ==
  ASSUME NEW b, NEW c, Balanced(b), Accounted(b), NEW t \in b.pend, NEW e,
         e = HandlePending(b.jobs, b.tasks, t), c.jobs = e.jobs, c.tasks = e.tasks, Onto(b, c)
  PROVE  Accounted(c) /\ Leads(b, c) /\ \A x \in e.sent : Reason(c, x)
<1>1. Sound(b.jobs, b.tasks) /\ t \in 1 .. Len(b.tasks) BY DEF Balanced, HeldOnce, Ids
<1>2. PendingRows(b.jobs, b.tasks, t, e) BY <1>1, PendingStates
<1>3. t \in Held(b) BY DEF Held
<1>4. Entry(b, c) BY DEF Entry
<1>5. Later(b, c) BY <1>4, EntryLater
<1>6. TasksTame(b, c)
  <2>1. \A u \in Ids(b) : u # t => c.tasks[u].state = b.tasks[u].state
    BY <1>2 DEF PendingRows, Ids
  <2>2. \A u \in Ids(b) : FanOut(c.tasks[u]) <=> FanOut(b.tasks[u])
    BY <1>5 DEF Later, SameTask, FanOut
  <2>3. \A u \in Ids(c) : u \in Ids(b) \/ c.tasks[u].state = "Pending"
    BY <1>2 DEF PendingRows, Ids
  <2>4. c.tasks[t].state # "Failed" BY <1>2 DEF PendingRows
  <2>5. QED BY <1>3, <2>1, <2>2, <2>3, <2>4 DEF TasksTame
<1>7. JobsTame(b, c)
  <2>1. \A j \in JobIds(b) : c.jobs[j] = b.jobs[j] BY <1>2 DEF PendingRows, JobIds
  <2>2. \A j \in JobIds(c) :
          j \in JobIds(b) \/ (c.jobs[j].state = "Pending" /\ c.jobs[j].position = 0)
    BY <1>2 DEF PendingRows, JobIds
  <2>3. QED BY <2>1, <2>2 DEF JobsTame, Accounted
<1>8. Accounted(c) /\ Leads(b, c) BY <1>4, <1>6, <1>7, Enters
<1>9. \A x \in e.sent : Reason(c, x) BY <1>2, NoReason DEF PendingRows
<1>10. QED BY <1>8, <1>9

----------------------------------------------------------------------------
(* The handlers keep the account of the failures.                          *)

\* What they start from.
LEMMA AccountIs ==
  ASSUME Ordered, Failing
  PROVE  /\ Balanced(Books) /\ Accounted(Books)
         /\ Books.jobs = jobs /\ Books.tasks = tasks /\ Books.pend = Pend /\ Books.act = Act
         /\ Books.fin = finished /\ Books.ends = Ends
         /\ Ids(Books) = 1 .. Len(tasks) /\ JobIds(Books) = 1 .. Len(jobs)
         /\ Sound(jobs, tasks) /\ tasks \in Seq(Task) /\ jobs \in Seq(Job)
         /\ \A j \in 1 .. Len(jobs) :
              /\ jobs[j].state = "Failed" => Stuck(Books, j)
              /\ jobs[j].state = "Pending" <=> jobs[j].position = 0
              /\ jobs[j].state \notin {"Cancelled", "Restart"}
<1>1. Accounted(Books) BY DEF Failing
<1>2. /\ Balanced(Books) /\ Books.jobs = jobs /\ JobIds(Books) = 1 .. Len(jobs)
      /\ Sound(jobs, tasks)
  BY BooksAre, Holders
<1>3. tasks \in Seq(Task) /\ jobs \in Seq(Job) BY <1>2, SoundTypes
<1>4. \A j \in 1 .. Len(jobs) :
        /\ jobs[j].state = "Failed" => Stuck(Books, j)
        /\ jobs[j].state = "Pending" <=> jobs[j].position = 0
        /\ jobs[j].state \notin {"Cancelled", "Restart"}
  BY <1>1, <1>2 DEF Accounted
<1>5. QED BY <1>1, <1>2, <1>3, <1>4, BooksAre

\* What they leave behind.
LEMMA BooksNext ==
  ASSUME NEW m, NEW e, Handle(m, e)
  PROVE  /\ (Books').jobs = e.jobs /\ (Books').tasks = e.tasks /\ (Books').fin = finished'
         /\ jobs' = e.jobs /\ tasks' = e.tasks
BY DEF Handle, Books, Book

\* A job whose last step has finished has not failed.
LEMMA DoneNotFailed ==
  ASSUME Ordered, Failing, NEW j \in 1 .. Len(jobs), LastDone(Books, j)
  PROVE  ~Stuck(Books, j) /\ jobs[j].state # "Failed" /\ jobs[j].position # 0
<1>1. PICK b : b = Books OBVIOUS
<1>2. Balanced(b) /\ Accounted(b) /\ b.jobs = jobs BY <1>1, AccountIs
<1>3. PICK u \in Tops(b, j) \cap b.fin : b.tasks[u].position = b.jobs[j].position
  BY <1>1 DEF LastDone
<1>4. ~Stuck(b, j) BY <1>2, <1>3, NotStuck DEF Held
<1>5. jobs[j].state # "Failed" BY <1>1, <1>4, AccountIs
<1>6. jobs[j].position # 0
  <2>1. u \in Ids(b) /\ b.tasks[u].parent = 0 /\ b.tasks[u].job = j BY <1>3 DEF Tops
  <2>2. b.tasks[u].position \in 1 .. Len(b.jobs[j].tasks)
    BY <1>2, <2>1, BookPlaces DEF Balanced
  <2>3. QED BY <1>2, <1>3, <2>2
<1>7. QED BY <1>1, <1>4, <1>5, <1>6

\* The first task of a job that starts.
LEMMA FirstTask ==
  ASSUME Sound(jobs, tasks), NEW j \in 1 .. Len(jobs),
         NEW ts, ts = Append(tasks, NewTask(j, jobs[j].tasks[1], 0, 1, TRUE))
  PROVE  /\ Len(ts) = Len(tasks) + 1 /\ ts[Len(ts)].state = "Pending"
         /\ \A u \in 1 .. Len(tasks) : ts[u] = tasks[u]
<1>1. PICK r : r = NewTask(j, jobs[j].tasks[1], 0, 1, TRUE) OBVIOUS
<1>2. r.state = "Pending" BY <1>1 DEF NewTask
<1>3. r \in Task
  <2>1. JobRow(jobs, tasks, j) /\ jobs[j] \in Job BY SoundTypes DEF Sound
  <2>2. jobs[j].tasks \in Seq(Step) /\ jobs[j].tasks # <<>> BY <2>1 DEF Job, JobRow
  <2>3. 1 \in 1 .. Len(jobs[j].tasks) BY <2>2, LenProperties, EmptySeq
  <2>4. QED BY <1>1, <2>3, NewTaskRow DEF TopLevelRow
<1>4. tasks \in Seq(Task) /\ ts = Append(tasks, r) BY <1>1, SoundTypes
<1>5. /\ Len(Append(tasks, r)) = Len(tasks) + 1 /\ Append(tasks, r)[Len(tasks) + 1] = r
      /\ \A u \in 1 .. Len(tasks) : Append(tasks, r)[u] = tasks[u]
  BY <1>3, <1>4, AppendProperties
<1>6. Len(ts) = Len(tasks) + 1 /\ ts[Len(ts)] = r BY <1>4, <1>5
<1>7. QED BY <1>2, <1>4, <1>5, <1>6

\* start_job.
LEMMA StartJobFailing ==
  ASSUME Rows, Ordered, Failing, NEW m \in BagToSet(msgs), StartJob(m)
  PROVE  Failing' /\ Leads(Books, Books')
<1> DEFINE j   == m.job
           js1 == [jobs EXCEPT ![j].state = "Scheduled"]
           js  == [js1 EXCEPT ![j].position = 1]
           ts  == Append(tasks, NewTask(j, jobs[j].tasks[1], 0, 1, TRUE))
           n   == Len(ts)
           e   == HandlePending(js, ts, n)
           b   == Books
           c   == Created(b, j, js, ts)
<1>1. j \in 1 .. Len(jobs) /\ j \in Begins BY MessageRow, Told DEF StartJob, JobEvent
<1>2. /\ Balanced(b) /\ Accounted(b) /\ b.jobs = jobs /\ b.tasks = tasks
      /\ Ids(b) = 1 .. Len(tasks) /\ JobIds(b) = 1 .. Len(jobs)
      /\ Sound(jobs, tasks) /\ tasks \in Seq(Task) /\ jobs \in Seq(Job)
  BY AccountIs
<1>3. js = [jobs EXCEPT ![j].state = "Scheduled", ![j].position = 1]
  <2>1. DOMAIN jobs = 1 .. Len(jobs) BY <1>2, SoundTypes
  <2>2. QED BY <1>1, <2>1
<1>4. Handle(m, e) BY <1>3 DEF StartJob
<1>5. Added(b, c, j) /\ Onto(c, Books') BY <1>3, StartJobOrdered
<1>6. jobs[j].state # "Failed"
  <2>1. LineOf(b, j) BY <1>1, Holders
  <2>2. jobs[j].position = 0 BY <1>1, <1>2, <2>1, BooksAre DEF LineOf
  <2>3. QED BY <1>1, <2>2, AccountIs
<1>7. /\ \A k \in 1 .. Len(jobs) : js[k].state = IF k = j THEN "Scheduled" ELSE jobs[k].state
      /\ \A k \in 1 .. Len(jobs) : js[k].position = IF k = j THEN 1 ELSE jobs[k].position
      /\ Len(js) = Len(jobs)
  <2>1. /\ DOMAIN jobs = 1 .. Len(jobs)
        /\ \A k \in 1 .. Len(jobs) : jobs[k] \in Job
    BY <1>2, SoundTypes
  <2>2. /\ \A k \in 1 .. Len(jobs) : js1[k].state = IF k = j THEN "Scheduled" ELSE jobs[k].state
        /\ \A k \in 1 .. Len(jobs) : js1[k].position = jobs[k].position
        /\ \A k \in 1 .. Len(jobs) : DOMAIN js1[k] = DOMAIN jobs[k]
    BY <1>1, <2>1 DEF Job
  <2>3. Len(js) = Len(jobs) BY <1>5, <1>2 DEF Added, Created, Book
  <2>4. /\ \A k \in 1 .. Len(jobs) : js[k].state = js1[k].state
        /\ \A k \in 1 .. Len(jobs) : js[k].position = IF k = j THEN 1 ELSE js1[k].position
    BY <1>1, <2>1, <2>2 DEF Job
  <2>5. QED BY <2>2, <2>3, <2>4
<1>8. /\ n = Len(tasks) + 1 /\ ts[n].state = "Pending"
      /\ \A u \in 1 .. Len(tasks) : ts[u] = tasks[u]
  BY <1>1, <1>2, FirstTask
<1> HIDE DEF js1, js, ts, b
<1>9. c.jobs = js /\ c.tasks = ts /\ n \in c.pend BY DEF Created, Book
<1> HIDE DEF c, e
<1>10. TasksTame(b, c)
  <2>1. Len(tasks) \in Nat BY <1>2, SoundTypes
  <2>2. \A u \in Ids(b) : c.tasks[u] = b.tasks[u] BY <1>2, <1>8, <1>9
  <2>3. \A u \in Ids(c) : u \in Ids(b) \/ c.tasks[u].state = "Pending"
    BY <1>2, <1>8, <1>9, <2>1 DEF Ids
  <2>4. QED BY <2>2, <2>3 DEF TasksTame
<1>11. JobsTame(b, c)
  <2>1. JobIds(c) = JobIds(b) BY <1>2, <1>7, <1>9 DEF JobIds
  <2>2. /\ \A k \in JobIds(b) : b.jobs[k].state = "Failed" => c.jobs[k].state = "Failed"
        /\ \A k \in JobIds(b) : c.jobs[k].state = "Failed" => b.jobs[k].state = "Failed"
    BY <1>2, <1>6, <1>7, <1>9
  <2>3. \A k \in JobIds(b) : /\ c.jobs[k].state = "Pending" <=> c.jobs[k].position = 0
                             /\ c.jobs[k].state \notin {"Cancelled", "Restart"}
    <3>1. \A k \in JobIds(b) : /\ b.jobs[k].state = "Pending" <=> b.jobs[k].position = 0
                               /\ b.jobs[k].state \notin {"Cancelled", "Restart"}
      BY <1>2 DEF Accounted
    <3>2. QED BY <1>2, <1>7, <1>9, <3>1
  <2>4. QED BY <2>1, <2>2, <2>3 DEF JobsTame
<1>12. Balanced(c) /\ Accounted(c) /\ Leads(b, c)
  <2>1. Entry(b, c) BY <1>5 DEF Entry
  <2>2. QED BY <1>2, <1>10, <1>11, <2>1, Enters
<1>13. PICK d : d = Books' OBVIOUS
<1>14. d.jobs = e.jobs /\ d.tasks = e.tasks BY <1>4, <1>13, BooksNext
<1>15. e = HandlePending(c.jobs, c.tasks, n) BY <1>9 DEF e
<1> HIDE DEF n
<1>16. Accounted(d) /\ Leads(c, d) /\ \A x \in e.sent : Reason(d, x)
  BY <1>5, <1>9, <1>12, <1>13, <1>14, <1>15, PendingAccounted
<1>17. Leads(b, d) BY <1>12, <1>16, LeadsOn
<1>18. QED BY <1>4, <1>13, <1>16, <1>17, FailingKept DEF b

\* handle_pending_task.
LEMMA HandlePendingTaskFailing ==
  ASSUME Rows, Ordered, Failing, NEW m \in BagToSet(msgs), HandlePendingTask(m)
  PROVE  Failing' /\ Leads(Books, Books')
<1> DEFINE t == m.task
           e == HandlePending(jobs, tasks, t)
<1>1. Handle(m, e) /\ t \in Pend BY Told DEF HandlePendingTask
<1>2. Onto(Books, Books') BY HandlePendingTaskOrdered
<1>3. PICK b : b = Books OBVIOUS
<1>4. PICK d : d = Books' OBVIOUS
<1>5. /\ Balanced(b) /\ Accounted(b) /\ b.jobs = jobs /\ b.tasks = tasks /\ t \in b.pend
  BY <1>1, <1>3, AccountIs
<1>6. d.jobs = e.jobs /\ d.tasks = e.tasks BY <1>1, <1>4, BooksNext
<1>7. e = HandlePending(b.jobs, b.tasks, t) BY <1>5
<1> HIDE DEF e, t
<1>8. Accounted(d) /\ Leads(b, d) /\ \A x \in e.sent : Reason(d, x)
  BY <1>2, <1>3, <1>4, <1>5, <1>6, <1>7, PendingAccounted
<1>9. QED BY <1>1, <1>3, <1>4, <1>8, FailingKept

\* complete_job.
LEMMA CompleteJobFailing ==
  ASSUME Rows, Ordered, Failing, NEW m \in BagToSet(msgs), CompleteJob(m)
  PROVE  Failing' /\ Leads(Books, Books')
<1> DEFINE j  == m.job
           js == [jobs EXCEPT ![j].state = "Completed"]
           e  == Effect(js, tasks, ToParent(j, "x-completed"))
<1>1. Handle(m, e) /\ j \in 1 .. Len(jobs) /\ j \in Ends
  BY MessageRow, Told DEF CompleteJob, JobEvent
<1>2. Passed(Books, Books') BY CompleteJobOrdered
<1>3. PICK b : b = Books OBVIOUS
<1>4. PICK d : d = Books' OBVIOUS
<1>5. /\ Balanced(b) /\ Accounted(b) /\ b.jobs = jobs /\ b.tasks = tasks
      /\ JobIds(b) = 1 .. Len(jobs) /\ jobs \in Seq(Job)
  BY <1>3, AccountIs
<1>6. jobs[j].state # "Failed" /\ jobs[j].position # 0
  <2>1. LastDone(Books, j) BY <1>1, Holders, BooksAre DEF LineOf
  <2> HIDE DEF j
  <2>2. QED BY <1>1, <2>1, DoneNotFailed
<1>7. /\ Len(js) = Len(jobs)
      /\ \A k \in 1 .. Len(jobs) :
           /\ js[k].position = jobs[k].position
           /\ js[k].state = IF k = j THEN "Completed" ELSE jobs[k].state
  <2> HIDE DEF j
  <2>1. "Completed" \in JobState BY DEF JobState
  <2>2. QED BY <1>1, <1>5, <2>1, JobStateKeeps
<1>8. d.jobs = js /\ d.tasks = tasks
  <2>1. e.jobs = js /\ e.tasks = tasks BY DEF Effect
  <2> HIDE DEF e, js
  <2>2. QED BY <1>1, <1>4, <2>1, BooksNext
<1>9. \A x \in e.sent : Reason(d, x)
  <2>1. \A x \in e.sent : x.queue = "x-completed" BY DEF Effect, ToParent, TaskMsg
  <2> HIDE DEF e
  <2>2. QED BY <2>1, NoReason DEF JobEvent
<1> HIDE DEF js, e
<1>10. JobsTame(b, d)
  <2>1. JobIds(d) = JobIds(b) BY <1>5, <1>7, <1>8 DEF JobIds
  <2>2. QED BY <1>1, <1>5, <1>6, <1>7, <1>8, <2>1 DEF JobsTame, Accounted
<1>11. TasksTame(b, d)
  <2>1. Alike(b, d) BY <1>2, <1>3, <1>4 DEF Passed
  <2>2. QED BY <1>5, <1>8, <2>1, SameTasksTame
<1>12. Entry(b, d) BY <1>2, <1>3, <1>4 DEF Entry, Onto
<1>13. Accounted(d) /\ Leads(b, d) BY <1>5, <1>10, <1>11, <1>12, Enters
<1>14. QED BY <1>1, <1>3, <1>4, <1>9, <1>13, FailingKept

\* cancel_active_tasks writes over the states of active tasks only, and reports no
\* failure.
Spares(js, ts, e) ==
  /\ e.jobs = js
  /\ \A u \in 1 .. Len(ts) :
       \/ e.tasks[u].state = ts[u].state
       \/ e.tasks[u].state # "Failed" /\ ts[u].state # "Failed"
  /\ \A x \in e.sent : x.queue # "x-failed" /\ ~JobEvent(x, "Failed")

LEMMA CancelsActive ==
  ASSUME NEW js, NEW ts \in Seq(Task), NEW j, NEW e, e = CancelActiveTasks(js, ts, j)
  PROVE  Spares(js, ts, e)
<1> DEFINE T == Cancellable(ts, j)
<1>1. /\ e.jobs = js /\ e.tasks = WithState(ts, T, "Cancelled")
      /\ e.sent = SubjobCancels(js, ts, T)
  BY DEF CancelActiveTasks, Effect
<1>2. \A u \in T : ts[u].state # "Failed" BY DEF Cancellable, TaskActive
<1>3. \A x \in SubjobCancels(js, ts, T) : x.queue # "x-failed" /\ ~JobEvent(x, "Failed")
  <2> HIDE DEF T
  <2>1. QED BY DEF SubjobCancels, JobMsg, JobEvent
<1> HIDE DEF T
<1>4. \A u \in 1 .. Len(ts) :
        WithState(ts, T, "Cancelled")[u].state = IF u \in T THEN "Cancelled" ELSE ts[u].state
  BY StatesWritten
<1>5. QED BY <1>1, <1>2, <1>3, <1>4 DEF Spares

\* fail_job: the failure of a subjob is that of the task that waits for it.
LEMMA FailJobFailing ==
  ASSUME LeftAlone, Rows, Ordered, Failing, NEW m \in BagToSet(msgs), FailJob(m)
  PROVE  Failing' /\ Leads(Books, Books')
<1> DEFINE j  == m.job
           js == IF JobActive(jobs[j].state)
                   THEN [jobs EXCEPT ![j].state = "Failed"] ELSE jobs
           e0 == CancelActiveTasks(js, tasks, j)
           U  == ToParent(j, "x-failed")
           e  == Effect(e0.jobs, e0.tasks, e0.sent \cup U)
           p  == jobs[j].parent
<1>1. Handle(m, e) /\ j \in 1 .. Len(jobs) BY MessageRow DEF FailJob, JobEvent
<1>2. Passed(Books, Books') /\ Ordered' BY FailJobOrdered
<1>3. PICK b : b = Books OBVIOUS
<1>4. PICK d : d = Books' OBVIOUS
<1>5. /\ Balanced(b) /\ Accounted(b) /\ b.jobs = jobs /\ b.tasks = tasks
      /\ Ids(b) = 1 .. Len(tasks) /\ JobIds(b) = 1 .. Len(jobs)
      /\ Sound(jobs, tasks) /\ tasks \in Seq(Task) /\ jobs \in Seq(Job)
  BY <1>3, AccountIs
<1>6. Stuck(b, j) /\ jobs[j].position # 0
  <2>1. Reason(Books, m) /\ JobEvent(m, "Failed") BY DEF Failing, FailJob
  <2>2. Stuck(b, j) BY <1>3, <2>1 DEF Reason
  <2>3. QED BY <1>5, <2>2 DEF Stuck
<1>7. ~JobActive(jobs[j].state) => jobs[j].state = "Failed"
  <2>1. jobs[j].state # "Completed"
    <3>1. SUFFICES ASSUME jobs[j].state = "Completed" PROVE FALSE OBVIOUS
    <3>2. LastDone(Books, j) BY <1>1, <3>1, Holders, BooksAre DEF LineOf
    <3> HIDE DEF j
    <3>3. QED BY <1>1, <1>3, <1>6, <3>2, DoneNotFailed
  <2>2. jobs[j].state \notin {"Cancelled", "Restart"} BY <1>1, AccountIs
  <2>3. jobs[j].state \in JobState BY <1>1, <1>5, SoundTypes DEF Job
  <2>4. QED BY <2>1, <2>2, <2>3 DEF JobState, JobActive
<1>8. /\ Len(js) = Len(jobs)
      /\ \A k \in 1 .. Len(jobs) :
           /\ js[k].position = jobs[k].position
           /\ js[k].state = IF k = j THEN "Failed" ELSE jobs[k].state
  <2>1. CASE JobActive(jobs[j].state)
    <3>1. "Failed" \in JobState BY DEF JobState
    <3>2. js = [jobs EXCEPT ![j].state = "Failed"] BY <2>1
    <3> HIDE DEF j, js
    <3>3. QED BY <1>1, <1>5, <3>1, <3>2, JobStateKeeps
  <2>2. CASE ~JobActive(jobs[j].state) BY <1>7, <2>2
  <2>3. QED BY <2>1, <2>2
<1> HIDE DEF js
<1>9. /\ e0.jobs = js
      /\ \A u \in 1 .. Len(tasks) :
           \/ e0.tasks[u].state = tasks[u].state
           \/ e0.tasks[u].state # "Failed" /\ tasks[u].state # "Failed"
      /\ \A x \in e0.sent : x.queue # "x-failed" /\ ~JobEvent(x, "Failed")
  <2>1. tasks \in Seq(Task) BY <1>5
  <2>2. Spares(js, tasks, e0)
    <3> HIDE DEF j
    <3>1. QED BY <2>1, CancelsActive
  <2> HIDE DEF e0
  <2>3. QED BY <2>2 DEF Spares
<1> HIDE DEF e0
<1>10. d.jobs = js /\ d.tasks = e0.tasks
  <2>1. e.jobs = e0.jobs /\ e.tasks = e0.tasks BY DEF Effect
  <2> HIDE DEF e
  <2>2. QED BY <1>1, <1>4, <1>9, <2>1, BooksNext
<1>11. JobsTame(b, d)
  <2>1. JobIds(d) = JobIds(b) BY <1>5, <1>8, <1>10 DEF JobIds
  <2>2. \A k \in JobIds(b) : /\ d.jobs[k].position = b.jobs[k].position
                             /\ d.jobs[k].state = IF k = j THEN "Failed" ELSE b.jobs[k].state
    BY <1>5, <1>8, <1>10
  <2>3. \A k \in JobIds(b) :
          /\ b.jobs[k].state = "Pending" <=> b.jobs[k].position = 0
          /\ b.jobs[k].state \notin {"Cancelled", "Restart"}
    BY <1>5 DEF Accounted
  <2>4. b.jobs[j].position # 0 BY <1>5, <1>6
  <2> HIDE DEF j
  <2>5. QED BY <1>6, <2>1, <2>2, <2>3, <2>4 DEF JobsTame
<1>12. TasksTame(b, d)
  <2>1. Alike(b, d) BY <1>2, <1>3, <1>4 DEF Passed
  <2>2. QED BY <1>5, <1>9, <1>10, <2>1, SameTasksTame
<1>13. Entry(b, d) BY <1>2, <1>3, <1>4 DEF Entry, Onto
<1>14. Accounted(d) /\ Leads(b, d) BY <1>5, <1>11, <1>12, <1>13, Enters
<1>15. \A x \in U : Reason(d, x)
  <2>1. CASE p = 0 BY <2>1 DEF ToParent
  <2>2. CASE p # 0
    <3>1. p \in 1 .. Len(tasks) BY <1>1, <1>5, <2>2, SoundLinks
    <3>2. Nesting(b) /\ Nesting(d)
      <4>1. Balanced(d) BY <1>5, <1>13, EntryLater
      <4>2. QED BY <1>5, <4>1 DEF Balanced
    <3>3. Nested(b.tasks[p]) /\ b.tasks[p].subjob = j BY <1>1, <1>5, <2>2, <3>2 DEF Nesting
    <3>4. j # 0 BY <1>1, <1>5, SoundTypes
    <3>5. /\ p \in Ids(d) /\ Nested(d.tasks[p]) /\ d.tasks[p].subjob = j
      <4>1. Alike(b, d) BY <1>2, <1>3, <1>4 DEF Passed
      <4>2. p \in Ids(b) BY <1>5, <3>1
      <4>3. QED BY <3>3, <4>1, <4>2, AlikeSets DEF Alike
    <3>6. d.jobs[j].state = "Failed" BY <1>1, <1>8, <1>10
    <3>7. p \notin Held(d) BY <3>2, <3>4, <3>5, <3>6 DEF Nesting, Held
    <3>8. Lost(d, p)
      <4>1. ~Regular(d.tasks[p]) BY <3>5 DEF Nested, Regular
      <4>2. Broken(d, p) BY <3>4, <3>5, <3>6 DEF Broken
      <4>3. QED BY <3>5, <3>7, <4>1, <4>2 DEF Lost
    <3>9. ASSUME NEW x \in U PROVE Reason(d, x)
      <4>1. x.queue = "x-failed" /\ x.task = p BY <2>2 DEF ToParent, TaskMsg
      <4>2. QED BY <3>8, <4>1 DEF Reason, JobEvent
    <3>10. QED BY <3>9
  <2>3. QED BY <2>1, <2>2
<1> HIDE DEF U
<1>16. \A x \in e.sent : Reason(d, x)
  <2>1. e.sent = e0.sent \cup U BY DEF Effect
  <2> HIDE DEF e
  <2>2. QED BY <1>9, <1>15, <2>1, NoReason
<1> HIDE DEF e
<1>17. QED BY <1>1, <1>3, <1>4, <1>14, <1>16, FailingKept

\* cancel_job.
LEMMA HandleCancelFailing ==
  ASSUME Rows, Ordered, Failing, NEW m \in BagToSet(msgs), HandleCancel(m)
  PROVE  Failing' /\ Leads(Books, Books')
<1> DEFINE j  == m.job
           up == jobs[j].parent
           e0 == CancelActiveTasks(jobs, tasks, j)
           U  == IF up = 0 THEN {} ELSE {JobMsg(jobs, tasks[up].job, "Cancelled")}
           e  == Effect(e0.jobs, e0.tasks, e0.sent \cup U)
<1>1. Handle(m, e) BY DEF HandleCancel, JobEvent, JobActive
<1>2. Passed(Books, Books') BY HandleCancelOrdered
<1>3. PICK b : b = Books OBVIOUS
<1>4. PICK d : d = Books' OBVIOUS
<1>5. /\ Balanced(b) /\ Accounted(b) /\ b.jobs = jobs /\ b.tasks = tasks
      /\ Ids(b) = 1 .. Len(tasks) /\ tasks \in Seq(Task)
  BY <1>3, AccountIs
<1>6. /\ e0.jobs = jobs
      /\ \A u \in 1 .. Len(tasks) :
           \/ e0.tasks[u].state = tasks[u].state
           \/ e0.tasks[u].state # "Failed" /\ tasks[u].state # "Failed"
      /\ \A x \in e0.sent : x.queue # "x-failed" /\ ~JobEvent(x, "Failed")
  <2>1. tasks \in Seq(Task) BY <1>5
  <2>2. Spares(jobs, tasks, e0)
    <3> HIDE DEF j
    <3>1. QED BY <2>1, CancelsActive
  <2> HIDE DEF e0
  <2>3. QED BY <2>2 DEF Spares
<1>7. \A x \in U : x.queue # "x-failed" /\ ~JobEvent(x, "Failed")
  BY DEF JobMsg, JobEvent
<1> HIDE DEF e0, U
<1>8. e.jobs = e0.jobs /\ e.tasks = e0.tasks /\ e.sent = e0.sent \cup U BY DEF Effect
<1> HIDE DEF e
<1>9. d.jobs = jobs /\ d.tasks = e0.tasks BY <1>1, <1>4, <1>6, <1>8, BooksNext
<1>10. JobsTame(b, d) BY <1>5, <1>9, SameJobsTame
<1>11. TasksTame(b, d)
  <2>1. Alike(b, d) BY <1>2, <1>3, <1>4 DEF Passed
  <2>2. QED BY <1>5, <1>6, <1>9, <2>1, SameTasksTame
<1>12. Entry(b, d) BY <1>2, <1>3, <1>4 DEF Entry, Onto
<1>13. Accounted(d) /\ Leads(b, d) BY <1>5, <1>10, <1>11, <1>12, Enters
<1>14. \A x \in e.sent : Reason(d, x) BY <1>6, <1>7, <1>8, NoReason
<1>15. QED BY <1>1, <1>3, <1>4, <1>13, <1>14, FailingKept

\* handle_task_progress.
LEMMA HandleTaskProgressFailing ==
  ASSUME Rows, Ordered, Failing, NEW m \in BagToSet(msgs), HandleTaskProgress(m)
  PROVE  Failing' /\ Leads(Books, Books')
<1> DEFINE e == Effect(jobs, WithState(tasks, {m.task}, "Running"), {})
<1>1. Handle(m, e) /\ m.queue = "progress:Running" BY DEF HandleTaskProgress
<1>2. Passed(Books, Books') BY HandleTaskProgressOrdered
<1>3. PICK b : b = Books OBVIOUS
<1>4. PICK d : d = Books' OBVIOUS
<1>5. /\ Balanced(b) /\ Accounted(b) /\ b.jobs = jobs /\ b.tasks = tasks
      /\ Ids(b) = 1 .. Len(tasks) /\ tasks \in Seq(Task)
  BY <1>3, AccountIs
<1>6. ~FanOut(tasks[m.task])
  BY <1>1 DEF Ordered, AllProper, Proper, Workable, Regular, FanOut
<1>7. PICK T : T = {m.task} OBVIOUS
<1>8. e.jobs = jobs /\ e.tasks = WithState(tasks, T, "Running") /\ e.sent = {}
  BY <1>7 DEF Effect
<1> HIDE DEF e
<1>9. d.jobs = jobs /\ d.tasks = WithState(tasks, T, "Running")
  BY <1>1, <1>4, <1>8, BooksNext
<1>10. \A u \in 1 .. Len(tasks) :
         d.tasks[u].state = IF u \in T THEN "Running" ELSE tasks[u].state
  BY <1>5, <1>9, StatesWritten
<1>11. JobsTame(b, d) BY <1>5, <1>9, SameJobsTame
<1>12. TasksTame(b, d)
  <2>1. Alike(b, d) BY <1>2, <1>3, <1>4 DEF Passed
  <2>2. \A u \in Ids(b) : d.tasks[u].state = b.tasks[u].state \/ ~FanOut(b.tasks[u])
    BY <1>5, <1>6, <1>7, <1>10
  <2>3. QED BY <2>1, <2>2, SameTasksTame
<1>13. Entry(b, d) BY <1>2, <1>3, <1>4 DEF Entry, Onto
<1>14. Accounted(d) /\ Leads(b, d) BY <1>5, <1>11, <1>12, <1>13, Enters
<1>15. QED BY <1>1, <1>3, <1>4, <1>8, <1>14, FailingKept

\* Books that stay as they are lead on.
LEMMA LeadsSame == \A b : Leads(b, b)
BY DEF Leads

\* handle_redelivered.
LEMMA HandleRedeliveredFailing ==
  ASSUME Rows, Ordered, Failing, NEW m \in BagToSet(msgs), HandleRedelivered(m)
  PROVE  Failing' /\ Leads(Books, Books')
<1> DEFINE e == Effect(jobs, tasks, IF Redeliverable(tasks[m.task].state)
                                      THEN {TaskMsg("worker", m.task)} ELSE {})
<1>1. Handle(m, e) BY DEF HandleRedelivered
<1>2. Passed(Books, Books') \/ Books' = Books BY HandleRedeliveredOrdered
<1>3. PICK b : b = Books OBVIOUS
<1>4. PICK d : d = Books' OBVIOUS
<1>5. Balanced(b) /\ Accounted(b) /\ b.jobs = jobs /\ b.tasks = tasks BY <1>3, AccountIs
<1>6. e.jobs = jobs /\ e.tasks = tasks /\ \A x \in e.sent : x.queue = "worker"
  BY DEF Effect, TaskMsg
<1> HIDE DEF e
<1>7. d.jobs = jobs /\ d.tasks = tasks BY <1>1, <1>4, <1>6, BooksNext
<1>8. Accounted(d) /\ Leads(b, d)
  <2>1. CASE d = b BY <1>5, <2>1, LeadsSame
  <2>2. CASE Passed(b, d)
    <3>1. Alike(b, d) BY <2>2 DEF Passed
    <3>2. TasksTame(b, d) BY <1>5, <1>7, <3>1, SameTasksTame
    <3>3. JobsTame(b, d) BY <1>5, <1>7, SameJobsTame
    <3>4. Entry(b, d) BY <2>2 DEF Entry, Onto
    <3>5. QED BY <1>5, <3>2, <3>3, <3>4, Enters
  <2>3. QED BY <1>2, <1>3, <1>4, <2>1, <2>2
<1>9. \A x \in e.sent : Reason(d, x) BY <1>6, NoReason DEF JobEvent
<1>10. QED BY <1>1, <1>3, <1>4, <1>8, <1>9, FailingKept

\* handle_subtask_completed: a count written over the state it found.
LEMMA SubtaskStates ==
  ASSUME Sound(jobs, tasks), NEW t \in 1 .. Len(tasks), tasks[t].parent # 0,
         NEW ts, ts = WithState(tasks, {t}, "Completed"), NEW e, e = RouteCompleted(ts, t)
  PROVE  /\ e.jobs = jobs
         /\ \A u \in 1 .. Len(tasks) :
              e.tasks[u].state = IF u = t THEN "Completed" ELSE tasks[u].state
         /\ \A x \in e.sent : x.queue = "x-completed"
<1> DEFINE p == tasks[t].parent
           r == [ts[p] EXCEPT !.completions = @ + 1]
<1>1. /\ Sound(jobs, ts) /\ Len(ts) = Len(tasks) /\ ts \in Seq(Task)
      /\ ts[t].parent = p /\ p \in 1 .. Len(ts)
  <2>1. PICK T : T = {t} OBVIOUS
  <2>2. ts = WithState(tasks, T, "Completed") BY <2>1
  <2>3. Sound(jobs, ts) /\ Len(ts) = Len(tasks)
    BY <2>2, WithStateSound DEF TaskState
  <2>4. SameTask(ts[t], tasks[t]) BY <2>2, WithStateKeeps, SoundTypes
  <2>5. p \in 1 .. Len(tasks) BY SoundLinks
  <2>6. QED BY <2>3, <2>4, <2>5, SoundTypes DEF SameTask
<1>2. \A u \in 1 .. Len(tasks) :
        ts[u].state = IF u = t THEN "Completed" ELSE tasks[u].state
  <2>1. PICK T : T = {t} OBVIOUS
  <2>2. \A u \in 1 .. Len(tasks) :
          WithState(tasks, T, "Completed")[u].state
            = IF u \in T THEN "Completed" ELSE tasks[u].state
    BY SoundTypes, StatesWritten
  <2>3. QED BY <2>1, <2>2
<1>3. ts[p] \in Task BY <1>1, ElementOfSeq
<1>4. r.state = ts[p].state BY <1>3 DEF Task
<1>5. e = CountSubtask(ts, p) BY <1>1 DEF RouteCompleted
<1>6. /\ e.jobs = jobs /\ e.tasks = WithTask(ts, p, r)
      /\ \A x \in e.sent : x.queue = "x-completed"
  <2> DEFINE w == WithTask(ts, p, r)
             S == IF Enough(w[p]) THEN {TaskMsg("x-completed", p)} ELSE {}
  <2>1. e = Effect(jobs, w, S) BY <1>5 DEF CountSubtask
  <2>2. \A x \in S : x.queue = "x-completed" BY DEF TaskMsg
  <2> HIDE DEF w, S
  <2>3. e.jobs = jobs /\ e.tasks = w /\ e.sent = S BY <2>1 DEF Effect
  <2>4. QED BY <2>2, <2>3 DEF w
<1> HIDE DEF r, p
<1>7. \A u \in 1 .. Len(ts) : e.tasks[u] = IF u = p THEN r ELSE ts[u]
  <2>1. DOMAIN ts = 1 .. Len(ts) BY <1>1, LenProperties
  <2>2. QED BY <1>6, <2>1 DEF WithTask
<1>8. \A u \in 1 .. Len(tasks) : e.tasks[u].state = ts[u].state BY <1>1, <1>4, <1>7
<1>9. QED BY <1>2, <1>6, <1>8

\* handle_top_level_task_completed: the job moves on, and a pending task is created.
LEMMA AdvanceStates ==
  ASSUME NEW ts, Sound(jobs, ts), NEW j \in 1 .. Len(jobs), jobs[j].position \in Nat,
         NEW e, e = AdvanceJob(ts, j)
  PROVE  /\ Len(e.jobs) = Len(jobs)
         /\ \A k \in 1 .. Len(jobs) :
              /\ e.jobs[k].state = jobs[k].state
              /\ \/ e.jobs[k].position = jobs[k].position
                 \/ k = j /\ e.jobs[k].position # 0
         /\ \A u \in 1 .. Len(ts) : e.tasks[u] = ts[u]
         /\ \A u \in 1 .. Len(e.tasks) : u \in 1 .. Len(ts) \/ e.tasks[u].state = "Pending"
         /\ \A x \in e.sent : x.queue # "x-failed" /\ ~JobEvent(x, "Failed")
                             /\ ~JobEvent(x, "Cancelled")
<1> DEFINE next == jobs[j].position + 1
           js   == [jobs EXCEPT ![j].position = next]
           r    == NewTask(j, jobs[j].tasks[next], 0, next, FALSE)
<1>1. CASE next <= Len(jobs[j].tasks)
  <2>1. /\ e.jobs = js /\ e.tasks = Append(ts, r)
        /\ \A x \in e.sent : x.queue = "x-pending"
    <3> DEFINE ts2 == Append(ts, r)
               S   == {TaskMsg("x-pending", Len(ts) + 1)}
    <3>1. e = Effect(js, ts2, S) BY <1>1 DEF AdvanceJob
    <3>2. \A x \in S : x.queue = "x-pending" BY DEF TaskMsg
    <3> HIDE DEF js, ts2, S
    <3>3. e.jobs = js /\ e.tasks = ts2 /\ e.sent = S BY <3>1 DEF Effect
    <3>4. QED BY <3>2, <3>3 DEF ts2
  <2>2. jobs[j] \in Job BY SoundTypes
  <2>3. next \in 1 .. Len(jobs[j].tasks)
    <3>1. Len(jobs[j].tasks) \in Nat BY <2>2, LenProperties DEF Job
    <3>2. QED BY <1>1, <3>1
  <2>4. r \in Task /\ r.state = "Pending"
    <3>1. r.state = "Pending" BY DEF NewTask
    <3> HIDE DEF next
    <3>2. TopLevelRow(jobs, r) BY <2>3, NewTaskRow
    <3>3. QED BY <3>1, <3>2 DEF TopLevelRow
  <2> HIDE DEF r
  <2>5. /\ Len(js) = Len(jobs)
        /\ \A k \in 1 .. Len(jobs) :
             /\ js[k].state = jobs[k].state
             /\ js[k].position = jobs[k].position \/ (k = j /\ js[k].position # 0)
    <3>1. next # 0 BY <2>3
    <3> HIDE DEF next
    <3>2. Len(js) = Len(jobs) BY <2>3, JobPositionSound
    <3>3. /\ js[j].position = next /\ js[j].state = jobs[j].state
          /\ \A k \in 1 .. Len(jobs) : k # j => js[k] = jobs[k]
      BY <2>3, JobPositionKeeps
    <3> HIDE DEF js
    <3>4. QED BY <3>1, <3>2, <3>3
  <2> HIDE DEF js
  <2>6. /\ \A u \in 1 .. Len(ts) : e.tasks[u] = ts[u]
        /\ Len(e.tasks) = Len(ts) + 1 /\ e.tasks[Len(ts) + 1] = r
    <3>1. ts \in Seq(Task) BY SoundTypes
    <3>2. QED BY <2>1, <2>4, <3>1, AppendProperties
  <2>7. \A u \in 1 .. Len(e.tasks) : u \in 1 .. Len(ts) \/ e.tasks[u].state = "Pending"
    <3>1. Len(ts) \in Nat BY SoundTypes
    <3>2. QED BY <2>4, <2>6, <3>1
  <2>8. QED BY <2>1, <2>5, <2>6, <2>7 DEF JobEvent
<1>2. CASE ~(next <= Len(jobs[j].tasks))
  <2>1. /\ e.jobs = jobs /\ e.tasks = ts
        /\ \A x \in e.sent : x.queue = "x-jobs" /\ x.state = "Completed"
    BY <1>2 DEF AdvanceJob, Effect, JobMsg
  <2>2. QED BY <2>1 DEF JobEvent
<1>3. QED BY <1>1, <1>2

\* handle_subtask_completed.
LEMMA SubtaskCompletedFailing ==
  ASSUME Rows, Ordered, Failing, NEW m \in BagToSet(msgs), HandleTaskCompleted(m),
         tasks[m.task].parent # 0
  PROVE  Failing' /\ Leads(Books, Books')
<1> DEFINE ts == WithState(tasks, {m.task}, "Completed")
           e  == RouteCompleted(ts, m.task)
<1>1. PICK t : t = m.task OBVIOUS
<1>2. Handle(m, e) /\ t \in Act
  <2>1. m.queue \in Acting BY DEF HandleTaskCompleted, Acting, Worked
  <2>2. QED BY <1>1, <2>1, Told DEF HandleTaskCompleted
<1>3. PICK b : b = Books OBVIOUS
<1>4. PICK d : d = Books' OBVIOUS
<1>5. PICK c : c = Closed(b, tasks', t) OBVIOUS
<1>6. Finished(b, c, t) /\ (Passed(c, d) \/ d = c)
  BY <1>1, <1>3, <1>4, <1>5, HandleTaskCompletedOrdered
<1>7. /\ Balanced(b) /\ Accounted(b) /\ b.jobs = jobs /\ b.tasks = tasks /\ t \in b.act
      /\ Ids(b) = 1 .. Len(tasks) /\ Sound(jobs, tasks) /\ t \in 1 .. Len(tasks)
  BY <1>2, <1>3, AccountIs, Holders
<1>8. /\ e.jobs = jobs
      /\ \A u \in 1 .. Len(tasks) :
           e.tasks[u].state = IF u = t THEN "Completed" ELSE tasks[u].state
      /\ \A x \in e.sent : x.queue = "x-completed"
  BY <1>1, <1>7, SubtaskStates
<1> HIDE DEF e
<1>9. /\ d.jobs = jobs /\ d.tasks = e.tasks /\ c.jobs = jobs /\ c.tasks = e.tasks
  <2>1. d.jobs = jobs /\ d.tasks = e.tasks /\ tasks' = e.tasks BY <1>2, <1>4, <1>8, BooksNext
  <2>2. QED BY <1>5, <1>7, <2>1 DEF Closed, Book
<1>10. Balanced(c) /\ Accounted(c) /\ Leads(b, c)
  <2>1. Alike(b, c) BY <1>6 DEF Finished
  <2>2. TasksTame(b, c)
    <3>1. t \in Held(b) BY <1>7 DEF Held
    <3>2. \A u \in Ids(b) : \/ c.tasks[u].state = b.tasks[u].state
                            \/ ~FanOut(b.tasks[u])
                            \/ /\ c.tasks[u].state # "Failed"
                               /\ b.tasks[u].state # "Failed" \/ u \in Held(b)
      BY <1>7, <1>8, <1>9, <3>1
    <3>3. QED BY <2>1, <3>2, SameTasksTame
  <2>3. JobsTame(b, c) BY <1>7, <1>9, SameJobsTame
  <2>4. Entry(b, c) BY <1>6 DEF Entry
  <2>5. QED BY <1>7, <2>2, <2>3, <2>4, Enters
<1>11. Accounted(d) /\ Leads(c, d)
  <2>1. CASE d = c BY <1>10, <2>1, LeadsSame
  <2>2. CASE Passed(c, d)
    <3>1. Alike(c, d) BY <2>2 DEF Passed
    <3>2. TasksTame(c, d) BY <1>9, <3>1, SameTasksTame
    <3>3. JobsTame(c, d) BY <1>9, <1>10, SameJobsTame
    <3>4. Entry(c, d) BY <2>2 DEF Entry, Onto
    <3>5. QED BY <1>10, <3>2, <3>3, <3>4, Enters
  <2>3. QED BY <1>6, <2>1, <2>2
<1>12. Leads(b, d) BY <1>10, <1>11, LeadsOn
<1>13. \A x \in e.sent : Reason(d, x) BY <1>8, NoReason DEF JobEvent
<1>14. QED BY <1>2, <1>3, <1>4, <1>11, <1>12, <1>13, FailingKept

\* handle_top_level_task_completed.
LEMMA TopTaskCompletedFailing ==
  ASSUME Rows, Ordered, Failing, NEW m \in BagToSet(msgs), HandleTaskCompleted(m),
         tasks[m.task].parent = 0
  PROVE  Failing' /\ Leads(Books, Books')
<1>1. PICK t : t = m.task OBVIOUS
<1>2. PICK j : j = tasks[t].job OBVIOUS
<1>3. PICK T : T = {t} OBVIOUS
<1>4. PICK ts : ts = WithState(tasks, T, "Completed") OBVIOUS
<1>5. PICK e : e = AdvanceJob(ts, j) OBVIOUS
<1>6. PICK b : b = Books OBVIOUS
<1>7. PICK c : c = Closed(b, ts, t) OBVIOUS
<1>8. PICK d : d = Books' OBVIOUS
<1>9. t \in Act
  <2>1. m.queue \in Acting BY DEF HandleTaskCompleted, Acting, Worked
  <2>2. QED BY <1>1, <2>1, Told
<1>10. /\ Balanced(b) /\ Accounted(b) /\ b.jobs = jobs /\ b.tasks = tasks /\ t \in b.act
       /\ Ids(b) = 1 .. Len(tasks) /\ JobIds(b) = 1 .. Len(jobs)
       /\ Sound(jobs, tasks) /\ tasks \in Seq(Task) /\ t \in 1 .. Len(tasks)
  BY <1>6, <1>9, AccountIs, Holders
<1>11. /\ Sound(jobs, ts) /\ Len(ts) = Len(tasks)
       /\ ts[t].parent = 0 /\ ts[t].job = j
       /\ \A u \in 1 .. Len(tasks) :
            ts[u].state = IF u = t THEN "Completed" ELSE tasks[u].state
  <2>1. Sound(jobs, ts) /\ Len(ts) = Len(tasks)
    BY <1>4, <1>10, WithStateSound DEF TaskState
  <2>2. SameTask(ts[t], tasks[t]) BY <1>4, <1>10, WithStateKeeps
  <2>3. \A u \in 1 .. Len(tasks) :
          ts[u].state = IF u \in T THEN "Completed" ELSE tasks[u].state
    BY <1>4, <1>10, StatesWritten
  <2>4. QED BY <1>1, <1>2, <1>3, <2>1, <2>2, <2>3 DEF SameTask
<1>12. Handle(m, e)
  <2>1. Handle(m, RouteCompleted(ts, t)) BY <1>1, <1>3, <1>4 DEF HandleTaskCompleted
  <2>2. QED BY <1>5, <1>11, <2>1 DEF RouteCompleted
<1>13. Finished(b, c, t) /\ (Added(c, d, j) \/ Passed(c, d))
  <2>1. ts = WithState(tasks, {m.task}, "Completed") BY <1>1, <1>3, <1>4
  <2>2. c = Closed(Books, ts, m.task) BY <1>1, <1>6, <1>7
  <2>3. Finished(Books, c, m.task) /\ (Added(c, Books', tasks[m.task].job) \/ Passed(c, Books'))
    BY <2>1, <2>2, HandleTaskCompletedOrdered
  <2>4. QED BY <1>1, <1>2, <1>6, <1>8, <2>3
<1>14. j \in 1 .. Len(jobs) /\ jobs[j].position # 0 /\ jobs[j].position \in Nat
  <2>1. t \in Live(b) BY <1>10 DEF Live
  <2>2. HeldOnce(b) BY <1>10 DEF Balanced
  <2>3. t \notin b.fin BY <1>10, <2>2 DEF HeldOnce
  <2>4. b.tasks[t].parent = 0 /\ b.tasks[t].job = j BY <1>1, <1>2, <1>10
  <2>5. QED BY <1>10, <2>1, <2>3, <2>4, AtPosition
<1>15. /\ Len(e.jobs) = Len(jobs)
       /\ \A k \in 1 .. Len(jobs) :
            /\ e.jobs[k].state = jobs[k].state
            /\ e.jobs[k].position = jobs[k].position \/ (k = j /\ e.jobs[k].position # 0)
       /\ \A u \in 1 .. Len(ts) : e.tasks[u] = ts[u]
       /\ \A u \in 1 .. Len(e.tasks) : u \in 1 .. Len(ts) \/ e.tasks[u].state = "Pending"
       /\ \A x \in e.sent : x.queue # "x-failed" /\ ~JobEvent(x, "Failed")
  BY <1>5, <1>11, <1>14, AdvanceStates, SMTT(60)
<1>16. /\ c.jobs = jobs /\ c.tasks = ts /\ d.jobs = e.jobs /\ d.tasks = e.tasks
       /\ Ids(c) = 1 .. Len(ts) /\ JobIds(c) = 1 .. Len(jobs) /\ JobIds(d) = 1 .. Len(jobs)
       /\ Ids(d) = 1 .. Len(e.tasks)
  <2>1. c.jobs = jobs /\ c.tasks = ts BY <1>7, <1>10 DEF Closed, Book
  <2>2. d.jobs = e.jobs /\ d.tasks = e.tasks BY <1>8, <1>12, BooksNext
  <2>3. QED BY <1>15, <2>1, <2>2 DEF Ids, JobIds
<1>17. Balanced(c) /\ Accounted(c) /\ Leads(b, c)
  <2>1. Alike(b, c) BY <1>13 DEF Finished
  <2>2. TasksTame(b, c)
    <3>1. t \in Held(b) BY <1>10 DEF Held
    <3>2. \A u \in Ids(b) : \/ c.tasks[u].state = b.tasks[u].state
                            \/ ~FanOut(b.tasks[u])
                            \/ /\ c.tasks[u].state # "Failed"
                               /\ b.tasks[u].state # "Failed" \/ u \in Held(b)
      BY <1>10, <1>11, <1>16, <3>1
    <3>3. QED BY <2>1, <3>2, SameTasksTame
  <2>3. JobsTame(b, c) BY <1>10, <1>16, SameJobsTame
  <2>4. Entry(b, c) BY <1>13 DEF Entry
  <2>5. QED BY <1>10, <2>2, <2>3, <2>4, Enters
<1>18. Accounted(d) /\ Leads(c, d)
  <2>1. Entry(c, d) BY <1>13 DEF Entry, Onto
  <2>2. TasksTame(c, d)
    <3>1. \A u \in Ids(c) : d.tasks[u] = c.tasks[u] BY <1>15, <1>16
    <3>2. \A u \in Ids(d) : u \in Ids(c) \/ d.tasks[u].state = "Pending" BY <1>15, <1>16
    <3>3. QED BY <3>1, <3>2 DEF TasksTame
  <2>3. JobsTame(c, d)
    <3>1. \A k \in JobIds(c) :
            /\ c.jobs[k].state = "Pending" <=> c.jobs[k].position = 0
            /\ c.jobs[k].state \notin {"Cancelled", "Restart"}
      BY <1>17 DEF Accounted
    <3>2. QED BY <1>14, <1>15, <1>16, <3>1 DEF JobsTame
  <2>4. QED BY <1>17, <2>1, <2>2, <2>3, Enters
<1>19. Leads(b, d) BY <1>17, <1>18, LeadsOn
<1>20. \A x \in e.sent : Reason(d, x) BY <1>15, NoReason
<1>21. QED BY <1>6, <1>8, <1>12, <1>18, <1>19, <1>20, FailingKept

\* What handle_error does, one case at a time.
LEMMA ErrorCases ==
  ASSUME Ordered, NEW m \in BagToSet(msgs), HandleError(m),
         NEW t, t = m.task, NEW j, j = tasks[t].job,
         NEW ts, ts = WithState(tasks, {t}, "Failed"), t \in 1 .. Len(tasks)
  PROVE  /\ m.queue \in {"x-failed", "progress:Failed"} /\ ~FanOut(tasks[t])
         /\ ~JobActive(jobs[j].state) => Handle(m, Effect(jobs, ts, {}))
         /\ JobActive(jobs[j].state) /\ CanRetry(tasks[t]) => Handle(m, RetryTask(ts, t))
         /\ JobActive(jobs[j].state) /\ ~CanRetry(tasks[t]) =>
              Handle(m, Effect(jobs, WithState(ts, Lineage(ts, t), "Failed"),
                               {TaskMsg("x-failed", t), JobMsg(jobs, j, "Failed")}))
<1>1. /\ m.queue \in {"x-failed", "progress:Failed"}
      /\ Handle(m, IF ~JobActive(jobs[j].state) THEN Effect(jobs, ts, {})
                   ELSE IF CanRetry(ts[t]) THEN RetryTask(ts, t)
                   ELSE Effect(jobs, WithState(ts, Lineage(ts, t), "Failed"),
                               {TaskMsg("x-failed", t), JobMsg(jobs, j, "Failed")}))
  BY DEF HandleError
<1>2. Proper(tasks, m) BY DEF Ordered, AllProper
<1>3. ~FanOut(tasks[t]) BY <1>1, <1>2 DEF Proper, Worked, Workable, Regular, FanOut
<1>4. CanRetry(ts[t]) <=> CanRetry(tasks[t])
  <2>1. PICK T : T = {t} OBVIOUS
  <2>2. tasks \in Seq(Task) BY Holders, SoundTypes
  <2>3. SameTask(ts[t], tasks[t]) BY <2>1, <2>2, WithStateKeeps
  <2>4. QED BY <2>3 DEF CanRetry, SameTask
<1>5. QED BY <1>1, <1>3, <1>4

\* Another attempt: the copy is pending, the first attempt has failed.
LEMMA RetryStates ==
  ASSUME NEW ts \in Seq(Task), NEW t \in 1 .. Len(ts), NEW e, e = RetryTask(ts, t)
  PROVE  /\ e.jobs = jobs
         /\ \A u \in 1 .. Len(ts) : e.tasks[u] = ts[u]
         /\ \A u \in 1 .. Len(e.tasks) : u \in 1 .. Len(ts) \/ e.tasks[u].state = "Pending"
         /\ \A x \in e.sent : x.queue = "x-pending"
<1> DEFINE k   == ts[t].attempts + 1
           r   == [ts[t] EXCEPT !.state = "Pending", !.evaluated = TRUE, !.attempts = @ + 1]
           ts2 == Append(ts, r)
           S   == {TaskMsg("x-pending", Len(ts) + 1)}
<1>1. e = Effect(jobs, ts2, S) BY DEF RetryTask
<1>2. \A x \in S : x.queue = "x-pending" BY DEF TaskMsg
<1>3. ts[t] \in Task BY ElementOfSeq
<1>4. r \in Task /\ r.state = "Pending"
  <2>1. ts[t].attempts \in Nat BY <1>3 DEF Task
  <2>2. k \in Nat BY <2>1
  <2>3. r = [ts[t] EXCEPT !.state = "Pending", !.evaluated = TRUE, !.attempts = k] OBVIOUS
  <2> HIDE DEF k, r
  <2>4. QED BY <1>3, <2>2, <2>3 DEF Task, TaskState
<1> HIDE DEF r, S
<1>5. /\ Len(ts) \in Nat /\ Len(ts2) = Len(ts) + 1 /\ ts2[Len(ts) + 1] = r
      /\ \A u \in 1 .. Len(ts) : ts2[u] = ts[u]
  BY <1>4, AppendProperties, LenProperties
<1> HIDE DEF ts2
<1>6. e.jobs = jobs /\ e.tasks = ts2 /\ e.sent = S BY <1>1 DEF Effect
<1>7. \A u \in 1 .. Len(ts2) : u \in 1 .. Len(ts) \/ ts2[u].state = "Pending"
  BY <1>4, <1>5
<1>8. QED BY <1>2, <1>5, <1>6, <1>7

\* A task that fails when its job is no longer active, or that is tried again.
LEMMA ErrorNotLastFailing ==
  ASSUME Rows, Ordered, Failing, NEW m \in BagToSet(msgs), HandleError(m),
         JobActive(jobs[tasks[m.task].job].state) => CanRetry(tasks[m.task])
  PROVE  Failing' /\ Leads(Books, Books')
<1>1. PICK t : t = m.task OBVIOUS
<1>2. PICK j : j = tasks[t].job OBVIOUS
<1>3. PICK T : T = {t} OBVIOUS
<1>4. PICK ts : ts = WithState(tasks, T, "Failed") OBVIOUS
<1>5. PICK b : b = Books OBVIOUS
<1>6. PICK d : d = Books' OBVIOUS
<1>7. t \in 1 .. Len(tasks) BY <1>1, MessageRow DEF HandleError
<1>8. /\ Balanced(b) /\ Accounted(b) /\ b.jobs = jobs /\ b.tasks = tasks
      /\ Ids(b) = 1 .. Len(tasks) /\ Sound(jobs, tasks) /\ tasks \in Seq(Task)
  BY <1>5, AccountIs
<1>9. /\ Len(ts) = Len(tasks) /\ ts \in Seq(Task) /\ t \in 1 .. Len(ts)
      /\ \A u \in 1 .. Len(tasks) :
           /\ ts[u].state = IF u = t THEN "Failed" ELSE tasks[u].state
           /\ SameTask(ts[u], tasks[u])
  <2>1. Sound(jobs, ts) /\ Len(ts) = Len(tasks)
    BY <1>4, <1>8, WithStateSound DEF TaskState
  <2>2. \A u \in 1 .. Len(tasks) :
          ts[u].state = IF u \in T THEN "Failed" ELSE tasks[u].state
    BY <1>4, <1>8, StatesWritten
  <2>3. \A u \in 1 .. Len(tasks) : SameTask(ts[u], tasks[u]) BY <1>4, <1>8, WithStateKeeps
  <2>4. QED BY <1>3, <1>7, <2>1, <2>2, <2>3, SoundTypes
<1>10. /\ ~FanOut(tasks[t])
       /\ ~JobActive(jobs[j].state) => Handle(m, Effect(jobs, ts, {}))
       /\ JobActive(jobs[j].state) /\ CanRetry(tasks[t]) => Handle(m, RetryTask(ts, t))
  <2>1. ts = WithState(tasks, {t}, "Failed") BY <1>3, <1>4
  <2>2. QED BY <1>1, <1>2, <1>7, <2>1, ErrorCases
<1>11. IF JobActive(jobs[j].state) /\ CanRetry(tasks[t]) THEN Retried(b, d, t) ELSE Passed(b, d)
  BY <1>1, <1>2, <1>5, <1>6, HandleErrorOrdered
<1>12. PICK e : /\ Handle(m, e) /\ e.jobs = jobs
                /\ \A u \in 1 .. Len(ts) : e.tasks[u] = ts[u]
                /\ \A u \in 1 .. Len(e.tasks) : u \in 1 .. Len(ts) \/ e.tasks[u].state = "Pending"
                /\ \A x \in e.sent : x.queue = "x-pending"
  <2>1. CASE ~JobActive(jobs[j].state)
    <3>1. PICK e : e = Effect(jobs, ts, {}) OBVIOUS
    <3>2. e.jobs = jobs /\ e.tasks = ts /\ e.sent = {} BY <3>1 DEF Effect
    <3>3. Handle(m, e) BY <1>10, <2>1, <3>1
    <3>4. QED BY <3>2, <3>3
  <2>2. CASE JobActive(jobs[j].state)
    <3>1. PICK e : e = RetryTask(ts, t) OBVIOUS
    <3>2. Handle(m, e) BY <1>1, <1>2, <1>10, <2>2, <3>1
    <3>3. /\ e.jobs = jobs
          /\ \A u \in 1 .. Len(ts) : e.tasks[u] = ts[u]
          /\ \A u \in 1 .. Len(e.tasks) : u \in 1 .. Len(ts) \/ e.tasks[u].state = "Pending"
          /\ \A x \in e.sent : x.queue = "x-pending"
      BY <1>9, <3>1, RetryStates
    <3>4. QED BY <3>2, <3>3
  <2>3. QED BY <2>1, <2>2
<1>13. d.jobs = jobs /\ d.tasks = e.tasks /\ Ids(d) = 1 .. Len(e.tasks)
  BY <1>6, <1>12, BooksNext DEF Ids
<1>14. TasksTame(b, d)
  <2>1. \A u \in 1 .. Len(tasks) : FanOut(d.tasks[u]) <=> FanOut(tasks[u])
    BY <1>9, <1>12, <1>13 DEF FanOut, SameTask
  <2>2. \A u \in 1 .. Len(tasks) : FanOut(tasks[u]) => d.tasks[u].state = tasks[u].state
    BY <1>9, <1>10, <1>12, <1>13
  <2>3. \A u \in Ids(d) : u \in 1 .. Len(tasks) \/ d.tasks[u].state = "Pending"
    BY <1>9, <1>12, <1>13
  <2>4. QED BY <1>8, <2>1, <2>2, <2>3 DEF TasksTame
<1>15. JobsTame(b, d) BY <1>8, <1>13, SameJobsTame
<1>16. Entry(b, d) BY <1>11 DEF Entry, Onto
<1>17. Accounted(d) /\ Leads(b, d) BY <1>8, <1>14, <1>15, <1>16, Enters
<1>18. \A x \in e.sent : Reason(d, x) BY <1>12, NoReason DEF JobEvent
<1>19. QED BY <1>5, <1>6, <1>12, <1>17, <1>18, FailingKept

\* A task that fails for the last time.
LEMMA ErrorLastFailing ==
  ASSUME Rows, Ordered, Failing, NEW m \in BagToSet(msgs), HandleError(m),
         JobActive(jobs[tasks[m.task].job].state), ~CanRetry(tasks[m.task])
  PROVE  Failing' /\ Leads(Books, Books')
<1>1. PICK t : t = m.task OBVIOUS
<1>2. PICK j : j = tasks[t].job OBVIOUS
<1>3. PICK T : T = {t} OBVIOUS
<1>4. PICK ts : ts = WithState(tasks, T, "Failed") OBVIOUS
<1>5. PICK U : U = Lineage(ts, t) OBVIOUS
<1>6. PICK ts2 : ts2 = WithState(ts, U, "Failed") OBVIOUS
<1>7. PICK x : x = TaskMsg("x-failed", t) OBVIOUS
<1>8. PICK y : y = JobMsg(jobs, j, "Failed") OBVIOUS
<1>9. PICK e : e = Effect(jobs, ts2, {x, y}) OBVIOUS
<1>10. PICK b : b = Books OBVIOUS
<1>11. PICK d : d = Books' OBVIOUS
<1>12. t \in 1 .. Len(tasks) BY <1>1, MessageRow DEF HandleError
<1>13. /\ Balanced(b) /\ Accounted(b) /\ b.jobs = jobs /\ b.tasks = tasks /\ b.act = Act
       /\ Ids(b) = 1 .. Len(tasks) /\ Sound(jobs, tasks) /\ tasks \in Seq(Task)
  BY <1>10, AccountIs
<1>14. /\ m.queue \in {"x-failed", "progress:Failed"} /\ ~FanOut(tasks[t]) /\ Handle(m, e)
  <2>1. ts = WithState(tasks, {t}, "Failed") BY <1>3, <1>4
  <2>2. /\ m.queue \in {"x-failed", "progress:Failed"} /\ ~FanOut(tasks[t])
        /\ JobActive(jobs[j].state) /\ ~CanRetry(tasks[t]) =>
             Handle(m, Effect(jobs, WithState(ts, Lineage(ts, t), "Failed"),
                              {TaskMsg("x-failed", t), JobMsg(jobs, j, "Failed")}))
    BY <1>1, <1>2, <1>12, <2>1, ErrorCases
  <2>3. Handle(m, Effect(jobs, WithState(ts, Lineage(ts, t), "Failed"),
                         {TaskMsg("x-failed", t), JobMsg(jobs, j, "Failed")}))
    BY <1>1, <1>2, <2>2
  <2>4. QED BY <1>5, <1>6, <1>7, <1>8, <1>9, <2>2, <2>3
<1>15. e.jobs = jobs /\ e.tasks = ts2 /\ e.sent = {x, y} BY <1>9 DEF Effect
<1>16. /\ x.queue = "x-failed" /\ x.task = t
       /\ y.queue = "x-jobs" /\ y.job = j /\ y.state = "Failed"
  BY <1>7, <1>8 DEF TaskMsg, JobMsg
<1>17. d.jobs = jobs /\ d.tasks = ts2 BY <1>11, <1>14, <1>15, BooksNext
<1>18. Passed(b, d) BY <1>1, <1>2, <1>10, <1>11, HandleErrorOrdered
<1>19. Balanced(d)
  <2>1. Ordered' BY HandleErrorOrdered
  <2>2. QED BY <1>11, <2>1 DEF Ordered
<1>20. /\ Len(ts) = Len(tasks) /\ Len(ts2) = Len(tasks) /\ ts \in Seq(Task)
       /\ \A u \in 1 .. Len(tasks) :
            /\ ts2[u].state = IF u \in U \/ u = t THEN "Failed" ELSE tasks[u].state
            /\ ts[u].parent = tasks[u].parent /\ ts2[u].parent = tasks[u].parent
  <2>1. Sound(jobs, ts) /\ Len(ts) = Len(tasks)
    BY <1>4, <1>13, WithStateSound DEF TaskState
  <2>2. Sound(jobs, ts2) /\ Len(ts2) = Len(ts)
    BY <1>6, <2>1, WithStateSound DEF TaskState
  <2>3. ts \in Seq(Task) BY <2>1, SoundTypes
  <2>4. \A u \in 1 .. Len(tasks) :
          ts[u].state = IF u \in T THEN "Failed" ELSE tasks[u].state
    BY <1>4, <1>13, StatesWritten
  <2>5. \A u \in 1 .. Len(ts) :
          ts2[u].state = IF u \in U THEN "Failed" ELSE ts[u].state
    BY <1>6, <2>3, StatesWritten
  <2>6. \A u \in 1 .. Len(tasks) : SameTask(ts[u], tasks[u]) BY <1>4, <1>13, WithStateKeeps
  <2>7. \A u \in 1 .. Len(ts) : SameTask(ts2[u], ts[u]) BY <1>6, <2>3, WithStateKeeps
  <2>8. \A u \in 1 .. Len(tasks) : ts[u].parent = tasks[u].parent /\ ts2[u].parent = tasks[u].parent
    BY <2>1, <2>6, <2>7 DEF SameTask
  <2>9. QED BY <1>3, <2>1, <2>2, <2>3, <2>4, <2>5, <2>8
<1>21. Lost(d, t)
  <2>1. CASE m.queue = "x-failed"
    <3>1. Lost(b, t) BY <1>1, <1>10, <2>1 DEF Failing, Reason
    <3>2. Later(b, d) BY <1>13, <1>18, PassedLater
    <3>3. Recorded(b, d)
      <4>1. \A u \in Ids(b) : b.tasks[u].state = "Failed" => d.tasks[u].state = "Failed"
        BY <1>13, <1>17, <1>20
      <4>2. QED BY <1>13, <1>17, <4>1 DEF Recorded
    <3>4. QED BY <1>12, <1>13, <1>19, <3>1, <3>2, <3>3, Persists
  <2>2. CASE m.queue = "progress:Failed"
    <3>1. t \in Act /\ Regular(tasks[t])
      <4>1. Proper(tasks, m) BY DEF Ordered, AllProper
      <4>2. QED BY <1>1, <2>2, <4>1, Told DEF Proper, Workable, Acting, Worked
    <3>2. \A z \in e.sent : ~TaskToken(z) /\ ~JobToken(z)
      BY <1>15, <1>16 DEF TaskToken, JobToken, JobEvent, Acting, Worked
    <3>3. Fresh(m, e.sent)
      <4>1. NoClash(e.sent) BY <3>2 DEF NoClash, Clash
      <4>2. QED BY <3>2, <4>1 DEF Fresh, JobToken
    <3>4. Act' = (Act \ ActOf({m})) \cup ActOf(e.sent)
      BY <1>14, <3>3, Handled DEF Ordered
    <3>5. ActOf(e.sent) = {} BY <3>2, SilentAll
    <3>6. ActOf({m}) = {t} BY <1>1, <2>2, SaysOne DEF Acting, Worked
    <3>7. t \notin Act' BY <3>4, <3>5, <3>6
    <3>8. d.act = Act' BY <1>11 DEF Books, Book
    <3>9. t \in b.act /\ Regular(b.tasks[t]) /\ t \notin d.act
      BY <1>13, <3>1, <3>7, <3>8
    <3>10. QED BY <1>13, <1>18, <3>9, LostNow
  <2>3. QED BY <1>14, <2>1, <2>2
<1>22. Lineage(d.tasks, t) = U /\ t \in U
  <2>1. \A u \in 1 .. Len(ts) : /\ ts[u].parent \in 0 .. Len(ts) /\ ts[u].parent < u
                                /\ ts2[u].parent = ts[u].parent
    <3>1. \A u \in 1 .. Len(tasks) : tasks[u].parent < u BY <1>13 DEF Balanced, HeldOnce
    <3>2. \A u \in 1 .. Len(tasks) : tasks[u].parent \in 0 .. Len(tasks)
      <4>1. Len(tasks) \in Nat BY <1>13, SoundTypes
      <4>2. \A u \in 1 .. Len(tasks) : tasks[u].parent # 0 => tasks[u].parent \in 1 .. Len(tasks)
        BY <1>13, SoundLinks
      <4>3. QED BY <4>1, <4>2
    <3>3. QED BY <1>20, <3>1, <3>2
  <2>2. Len(ts) \in Nat /\ Len(ts2) = Len(ts) BY <1>20, LenProperties
  <2>3. \A u \in 1 .. Len(ts) : Lineage(ts2, u) = Lineage(ts, u) BY <2>1, <2>2, LineageSame
  <2>4. Lineage(d.tasks, t) = U BY <1>5, <1>12, <1>17, <1>20, <2>3
  <2>5. t \in Ids(d)
    <3>1. Alike(b, d) BY <1>18 DEF Passed
    <3>2. QED BY <1>12, <1>13, <3>1, AlikeSets
  <2>6. t \in Lineage(d.tasks, t) BY <1>19, <1>21, <2>5, AboveLost
  <2>7. QED BY <2>4, <2>6
<1>23. Accounted(d) /\ Leads(b, d) /\ Stuck(d, j)
  <2>1. \A u \in Ids(b) : d.tasks[u].state =
          IF u \in Lineage(d.tasks, t) THEN "Failed" ELSE b.tasks[u].state
    BY <1>13, <1>17, <1>20, <1>22
  <2>2. t \in Ids(b) /\ ~FanOut(b.tasks[t]) /\ b.tasks[t].job = j /\ d.jobs = b.jobs
    BY <1>2, <1>12, <1>13, <1>14, <1>17
  <2>3. Accounted(d) /\ Leads(b, d) /\ Stuck(d, b.tasks[t].job)
    BY <1>13, <1>18, <1>19, <1>21, <2>1, <2>2, FailureAccounted
  <2>4. QED BY <2>2, <2>3
<1>24. \A z \in e.sent : Reason(d, z)
  BY <1>15, <1>16, <1>21, <1>23 DEF Reason, JobEvent
<1>25. QED BY <1>10, <1>11, <1>14, <1>23, <1>24, FailingKept

\* The other events: a job left alone is not restarted, a running job is marked, and a
\* scheduled one ignored.
LEMMA OtherEventsFailing ==
  ASSUME Rows, Ordered, Failing, NEW m \in BagToSet(msgs),
         RestartJob(m) \/ MarkJobAsRunning(m) \/ IgnoreScheduled(m)
  PROVE  Failing' /\ Leads(Books, Books')
BY OtherEventsOrdered

\* The workers: what they report is no failure of the job yet.
LEMMA WorkersFailing ==
  ASSUME Rows, Ordered, Failing, Books' = Books,
         NEW x, BagToSet(msgs') \subseteq BagToSet(msgs) \cup {x},
         x.queue \notin {"x-failed", "x-jobs"}
  PROVE  Failing' /\ Leads(Books, Books')
<1>1. PICK b : b = Books OBVIOUS
<1>2. PICK d : d = Books' OBVIOUS
<1>3. d = b BY <1>1, <1>2
<1>4. Reason(b, x) BY NoReason DEF JobEvent
<1>5. \A y \in BagToSet(msgs') : Reason(d, y) BY <1>1, <1>3, <1>4 DEF Failing
<1>6. Accounted(d) BY <1>1, <1>3 DEF Failing
<1>7. QED BY <1>1, <1>2, <1>3, <1>5, <1>6, LeadsSame DEF Failing

LEMMA WorkerStartFailing ==
  ASSUME Rows, Ordered, Failing, NEW m \in BagToSet(msgs), WorkerStart(m)
  PROVE  Failing' /\ Leads(Books, Books')
<1>1. PICK x : x = TaskMsg("progress:Running", m.task) OBVIOUS
<1>2. msgs' = (msgs (-) SetToBag({m})) (+) SetToBag({x}) BY <1>1 DEF WorkerStart, Take
<1>3. BagToSet(msgs') \subseteq BagToSet(msgs) \cup {x} BY <1>2, Delivered DEF Rows
<1>4. x.queue = "progress:Running" BY <1>1 DEF TaskMsg
<1>5. Books' = Books BY WorkerStartOrdered
<1>6. QED BY <1>3, <1>4, <1>5, WorkersFailing

LEMMA WorkerLeavesFailing ==
  ASSUME Rows, Ordered, Failing, NEW t \in BagToSet(running),
         NEW q \in {"progress:Completed", "progress:Failed", "x-redeliveries"},
         WorkerLeaves(t, q)
  PROVE  Failing' /\ Leads(Books, Books')
<1>1. PICK x : x = TaskMsg(q, t) OBVIOUS
<1>2. msgs' = msgs (+) SetToBag({x}) BY <1>1 DEF WorkerLeaves
<1>3. BagToSet(msgs') \subseteq BagToSet(msgs) \cup {x}
  <2>1. IsABag(SetToBag({x})) /\ BagToSet(SetToBag({x})) = {x}
    BY DEF IsABag, SetToBag, BagToSet
  <2>2. QED BY <1>2, <2>1, UnionIsBag DEF Rows
<1>4. x.queue = q BY <1>1 DEF TaskMsg
<1>5. Books' = Books BY WorkerLeavesOrdered
<1>6. QED BY <1>3, <1>4, <1>5, WorkersFailing

\* Nothing has failed yet.
LEMMA InitFailing == Init => Failing
<1> SUFFICES ASSUME Init PROVE Failing OBVIOUS
<1>1. PICK w \in Workflows : jobs = <<NewJob(w, 0)>> BY DEF Init
<1>2. Len(jobs) = 1 /\ jobs[1].position = 0 /\ jobs[1].state = "Pending" BY <1>1 DEF NewJob
<1>3. tasks = <<>> /\ Len(tasks) = 0 BY EmptySeq DEF Init
<1>4. PICK x : x = JobMsg(jobs, 1, "Pending") OBVIOUS
<1>5. BagToSet(msgs) = {x} BY <1>4 DEF Init, SetToBag, BagToSet
<1>6. x.queue = "x-jobs" /\ x.state = "Pending" BY <1>4 DEF JobMsg
<1>7. PICK b : b = Books OBVIOUS
<1>8. b.jobs = jobs /\ Ids(b) = {} /\ JobIds(b) = {1} BY <1>2, <1>3, <1>7, BooksAre
<1>9. Accounted(b) BY <1>2, <1>8 DEF Accounted
<1>10. \A m \in BagToSet(msgs) : Reason(b, m) BY <1>5, <1>6 DEF Reason, JobEvent
<1>11. QED BY <1>7, <1>9, <1>10 DEF Failing

\* Every step of the coordinator or a worker keeps the account.
LEMMA NextFailing ==
  ASSUME LeftAlone, Rows, Ordered, Failing, [Next]_vars
  PROVE  Failing' /\ Leads(Books, Books')
<1>1. ASSUME NEW m \in BagToSet(msgs), HandleJobEvent(m) PROVE Failing' /\ Leads(Books, Books')
  <2>1. CASE StartJob(m) BY <2>1, StartJobFailing
  <2>2. CASE CompleteJob(m) BY <2>2, CompleteJobFailing
  <2>3. CASE FailJob(m) BY <2>3, FailJobFailing
  <2>4. CASE HandleCancel(m) BY <2>4, HandleCancelFailing
  <2>5. CASE RestartJob(m) \/ MarkJobAsRunning(m) \/ IgnoreScheduled(m)
    BY <2>5, OtherEventsFailing
  <2>6. QED BY <1>1, <2>1, <2>2, <2>3, <2>4, <2>5 DEF HandleJobEvent
<1>2. ASSUME NEW m \in BagToSet(msgs), HandleTaskMessage(m)
      PROVE Failing' /\ Leads(Books, Books')
  <2>1. CASE HandlePendingTask(m) BY <2>1, HandlePendingTaskFailing
  <2>2. CASE HandleTaskCompleted(m)
    BY <2>2, SubtaskCompletedFailing, TopTaskCompletedFailing
  <2>3. CASE HandleError(m) BY <2>3, ErrorNotLastFailing, ErrorLastFailing
  <2>4. CASE HandleTaskProgress(m) BY <2>4, HandleTaskProgressFailing
  <2>5. CASE HandleRedelivered(m) BY <2>5, HandleRedeliveredFailing
  <2>6. QED BY <1>2, <2>1, <2>2, <2>3, <2>4, <2>5 DEF HandleTaskMessage
<1>3. ASSUME NEW m \in BagToSet(msgs), WorkerStart(m) PROVE Failing' /\ Leads(Books, Books')
  BY <1>3, WorkerStartFailing
<1>4. ASSUME NEW t \in BagToSet(running), WorkerFinish(t) \/ WorkerCrash(t)
      PROVE Failing' /\ Leads(Books, Books')
  BY <1>4, WorkerLeavesFailing DEF WorkerFinish, WorkerCrash
<1>5. ~User
  <2>1. ASSUME NEW j, NEW st PROVE ~UserCall(j, st)
    BY DEF UserCall, LeftAlone, Rows
  <2>2. QED BY <2>1 DEF User, CancelJob, RequestRestart
<1>6. ASSUME UNCHANGED vars PROVE Failing' /\ Leads(Books, Books')
  <2>1. /\ jobs' = jobs /\ tasks' = tasks /\ msgs' = msgs /\ running' = running
        /\ finished' = finished
    BY <1>6 DEF vars
  <2>2. Books' = Books BY <2>1 DEF Books, Pend, Act, Begins, Ends
  <2>3. BagToSet(msgs') = BagToSet(msgs) BY <2>1
  <2>4. PICK b : b = Books OBVIOUS
  <2>5. PICK d : d = Books' OBVIOUS
  <2>6. d = b BY <2>2, <2>4, <2>5
  <2>7. Accounted(d) /\ \A m \in BagToSet(msgs') : Reason(d, m)
    BY <2>3, <2>4, <2>6 DEF Failing
  <2>8. QED BY <2>4, <2>5, <2>6, <2>7, LeadsSame DEF Failing
<1>7. QED BY <1>1, <1>2, <1>3, <1>4, <1>5, <1>6 DEF Next, Coordinator, Worker

\* Every failure has its reason throughout.
LEMMA FailingThroughout ==
  ASSUME LeftAlone
  PROVE  Spec => [](Rows /\ Ordered /\ Failing)
<1>1. Init => Rows /\ Ordered /\ Failing BY InitRows, InitOrdered, InitFailing
<1>2. Rows /\ Ordered /\ Failing /\ [Next]_vars => (Rows /\ Ordered /\ Failing)'
  BY NextRows, NextOrdered, NextFailing
<1>3. QED BY <1>1, <1>2, PTL DEF Spec

----------------------------------------------------------------------------
(* What becomes of the submitted job, as the user sees it (JobPromise).    *)

\* What the user sees of a job.
PhaseOf(st) == CASE st = "Pending" -> "Waiting"
                 [] st \in {"Completed", "Failed"} -> st
                 [] OTHER -> "Active"

\* The positions of the submitted job's list whose task has finished.
DoneIn(b) == {b.tasks[u].position : u \in Tops(b, 1) \cap b.fin}

\* A step of the books, as a step of JobPromise or a stutter.
Promised(b, c) ==
  LET list == b.jobs[1].tasks
      from == PhaseOf(b.jobs[1].state)
      to   == PhaseOf(c.jobs[1].state)
  IN /\ c.jobs[1].tasks = list
     /\ \/ DoneIn(c) = DoneIn(b) /\ to = from
        \/ DoneIn(c) = DoneIn(b) /\ from = "Waiting" /\ to = "Active"
        \/ /\ DoneIn(c) = DoneIn(b) /\ from = "Active" /\ to = "Completed"
           /\ DoneIn(b) = 1 .. Len(list)
        \/ /\ DoneIn(c) = DoneIn(b) /\ from = "Active" /\ to = "Failed"
           /\ 1 .. Len(list) \ DoneIn(b) # {}
        \/ /\ from = "Active" /\ to = "Active"
           /\ \E p \in 1 .. Len(list) \ DoneIn(b) : DoneIn(c) = DoneIn(b) \cup {p}

LEMMA DoneWithin ==
  ASSUME NEW b, Balanced(b), 1 \in JobIds(b)
  PROVE  /\ DoneIn(b) \subseteq 1 .. Len(b.jobs[1].tasks) /\ Len(b.jobs[1].tasks) \in Nat
         /\ IsFiniteSet(DoneIn(b)) /\ Cardinality(DoneIn(b)) \in Nat
<1>1. DoneIn(b) \subseteq 1 .. Len(b.jobs[1].tasks)
  <2>1. ASSUME NEW u \in Tops(b, 1) PROVE b.tasks[u].position \in 1 .. Len(b.jobs[1].tasks)
    <3>1. u \in Ids(b) /\ b.tasks[u].parent = 0 /\ b.tasks[u].job = 1 BY DEF Tops
    <3>2. QED BY <3>1, BookPlaces DEF Balanced
  <2>2. QED BY <2>1 DEF DoneIn
<1>2. Len(b.jobs[1].tasks) \in Nat
  <2>1. b.jobs[1] \in Job BY SoundTypes DEF Balanced, JobIds
  <2>2. QED BY <2>1, LenProperties DEF Job
<1>3. PICK n : n = Len(b.jobs[1].tasks) OBVIOUS
<1>4. PICK D : D = DoneIn(b) OBVIOUS
<1>5. IsFiniteSet(D) /\ Cardinality(D) \in Nat BY <1>1, <1>2, <1>3, <1>4, FiniteIds
<1>6. QED BY <1>1, <1>2, <1>4, <1>5

\* The positions that have finished stay as they are as long as nobody finishes.
LEMMA DoneSame ==
  ASSUME NEW b, NEW c, Balanced(b), c.fin = b.fin, Ids(b) \subseteq Ids(c),
         \A u \in Ids(b) : SameTask(c.tasks[u], b.tasks[u])
  PROVE  DoneIn(c) = DoneIn(b)
<1>1. b.fin \subseteq Ids(b) BY DEF Balanced, HeldOnce
<1>2. \A u \in b.fin : /\ u \in Tops(c, 1) <=> u \in Tops(b, 1)
                       /\ c.tasks[u].position = b.tasks[u].position
  BY <1>1 DEF Tops, SameTask
<1>3. QED BY <1>2 DEF DoneIn

\* A finished list is done from end to end, and a stuck one is not.
LEMMA DoneAll ==
  ASSUME NEW b, Balanced(b), 1 \in JobIds(b), LastDone(b, 1)
  PROVE  DoneIn(b) = 1 .. Len(b.jobs[1].tasks)
<1>1. PICK n : n = Len(b.jobs[1].tasks) OBVIOUS
<1>2. b.jobs[1].position = n /\ n \in DoneIn(b) BY <1>1 DEF LastDone, DoneIn
<1>3. LineOf(b, 1) BY DEF Balanced, Line
<1>4. \A q \in 1 .. n : q < n => q \in DoneIn(b) BY <1>2, <1>3 DEF LineOf, DoneIn
<1>5. n \in Nat /\ DoneIn(b) \subseteq 1 .. n BY <1>1, DoneWithin
<1>6. \A q \in 1 .. n : q = n \/ q < n BY <1>5
<1>7. QED BY <1>1, <1>2, <1>4, <1>5, <1>6

LEMMA StuckNotDone ==
  ASSUME NEW b, Balanced(b), Accounted(b), 1 \in JobIds(b), Stuck(b, 1)
  PROVE  1 .. Len(b.jobs[1].tasks) \ DoneIn(b) # {}
<1>1. PICK p : p = b.jobs[1].position OBVIOUS
<1>2. p \in 1 .. Len(b.jobs[1].tasks)
  <2>1. b.jobs[1] \in Job /\ JobRow(b.jobs, b.tasks, 1)
    BY SoundTypes DEF Balanced, JobIds, Sound
  <2>2. /\ b.jobs[1].position \in Nat /\ Len(b.jobs[1].tasks) \in Nat
        /\ b.jobs[1].position <= Len(b.jobs[1].tasks)
    BY <2>1, LenProperties DEF Job, JobRow
  <2>3. p # 0 BY <1>1 DEF Stuck
  <2>4. QED BY <1>1, <2>2, <2>3
<1>3. p \notin DoneIn(b)
  <2>1. SUFFICES ASSUME NEW u \in Tops(b, 1) \cap b.fin, b.tasks[u].position = p PROVE FALSE
    BY DEF DoneIn
  <2>2. u \in Held(b) BY DEF Held
  <2>3. QED BY <1>1, <2>1, <2>2, NotStuck
<1>4. QED BY <1>2, <1>3

\* An entry that finishes nothing and leaves the job at its position.
LEMMA PromisedSame ==
  ASSUME NEW b, NEW c, Balanced(b), Accounted(b), Balanced(c), Accounted(c), Leads(b, c),
         1 \in JobIds(b), c.fin = b.fin, Ids(b) \subseteq Ids(c),
         \A u \in Ids(b) : SameTask(c.tasks[u], b.tasks[u]),
         SameJob(c.jobs[1], b.jobs[1]), c.jobs[1].position = b.jobs[1].position
  PROVE  Promised(b, c)
<1>1. DoneIn(c) = DoneIn(b) BY DoneSame
<1>2. c.jobs[1].tasks = b.jobs[1].tasks BY DEF SameJob
<1>3. 1 \in JobIds(c) BY DEF Leads
<1>4. PICK s : s = b.jobs[1].state OBVIOUS
<1>5. PICK st : st = c.jobs[1].state OBVIOUS
<1>6. s = "Pending" <=> st = "Pending" BY <1>3, <1>4, <1>5 DEF Accounted
<1>7. s \in {"Completed", "Failed"} => st = s BY <1>4, <1>5 DEF Leads
<1>8. st = "Completed" => DoneIn(b) = 1 .. Len(b.jobs[1].tasks)
  <2>1. SUFFICES ASSUME st = "Completed" PROVE DoneIn(c) = 1 .. Len(c.jobs[1].tasks)
    BY <1>1, <1>2
  <2>2. LastDone(c, 1) BY <1>3, <1>5, <2>1 DEF Balanced, Line, LineOf
  <2>3. QED BY <1>3, <2>2, DoneAll
<1>9. st = "Failed" => 1 .. Len(b.jobs[1].tasks) \ DoneIn(b) # {}
  <2>1. SUFFICES ASSUME st = "Failed" PROVE 1 .. Len(c.jobs[1].tasks) \ DoneIn(c) # {}
    BY <1>1, <1>2
  <2>2. Stuck(c, 1) BY <1>3, <1>5, <2>1 DEF Accounted
  <2>3. QED BY <1>3, <2>2, StuckNotDone
<1>10. /\ s = "Pending" => PhaseOf(s) = "Waiting" /\ PhaseOf(st) = "Waiting"
       /\ s \in {"Completed", "Failed"} => PhaseOf(st) = PhaseOf(s)
       /\ s \notin {"Pending", "Completed", "Failed"} => PhaseOf(s) = "Active"
       /\ st \notin {"Pending", "Completed", "Failed"} => PhaseOf(st) = "Active"
       /\ st \in {"Completed", "Failed"} => PhaseOf(st) = st
  BY <1>6, <1>7 DEF PhaseOf
<1>11. QED BY <1>1, <1>2, <1>4, <1>5, <1>6, <1>7, <1>8, <1>9, <1>10 DEF Promised

\* The entries that do.
LEMMA PromisedEntry ==
  ASSUME NEW b, NEW c, Balanced(b), Accounted(b), Balanced(c), Accounted(c), Leads(b, c),
         1 \in JobIds(b), Onto(b, c) \/ \E t : Retried(b, c, t)
  PROVE  Promised(b, c)
<1> DEFINE Rest == /\ c.fin = b.fin /\ \A u \in Ids(b) : SameTask(c.tasks[u], b.tasks[u])
                   /\ SameJob(c.jobs[1], b.jobs[1])
                   /\ c.jobs[1].position = b.jobs[1].position
<1>1. Rest
  <2>1. CASE Passed(b, c) BY <2>1 DEF Passed, Alike
  <2>2. ASSUME NEW t, FannedOut(b, c, t) PROVE Rest BY <2>2 DEF FannedOut, Grown
  <2>3. ASSUME NEW t, Descended(b, c, t) PROVE Rest BY <2>3 DEF Descended, Grown
  <2>4. ASSUME NEW t, Retried(b, c, t) PROVE Rest BY <2>4 DEF Retried, Grown
  <2>5. QED BY <2>1, <2>2, <2>3, <2>4 DEF Onto
<1>2. Ids(b) \subseteq Ids(c) BY DEF Leads
<1>3. QED BY <1>1, <1>2, PromisedSame

\* start_job.
LEMMA StartJobPromised ==
  ASSUME Rows, Ordered, Failing, NEW m \in BagToSet(msgs), StartJob(m), 1 \in 1 .. Len(jobs)
  PROVE  Promised(Books, Books')
<1>1. PICK j : j = m.job OBVIOUS
<1>2. PICK js : js = [jobs EXCEPT ![j].state = "Scheduled", ![j].position = 1] OBVIOUS
<1>3. PICK ts : ts = Append(tasks, NewTask(j, jobs[j].tasks[1], 0, 1, TRUE)) OBVIOUS
<1>4. PICK e : e = HandlePending(js, ts, Len(ts)) OBVIOUS
<1>5. PICK b : b = Books OBVIOUS
<1>6. PICK c : c = Created(b, j, js, ts) OBVIOUS
<1>7. PICK d : d = Books' OBVIOUS
<1>8. Handle(m, e) BY <1>1, <1>2, <1>3, <1>4 DEF StartJob
<1>9. Added(b, c, j) /\ Onto(c, d)
  BY <1>1, <1>2, <1>3, <1>5, <1>6, <1>7, StartJobOrdered
<1>10. Balanced(d) /\ Accounted(d) /\ Leads(b, d)
  <2>1. Ordered' /\ Failing' /\ Leads(Books, Books') BY StartJobOrdered, StartJobFailing
  <2>2. QED BY <1>5, <1>7, <2>1 DEF Ordered, Failing
<1>11. /\ Balanced(b) /\ Accounted(b) /\ b.jobs = jobs /\ jobs \in Seq(Job)
       /\ JobIds(b) = 1 .. Len(jobs)
  BY <1>5, AccountIs
<1>12. c.jobs = js /\ c.tasks = ts BY <1>6 DEF Created, Book
<1>13. d.jobs[1] = js[1]
  <2>1. Sound(js, ts) BY <1>9, <1>12 DEF Added, Grown
  <2>2. Len(ts) \in 1 .. Len(ts)
    <3>1. Len(tasks) \in Nat /\ Len(ts) = Len(tasks) + 1
      <4>1. Len(c.tasks) = Len(b.tasks) + 1 BY <1>9 DEF Added
      <4>2. b.tasks = tasks /\ tasks \in Seq(Task) BY <1>5, AccountIs
      <4>3. QED BY <1>12, <4>1, <4>2, LenProperties
    <3>2. QED BY <3>1
  <2>3. PendingRows(js, ts, Len(ts), e)
    <3>1. PICK n : n = Len(ts) OBVIOUS
    <3>2. n \in 1 .. Len(ts) /\ e = HandlePending(js, ts, n) BY <1>4, <2>2, <3>1
    <3>3. PendingRows(js, ts, n, e) BY <2>1, <3>2, PendingStates
    <3>4. QED BY <3>1, <3>3
  <2>4. Len(js) = Len(jobs) BY <1>9, <1>11, <1>12 DEF Added
  <2>5. e.jobs[1] = js[1] BY <2>3, <2>4 DEF PendingRows
  <2>6. d.jobs = e.jobs BY <1>7, <1>8, BooksNext
  <2>7. QED BY <2>5, <2>6
<1>14. /\ d.fin = b.fin /\ Ids(b) \subseteq Ids(d)
       /\ \A u \in Ids(b) : SameTask(d.tasks[u], b.tasks[u])
       /\ SameJob(d.jobs[1], b.jobs[1])
  <2>1. /\ c.fin = b.fin /\ Ids(b) \subseteq Ids(c)
        /\ \A u \in Ids(b) : SameTask(c.tasks[u], b.tasks[u])
        /\ SameJob(c.jobs[1], b.jobs[1])
    <3>1. c.fin = b.fin /\ Grown(b, c) BY <1>9 DEF Added
    <3>2. Ids(b) \subseteq Ids(c)
      <4>1. Len(b.tasks) \in Nat /\ Len(c.tasks) = Len(b.tasks) + 1
        BY <1>9, <1>11, SoundTypes DEF Added, Balanced
      <4>2. QED BY <4>1 DEF Ids
    <3>3. QED BY <1>11, <3>1, <3>2 DEF Grown
  <2>2. d.fin = c.fin /\ \A u \in Ids(c) : SameTask(d.tasks[u], c.tasks[u])
    <3>1. CASE Passed(c, d) BY <3>1 DEF Passed, Alike
    <3>2. ASSUME NEW t, FannedOut(c, d, t)
          PROVE d.fin = c.fin /\ \A u \in Ids(c) : SameTask(d.tasks[u], c.tasks[u])
      BY <3>2 DEF FannedOut, Grown
    <3>3. ASSUME NEW t, Descended(c, d, t)
          PROVE d.fin = c.fin /\ \A u \in Ids(c) : SameTask(d.tasks[u], c.tasks[u])
      BY <3>3 DEF Descended, Grown
    <3>4. QED BY <1>9, <3>1, <3>2, <3>3 DEF Onto
  <2>3. Ids(b) \subseteq Ids(d) BY <1>10 DEF Leads
  <2>4. QED BY <1>12, <1>13, <2>1, <2>2, <2>3 DEF SameTask
<1>15. CASE j # 1
  <2>1. d.jobs[1] = b.jobs[1] BY <1>9, <1>11, <1>12, <1>13, <1>15 DEF Added
  <2>2. QED BY <1>5, <1>7, <1>10, <1>11, <1>14, <2>1, PromisedSame
<1>16. CASE j = 1
  <2>1. b.jobs[1].state = "Pending"
    <3>1. j \in Begins BY <1>1, Told DEF StartJob, JobEvent
    <3>2. LineOf(b, 1) /\ 1 \in b.begins BY <1>5, <1>11, <1>16, <3>1, Holders, BooksAre
    <3>3. b.jobs[1].position = 0 BY <3>2 DEF LineOf
    <3>4. QED BY <1>11, <3>3 DEF Accounted
  <2>2. js[1].state = "Scheduled"
    <3>1. DOMAIN jobs = 1 .. Len(jobs) /\ jobs[1] \in Job BY <1>11, LenProperties, ElementOfSeq
    <3>2. js = [[jobs EXCEPT ![1].state = "Scheduled"] EXCEPT ![1].position = 1]
      BY <1>2, <1>16, <3>1
    <3>3. PICK js1 : js1 = [jobs EXCEPT ![1].state = "Scheduled"] OBVIOUS
    <3>4. /\ DOMAIN js1 = 1 .. Len(jobs) /\ js1[1].state = "Scheduled"
          /\ js1[1] = [jobs[1] EXCEPT !.state = "Scheduled"]
      BY <3>1, <3>3 DEF Job
    <3>5. js[1] = [js1[1] EXCEPT !.position = 1] BY <3>2, <3>3, <3>4
    <3>6. js1[1] \in Job BY <3>1, <3>4 DEF Job, JobState
    <3>7. QED BY <3>4, <3>5, <3>6 DEF Job
  <2>3. PhaseOf(b.jobs[1].state) = "Waiting" /\ PhaseOf(d.jobs[1].state) = "Active"
    BY <1>13, <2>1, <2>2 DEF PhaseOf
  <2>4. DoneIn(d) = DoneIn(b) BY <1>11, <1>14, DoneSame
  <2>5. d.jobs[1].tasks = b.jobs[1].tasks BY <1>14 DEF SameJob
  <2>6. Promised(b, d) BY <2>3, <2>4, <2>5 DEF Promised
  <2>7. QED BY <1>5, <1>7, <2>6
<1>17. QED BY <1>15, <1>16

\* A finished task adds its position if it is in the list of the submitted job.
LEMMA DoneFinished ==
  ASSUME NEW b, NEW c, NEW t, Balanced(b), Finished(b, c, t)
  PROVE  /\ t \in Tops(b, 1) => DoneIn(c) = DoneIn(b) \cup {b.tasks[t].position}
         /\ t \notin Tops(b, 1) => DoneIn(c) = DoneIn(b)
<1>1. Alike(b, c) /\ c.fin = b.fin \cup {t} BY DEF Finished
<1>2. t \in Ids(b) /\ b.fin \subseteq Ids(b) BY DEF Finished, Balanced, HeldOnce
<1>3. Tops(c, 1) = Tops(b, 1) BY <1>1, AlikeSets
<1>4. \A u \in Ids(b) : c.tasks[u].position = b.tasks[u].position
  BY <1>1 DEF Alike, SameTask
<1>5. Tops(b, 1) \subseteq Ids(b) BY DEF Tops
<1>6. QED BY <1>1, <1>2, <1>3, <1>4, <1>5 DEF DoneIn

\* Such a task is the first to finish at its position, and its job is under way.
LEMMA DoneNew ==
  ASSUME NEW b, Balanced(b), Accounted(b), 1 \in JobIds(b), NEW t \in b.act, t \in Tops(b, 1)
  PROVE  /\ b.tasks[t].position \in 1 .. Len(b.jobs[1].tasks) \ DoneIn(b)
         /\ PhaseOf(b.jobs[1].state) = "Active"
<1>1. HeldOnce(b) /\ LineOf(b, 1) BY DEF Balanced, Line
<1>2. t \in Ids(b) /\ t \notin b.fin /\ t \in Live(b) BY <1>1 DEF HeldOnce, Live
<1>3. b.tasks[t].parent = 0 /\ b.tasks[t].job = 1 BY DEF Tops
<1>4. b.tasks[t].position \in 1 .. Len(b.jobs[1].tasks)
  BY <1>2, <1>3, BookPlaces DEF Balanced
<1>5. b.tasks[t].position \notin DoneIn(b)
  <2>1. SUFFICES ASSUME NEW u \in Tops(b, 1) \cap b.fin,
                        b.tasks[u].position = b.tasks[t].position
                 PROVE FALSE
    BY DEF DoneIn
  <2>2. u \in Live(b) BY DEF Live, Tops
  <2>3. u = t BY <1>1, <1>2, <2>1, <2>2 DEF LineOf
  <2>4. QED BY <1>2, <2>3
<1>6. /\ b.tasks[t].position = b.jobs[1].position /\ b.jobs[1].position # 0
      /\ b.jobs[1].state # "Completed"
  BY <1>2, <1>3, AtPosition
<1>7. b.jobs[1].state # "Failed"
  <2>1. ~Stuck(b, 1) BY <1>6, NotStuck DEF Held
  <2>2. QED BY <2>1 DEF Accounted
<1>8. b.jobs[1].state # "Pending" BY <1>6 DEF Accounted
<1>9. QED BY <1>4, <1>5, <1>6, <1>7, <1>8 DEF PhaseOf

\* handle_task_completed.
LEMMA CompletedPromised ==
  ASSUME Rows, Ordered, Failing, NEW m \in BagToSet(msgs), HandleTaskCompleted(m),
         1 \in 1 .. Len(jobs)
  PROVE  Promised(Books, Books')
<1>1. PICK t : t = m.task OBVIOUS
<1>2. PICK ts : ts = WithState(tasks, {t}, "Completed") OBVIOUS
<1>3. PICK b : b = Books OBVIOUS
<1>4. PICK d : d = Books' OBVIOUS
<1>5. t \in Act
  <2>1. m.queue \in Acting BY DEF HandleTaskCompleted, Acting, Worked
  <2>2. QED BY <1>1, <2>1, Told
<1>6. /\ Balanced(b) /\ Accounted(b) /\ b.jobs = jobs /\ b.tasks = tasks /\ t \in b.act
      /\ Ids(b) = 1 .. Len(tasks) /\ JobIds(b) = 1 .. Len(jobs) /\ 1 \in JobIds(b)
      /\ Sound(jobs, tasks) /\ t \in 1 .. Len(tasks)
  BY <1>3, <1>5, AccountIs, Holders
<1>7. Balanced(d) /\ Leads(b, d)
  <2>1. Ordered' /\ Leads(Books, Books')
    BY HandleTaskCompletedOrdered, SubtaskCompletedFailing, TopTaskCompletedFailing
  <2>2. QED BY <1>3, <1>4, <2>1 DEF Ordered
<1>8. PICK c : /\ Finished(b, c, t)
               /\ d = c \/ Passed(c, d) \/ Added(c, d, tasks[t].job)
  BY <1>1, <1>3, <1>4, HandleTaskCompletedOrdered
<1>9. Balanced(c)
  <2>1. Entry(b, c) BY <1>8 DEF Entry
  <2>2. QED BY <1>6, <2>1, EntryLater
<1>10. /\ DoneIn(d) = DoneIn(c) /\ d.jobs[1].tasks = b.jobs[1].tasks
  <2>1. c.jobs = b.jobs BY <1>8 DEF Finished
  <2>2. JobIds(c) = JobIds(b) BY <2>1 DEF JobIds
  <2>3. CASE d = c BY <2>1, <2>3
  <2>4. CASE Passed(c, d)
    <3>1. Alike(c, d) /\ d.fin = c.fin BY <2>4 DEF Passed
    <3>2. Ids(c) \subseteq Ids(d) BY <3>1, AlikeSets
    <3>3. DoneIn(d) = DoneIn(c) BY <1>9, <3>1, <3>2, DoneSame DEF Alike
    <3>4. QED BY <1>6, <2>1, <2>2, <3>1, <3>3 DEF Alike, SameJob
  <2>5. CASE Added(c, d, tasks[t].job)
    <3>1. Grown(c, d) /\ d.fin = c.fin /\ Len(d.tasks) = Len(c.tasks) + 1
      BY <2>5 DEF Added
    <3>2. Len(c.tasks) \in Nat BY <1>9, SoundTypes DEF Balanced
    <3>3. Ids(c) \subseteq Ids(d) BY <3>1, <3>2 DEF Ids
    <3>4. DoneIn(d) = DoneIn(c) BY <1>9, <3>1, <3>3, DoneSame DEF Grown
    <3>5. QED BY <1>6, <2>1, <2>2, <3>1, <3>4 DEF Grown, SameJob
  <2>6. QED BY <1>8, <2>3, <2>4, <2>5
<1>11. d.jobs[1].state = b.jobs[1].state
  <2>1. PICK e : e = RouteCompleted(ts, t) OBVIOUS
  <2>2. Handle(m, e) BY <1>1, <1>2, <2>1 DEF HandleTaskCompleted
  <2>3. d.jobs = e.jobs BY <1>4, <2>2, BooksNext
  <2>4. CASE tasks[t].parent # 0
    <3>1. e.jobs = jobs BY <1>2, <1>6, <2>1, <2>4, SubtaskStates
    <3>2. QED BY <1>6, <2>3, <3>1
  <2>5. CASE tasks[t].parent = 0
    <3>1. PICK j : j = tasks[t].job OBVIOUS
    <3>2. Sound(jobs, ts) /\ ts[t].parent = 0 /\ ts[t].job = j
      <4>1. PICK T : T = {t} OBVIOUS
      <4>2. ts = WithState(tasks, T, "Completed") BY <1>2, <4>1
      <4>3. Sound(jobs, ts) BY <1>6, <4>2, WithStateSound DEF TaskState
      <4>4. SameTask(ts[t], tasks[t]) BY <1>6, <4>2, WithStateKeeps, SoundTypes
      <4>5. QED BY <2>5, <3>1, <4>3, <4>4 DEF SameTask
    <3>3. e = AdvanceJob(ts, j) BY <2>1, <3>2 DEF RouteCompleted
    <3>4. j \in 1 .. Len(jobs) /\ jobs[j].position \in Nat
      <4>1. j \in 1 .. Len(jobs) BY <1>6, <3>1, SoundLinks
      <4>2. jobs[j] \in Job BY <1>6, <4>1, SoundTypes
      <4>3. QED BY <4>1, <4>2 DEF Job
    <3>5. \A k \in 1 .. Len(jobs) : e.jobs[k].state = jobs[k].state
      BY <3>2, <3>3, <3>4, AdvanceStates
    <3>6. QED BY <1>6, <2>3, <3>5
  <2>6. QED BY <2>4, <2>5
<1>12. CASE t \in Tops(b, 1)
  <2>1. PICK p : p = b.tasks[t].position OBVIOUS
  <2>2. DoneIn(d) = DoneIn(b) \cup {p} BY <1>6, <1>8, <1>10, <1>12, <2>1, DoneFinished
  <2>3. /\ p \in 1 .. Len(b.jobs[1].tasks) \ DoneIn(b)
        /\ PhaseOf(b.jobs[1].state) = "Active"
    BY <1>6, <1>12, <2>1, DoneNew
  <2>4. Promised(b, d) BY <1>10, <1>11, <2>2, <2>3 DEF Promised
  <2>5. QED BY <1>3, <1>4, <2>4
<1>13. CASE t \notin Tops(b, 1)
  <2>1. DoneIn(d) = DoneIn(b) BY <1>6, <1>8, <1>10, <1>13, DoneFinished
  <2>2. Promised(b, d) BY <1>10, <1>11, <2>1 DEF Promised
  <2>3. QED BY <1>3, <1>4, <2>2
<1>14. QED BY <1>12, <1>13

\* Every step keeps the promise.
LEMMA NextPromised ==
  ASSUME LeftAlone, Rows, Ordered, Failing, 1 \in 1 .. Len(jobs), [Next]_vars
  PROVE  Promised(Books, Books') \/ Books' = Books
<1>1. PICK b : b = Books OBVIOUS
<1>2. PICK d : d = Books' OBVIOUS
<1>3. /\ Balanced(b) /\ Accounted(b) /\ Balanced(d) /\ Accounted(d) /\ Leads(b, d)
      /\ 1 \in JobIds(b)
  <2>1. Ordered' /\ Failing' /\ Leads(Books, Books') BY NextOrdered, NextFailing
  <2>2. Balanced(d) /\ Accounted(d) /\ Leads(b, d) BY <1>1, <1>2, <2>1 DEF Ordered, Failing
  <2>3. QED BY <1>1, <2>2, AccountIs
<1>4. ASSUME Onto(Books, Books') \/ \E t : Retried(Books, Books', t) PROVE Promised(Books, Books')
  <2>1. Onto(b, d) \/ \E t : Retried(b, d, t) BY <1>1, <1>2, <1>4
  <2>2. Promised(b, d) BY <1>3, <2>1, PromisedEntry
  <2>3. QED BY <1>1, <1>2, <2>2
<1> DEFINE Goal == Promised(Books, Books') \/ Books' = Books
<1>5. Passed(Books, Books') => Goal BY <1>4 DEF Onto
<1>6. ASSUME NEW m \in BagToSet(msgs), HandleJobEvent(m) PROVE Goal
  <2>1. CASE StartJob(m) BY <2>1, StartJobPromised
  <2>2. CASE CompleteJob(m) BY <1>5, <2>2, CompleteJobOrdered
  <2>3. CASE FailJob(m) BY <1>5, <2>3, FailJobOrdered
  <2>4. CASE HandleCancel(m) BY <1>5, <2>4, HandleCancelOrdered
  <2>5. CASE RestartJob(m) \/ MarkJobAsRunning(m) \/ IgnoreScheduled(m)
    BY <2>5, OtherEventsOrdered
  <2>6. QED BY <1>6, <2>1, <2>2, <2>3, <2>4, <2>5 DEF HandleJobEvent
<1>7. ASSUME NEW m \in BagToSet(msgs), HandleTaskMessage(m) PROVE Goal
  <2>1. CASE HandlePendingTask(m) BY <1>4, <2>1, HandlePendingTaskOrdered
  <2>2. CASE HandleTaskCompleted(m) BY <2>2, CompletedPromised
  <2>3. CASE HandleError(m) BY <1>4, <1>5, <2>3, HandleErrorOrdered
  <2>4. CASE HandleTaskProgress(m) BY <1>5, <2>4, HandleTaskProgressOrdered
  <2>5. CASE HandleRedelivered(m) BY <1>5, <2>5, HandleRedeliveredOrdered
  <2>6. QED BY <1>7, <2>1, <2>2, <2>3, <2>4, <2>5 DEF HandleTaskMessage
<1>8. ASSUME NEW m \in BagToSet(msgs), WorkerStart(m) PROVE Goal
  BY <1>8, WorkerStartOrdered
<1>9. ASSUME NEW t \in BagToSet(running), WorkerFinish(t) \/ WorkerCrash(t) PROVE Goal
  BY <1>9, WorkerLeavesOrdered DEF WorkerFinish, WorkerCrash
<1>10. ~User
  <2>1. ASSUME NEW j, NEW st PROVE ~UserCall(j, st)
    BY DEF UserCall, LeftAlone, Rows
  <2>2. QED BY <2>1 DEF User, CancelJob, RequestRestart
<1>11. ASSUME UNCHANGED vars PROVE Goal
  <2>1. /\ jobs' = jobs /\ tasks' = tasks /\ msgs' = msgs /\ running' = running
        /\ finished' = finished
    BY <1>11 DEF vars
  <2>2. QED BY <2>1 DEF Books, Pend, Act, Begins, Ends
<1>12. QED BY <1>6, <1>7, <1>8, <1>9, <1>10, <1>11 DEF Next, Coordinator, Worker

----------------------------------------------------------------------------
(* The refinement of JobPromise.                                           *)

\* A step of JobPromise from total n, done k, phase p to m, l, q, or a stutter.
PromiseStep(n, k, p, m, l, q) ==
  /\ m = n
  /\ \/ l = k /\ q = p
     \/ l = k /\ p = "Waiting" /\ q = "Active"
     \/ l = k /\ p = "Active" /\ q = "Completed" /\ k = n
     \/ l = k /\ p = "Active" /\ q = "Failed" /\ k < n
     \/ l = k + 1 /\ p = "Active" /\ q = "Active" /\ k < n

LEMMA PromisedStep ==
  ASSUME NEW b, NEW c, Balanced(b), 1 \in JobIds(b), Promised(b, c)
  PROVE  PromiseStep(Len(b.jobs[1].tasks), Cardinality(DoneIn(b)), PhaseOf(b.jobs[1].state),
                     Len(c.jobs[1].tasks), Cardinality(DoneIn(c)), PhaseOf(c.jobs[1].state))
<1>1. PICK n : n = Len(b.jobs[1].tasks) OBVIOUS
<1>2. PICK D : D = DoneIn(b) OBVIOUS
<1>3. PICK E : E = DoneIn(c) OBVIOUS
<1>4. PICK p : p = PhaseOf(b.jobs[1].state) OBVIOUS
<1>5. PICK q : q = PhaseOf(c.jobs[1].state) OBVIOUS
<1>6. n \in Nat /\ D \subseteq 1 .. n BY <1>1, <1>2, DoneWithin
<1>7. c.jobs[1].tasks = b.jobs[1].tasks BY DEF Promised
<1>8. \/ E = D /\ q = p
      \/ E = D /\ p = "Waiting" /\ q = "Active"
      \/ E = D /\ p = "Active" /\ q = "Completed" /\ D = 1 .. n
      \/ E = D /\ p = "Active" /\ q = "Failed" /\ 1 .. n \ D # {}
      \/ p = "Active" /\ q = "Active" /\ \E x \in 1 .. n \ D : E = D \cup {x}
  BY <1>1, <1>2, <1>3, <1>4, <1>5 DEF Promised
<1>9. Cardinality(1 .. n) = n
  <2>1. 1 \in Int /\ n \in Int BY <1>6
  <2>2. Cardinality(1 .. n) = IF 1 > n THEN 0 ELSE n - 1 + 1 BY <2>1, FS_Interval
  <2>3. QED BY <1>6, <2>2
<1>10. ASSUME NEW x \in 1 .. n \ D
       PROVE Cardinality(D) < n /\ Cardinality(D \cup {x}) = Cardinality(D) + 1
  <2>1. Cardinality(D) \in Nat BY <1>6, FiniteIds
  <2>2. Cardinality(D) + 1 <= Cardinality(1 .. n) BY <1>6, ProperlyFewer
  <2>3. Cardinality(D \cup {x}) = Cardinality(D) + 1 BY <1>6, OneMore
  <2>4. QED BY <1>6, <1>9, <2>1, <2>2, <2>3
<1>11. PromiseStep(n, Cardinality(D), p, n, Cardinality(E), q)
  <2>1. CASE E = D /\ (1 .. n \ D # {} \/ ~(p = "Active" /\ q = "Failed"))
    <3>1. p = "Active" /\ q = "Failed" => Cardinality(D) < n BY <1>10, <2>1
    <3>2. D = 1 .. n => Cardinality(D) = n BY <1>9
    <3>3. CASE q = p BY <2>1, <3>3 DEF PromiseStep
    <3>4. CASE q # p BY <1>8, <2>1, <3>1, <3>2, <3>4 DEF PromiseStep
    <3>5. QED BY <3>3, <3>4
  <2>2. CASE p = "Active" /\ q = "Active" /\ \E x \in 1 .. n \ D : E = D \cup {x}
    BY <1>10, <2>2 DEF PromiseStep
  <2>3. QED BY <1>8, <2>1, <2>2
<1>12. QED BY <1>1, <1>2, <1>3, <1>4, <1>5, <1>7, <1>11

\* What the refinement mapping reads, in the books.
Doing == {tasks[t].position : t \in TopLevel(1) \cap finished}

DoneOf(ts, f) ==
  {ts[t].position : t \in {u \in DOMAIN ts : ts[u].job = 1 /\ ts[u].parent = 0} \cap f}

LEMMA DoneSeen ==
  ASSUME NEW b, NEW ts, NEW f, DOMAIN ts = 1 .. Len(ts), b.tasks = ts, b.fin = f
  PROVE  DoneOf(ts, f) = DoneIn(b)
BY DEF DoneOf, DoneIn, Tops, Ids

LEMMA PromiseSeen ==
  ASSUME NEW n, NEW k, NEW p, NEW m, NEW l, NEW q, PromiseStep(n, k, p, m, l, q),
         n = Len(jobs[1].tasks), k = Cardinality(Doing), p = PhaseOf(jobs[1].state),
         m = Len(jobs'[1].tasks), l = Cardinality(Doing'), q = PhaseOf(jobs'[1].state)
  PROVE  [Promise!Next]_(Promise!vars)
BY DEF PromiseStep, Promise!Next, Promise!vars, Promise!Start, Promise!CompleteTask,
       Promise!Complete, Promise!Fail, PhaseOf, Doing

\* A step of the system is a step of JobPromise or a stutter.
LEMMA StepPromise ==
  ASSUME LeftAlone, Rows, Ordered, Failing, Rows', 1 \in 1 .. Len(jobs), [Next]_vars
  PROVE  [Promise!Next]_(Promise!vars)
<1>1. PICK b : b = Books OBVIOUS
<1>2. PICK d : d = Books' OBVIOUS
<1>3. Balanced(b) /\ 1 \in JobIds(b) /\ b.jobs = jobs /\ b.tasks = tasks /\ b.fin = finished
  BY <1>1, AccountIs
<1>4. d.jobs = jobs' /\ d.tasks = tasks' /\ d.fin = finished' BY <1>2 DEF Books, Book
<1>5. DOMAIN tasks = 1 .. Len(tasks) /\ DOMAIN tasks' = 1 .. Len(tasks')
  <2>1. PICK js : js = jobs' OBVIOUS
  <2>2. PICK ts : ts = tasks' OBVIOUS
  <2>3. Sound(js, ts) BY <2>1, <2>2 DEF Rows
  <2>4. QED BY <2>2, <2>3, SoundTypes DEF Rows
<1>6. Doing = DoneIn(b)
  <2>1. DoneOf(tasks, finished) = DoneIn(b) BY <1>3, <1>5, DoneSeen
  <2>2. QED BY <2>1 DEF Doing, DoneOf, TopLevel
<1>7. Doing' = DoneIn(d)
  <2>1. PICK ts : ts = tasks' OBVIOUS
  <2>2. PICK f : f = finished' OBVIOUS
  <2>3. DoneOf(ts, f) = DoneIn(d) BY <1>4, <1>5, <2>1, <2>2, DoneSeen
  <2>4. QED BY <2>1, <2>2, <2>3 DEF Doing, DoneOf, TopLevel
<1>8. PromiseStep(Len(b.jobs[1].tasks), Cardinality(DoneIn(b)), PhaseOf(b.jobs[1].state),
                  Len(d.jobs[1].tasks), Cardinality(DoneIn(d)), PhaseOf(d.jobs[1].state))
  <2>1. Promised(Books, Books') \/ Books' = Books BY NextPromised
  <2>2. CASE Promised(b, d) BY <1>3, <2>2, PromisedStep
  <2>3. CASE d = b BY <2>3 DEF PromiseStep
  <2>4. QED BY <1>1, <1>2, <2>1, <2>2, <2>3
<1>9. QED BY <1>3, <1>4, <1>6, <1>7, <1>8, PromiseSeen

\* The submitted job as it is first seen.
LEMMA InitPromise == Init => Promise!Init /\ 1 \in 1 .. Len(jobs)
<1> SUFFICES ASSUME Init PROVE Promise!Init /\ 1 \in 1 .. Len(jobs) OBVIOUS
<1>1. PICK w \in Workflows : jobs = <<NewJob(w, 0)>> BY DEF Init
<1>2. Len(jobs) = 1 /\ jobs[1].tasks = w /\ jobs[1].state = "Pending" BY <1>1 DEF NewJob
<1>3. Len(w) \in Nat \ {0}
  <2>1. w \in Seq(Step) /\ w # <<>> BY WorkflowAssumption
  <2>2. QED BY <2>1, EmptySeq, LenProperties
<1>4. Cardinality({tasks[t].position : t \in TopLevel(1) \cap finished}) = 0
  <2>1. {tasks[t].position : t \in TopLevel(1) \cap finished} = {} BY DEF Init
  <2>2. QED BY <2>1, FS_EmptySet
<1>5. QED BY <1>2, <1>3, <1>4 DEF Promise!Init

\* The submitted job is never deleted.
LEMMA JobOneStays ==
  ASSUME LeftAlone, Rows, Ordered, Failing, 1 \in 1 .. Len(jobs), [Next]_vars
  PROVE  1 \in 1 .. Len(jobs')
<1>1. PICK b : b = Books OBVIOUS
<1>2. PICK d : d = Books' OBVIOUS
<1>3. Leads(b, d) BY <1>1, <1>2, NextFailing
<1>4. 1 \in JobIds(b) BY <1>1, AccountIs
<1>5. d.jobs = jobs' BY <1>2 DEF Books, Book
<1>6. QED BY <1>3, <1>4, <1>5 DEF Leads, JobIds

LEMMA StepFinal ==
  ASSUME LeftAlone, Rows, Ordered, Failing, [Next]_vars
  PROVE  \A j \in DOMAIN jobs :
           jobs[j].state \in {"Completed", "Failed"} => jobs'[j].state = jobs[j].state
<1>1. PICK b : b = Books OBVIOUS
<1>2. PICK d : d = Books' OBVIOUS
<1>3. Leads(b, d) BY <1>1, <1>2, NextFailing
<1>4. JobIds(b) = 1 .. Len(jobs) /\ b.jobs = jobs BY <1>1, AccountIs
<1>5. DOMAIN jobs = 1 .. Len(jobs) BY SoundTypes DEF Rows
<1>6. d.jobs = jobs' BY <1>2 DEF Books, Book
<1>7. QED BY <1>3, <1>4, <1>5, <1>6 DEF Leads

----------------------------------------------------------------------------
(* The messages a handler leaves, and what they say.                       *)

\* More messages say more.
LEMMA SaysMore ==
  ASSUME NEW S, NEW T, S \subseteq T
  PROVE  /\ PendOf(S) \subseteq PendOf(T) /\ ActOf(S) \subseteq ActOf(T)
         /\ BeginsOf(S) \subseteq BeginsOf(T) /\ EndsOf(S) \subseteq EndsOf(T)
BY DEF PendOf, ActOf, BeginsOf, EndsOf, Tasks, Events

\* A message that is not the one handled stays, and so does what it says.
LEMMA Remains ==
  ASSUME Rows, NEW m \in BagToSet(msgs), NEW e, Handle(m, e)
  PROVE  /\ BagToSet(msgs') \subseteq BagToSet(msgs) \cup e.sent
         /\ BagToSet(msgs) \ {m} \subseteq BagToSet(msgs') /\ e.sent \subseteq BagToSet(msgs')
         /\ Pend \ PendOf({m}) \subseteq Pend' /\ PendOf(e.sent) \subseteq Pend'
         /\ Act \ ActOf({m}) \subseteq Act' /\ ActOf(e.sent) \subseteq Act'
         /\ Begins \ BeginsOf({m}) \subseteq Begins' /\ BeginsOf(e.sent) \subseteq Begins'
         /\ Ends \ EndsOf({m}) \subseteq Ends' /\ EndsOf(e.sent) \subseteq Ends'
<1>1. PICK M : M = BagToSet(msgs) OBVIOUS
<1>2. PICK N : N = BagToSet(msgs') OBVIOUS
<1>3. msgs' = (msgs (-) SetToBag({m})) (+) SetToBag(e.sent) /\ running' = running
  BY DEF Handle, Take
<1>4. N = (IF msgs[m] = 1 THEN M \ {m} ELSE M) \cup e.sent
  BY <1>1, <1>2, <1>3, Counted DEF Rows
<1>5. N \subseteq M \cup e.sent /\ M \ {m} \subseteq N /\ e.sent \subseteq N
  <2>1. CASE msgs[m] = 1 BY <1>4, <2>1
  <2>2. CASE msgs[m] # 1 BY <1>4, <2>2
  <2>3. QED BY <2>1, <2>2
<1>6. /\ PendOf(M) \ PendOf({m}) \subseteq PendOf(N) /\ PendOf(e.sent) \subseteq PendOf(N)
      /\ ActOf(M) \ ActOf({m}) \subseteq ActOf(N) /\ ActOf(e.sent) \subseteq ActOf(N)
      /\ BeginsOf(M) \ BeginsOf({m}) \subseteq BeginsOf(N)
      /\ BeginsOf(e.sent) \subseteq BeginsOf(N)
      /\ EndsOf(M) \ EndsOf({m}) \subseteq EndsOf(N) /\ EndsOf(e.sent) \subseteq EndsOf(N)
  <2>1. PICK L : L = M \ {m} OBVIOUS
  <2>2. M = L \cup {m} BY <1>1, <2>1
  <2>3. /\ PendOf(M) = PendOf(L) \cup PendOf({m})
        /\ ActOf(M) = ActOf(L) \cup ActOf({m})
        /\ BeginsOf(M) = BeginsOf(L) \cup BeginsOf({m})
        /\ EndsOf(M) = EndsOf(L) \cup EndsOf({m})
    BY <2>2, Says
  <2>4. /\ PendOf(L) \subseteq PendOf(N) /\ ActOf(L) \subseteq ActOf(N)
        /\ BeginsOf(L) \subseteq BeginsOf(N) /\ EndsOf(L) \subseteq EndsOf(N)
    BY <1>5, <2>1, SaysMore
  <2>5. /\ PendOf(e.sent) \subseteq PendOf(N) /\ ActOf(e.sent) \subseteq ActOf(N)
        /\ BeginsOf(e.sent) \subseteq BeginsOf(N) /\ EndsOf(e.sent) \subseteq EndsOf(N)
    BY <1>5, SaysMore
  <2>6. QED BY <2>3, <2>4, <2>5
<1>7. /\ Pend = PendOf(M) /\ Begins = BeginsOf(M) /\ Ends = EndsOf(M)
      /\ Act = ActOf(M) \cup BagToSet(running)
  BY <1>1 DEF Pend, Act, Begins, Ends
<1>8. /\ Pend' = PendOf(N) /\ Begins' = BeginsOf(N) /\ Ends' = EndsOf(N)
      /\ Act' = ActOf(N) \cup BagToSet(running)
  BY <1>2, <1>3 DEF Pend, Act, Begins, Ends
<1>9. QED BY <1>1, <1>2, <1>5, <1>6, <1>7, <1>8

\* What handle_pending_task makes of a task: it is skipped or handed to a worker, or it
\* creates its subtasks, or a job.
PendingKind(js, ts, t, e) ==
  IF ts[t].step \in Skipped \/ Kind[ts[t].step] = "regular" THEN t \in ActOf(e.sent)
  ELSE IF Kind[ts[t].step] = "fanout"
    THEN Len(e.tasks) = Len(ts) + Len(Children[ts[t].step])
    ELSE Len(e.jobs) = Len(js) + 1

LEMMA PendingKinds ==
  ASSUME NEW js, NEW ts, Sound(js, ts), NEW t \in 1 .. Len(ts),
         NEW e, e = HandlePending(js, ts, t)
  PROVE  PendingKind(js, ts, t, e)
<1>1. Kind[ts[t].step] \in StepKind
  <2>1. ts[t].step \in Step BY SoundTypes DEF Task
  <2>2. QED BY <2>1, WorkflowAssumption
<1>2. ASSUME NEW q \in {"x-completed", "worker"}, NEW T, e = Effect(js, T, {TaskMsg(q, t)})
      PROVE  t \in ActOf(e.sent)
  <2>1. PICK x : x = TaskMsg(q, t) OBVIOUS
  <2>2. e.sent = {x} BY <1>2, <2>1 DEF Effect
  <2>3. x.queue = q /\ x.task = t BY <2>1 DEF TaskMsg
  <2>4. QED BY <2>2, <2>3, SaysOne DEF Acting, Worked
<1>3. CASE ts[t].step \in Skipped
  <2>1. e = Effect(js, WithState(ts, {t}, "Skipped"), {TaskMsg("x-completed", t)})
    BY <1>3 DEF HandlePending, SkipTask
  <2>2. QED BY <1>2, <1>3, <2>1 DEF PendingKind
<1>4. CASE ts[t].step \notin Skipped /\ Kind[ts[t].step] = "regular"
  <2>1. e = Effect(js, WithState(ts, {t}, "Scheduled"), {TaskMsg("worker", t)})
    BY <1>4 DEF HandlePending, ScheduleRegular
  <2>2. QED BY <1>2, <1>4, <2>1 DEF PendingKind
<1>5. CASE ts[t].step \notin Skipped /\ Kind[ts[t].step] = "fanout"
  <2>1. e = ScheduleFanOut(js, ts, t) BY <1>5 DEF HandlePending
  <2>2. FanRows(js, ts, t, Len(Children[ts[t].step]), e) BY <2>1, FanOutRows
  <2>3. QED BY <1>5, <2>2 DEF FanRows, PendingKind
<1>6. CASE ts[t].step \notin Skipped /\ Kind[ts[t].step] = "subjob"
  <2>1. PICK r : r = NewJob(Children[ts[t].step], t) OBVIOUS
  <2>2. e.jobs = Append(js, r)
    BY <1>6, <2>1 DEF HandlePending, ScheduleSubjob, Effect
  <2>3. Len(e.jobs) = Len(js) + 1
    <3>1. js \in Seq(Job) BY SoundTypes
    <3>2. r \in Job
      <4>1. ts[t].step \in Step BY SoundTypes DEF Task
      <4>2. Children[ts[t].step] \in Seq(Step) BY <4>1, ChildrenOf
      <4>3. t \in Nat BY SoundTypes
      <4>4. QED BY <2>1, <4>2, <4>3 DEF NewJob, Job, JobState
    <3>3. QED BY <2>2, <3>1, <3>2, AppendProperties
  <2>4. QED BY <1>6, <2>3 DEF PendingKind
<1>7. QED BY <1>1, <1>3, <1>4, <1>5, <1>6 DEF StepKind, PendingKind

\* Every fan-out task has something to fan out to.
FansOut == \A s \in Step : Kind[s] = "fanout" => Children[s] # <<>>

\* handle_pending_task keeps a job of one list going.
LEMMA PendingMoving ==
  ASSUME FansOut, NEW b, NEW d, Balanced(b), Moving(b), AtWork(b), NEW t \in b.pend,
         NEW e, e = HandlePending(b.jobs, b.tasks, t), d.jobs = e.jobs, d.tasks = e.tasks,
         Onto(b, d), 1 \in JobIds(b), Len(d.jobs) = Len(b.jobs),
         b.pend \ {t} \subseteq d.pend, b.act \subseteq d.act, ActOf(e.sent) \subseteq d.act,
         b.begins \subseteq d.begins, b.ends \subseteq d.ends
  PROVE  Moving(d) /\ AtWork(d)
<1>1. /\ Sound(b.jobs, b.tasks) /\ HeldOnce(b) /\ Len(b.jobs) \in Nat /\ Len(b.tasks) \in Nat
      /\ t \in Ids(b) /\ t \in 1 .. Len(b.tasks) /\ t \notin b.act
  BY SoundTypes DEF Balanced, HeldOnce, Ids
<1>2. /\ \A u \in Ids(b) : u # t => d.tasks[u].state = b.tasks[u].state
      /\ d.tasks[t].state \notin {"Completed", "Failed", "Cancelled"}
  BY <1>1, PendingStates DEF PendingRows, Ids
<1>3. IF b.tasks[t].step \in Skipped \/ Kind[b.tasks[t].step] = "regular"
        THEN t \in ActOf(e.sent)
        ELSE IF Kind[b.tasks[t].step] = "fanout"
          THEN Len(e.tasks) = Len(b.tasks) + Len(Children[b.tasks[t].step])
          ELSE Len(e.jobs) = Len(b.jobs) + 1
  <2>1. PendingKind(b.jobs, b.tasks, t, e) BY <1>1, PendingKinds
  <2>2. QED BY <2>1 DEF PendingKind
<1>4. ASSUME NEW u \in Ids(b), FanOut(b.tasks[u])
      PROVE  Children[b.tasks[u].step] # <<>> /\ Len(Children[b.tasks[u].step]) \in Nat \ {0}
  <2>1. b.tasks[u].step \in Step BY <1>1, <1>4, BookRows DEF Task
  <2>2. Children[b.tasks[u].step] # <<>> BY <1>4, <2>1 DEF FansOut, FanOut
  <2>3. QED BY <2>1, <2>2, ChildrenOf, EmptySeq
<1>5. CASE Passed(b, d)
  <2>1. /\ Alike(b, d) /\ Len(d.tasks) = Len(b.tasks) /\ d.fin = b.fin
        /\ d.act \cap d.pend = {} /\ d.act \subseteq Ids(b) /\ d.pend \subseteq b.pend
        /\ \A u \in d.act \ b.act : u \in b.pend \/ ~Regular(b.tasks[u])
    BY <1>5 DEF Passed, Alike
  <2>2. b.tasks[t].step \in Skipped \/ Kind[b.tasks[t].step] = "regular"
    <3>1. SUFFICES ASSUME b.tasks[t].step \notin Skipped, Kind[b.tasks[t].step] # "regular"
                   PROVE  FALSE
      OBVIOUS
    <3>2. CASE Kind[b.tasks[t].step] = "fanout"
      <4>1. Len(b.tasks) = Len(b.tasks) + Len(Children[b.tasks[t].step])
        BY <1>3, <2>1, <3>1, <3>2
      <4>2. FanOut(b.tasks[t]) BY <3>1, <3>2 DEF FanOut
      <4>3. PICK n \in Nat \ {0} : n = Len(Children[b.tasks[t].step]) BY <1>1, <1>4, <4>2
      <4>4. Len(b.tasks) = Len(b.tasks) + n BY <4>1, <4>3
      <4>5. QED BY <1>1, <4>4
    <3>3. CASE Kind[b.tasks[t].step] # "fanout"
      <4>1. Len(b.jobs) = Len(b.jobs) + 1 BY <1>3, <3>1, <3>3
      <4>2. QED BY <1>1, <4>1
    <3>4. QED BY <3>2, <3>3
  <2>3. t \in d.act /\ ~FanOut(b.tasks[t]) BY <1>3, <2>2 DEF FanOut
  <2>4. Held(b) \subseteq Held(d) BY <2>1, <2>3 DEF Held
  <2>5. \A p \in b.pend \ d.pend : ~FanOut(b.tasks[p]) BY <2>3
  <2>6. Sustained(b, 0) /\ Starting(b) /\ Continuing(b) BY DEF Moving
  <2>7. Sustained(d, 0) /\ Starting(d) /\ Continuing(d)
    BY <1>5, <2>4, <2>5, <2>6, PassedMoving
  <2>8. AtWork(d)
    <3>1. SUFFICES ASSUME NEW u \in d.act, Regular(d.tasks[u])
                   PROVE  d.tasks[u].state \notin {"Completed", "Failed", "Cancelled"}
      BY DEF AtWork
    <3>2. CASE u = t BY <1>2, <3>2
    <3>3. CASE u # t
      <4>1. u \in Ids(b) /\ Regular(b.tasks[u]) BY <2>1, <3>1, AlikeSets
      <4>2. u \in b.act BY <2>1, <3>1, <3>3, <4>1
      <4>3. QED BY <1>2, <3>3, <4>1, <4>2 DEF AtWork
    <3>4. QED BY <3>2, <3>3
  <2>9. QED BY <2>7, <2>8 DEF Moving
<1>6. ASSUME NEW u, FannedOut(b, d, u) PROVE Moving(d) /\ AtWork(d)
  <2>1. u \in Ids(b) /\ FanOut(b.tasks[u]) BY <1>1, <1>6 DEF FannedOut, HeldOnce
  <2>2. Children[b.tasks[u].step] # <<>> BY <1>4, <2>1
  <2>3. Moving(d) BY <1>6, <2>2, FannedOutMoving
  <2>4. Grown(b, d) /\ d.act = b.act BY <1>6 DEF FannedOut
  <2>5. AtWork(d)
    <3>1. SUFFICES ASSUME NEW v \in d.act, Regular(d.tasks[v])
                   PROVE  d.tasks[v].state \notin {"Completed", "Failed", "Cancelled"}
      BY DEF AtWork
    <3>2. v \in Ids(b) /\ v \in b.act /\ v # t BY <1>1, <2>4, <3>1 DEF HeldOnce
    <3>3. Regular(b.tasks[v]) BY <2>4, <3>1, <3>2 DEF Grown, SameTask, Regular
    <3>4. QED BY <1>2, <3>2, <3>3 DEF AtWork
  <2>6. QED BY <2>3, <2>5
<1>7. ASSUME NEW u, Descended(b, d, u) PROVE FALSE
  <2>1. Len(b.jobs) = Len(b.jobs) + 1 BY <1>7 DEF Descended
  <2>2. QED BY <1>1, <2>1
<1>8. QED BY <1>5, <1>6, <1>7 DEF Onto

\* An entry leaves the parent of a job as it is.
LEMMA EntryParent ==
  ASSUME NEW b, NEW c, Entry(b, c), NEW j \in JobIds(b)
  PROVE  c.jobs[j].parent = b.jobs[j].parent
<1>1. CASE Passed(b, c) BY <1>1 DEF Passed, Alike, SameJob
<1>2. ASSUME Grown(b, c) PROVE c.jobs[j].parent = b.jobs[j].parent
  BY <1>2 DEF Grown, SameJob
<1>3. ASSUME NEW t, FannedOut(b, c, t) PROVE Grown(b, c) BY <1>3 DEF FannedOut
<1>4. ASSUME NEW t, Descended(b, c, t) PROVE Grown(b, c) BY <1>4 DEF Descended
<1>5. ASSUME NEW k, Added(b, c, k) PROVE Grown(b, c) BY <1>5 DEF Added
<1>6. ASSUME NEW t, Finished(b, c, t) PROVE c.jobs = b.jobs BY <1>6 DEF Finished
<1>7. ASSUME NEW t, Retried(b, c, t) PROVE Grown(b, c) BY <1>7 DEF Retried
<1>8. QED BY <1>1, <1>2, <1>3, <1>4, <1>5, <1>6, <1>7 DEF Entry, Onto

----------------------------------------------------------------------------
(* A job without subjobs that nobody cancels: its failure has been         *)
(* reported, or it is kept going.                                          *)

Over == \/ ~JobActive(jobs[1].state)
        \/ \E x \in BagToSet(msgs) : JobEvent(x, "Failed")

Uncancelled == jobs[1].parent = 0 /\ \A x \in BagToSet(msgs) : ~JobEvent(x, "Cancelled")

Alive == Moving(Books) /\ AtWork(Books)

Underway == Len(jobs) = 1 /\ Uncancelled /\ (Over \/ Alive)

\* What a handler starts from, of a job that is not over.
LEMMA AliveIs ==
  ASSUME Ordered, Failing, Underway
  PROVE  /\ 1 \in JobIds(Books) /\ jobs[1].parent = 0
         /\ ~Over => Moving(Books) /\ AtWork(Books) /\ JobActive(jobs[1].state)
<1>1. JobIds(Books) = 1 .. Len(jobs) BY AccountIs
<1>2. QED BY <1>1 DEF Underway, Alive, Uncancelled, Over

\* What is over stays so, unless the failure itself is handled.
LEMMA OverStays ==
  ASSUME Ordered, Failing, Leads(Books, Books'), 1 \in 1 .. Len(jobs), Over,
         \A x \in BagToSet(msgs) : JobEvent(x, "Failed") => x \in BagToSet(msgs')
  PROVE  Over'
<1>1. CASE ~JobActive(jobs[1].state)
  <2>1. PICK b : b = Books OBVIOUS
  <2>2. PICK d : d = Books' OBVIOUS
  <2>3. /\ 1 \in JobIds(b) /\ b.jobs = jobs /\ jobs[1].state \notin {"Cancelled", "Restart"}
        /\ Sound(jobs, tasks)
    BY <2>1, AccountIs
  <2>4. d.jobs = jobs' BY <2>2 DEF Books, Book
  <2>5. jobs[1].state \in JobState BY <2>3, SoundTypes DEF Job
  <2>6. jobs[1].state \in {"Completed", "Failed"} BY <1>1, <2>3, <2>5 DEF JobState, JobActive
  <2>7. d.jobs[1].state = b.jobs[1].state BY <2>1, <2>2, <2>3, <2>6 DEF Leads
  <2>8. jobs'[1].state = jobs[1].state BY <2>3, <2>4, <2>7
  <2>9. QED BY <1>1, <2>8 DEF Over
<1>2. CASE \E x \in BagToSet(msgs) : JobEvent(x, "Failed")
  BY <1>2 DEF Over
<1>3. QED BY <1>1, <1>2 DEF Over

\* A delivery that cancels nothing and keeps the job going, or ends it.
LEMMA UnderwayKept ==
  ASSUME Rows, Ordered, Failing, Leads(Books, Books'), Underway, Len(jobs') = 1,
         NEW m \in BagToSet(msgs), NEW e, Handle(m, e), ~JobEvent(m, "Failed"),
         jobs'[1].parent = jobs[1].parent, \A x \in e.sent : ~JobEvent(x, "Cancelled"),
         ~Over => Over' \/ Alive'
  PROVE  Underway'
<1>1. /\ BagToSet(msgs') \subseteq BagToSet(msgs) \cup e.sent
      /\ BagToSet(msgs) \ {m} \subseteq BagToSet(msgs')
  BY Remains
<1>2. Uncancelled' BY <1>1 DEF Underway, Uncancelled
<1>3. \A x \in BagToSet(msgs) : JobEvent(x, "Failed") => x \in BagToSet(msgs') BY <1>1
<1>4. 1 \in 1 .. Len(jobs) BY DEF Underway
<1>5. Over => Over' BY <1>3, <1>4, OverStays
<1>6. QED BY <1>2, <1>5 DEF Underway

\* start_job.
LEMMA StartJobUnderway ==
  ASSUME FansOut, Rows, Ordered, Failing, Leads(Books, Books'), Underway, Len(jobs') = 1,
         NEW m \in BagToSet(msgs), StartJob(m)
  PROVE  Underway'
<1> DEFINE js == [jobs EXCEPT ![m.job].state = "Scheduled", ![m.job].position = 1]
           ts == Append(tasks, NewTask(m.job, jobs[m.job].tasks[1], 0, 1, TRUE))
           n  == Len(ts)
           e  == HandlePending(js, ts, n)
           c  == Created(Books, m.job, js, ts)
<1>1. JobEvent(m, "Pending") /\ Handle(m, e) BY DEF StartJob
<1>2. m.job = 1
  <2>1. m.job \in 1 .. Len(jobs) BY <1>1, MessageRow DEF JobEvent
  <2>2. QED BY <2>1 DEF Underway
<1>3. Added(Books, c, m.job) /\ Onto(c, Books') BY StartJobOrdered
<1>4. PICK b : b = Books OBVIOUS
<1>5. PICK d : d = Books' OBVIOUS
<1>6. /\ Balanced(b) /\ b.jobs = jobs /\ b.tasks = tasks /\ b.pend = Pend /\ b.act = Act
      /\ b.fin = finished /\ b.begins = Begins /\ b.ends = Ends
      /\ Ids(b) = 1 .. Len(tasks) /\ JobIds(b) = 1 .. Len(jobs) /\ Sound(jobs, tasks)
  BY <1>4, AccountIs, BooksAre
<1>7. c = Created(b, 1, js, ts) BY <1>2, <1>4
<1>8. Added(b, c, 1) /\ Onto(c, d) BY <1>2, <1>3, <1>4, <1>5
<1>9. /\ n = Len(tasks) + 1
      /\ \A u \in 1 .. Len(tasks) : ts[u] = tasks[u]
  <2>1. m.job \in 1 .. Len(jobs) BY <1>2 DEF Underway
  <2>2. PICK j \in 1 .. Len(jobs) : j = m.job BY <2>1
  <2>3. ts = Append(tasks, NewTask(j, jobs[j].tasks[1], 0, 1, TRUE)) BY <2>2
  <2> HIDE DEF ts
  <2>4. QED BY <1>6, <2>3, FirstTask
<1> HIDE DEF js, ts, c
<1>10. /\ c.jobs = js /\ c.tasks = ts /\ c.pend = Pend \cup {n} /\ c.act = Act
       /\ c.begins = Begins \ {1} /\ c.ends = Ends
  BY <1>6, <1>7 DEF Created, Book
<1>11. e = HandlePending(c.jobs, c.tasks, n) BY <1>10
<1> HIDE DEF n, e
<1>12. d.jobs = e.jobs /\ d.tasks = e.tasks /\ jobs' = e.jobs /\ tasks' = e.tasks
  BY <1>1, <1>5, BooksNext
<1>13. /\ PendOf({m}) = {} /\ ActOf({m}) = {} /\ BeginsOf({m}) = {1} /\ EndsOf({m}) = {}
  BY <1>1, <1>2, SaysOne DEF JobEvent, Acting, Worked
<1>14. /\ d.pend = Pend' /\ d.act = Act' /\ d.begins = Begins' /\ d.ends = Ends'
  BY <1>5 DEF Books, Book
<1>15. /\ c.pend \ {n} \subseteq d.pend /\ c.act \subseteq d.act /\ ActOf(e.sent) \subseteq d.act
       /\ c.begins \subseteq d.begins /\ c.ends \subseteq d.ends
  BY <1>1, <1>10, <1>13, <1>14, Remains
<1>16. Balanced(c) BY <1>6, <1>8, Add
<1>17. /\ Len(c.jobs) = Len(b.jobs) /\ Len(b.jobs) = 1 /\ 1 \in JobIds(c)
       /\ Len(d.jobs) = Len(c.jobs)
  <2>1. Len(c.jobs) = Len(b.jobs) BY <1>8 DEF Added
  <2>2. Len(b.jobs) = 1 BY <1>6 DEF Underway
  <2>3. Len(d.jobs) = 1 BY <1>12
  <2>4. QED BY <2>1, <2>2, <2>3 DEF JobIds
<1>18. jobs'[1].parent = jobs[1].parent
  <2>1. Entry(b, c) /\ Entry(c, d) BY <1>8 DEF Entry
  <2>2. 1 \in JobIds(b) BY <1>17 DEF JobIds
  <2>3. d.jobs[1].parent = c.jobs[1].parent /\ c.jobs[1].parent = b.jobs[1].parent
    BY <1>17, <2>1, <2>2, EntryParent
  <2>4. QED BY <1>6, <1>12, <2>3
<1>19. \A x \in e.sent : ~JobEvent(x, "Cancelled")
  <2>1. n \in 1 .. Len(c.tasks) /\ Sound(c.jobs, c.tasks)
    BY <1>10, <1>16 DEF Balanced, HeldOnce, Ids
  <2>2. PendingRows(c.jobs, c.tasks, n, e) BY <1>11, <2>1, PendingStates
  <2>3. QED BY <2>2 DEF PendingRows
<1>20. ASSUME ~Over PROVE Alive'
  <2>1. Moving(b) /\ AtWork(b) BY <1>4, <1>20, AliveIs
  <2>2. Moving(c) BY <1>6, <1>8, <2>1, AddedMoving DEF Moving
  <2>3. AtWork(c)
    <3>1. Act \subseteq 1 .. Len(tasks) BY Holders
    <3>2. QED BY <1>6, <1>9, <1>10, <2>1, <3>1 DEF AtWork
  <2>4. n \in c.pend BY <1>10
  <2>5. Moving(d) /\ AtWork(d)
    BY <1>8, <1>11, <1>12, <1>15, <1>16, <1>17, <2>2, <2>3, <2>4, PendingMoving
  <2>6. QED BY <1>5, <2>5 DEF Alive
<1>21. ~JobEvent(m, "Failed") BY <1>1 DEF JobEvent
<1>22. QED BY <1>1, <1>18, <1>19, <1>20, <1>21, UnderwayKept

\* handle_pending_task.
LEMMA HandlePendingTaskUnderway ==
  ASSUME FansOut, Rows, Ordered, Failing, Leads(Books, Books'), Underway, Len(jobs') = 1,
         NEW m \in BagToSet(msgs), HandlePendingTask(m)
  PROVE  Underway'
<1> DEFINE t == m.task
           e == HandlePending(jobs, tasks, t)
<1>1. m.queue = "x-pending" /\ Handle(m, e) /\ t \in Pend BY Told DEF HandlePendingTask
<1>2. Onto(Books, Books') BY HandlePendingTaskOrdered
<1>3. PICK b : b = Books OBVIOUS
<1>4. PICK d : d = Books' OBVIOUS
<1>5. /\ Balanced(b) /\ b.jobs = jobs /\ b.tasks = tasks /\ b.pend = Pend /\ b.act = Act
      /\ b.begins = Begins /\ b.ends = Ends
      /\ Ids(b) = 1 .. Len(tasks) /\ JobIds(b) = 1 .. Len(jobs) /\ Sound(jobs, tasks)
  BY <1>3, AccountIs, BooksAre
<1>6. e = HandlePending(b.jobs, b.tasks, t) BY <1>5
<1> HIDE DEF e
<1>7. PendOf({m}) = {t} /\ ActOf({m}) = {} /\ BeginsOf({m}) = {} /\ EndsOf({m}) = {}
  BY <1>1, SaysOne DEF Acting, Worked, JobEvent
<1> HIDE DEF t
<1>8. d.jobs = e.jobs /\ d.tasks = e.tasks /\ jobs' = e.jobs /\ tasks' = e.tasks
  BY <1>1, <1>4, BooksNext
<1>9. /\ d.pend = Pend' /\ d.act = Act' /\ d.begins = Begins' /\ d.ends = Ends'
  BY <1>4 DEF Books, Book
<1>10. /\ b.pend \ {t} \subseteq d.pend /\ b.act \subseteq d.act /\ ActOf(e.sent) \subseteq d.act
       /\ b.begins \subseteq d.begins /\ b.ends \subseteq d.ends
  BY <1>1, <1>5, <1>7, <1>9, Remains
<1>11. Len(b.jobs) = 1 /\ Len(d.jobs) = Len(b.jobs) /\ 1 \in JobIds(b) /\ Onto(b, d)
  BY <1>2, <1>3, <1>4, <1>5, <1>8 DEF Underway, JobIds
<1>12. jobs'[1].parent = jobs[1].parent
  <2>1. Entry(b, d) BY <1>11 DEF Entry
  <2>2. QED BY <1>5, <1>8, <1>11, <2>1, EntryParent
<1>13. \A x \in e.sent : ~JobEvent(x, "Cancelled")
  <2>1. t \in 1 .. Len(b.tasks) /\ Sound(b.jobs, b.tasks)
    BY <1>1, <1>5 DEF Balanced, HeldOnce, Ids
  <2>2. PendingRows(b.jobs, b.tasks, t, e) BY <1>6, <2>1, PendingStates
  <2>3. QED BY <2>2 DEF PendingRows
<1>14. ASSUME ~Over PROVE Alive'
  <2>1. Moving(b) /\ AtWork(b) BY <1>3, <1>14, AliveIs
  <2>2. Moving(d) /\ AtWork(d)
    BY <1>1, <1>5, <1>6, <1>8, <1>10, <1>11, <2>1, PendingMoving
  <2>3. QED BY <1>4, <2>2 DEF Alive
<1>15. ~JobEvent(m, "Failed") BY <1>1 DEF JobEvent
<1>16. QED BY <1>1, <1>12, <1>13, <1>14, <1>15, UnderwayKept

\* complete_job: the job is over.
LEMMA CompleteJobUnderway ==
  ASSUME Rows, Ordered, Failing, Leads(Books, Books'), Underway, Len(jobs') = 1,
         NEW m \in BagToSet(msgs), CompleteJob(m)
  PROVE  Underway'
<1> DEFINE js == [jobs EXCEPT ![m.job].state = "Completed"]
           e  == Effect(js, tasks, ToParent(m.job, "x-completed"))
<1>1. JobEvent(m, "Completed") /\ Handle(m, e) BY DEF CompleteJob
<1>2. m.job = 1
  <2>1. m.job \in 1 .. Len(jobs) BY <1>1, MessageRow DEF JobEvent
  <2>2. QED BY <2>1 DEF Underway
<1>3. 1 \in 1 .. Len(jobs) BY DEF Underway
<1>4. js[1].state = "Completed" /\ js[1].parent = jobs[1].parent
  <2>1. jobs[1] \in Job /\ DOMAIN jobs = 1 .. Len(jobs) BY <1>3, Holders, SoundTypes
  <2>2. QED BY <1>2, <1>3, <2>1 DEF Job
<1>5. jobs' = js BY <1>1 DEF Handle, Effect
<1>6. \A x \in e.sent : ~JobEvent(x, "Cancelled")
  BY DEF Effect, ToParent, TaskMsg, JobEvent
<1> HIDE DEF js, e
<1>7. Over' BY <1>4, <1>5 DEF Over, JobActive
<1>8. ~JobEvent(m, "Failed") BY <1>1 DEF JobEvent
<1>9. QED BY <1>1, <1>4, <1>5, <1>6, <1>7, <1>8, UnderwayKept

\* fail_job: the job is over, and there is no subjob to cancel and nobody to tell.
LEMMA FailJobUnderway ==
  ASSUME Rows, Ordered, Failing, Leads(Books, Books'), Underway, Len(jobs') = 1,
         NEW m \in BagToSet(msgs), FailJob(m)
  PROVE  Underway'
<1> DEFINE js == IF JobActive(jobs[m.job].state)
                   THEN [jobs EXCEPT ![m.job].state = "Failed"] ELSE jobs
           T  == Cancellable(tasks, m.job)
           e0 == CancelActiveTasks(js, tasks, m.job)
           e  == Effect(e0.jobs, e0.tasks, e0.sent \cup ToParent(m.job, "x-failed"))
<1>1. JobEvent(m, "Failed") /\ Handle(m, e) BY DEF FailJob
<1>2. m.job = 1
  <2>1. m.job \in 1 .. Len(jobs) BY <1>1, MessageRow DEF JobEvent
  <2>2. QED BY <2>1 DEF Underway
<1>3. 1 \in 1 .. Len(jobs) /\ jobs[1].parent = 0 BY DEF Underway, Uncancelled
<1>4. ~JobActive(js[1].state) /\ js[1].parent = jobs[1].parent
  <2>1. jobs[1] \in Job /\ DOMAIN jobs = 1 .. Len(jobs) BY <1>3, Holders, SoundTypes
  <2>2. QED BY <1>2, <1>3, <2>1 DEF Job, JobActive
<1>5. T \subseteq 1 .. Len(tasks)
  <2>1. DOMAIN tasks = 1 .. Len(tasks) BY Holders, SoundTypes
  <2>2. QED BY <2>1 DEF Cancellable
<1>6. jobs' = js /\ e.sent = SubjobCancels(js, tasks, T) \cup ToParent(m.job, "x-failed")
  BY <1>1 DEF Handle, Effect, CancelActiveTasks
<1>7. SubjobCancels(js, tasks, T) = {}
  <2>1. ASSUME NEW t \in T PROVE tasks[t].subjob = 0
    <3>1. PICK b : b = Books OBVIOUS
    <3>2. /\ Balanced(b) /\ b.jobs = jobs /\ b.tasks = tasks /\ Ids(b) = 1 .. Len(tasks)
          /\ JobIds(b) = 1 .. Len(jobs) /\ Sound(jobs, tasks)
      BY <3>1, AccountIs
    <3>3. t \in Ids(b) /\ t # 0 BY <1>5, <2>1, <3>2
    <3>4. SUFFICES ASSUME tasks[t].subjob # 0 PROVE FALSE OBVIOUS
    <3>5. tasks[t].subjob \in 1 .. Len(jobs) BY <3>2, <3>3, <3>4, SoundLinks
    <3>6. tasks[t].subjob = 1 BY <3>5 DEF Underway
    <3>7. b.jobs[b.tasks[t].subjob].parent = t BY <3>2, <3>3, <3>4 DEF Balanced, Nesting
    <3>8. QED BY <1>3, <3>2, <3>3, <3>6, <3>7
  <2> HIDE DEF T, js
  <2>2. QED BY <2>1 DEF SubjobCancels
<1>8. ToParent(m.job, "x-failed") = {} BY <1>2, <1>3 DEF ToParent
<1>9. e.sent = {} BY <1>6, <1>7, <1>8
<1> HIDE DEF js, e
<1>10. BagToSet(msgs') \subseteq BagToSet(msgs) BY <1>1, <1>9, Remains
<1>11. Over' BY <1>4, <1>6 DEF Over
<1>12. Uncancelled' BY <1>4, <1>6, <1>10 DEF Underway, Uncancelled
<1>13. QED BY <1>11, <1>12 DEF Underway

\* cancel_job is not reached.
LEMMA HandleCancelUnderway ==
  ASSUME Underway, NEW m \in BagToSet(msgs), HandleCancel(m)
  PROVE  Underway'
BY DEF Underway, Uncancelled, HandleCancel

\* handle_task_progress.
LEMMA HandleTaskProgressUnderway ==
  ASSUME Rows, Ordered, Failing, Leads(Books, Books'), Underway, Len(jobs') = 1,
         NEW m \in BagToSet(msgs), HandleTaskProgress(m)
  PROVE  Underway'
<1> DEFINE e == Effect(jobs, WithState(tasks, {m.task}, "Running"), {})
<1>1. Handle(m, e) /\ m.queue = "progress:Running" BY DEF HandleTaskProgress
<1>2. Passed(Books, Books') BY HandleTaskProgressOrdered
<1>3. PICK b : b = Books OBVIOUS
<1>4. PICK d : d = Books' OBVIOUS
<1>5. /\ Balanced(b) /\ b.jobs = jobs /\ b.tasks = tasks /\ b.pend = Pend /\ b.act = Act
      /\ b.fin = finished /\ b.begins = Begins /\ b.ends = Ends
      /\ Ids(b) = 1 .. Len(tasks) /\ JobIds(b) = 1 .. Len(jobs) /\ tasks \in Seq(Task)
  BY <1>3, AccountIs, BooksAre
<1>6. PICK T : T = {m.task} OBVIOUS
<1>7. e.jobs = jobs /\ e.tasks = WithState(tasks, T, "Running") /\ e.sent = {}
  BY <1>6 DEF Effect
<1> HIDE DEF e
<1>8. jobs' = jobs /\ d.jobs = jobs /\ d.tasks = WithState(tasks, T, "Running")
  BY <1>1, <1>4, <1>7, BooksNext
<1>9. PendOf({m}) = {} /\ ActOf({m}) = {} /\ BeginsOf({m}) = {} /\ EndsOf({m}) = {}
  BY <1>1, SaysOne DEF Acting, Worked, JobEvent
<1>10. /\ d.pend = Pend' /\ d.act = Act' /\ d.begins = Begins' /\ d.ends = Ends'
  BY <1>4 DEF Books, Book
<1>11. Passed(b, d) /\ d.fin = b.fin /\ d.pend \subseteq b.pend
  BY <1>2, <1>3, <1>4 DEF Passed
<1>12. /\ b.pend \subseteq d.pend /\ b.act \subseteq d.act
       /\ b.begins \subseteq d.begins /\ b.ends \subseteq d.ends
  BY <1>1, <1>5, <1>9, <1>10, Remains
<1>13. Held(b) \subseteq Held(d) /\ d.pend = b.pend BY <1>11, <1>12 DEF Held
<1>14. \A u \in Ids(b) : \/ d.tasks[u].state = b.tasks[u].state
                         \/ d.tasks[u].state \notin {"Completed", "Failed", "Cancelled"}
  BY <1>5, <1>8, StatesWritten
<1>15. ASSUME ~Over PROVE Alive'
  <2>1. Moving(b) /\ AtWork(b) /\ 1 \in JobIds(b) BY <1>3, <1>15, AliveIs
  <2>2. Moving(d) /\ AtWork(d)
    BY <1>5, <1>11, <1>12, <1>13, <1>14, <2>1, HeldMoving
  <2>3. QED BY <1>4, <2>2 DEF Alive
<1>16. ~JobEvent(m, "Failed") BY <1>1 DEF JobEvent
<1>17. QED BY <1>1, <1>7, <1>8, <1>15, <1>16, UnderwayKept

\* handle_redelivered: a task at work is published again.
LEMMA HandleRedeliveredUnderway ==
  ASSUME Rows, Ordered, Failing, Leads(Books, Books'), Underway, Len(jobs') = 1,
         NEW m \in BagToSet(msgs), HandleRedelivered(m)
  PROVE  Underway'
<1> DEFINE S == IF Redeliverable(tasks[m.task].state) THEN {TaskMsg("worker", m.task)} ELSE {}
           e == Effect(jobs, tasks, S)
<1>1. Handle(m, e) /\ m.queue = "x-redeliveries" BY DEF HandleRedelivered
<1>2. Passed(Books, Books') \/ Books' = Books BY HandleRedeliveredOrdered
<1>3. PICK b : b = Books OBVIOUS
<1>4. PICK d : d = Books' OBVIOUS
<1>5. /\ Balanced(b) /\ b.jobs = jobs /\ b.tasks = tasks /\ b.pend = Pend /\ b.act = Act
      /\ b.fin = finished /\ b.begins = Begins /\ b.ends = Ends
      /\ Ids(b) = 1 .. Len(tasks) /\ JobIds(b) = 1 .. Len(jobs) /\ tasks \in Seq(Task)
  BY <1>3, AccountIs, BooksAre
<1>6. e.jobs = jobs /\ e.tasks = tasks /\ e.sent = S BY DEF Effect
<1>7. PICK t : t = m.task OBVIOUS
<1>8. PICK x : x = TaskMsg("worker", t) OBVIOUS
<1>9. x.queue = "worker" /\ x.task = t BY <1>8 DEF TaskMsg
<1>10. \A y \in S : y = x BY <1>7, <1>8
<1>11. \A y \in S : ~JobEvent(y, "Cancelled") BY <1>9, <1>10 DEF JobEvent
<1>12. Redeliverable(tasks[t].state) => S = {x} BY <1>7, <1>8
<1> HIDE DEF e, S
<1>13. jobs' = jobs /\ d.jobs = jobs /\ d.tasks = tasks BY <1>1, <1>4, <1>6, BooksNext
<1>14. PendOf({m}) = {} /\ ActOf({m}) = {t} /\ BeginsOf({m}) = {} /\ EndsOf({m}) = {}
  BY <1>1, <1>7, SaysOne DEF Acting, Worked, JobEvent
<1>15. /\ d.pend = Pend' /\ d.act = Act' /\ d.begins = Begins' /\ d.ends = Ends'
  BY <1>4 DEF Books, Book
<1>16. ASSUME ~Over PROVE Alive'
  <2>1. Moving(b) /\ AtWork(b) /\ 1 \in JobIds(b) BY <1>3, <1>16, AliveIs
  <2>2. CASE d = b BY <1>4, <2>1, <2>2 DEF Alive
  <2>3. CASE d # b
    <3>1. Passed(b, d) /\ d.fin = b.fin /\ d.pend \subseteq b.pend
      BY <1>2, <1>3, <1>4, <2>3 DEF Passed
    <3>2. t \in b.act
      <4>1. m.queue \in Acting BY <1>1 DEF Acting, Worked
      <4>2. QED BY <1>5, <1>7, <4>1, Told
    <3>3. Regular(tasks[t])
      <4>1. Proper(tasks, m) BY DEF Ordered, AllProper
      <4>2. QED BY <1>1, <1>7, <4>1 DEF Proper, Worked, Workable
    <3>4. Redeliverable(tasks[t].state)
      BY <1>5, <2>1, <3>2, <3>3 DEF AtWork, Redeliverable
    <3>5. t \in ActOf(e.sent) BY <1>6, <1>9, <1>12, <3>4, SaysOne DEF Acting, Worked
    <3>6. /\ b.pend \subseteq d.pend /\ b.act \subseteq d.act
          /\ b.begins \subseteq d.begins /\ b.ends \subseteq d.ends
      BY <1>1, <1>5, <1>14, <1>15, <3>5, Remains
    <3>7. Held(b) \subseteq Held(d) /\ d.pend = b.pend BY <3>1, <3>6 DEF Held
    <3>8. \A u \in Ids(b) : d.tasks[u].state = b.tasks[u].state BY <1>5, <1>13
    <3>9. Moving(d) /\ AtWork(d) BY <1>5, <2>1, <3>1, <3>6, <3>7, <3>8, HeldMoving
    <3>10. QED BY <1>4, <3>9 DEF Alive
  <2>4. QED BY <2>2, <2>3
<1>17. ~JobEvent(m, "Failed") BY <1>1 DEF JobEvent
<1>18. QED BY <1>1, <1>6, <1>11, <1>13, <1>16, <1>17, UnderwayKept

LEMMA CountSent ==
  ASSUME NEW ts, NEW p
  PROVE  LET e == CountSubtask(ts, p)
         IN Enough(e.tasks[p]) => TaskMsg("x-completed", p) \in e.sent
<1> DEFINE r == [ts[p] EXCEPT !.completions = @ + 1]
           w == WithTask(ts, p, r)
<1>1. CountSubtask(ts, p) =
        Effect(jobs, w, IF Enough(w[p]) THEN {TaskMsg("x-completed", p)} ELSE {})
  BY DEF CountSubtask
<1> HIDE DEF w
<1>2. QED BY <1>1 DEF Effect

\* handle_subtask_completed reports the parent when its count is full.
LEMMA CountTold ==
  ASSUME Sound(jobs, tasks), NEW t \in 1 .. Len(tasks), tasks[t].parent # 0,
         NEW ts, ts = WithState(tasks, {t}, "Completed"), NEW e, e = RouteCompleted(ts, t),
         NEW p, p = tasks[t].parent
  PROVE  p \in ActOf(e.sent) \/ ~Enough(e.tasks[p])
<1>1. ts[t].parent = p
  <2>1. PICK T : T = {t} OBVIOUS
  <2>2. ts = WithState(tasks, T, "Completed") BY <2>1
  <2>3. SameTask(ts[t], tasks[t]) BY <2>2, WithStateKeeps, SoundTypes
  <2>4. QED BY <2>3 DEF SameTask
<1>2. e = CountSubtask(ts, p) BY <1>1 DEF RouteCompleted
<1>3. Enough(e.tasks[p]) => TaskMsg("x-completed", p) \in e.sent BY <1>2, CountSent
<1>4. PICK x : x = TaskMsg("x-completed", p) OBVIOUS
<1>5. x.queue = "x-completed" /\ x.task = p BY <1>4 DEF TaskMsg
<1>6. x.queue \in Acting BY <1>5 DEF Acting, Worked
<1>7. QED BY <1>3, <1>4, <1>5, <1>6 DEF ActOf, Tasks

\* handle_subtask_completed.
LEMMA SubtaskCompletedUnderway ==
  ASSUME Rows, Ordered, Failing, Leads(Books, Books'), Underway, Len(jobs') = 1,
         NEW m \in BagToSet(msgs), HandleTaskCompleted(m), tasks[m.task].parent # 0
  PROVE  Underway'
<1> DEFINE ts == WithState(tasks, {m.task}, "Completed")
           e  == RouteCompleted(ts, m.task)
<1>1. PICK t : t = m.task OBVIOUS
<1>2. Handle(m, e) /\ t \in Act /\ m.queue \in Acting /\ ~JobEvent(m, "Failed")
  <2>1. m.queue \in {"x-completed", "progress:Completed"} BY DEF HandleTaskCompleted
  <2>2. m.queue \in Acting /\ ~JobEvent(m, "Failed") BY <2>1 DEF Acting, Worked, JobEvent
  <2>3. QED BY <1>1, <2>2, Told DEF HandleTaskCompleted
<1>3. PICK b : b = Books OBVIOUS
<1>4. PICK d : d = Books' OBVIOUS
<1>5. PICK c : c = Closed(b, tasks', t) OBVIOUS
<1>6. Finished(b, c, t) /\ (Passed(c, d) \/ d = c)
  BY <1>1, <1>3, <1>4, <1>5, HandleTaskCompletedOrdered
<1>7. /\ Balanced(b) /\ b.jobs = jobs /\ b.tasks = tasks /\ t \in b.act
      /\ b.pend = Pend /\ b.act = Act /\ b.begins = Begins /\ b.ends = Ends
      /\ Ids(b) = 1 .. Len(tasks) /\ Sound(jobs, tasks) /\ t \in 1 .. Len(tasks)
  BY <1>2, <1>3, AccountIs, Holders, BooksAre
<1>8. /\ e.jobs = jobs
      /\ \A u \in 1 .. Len(tasks) :
           e.tasks[u].state = IF u = t THEN "Completed" ELSE tasks[u].state
      /\ \A x \in e.sent : x.queue = "x-completed"
  BY <1>1, <1>7, SubtaskStates
<1>9. PICK p : p = tasks[t].parent OBVIOUS
<1>10. p \in 1 .. Len(tasks) BY <1>1, <1>7, <1>9, SoundLinks
<1>11. p \in ActOf(e.sent) \/ ~Enough(e.tasks[p]) BY <1>1, <1>7, <1>9, CountTold
<1> HIDE DEF e
<1>12. /\ jobs' = jobs /\ d.jobs = jobs /\ d.tasks = e.tasks
  BY <1>2, <1>4, <1>8, BooksNext
<1>13. Balanced(c) /\ Balanced(d)
  <2>1. Ordered' BY HandleTaskCompletedOrdered
  <2>2. QED BY <1>4, <1>6, <1>7, <2>1, Finish DEF Ordered
<1>14. PendOf({m}) = {} /\ ActOf({m}) = {t} /\ BeginsOf({m}) = {} /\ EndsOf({m}) = {}
  BY <1>1, <1>2, SaysOne DEF Acting, Worked, JobEvent
<1>15. /\ d.pend = Pend' /\ d.act = Act' /\ d.begins = Begins' /\ d.ends = Ends'
  BY <1>4 DEF Books, Book
<1>16. /\ c.pend \subseteq d.pend /\ c.act \subseteq d.act /\ ActOf(e.sent) \subseteq d.act
       /\ c.begins \subseteq d.begins /\ c.ends \subseteq d.ends
  <2>1. c.pend = b.pend /\ c.act = b.act \ {t} /\ c.begins = b.begins /\ c.ends = b.ends
    BY <1>6 DEF Finished
  <2>2. QED BY <1>2, <1>7, <1>14, <1>15, <2>1, Remains
<1>17. ASSUME ~Over PROVE Alive'
  <2>1. Moving(b) /\ AtWork(b) /\ 1 \in JobIds(b) BY <1>3, <1>17, AliveIs
  <2>2. p \in d.act \/ ~Enough(d.tasks[p]) BY <1>11, <1>12, <1>16
  <2>3. \A u \in Ids(b) : u # t => d.tasks[u].state = b.tasks[u].state
    BY <1>7, <1>8, <1>12
  <2>4. Moving(d) /\ AtWork(d)
    BY <1>6, <1>7, <1>9, <1>10, <1>13, <1>16, <2>1, <2>2, <2>3, CountedMoving
  <2>5. QED BY <1>4, <2>4 DEF Alive
<1>18. \A x \in e.sent : ~JobEvent(x, "Cancelled") BY <1>8 DEF JobEvent
<1>19. jobs'[1].parent = jobs[1].parent BY <1>12
<1>20. QED BY <1>2, <1>17, <1>18, <1>19, UnderwayKept

\* handle_top_level_task_completed reports the job when it creates no task.
LEMMA AdvanceTold ==
  ASSUME NEW ts, Sound(jobs, ts), NEW j, NEW e, e = AdvanceJob(ts, j),
         Len(e.tasks) = Len(ts)
  PROVE  j \in EndsOf(e.sent)
<1> DEFINE next == jobs[j].position + 1
           js   == [jobs EXCEPT ![j].position = next]
           r    == NewTask(j, jobs[j].tasks[next], 0, next, FALSE)
<1>1. ~(next <= Len(jobs[j].tasks))
  <2>1. SUFFICES ASSUME next <= Len(jobs[j].tasks) PROVE FALSE OBVIOUS
  <2>2. PICK S : S = {TaskMsg("x-pending", Len(ts) + 1)} OBVIOUS
  <2>3. e = Effect(js, Append(ts, r), S) BY <2>1, <2>2 DEF AdvanceJob
  <2> HIDE DEF js, r
  <2>4. e.tasks = Append(ts, r) BY <2>3 DEF Effect
  <2>5. ts \in Seq(Task \cup {r}) /\ Len(ts) \in Nat
    <3>1. ts \in Seq(Task) BY SoundTypes
    <3>2. QED BY <3>1, LenProperties
  <2>6. Len(Append(ts, r)) = Len(ts) + 1 BY <2>5, AppendProperties
  <2>7. QED BY <2>4, <2>5, <2>6
<1>2. PICK x : x = JobMsg(jobs, j, "Completed") OBVIOUS
<1>3. e.sent = {x} BY <1>1, <1>2 DEF AdvanceJob, Effect
<1>4. JobEvent(x, "Completed") /\ x.job = j BY <1>2 DEF JobMsg, JobEvent
<1>5. QED BY <1>3, <1>4 DEF EndsOf, Events

\* handle_top_level_task_completed.
LEMMA TopTaskCompletedUnderway ==
  ASSUME Rows, Ordered, Failing, Leads(Books, Books'), Underway, Len(jobs') = 1,
         NEW m \in BagToSet(msgs), HandleTaskCompleted(m), tasks[m.task].parent = 0
  PROVE  Underway'
<1>1. PICK t : t = m.task OBVIOUS
<1>2. PICK T : T = {t} OBVIOUS
<1>3. PICK ts : ts = WithState(tasks, T, "Completed") OBVIOUS
<1>4. PICK e : e = AdvanceJob(ts, 1) OBVIOUS
<1>5. PICK b : b = Books OBVIOUS
<1>6. PICK c : c = Closed(b, ts, t) OBVIOUS
<1>7. PICK d : d = Books' OBVIOUS
<1>8. t \in Act /\ m.queue \in Acting /\ ~JobEvent(m, "Failed")
  <2>1. m.queue \in {"x-completed", "progress:Completed"} BY DEF HandleTaskCompleted
  <2>2. m.queue \in Acting /\ ~JobEvent(m, "Failed") BY <2>1 DEF Acting, Worked, JobEvent
  <2>3. QED BY <1>1, <2>2, Told
<1>9. /\ Balanced(b) /\ b.jobs = jobs /\ b.tasks = tasks /\ t \in b.act
      /\ b.pend = Pend /\ b.act = Act /\ b.begins = Begins /\ b.ends = Ends
      /\ Ids(b) = 1 .. Len(tasks) /\ JobIds(b) = 1 .. Len(jobs) /\ tasks[t].parent = 0
      /\ Sound(jobs, tasks) /\ tasks \in Seq(Task) /\ t \in 1 .. Len(tasks)
  BY <1>1, <1>5, <1>8, AccountIs, Holders, BooksAre
<1>10. tasks[t].job = 1
  <2>1. tasks[t].job \in 1 .. Len(jobs) BY <1>9, SoundLinks
  <2>2. QED BY <2>1 DEF Underway
<1>11. /\ Sound(jobs, ts) /\ Len(ts) = Len(tasks) /\ ts[t].parent = 0 /\ ts[t].job = 1
       /\ \A u \in 1 .. Len(tasks) :
            ts[u].state = IF u = t THEN "Completed" ELSE tasks[u].state
  <2>1. Sound(jobs, ts) /\ Len(ts) = Len(tasks)
    BY <1>3, <1>9, WithStateSound DEF TaskState
  <2>2. SameTask(ts[t], tasks[t]) BY <1>3, <1>9, WithStateKeeps
  <2>3. \A u \in 1 .. Len(tasks) :
          ts[u].state = IF u \in T THEN "Completed" ELSE tasks[u].state
    BY <1>3, <1>9, StatesWritten
  <2>4. QED BY <1>2, <1>9, <1>10, <2>1, <2>2, <2>3 DEF SameTask
<1>12. Handle(m, e)
  <2>1. Handle(m, RouteCompleted(ts, t)) BY <1>1, <1>2, <1>3 DEF HandleTaskCompleted
  <2>2. QED BY <1>4, <1>11, <2>1 DEF RouteCompleted
<1>13. Finished(b, c, t) /\ (Added(c, d, 1) \/ Passed(c, d))
  <2>1. ts = WithState(tasks, {m.task}, "Completed") BY <1>1, <1>2, <1>3
  <2>2. c = Closed(Books, ts, m.task) BY <1>1, <1>5, <1>6
  <2>3. Finished(Books, c, m.task) /\ (Added(c, Books', tasks[m.task].job) \/ Passed(c, Books'))
    BY <2>1, <2>2, HandleTaskCompletedOrdered
  <2>4. QED BY <1>1, <1>5, <1>7, <1>10, <2>3
<1>14. 1 \in 1 .. Len(jobs) /\ jobs[1].position \in Nat
  <2>1. 1 \in 1 .. Len(jobs) BY DEF Underway
  <2>2. jobs[1] \in Job BY <1>9, <2>1, SoundTypes
  <2>3. QED BY <2>1, <2>2 DEF Job
<1>15. /\ Len(e.jobs) = Len(jobs)
       /\ \A u \in 1 .. Len(ts) : e.tasks[u] = ts[u]
       /\ \A x \in e.sent : ~JobEvent(x, "Cancelled")
  BY <1>4, <1>11, <1>14, AdvanceStates, SMTT(60)
<1>16. d.jobs = e.jobs /\ d.tasks = e.tasks /\ c.tasks = ts /\ jobs' = e.jobs
  BY <1>6, <1>7, <1>12, BooksNext DEF Closed, Book
<1>17. Balanced(c) BY <1>9, <1>13, Finish
<1>18. PendOf({m}) = {} /\ ActOf({m}) = {t} /\ BeginsOf({m}) = {} /\ EndsOf({m}) = {}
  BY <1>1, <1>8, SaysOne DEF Acting, Worked, JobEvent
<1>19. d.pend = Pend' /\ d.act = Act' /\ d.begins = Begins' /\ d.ends = Ends'
  BY <1>7 DEF Books, Book
<1>20. /\ c.pend \subseteq d.pend /\ c.act \subseteq d.act /\ EndsOf(e.sent) \subseteq d.ends
       /\ c.begins \subseteq d.begins
  <2>1. c.pend = b.pend /\ c.act = b.act \ {t} /\ c.begins = b.begins
    BY <1>13 DEF Finished
  <2>2. QED BY <1>9, <1>12, <1>18, <1>19, <2>1, Remains
<1>21. Added(c, d, 1) \/ (Passed(c, d) /\ 1 \in d.ends)
  <2>1. ASSUME Passed(c, d) PROVE 1 \in d.ends
    <3>1. Len(d.tasks) = Len(c.tasks) BY <2>1 DEF Passed, Alike
    <3>2. Len(e.tasks) = Len(ts) BY <1>16, <3>1
    <3>3. 1 \in EndsOf(e.sent) BY <1>4, <1>11, <3>2, AdvanceTold
    <3>4. QED BY <1>20, <3>3
  <2>2. QED BY <1>13, <2>1
<1>22. ASSUME ~Over PROVE Alive'
  <2>1. Moving(b) /\ AtWork(b) /\ 1 \in JobIds(b) BY <1>5, <1>22, AliveIs
  <2>2. \A u \in Ids(b) : u # t => d.tasks[u].state = b.tasks[u].state
    BY <1>9, <1>11, <1>15, <1>16
  <2>3. Moving(d) /\ AtWork(d)
    BY <1>9, <1>13, <1>17, <1>20, <1>21, <2>1, <2>2, ListMoving
  <2>4. QED BY <1>7, <2>3 DEF Alive
<1>23. jobs'[1].parent = jobs[1].parent
  <2>1. Entry(c, d) BY <1>13 DEF Entry, Onto
  <2>2. c.jobs = jobs BY <1>6, <1>9 DEF Closed, Book
  <2>3. 1 \in JobIds(c) BY <1>14, <2>2 DEF JobIds
  <2>4. d.jobs[1].parent = c.jobs[1].parent BY <2>1, <2>3, EntryParent
  <2>5. QED BY <1>16, <2>2, <2>4
<1>24. QED BY <1>8, <1>12, <1>15, <1>22, <1>23, UnderwayKept

\* handle_error, of a task that is tried again: its copy takes its place.
LEMMA RetryUnderway ==
  ASSUME Rows, Ordered, Failing, Leads(Books, Books'), Underway, Len(jobs') = 1,
         NEW m \in BagToSet(msgs), HandleError(m),
         JobActive(jobs[tasks[m.task].job].state), CanRetry(tasks[m.task])
  PROVE  Underway'
<1>1. PICK t : t = m.task OBVIOUS
<1>2. PICK T : T = {t} OBVIOUS
<1>3. PICK ts : ts = WithState(tasks, T, "Failed") OBVIOUS
<1>4. PICK e : e = RetryTask(ts, t) OBVIOUS
<1>5. PICK b : b = Books OBVIOUS
<1>6. PICK d : d = Books' OBVIOUS
<1>7. t \in 1 .. Len(tasks) BY <1>1, MessageRow DEF HandleError
<1>8. /\ Balanced(b) /\ b.jobs = jobs /\ b.tasks = tasks
      /\ Ids(b) = 1 .. Len(tasks) /\ Sound(jobs, tasks) /\ tasks \in Seq(Task)
  BY <1>5, AccountIs
<1>9. /\ Len(ts) = Len(tasks) /\ ts \in Seq(Task) /\ t \in 1 .. Len(ts)
      /\ \A u \in 1 .. Len(tasks) :
           /\ ts[u].state = IF u = t THEN "Failed" ELSE tasks[u].state
           /\ SameTask(ts[u], tasks[u])
  <2>1. Sound(jobs, ts) /\ Len(ts) = Len(tasks)
    BY <1>3, <1>8, WithStateSound DEF TaskState
  <2>2. \A u \in 1 .. Len(tasks) :
          ts[u].state = IF u \in T THEN "Failed" ELSE tasks[u].state
    BY <1>3, <1>8, StatesWritten
  <2>3. \A u \in 1 .. Len(tasks) : SameTask(ts[u], tasks[u]) BY <1>3, <1>8, WithStateKeeps
  <2>4. QED BY <1>2, <1>7, <2>1, <2>2, <2>3, SoundTypes
<1>10. Handle(m, e)
  <2>1. ts = WithState(tasks, {t}, "Failed") BY <1>2, <1>3
  <2>2. QED BY <1>1, <1>4, <1>7, <2>1, ErrorCases
<1>11. Retried(b, d, t) BY <1>1, <1>5, <1>6, HandleErrorOrdered
<1>12. /\ e.jobs = jobs /\ \A u \in 1 .. Len(ts) : e.tasks[u] = ts[u]
       /\ \A x \in e.sent : x.queue = "x-pending"
  BY <1>4, <1>9, RetryStates
<1>13. jobs' = jobs /\ d.tasks = e.tasks BY <1>6, <1>10, <1>12, BooksNext
<1>14. ASSUME ~Over PROVE Alive'
  <2>1. Moving(b) /\ AtWork(b) /\ 1 \in JobIds(b) BY <1>5, <1>14, AliveIs
  <2>2. Moving(d) BY <1>8, <1>11, <2>1, RetriedMoving
  <2>3. d.act \subseteq b.act \ {t} BY <1>11 DEF Retried
  <2>4. \A u \in Ids(b) : u # t => /\ d.tasks[u].state = b.tasks[u].state
                                   /\ d.tasks[u].step = b.tasks[u].step
    BY <1>8, <1>9, <1>12, <1>13 DEF SameTask
  <2>5. AtWork(d) BY <1>8, <2>1, <2>3, <2>4, StillAtWork
  <2>6. QED BY <1>6, <2>2, <2>5 DEF Alive
<1>15. ~JobEvent(m, "Failed") BY DEF HandleError, JobEvent
<1>16. \A x \in e.sent : ~JobEvent(x, "Cancelled") BY <1>12 DEF JobEvent
<1>17. jobs'[1].parent = jobs[1].parent BY <1>13
<1>18. QED BY <1>10, <1>14, <1>15, <1>16, <1>17, UnderwayKept

\* handle_error, of a task that is not: the job is over, or its failure is reported.
LEMMA GivenUpUnderway ==
  ASSUME Rows, Ordered, Failing, Leads(Books, Books'), Underway, Len(jobs') = 1,
         NEW m \in BagToSet(msgs), HandleError(m),
         ~(JobActive(jobs[tasks[m.task].job].state) /\ CanRetry(tasks[m.task]))
  PROVE  Underway'
<1>1. PICK t : t = m.task OBVIOUS
<1>2. PICK ts : ts = WithState(tasks, {t}, "Failed") OBVIOUS
<1>3. t \in 1 .. Len(tasks) BY <1>1, MessageRow DEF HandleError
<1>4. tasks[t].job = 1 /\ 1 \in 1 .. Len(jobs)
  <2>1. tasks[t].job \in 1 .. Len(jobs) BY <1>3, AccountIs, SoundLinks
  <2>2. QED BY <2>1 DEF Underway
<1>5. /\ ~JobActive(jobs[1].state) => Handle(m, Effect(jobs, ts, {}))
      /\ JobActive(jobs[1].state) /\ ~CanRetry(tasks[t]) =>
           Handle(m, Effect(jobs, WithState(ts, Lineage(ts, t), "Failed"),
                            {TaskMsg("x-failed", t), JobMsg(jobs, 1, "Failed")}))
  BY <1>1, <1>2, <1>3, <1>4, ErrorCases
<1>6. ~JobEvent(m, "Failed") BY DEF HandleError, JobEvent
<1>7. CASE ~JobActive(jobs[1].state)
  <2>1. PICK e : e = Effect(jobs, ts, {}) OBVIOUS
  <2>2. Handle(m, e) /\ e.jobs = jobs /\ e.sent = {} BY <1>5, <1>7, <2>1 DEF Effect
  <2>3. Over BY <1>7 DEF Over
  <2>4. jobs'[1].parent = jobs[1].parent BY <2>2 DEF Handle
  <2>5. \A x \in e.sent : ~JobEvent(x, "Cancelled") BY <2>2
  <2>6. QED BY <1>6, <2>2, <2>3, <2>4, <2>5, UnderwayKept
<1>8. CASE JobActive(jobs[1].state)
  <2>1. ~CanRetry(tasks[t]) BY <1>1, <1>4, <1>8
  <2>2. PICK w : w = WithState(ts, Lineage(ts, t), "Failed") OBVIOUS
  <2>3. PICK x : x = TaskMsg("x-failed", t) OBVIOUS
  <2>4. PICK y : y = JobMsg(jobs, 1, "Failed") OBVIOUS
  <2>5. PICK e : e = Effect(jobs, w, {x, y}) OBVIOUS
  <2>6. Handle(m, e) BY <1>5, <1>8, <2>1, <2>2, <2>3, <2>4, <2>5
  <2>7. e.jobs = jobs /\ e.sent = {x, y} BY <2>5 DEF Effect
  <2>8. x.queue = "x-failed" /\ JobEvent(y, "Failed") /\ ~JobEvent(y, "Cancelled")
    BY <2>3, <2>4 DEF TaskMsg, JobMsg, JobEvent
  <2>9. y \in BagToSet(msgs') BY <2>6, <2>7, Remains
  <2>10. Over' BY <2>8, <2>9 DEF Over
  <2>11. jobs'[1].parent = jobs[1].parent BY <2>6, <2>7 DEF Handle
  <2>12. \A z \in e.sent : ~JobEvent(z, "Cancelled") BY <2>7, <2>8 DEF JobEvent
  <2>13. QED BY <1>6, <2>6, <2>10, <2>11, <2>12, UnderwayKept
<1>9. QED BY <1>7, <1>8

\* What the workers do changes neither the rows nor who is held, and takes no job event.
LEMMA WorkersUnderway ==
  ASSUME Ordered, Failing, Leads(Books, Books'), Underway, Len(jobs') = 1,
         Books' = Books, jobs' = jobs,
         NEW x, x.queue # "x-jobs", BagToSet(msgs') \subseteq BagToSet(msgs) \cup {x},
         \A y \in BagToSet(msgs) : y.queue = "x-jobs" => y \in BagToSet(msgs')
  PROVE  Underway'
<1>1. \A y \in BagToSet(msgs') : ~JobEvent(y, "Cancelled")
  BY DEF Underway, Uncancelled, JobEvent
<1>2. Uncancelled' BY <1>1 DEF Underway, Uncancelled
<1>3. CASE Over
  <2>1. 1 \in 1 .. Len(jobs) BY DEF Underway
  <2>2. \A y \in BagToSet(msgs) : JobEvent(y, "Failed") => y \in BagToSet(msgs')
    BY DEF JobEvent
  <2>3. Over' BY <1>3, <2>1, <2>2, OverStays
  <2>4. QED BY <1>2, <2>3 DEF Underway
<1>4. CASE Alive
  <2>1. Alive' BY <1>4 DEF Alive
  <2>2. QED BY <1>2, <2>1 DEF Underway
<1>5. QED BY <1>3, <1>4 DEF Underway

LEMMA WorkerStartUnderway ==
  ASSUME Rows, Ordered, Failing, Leads(Books, Books'), Underway, Len(jobs') = 1,
         NEW m \in BagToSet(msgs), WorkerStart(m)
  PROVE  Underway'
<1>1. PICK x : x = TaskMsg("progress:Running", m.task) OBVIOUS
<1>2. /\ msgs' = (msgs (-) SetToBag({m})) (+) SetToBag({x}) /\ jobs' = jobs
      /\ m.queue = "worker"
  BY <1>1 DEF WorkerStart, Take
<1>3. BagToSet(msgs') \subseteq BagToSet(msgs) \cup {x} BY <1>2, Delivered DEF Rows
<1>4. x.queue = "progress:Running" BY <1>1 DEF TaskMsg
<1>5. Books' = Books BY WorkerStartOrdered
<1>6. \A y \in BagToSet(msgs) : y # m => y \in BagToSet(msgs')
  <2>1. BagToSet(msgs')
          = (IF msgs[m] = 1 THEN BagToSet(msgs) \ {m} ELSE BagToSet(msgs)) \cup {x}
    BY <1>2, Counted DEF Rows
  <2>2. QED BY <2>1
<1>7. \A y \in BagToSet(msgs) : y.queue = "x-jobs" => y \in BagToSet(msgs') BY <1>2, <1>6
<1>8. QED BY <1>2, <1>3, <1>4, <1>5, <1>7, WorkersUnderway

LEMMA WorkerLeavesUnderway ==
  ASSUME Rows, Ordered, Failing, Leads(Books, Books'), Underway, Len(jobs') = 1,
         NEW t \in BagToSet(running),
         NEW q \in {"progress:Completed", "progress:Failed", "x-redeliveries"},
         WorkerLeaves(t, q)
  PROVE  Underway'
<1>1. PICK x : x = TaskMsg(q, t) OBVIOUS
<1>2. msgs' = msgs (+) SetToBag({x}) /\ jobs' = jobs BY <1>1 DEF WorkerLeaves
<1>3. BagToSet(msgs') = BagToSet(msgs) \cup {x}
  <2>1. IsABag(SetToBag({x})) /\ BagToSet(SetToBag({x})) = {x}
    BY DEF IsABag, SetToBag, BagToSet
  <2>2. QED BY <1>2, <2>1, UnionIsBag DEF Rows
<1>4. x.queue = q BY <1>1 DEF TaskMsg
<1>5. Books' = Books BY WorkerLeavesOrdered
<1>6. QED BY <1>2, <1>3, <1>4, <1>5, WorkersUnderway

----------------------------------------------------------------------------
(* A job of one list, without subjobs, that somebody always moves on.      *)

Going == Len(jobs) = 1 => Underway

LEMMA InitGoing == Init => Going
<1> SUFFICES ASSUME Init PROVE Going OBVIOUS
<1>1. PICK w \in Workflows : jobs = <<NewJob(w, 0)>> BY DEF Init
<1>2. Len(jobs) = 1 /\ jobs[1].position = 0 /\ jobs[1].parent = 0 BY <1>1 DEF NewJob
<1>3. tasks = <<>> /\ Len(tasks) = 0 BY EmptySeq DEF Init
<1>4. PICK x : x = JobMsg(jobs, 1, "Pending") OBVIOUS
<1>5. BagToSet(msgs) = {x} BY <1>4 DEF Init, SetToBag, BagToSet
<1>6. x.queue = "x-jobs" /\ x.state = "Pending" /\ x.job = 1 BY <1>4 DEF JobMsg
<1>7. 1 \in Begins
  <2>1. JobEvent(x, "Pending") BY <1>6 DEF JobEvent
  <2>2. QED BY <1>5, <1>6, <2>1, Told
<1>8. PICK b : b = Books OBVIOUS
<1>9. /\ b.jobs = jobs /\ b.act = Act /\ b.begins = Begins /\ Ids(b) = {} /\ Act = {}
  <2>1. Ordered BY InitOrdered
  <2>2. QED BY <1>3, <1>8, <2>1, BooksAre, Holders
<1>10. Moving(b)
  BY <1>2, <1>7, <1>9
  DEF Moving, Starting, Continuing, Sustained, AllLive, Counting, Composites
<1>11. AtWork(b) BY <1>9 DEF AtWork
<1>12. Uncancelled BY <1>2, <1>5, <1>6 DEF Uncancelled, JobEvent
<1>13. QED BY <1>2, <1>8, <1>10, <1>11, <1>12 DEF Going, Underway, Alive

\* Every step of the coordinator or a worker keeps it going.
LEMMA NextGoing ==
  ASSUME LeftAlone, FansOut, Rows, Ordered, Failing, Going, 1 \in 1 .. Len(jobs), [Next]_vars
  PROVE  Going'
<1>1. SUFFICES ASSUME Len(jobs') = 1 PROVE Underway' BY DEF Going
<1>2. Leads(Books, Books') BY NextFailing
<1>3. Underway
  <2>1. PICK b : b = Books OBVIOUS
  <2>2. PICK d : d = Books' OBVIOUS
  <2>3. Leads(b, d) BY <1>2, <2>1, <2>2
  <2>4. JobIds(b) = 1 .. Len(jobs) /\ jobs \in Seq(Job) BY <2>1, AccountIs
  <2>5. d.jobs = jobs' BY <2>2 DEF Books, Book
  <2>6. JobIds(d) = 1 .. 1 BY <1>1, <2>5 DEF JobIds
  <2>7. \A j \in JobIds(b) : j \in JobIds(d) BY <2>3 DEF Leads
  <2>8. Len(jobs) \in Nat BY <2>4, LenProperties
  <2>9. Len(jobs) = 1
    <3>1. Len(jobs) \in JobIds(b) BY <2>4, <2>8
    <3>2. Len(jobs) \in JobIds(d) BY <2>7, <3>1
    <3>3. QED BY <2>6, <3>2
  <2>10. QED BY <2>9 DEF Going
<1>4. ASSUME NEW m \in BagToSet(msgs), HandleJobEvent(m) PROVE Underway'
  <2>1. CASE StartJob(m) BY <1>1, <1>2, <1>3, <2>1, StartJobUnderway
  <2>2. CASE CompleteJob(m) BY <1>1, <1>2, <1>3, <2>2, CompleteJobUnderway
  <2>3. CASE FailJob(m) BY <1>1, <1>2, <1>3, <2>3, FailJobUnderway
  <2>4. CASE HandleCancel(m) BY <1>3, <2>4, HandleCancelUnderway
  <2>5. CASE RestartJob(m) \/ MarkJobAsRunning(m) \/ IgnoreScheduled(m)
    BY <2>5, OtherEventsOrdered
  <2>6. QED BY <1>4, <2>1, <2>2, <2>3, <2>4, <2>5 DEF HandleJobEvent
<1>5. ASSUME NEW m \in BagToSet(msgs), HandleTaskMessage(m) PROVE Underway'
  <2>1. CASE HandlePendingTask(m) BY <1>1, <1>2, <1>3, <2>1, HandlePendingTaskUnderway
  <2>2. CASE HandleTaskCompleted(m)
    BY <1>1, <1>2, <1>3, <2>2, SubtaskCompletedUnderway, TopTaskCompletedUnderway
  <2>3. CASE HandleError(m) BY <1>1, <1>2, <1>3, <2>3, RetryUnderway, GivenUpUnderway
  <2>4. CASE HandleTaskProgress(m) BY <1>1, <1>2, <1>3, <2>4, HandleTaskProgressUnderway
  <2>5. CASE HandleRedelivered(m) BY <1>1, <1>2, <1>3, <2>5, HandleRedeliveredUnderway
  <2>6. QED BY <1>5, <2>1, <2>2, <2>3, <2>4, <2>5 DEF HandleTaskMessage
<1>6. ASSUME NEW m \in BagToSet(msgs), WorkerStart(m) PROVE Underway'
  BY <1>1, <1>2, <1>3, <1>6, WorkerStartUnderway
<1>7. ASSUME NEW t \in BagToSet(running), WorkerFinish(t) \/ WorkerCrash(t)
      PROVE Underway'
  BY <1>1, <1>2, <1>3, <1>7, WorkerLeavesUnderway DEF WorkerFinish, WorkerCrash
<1>8. ~User
  <2>1. ASSUME NEW j, NEW st PROVE ~UserCall(j, st)
    BY DEF UserCall, LeftAlone, Rows
  <2>2. QED BY <2>1 DEF User, CancelJob, RequestRestart
<1>9. ASSUME UNCHANGED vars PROVE Underway'
  <2>1. jobs' = jobs /\ msgs' = msgs /\ Books' = Books
    BY <1>9 DEF vars, Books, Pend, Act, Begins, Ends
  <2>2. (Over <=> Over') /\ (Uncancelled <=> Uncancelled') BY <2>1 DEF Over, Uncancelled
  <2>3. Alive <=> Alive' BY <2>1 DEF Alive
  <2>4. QED BY <1>1, <1>3, <2>2, <2>3 DEF Underway
<1>10. QED BY <1>4, <1>5, <1>6, <1>7, <1>8, <1>9 DEF Next, Coordinator, Worker

LEMMA GoingNotStranded ==
  ASSUME Ordered, Failing, Going
  PROVE  NoneStranded
<1>1. SUFFICES ASSUME msgs = EmptyBag, running = EmptyBag, Len(jobs) = 1,
                      JobActive(jobs[1].state)
               PROVE  FALSE
  BY DEF NoneStranded
<1>2. BagToSet(msgs) = {} /\ BagToSet(running) = {} BY <1>1 DEF BagToSet, EmptyBag, SetToBag
<1>3. Pend = {} /\ Act = {} /\ Begins = {} /\ Ends = {}
  BY <1>2, SaysOne DEF Pend, Act, Begins, Ends
<1>4. Underway /\ ~Over BY <1>1, <1>2 DEF Going, Over
<1>5. PICK b : b = Books OBVIOUS
<1>6. Moving(b) /\ 1 \in JobIds(b) /\ Balanced(b) BY <1>4, <1>5, AliveIs, AccountIs
<1>7. b.pend = {} /\ b.act = {} /\ b.begins = {} /\ b.ends = {} BY <1>3, <1>5, BooksAre
<1>8. QED BY <1>6, <1>7, SomebodyHolds

----------------------------------------------------------------------------
(* The theorems.                                                           *)

\* The steps of a job left alone are created in the order of its list, whatever is
\* retried or redelivered: none before the one in front of it has completed.
THEOREM StepsInOrderTheorem ==
  ASSUME LeftAlone
  PROVE  Spec => []StepsInOrder
BY OrderedThroughout, OrderedStepsInOrder, PTL

\* Whatever is in flight for a job left alone belongs to one step of its list: the
\* handlers never have two steps of it under way.
THEOREM OneStepAtATimeTheorem ==
  ASSUME LeftAlone
  PROVE  Spec => []OneStepAtATime
BY OrderedThroughout, OrderedOneStep, PTL

\* complete_job never completes a job with a step that has not completed.
THEOREM CompletedMeansAllDoneTheorem ==
  ASSUME LeftAlone
  PROVE  Spec => []CompletedMeansAllDone
BY OrderedThroughout, OrderedAllDone, PTL

\* The counter of a parallel or each task is the number of its subtasks that have
\* completed, and the task completes when one has for each of its children.
THEOREM FanInExactTheorem ==
  ASSUME LeftAlone
  PROVE  Spec => []FanInExact
BY OrderedThroughout, OrderedFanIn, PTL

\* A subjob task completes when the job it created has, and not before.
THEOREM ParentAwaitsSubjobTheorem ==
  ASSUME LeftAlone
  PROVE  Spec => []ParentAwaitsSubjob
BY OrderedThroughout, OrderedAwaitsSubjob, PTL

\* The copies a place of the workflow gets are bounded by the attempts its definition
\* allows, whichever workers die and whichever tasks fail.
THEOREM RetryBudgetTheorem ==
  ASSUME LeftAlone
  PROVE  Spec => []RetryBudget
BY OrderedThroughout, OrderedBudget, PTL

\* complete_job and fail_job never overwrite the outcome of a job, though complete_job
\* does not look at the state it overwrites: no Completed event reaches a job that has
\* failed, and none a second time.
THEOREM OutcomeIsFinalTheorem ==
  ASSUME LeftAlone
  PROVE  Spec => OutcomeIsFinal
<1>1. Rows /\ Ordered /\ Failing /\ [Next]_vars =>
        [\A j \in DOMAIN jobs : jobs[j].state \in {"Completed", "Failed"} =>
           jobs'[j].state = jobs[j].state]_vars
  BY StepFinal
<1>2. QED BY <1>1, FailingThroughout, PTL DEF Spec, OutcomeIsFinal

\* Every step of the handlers and the workers is, for the user who submitted the job, a
\* step of JobPromise or none: the job starts, its tasks complete one by one, and it ends
\* once, as Completed when all of them have and as Failed when one has not.
THEOREM PromiseStepsTheorem ==
  ASSUME LeftAlone
  PROVE  Spec => Promise!Init /\ [][Promise!Next]_(Promise!vars)
<1> DEFINE Inv == Rows /\ Ordered /\ Failing /\ 1 \in 1 .. Len(jobs)
<1>1. Init => Inv /\ Promise!Init
  BY InitRows, InitOrdered, InitFailing, InitPromise
<1>2. Inv /\ [Next]_vars => Inv' BY NextRows, NextOrdered, NextFailing, JobOneStays
<1>3. Inv /\ Inv' /\ [Next]_vars => [Promise!Next]_(Promise!vars) BY StepPromise
<1> HIDE DEF Inv
<1>4. QED BY <1>1, <1>2, <1>3, PTL DEF Spec

\* A job without subjobs that nobody cancels or restarts never stands still: while it is
\* active somebody holds a message or a task that will move it on, whichever workers die,
\* whichever tasks fail and however parallel and each tasks are nested, as long as none of
\* those is over an empty list.
THEOREM NoneStrandedTheorem ==
  ASSUME LeftAlone, FansOut
  PROVE  Spec => []NoneStranded
<1> DEFINE Inv == Rows /\ Ordered /\ Failing /\ 1 \in 1 .. Len(jobs) /\ Going
<1>1. Init => Inv BY InitRows, InitOrdered, InitFailing, InitPromise, InitGoing
<1>2. Inv /\ [Next]_vars => Inv'
  BY NextRows, NextOrdered, NextFailing, JobOneStays, NextGoing
<1>3. Inv => NoneStranded BY GoingNotStranded
<1> HIDE DEF Inv
<1>4. QED BY <1>1, <1>2, <1>3, PTL DEF Spec
=============================================================================
