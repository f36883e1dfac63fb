---------------------------- MODULE FanInProofs ----------------------------
(***************************************************************************)
(* The fan-in holds its parent back until every subtask is counted, and    *)
(* gives it one outcome, for any finite number of subtasks, on either      *)
(* datastore and with any number of refused publications, as long as no    *)
(* coordinator dies.                                                       *)
(*                                                                         *)
(* The argument: the counter never exceeds the number of subtasks counted, *)
(* so only the subtask that completes the set can reach the threshold.     *)
(* From then on at most one report, that subtask's own, is between being   *)
(* queued and the parent's publication: it holds the token.                *)
(***************************************************************************)
EXTENDS FanIn, FiniteSetTheorems, TLAPS

----------------------------------------------------------------------------
(* The inductive invariant.                                                *)

Going  == {"completed", "persisted", "counting"}          \* to be counted
Losing == {"failed", "failing", "marking", "marked"}      \* to fail the parent
Bad    == {"Failed", "Cancelled"}

\* A counter read from the row is no larger than the subtasks counted, which
\* matters until all of them are.
Below(n) == counted # Subtask => n <= Cardinality(counted)

Counters == Below(row.completions) /\ \A s \in Subtask : Below(copy[s].completions)

\* s is going to publish the parent, or to try again.
Holder(s) == s \in counted /\ (at[s] \in Going \/ (at[s] = "counted" /\ last[s]))

Token ==
  /\ \A s \in Subtask : Holder(s) => counted = Subtask /\ published = 0
  /\ \A s, t \in Subtask : Holder(s) /\ Holder(t) => s = t
  /\ published # 0 => published = 1 /\ counted = Subtask

Places ==
  /\ \A s \in Subtask : at[s] \in Losing \cup {"running"} => s \notin counted
  /\ \A s \in Subtask : at[s] = "counted" => s \in counted

\* Some subtask has failed, and will never be counted.
Lost == \E s \in Subtask : s \notin counted /\ at[s] \in Losing \cup {"done"}

Failures ==
  /\ job # "active" => Lost
  /\ row.state \in Bad => Lost
  /\ \A s \in Subtask : copy[s].state \in Bad => Lost

Barrier == Counters /\ Token /\ Places /\ Failures

FanInv == TypeOK /\ (crashes = 0 => Barrier)

----------------------------------------------------------------------------
(* Counting.                                                               *)

\* The subtasks counted are finitely many, never more than there are.
LEMMA CountedFinite ==
  ASSUME TypeOK
  PROVE  /\ IsFiniteSet(counted) /\ Cardinality(counted) \in Nat
         /\ Cardinality(Subtask) \in Nat
         /\ counted # Subtask => Cardinality(counted) < Cardinality(Subtask)
<1>1. IsFiniteSet(Subtask) BY FanInAssumption
<1>2. counted \subseteq Subtask BY DEF TypeOK
<1>3. IsFiniteSet(counted) BY <1>1, <1>2, FS_Subset
<1>4. /\ Cardinality(counted) \in Nat /\ Cardinality(Subtask) \in Nat
      /\ counted # Subtask => Cardinality(counted) < Cardinality(Subtask)
  BY <1>1, <1>2, <1>3, FS_CardinalityType, FS_Subset
<1> QED BY <1>3, <1>4

\* A handler that counts a subtask for the first time, from a counter that is not
\* ahead, stays not ahead, and reaches the threshold only with the last subtask.
LEMMA CountOne ==
  ASSUME TypeOK, NEW s \in Subtask, s \notin counted,
         NEW n \in Nat, Below(n), counted' = counted \cup {s}
  PROVE  /\ counted' # Subtask => n + 1 <= Cardinality(counted')
         /\ Enough(n + 1) => counted' = Subtask
         /\ Cardinality(counted) <= Cardinality(counted')
         /\ counted # Subtask
<1>1. IsFiniteSet(counted) BY CountedFinite
<1>2. Cardinality(counted') = Cardinality(counted) + 1
  BY <1>1, FS_AddElement
<1>3. counted # Subtask OBVIOUS
<1>4. n <= Cardinality(counted) BY <1>3 DEF Below
<1>5. counted' \subseteq Subtask BY DEF TypeOK
<1>6. Cardinality(counted) \in Nat /\ Cardinality(Subtask) \in Nat
  BY CountedFinite
<1>7. IsFiniteSet(Subtask) BY FanInAssumption
<1>8. counted' # Subtask => Cardinality(counted') < Cardinality(Subtask)
  BY <1>2, <1>5, <1>6, <1>7, FS_Subset
<1>9. CASE counted' = Subtask BY <1>9, <1>2, <1>3, <1>6
<1>10. CASE counted' # Subtask
  BY <1>10, <1>2, <1>3, <1>4, <1>6, <1>8 DEF Enough
<1> QED BY <1>9, <1>10

----------------------------------------------------------------------------
(* Types.                                                                  *)

\* Every handler keeps the types.
LEMMA TypeStep == TypeOK /\ [Next]_vars => TypeOK'
<1> SUFFICES ASSUME TypeOK, [Next]_vars PROVE TypeOK'
  OBVIOUS
<1> USE FanInAssumption DEF TypeOK
<1>1. ASSUME NEW s \in Subtask, WorkerReports(s) PROVE TypeOK'
  BY <1>1 DEF WorkerReports, Moves, Place
<1>2. ASSUME NEW s \in Subtask, PersistCompleted(s) PROVE TypeOK'
  BY <1>2 DEF PersistCompleted, Moves, Place
<1>3. ASSUME NEW s \in Subtask, CountLocked(s) \/ InsertCount(s) PROVE TypeOK'
  <2>1. PICK r \in Row : StoreCount(s, r)
    BY <1>3 DEF CountLocked, InsertCount
  <2>2. at' \in [Subtask -> Place]
    BY <1>3 DEF CountLocked, InsertCount, Moves, Place
  <2>3. row' \in Row
    BY <2>1 DEF StoreCount, Row
  <2>4. last' \in [Subtask -> BOOLEAN] /\ counted' \subseteq Subtask
    BY <2>1 DEF StoreCount, Enough
  <2> QED BY <1>3, <2>1, <2>2, <2>3, <2>4 DEF StoreCount, CountLocked, InsertCount
<1>4. ASSUME NEW s \in Subtask, CloneRow(s) PROVE TypeOK'
  BY <1>4 DEF CloneRow, Moves, Place
<1>5. ASSUME NEW s \in Subtask, PublishParent(s) PROVE TypeOK'
  <2>1. at' \in [Subtask -> Place]
    BY <1>5 DEF PublishParent, Moves, Place
  <2>2. published' \in Nat /\ handled' \in 0 .. published'
    BY <1>5 DEF PublishParent
  <2> QED BY <1>5, <2>1, <2>2 DEF PublishParent
<1>6. ASSUME NEW s \in Subtask, PublishRefused(s) PROVE TypeOK'
  BY <1>6 DEF PublishRefused, Redelivered, Place
<1>7. ASSUME NEW s \in Subtask, HandleError(s) PROVE TypeOK'
  BY <1>7 DEF HandleError, Moves, Place
<1>8. ASSUME NEW s \in Subtask, FailLocked(s) \/ InsertFailed(s) PROVE TypeOK'
  <2>1. PICK r \in Row : StoreFailed(r)
    BY <1>8 DEF FailLocked, InsertFailed
  <2>2. at' \in [Subtask -> Place]
    BY <1>8 DEF FailLocked, InsertFailed, Moves, Place
  <2>3. row' \in Row
    BY <2>1 DEF StoreFailed, Row
  <2> QED BY <2>1, <2>2, <2>3 DEF StoreFailed
<1>9. ASSUME NEW s \in Subtask, PublishJobFailed(s) PROVE TypeOK'
  BY <1>9 DEF PublishJobFailed, Moves, Place
<1>10. CASE FailJob
  BY <1>10 DEF FailJob, Row
<1>11. CASE ParentCompleted
  <2>1. handled' \in 0 .. published' /\ row' \in Row
    BY <1>11 DEF ParentCompleted, Row
  <2> QED BY <1>11, <2>1 DEF ParentCompleted
<1>12. CASE CoordinatorCrash
  <2>1. at' \in [Subtask -> Place]
    BY <1>12 DEF CoordinatorCrash, Redelivered, Place
  <2> QED BY <1>12, <2>1 DEF CoordinatorCrash
<1>13. CASE UNCHANGED vars
  BY <1>13 DEF vars
<1> QED
  BY <1>1, <1>2, <1>3, <1>4, <1>5, <1>6, <1>7, <1>8, <1>9, <1>10, <1>11, <1>12, <1>13
  DEF Next, HandleReport

----------------------------------------------------------------------------
(* One lemma for each kind of step a handler makes.                        *)

\* Reporting, persisting, giving up and being queued again move the report of one
\* subtask and touch nothing of the fan-in itself.
LEMMA MoveKeeps ==
  ASSUME TypeOK, Barrier, NEW s \in Subtask,
         WorkerReports(s) \/ PersistCompleted(s) \/ HandleError(s) \/ PublishRefused(s)
  PROVE  Barrier'
<1> USE DEF TypeOK, WorkerReports, PersistCompleted, HandleError, PublishRefused, Moves
<1>1. /\ UNCHANGED <<row, copy, last, published, job, counted>>
      /\ \A t \in Subtask : t # s => at'[t] = at[t]
  OBVIOUS
<1>2. \/ at[s] = "running" /\ at'[s] \in {"completed", "failed"}
      \/ at[s] = "completed" /\ at'[s] = "persisted"
      \/ at[s] = "failed" /\ at'[s] \in {"failing", "done"}
      \/ at[s] \in {"failing", "marked"} /\ at'[s] = "failed"
      \/ at[s] = "counted" /\ last[s] /\ at'[s] = "completed"
  BY DEF Redelivered
<1>3. Counters'
  BY <1>1 DEF Barrier, Counters, Below
<1>4. \A t \in Subtask : Holder(t)' <=> Holder(t)
  BY <1>1, <1>2 DEF Holder, Going, Barrier, Places, Losing
<1>5. Token'
  BY <1>1, <1>4 DEF Barrier, Token
<1>6. Places'
  BY <1>1, <1>2 DEF Barrier, Places, Losing
<1>7. Lost => Lost'
  BY <1>1, <1>2 DEF Lost, Losing
<1>8. Failures'
  BY <1>1, <1>7 DEF Barrier, Failures
<1> QED BY <1>3, <1>5, <1>6, <1>8 DEF Barrier

\* Counting a subtask, from the row or from a clone of it.
LEMMA CountKeeps ==
  ASSUME TypeOK, TypeOK', Barrier, NEW s \in Subtask, CountLocked(s) \/ InsertCount(s)
  PROVE  Barrier'
<1> USE DEF TypeOK
<1>1. PICK r \in Row : /\ StoreCount(s, r)
                       /\ Below(r.completions)
                       /\ r.state \in Bad => Lost
  BY DEF CountLocked, InsertCount, Barrier, Counters, Failures
<1>2. /\ at[s] \in {"persisted", "counting"} /\ at'[s] = "counted"
      /\ \A t \in Subtask : t # s => at'[t] = at[t]
  BY DEF CountLocked, InsertCount, Moves
<1>3. /\ row' = [r EXCEPT !.completions = r.completions + 1]
      /\ row'.completions = r.completions + 1 /\ row'.state = r.state
      /\ last' = [last EXCEPT ![s] = Enough(r.completions + 1)]
      /\ counted' = counted \cup {s}
      /\ UNCHANGED <<copy, published, job>>
  BY <1>1 DEF StoreCount, Row
<1>4. s \notin counted =>
        /\ counted' # Subtask => r.completions + 1 <= Cardinality(counted')
        /\ Enough(r.completions + 1) => counted' = Subtask
        /\ Cardinality(counted) <= Cardinality(counted')
        /\ counted # Subtask
  BY <1>1, <1>3, CountOne DEF Row
<1>5. s \in counted => Holder(s) /\ counted = Subtask /\ counted' = counted
  BY <1>2, <1>3 DEF Holder, Going, Barrier, Token
<1>6. /\ Cardinality(counted) \in Nat
      /\ s \notin counted => Cardinality(counted') \in Nat
  <2>1. IsFiniteSet(counted) /\ Cardinality(counted) \in Nat
    BY CountedFinite
  <2>2. s \notin counted => Cardinality(counted') = Cardinality(counted) + 1
    BY <2>1, <1>3, FS_AddElement
  <2> QED BY <2>1, <2>2
<1>7. Counters'
  <2>1. CASE s \in counted
    BY <2>1, <1>5 DEF Counters, Below
  <2>2. CASE s \notin counted
    <3>1. \A t \in Subtask : copy[t].completions \in Nat
      BY DEF Row
    <3>2. \A t \in Subtask : copy[t].completions <= Cardinality(counted)
      BY <2>2, <1>4 DEF Barrier, Counters, Below
    <3>3. ASSUME NEW t \in Subtask PROVE copy'[t].completions <= Cardinality(counted')
      BY <2>2, <1>3, <1>4, <1>6, <3>1, <3>2
    <3> QED BY <2>2, <1>3, <1>4, <3>3 DEF Counters, Below
  <2> QED BY <2>1, <2>2
<1>8. \A t \in Subtask : Holder(t)' =>
        /\ t = s \/ Holder(t)
        /\ t = s /\ s \notin counted => Enough(r.completions + 1)
  BY <1>2, <1>3 DEF Holder, Going
<1>9. Token'
  <2>1. CASE s \in counted
    BY <2>1, <1>3, <1>5, <1>8 DEF Barrier, Token
  <2>2. CASE s \notin counted
    <3>1. \A t \in Subtask : ~Holder(t)
      BY <2>2, <1>4 DEF Barrier, Token
    <3>2. published = 0
      BY <2>2, <1>4 DEF Barrier, Token
    <3> QED BY <2>2, <1>3, <1>4, <1>8, <3>1, <3>2 DEF Token
  <2> QED BY <2>1, <2>2
<1>10. Places'
  BY <1>2, <1>3 DEF Barrier, Places, Losing
<1>11. Lost => Lost'
  BY <1>2, <1>3 DEF Lost, Losing
<1>12. Failures'
  BY <1>1, <1>3, <1>11 DEF Barrier, Failures
<1> QED BY <1>7, <1>9, <1>10, <1>12 DEF Barrier

\* Taking a clone of the row.
LEMMA CloneKeeps ==
  ASSUME TypeOK, Barrier, NEW s \in Subtask, CloneRow(s)
  PROVE  Barrier'
<1> USE DEF TypeOK
<1>1. /\ copy' = [copy EXCEPT ![s] = row]
      /\ UNCHANGED <<row, last, published, job, counted>>
      /\ \A t \in Subtask : t # s => at'[t] = at[t]
      /\ \/ at[s] = "persisted" /\ at'[s] = "counting"
         \/ at[s] = "failing" /\ at'[s] = "marking"
  BY DEF CloneRow, Moves
<1>2. Counters'
  BY <1>1 DEF Barrier, Counters, Below
<1>3. \A t \in Subtask : Holder(t)' <=> Holder(t)
  BY <1>1 DEF Holder, Going, Barrier, Places, Losing
<1>4. Token'
  BY <1>1, <1>3 DEF Barrier, Token
<1>5. Places'
  BY <1>1 DEF Barrier, Places, Losing
<1>6. Lost => Lost'
  BY <1>1 DEF Lost, Losing
<1>7. Failures'
  BY <1>1, <1>6 DEF Barrier, Failures
<1> QED BY <1>2, <1>4, <1>5, <1>7 DEF Barrier

\* Marking the parent as failed, from the row or from a clone of it.
LEMMA MarkKeeps ==
  ASSUME TypeOK, Barrier, NEW s \in Subtask, FailLocked(s) \/ InsertFailed(s)
  PROVE  Barrier'
<1> USE DEF TypeOK
<1>1. PICK r \in Row : StoreFailed(r) /\ Below(r.completions)
  BY DEF FailLocked, InsertFailed, Barrier, Counters
<1>2. /\ at[s] \in {"failing", "marking"} /\ at'[s] = "marked"
      /\ \A t \in Subtask : t # s => at'[t] = at[t]
  BY DEF FailLocked, InsertFailed, Moves
<1>3. /\ row'.completions = r.completions
      /\ UNCHANGED <<copy, last, published, job, counted>>
  BY <1>1 DEF StoreFailed, Row
<1>4. Counters'
  BY <1>1, <1>3 DEF Barrier, Counters, Below
<1>5. \A t \in Subtask : Holder(t)' <=> Holder(t)
  BY <1>2, <1>3 DEF Holder, Going
<1>6. Token'
  BY <1>3, <1>5 DEF Barrier, Token
<1>7. Places'
  BY <1>2, <1>3 DEF Barrier, Places, Losing
<1>8. Lost'
  BY <1>2, <1>3 DEF Barrier, Places, Lost, Losing
<1>9. Failures'
  BY <1>8 DEF Failures
<1> QED BY <1>4, <1>6, <1>7, <1>9 DEF Barrier

\* Publishing the job as failed.
LEMMA FailureKeeps ==
  ASSUME TypeOK, Barrier, NEW s \in Subtask, PublishJobFailed(s)
  PROVE  Barrier'
<1> USE DEF TypeOK
<1>1. /\ at[s] = "marked" /\ at'[s] = "done"
      /\ \A t \in Subtask : t # s => at'[t] = at[t]
      /\ UNCHANGED <<row, copy, last, published, counted>>
  BY DEF PublishJobFailed, Moves
<1>2. Counters'
  BY <1>1 DEF Barrier, Counters, Below
<1>3. \A t \in Subtask : Holder(t)' <=> Holder(t)
  BY <1>1 DEF Holder, Going
<1>4. Token'
  BY <1>1, <1>3 DEF Barrier, Token
<1>5. Places'
  BY <1>1 DEF Barrier, Places, Losing
<1>6. Lost'
  BY <1>1 DEF Barrier, Places, Lost, Losing
<1>7. Failures'
  BY <1>6 DEF Failures
<1> QED BY <1>2, <1>4, <1>5, <1>7 DEF Barrier

\* Ending the handler of a completed subtask: the token becomes the publication.
LEMMA PublishKeeps ==
  ASSUME TypeOK, Barrier, NEW s \in Subtask, PublishParent(s)
  PROVE  Barrier'
<1> USE DEF TypeOK
<1>1. /\ at[s] = "counted" /\ at'[s] = "done"
      /\ \A t \in Subtask : t # s => at'[t] = at[t]
      /\ UNCHANGED <<row, copy, last, job, counted>>
      /\ published' = IF last[s] THEN published + 1 ELSE published
  BY DEF PublishParent, Moves
<1>2. Counters'
  BY <1>1 DEF Barrier, Counters, Below
<1>3. s \in counted
  BY <1>1 DEF Barrier, Places
<1>4. \A t \in Subtask : Holder(t)' <=> Holder(t) /\ t # s
  BY <1>1 DEF Holder, Going
<1>5. Token'
  <2>1. CASE last[s]
    <3>1. Holder(s)
      BY <2>1, <1>1, <1>3 DEF Holder
    <3>2. counted = Subtask /\ published = 0 /\ \A t \in Subtask : ~Holder(t)'
      BY <3>1, <1>4 DEF Barrier, Token
    <3> QED BY <2>1, <1>1, <3>2 DEF Token
  <2>2. CASE ~last[s]
    BY <2>2, <1>1, <1>4 DEF Barrier, Token
  <2> QED BY <2>1, <2>2
<1>6. Places'
  BY <1>1 DEF Barrier, Places, Losing
<1>7. Lost => Lost'
  BY <1>1, <1>3 DEF Lost, Losing
<1>8. Failures'
  BY <1>1, <1>7 DEF Barrier, Failures
<1> QED BY <1>2, <1>5, <1>6, <1>8 DEF Barrier

----------------------------------------------------------------------------
(* The theorems.                                                           *)

\* The invariant holds at first.
LEMMA InvInit == Init => FanInv
<1> SUFFICES ASSUME Init PROVE FanInv
  OBVIOUS
<1> USE FanInAssumption DEF Init
<1>1. row \in Row
  BY DEF Row
<1>2. TypeOK
  BY <1>1 DEF TypeOK, Place
<1>3. Cardinality(counted) = 0
  BY FS_EmptySet
<1>4. Counters
  BY <1>3 DEF Counters, Below
<1>5. Token /\ Places /\ Failures
  BY DEF Token, Holder, Places, Failures, Losing, Bad
<1> QED BY <1>2, <1>4, <1>5 DEF FanInv, Barrier

\* Every step keeps it.
LEMMA InvStep == FanInv /\ [Next]_vars => FanInv'
<1> SUFFICES ASSUME FanInv, [Next]_vars PROVE FanInv'
  OBVIOUS
<1>1. TypeOK /\ TypeOK'
  BY TypeStep DEF FanInv
<1>2. SUFFICES ASSUME crashes' = 0 PROVE Barrier'
  BY <1>1 DEF FanInv
<1>3. crashes = 0 /\ ~CoordinatorCrash
  <2>1. crashes \in Nat
    BY <1>1, FanInAssumption DEF TypeOK
  <2>2. ~CoordinatorCrash
    BY <1>2, <2>1 DEF CoordinatorCrash
  <2>3. crashes' = crashes
    BY <2>2 DEF Next, HandleReport, WorkerReports, PersistCompleted, CountLocked, InsertCount,
       StoreCount, PublishParent, HandleError, FailLocked, InsertFailed, StoreFailed,
       PublishJobFailed, CloneRow, PublishRefused, FailJob, ParentCompleted, vars
  <2> QED BY <1>2, <2>2, <2>3
<1>4. Barrier
  BY <1>3 DEF FanInv
<1>5. ASSUME NEW s \in Subtask, WorkerReports(s) \/ HandleReport(s) \/ PublishRefused(s)
      PROVE Barrier'
  BY <1>1, <1>4, <1>5, MoveKeeps, CountKeeps, CloneKeeps, MarkKeeps, FailureKeeps,
     PublishKeeps DEF HandleReport
<1>6. CASE FailJob
  <2>1. /\ job # "active" /\ row'.completions = row.completions
        /\ UNCHANGED <<at, copy, last, published, counted>>
    BY <1>1, <1>6 DEF FailJob, TypeOK, Row
  <2>2. Lost'
    BY <1>4, <2>1 DEF Barrier, Failures, Lost
  <2> QED
    BY <1>4, <2>1, <2>2 DEF Barrier, Counters, Below, Token, Holder, Places, Failures
<1>7. CASE ParentCompleted
  <2>1. /\ row'.completions = row.completions /\ row'.state = "Completed"
        /\ UNCHANGED <<at, copy, last, published, job, counted>>
    BY <1>1, <1>7 DEF ParentCompleted, TypeOK, Row
  <2>2. Lost => Lost'
    BY <2>1 DEF Lost
  <2> QED
    BY <1>4, <2>1, <2>2 DEF Barrier, Counters, Below, Token, Holder, Places, Failures, Bad
<1>8. CASE UNCHANGED vars
  BY <1>4, <1>8 DEF vars, Barrier, Counters, Below, Token, Holder, Places, Failures, Lost
<1> QED BY <1>3, <1>5, <1>6, <1>7, <1>8 DEF Next

\* It holds in every reachable state.
LEMMA AlwaysInv == Spec => []FanInv
BY InvInit, InvStep, PTL DEF Spec

\* The parent of any finite number of subtasks is published as completed only when
\* handle_subtask_completed has counted the report of each.
THEOREM BarrierTheorem == Spec => []BarrierHolds
<1>1. FanInv => BarrierHolds
  <2> SUFFICES ASSUME FanInv, crashes = 0, published > 0 PROVE counted = Subtask
    BY DEF BarrierHolds, WaitsForAll
  <2>1. published # 0
    BY DEF FanInv, TypeOK
  <2> QED BY <2>1 DEF FanInv, Barrier, Token
<1> QED BY <1>1, AlwaysInv, PTL

\* The subtasks of one parent have one outcome between them: the parent is
\* published once, and then nothing has failed it nor its job.
THEOREM OneOutcomeTheorem == Spec => []OneOutcome
<1>1. FanInv => OneOutcome
  <2> SUFFICES ASSUME FanInv, crashes = 0
               PROVE  /\ published <= 1
                      /\ published = 1 => job = "active" /\ row.state \in {"Running", "Completed"}
    BY DEF OneOutcome
  <2>1. TypeOK /\ Token /\ Failures
    BY DEF FanInv, Barrier
  <2>2. published = 0 \/ (published = 1 /\ counted = Subtask)
    BY <2>1 DEF Token
  <2>3. counted = Subtask => ~Lost
    BY DEF Lost
  <2>4. ~Lost => job = "active" /\ row.state \in {"Running", "Completed"}
    BY <2>1 DEF Failures, TypeOK, Row, Bad
  <2> QED BY <2>2, <2>3, <2>4
<1> QED BY <1>1, AlwaysInv, PTL

----------------------------------------------------------------------------
(* The counter and row locks.  Nothing is said of crashes here: what an     *)
(* update_task has committed stays, so the counter can only be too high.    *)

\* The in-memory store alone has handlers between the clone and the insert.
Locks ==
  store = "postgres" => /\ \A s \in Subtask : at[s] \notin {"counting", "marking"}
                        /\ Cardinality(counted) <= row.completions

\* Every step keeps it: a count adds one to the counter and at most one subtask.
LEMMA LocksStep == TypeOK /\ Locks /\ [Next]_vars => Locks'
<1> SUFFICES ASSUME TypeOK, Locks, [Next]_vars, store' = "postgres" PROVE Locks'
  BY DEF Locks
<1>1. store = "postgres"
  BY DEF Next, HandleReport, WorkerReports, PersistCompleted, CountLocked, InsertCount,
     StoreCount, PublishParent, HandleError, FailLocked, InsertFailed, StoreFailed,
     PublishJobFailed, CloneRow, PublishRefused, FailJob, ParentCompleted, CoordinatorCrash, vars
<1>2. /\ \A s \in Subtask : at[s] \notin {"counting", "marking"}
      /\ Cardinality(counted) <= row.completions
  BY <1>1 DEF Locks
<1>3. ASSUME NEW s \in Subtask, CountLocked(s) PROVE Locks'
  <2>0. IsFiniteSet(counted) /\ Cardinality(counted) \in Nat
    BY CountedFinite
  <2>1. Cardinality(counted') <= Cardinality(counted) + 1
    <3>1. counted' = counted \cup {s}
      BY <1>3 DEF CountLocked, StoreCount
    <3>2. Cardinality(counted \cup {s})
            = IF s \in counted THEN Cardinality(counted) ELSE Cardinality(counted) + 1
      BY <2>0, FS_AddElement
    <3> QED BY <2>0, <3>1, <3>2
  <2>2. row'.completions = row.completions + 1 /\ row.completions \in Nat
    BY <1>3 DEF CountLocked, StoreCount, TypeOK, Row
  <2>3. IsFiniteSet(counted')
    BY <1>3, CountedFinite, FS_AddElement DEF CountLocked, StoreCount
  <2>4. Cardinality(counted') \in Nat
    BY <2>3, FS_CardinalityType
  <2>5. Cardinality(counted') <= row'.completions
    BY <1>2, <2>0, <2>1, <2>2, <2>4
  <2>6. \A t \in Subtask : at'[t] \notin {"counting", "marking"}
    BY <1>2, <1>3 DEF CountLocked, Moves, TypeOK
  <2> QED BY <2>5, <2>6 DEF Locks
<1>4. ASSUME NEW s \in Subtask, FailLocked(s) PROVE Locks'
  BY <1>2, <1>4 DEF FailLocked, StoreFailed, Moves, TypeOK, Row, Locks
<1>5. ASSUME NEW s \in Subtask, InsertCount(s) \/ InsertFailed(s) \/ CloneRow(s) PROVE FALSE
  BY <1>1, <1>2, <1>5 DEF InsertCount, InsertFailed, CloneRow, Moves, Locked
<1>6. ASSUME NEW s \in Subtask,
             WorkerReports(s) \/ PersistCompleted(s) \/ PublishParent(s) \/ HandleError(s)
               \/ PublishJobFailed(s)
      PROVE Locks'
  BY <1>2, <1>6 DEF WorkerReports, PersistCompleted, PublishParent, HandleError,
     PublishJobFailed, Moves, TypeOK, Locks
<1>7. ASSUME NEW s \in Subtask, PublishRefused(s) PROVE Locks'
  BY <1>2, <1>7 DEF PublishRefused, Redelivered, TypeOK, Locks
<1>8. CASE FailJob \/ ParentCompleted
  BY <1>2, <1>8 DEF FailJob, ParentCompleted, TypeOK, Row, Locks
<1>9. CASE CoordinatorCrash
  <2>1. UNCHANGED <<row, counted>>
    BY <1>9 DEF CoordinatorCrash
  <2>2. \A t \in Subtask : at'[t] \in {at[t], Redelivered(at[t])}
    BY <1>9 DEF CoordinatorCrash
  <2>3. \A t \in Subtask : at'[t] \notin {"counting", "marking"}
    BY <1>2, <2>2 DEF Redelivered
  <2> QED BY <1>2, <2>1, <2>3 DEF Locks
<1>10. CASE UNCHANGED vars
  BY <1>2, <1>10 DEF vars, Locks
<1> QED BY <1>3, <1>4, <1>5, <1>6, <1>7, <1>8, <1>9, <1>10 DEF Next, HandleReport

\* Row locks lose no count: with PostgreSQL the counter of the parent's row never
\* falls behind the subtasks whose reports update_task has counted, for any number
\* of subtasks, refused publications and coordinators that die.
THEOREM NothingUncountedTheorem == Spec => []NothingUncounted
<1>1. Init => TypeOK /\ Locks
  BY InvInit, FS_EmptySet DEF Init, FanInv, Locks
<1>2. (TypeOK /\ Locks) /\ [Next]_vars => (TypeOK /\ Locks)'
  BY TypeStep, LocksStep
<1>3. TypeOK /\ Locks => NothingUncounted
  <2> SUFFICES ASSUME TypeOK, Locks, store = "postgres"
               PROVE  row.completions >= Cardinality(counted)
    BY DEF NothingUncounted
  <2>1. Cardinality(counted) <= row.completions BY DEF Locks
  <2>2. Cardinality(counted) \in Nat BY CountedFinite
  <2>3. row.completions \in Nat BY DEF TypeOK, Row
  <2> QED BY <2>1, <2>2, <2>3
<1> QED BY <1>1, <1>2, <1>3, PTL DEF Spec

\* Every handler of the fan-in keeps the types, on either datastore.
THEOREM FanInTypeTheorem == Spec => []TypeOK
<1>1. FanInv => TypeOK BY DEF FanInv
<1> QED BY <1>1, AlwaysInv, PTL
=============================================================================
