--------------------------- MODULE TriggerProofs ---------------------------
(***************************************************************************)
(* Two runs never have the lock of one scheduled job, and the pool keeps   *)
(* its limit, for any finite number of processes, ticks and scheduled      *)
(* jobs, any limits of the pool and any number of failures and deaths.     *)
(*                                                                         *)
(* The argument: in memory a key stays in the map from the run that put it *)
(* there to the one spawned task that removes it; in PostgreSQL a key is   *)
(* held by one session at most, whether a run or the pool has that.        *)
(***************************************************************************)
EXTENDS Trigger, FiniteSetTheorems, TLAPS

----------------------------------------------------------------------------
(* The inductive invariants.                                               *)

Run == [at : At, by : Process \cup {"none"}, key : Key \cup {"none"}, held : SUBSET Key]

RunTypes ==
  /\ run \in [Tick -> Run]
  /\ \A t \in Tick : run[t].at \notin {"due", "done"} => run[t].by \in Process /\ run[t].key \in Key

PoolTypes == idle \in [Process -> Seq(SUBSET Key)] /\ open \in [Process -> Int]

\* That open_count is not negative comes with the limit of the pool.
Types ==
  /\ RunTypes /\ PoolTypes
  /\ locker \in {"memory", "postgres"}
  /\ locked \subseteq Key /\ removals \in [Key -> Nat]
  /\ made \in [created : Nat, published : Nat]

\* In memory: a key in use is in the map, and no spawned task is about to take it
\* out; a key that was dropped waits for one such task.
InMap ==
  locker = "memory" =>
    /\ \A k \in Key : removals[k] > 0 => removals[k] = 1 /\ k \in locked
    /\ \A t \in Tick : Holds(t) => run[t].key \in locked /\ removals[run[t].key] = 0
    /\ HoldersExclude

\* In PostgreSQL: the session of a run that has the lock holds its key, and no key
\* is held by two sessions, be they in use or idle.
OneSession ==
  locker = "postgres" => \A k \in Key :
    /\ \A t \in Tick : Holds(t) /\ run[t].key = k => k \in run[t].held
    /\ \A t \in Tick : run[t].at = "client" => k \notin run[t].held
    /\ \A t, u \in Tick :
         HasConn(t) /\ HasConn(u) /\ k \in run[t].held /\ k \in run[u].held => t = u
    /\ \A t \in Tick, m \in Process : \A i \in DOMAIN idle[m] :
         ~(HasConn(t) /\ k \in run[t].held /\ k \in idle[m][i])
    /\ \A m, n \in Process : \A i \in DOMAIN idle[m], j \in DOMAIN idle[n] :
         k \in idle[m][i] /\ k \in idle[n][j] => m = n /\ i = j

----------------------------------------------------------------------------
(* The pool as a sequence of sessions, its top first.                      *)

\* The connections below the n on top, which have expired.
LEMMA RestOf ==
  ASSUME NEW q \in Seq(SUBSET Key), NEW n \in 0 .. Len(q)
  PROVE  /\ Rest(q, n) \in Seq(SUBSET Key)
         /\ Len(Rest(q, n)) = Len(q) - n
         /\ \A i \in DOMAIN Rest(q, n) : n + i \in DOMAIN q /\ Rest(q, n)[i] = q[n + i]
BY DEF Rest

\* A connection that is given back is the first to be taken again.
LEMMA OnTop ==
  ASSUME NEW q \in Seq(SUBSET Key), NEW h \in SUBSET Key
  PROVE  \E r \in Seq(SUBSET Key) :
           /\ r = <<h>> \o q
           /\ Len(r) = Len(q) + 1 /\ r[1] = h
           /\ \A i \in DOMAIN r : i = 1 \/ (i - 1 \in DOMAIN q /\ r[i] = q[i - 1])
<1> DEFINE r == <<h>> \o q
<1>1. /\ r \in Seq(SUBSET Key)
      /\ Len(r) = Len(q) + 1 /\ r[1] = h
      /\ \A i \in DOMAIN r : i = 1 \/ (i - 1 \in DOMAIN q /\ r[i] = q[i - 1])
  OBVIOUS
<1> QED BY <1>1, Zenon

\* put closes the connection of a full pool, and keeps it otherwise.
LEMMA Puts ==
  ASSUME PoolTypes, NEW m \in Process, NEW h \in SUBSET Key, Put(m, h)
  PROVE  \/ idle' = idle /\ open' = [open EXCEPT ![m] = @ - 1]
         \/ /\ open' = open
            /\ \E r \in Seq(SUBSET Key) :
                 /\ idle' = [idle EXCEPT ![m] = r]
                 /\ Len(r) = Len(idle[m]) + 1 /\ r[1] = h
                 /\ \A i \in DOMAIN r : i = 1 \/ (i - 1 \in DOMAIN idle[m] /\ r[i] = idle[m][i - 1])
<1>1. idle[m] \in Seq(SUBSET Key)
  BY DEF PoolTypes
<1>2. PICK r \in Seq(SUBSET Key) :
        /\ r = <<h>> \o idle[m]
        /\ Len(r) = Len(idle[m]) + 1 /\ r[1] = h
        /\ \A i \in DOMAIN r : i = 1 \/ (i - 1 \in DOMAIN idle[m] /\ r[i] = idle[m][i - 1])
  BY <1>1, OnTop, Zenon
<1>3. \/ idle' = idle /\ open' = [open EXCEPT ![m] = @ - 1]
      \/ idle' = [idle EXCEPT ![m] = r] /\ open' = open
  BY <1>2, Zenon DEF Put
<1> QED BY <1>2, <1>3, Zenon

----------------------------------------------------------------------------
(* Types.                                                                  *)

\* A run gets another record.
LEMMA Becomes ==
  ASSUME RunTypes, NEW t \in Tick, NEW r \in Run,
         r.at \in {"due", "done"} \/ (r.by \in Process /\ r.key \in Key),
         run' = [run EXCEPT ![t] = r]
  PROVE  RunTypes'
BY DEF RunTypes

\* The record of a run that has ended.
LEMMA DoneRun == Done \in Run /\ Done.at = "done" /\ Done.held = {}
BY DEF Done, Due, Run, At

\* A run goes on to the next await, perhaps with another session, or ends.
LEMMA GoesOn ==
  ASSUME RunTypes, NEW t \in Tick, NEW a \in At, NEW h \in SUBSET Key,
         run[t].at \notin {"due", "done"},
         \/ run' = [run EXCEPT ![t].at = a]
         \/ run' = [run EXCEPT ![t].at = a, ![t].held = h]
         \/ Finish(t)
  PROVE  RunTypes'
<1> USE DEF RunTypes
<1>1. run[t] \in Run
  OBVIOUS
<1>2. [run[t] EXCEPT !.at = a] \in Run /\ [run[t] EXCEPT !.at = a, !.held = h] \in Run
  BY <1>1 DEF Run
<1>3. Done \in Run /\ Done.at = "done"
  BY DoneRun
<1>4. CASE run' = [run EXCEPT ![t].at = a]
  BY <1>1, <1>2, <1>4 DEF Run
<1>5. CASE run' = [run EXCEPT ![t].at = a, ![t].held = h]
  BY <1>1, <1>2, <1>5 DEF Run
<1>6. CASE Finish(t)
  BY <1>3, <1>6 DEF Finish
<1> QED BY <1>4, <1>5, <1>6

\* What a run that goes on, or ends, leaves as it was.
LEMMA OneRun ==
  ASSUME RunTypes, NEW t \in Tick
  PROVE  /\ \A a : Goes(t, a) =>
              /\ \A u \in Tick \ {t} : run'[u] = run[u]
              /\ run'[t].at = a /\ run'[t].by = run[t].by
              /\ run'[t].key = run[t].key /\ run'[t].held = run[t].held
         /\ Finish(t) =>
              /\ \A u \in Tick \ {t} : run'[u] = run[u]
              /\ run'[t] = Done /\ run'[t].at = "done" /\ run'[t].held = {}
<1>1. run \in [Tick -> Run] /\ run[t] \in Run
  BY DEF RunTypes
<1>2. ASSUME NEW a, Goes(t, a)
      PROVE  /\ \A u \in Tick \ {t} : run'[u] = run[u]
             /\ run'[t].at = a /\ run'[t].by = run[t].by
             /\ run'[t].key = run[t].key /\ run'[t].held = run[t].held
  BY <1>1, <1>2 DEF Goes, Run
<1>3. ASSUME Finish(t)
      PROVE  /\ \A u \in Tick \ {t} : run'[u] = run[u]
             /\ run'[t] = Done /\ run'[t].at = "done" /\ run'[t].held = {}
  BY <1>1, <1>3, DoneRun DEF Finish
<1> QED BY <1>2, <1>3

\* A run goes on with a session that holds the keys h.
GoesWith(t, a, h) == run' = [run EXCEPT ![t].at = a, ![t].held = h]

\* What a run that goes on with a session leaves as it was.
LEMMA WithSession ==
  ASSUME RunTypes, NEW t \in Tick, NEW a, NEW h, GoesWith(t, a, h)
  PROVE  /\ \A u \in Tick \ {t} : run'[u] = run[u]
         /\ run'[t].at = a /\ run'[t].by = run[t].by
         /\ run'[t].key = run[t].key /\ run'[t].held = h
<1>1. run \in [Tick -> Run] /\ run[t] \in Run
  BY DEF RunTypes
<1> QED BY <1>1 DEF Run, GoesWith

\* Every step keeps the types.
LEMMA TypesStep == Types /\ [TriggerNext]_tvars => Types'
<1> SUFFICES ASSUME Types, [TriggerNext]_tvars PROVE Types'
  OBVIOUS
<1> USE DEF Types
<1>1. ASSUME NEW t \in Tick, NEW m \in Process, NEW k \in Key, Fire(t, m, k) PROVE Types'
  <2> DEFINE r == [at |-> IF locker = "memory" THEN "lock" ELSE "client",
                   by |-> m, key |-> k, held |-> {}]
  <2>1. run' = [run EXCEPT ![t] = r] \/ run' = [run EXCEPT ![t] = Done]
    BY <1>1 DEF Fire, Finish
  <2>2. r \in Run /\ r.by \in Process /\ r.key \in Key
    BY DEF Run, At
  <2>3. RunTypes'
    <3> HIDE DEF r
    <3> QED BY <2>1, <2>2, Becomes, DoneRun
  <2> QED BY <1>1, <2>3 DEF Fire, PoolTypes
<1>2. ASSUME NEW t \in Tick, Get(t) PROVE Types'
  <2> DEFINE m == run[t].by
  <2>1. m \in Process /\ idle[m] \in Seq(SUBSET Key) /\ run[t].at \notin {"due", "done"}
    BY <1>2 DEF Get, RunTypes, PoolTypes
  <2>2. ASSUME NEW n \in DOMAIN idle[m] \cup {0}, Reuse(t, m, n) PROVE Types'
    <3>1. n + 1 \in 0 .. Len(idle[m]) /\ n + 1 \in DOMAIN idle[m] /\ n \in Int
      BY <2>1, <2>2 DEF Reuse
    <3>2. Rest(idle[m], n + 1) \in Seq(SUBSET Key) /\ idle[m][n + 1] \in SUBSET Key
      <4>1. Rest(idle[m], n + 1) \in Seq(SUBSET Key)
        BY <2>1, <3>1, RestOf
      <4>2. idle[m][n + 1] \in SUBSET Key
        BY <2>1, <3>1
      <4> QED BY <4>1, <4>2
    <3>3. PoolTypes'
      BY <2>1, <2>2, <3>1, <3>2 DEF PoolTypes, Reuse
    <3>4. RunTypes'
      BY <2>1, <2>2, <3>2, GoesOn DEF Reuse, At
    <3> QED BY <1>2, <3>3, <3>4 DEF Get
  <2>3. CASE Connect(t, m)
    <3>1. PoolTypes'
      BY <2>1, <2>3 DEF PoolTypes, Connect
    <3>2. RunTypes'
      BY <2>1, <2>3, GoesOn DEF Connect, Goes, At
    <3> QED BY <1>2, <3>1, <3>2 DEF Get
  <2> QED BY <1>2, <2>2, <2>3 DEF Get
<1>3. ASSUME NEW t \in Tick, TryAdvisory(t) PROVE Types'
  <2>1. run[t].key \in Key /\ run[t].held \cup {run[t].key} \in SUBSET Key
    BY <1>3 DEF TryAdvisory, RunTypes, Run
  <2>2. RunTypes'
    <3>1. /\ run[t].at \notin {"due", "done"} /\ "create" \in At
          /\ \/ run' = [run EXCEPT ![t].at = "create", ![t].held = run[t].held \cup {run[t].key}]
             \/ Finish(t)
      BY <1>3 DEF TryAdvisory, At, RunTypes
    <3> QED BY <2>1, <3>1, GoesOn
  <2> QED BY <1>3, <2>2 DEF TryAdvisory, PoolTypes
<1>4. ASSUME NEW t \in Tick, TryInMemory(t) PROVE Types'
  <2>1. run[t].key \in Key
    BY <1>4 DEF TryInMemory, RunTypes
  <2>2. RunTypes'
    BY <1>4, GoesOn DEF TryInMemory, Goes, At
  <2> QED BY <1>4, <2>1, <2>2 DEF TryInMemory, PoolTypes
<1>5. ASSUME NEW t \in Tick, CreateJob(t) \/ PublishJob(t) PROVE Types'
  <2>1. RunTypes'
    BY <1>5, GoesOn DEF CreateJob, PublishJob, Goes, At
  <2>2. made' \in [created : Nat, published : Nat]
    BY <1>5 DEF CreateJob, PublishJob
  <2> QED BY <1>5, <2>1, <2>2 DEF CreateJob, PublishJob, PoolTypes
<1>6. ASSUME NEW t \in Tick, Drop(t) \/ Release(t) PROVE Types'
  <2>1. /\ run[t].by \in Process /\ run[t].key \in Key /\ run[t].held \in SUBSET Key
        /\ run[t].at \notin {"due", "done"}
    BY <1>6 DEF Drop, Release, RunTypes, Run
  <2>2. ASSUME NEW h \in SUBSET Key, Put(run[t].by, h) PROVE PoolTypes'
    <3>1. \/ idle' = idle /\ open' = [open EXCEPT ![run[t].by] = @ - 1]
          \/ open' = open /\ \E r \in Seq(SUBSET Key) : idle' = [idle EXCEPT ![run[t].by] = r]
      <4> HIDE DEF Types
      <4>1. PoolTypes /\ run[t].by \in Process
        BY <2>1 DEF Types
      <4> QED BY <2>2, <4>1, Puts
    <3>2. CASE idle' = idle /\ open' = [open EXCEPT ![run[t].by] = @ - 1]
      BY <2>1, <3>2 DEF PoolTypes
    <3>3. CASE open' = open /\ \E r \in Seq(SUBSET Key) : idle' = [idle EXCEPT ![run[t].by] = r]
      BY <2>1, <3>3 DEF PoolTypes
    <3> QED BY <3>1, <3>2, <3>3
  <2>3. PoolTypes'
    BY <1>6, <2>1, <2>2 DEF Drop, Release, PoolTypes
  <2>4. RunTypes'
    BY <1>6, <2>1, DoneRun, Becomes DEF Drop, Release, Finish
  <2> QED BY <1>6, <2>1, <2>3, <2>4 DEF Drop, Release
<1>7. ASSUME NEW k \in Key, RemoveKey(k) PROVE Types'
  BY <1>7 DEF RemoveKey, RunTypes, PoolTypes
<1>8. ASSUME NEW m \in Process, Die(m) PROVE Types'
  <2>1. Done \in Run
    BY DEF Done, Due, Run, At
  <2>2. RunTypes'
    BY <1>8, <2>1 DEF Die, RunTypes, Done
  <2>3. PoolTypes'
    BY <1>8 DEF Die, PoolTypes
  <2> QED BY <1>8, <2>2, <2>3 DEF Die
<1>9. CASE UNCHANGED tvars
  BY <1>9 DEF tvars, RunTypes, PoolTypes
<1> QED BY <1>1, <1>2, <1>3, <1>4, <1>5, <1>6, <1>7, <1>8, <1>9 DEF TriggerNext, Runs
----------------------------------------------------------------------------
(* The lock in memory.                                                     *)

\* Every step keeps it, while the locks are given back by leaving their scope.
LEMMA InMapStep ==
  ASSUME "memory" \notin Explicit, Types, InMap, [TriggerNext]_tvars
  PROVE  InMap'
<1> SUFFICES ASSUME locker' = "memory" PROVE InMap'
  BY DEF InMap
<1> USE DEF HoldersExclude, Holds
<1>0. /\ locker = "memory" /\ RunTypes
      /\ removals \in [Key -> Nat]
  BY DEF Types, TriggerNext, Runs, tvars, Fire, Get, TryAdvisory, TryInMemory, CreateJob, PublishJob,
     Drop, Release, RemoveKey, Die
<1>1. ASSUME NEW t \in Tick, NEW m \in Process, NEW k \in Key, Fire(t, m, k) PROVE InMap'
  BY <1>0, <1>1, DoneRun DEF Fire, Finish, InMap, RunTypes
<1>2. ASSUME NEW t \in Tick, Get(t) PROVE InMap'
  <2>1. /\ \A u \in Tick \ {t} : run'[u] = run[u]
        /\ run'[t].at \in {"lock", "done"}
    <3>1. ASSUME NEW n, Reuse(t, run[t].by, n)
          PROVE  /\ \A u \in Tick \ {t} : run'[u] = run[u]
                 /\ run'[t].at = "lock"
      <4> DEFINE h == idle[run[t].by][n + 1]
      <4>1. GoesWith(t, "lock", h)
        BY <3>1 DEF Reuse, GoesWith
      <4> HIDE DEF h
      <4> QED BY <1>0, <4>1, WithSession
    <3>2. CASE Connect(t, run[t].by)
      BY <1>0, <3>2, OneRun DEF Connect
    <3> QED BY <1>2, <3>1, <3>2 DEF Get
  <2> QED BY <1>0, <1>2, <2>1 DEF Get, InMap
<1>3. ASSUME NEW t \in Tick, TryInMemory(t) PROVE InMap'
  BY <1>0, <1>3, OneRun DEF TryInMemory, InMap, RunTypes
<1>4. ASSUME NEW t \in Tick, CreateJob(t) \/ PublishJob(t) PROVE InMap'
  BY <1>0, <1>4, OneRun DEF CreateJob, PublishJob, InMap, RunTypes
<1>5. ASSUME NEW t \in Tick, Drop(t) PROVE InMap'
  BY <1>0, <1>5, OneRun DEF Drop, InMap, RunTypes
<1>6. ASSUME NEW k \in Key, RemoveKey(k) PROVE InMap'
  BY <1>0, <1>6 DEF RemoveKey, InMap, RunTypes
<1>7. CASE UNCHANGED tvars
  BY <1>0, <1>7 DEF tvars, InMap
<1> QED BY <1>0, <1>1, <1>2, <1>3, <1>4, <1>5, <1>6, <1>7
  DEF TriggerNext, Runs, TryAdvisory, Release, Die

----------------------------------------------------------------------------
(* The sessions of PostgreSQL.                                             *)

\* Every step keeps a key in one session.
LEMMA OneSessionStep ==
  ASSUME Types, OneSession, [TriggerNext]_tvars
  PROVE  OneSession'
<1> SUFFICES ASSUME locker' = "postgres" PROVE OneSession'
  BY DEF OneSession
<1> USE DEF HasConn, Holds
<1>0. /\ locker = "postgres" /\ RunTypes /\ PoolTypes
  BY DEF Types, TriggerNext, Runs, tvars, Fire, Get, TryAdvisory, TryInMemory, CreateJob, PublishJob,
     Drop, Release, RemoveKey, Die
<1>1. ASSUME NEW t \in Tick, NEW m \in Process, NEW k \in Key, Fire(t, m, k) PROVE OneSession'
  BY <1>0, <1>1, DoneRun DEF Fire, Finish, OneSession, RunTypes
<1>2. ASSUME NEW t \in Tick, Get(t) PROVE OneSession'
  <2> DEFINE m == run[t].by
  <2>1. m \in Process /\ idle[m] \in Seq(SUBSET Key)
    BY <1>0, <1>2 DEF Get, RunTypes, PoolTypes
  <2>2. ASSUME NEW n \in DOMAIN idle[m] \cup {0}, Reuse(t, m, n) PROVE OneSession'
    <3>1. n + 1 \in 0 .. Len(idle[m]) /\ n + 1 \in DOMAIN idle[m] /\ n \in Int
      BY <2>1, <2>2 DEF Reuse
    <3>2. PICK r \in Seq(SUBSET Key) :
            /\ idle' = [idle EXCEPT ![m] = r]
            /\ \A i \in DOMAIN r : n + 1 + i \in DOMAIN idle[m] /\ r[i] = idle[m][n + 1 + i]
      BY <2>1, <2>2, <3>1, RestOf, Zenon DEF Reuse
    <3>3. run' = [run EXCEPT ![t].at = "lock", ![t].held = idle[m][n + 1]]
      BY <2>2 DEF Reuse
    <3>4. \A i \in DOMAIN r : i \in Int /\ i > 0
      OBVIOUS
    <3>5. /\ \A u \in Tick \ {t} : run'[u] = run[u]
          /\ run'[t].at = "lock" /\ run'[t].held = idle[m][n + 1]
      <4> DEFINE h == idle[m][n + 1]
      <4>1. GoesWith(t, "lock", h)
        BY <3>3 DEF GoesWith
      <4> HIDE DEF h
      <4>2. /\ \A u \in Tick \ {t} : run'[u] = run[u]
            /\ run'[t].at = "lock" /\ run'[t].held = h
        BY <1>0, <4>1, WithSession
      <4> QED BY <4>2 DEF h
    <3>6. /\ \A j \in Process \ {m} : idle'[j] = idle[j]
          /\ idle'[m] = r
      BY <1>0, <2>1, <3>2 DEF PoolTypes
    <3>7. ASSUME NEW k \in Key, NEW j \in Process, NEW i \in DOMAIN idle'[j], k \in idle'[j][i]
          PROVE  \E q \in DOMAIN idle[j] : /\ k \in idle[j][q]
                                          /\ q = IF j = m THEN n + 1 + i ELSE i
      BY <3>2, <3>6, <3>7
    <3>8. ASSUME NEW j \in Process, NEW i \in DOMAIN idle'[j]
          PROVE  i \in Int /\ i > 0
      BY <1>0, <3>4, <3>6 DEF PoolTypes
    <3>9. /\ locker = "postgres" /\ ~HasConn(t) /\ HasConn(t)'
          /\ \A u \in Tick \ {t} : HasConn(u)' <=> HasConn(u)
      BY <1>0, <1>2, <3>5 DEF Get
    <3> SUFFICES ASSUME NEW k \in Key
        PROVE  /\ \A u \in Tick : Holds(u)' /\ run'[u].key = k => k \in run'[u].held
               /\ \A u \in Tick : run'[u].at = "client" => k \notin run'[u].held
               /\ \A u, v \in Tick :
                    HasConn(u)' /\ HasConn(v)' /\ k \in run'[u].held /\ k \in run'[v].held => u = v
               /\ \A u \in Tick, j \in Process : \A i \in DOMAIN idle'[j] :
                    ~(HasConn(u)' /\ k \in run'[u].held /\ k \in idle'[j][i])
               /\ \A j, l \in Process : \A i \in DOMAIN idle'[j], q \in DOMAIN idle'[l] :
                    k \in idle'[j][i] /\ k \in idle'[l][q] => j = l /\ i = q
      BY DEF OneSession
    <3>10. /\ \A u \in Tick : Holds(u)' /\ run'[u].key = k => k \in run'[u].held
           /\ \A u \in Tick : run'[u].at = "client" => k \notin run'[u].held
      BY <1>0, <1>2, <3>5 DEF OneSession, Get
    <3>11. \A u, v \in Tick :
             HasConn(u)' /\ HasConn(v)' /\ k \in run'[u].held /\ k \in run'[v].held => u = v
      BY <1>0, <2>1, <3>1, <3>5, <3>9 DEF OneSession
    <3>12. \A u \in Tick, j \in Process : \A i \in DOMAIN idle'[j] :
             ~(HasConn(u)' /\ k \in run'[u].held /\ k \in idle'[j][i])
      BY <1>0, <2>1, <3>1, <3>5, <3>7, <3>8, <3>9 DEF OneSession
    <3>13. \A j, l \in Process : \A i \in DOMAIN idle'[j], q \in DOMAIN idle'[l] :
             k \in idle'[j][i] /\ k \in idle'[l][q] => j = l /\ i = q
      BY <1>0, <2>1, <3>1, <3>7, <3>8, SMTT(30) DEF OneSession
    <3> QED BY <3>10, <3>11, <3>12, <3>13
  <2>3. CASE Connect(t, m)
    <3>1. /\ \A u \in Tick \ {t} : run'[u] = run[u]
          /\ run'[t].at = "done" \/ (run'[t].at = "lock" /\ run'[t].held = run[t].held)
      BY <1>0, <2>3, OneRun DEF Connect
    <3>2. /\ \A j \in Process \ {m} : idle'[j] = idle[j]
          /\ idle'[m] = <<>>
      BY <1>0, <2>1, <2>3 DEF Connect, PoolTypes
    <3>3. \A j \in Process : \A i \in DOMAIN idle'[j] : i \in DOMAIN idle[j] /\ idle'[j][i] = idle[j][i]
      BY <3>2
    <3>4. run[t].at = "client"
      BY <1>2 DEF Get
    <3> QED BY <1>0, <3>1, <3>3, <3>4 DEF OneSession
  <2> QED BY <1>2, <2>2, <2>3 DEF Get
<1>3. ASSUME NEW t \in Tick, TryAdvisory(t) PROVE OneSession'
  <2> DEFINE h == run[t].held \cup {run[t].key}
  <2>1. UNCHANGED idle /\ run[t].at = "lock"
    BY <1>3 DEF TryAdvisory
  <2>2. CASE Finish(t)
    <3>1. run'[t].at = "done" /\ \A u \in Tick \ {t} : run'[u] = run[u]
      BY <1>0, <2>2, OneRun
    <3> QED BY <1>0, <2>1, <3>1 DEF OneSession
  <2>3. CASE ~HeldElsewhere(t) /\ GoesWith(t, "create", h)
    <3>1. /\ \A u \in Tick \ {t} : run'[u] = run[u]
          /\ run'[t].at = "create" /\ run'[t].key = run[t].key /\ run'[t].held = h
      <4> HIDE DEF h
      <4> QED BY <1>0, <2>3, WithSession
    <3> QED BY <1>0, <2>1, <2>3, <3>1 DEF HeldElsewhere, OneSession
  <2>4. run' = [run EXCEPT ![t].at = "create", ![t].held = @ \cup {run[t].key}]
          => GoesWith(t, "create", h)
    BY <1>0 DEF RunTypes, Run, GoesWith
  <2> QED BY <1>3, <2>2, <2>3, <2>4 DEF TryAdvisory
<1>4. ASSUME NEW t \in Tick, CreateJob(t) \/ PublishJob(t) PROVE OneSession'
  BY <1>0, <1>4, OneRun DEF CreateJob, PublishJob, OneSession, RunTypes
<1>5. ASSUME NEW t \in Tick, Drop(t) \/ Release(t) PROVE OneSession'
  <2> DEFINE m == run[t].by
  <2>1. /\ m \in Process /\ run[t].at = "give"
        /\ idle[m] \in Seq(SUBSET Key) /\ run[t].held \in SUBSET Key
    BY <1>0, <1>5 DEF Drop, Release, RunTypes, PoolTypes, Run
  <2>2. /\ \A u \in Tick \ {t} : run'[u] = run[u]
        /\ run'[t].at = "done"
    BY <1>0, <1>5, OneRun DEF Drop, Release
  <2>3. PICK h \in SUBSET Key : Put(m, h) /\ h \subseteq run[t].held
    BY <1>0, <1>5, <2>1 DEF Drop, Release
  <2>4. CASE idle' = idle
    BY <1>0, <2>2, <2>4 DEF OneSession
  <2>5. CASE \E r \in Seq(SUBSET Key) :
               /\ idle' = [idle EXCEPT ![m] = r]
               /\ Len(r) = Len(idle[m]) + 1 /\ r[1] = h
               /\ \A i \in DOMAIN r : i = 1 \/ (i - 1 \in DOMAIN idle[m] /\ r[i] = idle[m][i - 1])
    <3>1. PICK r \in Seq(SUBSET Key) :
            /\ idle' = [idle EXCEPT ![m] = r]
            /\ r[1] = h
            /\ \A i \in DOMAIN r : i = 1 \/ (i - 1 \in DOMAIN idle[m] /\ r[i] = idle[m][i - 1])
      BY <2>5
    <3>2. /\ \A j \in Process \ {m} : idle'[j] = idle[j]
          /\ idle'[m] = r
      BY <1>0, <2>1, <3>1 DEF PoolTypes
    <3>3. ASSUME NEW k \in Key, NEW j \in Process, NEW i \in DOMAIN idle'[j], k \in idle'[j][i]
          PROVE  \/ j = m /\ i = 1 /\ k \in run[t].held
                 \/ \E q \in DOMAIN idle[j] : /\ k \in idle[j][q]
                                              /\ q = IF j = m THEN i - 1 ELSE i
      BY <2>3, <3>1, <3>2, <3>3
    <3>4. ASSUME NEW j \in Process, NEW i \in DOMAIN idle'[j]
          PROVE  i \in Int
      BY <1>0, <3>1, <3>2 DEF PoolTypes
    <3>5. HasConn(t)
      BY <1>0, <2>1
    <3> QED BY <1>0, <2>2, <3>3, <3>4, <3>5 DEF OneSession
  <2>6. idle' = idle \/
        \E r \in Seq(SUBSET Key) :
               /\ idle' = [idle EXCEPT ![m] = r]
               /\ Len(r) = Len(idle[m]) + 1 /\ r[1] = h
               /\ \A i \in DOMAIN r : i = 1 \/ (i - 1 \in DOMAIN idle[m] /\ r[i] = idle[m][i - 1])
    BY <1>0, <2>1, <2>3, Puts
  <2> QED BY <2>4, <2>5, <2>6
<1>6. ASSUME NEW k \in Key, RemoveKey(k) PROVE OneSession'
  BY <1>0, <1>6 DEF RemoveKey, OneSession
<1>7. ASSUME NEW m \in Process, Die(m) PROVE OneSession'
  BY <1>0, <1>7, DoneRun DEF Die, OneSession, RunTypes, PoolTypes
<1>8. CASE UNCHANGED tvars
  BY <1>0, <1>8 DEF tvars, OneSession
<1> QED BY <1>0, <1>1, <1>2, <1>3, <1>4, <1>5, <1>6, <1>7, <1>8
  DEF TriggerNext, Runs, TryInMemory
----------------------------------------------------------------------------
(* The limit of the pool.                                                  *)

\* One process: its connections, idle and in use, and what its pool counts.
Within(p) == Len(idle[p]) + Cardinality(InUse(p)) <= open[p] /\ open[p] <= MaxOpen

\* The runs that use a connection are finitely many.
LEMMA InUseFinite ==
  ASSUME NEW p \in Process
  PROVE  IsFiniteSet(InUse(p)) /\ Cardinality(InUse(p)) \in Nat
<1>1. InUse(p) \subseteq Tick
  BY DEF InUse
<1> QED BY <1>1, TriggerAssumption, FS_Subset, FS_CardinalityType

\* A run that takes up a connection, and one that lets it go.
LEMMA InUseMoves ==
  ASSUME NEW p \in Process, NEW t
  PROVE  /\ InUse(p)' \subseteq InUse(p) \cup {t}
              => Cardinality(InUse(p)') <= Cardinality(InUse(p)) + 1
         /\ InUse(p)' \subseteq InUse(p) => Cardinality(InUse(p)') <= Cardinality(InUse(p))
         /\ t \in InUse(p) /\ InUse(p)' \subseteq InUse(p) \ {t}
              => Cardinality(InUse(p)') <= Cardinality(InUse(p)) - 1
         /\ Cardinality(InUse(p)') \in Nat
<1> DEFINE A == InUse(p)
           B == InUse(p)'
<1>1. IsFiniteSet(A) /\ Cardinality(A) \in Nat
  BY InUseFinite
<1>2. B \subseteq Tick
  BY DEF InUse
<1>3. IsFiniteSet(B) /\ Cardinality(B) \in Nat
  BY <1>2, TriggerAssumption, FS_Subset, FS_CardinalityType
<1>4. /\ IsFiniteSet(A \cup {t}) /\ Cardinality(A \cup {t}) \in Nat
      /\ Cardinality(A \cup {t}) <= Cardinality(A) + 1
  <2>1. /\ IsFiniteSet(A \cup {t})
        /\ Cardinality(A \cup {t}) = IF t \in A THEN Cardinality(A) ELSE Cardinality(A) + 1
    BY <1>1, FS_AddElement
  <2> QED BY <1>1, <2>1
<1>5. /\ IsFiniteSet(A \ {t})
      /\ t \in A => Cardinality(A \ {t}) = Cardinality(A) - 1
  <2>1. /\ IsFiniteSet(A \ {t})
        /\ Cardinality(A \ {t}) = IF t \in A THEN Cardinality(A) - 1 ELSE Cardinality(A)
    BY <1>1, FS_RemoveElement
  <2> QED BY <2>1
<1>6. B \subseteq A \cup {t} => Cardinality(B) <= Cardinality(A \cup {t})
  BY <1>4, FS_Subset
<1>7. B \subseteq A => Cardinality(B) <= Cardinality(A)
  BY <1>1, FS_Subset
<1>8. B \subseteq A \ {t} => Cardinality(B) <= Cardinality(A \ {t})
  BY <1>5, FS_Subset
<1> HIDE DEF A, B
<1>9. /\ B \subseteq A \cup {t} => Cardinality(B) <= Cardinality(A) + 1
      /\ B \subseteq A => Cardinality(B) <= Cardinality(A)
      /\ t \in A /\ B \subseteq A \ {t} => Cardinality(B) <= Cardinality(A) - 1
      /\ Cardinality(B) \in Nat
  BY <1>1, <1>3, <1>4, <1>5, <1>6, <1>7, <1>8
<1> QED BY <1>9 DEF A, B

\* Every step keeps the limit, of the process p: a connection that is taken up or
\* made was counted before, and none is counted out that is still there.
LEMMA PoolStep ==
  ASSUME Types, NEW p \in Process, Within(p), [TriggerNext]_tvars
  PROVE  Within(p)'
<1> USE DEF HasConn, Holds
<1>0. /\ RunTypes /\ PoolTypes
      /\ idle[p] \in Seq(SUBSET Key) /\ open[p] \in Int
      /\ MaxOpen \in Int /\ Cardinality(InUse(p)) \in Nat
  BY TriggerAssumption, InUseFinite DEF Types, PoolTypes
<1>1. Len(idle[p]) + Cardinality(InUse(p)) <= open[p] /\ open[p] <= MaxOpen
  BY DEF Within
<1>2. ASSUME UNCHANGED <<idle, open>>, InUse(p)' \subseteq InUse(p) PROVE Within(p)'
  <2>1. Cardinality(InUse(p)') <= Cardinality(InUse(p)) /\ Cardinality(InUse(p)') \in Nat
    BY <1>2, InUseMoves
  <2> QED BY <1>0, <1>1, <1>2, <2>1 DEF Within
<1>3. ASSUME NEW t \in Tick, NEW m \in Process, NEW k \in Key, Fire(t, m, k) PROVE Within(p)'
  <2>1. /\ \A u \in Tick \ {t} : run'[u] = run[u]
        /\ run'[t].at \in {"client", "done"} \/ (run'[t].at = "lock" /\ locker = "memory")
    BY <1>0, <1>3, OneRun DEF Fire, RunTypes
  <2>2. InUse(p)' \subseteq InUse(p)
    BY <1>3, <2>1 DEF InUse, Fire
  <2> QED BY <1>2, <1>3, <2>2 DEF Fire
<1>4. ASSUME NEW t \in Tick, Get(t) PROVE Within(p)'
  <2> DEFINE m == run[t].by
  <2>1. m \in Process /\ idle[m] \in Seq(SUBSET Key) /\ open[m] \in Int
    BY <1>0, <1>4 DEF Get, RunTypes, PoolTypes
  <2>2. /\ \A u \in Tick \ {t} : run'[u] = run[u]
        /\ run'[t].at = "done" \/ (run'[t].at = "lock" /\ run'[t].by = m)
    <3>1. ASSUME NEW n, Reuse(t, m, n)
          PROVE  /\ \A u \in Tick \ {t} : run'[u] = run[u]
                 /\ run'[t].at = "lock" /\ run'[t].by = m
      <4> DEFINE h == idle[run[t].by][n + 1]
      <4>1. GoesWith(t, "lock", h)
        BY <3>1 DEF Reuse, GoesWith
      <4> HIDE DEF h
      <4> QED BY <1>0, <4>1, WithSession
    <3>2. CASE Connect(t, m)
      BY <1>0, <3>2, OneRun DEF Connect
    <3> QED BY <1>4, <3>1, <3>2 DEF Get
  <2>3. CASE p # m
    <3>1. InUse(p)' \subseteq InUse(p)
      BY <1>4, <2>2, <2>3 DEF InUse, Get
    <3>2. idle'[p] = idle[p] /\ open'[p] = open[p]
      BY <1>0, <1>4, <2>1, <2>3 DEF Get, Reuse, Connect, PoolTypes
    <3>3. Cardinality(InUse(p)') <= Cardinality(InUse(p)) /\ Cardinality(InUse(p)') \in Nat
      BY <3>1, InUseMoves
    <3> QED BY <1>0, <1>1, <3>2, <3>3 DEF Within
  <2>4. CASE p = m
    <3>1. InUse(p)' \subseteq InUse(p) \cup {t}
      BY <1>4, <2>2 DEF InUse, Get
    <3>2. Cardinality(InUse(p)') <= Cardinality(InUse(p)) + 1 /\ Cardinality(InUse(p)') \in Nat
      BY <3>1, InUseMoves
    <3>3. ASSUME NEW n \in DOMAIN idle[m] \cup {0}, Reuse(t, m, n) PROVE Within(p)'
      <4>1. n + 1 \in 0 .. Len(idle[m]) /\ n \in Nat
        BY <2>1, <3>3 DEF Reuse
      <4>2. Len(Rest(idle[m], n + 1)) = Len(idle[m]) - (n + 1)
        BY <2>1, <4>1, RestOf
      <4>3. Len(idle'[p]) = Len(idle[p]) - (n + 1) /\ open'[p] = open[p] - n
        BY <1>0, <2>1, <2>4, <3>3, <4>2 DEF Reuse, PoolTypes
      <4> QED BY <1>0, <1>1, <3>2, <4>1, <4>3, SMTT(30) DEF Within
    <3>4. CASE Connect(t, m)
      <4>1. idle'[p] = <<>>
        BY <1>0, <2>1, <2>4, <3>4 DEF Connect, PoolTypes
      <4>2. \/ /\ open'[p] = open[p] - Len(idle[p]) + 1
               /\ open[p] - Len(idle[p]) < MaxOpen
            \/ open'[p] = open[p] - Len(idle[p]) /\ Finish(t)
        BY <1>0, <2>1, <2>4, <3>4 DEF Connect, PoolTypes, Room
      <4>3. Len(idle[p]) \in Nat /\ Len(idle'[p]) = 0
        BY <1>0, <4>1
      <4>4. ASSUME Finish(t) PROVE Cardinality(InUse(p)') <= Cardinality(InUse(p))
        <5>1. InUse(p)' \subseteq InUse(p)
          BY <1>0, <1>4, <4>4, OneRun DEF InUse, Get
        <5> QED BY <5>1, InUseMoves
      <4> QED BY <1>0, <1>1, <3>2, <4>2, <4>3, <4>4 DEF Within
    <3> QED BY <1>4, <3>3, <3>4 DEF Get
  <2> QED BY <2>3, <2>4
<1>5. ASSUME NEW t \in Tick, TryAdvisory(t) PROVE Within(p)'
  <2> DEFINE h == run[t].held \cup {run[t].key}
  <2>1. GoesWith(t, "create", h) \/ Finish(t)
    BY <1>0, <1>5 DEF TryAdvisory, GoesWith, RunTypes, Run
  <2>2. /\ \A u \in Tick \ {t} : run'[u] = run[u]
        /\ run'[t].at = "done" \/ run'[t].by = run[t].by
    <3> HIDE DEF h
    <3> QED BY <1>0, <2>1, OneRun, WithSession
  <2>3. InUse(p)' \subseteq InUse(p)
    BY <1>5, <2>2 DEF InUse, TryAdvisory
  <2> QED BY <1>2, <1>5, <2>3 DEF TryAdvisory
<1>6. ASSUME NEW t \in Tick, TryInMemory(t) PROVE Within(p)'
  <2>1. InUse(p)' \subseteq InUse(p)
    BY <1>6 DEF InUse, TryInMemory
  <2> QED BY <1>2, <1>6, <2>1 DEF TryInMemory
<1>7. ASSUME NEW t \in Tick, CreateJob(t) \/ PublishJob(t) PROVE Within(p)'
  <2>1. /\ \A u \in Tick \ {t} : run'[u] = run[u]
        /\ run'[t].by = run[t].by
    BY <1>0, <1>7, OneRun DEF CreateJob, PublishJob
  <2>2. InUse(p)' \subseteq InUse(p)
    BY <1>7, <2>1 DEF InUse, CreateJob, PublishJob
  <2> QED BY <1>2, <1>7, <2>2 DEF CreateJob, PublishJob
<1>8. ASSUME NEW t \in Tick, Drop(t) \/ Release(t) PROVE Within(p)'
  <2> DEFINE m == run[t].by
  <2>1. /\ m \in Process /\ run[t].at = "give" /\ run[t].held \in SUBSET Key
        /\ UNCHANGED locker
    BY <1>0, <1>8 DEF Drop, Release, RunTypes, Run
  <2>2. /\ \A u \in Tick \ {t} : run'[u] = run[u]
        /\ run'[t].at = "done"
    BY <1>0, <1>8, OneRun DEF Drop, Release
  <2>3. InUse(p)' \subseteq InUse(p) \ {t}
    BY <2>1, <2>2 DEF InUse
  <2>4. CASE locker # "postgres"
    BY <1>2, <1>8, <2>3, <2>4 DEF Drop, Release
  <2>5. CASE locker = "postgres"
    <3>1. PICK h \in SUBSET Key : Put(m, h)
      BY <1>8, <2>1, <2>5 DEF Drop, Release
    <3>2. CASE p # m
      <4>1. idle'[p] = idle[p] /\ open'[p] = open[p]
        BY <1>0, <2>1, <3>1, <3>2 DEF Put, PoolTypes
      <4>2. Cardinality(InUse(p)') <= Cardinality(InUse(p)) /\ Cardinality(InUse(p)') \in Nat
        BY <2>3, InUseMoves
      <4> QED BY <1>0, <1>1, <4>1, <4>2 DEF Within
    <3>3. CASE p = m
      <4>1. t \in InUse(p)
        BY <2>1, <2>5, <3>3 DEF InUse
      <4>2. Cardinality(InUse(p)') <= Cardinality(InUse(p)) - 1 /\ Cardinality(InUse(p)') \in Nat
        BY <2>3, <4>1, InUseMoves
      <4>3. \/ Len(idle'[p]) = Len(idle[p]) /\ open'[p] = open[p] - 1
            \/ Len(idle'[p]) = Len(idle[p]) + 1 /\ open'[p] = open[p]
        <5>1. CASE idle' = idle /\ open' = [open EXCEPT ![m] = @ - 1]
          BY <1>0, <3>3, <5>1 DEF PoolTypes
        <5>2. CASE /\ open' = open
                   /\ \E r \in Seq(SUBSET Key) :
                        idle' = [idle EXCEPT ![m] = r] /\ Len(r) = Len(idle[m]) + 1
          BY <1>0, <3>3, <5>2 DEF PoolTypes
        <5>3. \/ idle' = idle /\ open' = [open EXCEPT ![m] = @ - 1]
              \/ /\ open' = open
                 /\ \E r \in Seq(SUBSET Key) :
                      idle' = [idle EXCEPT ![m] = r] /\ Len(r) = Len(idle[m]) + 1
          BY <1>0, <2>1, <3>1, Puts
        <5> QED BY <5>1, <5>2, <5>3
      <4>4. Len(idle[p]) \in Nat
        BY <1>0
      <4> QED BY <1>0, <1>1, <4>2, <4>3, <4>4, SMTT(30) DEF Within
    <3> QED BY <3>2, <3>3
  <2> QED BY <2>4, <2>5
<1>9. ASSUME NEW k \in Key, RemoveKey(k) PROVE Within(p)'
  <2>1. InUse(p)' \subseteq InUse(p)
    BY <1>9 DEF InUse, RemoveKey
  <2> QED BY <1>2, <1>9, <2>1 DEF RemoveKey
<1>10. ASSUME NEW m \in Process, Die(m) PROVE Within(p)'
  <2>1. \A u \in Tick : run'[u] = IF run[u].by = m THEN Done ELSE run[u]
    BY <1>10 DEF Die
  <2>2. InUse(p)' \subseteq InUse(p) /\ (p = m => InUse(p)' = {})
    BY <1>10, <2>1, DoneRun DEF InUse, Die
  <2>3. Cardinality(InUse(p)') <= Cardinality(InUse(p)) /\ Cardinality(InUse(p)') \in Nat
    BY <2>2, InUseMoves
  <2>4. CASE p = m
    <3>1. Cardinality(InUse(p)') = 0
      BY <2>2, <2>4, FS_EmptySet
    <3>2. idle'[p] = <<>> /\ open'[p] = 0
      BY <1>0, <1>10, <2>4 DEF Die, PoolTypes
    <3> QED BY <3>1, <3>2, TriggerAssumption DEF Within
  <2>5. CASE p # m
    <3>1. idle'[p] = idle[p] /\ open'[p] = open[p]
      BY <1>0, <1>10, <2>5 DEF Die, PoolTypes
    <3> QED BY <1>0, <1>1, <2>3, <3>1 DEF Within
  <2> QED BY <2>4, <2>5
<1>11. CASE UNCHANGED tvars
  <2>1. InUse(p)' \subseteq InUse(p)
    BY <1>11 DEF InUse, tvars
  <2> QED BY <1>2, <1>11, <2>1 DEF tvars
<1> QED BY <1>3, <1>4, <1>5, <1>6, <1>7, <1>8, <1>9, <1>10, <1>11 DEF TriggerNext, Runs

----------------------------------------------------------------------------
(* The theorems.                                                           *)

Pools == \A p \in Process : Within(p)

\* Nobody has a lock, and no connection is open.
LEMMA TriggerInit0 == TriggerInit => Types /\ InMap /\ OneSession /\ Pools
<1> SUFFICES ASSUME TriggerInit PROVE Types /\ InMap /\ OneSession /\ Pools
  OBVIOUS
<1>1. Due \in Run
  BY DEF Due, Run, At
<1>2. Types
  BY <1>1 DEF TriggerInit, Types, RunTypes, PoolTypes, Due
<1>3. InMap /\ OneSession
  BY DEF TriggerInit, InMap, HoldersExclude, Holds, OneSession, HasConn, Due
<1>4. ASSUME NEW p \in Process PROVE Within(p)
  <2>1. InUse(p) = {}
    BY DEF TriggerInit, InUse, HasConn, Holds, Due
  <2>2. idle[p] = <<>> /\ open[p] = 0
    BY DEF TriggerInit
  <2> QED BY <2>1, <2>2, FS_EmptySet, TriggerAssumption DEF Within
<1> QED BY <1>2, <1>3, <1>4 DEF Pools

\* The types and the limit hold in every reachable state.
LEMMA AlwaysPools == TriggerSpec => [](Types /\ Pools)
<1>1. (Types /\ Pools) /\ [TriggerNext]_tvars => (Types /\ Pools)'
  BY TypesStep, PoolStep DEF Pools
<1> QED BY <1>1, TriggerInit0, PTL DEF TriggerSpec

\* trigger_scheduled_job and the lockers keep the types; the count of a pool never
\* goes below zero, as connections that expire are counted out once.
THEOREM TriggerTypeTheorem == TriggerSpec => []TriggerTypeOK
<1>1. Types /\ Pools => TriggerTypeOK
  <2> SUFFICES ASSUME Types, Pools PROVE TriggerTypeOK
    OBVIOUS
  <2>1. ASSUME NEW p \in Process PROVE open[p] \in Nat
    <3>1. Cardinality(InUse(p)) \in Nat /\ open[p] \in Int /\ Len(idle[p]) \in Nat
      BY InUseFinite DEF Types, PoolTypes
    <3> QED BY <3>1 DEF Pools, Within
  <2>2. open \in [Process -> Nat]
    BY <2>1 DEF Types, PoolTypes
  <2>3. \A m \in Process : \A i \in DOMAIN idle[m] : idle[m][i] \subseteq Key
    BY DEF Types, PoolTypes
  <2> QED BY <2>2, <2>3 DEF Types, RunTypes, Run, TriggerTypeOK
<1> QED BY <1>1, AlwaysPools, PTL

\* SyncPostgresPool: the connections a process has, idle ones and those of its
\* runs, are covered by open_count, and that stays within max_open_conns.
THEOREM PoolWithinLimitTheorem == TriggerSpec => []PoolWithinLimit
<1>1. Pools => PoolWithinLimit
  BY DEF Pools, Within, PoolWithinLimit
<1> QED BY <1>1, AlwaysPools, PTL

\* acquire_lock excludes, with either locker, as the cron closure uses it: a lock
\* in memory is dropped, and release_lock not called (see Release).
THEOREM HoldersExcludeTheorem ==
  ASSUME "memory" \notin Explicit
  PROVE  TriggerSpec => []HoldersExclude
<1> DEFINE Inv == Types /\ InMap /\ OneSession
<1>1. Inv /\ [TriggerNext]_tvars => Inv'
  BY TypesStep, InMapStep, OneSessionStep
<1>2. Inv => HoldersExclude
  <2> SUFFICES ASSUME Inv, locker = "postgres",
                      NEW t \in Tick, NEW u \in Tick, t # u, Holds(t), Holds(u)
               PROVE  run[t].key # run[u].key
    BY DEF InMap, HoldersExclude, Types
  <2>1. run[t].key \in Key /\ run[u].key \in Key
    BY DEF Types, RunTypes, Holds
  <2> QED BY <2>1 DEF OneSession, HasConn
<1>3. TriggerInit => Inv
  BY TriggerInit0
<1> QED BY <1>1, <1>2, <1>3, PTL DEF TriggerSpec
=============================================================================
