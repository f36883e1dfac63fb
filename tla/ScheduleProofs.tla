--------------------------- MODULE ScheduleProofs ---------------------------
(***************************************************************************)
(* A scheduled job that PostgreSQL deleted stays deleted, and calls that   *)
(* followed one another leave every coordinator with the entries the row   *)
(* asks for, for any finite number of coordinators and clients and any     *)
(* number of calls, starts and refusals.                                   *)
(*                                                                         *)
(* The argument: what was announced last to a coordinator, be it handled   *)
(* or still queued, is what the row says, but between the write of a call  *)
(* and its event, when it is the opposite; the events of a queue           *)
(* alternate, and the first one changes what the coordinator fires.        *)
(***************************************************************************)
EXTENDS Schedule, FiniteSetTheorems, TLAPS

----------------------------------------------------------------------------
(* The inductive invariants.                                               *)

Queues == events \in [Coordinator -> Seq(RowState)]

\* A coordinator that is down has nothing; the entry the map names is not one on its
\* way into the map.
Shapes ==
  /\ adding \in [Coordinator -> SUBSET Entry]
  /\ \A c \in Coordinator :
       /\ known[c] \notin adding[c]
       /\ phase[c] = "down" =>
            events[c] = <<>> /\ entries[c] = {} /\ known[c] = 0 /\ adding[c] = {}

Inside == {u \in Caller : InCall(u)}

\* There is an entry left for every event: each stems from a call of its own.
Enough ==
  /\ calls \in 0 .. MaxCalls
  /\ Cardinality(Inside) <= calls
  /\ \A c \in Coordinator :
       Cardinality(entries[c]) + Len(events[c]) + Cardinality(Inside) <= calls + 1

\* Where a call is says which one it is.
Calling ==
  \A u \in Caller :
    /\ call[u].at \in {"update", "insert"} => call[u].op \in {"pause", "resume"}
    /\ call[u].at = "reread" => call[u].op \in {"create", "pause", "resume"}
    /\ call[u].at \in {"publish", "delete"} => call[u].seen \in RowState
    /\ call[u].at = "insert" => deployment = "memory"

SafeTypes == ScheduleTypeOK /\ Queues /\ Shapes /\ Enough /\ Calling

\* What the entries of a coordinator amount to, what it was told last, and what the
\* row asks for.
Fires(c)  == IF entries[c] = {} THEN "Paused" ELSE "Active"
Told(c)   == IF events[c] = <<>> THEN Fires(c) ELSE events[c][Len(events[c])]
Asked     == IF row = "Active" THEN "Active" ELSE "Paused"

\* One entry at most, which the map names or is about to; events that alternate.
InTurn(c) ==
  /\ entries[c] = {} \/ (known[c] # 0 /\ entries[c] = {known[c]} /\ adding[c] = {})
                     \/ (known[c] = 0 /\ \E e \in Entry : entries[c] = {e} /\ adding[c] = {e})
  /\ events[c] # <<>> => events[c][1] # Fires(c)
  /\ \A i \in DOMAIN events[c] : i > 1 => events[c][i] # events[c][i - 1]
  /\ deployment = "memory" => Len(events[c]) <= 1 /\ (events[c] # <<>> => adding[c] = {})

\* The one call under way, and what the coordinators were told before it writes and
\* before it publishes.
OneCall(u) ==
  /\ \A v \in Caller : InCall(v) => v = u
  /\ \A c \in Coordinator :
       phase[c] # "loaded" /\ (deployment = "memory" => events[c] = <<>> /\ adding[c] = {})
  /\ call[u].at \in {"update", "insert"} => row = (IF call[u].op = "pause" THEN "Active" ELSE "Paused")
  /\ call[u].at = "delete" => row = call[u].seen
  /\ call[u].at = "reread" => row = Target(call[u].op)
  /\ call[u].at = "publish" => call[u].seen = Asked
  /\ \A c \in Coordinator : phase[c] # "down" =>
       (Told(c) = Asked <=> call[u].at \in {"update", "insert", "delete"})

Tells ==
  tidy =>
    /\ \A c \in Coordinator : InTurn(c)
    /\ \A u \in Caller : InCall(u) => OneCall(u)
    /\ Inside = {} => \A c \in Coordinator : phase[c] # "down" => Told(c) = Asked

ScheduleInv == SafeTypes /\ Tells

----------------------------------------------------------------------------
(* The queues and the entries.                                             *)

\* An event taken out of a queue; out of its head, the others move up.
LEMMA Dequeue ==
  ASSUME NEW q \in Seq(RowState), NEW i \in DOMAIN q
  PROVE  /\ Without(q, i) \in Seq(RowState)
         /\ Len(Without(q, i)) = Len(q) - 1
         /\ i = 1 => \A j \in DOMAIN Without(q, i) :
                       j + 1 \in DOMAIN q /\ Without(q, i)[j] = q[j + 1]
<1> DEFINE a == SubSeq(q, 1, i - 1)
           b == SubSeq(q, i + 1, Len(q))
<1>1. a \in Seq(RowState) /\ Len(a) = i - 1
  OBVIOUS
<1>2. b \in Seq(RowState) /\ Len(b) = Len(q) - i /\ \A j \in DOMAIN b : b[j] = q[i + j]
  OBVIOUS
<1>3. i \in 1 .. Len(q) /\ Without(q, i) = a \o b
  BY DEF Without
<1> HIDE DEF a, b
<1>4. /\ a \o b \in Seq(RowState) /\ Len(a \o b) = Len(q) - 1
      /\ DOMAIN (a \o b) = 1 .. Len(q) - 1
      /\ \A j \in 1 .. Len(q) - 1 : (a \o b)[j] = IF j < i THEN a[j] ELSE b[j - i + 1]
  BY <1>1, <1>2, <1>3, SMTT(30)
<1>5. i = 1 => \A j \in DOMAIN (a \o b) : j + 1 \in DOMAIN q /\ (a \o b)[j] = q[j + 1]
  <2> SUFFICES ASSUME i = 1, NEW j \in 1 .. Len(q) - 1 PROVE (a \o b)[j] = q[j + 1]
    BY <1>4
  <2>1. (a \o b)[j] = b[j] /\ j \in DOMAIN b
    BY <1>2, <1>4
  <2> QED BY <2>1, <1>2
<1> QED BY <1>3, <1>4, <1>5

\* A set of naturals that is not empty has a least element.
LEMMA Least ==
  ASSUME NEW S \in SUBSET Nat, S # {}
  PROVE  \E e \in S : \A f \in S : e <= f
<1> DEFINE below == {0 .. e : e \in S}
<1>1. below \subseteq FiniteSubsetsOf(Nat) /\ below # {}
  <2>1. ASSUME NEW e \in S PROVE 0 .. e \in SUBSET Nat /\ IsFiniteSet(0 .. e)
    BY FS_Interval
  <2> QED BY <2>1 DEF FiniteSubsetsOf
<1>2. IsWellFoundedOn(StrictSubsetOrdering(Nat), FiniteSubsetsOf(Nat))
  BY FS_StrictSubsetOrderingWellFounded
<1>3. \E x \in below : \A y \in below : <<y, x>> \notin StrictSubsetOrdering(Nat)
  BY <1>1, <1>2, WFMin, Zenon
<1>4. PICK e \in S : \A f \in S : <<0 .. f, 0 .. e>> \notin StrictSubsetOrdering(Nat)
  BY <1>3
<1>5. ASSUME NEW f \in S, f < e PROVE FALSE
  <2>1. 0 .. f \subseteq 0 .. e /\ e \in 0 .. e /\ e \notin 0 .. f
    BY <1>5
  <2>2. 0 .. f \in SUBSET Nat /\ 0 .. e \in SUBSET Nat /\ 0 .. f # 0 .. e
    BY <2>1
  <2>3. <<0 .. f, 0 .. e>> \in StrictSubsetOrdering(Nat)
    BY <2>1, <2>2 DEF StrictSubsetOrdering
  <2> QED BY <1>4, <2>3
<1> QED BY <1>5

\* A coordinator with an event to handle has an entry to give it.
LEMMA Spare ==
  ASSUME SafeTypes, NEW c \in Coordinator, events[c] # <<>>
  PROVE  Fresh(c) \in Entry /\ Fresh(c) \notin entries[c] /\ Fresh(c) # known[c]
<1> DEFINE S == Entry \ (entries[c] \cup {known[c]})
<1>1. /\ entries[c] \subseteq Entry /\ known[c] \in entries[c] \cup {0}
      /\ Len(events[c]) \in Nat \ {0} /\ MaxCalls \in Nat /\ MaxStarts \in Nat
  BY ScheduleAssumption DEF SafeTypes, ScheduleTypeOK, Queues
<1>2. IsFiniteSet(Entry) /\ Cardinality(Entry) = 2 * MaxCalls + MaxStarts + 1
  BY <1>1, FS_Interval DEF Entry
<1>3. IsFiniteSet(entries[c]) /\ Cardinality(entries[c]) \in Nat
  BY <1>1, <1>2, FS_Subset, FS_CardinalityType
<1>4. IsFiniteSet(Inside) /\ Cardinality(Inside) \in Nat
  BY ScheduleAssumption, FS_Subset, FS_CardinalityType DEF Inside
<1>5. Cardinality(entries[c]) <= MaxCalls
  BY <1>1, <1>3, <1>4 DEF SafeTypes, Enough
<1>6. S # {}
  <2> SUFFICES ASSUME S = {} PROVE FALSE
    OBVIOUS
  <2>1. Entry \subseteq entries[c]
    BY <1>1 DEF Entry
  <2>2. Cardinality(Entry) <= Cardinality(entries[c])
    BY <2>1, <1>3, FS_Subset
  <2> QED BY <2>2, <1>1, <1>2, <1>3, <1>5
<1>7. S \subseteq Nat
  BY DEF Entry
<1>8. \E e \in S : \A f \in S : e <= f
  BY <1>6, <1>7, Least
<1>9. Fresh(c) \in S
  BY <1>8 DEF Fresh
<1> QED BY <1>9

\* A handler takes up one event; of RabbitMQ's queue the first, once no entry is on
\* its way into the map.
LEMMA Taking ==
  ASSUME NEW c \in Coordinator, NEW i \in Deliverable(c)
  PROVE  i \in DOMAIN events[c] /\ (deployment = "distributed" => i = 1 /\ adding[c] = {})
BY DEF Deliverable

CallRecord == [op : {"none", "create", "pause", "resume", "delete"},
               at : {"idle", "update", "insert", "delete", "reread", "publish"},
               seen : RowState \cup {"none", "unborn"},
               server : Coordinator \cup {"none"}]

\* What a step of a call does to its record.
LEMMA StepRecord ==
  ASSUME ScheduleTypeOK, NEW u \in Caller,
         NEW at \in {"update", "insert", "delete", "reread", "publish"}, Step(u, at)
  PROVE  \E r \in CallRecord :
           /\ call' = [call EXCEPT ![u] = r]
           /\ r.at = at /\ r.op = call[u].op /\ r.seen = call[u].seen
<1> DEFINE r == [call[u] EXCEPT !.at = at]
<1>1. call' = [call EXCEPT ![u] = r]
  BY DEF Step
<1>2. r \in CallRecord /\ r.at = at /\ r.op = call[u].op /\ r.seen = call[u].seen
  BY DEF ScheduleTypeOK, CallRecord
<1> QED BY <1>1, <1>2

\* The call takes a copy of the row and goes on to publish it.
Copies(u, s) == call' = [call EXCEPT ![u].seen = s, ![u].at = "publish"]

LEMMA SeenRecord ==
  ASSUME ScheduleTypeOK, NEW u \in Caller, NEW s \in RowState, Copies(u, s)
  PROVE  \E r \in CallRecord :
           /\ call' = [call EXCEPT ![u] = r]
           /\ r.at = "publish" /\ r.op = call[u].op /\ r.seen = s
<1> DEFINE r == [call[u] EXCEPT !.seen = s, !.at = "publish"]
<1>1. call' = [call EXCEPT ![u] = r]
  BY DEF ScheduleTypeOK, Copies
<1>2. r \in CallRecord /\ r.at = "publish" /\ r.op = call[u].op /\ r.seen = s
  BY DEF ScheduleTypeOK, CallRecord
<1> QED BY <1>1, <1>2

----------------------------------------------------------------------------
(* The types.                                                              *)

\* The cron entries of one coordinator.
EntryTypes ==
  /\ entries \in [Coordinator -> SUBSET Entry]
  /\ known \in [Coordinator -> Entry \cup {0}]
  /\ \A c \in Coordinator : adding[c] \subseteq entries[c] /\ known[c] \in entries[c] \cup {0}
  /\ Shapes

CallTypes == call \in [Caller -> CallRecord]

LEMMA TypeParts ==
  ScheduleTypeOK /\ Queues /\ Shapes <=>
    /\ EntryTypes /\ Queues /\ CallTypes
    /\ deployment \in {"memory", "distributed"}
    /\ row \in RowState \cup {"unborn", "deleted"}
    /\ phase \in [Coordinator -> {"down", "loaded", "up"}]
    /\ tidy \in BOOLEAN
BY DEF ScheduleTypeOK, EntryTypes, Queues, CallTypes, CallRecord

\* Every step keeps the types.
LEMMA TypesStep == SafeTypes /\ [ScheduleNext]_svars => (ScheduleTypeOK /\ Queues /\ Shapes)'
<1> SUFFICES ASSUME SafeTypes, [ScheduleNext]_svars PROVE (ScheduleTypeOK /\ Queues /\ Shapes)'
  OBVIOUS
<1> DEFINE Good == /\ EntryTypes /\ Queues /\ CallTypes
                   /\ deployment \in {"memory", "distributed"}
                   /\ row \in RowState \cup {"unborn", "deleted"}
                   /\ phase \in [Coordinator -> {"down", "loaded", "up"}]
                   /\ tidy \in BOOLEAN
<1>0. Good /\ ScheduleTypeOK /\ Calling
  BY TypeParts DEF SafeTypes
<1> SUFFICES Good'
  BY TypeParts, PTL
<1>a. UNCHANGED <<entries, known, adding, events, phase>> => (EntryTypes /\ Queues)'
  BY <1>0 DEF EntryTypes, Shapes, Queues
<1>b. UNCHANGED call => CallTypes'
  BY <1>0 DEF CallTypes
<1>1. ASSUME NEW u \in Caller, CallStep(u) PROVE Good'
  <2>1. CallTypes'
    <3>1. Idle \in CallRecord
      BY DEF Idle, CallRecord
    <3>2. Ends(u) => CallTypes'
      BY <1>0, <3>1 DEF CallTypes, Ends
    <3>3. ASSUME NEW at \in {"update", "insert", "delete", "reread", "publish"}, Step(u, at)
          PROVE  CallTypes'
      <4>1. PICK r \in CallRecord : call' = [call EXCEPT ![u] = r]
        BY <1>0, <3>3, StepRecord
      <4> QED BY <1>0, <4>1 DEF CallTypes
    <3>4. ASSUME NEW s \in RowState, Copies(u, s)
          PROVE  CallTypes'
      <4>1. PICK r \in CallRecord : call' = [call EXCEPT ![u] = r]
        BY <1>0, <3>4, SeenRecord
      <4> QED BY <1>0, <4>1 DEF CallTypes
    <3>5. Exists => row \in RowState
      BY DEF Exists
    <3>6. CASE Delete(u)
      BY <3>2, <3>4, <3>6, Zenon DEF Delete, Copies, RowState
    <3>7. CASE Reread(u)
      BY <3>2, <3>4, <3>5, <3>7, Zenon DEF Reread, Copies
    <3> QED BY <1>1, <3>2, <3>3, <3>6, <3>7 DEF CallStep, Update, Insert, Publish
  <2>2. (EntryTypes /\ Queues)'
    <3>1. CASE Publish(u)
      <4>1. call[u].seen \in RowState
        BY <1>0, <3>1 DEF Publish, Calling
      <4>2. Queues'
        BY <1>0, <3>1, <4>1 DEF Publish, Queues
      <4>3. EntryTypes'
        BY <1>0, <3>1 DEF Publish, EntryTypes, Shapes
      <4> QED BY <4>2, <4>3
    <3> QED BY <1>1, <1>a, <3>1 DEF CallStep, Update, Insert, Delete, Reread, Stays
  <2>3. row' \in RowState \cup {"unborn", "deleted"}
    BY <1>0, <1>1 DEF CallStep, Update, Insert, Delete, Reread, Publish, Target, RowState
  <2> QED BY <1>0, <1>1, <2>1, <2>2, <2>3
       DEF CallStep, Update, Insert, Delete, Reread, Publish, Stays
<1>2. ASSUME NEW u \in Caller, NEW op \in {"create", "pause", "resume", "delete"},
             NEW c \in Coordinator, Begin(u, op, c)
      PROVE  Good'
  <2> DEFINE r == [op |-> op, seen |-> row, server |-> c,
        at |-> CASE op = "create" -> "reread" [] op = "delete" -> "delete" [] OTHER -> "update"]
  <2>1. row \in RowState \cup {"unborn"}
    BY <1>2 DEF Begin, Admits, Exists, RowState
  <2>2. r \in CallRecord
    BY <2>1 DEF CallRecord, RowState
  <2>3. call' = [call EXCEPT ![u] = r]
    BY <1>2 DEF Begin
  <2>4. CallTypes'
    BY <1>0, <2>2, <2>3 DEF CallTypes
  <2>5. row' \in RowState \cup {"unborn", "deleted"} /\ tidy' \in BOOLEAN
    BY <1>0, <1>2 DEF Begin, RowState
  <2> QED BY <1>0, <1>2, <1>a, <2>4, <2>5 DEF Begin
<1>3. ASSUME NEW c \in Coordinator, Subscribe(c) PROVE Good'
  BY <1>0, <1>3, <1>b DEF Subscribe, EntryTypes, Shapes, Queues
<1>4. ASSUME NEW c \in Coordinator, NEW i \in DOMAIN events[c], Activate(c, i) PROVE Good'
  <2>1. events[c] # <<>> /\ Without(events[c], i) \in Seq(RowState)
    BY <1>0, Dequeue DEF Queues
  <2>2. Fresh(c) \in Entry /\ Fresh(c) \notin entries[c] /\ Fresh(c) # known[c]
    BY <2>1, Spare
  <2>3. Queues'
    BY <1>0, <1>4, <2>1 DEF Activate, Queues
  <2>4. phase[c] # "down"
    BY <1>0, <2>1 DEF EntryTypes, Shapes
  <2>5. EntryTypes'
    BY <1>0, <1>4, <2>2, <2>4 DEF Activate, EntryTypes, Shapes
  <2> QED BY <1>0, <1>4, <1>b, <2>3, <2>5 DEF Activate
<1>5. ASSUME NEW c \in Coordinator, NEW e \in adding[c], Remember(c, e) PROVE Good'
  <2>1. phase[c] # "down" /\ e \in Entry /\ e \in entries[c]
    BY <1>0 DEF EntryTypes, Shapes
  <2>2. EntryTypes'
    <3>1. /\ entries' = entries /\ known' = [known EXCEPT ![c] = e]
          /\ adding' = [adding EXCEPT ![c] = adding[c] \ {e}]
          /\ known' \in [Coordinator -> Entry \cup {0}]
          /\ adding' \in [Coordinator -> SUBSET Entry]
      BY <1>0, <1>5, <2>1 DEF Remember, EntryTypes, Shapes
    <3> QED BY <1>0, <1>5, <2>1, <3>1 DEF Remember, EntryTypes, Shapes
  <2> QED BY <1>0, <1>5, <1>b, <2>2 DEF Remember, Queues
<1>6. ASSUME NEW c \in Coordinator, NEW i \in DOMAIN events[c], Pause(c, i) PROVE Good'
  <2>1. events[c] # <<>> /\ Without(events[c], i) \in Seq(RowState)
    BY <1>0, Dequeue DEF Queues
  <2>2. Queues'
    BY <1>0, <1>6, <2>1 DEF Pause, Queues
  <2>3. phase[c] # "down"
    BY <1>0, <2>1 DEF EntryTypes, Shapes
  <2>4. EntryTypes'
    <3>1. /\ entries' = [entries EXCEPT ![c] = entries[c] \ {known[c]}]
          /\ known' = [known EXCEPT ![c] = 0] /\ adding' = adding
          /\ entries' \in [Coordinator -> SUBSET Entry]
          /\ known' \in [Coordinator -> Entry \cup {0}]
      BY <1>0, <1>6 DEF Pause, EntryTypes
    <3>2. 0 \notin Entry /\ events' \in [Coordinator -> Seq(RowState)] /\ phase' = phase
      BY <1>6, <2>2 DEF Entry, Queues, Pause
    <3>3. ASSUME NEW d \in Coordinator
          PROVE  /\ adding'[d] \subseteq entries'[d] /\ known'[d] \in entries'[d] \cup {0}
                 /\ known'[d] \notin adding'[d]
      BY <1>0, <3>1, <3>2 DEF EntryTypes, Shapes
    <3>4. ASSUME NEW d \in Coordinator, phase'[d] = "down"
          PROVE  events'[d] = <<>> /\ entries'[d] = {} /\ known'[d] = 0 /\ adding'[d] = {}
      BY <1>0, <1>6, <2>3, <3>1, <3>2, <3>4 DEF Pause, EntryTypes, Shapes
    <3> QED BY <1>0, <3>1, <3>3, <3>4 DEF EntryTypes, Shapes
  <2> QED BY <1>0, <1>6, <1>b, <2>2, <2>4 DEF Pause
<1>7. ASSUME NEW c \in Coordinator, NEW i \in DOMAIN events[c],
             PauseRefused(c, i) \/ PauseUnknown(c, i)
      PROVE  Good'
  <2>1. events[c] # <<>> /\ Without(events[c], i) \in Seq(RowState)
    BY <1>0, Dequeue DEF Queues
  <2>2. Queues'
    BY <1>0, <1>7, <2>1 DEF PauseRefused, PauseUnknown, Queues
  <2>3. phase[c] # "down"
    BY <1>0, <2>1 DEF EntryTypes, Shapes
  <2>4. EntryTypes'
    <3>1. /\ entries' = entries /\ adding' = adding /\ phase' = phase
          /\ known' = known \/ known' = [known EXCEPT ![c] = 0]
          /\ known' \in [Coordinator -> Entry \cup {0}]
      BY <1>0, <1>7 DEF PauseRefused, PauseUnknown, EntryTypes
    <3>2. events' = events \/ events' = [events EXCEPT ![c] = Without(@, i)]
      BY <1>7 DEF PauseRefused, PauseUnknown
    <3>3. 0 \notin Entry
      BY DEF Entry
    <3>4. ASSUME NEW d \in Coordinator
          PROVE  /\ adding'[d] \subseteq entries'[d] /\ known'[d] \in entries'[d] \cup {0}
                 /\ known'[d] \notin adding'[d]
      BY <1>0, <3>1, <3>3 DEF EntryTypes, Shapes
    <3>5. ASSUME NEW d \in Coordinator, phase'[d] = "down"
          PROVE  events'[d] = <<>> /\ entries'[d] = {} /\ known'[d] = 0 /\ adding'[d] = {}
      <4>1. d # c /\ events'[d] = events[d] /\ known'[d] = known[d]
        BY <1>0, <2>3, <3>1, <3>2, <3>5 DEF EntryTypes, Queues
      <4> QED BY <1>0, <3>1, <3>5, <4>1 DEF EntryTypes, Shapes
    <3>6. entries' \in [Coordinator -> SUBSET Entry] /\ adding' \in [Coordinator -> SUBSET Entry]
      BY <1>0, <3>1 DEF EntryTypes, Shapes
    <3> QED BY <3>1, <3>4, <3>5, <3>6 DEF EntryTypes, Shapes
  <2> QED BY <1>0, <1>7, <1>b, <2>2, <2>4 DEF PauseRefused, PauseUnknown
<1>8. ASSUME NEW c \in Coordinator, Start(c) PROVE Good'
  <2>1. 1 \in Entry /\ 0 \notin Entry
    BY ScheduleAssumption DEF Entry
  <2>2. EntryTypes'
    BY <1>0, <1>8, <2>1 DEF Start, EntryTypes, Shapes
  <2>3. tidy' \in BOOLEAN /\ phase' \in [Coordinator -> {"down", "loaded", "up"}]
    BY <1>0, <1>8 DEF Start
  <2> QED BY <1>0, <1>8, <1>b, <2>2, <2>3 DEF Start, Queues
<1>9. ASSUME NEW c \in Coordinator, Crash(c) PROVE Good'
  <2>1. EntryTypes'
    <3>1. /\ entries' \in [Coordinator -> SUBSET Entry] /\ adding' \in [Coordinator -> SUBSET Entry]
          /\ known' \in [Coordinator -> Entry \cup {0}]
      BY <1>0, <1>9 DEF Crash, EntryTypes, Shapes
    <3>2. ASSUME NEW d \in Coordinator
          PROVE  \/ /\ phase'[d] = phase[d] /\ events'[d] = events[d] /\ entries'[d] = entries[d]
                    /\ known'[d] = known[d] /\ adding'[d] = adding[d]
                 \/ events'[d] = <<>> /\ entries'[d] = {} /\ known'[d] = 0 /\ adding'[d] = {}
      BY <1>0, <1>9 DEF Crash, EntryTypes, Shapes, Queues
    <3>3. 0 \notin Entry
      BY DEF Entry
    <3> QED BY <1>0, <3>1, <3>2, <3>3 DEF EntryTypes, Shapes
  <2>2. Queues'
    BY <1>0, <1>9 DEF Crash, Queues
  <2>3. Idle \in CallRecord
    BY DEF Idle, CallRecord
  <2>4. CallTypes'
    BY <1>0, <1>9, <2>3 DEF Crash, CallTypes
  <2>5. tidy' \in BOOLEAN /\ phase' \in [Coordinator -> {"down", "loaded", "up"}]
    BY <1>0, <1>9 DEF Crash
  <2> QED BY <1>0, <1>9, <2>1, <2>2, <2>4, <2>5 DEF Crash
<1>10. CASE UNCHANGED svars
  BY <1>0, <1>10, <1>a, <1>b DEF svars
<1> QED
  BY <1>1, <1>2, <1>3, <1>4, <1>5, <1>6, <1>7, <1>8, <1>9, <1>10 DEF ScheduleNext, Handler


----------------------------------------------------------------------------
(* The calls, and how many entries they can lead to.                       *)

\* A step of a call leaves the other calls alone: it goes on to another place, or ends.
LEMMA OneCallMoves ==
  ASSUME SafeTypes, NEW u \in Caller, CallStep(u)
  PROVE  /\ InCall(u)
         /\ \E r \in CallRecord :
              /\ call' = [call EXCEPT ![u] = r]
              /\ \/ r = Idle /\ (Update(u) \/ Delete(u) \/ Reread(u) \/ Publish(u))
                 \/ /\ r.op = call[u].op /\ r.at # "idle"
                    /\ \/ Update(u) /\ r.at \in {"reread", "insert"} /\ r.seen = call[u].seen
                          /\ (r.at = "insert" => deployment = "memory")
                          /\ (r.at = "reread" => row' = Target(call[u].op))
                          /\ (r.at = "insert" => row' = row)
                       \/ Insert(u) /\ r.at = "reread" /\ row' = Target(call[u].op)
                       \/ Delete(u) /\ r.at = "publish" /\ r.seen = "Paused" /\ row' = "deleted"
                            /\ call[u].seen = "Active"
                       \/ Reread(u) /\ r.at = "publish" /\ r.seen = row /\ Exists /\ row' = row
<1>1. /\ call \in [Caller -> CallRecord] /\ Idle \in CallRecord /\ Idle.at = "idle"
      /\ ScheduleTypeOK /\ deployment \in {"memory", "distributed"}
  BY DEF SafeTypes, ScheduleTypeOK, CallRecord, Idle
<1>2. Ends(u) <=> call' = [call EXCEPT ![u] = Idle]
  BY DEF Ends
<1>3. ASSUME NEW at \in {"reread", "insert"}, Step(u, at)
      PROVE  \E r \in CallRecord :
               /\ call' = [call EXCEPT ![u] = r]
               /\ r.at = at /\ r.op = call[u].op /\ r.seen = call[u].seen
  BY <1>1, <1>3, StepRecord
<1>4. ASSUME NEW s \in RowState, Copies(u, s)
      PROVE  \E r \in CallRecord :
               /\ call' = [call EXCEPT ![u] = r]
               /\ r.at = "publish" /\ r.op = call[u].op /\ r.seen = s
  BY <1>1, <1>4, SeenRecord
<1>5. CASE Update(u)
  <2>1. InCall(u)
    BY <1>5 DEF Update, InCall
  <2>2. CASE Ends(u)
    BY <1>1, <1>2, <1>5, <2>1, <2>2
  <2>3. CASE row' = Target(call[u].op) /\ Step(u, "reread")
    BY <1>3, <1>5, <2>1, <2>3
  <2>4. CASE ~Locked /\ row' = row /\ Step(u, "insert")
    BY <1>1, <1>3, <1>5, <2>1, <2>4 DEF Locked
  <2> QED BY <1>5, <2>2, <2>3, <2>4 DEF Update
<1>6. CASE Insert(u)
  BY <1>3, <1>6 DEF Insert, InCall
<1>7. CASE Delete(u)
  <2>1. InCall(u) /\ row' = "deleted"
    BY <1>7 DEF Delete, InCall
  <2>2. CASE Ends(u)
    BY <1>1, <1>2, <1>7, <2>1, <2>2
  <2>3. CASE Copies(u, "Paused") /\ call[u].seen = "Active"
    BY <1>4, <1>7, <2>1, <2>3 DEF RowState
  <2>4. Ends(u) \/ (Copies(u, "Paused") /\ call[u].seen = "Active")
    BY <1>7, Zenon DEF Delete, Copies
  <2> QED BY <2>2, <2>3, <2>4
<1>8. CASE Reread(u)
  <2>1. InCall(u) /\ row' = row
    BY <1>8 DEF Reread, InCall
  <2>2. CASE Ends(u)
    BY <1>1, <1>2, <1>8, <2>1, <2>2
  <2>3. CASE Copies(u, row) /\ Exists
    BY <1>4, <1>8, <2>1, <2>3 DEF Exists
  <2>4. Ends(u) \/ (Copies(u, row) /\ Exists)
    BY <1>8, Zenon DEF Reread, Copies
  <2> QED BY <2>2, <2>3, <2>4
<1>9. CASE Publish(u)
  BY <1>1, <1>2, <1>9 DEF Publish, InCall
<1> QED BY <1>5, <1>6, <1>7, <1>8, <1>9 DEF CallStep

\* The record of a call that begins.
LEMMA OneCallBegins ==
  ASSUME SafeTypes, NEW u \in Caller, NEW op \in {"create", "pause", "resume", "delete"},
         NEW c \in Coordinator, Begin(u, op, c)
  PROVE  \E r \in CallRecord :
           /\ call' = [call EXCEPT ![u] = r]
           /\ r.op = op /\ r.seen = row
           /\ r.at = (CASE op = "create" -> "reread" [] op = "delete" -> "delete" [] OTHER -> "update")
<1> DEFINE r == [op |-> op, seen |-> row, server |-> c,
        at |-> CASE op = "create" -> "reread" [] op = "delete" -> "delete" [] OTHER -> "update"]
<1>1. row \in RowState \cup {"unborn"}
  BY DEF Begin, Admits, Exists, RowState
<1>2. r \in CallRecord
  BY <1>1 DEF CallRecord, RowState
<1>3. call' = [call EXCEPT ![u] = r]
  BY DEF Begin
<1> QED BY <1>2, <1>3

\* The steps of the coordinators leave the calls alone, or drop some as one dies.
LEMMA CallsElsewhere ==
  ASSUME NEW c \in Coordinator,
         \/ Handler(c) \/ Start(c) \/ Crash(c)
         \/ \E i \in DOMAIN events[c] : PauseRefused(c, i)
  PROVE  /\ row' = row /\ deployment' = deployment /\ calls' = calls
         /\ \/ call' = call
            \/ Crash(c) /\ call' = [u \in Caller |-> IF InCall(u) /\ call[u].server = c
                                                     THEN Idle ELSE call[u]]
BY DEF Handler, Start, Crash, PauseRefused, Subscribe, Activate, Pause, PauseUnknown, Remember

\* Every step keeps what a call says by where it is.
LEMMA CallingStep == SafeTypes /\ [ScheduleNext]_svars => Calling'
<1> SUFFICES ASSUME SafeTypes, [ScheduleNext]_svars PROVE Calling'
  OBVIOUS
<1>1. /\ call \in [Caller -> CallRecord] /\ Calling /\ deployment' = deployment
      /\ Idle.at = "idle"
  BY ZenonT(30) DEF SafeTypes, ScheduleTypeOK, CallRecord, Idle, ScheduleNext, CallStep, Handler, Start, Crash,
         PauseRefused, Subscribe, Activate, Pause, PauseUnknown, Remember, Begin, Update, Insert, Delete,
         Reread, Publish, Stays, svars
<1>2. ASSUME NEW u \in Caller, CallStep(u) PROVE Calling'
  <2>1. PICK r \in CallRecord :
              /\ call' = [call EXCEPT ![u] = r]
              /\ \/ r = Idle
                 \/ /\ r.op = call[u].op
                    /\ \/ call[u].at = "update" /\ r.at \in {"reread", "insert"}
                          /\ (r.at = "insert" => deployment = "memory")
                       \/ call[u].at = "insert" /\ r.at = "reread"
                       \/ call[u].at = "delete" /\ r.at = "publish" /\ r.seen = "Paused"
                       \/ call[u].at = "reread" /\ r.at = "publish" /\ r.seen \in RowState
    BY <1>2, OneCallMoves DEF Update, Insert, Delete, Reread, Exists
  <2> QED BY <1>1, <2>1 DEF Calling, RowState
<1>3. ASSUME NEW u \in Caller, NEW op \in {"create", "pause", "resume", "delete"},
             NEW c \in Coordinator, Begin(u, op, c)
      PROVE  Calling'
  <2>1. op = "delete" => row \in RowState
    BY <1>3 DEF Begin, Admits, Exists
  <2>2. PICK r \in CallRecord :
           /\ call' = [call EXCEPT ![u] = r]
           /\ r.op = op /\ r.seen = row
           /\ r.at = (CASE op = "create" -> "reread" [] op = "delete" -> "delete" [] OTHER -> "update")
    BY <1>3, OneCallBegins
  <2> QED BY <1>1, <2>1, <2>2 DEF Calling
<1>4. ASSUME NEW c \in Coordinator,
             \/ Handler(c) \/ Start(c) \/ Crash(c)
             \/ \E i \in DOMAIN events[c] : PauseRefused(c, i)
      PROVE  Calling'
  <2>1. \/ call' = call
        \/ call' = [u \in Caller |-> IF InCall(u) /\ call[u].server = c THEN Idle ELSE call[u]]
    BY <1>4, CallsElsewhere
  <2> QED BY <1>1, <2>1 DEF Calling
<1>5. CASE UNCHANGED svars
  BY <1>1, <1>5 DEF svars, Calling
<1> QED
  BY <1>2, <1>3, <1>4, <1>5 DEF ScheduleNext


\* The sets that are counted are finite.
LEMMA Counted ==
  ASSUME SafeTypes
  PROVE  /\ IsFiniteSet(Inside) /\ Cardinality(Inside) \in Nat
         /\ \A c \in Coordinator : /\ IsFiniteSet(entries[c]) /\ Cardinality(entries[c]) \in Nat
                                   /\ Len(events[c]) \in Nat
<1>1. IsFiniteSet(Inside) /\ Cardinality(Inside) \in Nat
  BY ScheduleAssumption, FS_Subset, FS_CardinalityType DEF Inside
<1>2. ASSUME NEW c \in Coordinator
      PROVE  /\ IsFiniteSet(entries[c]) /\ Cardinality(entries[c]) \in Nat
             /\ Len(events[c]) \in Nat
  <2>1. entries[c] \subseteq Entry /\ events[c] \in Seq(RowState)
    BY DEF SafeTypes, ScheduleTypeOK, Queues
  <2>2. IsFiniteSet(Entry)
    BY ScheduleAssumption, FS_Interval DEF Entry
  <2> QED BY <2>1, <2>2, FS_Subset, FS_CardinalityType
<1> QED BY <1>1, <1>2

\* Who is inside a call after a step of the record of one.
LEMMA InsideOne ==
  ASSUME SafeTypes, NEW u \in Caller, NEW r \in CallRecord, call' = [call EXCEPT ![u] = r]
  PROVE  Inside' = IF r.at = "idle" THEN Inside \ {u} ELSE Inside \cup {u}
BY DEF SafeTypes, ScheduleTypeOK, CallRecord, Inside, InCall

\* Every step leaves enough entries.
LEMMA EnoughStep == SafeTypes /\ [ScheduleNext]_svars => Enough'
<1> SUFFICES ASSUME SafeTypes, [ScheduleNext]_svars PROVE Enough'
  OBVIOUS
<1> DEFINE in == Cardinality(Inside)
           load(c) == Cardinality(entries[c]) + Len(events[c])
<1>1. /\ calls \in 0 .. MaxCalls /\ MaxCalls \in Nat /\ in \in Nat /\ in <= calls
      /\ \A c \in Coordinator : /\ load(c) \in Nat /\ load(c) + in <= calls + 1
                                /\ Len(events[c]) \in Nat /\ Cardinality(entries[c]) \in Nat
  BY Counted, ScheduleAssumption DEF SafeTypes, Enough
<1>2. /\ events \in [Coordinator -> Seq(RowState)] /\ entries \in [Coordinator -> SUBSET Entry]
      /\ Idle.at = "idle"
  BY DEF SafeTypes, Queues, ScheduleTypeOK, Idle
<1>3. ASSUME calls' = calls, Inside' \subseteq Inside,
             \A c \in Coordinator : load(c)' \in Nat /\ load(c)' <= load(c)
      PROVE  Enough'
  <2>1. in' \in Nat /\ in' <= in
    BY <1>3, Counted, FS_Subset, FS_CardinalityType
  <2> QED BY <1>1, <1>3, <2>1 DEF Enough
<1>4. ASSUME NEW u \in Caller, CallStep(u) PROVE Enough'
  <2>1. PICK r \in CallRecord : call' = [call EXCEPT ![u] = r] /\ InCall(u)
    BY <1>4, OneCallMoves
  <2>2. Inside' \subseteq Inside
    BY <2>1, InsideOne DEF Inside
  <2>3. CASE Publish(u)
    <3>1. call' = [call EXCEPT ![u] = Idle] /\ Idle \in CallRecord
      BY <2>3 DEF Publish, Ends, Idle, CallRecord
    <3>2. Inside' = Inside \ {u} /\ u \in Inside
      BY <2>1, <3>1, <1>2, InsideOne DEF Inside
    <3>3. in' = in - 1
      BY <3>2, Counted, FS_RemoveElement
    <3>4. call[u].seen \in RowState
      BY <2>3 DEF SafeTypes, Calling, Publish
    <3>5. ASSUME NEW c \in Coordinator PROVE load(c)' \in Nat /\ load(c)' <= load(c) + 1
      <4>1. /\ entries' = entries
            /\ events'[c] \in {events[c], Append(events[c], call[u].seen)}
        BY <2>3 DEF Publish
      <4>2. Len(events'[c]) \in {Len(events[c]), Len(events[c]) + 1}
        BY <1>2, <3>4, <4>1
      <4>3. Cardinality(entries'[c]) = Cardinality(entries[c])
        BY <4>1
      <4>4. Len(events[c]) \in Nat /\ Cardinality(entries[c]) \in Nat
        BY <1>1
      <4>5. load(c)' = Cardinality(entries'[c]) + Len(events'[c])
        OBVIOUS
      <4> HIDE DEF load
      <4>6. load(c) = Cardinality(entries[c]) + Len(events[c])
        BY DEF load
      <4> QED BY <4>2, <4>3, <4>4, <4>5, <4>6
    <3>6. calls' = calls
      BY <2>3 DEF Publish
    <3> HIDE DEF in, load
    <3>7. \A c \in Coordinator : load(c)' + in' <= calls + 1
      BY <1>1, <3>3, <3>5
    <3> QED BY <1>1, <3>3, <3>6, <3>7 DEF Enough, load, in
  <2>4. CASE ~Publish(u)
    <3>1. calls' = calls /\ events' = events /\ entries' = entries
      BY <1>4, <2>4 DEF CallStep, Update, Insert, Delete, Reread, Stays
    <3> QED BY <1>1, <1>3, <2>2, <3>1
  <2> QED BY <2>3, <2>4
<1>5. ASSUME NEW u \in Caller, NEW op \in {"create", "pause", "resume", "delete"},
             NEW c \in Coordinator, Begin(u, op, c)
      PROVE  Enough'
  <2>1. PICK r \in CallRecord : call' = [call EXCEPT ![u] = r] /\ r.at # "idle"
    BY <1>5, OneCallBegins
  <2>2. Inside' = Inside \cup {u} /\ u \notin Inside
    BY <1>5, <2>1, InsideOne DEF Inside, Begin
  <2>3. in' = in + 1
    BY <2>2, Counted, FS_AddElement
  <2>4. calls' = calls + 1 /\ calls < MaxCalls /\ events' = events /\ entries' = entries
    BY <1>5 DEF Begin
  <2>5. \A d \in Coordinator : load(d)' = load(d)
    BY <2>4
  <2> HIDE DEF in, load
  <2>6. \A d \in Coordinator : load(d)' + in' <= calls' + 1
    BY <1>1, <2>3, <2>4, <2>5
  <2>7. calls' \in 0 .. MaxCalls /\ in' <= calls'
    BY <1>1, <2>3, <2>4
  <2> QED BY <2>6, <2>7 DEF Enough, load, in
<1>6. ASSUME NEW c \in Coordinator, Start(c) PROVE Enough'
  <2>1. calls' = calls /\ Inside' = Inside /\ events' = events
    BY <1>6 DEF Start, Inside, InCall
  <2>2. ASSUME NEW d \in Coordinator PROVE load(d)' + in <= calls + 1
    <3>1. CASE d # c
      BY <1>1, <1>2, <1>6, <2>1, <3>1 DEF Start
    <3>2. CASE d = c
      <4>1. events[c] = <<>> /\ entries'[c] \in {{1}, {}}
        BY <1>2, <1>6 DEF Start, SafeTypes, Shapes
      <4>2. load(c)' <= 1 /\ load(c)' \in Nat
        <5>1. Cardinality({1}) = 1 /\ Cardinality({}) = 0
          BY FS_EmptySet, FS_Singleton
        <5>2. Len(events'[c]) = 0
          BY <2>1, <4>1
        <5>3. Cardinality(entries'[c]) \in {0, 1}
          BY <4>1, <5>1
        <5>4. load(c)' = Cardinality(entries'[c]) + Len(events'[c])
          OBVIOUS
        <5> HIDE DEF load
        <5> QED BY <5>2, <5>3, <5>4
      <4> QED BY <1>1, <3>2, <4>2
    <3> QED BY <3>1, <3>2
  <2> QED BY <1>1, <2>1, <2>2 DEF Enough
<1>7. ASSUME NEW c \in Coordinator, NEW i \in DOMAIN events[c], Activate(c, i) PROVE Enough'
  <2>1. Len(Without(events[c], i)) = Len(events[c]) - 1
    BY <1>2, Dequeue
  <2>2. Cardinality(entries[c] \cup {Fresh(c)}) \in {Cardinality(entries[c]), Cardinality(entries[c]) + 1}
    BY Counted, FS_AddElement
  <2>3. calls' = calls /\ Inside' = Inside
    BY <1>7 DEF Activate, Inside, InCall
  <2>4. ASSUME NEW d \in Coordinator PROVE load(d)' \in Nat /\ load(d)' <= load(d)
    <3>1. \/ events'[d] = events[d] /\ entries'[d] = entries[d]
          \/ d = c /\ events'[d] = Without(events[c], i) /\ entries'[d] = entries[c] \cup {Fresh(c)}
      BY <1>2, <1>7 DEF Activate
    <3>2. CASE events'[d] = events[d] /\ entries'[d] = entries[d]
      BY <1>1, <3>2
    <3>3. CASE d = c /\ events'[d] = Without(events[c], i) /\ entries'[d] = entries[c] \cup {Fresh(c)}
      <4>1. Len(events[c]) \in Nat \ {0}
        BY <1>2
      <4> QED BY <1>1, <2>1, <2>2, <3>3, <4>1, SMTT(30)
    <3> QED BY <3>1, <3>2, <3>3
  <2> QED BY <1>3, <2>3, <2>4
<1>8. ASSUME NEW c \in Coordinator, Handler(c) \/ Crash(c) \/ (\E i \in DOMAIN events[c] : PauseRefused(c, i)),
             \A i \in DOMAIN events[c] : ~Activate(c, i)
      PROVE  Enough'
  <2>1. calls' = calls /\ Inside' \subseteq Inside
    <3>1. calls' = calls /\ (call' = call \/ call' = [u \in Caller |->
                               IF InCall(u) /\ call[u].server = c THEN Idle ELSE call[u]])
      BY <1>8, CallsElsewhere
    <3> QED BY <1>2, <3>1 DEF Inside, InCall
  <2>2. ASSUME NEW d \in Coordinator PROVE load(d)' \in Nat /\ load(d)' <= load(d)
    <3>1. /\ entries'[d] \subseteq entries[d]
          /\ \/ events'[d] \in {events[d], <<>>}
             \/ \E i \in DOMAIN events[d] : events'[d] = Without(events[d], i)
      BY <1>2, <1>8 DEF Handler, Crash, PauseRefused, Subscribe, Pause, PauseUnknown, Remember
    <3>2. Cardinality(entries'[d]) <= Cardinality(entries[d]) /\ Cardinality(entries'[d]) \in Nat
      BY <3>1, Counted, FS_Subset, FS_CardinalityType
    <3>3. Len(events'[d]) \in Nat /\ Len(events'[d]) <= Len(events[d])
      <4>1. CASE \E i \in DOMAIN events[d] : events'[d] = Without(events[d], i)
        <5>1. PICK i \in DOMAIN events[d] : events'[d] = Without(events[d], i)
          BY <4>1
        <5>2. /\ Without(events[d], i) \in Seq(RowState)
              /\ Len(Without(events[d], i)) = Len(events[d]) - 1
          BY <1>2, Dequeue
        <5>3. Len(events[d]) \in Nat \ {0}
          BY <1>2, <5>1
        <5> QED BY <5>1, <5>2, <5>3
      <4>2. CASE events'[d] = <<>>
        BY <1>1, <4>2
      <4>3. CASE events'[d] = events[d]
        BY <1>1, <4>3
      <4> QED BY <3>1, <4>1, <4>2, <4>3
    <3>4. /\ load(d)' = Cardinality(entries'[d]) + Len(events'[d])
          /\ load(d) = Cardinality(entries[d]) + Len(events[d])
          /\ Cardinality(entries[d]) \in Nat /\ Len(events[d]) \in Nat
      BY <1>1
    <3> HIDE DEF load
    <3> QED BY <3>2, <3>3, <3>4
  <2> QED BY <1>3, <2>1, <2>2
<1>9. CASE UNCHANGED svars
  BY <1>1, <1>3, <1>9 DEF svars, Inside, InCall
<1> QED
  BY <1>4, <1>5, <1>6, <1>7, <1>8, <1>9 DEF ScheduleNext, Handler


----------------------------------------------------------------------------
(* What the coordinators are told.                                         *)

\* A coordinator of which nothing changes was told what it was told before.
LEMMA SameTurn ==
  ASSUME NEW c \in Coordinator, deployment' = deployment,
         events'[c] = events[c], entries'[c] = entries[c], known'[c] = known[c],
         adding'[c] = adding[c]
  PROVE  Told(c)' = Told(c) /\ (InTurn(c) => InTurn(c)')
BY DEF Told, InTurn, Fires

\* A handler takes up the first event and makes the coordinator fire as that says:
\* the events that are left go on alternating, and the last one is the same.
LEMMA NextTurn ==
  ASSUME SafeTypes, NEW c \in Coordinator, InTurn(c), NEW i \in Deliverable(c),
         events' = [events EXCEPT ![c] = Without(@, i)],
         Fires(c)' = events[c][i]
  PROVE  /\ i = 1 /\ events[c] # <<>>
         /\ Told(c)' = Told(c)
         /\ events'[c] # <<>> => events'[c][1] # Fires(c)'
         /\ \A j \in DOMAIN events'[c] : j > 1 => events'[c][j] # events'[c][j - 1]
         /\ deployment = "memory" => events'[c] = <<>>
<1> DEFINE q == events[c]
           r == Without(events[c], 1)
<1>1. q \in Seq(RowState) /\ i \in DOMAIN q /\ deployment \in {"memory", "distributed"}
  BY Taking DEF SafeTypes, Queues, ScheduleTypeOK
<1>2. i = 1
  BY <1>1, Taking DEF InTurn
<1>3. events'[c] = r
  BY <1>2 DEF SafeTypes, Queues
<1>4. /\ r \in Seq(RowState) /\ Len(r) = Len(q) - 1
      /\ \A j \in DOMAIN r : j + 1 \in DOMAIN q /\ r[j] = q[j + 1]
  BY <1>1, <1>2, Dequeue
<1>5. /\ \A j \in DOMAIN q : j > 1 => q[j] # q[j - 1]
      /\ deployment = "memory" => Len(q) <= 1
  BY DEF InTurn
<1>6. Fires(c)' = q[1] /\ Told(c) = q[Len(q)] /\ q # <<>> /\ Len(q) \in Nat \ {0}
  BY <1>1, <1>2 DEF Told
<1>7. Told(c)' = IF r = <<>> THEN Fires(c)' ELSE r[Len(r)]
  BY <1>3 DEF Told
<1> HIDE DEF q, r
<1>8. Told(c)' = Told(c)
  <2>1. CASE r = <<>>
    <3>1. Len(q) = 1
      BY <1>4, <1>6, <2>1
    <3> QED BY <1>6, <1>7, <2>1, <3>1
  <2>2. CASE r # <<>>
    <3>1. Len(r) \in DOMAIN r
      BY <1>4, <2>2
    <3>2. r[Len(r)] = q[Len(q)]
      BY <1>4, <1>6, <3>1
    <3> QED BY <1>6, <1>7, <2>2, <3>2
  <2> QED BY <2>1, <2>2
<1>9. r # <<>> => r[1] # q[1]
  <2>1. r # <<>> => 1 \in DOMAIN r
    BY <1>4
  <2>2. 2 \in DOMAIN q => q[2] # q[2 - 1]
    <3>1. 2 > 1
      OBVIOUS
    <3> QED BY <1>5, <3>1, Zenon
  <2> QED BY <1>4, <2>1, <2>2
<1>10. ASSUME NEW j \in DOMAIN r, j > 1 PROVE r[j] # r[j - 1]
  <2>1. j - 1 \in DOMAIN r /\ j \in Nat
    BY <1>4, <1>10
  <2>2. r[j] = q[j + 1] /\ r[j - 1] = q[j] /\ j + 1 \in DOMAIN q
    BY <1>4, <2>1
  <2>3. j + 1 > 1 /\ (j + 1) - 1 = j
    BY <2>1, <1>10
  <2>4. q[j + 1] # q[(j + 1) - 1]
    BY <1>5, <2>2, <2>3
  <2> QED BY <2>2, <2>3, <2>4
<1>11. deployment = "memory" => r = <<>>
  BY <1>4, <1>5, <1>6
<1> QED BY <1>2, <1>3, <1>6, <1>8, <1>9, <1>10, <1>11 DEF q

\* A handler leaves a coordinator in turn, told what it was told before; in memory
\* one does so only when a call has ended.
LEMMA TurnHandled ==
  ASSUME SafeTypes, tidy, NEW c \in Coordinator, InTurn(c),
         \/ \E i \in DOMAIN events[c] : Activate(c, i) \/ Pause(c, i) \/ PauseUnknown(c, i)
         \/ \E e \in adding[c] : Remember(c, e)
  PROVE  /\ Told(c)' = Told(c) /\ InTurn(c)'
         /\ events[c] # <<>> \/ adding[c] # {}
<1>1. /\ events \in [Coordinator -> Seq(RowState)] /\ entries \in [Coordinator -> SUBSET Entry]
      /\ known \in [Coordinator -> Entry \cup {0}] /\ adding \in [Coordinator -> SUBSET Entry]
      /\ known[c] \in entries[c] \cup {0} /\ adding[c] \subseteq entries[c] /\ 0 \notin Entry
  BY DEF SafeTypes, ScheduleTypeOK, Queues, Shapes, Entry
<1>2. ASSUME NEW i \in DOMAIN events[c], Activate(c, i)
      PROVE  Told(c)' = Told(c) /\ InTurn(c)' /\ events[c] # <<>>
  <2>0. /\ i \in Deliverable(c) /\ events[c][i] = "Active" /\ deployment' = deployment
        /\ events' = [events EXCEPT ![c] = Without(@, i)]
        /\ entries'[c] = entries[c] \cup {Fresh(c)} /\ known'[c] = known[c]
        /\ adding'[c] = adding[c] \cup {Fresh(c)}
    BY <1>1, <1>2 DEF Activate
  <2>1. Fires(c)' = "Active"
    BY <2>0 DEF Fires
  <2>2. /\ i = 1 /\ events[c] # <<>>
        /\ Told(c)' = Told(c)
        /\ events'[c] # <<>> => events'[c][1] # Fires(c)'
        /\ \A j \in DOMAIN events'[c] : j > 1 => events'[c][j] # events'[c][j - 1]
        /\ deployment = "memory" => events'[c] = <<>>
    BY <2>0, <2>1, NextTurn
  <2>3. entries[c] = {} /\ known[c] = 0 /\ adding[c] = {}
    BY <1>1, <2>0, <2>2 DEF InTurn, Fires
  <2>4. Fresh(c) \in Entry
    BY <2>2, Spare
  <2>5. known'[c] = 0 /\ entries'[c] = {Fresh(c)} /\ adding'[c] = {Fresh(c)}
    BY <2>0, <2>3
  <2>6. deployment' = "memory" => Len(events'[c]) <= 1
    BY <2>0, <2>2
  <2> QED BY <2>0, <2>2, <2>4, <2>5, <2>6 DEF InTurn
<1>3. ASSUME NEW i \in DOMAIN events[c], Pause(c, i)
      PROVE  Told(c)' = Told(c) /\ InTurn(c)' /\ events[c] # <<>>
  <2>0. /\ i \in Deliverable(c) /\ events[c][i] = "Paused" /\ deployment' = deployment
        /\ events' = [events EXCEPT ![c] = Without(@, i)]
        /\ entries'[c] = entries[c] \ {known[c]} /\ known'[c] = 0 /\ known[c] # 0
        /\ adding'[c] = adding[c]
    BY <1>1, <1>3 DEF Pause
  <2>1. entries[c] = {known[c]} /\ adding[c] = {}
    BY <1>1, <2>0 DEF InTurn
  <2>2. Fires(c)' = "Paused" /\ entries'[c] = {}
    BY <2>0, <2>1 DEF Fires
  <2>3. /\ i = 1 /\ events[c] # <<>>
        /\ Told(c)' = Told(c)
        /\ events'[c] # <<>> => events'[c][1] # Fires(c)'
        /\ \A j \in DOMAIN events'[c] : j > 1 => events'[c][j] # events'[c][j - 1]
        /\ deployment = "memory" => events'[c] = <<>>
    BY <2>0, <2>2, NextTurn
  <2>4. deployment' = "memory" => Len(events'[c]) <= 1
    BY <2>0, <2>3
  <2> QED BY <2>0, <2>1, <2>2, <2>3, <2>4 DEF InTurn
<1>4. ASSUME NEW i \in DOMAIN events[c], PauseUnknown(c, i) PROVE FALSE
  <2>0. deployment = "memory" /\ events[c][i] = "Paused" /\ known[c] = 0
    BY <1>4 DEF PauseUnknown
  <2>1. i = 1 /\ events[c] # <<>>
    BY <1>1, <2>0 DEF InTurn
  <2>2. adding[c] = {}
    BY <2>0, <2>1 DEF InTurn
  <2>3. entries[c] = {}
    BY <2>0, <2>2 DEF InTurn
  <2> QED BY <2>0, <2>1, <2>3 DEF InTurn, Fires
<1>5. ASSUME NEW e \in adding[c], Remember(c, e)
      PROVE  Told(c)' = Told(c) /\ InTurn(c)' /\ adding[c] # {}
  <2>0. /\ deployment' = deployment /\ events' = events /\ entries' = entries
        /\ known'[c] = e /\ adding'[c] = adding[c] \ {e} /\ e \in Entry
    BY <1>1, <1>5 DEF Remember
  <2>1. entries[c] = {e} /\ adding[c] = {e}
    BY <1>1 DEF InTurn
  <2>2. entries'[c] = {known'[c]} /\ adding'[c] = {} /\ known'[c] # 0
    BY <1>1, <2>0, <2>1
  <2> QED BY <2>0, <2>1, <2>2 DEF InTurn, Told, Fires
<1> QED BY <1>2, <1>3, <1>4, <1>5


\* Every step keeps what the coordinators are told.
LEMMA TellsStep == SafeTypes /\ Tells /\ [ScheduleNext]_svars => Tells'
<1> SUFFICES ASSUME SafeTypes, Tells, [ScheduleNext]_svars, tidy' PROVE Tells'
  BY DEF Tells
<1>1. tidy /\ deployment' = deployment
  BY DEF ScheduleNext, CallStep, Handler, Start, Crash, PauseRefused, Subscribe, Activate, Pause,
         PauseUnknown, Remember, Begin, Update, Insert, Delete, Reread, Publish, Stays, svars
<1>2. /\ \A c \in Coordinator : InTurn(c)
      /\ \A u \in Caller : InCall(u) => OneCall(u)
      /\ Inside = {} => \A c \in Coordinator : phase[c] # "down" => Told(c) = Asked
  BY <1>1 DEF Tells
<1>3. /\ call \in [Caller -> CallRecord] /\ Idle.at = "idle" /\ Calling
      /\ events \in [Coordinator -> Seq(RowState)] /\ entries \in [Coordinator -> SUBSET Entry]
      /\ known \in [Coordinator -> Entry \cup {0}] /\ adding \in [Coordinator -> SUBSET Entry]
      /\ phase \in [Coordinator -> {"down", "loaded", "up"}]
      /\ row \in RowState \cup {"unborn", "deleted"}
      /\ deployment \in {"memory", "distributed"}
  BY DEF SafeTypes, ScheduleTypeOK, CallRecord, Idle, Queues, Shapes
<1>4. ASSUME UNCHANGED <<events, entries, known, adding>>
      PROVE  \A c \in Coordinator : Told(c)' = Told(c) /\ InTurn(c)'
  BY <1>1, <1>2, <1>4, SameTurn
<1>5. ASSUME NEW u \in Caller, CallStep(u) PROVE Tells'
  <2>1. InCall(u) /\ OneCall(u)
    BY <1>2, <1>5, OneCallMoves
  <2>2. PICK r \in CallRecord :
              /\ call' = [call EXCEPT ![u] = r]
              /\ \/ r = Idle /\ (Update(u) \/ Delete(u) \/ Reread(u) \/ Publish(u))
                 \/ /\ r.op = call[u].op /\ r.at # "idle"
                    /\ \/ Update(u) /\ r.at \in {"reread", "insert"} /\ r.seen = call[u].seen
                          /\ (r.at = "insert" => deployment = "memory")
                          /\ (r.at = "reread" => row' = Target(call[u].op))
                          /\ (r.at = "insert" => row' = row)
                       \/ Insert(u) /\ r.at = "reread" /\ row' = Target(call[u].op)
                       \/ Delete(u) /\ r.at = "publish" /\ r.seen = "Paused" /\ row' = "deleted"
                            /\ call[u].seen = "Active"
                       \/ Reread(u) /\ r.at = "publish" /\ r.seen = row /\ Exists /\ row' = row
    BY <1>5, OneCallMoves
  <2>3. call'[u] = r /\ \A v \in Caller : v # u => call'[v] = call[v] /\ ~InCall(v)'
    BY <1>3, <2>1, <2>2 DEF OneCall, InCall
  <2>4. CASE Publish(u)
    <3>1. r = Idle /\ Inside' = {}
      BY <1>3, <2>2, <2>3, <2>4 DEF Publish, Update, Insert, Delete, Reread, Inside, InCall
    <3>2. call[u].seen = Asked /\ Asked' = Asked /\ Asked \in RowState
      BY <2>1, <2>4 DEF Publish, OneCall, Asked, RowState
    <3>3. ASSUME NEW c \in Coordinator
          PROVE  InTurn(c)' /\ (phase'[c] # "down" => Told(c)' = Asked')
      <4>0. phase' = phase /\ entries' = entries /\ known' = known /\ adding' = adding
        BY <2>4 DEF Publish
      <4>1. CASE phase[c] # "up"
        <5>1. events'[c] = events[c]
          BY <2>4, <4>1 DEF Publish
        <5>2. phase[c] = "down"
          BY <1>3, <2>1, <4>1 DEF OneCall
        <5> QED BY <1>1, <1>2, <4>0, <5>1, <5>2, SameTurn
      <4>2. CASE phase[c] = "up"
        <5> DEFINE q == events[c]
                   s == Asked
        <5>1. events'[c] = Append(q, s) /\ q \in Seq(RowState) /\ s \in RowState
          BY <1>3, <2>4, <3>2, <4>2 DEF Publish
        <5>2. Told(c) # s
          BY <2>1, <2>4, <4>2 DEF OneCall, Publish
        <5>3. deployment = "memory" => q = <<>> /\ adding[c] = {}
          BY <2>1 DEF OneCall
        <5>4. Told(c) = IF q = <<>> THEN Fires(c) ELSE q[Len(q)]
          BY DEF Told
        <5>5. /\ q # <<>> => q[1] # Fires(c)
              /\ \A i \in DOMAIN q : i > 1 => q[i] # q[i - 1]
          BY <1>2 DEF InTurn
        <5>6. Fires(c)' = Fires(c)
          BY <4>0 DEF Fires
        <5> HIDE DEF q, s
        <5>7. /\ Len(Append(q, s)) = Len(q) + 1 /\ Append(q, s) # <<>>
              /\ DOMAIN Append(q, s) = 1 .. Len(q) + 1 /\ DOMAIN q = 1 .. Len(q)
              /\ \A i \in 1 .. Len(q) : Append(q, s)[i] = q[i]
              /\ Append(q, s)[Len(q) + 1] = s
              /\ Len(q) \in Nat /\ (q = <<>> => Len(q) = 0) /\ (q # <<>> => Len(q) # 0)
          BY <5>1
        <5>8. Append(q, s)[1] # Fires(c)
          BY <5>2, <5>4, <5>5, <5>7
        <5>9. ASSUME NEW i \in 1 .. Len(q) + 1, i > 1 PROVE Append(q, s)[i] # Append(q, s)[i - 1]
          <6>1. CASE i \in 1 .. Len(q)
            <7>1. i - 1 \in 1 .. Len(q)
              BY <5>7, <5>9, <6>1
            <7>2. Append(q, s)[i - 1] = q[i - 1] /\ Append(q, s)[i] = q[i]
              BY <5>7, <6>1, <7>1
            <7>3. i \in DOMAIN q
              BY <5>7, <6>1
            <7>4. q[i] # q[i - 1]
              BY <5>5, <5>9, <7>3, Zenon
            <7> QED BY <7>2, <7>4
          <6>2. CASE i = Len(q) + 1
            <7>1. i - 1 = Len(q) /\ Len(q) \in 1 .. Len(q) /\ q # <<>>
              BY <5>7, <5>9, <6>2
            <7>2. Append(q, s)[i - 1] = q[Len(q)] /\ Append(q, s)[i] = s
              BY <5>7, <6>2, <7>1
            <7>3. q[Len(q)] # s
              BY <5>2, <5>4, <7>1
            <7> QED BY <7>2, <7>3
          <6> QED BY <5>7, <5>9, <6>1, <6>2
        <5>10. Told(c)' = s
          BY <5>1, <5>7 DEF Told
        <5>11. deployment' = "memory" => Len(events'[c]) <= 1 /\ adding'[c] = {}
          BY <1>1, <4>0, <5>1, <5>3, <5>7
        <5>12. \/ entries'[c] = {}
               \/ known'[c] # 0 /\ entries'[c] = {known'[c]} /\ adding'[c] = {}
               \/ known'[c] = 0 /\ \E e \in Entry : entries'[c] = {e} /\ adding'[c] = {e}
          BY <1>2, <4>0 DEF InTurn
        <5>13. InTurn(c)'
          BY <5>1, <5>6, <5>7, <5>8, <5>9, <5>11, <5>12 DEF InTurn
        <5> QED BY <3>2, <5>10, <5>13 DEF s
      <4> QED BY <4>1, <4>2
    <3> QED BY <3>1, <3>3 DEF Tells, Inside
  <2>5. CASE ~Publish(u)
    <3>0. UNCHANGED <<phase, events, entries, known, adding, deployment>>
      BY <1>5, <2>5 DEF CallStep, Update, Insert, Delete, Reread, Stays
    <3>1. \A c \in Coordinator : Told(c)' = Told(c) /\ InTurn(c)'
      BY <1>4, <3>0
    <3>2. CASE r = Idle
      <4>1. Inside' = {}
        BY <1>3, <2>3, <3>2 DEF Inside, InCall
      <4>2. ASSUME Update(u) PROVE FALSE
        <5>1. Exists
          BY <2>1, <4>2 DEF Update, OneCall, Exists, RowState
        <5>2. call'[u].at \in {"reread", "insert"}
          <6>1. Step(u, "reread") \/ Step(u, "insert")
            BY <4>2, <5>1 DEF Update
          <6>2. ASSUME NEW at \in {"reread", "insert"}, Step(u, at)
                PROVE  \E x \in CallRecord : call' = [call EXCEPT ![u] = x] /\ x.at = at
            <7>1. ScheduleTypeOK /\ at \in {"update", "insert", "delete", "reread", "publish"}
              BY DEF SafeTypes
            <7> QED BY <6>2, <7>1, StepRecord
          <6> QED BY <1>3, <6>1, <6>2
        <5> QED BY <1>3, <2>3, <3>2, <5>2
      <4>3. ASSUME Reread(u) PROVE FALSE
        <5>1. Exists
          BY <2>1, <4>3 DEF Reread, OneCall, Exists, Target, RowState
        <5>2. Copies(u, row) /\ row \in RowState /\ ScheduleTypeOK
          BY <4>3, <5>1, Zenon DEF Reread, Copies, Exists, SafeTypes
        <5>3. \E x \in CallRecord : call' = [call EXCEPT ![u] = x] /\ x.at = "publish"
          BY <5>2, SeenRecord
        <5> QED BY <1>3, <2>3, <3>2, <5>3
      <4>4. CASE Delete(u)
        <5>1. call[u].seen # "Active"
          <6> SUFFICES ASSUME call[u].seen = "Active" PROVE FALSE
            OBVIOUS
          <6>1. Copies(u, "Paused") /\ "Paused" \in RowState /\ ScheduleTypeOK
            BY <4>4, Zenon DEF Delete, Copies, RowState, SafeTypes
          <6>2. \E x \in CallRecord : call' = [call EXCEPT ![u] = x] /\ x.at = "publish"
            BY <6>1, SeenRecord
          <6> QED BY <1>3, <2>3, <3>2, <6>2
        <5>2. Asked = "Paused" /\ Asked' = "Paused"
          BY <2>1, <4>4, <5>1 DEF OneCall, Delete, Asked
        <5>3. \A c \in Coordinator : phase'[c] # "down" => Told(c)' = Asked'
          BY <2>1, <3>0, <3>1, <4>4, <5>2 DEF OneCall, Delete
        <5> QED BY <3>1, <4>1, <5>3 DEF Tells, Inside
      <4> QED BY <2>2, <2>5, <3>2, <4>2, <4>3, <4>4, <1>3
    <3>3. CASE r.at # "idle"
      <4>1. InCall(u)' /\ Inside' # {}
        BY <2>3, <3>3 DEF InCall, Inside
      <4>2. OneCall(u)'
        <5> DEFINE early == call[u].at \in {"update", "insert", "delete"}
        <5>1. /\ \A v \in Caller : InCall(v)' => v = u
              /\ \A c \in Coordinator : phase'[c] # "loaded"
                   /\ (deployment' = "memory" => events'[c] = <<>> /\ adding'[c] = {})
          BY <2>1, <2>3, <3>0 DEF OneCall
        <5>2. CASE Update(u) /\ r.at = "insert"
          <6>1. /\ row' = row /\ call'[u].at = "insert" /\ call'[u].op = call[u].op
                /\ call[u].at = "update"
            BY <1>3, <2>2, <2>3, <5>2 DEF Update, Insert, Delete, Reread
          <6>2. Asked' = Asked
            BY <6>1 DEF Asked
          <6>3. \A c \in Coordinator : phase'[c] # "down" => Told(c)' = Asked'
            BY <2>1, <3>0, <3>1, <6>1, <6>2 DEF OneCall
          <6> QED BY <2>1, <5>1, <6>1, <6>3 DEF OneCall
        <5>3. CASE (Update(u) \/ Insert(u)) /\ r.at = "reread"
          <6>1. /\ row' = Target(call[u].op) /\ call'[u].op = call[u].op /\ call'[u].at = "reread"
                /\ call[u].op \in {"pause", "resume"} /\ call[u].at \in {"update", "insert"}
            BY <1>3, <2>2, <2>3, <3>3, <5>3 DEF Update, Insert, Delete, Reread, Calling, Idle
          <6>2. Asked' # Asked /\ {Asked, Asked'} \subseteq RowState
            BY <2>1, <6>1 DEF OneCall, Asked, Target, RowState
          <6>3. \A c \in Coordinator : phase'[c] # "down" => Told(c)' # Asked'
            BY <2>1, <3>0, <3>1, <6>1, <6>2 DEF OneCall
          <6> QED BY <5>1, <6>1, <6>3 DEF OneCall, Target
        <5>4. CASE Delete(u)
          <6>1. /\ row' = "deleted" /\ call'[u].at = "publish" /\ call'[u].seen = "Paused"
                /\ call[u].seen = "Active" /\ call[u].at = "delete"
            BY <1>3, <2>2, <2>3, <3>3, <5>4 DEF Update, Insert, Delete, Reread
          <6>2. Asked = "Active" /\ Asked' = "Paused"
            BY <2>1, <6>1 DEF OneCall, Asked
          <6>3. \A c \in Coordinator : phase'[c] # "down" => Told(c)' # Asked'
            BY <2>1, <3>0, <3>1, <6>1, <6>2 DEF OneCall
          <6> QED BY <5>1, <6>1, <6>2, <6>3 DEF OneCall
        <5>5. CASE Reread(u)
          <6>1. /\ row' = row /\ call'[u].at = "publish" /\ call'[u].seen = row
                /\ call[u].at = "reread" /\ row \in RowState
            BY <1>3, <2>2, <2>3, <3>3, <5>5 DEF Update, Insert, Delete, Reread, Exists
          <6>2. Asked' = Asked /\ Asked = row
            BY <6>1 DEF Asked, RowState
          <6>3. \A c \in Coordinator : phase'[c] # "down" => Told(c)' # Asked'
            BY <2>1, <3>0, <3>1, <6>1, <6>2 DEF OneCall
          <6> QED BY <5>1, <6>1, <6>2, <6>3 DEF OneCall
        <5> QED BY <1>3, <2>2, <3>3, <5>2, <5>3, <5>4, <5>5
      <4> QED BY <2>3, <3>1, <4>1, <4>2 DEF Tells
    <3> QED BY <2>2, <3>2, <3>3
  <2> QED BY <2>4, <2>5
<1>6. ASSUME NEW u \in Caller, NEW op \in {"create", "pause", "resume", "delete"},
             NEW d \in Coordinator, Begin(u, op, d)
      PROVE  Tells'
  <2>0. UNCHANGED <<phase, events, entries, known, adding, deployment>> /\ Orderly /\ Admits(op)
        /\ row' = IF op = "create" THEN "Active" ELSE row
    BY <1>6 DEF Begin
  <2>1. \A c \in Coordinator : Told(c)' = Told(c) /\ InTurn(c)'
    BY <1>4, <2>0
  <2>2. PICK r \in CallRecord :
           /\ call' = [call EXCEPT ![u] = r]
           /\ r.op = op /\ r.seen = row
           /\ r.at = (CASE op = "create" -> "reread" [] op = "delete" -> "delete" [] OTHER -> "update")
    BY <1>6, OneCallBegins
  <2>3. call'[u] = r /\ r.at # "idle" /\ \A v \in Caller : v # u => ~InCall(v)'
    BY <1>3, <2>0, <2>2 DEF Orderly, InCall
  <2>4. \A c \in Coordinator : phase[c] # "down" => Told(c) = Asked
    BY <1>2, <2>0 DEF Orderly, Inside
  <2>5. /\ \A v \in Caller : InCall(v)' => v = u
        /\ \A c \in Coordinator : phase'[c] # "loaded"
             /\ (deployment' = "memory" => events'[c] = <<>> /\ adding'[c] = {})
    BY <2>0, <2>3 DEF Orderly, Calm
  <2>6. OneCall(u)'
    <3>1. CASE op = "create"
      <4>1. r.at = "reread" /\ Asked = "Paused" /\ Asked' = "Active" /\ row' = "Active"
        BY <2>0, <2>2, <3>1 DEF Admits, Asked
      <4>2. \A c \in Coordinator : phase'[c] # "down" => Told(c)' # Asked'
        BY <2>0, <2>1, <2>4, <4>1
      <4> QED BY <2>2, <2>3, <2>5, <3>1, <4>1, <4>2 DEF OneCall, Target
    <3>2. CASE op # "create"
      <4>1. /\ row' = row /\ Asked' = Asked
            /\ op = "pause" => row = "Active"
            /\ op = "resume" => row = "Paused"
        BY <2>0, <3>2 DEF Admits, Asked
      <4>2. \A c \in Coordinator : phase'[c] # "down" => Told(c)' = Asked'
        BY <2>0, <2>1, <2>4, <4>1
      <4>3. \/ op = "delete" /\ r.at = "delete"
            \/ op \in {"pause", "resume"} /\ r.at = "update"
        BY <2>2, <3>2
      <4> QED BY <2>2, <2>3, <2>5, <4>1, <4>2, <4>3 DEF OneCall
    <3> QED BY <3>1, <3>2
  <2>7. u \in Inside'
    BY <2>3 DEF Inside, InCall
  <2> QED BY <2>1, <2>3, <2>6, <2>7 DEF Tells
<1>7. ASSUME NEW c \in Coordinator,
             \/ \E i \in DOMAIN events[c] : Activate(c, i) \/ Pause(c, i) \/ PauseUnknown(c, i)
             \/ \E e \in adding[c] : Remember(c, e)
      PROVE  Tells'
  <2>1. Told(c)' = Told(c) /\ InTurn(c)' /\ (events[c] # <<>> \/ adding[c] # {})
    BY <1>1, <1>2, <1>7, TurnHandled
  <2>2. /\ UNCHANGED <<row, call, phase, deployment>>
        /\ \A d \in Coordinator : d # c =>
             /\ events'[d] = events[d] /\ entries'[d] = entries[d] /\ known'[d] = known[d]
             /\ adding'[d] = adding[d]
    BY <1>3, <1>7 DEF Activate, Pause, PauseUnknown, Remember
  <2>3. \A d \in Coordinator : Told(d)' = Told(d) /\ InTurn(d)'
    BY <1>2, <2>1, <2>2, SameTurn
  <2>4. Inside' = Inside /\ Asked' = Asked /\ \A u \in Caller : InCall(u)' <=> InCall(u)
    BY <2>2 DEF Inside, InCall, Asked
  <2>5. ASSUME NEW u \in Caller, InCall(u) PROVE OneCall(u)'
    <3>1. OneCall(u) /\ deployment # "memory"
      BY <1>2, <2>1, <2>5 DEF OneCall
    <3> QED BY <2>2, <2>3, <2>4, <3>1 DEF OneCall
  <2> QED BY <1>2, <2>2, <2>3, <2>4, <2>5 DEF Tells
<1>8. ASSUME NEW c \in Coordinator, Subscribe(c) PROVE Tells'
  <2>1. /\ UNCHANGED <<row, call, deployment, events, entries, known, adding>>
        /\ phase[c] = "loaded" /\ \A d \in Coordinator : phase'[d] = "down" <=> phase[d] = "down"
    BY <1>3, <1>8 DEF Subscribe
  <2>2. \A d \in Coordinator : Told(d)' = Told(d) /\ InTurn(d)'
    BY <1>4, <2>1
  <2>3. \A u \in Caller : ~InCall(u)
    BY <1>2, <2>1 DEF OneCall
  <2>4. Inside = {} /\ Asked' = Asked /\ \A u \in Caller : ~InCall(u)'
    BY <2>1, <2>3 DEF Inside, InCall, Asked
  <2> QED BY <1>2, <2>1, <2>2, <2>4 DEF Tells
<1>9. ASSUME NEW c \in Coordinator, Start(c) PROVE Tells'
  <2>1. /\ UNCHANGED <<row, call, deployment, events, adding>> /\ \A u \in Caller : ~InCall(u)
        /\ phase[c] = "down"
        /\ \A d \in Coordinator : d # c =>
             entries'[d] = entries[d] /\ known'[d] = known[d] /\ phase'[d] = phase[d]
        /\ entries'[c] = (IF row = "Active" THEN {1} ELSE {})
        /\ known'[c] = (IF row = "Active" THEN 1 ELSE 0)
    BY <1>3, <1>9 DEF Start
  <2>2. events[c] = <<>> /\ adding[c] = {}
    BY <2>1 DEF SafeTypes, Shapes
  <2>3. InTurn(c)' /\ Told(c)' = Asked'
    BY <2>1, <2>2 DEF InTurn, Told, Fires, Asked
  <2>4. \A d \in Coordinator : d # c => Told(d)' = Told(d) /\ InTurn(d)'
    BY <1>2, <2>1, SameTurn
  <2>5. Inside = {} /\ Asked' = Asked /\ \A u \in Caller : ~InCall(u)'
    BY <2>1 DEF Inside, InCall, Asked
  <2> QED BY <1>2, <2>1, <2>3, <2>4, <2>5 DEF Tells
<1>10. ASSUME NEW c \in Coordinator, Crash(c) PROVE Tells'
  <2>1. /\ UNCHANGED <<row, call, deployment>>
        /\ deployment = "distributed" /\ phase'[c] = "down" /\ events'[c] = <<>> /\ entries'[c] = {}
        /\ \A d \in Coordinator : d # c =>
             /\ events'[d] = events[d] /\ entries'[d] = entries[d] /\ known'[d] = known[d]
             /\ adding'[d] = adding[d] /\ phase'[d] = phase[d]
    BY <1>3, <1>10 DEF Crash
  <2>2. InTurn(c)'
    BY <2>1 DEF InTurn
  <2>3. \A d \in Coordinator : d # c => Told(d)' = Told(d) /\ InTurn(d)'
    BY <1>2, <2>1, SameTurn
  <2>4. Inside' = Inside /\ Asked' = Asked /\ \A u \in Caller : InCall(u)' <=> InCall(u)
    BY <2>1 DEF Inside, InCall, Asked
  <2>5. ASSUME NEW u \in Caller, InCall(u) PROVE OneCall(u)'
    <3>1. OneCall(u)
      BY <1>2, <2>5
    <3> QED BY <2>1, <2>3, <2>4, <3>1 DEF OneCall
  <2> QED BY <1>2, <2>1, <2>2, <2>3, <2>4, <2>5 DEF Tells
<1>11. ASSUME NEW c \in Coordinator, NEW i \in DOMAIN events[c], PauseRefused(c, i) PROVE FALSE
  BY <1>11 DEF PauseRefused
<1>12. CASE UNCHANGED svars
  BY <1>2, <1>4, <1>12 DEF svars, Tells, OneCall, Inside, InCall, Asked
<1> QED
  BY <1>5, <1>6, <1>7, <1>8, <1>9, <1>10, <1>11, <1>12 DEF ScheduleNext, Handler


----------------------------------------------------------------------------
(* The theorems.                                                           *)

LEMMA ScheduleInit0 == ScheduleInit => ScheduleInv
<1> SUFFICES ASSUME ScheduleInit PROVE ScheduleInv
  OBVIOUS
<1>1. ScheduleTypeOK /\ Queues /\ Shapes
  <2>1. Idle \in CallRecord
    BY DEF Idle, CallRecord
  <2>2. CallTypes
    BY <2>1 DEF ScheduleInit, CallTypes
  <2>3. EntryTypes /\ Queues
    BY DEF ScheduleInit, EntryTypes, Shapes, Queues
  <2> QED BY <2>2, <2>3, TypeParts DEF ScheduleInit
<1>2. Inside = {}
  BY DEF ScheduleInit, Inside, InCall, Idle
<1>3. Enough
  BY <1>2, FS_EmptySet, ScheduleAssumption DEF ScheduleInit, Enough
<1>4. Calling
  BY DEF ScheduleInit, Calling, Idle
<1>5. Tells
  BY <1>2 DEF ScheduleInit, Tells, InTurn, Inside
<1> QED BY <1>1, <1>3, <1>4, <1>5 DEF ScheduleInv, SafeTypes

LEMMA ScheduleStep == ScheduleInv /\ [ScheduleNext]_svars => ScheduleInv'
<1> SUFFICES ASSUME ScheduleInv, [ScheduleNext]_svars PROVE ScheduleInv'
  OBVIOUS
<1>1. SafeTypes /\ Tells
  BY DEF ScheduleInv
<1>2. (ScheduleTypeOK /\ Queues /\ Shapes)'
  BY <1>1, TypesStep
<1>3. Enough' /\ Calling' /\ Tells'
  BY <1>1, EnoughStep, CallingStep, TellsStep
<1> QED BY <1>2, <1>3 DEF ScheduleInv, SafeTypes

LEMMA ScheduleAlways == ScheduleSpec => []ScheduleInv
BY ScheduleInit0, ScheduleStep, PTL DEF ScheduleSpec

\* The row, the calls, the events and the cron entries keep their types.
THEOREM ScheduleTypeTheorem == ScheduleSpec => []ScheduleTypeOK
<1>1. ScheduleInv => ScheduleTypeOK
  BY DEF ScheduleInv, SafeTypes
<1> QED BY <1>1, ScheduleAlways, PTL

\* handle_active and handle_paused: once calls that followed one another have been
\* handled, every coordinator has the one entry of an active scheduled job, and its
\* map names it; of any other it has none.
THEOREM AtRestMatchesTheorem == ScheduleSpec => []AtRestMatches
<1>1. ScheduleInv => AtRestMatches
  <2> SUFFICES ASSUME ScheduleInv, tidy, Calm, NEW c \in Coordinator, phase[c] = "up"
               PROVE  /\ Cardinality(entries[c]) = (IF row = "Active" THEN 1 ELSE 0)
                      /\ entries[c] = {known[c]} \ {0}
    BY DEF AtRestMatches
  <2>1. Inside = {} /\ events[c] = <<>> /\ adding[c] = {}
    BY DEF Calm, Inside
  <2>2. InTurn(c) /\ Fires(c) = Asked
    BY <2>1 DEF ScheduleInv, Tells, Told
  <2>3. CASE row = "Active"
    <3>1. entries[c] = {known[c]} /\ known[c] # 0
      BY <2>1, <2>2, <2>3 DEF InTurn, Fires, Asked
    <3> QED BY <2>3, <3>1, FS_Singleton
  <2>4. CASE row # "Active"
    <3>1. entries[c] = {}
      BY <2>2, <2>4 DEF Fires, Asked
    <3>2. known[c] = 0
      BY <3>1 DEF ScheduleInv, SafeTypes, ScheduleTypeOK
    <3> QED BY <2>4, <3>1, <3>2, FS_EmptySet
  <2> QED BY <2>3, <2>4
<1> QED BY <1>1, ScheduleAlways, PTL

\* update_scheduled_job: no step brings back a scheduled job that was deleted from
\* PostgreSQL, whichever calls were under way.
THEOREM DeletedForGoodTheorem == ScheduleSpec => DeletedForGood
<1>1. ScheduleInv /\ [ScheduleNext]_svars
        => [row = "deleted" /\ deployment = "distributed" => row' = "deleted"]_svars
  <2> SUFFICES ASSUME ScheduleInv, ScheduleNext, row = "deleted", deployment = "distributed"
               PROVE  row' = "deleted"
    OBVIOUS
  <2>1. ASSUME NEW u \in Caller, CallStep(u) PROVE row' = "deleted"
    <3>1. call[u].at # "insert"
      BY DEF ScheduleInv, SafeTypes, Calling
    <3> QED BY <2>1, <3>1 DEF CallStep, Update, Insert, Delete, Reread, Publish, Exists, RowState
  <2>2. ASSUME NEW u \in Caller, NEW op \in {"create", "pause", "resume", "delete"},
               NEW c \in Coordinator, Begin(u, op, c)
        PROVE  FALSE
    BY <2>2 DEF Begin, Admits, Exists, RowState
  <2> QED BY <2>1, <2>2, CallsElsewhere DEF ScheduleNext
<1> QED BY <1>1, ScheduleAlways, PTL DEF ScheduleSpec, DeletedForGood

=============================================================================
