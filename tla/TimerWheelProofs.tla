-------------------------- MODULE TimerWheelProofs --------------------------
(***************************************************************************)
(* The timer wheel loses no row, sends once per life what start does not   *)
(* race with and never what it cancelled unless start reads it all the     *)
(* same, for any finite number of timers, any capacity of the channel and  *)
(* any number of starts and failures.                                      *)
(*                                                                         *)
(* The argument: a timer has an entry, a spawned task or a place in what   *)
(* start has yet to send only after it was saved, so that add_timer never  *)
(* meets a leftover; a timer that start did not race with has at most one  *)
(* of a task that will send and a place in what start has yet to send; and *)
(* a cancelled timer that start did not read has no entry for its task to  *)
(* find, and none comes back.                                              *)
(***************************************************************************)
EXTENDS TimerWheel, TLAPS

----------------------------------------------------------------------------
(* The inductive invariant.                                                *)

Types == TimerTypeOK /\ channel \in Seq(Timer)

\* Nothing is left of a timer that was never saved, and only delays come due.
Known ==
  /\ due \subseteq saved \ Cron /\ todo \subseteq due
  /\ listed \subseteq saved /\ cancelled \subseteq saved
  /\ \A t \in Timer \ saved :
       payload[t] = "none" /\ map[t] = "none" /\ task[t] = "none" /\ sent[t] = 0

\* A row that still matters is there, and so is the entry a task will wake for.
Rows ==
  /\ RowUntilSent
  /\ \A t \in Timer : /\ task[t] \in {"arming", "sleeping"} => map[t] # "none" \/ t \in over
                      /\ task[t] = "deleting" => sent[t] > 0 \/ t \in over

Unsent == {"arming", "sleeping", "sending"}

\* What a task or start is going to send was not sent, and is not with both.
Once ==
  \A t \in Timer \ raced :
    /\ sent[t] <= 1
    /\ task[t] \in Unsent => sent[t] = 0
    /\ t \in todo => sent[t] = 0 /\ task[t] = "none"

\* A cancelled timer is nowhere from where it would be sent, and in memory its row
\* is not one that start reads.
Quiet ==
  /\ \A t \in cancelled \ revived :
       /\ t \notin todo \cup listed /\ map[t] = "none"
       /\ task[t] \in {"none", "deleting", "sleeping"}
  /\ persistence = "memory" => \A t \in cancelled : payload[t] # "pending"

TimerInv == Types /\ Known /\ Rows /\ Once /\ Quiet

----------------------------------------------------------------------------
(* Each part is kept by every step.                                        *)

\* Every step keeps the types.
LEMMA TypesStep == Types /\ [TimerNext]_rvars => Types'
<1> SUFFICES ASSUME Types, [TimerNext]_rvars PROVE Types'
  OBVIOUS
<1> USE TimerAssumption DEF Types, TimerTypeOK
<1>1. ASSUME NEW t \in Timer, Add(t) PROVE Types'
  <2>1. payload' \in [Timer -> {"none", "pending", "cancelled"}]
    BY <1>1 DEF Add
  <2>2. map' \in [Timer -> {"none", "pending", "cancelled"}] /\ saved' \subseteq Timer
    BY <1>1 DEF Add
  <2>3. task' \in [Timer -> {"none", "arming", "sleeping", "sending", "deleting"}]
    BY <1>1 DEF Add
  <2> QED BY <1>1, <2>1, <2>2, <2>3 DEF Add
<1>2. ASSUME NEW t \in Timer, Expire(t) PROVE Types'
  BY <1>2 DEF Expire
<1>3. ASSUME NEW t \in Timer, Arm(t) PROVE Types'
  BY <1>3 DEF Arm
<1>4. ASSUME NEW t \in Timer, Wake(t) PROVE Types'
  BY <1>4 DEF Wake
<1>5. ASSUME NEW t \in Timer, Send(t) PROVE Types'
  <2>1. channel' \in Seq(Timer) BY <1>5 DEF Send, Put
  <2>2. sent' \in [Timer -> Nat] BY <1>5 DEF Send, Put
  <2>3. task' \in [Timer -> {"none", "arming", "sleeping", "sending", "deleting"}]
    BY <1>5 DEF Send
  <2> QED BY <1>5, <2>1, <2>2, <2>3 DEF Send, Put
<1>6. ASSUME NEW t \in Timer, Delete(t) PROVE Types'
  BY <1>6 DEF Delete, Fails
<1>7. ASSUME NEW t \in Timer, Cancel(t) PROVE Types'
  <2>1. payload' \in [Timer -> {"none", "pending", "cancelled"}]
    BY <1>7 DEF Cancel
  <2>2. map' \in [Timer -> {"none", "pending", "cancelled"}]
    BY <1>7 DEF Cancel
  <2>3. cancelled' \subseteq Timer /\ over' \subseteq Timer
    BY <1>7 DEF Cancel
  <2> QED BY <1>7, <2>1, <2>2, <2>3 DEF Cancel
<1>8. ASSUME NEW t \in Timer, Recover(t) PROVE Types'
  BY <1>8 DEF Recover, Put
<1>9. CASE List
  BY <1>9 DEF List, Fails, StillPending
<1>10. CASE Load
  BY <1>10 DEF Load, Unlocked
<1>11. CASE Handle
  BY <1>11 DEF Handle
<1>12. CASE Start
  BY <1>12 DEF Start, Fails, Tasks, StillPending
<1>13. CASE Shutdown
  BY <1>13 DEF Shutdown
<1>14. CASE Restart
  BY <1>14 DEF Restart
<1>15. CASE UNCHANGED rvars
  BY <1>15 DEF rvars
<1> QED
  BY <1>1, <1>2, <1>3, <1>4, <1>5, <1>6, <1>7, <1>8, <1>9, <1>10, <1>11, <1>12, <1>13, <1>14, <1>15
  DEF TimerNext, Fires, Starting

\* No step leaves anything of a timer that was not saved.
LEMMA KnownStep == Types /\ Known /\ [TimerNext]_rvars => Known'
<1> SUFFICES ASSUME Types, Known, [TimerNext]_rvars PROVE Known'
  OBVIOUS
<1> USE TimerAssumption DEF Types, TimerTypeOK, Known
<1>1. ASSUME NEW t \in Timer, Add(t) PROVE Known'
  BY <1>1 DEF Add, Fails
<1>2. ASSUME NEW t \in Timer, Expire(t) PROVE Known'
  BY <1>2 DEF Expire
<1>3. ASSUME NEW t \in Timer, Arm(t) PROVE Known'
  BY <1>3 DEF Arm
<1>4. ASSUME NEW t \in Timer, Wake(t) PROVE Known'
  BY <1>4 DEF Wake
<1>5. ASSUME NEW t \in Timer, Send(t) PROVE Known'
  BY <1>5 DEF Send, Put
<1>6. ASSUME NEW t \in Timer, Delete(t) PROVE Known'
  BY <1>6 DEF Delete, Fails
<1>7. ASSUME NEW t \in Timer, Cancel(t) PROVE Known'
  BY <1>7 DEF Cancel, Fails, Unlocked
<1>8. ASSUME NEW t \in Timer, Recover(t) PROVE Known'
  BY <1>8 DEF Recover, Put
<1>9. CASE List
  BY <1>9 DEF List, Fails, StillPending
<1>10. CASE Load
  BY <1>10 DEF Load, Unlocked
<1>11. CASE Handle
  BY <1>11 DEF Handle
<1>12. CASE Start
  BY <1>12 DEF Start, Fails, Tasks, StillPending
<1>13. CASE Shutdown
  BY <1>13 DEF Shutdown
<1>14. CASE Restart
  BY <1>14 DEF Restart
<1>15. CASE UNCHANGED rvars
  BY <1>15 DEF rvars
<1> QED
  BY <1>1, <1>2, <1>3, <1>4, <1>5, <1>6, <1>7, <1>8, <1>9, <1>10, <1>11, <1>12, <1>13, <1>14, <1>15
  DEF TimerNext, Fires, Starting

\* A row goes only after its entry was sent, cancelled or cleared.
LEMMA RowsStep == Types /\ Known /\ Rows /\ [TimerNext]_rvars => Rows'
<1> SUFFICES ASSUME Types, Known, Rows, [TimerNext]_rvars PROVE Rows'
  OBVIOUS
<1> USE TimerAssumption DEF Types, TimerTypeOK, Known, Rows, RowUntilSent
<1>1. ASSUME NEW t \in Timer, Add(t) PROVE Rows'
  BY <1>1 DEF Add, Fails
<1>2. ASSUME NEW t \in Timer, Expire(t) PROVE Rows'
  BY <1>2 DEF Expire
<1>3. ASSUME NEW t \in Timer, Arm(t) PROVE Rows'
  BY <1>3 DEF Arm
<1>4. ASSUME NEW t \in Timer, Wake(t) PROVE Rows'
  BY <1>4 DEF Wake
<1>5. ASSUME NEW t \in Timer, Send(t) PROVE Rows'
  BY <1>5 DEF Send, Put
<1>6. ASSUME NEW t \in Timer, Delete(t) PROVE Rows'
  BY <1>6 DEF Delete, Fails
<1>7. ASSUME NEW t \in Timer, Cancel(t) PROVE Rows'
  BY <1>7 DEF Cancel, Fails, Unlocked
<1>8. ASSUME NEW t \in Timer, Recover(t) PROVE Rows'
  BY <1>8 DEF Recover, Put
<1>9. CASE List
  BY <1>9 DEF List, Fails, StillPending
<1>10. CASE Load
  BY <1>10 DEF Load, Unlocked
<1>11. CASE Handle
  BY <1>11 DEF Handle
<1>12. CASE Start
  BY <1>12 DEF Start, Fails, Tasks, StillPending
<1>13. CASE Shutdown
  BY <1>13 DEF Shutdown
<1>14. CASE Restart
  BY <1>14 DEF Restart
<1>15. CASE UNCHANGED rvars
  BY <1>15 DEF rvars
<1> QED
  BY <1>1, <1>2, <1>3, <1>4, <1>5, <1>6, <1>7, <1>8, <1>9, <1>10, <1>11, <1>12, <1>13, <1>14, <1>15
  DEF TimerNext, Fires, Starting

\* What was sent is not going to be sent again.
LEMMA OnceStep == Types /\ Known /\ Once /\ [TimerNext]_rvars => Once'
<1> SUFFICES ASSUME Types, Known, Once, [TimerNext]_rvars PROVE Once'
  OBVIOUS
<1> USE TimerAssumption DEF Types, TimerTypeOK, Known, Once, Unsent
<1>1. ASSUME NEW t \in Timer, Add(t) PROVE Once'
  BY <1>1 DEF Add, Fails
<1>2. ASSUME NEW t \in Timer, Expire(t) PROVE Once'
  BY <1>2 DEF Expire
<1>3. ASSUME NEW t \in Timer, Arm(t) PROVE Once'
  BY <1>3 DEF Arm
<1>4. ASSUME NEW t \in Timer, Wake(t) PROVE Once'
  BY <1>4 DEF Wake
<1>5. ASSUME NEW t \in Timer, Send(t) PROVE Once'
  BY <1>5 DEF Send, Put
<1>6. ASSUME NEW t \in Timer, Delete(t) PROVE Once'
  BY <1>6 DEF Delete, Fails
<1>7. ASSUME NEW t \in Timer, Cancel(t) PROVE Once'
  BY <1>7 DEF Cancel, Fails, Unlocked
<1>8. ASSUME NEW t \in Timer, Recover(t) PROVE Once'
  BY <1>8 DEF Recover, Put
<1>9. CASE List
  BY <1>9 DEF List, Fails, StillPending
<1>10. CASE Load
  BY <1>10 DEF Load, Unlocked
<1>11. CASE Handle
  BY <1>11 DEF Handle
<1>12. CASE Start
  BY <1>12 DEF Start, Fails, Tasks, StillPending
<1>13. CASE Shutdown
  BY <1>13 DEF Shutdown
<1>14. CASE Restart
  BY <1>14 DEF Restart
<1>15. CASE UNCHANGED rvars
  BY <1>15 DEF rvars
<1> QED
  BY <1>1, <1>2, <1>3, <1>4, <1>5, <1>6, <1>7, <1>8, <1>9, <1>10, <1>11, <1>12, <1>13, <1>14, <1>15
  DEF TimerNext, Fires, Starting

\* What was cancelled comes back to no task and to no start.
LEMMA QuietStep == Types /\ Known /\ Quiet /\ [TimerNext]_rvars => Quiet'
<1> SUFFICES ASSUME Types, Known, Quiet, [TimerNext]_rvars PROVE Quiet'
  OBVIOUS
<1> USE TimerAssumption DEF Types, TimerTypeOK, Known, Quiet
<1>1. ASSUME NEW t \in Timer, Add(t) PROVE Quiet'
  BY <1>1 DEF Add, Fails
<1>2. ASSUME NEW t \in Timer, Expire(t) PROVE Quiet'
  BY <1>2 DEF Expire
<1>3. ASSUME NEW t \in Timer, Arm(t) PROVE Quiet'
  BY <1>3 DEF Arm
<1>4. ASSUME NEW t \in Timer, Wake(t) PROVE Quiet'
  BY <1>4 DEF Wake
<1>5. ASSUME NEW t \in Timer, Send(t) PROVE Quiet'
  BY <1>5 DEF Send, Put
<1>6. ASSUME NEW t \in Timer, Delete(t) PROVE Quiet'
  BY <1>6 DEF Delete, Fails
<1>7. ASSUME NEW t \in Timer, Cancel(t) PROVE Quiet'
  BY <1>7 DEF Cancel, Fails, Unlocked
<1>8. ASSUME NEW t \in Timer, Recover(t) PROVE Quiet'
  BY <1>8 DEF Recover, Put
<1>9. CASE List
  BY <1>9 DEF List, Fails, StillPending
<1>10. CASE Load
  BY <1>10 DEF Load, Unlocked
<1>11. CASE Handle
  BY <1>11 DEF Handle
<1>12. CASE Start
  BY <1>12 DEF Start, Fails, Tasks, StillPending
<1>13. CASE Shutdown
  BY <1>13 DEF Shutdown
<1>14. CASE Restart
  BY <1>14 DEF Restart
<1>15. CASE UNCHANGED rvars
  BY <1>15 DEF rvars
<1> QED
  BY <1>1, <1>2, <1>3, <1>4, <1>5, <1>6, <1>7, <1>8, <1>9, <1>10, <1>11, <1>12, <1>13, <1>14, <1>15
  DEF TimerNext, Fires, Starting

----------------------------------------------------------------------------
(* The theorems.                                                           *)

\* A wheel that was just made, over rows nobody has written yet.
LEMMA TimerInvInit == TimerInit => TimerInv
BY TimerAssumption DEF TimerInit, TimerInv, Types, TimerTypeOK, Known, Rows, RowUntilSent,
   Once, Unsent, Quiet

\* The invariant holds in every reachable state.
LEMMA AlwaysTimerInv == TimerSpec => []TimerInv
<1>1. TimerInv /\ [TimerNext]_rvars => TimerInv'
  BY TypesStep, KnownStep, RowsStep, OnceStep, QuietStep DEF TimerInv
<1> QED BY <1>1, TimerInvInit, PTL DEF TimerSpec

\* Every operation of the wheel keeps the types; the channel stays within its
\* capacity whoever sends.
THEOREM TimerTypeTheorem == TimerSpec => []TimerTypeOK
<1>1. TimerInv => TimerTypeOK BY DEF TimerInv, Types
<1> QED BY <1>1, AlwaysTimerInv, PTL

\* schedule_timer_entry and recover_timers: the row in PostgreSQL of a timer that
\* nobody cancelled or cleared stays until its entry is in the channel.
THEOREM RowUntilSentTheorem == TimerSpec => []RowUntilSent
<1>1. TimerInv => RowUntilSent BY DEF TimerInv, Rows
<1> QED BY <1>1, AlwaysTimerInv, PTL

\* The spawned tasks and start between them send a timer once in the life of a
\* wheel, unless start read it as expired when this life had a task for it or had
\* sent it.
THEOREM OncePerLifeTheorem == TimerSpec => []OncePerLife
<1>1. TimerInv => OncePerLife BY DEF TimerInv, Once, OncePerLife
<1> QED BY <1>1, AlwaysTimerInv, PTL

\* cancel: no step, in this life or a later one, sends what a call cancelled, unless
\* start had read it before the call or reads it as pending in PostgreSQL.
THEOREM CancelledStaysQuietTheorem == TimerSpec => CancelledStaysQuiet
<1>1. TimerInv /\ [TimerNext]_rvars => [\A t \in cancelled \ revived : sent'[t] <= sent[t]]_rvars
  <2> SUFFICES ASSUME TimerInv, TimerNext, NEW c \in cancelled \ revived
               PROVE  sent'[c] <= sent[c]
    OBVIOUS
  <2>1. /\ c \in Timer /\ sent \in [Timer -> Nat]
        /\ c \notin todo /\ task[c] # "sending"
    BY DEF TimerInv, Types, TimerTypeOK, Quiet
  <2>2. ASSUME NEW t \in Timer, Send(t) \/ Recover(t) PROVE sent'[c] <= sent[c]
    BY <2>1, <2>2 DEF Send, Recover, Put
  <2>3. CASE Restart
    BY <2>1, <2>3 DEF Restart
  <2>4. sent' = sent \/ Restart \/ \E t \in Timer : Send(t) \/ Recover(t)
    BY DEF TimerNext, Fires, Starting, Add, Expire, Arm, Wake, Delete, Cancel, List, Load, Handle,
       Start, Shutdown
  <2> QED BY <2>1, <2>2, <2>3, <2>4
<1> QED BY <1>1, AlwaysTimerInv, PTL DEF TimerSpec, CancelledStaysQuiet
=============================================================================
