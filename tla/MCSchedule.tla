----------------------------- MODULE MCSchedule -----------------------------
(* The two halves of the scheduled jobs for TLC: the events that decide     *)
(* which cron entries there are, and what their ticks do.  Neither writes   *)
(* what the other reads, so a behaviour is one or the other.                *)
EXTENDS Schedule, Trigger

CONSTANTS c1, c2, u1, u2, k1, k2, t1, t2, t3

VARIABLE part

MCInit ==
  /\ ScheduleInit /\ TriggerInit
  /\ \/ part = "events" /\ locker = "memory"
     \/ part = "ticks" /\ deployment = "memory"

MCNext ==
  /\ UNCHANGED part
  /\ \/ part = "events" /\ ScheduleNext /\ UNCHANGED tvars
     \/ part = "ticks" /\ TriggerNext /\ UNCHANGED svars

MCSpec == /\ MCInit /\ [][MCNext]_<<part, svars, tvars>>
          /\ ScheduleFairness /\ TriggerFairness

\* The type invariant of the scheduled job and of the ticks.
PeriodicTypeOK == ScheduleTypeOK /\ TriggerTypeOK
=============================================================================
