----------------------------- MODULE JobPromise -----------------------------
(***************************************************************************)
(* What the engine promises the user who submits a job and leaves it       *)
(* alone: its tasks complete one after the other in the order of the list, *)
(* and it ends once, as Completed after the last of them or as Failed.     *)
(***************************************************************************)
EXTENDS Naturals

VARIABLES
  total,   \* the number of tasks in the job's list
  done,    \* how many of them have completed
  phase    \* what the user sees of the job

vars == <<total, done, phase>>

Init == total \in Nat \ {0} /\ done = 0 /\ phase = "Waiting"

Start ==
  /\ phase = "Waiting"
  /\ phase' = "Active"
  /\ UNCHANGED <<total, done>>

\* A task skipped by its `if` completes like any other.
CompleteTask ==
  /\ phase = "Active" /\ done < total
  /\ done' = done + 1
  /\ UNCHANGED <<total, phase>>

Complete ==
  /\ phase = "Active" /\ done = total
  /\ phase' = "Completed"
  /\ UNCHANGED <<total, done>>

Fail ==
  /\ phase = "Active" /\ done < total
  /\ phase' = "Failed"
  /\ UNCHANGED <<total, done>>

Next == Start \/ CompleteTask \/ Complete \/ Fail

Spec == Init /\ [][Next]_vars /\ WF_vars(Complete)
=============================================================================
