--------------------------- MODULE MCCoordinator ---------------------------
(* Instances of the coordinator for TLC: the workflows the .cfg files pick. *)
EXTENDS Coordinator

CONSTANTS a, b, c, s, fan, sub

MCStep == {a, b, c, s, fan, sub}

MCKind == [x \in MCStep |-> IF x = fan THEN "fanout"
                            ELSE IF x = sub THEN "subjob" ELSE "regular"]

\* The parallel has the same subtask twice, as an each over two items has; the
\* subjob has a list of two.
MCChildren == [x \in MCStep |-> IF x = fan THEN <<b, b>>
                                ELSE IF x = sub THEN <<b, c>> ELSE <<>>]

\* A parallel of a subjob and two regular tasks, on which CancelsAll fails.
MixedChildren == [MCChildren EXCEPT ![fan] = <<sub, b, b>>]

MCSkipped == {s}

\* a, the fan-out's subtask and the subjob's first task may be retried once.
RetryOnce(S) == [x \in MCStep |-> IF x \in S THEN 1 ELSE 0]
RetryNone == RetryOnce({})
RetryA    == RetryOnce({a})
RetrySub  == RetryOnce({sub})

\* Regular, fan-out and skipped tasks in a row; a subjob before a regular task.
AllKinds == {<<a, fan, s>>, <<sub, c>>}
TwoSteps == {<<a, c>>}
OneStep   == {<<c>>}
OneSubjob == {<<sub>>}
OneFan    == {<<fan>>}
\* What users may do to: one task, two regular tasks in a row, or a subjob alone.
UserWorkflows == OneStep \cup TwoSteps \cup OneSubjob

\* Three calls in all states for the single task; two calls and cancels of a
\* scheduled job only for the others.
Bounds ==
  jobs[1].tasks # <<c>> =>
    calls' <= 2 /\ \A j \in DOMAIN jobs :
      calls' > calls /\ jobs[j].state \notin {"Scheduled", "Failed", "Cancelled"}
        => jobs'[j] = jobs[j]
=============================================================================
