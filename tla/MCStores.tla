------------------------------ MODULE MCStores ------------------------------
(* What depends on the store it is kept in, for TLC: the fan-in of three    *)
(* subtasks on either datastore, and a timer wheel on either persistence.   *)
(* Neither writes what the other reads, so a behaviour is one of the two.   *)
EXTENDS MCFanIn, TimerWheel

CONSTANTS t1, t2, t3

VARIABLE part

StoresInit ==
  /\ part \in {"fanin", "timers"}
  /\ Init /\ TimerInit
  /\ part # "fanin"  => store = "inmemory"
  /\ part # "timers" => persistence = "postgres"

\* Two delays, or a delay and a cron timer.
TwoTimers == ~({t2, t3} \subseteq saved')

StoresNext ==
  /\ UNCHANGED part
  /\ \/ part = "fanin" /\ Next /\ UNCHANGED rvars
     \/ part = "timers" /\ TimerNext /\ TwoTimers /\ UNCHANGED vars

\* Fairness, of a fan-in that is the part that runs: it starts with its subtasks
\* under way.
FanInFairness ==
  /\ \A s \in Subtask : /\ WF_vars(part = "fanin" /\ WorkerReports(s))
                        /\ WF_vars(part = "fanin" /\ HandleReport(s))
  /\ WF_vars(part = "fanin" /\ FailJob)
  /\ WF_vars(part = "fanin" /\ ParentCompleted)

StoresSpec == /\ StoresInit /\ [][StoresNext]_<<part, vars, rvars>>
              /\ FanInFairness /\ TimerFairness

\* The type invariant of the parent and its subtasks, and of the timers.
StoresTypeOK == TypeOK /\ TimerTypeOK
=============================================================================
