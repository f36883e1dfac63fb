------------------------------ MODULE MCProcess ------------------------------
(* What runs inside a process, for TLC: its workers, the engine that starts *)
(* and stops them, and the machines that evaluate expressions.  None writes *)
(* what another reads, so a behaviour is one of the three.                  *)
EXTENDS MCWorker, Engine, ExprVm

CONSTANTS u1, u2

VARIABLE part

\* Every part has its own initial states and one of the others, in which nothing
\* of theirs is under way.
ProcessInit ==
  /\ part \in {"worker", "engine", "expr"}
  /\ WorkerInit /\ EngineInit /\ ExprInit
  /\ IF part = "worker"
       THEN Deployments
       ELSE /\ broker = "rabbitmq" /\ runtime = "shell"
            /\ \A w \in Worker : phase[w] = "dead"
  /\ part # "engine" => mode = "Standalone"
  /\ part # "expr"   => size = 1

ProcessNext ==
  /\ UNCHANGED part
  /\ \/ part = "worker" /\ WorkerNext /\ Publications /\ UNCHANGED <<evars, xvars>>
     \/ part = "engine" /\ EngineNext /\ UNCHANGED <<wvars, xvars>>
     \/ part = "expr" /\ ExprNext /\ UNCHANGED <<wvars, evars>>

ProcessSpec == /\ ProcessInit /\ [][ProcessNext]_<<part, wvars, evars, xvars>>
               /\ WorkerFairness /\ EngineFairness

\* The type invariant of the process: that of its workers, of its engine and of
\* its machines.
ProcessTypeOK == WorkerTypeOK /\ EngineTypeOK /\ ExprTypeOK
=============================================================================
