------------------------------ MODULE MCWorker ------------------------------
(* Workers for TLC: one with two slots and one with a single slot.  All the *)
(* runtimes run on the in-memory broker, the shell on RabbitMQ.             *)
EXTENDS Worker

CONSTANTS w1, w2, t1, t2

TwoAndOne == {<<w1, 1>>, <<w1, 2>>, <<w2, 1>>}

TwoSlots  == {<<w1, 1>>, <<w1, 2>>}

\* Both workers are up on RabbitMQ, where the runtime makes no difference.
Deployments == broker = "rabbitmq" => runtime = "shell" /\ phase[w2] = "up"

\* Two tasks for the worker with a single slot in memory, one for the others.
Publications ==
  broker = "rabbitmq" \/ phase[w1] # "dead" => sent' \subseteq {t1}
=============================================================================
