---------------------------- MODULE MCQueueBroker ----------------------------
(* Two consumer threads of two instances that carry the same thread name,  *)
(* two messages, a lease of two clock units and a retry delay of one.      *)
EXTENDS QueueBroker

CONSTANTS w1, w2, ingestionWorker1

MCWorkers == {w1, w2}
MCNames == {ingestionWorker1}
MCThreadName == [w \in MCWorkers |-> ingestionWorker1]
=============================================================================
