-------------------------- MODULE MCWorkersBroker --------------------------
(* Small instances of WorkersBroker for TLC *)
EXTENDS WorkersBroker

CONSTANTS a1, a2, t1, t2, t3

\* Two cacheable tasks of two applications and an action, never cached
MCAppOf == [t \in Tasks |-> IF t = t2 THEN a2 ELSE a1]

\* Bound of the largest instance
OneDeath == Cardinality({w \in Workers : proc[w] = "dead"}) <= 1

=============================================================================
