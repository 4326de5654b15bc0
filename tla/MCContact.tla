------------------------------ MODULE MCContact ------------------------------
(* WorkerContact with one execution and two workers with one slot each;    *)
(* regions and capabilities are exercised with ExecutionLease alone.       *)
EXTENDS WorkerContact

CONSTANTS w1, w2, e1

MCWorkers == {w1, w2}
MCExecutions == {e1}
MCMaxConcurrency == [w \in MCWorkers |-> 1]
MCProvides == [w \in MCWorkers |-> {}]
MCRequires == [e \in MCExecutions |-> {}]
MCRegionOf == [w \in MCWorkers |-> NoRegion]

=============================================================================
