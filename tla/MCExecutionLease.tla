-------------------------- MODULE MCExecutionLease --------------------------
(* ExecutionLease on a small instance: one execution contended by two      *)
(* workers in different regions.                                           *)
EXTENDS ExecutionLease, TLC

CONSTANTS w1, w2, e1, north, south

MCWorkers == {w1, w2}
MCExecutions == {e1}
MCRemote == {w2}
MCMaxConcurrency == [w \in MCWorkers |-> 1]
MCProvides == (w1 :> {}) @@ (w2 :> {"gpu"})
MCRegionOf == (w1 :> north) @@ (w2 :> south)
MCRegions == {north, south}

=============================================================================
