---- MODULE MCR2RKernel ----
(* R2RKernel with one judgment per fate of a candidate: rejected, held, corroborated, strong. *)
EXTENDS R2RKernel

MCConfidences == {180000, 720000, 940000}
MCJudgments == [beyond: MCConfidences, destructive: MCConfidences]
MCContexts ==
    {DemoContext(1),
     [reliability |-> 750000, corroborators |-> 2, now |-> 1, expires |-> 1],
     [reliability |-> 400000, corroborators |-> 2, now |-> 1, expires |-> 2]}
====
