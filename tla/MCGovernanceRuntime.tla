---- MODULE MCGovernanceRuntime ----
(* GovernanceRuntime on a new installation, on one that has left an event without its input, and on *)
(* two that cannot be served; a judgment whose candidates are rejected and held, and one whose      *)
(* second candidate is accepted (MCGovernedGateway observes one whose first is), under the context  *)
(* the server binds.                                                                                *)
EXTENDS GovernanceRuntime, TLC

CONSTANTS d1, d2, a1, a2

MCJudgments == {[beyond |-> 180000, destructive |-> 720000],
                [beyond |-> 180000, destructive |-> 950000]}

Left(d, policy, context) ==
    [EmptyStore EXCEPT
        !.events = <<[id |-> 1, kernelEvent |-> 1, domain |-> d, version |-> 0, transitions |-> {},
                      judgment |-> [beyond |-> 180000, destructive |-> 720000],
                      context |-> context, policy |-> policy]>>,
        !.issued.event = 1]
MCInitialFiles ==
    {EmptyStore} \cup
    UNION {{Left(d, "none", DemoContext(1)), Left(d, "other", DemoContext(1)),
            Left(d, "current", [DemoContext(1) EXCEPT !.now = 20])} : d \in Domains}
MCSymmetry == Permutations(Domains) \cup Permutations(Actions)
====
