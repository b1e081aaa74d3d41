---- MODULE MCDamagedStore ----
(* GovernanceRuntime started on a file that has lost the events of one domain and kept the version *)
(* it had given that domain.                                                                        *)
EXTENDS GovernanceRuntime

CONSTANTS d1, d2, a1

Risky == [beyond |-> 940000, destructive |-> 720000]
MCJudgments == {Risky}

Suspension == {[relation |-> "trust", id |-> 1, to |-> "Warning"],
               [relation |-> "delegation", id |-> 1, to |-> "Degraded"],
               [relation |-> "authorization", id |-> 1, to |-> "Suspended"]}

Logged(id, d) ==
    [id |-> id, kernelEvent |-> 1, domain |-> d, version |-> 1, transitions |-> Suspension,
     judgment |-> Risky, context |-> DemoContext(1), policy |-> "current"]

MCInitialFiles ==
    {[EmptyStore EXCEPT !.events = <<Logged(2, d2)>>,    \* event 1, of d1, is lost
                        !.versions = [d \in Domains |-> 1],
                        !.issued.event = 2]}
====
