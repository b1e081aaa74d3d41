---- MODULE MCGovernedGateway ----
(* GovernedGateway with two gated calls and a suspending observation under way together.  Only the   *)
(* governed domain is there: GovernanceRuntime's own run has two, and observations without effect.   *)
EXTENDS GovernedGateway, TLC
CONSTANTS d1, c1, c2, o1
MCJudgments == {[beyond |-> 940000, destructive |-> 180000]}
MCInitialFiles == {EmptyStore}
MCSymmetry == Permutations(Actions)
====
