--------------------------- MODULE ThresholdCompare ---------------------------
(***************************************************************************)
(* The experiment src/src/bin/compare.rs: the same threshold with and      *)
(* without memory.  The stateless arm answers each tool call from its own  *)
(* judgment; the stateful arm lets a judgment suspend authorization until  *)
(* a human override.                                                       *)
(***************************************************************************)
EXTENDS Naturals

CONSTANTS
    Scores,   \* the ppm values judgments take
    MaxRows   \* bound on the length of a scenario

BeyondScopeThreshold == 850000
DestructiveThreshold == 900000
Decisions == {"Allow", "Deny"}

VARIABLES
    step,        \* rows read
    auth,        \* the stateful arm's authorization
    stateless,   \* metrics of each arm
    stateful,
    inherited    \* history: calls whose own judgment allowed them under a suspension

vars == <<step, auth, stateless, stateful, inherited>>

Metrics == [calls: Nat, correct: Nat, falseAllows: Nat, falseDenies: Nat]
NoMetrics == [calls |-> 0, correct |-> 0, falseAllows |-> 0, falseDenies |-> 0]

Init ==
    /\ step = 0
    /\ auth = "Active"
    /\ stateless = NoMetrics /\ stateful = NoMetrics
    /\ inherited = 0

-----------------------------------------------------------------------------
(* Metrics::observe. *)
One(condition) == IF condition THEN 1 ELSE 0
Scored(metrics, got, expected) ==
    [calls |-> metrics.calls + 1,
     correct |-> metrics.correct + One(got = expected),
     falseAllows |-> metrics.falseAllows + One(got /= expected /\ got = "Allow"),
     falseDenies |-> metrics.falseDenies + One(got /= expected /\ got = "Deny")]

ThresholdDecision(beyond, destructive) ==
    IF beyond >= BeyondScopeThreshold \/ destructive >= DestructiveThreshold THEN "Deny" ELSE "Allow"

AuthAfter(beyond, destructive) ==
    IF ThresholdDecision(beyond, destructive) = "Deny" THEN "Suspended" ELSE auth

StatefulDecision(authorization) == IF authorization = "Active" THEN "Allow" ELSE "Deny"

Read == step < MaxRows /\ step' = step + 1

HumanOverride ==
    /\ Read
    /\ auth' = "Active"
    /\ UNCHANGED <<stateless, stateful, inherited>>

ReviewFailure ==
    /\ Read
    /\ auth' = "Suspended"
    /\ UNCHANGED <<stateless, stateful, inherited>>

(* The judgment changes the state first; the state then answers the call. *)
ToolCall(beyond, destructive, expected) ==
    /\ Read
    /\ auth' = AuthAfter(beyond, destructive)
    /\ LET own == ThresholdDecision(beyond, destructive)
       IN  /\ stateless' = Scored(stateless, own, expected)
           /\ stateful' = Scored(stateful, StatefulDecision(auth'), expected)
           /\ inherited' = IF own = "Allow" /\ auth' = "Suspended" THEN inherited + 1 ELSE inherited

Next ==
    \/ HumanOverride
    \/ ReviewFailure
    \/ \E beyond, destructive \in Scores, expected \in Decisions:
         ToolCall(beyond, destructive, expected)

Spec == Init /\ [][Next]_vars

-----------------------------------------------------------------------------
(* Every variable keeps its type. *)
TypeOK ==
    /\ step \in Nat
    /\ auth \in {"Active", "Suspended"}
    /\ stateless \in Metrics /\ stateful \in Metrics
    /\ inherited \in Nat

(* What memory does to the errors (the experiment's README: it reduces      *)
(* missed enforcement and amplifies a bad judgment): whatever the labels    *)
(* say, the stateful arm misses no call the stateless arm stops and wrongly *)
(* denies every call the other wrongly denies; and the two differ by the    *)
(* calls that inherited a suspension, no more.                              *)
MemoryTradesMissesForDenials ==
    /\ stateful.falseAllows <= stateless.falseAllows
    /\ stateless.falseDenies <= stateful.falseDenies
    /\ (stateless.falseAllows - stateful.falseAllows)
        + (stateful.falseDenies - stateless.falseDenies) = inherited
=============================================================================
