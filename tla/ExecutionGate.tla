---------------------------- MODULE ExecutionGate ----------------------------
(***************************************************************************)
(* What enforcement promises of a governed tool call, whatever the         *)
(* transport does: a call is decided at most once, and runs at most once   *)
(* and only after a decision that allowed it.                              *)
(***************************************************************************)
EXTENDS Naturals

CONSTANT Calls   \* the governed tool calls

VARIABLES
    verdict,   \* per call: "none", or the decision issued for it
    ran        \* per call: how often the tool ran

vars == <<verdict, ran>>

Init ==
    /\ verdict = [c \in Calls |-> "none"]
    /\ ran = [c \in Calls |-> 0]

Decide(c, v) ==
    /\ verdict[c] = "none"
    /\ verdict' = [verdict EXCEPT ![c] = v]
    /\ UNCHANGED ran

Run(c) ==
    /\ verdict[c] = "ALLOW"
    /\ ran[c] = 0
    /\ ran' = [ran EXCEPT ![c] = 1]
    /\ UNCHANGED verdict

Next == \E c \in Calls: Run(c) \/ \E v \in {"ALLOW", "DENY"}: Decide(c, v)

Spec == Init /\ [][Next]_vars
=============================================================================
