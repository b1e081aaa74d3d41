------------------------------ MODULE Admission ------------------------------
(***************************************************************************)
(* Evidence Admission v0.1 (src/src/admission.rs): the deterministic       *)
(* boundary between a probabilistic judgment and the relation state.       *)
(*                                                                         *)
(* Confidence and reliability are parts per million, as in the code.  An   *)
(* AdmissionDecision is named by its class or reason alone: the three      *)
(* families Accept, Hold and Reject are disjoint sets of names.            *)
(***************************************************************************)
EXTENDS Naturals

PPM == 1000000
MinSourceReliability == 600000
MinReviewConfidence == 600000
StrongConfidence == 900000
StrongReliability == 800000
CorroboratedConfidence == 700000
CorroboratedReliability == 700000
MinCorroborators == 2

EvidenceKind == {"BeyondScope", "DestructiveAction", "Unsupported"}
IsSupported(kind) == kind \in {"BeyondScope", "DestructiveAction"}

Accept == {"Strong", "Corroborated"}
Hold == {"NeedsCorroborationOrReview"}
Reject == {"UnsupportedKind", "Expired", "SourceBelowTrustFloor", "InsufficientSupport"}
AdmissionDecision == Accept \cup Hold \cup Reject
IsAccepted(decision) == decision \in Accept

(***************************************************************************)
(* What the trusted adapter binds to a judgment.  AdmissionContext::new    *)
(* panics outside ValidContext; a struct literal can still build a context *)
(* whose expiry has passed.                                                *)
(***************************************************************************)
AdmissionContext == [reliability: 0..PPM, corroborators: Nat, now: Nat, expires: Nat]
ValidContext(context) == context.reliability <= PPM /\ context.expires >= context.now
DemoContext(now) ==
    [reliability |-> 850000, corroborators |-> 0, now |-> now, expires |-> now + 10]

IsStrong(confidence, context) ==
    /\ confidence >= StrongConfidence
    /\ context.reliability >= StrongReliability

(* Seeded fault: only the second corroborator counts. *)
IsCorroboratedByExactlyTwo(confidence, context) ==
    /\ confidence >= CorroboratedConfidence
    /\ context.reliability >= CorroboratedReliability
    /\ context.corroborators = MinCorroborators

IsCorroborated(confidence, context) ==
    /\ confidence >= CorroboratedConfidence
    /\ context.reliability >= CorroboratedReliability
    /\ context.corroborators >= MinCorroborators

(* The order of the tests is normative: the first that applies decides. *)
Graded(confidence, context) ==
    IF context.reliability < MinSourceReliability THEN "SourceBelowTrustFloor"
    ELSE IF IsStrong(confidence, context) THEN "Strong"
    ELSE IF IsCorroborated(confidence, context) THEN "Corroborated"
    ELSE IF confidence >= MinReviewConfidence THEN "NeedsCorroborationOrReview"
    ELSE "InsufficientSupport"

Admit(kind, confidence, context) ==
    CASE ~IsSupported(kind) -> "UnsupportedKind"
      [] IsSupported(kind) /\ context.now > context.expires -> "Expired"
      [] OTHER -> Graded(confidence, context)
=============================================================================
