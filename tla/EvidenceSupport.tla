--------------------------- MODULE EvidenceSupport ---------------------------
(***************************************************************************)
(* One typed evidence candidate while its support grows and its clock      *)
(* runs: the adapter re-submits it with a higher probability, a more       *)
(* reliable source, another corroborator, or later.  The policy            *)
(* (Admission!Admit) answers each submission anew; the module relates the  *)
(* answers.                                                                *)
(*                                                                         *)
(* The judge speaks in probabilities, which need not even lie between 0    *)
(* and 1; the policy compares parts per million (src/src/model.rs).  A     *)
(* probability is an integer here, in tenths of a part per million, so     *)
(* that its rounding shows.                                                *)
(***************************************************************************)
EXTENDS Admission, Integers

CONSTANTS
    Probabilities,                \* what the judge says, in tenths of a ppm
    Reliabilities,                \* the source's reliability, in ppm
    MaxCorroborators, MaxTick     \* bounds on corroborators and virtual time

ASSUME ProbabilitiesAssumption == Probabilities \subseteq Int
ASSUME PpmAssumption == Reliabilities \subseteq 0..PPM
ASSUME BoundsAssumption == MaxCorroborators \in Nat /\ MaxTick \in Nat

VARIABLES kind, probability, context

vars == <<kind, probability, context>>

Tenths(ppm) == 10 * ppm

(* Seeded fault: rounded up. *)
ProbabilityRoundedUp(p) ==
    CASE p < 0 -> 0
      [] p > Tenths(PPM) -> PPM
      [] OTHER -> (p + 9) \div 10

(* Clamped, then rounded half up. *)
ProbabilityToPpm(p) ==
    CASE p < 0 -> 0
      [] p > Tenths(PPM) -> PPM
      [] OTHER -> (p + 5) \div 10

Init ==
    /\ kind \in EvidenceKind
    /\ probability \in Probabilities
    /\ \E reliability \in Reliabilities, now, expires \in 0..MaxTick:
         /\ context = [reliability |-> reliability, corroborators |-> 0,
                       now |-> now, expires |-> expires]
         /\ ValidContext(context)

Resubmit(p, submitted) ==
    /\ probability' = p
    /\ context' = submitted
    /\ UNCHANGED kind

RaiseProbability ==
    \E p \in Probabilities: p > probability /\ Resubmit(p, context)

RaiseReliability ==
    \E r \in Reliabilities:
        r > context.reliability /\ Resubmit(probability, [context EXCEPT !.reliability = r])

Corroborate ==
    /\ context.corroborators < MaxCorroborators
    /\ Resubmit(probability, [context EXCEPT !.corroborators = @ + 1])

Tick ==
    /\ context.now < MaxTick
    /\ Resubmit(probability, [context EXCEPT !.now = @ + 1])

Next == RaiseProbability \/ RaiseReliability \/ Corroborate \/ Tick

Spec == Init /\ [][Next]_vars

-----------------------------------------------------------------------------
Answer == Admit(kind, ProbabilityToPpm(probability), context)

(* The inputs stay in the ranges the policy's assertions require, and every *)
(* input gets one of the policy's seven answers.                            *)
TypeOK ==
    /\ kind \in EvidenceKind
    /\ probability \in Probabilities
    /\ context \in AdmissionContext
    /\ Answer \in AdmissionDecision

AtLeast(p, ppm) == p >= Tenths(ppm) - 5

(* Confidence alone is never authority: what is accepted is supported, not  *)
(* expired, from a source above the trust floor and the floor of its class, *)
(* and below 900k only with two corroborators.  The judge itself may have   *)
(* stayed below the threshold by half a part per million, never by more.    *)
AcceptanceIsEarned ==
    IsAccepted(Answer) =>
        /\ kind /= "Unsupported"
        /\ context.now <= context.expires
        /\ AtLeast(probability, CorroboratedConfidence)
        /\ context.reliability >= CorroboratedReliability
        /\ (~AtLeast(probability, StrongConfidence) \/ context.reliability < StrongReliability)
              => context.corroborators >= MinCorroborators

Rank(decision) == IF decision \in Reject THEN 0 ELSE IF decision \in Hold THEN 1 ELSE 2

(* More support never weakens the answer: no threshold of a later test is   *)
(* shadowed by an earlier one.  Time only ever takes an answer away, and    *)
(* once expired the evidence stays rejected whatever support arrives.       *)
SupportIsMonotone ==
    [][/\ context'.now = context.now => Rank(Answer') >= Rank(Answer)
       /\ context'.now > context.now => Answer' \in {Answer, "Expired"}
       /\ Answer = "Expired" => Answer' = "Expired"]_vars
=============================================================================
