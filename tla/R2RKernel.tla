------------------------------ MODULE R2RKernel ------------------------------
(***************************************************************************)
(* One governance kernel (src/src/r2r.rs) driven by any sequence of        *)
(* judgments, under any context a trusted adapter may bind, and of human   *)
(* overrides.                                                              *)
(***************************************************************************)
EXTENDS Governance, Sequences

CONSTANTS
    Judgments,   \* the [beyond, destructive] confidence pairs observed
    Contexts,    \* the admission contexts bound to them
    MaxEvents    \* bound on the number of events, for model checking

ASSUME JudgmentsAssumption == Judgments \subseteq [beyond: 0..PPM, destructive: 0..PPM]
ASSUME ContextsAssumption ==
    /\ Contexts \subseteq AdmissionContext
    /\ \A context \in Contexts: ValidContext(context)
ASSUME MaxEventsAssumption == MaxEvents \in Nat

VARIABLES
    gov,         \* the kernel state: GovernanceState, counters, governing id
    provenance   \* the append-only audit lines, one entry per event

vars == <<gov, provenance>>

Init ==
    /\ gov = NewGovernance
    /\ provenance = <<>>

Observe(judgment, context) ==
    /\ gov.issued["event"] < MaxEvents
    /\ LET outcome == ObserveJudgment(gov, judgment, context)
       IN  /\ gov' = outcome.gov
           /\ provenance' = Append(provenance, outcome.admission)

Override ==
    /\ gov.issued["event"] < MaxEvents
    /\ LET outcome == HumanOverride(gov)
       IN  /\ gov' = outcome.gov
           /\ provenance' = Append(provenance, outcome.admission)

Next ==
    \/ \E judgment \in Judgments, context \in Contexts: Observe(judgment, context)
    \/ Override

Spec == Init /\ [][Next]_vars

-----------------------------------------------------------------------------
(* Every variable keeps its type and the counters only hold naturals. *)
TypeOK ==
    /\ gov \in GovernanceState
    /\ provenance \in Seq(Admissions)

(* Authorization is suspended exactly when some evidence was accepted and   *)
(* no human override came after it: rejected and held evidence never        *)
(* suspends, later benign evidence never restores (act 2 of the demo).      *)
SuspendedIffUnansweredEvidence ==
    gov.authorization = "Suspended" <=>
        \E i \in 1..Len(provenance):
            /\ EntryAccepts(provenance[i])
            /\ \A j \in i..Len(provenance): provenance[j].kind /= "override"

(* A relation changes only by evidence that was accepted in the same event, *)
(* or by the override event itself; a judgment whose candidates are all     *)
(* held or rejected leaves every relation as it was.                        *)
ChangesHaveAdmittedCause ==
    \A i \in 1..Len(provenance): \A c \in provenance[i].changes:
        \/ /\ provenance[i].kind = "override"
           /\ c.by = provenance[i].event
        \/ \E e \in provenance[i].evidence: e.id = c.by /\ IsAccepted(e.decision)

(* The ids of the changes of one relation are never reused: the code's      *)
(* "authorization-0001" names one change of one event for ever.             *)
ChangeIdsUnique ==
    \A i, j \in 1..Len(provenance): \A c \in provenance[i].changes, d \in provenance[j].changes:
        (c.relation = d.relation /\ c.id = d.id) => (i = j /\ c = d)

(* The authorization relation an answer names as its ground exists, is the  *)
(* latest authorization change up to that event, and its phase is what the  *)
(* answer says; an answer that names none allows.                           *)
ViaExplainsAnswer ==
    \A i \in 1..Len(provenance):
        LET entry == provenance[i]
            upTo == UNION {provenance[j].changes : j \in 1..i}
            authorizations == {c \in upTo : c.relation = "authorization"}
        IN  entry.kind = "observe" =>
              IF entry.via = 0
              THEN authorizations = {} /\ entry.decision = "ALLOW"
              ELSE \E c \in authorizations:
                     /\ c.id = entry.via
                     /\ \A d \in authorizations: d.id <= c.id
                     /\ (c.to = "Suspended") <=> (entry.decision = "DENY")

(* The supervision is that of the first override of the history, whether or *)
(* not anything was suspended then, and no later one takes it over; without *)
(* it, authorization that was ever changed is still suspended.              *)
RestoredOnlyUnderSupervision ==
    IF gov.supervision = 0
    THEN /\ \A i \in 1..Len(provenance): provenance[i].kind /= "override"
         /\ gov.authorization = "Active" => gov.governing = 0
    ELSE /\ gov.supervision \in 1..Len(provenance)
         /\ provenance[gov.supervision].kind = "override"
         /\ \A i \in 1..(gov.supervision - 1): provenance[i].kind /= "override"

(* No step heals trust or delegation, and none but an override lifts a      *)
(* suspension; the provenance only grows.                                   *)
NothingElseHeals ==
    [][/\ gov.trust = "Warning" => gov'.trust = "Warning"
       /\ gov.delegation = "Degraded" => gov'.delegation = "Degraded"
       /\ (gov.authorization = "Suspended" /\ gov'.authorization = "Active")
            => provenance'[Len(provenance')].kind = "override"
       /\ SubSeq(provenance', 1, Len(provenance)) = provenance]_vars
=============================================================================
