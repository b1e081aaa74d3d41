----------------------------- MODULE Governance -----------------------------
(***************************************************************************)
(* The governance kernel of src/src/r2r.rs as functions on its state.      *)
(*                                                                         *)
(* A kernel state holds the three phases, the supervision relation (the id *)
(* of the event that created it, 0 for None), the id of the authorization  *)
(* relation in force (0 for None) and the six id counters.  Ids are the    *)
(* numbers of the code's "trust-0001".  A relation change is               *)
(* [relation, id, to, by]: `by' is the evidence or, for an override, the   *)
(* event that caused it.  The changes of one event are a set: their order  *)
(* is the fixed order of the rules.                                        *)
(***************************************************************************)
EXTENDS Admission

TrustPhase == {"Active", "Warning"}
DelegationPhase == {"Active", "Degraded"}
AuthorizationPhase == {"Active", "Suspended"}

Counters == {"event", "evidence", "trust", "delegation", "authorization", "supervision"}

GovernanceState ==
    [trust: TrustPhase, delegation: DelegationPhase, authorization: AuthorizationPhase,
     supervision: Nat, governing: Nat, issued: [Counters -> Nat]]

NewGovernance ==
    [trust |-> "Active", delegation |-> "Active", authorization |-> "Active",
     supervision |-> 0, governing |-> 0, issued |-> [kind \in Counters |-> 0]]

Relations == {"trust", "delegation", "authorization", "supervision"}
RelationChange ==
    [relation: Relations, id: Nat, to: {"Warning", "Degraded", "Suspended", "Active", "created"}, by: Nat]

(* Seeded fault: the phase is passed on as the verdict. *)
PhaseAsVerdict(gov) == gov.authorization

Verdict(gov) == IF gov.authorization = "Active" THEN "ALLOW" ELSE "DENY"

NextId(gov, kind) == gov.issued[kind] + 1
Change(gov, relation, to, by) ==
    [relation |-> relation, id |-> NextId(gov, relation), to |-> to, by |-> by]

(* Seeded fault: suspensions and restorations take no id. *)
IssueIgnoringAuthorization(gov, changes) ==
    [kind \in Counters |->
        gov.issued[kind] +
            (IF kind /= "authorization" /\ \E c \in changes: c.relation = kind THEN 1 ELSE 0)]

(* The ids a set of changes has taken from the counters. *)
Issue(gov, changes) ==
    [kind \in Counters |->
        gov.issued[kind] + (IF \E c \in changes: c.relation = kind THEN 1 ELSE 0)]

(***************************************************************************)
(* The rule pack: accepted evidence of either kind drives each relation    *)
(* that is not there yet to its protective phase.  Nothing heals.          *)
(***************************************************************************)
RuleChanges(gov, evidence) ==
    {c \in {Change(gov, "trust", "Warning", evidence),
            Change(gov, "delegation", "Degraded", evidence),
            Change(gov, "authorization", "Suspended", evidence)} :
        CASE c.relation = "trust" -> gov.trust /= "Warning"
          [] c.relation = "delegation" -> gov.delegation /= "Degraded"
          [] OTHER -> gov.authorization /= "Suspended"}

(* Seeded faults: a source under warning is not suspended again after an   *)
(* override; the suspension is not remembered as governing.                *)
SuspendOnFirstWarning(gov, evidence) ==
    [gov EXCEPT !.trust = "Warning",
                !.delegation = "Degraded",
                !.authorization = IF gov.trust = "Active" THEN "Suspended" ELSE @,
                !.governing = IF gov.trust = "Active" THEN NextId(gov, "authorization") ELSE @,
                !.issued = Issue(gov, RuleChanges(gov, evidence))]
SuspendUngoverned(gov, evidence) ==
    [gov EXCEPT !.trust = "Warning",
                !.delegation = "Degraded",
                !.authorization = "Suspended",
                !.issued = Issue(gov, RuleChanges(gov, evidence))]

ApplyAdmittedEvidence(gov, evidence) ==
    [gov EXCEPT !.trust = "Warning",
                !.delegation = "Degraded",
                !.authorization = "Suspended",
                !.governing = IF gov.authorization /= "Suspended"
                              THEN NextId(gov, "authorization") ELSE @,
                !.issued = Issue(gov, RuleChanges(gov, evidence))]

(***************************************************************************)
(* One candidate of a judgment takes an evidence id whatever its fate; it  *)
(* reaches the rules only when admission accepts it.                       *)
(***************************************************************************)
TakeId(gov, kind) == [gov EXCEPT !.issued[kind] = @ + 1]

(* Seeded faults: held evidence reaches the rules; evidence that is not    *)
(* accepted is taken as an all-clear.                                      *)
ConsideredUnlessRejected(gov, kind, confidence, context) ==
    LET id == NextId(gov, "evidence")
        named == TakeId(gov, "evidence")
        decision == Admit(kind, confidence, context)
    IN  [gov |-> IF decision \notin Reject THEN ApplyAdmittedEvidence(named, id) ELSE named,
         evidence |-> [id |-> id, kind |-> kind, decision |-> decision],
         changes |-> IF decision \notin Reject THEN RuleChanges(named, id) ELSE {}]
ConsideredHealing(gov, kind, confidence, context) ==
    LET id == NextId(gov, "evidence")
        named == TakeId(gov, "evidence")
        decision == Admit(kind, confidence, context)
    IN  [gov |-> IF IsAccepted(decision) THEN ApplyAdmittedEvidence(named, id)
                 ELSE [named EXCEPT !.authorization = "Active"],
         evidence |-> [id |-> id, kind |-> kind, decision |-> decision],
         changes |-> IF IsAccepted(decision) THEN RuleChanges(named, id) ELSE {}]

Considered(gov, kind, confidence, context) ==
    LET id == NextId(gov, "evidence")
        named == TakeId(gov, "evidence")
        decision == Admit(kind, confidence, context)
    IN  [gov |-> IF IsAccepted(decision) THEN ApplyAdmittedEvidence(named, id) ELSE named,
         evidence |-> [id |-> id, kind |-> kind, decision |-> decision],
         changes |-> IF IsAccepted(decision) THEN RuleChanges(named, id) ELSE {}]

(***************************************************************************)
(* An Admission is what one event did: the evidence considered, the        *)
(* relations changed, the authorization relation that governed the answer  *)
(* (an override names none) and the answer.  It is also the event's entry  *)
(* in the provenance.                                                      *)
(***************************************************************************)
Considerations ==
    [id: Nat, kind: EvidenceKind, decision: AdmissionDecision]

Admissions ==
    [kind: {"observe", "override"}, event: Nat, evidence: SUBSET Considerations,
     changes: SUBSET RelationChange, via: Nat, decision: {"ALLOW", "DENY"}]

EntryAccepts(entry) == \E e \in entry.evidence: IsAccepted(e.decision)

ObserveJudgment(gov, judgment, context) ==
    LET event == NextId(gov, "event")
        scope == Considered(TakeId(gov, "event"), "BeyondScope", judgment.beyond, context)
        destructive == Considered(scope.gov, "DestructiveAction", judgment.destructive, context)
    IN  [gov |-> destructive.gov,
         admission |-> [kind |-> "observe", event |-> event,
                        evidence |-> {scope.evidence, destructive.evidence},
                        changes |-> scope.changes \cup destructive.changes,
                        via |-> destructive.gov.governing,
                        decision |-> Verdict(destructive.gov)]]

(***************************************************************************)
(* A human override restores authorization only, under a supervision       *)
(* relation created once; it allows its own action whatever it changed.    *)
(***************************************************************************)
OverrideChanges(gov, event) ==
    {c \in {Change(gov, "authorization", "Active", event),
            Change(gov, "supervision", "created", event)} :
        IF c.relation = "authorization" THEN gov.authorization /= "Active"
                                        ELSE gov.supervision = 0}

(* Seeded fault: every override takes the supervision over. *)
RestoredResupervised(gov, event) ==
    [gov EXCEPT !.authorization = "Active",
                !.governing = IF gov.authorization /= "Active"
                              THEN NextId(gov, "authorization") ELSE @,
                !.supervision = event,
                !.issued = Issue(gov, OverrideChanges(gov, event))]

Restored(gov, event) ==
    [gov EXCEPT !.authorization = "Active",
                !.governing = IF gov.authorization /= "Active"
                              THEN NextId(gov, "authorization") ELSE @,
                !.supervision = IF @ = 0 THEN event ELSE @,
                !.issued = Issue(gov, OverrideChanges(gov, event))]

HumanOverride(gov) ==
    LET event == NextId(gov, "event")
    IN  [gov |-> TakeId(Restored(gov, event), "event"),
         admission |-> [kind |-> "override", event |-> event, evidence |-> {},
                        changes |-> OverrideChanges(gov, event), via |-> 0,
                        decision |-> "ALLOW"]]
=============================================================================
