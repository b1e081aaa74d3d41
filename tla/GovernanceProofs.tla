---------------------------- MODULE GovernanceProofs ----------------------------
(***************************************************************************)
(* What one step of the kernel (Governance) does, for all states,          *)
(* judgments and contexts: the lemmas both users of the kernel rest on.    *)
(***************************************************************************)
EXTENDS Governance, TLAPS

(* The policy is total: every supported or unsupported candidate gets one  *)
(* of its seven answers.                                                   *)
LEMMA AdmitType ==
    ASSUME NEW kind \in EvidenceKind, NEW confidence \in 0..PPM,
           NEW context \in AdmissionContext
    PROVE  Admit(kind, confidence, context) \in AdmissionDecision
  BY DEF Admit, Graded, AdmissionDecision, Accept, Hold, Reject, IsSupported, EvidenceKind

LEMMA RuleChangesType ==
    ASSUME NEW g \in GovernanceState, NEW evidence \in Nat
    PROVE  RuleChanges(g, evidence) \subseteq RelationChange
  BY DEF RuleChanges, Change, NextId, RelationChange, Relations, GovernanceState, Counters

LEMMA IssueType ==
    ASSUME NEW g \in GovernanceState, NEW changes
    PROVE  Issue(g, changes) \in [Counters -> Nat]
  BY DEF Issue, GovernanceState

LEMMA TakeIdType ==
    ASSUME NEW g \in GovernanceState, NEW kind \in Counters
    PROVE  /\ TakeId(g, kind) \in GovernanceState
           /\ NextId(g, kind) \in Nat
  BY DEF TakeId, NextId, GovernanceState

LEMMA ApplyType ==
    ASSUME NEW g \in GovernanceState, NEW evidence \in Nat
    PROVE  ApplyAdmittedEvidence(g, evidence) \in GovernanceState
  <1>1. NextId(g, "authorization") \in Nat
    BY TakeIdType DEF Counters
  <1>2. Issue(g, RuleChanges(g, evidence)) \in [Counters -> Nat]
    BY IssueType
  <1> QED
    BY <1>1, <1>2 DEF ApplyAdmittedEvidence, GovernanceState, TrustPhase, DelegationPhase,
       AuthorizationPhase

(* What considering one candidate does to the phases. *)
LEMMA ConsideredEffect ==
    ASSUME NEW g \in GovernanceState, NEW kind \in EvidenceKind,
           NEW confidence \in 0..PPM, NEW context \in AdmissionContext
    PROVE  LET c == Considered(g, kind, confidence, context)
           IN  /\ c.gov \in GovernanceState
               /\ c.evidence \in Considerations
               /\ c.changes \subseteq RelationChange
               /\ c.gov.authorization = IF IsAccepted(c.evidence.decision)
                                        THEN "Suspended" ELSE g.authorization
               /\ g.trust = "Warning" => c.gov.trust = "Warning"
               /\ g.delegation = "Degraded" => c.gov.delegation = "Degraded"
  <1> DEFINE id == NextId(g, "evidence")
             named == TakeId(g, "evidence")
             decision == Admit(kind, confidence, context)
  <1>1. named \in GovernanceState /\ id \in Nat
    BY TakeIdType DEF Counters
  <1>2. decision \in AdmissionDecision
    BY AdmitType
  <1>3. /\ named.authorization = g.authorization
        /\ named.trust = g.trust
        /\ named.delegation = g.delegation
    BY DEF TakeId, GovernanceState
  <1>4. CASE IsAccepted(decision)
    <2>1. ApplyAdmittedEvidence(named, id) \in GovernanceState
      BY <1>1, ApplyType
    <2>2. RuleChanges(named, id) \subseteq RelationChange
      BY <1>1, RuleChangesType
    <2>3. /\ ApplyAdmittedEvidence(named, id).authorization = "Suspended"
          /\ ApplyAdmittedEvidence(named, id).trust = "Warning"
          /\ ApplyAdmittedEvidence(named, id).delegation = "Degraded"
      BY <1>1 DEF ApplyAdmittedEvidence, GovernanceState
    <2> QED
      BY <1>1, <1>2, <1>4, <2>1, <2>2, <2>3 DEF Considered, Considerations
  <1>5. CASE ~IsAccepted(decision)
    BY <1>1, <1>2, <1>3, <1>5 DEF Considered, Considerations
  <1> QED
    BY <1>4, <1>5

(* What one judgment does: its evidence decides the authorization phase, and *)
(* without accepted evidence the phase stays.                                *)
LEMMA ObserveEffect ==
    ASSUME NEW g \in GovernanceState, NEW context \in AdmissionContext,
           NEW judgment \in [beyond: 0..PPM, destructive: 0..PPM]
    PROVE  LET o == ObserveJudgment(g, judgment, context)
           IN  /\ o.gov \in GovernanceState
               /\ o.admission \in Admissions
               /\ o.admission.kind = "observe"
               /\ o.gov.authorization = IF EntryAccepts(o.admission)
                                        THEN "Suspended" ELSE g.authorization
               /\ g.trust = "Warning" => o.gov.trust = "Warning"
               /\ g.delegation = "Degraded" => o.gov.delegation = "Degraded"
  <1> DEFINE started == TakeId(g, "event")
             scope == Considered(started, "BeyondScope", judgment.beyond, context)
             destructive == Considered(scope.gov, "DestructiveAction", judgment.destructive, context)
             o == ObserveJudgment(g, judgment, context)
  <1>1. /\ judgment.beyond \in 0..PPM
        /\ judgment.destructive \in 0..PPM
        /\ context \in AdmissionContext
        /\ "BeyondScope" \in EvidenceKind
        /\ "DestructiveAction" \in EvidenceKind
    BY DEF EvidenceKind
  <1>2. /\ started \in GovernanceState
        /\ NextId(g, "event") \in Nat
        /\ started.authorization = g.authorization
        /\ started.trust = g.trust
        /\ started.delegation = g.delegation
    BY TakeIdType DEF Counters, TakeId, GovernanceState
  <1>3. /\ scope.gov \in GovernanceState
        /\ scope.evidence \in Considerations
        /\ scope.changes \subseteq RelationChange
        /\ scope.gov.authorization = IF IsAccepted(scope.evidence.decision)
                                     THEN "Suspended" ELSE started.authorization
        /\ started.trust = "Warning" => scope.gov.trust = "Warning"
        /\ started.delegation = "Degraded" => scope.gov.delegation = "Degraded"
    BY <1>1, <1>2, ConsideredEffect
  <1>4. /\ destructive.gov \in GovernanceState
        /\ destructive.evidence \in Considerations
        /\ destructive.changes \subseteq RelationChange
        /\ destructive.gov.authorization = IF IsAccepted(destructive.evidence.decision)
                                           THEN "Suspended" ELSE scope.gov.authorization
        /\ scope.gov.trust = "Warning" => destructive.gov.trust = "Warning"
        /\ scope.gov.delegation = "Degraded" => destructive.gov.delegation = "Degraded"
    BY <1>1, <1>3, ConsideredEffect
  <1> HIDE DEF started, scope, destructive
  <1>5. /\ o.gov = destructive.gov
        /\ o.admission = [kind |-> "observe", event |-> NextId(g, "event"),
                          evidence |-> {scope.evidence, destructive.evidence},
                          changes |-> scope.changes \cup destructive.changes,
                          via |-> destructive.gov.governing,
                          decision |-> Verdict(destructive.gov)]
    BY DEF ObserveJudgment, started, scope, destructive
  <1> HIDE DEF o
  <1>6. destructive.gov.governing \in Nat /\ Verdict(destructive.gov) \in {"ALLOW", "DENY"}
    BY <1>4 DEF GovernanceState, Verdict
  <1>7. o.admission \in Admissions
    BY <1>2, <1>3, <1>4, <1>5, <1>6 DEF Admissions
  <1>8. EntryAccepts(o.admission) <=> \/ IsAccepted(scope.evidence.decision)
                                      \/ IsAccepted(destructive.evidence.decision)
    BY <1>5 DEF EntryAccepts
  <1>9. QED
    BY <1>2, <1>3, <1>4, <1>5, <1>7, <1>8 DEF o

(* What a human override does. *)
LEMMA OverrideEffect ==
    ASSUME NEW g \in GovernanceState
    PROVE  LET o == HumanOverride(g)
           IN  /\ o.gov \in GovernanceState
               /\ o.admission \in Admissions
               /\ o.admission.kind = "override"
               /\ o.gov.authorization = "Active"
               /\ o.gov.trust = g.trust
               /\ o.gov.delegation = g.delegation
  <1> DEFINE event == NextId(g, "event")
             changes == OverrideChanges(g, event)
             restored == Restored(g, event)
  <1>1. event \in Nat /\ NextId(g, "authorization") \in Nat /\ NextId(g, "supervision") \in Nat
    BY TakeIdType DEF Counters
  <1>2. Issue(g, changes) \in [Counters -> Nat]
    BY IssueType
  <1>3. changes \subseteq RelationChange
    BY <1>1 DEF OverrideChanges, Change, RelationChange, Relations
  <1>4. /\ restored \in GovernanceState
        /\ restored.authorization = "Active"
        /\ restored.trust = g.trust
        /\ restored.delegation = g.delegation
    <2> HIDE DEF event
    <2> QED
      BY <1>1, <1>2 DEF Restored, GovernanceState, AuthorizationPhase
  <1>5. /\ HumanOverride(g).gov = TakeId(restored, "event")
        /\ HumanOverride(g).admission =
             [kind |-> "override", event |-> event, evidence |-> {}, changes |-> changes,
              via |-> 0, decision |-> "ALLOW"]
    BY DEF HumanOverride
  <1> HIDE DEF restored, changes, event
  <1>6. /\ TakeId(restored, "event") \in GovernanceState
        /\ TakeId(restored, "event").authorization = restored.authorization
        /\ TakeId(restored, "event").trust = restored.trust
        /\ TakeId(restored, "event").delegation = restored.delegation
    BY <1>4, TakeIdType DEF TakeId, GovernanceState, Counters
  <1>7. HumanOverride(g).admission \in Admissions
    BY <1>1, <1>3, <1>5 DEF Admissions
  <1>8. QED
    BY <1>4, <1>5, <1>6, <1>7
-----------------------------------------------------------------------------
(* Where a step's changes come from and which ids they take. *)
Caused(changes, evidence) ==
    \A c \in changes: \E e \in evidence: e.id = c.by /\ IsAccepted(e.decision)

Numbered(changes, before, after) ==
    /\ \A kind \in Counters: before.issued[kind] <= after.issued[kind]
    /\ \A c \in changes: /\ c.relation \in Counters
                         /\ before.issued[c.relation] < c.id
                         /\ c.id <= after.issued[c.relation]
    /\ \A c, d \in changes: c.relation = d.relation => c = d

(* The governing relation is the latest authorization change.               *)
Governs(changes, before, after) ==
    \/ /\ \A c \in changes: c.relation /= "authorization"
       /\ after.governing = before.governing
       /\ after.authorization = before.authorization
    \/ \E c \in changes: /\ c.relation = "authorization"
                         /\ c.id = after.governing
                         /\ c.to = after.authorization

LEMMA CounterOfChange == Relations \subseteq Counters
  BY DEF Relations, Counters

(* The rules change each relation that is not protective yet, once. *)
LEMMA RuleChangesEffect ==
    ASSUME NEW g \in GovernanceState, NEW evidence \in Nat
    PROVE  LET changes == RuleChanges(g, evidence)
               after == ApplyAdmittedEvidence(g, evidence)
           IN  /\ \A c \in changes: c.by = evidence
               /\ Numbered(changes, g, after)
               /\ Governs(changes, g, after)
               /\ changes = {} <=> /\ g.trust = "Warning" /\ g.delegation = "Degraded"
                                   /\ g.authorization = "Suspended"
  <1> DEFINE changes == RuleChanges(g, evidence)
             after == ApplyAdmittedEvidence(g, evidence)
  <1>1. /\ g.trust \in TrustPhase /\ g.delegation \in DelegationPhase
        /\ g.authorization \in AuthorizationPhase /\ g.governing \in Nat
        /\ \A kind \in Counters: g.issued[kind] \in Nat
    BY DEF GovernanceState
  <1>2. \A c \in changes:
          /\ c.by = evidence
          /\ c.relation \in {"trust", "delegation", "authorization"}
          /\ c.id = g.issued[c.relation] + 1
          /\ c.relation = "trust" => c.to = "Warning" /\ g.trust /= "Warning"
          /\ c.relation = "delegation" => c.to = "Degraded" /\ g.delegation /= "Degraded"
          /\ c.relation = "authorization" => c.to = "Suspended" /\ g.authorization /= "Suspended"
    BY DEF RuleChanges, Change, NextId
  <1>3. \A c, d \in changes: c.relation = d.relation => c = d
    BY DEF RuleChanges, Change
  <1>4. /\ g.trust /= "Warning" => Change(g, "trust", "Warning", evidence) \in changes
        /\ g.delegation /= "Degraded" => Change(g, "delegation", "Degraded", evidence) \in changes
        /\ g.authorization /= "Suspended" =>
             Change(g, "authorization", "Suspended", evidence) \in changes
    BY DEF RuleChanges, Change
  <1> HIDE DEF changes
  <1>5. /\ after.issued = Issue(g, changes)
        /\ after.authorization = "Suspended"
        /\ after.governing = IF g.authorization /= "Suspended"
                             THEN g.issued["authorization"] + 1 ELSE g.governing
    BY DEF ApplyAdmittedEvidence, GovernanceState, NextId, changes
  <1> HIDE DEF after
  <1>6. \A kind \in Counters:
          after.issued[kind] = g.issued[kind] +
                                 (IF \E c \in changes: c.relation = kind THEN 1 ELSE 0)
    BY <1>5 DEF Issue
  <1>7. Numbered(changes, g, after)
    BY <1>1, <1>2, <1>3, <1>6 DEF Numbered, Counters
  <1>8. Governs(changes, g, after)
    <2>1. CASE g.authorization = "Suspended"
      BY <1>2, <1>5, <2>1 DEF Governs
    <2>2. CASE g.authorization /= "Suspended"
      BY <1>4, <1>5, <2>2 DEF Governs, Change, NextId
    <2> QED
      BY <2>1, <2>2
  <1>9. changes = {} <=> /\ g.trust = "Warning" /\ g.delegation = "Degraded"
                         /\ g.authorization = "Suspended"
    BY <1>2, <1>4
  <1> QED
    BY <1>2, <1>7, <1>8, <1>9 DEF changes, after

Protective(g) ==
    g.trust = "Warning" /\ g.delegation = "Degraded" /\ g.authorization = "Suspended"

(* One candidate: its changes are caused by its own evidence, and it has     *)
(* some exactly when it is accepted and something is not protective yet.     *)
Fate(g, c, decision) ==
    /\ Caused(c.changes, {c.evidence})
    /\ Numbered(c.changes, g, c.gov)
    /\ Governs(c.changes, g, c.gov)
    /\ c.evidence.decision = decision
    /\ IsAccepted(decision) => c.gov.trust = "Warning" /\ c.gov.delegation = "Degraded"
    /\ ~IsAccepted(decision) => /\ c.changes = {}
                                /\ c.gov.trust = g.trust
                                /\ c.gov.delegation = g.delegation
    /\ IsAccepted(decision) => (c.changes = {} <=> Protective(g))

LEMMA ConsideredFate ==
    ASSUME NEW g \in GovernanceState, NEW kind \in EvidenceKind,
           NEW confidence \in 0..PPM, NEW context \in AdmissionContext
    PROVE  Fate(g, Considered(g, kind, confidence, context), Admit(kind, confidence, context))
  <1> DEFINE id == NextId(g, "evidence")
             named == TakeId(g, "evidence")
             decision == Admit(kind, confidence, context)
             c == Considered(g, kind, confidence, context)
  <1>1. named \in GovernanceState /\ id \in Nat
    BY TakeIdType DEF Counters
  <1>2. /\ named.authorization = g.authorization
        /\ named.trust = g.trust
        /\ named.delegation = g.delegation
        /\ named.governing = g.governing
        /\ \A k \in Counters: /\ g.issued[k] \in Nat
                              /\ named.issued[k] = IF k = "evidence" THEN g.issued[k] + 1
                                                   ELSE g.issued[k]
    BY DEF TakeId, GovernanceState, Counters
  <1>3. CASE IsAccepted(decision)
    <2> DEFINE changes == RuleChanges(named, id)
               after == ApplyAdmittedEvidence(named, id)
    <2>1. /\ \A d \in changes: d.by = id
          /\ Numbered(changes, named, after)
          /\ Governs(changes, named, after)
          /\ changes = {} <=> /\ named.trust = "Warning" /\ named.delegation = "Degraded"
                              /\ named.authorization = "Suspended"
      BY <1>1, RuleChangesEffect
    <2>2. after.trust = "Warning" /\ after.delegation = "Degraded" /\ after \in GovernanceState
      BY <1>1, ApplyType DEF ApplyAdmittedEvidence, GovernanceState
    <2>3. /\ c.gov = after /\ c.changes = changes
          /\ c.evidence.id = id /\ c.evidence.decision = decision
      BY <1>3 DEF Considered
    <2> HIDE DEF changes, after, id, named, decision, c
    <2>4. \A k \in Counters: after.issued[k] \in Nat
      BY <2>2 DEF GovernanceState
    <2>5. Numbered(c.changes, g, c.gov)
      BY <1>2, <2>1, <2>3, <2>4, RuleChangesType, <1>1
         DEF Numbered, changes, RelationChange
    <2>6. Governs(c.changes, g, c.gov)
      BY <1>2, <2>1, <2>3 DEF Governs
    <2>7. Caused(c.changes, {c.evidence})
      BY <1>3, <2>1, <2>3 DEF Caused
    <2> QED
      BY <1>2, <1>3, <2>1, <2>2, <2>3, <2>5, <2>6, <2>7 DEF decision, c, Fate, Protective
  <1>4. CASE ~IsAccepted(decision)
    <2>1. c.gov = named /\ c.changes = {} /\ c.evidence.decision = decision
      BY <1>4 DEF Considered
    <2> HIDE DEF id, named, decision, c
    <2>2. Numbered(c.changes, g, c.gov) /\ Governs(c.changes, g, c.gov)
      BY <1>2, <2>1 DEF Numbered, Governs
    <2> QED
      BY <1>2, <1>4, <2>1, <2>2 DEF Caused, decision, c, Fate
  <1> QED
    BY <1>3, <1>4

(* A candidate touches neither the supervision nor the event counter. *)
LEMMA ConsideredKeeps ==
    ASSUME NEW g \in GovernanceState, NEW kind \in EvidenceKind,
           NEW confidence \in 0..PPM, NEW context \in AdmissionContext
    PROVE  LET c == Considered(g, kind, confidence, context)
           IN  /\ c.gov.supervision = g.supervision
               /\ c.gov.issued["event"] = g.issued["event"]
  <1> DEFINE id == NextId(g, "evidence")
             named == TakeId(g, "evidence")
             decision == Admit(kind, confidence, context)
             c == Considered(g, kind, confidence, context)
  <1>1. /\ named \in GovernanceState
        /\ id \in Nat
        /\ named.supervision = g.supervision
        /\ named.issued["event"] = g.issued["event"]
    BY TakeIdType DEF Counters, TakeId, GovernanceState
  <1>2. c.gov = IF IsAccepted(decision) THEN ApplyAdmittedEvidence(named, id) ELSE named
    BY DEF Considered
  <1> HIDE DEF id, named, decision, c
  <1>3. Issue(named, RuleChanges(named, id))["event"] = named.issued["event"]
    <2>1. \A d \in RuleChanges(named, id): d.relation /= "event"
      BY DEF RuleChanges, Change
    <2> QED
      BY <1>1, <2>1 DEF Issue, Counters, GovernanceState
  <1>4. /\ ApplyAdmittedEvidence(named, id).supervision = named.supervision
        /\ ApplyAdmittedEvidence(named, id).issued = Issue(named, RuleChanges(named, id))
    BY <1>1 DEF ApplyAdmittedEvidence, GovernanceState
  <1> QED
    BY <1>1, <1>2, <1>3, <1>4 DEF c

(* One judgment: at most one of its candidates changes relations, for once  *)
(* one has, nothing is left to change.                                      *)
LEMMA ObserveFate ==
    ASSUME NEW g \in GovernanceState, NEW context \in AdmissionContext,
           NEW judgment \in [beyond: 0..PPM, destructive: 0..PPM]
    PROVE  LET o == ObserveJudgment(g, judgment, context)
           IN  /\ Caused(o.admission.changes, o.admission.evidence)
               /\ Numbered(o.admission.changes, g, o.gov)
               /\ Governs(o.admission.changes, g, o.gov)
               /\ o.admission.event = NextId(g, "event")
               /\ o.gov.issued["event"] = NextId(g, "event")
               /\ o.gov.supervision = g.supervision
               /\ o.admission.via = o.gov.governing
               /\ o.admission.decision = Verdict(o.gov)
               /\ EntryAccepts(o.admission) => Protective(o.gov)
               /\ ~EntryAccepts(o.admission) => o.admission.changes = {}
               /\ EntryAccepts(o.admission) => (o.admission.changes = {} <=> Protective(g))
               /\ EntryAccepts(o.admission) <=>
                    \/ IsAccepted(Admit("BeyondScope", judgment.beyond, context))
                    \/ IsAccepted(Admit("DestructiveAction", judgment.destructive, context))
  <1> DEFINE started == TakeId(g, "event")
             scope == Considered(started, "BeyondScope", judgment.beyond, context)
             destructive == Considered(scope.gov, "DestructiveAction", judgment.destructive, context)
             o == ObserveJudgment(g, judgment, context)
             changes == scope.changes \cup destructive.changes
             first == IsAccepted(scope.evidence.decision)
             second == IsAccepted(destructive.evidence.decision)
  <1>1. /\ judgment.beyond \in 0..PPM /\ judgment.destructive \in 0..PPM
        /\ "BeyondScope" \in EvidenceKind /\ "DestructiveAction" \in EvidenceKind
    BY DEF EvidenceKind
  <1>2. /\ started \in GovernanceState
        /\ started.authorization = g.authorization
        /\ started.trust = g.trust
        /\ started.delegation = g.delegation
        /\ started.governing = g.governing
        /\ started.supervision = g.supervision
        /\ \A k \in Counters: /\ g.issued[k] \in Nat
                              /\ started.issued[k] = IF k = "event" THEN g.issued[k] + 1
                                                     ELSE g.issued[k]
    BY TakeIdType DEF Counters, TakeId, GovernanceState
  <1>3. /\ scope.gov \in GovernanceState
        /\ scope.changes \subseteq RelationChange
        /\ scope.gov.authorization = IF first THEN "Suspended" ELSE started.authorization
    BY <1>1, <1>2, ConsideredEffect
  <1>4. Fate(started, scope, Admit("BeyondScope", judgment.beyond, context))
    BY <1>1, <1>2, ConsideredFate
  <1>5. /\ destructive.gov \in GovernanceState
        /\ destructive.changes \subseteq RelationChange
        /\ destructive.gov.authorization = IF second THEN "Suspended" ELSE scope.gov.authorization
    BY <1>1, <1>3, ConsideredEffect
  <1>6. Fate(scope.gov, destructive, Admit("DestructiveAction", judgment.destructive, context))
    BY <1>1, <1>3, ConsideredFate
  <1>7. /\ scope.gov.supervision = started.supervision
        /\ scope.gov.issued["event"] = started.issued["event"]
    BY <1>1, <1>2, ConsideredKeeps
  <1>8. /\ destructive.gov.supervision = scope.gov.supervision
        /\ destructive.gov.issued["event"] = scope.gov.issued["event"]
    BY <1>1, <1>3, ConsideredKeeps
  <1>9. /\ o.gov = destructive.gov
        /\ o.admission.changes = changes
        /\ o.admission.evidence = {scope.evidence, destructive.evidence}
        /\ o.admission.event = NextId(g, "event")
        /\ o.admission.via = destructive.gov.governing
        /\ o.admission.decision = Verdict(destructive.gov)
    BY DEF ObserveJudgment
  <1> HIDE DEF started, scope, destructive, o
  <1>10. EntryAccepts(o.admission) <=> first \/ second
    BY <1>9 DEF EntryAccepts
  <1>11. scope.changes = {} \/ destructive.changes = {}
    BY <1>3, <1>4, <1>6 DEF Fate, Protective
  <1>12. Caused(changes, o.admission.evidence)
    BY <1>4, <1>6, <1>9 DEF Caused, Fate
  <1>13. Numbered(changes, g, o.gov)
    <2>1. \A k \in Counters: /\ scope.gov.issued[k] \in Nat
                             /\ destructive.gov.issued[k] \in Nat
      BY <1>3, <1>5 DEF GovernanceState
    <2>2. CASE destructive.changes = {}
      <3>1. changes = scope.changes
        BY <2>2
      <3> QED
        BY <1>2, <1>3, <1>4, <1>6, <1>9, <2>1, <3>1 DEF Fate, Numbered, RelationChange
    <2>3. CASE scope.changes = {}
      <3>1. changes = destructive.changes
        BY <2>3
      <3> QED
        BY <1>2, <1>4, <1>5, <1>6, <1>9, <2>1, <3>1 DEF Fate, Numbered, RelationChange
    <2> QED
      BY <1>11, <2>2, <2>3
  <1>14. Governs(changes, g, o.gov)
    <2>1. CASE destructive.changes = {}
      <3>1. changes = scope.changes
        BY <2>1
      <3> QED
        BY <1>2, <1>4, <1>6, <1>9, <2>1, <3>1 DEF Fate, Governs
    <2>2. CASE scope.changes = {}
      <3>1. changes = destructive.changes
        BY <2>2
      <3> QED
        BY <1>2, <1>4, <1>6, <1>9, <2>2, <3>1 DEF Fate, Governs
    <2> QED
      BY <1>11, <2>1, <2>2
  <1>15. first \/ second => Protective(o.gov)
    BY <1>3, <1>4, <1>5, <1>6, <1>9 DEF Fate, Protective
  <1>16. ~(first \/ second) => changes = {}
    BY <1>4, <1>6 DEF Fate
  <1>17. first \/ second => (changes = {} <=> Protective(g))
    BY <1>2, <1>3, <1>4, <1>6 DEF Fate, Protective
  <1>18. /\ o.gov.issued["event"] = NextId(g, "event")
         /\ o.gov.supervision = g.supervision
    BY <1>2, <1>7, <1>8, <1>9 DEF NextId, Counters
  <1> QED
    BY <1>4, <1>6, <1>9, <1>10, <1>12, <1>13, <1>14, <1>15, <1>16, <1>17, <1>18 DEF o, Fate

(* An override: its changes are its own, it takes new ids, and it is the     *)
(* supervision if there was none.                                            *)
LEMMA OverrideFate ==
    ASSUME NEW g \in GovernanceState
    PROVE  LET o == HumanOverride(g)
           IN  /\ \A c \in o.admission.changes: c.by = o.admission.event
               /\ Numbered(o.admission.changes, g, o.gov)
               /\ Governs(o.admission.changes, g, o.gov)
               /\ o.admission.event = NextId(g, "event")
               /\ o.gov.issued["event"] = NextId(g, "event")
               /\ o.gov.supervision =
                    IF g.supervision = 0 THEN NextId(g, "event") ELSE g.supervision
  <1> DEFINE event == NextId(g, "event")
             changes == OverrideChanges(g, event)
             after == Restored(g, event)
             o == HumanOverride(g)
  <1>1. /\ g.authorization \in AuthorizationPhase /\ g.governing \in Nat
        /\ g.supervision \in Nat
        /\ \A kind \in Counters: g.issued[kind] \in Nat
    BY DEF GovernanceState
  <1>2. \A c \in changes:
          /\ c.by = event
          /\ c.relation \in {"authorization", "supervision"}
          /\ c.id = g.issued[c.relation] + 1
          /\ c.relation = "authorization" => c.to = "Active" /\ g.authorization /= "Active"
    BY DEF OverrideChanges, Change, NextId
  <1>3. \A c, d \in changes: c.relation = d.relation => c = d
    BY DEF OverrideChanges, Change
  <1>4. g.authorization /= "Active" => Change(g, "authorization", "Active", event) \in changes
    BY DEF OverrideChanges, Change
  <1>5. event \in Nat
    BY <1>1 DEF NextId, Counters
  <1> HIDE DEF changes, event
  <1>6. /\ after.issued = Issue(g, changes)
        /\ after.authorization = "Active"
        /\ after.governing = IF g.authorization /= "Active"
                             THEN g.issued["authorization"] + 1 ELSE g.governing
        /\ after.supervision = IF g.supervision = 0 THEN event ELSE g.supervision
    BY DEF Restored, GovernanceState, NextId, changes
  <1>7. after \in GovernanceState
    <2>1. Issue(g, changes) \in [Counters -> Nat] /\ "authorization" \in Counters
      BY IssueType DEF Counters
    <2>2. after = [g EXCEPT !.authorization = "Active",
                            !.governing = IF g.authorization /= "Active"
                                          THEN g.issued["authorization"] + 1 ELSE @,
                            !.supervision = IF @ = 0 THEN event ELSE @,
                            !.issued = Issue(g, changes)]
      BY DEF Restored, NextId, changes
    <2>3. /\ g.issued["authorization"] + 1 \in Nat
          /\ "Active" \in AuthorizationPhase
      BY <1>1, <2>1 DEF AuthorizationPhase
    <2> HIDE DEF after
    <2> QED
      BY <1>1, <1>5, <2>1, <2>2, <2>3 DEF GovernanceState
  <1> HIDE DEF after
  <1>8. /\ o.gov = TakeId(after, "event")
        /\ o.admission.changes = changes
        /\ o.admission.event = event
    BY DEF HumanOverride, after, changes, event
  <1>9. \A kind \in Counters:
          o.gov.issued[kind] = g.issued[kind] +
              (IF kind = "event" \/ \E c \in changes: c.relation = kind THEN 1 ELSE 0)
    BY <1>1, <1>2, <1>6, <1>8, <1>7 DEF Issue, TakeId, Counters, GovernanceState
  <1>10. /\ o.gov.governing = after.governing
        /\ o.gov.authorization = after.authorization
        /\ o.gov.supervision = after.supervision
    BY <1>6, <1>8, <1>7 DEF TakeId, GovernanceState
  <1> HIDE DEF o
  <1>11. Numbered(changes, g, o.gov)
    BY <1>1, <1>2, <1>3, <1>9 DEF Numbered, Counters
  <1>12. Governs(changes, g, o.gov)
    <2>1. CASE g.authorization = "Active"
      BY <1>2, <1>6, <1>10, <2>1 DEF Governs
    <2>2. CASE g.authorization /= "Active"
      BY <1>4, <1>6, <1>10, <2>2 DEF Governs, Change, NextId
    <2> QED
      BY <2>1, <2>2
  <1>13. o.gov.issued["event"] = NextId(g, "event")
    BY <1>1, <1>9 DEF NextId, Counters
  <1> QED
    BY <1>2, <1>6, <1>8, <1>10, <1>11, <1>12, <1>13 DEF o, event
=============================================================================
