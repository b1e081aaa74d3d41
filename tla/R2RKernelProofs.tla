--------------------------- MODULE R2RKernelProofs ---------------------------
(***************************************************************************)
(* Theorems about R2RKernel, for all judgments, contexts and bounds.       *)
(***************************************************************************)
EXTENDS R2RKernel, GovernanceProofs, SequenceTheorems

-----------------------------------------------------------------------------
(* The kernel state and the provenance keep their types. *)
THEOREM TypeCorrect == Spec => []TypeOK
  <1>1. Init => TypeOK
    BY DEF Init, TypeOK, NewGovernance, GovernanceState, TrustPhase, DelegationPhase,
       AuthorizationPhase, Admissions
  <1>2. TypeOK /\ [Next]_vars => TypeOK'
    <2> SUFFICES ASSUME TypeOK, [Next]_vars
                 PROVE  TypeOK'
      OBVIOUS
    <2>1. ASSUME NEW judgment \in Judgments, NEW context \in Contexts, Observe(judgment, context)
          PROVE  TypeOK'
      <3>1. /\ ObserveJudgment(gov, judgment, context).gov \in GovernanceState
            /\ ObserveJudgment(gov, judgment, context).admission \in Admissions
        BY ObserveEffect, JudgmentsAssumption, ContextsAssumption DEF TypeOK
      <3> QED
        BY <2>1, <3>1 DEF Observe, TypeOK
    <2>2. CASE Override
      <3>1. HumanOverride(gov).gov \in GovernanceState /\ HumanOverride(gov).admission \in Admissions
        BY OverrideEffect DEF TypeOK
      <3> QED
        BY <2>2, <3>1 DEF Override, TypeOK
    <2>3. CASE UNCHANGED vars
      BY <2>3 DEF vars, TypeOK
    <2> QED
      BY <2>1, <2>2, <2>3 DEF Next
  <1> QED
    BY <1>1, <1>2, PTL DEF Spec

Unanswered(entries, i) ==
    /\ EntryAccepts(entries[i])
    /\ \A j \in i..Len(entries): entries[j].kind /= "override"

(* Authorization is suspended exactly by accepted evidence that no override  *)
(* answered.  The invariant is inductive given the types: an observation     *)
(* adds an entry that is not an override, an override answers every entry.   *)
THEOREM SuspensionExplained == Spec => []SuspendedIffUnansweredEvidence
  <1> DEFINE Inv == (gov.authorization = "Suspended") <=>
                        \E i \in 1..Len(provenance): Unanswered(provenance, i)
  <1>1. Init => Inv
    BY DEF Init, NewGovernance
  <1>2. TypeOK /\ Inv /\ [Next]_vars => Inv'
    <2> SUFFICES ASSUME TypeOK, Inv, [Next]_vars
                 PROVE  Inv'
      OBVIOUS
    <2>1. ASSUME NEW judgment \in Judgments, NEW context \in Contexts, Observe(judgment, context)
          PROVE  Inv'
      <3> DEFINE entry == ObserveJudgment(gov, judgment, context).admission
      <3>1. /\ provenance' = Append(provenance, entry)
            /\ entry \in Admissions
            /\ entry.kind = "observe"
            /\ gov'.authorization = IF EntryAccepts(entry) THEN "Suspended" ELSE gov.authorization
        BY <2>1, ObserveEffect, JudgmentsAssumption, ContextsAssumption DEF Observe, TypeOK
      <3> HIDE DEF entry
      <3>2. /\ Len(provenance') = Len(provenance) + 1
            /\ Len(provenance) \in Nat
            /\ provenance'[Len(provenance')] = entry
            /\ \A i \in 1..Len(provenance): provenance'[i] = provenance[i]
        BY <3>1 DEF TypeOK
      <3>3. \A i \in 1..Len(provenance): Unanswered(provenance', i) <=> Unanswered(provenance, i)
        BY <3>1, <3>2 DEF Unanswered
      <3>4. Unanswered(provenance', Len(provenance')) <=> EntryAccepts(entry)
        BY <3>1, <3>2 DEF Unanswered
      <3> QED
        BY <3>1, <3>2, <3>3, <3>4
    <2>2. CASE Override
      <3> DEFINE entry == HumanOverride(gov).admission
      <3>1. /\ provenance' = Append(provenance, entry)
            /\ entry.kind = "override"
            /\ entry \in Admissions
            /\ gov'.authorization = "Active"
        BY <2>2, OverrideEffect DEF Override, TypeOK
      <3> HIDE DEF entry
      <3>2. /\ Len(provenance') \in Nat
            /\ provenance'[Len(provenance')] = entry
        BY <3>1 DEF TypeOK
      <3>3. \A i \in 1..Len(provenance'): ~Unanswered(provenance', i)
        BY <3>1, <3>2 DEF Unanswered
      <3> QED
        BY <3>1, <3>3
    <2>3. CASE UNCHANGED vars
      BY <2>3 DEF vars, Unanswered
    <2> QED
      BY <2>1, <2>2, <2>3 DEF Next
  <1>3. Inv <=> SuspendedIffUnansweredEvidence
    BY DEF SuspendedIffUnansweredEvidence, Unanswered
  <1> QED
    BY <1>1, <1>2, <1>3, TypeCorrect, PTL DEF Spec

(* No step but an override lifts a suspension, and none heals trust or     *)
(* delegation or rewrites the provenance.                                  *)
THEOREM NothingElseHealsHolds == Spec => NothingElseHeals
  <1> DEFINE Heals == /\ gov.trust = "Warning" => gov'.trust = "Warning"
                      /\ gov.delegation = "Degraded" => gov'.delegation = "Degraded"
                      /\ (gov.authorization = "Suspended" /\ gov'.authorization = "Active")
                           => provenance'[Len(provenance')].kind = "override"
                      /\ SubSeq(provenance', 1, Len(provenance)) = provenance
  <1>1. TypeOK /\ [Next]_vars => [Heals]_vars
    <2> SUFFICES ASSUME TypeOK, Next
                 PROVE  Heals
      OBVIOUS
    <2>1. ASSUME NEW judgment \in Judgments, NEW context \in Contexts, Observe(judgment, context)
          PROVE  Heals
      <3> DEFINE o == ObserveJudgment(gov, judgment, context)
      <3>1. /\ provenance' = Append(provenance, o.admission)
            /\ gov' = o.gov
            /\ o.admission \in Admissions
            /\ o.gov.authorization = IF EntryAccepts(o.admission)
                                     THEN "Suspended" ELSE gov.authorization
            /\ gov.trust = "Warning" => o.gov.trust = "Warning"
            /\ gov.delegation = "Degraded" => o.gov.delegation = "Degraded"
        BY <2>1, ObserveEffect, JudgmentsAssumption, ContextsAssumption DEF Observe, TypeOK
      <3> HIDE DEF o
      <3>2. SubSeq(provenance', 1, Len(provenance)) = provenance
        BY <3>1, AppendProperties DEF TypeOK
      <3> QED
        BY <3>1, <3>2
    <2>2. CASE Override
      <3> DEFINE o == HumanOverride(gov)
      <3>1. /\ provenance' = Append(provenance, o.admission)
            /\ gov' = o.gov
            /\ o.admission \in Admissions
            /\ o.admission.kind = "override"
            /\ o.gov.trust = gov.trust
            /\ o.gov.delegation = gov.delegation
        BY <2>2, OverrideEffect DEF Override, TypeOK
      <3> HIDE DEF o
      <3>2. /\ SubSeq(provenance', 1, Len(provenance)) = provenance
            /\ provenance'[Len(provenance')] = o.admission
        BY <3>1, AppendProperties DEF TypeOK
      <3> QED
        BY <3>1, <3>2
    <2> QED
      BY <2>1, <2>2 DEF Next
  <1> QED
    BY <1>1, TypeCorrect, PTL DEF Spec, NothingElseHeals
-----------------------------------------------------------------------------
(***************************************************************************)
(* What the entries say.  Every step appends one entry that names its own  *)
(* event, takes new change ids and leaves the relation that governs named  *)
(* in the kernel state.  The invariant below ties the provenance to the    *)
(* counters, to the governing id and to the supervision of that state: the *)
(* properties speak of the provenance alone and are not inductive.         *)
(***************************************************************************)
Appends(entry) ==
    /\ entry \in Admissions
    /\ provenance' = Append(provenance, entry)
    /\ Numbered(entry.changes, gov, gov')
    /\ Governs(entry.changes, gov, gov')
    /\ entry.event = gov.issued["event"] + 1
    /\ gov'.issued["event"] = gov.issued["event"] + 1

Observes(entry) ==
    /\ entry.kind = "observe"
    /\ Caused(entry.changes, entry.evidence)
    /\ gov'.supervision = gov.supervision
    /\ gov'.authorization = "Active" => entry.changes = {}
    /\ entry.via = gov'.governing
    /\ entry.decision = Verdict(gov')

Overrides(entry) ==
    /\ entry.kind = "override"
    /\ \A c \in entry.changes: c.by = entry.event
    /\ gov'.supervision = IF gov.supervision = 0 THEN entry.event ELSE gov.supervision

LEMMA StepAppends ==
    ASSUME TypeOK, Next
    PROVE  \E entry: Appends(entry) /\ (Observes(entry) \/ Overrides(entry))
  <1>1. ASSUME NEW judgment \in Judgments, NEW context \in Contexts, Observe(judgment, context)
        PROVE  \E entry: Appends(entry) /\ Observes(entry)
    <2> DEFINE o == ObserveJudgment(gov, judgment, context)
    <2>1. /\ provenance' = Append(provenance, o.admission)
          /\ gov' = o.gov
      BY <1>1 DEF Observe
    <2>2. /\ gov \in GovernanceState
          /\ judgment \in [beyond: 0..PPM, destructive: 0..PPM]
          /\ context \in AdmissionContext
      BY JudgmentsAssumption, ContextsAssumption DEF TypeOK
    <2>3. /\ o.admission \in Admissions
          /\ o.admission.kind = "observe"
          /\ o.gov.authorization = IF EntryAccepts(o.admission)
                                   THEN "Suspended" ELSE gov.authorization
      BY <2>2, ObserveEffect
    <2>4. /\ Caused(o.admission.changes, o.admission.evidence)
          /\ Numbered(o.admission.changes, gov, o.gov)
          /\ Governs(o.admission.changes, gov, o.gov)
          /\ o.admission.event = gov.issued["event"] + 1
          /\ o.gov.issued["event"] = gov.issued["event"] + 1
          /\ o.gov.supervision = gov.supervision
          /\ o.admission.via = o.gov.governing
          /\ o.admission.decision = Verdict(o.gov)
          /\ ~EntryAccepts(o.admission) => o.admission.changes = {}
      BY <2>2, ObserveFate DEF NextId
    <2> HIDE DEF o
    <2> QED
      BY <2>1, <2>3, <2>4 DEF Appends, Observes
  <1>2. CASE Override
    <2> DEFINE o == HumanOverride(gov)
    <2>1. /\ provenance' = Append(provenance, o.admission)
          /\ gov' = o.gov
      BY <1>2 DEF Override
    <2>2. o.admission \in Admissions /\ o.admission.kind = "override"
      BY OverrideEffect DEF TypeOK
    <2>3. /\ \A c \in o.admission.changes: c.by = o.admission.event
          /\ Numbered(o.admission.changes, gov, o.gov)
          /\ Governs(o.admission.changes, gov, o.gov)
          /\ o.admission.event = gov.issued["event"] + 1
          /\ o.gov.issued["event"] = gov.issued["event"] + 1
          /\ o.gov.supervision =
               IF gov.supervision = 0 THEN o.admission.event ELSE gov.supervision
      BY OverrideFate DEF TypeOK, NextId
    <2> HIDE DEF o
    <2> QED
      BY <2>1, <2>2, <2>3 DEF Appends, Overrides
  <1> QED
    BY <1>1, <1>2 DEF Next

(* The provenance has one entry per event and no id beyond the counters. *)
EntriesCounted ==
    /\ Len(provenance) = gov.issued["event"]
    /\ \A i \in 1..Len(provenance):
         /\ provenance[i].event = i
         /\ \A c \in provenance[i].changes: c.id <= gov.issued[c.relation]

(* The authorization changes of the first n entries. *)
Authorizations(entries, n) ==
    {c \in UNION {entries[j].changes : j \in 1..n} : c.relation = "authorization"}

(* The change `via' is the latest of these and left authorization in `phase'. *)
Grounds(changes, via, phase) ==
    IF via = 0
    THEN changes = {} /\ phase = "Active"
    ELSE \E c \in changes: /\ c.id = via
                           /\ \A d \in changes: d.id <= c.id
                           /\ c.to = phase

PhaseOf(decision) == IF decision = "ALLOW" THEN "Active" ELSE "Suspended"

AnswersGrounded ==
    /\ Grounds(Authorizations(provenance, Len(provenance)), gov.governing, gov.authorization)
    /\ \A i \in 1..Len(provenance):
         provenance[i].kind = "observe" =>
           Grounds(Authorizations(provenance, i), provenance[i].via, PhaseOf(provenance[i].decision))

IInv == TypeOK /\ EntriesCounted /\ ChangesHaveAdmittedCause /\ ChangeIdsUnique
        /\ AnswersGrounded /\ RestoredOnlyUnderSupervision

(* One step keeps IInv, one conjunct at a time. *)
LEMMA IInvStep ==
    ASSUME IInv, TypeOK', NEW entry, Appends(entry), Observes(entry) \/ Overrides(entry)
    PROVE  IInv'
  <1> DEFINE n == Len(provenance)
  <1>1. /\ n \in Nat
        /\ Len(provenance') = n + 1
        /\ provenance'[n + 1] = entry
        /\ \A i \in 1..n: provenance'[i] = provenance[i]
        /\ entry.kind \in {"observe", "override"}
        /\ entry.changes \subseteq RelationChange
        /\ \A i \in 1..n: provenance[i].changes \subseteq RelationChange
    <2>1. /\ provenance \in Seq(Admissions)
          /\ entry \in Admissions
          /\ provenance' = Append(provenance, entry)
      BY DEF IInv, TypeOK, Appends
    <2>2. \A e \in Admissions: e.kind \in {"observe", "override"} /\ e.changes \subseteq RelationChange
      BY DEF Admissions
    <2>3. \A i \in 1..n: provenance[i] \in Admissions
      BY <2>1
    <2> QED
      BY <2>1, <2>2, <2>3
  <1>2. \A kind \in Counters: /\ gov.issued[kind] \in Nat
                              /\ gov'.issued[kind] \in Nat
                              /\ gov.issued[kind] <= gov'.issued[kind]
    BY DEF IInv, TypeOK, GovernanceState, Appends, Numbered
  <1>3. \A i \in 1..n: \A c \in provenance[i].changes: /\ c.id \in Nat
                                                       /\ c.relation \in Counters
                                                       /\ c.id <= gov.issued[c.relation]
    BY <1>1, CounterOfChange DEF IInv, EntriesCounted, RelationChange
  <1>4. \A c \in entry.changes: /\ c.id \in Nat
                                /\ c.relation \in Counters
                                /\ gov.issued[c.relation] < c.id
                                /\ c.id <= gov'.issued[c.relation]
    BY <1>1, CounterOfChange DEF Appends, Numbered, RelationChange
  <1>5. EntriesCounted'
    <2>1. n + 1 = gov'.issued["event"] /\ entry.event = n + 1
      BY DEF IInv, EntriesCounted, Appends
    <2>2. ASSUME NEW i \in 1..(n + 1)
          PROVE  /\ provenance'[i].event = i
                 /\ \A c \in provenance'[i].changes: c.id <= gov'.issued[c.relation]
      <3>1. CASE i = n + 1
        BY <1>1, <1>4, <2>1, <3>1
      <3>2. CASE i \in 1..n
        <4>1. provenance'[i] = provenance[i] /\ provenance[i].event = i
          BY <1>1, <3>2 DEF IInv, EntriesCounted
        <4>2. ASSUME NEW c \in provenance[i].changes
              PROVE  c.id <= gov'.issued[c.relation]
          BY <1>2, <1>3, <3>2
        <4> QED
          BY <4>1, <4>2
      <3> QED
        BY <1>1, <3>1, <3>2
    <2> QED
      BY <1>1, <2>1, <2>2 DEF EntriesCounted
  <1>6. ChangesHaveAdmittedCause'
    <2>1. \A c \in entry.changes:
            \/ entry.kind = "override" /\ c.by = entry.event
            \/ \E e \in entry.evidence: e.id = c.by /\ IsAccepted(e.decision)
      BY DEF Observes, Overrides, Caused
    <2> QED
      BY <1>1, <2>1 DEF IInv, ChangesHaveAdmittedCause
  <1>7. ChangeIdsUnique'
    <2> SUFFICES ASSUME NEW i \in 1..(n + 1), NEW j \in 1..(n + 1),
                        NEW c \in provenance'[i].changes, NEW d \in provenance'[j].changes,
                        c.relation = d.relation, c.id = d.id
                 PROVE  i = j /\ c = d
      BY <1>1 DEF ChangeIdsUnique
    <2>1. CASE i \in 1..n /\ j \in 1..n
      BY <1>1, <2>1 DEF IInv, ChangeIdsUnique
    <2>2. CASE i = n + 1 /\ j = n + 1
      BY <1>1, <2>2 DEF Appends, Numbered
    <2>3. CASE i \in 1..n /\ j = n + 1
      BY <1>1, <1>2, <1>3, <1>4, <2>3
    <2>4. CASE i = n + 1 /\ j \in 1..n
      BY <1>1, <1>2, <1>3, <1>4, <2>4
    <2> QED
      BY <1>1, <2>1, <2>2, <2>3, <2>4
  <1>8. AnswersGrounded'
    <2> DEFINE old == Authorizations(provenance, n)
               all == Authorizations(provenance', n + 1)
    <2>1. ASSUME NEW i \in 1..n
          PROVE  Authorizations(provenance', i) = Authorizations(provenance, i)
      <3>1. \A j \in 1..i: provenance'[j] = provenance[j]
        BY <1>1
      <3> QED
        BY <3>1 DEF Authorizations
    <2>2. all = old \cup {c \in entry.changes : c.relation = "authorization"}
      <3>1. \A c: (\E j \in 1..(n + 1): c \in provenance'[j].changes)
                    <=> (c \in entry.changes \/ \E j \in 1..n: c \in provenance[j].changes)
        BY <1>1
      <3> QED
        BY <3>1 DEF Authorizations
    <2>3. \A c \in old: c.id \in Nat /\ c.id <= gov.issued["authorization"]
      BY <1>3 DEF Authorizations
    <2>4. Grounds(old, gov.governing, gov.authorization)
      BY DEF IInv, AnswersGrounded
    <2>5. "authorization" \in Counters
      BY DEF Counters
    <2> HIDE DEF old, all
    <2>6. Grounds(all, gov'.governing, gov'.authorization)
      <3>1. CASE /\ \A c \in entry.changes: c.relation /= "authorization"
                 /\ gov'.governing = gov.governing
                 /\ gov'.authorization = gov.authorization
        <4>1. all = old
          BY <2>2, <3>1
        <4> QED
          BY <2>4, <3>1, <4>1
      <3>2. ASSUME NEW c \in entry.changes, c.relation = "authorization",
                   c.id = gov'.governing, c.to = gov'.authorization
            PROVE  Grounds(all, gov'.governing, gov'.authorization)
        <4>1. \A d \in entry.changes: d.relation = "authorization" => d = c
          BY <3>2 DEF Appends, Numbered
        <4>2. c \in all /\ \A d \in all: d.id <= c.id
          BY <1>2, <1>4, <2>2, <2>3, <2>5, <3>2, <4>1
        <4>3. gov'.governing /= 0
          BY <1>2, <1>4, <2>5, <3>2
        <4> QED
          BY <3>2, <4>2, <4>3 DEF Grounds
      <3> QED
        BY <3>1, <3>2 DEF Appends, Governs
    <2>7. entry.kind = "observe" => Grounds(all, entry.via, PhaseOf(entry.decision))
      <3>1. SUFFICES ASSUME entry.kind = "observe"
                     PROVE  /\ entry.via = gov'.governing
                            /\ PhaseOf(entry.decision) = gov'.authorization
        BY <2>6
      <3>2. gov'.authorization \in {"Active", "Suspended"}
        BY DEF TypeOK, GovernanceState, AuthorizationPhase
      <3> QED
        BY <3>1, <3>2 DEF Observes, Overrides, Verdict, PhaseOf
    <2>8. ASSUME NEW i \in 1..(n + 1), provenance'[i].kind = "observe"
          PROVE  Grounds(Authorizations(provenance', i), provenance'[i].via,
                         PhaseOf(provenance'[i].decision))
      <3>1. CASE i = n + 1
        BY <1>1, <2>7, <2>8, <3>1 DEF all
      <3>2. CASE i \in 1..n
        BY <1>1, <2>1, <2>8, <3>2 DEF IInv, AnswersGrounded
      <3> QED
        BY <1>1, <3>1, <3>2
    <2> QED
      BY <1>1, <2>6, <2>8 DEF AnswersGrounded, all
  <1>9. RestoredOnlyUnderSupervision'
    <2>1. gov.supervision \in Nat /\ entry.event = n + 1
      BY DEF IInv, TypeOK, GovernanceState, EntriesCounted, Appends
    <2>2. CASE Observes(entry)
      <3>1. /\ gov'.supervision = gov.supervision
            /\ entry.kind = "observe"
        BY <2>2 DEF Observes
      <3>2. CASE gov.supervision = 0
        <4>1. \A i \in 1..(n + 1): provenance'[i].kind /= "override"
          BY <1>1, <3>1, <3>2 DEF IInv, RestoredOnlyUnderSupervision
        <4>2. gov'.authorization = "Active" => gov'.governing = 0
          BY <2>2, <3>2 DEF Observes, Appends, Governs, IInv, RestoredOnlyUnderSupervision
        <4> QED
          BY <1>1, <3>1, <3>2, <4>1, <4>2 DEF RestoredOnlyUnderSupervision
      <3>3. CASE gov.supervision /= 0
        BY <1>1, <2>1, <3>1, <3>3 DEF IInv, RestoredOnlyUnderSupervision
      <3> QED
        BY <3>2, <3>3
    <2>3. CASE Overrides(entry)
      <3>1. CASE gov.supervision = 0
        <4>1. gov'.supervision = n + 1 /\ entry.kind = "override"
          BY <2>1, <2>3, <3>1 DEF Overrides
        <4>2. \A i \in 1..n: provenance'[i].kind /= "override"
          BY <1>1, <3>1 DEF IInv, RestoredOnlyUnderSupervision
        <4> QED
          BY <1>1, <4>1, <4>2 DEF RestoredOnlyUnderSupervision
      <3>2. CASE gov.supervision /= 0
        <4>1. gov'.supervision = gov.supervision
          BY <2>3, <3>2 DEF Overrides
        <4>2. /\ gov.supervision \in 1..n /\ provenance[gov.supervision].kind = "override"
              /\ \A i \in 1..(gov.supervision - 1): provenance[i].kind /= "override"
          BY <1>1, <3>2 DEF IInv, RestoredOnlyUnderSupervision
        <4>3. \A i \in 1..(gov.supervision - 1): i \in 1..n
          BY <1>1, <4>2
        <4> QED
          BY <1>1, <3>2, <4>1, <4>2, <4>3 DEF RestoredOnlyUnderSupervision
      <3> QED
        BY <3>1, <3>2
    <2> QED
      BY <2>2, <2>3
  <1> QED
    BY <1>5, <1>6, <1>7, <1>8, <1>9 DEF IInv

THEOREM Invariance == Spec => []IInv
  <1>1. Init => EntriesCounted /\ ChangesHaveAdmittedCause /\ ChangeIdsUnique
    BY DEF Init, NewGovernance, EntriesCounted, ChangesHaveAdmittedCause, ChangeIdsUnique, Counters
  <1>2. Init => AnswersGrounded /\ RestoredOnlyUnderSupervision
    BY DEF Init, NewGovernance, AnswersGrounded, Authorizations, Grounds, RestoredOnlyUnderSupervision
  <1>3. TypeOK /\ TypeOK' /\ IInv /\ [Next]_vars => IInv'
    <2>1. ASSUME IInv, TypeOK', UNCHANGED vars
          PROVE  IInv'
      <3>1. gov' = gov /\ provenance' = provenance
        BY <2>1 DEF vars
      <3>2. EntriesCounted' /\ ChangesHaveAdmittedCause' /\ ChangeIdsUnique'
        BY <2>1, <3>1 DEF IInv, EntriesCounted, ChangesHaveAdmittedCause, ChangeIdsUnique
      <3>3. AnswersGrounded' /\ RestoredOnlyUnderSupervision'
        BY <2>1, <3>1 DEF IInv, AnswersGrounded, RestoredOnlyUnderSupervision
      <3> QED
        BY <2>1, <3>2, <3>3 DEF IInv
    <2>2. ASSUME TypeOK, TypeOK', IInv, Next
          PROVE  IInv'
      BY <2>2, StepAppends, IInvStep
    <2> QED
      BY <2>1, <2>2
  <1> QED
    BY <1>1, <1>2, <1>3, TypeCorrect, PTL DEF Spec, IInv

(* A relation changes only by evidence accepted in the same event, or by the *)
(* override event itself.                                                    *)
THEOREM CausesHold == Spec => []ChangesHaveAdmittedCause
  BY Invariance, PTL DEF IInv

(* The change id of a relation names one change of one event for ever, *)
(* however long the kernel runs.                                       *)
THEOREM IdsHold == Spec => []ChangeIdsUnique
  BY Invariance, PTL DEF IInv

(* The relation an answer gives as its ground is the latest authorization *)
(* change before it, and its phase is the answer.                         *)
THEOREM AnswersExplained == Spec => []ViaExplainsAnswer
  <1>1. IInv => ViaExplainsAnswer
    <2> SUFFICES ASSUME IInv, NEW i \in 1..Len(provenance), provenance[i].kind = "observe"
                 PROVE  LET authorizations == Authorizations(provenance, i)
                            entry == provenance[i]
                        IN  IF entry.via = 0
                            THEN authorizations = {} /\ entry.decision = "ALLOW"
                            ELSE \E c \in authorizations:
                                   /\ c.id = entry.via
                                   /\ \A d \in authorizations: d.id <= c.id
                                   /\ (c.to = "Suspended") <=> (entry.decision = "DENY")
      BY DEF ViaExplainsAnswer, Authorizations
    <2>1. Grounds(Authorizations(provenance, i), provenance[i].via, PhaseOf(provenance[i].decision))
      BY DEF IInv, AnswersGrounded
    <2>2. provenance[i].decision \in {"ALLOW", "DENY"}
      <3>1. provenance[i] \in Admissions
        BY DEF IInv, TypeOK
      <3> QED
        BY <3>1 DEF Admissions
    <2> QED
      BY <2>1, <2>2 DEF Grounds, PhaseOf
  <1> QED
    BY <1>1, Invariance, PTL

(* The supervision is that of the first override, with or without a          *)
(* suspension, and nothing is restored without one.                         *)
THEOREM SupervisionHolds == Spec => []RestoredOnlyUnderSupervision
  <1>1. IInv => RestoredOnlyUnderSupervision
    BY DEF IInv
  <1> QED
    BY <1>1, Invariance, PTL
=============================================================================
