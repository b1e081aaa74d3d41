------------------------ MODULE GovernanceRuntimeProofs ------------------------
(***************************************************************************)
(* Theorems about the governance server, its memory and its file           *)
(* (GovernanceRuntime), about the remote profile in front of it            *)
(* (RemoteAccess) and about the gateway over it (GovernedGateway), for all *)
(* domains, actions, judgments and bounds and for every file that decodes. *)
(***************************************************************************)
EXTENDS RemoteAccess, GovernedGateway, GovernanceProofs, WellFoundedInduction,
        FiniteSetTheorems

(* Every nonempty set of naturals has a least element. *)
LEMMA LeastNumber ==
    ASSUME NEW T \in SUBSET Nat, T # {}
    PROVE  \E n \in T: \A m \in T: n <= m
  <1> DEFINE R == OpToRel(<, Nat)
  <1>1. IsWellFoundedOn(R, Nat)
    BY NatLessThanWellFounded
  <1>2. \A x, y \in Nat: x < y => <<x, y>> \in R
    BY DEF OpToRel
  <1> HIDE DEF R
  <1>3. PICK n \in T: \A m \in T: ~(<<m, n>> \in R)
    BY <1>1, WFMin
  <1>4. ASSUME NEW m \in T
        PROVE  n <= m
    <2>1. m \in Nat /\ n \in Nat
      OBVIOUS
    <2>2. ~(m < n)
      BY <1>2, <1>3, <2>1
    <2> QED
      BY <2>1, <2>2
  <1> QED
    BY <1>4
-----------------------------------------------------------------------------
(* The types of what a request or a recovery puts together. *)
LEMMA DemoContextType ==
    ASSUME NEW n \in Nat
    PROVE  DemoContext(n) \in AdmissionContext /\ ValidContext(DemoContext(n))
  <1>1. n + 10 \in Nat /\ n + 10 >= n
    BY SMT
  <1>3. 850000 \in 0..PPM
    <2>1. 850000 \in Nat /\ PPM \in Nat /\ 850000 <= PPM
      BY SMT DEF PPM
    <2> QED
      BY SMT, <2>1
  <1>2. DemoContext(n) = [reliability |-> 850000, corroborators |-> 0, now |-> n, expires |-> n + 10]
    BY SMT DEF DemoContext
  <1> QED
    BY SMT, <1>1, <1>2, <1>3 DEF AdmissionContext, ValidContext

LEMMA ObservationType ==
    ASSUME NEW domain \in DomainRuntime, NEW outcome, NEW vtick \in Nat,
           outcome.gov \in GovernanceState, outcome.admission \in Admissions
    PROVE  /\ AfterObservation(domain, outcome, vtick) \in DomainRuntime
           /\ Transitions(outcome.admission) \in
                SUBSET [relation: Relations, id: Nat,
                        to: {"Warning", "Degraded", "Suspended", "Active", "created"}]
           /\ outcome.admission.event \in Nat
  <1>1. /\ outcome.admission.changes \subseteq RelationChange
        /\ outcome.admission.decision \in {"ALLOW", "DENY"}
        /\ outcome.admission.event \in Nat
    BY DEF Admissions
  <1>2. \A c \in outcome.admission.changes: c.id \in Nat
    BY <1>1 DEF RelationChange
  <1>3. domain.governing \in Nat
    BY DEF DomainRuntime
  <1>4. AfterObservation(domain, outcome, vtick).governing \in Nat
    BY <1>2, <1>3 DEF AfterObservation
  <1>5. Transitions(outcome.admission) \in
                SUBSET [relation: Relations, id: Nat,
                        to: {"Warning", "Degraded", "Suspended", "Active", "created"}]
    BY <1>1 DEF Transitions, RenderRelationChange, RelationChange
  <1> QED
    BY <1>1, <1>4, <1>5 DEF AfterObservation, DomainRuntime

(* A known decision is the first of the log with its id. *)
LEMMA DecisionIsLogged ==
    ASSUME NEW store \in Store, NEW id, KnowsDecision(store, id)
    PROVE  /\ Decision(store, id) \in StoredDecision
           /\ Decision(store, id).id = id
           /\ \E i \in 1..Len(store.decisions):
                /\ Decision(store, id) = store.decisions[i]
                /\ \A j \in 1..(i - 1): store.decisions[j].id /= id
  <1> DEFINE log == store.decisions
             places == {i \in 1..Len(log): log[i].id = id}
             Least(i) == log[i].id = id /\ \A j \in 1..(i - 1): log[j].id /= id
  <1>1. log \in Seq(StoredDecision)
    BY DEF Store
  <1>2. PICK i \in places: \A j \in places: i <= j
    <2>1. places # {} /\ places \in SUBSET Nat
      BY <1>1 DEF KnowsDecision
    <2> QED
      BY <2>1, LeastNumber
  <1>3. i \in 1..Len(log) /\ Least(i)
    BY <1>1, <1>2
  <1> DEFINE k == CHOOSE k \in 1..Len(log): Least(k)
  <1>4. k \in 1..Len(log) /\ Least(k)
    BY <1>3
  <1>5. Decision(store, id) = log[k]
    BY DEF Decision
  <1> HIDE DEF k
  <1>6. log[k] \in StoredDecision
    BY <1>1, <1>4
  <1> QED
    BY <1>4, <1>5, <1>6

LEMMA StoreTypes ==
    ASSUME NEW store \in Store
    PROVE  /\ \A d \in Domains: /\ CurrentStateVersion(store, d) \in Nat
                                /\ AdvanceStateVersion(store, d) \in Store
           /\ \A e \in StoredEvent: RecordEvent(store, e) \in Store
           /\ \A e \in StoredDecision: RecordDecision(store, e) \in Store
           /\ \A e \in StoredOutcome: RecordOutcome(store, e) \in Store
           /\ store.issued.event \in Nat /\ store.issued.decision \in Nat
           /\ store.issued.outcome \in Nat
  <1>1. /\ store.events \in Seq(StoredEvent)
        /\ store.decisions \in Seq(StoredDecision)
        /\ store.outcomes \in Seq(StoredOutcome)
        /\ store.versions \in [Domains -> Nat]
        /\ store.issued \in [event: Nat, decision: Nat, outcome: Nat]
    BY DEF Store
  <1>2. ASSUME NEW d \in Domains
        PROVE  CurrentStateVersion(store, d) \in Nat /\ AdvanceStateVersion(store, d) \in Store
    <2>1. [store.versions EXCEPT ![d] = @ + 1] \in [Domains -> Nat]
      BY <1>1
    <2> QED
      BY <1>1, <2>1 DEF Store, CurrentStateVersion, AdvanceStateVersion
  <1>3. ASSUME NEW e \in StoredEvent
        PROVE  RecordEvent(store, e) \in Store
    <2>1. Append(store.events, e) \in Seq(StoredEvent)
      BY <1>1
    <2>2. [store.issued EXCEPT !.event = @ + 1] \in [event: Nat, decision: Nat, outcome: Nat]
      <3>1. store.issued.event + 1 \in Nat
        BY <1>1
      <3> QED
        BY <1>1, <3>1
    <2> QED
      BY <2>1, <2>2 DEF Store, RecordEvent
  <1>4. ASSUME NEW e \in StoredDecision
        PROVE  RecordDecision(store, e) \in Store
    <2>1. Append(store.decisions, e) \in Seq(StoredDecision)
      BY <1>1
    <2>2. [store.issued EXCEPT !.decision = @ + 1] \in [event: Nat, decision: Nat, outcome: Nat]
      <3>1. store.issued.decision + 1 \in Nat
        BY <1>1
      <3> QED
        BY <1>1, <3>1
    <2> QED
      BY <2>1, <2>2 DEF Store, RecordDecision
  <1>5. ASSUME NEW e \in StoredOutcome
        PROVE  RecordOutcome(store, e) \in Store
    <2>1. Append(store.outcomes, e) \in Seq(StoredOutcome)
      BY <1>1
    <2>2. [store.issued EXCEPT !.outcome = @ + 1] \in [event: Nat, decision: Nat, outcome: Nat]
      <3>1. store.issued.outcome + 1 \in Nat
        BY <1>1
      <3> QED
        BY <1>1, <3>1
    <2> QED
      BY <2>1, <2>2 DEF Store, RecordOutcome
  <1> QED
    BY <1>1, <1>2, <1>3, <1>4, <1>5

LEMMA EmptyStoreType == EmptyStore \in Store
  BY DEF EmptyStore, Store

LEMMA NewDomainType == NewDomain \in DomainRuntime /\ NewGovernance \in GovernanceState
  BY DEF NewDomain, DomainRuntime, NewGovernance, GovernanceState, TrustPhase, DelegationPhase,
         AuthorizationPhase, Counters
-----------------------------------------------------------------------------
(* Each action keeps the types. *)
LEMMA ForgottenType ==
    ASSUME TypeOK, Forgotten, disk' = disk, acks' = acks,
           status' \in {"down", "recovering", "serving", "refused"}
    PROVE  TypeOK'
  <1>1. /\ domains' \in [Domains -> DomainRuntime]
        /\ mem' \in Store
        /\ fatal' \in BOOLEAN
        /\ cursor' \in Nat \ {0}
        /\ replayed' \in [Domains -> Nat]
        /\ call' \in {Idle}
    <2>1. domains' \in [Domains -> DomainRuntime]
      BY NewDomainType DEF Forgotten
    <2>2. replayed' \in [Domains -> Nat]
      BY DEF Forgotten
    <2>3. mem' \in Store
      BY EmptyStoreType DEF Forgotten
    <2>4. fatal' \in BOOLEAN
      BY Zenon DEF Forgotten
    <2>5. cursor' = 1 /\ call' = Idle
      BY DEF Forgotten
    <2> QED
      BY <2>1, <2>2, <2>3, <2>4, <2>5
  <1>2. disk' \in Store /\ acks' \in Seq(Reply)
    BY DEF TypeOK
  <1> QED
    BY <1>1, <1>2 DEF TypeOK

LEMMA PreparedType ==
    ASSUME NEW id \in Nat, NEW d \in Domains, NEW version \in Nat
    PROVE  /\ \A verdict \in {"CHANGED", "UNCHANGED"}:
                Prepared("observe", id, d, version, verdict)
                  \in [stage: {"persist", "respond"}, reply: Reply]
           /\ \A verdict \in {"ALLOW", "DENY"}:
                Prepared("decide", id, d, version, verdict)
                  \in [stage: {"persist", "respond"}, reply: Reply]
           /\ Prepared("outcome", id, d, version, "RECORDED")
                \in [stage: {"persist", "respond"}, reply: Reply]
  <1> DEFINE R(op, verdict) ==
        [op |-> op, id |-> id, domain |-> d, version |-> version, answer |-> verdict]
  <1>1. /\ \A verdict \in {"CHANGED", "UNCHANGED"}: R("observe", verdict) \in Reply
        /\ \A verdict \in {"ALLOW", "DENY"}: R("decide", verdict) \in Reply
        /\ R("outcome", "RECORDED") \in Reply
    BY DEF Reply, ReplyTo
  <1>2. \A op, verdict: Prepared(op, id, d, version, verdict)
                         = [stage |-> "persist", reply |-> R(op, verdict)]
    BY DEF Prepared
  <1> HIDE DEF R
  <1> QED
    BY <1>1, <1>2

(* The event an observation stores, and what else it changes. *)
Observed(d, judgment) ==
    ObserveJudgment(domains[d].gov, judgment, DemoContext(domains[d].nextVtick))
StoreBefore(d, judgment) ==
    IF Observed(d, judgment).admission.changes /= {} THEN AdvanceStateVersion(mem, d) ELSE mem
EventOf(d, judgment) ==
    [id |-> mem.issued.event + 1,
     kernelEvent |-> Observed(d, judgment).admission.event,
     domain |-> d,
     version |-> CurrentStateVersion(StoreBefore(d, judgment), d),
     transitions |-> Transitions(Observed(d, judgment).admission),
     judgment |-> judgment,
     context |-> DemoContext(domains[d].nextVtick),
     policy |-> "current"]

LEMMA ObserveSteps ==
    ASSUME NEW d \in Domains, NEW judgment \in Judgments, Observe(d, judgment)
    PROVE  /\ domains' = [domains EXCEPT ![d] =
                AfterObservation(domains[d], Observed(d, judgment), domains[d].nextVtick + 1)]
           /\ mem' = RecordEvent(StoreBefore(d, judgment), EventOf(d, judgment))
           /\ call' = Prepared("observe", EventOf(d, judgment).id, d, EventOf(d, judgment).version,
                               IF Observed(d, judgment).admission.changes /= {}
                               THEN "CHANGED" ELSE "UNCHANGED")
           /\ UNCHANGED <<status, fatal, disk, recovery, acks>>
           /\ Ready
  BY DEF Observe, Observed, StoreBefore, EventOf

LEMMA ObservedType ==
    ASSUME TypeOK, NEW d \in Domains, NEW judgment \in Judgments
    PROVE  LET o == Observed(d, judgment)
           IN  /\ domains[d] \in DomainRuntime
               /\ domains[d].gov \in GovernanceState
               /\ domains[d].nextVtick \in Nat
               /\ judgment \in [beyond: 0..PPM, destructive: 0..PPM]
               /\ DemoContext(domains[d].nextVtick) \in AdmissionContext
               /\ ValidContext(DemoContext(domains[d].nextVtick))
               /\ o.gov \in GovernanceState
               /\ o.admission \in Admissions
               /\ StoreBefore(d, judgment) \in Store
               /\ EventOf(d, judgment) \in StoredEvent
  <1> DEFINE o == Observed(d, judgment)
             context == DemoContext(domains[d].nextVtick)
             store == StoreBefore(d, judgment)
             event == EventOf(d, judgment)
  <1>1. /\ domains[d] \in DomainRuntime
        /\ domains[d].gov \in GovernanceState
        /\ domains[d].nextVtick \in Nat
        /\ mem \in Store
    BY DEF TypeOK, DomainRuntime
  <1>2. judgment \in [beyond: 0..PPM, destructive: 0..PPM]
    BY JudgmentsAssumption
  <1>3. context \in AdmissionContext /\ ValidContext(context)
    BY <1>1, DemoContextType
  <1> HIDE DEF context
  <1>4. o.gov \in GovernanceState /\ o.admission \in Admissions
    BY <1>1, <1>2, <1>3, ObserveEffect DEF Observed, context
  <1>5. store \in Store /\ CurrentStateVersion(store, d) \in Nat
    BY <1>1, StoreTypes DEF StoreBefore
  <1>6. mem.issued.event + 1 \in Nat
    BY <1>1, StoreTypes
  <1>7. Transitions(o.admission) \in SUBSET [relation: Relations, id: Nat,
                          to: {"Warning", "Degraded", "Suspended", "Active", "created"}]
        /\ o.admission.event \in Nat
    BY <1>1, <1>4, ObservationType
  <1>8. /\ judgment \in [beyond: Nat, destructive: Nat]
        /\ context \in [reliability: Nat, corroborators: Nat, now: Nat, expires: Nat]
    <2>1. \A n \in 0..PPM: n \in Nat
      OBVIOUS
    <2> QED
      BY <1>2, <1>3, <2>1 DEF AdmissionContext
  <1>9. event \in StoredEvent
    <2> HIDE DEF o, store
    <2> QED
      BY <1>5, <1>6, <1>7, <1>8 DEF EventOf, StoredEvent, o, store, context
  <1> QED
    BY <1>1, <1>2, <1>3, <1>4, <1>5, <1>9 DEF context

LEMMA ObserveKeepsType ==
    ASSUME TypeOK, NEW d \in Domains, NEW judgment \in Judgments, Observe(d, judgment)
    PROVE  TypeOK'
  <1> DEFINE o == Observed(d, judgment)
  <1>1. /\ domains[d] \in DomainRuntime
        /\ domains[d].nextVtick + 1 \in Nat
        /\ o.gov \in GovernanceState
        /\ o.admission \in Admissions
        /\ StoreBefore(d, judgment) \in Store
        /\ EventOf(d, judgment) \in StoredEvent
    BY ObservedType
  <1> HIDE DEF o
  <1>2. AfterObservation(domains[d], o, domains[d].nextVtick + 1) \in DomainRuntime
    BY <1>1, ObservationType
  <1>3. domains' \in [Domains -> DomainRuntime]
    BY <1>2, ObserveSteps DEF TypeOK, o
  <1>4. mem' \in Store
    BY <1>1, StoreTypes, ObserveSteps
  <1>5. call' \in [stage: {"persist", "respond"}, reply: Reply]
    <2>1. EventOf(d, judgment).id \in Nat /\ EventOf(d, judgment).version \in Nat
      BY <1>1 DEF StoredEvent
    <2> QED
      BY <2>1, PreparedType, ObserveSteps
  <1>6. UNCHANGED <<status, fatal, disk, recovery, acks>>
    BY ObserveSteps
  <1> QED
    BY <1>3, <1>4, <1>5, <1>6 DEF TypeOK, recovery

(* The decision r2r_decide stores. *)
IssuedDecision(d, action) ==
    [id |-> mem.issued.decision + 1,
     domain |-> d,
     action |-> action,
     verdict |-> domains[d].projected,
     governing |-> domains[d].governing,
     version |-> CurrentStateVersion(mem, d),
     chain |-> {mem.events[k].id : k \in EventsForDomain(mem, d)}]

LEMMA DecideSteps ==
    ASSUME NEW d \in Domains, NEW action \in Actions, Decide(d, action)
    PROVE  /\ mem' = RecordDecision(mem, IssuedDecision(d, action))
           /\ call' = Prepared("decide", IssuedDecision(d, action).id, d,
                               IssuedDecision(d, action).version, domains[d].projected)
           /\ UNCHANGED <<status, domains, fatal, disk, recovery, acks>>
           /\ Ready
  BY DEF Decide, IssuedDecision

LEMMA DecisionOfType ==
    ASSUME TypeOK, NEW d \in Domains, NEW action \in Actions
    PROVE  IssuedDecision(d, action) \in StoredDecision
  <1>1. mem \in Store /\ domains[d] \in DomainRuntime
    BY DEF TypeOK
  <1>2. {mem.events[k].id : k \in EventsForDomain(mem, d)} \in SUBSET Nat
    <2>1. mem.events \in Seq(StoredEvent)
      BY <1>1 DEF Store
    <2>2. \A e \in StoredEvent: e.id \in Nat
      BY DEF StoredEvent
    <2>3. \A k \in 1..Len(mem.events): mem.events[k].id \in Nat
      BY <2>1, <2>2
    <2> QED
      BY <2>3 DEF EventsForDomain
  <1>3. /\ mem.issued.decision + 1 \in Nat
        /\ CurrentStateVersion(mem, d) \in Nat
        /\ domains[d].projected \in {"ALLOW", "DENY"}
        /\ domains[d].governing \in Nat
    BY <1>1, StoreTypes DEF DomainRuntime
  <1> QED
    BY <1>2, <1>3 DEF IssuedDecision, StoredDecision

LEMMA DecideKeepsType ==
    ASSUME TypeOK, NEW d \in Domains, NEW action \in Actions, Decide(d, action)
    PROVE  TypeOK'
  <1>1. IssuedDecision(d, action) \in StoredDecision
    BY DecisionOfType
  <1>2. mem' \in Store
    BY <1>1, StoreTypes, DecideSteps DEF TypeOK
  <1>3. call' \in [stage: {"persist", "respond"}, reply: Reply]
    <2>1. /\ IssuedDecision(d, action).id \in Nat
          /\ IssuedDecision(d, action).version \in Nat
          /\ domains[d].projected \in {"ALLOW", "DENY"}
      BY <1>1 DEF StoredDecision, TypeOK, DomainRuntime
    <2> QED
      BY <2>1, PreparedType, DecideSteps
  <1>4. UNCHANGED <<status, domains, fatal, disk, recovery, acks>>
    BY DecideSteps
  <1> QED
    BY <1>2, <1>3, <1>4 DEF TypeOK, recovery

LEMMA OutcomeSteps ==
    ASSUME NEW id, NEW kind, RecordOutcomeOf(id, kind)
    PROVE  /\ KnowsDecision(mem, id)
           /\ mem' = RecordOutcome(mem, OutcomeFor(mem, id, kind))
           /\ call' = Prepared("outcome", OutcomeFor(mem, id, kind).id,
                               OutcomeFor(mem, id, kind).domain,
                               OutcomeFor(mem, id, kind).version, "RECORDED")
           /\ UNCHANGED <<status, domains, fatal, disk, recovery, acks>>
           /\ Ready
  BY DEF RecordOutcomeOf

LEMMA OutcomeForType ==
    ASSUME NEW store \in Store, NEW id, KnowsDecision(store, id), NEW kind \in OutcomeKinds
    PROVE  /\ OutcomeFor(store, id, kind) \in StoredOutcome
           /\ OutcomeFor(store, id, kind).domain = Decision(store, id).domain
  <1> DEFINE decision == Decision(store, id)
  <1>1. decision \in StoredDecision
    BY DecisionIsLogged
  <1>2. decision.id \in Nat /\ decision.domain \in Domains
    BY <1>1 DEF StoredDecision
  <1> HIDE DEF decision
  <1>3. store.issued.outcome + 1 \in Nat /\ CurrentStateVersion(store, decision.domain) \in Nat
    BY <1>2, StoreTypes
  <1> QED
    BY <1>2, <1>3 DEF OutcomeFor, StoredOutcome, decision

LEMMA OutcomeKeepsType ==
    ASSUME TypeOK, NEW id, NEW kind \in OutcomeKinds, RecordOutcomeOf(id, kind)
    PROVE  TypeOK'
  <1>1. OutcomeFor(mem, id, kind) \in StoredOutcome
    BY OutcomeForType, OutcomeSteps DEF TypeOK
  <1>2. mem' \in Store
    BY <1>1, StoreTypes, OutcomeSteps DEF TypeOK
  <1>3. call' \in [stage: {"persist", "respond"}, reply: Reply]
    <2>1. /\ OutcomeFor(mem, id, kind).id \in Nat
          /\ OutcomeFor(mem, id, kind).domain \in Domains
          /\ OutcomeFor(mem, id, kind).version \in Nat
      BY <1>1 DEF StoredOutcome
    <2> QED
      BY <2>1, PreparedType, OutcomeSteps
  <1>4. UNCHANGED <<status, domains, fatal, disk, recovery, acks>>
    BY OutcomeSteps
  <1> QED
    BY <1>2, <1>3, <1>4 DEF TypeOK, recovery

LEMMA FinishKeepsType ==
    ASSUME TypeOK, Finish
    PROVE  TypeOK'
  <1>1. call.stage \in {"persist", "respond"} => call \in [stage: {"persist", "respond"}, reply: Reply]
    BY DEF TypeOK, Idle
  <1>2. CASE PersistOk
    BY <1>1, <1>2 DEF PersistOk, TypeOK, memory, recovery
  <1>3. CASE PersistFail
    BY <1>1, <1>3 DEF PersistFail, TypeOK, memory, recovery
  <1>4. CASE Respond
    <2>1. call.reply \in Reply
      BY <1>1, <1>4 DEF Respond
    <2>2. acks' \in Seq(Reply)
      BY <1>4, <2>1 DEF Respond, TypeOK
    <2> QED
      BY <1>4, <2>2 DEF Respond, TypeOK, memory, recovery
  <1> QED
    BY <1>2, <1>3, <1>4 DEF Finish

(* The event under recovery is one of the log, in range when it replays. *)
LEMMA EventType ==
    ASSUME TypeOK, Recovering
    PROVE  /\ cursor \in 1..Len(mem.events)
           /\ Event = mem.events[cursor]
           /\ Event \in StoredEvent
           /\ Event.domain \in Domains
           /\ domains[Event.domain] \in DomainRuntime
           /\ domains[Event.domain].gov \in GovernanceState
           /\ Event.policy \in {"current", "other", "none"}
  <1>1. cursor \in 1..Len(mem.events) /\ mem.events \in Seq(StoredEvent)
    BY DEF TypeOK, Recovering, Store
  <1>2. Event = mem.events[cursor] /\ Event \in StoredEvent
    BY <1>1 DEF Event
  <1>3. Event.domain \in Domains /\ Event.policy \in {"current", "other", "none"}
    BY <1>2 DEF StoredEvent
  <1>4. domains[Event.domain] \in DomainRuntime
    BY <1>3 DEF TypeOK
  <1> QED
    BY <1>1, <1>2, <1>3, <1>4 DEF DomainRuntime

LEMMA InRange ==
    ASSUME NEW event \in StoredEvent, ~Panics(event)
    PROVE  /\ event.judgment \in [beyond: 0..PPM, destructive: 0..PPM]
           /\ event.context \in AdmissionContext
           /\ event.context.now + 1 \in Nat
  <1>1. /\ event.judgment \in [beyond: Nat, destructive: Nat]
        /\ event.context \in [reliability: Nat, corroborators: Nat, now: Nat, expires: Nat]
    BY DEF StoredEvent
  <1>2. PPM \in Nat
    BY SMT DEF PPM
  <1>3. /\ event.judgment.beyond <= PPM
        /\ event.judgment.destructive <= PPM
        /\ event.context.reliability <= PPM
    BY <1>1, <1>2 DEF Panics, ValidContext
  <1> QED
    BY <1>1, <1>2, <1>3 DEF AdmissionContext

LEMMA OutcomeType ==
    ASSUME TypeOK, Recovering, Replayable
    PROVE  /\ Outcome.gov \in GovernanceState
           /\ Outcome.admission \in Admissions
           /\ Version \in Nat
           /\ RestoredVtick(domains[Event.domain], Event) \in Nat
  <1>1. /\ Event \in StoredEvent
        /\ Event.domain \in Domains
        /\ domains[Event.domain] \in DomainRuntime
        /\ domains[Event.domain].gov \in GovernanceState
    BY EventType
  <1>2. /\ Event.judgment \in [beyond: 0..PPM, destructive: 0..PPM]
        /\ Event.context \in AdmissionContext
        /\ Event.context.now + 1 \in Nat
    BY <1>1, InRange DEF Replayable
  <1>3. Outcome.gov \in GovernanceState /\ Outcome.admission \in Admissions
    BY <1>1, <1>2, ObserveEffect DEF Outcome
  <1>4. Version \in Nat
    BY <1>1 DEF Version, VersionAfter, TypeOK
  <1>5. RestoredVtick(domains[Event.domain], Event) \in Nat
    BY <1>1, <1>2 DEF RestoredVtick, DomainRuntime
  <1> QED
    BY <1>3, <1>4, <1>5

LEMMA RecoverKeepsType ==
    ASSUME TypeOK, Recover
    PROVE  TypeOK'
  <1>1. CASE RecoverEvent
    <2>1. Recovering /\ Replayable
      BY <1>1 DEF RecoverEvent
    <2>2. AfterObservation(domains[Event.domain], Outcome, RestoredVtick(domains[Event.domain], Event))
            \in DomainRuntime
      BY <2>1, EventType, OutcomeType, ObservationType
    <2>3. domains' \in [Domains -> DomainRuntime] /\ replayed' \in [Domains -> Nat]
      BY <1>1, <2>1, <2>2, OutcomeType DEF RecoverEvent, TypeOK
    <2> QED
      BY <1>1, <2>3 DEF RecoverEvent, TypeOK
  <1>2. CASE PassOverEvent
    BY <1>2 DEF PassOverEvent, TypeOK, memory
  <1>3. CASE RefuseEvent
    BY <1>3, ForgottenType DEF RefuseEvent
  <1>4. CASE PanicOnEvent
    BY <1>4, ForgottenType DEF PanicOnEvent
  <1>5. CASE FinishRecovery
    <2>1. CASE status' = "serving" /\ cursor' = 1 /\ replayed' = [d \in Domains |-> 0]
               /\ UNCHANGED <<memory, call>>
      BY <1>5, <2>1 DEF FinishRecovery, TypeOK, memory
    <2>2. CASE status' = "refused" /\ Forgotten
      BY <1>5, <2>2, ForgottenType DEF FinishRecovery
    <2> QED
      BY <1>5, <2>1, <2>2 DEF FinishRecovery
  <1> QED
    BY <1>1, <1>2, <1>3, <1>4, <1>5 DEF Recover

LEMMA TypeInit ==
    ASSUME Init
    PROVE  TypeOK
  <1>1. disk \in Store
    BY FilesAssumption DEF Init
  <1>2. domains \in [Domains -> DomainRuntime] /\ replayed \in [Domains -> Nat]
    BY NewDomainType DEF Init
  <1>3. mem \in Store /\ acks \in Seq(Reply)
    BY EmptyStoreType DEF Init
  <1>4. fatal \in BOOLEAN
    BY Zenon DEF Init
  <1>5. cursor = 1 /\ call = Idle /\ status = "down"
    BY DEF Init
  <1> QED
    BY <1>1, <1>2, <1>3, <1>4, <1>5 DEF TypeOK

LEMMA TypeStep ==
    ASSUME TypeOK, [Next]_vars
    PROVE  TypeOK'
  <1>1. CASE Request
    BY <1>1, ObserveKeepsType, DecideKeepsType, OutcomeKeepsType DEF Request
  <1>2. CASE Finish
    BY <1>2, FinishKeepsType
  <1>3. CASE Crash
    BY <1>3, ForgottenType DEF Crash
  <1>4. CASE Open
    BY <1>4 DEF Open, TypeOK, recovery
  <1>5. CASE Recover
    BY <1>5, RecoverKeepsType
  <1>6. CASE UNCHANGED vars
    BY <1>6 DEF vars, memory, recovery, TypeOK
  <1> QED
    BY <1>1, <1>2, <1>3, <1>4, <1>5, <1>6 DEF Next

(* The server, its memory and its file keep their types, whatever file of *)
(* these types it is started on.                                          *)
THEOREM TypeCorrect == Spec => []TypeOK
  <1>1. Init => TypeOK
    BY TypeInit
  <1>2. TypeOK /\ [Next]_vars => TypeOK'
    BY TypeStep
  <1> QED
    BY <1>1, <1>2, PTL DEF Spec
-----------------------------------------------------------------------------
(***************************************************************************)
(* Memory and file.  A dead process holds nothing; one that recovers holds *)
(* the file; one that serves holds what is in the file and possibly one    *)
(* request more, or, once a write has failed, whatever it was asked before *)
(* it noticed.  Only a request that was written is owed an answer.         *)
(***************************************************************************)
Grows(store, later) ==
    /\ Extends(store.events, later.events)
    /\ Extends(store.decisions, later.decisions)
    /\ Extends(store.outcomes, later.outcomes)

AllNew == domains = [d \in Domains |-> NewDomain] /\ cursor = 1 /\ replayed = [d \in Domains |-> 0]

ProcessInv ==
    /\ status \in {"down", "refused"} => call = Idle /\ ~fatal /\ AllNew
    /\ status = "recovering" => call = Idle /\ ~fatal /\ mem = disk
    /\ status = "serving" => Grows(disk, mem)
    /\ Ready => mem = disk
    /\ call.stage = "persist" => ~fatal /\ Holds(mem, call.reply)
    /\ (call.stage = "respond" /\ ~fatal) => mem = disk /\ Holds(disk, call.reply)

(* A change of relations is a suspension, and it lasts: a domain with a     *)
(* change in the log is suspended, so the projection cannot allow.          *)
Covered(k) == status = "serving" \/ (status = "recovering" /\ k < cursor)

SuspensionKept ==
    /\ \A d \in Domains: domains[d].projected = Verdict(domains[d].gov)
    /\ \A k \in 1..Len(mem.events):
         (Covered(k) /\ mem.events[k].transitions /= {})
           => domains[mem.events[k].domain].gov.authorization = "Suspended"
    /\ (call /= Idle /\ call.reply.answer = "ALLOW")
         => domains[call.reply.domain].gov.authorization = "Active"

LEMMA AppendExtends ==
    ASSUME NEW S, NEW log \in Seq(S), NEW e \in S
    PROVE  /\ Extends(log, Append(log, e))
           /\ Len(Append(log, e)) = Len(log) + 1
           /\ Append(log, e)[Len(log) + 1] = e
           /\ Extends(log, log)
           /\ Len(log) \in Nat
  BY DEF Extends

LEMMA ExtendsTransitive ==
    ASSUME NEW S, NEW first \in Seq(S), NEW second \in Seq(S), NEW third \in Seq(S),
           Extends(first, second), Extends(second, third)
    PROVE  Extends(first, third)
  BY DEF Extends

LEMMA StoreLogs ==
    ASSUME NEW store \in Store
    PROVE  /\ store.events \in Seq(StoredEvent)
           /\ store.decisions \in Seq(StoredDecision)
           /\ store.outcomes \in Seq(StoredOutcome)
           /\ store.versions \in [Domains -> Nat]
           /\ Grows(store, store)
  BY DEF Store, Grows, Extends

LEMMA GrowsTransitive ==
    ASSUME NEW first \in Store, NEW second \in Store, NEW third \in Store,
           Grows(first, second), Grows(second, third)
    PROVE  Grows(first, third)
  <1>1. /\ Extends(first.events, third.events)
        /\ Extends(first.decisions, third.decisions)
        /\ Extends(first.outcomes, third.outcomes)
    BY StoreLogs, ExtendsTransitive DEF Grows
  <1> QED
    BY <1>1 DEF Grows

(* Recording touches one log and one counter. *)
LEMMA Recording ==
    ASSUME NEW store \in Store
    PROVE  /\ \A e \in StoredEvent:
                /\ RecordEvent(store, e).events = Append(store.events, e)
                /\ RecordEvent(store, e).decisions = store.decisions
                /\ RecordEvent(store, e).outcomes = store.outcomes
                /\ RecordEvent(store, e).versions = store.versions
           /\ \A e \in StoredDecision:
                /\ RecordDecision(store, e).decisions = Append(store.decisions, e)
                /\ RecordDecision(store, e).events = store.events
                /\ RecordDecision(store, e).outcomes = store.outcomes
                /\ RecordDecision(store, e).versions = store.versions
           /\ \A e \in StoredOutcome:
                /\ RecordOutcome(store, e).outcomes = Append(store.outcomes, e)
                /\ RecordOutcome(store, e).events = store.events
                /\ RecordOutcome(store, e).decisions = store.decisions
                /\ RecordOutcome(store, e).versions = store.versions
           /\ \A d \in Domains:
                /\ AdvanceStateVersion(store, d).events = store.events
                /\ AdvanceStateVersion(store, d).decisions = store.decisions
                /\ AdvanceStateVersion(store, d).outcomes = store.outcomes
                /\ AdvanceStateVersion(store, d).versions =
                     [store.versions EXCEPT ![d] = @ + 1]
                /\ AdvanceStateVersion(store, d).issued = store.issued
  BY DEF Store, RecordEvent, RecordDecision, RecordOutcome, AdvanceStateVersion

LEMMA RecordingGrows ==
    ASSUME NEW store \in Store
    PROVE  /\ \A e \in StoredEvent: Grows(store, RecordEvent(store, e))
           /\ \A e \in StoredDecision: Grows(store, RecordDecision(store, e))
           /\ \A e \in StoredOutcome: Grows(store, RecordOutcome(store, e))
           /\ \A d \in Domains: Grows(store, AdvanceStateVersion(store, d))
  <1>1. /\ store.events \in Seq(StoredEvent)
        /\ store.decisions \in Seq(StoredDecision)
        /\ store.outcomes \in Seq(StoredOutcome)
        /\ Extends(store.events, store.events)
        /\ Extends(store.decisions, store.decisions)
        /\ Extends(store.outcomes, store.outcomes)
    BY StoreLogs DEF Grows
  <1>2. /\ \A e \in StoredEvent: Extends(store.events, Append(store.events, e))
        /\ \A e \in StoredDecision: Extends(store.decisions, Append(store.decisions, e))
        /\ \A e \in StoredOutcome: Extends(store.outcomes, Append(store.outcomes, e))
    BY <1>1, AppendExtends
  <1> QED
    BY <1>1, <1>2, Recording DEF Grows

(* What a store holds, a later one holds. *)
LEMMA HoldsLater ==
    ASSUME NEW store \in Store, NEW later \in Store, Grows(store, later),
           NEW reply \in Reply, Holds(store, reply)
    PROVE  Holds(later, reply)
  <1>1. /\ Len(store.events) \in Nat /\ Len(later.events) \in Nat
        /\ Len(store.decisions) \in Nat /\ Len(later.decisions) \in Nat
        /\ Len(store.outcomes) \in Nat /\ Len(later.outcomes) \in Nat
    BY StoreLogs
  <1>2. CASE reply.op = "observe"
    <2>1. PICK i \in 1..Len(store.events):
            /\ store.events[i].id = reply.id /\ store.events[i].domain = reply.domain
            /\ store.events[i].version = reply.version
            /\ (reply.answer = "CHANGED") <=> (store.events[i].transitions /= {})
      BY <1>2 DEF Holds
    <2>2. i \in 1..Len(later.events) /\ later.events[i] = store.events[i]
      BY <1>1 DEF Grows, Extends
    <2> QED
      BY <1>2, <2>1, <2>2 DEF Holds
  <1>3. CASE reply.op = "decide"
    <2>1. PICK i \in 1..Len(store.decisions):
            /\ store.decisions[i].id = reply.id /\ store.decisions[i].domain = reply.domain
            /\ store.decisions[i].version = reply.version
            /\ store.decisions[i].verdict = reply.answer
      BY <1>3 DEF Holds
    <2>2. i \in 1..Len(later.decisions) /\ later.decisions[i] = store.decisions[i]
      BY <1>1 DEF Grows, Extends
    <2> QED
      BY <1>3, <2>1, <2>2 DEF Holds
  <1>4. CASE reply.op = "outcome"
    <2>1. PICK i \in 1..Len(store.outcomes):
            /\ store.outcomes[i].id = reply.id /\ store.outcomes[i].domain = reply.domain
            /\ store.outcomes[i].version = reply.version
      BY <1>4 DEF Holds
    <2>2. i \in 1..Len(later.outcomes) /\ later.outcomes[i] = store.outcomes[i]
      BY <1>1 DEF Grows, Extends
    <2> QED
      BY <1>4, <2>1, <2>2 DEF Holds
  <1> QED
    BY <1>2, <1>3, <1>4 DEF Reply, ReplyTo

(* A request appends to memory what it will answer with, and no more. *)
LEMMA ObserveGrows ==
    ASSUME TypeOK, NEW d \in Domains, NEW judgment \in Judgments, Observe(d, judgment)
    PROVE  /\ mem'.events = Append(mem.events, EventOf(d, judgment))
           /\ mem'.decisions = mem.decisions
           /\ mem'.outcomes = mem.outcomes
           /\ mem'.versions = StoreBefore(d, judgment).versions
           /\ Grows(mem, mem')
           /\ call'.stage = "persist"
           /\ call'.reply.op = "observe"
           /\ call'.reply.domain = d
           /\ call'.reply.answer = IF Observed(d, judgment).admission.changes /= {}
                                   THEN "CHANGED" ELSE "UNCHANGED"
           /\ Holds(mem', call'.reply)
  <1> DEFINE store == StoreBefore(d, judgment)
             event == EventOf(d, judgment)
             o == Observed(d, judgment)
  <1>1. /\ store \in Store
        /\ event \in StoredEvent
        /\ mem' = RecordEvent(store, event)
        /\ mem \in Store
        /\ mem' \in Store
    BY ObservedType, ObserveSteps, ObserveKeepsType DEF TypeOK
  <1>2. /\ store.events = mem.events
        /\ store.decisions = mem.decisions
        /\ store.outcomes = mem.outcomes
        /\ Grows(mem, store)
    <2>1. store = mem \/ store = AdvanceStateVersion(mem, d)
      BY DEF StoreBefore
    <2>2. /\ AdvanceStateVersion(mem, d).events = mem.events
          /\ AdvanceStateVersion(mem, d).decisions = mem.decisions
          /\ AdvanceStateVersion(mem, d).outcomes = mem.outcomes
          /\ Grows(mem, AdvanceStateVersion(mem, d))
          /\ Grows(mem, mem)
      BY <1>1, Recording, RecordingGrows, StoreLogs
    <2> QED
      BY <2>1, <2>2
  <1>3. call'.stage = "persist"
        /\ call'.reply = [op |-> "observe", id |-> event.id, domain |-> d,
                          version |-> event.version,
                          answer |-> IF o.admission.changes /= {} THEN "CHANGED" ELSE "UNCHANGED"]
    BY ObserveSteps DEF Prepared
  <1>4. /\ event.domain = d
        /\ event.transitions = Transitions(o.admission)
    BY DEF EventOf
  <1>5. Transitions(o.admission) = {} <=> o.admission.changes = {}
    BY DEF Transitions
  <1> HIDE DEF store, event, o
  <1>6. /\ mem'.events = Append(mem.events, event)
        /\ mem'.decisions = mem.decisions
        /\ mem'.outcomes = mem.outcomes
        /\ mem'.versions = store.versions
    BY <1>1, <1>2, Recording
  <1>7. Grows(mem, mem')
    BY <1>1, <1>2, RecordingGrows, GrowsTransitive
  <1>8. Holds(mem', call'.reply)
    <2>1. /\ Len(mem'.events) = Len(mem.events) + 1
          /\ mem'.events[Len(mem.events) + 1] = event
          /\ Len(mem.events) \in Nat
      BY <1>1, <1>6, StoreLogs, AppendExtends
    <2> DEFINE k == Len(mem.events) + 1
    <2>2. /\ k \in 1..Len(mem'.events)
          /\ mem'.events[k].id = call'.reply.id
          /\ mem'.events[k].domain = call'.reply.domain
          /\ mem'.events[k].version = call'.reply.version
          /\ (call'.reply.answer = "CHANGED") <=> (mem'.events[k].transitions /= {})
      BY <1>3, <1>4, <1>5, <2>1
    <2> HIDE DEF k
    <2> QED
      BY <1>3, <2>2 DEF Holds
  <1> QED
    BY <1>3, <1>6, <1>7, <1>8 DEF store, event, o

LEMMA DecideGrows ==
    ASSUME TypeOK, NEW d \in Domains, NEW action \in Actions, Decide(d, action)
    PROVE  /\ mem'.decisions = Append(mem.decisions, IssuedDecision(d, action))
           /\ mem'.events = mem.events
           /\ mem'.outcomes = mem.outcomes
           /\ mem'.versions = mem.versions
           /\ Grows(mem, mem')
           /\ call'.stage = "persist"
           /\ call'.reply.op = "decide"
           /\ call'.reply.domain = d
           /\ call'.reply.answer = domains[d].projected
           /\ Holds(mem', call'.reply)
  <1> DEFINE decision == IssuedDecision(d, action)
  <1>1. /\ decision \in StoredDecision
        /\ mem' = RecordDecision(mem, decision)
        /\ mem \in Store
    BY DecisionOfType, DecideSteps DEF TypeOK
  <1>2. /\ call'.stage = "persist"
        /\ call'.reply = [op |-> "decide", id |-> decision.id, domain |-> d,
                          version |-> decision.version, answer |-> domains[d].projected]
    BY DecideSteps DEF Prepared
  <1>3. decision.domain = d /\ decision.verdict = domains[d].projected
    BY DEF IssuedDecision
  <1> HIDE DEF decision
  <1>4. /\ mem'.decisions = Append(mem.decisions, decision)
        /\ mem'.events = mem.events
        /\ mem'.outcomes = mem.outcomes
        /\ mem'.versions = mem.versions
        /\ Grows(mem, mem')
    BY <1>1, Recording, RecordingGrows
  <1>5. Holds(mem', call'.reply)
    <2>1. /\ Len(mem'.decisions) = Len(mem.decisions) + 1
          /\ mem'.decisions[Len(mem.decisions) + 1] = decision
          /\ Len(mem.decisions) \in Nat
      BY <1>1, <1>4, StoreLogs, AppendExtends
    <2> QED
      BY <1>2, <1>3, <2>1 DEF Holds
  <1> QED
    BY <1>2, <1>4, <1>5 DEF decision

LEMMA OutcomeGrows ==
    ASSUME TypeOK, NEW id, NEW kind \in OutcomeKinds, RecordOutcomeOf(id, kind)
    PROVE  /\ mem'.outcomes = Append(mem.outcomes, OutcomeFor(mem, id, kind))
           /\ mem'.events = mem.events
           /\ mem'.decisions = mem.decisions
           /\ mem'.versions = mem.versions
           /\ Grows(mem, mem')
           /\ call'.stage = "persist"
           /\ call'.reply.op = "outcome"
           /\ call'.reply.answer = "RECORDED"
           /\ call'.reply.domain = OutcomeFor(mem, id, kind).domain
           /\ Holds(mem', call'.reply)
  <1> DEFINE outcome == OutcomeFor(mem, id, kind)
  <1>1. /\ outcome \in StoredOutcome
        /\ mem' = RecordOutcome(mem, outcome)
        /\ mem \in Store
    BY OutcomeForType, OutcomeSteps DEF TypeOK
  <1>2. /\ call'.stage = "persist"
        /\ call'.reply = [op |-> "outcome", id |-> outcome.id, domain |-> outcome.domain,
                          version |-> outcome.version, answer |-> "RECORDED"]
    BY OutcomeSteps DEF Prepared
  <1> HIDE DEF outcome
  <1>3. /\ mem'.outcomes = Append(mem.outcomes, outcome)
        /\ mem'.events = mem.events
        /\ mem'.decisions = mem.decisions
        /\ mem'.versions = mem.versions
        /\ Grows(mem, mem')
    BY <1>1, Recording, RecordingGrows
  <1>4. Holds(mem', call'.reply)
    <2>1. /\ Len(mem'.outcomes) = Len(mem.outcomes) + 1
          /\ mem'.outcomes[Len(mem.outcomes) + 1] = outcome
          /\ Len(mem.outcomes) \in Nat
      BY <1>1, <1>3, StoreLogs, AppendExtends
    <2> QED
      BY <1>2, <2>1 DEF Holds
  <1> QED
    BY <1>2, <1>3, <1>4 DEF outcome

LEMMA RequestGrows ==
    ASSUME TypeOK, Request
    PROVE  /\ Ready
           /\ Grows(mem, mem')
           /\ call'.stage = "persist"
           /\ Holds(mem', call'.reply)
           /\ UNCHANGED <<status, fatal, disk, recovery, acks>>
  <1>1. ASSUME NEW d \in Domains, NEW judgment \in Judgments, Observe(d, judgment)
        PROVE  /\ Grows(mem, mem')
               /\ call'.stage = "persist"
               /\ Holds(mem', call'.reply)
               /\ Ready /\ UNCHANGED <<status, fatal, disk, recovery, acks>>
    BY <1>1, ObserveGrows, ObserveSteps
  <1>2. ASSUME NEW d \in Domains, NEW action \in Actions, Decide(d, action)
        PROVE  /\ Grows(mem, mem')
               /\ call'.stage = "persist"
               /\ Holds(mem', call'.reply)
               /\ Ready /\ UNCHANGED <<status, fatal, disk, recovery, acks>>
    BY <1>2, DecideGrows, DecideSteps
  <1>3. ASSUME NEW id, NEW kind \in OutcomeKinds, RecordOutcomeOf(id, kind)
        PROVE  /\ Grows(mem, mem')
               /\ call'.stage = "persist"
               /\ Holds(mem', call'.reply)
               /\ Ready /\ UNCHANGED <<status, fatal, disk, recovery, acks>>
    BY <1>3, OutcomeGrows, OutcomeSteps
  <1> QED
    BY <1>1, <1>2, <1>3 DEF Request

LEMMA StagesDiffer ==
    ASSUME TypeOK
    PROVE  /\ call = Idle <=> call.stage = "idle"
           /\ call /= Idle => /\ call.stage \in {"persist", "respond"}
                              /\ call.reply \in Reply
  BY DEF TypeOK, Idle

LEMMA ForgottenProcess ==
    ASSUME Forgotten, status' \in {"down", "refused"}
    PROVE  ProcessInv'
  <1>1. call' = Idle /\ ~fatal' /\ AllNew'
    BY DEF Forgotten, AllNew
  <1>2. call'.stage = "idle"
    BY <1>1 DEF Idle
  <1> QED
    BY <1>1, <1>2 DEF ProcessInv, Ready

LEMMA ProcessStep ==
    ASSUME TypeOK, TypeOK', ProcessInv, [Next]_vars
    PROVE  ProcessInv'
  <1>1. mem \in Store /\ disk \in Store /\ mem' \in Store /\ disk' \in Store
    BY DEF TypeOK
  <1>2. CASE Request
    <2>1. /\ Ready /\ Grows(mem, mem')
          /\ call'.stage = "persist" /\ Holds(mem', call'.reply)
          /\ UNCHANGED <<status, fatal, disk, recovery, acks>>
      BY <1>2, RequestGrows
    <2>2. mem = disk /\ status = "serving" /\ ~fatal
      BY <2>1 DEF ProcessInv, Ready
    <2>3. call' /= Idle
      BY <2>1 DEF Idle
    <2> QED
      BY <2>1, <2>2, <2>3 DEF ProcessInv, Ready
  <1>3. CASE Finish
    <2>1. call /= Idle /\ status = "serving"
      <3>1. call.stage \in {"persist", "respond"}
        BY <1>3 DEF Finish, PersistOk, PersistFail, Respond
      <3> QED
        BY <3>1, StagesDiffer DEF ProcessInv, TypeOK, Idle
    <2>2. call \in [stage: {"persist", "respond"}, reply: Reply]
      BY <2>1 DEF TypeOK
    <2>3. CASE PersistOk
      <3>1. /\ call.stage = "persist" /\ disk' = mem /\ mem' = mem /\ status' = status
            /\ fatal' = fatal
            /\ call' = [call EXCEPT !.stage = "respond"]
        BY <2>3 DEF PersistOk, memory
      <3>2. call'.stage = "respond" /\ call'.reply = call.reply
        BY <2>2, <3>1
      <3>3. call' /= Idle
        BY <3>2 DEF Idle
      <3>4. ~fatal /\ Holds(mem, call.reply)
        BY <3>1 DEF ProcessInv
      <3>5. Grows(mem, mem)
        BY <1>1, StoreLogs
      <3> QED
        BY <2>1, <3>1, <3>2, <3>3, <3>4, <3>5 DEF ProcessInv, Ready
    <2>4. CASE PersistFail
      <3>1. /\ fatal' /\ mem' = mem /\ disk' = disk /\ status' = status
            /\ call' = [call EXCEPT !.stage = "respond"]
        BY <2>4 DEF PersistFail
      <3>2. call'.stage = "respond"
        BY <2>2, <3>1
      <3> QED
        BY <2>1, <3>1, <3>2 DEF ProcessInv, Ready
    <2>5. CASE Respond
      <3>1. /\ call.stage = "respond" /\ mem' = mem /\ disk' = disk /\ status' = status
            /\ fatal' = fatal /\ call' = Idle
        BY <2>5 DEF Respond, memory
      <3>2. call'.stage = "idle"
        BY <3>1 DEF Idle
      <3> QED
        BY <2>1, <3>1, <3>2 DEF ProcessInv, Ready
    <2> QED
      BY <1>3, <2>3, <2>4, <2>5 DEF Finish
  <1>4. CASE Crash
    BY <1>4, ForgottenProcess DEF Crash
  <1>5. CASE Open
    <2>1. /\ call' = Idle /\ ~fatal' /\ mem' = disk' /\ status' = "recovering"
      BY <1>5 DEF Open, ProcessInv
    <2>2. call'.stage = "idle"
      BY <2>1 DEF Idle
    <2> QED
      BY <2>1, <2>2 DEF ProcessInv, Ready
  <1>6. CASE Recover
    <2>1. status = "recovering" /\ call = Idle /\ ~fatal /\ mem = disk
      BY <1>6 DEF Recover, RecoverEvent, PassOverEvent, RefuseEvent, PanicOnEvent, FinishRecovery,
                  Recovering, ProcessInv
    <2>2. CASE status' \in {"down", "refused"} /\ Forgotten
      BY <2>2, ForgottenProcess
    <2>3. CASE status' \in {"recovering", "serving"} /\ UNCHANGED <<mem, fatal, disk, call>>
      <3>1. Grows(disk, mem) /\ call'.stage = "idle"
        BY <1>1, <2>1, <2>3, StoreLogs DEF Idle
      <3> QED
        BY <2>1, <2>3, <3>1 DEF ProcessInv, Ready
    <2>4. \/ status' \in {"down", "refused"} /\ Forgotten
          \/ status' \in {"recovering", "serving"} /\ UNCHANGED <<mem, fatal, disk, call>>
      BY <1>6, <2>1 DEF Recover, RecoverEvent, PassOverEvent, RefuseEvent, PanicOnEvent,
                        FinishRecovery, memory
    <2> QED
      BY <2>2, <2>3, <2>4
  <1>7. CASE UNCHANGED vars
    BY <1>7 DEF vars, memory, recovery, ProcessInv, AllNew, Ready
  <1> QED
    BY <1>2, <1>3, <1>4, <1>5, <1>6, <1>7 DEF Next

LEMMA ProcessInit == Init => ProcessInv
  <1> SUFFICES ASSUME Init
               PROVE  ProcessInv
    OBVIOUS
  <1>1. status = "down" /\ call = Idle /\ ~fatal /\ AllNew
    BY DEF Init, AllNew
  <1>2. call.stage = "idle"
    BY <1>1 DEF Idle
  <1> QED
    BY <1>1, <1>2 DEF ProcessInv, Ready

(* The file of one step extends the file of the step before. *)
LEMMA DiskGrows ==
    ASSUME TypeOK, ProcessInv, [Next]_vars
    PROVE  /\ Grows(disk, disk')
           /\ fatal => disk' = disk /\ acks' = acks
  <1>1. mem \in Store /\ disk \in Store /\ Grows(disk, disk)
    BY StoreLogs DEF TypeOK
  <1>2. CASE PersistOk
    <2>1. status = "serving" /\ ~fatal /\ disk' = mem
      BY <1>2, StagesDiffer DEF PersistOk, ProcessInv, TypeOK, Idle
    <2> QED
      BY <1>1, <2>1 DEF ProcessInv
  <1>3. CASE ~PersistOk /\ ~Respond
    <2>1. disk' = disk /\ acks' = acks
      <3>1. CASE Request
        BY <3>1, RequestGrows
      <3>2. CASE UNCHANGED vars
        BY <3>2 DEF vars
      <3>3. CASE PersistFail \/ Crash \/ Open
        BY <3>3 DEF PersistFail, Crash, Open
      <3>4. CASE Recover
        BY <3>4 DEF Recover, RecoverEvent, PassOverEvent, RefuseEvent, PanicOnEvent, FinishRecovery
      <3> QED
        BY <1>3, <3>1, <3>2, <3>3, <3>4 DEF Next, Finish
    <2> QED
      BY <1>1, <2>1
  <1>4. CASE Respond
    BY <1>1, <1>4 DEF Respond
  <1> QED
    BY <1>2, <1>3, <1>4

(* A reply given is one the file holds; no step takes it away. *)
LEMMA AcknowledgedStep ==
    ASSUME TypeOK, TypeOK', ProcessInv, AcknowledgedIsDurable, [Next]_vars
    PROVE  AcknowledgedIsDurable'
  <1>1. /\ acks \in Seq(Reply) /\ disk \in Store /\ disk' \in Store
        /\ Grows(disk, disk')
    BY DiskGrows DEF TypeOK
  <1>2. \A i \in 1..Len(acks): Holds(disk', acks[i])
    BY <1>1, HoldsLater DEF AcknowledgedIsDurable
  <1>3. CASE acks' = acks
    BY <1>2, <1>3 DEF AcknowledgedIsDurable
  <1>4. CASE Respond /\ ~fatal
    <2>1. /\ call.stage = "respond"
          /\ acks' = Append(acks, call.reply)
          /\ disk' = disk
      BY <1>4 DEF Respond
    <2>2. Holds(disk', call.reply) /\ call.reply \in Reply
      BY <1>4, <2>1, StagesDiffer DEF ProcessInv, Idle
    <2> QED
      BY <1>1, <1>2, <2>1, <2>2 DEF AcknowledgedIsDurable
  <1>5. acks' = acks \/ (Respond /\ ~fatal)
    <2>1. CASE Request
      BY <2>1, RequestGrows
    <2>2. CASE Finish
      BY <2>2 DEF Finish, PersistOk, PersistFail, Respond
    <2>3. CASE Crash \/ Open \/ UNCHANGED vars
      BY <2>3 DEF Crash, Open, vars
    <2>4. CASE Recover
      BY <2>4 DEF Recover, RecoverEvent, PassOverEvent, RefuseEvent, PanicOnEvent, FinishRecovery
    <2> QED
      BY <2>1, <2>2, <2>3, <2>4 DEF Next
  <1> QED
    BY <1>3, <1>4, <1>5
-----------------------------------------------------------------------------
(* One judgment, for the projection: a change suspends, and nothing that an *)
(* observation does lifts a suspension.                                     *)
LEMMA ObservationSuspends ==
    ASSUME NEW g \in GovernanceState, NEW context \in AdmissionContext,
           NEW judgment \in [beyond: 0..PPM, destructive: 0..PPM]
    PROVE  LET o == ObserveJudgment(g, judgment, context)
           IN  /\ o.admission.changes /= {} => o.gov.authorization = "Suspended"
               /\ g.authorization = "Suspended" => o.gov.authorization = "Suspended"
               /\ o.admission.decision = Verdict(o.gov)
               /\ (Transitions(o.admission) /= {}) <=> (o.admission.changes /= {})
  <1> DEFINE o == ObserveJudgment(g, judgment, context)
  <1>1. o.gov.authorization = IF EntryAccepts(o.admission) THEN "Suspended" ELSE g.authorization
    BY ObserveEffect
  <1>2. /\ ~EntryAccepts(o.admission) => o.admission.changes = {}
        /\ o.admission.decision = Verdict(o.gov)
    BY ObserveFate
  <1> HIDE DEF o
  <1>3. (Transitions(o.admission) /= {}) <=> (o.admission.changes /= {})
    BY DEF Transitions
  <1> QED
    BY <1>1, <1>2, <1>3 DEF o

(* A domain that steps on keeps what its log said of it. *)
LEMMA SuspensionAbsorbed ==
    ASSUME TypeOK, TypeOK', SuspensionKept, NEW d \in Domains, NEW o, NEW vtick, NEW e,
           domains' = [domains EXCEPT ![d] = AfterObservation(domains[d], o, vtick)],
           o.admission.changes /= {} => o.gov.authorization = "Suspended",
           domains[d].gov.authorization = "Suspended" => o.gov.authorization = "Suspended",
           o.admission.decision = Verdict(o.gov)
    PROVE  /\ \A c \in Domains: /\ domains'[c].projected = Verdict(domains'[c].gov)
                                /\ domains[c].gov.authorization = "Suspended"
                                     => domains'[c].gov.authorization = "Suspended"
           /\ o.admission.changes /= {} => domains'[d].gov.authorization = "Suspended"
  <1>1. domains'[d] = AfterObservation(domains[d], o, vtick)
        /\ \A c \in Domains: c /= d => domains'[c] = domains[c]
    BY DEF TypeOK
  <1>2. domains'[d].gov = o.gov /\ domains'[d].projected = o.admission.decision
    BY <1>1 DEF AfterObservation
  <1> QED
    BY <1>1, <1>2 DEF SuspensionKept

LEMMA ForgottenSuspension ==
    ASSUME Forgotten, status' \in {"down", "refused"}
    PROVE  SuspensionKept'
  <1>1. NewDomain.projected = Verdict(NewDomain.gov)
    BY DEF NewDomain, Verdict, NewGovernance
  <1>2. domains' = [d \in Domains |-> NewDomain] /\ call' = Idle
    BY DEF Forgotten
  <1> QED
    BY <1>1, <1>2 DEF SuspensionKept, Covered

LEMMA SuspensionStep ==
    ASSUME TypeOK, TypeOK', ProcessInv, SuspensionKept, [Next]_vars
    PROVE  SuspensionKept'
  <1>1. mem.events \in Seq(StoredEvent) /\ mem'.events \in Seq(StoredEvent)
    BY StoreLogs DEF TypeOK
  <1>2. \A k \in 1..Len(mem.events): mem.events[k] \in StoredEvent /\ mem.events[k].domain \in Domains
    <2>1. \A e \in StoredEvent: e.domain \in Domains
      BY DEF StoredEvent
    <2> QED
      BY <1>1, <2>1
  <1>3. ASSUME NEW d \in Domains, NEW judgment \in Judgments, Observe(d, judgment)
        PROVE  SuspensionKept'
    <2> DEFINE o == Observed(d, judgment)
               event == EventOf(d, judgment)
    <2>1. /\ domains[d].gov \in GovernanceState
          /\ judgment \in [beyond: 0..PPM, destructive: 0..PPM]
          /\ DemoContext(domains[d].nextVtick) \in AdmissionContext
          /\ event \in StoredEvent
      BY ObservedType
    <2>2. /\ o.admission.changes /= {} => o.gov.authorization = "Suspended"
          /\ domains[d].gov.authorization = "Suspended" => o.gov.authorization = "Suspended"
          /\ o.admission.decision = Verdict(o.gov)
          /\ (Transitions(o.admission) /= {}) <=> (o.admission.changes /= {})
      BY <2>1, ObservationSuspends DEF Observed
    <2>3. event.domain = d /\ event.transitions = Transitions(o.admission)
      BY DEF EventOf
    <2>4. /\ domains' = [domains EXCEPT ![d] =
                           AfterObservation(domains[d], o, domains[d].nextVtick + 1)]
          /\ mem'.events = Append(mem.events, event)
          /\ status = "serving" /\ status' = status
          /\ call'.reply.answer /= "ALLOW"
      BY <1>3, ObserveSteps, ObserveGrows DEF Ready
    <2> HIDE DEF o, event
    <2>5. /\ \A c \in Domains: /\ domains'[c].projected = Verdict(domains'[c].gov)
                               /\ domains[c].gov.authorization = "Suspended"
                                    => domains'[c].gov.authorization = "Suspended"
          /\ o.admission.changes /= {} => domains'[d].gov.authorization = "Suspended"
      BY <2>2, <2>4, SuspensionAbsorbed
    <2>6. ASSUME NEW k \in 1..Len(mem'.events), mem'.events[k].transitions /= {}
          PROVE  domains'[mem'.events[k].domain].gov.authorization = "Suspended"
      <3>1. CASE k \in 1..Len(mem.events)
        <4>1. mem'.events[k] = mem.events[k]
          BY <1>1, <2>4, <3>1
        <4> QED
          BY <1>2, <2>4, <2>5, <2>6, <3>1, <4>1 DEF SuspensionKept, Covered
      <3>2. CASE k = Len(mem.events) + 1
        <4>1. mem'.events[k] = event
          BY <1>1, <2>4, <3>2
        <4> QED
          BY <2>2, <2>3, <2>5, <2>6, <4>1
      <3>3. Len(mem'.events) = Len(mem.events) + 1 /\ Len(mem.events) \in Nat
        BY <1>1, <2>1, <2>4, AppendExtends
      <3> QED
        BY <3>1, <3>2, <3>3
    <2> QED
      BY <2>4, <2>5, <2>6 DEF SuspensionKept
  <1>4. ASSUME NEW d \in Domains, NEW action \in Actions, Decide(d, action)
        PROVE  SuspensionKept'
    <2>1. /\ mem'.events = mem.events /\ domains' = domains
          /\ status = "serving" /\ status' = status
          /\ call'.reply.domain = d
          /\ call'.reply.answer = domains[d].projected
      BY <1>4, DecideGrows, DecideSteps DEF Ready
    <2>2. domains[d].projected = "ALLOW" => domains[d].gov.authorization = "Active"
      BY DEF SuspensionKept, Verdict
    <2> QED
      BY <2>1, <2>2 DEF SuspensionKept, Covered
  <1>5. ASSUME NEW id, NEW kind \in OutcomeKinds, RecordOutcomeOf(id, kind)
        PROVE  SuspensionKept'
    <2>1. /\ mem'.events = mem.events /\ domains' = domains
          /\ status = "serving" /\ status' = status
          /\ call'.reply.answer /= "ALLOW"
      BY <1>5, OutcomeGrows, OutcomeSteps DEF Ready
    <2> QED
      BY <2>1 DEF SuspensionKept, Covered
  <1>6. CASE Finish
    <2>1. call /= Idle /\ call \in [stage: {"persist", "respond"}, reply: Reply]
      BY <1>6 DEF Finish, PersistOk, PersistFail, Respond, TypeOK, Idle
    <2>2. /\ domains' = domains /\ mem' = mem /\ status' = status /\ cursor' = cursor
          /\ call' = Idle \/ call' = [call EXCEPT !.stage = "respond"]
      BY <1>6 DEF Finish, PersistOk, PersistFail, Respond, memory, recovery
    <2>3. call' = Idle \/ call'.reply = call.reply
      BY <2>1, <2>2
    <2> QED
      BY <2>1, <2>2, <2>3 DEF SuspensionKept, Covered
  <1>7. CASE Crash
    BY <1>7, ForgottenSuspension DEF Crash
  <1>8. CASE Open
    <2>1. cursor' = 1 /\ domains' = domains /\ call' = Idle /\ status' = "recovering"
      BY <1>8 DEF Open, ProcessInv, AllNew, recovery
    <2> QED
      BY <2>1 DEF SuspensionKept, Covered
  <1>9. CASE Recover
    <2>1. status = "recovering" /\ call = Idle
      BY <1>9 DEF Recover, RecoverEvent, PassOverEvent, RefuseEvent, PanicOnEvent, FinishRecovery,
                  Recovering, ProcessInv
    <2>2. CASE status' \in {"down", "refused"} /\ Forgotten
      BY <2>2, ForgottenSuspension
    <2>3. CASE RecoverEvent
      <3> DEFINE d == Event.domain
      <3>1. /\ Recovering /\ Replayable
            /\ Event.transitions = Transitions(Outcome.admission)
            /\ domains' = [domains EXCEPT ![d] =
                             AfterObservation(domains[d], Outcome, RestoredVtick(domains[d], Event))]
            /\ cursor' = cursor + 1
            /\ UNCHANGED <<status, mem, call>>
        BY <2>3 DEF RecoverEvent, Agrees
      <3>2. /\ cursor \in 1..Len(mem.events) /\ Event = mem.events[cursor]
            /\ Event \in StoredEvent
            /\ d \in Domains /\ domains[d].gov \in GovernanceState
        BY <3>1, EventType
      <3>3. /\ Event.judgment \in [beyond: 0..PPM, destructive: 0..PPM]
            /\ Event.context \in AdmissionContext
        BY <3>1, <3>2, InRange DEF Replayable
      <3>4. /\ Outcome.admission.changes /= {} => Outcome.gov.authorization = "Suspended"
            /\ domains[d].gov.authorization = "Suspended" => Outcome.gov.authorization = "Suspended"
            /\ Outcome.admission.decision = Verdict(Outcome.gov)
            /\ (Transitions(Outcome.admission) /= {}) <=> (Outcome.admission.changes /= {})
        <4> DEFINE g == domains[d].gov
                   judgment == Event.judgment
                   context == Event.context
                   o == ObserveJudgment(g, judgment, context)
        <4>0. /\ g \in GovernanceState /\ context \in AdmissionContext
              /\ judgment \in [beyond: 0..PPM, destructive: 0..PPM]
          BY <3>2, <3>3
        <4> HIDE DEF g, judgment, context
        <4>1. /\ o.admission.changes /= {} => o.gov.authorization = "Suspended"
              /\ g.authorization = "Suspended" => o.gov.authorization = "Suspended"
              /\ o.admission.decision = Verdict(o.gov)
              /\ (Transitions(o.admission) /= {}) <=> (o.admission.changes /= {})
          BY <4>0, ObservationSuspends
        <4>2. Outcome = o
          BY DEF Outcome, g, judgment, context
        <4> HIDE DEF o
        <4> QED
          BY <4>1, <4>2, Zenon DEF g
      <3>5. /\ \A c \in Domains: /\ domains'[c].projected = Verdict(domains'[c].gov)
                                 /\ domains[c].gov.authorization = "Suspended"
                                      => domains'[c].gov.authorization = "Suspended"
            /\ Outcome.admission.changes /= {} => domains'[d].gov.authorization = "Suspended"
        BY <3>1, <3>2, <3>4, SuspensionAbsorbed
      <3>6. ASSUME NEW k \in 1..Len(mem.events), k < cursor + 1, mem.events[k].transitions /= {}
            PROVE  domains'[mem.events[k].domain].gov.authorization = "Suspended"
        <4>1. CASE k = cursor
          BY <3>1, <3>2, <3>4, <3>5, <3>6, <4>1
        <4>2. CASE k < cursor
          BY <1>2, <2>1, <3>5, <3>6, <4>2 DEF SuspensionKept, Covered
        <4> QED
          BY <3>2, <3>6, <4>1, <4>2
      <3>7. \A k \in 1..Len(mem'.events): (k < cursor' /\ mem'.events[k].transitions /= {})
              => domains'[mem'.events[k].domain].gov.authorization = "Suspended"
        BY <3>1, <3>6
      <3>8. \A c \in Domains: domains'[c].projected = Verdict(domains'[c].gov)
        BY <3>5
      <3>9. status' = "recovering" /\ call' = Idle
        BY <2>1, <3>1
      <3> HIDE DEF d
      <3> QED
        BY <3>7, <3>8, <3>9 DEF SuspensionKept, Covered
    <2>4. CASE PassOverEvent
      <3>1. /\ Recovering /\ Event.transitions = {} /\ cursor' = cursor + 1
            /\ UNCHANGED <<status, domains, mem, call>>
        BY <2>4 DEF PassOverEvent, memory
      <3>2. cursor \in 1..Len(mem.events) /\ Event = mem.events[cursor]
        BY <3>1, EventType
      <3>3. ASSUME NEW k \in 1..Len(mem.events), k < cursor + 1, mem.events[k].transitions /= {}
            PROVE  k < cursor
        BY <3>1, <3>2, <3>3
      <3> QED
        BY <2>1, <3>1, <3>3 DEF SuspensionKept, Covered
    <2>5. CASE status' = "serving" /\ EventsReplayed /\ UNCHANGED <<domains, mem, call>>
      <3>1. \A k \in 1..Len(mem.events): k < cursor
        BY <1>1, <2>5 DEF EventsReplayed, TypeOK
      <3> QED
        BY <2>1, <2>5, <3>1 DEF SuspensionKept, Covered
    <2>6. \/ status' \in {"down", "refused"} /\ Forgotten
          \/ RecoverEvent \/ PassOverEvent
          \/ status' = "serving" /\ EventsReplayed /\ UNCHANGED <<domains, mem, call>>
      BY <1>9 DEF Recover, RefuseEvent, PanicOnEvent, FinishRecovery, memory
    <2> QED
      BY <2>2, <2>3, <2>4, <2>5, <2>6
  <1>10. CASE UNCHANGED vars
    BY <1>10 DEF vars, memory, recovery, SuspensionKept, Covered
  <1> QED
    BY <1>3, <1>4, <1>5, <1>6, <1>7, <1>8, <1>9, <1>10 DEF Next, Request

LEMMA HonouredStep ==
    ASSUME TypeOK, TypeOK', ProcessInv, AcknowledgedIsDurable, SuspensionKept,
           SuspensionIsHonoured, [Next]_vars
    PROVE  SuspensionIsHonoured'
  <1>1. CASE acks' = acks
    BY <1>1 DEF SuspensionIsHonoured
  <1>2. CASE Respond /\ acks' = Append(acks, call.reply) /\ ~fatal
    <2>1. /\ call.stage = "respond" /\ call /= Idle /\ call.reply \in Reply
          /\ acks \in Seq(Reply)
          /\ status = "serving" /\ mem = disk
      BY <1>2, StagesDiffer DEF Respond, TypeOK, Idle, ProcessInv
    <2>2. /\ Len(acks') = Len(acks) + 1 /\ Len(acks) \in Nat
          /\ acks'[Len(acks) + 1] = call.reply
          /\ \A i \in 1..Len(acks): acks'[i] = acks[i]
      BY <1>2, <2>1
    <2>3. ASSUME NEW i \in 1..Len(acks), acks[i].domain = call.reply.domain,
                 acks[i].answer = "CHANGED"
          PROVE  call.reply.answer /= "ALLOW"
      <3>1. acks[i].op = "observe"
        <4>1. acks[i] \in Reply
          BY <2>1
        <4> QED
          BY <2>3, <4>1 DEF Reply, ReplyTo
      <3>2. Holds(disk, acks[i])
        BY DEF AcknowledgedIsDurable
      <3>3. PICK k \in 1..Len(disk.events):
              disk.events[k].domain = acks[i].domain /\ disk.events[k].transitions /= {}
        BY <2>3, <3>1, <3>2 DEF Holds
      <3>4. domains[call.reply.domain].gov.authorization = "Suspended"
        BY <2>1, <2>3, <3>3 DEF SuspensionKept, Covered
      <3> QED
        BY <2>1, <3>4 DEF SuspensionKept
    <2>4. ASSUME NEW i \in 1..Len(acks'), NEW j \in 1..Len(acks'), i < j,
                 acks'[i].domain = acks'[j].domain, acks'[i].answer = "CHANGED"
          PROVE  acks'[j].answer /= "ALLOW"
      <3>1. i \in 1..Len(acks) /\ acks'[i] = acks[i]
        BY <2>2, <2>4
      <3>2. CASE j \in 1..Len(acks)
        BY <2>2, <2>4, <3>1, <3>2 DEF SuspensionIsHonoured
      <3>3. CASE j = Len(acks) + 1
        BY <2>2, <2>3, <2>4, <3>1, <3>3
      <3> QED
        BY <2>2, <3>2, <3>3
    <2> QED
      BY <2>4 DEF SuspensionIsHonoured
  <1>3. acks' = acks \/ (Respond /\ acks' = Append(acks, call.reply) /\ ~fatal)
    <2>1. CASE Request
      BY <2>1, RequestGrows
    <2>2. CASE Finish
      BY <2>2 DEF Finish, PersistOk, PersistFail, Respond
    <2>3. CASE Crash \/ Open \/ UNCHANGED vars
      BY <2>3 DEF Crash, Open, vars
    <2>4. CASE Recover
      BY <2>4 DEF Recover, RecoverEvent, PassOverEvent, RefuseEvent, PanicOnEvent, FinishRecovery
    <2> QED
      BY <2>1, <2>2, <2>3, <2>4 DEF Next
  <1> QED
    BY <1>1, <1>2, <1>3

IInv ==
    /\ TypeOK
    /\ ProcessInv
    /\ AcknowledgedIsDurable
    /\ SuspensionKept
    /\ SuspensionIsHonoured

LEMMA IInvInit ==
    ASSUME Init
    PROVE  IInv
  <1>1. ProcessInv /\ AcknowledgedIsDurable /\ SuspensionIsHonoured
    BY ProcessInit DEF Init, AcknowledgedIsDurable, SuspensionIsHonoured
  <1>2. SuspensionKept
    <2>1. NewDomain.projected = Verdict(NewDomain.gov)
      BY DEF NewDomain, Verdict, NewGovernance
    <2> QED
      BY <2>1 DEF Init, SuspensionKept, Covered
  <1> QED
    BY <1>1, <1>2, TypeInit DEF IInv

LEMMA IInvStep ==
    ASSUME IInv, [Next]_vars
    PROVE  IInv'
  BY TypeStep, ProcessStep, AcknowledgedStep, SuspensionStep, HonouredStep DEF IInv

(* Memory, file, replies and projections agree in every reachable state,   *)
(* through failed writes, crashes and restarts.                             *)
THEOREM Invariance == Spec => []IInv
  <1>1. Init => IInv
    BY IInvInit
  <1>2. IInv /\ [Next]_vars => IInv'
    BY IInvStep
  <1> QED
    BY <1>1, <1>2, PTL DEF Spec

(* Whatever a client was told is in the file, as it was told, through every *)
(* failed write, crash and restart that follows.                            *)
THEOREM AcknowledgedHolds == Spec => []AcknowledgedIsDurable
  BY Invariance, PTL DEF IInv

(* Once a client knows a domain's relations changed, no client is told      *)
(* ALLOW for it, by this process or by one that recovered the file.         *)
THEOREM SuspensionHolds == Spec => []SuspensionIsHonoured
  BY Invariance, PTL DEF IInv

(* No step, restart included, rewrites or loses an entry of the file's      *)
(* logs, and a process whose write has failed changes nothing more.         *)
THEOREM FileGrows == Spec => FileOnlyGrows
  <1> DEFINE Grown == /\ Extends(disk.events, disk'.events)
                      /\ Extends(disk.decisions, disk'.decisions)
                      /\ Extends(disk.outcomes, disk'.outcomes)
                      /\ fatal => disk' = disk /\ acks' = acks
  <1>1. IInv /\ [Next]_vars => [Grown]_vars
    BY DiskGrows DEF IInv, Grows
  <1> QED
    BY <1>1, Invariance, PTL DEF Spec, FileOnlyGrows
-----------------------------------------------------------------------------
(***************************************************************************)
(* The order of answers.  A crash rolls the counters and versions back to  *)
(* those of the file; but whatever a client was told is accounted for by   *)
(* the file, so what is issued again was never told, and an answer being   *)
(* prepared goes beyond everything told before it.                         *)
(***************************************************************************)
Issued(store, op) ==
    IF op = "observe" THEN store.issued.event
    ELSE IF op = "decide" THEN store.issued.decision
    ELSE store.issued.outcome

Accounts(store, reply) ==
    reply.id <= Issued(store, reply.op) /\ reply.version <= store.versions[reply.domain]

Follows(reply, told) ==
    /\ told.op = reply.op => told.id < reply.id
    /\ told.domain = reply.domain => told.version <= reply.version

OrderInv ==
    /\ AnswersInOrder
    /\ \A i \in 1..Len(acks): Accounts(disk, acks[i])
    /\ (call /= Idle /\ ~fatal) =>
         /\ Accounts(mem, call.reply)
         /\ \A i \in 1..Len(acks): Accounts(mem, acks[i]) /\ Follows(call.reply, acks[i])

Counts(store) ==
    /\ store.issued \in [event: Nat, decision: Nat, outcome: Nat]
    /\ store.versions \in [Domains -> Nat]

(* Between two stores no counter and no version goes back. *)
NotBefore(store, later) ==
    /\ store.issued.event <= later.issued.event
    /\ store.issued.decision <= later.issued.decision
    /\ store.issued.outcome <= later.issued.outcome
    /\ \A d \in Domains: store.versions[d] <= later.versions[d]

LEMMA IssuedType ==
    ASSUME NEW store \in Store
    PROVE  Counts(store) /\ \A op: Issued(store, op) \in Nat
  BY DEF Store, Issued, Counts

LEMMA ReplyFields ==
    ASSUME NEW reply \in Reply
    PROVE  reply.id \in Nat /\ reply.version \in Nat /\ reply.domain \in Domains
  BY DEF Reply, ReplyTo

LEMMA AccountsLater ==
    ASSUME NEW store \in Store, NEW later \in Store, NotBefore(store, later),
           NEW reply \in Reply, Accounts(store, reply)
    PROVE  Accounts(later, reply)
  <1>1. /\ Counts(store) /\ Counts(later)
        /\ reply.id \in Nat /\ reply.version \in Nat /\ reply.domain \in Domains
    BY IssuedType, ReplyFields
  <1>2. reply.version <= later.versions[reply.domain]
    BY <1>1 DEF Accounts, NotBefore, Counts
  <1>3. reply.id <= Issued(later, reply.op)
    BY <1>1 DEF Accounts, NotBefore, Issued, Counts
  <1> QED
    BY <1>2, <1>3 DEF Accounts

(* What was accounted for before an answer took its id is behind it. *)
LEMMA FollowsAccounted ==
    ASSUME NEW store \in Store, NEW told \in Reply, Accounts(store, told), NEW reply \in Reply,
           Issued(store, reply.op) < reply.id, store.versions[reply.domain] <= reply.version
    PROVE  Follows(reply, told)
  <1>1. /\ Issued(store, reply.op) \in Nat /\ Counts(store)
        /\ reply.id \in Nat /\ reply.version \in Nat /\ reply.domain \in Domains
        /\ told.id \in Nat /\ told.version \in Nat
    BY IssuedType, ReplyFields
  <1>2. store.versions[reply.domain] \in Nat
    BY <1>1 DEF Counts
  <1>3. ASSUME told.op = reply.op
        PROVE  told.id < reply.id
    <2>1. told.id <= Issued(store, reply.op)
      BY <1>3 DEF Accounts
    <2> HIDE DEF Issued
    <2> QED
      BY <1>1, <2>1
  <1>4. ASSUME told.domain = reply.domain
        PROVE  told.version <= reply.version
    <2>1. told.version <= store.versions[reply.domain]
      BY <1>4 DEF Accounts
    <2> QED
      BY <1>1, <1>2, <2>1
  <1> QED
    BY <1>3, <1>4 DEF Follows

(* Recording takes the next id of one counter. *)
LEMMA RecordingIssues ==
    ASSUME NEW store \in Store
    PROVE  /\ \A e \in StoredEvent:
                RecordEvent(store, e).issued = [store.issued EXCEPT !.event = @ + 1]
           /\ \A e \in StoredDecision:
                RecordDecision(store, e).issued = [store.issued EXCEPT !.decision = @ + 1]
           /\ \A e \in StoredOutcome:
                RecordOutcome(store, e).issued = [store.issued EXCEPT !.outcome = @ + 1]
  BY DEF Store, RecordEvent, RecordDecision, RecordOutcome

(* A request answers with the id it took and the version it left. *)
Answers(reply) ==
    /\ NotBefore(mem, mem')
    /\ Accounts(mem', reply)
    /\ Issued(mem, reply.op) < reply.id
    /\ mem.versions[reply.domain] <= reply.version

LEMMA ObserveAnswers ==
    ASSUME TypeOK, NEW d \in Domains, NEW judgment \in Judgments, Observe(d, judgment)
    PROVE  Answers(call'.reply)
  <1> DEFINE store == StoreBefore(d, judgment)
             event == EventOf(d, judgment)
  <1>1. /\ mem \in Store /\ store \in Store /\ event \in StoredEvent
        /\ mem' = RecordEvent(store, event)
    BY ObservedType, ObserveSteps DEF TypeOK
  <1>2. /\ call'.reply.op = "observe"
        /\ call'.reply.id = event.id
        /\ call'.reply.domain = d
        /\ call'.reply.version = event.version
    BY ObserveSteps DEF Prepared
  <1>3. event.id = mem.issued.event + 1 /\ event.version = store.versions[d]
    BY DEF EventOf, CurrentStateVersion
  <1>4. store = mem \/ store = AdvanceStateVersion(mem, d)
    BY DEF StoreBefore
  <1> HIDE DEF store, event
  <1>5. /\ store.issued = mem.issued
        /\ store.versions = mem.versions \/ store.versions = [mem.versions EXCEPT ![d] = @ + 1]
    <2>1. CASE store = mem
      BY <2>1
    <2>2. CASE store = AdvanceStateVersion(mem, d)
      BY <1>1, <2>2, Recording
    <2> QED
      BY <1>4, <2>1, <2>2
  <1>6. /\ mem'.versions = store.versions
        /\ mem'.issued = [store.issued EXCEPT !.event = @ + 1]
    <2>1. /\ RecordEvent(store, event).versions = store.versions
          /\ RecordEvent(store, event).issued = [store.issued EXCEPT !.event = @ + 1]
      BY <1>1, Recording, RecordingIssues
    <2> QED
      BY <1>1, <2>1
  <1>7. mem'.issued = [mem.issued EXCEPT !.event = @ + 1]
    BY <1>5, <1>6
  <1>8. Counts(mem)
    BY <1>1, IssuedType
  <1>9. \A other \in Domains: mem.versions[other] <= store.versions[other]
    BY <1>5, <1>8 DEF Counts
  <1>10. NotBefore(mem, mem')
    BY <1>6, <1>7, <1>8, <1>9 DEF NotBefore, Counts
  <1>11. Issued(mem, "observe") = mem.issued.event /\ Issued(mem', "observe") = mem.issued.event + 1
    BY <1>7, <1>8 DEF Issued, Counts
  <1>12. /\ mem.issued.event < mem.issued.event + 1
         /\ mem.issued.event + 1 <= mem.issued.event + 1
         /\ store.versions[d] <= store.versions[d]
    BY <1>1, <1>8, IssuedType DEF Counts
  <1> QED
    BY <1>2, <1>3, <1>6, <1>9, <1>10, <1>11, <1>12 DEF Answers, Accounts

LEMMA DecideAnswers ==
    ASSUME TypeOK, NEW d \in Domains, NEW action \in Actions, Decide(d, action)
    PROVE  Answers(call'.reply)
  <1> DEFINE decision == IssuedDecision(d, action)
  <1>1. /\ mem \in Store /\ decision \in StoredDecision
        /\ mem' = RecordDecision(mem, decision)
    BY DecisionOfType, DecideSteps DEF TypeOK
  <1>2. /\ call'.reply.op = "decide"
        /\ call'.reply.id = decision.id
        /\ call'.reply.domain = d
        /\ call'.reply.version = decision.version
    BY DecideSteps DEF Prepared
  <1>3. decision.id = mem.issued.decision + 1 /\ decision.version = mem.versions[d]
    BY DEF IssuedDecision, CurrentStateVersion
  <1> HIDE DEF decision
  <1>4. /\ mem'.versions = mem.versions
        /\ mem'.issued = [mem.issued EXCEPT !.decision = @ + 1]
    BY <1>1, Recording, RecordingIssues
  <1>5. Counts(mem)
    BY <1>1, IssuedType
  <1>6. NotBefore(mem, mem')
    BY <1>4, <1>5 DEF NotBefore, Counts
  <1>7. /\ Issued(mem, "decide") = mem.issued.decision
        /\ Issued(mem', "decide") = mem.issued.decision + 1
    BY <1>4, <1>5 DEF Issued, Counts
  <1>8. /\ mem.issued.decision < mem.issued.decision + 1
        /\ mem.issued.decision + 1 <= mem.issued.decision + 1
        /\ mem.versions[d] <= mem.versions[d]
    BY <1>5 DEF Counts
  <1> QED
    BY <1>2, <1>3, <1>4, <1>6, <1>7, <1>8 DEF Answers, Accounts

LEMMA OutcomeAnswers ==
    ASSUME TypeOK, NEW id, NEW kind \in OutcomeKinds, RecordOutcomeOf(id, kind)
    PROVE  Answers(call'.reply)
  <1> DEFINE outcome == OutcomeFor(mem, id, kind)
             d == outcome.domain
  <1>1. /\ mem \in Store /\ outcome \in StoredOutcome
        /\ mem' = RecordOutcome(mem, outcome)
    BY OutcomeForType, OutcomeSteps DEF TypeOK
  <1>2. /\ call'.reply.op = "outcome"
        /\ call'.reply.id = outcome.id
        /\ call'.reply.domain = d
        /\ call'.reply.version = outcome.version
    BY OutcomeSteps DEF Prepared
  <1>3. outcome.id = mem.issued.outcome + 1 /\ outcome.version = mem.versions[d]
    BY DEF OutcomeFor, CurrentStateVersion
  <1>4. d \in Domains
    BY <1>1 DEF StoredOutcome
  <1> HIDE DEF outcome, d
  <1>5. /\ mem'.versions = mem.versions
        /\ mem'.issued = [mem.issued EXCEPT !.outcome = @ + 1]
    BY <1>1, Recording, RecordingIssues
  <1>6. Counts(mem)
    BY <1>1, IssuedType
  <1>7. NotBefore(mem, mem')
    BY <1>5, <1>6 DEF NotBefore, Counts
  <1>8. /\ Issued(mem, "outcome") = mem.issued.outcome
        /\ Issued(mem', "outcome") = mem.issued.outcome + 1
    BY <1>5, <1>6 DEF Issued, Counts
  <1>9. /\ mem.issued.outcome < mem.issued.outcome + 1
        /\ mem.issued.outcome + 1 <= mem.issued.outcome + 1
        /\ mem.versions[d] <= mem.versions[d]
    BY <1>4, <1>6 DEF Counts
  <1> QED
    BY <1>2, <1>3, <1>5, <1>7, <1>8, <1>9 DEF Answers, Accounts

LEMMA OrderStep ==
    ASSUME IInv, IInv', OrderInv, [Next]_vars
    PROVE  OrderInv'
  <1>1. /\ TypeOK /\ ProcessInv /\ acks \in Seq(Reply)
        /\ mem \in Store /\ mem' \in Store /\ disk \in Store
        /\ \A i \in 1..Len(acks): acks[i] \in Reply
    BY DEF IInv, TypeOK
  <1>2. CASE Request
    <2>1. /\ Ready /\ call'.stage = "persist"
          /\ UNCHANGED <<status, fatal, disk, recovery, acks>>
      BY <1>1, <1>2, RequestGrows
    <2>2. mem = disk
      BY <1>1, <2>1 DEF ProcessInv
    <2>3. Answers(call'.reply)
      BY <1>1, <1>2, ObserveAnswers, DecideAnswers, OutcomeAnswers DEF Request
    <2>4. call'.reply \in Reply
      BY <2>1 DEF IInv, TypeOK, Idle
    <2>5. ASSUME NEW i \in 1..Len(acks)
          PROVE  Accounts(mem', acks[i]) /\ Follows(call'.reply, acks[i])
      <3>1. Accounts(mem, acks[i]) /\ acks[i] \in Reply
        BY <1>1, <2>2 DEF OrderInv
      <3> QED
        BY <1>1, <2>3, <2>4, <3>1, AccountsLater, FollowsAccounted DEF Answers
    <2> QED
      BY <2>1, <2>3, <2>5 DEF OrderInv, AnswersInOrder, Answers
  <1>3. CASE PersistOk
    <2>1. /\ call.stage = "persist" /\ disk' = mem
          /\ call' = [call EXCEPT !.stage = "respond"]
          /\ UNCHANGED <<status, memory, recovery, acks>>
      BY <1>3 DEF PersistOk
    <2>2. call /= Idle /\ ~fatal /\ call \in [stage: {"persist", "respond"}, reply: Reply]
      BY <1>1, <2>1 DEF ProcessInv, TypeOK, Idle
    <2>3. call'.reply = call.reply
      BY <2>1, <2>2
    <2> QED
      BY <2>1, <2>2, <2>3 DEF OrderInv, AnswersInOrder, memory
  <1>4. CASE PersistFail
    <2>1. fatal' /\ disk' = disk /\ acks' = acks
      BY <1>4 DEF PersistFail
    <2> QED
      BY <2>1 DEF OrderInv, AnswersInOrder
  <1>5. CASE Respond
    <2>1. /\ call.stage = "respond" /\ call' = Idle /\ disk' = disk
          /\ acks' = IF fatal THEN acks ELSE Append(acks, call.reply)
      BY <1>5 DEF Respond
    <2>2. CASE fatal
      BY <2>1, <2>2 DEF OrderInv, AnswersInOrder
    <2>3. CASE ~fatal
      <3>1. mem = disk /\ call /= Idle /\ call.reply \in Reply
        BY <1>1, <2>1, <2>3, StagesDiffer DEF ProcessInv, Idle
      <3>2. /\ Len(acks') = Len(acks) + 1 /\ Len(acks) \in Nat
            /\ acks'[Len(acks) + 1] = call.reply
            /\ \A i \in 1..Len(acks): acks'[i] = acks[i]
        BY <1>1, <2>1, <2>3, <3>1
      <3>3. /\ Accounts(disk, call.reply)
            /\ \A i \in 1..Len(acks): Follows(call.reply, acks[i])
        BY <2>3, <3>1 DEF OrderInv
      <3>4. \A i \in 1..Len(acks'): Accounts(disk', acks'[i])
        <4>1. \A i \in 1..Len(acks): Accounts(disk', acks'[i])
          BY <2>1, <3>2 DEF OrderInv
        <4> QED
          BY <2>1, <3>2, <3>3, <4>1
      <3>5. ASSUME NEW i \in 1..Len(acks'), NEW j \in 1..Len(acks'), i < j
            PROVE  /\ acks'[i].op = acks'[j].op => acks'[i].id < acks'[j].id
                   /\ acks'[i].domain = acks'[j].domain => acks'[i].version <= acks'[j].version
        <4>1. i \in 1..Len(acks) /\ acks'[i] = acks[i]
          BY <3>2, <3>5
        <4>2. CASE j \in 1..Len(acks)
          BY <3>2, <3>5, <4>1, <4>2 DEF OrderInv, AnswersInOrder
        <4>3. CASE j = Len(acks) + 1
          BY <3>2, <3>3, <4>1, <4>3 DEF Follows
        <4> QED
          BY <3>2, <4>2, <4>3
      <3>6. AnswersInOrder'
        BY <3>5 DEF AnswersInOrder
      <3> QED
        BY <2>1, <3>4, <3>6 DEF OrderInv
    <2> QED
      BY <2>2, <2>3
  <1>6. CASE Crash \/ Open \/ Recover \/ UNCHANGED vars
    <2>1. UNCHANGED <<disk, acks>>
      BY <1>6 DEF Crash, Open, Recover, RecoverEvent, PassOverEvent, RefuseEvent, PanicOnEvent,
                  FinishRecovery, vars
    <2>2. call' = Idle \/ UNCHANGED <<mem, fatal, call>>
      <3>1. CASE Open
        BY <1>1, <3>1 DEF Open, ProcessInv
      <3>2. CASE Crash
        BY <3>2 DEF Crash, Forgotten
      <3>3. CASE Recover
        BY <3>3 DEF Recover, RecoverEvent, PassOverEvent, RefuseEvent, PanicOnEvent,
                    FinishRecovery, Forgotten, memory
      <3>4. CASE UNCHANGED vars
        BY <3>4 DEF vars, memory
      <3> QED
        BY <1>6, <3>1, <3>2, <3>3, <3>4
    <2> QED
      BY <2>1, <2>2 DEF OrderInv, AnswersInOrder
  <1> QED
    BY <1>2, <1>3, <1>4, <1>5, <1>6 DEF Next, Finish

(* Clients never see the server go back: no id is told twice or after a     *)
(* later one of its kind, and no domain is answered for at an earlier       *)
(* version than before, whatever crashed in between.                        *)
THEOREM OrderHolds == Spec => []AnswersInOrder
  <1>1. Init => OrderInv
    BY DEF Init, OrderInv, AnswersInOrder
  <1>2. IInv /\ IInv' /\ OrderInv /\ [Next]_vars => OrderInv'
    BY OrderStep
  <1>3. OrderInv => AnswersInOrder
    BY DEF OrderInv
  <1> QED
    BY <1>1, <1>2, <1>3, Invariance, PTL DEF Spec
-----------------------------------------------------------------------------
(* The recursive functions of the model are defined at every place of a     *)
(* log, and a longer log gives the same values at the places it shares.     *)
RebuiltBy(log, n, f) ==
    f = [k \in 0..n |->
            IF k = 0 THEN [d \in Domains |-> NewDomain]
            ELSE IF log[k].policy = "none" THEN f[k - 1] ELSE Absorbed(f[k - 1], log[k])]

LEMMA RebuiltExists ==
    ASSUME NEW log, NEW n \in Nat
    PROVE  \E f: RebuiltBy(log, n, f)
  <1> DEFINE T == {m \in Nat: ~\E f: RebuiltBy(log, m, f)}
  <1>1. SUFFICES ASSUME T # {}
                 PROVE  FALSE
    OBVIOUS
  <1>2. PICK m \in T: \A i \in T: m <= i
    BY <1>1, LeastNumber
  <1>3. m # 0
    <2> DEFINE f == [k \in 0..0 |-> [d \in Domains |-> NewDomain]]
    <2>1. RebuiltBy(log, 0, f)
      BY DEF RebuiltBy
    <2> QED
      BY <2>1
  <1>4. m - 1 \in Nat /\ ~(m <= m - 1)
    BY <1>3
  <1>5. PICK g: RebuiltBy(log, m - 1, g)
    BY <1>2, <1>4
  <1> DEFINE f == [k \in 0..m |->
                     IF k = m THEN IF log[m].policy = "none" THEN g[m - 1]
                                   ELSE Absorbed(g[m - 1], log[m])
                     ELSE g[k]]
  <1>6. \A k \in 0..m: f[k] = IF k = 0 THEN [d \in Domains |-> NewDomain]
                             ELSE IF log[k].policy = "none" THEN f[k - 1]
                             ELSE Absorbed(f[k - 1], log[k])
    <2> TAKE k \in 0..m
    <2>1. CASE k = m
      <3>1. m - 1 \in 0..m /\ m - 1 # m
        BY <1>4
      <3>2. f[m - 1] = g[m - 1]
        BY <3>1
      <3> QED
        BY <2>1, <3>2, <1>3
    <2>2. CASE k # m
      <3>1. k \in 0..(m - 1)
        BY <2>2
      <3>2. f[k] = g[k]
        BY <2>2
      <3>3. g[k] = IF k = 0 THEN [d \in Domains |-> NewDomain]
                   ELSE IF log[k].policy = "none" THEN g[k - 1] ELSE Absorbed(g[k - 1], log[k])
        BY <1>5, <3>1, Zenon DEF RebuiltBy
      <3>4. k # 0 => f[k - 1] = g[k - 1]
        BY <3>1
      <3> QED
        BY <3>2, <3>3, <3>4
    <2> QED
      BY <2>1, <2>2
  <1>7. RebuiltBy(log, m, f)
    BY <1>6, Zenon DEF RebuiltBy
  <1> QED
    BY <1>2, <1>7

LEMMA RebuiltSteps ==
    ASSUME NEW log, Len(log) \in Nat
    PROVE  /\ RebuiltTo(log, 0) = [d \in Domains |-> NewDomain]
           /\ \A k \in 1..Len(log):
                RebuiltTo(log, k) = IF log[k].policy = "none" THEN RebuiltTo(log, k - 1)
                                    ELSE Absorbed(RebuiltTo(log, k - 1), log[k])
  <1> DEFINE f == CHOOSE f: RebuiltBy(log, Len(log), f)
  <1>1. RebuiltBy(log, Len(log), f)
    BY RebuiltExists
  <1>2. \A n: RebuiltTo(log, n) = f[n]
    BY Zenon DEF RebuiltTo, RebuiltBy
  <1> HIDE DEF f
  <1>3. \A k \in 0..Len(log):
          f[k] = IF k = 0 THEN [d \in Domains |-> NewDomain]
                 ELSE IF log[k].policy = "none" THEN f[k - 1] ELSE Absorbed(f[k - 1], log[k])
    BY <1>1, Zenon DEF RebuiltBy
  <1>4. 0 \in 0..Len(log) /\ \A k \in 1..Len(log): k \in 0..Len(log) /\ k # 0
    OBVIOUS
  <1> QED
    BY <1>2, <1>3, <1>4

LEMMA RebuiltPrefix ==
    ASSUME NEW log, NEW longer, Len(log) \in Nat, Len(longer) \in Nat, Extends(log, longer)
    PROVE  \A k \in 0..Len(log): RebuiltTo(longer, k) = RebuiltTo(log, k)
  <1> DEFINE T == {k \in 0..Len(log): RebuiltTo(longer, k) # RebuiltTo(log, k)}
  <1>1. SUFFICES ASSUME T # {}
                 PROVE  FALSE
    OBVIOUS
  <1>2. PICK k \in T: \A i \in T: k <= i
    <2>1. T \in SUBSET Nat
      OBVIOUS
    <2> QED
      BY <1>1, <2>1, LeastNumber
  <1>3. k # 0
    BY RebuiltSteps
  <1>4. k \in 1..Len(log) /\ k \in 1..Len(longer) /\ longer[k] = log[k]
    BY <1>3 DEF Extends
  <1>5. RebuiltTo(longer, k - 1) = RebuiltTo(log, k - 1)
    <2>1. k - 1 \in 0..Len(log) /\ ~(k <= k - 1)
      BY <1>4
    <2> QED
      BY <1>2, <2>1
  <1>6. RebuiltTo(longer, k) = RebuiltTo(log, k)
    <2>1. RebuiltTo(log, k) = IF log[k].policy = "none" THEN RebuiltTo(log, k - 1)
                              ELSE Absorbed(RebuiltTo(log, k - 1), log[k])
      BY <1>4, RebuiltSteps
    <2>2. RebuiltTo(longer, k) = IF longer[k].policy = "none" THEN RebuiltTo(longer, k - 1)
                                 ELSE Absorbed(RebuiltTo(longer, k - 1), longer[k])
      BY <1>4, RebuiltSteps
    <2> QED
      BY <1>4, <1>5, <2>1, <2>2, Zenon
  <1> QED
    BY <1>2, <1>6

(* The same of r2r_replay's run. *)
ReplayedBy(store, d, n, f) ==
    f = [k \in 0..n |->
            IF k = 0 THEN [gov |-> NewGovernance, version |-> 0, first |-> 0]
            ELSE IF HasInput(store, d, k) THEN Replayed(f[k - 1], store.events[k], k)
            ELSE f[k - 1]]

LEMMA ReplayExists ==
    ASSUME NEW store, NEW d, NEW n \in Nat
    PROVE  \E f: ReplayedBy(store, d, n, f)
  <1> DEFINE Fresh == [gov |-> NewGovernance, version |-> 0, first |-> 0]
             T == {m \in Nat: ~\E f: ReplayedBy(store, d, m, f)}
  <1>1. SUFFICES ASSUME T # {}
                 PROVE  FALSE
    OBVIOUS
  <1>2. PICK m \in T: \A i \in T: m <= i
    BY <1>1, LeastNumber
  <1>3. m # 0
    <2> DEFINE f == [k \in 0..0 |-> Fresh]
    <2>1. ReplayedBy(store, d, 0, f)
      BY DEF ReplayedBy
    <2> QED
      BY <2>1
  <1>4. m - 1 \in Nat /\ ~(m <= m - 1)
    BY <1>3
  <1>5. PICK g: ReplayedBy(store, d, m - 1, g)
    BY <1>2, <1>4
  <1> DEFINE f == [k \in 0..m |->
                     IF k = m THEN IF HasInput(store, d, m)
                                   THEN Replayed(g[m - 1], store.events[m], m) ELSE g[m - 1]
                     ELSE g[k]]
  <1>6. \A k \in 0..m: f[k] = IF k = 0 THEN Fresh
                             ELSE IF HasInput(store, d, k)
                                  THEN Replayed(f[k - 1], store.events[k], k)
                             ELSE f[k - 1]
    <2> TAKE k \in 0..m
    <2>1. CASE k = m
      <3>1. m - 1 \in 0..m /\ m - 1 # m
        BY <1>4
      <3>2. f[m - 1] = g[m - 1]
        BY <3>1
      <3> QED
        BY <2>1, <3>2, <1>3
    <2>2. CASE k # m
      <3>1. k \in 0..(m - 1)
        BY <2>2
      <3>2. f[k] = g[k]
        BY <2>2
      <3>3. g[k] = IF k = 0 THEN Fresh
                   ELSE IF HasInput(store, d, k) THEN Replayed(g[k - 1], store.events[k], k)
                   ELSE g[k - 1]
        BY <1>5, <3>1, Zenon DEF ReplayedBy
      <3>4. k # 0 => f[k - 1] = g[k - 1]
        BY <3>1
      <3> QED
        BY <3>2, <3>3, <3>4
    <2> QED
      BY <2>1, <2>2
  <1>7. ReplayedBy(store, d, m, f)
    BY <1>6, Zenon DEF ReplayedBy
  <1> QED
    BY <1>2, <1>7

LEMMA ReplaySteps ==
    ASSUME NEW store, NEW d, Len(store.events) \in Nat
    PROVE  /\ ReplayTo(store, d, 0) = [gov |-> NewGovernance, version |-> 0, first |-> 0]
           /\ \A k \in 1..Len(store.events):
                ReplayTo(store, d, k) =
                    IF HasInput(store, d, k)
                    THEN Replayed(ReplayTo(store, d, k - 1), store.events[k], k)
                    ELSE ReplayTo(store, d, k - 1)
  <1> DEFINE n == Len(store.events)
             f == CHOOSE f: ReplayedBy(store, d, n, f)
  <1>1. ReplayedBy(store, d, n, f)
    BY ReplayExists
  <1>2. \A k: ReplayTo(store, d, k) = f[k]
    BY Zenon DEF ReplayTo, ReplayedBy
  <1> HIDE DEF f
  <1>3. \A k \in 0..n:
          f[k] = IF k = 0 THEN [gov |-> NewGovernance, version |-> 0, first |-> 0]
                 ELSE IF HasInput(store, d, k) THEN Replayed(f[k - 1], store.events[k], k)
                 ELSE f[k - 1]
    BY <1>1, Zenon DEF ReplayedBy
  <1>4. 0 \in 0..n /\ \A k \in 1..n: k \in 0..n /\ k # 0
    OBVIOUS
  <1> QED
    BY <1>2, <1>3, <1>4

LEMMA ReplayPrefix ==
    ASSUME NEW store, NEW later, NEW d, Len(store.events) \in Nat, Len(later.events) \in Nat,
           Extends(store.events, later.events)
    PROVE  \A k \in 0..Len(store.events): ReplayTo(later, d, k) = ReplayTo(store, d, k)
  <1> DEFINE n == Len(store.events)
             T == {k \in 0..n: ReplayTo(later, d, k) # ReplayTo(store, d, k)}
  <1>1. SUFFICES ASSUME T # {}
                 PROVE  FALSE
    OBVIOUS
  <1>2. PICK k \in T: \A i \in T: k <= i
    <2>1. T \in SUBSET Nat
      OBVIOUS
    <2> QED
      BY <1>1, <2>1, LeastNumber
  <1>3. k # 0
    BY ReplaySteps
  <1>4. /\ k \in 1..n /\ k \in 1..Len(later.events)
        /\ later.events[k] = store.events[k]
    BY <1>3 DEF Extends
  <1>5. HasInput(later, d, k) <=> HasInput(store, d, k)
    BY <1>4 DEF HasInput, EventsForDomain
  <1>6. ReplayTo(later, d, k - 1) = ReplayTo(store, d, k - 1)
    <2>1. k - 1 \in 0..n /\ ~(k <= k - 1)
      BY <1>4
    <2> QED
      BY <1>2, <2>1
  <1>7. ReplayTo(later, d, k) = ReplayTo(store, d, k)
    <2>1. ReplayTo(store, d, k) =
            IF HasInput(store, d, k) THEN Replayed(ReplayTo(store, d, k - 1), store.events[k], k)
            ELSE ReplayTo(store, d, k - 1)
      BY <1>4, ReplaySteps
    <2>2. ReplayTo(later, d, k) =
            IF HasInput(later, d, k) THEN Replayed(ReplayTo(later, d, k - 1), later.events[k], k)
            ELSE ReplayTo(later, d, k - 1)
      BY <1>4, ReplaySteps
    <2> QED
      BY <1>4, <1>5, <1>6, <2>1, <2>2, Zenon
  <1> QED
    BY <1>2, <1>7
-----------------------------------------------------------------------------
(* A server that serves holds what its log determines, one that recovers    *)
(* what the events before the cursor do.                                    *)
RestartInv ==
    /\ status = "serving" => domains = Rebuilt(mem.events)
    /\ status = "recovering" => /\ cursor <= Len(mem.events) + 1
                                /\ domains = RebuiltTo(mem.events, cursor - 1)

(* An observation absorbs its own event. *)
LEMMA ObserveRebuilds ==
    ASSUME TypeOK, RestartInv, NEW d \in Domains, NEW judgment \in Judgments, Observe(d, judgment)
    PROVE  RestartInv'
  <1> DEFINE log == mem.events
             event == EventOf(d, judgment)
             domain == domains[d]
  <1>1. log \in Seq(StoredEvent) /\ event \in StoredEvent
    BY ObservedType DEF TypeOK, Store
  <1>2. mem'.events = Append(log, event)
    BY ObserveGrows
  <1>3. /\ Extends(log, mem'.events)
        /\ Len(mem'.events) = Len(log) + 1
        /\ mem'.events[Len(log) + 1] = event
        /\ Len(log) \in Nat
    BY <1>1, <1>2, AppendExtends
  <1>4. RebuiltTo(mem'.events, Len(log)) = Rebuilt(log)
    <2>1. Len(mem'.events) \in Nat /\ Len(log) \in 0..Len(log)
      BY <1>3
    <2> QED
      BY <1>3, <2>1, RebuiltPrefix DEF Rebuilt
  <1>5. event.policy = "current"
    BY DEF EventOf
  <1>6. Rebuilt(mem'.events) = Absorbed(Rebuilt(log), event)
    <2>1. /\ Len(log) + 1 \in 1..Len(mem'.events)
          /\ Len(mem'.events) \in Nat
          /\ Len(log) + 1 - 1 = Len(log)
      BY <1>3
    <2>2. RebuiltTo(mem'.events, Len(log) + 1) =
            IF mem'.events[Len(log) + 1].policy = "none"
            THEN RebuiltTo(mem'.events, Len(log) + 1 - 1)
            ELSE Absorbed(RebuiltTo(mem'.events, Len(log) + 1 - 1), mem'.events[Len(log) + 1])
      <3> DEFINE longer == mem'.events
      <3>1. \A k \in 1..Len(longer):
              RebuiltTo(longer, k) = IF longer[k].policy = "none" THEN RebuiltTo(longer, k - 1)
                                     ELSE Absorbed(RebuiltTo(longer, k - 1), longer[k])
        BY <2>1, RebuiltSteps
      <3> HIDE DEF longer
      <3>2. Len(log) + 1 \in 1..Len(longer)
        BY <2>1 DEF longer
      <3> QED
        BY <3>1, <3>2 DEF longer
    <2> HIDE DEF event
    <2>3. RebuiltTo(mem'.events, Len(log) + 1) = Absorbed(RebuiltTo(mem'.events, Len(log)), event)
      BY <1>3, <1>5, <2>1, <2>2
    <2> QED
      BY <1>3, <1>4, <2>3 DEF Rebuilt
  <1>7. status = "serving" /\ domains = Rebuilt(log) /\ status' = status
    BY ObserveSteps DEF RestartInv, Ready
  <1>8. /\ event.domain = d /\ event.judgment = judgment
        /\ event.context = DemoContext(domain.nextVtick)
        /\ event.context.now = domain.nextVtick
    BY DEF EventOf, DemoContext
  <1>9. LatestOf(domain.nextVtick, event.context.now + 1) = domain.nextVtick + 1
    <2>1. domain.nextVtick \in Nat
      BY ObservedType
    <2>2. \A n \in Nat: LatestOf(n, n + 1) = n + 1
      BY DEF LatestOf
    <2> QED
      BY <1>8, <2>1, <2>2
  <1>10. domains' = [domains EXCEPT ![d] =
                       AfterObservation(domain, Observed(d, judgment), domain.nextVtick + 1)]
    BY ObserveSteps
  <1>11. Absorbed(domains, event) = domains'
    <2> HIDE DEF event
    <2>1. Absorbed(domains, event) = [domains EXCEPT ![event.domain] =
            AfterObservation(domains[event.domain],
                ObserveJudgment(domains[event.domain].gov, event.judgment, event.context),
                LatestOf(domains[event.domain].nextVtick, event.context.now + 1))]
      BY DEF Absorbed
    <2> QED
      BY <1>8, <1>9, <1>10, <2>1 DEF Observed
  <1> QED
    BY <1>6, <1>7, <1>11 DEF RestartInv

(* Recovering an event absorbs it as well: what is stored of it agrees, and *)
(* the clock restored is the latest.                                        *)
LEMMA RecoverRebuilds ==
    ASSUME TypeOK, RestartInv, RecoverEvent \/ PassOverEvent
    PROVE  RestartInv'
  <1> DEFINE log == mem.events
  <1>1. /\ status = "recovering" /\ status' = status /\ mem' = mem /\ cursor' = cursor + 1
        /\ Recovering
    BY DEF RecoverEvent, PassOverEvent, Recovering, memory
  <1>2. /\ cursor \in 1..Len(log) /\ Event = log[cursor] /\ Event \in StoredEvent
        /\ Len(log) \in Nat /\ cursor \in Nat
    <2>1. cursor \in 1..Len(log) /\ Event = log[cursor] /\ Event \in StoredEvent
      BY <1>1, EventType
    <2>2. log \in Seq(StoredEvent)
      BY StoreLogs DEF TypeOK
    <2> QED
      BY <2>1, <2>2
  <1>3. domains = RebuiltTo(log, cursor - 1)
    BY <1>1 DEF RestartInv
  <1>4. RebuiltTo(log, cursor) = IF Event.policy = "none" THEN domains ELSE Absorbed(domains, Event)
    <2>1. \A k \in 1..Len(log): RebuiltTo(log, k) =
            IF log[k].policy = "none" THEN RebuiltTo(log, k - 1)
            ELSE Absorbed(RebuiltTo(log, k - 1), log[k])
      BY <1>2, RebuiltSteps
    <2>2. RebuiltTo(log, cursor) =
            IF log[cursor].policy = "none" THEN RebuiltTo(log, cursor - 1)
            ELSE Absorbed(RebuiltTo(log, cursor - 1), log[cursor])
      BY <1>2, <2>1, Zenon
    <2> QED
      BY <1>2, <1>3, <2>2, Zenon
  <1>5. domains' = RebuiltTo(log, cursor)
    <2>1. CASE RecoverEvent
      <3>1. Event.policy = "current"
        BY <2>1 DEF RecoverEvent, Replayable
      <3>2. domains' = [domains EXCEPT ![Event.domain] =
                          AfterObservation(domains[Event.domain], Outcome,
                                           RestoredVtick(domains[Event.domain], Event))]
        BY <2>1 DEF RecoverEvent
      <3>3. RestoredVtick(domains[Event.domain], Event)
              = LatestOf(domains[Event.domain].nextVtick, Event.context.now + 1)
        BY DEF RestoredVtick, LatestOf
      <3>4. Absorbed(domains, Event) = domains'
        BY <3>2, <3>3, Zenon DEF Absorbed, Outcome
      <3> QED
        BY <1>4, <3>1, <3>4
    <2>2. CASE PassOverEvent
      BY <1>4, <2>2 DEF PassOverEvent, memory
    <2> QED
      BY <2>1, <2>2
  <1>6. cursor + 1 <= Len(log) + 1 /\ cursor + 1 - 1 = cursor
    BY <1>2
  <1>7. status' = "recovering" /\ cursor' <= Len(mem'.events) + 1 /\ cursor' - 1 = cursor
    <2> HIDE DEF log
    <2>1. Len(mem'.events) = Len(log) /\ status' = "recovering" /\ cursor' = cursor + 1
      BY <1>1 DEF log
    <2> QED
      BY <1>2, <2>1
  <1>8. domains' = RebuiltTo(mem'.events, cursor' - 1)
    BY <1>1, <1>5, <1>7, Zenon
  <1> QED
    BY <1>7, <1>8, Zenon DEF RestartInv

LEMMA RestartStep ==
    ASSUME TypeOK, ProcessInv, RestartInv, [Next]_vars
    PROVE  RestartInv'
  <1>1. CASE Request
    <2>1. ASSUME NEW d \in Domains, NEW judgment \in Judgments, Observe(d, judgment)
          PROVE  RestartInv'
      BY <2>1, ObserveRebuilds
    <2>2. ASSUME NEW d \in Domains, NEW action \in Actions, Decide(d, action)
          PROVE  RestartInv'
      <3>1. mem'.events = mem.events
        BY <2>2, DecideGrows
      <3>2. UNCHANGED <<status, domains, cursor>>
        BY <2>2, DecideSteps DEF recovery
      <3> QED
        BY <3>1, <3>2 DEF RestartInv
    <2>3. ASSUME NEW id, NEW kind \in OutcomeKinds, RecordOutcomeOf(id, kind)
          PROVE  RestartInv'
      <3>1. mem'.events = mem.events
        BY <2>3, OutcomeGrows
      <3>2. UNCHANGED <<status, domains, cursor>>
        BY <2>3, OutcomeSteps DEF recovery
      <3> QED
        BY <3>1, <3>2 DEF RestartInv
    <2> QED
      BY <1>1, <2>1, <2>2, <2>3 DEF Request
  <1>2. CASE Finish
    BY <1>2 DEF Finish, PersistOk, PersistFail, Respond, memory, recovery, RestartInv
  <1>3. CASE status' \in {"down", "refused"}
    BY <1>3 DEF RestartInv
  <1>4. CASE Open
    <2>1. /\ status' = "recovering" /\ domains' = [d \in Domains |-> NewDomain] /\ cursor' = 1
          /\ mem' = disk
      BY <1>4 DEF Open, ProcessInv, AllNew, recovery
    <2>2. Len(disk.events) \in Nat
      BY DEF TypeOK, Store
    <2>3. RebuiltTo(disk.events, 0) = [d \in Domains |-> NewDomain]
      BY <2>2, RebuiltSteps
    <2>4. 1 - 1 = 0 /\ 1 <= Len(disk.events) + 1
      BY <2>2
    <2> QED
      BY <2>1, <2>3, <2>4 DEF RestartInv
  <1>5. CASE RecoverEvent \/ PassOverEvent
    BY <1>5, RecoverRebuilds
  <1>6. CASE FinishRecovery /\ status' = "serving"
    <2>1. /\ status = "recovering" /\ cursor > Len(mem.events) /\ domains' = domains /\ mem' = mem
      BY <1>6 DEF FinishRecovery, EventsReplayed, memory
    <2>2. Len(mem.events) \in Nat /\ cursor \in Nat
      BY StoreLogs DEF TypeOK
    <2>3. cursor <= Len(mem.events) + 1
      BY <2>1 DEF RestartInv
    <2>4. cursor - 1 = Len(mem.events)
      BY <2>1, <2>2, <2>3
    <2> QED
      BY <1>6, <2>1, <2>4 DEF RestartInv, Rebuilt
  <1>7. CASE UNCHANGED vars
    BY <1>7 DEF vars, memory, recovery, RestartInv
  <1>8. \/ Request \/ Finish \/ status' \in {"down", "refused"} \/ Open
        \/ (RecoverEvent \/ PassOverEvent) \/ (FinishRecovery /\ status' = "serving")
        \/ UNCHANGED vars
    BY DEF Next, Recover, RefuseEvent, PanicOnEvent, FinishRecovery, Crash
  <1> QED
    BY <1>1, <1>2, <1>3, <1>4, <1>5, <1>6, <1>7, <1>8

(* What a server holds in memory is what its log determines, while it       *)
(* serves and at every step of its recovery.                                *)
THEOREM RestartInvariance == Spec => []RestartInv
  <1>1. Init => RestartInv
    BY DEF Init, RestartInv
  <1>2. IInv /\ RestartInv /\ [Next]_vars => RestartInv'
    BY RestartStep DEF IInv
  <1> QED
    BY <1>1, <1>2, Invariance, PTL DEF Spec

(* A restart is invisible: whenever the server can take a request, its      *)
(* store is the file's and its kernels, clocks and projections are what the *)
(* file's log alone determines.                                             *)
THEOREM RestartHolds == Spec => []RestartIsInvisible
  <1>1. IInv /\ RestartInv => RestartIsInvisible
    BY DEF IInv, ProcessInv, RestartInv, RestartIsInvisible, Ready
  <1> QED
    BY <1>1, Invariance, RestartInvariance, PTL
-----------------------------------------------------------------------------
(***************************************************************************)
(* Replay.  A store is reproduced when recovery and r2r_replay find        *)
(* nothing to object to in it: every event has its input or changed        *)
(* nothing, none panics or diverges, and every domain's count of changes   *)
(* is its stored version.                                                  *)
(***************************************************************************)
Sound(event) ==
    \/ event.policy = "none" /\ event.transitions = {}
    \/ event.policy = "current" /\ ~Panics(event)

ReproducedTo(store, n) ==
    /\ \A k \in 1..n: Sound(store.events[k])
    /\ \A d \in Domains: ReplayTo(store, d, n).first = 0

Reproduced(store) ==
    /\ ReproducedTo(store, Len(store.events))
    /\ \A d \in Domains:
         ReplayTo(store, d, Len(store.events)).version = CurrentStateVersion(store, d)

(* No domain of the file has a version and no event to account for it.      *)
Accounted(store) ==
    \A d \in Domains: CurrentStateVersion(store, d) /= 0
        => \E k \in 1..Len(store.events): HasInput(store, d, k)

Damaged == disk \in InitialFiles \ {EmptyStore}

ReplayInv ==
    /\ status = "serving" =>
         /\ Reproduced(mem) /\ Reproduced(disk)
         /\ \A d \in Domains: domains[d].gov = ReplayTo(mem, d, Len(mem.events)).gov
    /\ status = "recovering" =>
         /\ ReproducedTo(mem, cursor - 1)
         /\ \A d \in Domains:
              /\ domains[d].gov = ReplayTo(mem, d, cursor - 1).gov
              /\ replayed[d] = ReplayTo(mem, d, cursor - 1).version
              /\ (\A k \in 1..(cursor - 1): ~HasInput(mem, d, k)) => replayed[d] = 0
    /\ Damaged \/ Reproduced(disk)
    /\ status = "refused" => Damaged

(* Once an event could not be reproduced, the run remembers it. *)
LEMMA FirstStays ==
    ASSUME NEW store, NEW d, Len(store.events) \in Nat,
           NEW n \in 0..Len(store.events), ReplayTo(store, d, n).first = 0
    PROVE  \A k \in 0..n: ReplayTo(store, d, k).first = 0
  <1>1. SUFFICES ASSUME NEW k \in 0..n, ReplayTo(store, d, k).first # 0
                 PROVE  FALSE
    OBVIOUS
  <1> DEFINE T == {j \in k..n: ReplayTo(store, d, j).first = 0}
  <1>2. PICK j \in T: \A i \in T: j <= i
    <2>1. T \in SUBSET Nat /\ n \in T
      OBVIOUS
    <2> QED
      BY <2>1, LeastNumber
  <1>3. j # k
    BY <1>1
  <1>4. j \in 1..Len(store.events) /\ j - 1 \in k..n /\ ~(j <= j - 1)
    BY <1>3
  <1>5. ReplayTo(store, d, j - 1).first # 0
    BY <1>2, <1>4
  <1>6. ReplayTo(store, d, j) =
          IF HasInput(store, d, j) THEN Replayed(ReplayTo(store, d, j - 1), store.events[j], j)
          ELSE ReplayTo(store, d, j - 1)
    BY <1>4, ReplaySteps
  <1>7. \A run, event: run.first # 0 => Replayed(run, event, j).first # 0
    BY DEF Replayed
  <1>8. ReplayTo(store, d, j).first # 0
    BY <1>5, <1>6, <1>7, Zenon
  <1> QED
    BY <1>2, <1>8

(* Stores with the same events and versions are reproduced together. *)
LEMMA ReproducedAlike ==
    ASSUME NEW store \in Store, NEW later \in Store,
           later.events = store.events, later.versions = store.versions
    PROVE  /\ \A d: ReplayTo(later, d, Len(later.events)) = ReplayTo(store, d, Len(store.events))
           /\ Reproduced(store) => Reproduced(later)
  <1>1. Len(store.events) \in Nat /\ Extends(store.events, later.events)
    BY StoreLogs DEF Extends
  <1>2. \A d: ReplayTo(later, d, Len(later.events)) = ReplayTo(store, d, Len(store.events))
    BY <1>1, ReplayPrefix
  <1> QED
    BY <1>2 DEF Reproduced, ReproducedTo, CurrentStateVersion

(* What replay makes of an event it can reproduce. *)
LEMMA ReplayedAgreeing ==
    ASSUME NEW run, NEW event, NEW k, run.first = 0, event.policy = "current",
           NEW o, o = ObserveJudgment(run.gov, event.judgment, event.context),
           Agrees(event, o.admission, VersionAfter(run.version, o.admission))
    PROVE  /\ Replayed(run, event, k).gov = o.gov
           /\ Replayed(run, event, k).version = VersionAfter(run.version, o.admission)
           /\ Replayed(run, event, k).first = 0
  BY DEF Replayed

(* What it cannot: it names the event. *)
LEMMA ReplayedDiverging ==
    ASSUME NEW run, NEW event, NEW k, run.first = 0, Replayed(run, event, k).first = 0, k # 0,
           NEW o, o = ObserveJudgment(run.gov, event.judgment, event.context)
    PROVE  /\ event.policy # "other"
           /\ Agrees(event, o.admission, VersionAfter(run.version, o.admission))
  BY DEF Replayed

(* An observation stores an event that replay makes the same of. *)
LEMMA ObserveReproduces ==
    ASSUME TypeOK, Reproduced(mem), NEW d \in Domains, NEW judgment \in Judgments,
           \A other \in Domains: domains[other].gov = ReplayTo(mem, other, Len(mem.events)).gov,
           Observe(d, judgment)
    PROVE  /\ Reproduced(mem')
           /\ \A other \in Domains:
                domains'[other].gov = ReplayTo(mem', other, Len(mem'.events)).gov
  <1> DEFINE n == Len(mem.events)
             event == EventOf(d, judgment)
             o == Observed(d, judgment)
             run == ReplayTo(mem, d, n)
             later == mem'
  <1>1. mem \in Store /\ later \in Store /\ mem.events \in Seq(StoredEvent) /\ event \in StoredEvent
    BY ObservedType, ObserveKeepsType DEF TypeOK, Store
  <1>2. /\ later.events = Append(mem.events, event)
        /\ later.versions = StoreBefore(d, judgment).versions
    BY ObserveGrows
  <1>3. /\ n \in Nat /\ Len(later.events) = n + 1 /\ Extends(mem.events, later.events)
        /\ later.events[n + 1] = event
        /\ \A k \in 1..n: later.events[k] = mem.events[k]
    BY <1>1, <1>2, AppendExtends DEF Extends
  <1>4. /\ event.domain = d /\ event.policy = "current" /\ event.judgment = judgment
        /\ event.context = DemoContext(domains[d].nextVtick)
        /\ event.kernelEvent = o.admission.event
        /\ event.transitions = Transitions(o.admission)
        /\ event.version = CurrentStateVersion(StoreBefore(d, judgment), d)
    BY DEF EventOf
  <1> HIDE DEF event
  <1>5. CurrentStateVersion(later, d) = event.version
    BY <1>2, <1>4 DEF CurrentStateVersion
  <1>6. /\ event.version = VersionAfter(CurrentStateVersion(mem, d), o.admission)
        /\ \A other \in Domains: other # d =>
             CurrentStateVersion(later, other) = CurrentStateVersion(mem, other)
    <2>1. mem.versions \in [Domains -> Nat]
      BY <1>1, StoreLogs
    <2>2. StoreBefore(d, judgment).versions =
            IF o.admission.changes = {} THEN mem.versions
            ELSE [mem.versions EXCEPT ![d] = @ + 1]
      BY <1>1 DEF StoreBefore, AdvanceStateVersion, Store
    <2> QED
      BY <1>2, <1>4, <2>1, <2>2 DEF CurrentStateVersion, VersionAfter
  <1>7. run.first = 0 /\ run.version = CurrentStateVersion(mem, d) /\ run.gov = domains[d].gov
    BY DEF Reproduced, ReproducedTo
  <1>8. ~Panics(event)
    <2>1. /\ judgment \in [beyond: 0..PPM, destructive: 0..PPM]
          /\ ValidContext(DemoContext(domains[d].nextVtick))
      BY ObservedType
    <2>2. PPM \in Nat
      BY SMT DEF PPM
    <2>3. ~(judgment.beyond > PPM) /\ ~(judgment.destructive > PPM)
      BY <2>1, <2>2
    <2> QED
      BY <1>4, <2>1, <2>3, Zenon DEF Panics
  <1>9. \A other \in Domains: ReplayTo(later, other, n) = ReplayTo(mem, other, n)
    BY <1>3, ReplayPrefix
  <1>10. \A other \in Domains:
           ReplayTo(later, other, n + 1) =
             IF other = d THEN Replayed(run, event, n + 1) ELSE ReplayTo(mem, other, n)
    <2> TAKE other \in Domains
    <2>1. HasInput(later, other, n + 1) <=> other = d
      BY <1>3, <1>4 DEF HasInput, EventsForDomain
    <2>2. n \in Nat /\ n + 1 \in 1..Len(later.events) /\ Len(later.events) \in Nat
      BY <1>3
    <2>3. later.events[n + 1] = event /\ ReplayTo(later, other, n) = ReplayTo(mem, other, n)
      BY <1>3, <1>9
    <2> HIDE DEF later, n
    <2>4. ReplayTo(later, other, n + 1) =
            IF HasInput(later, other, n + 1)
            THEN Replayed(ReplayTo(later, other, n), later.events[n + 1], n + 1)
            ELSE ReplayTo(later, other, n)
      <3>1. \A k \in 1..Len(later.events):
              ReplayTo(later, other, k) =
                IF HasInput(later, other, k)
                THEN Replayed(ReplayTo(later, other, k - 1), later.events[k], k)
                ELSE ReplayTo(later, other, k - 1)
        BY <2>2, ReplaySteps
      <3>2. PICK k \in 1..Len(later.events): k = n + 1
        BY <2>2
      <3>3. k - 1 = n
        BY <2>2, <3>2
      <3>4. ReplayTo(later, other, k) =
              IF HasInput(later, other, k)
              THEN Replayed(ReplayTo(later, other, k - 1), later.events[k], k)
              ELSE ReplayTo(later, other, k - 1)
        BY <3>1
      <3> QED
        BY <3>2, <3>3, <3>4, Zenon
    <2> QED
      <3>1. CASE other = d
        BY <2>1, <2>3, <2>4, <3>1
      <3>2. CASE other # d
        BY <2>1, <2>3, <2>4, <3>2
      <3> QED
        BY <3>1, <3>2
  <1>11. /\ Replayed(run, event, n + 1).gov = o.gov
         /\ Replayed(run, event, n + 1).version = event.version
         /\ Replayed(run, event, n + 1).first = 0
    <2>1. o = ObserveJudgment(run.gov, event.judgment, event.context)
      BY <1>4, <1>7 DEF Observed
    <2> HIDE DEF o, run, n
    <2>2. Agrees(event, o.admission, VersionAfter(run.version, o.admission))
      BY <1>4, <1>6, <1>7 DEF Agrees
    <2>3. /\ Replayed(run, event, n + 1).gov = o.gov
          /\ Replayed(run, event, n + 1).version = VersionAfter(run.version, o.admission)
          /\ Replayed(run, event, n + 1).first = 0
      BY <1>4, <1>7, <2>1, <2>2, ReplayedAgreeing
    <2>4. event.version = VersionAfter(run.version, o.admission)
      BY <1>6, <1>7
    <2> QED
      BY <2>3, <2>4
  <1>12. domains'[d].gov = o.gov /\ \A other \in Domains: other # d => domains'[other] = domains[other]
    <2>1. domains \in [Domains -> DomainRuntime]
      BY DEF TypeOK
    <2> QED
      <3> DEFINE after == AfterObservation(domains[d], o, domains[d].nextVtick + 1)
      <3>1. domains' = [domains EXCEPT ![d] = after]
        BY ObserveSteps
      <3>2. after.gov = o.gov
        BY DEF AfterObservation
      <3> HIDE DEF after
      <3> QED
        BY <2>1, <3>1, <3>2
  <1>13. \A k \in 1..(n + 1): Sound(later.events[k])
    <2>1. \A k \in 1..n: Sound(mem.events[k])
      BY DEF Reproduced, ReproducedTo
    <2>2. Sound(event)
      BY <1>4, <1>8 DEF Sound
    <2>3. \A k \in 1..(n + 1): k \in 1..n \/ k = n + 1
      BY <1>3
    <2> QED
      BY <1>3, <2>1, <2>2, <2>3
  <1> HIDE DEF o, run, later
  <1>14. Reproduced(later)
    <2>1. \A other \in Domains: /\ ReplayTo(mem, other, n).first = 0
                                /\ ReplayTo(mem, other, n).version = CurrentStateVersion(mem, other)
      BY DEF Reproduced, ReproducedTo
    <2> HIDE DEF n
    <2> QED
      BY <1>3, <1>5, <1>6, <1>10, <1>11, <1>13, <2>1 DEF Reproduced, ReproducedTo
  <1>15. ASSUME NEW other \in Domains
         PROVE  domains'[other].gov = ReplayTo(later, other, Len(later.events)).gov
    <2> HIDE DEF n
    <2>1. Len(later.events) = n + 1
      BY <1>3
    <2>2. CASE other = d
      BY <1>10, <1>11, <1>12, <2>1, <2>2
    <2>3. CASE other # d
      BY <1>10, <1>12, <2>1, <2>3 DEF n
    <2> QED
      BY <2>2, <2>3
  <1> QED
    BY <1>14, <1>15 DEF later

(* Recovering an event is replaying it in its domain.                       *)
LEMMA RecoverReproduces ==
    ASSUME TypeOK, RestartInv, ReplayInv, RecoverEvent \/ PassOverEvent
    PROVE  ReplayInv'
  <1> DEFINE d == Event.domain
             run == ReplayTo(mem, d, cursor - 1)
  <1>1. /\ status = "recovering" /\ status' = status /\ mem' = mem /\ disk' = disk
        /\ cursor' = cursor + 1 /\ Recovering
    BY DEF RecoverEvent, PassOverEvent, Recovering, memory
  <1>2. /\ cursor \in 1..Len(mem.events) /\ Event = mem.events[cursor]
        /\ Len(mem.events) \in Nat /\ cursor \in Nat /\ cursor' - 1 = cursor
        /\ Event.domain \in Domains
    <2>1. cursor \in 1..Len(mem.events) /\ Event = mem.events[cursor] /\ Event.domain \in Domains
      BY <1>1, EventType
    <2>2. mem.events \in Seq(StoredEvent)
      BY StoreLogs DEF TypeOK
    <2> QED
      BY <1>1, <2>1, <2>2
  <1>3. /\ \A k \in 1..(cursor - 1): Sound(mem.events[k])
        /\ \A c \in Domains:
             /\ ReplayTo(mem, c, cursor - 1).first = 0
             /\ domains[c].gov = ReplayTo(mem, c, cursor - 1).gov
             /\ replayed[c] = ReplayTo(mem, c, cursor - 1).version
             /\ (\A k \in 1..(cursor - 1): ~HasInput(mem, c, k)) => replayed[c] = 0
    BY <1>1 DEF ReplayInv, ReproducedTo
  <1>4. \A c \in Domains:
          ReplayTo(mem, c, cursor) =
              IF HasInput(mem, c, cursor) THEN Replayed(ReplayTo(mem, c, cursor - 1), Event, cursor)
              ELSE ReplayTo(mem, c, cursor - 1)
    BY <1>2, ReplaySteps
  <1>5. \A c \in Domains: HasInput(mem, c, cursor) <=> c = d /\ Event.policy /= "none"
    BY <1>2 DEF HasInput, EventsForDomain
  <1>6. domains \in [Domains -> DomainRuntime] /\ replayed \in [Domains -> Nat]
    BY DEF TypeOK
  <1>7. /\ Sound(Event)
        /\ \A c \in Domains:
             /\ ReplayTo(mem, c, cursor).first = 0
             /\ domains'[c].gov = ReplayTo(mem, c, cursor).gov
             /\ replayed'[c] = ReplayTo(mem, c, cursor).version
             /\ ~HasInput(mem, c, cursor) => replayed'[c] = replayed[c]
    <2>1. CASE RecoverEvent
      <3>1. /\ Replayable /\ Event.policy = "current" /\ ~Panics(Event)
            /\ Agrees(Event, Outcome.admission, Version)
            /\ domains' = [domains EXCEPT ![d] =
                             AfterObservation(domains[d], Outcome, RestoredVtick(domains[d], Event))]
            /\ replayed' = [replayed EXCEPT ![d] = Version]
        BY <2>1 DEF RecoverEvent, Replayable
      <3>2. run.first = 0 /\ run.gov = domains[d].gov /\ run.version = replayed[d]
        BY <1>2, <1>3
      <3>3. /\ Outcome = ObserveJudgment(run.gov, Event.judgment, Event.context)
            /\ Version = VersionAfter(run.version, Outcome.admission)
        BY <3>2 DEF Outcome, Version
      <3> HIDE DEF run, d
      <3>4. /\ Replayed(run, Event, cursor).gov = Outcome.gov
            /\ Replayed(run, Event, cursor).version = Version
            /\ Replayed(run, Event, cursor).first = 0
        BY <3>1, <3>2, <3>3, ReplayedAgreeing
      <3>5. domains'[d].gov = Outcome.gov /\ replayed'[d] = Version
        <4> DEFINE after == AfterObservation(domains[d], Outcome, RestoredVtick(domains[d], Event))
        <4>1. after.gov = Outcome.gov
          BY DEF AfterObservation
        <4> HIDE DEF after
        <4>2. d \in Domains
          BY <1>2 DEF d
        <4> QED
          BY <1>6, <3>1, <4>1, <4>2 DEF after
      <3>6. \A c \in Domains: c /= d => domains'[c] = domains[c] /\ replayed'[c] = replayed[c]
        BY <1>6, <3>1
      <3>7. ReplayTo(mem, d, cursor) = Replayed(run, Event, cursor)
        BY <1>2, <1>4, <1>5, <3>1 DEF run, d
      <3>8. \A c \in Domains: c /= d => ReplayTo(mem, c, cursor) = ReplayTo(mem, c, cursor - 1)
        BY <1>4, <1>5
      <3>9. HasInput(mem, d, cursor)
        BY <1>2, <1>5, <3>1 DEF d
      <3>10. Sound(Event)
        BY <3>1 DEF Sound
      <3>11. ASSUME NEW c \in Domains
             PROVE  /\ ReplayTo(mem, c, cursor).first = 0
                    /\ domains'[c].gov = ReplayTo(mem, c, cursor).gov
                    /\ replayed'[c] = ReplayTo(mem, c, cursor).version
                    /\ ~HasInput(mem, c, cursor) => replayed'[c] = replayed[c]
        <4>1. CASE c = d
          BY <3>4, <3>5, <3>7, <3>9, <4>1
        <4>2. CASE c /= d
          BY <1>3, <3>6, <3>8, <4>2
        <4> QED
          BY <4>1, <4>2
      <3> QED
        BY <3>10, <3>11
    <2>2. CASE PassOverEvent
      <3>1. /\ Event.policy = "none" /\ Event.transitions = {}
            /\ domains' = domains /\ replayed' = replayed
        BY <2>2 DEF PassOverEvent, memory
      <3>2. \A c \in Domains: ReplayTo(mem, c, cursor) = ReplayTo(mem, c, cursor - 1)
        BY <1>4, <1>5, <3>1
      <3>3. Sound(Event)
        BY <3>1 DEF Sound
      <3> QED
        BY <1>3, <3>1, <3>2, <3>3
    <2> QED
      BY <2>1, <2>2
  <1>8. \A k \in 1..cursor: k \in 1..(cursor - 1) \/ k = cursor
    BY <1>2
  <1>9. \A k \in 1..cursor: Sound(mem.events[k])
    BY <1>2, <1>3, <1>7, <1>8
  <1>10. ASSUME NEW c \in Domains, \A k \in 1..cursor: ~HasInput(mem, c, k)
         PROVE  replayed'[c] = 0
    <2>1. cursor \in 1..cursor /\ \A k \in 1..(cursor - 1): k \in 1..cursor
      BY <1>2
    <2> QED
      BY <1>3, <1>7, <1>10, <2>1
  <1>11. /\ ReproducedTo(mem', cursor' - 1)
         /\ \A c \in Domains:
              /\ domains'[c].gov = ReplayTo(mem', c, cursor' - 1).gov
              /\ replayed'[c] = ReplayTo(mem', c, cursor' - 1).version
              /\ (\A k \in 1..(cursor' - 1): ~HasInput(mem', c, k)) => replayed'[c] = 0
    <2>1. ReproducedTo(mem, cursor)
      BY <1>7, <1>9 DEF ReproducedTo
    <2>2. mem' = mem /\ cursor' - 1 = cursor
      BY <1>1, <1>2
    <2> QED
      BY <1>7, <1>10, <2>1, <2>2
  <1>12. status' = "recovering" /\ disk' = disk
    BY <1>1
  <1> QED
    BY <1>11, <1>12 DEF ReplayInv, Damaged

(* A reproduced file is not refused, and its recovery ends in the versions  *)
(* it has stored.                                                           *)
LEMMA RecoveryAgrees ==
    ASSUME TypeOK, ProcessInv, RestartInv, ReplayInv, status = "recovering", Reproduced(disk)
    PROVE  /\ ~RefuseEvent
           /\ EventsReplayed => \A d \in Domains: replayed[d] = CurrentStateVersion(mem, d)
  <1>1. mem = disk /\ mem \in Store /\ Len(mem.events) \in Nat
    BY DEF ProcessInv, TypeOK, Store
  <1>2. ASSUME RefuseEvent
        PROVE  FALSE
    <2> DEFINE d == Event.domain
               run == ReplayTo(mem, d, cursor - 1)
    <2>1. Recovering
      BY <1>2 DEF RefuseEvent
    <2>2. /\ cursor \in 1..Len(mem.events) /\ Event = mem.events[cursor]
          /\ d \in Domains /\ cursor - 1 \in 0..Len(mem.events) /\ cursor # 0
          /\ cursor \in 0..Len(mem.events)
      BY <1>1, <2>1, EventType
    <2>3. Sound(Event)
      BY <1>1, <2>2 DEF Reproduced, ReproducedTo
    <2>4. Replayable /\ ~Agrees(Event, Outcome.admission, Version)
      BY <1>2, <2>3 DEF RefuseEvent, Sound
    <2>5. ReplayTo(mem, d, Len(mem.events)).first = 0 /\ Len(mem.events) \in 0..Len(mem.events)
      BY <1>1, <2>2 DEF Reproduced, ReproducedTo
    <2>6. run.first = 0 /\ ReplayTo(mem, d, cursor).first = 0
      BY <1>1, <2>2, <2>5, FirstStays
    <2>7. HasInput(mem, d, cursor)
      BY <2>2, <2>4 DEF HasInput, EventsForDomain, Replayable
    <2>8. ReplayTo(mem, d, cursor) = Replayed(run, Event, cursor)
      BY <1>1, <2>2, <2>7, ReplaySteps
    <2>9. run.gov = domains[d].gov /\ run.version = replayed[d]
      BY <2>2 DEF ReplayInv
    <2>10. /\ Outcome = ObserveJudgment(run.gov, Event.judgment, Event.context)
           /\ Version = VersionAfter(run.version, Outcome.admission)
      BY <2>9 DEF Outcome, Version
    <2> HIDE DEF run, d
    <2>11. Agrees(Event, Outcome.admission, Version)
      BY <2>2, <2>6, <2>8, <2>10, ReplayedDiverging
    <2> QED
      BY <2>4, <2>11
  <1>3. ASSUME EventsReplayed, NEW d \in Domains
        PROVE  replayed[d] = CurrentStateVersion(mem, d)
    <2>1. cursor - 1 = Len(mem.events)
      BY <1>1, <1>3 DEF EventsReplayed, RestartInv, TypeOK
    <2> QED
      BY <1>1, <2>1 DEF ReplayInv, Reproduced
  <1> QED
    BY <1>2, <1>3

(* A recovery that serves has reproduced its file.                          *)
LEMMA ServingReproduces ==
    ASSUME TypeOK, ProcessInv, RestartInv, ReplayInv, \A file \in InitialFiles: Accounted(file),
           FinishRecovery, status' = "serving"
    PROVE  ReplayInv'
  <1>1. /\ status = "recovering" /\ EventsReplayed /\ VersionsAgree
        /\ domains' = domains /\ mem' = mem /\ disk' = disk
    BY DEF FinishRecovery, memory
  <1>2. mem = disk /\ Len(mem.events) \in Nat
    BY <1>1 DEF ProcessInv, TypeOK, Store
  <1>3. cursor - 1 = Len(mem.events)
    BY <1>1, <1>2 DEF EventsReplayed, RestartInv, TypeOK
  <1>4. /\ ReproducedTo(mem, Len(mem.events))
        /\ \A d \in Domains:
             /\ domains[d].gov = ReplayTo(mem, d, Len(mem.events)).gov
             /\ replayed[d] = ReplayTo(mem, d, Len(mem.events)).version
             /\ (\A k \in 1..Len(mem.events): ~HasInput(mem, d, k)) => replayed[d] = 0
    BY <1>1, <1>3 DEF ReplayInv
  <1>5. ASSUME NEW d \in Domains
        PROVE  replayed[d] = CurrentStateVersion(mem, d)
    <2>1. CASE Reproduced(disk)
      BY <1>1, <2>1, RecoveryAgrees
    <2>2. CASE \E k \in 1..Len(mem.events): HasInput(mem, d, k)
      <3>1. PICK k \in 1..Len(mem.events): HasInput(mem, d, k)
        BY <2>2
      <3>2. mem.events[k].domain = d /\ mem.events[k].policy # "none"
        BY <3>1 DEF HasInput, EventsForDomain
      <3> QED
        BY <1>1, <3>2 DEF VersionsAgree
    <2>3. CASE Damaged /\ ~\E k \in 1..Len(mem.events): HasInput(mem, d, k)
      <3>1. Accounted(mem)
        BY <1>2, <2>3 DEF Damaged
      <3>2. CurrentStateVersion(mem, d) = 0
        BY <2>3, <3>1 DEF Accounted
      <3> QED
        BY <1>4, <2>3, <3>2
    <2> QED
      BY <2>1, <2>2, <2>3 DEF ReplayInv
  <1>6. Reproduced(mem)
    BY <1>4, <1>5 DEF Reproduced
  <1> QED
    BY <1>1, <1>2, <1>4, <1>6 DEF ReplayInv

LEMMA ReplayStep ==
    ASSUME TypeOK, TypeOK', ProcessInv, RestartInv, ReplayInv, [Next]_vars,
           \A file \in InitialFiles: Accounted(file)
    PROVE  ReplayInv'
  <1>1. ASSUME Request
        PROVE  ReplayInv'
    <2>1. Ready /\ UNCHANGED <<status, disk>>
      BY <1>1, RequestGrows
    <2>2. /\ status = "serving" /\ Reproduced(mem) /\ Reproduced(disk)
          /\ \A d \in Domains: domains[d].gov = ReplayTo(mem, d, Len(mem.events)).gov
      BY <2>1 DEF Ready, ReplayInv
    <2>3. ASSUME mem'.events = mem.events, mem'.versions = mem.versions, domains' = domains
          PROVE  ReplayInv'
      <3>1. /\ Reproduced(mem')
            /\ \A d: ReplayTo(mem', d, Len(mem'.events)) = ReplayTo(mem, d, Len(mem.events))
        BY <2>2, <2>3, ReproducedAlike DEF TypeOK
      <3> QED
        BY <2>1, <2>2, <2>3, <3>1 DEF ReplayInv
    <2>4. ASSUME NEW d \in Domains, NEW judgment \in Judgments, Observe(d, judgment)
          PROVE  ReplayInv'
      <3>1. /\ Reproduced(mem')
            /\ \A other \in Domains:
                 domains'[other].gov = ReplayTo(mem', other, Len(mem'.events)).gov
        BY <2>2, <2>4, ObserveReproduces
      <3> QED
        BY <2>1, <2>2, <3>1 DEF ReplayInv
    <2>5. ASSUME NEW d \in Domains, NEW action \in Actions, Decide(d, action)
          PROVE  ReplayInv'
      BY <2>3, <2>5, DecideGrows, DecideSteps
    <2>6. ASSUME NEW id, NEW kind \in OutcomeKinds, RecordOutcomeOf(id, kind)
          PROVE  ReplayInv'
      BY <2>3, <2>6, OutcomeGrows, OutcomeSteps
    <2> QED
      BY <1>1, <2>4, <2>5, <2>6 DEF Request
  <1>2. ASSUME Finish
        PROVE  ReplayInv'
    <2>1. status = "serving"
      <3>1. call.stage \in {"persist", "respond"}
        BY <1>2 DEF Finish, PersistOk, PersistFail, Respond
      <3> QED
        BY <3>1 DEF ProcessInv, TypeOK, Idle
    <2>2. /\ UNCHANGED <<status, domains, mem>>
          /\ disk' = disk \/ disk' = mem
      BY <1>2 DEF Finish, PersistOk, PersistFail, Respond, memory
    <2> QED
      BY <2>1, <2>2 DEF ReplayInv
  <1>3. ASSUME Crash
        PROVE  ReplayInv'
    BY <1>3 DEF Crash, ReplayInv, Damaged
  <1>4. ASSUME Open
        PROVE  ReplayInv'
    <2>1. /\ status' = "recovering" /\ mem' = disk /\ disk' = disk /\ cursor' - 1 = 0
          /\ domains' = [d \in Domains |-> NewDomain]
          /\ replayed' = [d \in Domains |-> 0]
      BY <1>4 DEF Open, ProcessInv, AllNew, recovery
    <2>2. Len(disk.events) \in Nat
      BY DEF TypeOK, Store
    <2>3. \A d: ReplayTo(disk, d, 0) = [gov |-> NewGovernance, version |-> 0, first |-> 0]
      BY <2>2, ReplaySteps
    <2>4. NewDomain.gov = NewGovernance
      BY DEF NewDomain
    <2>5. ReproducedTo(mem', cursor' - 1)
      BY <2>1, <2>3 DEF ReproducedTo
    <2> QED
      BY <2>1, <2>3, <2>4, <2>5 DEF ReplayInv, Damaged
  <1>5. ASSUME RecoverEvent \/ PassOverEvent
        PROVE  ReplayInv'
    BY <1>5, RecoverReproduces
  <1>6. ASSUME RefuseEvent
        PROVE  ReplayInv'
    <2>1. status = "recovering" /\ status' = "refused" /\ disk' = disk
      BY <1>6 DEF RefuseEvent, Recovering
    <2>2. Damaged
      BY <1>6, <2>1, RecoveryAgrees DEF ReplayInv
    <2> QED
      BY <2>1, <2>2 DEF ReplayInv, Damaged
  <1>7. ASSUME PanicOnEvent
        PROVE  ReplayInv'
    BY <1>7 DEF PanicOnEvent, ReplayInv, Damaged
  <1>8. ASSUME FinishRecovery
        PROVE  ReplayInv'
    <2>1. CASE status' = "serving"
      BY <1>8, <2>1, ServingReproduces
    <2>2. CASE status' # "serving"
      <3>1. /\ status = "recovering" /\ status' = "refused" /\ disk' = disk
            /\ EventsReplayed /\ ~VersionsAgree
        BY <1>8, <2>2 DEF FinishRecovery
      <3>2. mem \in Store
        BY DEF TypeOK
      <3>3. \A i \in 1..Len(mem.events): mem.events[i].domain \in Domains
        <4>1. mem.events \in Seq(StoredEvent)
          BY <3>2, StoreLogs
        <4>2. \A e \in StoredEvent: e.domain \in Domains
          BY DEF StoredEvent
        <4> QED
          BY <4>1, <4>2
      <3>4. Damaged
        BY <3>1, <3>3, RecoveryAgrees DEF VersionsAgree, ReplayInv
      <3> QED
        BY <3>1, <3>4 DEF ReplayInv, Damaged
    <2> QED
      BY <2>1, <2>2
  <1>9. ASSUME UNCHANGED vars
        PROVE  ReplayInv'
    BY <1>9 DEF vars, memory, recovery, ReplayInv, Damaged
  <1> QED
    BY <1>1, <1>2, <1>3, <1>4, <1>5, <1>6, <1>7, <1>8, <1>9 DEF Next, Recover

LEMMA ReplayInit ==
    ASSUME Init
    PROVE  ReplayInv
  <1>1. /\ EmptyStore.events = <<>> /\ Len(EmptyStore.events) = 0
        /\ \A d \in Domains: CurrentStateVersion(EmptyStore, d) = 0
    BY DEF EmptyStore, CurrentStateVersion
  <1>2. \A d: ReplayTo(EmptyStore, d, 0) = [gov |-> NewGovernance, version |-> 0, first |-> 0]
    BY <1>1, ReplaySteps
  <1>3. Reproduced(EmptyStore)
    BY <1>1, <1>2 DEF Reproduced, ReproducedTo
  <1> QED
    BY <1>3 DEF Init, ReplayInv, Damaged

(* A server replays its own log to the versions, the supervision and the    *)
(* admissions it recorded, provided no file it starts from has a version    *)
(* that no event accounts for: such a file is served, and the first event   *)
(* of that domain makes it one that the next start refuses.                 *)
THEOREM ReplayInvariance ==
    ASSUME \A file \in InitialFiles: Accounted(file)
    PROVE  Spec => []ReplayInv
  <1>1. IInv /\ RestartInv /\ ReplayInv /\ [Next]_vars => ReplayInv'
    BY ReplayStep, TypeStep DEF IInv
  <1>2. Init => ReplayInv
    BY ReplayInit
  <1> QED
    BY <1>1, <1>2, Invariance, RestartInvariance, PTL DEF Spec

LEMMA ReproducedMatches ==
    ASSUME NEW store, Reproduced(store), NEW d \in Domains
    PROVE  Replay(store, d).match
  BY DEF Replay, Reproduced, ReproducedTo

(* r2r_replay agrees with what the server recorded, even while a request is *)
(* half done and after the store has failed, if no initial file has a       *)
(* version that no event accounts for.                                      *)
THEOREM ReplayHolds ==
    ASSUME \A file \in InitialFiles: Accounted(file)
    PROVE  Spec => []ReplayMatches
  <1>1. ReplayInv => ReplayMatches
    BY ReproducedMatches DEF ReplayInv, ReplayMatches
  <1> QED
    BY <1>1, ReplayInvariance, PTL

(* Only a file that replay reproduces is served, and no served event makes  *)
(* a later replay panic, under the same hypothesis.                         *)
THEOREM ServedHolds ==
    ASSUME \A file \in InitialFiles: Accounted(file)
    PROVE  Spec => []ServedLogsReplay
  <1>1. ASSUME ReplayInv
        PROVE  ServedLogsReplay
    <2>1. SUFFICES ASSUME status = "serving"
                   PROVE  /\ \A i \in 1..Len(disk.events):
                               disk.events[i].policy = "current" => ~Panics(disk.events[i])
                          /\ \A d \in Domains: Replay(disk, d).match
      BY DEF ServedLogsReplay
    <2>2. Reproduced(disk)
      BY <1>1, <2>1 DEF ReplayInv
    <2>3. \A i \in 1..Len(disk.events): Sound(disk.events[i])
      BY <2>2 DEF Reproduced, ReproducedTo
    <2> QED
      BY <2>2, <2>3, ReproducedMatches DEF Sound
  <1> QED
    BY <1>1, ReplayInvariance, PTL

(* A file this server has written is never refused by its own recovery,     *)
(* under the same hypothesis.                                               *)
THEOREM OwnFileHolds ==
    ASSUME \A file \in InitialFiles: Accounted(file)
    PROVE  Spec => []OwnFileRecovers
  <1>1. ReplayInv => OwnFileRecovers
    BY DEF ReplayInv, OwnFileRecovers, Damaged
  <1> QED
    BY <1>1, ReplayInvariance, PTL
-----------------------------------------------------------------------------
(***************************************************************************)
(* What the logs say.  One accepted suspension decides everything a domain *)
(* can answer: its version, its verdicts and what explains them follow from *)
(* where that event stands in the log.  RecordsInv says so of the file, of *)
(* the memory, and of the projections a recovery is replaying.             *)
(***************************************************************************)
(* A domain is suspended by one event of its log, the first that was        *)
(* accepted; its version and its answers follow from where that event is.   *)
SuspendedBy(log, d, n) == \E k \in 1..n: log[k].domain = d /\ Suspends(log[k])
VersionBy(log, d, n) == IF SuspendedBy(log, d, n) THEN 1 ELSE 0

EventRecorded(log, k) ==
    /\ log[k].id = k
    /\ log[k].version = VersionBy(log, log[k].domain, k)
    /\ log[k].transitions /= {} => /\ Suspends(log[k])
                                   /\ ~SuspendedBy(log, log[k].domain, k - 1)
    /\ \A t, u \in log[k].transitions: t.relation = u.relation => t.id = u.id

(* Which change governs a suspended domain. *)
GovernedBy(log, d, n, governing) ==
    \E k \in 1..n: /\ log[k].domain = d /\ Suspends(log[k])
                   /\ \E t \in log[k].transitions: t.relation = "authorization" /\ t.id = governing

(* What a decision says was so at some place of the log. *)
DecidedAt(log, decision, n) ==
    LET d == decision.domain
    IN  /\ decision.chain = {k \in 1..n: log[k].domain = d}
        /\ decision.version = VersionBy(log, d, n)
        /\ decision.verdict = IF SuspendedBy(log, d, n) THEN "DENY" ELSE "ALLOW"
        /\ SuspendedBy(log, d, n) => GovernedBy(log, d, n, decision.governing)

(* The logs as this server keeps them.                                      *)
Recorded(store) ==
    /\ store.issued.event = Len(store.events)
    /\ store.issued.decision = Len(store.decisions)
    /\ \A d \in Domains:
         CurrentStateVersion(store, d) = VersionBy(store.events, d, Len(store.events))
    /\ \A k \in 1..Len(store.events): EventRecorded(store.events, k)
    /\ \A i \in 1..Len(store.decisions):
         /\ store.decisions[i].id = i
         /\ \E n \in 0..Len(store.events): DecidedAt(store.events, store.decisions[i], n)

(* What a kernel and its projection know of the first n events. *)
Kept(log, runtime, d, n) ==
    /\ runtime.gov.authorization = "Suspended" <=> SuspendedBy(log, d, n)
    /\ runtime.gov.authorization = "Suspended" =>
         Protective(runtime.gov) /\ GovernedBy(log, d, n, runtime.governing)

RecordsInv ==
    /\ Recorded(disk)
    /\ status = "serving" =>
         Recorded(mem) /\ \A d \in Domains: Kept(mem.events, domains[d], d, Len(mem.events))
    /\ status = "recovering" => \A d \in Domains: Kept(mem.events, domains[d], d, cursor - 1)

(* What one judgment changes: everything at once, and only once.            *)
LEMMA ObservationLogged ==
    ASSUME NEW g \in GovernanceState, NEW context \in AdmissionContext,
           NEW judgment \in [beyond: 0..PPM, destructive: 0..PPM],
           g.authorization = "Suspended" => Protective(g)
    PROVE  LET o == ObserveJudgment(g, judgment, context)
               changes == o.admission.changes
           IN  /\ o.gov.authorization = "Suspended" => Protective(o.gov)
               /\ changes /= {} => /\ g.authorization /= "Suspended"
                                   /\ o.gov.authorization = "Suspended"
                                   /\ \E c \in changes: /\ c.relation = "authorization"
                                                        /\ c.to = "Suspended"
               /\ changes = {} => o.gov.authorization = g.authorization
               /\ \A c, e \in changes: c.relation = e.relation => c = e
               /\ changes /= {} <=> g.authorization /= "Suspended" /\ EntryAccepts(o.admission)
  <1> DEFINE o == ObserveJudgment(g, judgment, context)
  <1>1. /\ o.gov.authorization = IF EntryAccepts(o.admission) THEN "Suspended" ELSE g.authorization
        /\ g.trust = "Warning" => o.gov.trust = "Warning"
        /\ g.delegation = "Degraded" => o.gov.delegation = "Degraded"
    BY ObserveEffect
  <1>2. /\ Numbered(o.admission.changes, g, o.gov)
        /\ Governs(o.admission.changes, g, o.gov)
        /\ EntryAccepts(o.admission) => Protective(o.gov)
        /\ ~EntryAccepts(o.admission) => o.admission.changes = {}
        /\ EntryAccepts(o.admission) => (o.admission.changes = {} <=> Protective(g))
    BY ObserveFate
  <1> HIDE DEF o
  <1>3. \A c, e \in o.admission.changes: c.relation = e.relation => c = e
    BY <1>2 DEF Numbered
  <1>4. CASE EntryAccepts(o.admission) /\ g.authorization /= "Suspended"
    <2>1. ~Protective(g) /\ o.gov.authorization = "Suspended" /\ Protective(o.gov)
      BY <1>1, <1>2, <1>4 DEF Protective
    <2>2. \E c \in o.admission.changes: c.relation = "authorization" /\ c.to = "Suspended"
      BY <1>2, <1>4, <2>1 DEF Governs
    <2> QED
      BY <1>2, <1>3, <1>4, <2>1, <2>2 DEF o
  <1>5. CASE EntryAccepts(o.admission) /\ g.authorization = "Suspended"
    BY <1>1, <1>2, <1>3, <1>5 DEF o
  <1>6. CASE ~EntryAccepts(o.admission)
    <2>1. o.gov.authorization = "Suspended" => Protective(o.gov)
      BY <1>1, <1>6 DEF Protective
    <2> QED
      BY <1>1, <1>2, <1>3, <1>6, <2>1 DEF o
  <1> QED
    BY <1>4, <1>5, <1>6

(* One event more, and the events before it. *)
LEMMA SuspendedNext ==
    ASSUME NEW log, NEW n \in Nat, NEW d
    PROVE  /\ ~SuspendedBy(log, d, 0)
           /\ SuspendedBy(log, d, n + 1) <=>
                SuspendedBy(log, d, n) \/ (log[n + 1].domain = d /\ Suspends(log[n + 1]))
           /\ \A governing: GovernedBy(log, d, n, governing) => GovernedBy(log, d, n + 1, governing)
           /\ \A m \in Nat: n <= m /\ SuspendedBy(log, d, n) => SuspendedBy(log, d, m)
  <1>1. 1..0 = {} /\ \A k \in 1..(n + 1): k \in 1..n \/ k = n + 1
    OBVIOUS
  <1>2. n + 1 \in 1..(n + 1) /\ \A k \in 1..n: k \in 1..(n + 1)
    OBVIOUS
  <1>3. \A m \in Nat: n <= m => \A k \in 1..n: k \in 1..m
    OBVIOUS
  <1>4. SuspendedBy(log, d, n + 1) =>
          SuspendedBy(log, d, n) \/ (log[n + 1].domain = d /\ Suspends(log[n + 1]))
    BY <1>1, Zenon DEF SuspendedBy
  <1>5. SuspendedBy(log, d, n) \/ (log[n + 1].domain = d /\ Suspends(log[n + 1]))
          => SuspendedBy(log, d, n + 1)
    BY <1>2, Zenon DEF SuspendedBy
  <1>6. \A governing: GovernedBy(log, d, n, governing) => GovernedBy(log, d, n + 1, governing)
    BY <1>2, Zenon DEF GovernedBy
  <1>7. \A m \in Nat: n <= m /\ SuspendedBy(log, d, n) => SuspendedBy(log, d, m)
    BY <1>3, Zenon DEF SuspendedBy
  <1>8. ~SuspendedBy(log, d, 0)
    BY <1>1, Zenon DEF SuspendedBy
  <1> QED
    BY <1>4, <1>5, <1>6, <1>7, <1>8

LEMMA PrefixSaysTheSame ==
    ASSUME NEW log, NEW longer, Len(log) \in Nat, Extends(log, longer), NEW n \in 0..Len(log), NEW d
    PROVE  /\ SuspendedBy(longer, d, n) <=> SuspendedBy(log, d, n)
           /\ \A governing: GovernedBy(longer, d, n, governing) <=> GovernedBy(log, d, n, governing)
           /\ {k \in 1..n: longer[k].domain = d} = {k \in 1..n: log[k].domain = d}
  <1>1. \A k \in 1..n: longer[k] = log[k]
    BY DEF Extends
  <1>2. SuspendedBy(longer, d, n) <=> SuspendedBy(log, d, n)
    BY <1>1, Zenon DEF SuspendedBy
  <1>3. ASSUME NEW governing
        PROVE  GovernedBy(longer, d, n, governing) <=> GovernedBy(log, d, n, governing)
    BY <1>1, Zenon DEF GovernedBy
  <1> QED
    BY <1>1, <1>2, <1>3

(* A kernel that takes in an event keeps up with the log. *)
LEMMA KernelKeepsUp ==
    ASSUME NEW log, NEW n \in Nat, NEW runtime, NEW d, NEW o, NEW vtick, NEW after,
           after = AfterObservation(runtime, o, vtick),
           Kept(log, runtime, d, n),
           log[n + 1].domain = d, log[n + 1].transitions = Transitions(o.admission),
           o.gov.authorization = "Suspended" => Protective(o.gov),
           o.admission.changes /= {} =>
             /\ runtime.gov.authorization /= "Suspended"
             /\ o.gov.authorization = "Suspended"
             /\ \E c \in o.admission.changes: c.relation = "authorization" /\ c.to = "Suspended",
           o.admission.changes = {} => o.gov.authorization = runtime.gov.authorization
    PROVE  /\ Kept(log, after, d, n + 1)
           /\ log[n + 1].transitions = {} <=> o.admission.changes = {}
           /\ log[n + 1].transitions /= {} => /\ Suspends(log[n + 1])
                                              /\ ~SuspendedBy(log, d, n)
           /\ log[n + 1].transitions = {} => ~Suspends(log[n + 1])
  <1> DEFINE e == log[n + 1]
             changes == o.admission.changes
  <1>1. e.transitions = {RenderRelationChange(c) : c \in changes}
    BY DEF Transitions
  <1>2. e.transitions = {} <=> changes = {}
    BY <1>1
  <1>3. e.transitions = {} => ~Suspends(e)
    BY DEF Suspends
  <1>4. ASSUME NEW c \in changes
        PROVE  /\ RenderRelationChange(c) \in e.transitions
               /\ RenderRelationChange(c).relation = c.relation
               /\ RenderRelationChange(c).id = c.id
               /\ RenderRelationChange(c).to = c.to
    BY <1>1 DEF RenderRelationChange
  <1>5. after.gov = o.gov
        /\ after.governing = IF \E c \in changes: c.relation = "authorization"
                             THEN (CHOOSE c \in changes: c.relation = "authorization").id
                             ELSE runtime.governing
    BY DEF AfterObservation
  <1> HIDE DEF e, changes
  <1>6. SuspendedBy(log, d, n + 1) <=> SuspendedBy(log, d, n) \/ Suspends(e)
    BY SuspendedNext DEF e
  <1>7. CASE changes = {}
    <2>1. after.governing = runtime.governing /\ after.gov.authorization = runtime.gov.authorization
      BY <1>5, <1>7 DEF changes
    <2>2. ~Suspends(e)
      BY <1>2, <1>3, <1>7
    <2>3. Kept(log, after, d, n + 1)
      BY <1>5, <1>6, <2>1, <2>2, SuspendedNext DEF Kept
    <2> QED
      BY <1>2, <1>3, <1>7, <2>3 DEF e, changes
  <1>8. CASE changes /= {}
    <2>1. ~SuspendedBy(log, d, n)
      BY <1>8 DEF Kept, changes
    <2>2. PICK c \in changes: c.relation = "authorization" /\ c.to = "Suspended"
      BY <1>8 DEF changes
    <2>3. Suspends(e)
      BY <1>4, <2>2 DEF Suspends
    <2> DEFINE f == CHOOSE f \in changes: f.relation = "authorization"
    <2>4. f \in changes /\ f.relation = "authorization"
      BY <2>2
    <2>5. after.governing = f.id
      BY <1>5, <2>2, Zenon
    <2> HIDE DEF f
    <2>6. \E t \in e.transitions: t.relation = "authorization" /\ t.id = after.governing
      BY <1>4, <2>4, <2>5
    <2>7. n + 1 \in 1..(n + 1)
      OBVIOUS
    <2>8. GovernedBy(log, d, n + 1, after.governing)
      BY <2>3, <2>6, <2>7, Zenon DEF GovernedBy, e
    <2>9. Kept(log, after, d, n + 1)
      BY <1>5, <1>6, <1>8, <2>3, <2>8, Zenon DEF Kept, changes
    <2> QED
      BY <1>2, <1>3, <1>8, <2>1, <2>3, <2>9 DEF e, changes
  <1> QED
    BY <1>7, <1>8

(* Recording counts. *)
LEMMA RecordingCounts ==
    ASSUME NEW store \in Store
    PROVE  /\ \A e \in StoredEvent:
                /\ RecordEvent(store, e).issued.event = store.issued.event + 1
                /\ RecordEvent(store, e).issued.decision = store.issued.decision
                /\ RecordEvent(store, e).issued.outcome = store.issued.outcome
           /\ \A e \in StoredDecision:
                /\ RecordDecision(store, e).issued.decision = store.issued.decision + 1
                /\ RecordDecision(store, e).issued.event = store.issued.event
                /\ RecordDecision(store, e).issued.outcome = store.issued.outcome
           /\ \A e \in StoredOutcome:
                /\ RecordOutcome(store, e).issued.outcome = store.issued.outcome + 1
                /\ RecordOutcome(store, e).issued.event = store.issued.event
                /\ RecordOutcome(store, e).issued.decision = store.issued.decision
  BY DEF Store, RecordEvent, RecordDecision, RecordOutcome

(* What was recorded of an event or a decision stays true of a longer log.  *)
LEMMA RecordsStay ==
    ASSUME NEW log, NEW longer, Len(log) \in Nat, Extends(log, longer)
    PROVE  /\ \A k \in 1..Len(log): EventRecorded(log, k) => EventRecorded(longer, k)
           /\ \A decision: \A n \in 0..Len(log):
                DecidedAt(log, decision, n) => DecidedAt(longer, decision, n)
  <1>1. ASSUME NEW k \in 1..Len(log), EventRecorded(log, k)
        PROVE  EventRecorded(longer, k)
    <2>1. /\ longer[k] = log[k]
          /\ k \in 0..Len(log) /\ k - 1 \in 0..Len(log)
      BY DEF Extends
    <2>2. \A d: /\ SuspendedBy(longer, d, k) <=> SuspendedBy(log, d, k)
                /\ SuspendedBy(longer, d, k - 1) <=> SuspendedBy(log, d, k - 1)
      BY <2>1, PrefixSaysTheSame
    <2> QED
      BY <1>1, <2>1, <2>2, Zenon DEF EventRecorded, VersionBy
  <1>2. ASSUME NEW decision, NEW n \in 0..Len(log), DecidedAt(log, decision, n)
        PROVE  DecidedAt(longer, decision, n)
    <2> DEFINE d == decision.domain
    <2>1. /\ SuspendedBy(longer, d, n) <=> SuspendedBy(log, d, n)
          /\ \A governing: GovernedBy(longer, d, n, governing) <=> GovernedBy(log, d, n, governing)
          /\ {k \in 1..n: longer[k].domain = d} = {k \in 1..n: log[k].domain = d}
      BY PrefixSaysTheSame
    <2> QED
      BY <1>2, <2>1 DEF DecidedAt, VersionBy
  <1> QED
    BY <1>1, <1>2

LEMMA KeptLater ==
    ASSUME NEW log, NEW longer, Len(log) \in Nat, Extends(log, longer),
           NEW n \in 0..Len(log), NEW d, NEW runtime, Kept(log, runtime, d, n)
    PROVE  Kept(longer, runtime, d, n)
  BY PrefixSaysTheSame DEF Kept

(* An event of another domain changes nothing of this one. *)
LEMMA OthersKept ==
    ASSUME NEW log, NEW n \in Nat, NEW runtime, NEW d, Kept(log, runtime, d, n),
           log[n + 1].domain /= d \/ ~Suspends(log[n + 1])
    PROVE  Kept(log, runtime, d, n + 1)
  BY SuspendedNext DEF Kept

LEMMA ObserveRecords ==
    ASSUME TypeOK, Recorded(mem), NEW d \in Domains, NEW judgment \in Judgments,
           \A c \in Domains: Kept(mem.events, domains[c], c, Len(mem.events)),
           Observe(d, judgment)
    PROVE  /\ Recorded(mem')
           /\ \A c \in Domains: Kept(mem'.events, domains'[c], c, Len(mem'.events))
  <1> DEFINE n == Len(mem.events)
             log == mem'.events
             o == Observed(d, judgment)
             event == EventOf(d, judgment)
             store == StoreBefore(d, judgment)
             changed == o.admission.changes /= {}
  <1>1. /\ domains[d].gov \in GovernanceState
        /\ judgment \in [beyond: 0..PPM, destructive: 0..PPM]
        /\ DemoContext(domains[d].nextVtick) \in AdmissionContext
        /\ event \in StoredEvent /\ store \in Store
    BY ObservedType
  <1>2. mem \in Store /\ mem.events \in Seq(StoredEvent) /\ mem.decisions \in Seq(StoredDecision)
        /\ n \in Nat /\ mem.versions \in [Domains -> Nat]
    BY StoreLogs DEF TypeOK
  <1>3. /\ mem'.events = Append(mem.events, event)
        /\ mem'.decisions = mem.decisions
        /\ mem'.versions = store.versions
        /\ mem' = RecordEvent(store, event)
    BY ObserveGrows, ObserveSteps
  <1>4. /\ Extends(mem.events, log) /\ Len(log) = n + 1 /\ log[n + 1] = event
    BY <1>1, <1>2, <1>3, AppendExtends
  <1>5. /\ event.id = mem.issued.event + 1 /\ event.domain = d
        /\ event.version = store.versions[d]
        /\ event.transitions = Transitions(o.admission)
    BY DEF EventOf, CurrentStateVersion
  <1>6. /\ store.issued = mem.issued
        /\ store.versions = IF changed THEN [mem.versions EXCEPT ![d] = @ + 1] ELSE mem.versions
    BY <1>2, Recording DEF StoreBefore
  <1>7. mem'.issued.event = n + 1 /\ mem'.issued.decision = Len(mem.decisions)
    BY <1>1, <1>3, <1>6, RecordingCounts DEF Recorded
  <1>8. Kept(log, domains[d], d, n)
    <2>1. n \in 0..Len(mem.events)
      BY <1>2
    <2> QED
      BY <1>2, <1>4, <2>1, KeptLater
  <1>9. /\ o.gov.authorization = "Suspended" => Protective(o.gov)
        /\ changed => /\ domains[d].gov.authorization /= "Suspended"
                      /\ o.gov.authorization = "Suspended"
                      /\ \E c \in o.admission.changes: /\ c.relation = "authorization"
                                                       /\ c.to = "Suspended"
        /\ ~changed => o.gov.authorization = domains[d].gov.authorization
        /\ \A c, e \in o.admission.changes: c.relation = e.relation => c = e
    BY <1>1, <1>8, ObservationLogged DEF Observed, Kept
  <1> HIDE DEF o, event, store, n, log
  <1>10. domains' = [domains EXCEPT ![d] =
                       AfterObservation(domains[d], o, domains[d].nextVtick + 1)]
    BY ObserveSteps DEF o
  <1>11. /\ domains'[d] = AfterObservation(domains[d], o, domains[d].nextVtick + 1)
         /\ \A c \in Domains: c /= d => domains'[c] = domains[c]
    BY <1>10 DEF TypeOK
  <1>12. /\ Kept(log, domains'[d], d, n + 1)
         /\ event.transitions = {} <=> ~changed
         /\ event.transitions /= {} => Suspends(event) /\ ~SuspendedBy(log, d, n)
         /\ event.transitions = {} => ~Suspends(event)
    <2>1. n \in Nat
      BY <1>2 DEF n
    <2>2. log[n + 1].domain = d /\ log[n + 1].transitions = Transitions(o.admission)
      BY <1>4, <1>5
    <2>3. /\ o.admission.changes /= {} => /\ domains[d].gov.authorization /= "Suspended"
                                         /\ o.gov.authorization = "Suspended"
                                         /\ \E c \in o.admission.changes:
                                              c.relation = "authorization" /\ c.to = "Suspended"
          /\ o.admission.changes = {} => o.gov.authorization = domains[d].gov.authorization
          /\ o.gov.authorization = "Suspended" => Protective(o.gov)
      BY <1>9
    <2>4. /\ Kept(log, domains'[d], d, n + 1)
          /\ log[n + 1].transitions = {} <=> o.admission.changes = {}
          /\ log[n + 1].transitions /= {} => Suspends(log[n + 1]) /\ ~SuspendedBy(log, d, n)
          /\ log[n + 1].transitions = {} => ~Suspends(log[n + 1])
      BY <1>8, <1>11, <2>1, <2>2, <2>3, KernelKeepsUp
    <2> QED
      BY <1>4, <2>4
  <1>13. ASSUME NEW c \in Domains
         PROVE  Kept(log, domains'[c], c, n + 1)
    <2>1. CASE c = d
      BY <1>12, <2>1
    <2>2. CASE c /= d
      <3>1. n \in 0..Len(mem.events) /\ n \in Nat /\ Len(mem.events) \in Nat
        BY <1>2 DEF n
      <3>2. Kept(log, domains[c], c, n)
        BY <1>4, <3>1, KeptLater DEF n
      <3> QED
        BY <1>4, <1>5, <1>11, <2>2, <3>1, <3>2, OthersKept
    <2> QED
      BY <2>1, <2>2
  <1>14. ASSUME NEW c \in Domains
         PROVE  mem'.versions[c] = VersionBy(log, c, n + 1)
    <2>1. n \in 0..Len(mem.events) /\ n \in Nat /\ Len(mem.events) \in Nat
      BY <1>2 DEF n
    <2>2. mem.versions[c] = VersionBy(log, c, n)
      BY <1>4, <2>1, PrefixSaysTheSame DEF Recorded, CurrentStateVersion, VersionBy, n
    <2>3. SuspendedBy(log, c, n + 1) <=> SuspendedBy(log, c, n) \/ (c = d /\ Suspends(event))
      BY <1>4, <1>5, <2>1, SuspendedNext
    <2>4. CASE c = d
      <3>1. changed => mem'.versions[d] = mem.versions[d] + 1 /\ Suspends(event) /\ ~SuspendedBy(log, d, n)
        BY <1>2, <1>3, <1>6, <1>12
      <3>2. ~changed => mem'.versions[d] = mem.versions[d] /\ ~Suspends(event)
        BY <1>3, <1>6, <1>12
      <3> QED
        BY <2>2, <2>3, <2>4, <3>1, <3>2 DEF VersionBy
    <2>5. CASE c /= d
      <3>1. mem'.versions[c] = mem.versions[c]
        BY <1>2, <1>3, <1>6, <2>5
      <3> QED
        BY <2>2, <2>3, <2>5, <3>1 DEF VersionBy
    <2> QED
      BY <2>4, <2>5
  <1>15. EventRecorded(log, n + 1)
    <2>1. \A t, u \in event.transitions: t.relation = u.relation => t.id = u.id
      <3>1. \A t \in event.transitions: \E c \in o.admission.changes:
              t.relation = c.relation /\ t.id = c.id
        BY <1>5 DEF Transitions, RenderRelationChange
      <3> QED
        BY <1>9, <3>1
    <2>2. event.id = n + 1 /\ n + 1 - 1 = n
      BY <1>2, <1>5 DEF Recorded, n
    <2>3. event.version = VersionBy(log, d, n + 1)
      BY <1>3, <1>5, <1>14
    <2>4. log[n + 1] = event /\ event.domain = d
      BY <1>4, <1>5
    <2> DEFINE k == n + 1
    <2>5. k - 1 = n
      BY <1>2 DEF n
    <2> HIDE DEF k
    <2>6. /\ log[k].id = k
          /\ log[k].version = VersionBy(log, log[k].domain, k)
          /\ log[k].transitions /= {} => /\ Suspends(log[k])
                                         /\ ~SuspendedBy(log, log[k].domain, k - 1)
          /\ \A t, u \in log[k].transitions: t.relation = u.relation => t.id = u.id
      BY <1>12, <2>1, <2>2, <2>3, <2>4, <2>5 DEF k
    <2> QED
      BY <2>6, Zenon DEF EventRecorded, k
  <1>16. \A k \in 1..(n + 1): EventRecorded(log, k)
    <2>1. Len(mem.events) \in Nat /\ \A k \in 1..(n + 1): k \in 1..n \/ k = n + 1
      BY <1>2 DEF n
    <2>2. \A k \in 1..n: EventRecorded(log, k)
      BY <1>4, <2>1, RecordsStay DEF Recorded, n
    <2> QED
      BY <1>15, <2>1, <2>2
  <1>17. ASSUME NEW i \in 1..Len(mem.decisions)
         PROVE  mem.decisions[i].id = i /\ \E m \in 0..(n + 1): DecidedAt(log, mem.decisions[i], m)
    <2>1. PICK m \in 0..n: DecidedAt(mem.events, mem.decisions[i], m)
      BY DEF Recorded, n
    <2>2. m \in 0..(n + 1) /\ Len(mem.events) \in Nat
      BY <1>2
    <2>3. \A decision: \A k \in 0..n: DecidedAt(mem.events, decision, k) => DecidedAt(log, decision, k)
      BY <1>4, <2>2, RecordsStay DEF n
    <2>4. DecidedAt(log, mem.decisions[i], m)
      BY <2>1, <2>3, Zenon
    <2> QED
      BY <2>2, <2>4 DEF Recorded
  <1>18. Recorded(mem')
    BY <1>3, <1>4, <1>7, <1>14, <1>16, <1>17 DEF Recorded, log, CurrentStateVersion
  <1> QED
    BY <1>4, <1>13, <1>18 DEF log

LEMMA DecideRecords ==
    ASSUME TypeOK, SuspensionKept, Recorded(mem), NEW d \in Domains, NEW action \in Actions,
           \A c \in Domains: Kept(mem.events, domains[c], c, Len(mem.events)),
           Decide(d, action)
    PROVE  /\ Recorded(mem')
           /\ DecidedAt(mem.events, IssuedDecision(d, action), Len(mem.events))
  <1> DEFINE n == Len(mem.events)
             decision == IssuedDecision(d, action)
  <1>1. /\ mem \in Store /\ mem.decisions \in Seq(StoredDecision) /\ n \in Nat
        /\ mem.events \in Seq(StoredEvent) /\ decision \in StoredDecision
        /\ domains[d].gov.authorization \in {"Active", "Suspended"}
    BY StoreLogs, DecisionOfType DEF TypeOK, DomainRuntime, GovernanceState, AuthorizationPhase
  <1>2. /\ mem'.decisions = Append(mem.decisions, decision)
        /\ mem'.events = mem.events /\ mem'.versions = mem.versions
        /\ mem' = RecordDecision(mem, decision)
    BY DecideGrows, DecideSteps
  <1>3. /\ decision.id = mem.issued.decision + 1 /\ decision.domain = d
        /\ decision.verdict = domains[d].projected
        /\ decision.governing = domains[d].governing
        /\ decision.version = CurrentStateVersion(mem, d)
        /\ decision.chain = {mem.events[k].id : k \in EventsForDomain(mem, d)}
    BY DEF IssuedDecision
  <1>4. decision.chain = {k \in 1..n: mem.events[k].domain = d}
    <2>1. \A k \in 1..n: mem.events[k].id = k
      BY DEF Recorded, EventRecorded
    <2>2. EventsForDomain(mem, d) = {k \in 1..n: mem.events[k].domain = d}
      BY DEF EventsForDomain
    <2> QED
      BY <1>3, <2>1, <2>2
  <1> HIDE DEF n, decision
  <1>5. decision.version = VersionBy(mem.events, d, n)
    BY <1>3 DEF Recorded, n
  <1>6. decision.verdict = IF SuspendedBy(mem.events, d, n) THEN "DENY" ELSE "ALLOW"
    <2>1. decision.verdict = Verdict(domains[d].gov)
      BY <1>3 DEF SuspensionKept
    <2>2. domains[d].gov.authorization = "Suspended" <=> SuspendedBy(mem.events, d, n)
      BY DEF Kept, n
    <2> QED
      BY <1>1, <2>1, <2>2 DEF Verdict
  <1>7. SuspendedBy(mem.events, d, n) => GovernedBy(mem.events, d, n, decision.governing)
    BY <1>3 DEF Kept, n
  <1>8. DecidedAt(mem.events, decision, n)
    BY <1>3, <1>4, <1>5, <1>6, <1>7, Zenon DEF DecidedAt
  <1>9. /\ mem'.issued.decision = Len(mem.decisions) + 1 /\ mem'.issued.event = mem.issued.event
        /\ Len(mem.decisions) \in Nat
    BY <1>1, <1>2, RecordingCounts DEF Recorded
  <1>10. /\ Len(mem'.decisions) = Len(mem.decisions) + 1
         /\ mem'.decisions[Len(mem.decisions) + 1] = decision
         /\ \A i \in 1..Len(mem.decisions): mem'.decisions[i] = mem.decisions[i]
    BY <1>1, <1>2
  <1>11. ASSUME NEW i \in 1..Len(mem'.decisions)
         PROVE  /\ mem'.decisions[i].id = i
                /\ \E m \in 0..n: DecidedAt(mem.events, mem'.decisions[i], m)
    <2>1. CASE i \in 1..Len(mem.decisions)
      BY <1>10, <2>1 DEF Recorded, n
    <2>2. CASE i = Len(mem.decisions) + 1
      <3>1. mem'.decisions[i] = decision /\ n \in 0..n
        BY <1>1, <1>10, <2>2
      <3>2. decision.id = i
        BY <1>3, <2>2 DEF Recorded
      <3> QED
        BY <1>8, <3>1, <3>2
    <2> QED
      BY <1>9, <1>10, <2>1, <2>2
  <1>12. Recorded(mem')
    BY <1>2, <1>9, <1>11 DEF Recorded, CurrentStateVersion, n
  <1> QED
    BY <1>8, <1>12 DEF decision, n

LEMMA OutcomeRecords ==
    ASSUME TypeOK, Recorded(mem), NEW id, NEW kind \in OutcomeKinds, RecordOutcomeOf(id, kind)
    PROVE  Recorded(mem')
  <1>1. /\ mem'.events = mem.events /\ mem'.decisions = mem.decisions
        /\ mem'.versions = mem.versions
        /\ mem' = RecordOutcome(mem, OutcomeFor(mem, id, kind))
    BY OutcomeGrows, OutcomeSteps
  <1>2. OutcomeFor(mem, id, kind) \in StoredOutcome /\ mem \in Store
    BY OutcomeForType, OutcomeSteps DEF TypeOK
  <1>3. mem'.issued.event = mem.issued.event /\ mem'.issued.decision = mem.issued.decision
    BY <1>1, <1>2, RecordingCounts
  <1> QED
    BY <1>1, <1>3 DEF Recorded, CurrentStateVersion

(* Recovery brings each kernel to where the log left it. *)
LEMMA RecoverKeepsUp ==
    ASSUME TypeOK, RecoverEvent \/ PassOverEvent,
           \A c \in Domains: Kept(mem.events, domains[c], c, cursor - 1)
    PROVE  \A c \in Domains: Kept(mem.events, domains'[c], c, cursor)
  <1> DEFINE n == cursor - 1
             log == mem.events
             d == Event.domain
  <1>1. Recovering
    BY DEF RecoverEvent, PassOverEvent
  <1>2. /\ Event = mem.events[cursor] /\ Event \in StoredEvent /\ Event.domain \in Domains
        /\ domains[Event.domain].gov \in GovernanceState
    BY <1>1, EventType
  <1>3. n \in Nat /\ n + 1 = cursor
    BY DEF TypeOK
  <1>4. log[n + 1] = Event
    BY <1>2, <1>3
  <1> HIDE DEF n, log, d
  <1>5. \A c \in Domains: Kept(log, domains[c], c, n)
    BY DEF n, log
  <1>6. CASE PassOverEvent
    <2>1. domains' = domains /\ ~Suspends(Event)
      BY <1>6 DEF PassOverEvent, memory, Suspends
    <2>2. \A c \in Domains: Kept(log, domains[c], c, n + 1)
      BY <1>3, <1>4, <1>5, <2>1, OthersKept
    <2> QED
      BY <1>3, <2>1, <2>2 DEF log
  <1>7. CASE RecoverEvent
    <2>1. /\ Replayable /\ Event.transitions = Transitions(Outcome.admission)
          /\ domains' = [domains EXCEPT ![d] =
                           AfterObservation(domains[d], Outcome, RestoredVtick(domains[d], Event))]
      BY <1>7 DEF RecoverEvent, Agrees, d
    <2>2. d \in Domains /\ domains[d].gov \in GovernanceState
      BY <1>2 DEF d
    <2>3. /\ domains'[d] = AfterObservation(domains[d], Outcome, RestoredVtick(domains[d], Event))
          /\ \A c \in Domains: c /= d => domains'[c] = domains[c]
      BY <2>1, <2>2 DEF TypeOK
    <2>4. Kept(log, domains'[d], d, n + 1)
      <3> DEFINE g == domains[d].gov
                 judgment == Event.judgment
                 context == Event.context
                 o == ObserveJudgment(g, judgment, context)
      <3>1. /\ g \in GovernanceState /\ context \in AdmissionContext
            /\ judgment \in [beyond: 0..PPM, destructive: 0..PPM]
        BY <1>2, <2>1, <2>2, InRange DEF Replayable
      <3>2. Kept(log, domains[d], d, n)
        BY <1>5, <2>2
      <3>3. g.authorization = "Suspended" => Protective(g)
        BY <3>2 DEF Kept
      <3> HIDE DEF judgment, context
      <3>4. Outcome = o
        BY DEF Outcome, judgment, context, d
      <3>5. /\ o.gov.authorization = "Suspended" => Protective(o.gov)
            /\ o.admission.changes /= {} =>
                 /\ g.authorization /= "Suspended"
                 /\ o.gov.authorization = "Suspended"
                 /\ \E c \in o.admission.changes: c.relation = "authorization" /\ c.to = "Suspended"
            /\ o.admission.changes = {} => o.gov.authorization = g.authorization
        <4> HIDE DEF g
        <4> QED
          BY <3>1, <3>3, ObservationLogged
      <3> HIDE DEF o
      <3>6. log[n + 1].domain = d /\ log[n + 1].transitions = Transitions(o.admission)
        BY <1>4, <2>1, <3>4 DEF d
      <3>7. domains'[d] = AfterObservation(domains[d], o, RestoredVtick(domains[d], Event))
        BY <2>3, <3>4
      <3> QED
        BY <1>3, <3>2, <3>5, <3>6, <3>7, KernelKeepsUp
    <2>5. ASSUME NEW c \in Domains, c /= d
          PROVE  Kept(log, domains'[c], c, n + 1)
      <3>1. log[n + 1].domain /= c /\ domains'[c] = domains[c] /\ Kept(log, domains[c], c, n)
        BY <1>4, <1>5, <2>3, <2>5 DEF d
      <3> QED
        BY <1>3, <3>1, OthersKept
    <2> QED
      BY <1>3, <2>4, <2>5 DEF log
  <1> QED
    BY <1>6, <1>7

LEMMA RecordsStep ==
    ASSUME IInv, RestartInv, RecordsInv, [Next]_vars
    PROVE  RecordsInv'
  <1> USE DEF IInv
  <1>1. CASE Request
    <2>1. status = "serving" /\ status' = "serving" /\ disk' = disk
      BY <1>1, RequestGrows DEF Ready
    <2>2. /\ Recorded(mem)
          /\ \A c \in Domains: Kept(mem.events, domains[c], c, Len(mem.events))
      BY <2>1 DEF RecordsInv
    <2>3. /\ Recorded(mem')
          /\ \A c \in Domains: Kept(mem'.events, domains'[c], c, Len(mem'.events))
      <3>1. CASE \E d \in Domains, judgment \in Judgments: Observe(d, judgment)
        BY <2>2, <3>1, ObserveRecords
      <3>2. ASSUME NEW d \in Domains, NEW action \in Actions, Decide(d, action)
            PROVE  Recorded(mem') /\ mem'.events = mem.events /\ domains' = domains
        BY <2>2, <3>2, DecideRecords, DecideGrows, DecideSteps
      <3>3. ASSUME NEW id, NEW kind \in OutcomeKinds, RecordOutcomeOf(id, kind)
            PROVE  Recorded(mem') /\ mem'.events = mem.events /\ domains' = domains
        BY <2>2, <3>3, OutcomeRecords, OutcomeGrows, OutcomeSteps
      <3> QED
        BY <1>1, <2>2, <3>1, <3>2, <3>3 DEF Request
    <2> QED
      BY <2>1, <2>3 DEF RecordsInv
  <1>2. CASE Finish
    <2>1. status = "serving"
      BY <1>2, StagesDiffer DEF Finish, PersistOk, PersistFail, Respond, ProcessInv, TypeOK, Idle
    <2>2. /\ mem' = mem /\ domains' = domains /\ status' = status
          /\ disk' = disk \/ disk' = mem
      BY <1>2 DEF Finish, PersistOk, PersistFail, Respond, memory
    <2> QED
      BY <2>1, <2>2 DEF RecordsInv
  <1>3. CASE status' \in {"down", "refused"} /\ disk' = disk
    BY <1>3 DEF RecordsInv
  <1>4. CASE Open
    <2>1. /\ status' = "recovering" /\ domains' = [d \in Domains |-> NewDomain] /\ cursor' = 1
          /\ mem' = disk /\ disk' = disk
      BY <1>4 DEF Open, ProcessInv, AllNew, recovery
    <2>2. \A d: Kept(disk.events, NewDomain, d, 0)
      BY SuspendedNext DEF Kept, NewDomain, NewGovernance
    <2>3. cursor' - 1 = 0 /\ \A d \in Domains: domains'[d] = NewDomain
      BY <2>1
    <2>4. \A d \in Domains: Kept(mem'.events, domains'[d], d, cursor' - 1)
      BY <2>1, <2>2, <2>3
    <2> QED
      BY <2>1, <2>4 DEF RecordsInv
  <1>5. CASE RecoverEvent \/ PassOverEvent
    <2>1. /\ status = "recovering" /\ status' = status /\ mem' = mem /\ disk' = disk
          /\ cursor' = cursor + 1
      BY <1>5 DEF RecoverEvent, PassOverEvent, Recovering, memory
    <2>2. \A c \in Domains: Kept(mem.events, domains'[c], c, cursor)
      BY <1>5, <2>1, RecoverKeepsUp DEF RecordsInv
    <2>3. cursor' - 1 = cursor
      BY <2>1 DEF TypeOK
    <2>4. \A d \in Domains: Kept(mem'.events, domains'[d], d, cursor' - 1)
      BY <2>1, <2>2, <2>3
    <2> QED
      BY <2>1, <2>4 DEF RecordsInv
  <1>6. CASE FinishRecovery /\ status' = "serving"
    <2>1. /\ status = "recovering" /\ cursor > Len(mem.events) /\ domains' = domains /\ mem' = mem
          /\ disk' = disk
      BY <1>6 DEF FinishRecovery, EventsReplayed, memory
    <2>2. Len(mem.events) \in Nat /\ cursor \in Nat /\ cursor <= Len(mem.events) + 1
      BY <2>1, StoreLogs DEF TypeOK, RestartInv
    <2>3. cursor - 1 = Len(mem.events)
      BY <2>1, <2>2
    <2>4. mem = disk
      BY <2>1 DEF ProcessInv
    <2> QED
      BY <1>6, <2>1, <2>3, <2>4 DEF RecordsInv
  <1>7. CASE UNCHANGED vars
    BY <1>7 DEF vars, memory, recovery, RecordsInv
  <1>8. \/ Request \/ Finish \/ (status' \in {"down", "refused"} /\ disk' = disk) \/ Open
        \/ (RecoverEvent \/ PassOverEvent) \/ (FinishRecovery /\ status' = "serving")
        \/ UNCHANGED vars
    BY DEF Next, Recover, RefuseEvent, PanicOnEvent, FinishRecovery, Crash
  <1> QED
    BY <1>1, <1>2, <1>3, <1>4, <1>5, <1>6, <1>7, <1>8

(* The logs are kept as this server keeps them, if the files it starts from *)
(* were: a new one is, and every one that it has written.                   *)
THEOREM RecordsInvariance ==
    ASSUME \A file \in InitialFiles: Recorded(file)
    PROVE  Spec => []RecordsInv
  <1>1. Init => RecordsInv
    BY DEF Init, RecordsInv
  <1>2. IInv /\ RestartInv /\ RecordsInv /\ [Next]_vars => RecordsInv'
    BY RecordsStep
  <1> QED
    BY <1>1, <1>2, Invariance, RestartInvariance, PTL DEF Spec

(* A decision is found by its place. *)
LEMMA DecisionById ==
    ASSUME NEW store \in Store, Recorded(store), NEW id
    PROVE  /\ KnowsDecision(store, id) <=> id \in 1..Len(store.decisions)
           /\ KnowsDecision(store, id) => Decision(store, id) = store.decisions[id]
           /\ \A i \in 1..Len(store.decisions): store.decisions[i].id = i
  <1>1. \A i \in 1..Len(store.decisions): store.decisions[i].id = i
    BY DEF Recorded
  <1>2. KnowsDecision(store, id) <=> id \in 1..Len(store.decisions)
    BY <1>1 DEF KnowsDecision
  <1>3. ASSUME KnowsDecision(store, id)
        PROVE  Decision(store, id) = store.decisions[id]
    <2>1. PICK i \in 1..Len(store.decisions):
            Decision(store, id) = store.decisions[i] /\ Decision(store, id).id = id
      BY <1>3, DecisionIsLogged
    <2> QED
      BY <1>1, <2>1
  <1> QED
    BY <1>1, <1>2, <1>3

(* A decision and the log it was made on: it allowed if the log had no      *)
(* suspension of the domain, and is current as long as it has none.         *)
LEMMA DecisionFacts ==
    ASSUME NEW store \in Store, Recorded(store), NEW i \in 1..Len(store.decisions)
    PROVE  LET decision == store.decisions[i]
               last == Len(store.events)
           IN  \E n \in 0..last:
                 /\ DecidedAt(store.events, decision, n)
                 /\ decision.domain \in Domains
                 /\ decision.verdict \in {"ALLOW", "DENY"}
                 /\ decision.verdict = "ALLOW" <=> ~SuspendedBy(store.events, decision.domain, n)
                 /\ decision.verdict = "ALLOW" =>
                      (decision.version = CurrentStateVersion(store, decision.domain)
                         <=> ~SuspendedBy(store.events, decision.domain, last))
  <1> DEFINE decision == store.decisions[i]
             d == decision.domain
             log == store.events
             last == Len(log)
  <1>1. PICK n \in 0..last: DecidedAt(log, decision, n)
    BY DEF Recorded
  <1>2. last \in Nat /\ decision \in StoredDecision
    BY StoreLogs
  <1>3. d \in Domains
    BY <1>2 DEF StoredDecision
  <1> HIDE DEF decision, log
  <1>4. /\ decision.version = VersionBy(log, d, n)
        /\ decision.verdict = IF SuspendedBy(log, d, n) THEN "DENY" ELSE "ALLOW"
    BY <1>1 DEF DecidedAt
  <1>5. CurrentStateVersion(store, d) = VersionBy(log, d, last)
    BY <1>3 DEF Recorded, log
  <1> QED
    BY <1>1, <1>3, <1>4, <1>5 DEF VersionBy, decision, log

(* What the gate ought to ask of the logs. *)
StillSupported(store, id, action, expected) ==
    \E i \in 1..Len(store.decisions):
        /\ store.decisions[i].id = id
        /\ store.decisions[i].verdict = "ALLOW"
        /\ store.decisions[i].action = action
        /\ store.decisions[i].version = expected
        /\ \A k \in 1..Len(store.events):
             store.events[k].domain = store.decisions[i].domain => ~Suspends(store.events[k])

(* The gate allows a decision exactly when the log still supports it.       *)
LEMMA GateFollowsRecords ==
    ASSUME NEW store \in Store, Recorded(store), NEW id, NEW action, NEW expected
    PROVE  ValidateExecution(store, [decision |-> id, action |-> action, expected |-> expected])
             = "EXECUTION_ALLOWED"
           <=> StillSupported(store, id, action, expected)
  <1> DEFINE request == [decision |-> id, action |-> action, expected |-> expected]
             last == Len(store.events)
             Allows(decision) == /\ decision.verdict = "ALLOW"
                                 /\ decision.action = action
                                 /\ decision.version = expected
                                 /\ ~SuspendedBy(store.events, decision.domain, last)
  <1>1. request.decision = id /\ request.action = action /\ request.expected = expected
    OBVIOUS
  <1> HIDE DEF request
  <1>2. /\ KnowsDecision(store, id) <=> id \in 1..Len(store.decisions)
        /\ KnowsDecision(store, id) => Decision(store, id) = store.decisions[id]
        /\ \A i \in 1..Len(store.decisions): store.decisions[i].id = i
    BY DecisionById
  <1>3. ASSUME KnowsDecision(store, id)
        PROVE  ValidateExecution(store, request) = "EXECUTION_ALLOWED" <=> Allows(store.decisions[id])
    <2> DEFINE decision == store.decisions[id]
    <2>1. id \in 1..Len(store.decisions) /\ Decision(store, request.decision) = decision
          /\ KnowsDecision(store, request.decision)
      BY <1>1, <1>2, <1>3
    <2>2. /\ decision.verdict \in {"ALLOW", "DENY"}
          /\ decision.verdict = "ALLOW" =>
               (decision.version = CurrentStateVersion(store, decision.domain)
                  <=> ~SuspendedBy(store.events, decision.domain, last))
      BY <2>1, DecisionFacts
    <2> HIDE DEF decision, last
    <2>3. ValidateExecution(store, request) =
            IF decision.verdict /= "ALLOW" THEN "DECISION_NOT_ALLOW"
            ELSE IF decision.action /= action THEN "ACTION_MISMATCH"
            ELSE IF decision.version /= expected THEN "EXPECTED_STATE_VERSION_MISMATCH"
            ELSE IF Stale(store, decision) THEN "STATE_VERSION_STALE" ELSE "EXECUTION_ALLOWED"
      BY <1>1, <2>1 DEF ValidateExecution
    <2>4. Stale(store, decision) <=> CurrentStateVersion(store, decision.domain) /= decision.version
      BY DEF Stale
    <2> QED
      BY <2>2, <2>3, <2>4 DEF decision
  <1>4. ~KnowsDecision(store, id) => ValidateExecution(store, request) /= "EXECUTION_ALLOWED"
    BY <1>1 DEF ValidateExecution
  <1>5. \A d: ~SuspendedBy(store.events, d, last) <=>
          \A k \in 1..Len(store.events):
            store.events[k].domain = d => ~Suspends(store.events[k])
    BY Zenon DEF SuspendedBy
  <1>6. ValidateExecution(store, request) = "EXECUTION_ALLOWED"
          <=> \E i \in 1..Len(store.decisions): store.decisions[i].id = id /\ Allows(store.decisions[i])
    <2> HIDE DEF Allows
    <2> QED
      BY <1>2, <1>3, <1>4
  <1> HIDE DEF last
  <1> QED
    BY <1>5, <1>6 DEF request, StillSupported

(* The execution gate, asked of the file at any moment, allows a decision   *)
(* exactly when it allowed and the file's log holds no suspension of its    *)
(* domain, if the files the server starts from are as it keeps them.        *)
THEOREM GateHolds ==
    ASSUME \A file \in InitialFiles: Recorded(file)
    PROVE  Spec => []GateFollowsLog
  <1>1. IInv /\ RecordsInv => GateFollowsLog
    <2> SUFFICES ASSUME IInv, RecordsInv
                 PROVE  GateFollowsLog
      OBVIOUS
    <2>1. disk \in Store /\ Recorded(disk)
      BY DEF IInv, TypeOK, RecordsInv
    <2> SUFFICES ASSUME NEW id \in 1..(MaxDecisions + 1), NEW action \in Actions,
                        NEW expected \in 0..MaxEvents
                 PROVE  ValidateExecution(disk, [decision |-> id, action |-> action, expected |-> expected])
                          = "EXECUTION_ALLOWED"
                        <=> StillSupported(disk, id, action, expected)
      BY Zenon DEF GateFollowsLog, StillSupported
    <2> QED
      BY <2>1, GateFollowsRecords
  <1> QED
    BY <1>1, Invariance, RecordsInvariance, PTL

(* What r2r_explain reads: the chain is the domain's log at the decision's  *)
(* version, no event of it is missing, and it holds the suspension that     *)
(* governs a denial.                                                        *)
LEMMA DecisionExplained ==
    ASSUME NEW store \in Store, Recorded(store), NEW i \in 1..Len(store.decisions)
    PROVE  LET decision == store.decisions[i]
               chain == {e \in {store.events[k] : k \in 1..Len(store.events)} :
                           e.id \in decision.chain}
           IN  /\ Cardinality(chain) = Cardinality(decision.chain)
               /\ \A e \in chain: e.domain = decision.domain /\ e.version <= decision.version
               /\ decision.verdict = "DENY" <=>
                    \E e \in chain: Suspends(e) /\ \E t \in e.transitions:
                      t.relation = "authorization" /\ t.id = decision.governing
               /\ decision.version > 0 => \E e \in chain: e.version = decision.version
  <1> DEFINE log == store.events
             last == Len(log)
             decision == store.decisions[i]
             d == decision.domain
             chain == {e \in {log[k] : k \in 1..last} : e.id \in decision.chain}
  <1>1. last \in Nat
    BY StoreLogs
  <1>2. PICK n \in 0..last:
          /\ DecidedAt(log, decision, n)
          /\ d \in Domains
          /\ decision.verdict \in {"ALLOW", "DENY"}
          /\ decision.verdict = "ALLOW" <=> ~SuspendedBy(log, d, n)
    BY DecisionFacts
  <1>3. \A k \in 1..last: EventRecorded(log, k)
    BY DEF Recorded
  <1> HIDE DEF log, decision, last
  <1>4. /\ decision.chain = {k \in 1..n: log[k].domain = d}
        /\ decision.version = VersionBy(log, d, n)
        /\ SuspendedBy(log, d, n) => GovernedBy(log, d, n, decision.governing)
    BY <1>2 DEF DecidedAt
  <1>5. \A k \in 1..last: log[k].id = k
    BY <1>3 DEF EventRecorded
  <1>6. \A k \in 1..n: k \in 1..last /\ k \in Nat /\ k <= n /\ n \in Nat
    BY <1>1
  <1>7. chain = {log[k] : k \in decision.chain}
    BY <1>4, <1>5, <1>6
  <1>8. Cardinality(chain) = Cardinality(decision.chain)
    <2> DEFINE place == [k \in decision.chain |-> log[k]]
    <2>1. IsFiniteSet(decision.chain)
      <3>1. decision.chain \in SUBSET (1..n) /\ IsFiniteSet(1..n)
        BY <1>1, <1>4, FS_Interval
      <3> QED
        BY <3>1, FS_Subset
    <2>2. place \in Bijection(decision.chain, chain)
      <3>1. \A k, j \in decision.chain: log[k] = log[j] => k = j
        BY <1>4, <1>5, <1>6
      <3> HIDE DEF chain
      <3> QED
        BY <1>7, <3>1 DEF Bijection, Injection, Surjection, IsInjective
    <2> QED
      BY <2>1, <2>2, FS_Bijection DEF ExistsBijection
  <1>9. \A e \in chain: e.domain = d /\ e.version <= decision.version
    <2> SUFFICES ASSUME NEW k \in decision.chain
                 PROVE  log[k].domain = d /\ log[k].version <= decision.version
      BY <1>7
    <2>1. k \in 1..n /\ log[k].domain = d /\ k \in 1..last /\ k \in Nat /\ n \in Nat /\ k <= n
      BY <1>4, <1>6
    <2>2. log[k].version = VersionBy(log, d, k)
      BY <1>3, <2>1 DEF EventRecorded
    <2>3. SuspendedBy(log, d, k) => SuspendedBy(log, d, n)
      BY <2>1, SuspendedNext
    <2> QED
      BY <1>4, <2>1, <2>2, <2>3 DEF VersionBy
  <1>10. decision.verdict = "DENY" <=>
           \E e \in chain: Suspends(e) /\ \E t \in e.transitions:
             t.relation = "authorization" /\ t.id = decision.governing
    <2>1. decision.verdict = "DENY" => GovernedBy(log, d, n, decision.governing)
      BY <1>2, <1>4
    <2>2. GovernedBy(log, d, n, decision.governing) => decision.verdict = "DENY"
      BY <1>2 DEF GovernedBy, SuspendedBy
    <2>3. GovernedBy(log, d, n, decision.governing) <=>
            \E k \in decision.chain: Suspends(log[k]) /\ \E t \in log[k].transitions:
              t.relation = "authorization" /\ t.id = decision.governing
      BY <1>4, Zenon DEF GovernedBy
    <2> QED
      BY <1>7, <2>1, <2>2, <2>3
  <1>11. decision.version > 0 => \E e \in chain: e.version = decision.version
    <2> SUFFICES ASSUME SuspendedBy(log, d, n)
                 PROVE  \E e \in chain: e.version = decision.version
      BY <1>4 DEF VersionBy
    <2>1. PICK k \in 1..n: log[k].domain = d /\ Suspends(log[k])
      BY DEF SuspendedBy
    <2>2. k \in 1..k /\ k \in 1..last
      BY <1>6
    <2>3. SuspendedBy(log, d, k)
      BY <2>1, <2>2, Zenon DEF SuspendedBy
    <2>4. log[k].version = 1 /\ decision.version = 1
      BY <1>3, <1>4, <2>1, <2>2, <2>3 DEF EventRecorded, VersionBy
    <2>5. log[k] \in chain
      BY <1>4, <1>7, <2>1
    <2> QED
      BY <2>4, <2>5
  <1> QED
    BY <1>8, <1>9, <1>10, <1>11 DEF log, decision, last

(* A stored decision explains itself (r2r_explain): it denies exactly when  *)
(* an event of its chain suspended authorization, names that change as      *)
(* governing, and its chain is the domain's log at its version, if the      *)
(* files the server starts from are as it keeps them.                       *)
THEOREM ExplanationsHold ==
    ASSUME \A file \in InitialFiles: Recorded(file)
    PROVE  Spec => []DecisionsExplainThemselves
  <1>1. IInv /\ RecordsInv => DecisionsExplainThemselves
    <2> SUFFICES ASSUME IInv, RecordsInv
                 PROVE  DecisionsExplainThemselves
      OBVIOUS
    <2>1. disk \in Store /\ Recorded(disk)
      BY DEF IInv, TypeOK, RecordsInv
    <2> QED
      BY <2>1, DecisionExplained DEF DecisionsExplainThemselves
  <1> QED
    BY <1>1, Invariance, RecordsInvariance, PTL

-----------------------------------------------------------------------------
(***************************************************************************)
(* The log a client would imagine.  AuditInv relates what is stored to what *)
(* was observed, and a request in progress to the one entry and the answer *)
(* it has prepared: writing the file is then the abstraction's step.       *)
(***************************************************************************)
(* The logs as a client may check them against what was observed.           *)
OutcomesRecorded(store) ==
    /\ store.issued.outcome = Len(store.outcomes)
    /\ \A i \in 1..Len(store.outcomes): store.outcomes[i].decision \in 1..Len(store.decisions)
Damned(log) ==
    \A k \in 1..Len(log):
        /\ log[k].judgment \in Judgments
        /\ log[k].judgment \in Damning => SuspendedBy(log, log[k].domain, k)
        /\ Suspends(log[k]) => log[k].judgment \in Damning
Audited(store) == OutcomesRecorded(store) /\ Damned(store.events)

(* A request in progress has appended one entry and prepared its answer.    *)
Observing(reply, event) ==
    /\ reply = [op |-> "observe", id |-> event.id, domain |-> event.domain,
                version |-> event.version,
                answer |-> IF event.transitions /= {} THEN "CHANGED" ELSE "UNCHANGED"]
    /\ mem.events = Append(disk.events, event)
    /\ mem.decisions = disk.decisions /\ mem.outcomes = disk.outcomes
Deciding(reply, decision) ==
    /\ reply = [op |-> "decide", id |-> decision.id, domain |-> decision.domain,
                version |-> decision.version, answer |-> decision.verdict]
    /\ mem.decisions = Append(disk.decisions, decision)
    /\ mem.events = disk.events /\ mem.outcomes = disk.outcomes
    /\ DecidedAt(mem.events, decision, Len(mem.events))
Reporting(reply, outcome) ==
    /\ reply = [op |-> "outcome", id |-> Len(mem.outcomes), domain |-> outcome.domain,
                version |-> outcome.version, answer |-> "RECORDED"]
    /\ mem.outcomes = Append(disk.outcomes, outcome)
    /\ mem.events = disk.events /\ mem.decisions = disk.decisions
    /\ outcome.decision \in 1..Len(mem.decisions)
    /\ outcome.domain = mem.decisions[outcome.decision].domain
    /\ outcome.version = VersionBy(mem.events, outcome.domain, Len(mem.events))
PendingInv ==
    call.stage = "persist" =>
        \/ \E event \in StoredEvent: Observing(call.reply, event)
        \/ \E decision \in StoredDecision: Deciding(call.reply, decision)
        \/ \E outcome \in StoredOutcome: Reporting(call.reply, outcome)

AuditInv ==
    /\ Audited(disk)
    /\ status = "serving" => Audited(mem)
    /\ PendingInv

(* The demo context never expires before it is used, so its clock decides   *)
(* nothing.                                                                 *)
LEMMA DamningAnyTime ==
    ASSUME NEW n \in Nat, NEW judgment \in Judgments
    PROVE  judgment \in Damning <=>
             \/ IsAccepted(Admit("BeyondScope", judgment.beyond, DemoContext(n)))
             \/ IsAccepted(Admit("DestructiveAction", judgment.destructive, DemoContext(n)))
  <1>1. ASSUME NEW kind, NEW confidence, NEW m \in Nat
        PROVE  Admit(kind, confidence, DemoContext(m)) =
                 IF ~IsSupported(kind) THEN "UnsupportedKind"
                 ELSE Graded(confidence, [reliability |-> 850000, corroborators |-> 0,
                                          now |-> 0, expires |-> 0])
    <2>1. ~(m > m + 10)
      OBVIOUS
    <2>2. Graded(confidence, DemoContext(m)) =
            Graded(confidence, [reliability |-> 850000, corroborators |-> 0, now |-> 0, expires |-> 0])
      BY DEF Graded, DemoContext, IsStrong, IsCorroborated
    <2>3. DemoContext(m).now = m /\ DemoContext(m).expires = m + 10
      BY DEF DemoContext
    <2> QED
      BY <2>1, <2>2, <2>3 DEF Admit
  <1>2. \A kind: \A confidence:
          Admit(kind, confidence, DemoContext(n)) = Admit(kind, confidence, DemoContext(1))
    BY <1>1
  <1> QED
    BY <1>2 DEF Damning

LEMMA AcceptedJudgment ==
    ASSUME NEW g, NEW judgment, NEW context
    PROVE  EntryAccepts(ObserveJudgment(g, judgment, context).admission) <=>
             \/ IsAccepted(Admit("BeyondScope", judgment.beyond, context))
             \/ IsAccepted(Admit("DestructiveAction", judgment.destructive, context))
  <1> DEFINE o == ObserveJudgment(g, judgment, context)
             scope == Considered(TakeId(g, "event"), "BeyondScope", judgment.beyond, context)
             destructive == Considered(scope.gov, "DestructiveAction", judgment.destructive, context)
  <1>1. \A gov, kind, confidence:
          Considered(gov, kind, confidence, context).evidence.decision
            = Admit(kind, confidence, context)
    BY DEF Considered
  <1>2. scope.evidence.decision = Admit("BeyondScope", judgment.beyond, context)
        /\ destructive.evidence.decision = Admit("DestructiveAction", judgment.destructive, context)
    BY <1>1
  <1>3. o.admission.evidence = {scope.evidence, destructive.evidence}
    BY DEF ObserveJudgment
  <1> HIDE DEF scope, destructive, o
  <1>4. EntryAccepts(o.admission) <=>
          IsAccepted(scope.evidence.decision) \/ IsAccepted(destructive.evidence.decision)
    BY <1>3 DEF EntryAccepts
  <1> QED
    BY <1>2, <1>4 DEF o

(* A longer log is damned as far as it was, and at its new end. *)
LEMMA DamnedLater ==
    ASSUME NEW log \in Seq(StoredEvent), NEW event \in StoredEvent, NEW longer,
           longer = Append(log, event), Damned(log),
           event.judgment \in Judgments,
           event.judgment \in Damning => SuspendedBy(longer, event.domain, Len(log) + 1),
           Suspends(event) => event.judgment \in Damning
    PROVE  Damned(longer)
  <1> DEFINE n == Len(log)
  <1>1. n \in Nat /\ Extends(log, longer) /\ Len(longer) = n + 1 /\ longer[n + 1] = event
    BY AppendExtends
  <1>2. \A k \in 1..(n + 1): (k \in 1..n /\ k \in 0..n) \/ k = n + 1
    BY <1>1
  <1>3. ASSUME NEW k \in 1..n
        PROVE  /\ longer[k].judgment \in Judgments
               /\ longer[k].judgment \in Damning => SuspendedBy(longer, longer[k].domain, k)
               /\ Suspends(longer[k]) => longer[k].judgment \in Damning
    <2>1. k \in 0..Len(log) /\ Len(log) \in Nat /\ longer[k] = log[k]
      BY <1>1 DEF Extends
    <2>2. \A d: SuspendedBy(longer, d, k) <=> SuspendedBy(log, d, k)
      BY <1>1, <2>1, PrefixSaysTheSame
    <2> QED
      BY <2>1, <2>2 DEF Damned
  <1> HIDE DEF n
  <1> QED
    BY <1>1, <1>2, <1>3 DEF Damned, n

LEMMA ObserveAudited ==
    ASSUME TypeOK, Recorded(mem), Audited(mem), mem = disk,
           NEW d \in Domains, NEW judgment \in Judgments,
           \A c \in Domains: Kept(mem.events, domains[c], c, Len(mem.events)),
           Observe(d, judgment)
    PROVE  Audited(mem') /\ PendingInv'
  <1> DEFINE n == Len(mem.events)
             log == mem'.events
             o == Observed(d, judgment)
             changed == o.admission.changes /= {}
             event == EventOf(d, judgment)
  <1>1. /\ domains[d].gov \in GovernanceState /\ domains[d].nextVtick \in Nat
        /\ judgment \in [beyond: 0..PPM, destructive: 0..PPM]
        /\ DemoContext(domains[d].nextVtick) \in AdmissionContext
        /\ event \in StoredEvent /\ StoreBefore(d, judgment) \in Store
    BY ObservedType
  <1>2. mem \in Store /\ mem.events \in Seq(StoredEvent) /\ n \in Nat
    BY StoreLogs DEF TypeOK
  <1>3. /\ log = Append(mem.events, event)
        /\ mem'.decisions = mem.decisions /\ mem'.outcomes = mem.outcomes
        /\ mem' = RecordEvent(StoreBefore(d, judgment), event)
        /\ disk' = disk
    BY ObserveGrows, ObserveSteps
  <1>4. /\ Extends(mem.events, log) /\ Len(log) = n + 1 /\ log[n + 1] = event
    BY <1>1, <1>2, <1>3, AppendExtends
  <1>5. /\ event.domain = d /\ event.judgment = judgment
        /\ event.transitions = Transitions(o.admission)
    BY DEF EventOf
  <1>6. judgment \in Damning <=> EntryAccepts(o.admission)
    BY <1>1, DamningAnyTime, AcceptedJudgment DEF Observed
  <1>7. /\ changed => \E c \in o.admission.changes: c.relation = "authorization" /\ c.to = "Suspended"
        /\ changed <=> domains[d].gov.authorization /= "Suspended" /\ EntryAccepts(o.admission)
    <2>1. domains[d].gov.authorization = "Suspended" => Protective(domains[d].gov)
      BY DEF Kept
    <2> QED
      BY <1>1, <2>1, ObservationLogged DEF Observed
  <1>8. mem'.issued.outcome = mem.issued.outcome
    <2>1. StoreBefore(d, judgment).issued = mem.issued
      BY <1>2, Recording DEF StoreBefore
    <2> QED
      BY <1>1, <1>3, <2>1, RecordingCounts
  <1>9. /\ call'.stage = "persist"
        /\ call'.reply = [op |-> "observe", id |-> event.id, domain |-> d, version |-> event.version,
                          answer |-> IF changed THEN "CHANGED" ELSE "UNCHANGED"]
    BY ObserveSteps DEF Prepared
  <1> HIDE DEF event, o, log
  <1>10. /\ changed <=> event.transitions /= {}
         /\ changed => Suspends(event)
         /\ ~changed => ~Suspends(event)
    <2>1. event.transitions = {RenderRelationChange(c) : c \in o.admission.changes}
      BY <1>5 DEF Transitions
    <2>2. \A c \in o.admission.changes: /\ RenderRelationChange(c) \in event.transitions
                                        /\ RenderRelationChange(c).relation = c.relation
                                        /\ RenderRelationChange(c).to = c.to
      BY <2>1 DEF RenderRelationChange
    <2> QED
      BY <1>7, <2>1, <2>2 DEF Suspends
  <1>11. judgment \in Damning => SuspendedBy(log, d, n + 1)
    <2>1. CASE changed
      <3>1. log[n + 1].domain = d /\ Suspends(log[n + 1])
        BY <1>4, <1>5, <1>10, <2>1
      <3> QED
        BY <1>2, <3>1, SuspendedNext
    <2>2. CASE ~changed /\ judgment \in Damning
      <3>1. domains[d].gov.authorization = "Suspended"
        BY <1>6, <1>7, <2>2
      <3>2. SuspendedBy(mem.events, d, n)
        BY <3>1 DEF Kept
      <3>3. SuspendedBy(log, d, n)
        <4>1. n \in 0..Len(mem.events) /\ Len(mem.events) \in Nat
          BY <1>2
        <4> QED
          BY <1>4, <3>2, <4>1, PrefixSaysTheSame
      <3> QED
        BY <1>2, <3>3, SuspendedNext
    <2> QED
      BY <2>1, <2>2
  <1>12. Damned(log)
    <2>1. Suspends(event) => event.judgment \in Damning
      BY <1>5, <1>6, <1>7, <1>10
    <2>2. event.judgment \in Damning => SuspendedBy(log, event.domain, Len(mem.events) + 1)
      BY <1>5, <1>11
    <2>3. Damned(mem.events) /\ event.judgment \in Judgments
      BY <1>5 DEF Audited
    <2> QED
      BY <1>1, <1>2, <1>3, <2>1, <2>2, <2>3, DamnedLater
  <1>13. OutcomesRecorded(mem')
    BY <1>3, <1>8 DEF Audited, OutcomesRecorded
  <1>14. PendingInv'
    <2>1. /\ call'.reply = [op |-> "observe", id |-> event.id, domain |-> event.domain,
                            version |-> event.version,
                            answer |-> IF event.transitions /= {} THEN "CHANGED" ELSE "UNCHANGED"]
          /\ mem'.events = Append(disk'.events, event)
          /\ mem'.decisions = disk'.decisions /\ mem'.outcomes = disk'.outcomes
      BY <1>3, <1>5, <1>9, <1>10 DEF log
    <2> QED
      BY <1>1, <2>1 DEF PendingInv, Observing
  <1> QED
    BY <1>12, <1>13, <1>14 DEF Audited, log

LEMMA DecideAudited ==
    ASSUME TypeOK, SuspensionKept, Recorded(mem), Audited(mem), mem = disk,
           NEW d \in Domains, NEW action \in Actions,
           \A c \in Domains: Kept(mem.events, domains[c], c, Len(mem.events)),
           Decide(d, action)
    PROVE  Audited(mem') /\ PendingInv'
  <1> DEFINE decision == IssuedDecision(d, action)
  <1>1. /\ decision \in StoredDecision /\ mem \in Store
        /\ mem.decisions \in Seq(StoredDecision)
    BY StoreLogs, DecisionOfType DEF TypeOK
  <1>2. /\ mem'.decisions = Append(mem.decisions, decision)
        /\ mem'.events = mem.events /\ mem'.outcomes = mem.outcomes
        /\ mem' = RecordDecision(mem, decision)
        /\ disk' = disk
    BY DecideGrows, DecideSteps
  <1>3. call'.reply = [op |-> "decide", id |-> decision.id, domain |-> d,
                       version |-> decision.version, answer |-> domains[d].projected]
    BY DecideSteps DEF Prepared
  <1>4. decision.domain = d /\ decision.verdict = domains[d].projected
    BY DEF IssuedDecision
  <1>5. DecidedAt(mem.events, decision, Len(mem.events))
    BY DecideRecords
  <1> HIDE DEF decision
  <1>6. mem'.issued.outcome = mem.issued.outcome
    BY <1>1, <1>2, RecordingCounts
  <1>7. Len(mem'.decisions) = Len(mem.decisions) + 1 /\ Len(mem.decisions) \in Nat
    BY <1>1, <1>2, AppendExtends
  <1>8. Audited(mem')
    <2>1. \A i \in 1..Len(mem.decisions): i \in 1..Len(mem'.decisions)
      BY <1>7
    <2> QED
      BY <1>2, <1>6, <2>1 DEF Audited, OutcomesRecorded
  <1>9. PendingInv'
    <2>1. /\ call'.reply = [op |-> "decide", id |-> decision.id, domain |-> decision.domain,
                            version |-> decision.version, answer |-> decision.verdict]
          /\ mem'.decisions = Append(disk'.decisions, decision)
          /\ mem'.events = disk'.events /\ mem'.outcomes = disk'.outcomes
          /\ DecidedAt(mem'.events, decision, Len(mem'.events))
      BY <1>2, <1>3, <1>4, <1>5
    <2> QED
      BY <1>1, <2>1 DEF PendingInv, Deciding
  <1> QED
    BY <1>8, <1>9

LEMMA OutcomeAudited ==
    ASSUME TypeOK, Recorded(mem), Audited(mem), mem = disk, NEW id, NEW kind \in OutcomeKinds,
           RecordOutcomeOf(id, kind)
    PROVE  Audited(mem') /\ PendingInv'
  <1> DEFINE outcome == OutcomeFor(mem, id, kind)
             n == Len(mem.outcomes)
             decision == mem.decisions[id]
  <1>1. /\ mem'.outcomes = Append(mem.outcomes, outcome)
        /\ mem'.events = mem.events /\ mem'.decisions = mem.decisions
        /\ mem' = RecordOutcome(mem, outcome) /\ disk' = disk
        /\ KnowsDecision(mem, id)
    BY OutcomeGrows, OutcomeSteps
  <1>2. /\ outcome \in StoredOutcome /\ mem \in Store /\ mem.outcomes \in Seq(StoredOutcome)
        /\ n \in Nat
    BY <1>1, StoreLogs, OutcomeForType DEF TypeOK
  <1>3. id \in 1..Len(mem.decisions) /\ Decision(mem, id) = decision /\ decision.id = id
    BY <1>1, <1>2, DecisionById
  <1>4. /\ outcome.decision = id /\ outcome.domain = decision.domain
        /\ outcome.id = mem.issued.outcome + 1
        /\ outcome.version = CurrentStateVersion(mem, decision.domain)
    BY <1>3 DEF OutcomeFor
  <1>5. call'.reply = [op |-> "outcome", id |-> outcome.id, domain |-> outcome.domain,
                       version |-> outcome.version, answer |-> "RECORDED"]
    BY OutcomeSteps DEF Prepared
  <1> HIDE DEF outcome, n, decision
  <1>6. mem'.issued.outcome = n + 1
    BY <1>1, <1>2, RecordingCounts DEF Audited, OutcomesRecorded, n
  <1>7. /\ Len(mem'.outcomes) = n + 1 /\ mem'.outcomes[n + 1] = outcome
        /\ \A i \in 1..n: mem'.outcomes[i] = mem.outcomes[i]
    BY <1>1, <1>2, AppendExtends DEF Extends, n
  <1>8. OutcomesRecorded(mem')
    <2>1. \A i \in 1..(n + 1): i \in 1..n \/ i = n + 1
      BY <1>2
    <2>2. \A i \in 1..n: mem.outcomes[i].decision \in 1..Len(mem.decisions)
      BY DEF Audited, OutcomesRecorded, n
    <2>3. \A i \in 1..(n + 1): mem'.outcomes[i].decision \in 1..Len(mem'.decisions)
      BY <1>1, <1>3, <1>4, <1>7, <2>1, <2>2
    <2> QED
      BY <1>6, <1>7, <2>3 DEF OutcomesRecorded
  <1>9. Audited(mem')
    BY <1>1, <1>8 DEF Audited
  <1>10. PendingInv'
    <2>1. outcome.domain \in Domains
      BY <1>2 DEF StoredOutcome
    <2>2. outcome.version = VersionBy(mem.events, outcome.domain, Len(mem.events))
      BY <1>4, <2>1 DEF Recorded
    <2>3. outcome.id = Len(mem'.outcomes)
      BY <1>4, <1>7 DEF Audited, OutcomesRecorded, n
    <2>4. /\ call'.reply = [op |-> "outcome", id |-> Len(mem'.outcomes), domain |-> outcome.domain,
                            version |-> outcome.version, answer |-> "RECORDED"]
          /\ mem'.outcomes = Append(disk'.outcomes, outcome)
          /\ mem'.events = disk'.events /\ mem'.decisions = disk'.decisions
          /\ outcome.decision \in 1..Len(mem'.decisions)
          /\ outcome.domain = mem'.decisions[outcome.decision].domain
          /\ outcome.version = VersionBy(mem'.events, outcome.domain, Len(mem'.events))
      BY <1>1, <1>3, <1>4, <1>5, <2>2, <2>3 DEF decision
    <2> QED
      BY <1>2, <2>4 DEF PendingInv, Reporting
  <1> QED
    BY <1>9, <1>10

LEMMA AuditStep ==
    ASSUME IInv, RecordsInv, AuditInv, [Next]_vars
    PROVE  AuditInv'
  <1> USE DEF IInv
  <1>1. CASE Request
    <2>1. /\ status = "serving" /\ status' = "serving" /\ disk' = disk /\ mem = disk
      BY <1>1, RequestGrows DEF Ready, ProcessInv
    <2>2. /\ Recorded(mem) /\ Audited(mem)
          /\ \A c \in Domains: Kept(mem.events, domains[c], c, Len(mem.events))
      BY <2>1 DEF RecordsInv, AuditInv
    <2>3. Audited(mem') /\ PendingInv'
      BY <1>1, <2>1, <2>2, ObserveAudited, DecideAudited, OutcomeAudited DEF Request
    <2> QED
      BY <2>1, <2>3 DEF AuditInv
  <1>2. CASE Finish
    <2>1. /\ call /= Idle /\ status = "serving"
      BY <1>2, StagesDiffer DEF Finish, PersistOk, PersistFail, Respond, ProcessInv, TypeOK, Idle
    <2>2. call \in [stage: {"persist", "respond"}, reply: Reply]
      BY <2>1 DEF TypeOK
    <2>3. call'.stage /= "persist"
      <3>1. CASE PersistOk \/ PersistFail
        BY <2>2, <3>1 DEF PersistOk, PersistFail
      <3>2. CASE Respond
        BY <3>2 DEF Respond, Idle
      <3> QED
        BY <1>2, <3>1, <3>2 DEF Finish
    <2>4. mem' = mem /\ status' = status /\ disk' \in {disk, mem}
      BY <1>2 DEF Finish, PersistOk, PersistFail, Respond, memory
    <2> QED
      BY <2>1, <2>3, <2>4 DEF AuditInv, PendingInv
  <1>3. CASE (Crash \/ Open \/ Recover)
    <2>1. /\ disk' = disk
          /\ status' = "serving" => status = "recovering" /\ mem' = mem
      BY <1>3 DEF Crash, Open, Recover, RecoverEvent, PassOverEvent, RefuseEvent, PanicOnEvent,
         FinishRecovery, memory, Recovering
    <2>2. call'.stage = "idle"
      <3>1. call' = Idle
        BY <1>3 DEF Crash, Open, Recover, RecoverEvent, PassOverEvent, RefuseEvent, PanicOnEvent,
           FinishRecovery, memory, Recovering, Forgotten, ProcessInv
      <3> QED
        BY <3>1 DEF Idle
    <2>3. status' = "serving" => mem' = disk
      BY <2>1 DEF ProcessInv
    <2> QED
      BY <2>1, <2>2, <2>3 DEF AuditInv, PendingInv
  <1>4. CASE UNCHANGED vars
    <2>1. mem' = mem /\ disk' = disk /\ status' = status /\ call' = call
      BY <1>4 DEF vars, memory
    <2> QED
      BY <2>1 DEF AuditInv, PendingInv, Observing, Deciding, Reporting
  <1> QED
    BY <1>1, <1>2, <1>3, <1>4 DEF Next

(* What a client may hold against the log, if the files the server starts   *)
(* from are as it keeps them.                                               *)
THEOREM AuditInvariance ==
    ASSUME \A file \in InitialFiles: Recorded(file) /\ Audited(file)
    PROVE  Spec => []AuditInv
  <1>1. Init => AuditInv
    <2>1. Idle.stage /= "persist"
      BY DEF Idle
    <2> QED
      BY <2>1 DEF Init, AuditInv, PendingInv
  <1>2. IInv /\ RecordsInv /\ AuditInv /\ [Next]_vars => AuditInv'
    BY AuditStep
  <1>3. Spec => []RecordsInv
    BY RecordsInvariance
  <1> QED
    BY <1>1, <1>2, <1>3, Invariance, PTL DEF Spec

(* The logs of the abstraction, and the answer it owes. *)
Observations(log) ==
    [i \in 1..Len(log) |-> [domain |-> log[i].domain, judgment |-> log[i].judgment]]
Decisions(log) ==
    [i \in 1..Len(log) |-> [domain |-> log[i].domain, action |-> log[i].action,
                            verdict |-> log[i].verdict, version |-> log[i].version]]
Outcomes(log) ==
    [i \in 1..Len(log) |-> [decision |-> log[i].decision, version |-> log[i].version]]
Owed == IF call.stage = "respond" /\ ~fatal THEN call.reply ELSE [op |-> "none"]

LEMMA MappedLogs ==
    /\ \A log \in Seq(StoredEvent): \A e \in StoredEvent:
         /\ Observations(Append(log, e)) =
              Append(Observations(log), [domain |-> e.domain, judgment |-> e.judgment])
         /\ Len(Observations(Append(log, e))) = Len(log) + 1
    /\ \A log \in Seq(StoredDecision): \A e \in StoredDecision:
         /\ Decisions(Append(log, e)) =
              Append(Decisions(log), [domain |-> e.domain, action |-> e.action,
                                      verdict |-> e.verdict, version |-> e.version])
         /\ Len(Decisions(Append(log, e))) = Len(log) + 1
    /\ \A log \in Seq(StoredOutcome): \A e \in StoredOutcome:
         /\ Outcomes(Append(log, e)) =
              Append(Outcomes(log), [decision |-> e.decision, version |-> e.version])
         /\ Len(Outcomes(Append(log, e))) = Len(log) + 1
  <1>1. ASSUME NEW log \in Seq(StoredEvent), NEW e \in StoredEvent
        PROVE  /\ Observations(Append(log, e)) =
                    Append(Observations(log), [domain |-> e.domain, judgment |-> e.judgment])
               /\ Len(Observations(Append(log, e))) = Len(log) + 1
    BY DEF Observations
  <1>2. ASSUME NEW log \in Seq(StoredDecision), NEW e \in StoredDecision
        PROVE  /\ Decisions(Append(log, e)) =
                    Append(Decisions(log), [domain |-> e.domain, action |-> e.action,
                                            verdict |-> e.verdict, version |-> e.version])
               /\ Len(Decisions(Append(log, e))) = Len(log) + 1
    BY DEF Decisions
  <1>3. ASSUME NEW log \in Seq(StoredOutcome), NEW e \in StoredOutcome
        PROVE  /\ Outcomes(Append(log, e)) =
                    Append(Outcomes(log), [decision |-> e.decision, version |-> e.version])
               /\ Len(Outcomes(Append(log, e))) = Len(log) + 1
    BY DEF Outcomes
  <1> QED
    BY <1>1, <1>2, <1>3

LEMMA MappedSuspension ==
    ASSUME NEW log \in Seq(StoredEvent), Damned(log), NEW d
    PROVE  (\E i \in 1..Len(Observations(log)): /\ Observations(log)[i].domain = d
                                                /\ Observations(log)[i].judgment \in Damning)
             <=> SuspendedBy(log, d, Len(log))
  <1>1. /\ Len(log) \in Nat /\ Len(Observations(log)) = Len(log)
        /\ \A i \in 1..Len(log): /\ Observations(log)[i].domain = log[i].domain
                                 /\ Observations(log)[i].judgment = log[i].judgment
    BY DEF Observations
  <1>2. ASSUME NEW i \in 1..Len(log), log[i].domain = d, log[i].judgment \in Damning
        PROVE  SuspendedBy(log, d, Len(log))
    <2>1. SuspendedBy(log, d, i) /\ i \in Nat /\ i <= Len(log)
      BY <1>1, <1>2 DEF Damned
    <2> QED
      BY <1>1, <2>1, SuspendedNext
  <1>3. ASSUME SuspendedBy(log, d, Len(log))
        PROVE  \E i \in 1..Len(log): log[i].domain = d /\ log[i].judgment \in Damning
    BY <1>3 DEF SuspendedBy, Damned
  <1> QED
    BY <1>1, <1>2, <1>3

LEMMA AuditInit ==
    ASSUME Init, Audited(disk)
    PROVE  Audit!Init
  <1> DEFINE E == [domain: Domains, judgment: Judgments]
             D == [domain: Domains, action: Actions, verdict: {"ALLOW", "DENY"}, version: Nat]
             O == [decision: 1..Len(disk.decisions), version: Nat]
             event(i) == [domain |-> disk.events[i].domain, judgment |-> disk.events[i].judgment]
             decision(i) == [domain |-> disk.decisions[i].domain, action |-> disk.decisions[i].action,
                             verdict |-> disk.decisions[i].verdict,
                             version |-> disk.decisions[i].version]
             outcome(i) == [decision |-> disk.outcomes[i].decision,
                            version |-> disk.outcomes[i].version]
  <1>1. /\ disk \in Store /\ disk.events \in Seq(StoredEvent)
        /\ disk.decisions \in Seq(StoredDecision) /\ disk.outcomes \in Seq(StoredOutcome)
        /\ Len(disk.events) \in Nat /\ Len(disk.decisions) \in Nat /\ Len(disk.outcomes) \in Nat
    BY FilesAssumption, StoreLogs DEF Init
  <1>2. ASSUME NEW i \in 1..Len(disk.events)
        PROVE  event(i) \in E
    <2>1. disk.events[i] \in StoredEvent /\ disk.events[i].judgment \in Judgments
      BY <1>1 DEF Audited, Damned
    <2> QED
      BY <2>1 DEF StoredEvent
  <1>3. ASSUME NEW i \in 1..Len(disk.decisions)
        PROVE  decision(i) \in D
    <2>1. disk.decisions[i] \in StoredDecision
      BY <1>1
    <2> QED
      BY <2>1 DEF StoredDecision
  <1>4. ASSUME NEW i \in 1..Len(disk.outcomes)
        PROVE  outcome(i) \in O
    <2>1. /\ disk.outcomes[i] \in StoredOutcome
          /\ disk.outcomes[i].decision \in 1..Len(disk.decisions)
      BY <1>1 DEF Audited, OutcomesRecorded
    <2> QED
      BY <2>1 DEF StoredOutcome
  <1>5. /\ Observations(disk.events) = [i \in 1..Len(disk.events) |-> event(i)]
        /\ Decisions(disk.decisions) = [i \in 1..Len(disk.decisions) |-> decision(i)]
        /\ Outcomes(disk.outcomes) = [i \in 1..Len(disk.outcomes) |-> outcome(i)]
    BY DEF Observations, Decisions, Outcomes
  <1> HIDE DEF E, D, event, decision, outcome
  <1>6. Observations(disk.events) \in Seq(E)
    BY <1>1, <1>2, <1>5
  <1>7. Decisions(disk.decisions) \in Seq(D) /\ DOMAIN Decisions(disk.decisions) = 1..Len(disk.decisions)
    BY <1>1, <1>3, <1>5
  <1>8. Outcomes(disk.outcomes) \in Seq(O)
    <2> HIDE DEF O
    <2> QED
      BY <1>1, <1>4, <1>5
  <1>9. Owed = [op |-> "none"] /\ acks = <<>>
    BY DEF Init, Owed, Idle
  <1> QED
    BY <1>6, <1>7, <1>8, <1>9, Zenon
       DEF Audit!Init, Audit!Nothing, Observations, Decisions, Outcomes, Owed, E, D

(* A request written is the entry a client would imagine. *)
LEMMA WrittenIsAudited ==
    ASSUME IInv, RecordsInv, AuditInv, PersistOk
    PROVE  Audit!Next
  <1> DEFINE reply == call.reply
             observations == Observations(disk.events)
             decisions == Decisions(disk.decisions)
             outcomes == Outcomes(disk.outcomes)
  <1>1. /\ call.stage = "persist" /\ ~fatal /\ disk' = mem /\ acks' = acks
        /\ mem \in Store /\ disk \in Store
        /\ call \in [stage: {"persist", "respond"}, reply: Reply]
        /\ call' = [call EXCEPT !.stage = "respond"] /\ fatal' = fatal
    BY StagesDiffer DEF PersistOk, IInv, ProcessInv, TypeOK, Idle, memory
  <1>2. status = "serving"
    BY <1>1 DEF IInv, ProcessInv, TypeOK, Idle
  <1>3. Recorded(mem) /\ Audited(mem) /\ Recorded(disk) /\ Audited(disk)
    BY <1>2 DEF RecordsInv, AuditInv
  <1>4. Owed = [op |-> "none"] /\ Owed' = reply
    BY <1>1 DEF Owed
  <1>5. /\ mem.events \in Seq(StoredEvent) /\ disk.events \in Seq(StoredEvent)
        /\ mem.decisions \in Seq(StoredDecision) /\ disk.decisions \in Seq(StoredDecision)
        /\ mem.outcomes \in Seq(StoredOutcome) /\ disk.outcomes \in Seq(StoredOutcome)
    BY <1>1, StoreLogs
  <1>6. \A d: /\ Audit!Suspended(d) <=> SuspendedBy(disk.events, d, Len(disk.events))
              /\ Audit!Suspended(d)' <=> SuspendedBy(mem.events, d, Len(mem.events))
    <2>1. ASSUME NEW d
          PROVE  Audit!Suspended(d) <=> SuspendedBy(disk.events, d, Len(disk.events))
      BY <1>3, <1>5, MappedSuspension DEF Audited, Audit!Suspended, Observations
    <2>2. ASSUME NEW d
          PROVE  Audit!Suspended(d)' <=> SuspendedBy(mem.events, d, Len(mem.events))
      <3>1. disk'.events \in Seq(StoredEvent) /\ Damned(disk'.events)
        BY <1>1, <1>3, <1>5 DEF Audited
      <3>2. Audit!Suspended(d)' <=> SuspendedBy(disk'.events, d, Len(disk'.events))
        BY <3>1, MappedSuspension DEF Audit!Suspended, Observations
      <3> QED
        BY <1>1, <3>2
    <2> QED
      BY <2>1, <2>2
  <1>7. \A d: /\ Audit!Version(d) = VersionBy(disk.events, d, Len(disk.events))
              /\ Audit!Version(d)' = VersionBy(mem.events, d, Len(mem.events))
    BY <1>6 DEF Audit!Version, VersionBy
  <1>8. CASE \E event \in StoredEvent: Observing(reply, event)
    <2>1. PICK event \in StoredEvent: Observing(reply, event)
      BY <1>8
    <2> DEFINE d == event.domain
    <2>2. d \in Domains /\ mem.events = Append(disk.events, event)
      BY <2>1 DEF Observing, StoredEvent
    <2>3. /\ Len(mem.events) = Len(disk.events) + 1 /\ Len(disk.events) \in Nat
          /\ mem.events[Len(mem.events)] = event
      BY <1>5, <2>2, AppendExtends
    <2>4. EventRecorded(mem.events, Len(mem.events)) /\ event.judgment \in Judgments
      BY <1>3, <2>3 DEF Recorded, Audited, Damned
    <2>5. /\ event.id = Len(mem.events) /\ event.version = VersionBy(mem.events, d, Len(mem.events))
          /\ event.transitions /= {} => /\ Suspends(event)
                                        /\ ~SuspendedBy(mem.events, d, Len(disk.events))
      BY <2>3, <2>4 DEF EventRecorded
    <2>6. /\ SuspendedBy(mem.events, d, Len(disk.events)) <=> SuspendedBy(disk.events, d, Len(disk.events))
          /\ SuspendedBy(mem.events, d, Len(mem.events)) <=>
               SuspendedBy(mem.events, d, Len(disk.events)) \/ Suspends(event)
      <3>1. Extends(disk.events, mem.events) /\ Len(disk.events) \in 0..Len(disk.events)
        BY <1>5, <2>2, <2>3, AppendExtends
      <3> QED
        BY <2>3, <3>1, PrefixSaysTheSame, SuspendedNext
    <2>7. event.transitions /= {} <=> Audit!Suspended(d)' /\ ~Audit!Suspended(d)
      BY <1>6, <2>5, <2>6 DEF Suspends
    <2>8. /\ Observations(mem.events) =
                Append(Observations(disk.events), [domain |-> d, judgment |-> event.judgment])
          /\ Len(Observations(mem.events)) = Len(mem.events)
      BY <1>5, <2>2, <2>3, MappedLogs
    <2>9. Audit!Observe(d, event.judgment)
      <3>1. /\ observations' = Append(observations, [domain |-> d, judgment |-> event.judgment])
            /\ decisions' = decisions /\ outcomes' = outcomes
        BY <1>1, <2>1, <2>8 DEF Observing
      <3>2. Owed' = [op |-> "observe", id |-> Len(observations'), domain |-> d,
                     version |-> Audit!Version(d)',
                     answer |-> IF Audit!Suspended(d)' /\ ~Audit!Suspended(d)
                                THEN "CHANGED" ELSE "UNCHANGED"]
        BY <1>1, <1>4, <1>7, <2>1, <2>5, <2>7, <2>8 DEF Observing
      <3> QED
        BY <1>1, <1>4, <3>1, <3>2
           DEF Audit!Observe, Audit!Nothing, Audit!Answer, Observations, Decisions, Outcomes, Owed
    <2> QED
      BY <2>2, <2>4, <2>9 DEF Audit!Next
  <1>9. CASE \E decision \in StoredDecision: Deciding(reply, decision)
    <2>1. PICK decision \in StoredDecision: Deciding(reply, decision)
      BY <1>9
    <2> DEFINE d == decision.domain
               verdict == IF Audit!Suspended(d) THEN "DENY" ELSE "ALLOW"
    <2>2. /\ d \in Domains /\ decision.action \in Actions
          /\ mem.decisions = Append(disk.decisions, decision)
          /\ mem.events = disk.events /\ mem.outcomes = disk.outcomes
      BY <2>1 DEF Deciding, StoredDecision
    <2>3. /\ Len(mem.decisions) = Len(disk.decisions) + 1 /\ Len(disk.decisions) \in Nat
          /\ mem.decisions[Len(mem.decisions)] = decision
      BY <1>5, <2>2, AppendExtends
    <2>4. decision.id = Len(mem.decisions)
      BY <1>3, <2>3 DEF Recorded
    <2>5. decision.version = Audit!Version(d) /\ decision.verdict = verdict
      BY <1>6, <1>7, <2>1, <2>2 DEF Deciding, DecidedAt
    <2>6. /\ Decisions(mem.decisions) =
                Append(Decisions(disk.decisions),
                       [domain |-> d, action |-> decision.action,
                        verdict |-> verdict, version |-> Audit!Version(d)])
          /\ Len(Decisions(mem.decisions)) = Len(mem.decisions)
      BY <1>5, <2>2, <2>3, <2>5, MappedLogs
    <2>7. Audit!Decide(d, decision.action)
      <3>1. /\ decisions' = Append(decisions, [domain |-> d, action |-> decision.action,
                                               verdict |-> verdict, version |-> Audit!Version(d)])
            /\ observations' = observations /\ outcomes' = outcomes
        BY <1>1, <2>2, <2>6
      <3>2. Owed' = [op |-> "decide", id |-> Len(decisions'), domain |-> d,
                     version |-> Audit!Version(d), answer |-> verdict]
        BY <1>1, <1>4, <2>1, <2>4, <2>5, <2>6 DEF Deciding
      <3> QED
        BY <1>1, <1>4, <3>1, <3>2
           DEF Audit!Decide, Audit!Nothing, Audit!Answer, Observations, Decisions, Outcomes, Owed
    <2> QED
      BY <2>2, <2>7 DEF Audit!Next
  <1>10. CASE \E outcome \in StoredOutcome: Reporting(reply, outcome)
    <2>1. PICK outcome \in StoredOutcome: Reporting(reply, outcome)
      BY <1>10
    <2> DEFINE id == outcome.decision
               d == outcome.domain
    <2>2. /\ mem.outcomes = Append(disk.outcomes, outcome)
          /\ mem.events = disk.events /\ mem.decisions = disk.decisions
          /\ id \in 1..Len(disk.decisions) /\ d = disk.decisions[id].domain
      BY <2>1 DEF Reporting
    <2>3. Len(mem.outcomes) = Len(disk.outcomes) + 1
      BY <1>5, <2>2, AppendExtends
    <2>4. outcome.version = Audit!Version(d)
      BY <1>7, <2>1, <2>2 DEF Reporting
    <2>5. /\ Outcomes(mem.outcomes) =
                Append(Outcomes(disk.outcomes), [decision |-> id, version |-> Audit!Version(d)])
          /\ Len(Outcomes(mem.outcomes)) = Len(mem.outcomes)
      BY <1>5, <2>2, <2>3, <2>4, MappedLogs
    <2>6. DOMAIN decisions = 1..Len(disk.decisions) /\ decisions[id].domain = d
      BY <2>2 DEF Decisions
    <2>7. Audit!RecordOutcome(id)
      <3>1. /\ outcomes' = Append(outcomes, [decision |-> id, version |-> Audit!Version(d)])
            /\ observations' = observations /\ decisions' = decisions
        BY <1>1, <2>2, <2>5
      <3>2. Owed' = [op |-> "outcome", id |-> Len(outcomes'), domain |-> d,
                     version |-> Audit!Version(d), answer |-> "RECORDED"]
        BY <1>1, <1>4, <2>1, <2>4, <2>5 DEF Reporting
      <3> QED
        BY <1>1, <1>4, <2>6, <3>1, <3>2
           DEF Audit!RecordOutcome, Audit!Nothing, Audit!Answer, Observations, Decisions, Outcomes,
               Owed
    <2> QED
      BY <2>2, <2>6, <2>7 DEF Audit!Next, Decisions
  <1> QED
    BY <1>1, <1>8, <1>9, <1>10 DEF AuditInv, PendingInv

(* The server, with its memory, its file, its failed writes, its crashes    *)
(* and its recoveries, implements the three logs a client would imagine:    *)
(* an entry appears when its file is written, its answer is told from the   *)
(* log or lost with the process, and nothing else happens.  The files the   *)
(* server starts from are as it keeps them.                                 *)
THEOREM ServerImplementsAuditLog ==
    ASSUME \A file \in InitialFiles: Recorded(file) /\ Audited(file)
    PROVE  Spec => ImplementsAuditLog
  <1>1. Init => Audit!Init
    <2> SUFFICES ASSUME Init
                 PROVE  Audit!Init
      OBVIOUS
    <2>1. Audited(disk)
      BY DEF Init
    <2> QED
      BY <2>1, AuditInit
  <1>2. IInv /\ RecordsInv /\ AuditInv /\ [Next]_vars => [Audit!Next]_(Audit!vars)
    <2> SUFFICES ASSUME IInv, RecordsInv, AuditInv, [Next]_vars
                 PROVE  Audit!Next \/ UNCHANGED <<disk, Owed, acks>>
      BY DEF Audit!vars, Owed
    <2>1. CASE PersistOk
      BY <2>1, WrittenIsAudited
    <2>2. CASE Respond
      <3>1. /\ call.stage = "respond" /\ call' = Idle /\ fatal' = fatal /\ disk' = disk
            /\ acks' = IF fatal THEN acks ELSE Append(acks, call.reply)
        BY <2>2 DEF Respond, memory
      <3>2. Owed' = [op |-> "none"]
        BY <3>1 DEF Owed, Idle
      <3>3. CASE fatal
        BY <3>1, <3>2, <3>3 DEF Owed
      <3>4. CASE ~fatal
        <4>1. Owed = call.reply
          BY <3>1, <3>4 DEF Owed
        <4>2. call.reply.op \in {"observe", "decide", "outcome"}
          <5>1. call \in [stage: {"persist", "respond"}, reply: Reply]
            BY <3>1 DEF IInv, TypeOK, Idle
          <5> QED
            BY <5>1 DEF Reply, ReplyTo
        <4> QED
          BY <3>1, <3>2, <3>4, <4>1, <4>2 DEF Audit!Next, Audit!Tell, Audit!Nothing, Owed
      <3> QED
        BY <3>3, <3>4
    <2>3. CASE Crash
      <3>1. disk' = disk /\ acks' = acks /\ Owed' = [op |-> "none"]
        BY <2>3 DEF Crash, Forgotten, Owed, Idle
      <3> QED
        BY <3>1 DEF Audit!Next, Audit!Drop, Audit!Nothing, Owed
    <2>4. CASE Request \/ PersistFail \/ Open \/ Recover \/ UNCHANGED vars
      <3>1. disk' = disk /\ acks' = acks
        BY <2>4, RequestGrows DEF IInv, PersistFail, Open, Recover, RecoverEvent, PassOverEvent,
           RefuseEvent, PanicOnEvent, FinishRecovery, vars
      <3>2. Idle.stage = "idle"
        BY DEF Idle
      <3>3. CASE Request
        <4>1. call = Idle /\ call'.stage = "persist"
          BY <3>3, RequestGrows DEF IInv, Ready
        <4> QED
          BY <3>1, <3>2, <4>1 DEF Owed
      <3>4. CASE PersistFail
        BY <3>1, <3>4 DEF PersistFail, Owed
      <3>5. CASE Open \/ Recover
        <4>1. call = Idle /\ call' = Idle
          BY <3>5 DEF IInv, ProcessInv, Open, Recover, Recovering, RecoverEvent, PassOverEvent,
             RefuseEvent, PanicOnEvent, FinishRecovery, Forgotten
        <4> QED
          BY <3>1, <3>2, <4>1 DEF Owed
      <3>6. CASE UNCHANGED vars
        BY <3>1, <3>6 DEF vars, memory, Owed
      <3> QED
        BY <2>4, <3>1, <3>3, <3>4, <3>5, <3>6
    <2> QED
      BY <2>1, <2>2, <2>3, <2>4 DEF Next, Finish
  <1>3. (Spec => []RecordsInv) /\ (Spec => []AuditInv)
    BY RecordsInvariance, AuditInvariance
  <1> QED
    BY <1>1, <1>2, <1>3, Invariance, PTL DEF Spec, ImplementsAuditLog, Audit!Spec

-----------------------------------------------------------------------------
(***************************************************************************)
(* The remote profile.  What waits for the lock is the principal's, and    *)
(* what memory holds beyond the file is the principal's: the authorization *)
(* was checked on the file, but the file's first decision of an id never   *)
(* changes, and memory begins with the file.                               *)
(***************************************************************************)
DomainRequest(request) == request \in [tool: {"observe", "decide"}, domain: Own]

DecisionRequest(request) ==
    /\ request \in [tool: {"explain", "outcome", "validate"}, decision: 1..MaxDecisions]
    /\ KnowsDecision(disk, request.decision)
    /\ Decision(disk, request.decision).domain \in Own

(* Between two stores nothing concerns this domain. *)
Quiet(store, later, d) ==
    /\ NoNews(store.events, later.events, d)
    /\ NoNews(store.decisions, later.decisions, d)
    /\ NoNews(store.outcomes, later.outcomes, d)
    /\ later.versions[d] = store.versions[d]

RemoteInv ==
    /\ inflight /= {} => status = "serving"
    /\ \A request \in inflight: DomainRequest(request) \/ DecisionRequest(request)
    /\ status = "serving" => \A d \in Domains \ Own: Quiet(disk, mem, d)
    /\ ExplainedAreOwn

LEMMA NoNewsFacts ==
    ASSUME NEW S, NEW d
    PROVE  /\ \A log \in Seq(S): NoNews(log, log, d)
           /\ \A log \in Seq(S), e \in S: e.domain /= d => NoNews(log, Append(log, e), d)
           /\ \A first, second, third \in Seq(S):
                NoNews(first, second, d) /\ NoNews(second, third, d) => NoNews(first, third, d)
  <1>1. \A log \in Seq(S): NoNews(log, log, d)
    BY DEF NoNews, Extends
  <1>2. ASSUME NEW log \in Seq(S), NEW e \in S, e.domain /= d
        PROVE  NoNews(log, Append(log, e), d)
    <2>1. /\ Extends(log, Append(log, e))
          /\ Len(Append(log, e)) = Len(log) + 1
          /\ Append(log, e)[Len(log) + 1] = e
          /\ Len(log) \in Nat
      BY AppendExtends
    <2>2. \A i \in 1..(Len(log) + 1): i > Len(log) => i = Len(log) + 1
      BY <2>1
    <2> QED
      BY <1>2, <2>1, <2>2 DEF NoNews
  <1>3. ASSUME NEW first \in Seq(S), NEW second \in Seq(S), NEW third \in Seq(S),
               NoNews(first, second, d), NoNews(second, third, d)
        PROVE  NoNews(first, third, d)
    <2>1. Extends(first, third)
      BY <1>3, ExtendsTransitive DEF NoNews
    <2>2. ASSUME NEW i \in 1..Len(third), i > Len(first)
          PROVE  third[i].domain /= d
      <3>1. CASE i > Len(second)
        BY <1>3, <3>1 DEF NoNews
      <3>2. CASE i <= Len(second)
        <4>1. i \in 1..Len(second) /\ third[i] = second[i]
          BY <1>3, <3>2 DEF NoNews, Extends
        <4> QED
          BY <1>3, <2>2, <4>1 DEF NoNews
      <3> QED
        BY <3>1, <3>2
    <2> QED
      BY <2>1, <2>2 DEF NoNews
  <1> QED
    BY <1>1, <1>2, <1>3

LEMMA QuietFacts ==
    ASSUME NEW d
    PROVE  /\ \A store \in Store: Quiet(store, store, d)
           /\ \A first, second, third \in Store:
                Quiet(first, second, d) /\ Quiet(second, third, d) => Quiet(first, third, d)
  <1>1. ASSUME NEW store \in Store
        PROVE  Quiet(store, store, d)
    BY StoreLogs, NoNewsFacts DEF Quiet
  <1>2. ASSUME NEW first \in Store, NEW second \in Store, NEW third \in Store,
               Quiet(first, second, d), Quiet(second, third, d)
        PROVE  Quiet(first, third, d)
    <2>1. /\ NoNews(first.events, third.events, d)
          /\ NoNews(first.decisions, third.decisions, d)
          /\ NoNews(first.outcomes, third.outcomes, d)
      BY <1>2, StoreLogs, NoNewsFacts DEF Quiet
    <2> QED
      BY <1>2, <2>1 DEF Quiet
  <1> QED
    BY <1>1, <1>2

(* The first decision with an id stays the first. *)
LEMMA DecisionLater ==
    ASSUME NEW store \in Store, NEW later \in Store, Grows(store, later), NEW id,
           KnowsDecision(store, id)
    PROVE  KnowsDecision(later, id) /\ Decision(later, id) = Decision(store, id)
  <1>1. /\ Len(store.decisions) \in Nat /\ Len(later.decisions) \in Nat
        /\ Len(store.decisions) <= Len(later.decisions)
        /\ \A i \in 1..Len(store.decisions): later.decisions[i] = store.decisions[i]
    BY StoreLogs DEF Grows, Extends
  <1>2. KnowsDecision(later, id)
    BY <1>1 DEF KnowsDecision
  <1>3. PICK i \in 1..Len(store.decisions):
          /\ Decision(store, id) = store.decisions[i]
          /\ \A j \in 1..(i - 1): store.decisions[j].id /= id
    BY DecisionIsLogged
  <1>4. PICK k \in 1..Len(later.decisions):
          /\ Decision(later, id) = later.decisions[k]
          /\ \A j \in 1..(k - 1): later.decisions[j].id /= id
    BY <1>2, DecisionIsLogged
  <1>5. store.decisions[i].id = id /\ later.decisions[k].id = id
    BY <1>2, <1>3, <1>4, DecisionIsLogged
  <1>6. i = k
    <2>1. ~(k < i)
      BY <1>1, <1>3, <1>5
    <2>2. ~(i < k)
      BY <1>1, <1>4, <1>5
    <2> QED
      BY <1>1, <2>1, <2>2
  <1> QED
    BY <1>1, <1>2, <1>3, <1>4, <1>6

(* What the server does for a request that was let through concerns the     *)
(* principal's domains only.                                                *)
LEMMA DispatchIsOwn ==
    ASSUME TypeOK, ProcessInv, RemoteInv, NEW request \in inflight,
           DispatchObserve(request) \/ DispatchDecide(request) \/ DispatchOutcome(request)
    PROVE  Request /\ \A d \in Domains \ Own: Quiet(mem, mem', d)
  <1>1. mem \in Store /\ disk \in Store
    BY DEF TypeOK
  <1>2. \A store \in Store: /\ store.events \in Seq(StoredEvent)
                            /\ store.decisions \in Seq(StoredDecision)
                            /\ store.outcomes \in Seq(StoredOutcome)
    BY StoreLogs
  <1>3. CASE DispatchObserve(request)
    <2>1. request.domain \in Own
      BY <1>3 DEF DispatchObserve, RemoteInv, DomainRequest, DecisionRequest
    <2>2. request.domain \in Domains
      BY <2>1 DEF Own
    <2>3. PICK judgment \in Judgments: Observe(request.domain, judgment)
      BY <1>3 DEF DispatchObserve
    <2> DEFINE event == EventOf(request.domain, judgment)
               store == StoreBefore(request.domain, judgment)
    <2>4. /\ mem'.events = Append(mem.events, event)
          /\ mem'.decisions = mem.decisions
          /\ mem'.outcomes = mem.outcomes
          /\ mem'.versions = store.versions
          /\ event \in StoredEvent /\ event.domain = request.domain
      BY <2>2, <2>3, ObserveGrows, ObservedType DEF EventOf
    <2>5. \A d \in Domains \ Own: store.versions[d] = mem.versions[d]
      <3>1. \/ store = mem
            \/ store.versions = [mem.versions EXCEPT ![request.domain] = @ + 1]
        BY <1>1, <2>2, Recording DEF StoreBefore
      <3> QED
        BY <1>1, <2>1, <3>1, StoreLogs
    <2> HIDE DEF event, store
    <2>6. \A d \in Domains \ Own: Quiet(mem, mem', d)
      <3> TAKE d \in Domains \ Own
      <3>1. event.domain /= d
        BY <2>1, <2>4
      <3>2. NoNews(mem.events, mem'.events, d)
        BY <1>1, <1>2, <2>4, <3>1, NoNewsFacts
      <3>3. NoNews(mem.decisions, mem'.decisions, d) /\ NoNews(mem.outcomes, mem'.outcomes, d)
        BY <1>1, <1>2, <2>4, NoNewsFacts
      <3> QED
        BY <2>4, <2>5, <3>2, <3>3 DEF Quiet
    <2> QED
      BY <2>2, <2>3, <2>6 DEF Request
  <1>4. CASE DispatchDecide(request)
    <2>1. request.domain \in Own
      BY <1>4 DEF DispatchDecide, RemoteInv, DomainRequest, DecisionRequest
    <2>2. request.domain \in Domains
      BY <2>1 DEF Own
    <2>3. PICK action \in Actions: Decide(request.domain, action)
      BY <1>4 DEF DispatchDecide
    <2> DEFINE decision == IssuedDecision(request.domain, action)
    <2>4. /\ mem'.decisions = Append(mem.decisions, decision)
          /\ mem'.events = mem.events
          /\ mem'.outcomes = mem.outcomes
          /\ mem'.versions = mem.versions
          /\ decision \in StoredDecision /\ decision.domain = request.domain
      BY <2>2, <2>3, DecideGrows, DecisionOfType DEF IssuedDecision
    <2> HIDE DEF decision
    <2>5. \A d \in Domains \ Own: Quiet(mem, mem', d)
      BY <1>1, <1>2, <2>1, <2>4, NoNewsFacts DEF Quiet
    <2> QED
      BY <2>2, <2>3, <2>5 DEF Request
  <1>5. CASE DispatchOutcome(request)
    <2>1. /\ request.decision \in 1..MaxDecisions
          /\ KnowsDecision(disk, request.decision)
          /\ Decision(disk, request.decision).domain \in Own
      BY <1>5 DEF DispatchOutcome, RemoteInv, DomainRequest, DecisionRequest
    <2>2. PICK kind \in OutcomeKinds: RecordOutcomeOf(request.decision, kind)
      BY <1>5 DEF DispatchOutcome
    <2>3. mem = disk
      BY <2>2, OutcomeSteps DEF ProcessInv
    <2> DEFINE outcome == OutcomeFor(mem, request.decision, kind)
    <2>4. /\ mem'.outcomes = Append(mem.outcomes, outcome)
          /\ mem'.events = mem.events
          /\ mem'.decisions = mem.decisions
          /\ mem'.versions = mem.versions
      BY <2>2, OutcomeGrows
    <2>5. outcome \in StoredOutcome /\ outcome.domain \in Own
      BY <1>1, <2>1, <2>3, OutcomeForType
    <2> HIDE DEF outcome
    <2>6. \A d \in Domains \ Own: Quiet(mem, mem', d)
      BY <1>1, <1>2, <2>4, <2>5, NoNewsFacts DEF Quiet
    <2> QED
      BY <2>1, <2>2, <2>6 DEF Request
  <1> QED
    BY <1>3, <1>4, <1>5

(* Every remote step is a step of the server or leaves it alone. *)
LEMMA RemoteStepServes ==
    ASSUME TypeOK, ProcessInv, RemoteInv, [RemoteNext]_remoteVars
    PROVE  [Next]_vars
  <1>1. CASE \E tool, subject, scope: AuthorizeDomainCall(tool, subject, scope)
    BY <1>1 DEF AuthorizeDomainCall, Admitted
  <1>2. CASE \E tool, id: AuthorizeDecisionCall(tool, id)
    BY <1>2 DEF AuthorizeDecisionCall, Admitted
  <1>3. ASSUME NEW request \in inflight,
               DispatchObserve(request) \/ DispatchDecide(request) \/ DispatchOutcome(request)
        PROVE  Next
    BY <1>3, DispatchIsOwn DEF Next
  <1>4. ASSUME NEW request \in inflight,
               DispatchExplain(request) \/ DispatchValidate(request) \/ RefuseDispatch(request)
        PROVE  UNCHANGED vars
    BY <1>4 DEF DispatchExplain, DispatchValidate, RefuseDispatch
  <1>5. CASE RemoteCrash \/ Server
    BY <1>5 DEF RemoteCrash, Server, Next
  <1>6. CASE UNCHANGED remoteVars
    BY <1>6 DEF remoteVars
  <1> QED
    BY <1>1, <1>2, <1>3, <1>4, <1>5, <1>6 DEF RemoteNext

LEMMA RemoteStart ==
    ASSUME RemoteInit
    PROVE  IInv /\ RemoteInv
  <1>1. Init /\ inflight = {} /\ explained = {} /\ status = "down"
    BY DEF RemoteInit, Init
  <1> QED
    BY <1>1, IInvInit DEF RemoteInv, ExplainedAreOwn

LEMMA RemoteStep ==
    ASSUME IInv, RemoteInv, [RemoteNext]_remoteVars
    PROVE  RemoteInv'
  <1>1. /\ TypeOK /\ TypeOK' /\ ProcessInv
        /\ [Next]_vars
    BY RemoteStepServes, IInvStep DEF IInv
  <1>2. mem \in Store /\ disk \in Store /\ mem' \in Store /\ disk' \in Store
    BY <1>1 DEF TypeOK
  <1>3. Grows(disk, disk')
    BY <1>1, DiskGrows
  <1>4. \A request: DecisionRequest(request) => DecisionRequest(request)'
    BY <1>2, <1>3, DecisionLater DEF DecisionRequest
  <1>5. ASSUME UNCHANGED vars, explained' = explained,
               \A request \in inflight' \ inflight:
                 status = "serving" /\ (DomainRequest(request) \/ DecisionRequest(request))
        PROVE  RemoteInv'
    <2>1. status' = status /\ disk' = disk /\ mem' = mem
      BY <1>5 DEF vars, memory
    <2> QED
      BY <1>4, <1>5, <2>1 DEF RemoteInv, ExplainedAreOwn, DomainRequest
  <1>6. ASSUME NEW tool \in {"observe", "decide"}, NEW subject, NEW scope,
               AuthorizeDomainCall(tool, subject, scope)
        PROVE  RemoteInv'
    <2>1. Addressed(subject, scope) \in Own
      BY <1>6, OwnDomainsAssumption DEF AuthorizeDomainCall, EnsureScope, Addressed, Own
    <2> QED
      BY <1>5, <1>6, <2>1 DEF AuthorizeDomainCall, Admitted, DomainRequest
  <1>7. ASSUME NEW tool \in {"explain", "outcome", "validate"}, NEW id \in 1..MaxDecisions,
               AuthorizeDecisionCall(tool, id)
        PROVE  RemoteInv'
    <2>1. KnowsDecision(disk, id) /\ Decision(disk, id).domain \in Own
      <3>1. Decision(disk, id) \in StoredDecision
        BY <1>2, <1>7, DecisionIsLogged DEF AuthorizeDecisionCall, EnsureDecisionAccess
      <3>2. Decision(disk, id).domain \in Domains
        BY <3>1 DEF StoredDecision
      <3> QED
        BY <1>7, <3>2 DEF AuthorizeDecisionCall, EnsureDecisionAccess, EnsureScope, Own
    <2> QED
      BY <1>5, <1>7, <2>1 DEF AuthorizeDecisionCall, Admitted, DecisionRequest
  <1>8. ASSUME NEW request \in inflight,
               DispatchObserve(request) \/ DispatchDecide(request) \/ DispatchOutcome(request)
        PROVE  RemoteInv'
    <2>1. Request /\ \A d \in Domains \ Own: Quiet(mem, mem', d)
      BY <1>1, <1>8, DispatchIsOwn
    <2>2. inflight' \subseteq inflight /\ explained' = explained
      BY <1>8 DEF DispatchObserve, DispatchDecide, DispatchOutcome, Dispatched
    <2>3. disk' = disk /\ status' = status
      BY <1>1, <2>1, RequestGrows
    <2>4. status = "serving" => \A d \in Domains \ Own: Quiet(disk', mem', d)
      BY <1>2, <2>1, <2>3, QuietFacts DEF RemoteInv
    <2> QED
      BY <1>4, <2>2, <2>3, <2>4 DEF RemoteInv, ExplainedAreOwn, DomainRequest
  <1>9. ASSUME NEW request \in inflight, DispatchExplain(request) \/ DispatchValidate(request)
        PROVE  RemoteInv'
    <2>1. inflight' \subseteq inflight /\ UNCHANGED vars
      BY <1>9 DEF DispatchExplain, DispatchValidate, Dispatched
    <2>2. status = "serving" /\ DecisionRequest(request)
      BY <1>9 DEF RemoteInv, DispatchExplain, DispatchValidate, DomainRequest
    <2>3. Decision(mem, request.decision) = Decision(disk, request.decision)
      BY <1>1, <1>2, <2>2, DecisionLater DEF ProcessInv, DecisionRequest
    <2>4. explained' \subseteq explained \cup {Decision(disk, request.decision)}
      BY <1>9, <2>3 DEF DispatchExplain, DispatchValidate
    <2>5. ExplainedAreOwn'
      BY <2>2, <2>4 DEF RemoteInv, ExplainedAreOwn, DecisionRequest
    <2>6. status' = status /\ disk' = disk /\ mem' = mem
      BY <2>1 DEF vars, memory
    <2> QED
      BY <1>4, <2>1, <2>5, <2>6 DEF RemoteInv, DomainRequest
  <1>10. ASSUME NEW request \in inflight, RefuseDispatch(request)
         PROVE  RemoteInv'
    BY <1>5, <1>10 DEF RefuseDispatch, Dispatched
  <1>11. CASE RemoteCrash
    <2>1. inflight' = {} /\ explained' = explained /\ status' = "down"
      BY <1>11 DEF RemoteCrash, Crash
    <2> QED
      BY <2>1 DEF RemoteInv, ExplainedAreOwn
  <1>12. CASE Server
    <2>1. inflight' = inflight /\ explained' = explained
      BY <1>12 DEF Server
    <2>2. CASE Finish
      <3>1. status' = status
        BY <2>2 DEF Finish, PersistOk, PersistFail, Respond
      <3>2. \/ disk' = disk /\ mem' = mem
            \/ disk' = mem /\ mem' = mem
        BY <2>2 DEF Finish, PersistOk, PersistFail, Respond, memory
      <3>3. status = "serving" => \A d \in Domains \ Own: Quiet(disk', mem', d)
        BY <1>2, <3>2, QuietFacts DEF RemoteInv
      <3> QED
        BY <1>4, <2>1, <3>1, <3>3 DEF RemoteInv, ExplainedAreOwn, DomainRequest
    <2>3. CASE Open \/ Recover
      <3>1. status /= "serving"
        BY <2>3 DEF Open, Recover, RecoverEvent, PassOverEvent, RefuseEvent, PanicOnEvent,
                    FinishRecovery, Recovering
      <3>2. inflight = {}
        BY <3>1 DEF RemoteInv
      <3>3. status' = "serving" => mem' = mem /\ disk' = disk /\ mem = disk
        BY <1>1, <2>3 DEF Open, Recover, RecoverEvent, PassOverEvent, RefuseEvent, PanicOnEvent,
                          FinishRecovery, Recovering, memory, ProcessInv
      <3>4. status' = "serving" => \A d \in Domains \ Own: Quiet(disk', mem', d)
        BY <1>2, <3>3, QuietFacts
      <3> QED
        BY <2>1, <3>2, <3>4 DEF RemoteInv, ExplainedAreOwn
    <2> QED
      BY <1>12, <2>2, <2>3 DEF Server
  <1>13. CASE UNCHANGED remoteVars
    BY <1>5, <1>13 DEF remoteVars
  <1> QED
    BY <1>6, <1>7, <1>8, <1>9, <1>10, <1>11, <1>12, <1>13 DEF RemoteNext

(* The server stays consistent behind the remote profile, and every waiting *)
(* request is one the principal may make.                                   *)
THEOREM RemoteInvariance == RemoteSpec => [](IInv /\ RemoteInv)
  <1>1. RemoteInit => IInv /\ RemoteInv
    BY RemoteStart
  <1>2. IInv /\ RemoteInv /\ [RemoteNext]_remoteVars => (IInv /\ RemoteInv)'
    <2>1. ASSUME IInv, RemoteInv, [RemoteNext]_remoteVars
          PROVE  IInv' /\ RemoteInv'
      BY <2>1, RemoteStep, RemoteStepServes, IInvStep DEF IInv
    <2> QED
      BY <2>1
  <1> QED
    BY <1>1, <1>2, PTL DEF RemoteSpec

(* Every behaviour of the server behind the remote profile is one of the    *)
(* server alone: what is proved of the server holds of it too.              *)
THEOREM RemoteImplements == RemoteSpec => Spec
  <1>1. RemoteInit => Init
    BY DEF RemoteInit
  <1>2. IInv /\ RemoteInv /\ [RemoteNext]_remoteVars => [Next]_vars
    BY RemoteStepServes DEF IInv
  <1> QED
    BY <1>1, <1>2, RemoteInvariance, PTL DEF RemoteSpec, Spec

(* A decision that is shown was the principal's, in an allowed scope,       *)
(* although the check read the file and the tool reads later.               *)
THEOREM ExplainedHold == RemoteSpec => []ExplainedAreOwn
  BY RemoteInvariance, PTL DEF RemoteInv

(* A request that waits for the lock finds in memory the very decision that *)
(* was checked in the file.                                                 *)
THEOREM CheckedHold == RemoteSpec => []CheckedIsUsed
  <1>1. IInv /\ RemoteInv => CheckedIsUsed
    <2> SUFFICES ASSUME IInv, RemoteInv, NEW request \in inflight,
                        request.tool \in {"explain", "outcome"}
                 PROVE  /\ KnowsDecision(mem, request.decision)
                        /\ Decision(mem, request.decision) = Decision(disk, request.decision)
      BY DEF CheckedIsUsed
    <2>1. status = "serving" /\ KnowsDecision(disk, request.decision)
      BY DEF RemoteInv, DomainRequest, DecisionRequest
    <2>2. Grows(disk, mem) /\ disk \in Store /\ mem \in Store
      BY <2>1 DEF IInv, ProcessInv, TypeOK
    <2> QED
      BY <2>1, <2>2, DecisionLater
  <1> QED
    BY <1>1, RemoteInvariance, PTL

(* Nothing the file says about a domain outside the principal's scopes ever *)
(* changes, whatever a remote client asks and whatever fails in between.    *)
THEOREM ForeignUntouched == RemoteSpec => ForeignDomainsUntouched
  <1> DEFINE Untouched == \A d \in Domains \ Own:
         /\ NoNews(disk.events, disk'.events, d)
         /\ NoNews(disk.decisions, disk'.decisions, d)
         /\ NoNews(disk.outcomes, disk'.outcomes, d)
         /\ disk'.versions[d] = disk.versions[d]
  <1>1. IInv /\ RemoteInv /\ [RemoteNext]_remoteVars => [Untouched]_remoteVars
    <2> SUFFICES ASSUME IInv, RemoteInv, [RemoteNext]_remoteVars
                 PROVE  Untouched
      OBVIOUS
    <2>1. TypeOK /\ ProcessInv /\ [Next]_vars
      BY RemoteStepServes DEF IInv
    <2>2. disk' = disk \/ (disk' = mem /\ status = "serving")
      <3>1. CASE PersistOk
        BY <2>1, <3>1, StagesDiffer DEF PersistOk, ProcessInv, TypeOK, Idle
      <3>2. CASE Request
        BY <2>1, <3>2, RequestGrows
      <3>3. CASE PersistFail \/ Respond \/ Crash \/ Open \/ UNCHANGED vars
        BY <3>3 DEF PersistFail, Respond, Crash, Open, vars
      <3>4. CASE Recover
        BY <3>4 DEF Recover, RecoverEvent, PassOverEvent, RefuseEvent, PanicOnEvent, FinishRecovery
      <3> QED
        BY <2>1, <3>1, <3>2, <3>3, <3>4 DEF Next, Finish
    <2>3. \A d \in Domains \ Own: Quiet(disk, disk', d)
      BY <2>1, <2>2, QuietFacts DEF RemoteInv, TypeOK
    <2> QED
      BY <2>3 DEF Quiet
  <1> QED
    BY <1>1, RemoteInvariance, PTL DEF RemoteSpec, ForeignDomainsUntouched

-----------------------------------------------------------------------------
(***************************************************************************)
(* The gateway over this server (GovernedGateway).  GatewayInv says who is *)
(* asked for what and that nothing is asked twice; PipeInv says that the   *)
(* request the server has in hand is the one its memory has prepared the   *)
(* answer of.                                                              *)
(***************************************************************************)
Asked == {"decide", "observe", "record"}
Kinds == {"blocked", "executed", "failed"}

(* The files a gateway may start on: as this server keeps them, and nothing *)
(* decided, reported or suspended yet.                                      *)
Unspent(file) ==
    /\ Recorded(file) /\ Audited(file)
    /\ file.decisions = <<>> /\ file.outcomes = <<>>
    /\ CurrentStateVersion(file, Governed) = 0

(* A request belongs to its call, and is sent once: a place a call has left *)
(* does not come back.                                                      *)
RequestInv(m) ==
    /\ m \in H!Message
    /\ m.to \in {"decide", "record", "upstream"} => m.call \in Actions
    /\ m.to = "decide" => m = H!Request("decide", m.call, "ask")
    /\ m.to = "record" => m.body \in Kinds
    /\ m.to \in {"decide", "observe"} => pc[m.call] /= "new"
    /\ m.to = "record" => pc[m.call] \notin {"new", "authorizing", "forwarding"}

GatewayInv ==
    /\ pc \in [H!Calls -> H!Places]
    /\ \A c \in Observers: pc[c] \in {"new", "passing", "answered", "lost"}
    /\ up \in BOOLEAN /\ believed \in [H!Calls -> {"?", "known"}]
    /\ \A m \in net \cup working: RequestInv(m)
    /\ net \cap working = {}
    /\ \A c \in Actions: pc[c] = "new" => DecisionsFor(c) = {}
    /\ \A m \in net: m.to = "decide" => DecisionsFor(m.call) = {}

(* What has been written into memory for the request, and not yet into the  *)
(* file.                                                                    *)
PreparedDecide(m) ==
    /\ DecisionsFor(m.call) = {}
    /\ \E decision \in StoredDecision:
         /\ mem = RecordDecision(disk, decision)
         /\ decision.action = m.call
         /\ decision.verdict = IF Suspended THEN "DENY" ELSE "ALLOW"
         /\ call.reply.answer = decision.verdict
PreparedObserve ==
    /\ mem.decisions = disk.decisions /\ mem.outcomes = disk.outcomes
    /\ Suspended => CurrentStateVersion(mem, Governed) > 0
PreparedRecord(m) ==
    /\ m.id = "known"
    /\ \E outcome \in StoredOutcome:
         /\ mem = RecordOutcome(disk, outcome)
         /\ outcome.outcome = m.body
         /\ outcome.decision \in 1..Len(disk.decisions)
         /\ disk.decisions[outcome.decision].action = m.call
PreparedFor(m) ==
    /\ m.to = "decide" => PreparedDecide(m)
    /\ m.to = "observe" => PreparedObserve
    /\ m.to = "record" => PreparedRecord(m)

PipeInv ==
    /\ working = {} <=> call = Idle
    /\ working /= {} => up /\ \E m \in working: working = {m} /\ m.to \in Asked
    /\ call.stage = "persist" => \A m \in working: PreparedFor(m)
    /\ \A m \in working: m.to = "decide" => call.reply.answer \in {"ALLOW", "DENY"}
    /\ ~up => /\ ~fatal
              /\ \A m \in net: m.to = "upstream"
              /\ \A c \in H!Calls: pc[c] \in {"new", "answered", "lost"}
    /\ up => status \in {"serving", "down"}
    /\ Len(disk.decisions) <= MaxDecisions
    /\ status = "serving" => Len(mem.decisions) <= MaxDecisions

(* The outcomes of every call, as far as a log goes.                        *)
OutcomesBy(store, n, f) ==
    f = [k \in 0..n |->
            IF k = 0 THEN [c \in Actions |-> <<>>]
            ELSE [f[k - 1] EXCEPT ![Decision(store, store.outcomes[k].decision).action] =
                    Append(@, store.outcomes[k].outcome)]]

LEMMA OutcomesExist ==
    ASSUME NEW store, NEW n \in Nat
    PROVE  \E f: OutcomesBy(store, n, f)
  <1> DEFINE More(all, k) == [all EXCEPT ![Decision(store, store.outcomes[k].decision).action] =
                                Append(@, store.outcomes[k].outcome)]
             T == {m \in Nat: ~\E f: OutcomesBy(store, m, f)}
  <1>1. SUFFICES ASSUME T # {}
                 PROVE  FALSE
    OBVIOUS
  <1>2. PICK m \in T: \A i \in T: m <= i
    BY <1>1, LeastNumber
  <1>3. m # 0
    <2> DEFINE f == [k \in 0..0 |-> [c \in Actions |-> <<>>]]
    <2>1. OutcomesBy(store, 0, f)
      <3>1. 0 - 1 = -1 /\ 0..0 = {0}
        OBVIOUS
      <3> QED
        BY <3>1, Zenon DEF OutcomesBy
    <2> QED
      BY <2>1
  <1>4. m - 1 \in Nat /\ ~(m <= m - 1)
    BY <1>3
  <1>5. PICK g: OutcomesBy(store, m - 1, g)
    BY <1>2, <1>4
  <1>6. ASSUME NEW k \in 0..(m - 1)
        PROVE  g[k] = IF k = 0 THEN [c \in Actions |-> <<>>] ELSE More(g[k - 1], k)
    BY <1>5, Zenon DEF OutcomesBy
  <1> HIDE DEF More
  <1> DEFINE f == [k \in 0..m |-> IF k = m THEN More(g[m - 1], m) ELSE g[k]]
  <1>7. \A k \in 0..m: f[k] = IF k = 0 THEN [c \in Actions |-> <<>>] ELSE More(f[k - 1], k)
    <2> TAKE k \in 0..m
    <2>1. CASE k = m
      <3>1. m - 1 \in 0..m /\ m - 1 # m
        BY <1>4
      <3>2. f[m - 1] = g[m - 1]
        BY <3>1
      <3> QED
        BY <2>1, <3>2, <1>3
    <2>2. CASE k # m
      <3>1. k \in 0..(m - 1) /\ f[k] = g[k]
        BY <2>2
      <3>2. k # 0 => f[k - 1] = g[k - 1]
        BY <3>1
      <3> QED
        BY <1>6, <3>1, <3>2
    <2> QED
      BY <2>1, <2>2
  <1>8. OutcomesBy(store, m, f)
    BY <1>7, Zenon DEF OutcomesBy, More
  <1> QED
    BY <1>2, <1>8

LEMMA OutcomesSteps ==
    ASSUME NEW store, Len(store.outcomes) \in Nat
    PROVE  /\ OutcomesTo(store, 0) = [c \in Actions |-> <<>>]
           /\ \A k \in 1..Len(store.outcomes):
                OutcomesTo(store, k) =
                  [OutcomesTo(store, k - 1) EXCEPT
                     ![Decision(store, store.outcomes[k].decision).action] =
                        Append(@, store.outcomes[k].outcome)]
  <1> DEFINE f == CHOOSE f: OutcomesBy(store, Len(store.outcomes), f)
  <1>1. OutcomesBy(store, Len(store.outcomes), f)
    BY OutcomesExist
  <1>2. \A n: OutcomesTo(store, n) = f[n]
    BY Zenon DEF OutcomesTo, OutcomesBy
  <1> HIDE DEF f
  <1>3. \A k \in 0..Len(store.outcomes):
          f[k] = IF k = 0 THEN [c \in Actions |-> <<>>]
                 ELSE [f[k - 1] EXCEPT ![Decision(store, store.outcomes[k].decision).action] =
                         Append(@, store.outcomes[k].outcome)]
    BY <1>1, Zenon DEF OutcomesBy
  <1>4. 0 \in 0..Len(store.outcomes) /\ \A k \in 1..Len(store.outcomes): k \in 0..Len(store.outcomes) /\ k # 0
    OBVIOUS
  <1> QED
    BY <1>2, <1>3, <1>4

LEMMA OutcomesPrefix ==
    ASSUME NEW store, NEW later, Len(store.outcomes) \in Nat, Len(later.outcomes) \in Nat,
           Extends(store.outcomes, later.outcomes),
           \A k \in 1..Len(store.outcomes):
             Decision(later, store.outcomes[k].decision) = Decision(store, store.outcomes[k].decision)
    PROVE  \A k \in 0..Len(store.outcomes): OutcomesTo(later, k) = OutcomesTo(store, k)
  <1> DEFINE T == {k \in 0..Len(store.outcomes): OutcomesTo(later, k) # OutcomesTo(store, k)}
  <1>1. SUFFICES ASSUME T # {}
                 PROVE  FALSE
    OBVIOUS
  <1>2. PICK k \in T: \A i \in T: k <= i
    <2>1. T \in SUBSET Nat
      OBVIOUS
    <2> QED
      BY <1>1, <2>1, LeastNumber
  <1>3. k # 0
    BY OutcomesSteps
  <1>4. /\ k \in 1..Len(store.outcomes) /\ k \in 1..Len(later.outcomes)
        /\ later.outcomes[k] = store.outcomes[k]
    BY <1>3 DEF Extends
  <1>5. OutcomesTo(later, k - 1) = OutcomesTo(store, k - 1)
    <2>1. k - 1 \in 0..Len(store.outcomes) /\ ~(k <= k - 1)
      BY <1>4
    <2> QED
      BY <1>2, <2>1
  <1>6. OutcomesTo(later, k) = OutcomesTo(store, k)
    <2>1. OutcomesTo(store, k) = [OutcomesTo(store, k - 1) EXCEPT
            ![Decision(store, store.outcomes[k].decision).action] = Append(@, store.outcomes[k].outcome)]
      BY <1>4, OutcomesSteps
    <2>2. OutcomesTo(later, k) = [OutcomesTo(later, k - 1) EXCEPT
            ![Decision(later, later.outcomes[k].decision).action] = Append(@, later.outcomes[k].outcome)]
      BY <1>4, OutcomesSteps
    <2>3. Decision(later, store.outcomes[k].decision) = Decision(store, store.outcomes[k].decision)
      BY <1>4
    <2> QED
      BY <1>4, <1>5, <2>1, <2>2, <2>3, Zenon
  <1> QED
    BY <1>2, <1>6

(* Whatever the gateway does, its server takes a step of its own or none.   *)
LEMMA GovernedStepServes ==
    ASSUME TypeOK, RecordsInv, GatewayInv, PipeInv, [GovernedNext]_allVars
    PROVE  [Next]_vars
  <1>1. CASE Handlers \/ (\E m \in net: Refuse(m)) \/ ComeUp \/ UNCHANGED allVars
    BY <1>1 DEF Handlers, Refuse, ComeUp, allVars
  <1>2. ASSUME NEW m \in net, ServeDecide(m)
        PROVE  Next
    <2>1. m.call \in Actions
      BY <1>2 DEF ServeDecide, GatewayInv, RequestInv
    <2>2. Decide(Governed, m.call)
      BY <1>2 DEF ServeDecide
    <2> QED
      BY <2>1, <2>2, GovernedAssumption DEF Next, Request
  <1>3. ASSUME NEW m \in net, ServeObserve(m)
        PROVE  Next
    BY <1>3 DEF ServeObserve, Next, Request
  <1>4. ASSUME NEW m \in net, ServeRecord(m)
        PROVE  Next
    <2>1. PICK i \in 1..Len(mem.decisions): RecordOutcomeOf(mem.decisions[i].id, m.body)
      BY <1>4 DEF ServeRecord
    <2>2. m.body \in OutcomeKinds
      BY <1>4, KindsAssumption DEF ServeRecord, GatewayInv, RequestInv, Kinds
    <2>3. status = "serving"
      BY <2>1 DEF RecordOutcomeOf, Ready
    <2>4. mem.decisions[i].id = i
      BY <2>3 DEF RecordsInv, Recorded
    <2>5. Len(mem.decisions) <= MaxDecisions /\ Len(mem.decisions) \in Nat /\ MaxDecisions \in Nat
      BY <2>3, StoreLogs, BoundsAssumption DEF PipeInv, TypeOK
    <2>6. i \in 1..MaxDecisions
      BY <2>5
    <2>7. RecordOutcomeOf(i, m.body)
      BY <2>1, <2>4
    <2> QED
      BY <2>2, <2>6, <2>7 DEF Next, Request
  <1>5. CASE Write \/ Answered \/ ServerDies \/ GatewayDies \/ Spawn \/ Recovers
    BY <1>5 DEF Write, Answered, ServerDies, GatewayDies, Spawn, Recovers, Next, Finish
  <1> QED
    BY <1>1, <1>2, <1>3, <1>4, <1>5 DEF GovernedNext

(* What Gateway sees of the server follows from its file and its health.    *)
LEMMA SameControl ==
    /\ disk' = disk => Suspended' = Suspended /\ OutcomesOf' = OutcomesOf
    /\ disk'.decisions = disk.decisions =>
         DecisionOf' = DecisionOf /\ \A c: DecisionsFor(c)' = DecisionsFor(c)
    /\ UNCHANGED <<up, status, fatal>> => Healthy' = Healthy
  <1>1. disk' = disk => Suspended' = Suspended
    BY Zenon DEF Suspended
  <1>2. disk' = disk => OutcomesOf' = OutcomesOf
    BY Zenon DEF OutcomesOf
  <1>3. ASSUME disk'.decisions = disk.decisions, NEW CONSTANT c
        PROVE  DecisionsFor(c)' = DecisionsFor(c)
    BY <1>3, Zenon DEF DecisionsFor
  <1>4. disk'.decisions = disk.decisions => DecisionOf' = DecisionOf
    <2> DEFINE For(log, c) == {i \in 1..Len(log): log[i].action = c}
               Of(log) == [c \in Actions |-> IF For(log, c) = {} THEN "none"
                                             ELSE log[CHOOSE i \in For(log, c): TRUE].verdict]
    <2>1. DecisionOf = Of(disk.decisions) /\ DecisionOf' = Of(disk'.decisions)
      BY Zenon DEF DecisionOf, DecisionsFor
    <2> HIDE DEF Of
    <2> QED
      BY <2>1
  <1>5. UNCHANGED <<up, status, fatal>> => Healthy' = Healthy
    BY DEF Healthy
  <1> QED
    BY <1>1, <1>2, <1>3, <1>4, <1>5, Zenon

-----------------------------------------------------------------------------
(* What the server knows when it can take up a request, and what it has     *)
(* prepared then.                                                           *)
ServerInv == IInv /\ RestartInv /\ RecordsInv /\ AuditInv

LEMMA SuspendedIsLogged ==
    ASSUME NEW store \in Store, Recorded(store)
    PROVE  /\ CurrentStateVersion(store, Governed) > 0
                <=> SuspendedBy(store.events, Governed, Len(store.events))
  <1>1. CurrentStateVersion(store, Governed) =
          VersionBy(store.events, Governed, Len(store.events))
    BY GovernedAssumption DEF Recorded
  <1> QED
    BY <1>1 DEF VersionBy

LEMMA ReadyServer ==
    ASSUME ServerInv, Ready
    PROVE  /\ status = "serving" /\ mem = disk /\ mem \in Store
           /\ Recorded(mem) /\ Audited(mem)
           /\ \A c \in Domains: Kept(mem.events, domains[c], c, Len(mem.events))
           /\ TypeOK /\ SuspensionKept
  BY DEF ServerInv, IInv, ProcessInv, RecordsInv, AuditInv, Ready, TypeOK

LEMMA DecidePrepares ==
    ASSUME ServerInv, NEW c \in Actions, Decide(Governed, c)
    PROVE  LET decision == IssuedDecision(Governed, c)
           IN  /\ decision \in StoredDecision
               /\ mem' = RecordDecision(disk, decision)
               /\ decision.action = c
               /\ decision.verdict = IF Suspended THEN "DENY" ELSE "ALLOW"
               /\ call'.reply.answer = decision.verdict
               /\ call'.stage = "persist"
               /\ UNCHANGED <<status, fatal, disk>>
  <1>1. Ready /\ mem' = RecordDecision(mem, IssuedDecision(Governed, c)) /\ UNCHANGED <<status, fatal, disk>>
    BY DecideSteps, GovernedAssumption
  <1>2. /\ status = "serving" /\ mem = disk /\ mem \in Store
        /\ Recorded(mem) /\ Audited(mem)
        /\ \A d \in Domains: Kept(mem.events, domains[d], d, Len(mem.events))
        /\ TypeOK /\ SuspensionKept
    BY <1>1, ReadyServer
  <1>3. IssuedDecision(Governed, c) \in StoredDecision
    BY <1>2, DecisionOfType, GovernedAssumption
  <1>4. call'.reply.answer = domains[Governed].projected /\ call'.stage = "persist"
    BY <1>2, DecideGrows, GovernedAssumption
  <1>5. DecidedAt(mem.events, IssuedDecision(Governed, c), Len(mem.events))
    BY <1>2, DecideRecords, GovernedAssumption
  <1>6. /\ IssuedDecision(Governed, c).domain = Governed
        /\ IssuedDecision(Governed, c).action = c
        /\ IssuedDecision(Governed, c).verdict = domains[Governed].projected
    BY DEF IssuedDecision
  <1>7. Suspended <=> SuspendedBy(mem.events, Governed, Len(mem.events))
    BY <1>2, SuspendedIsLogged DEF Suspended
  <1>8. IssuedDecision(Governed, c).verdict = IF Suspended THEN "DENY" ELSE "ALLOW"
    BY <1>5, <1>6, <1>7 DEF DecidedAt
  <1> QED
    BY <1>1, <1>2, <1>3, <1>4, <1>6, <1>8

LEMMA ObservePrepares ==
    ASSUME ServerInv, NEW d \in Domains, NEW judgment \in Judgments, Observe(d, judgment)
    PROVE  /\ mem'.decisions = disk.decisions /\ mem'.outcomes = disk.outcomes
           /\ Suspended => CurrentStateVersion(mem', Governed) > 0
           /\ call'.stage = "persist"
           /\ UNCHANGED <<status, fatal, disk>>
  <1>1. Ready /\ UNCHANGED <<status, fatal, disk>>
    BY ObserveSteps
  <1>2. /\ status = "serving" /\ mem = disk /\ mem \in Store
        /\ Recorded(mem)
        /\ \A c \in Domains: Kept(mem.events, domains[c], c, Len(mem.events))
        /\ TypeOK
    BY <1>1, ReadyServer
  <1>3. /\ mem'.decisions = mem.decisions /\ mem'.outcomes = mem.outcomes
        /\ mem'.versions = StoreBefore(d, judgment).versions
        /\ call'.stage = "persist"
    BY <1>2, ObserveGrows
  <1>4. StoreBefore(d, judgment).versions \in {mem.versions, [mem.versions EXCEPT ![d] = @ + 1]}
    BY <1>2, Recording DEF StoreBefore
  <1>5. mem.versions \in [Domains -> Nat]
    BY <1>2, StoreLogs
  <1>6. mem.versions[Governed] > 0 => mem'.versions[Governed] > 0
    <2>1. CASE mem'.versions = mem.versions
      BY <2>1
    <2>2. CASE mem'.versions = [mem.versions EXCEPT ![d] = @ + 1]
      BY <1>5, <2>2, GovernedAssumption
    <2> QED
      BY <1>3, <1>4, <2>1, <2>2
  <1> QED
    BY <1>1, <1>2, <1>3, <1>6 DEF Suspended, CurrentStateVersion

LEMMA RecordPrepares ==
    ASSUME ServerInv, NEW i \in 1..Len(mem.decisions), NEW kind \in OutcomeKinds,
           RecordOutcomeOf(mem.decisions[i].id, kind)
    PROVE  LET outcome == OutcomeFor(mem, mem.decisions[i].id, kind)
           IN  /\ outcome \in StoredOutcome
               /\ mem' = RecordOutcome(disk, outcome)
               /\ outcome.outcome = kind
               /\ outcome.decision = i
               /\ i \in 1..Len(disk.decisions)
               /\ disk.decisions[i] = mem.decisions[i]
               /\ call'.stage = "persist"
               /\ UNCHANGED <<status, fatal, disk>>
  <1> DEFINE id == mem.decisions[i].id
  <1>1. /\ Ready /\ KnowsDecision(mem, id)
        /\ mem' = RecordOutcome(mem, OutcomeFor(mem, id, kind)) /\ UNCHANGED <<status, fatal, disk>>
    BY OutcomeSteps
  <1>2. /\ mem = disk /\ mem \in Store /\ Recorded(mem) /\ TypeOK
    BY <1>1, ReadyServer
  <1>3. id = i /\ Decision(mem, id) = mem.decisions[i]
    BY <1>1, <1>2, DecisionById
  <1>4. OutcomeFor(mem, id, kind) \in StoredOutcome
    BY <1>1, <1>2, OutcomeForType
  <1>5. OutcomeFor(mem, id, kind).outcome = kind
        /\ OutcomeFor(mem, id, kind).decision = Decision(mem, id).id
    BY DEF OutcomeFor
  <1>6. call'.stage = "persist"
    BY <1>1, <1>2, OutcomeGrows
  <1> QED
    BY <1>1, <1>2, <1>3, <1>4, <1>5, <1>6

-----------------------------------------------------------------------------
(* A step of a handler: where it goes, and what it asks for.                *)
Moves(c, place, requests) ==
    \/ /\ pc[c] = "new" /\ up /\ c \in Actions
       /\ place = "authorizing" /\ requests = {H!Request("decide", c, "ask")}
    \/ /\ pc[c] = "new" /\ up /\ c \in Observers
       /\ place = "passing" /\ requests = {H!Request("observe", c, "judge")}
    \/ /\ pc[c] = "authorizing" /\ place = "blocking"
       /\ \E id \in {"?", "known"}: requests = {H!Report(c, id, "blocked")}
    \/ /\ pc[c] = "authorizing"
       /\ place = "forwarding" /\ requests = {H!Request("upstream", c, "run")}
    \/ /\ pc[c] = "forwarding" /\ place = "reporting"
       /\ \E outcome \in {"executed", "failed"}: requests = {H!Report(c, "known", outcome)}
    \/ /\ pc[c] \in {"blocking", "reporting", "passing"}
       /\ place = "answered" /\ requests = {}

LEMMA HandlerMoves ==
    ASSUME GatewayInv, NEW c \in H!Calls, H!Start(c) \/ H!Handler(c)
    PROVE  \E place, requests: Moves(c, place, requests) /\ H!MoveTo(c, place, requests)
  <1>1. CASE H!Start(c)
    <2>1. up /\ pc[c] = "new"
      BY <1>1 DEF H!Start
    <2>2. c \notin Actions => c \in Observers
      BY DEF H!Calls
    <2>3. IF c \in Actions THEN H!MoveTo(c, "authorizing", {H!Request("decide", c, "ask")})
                           ELSE H!MoveTo(c, "passing", {H!Request("observe", c, "judge")})
      BY <1>1 DEF H!Start
    <2> QED
      BY <2>1, <2>2, <2>3, Zenon DEF Moves
  <1>2. CASE H!AuthorizationFails(c)
    <2>1. pc[c] = "authorizing" /\ H!MoveTo(c, "blocking", {H!Report(c, "?", "blocked")})
      BY <1>2 DEF H!AuthorizationFails
    <2> QED
      BY <2>1, Zenon DEF Moves
  <1>3. CASE H!AuthorizationArrives(c)
    <2>1. PICK m \in net:
            /\ believed' = [believed EXCEPT ![c] = IF m.body = "error" THEN "?" ELSE "known"]
            /\ IF m.body = "ALLOW"
               THEN H!MoveTo(c, "forwarding", {H!Request("upstream", c, "run")}) /\ UNCHANGED answer
               ELSE /\ H!MoveTo(c, "blocking", {H!Report(c, believed'[c], "blocked")})
                    /\ H!Answer(c, "denied")
      BY <1>3 DEF H!AuthorizationArrives
    <2>2. pc[c] = "authorizing"
      BY <1>3 DEF H!AuthorizationArrives
    <2>3. believed'[c] \in {"?", "known"}
      BY <2>1 DEF GatewayInv
    <2>4. CASE m.body = "ALLOW"
      BY <2>1, <2>2, <2>4, Zenon DEF Moves
    <2>5. CASE m.body /= "ALLOW"
      BY <2>1, <2>2, <2>3, <2>5, Zenon DEF Moves
    <2> QED
      BY <2>4, <2>5
  <1>4. CASE H!ResultArrives(c)
    <2>1. PICK m \in net: H!MoveTo(c, "reporting", {H!Report(c, "known", H!OutcomeOf(m.body))})
      BY <1>4 DEF H!ResultArrives
    <2>2. pc[c] = "forwarding"
      BY <1>4 DEF H!ResultArrives
    <2>3. H!OutcomeOf(m.body) \in {"executed", "failed"}
      BY DEF H!OutcomeOf
    <2> QED
      BY <2>1, <2>2, <2>3, Zenon DEF Moves
  <1>5. CASE H!ForwardFails(c)
    <2>1. pc[c] = "forwarding" /\ H!MoveTo(c, "reporting", {H!Report(c, "known", "failed")})
      BY <1>5 DEF H!ForwardFails
    <2> QED
      BY <2>1, Zenon DEF Moves
  <1>6. CASE H!Finish(c) \/ H!PassEnds(c)
    <2>1. pc[c] \in {"blocking", "reporting", "passing"} /\ H!MoveTo(c, "answered", {})
      BY <1>6 DEF H!Finish, H!PassEnds
    <2> QED
      BY <2>1, Zenon DEF Moves
  <1> QED
    BY <1>1, <1>2, <1>3, <1>4, <1>5, <1>6 DEF H!Handler

LEMMA HandlerKeeps ==
    ASSUME GatewayInv, PipeInv, NEW c \in H!Calls, H!Start(c) \/ H!Handler(c),
           UNCHANGED <<disk, status, mem, fatal, call, up, working>>
    PROVE  GatewayInv' /\ PipeInv'
  <1>1. PICK place, requests: Moves(c, place, requests) /\ H!MoveTo(c, place, requests)
    BY HandlerMoves
  <1>2. /\ pc' = [pc EXCEPT ![c] = place]
        /\ net' = {m \in net : ~(m.to = "gateway" /\ m.call = c)} \cup requests
    BY <1>1 DEF H!MoveTo
  <1>3. /\ pc \in [H!Calls -> H!Places] /\ place \in H!Places
        /\ place \in {"authorizing", "passing", "blocking", "forwarding", "reporting", "answered"}
        /\ place \in {"authorizing", "passing"} <=> pc[c] = "new"
        /\ place = "forwarding" => pc[c] = "authorizing"
    BY <1>1 DEF GatewayInv, Moves, H!Places
  <1>4. /\ pc'[c] = place
        /\ \A d \in H!Calls: d /= c => pc'[d] = pc[d]
        /\ pc' \in [H!Calls -> H!Places]
    BY <1>2, <1>3
  <1>5. up /\ c \in Actions \cup Observers
    <2>1. pc[c] \notin {"answered", "lost"} /\ (pc[c] = "new" => up)
      BY <1>1 DEF Moves
    <2> QED
      BY <2>1 DEF PipeInv, GatewayInv, H!Calls
  <1>6. c \in Observers => place \in {"passing", "answered"}
    BY <1>1, ObserversAssumption DEF Moves, GatewayInv
  <1>7. \A m \in requests:
          /\ m.to = "decide" => m = H!Request("decide", c, "ask") /\ pc[c] = "new" /\ c \in Actions
          /\ m.to = "observe" => pc[c] = "new"
          /\ m.to = "record" => m.body \in Kinds /\ c \in Actions
                                /\ pc[c] \in {"authorizing", "forwarding"}
                                /\ place \in {"blocking", "reporting"}
          /\ m.to = "upstream" => c \in Actions
          /\ m.call = c /\ m \in H!Message /\ m.to /= "gateway"
    <2> SUFFICES ASSUME NEW m \in requests
                 PROVE  /\ m.to = "decide" => m = H!Request("decide", c, "ask") /\ pc[c] = "new" /\ c \in Actions
                        /\ m.to = "observe" => pc[c] = "new"
                        /\ m.to = "record" => m.body \in Kinds /\ c \in Actions
                                              /\ pc[c] \in {"authorizing", "forwarding"}
                                              /\ place \in {"blocking", "reporting"}
                        /\ m.to = "upstream" => c \in Actions
                        /\ m.call = c /\ m \in H!Message /\ m.to /= "gateway"
      OBVIOUS
    <2>1. CASE pc[c] = "new"
      <3>1. \/ c \in Actions /\ m = H!Request("decide", c, "ask")
            \/ m = H!Request("observe", c, "judge")
        BY <1>1, <2>1 DEF Moves
      <3> QED
        BY <2>1, <3>1 DEF H!Request, H!Message
    <2>2. CASE pc[c] = "authorizing" /\ place = "blocking"
      <3>1. PICK id \in {"?", "known"}: m = H!Report(c, id, "blocked")
        BY <1>1, <2>2 DEF Moves
      <3> QED
        BY <1>5, <1>6, <2>2, <3>1 DEF H!Report, H!Message, Kinds
    <2>3. CASE place = "forwarding"
      <3>1. m = H!Request("upstream", c, "run")
        BY <1>1, <2>3 DEF Moves
      <3> QED
        BY <1>5, <1>6, <2>3, <3>1 DEF H!Request, H!Message
    <2>4. CASE pc[c] = "forwarding" /\ place = "reporting"
      <3>1. PICK outcome \in {"executed", "failed"}: m = H!Report(c, "known", outcome)
        BY <1>1, <2>4 DEF Moves
      <3> QED
        BY <1>5, <1>6, <2>4, <3>1 DEF H!Report, H!Message, Kinds
    <2> QED
      BY <1>1, <2>1, <2>2, <2>3, <2>4 DEF Moves
  <1>8. ASSUME NEW m \in net \cup working
        PROVE  RequestInv(m)'
    <2>1. RequestInv(m) /\ m \in H!Message /\ m.call \in H!Calls
      BY DEF GatewayInv, RequestInv, H!Message
    <2>2. CASE m.call = c
      BY <1>3, <1>4, <2>1, <2>2 DEF RequestInv
    <2>3. CASE m.call /= c
      BY <1>4, <2>1, <2>3 DEF RequestInv
    <2> QED
      BY <2>2, <2>3
  <1>9. ASSUME NEW m \in requests
        PROVE  RequestInv(m)'
    BY <1>3, <1>4, <1>7 DEF RequestInv
  <1>10. requests \cap working = {}
    <2> SUFFICES ASSUME NEW m \in requests, m \in working
                 PROVE  FALSE
      OBVIOUS
    <2>1. RequestInv(m) /\ m.to \in {"decide", "observe", "record"}
      BY DEF GatewayInv, PipeInv, Asked
    <2> QED
      BY <1>7, <2>1 DEF RequestInv
  <1>11. \A d: DecisionsFor(d)' = DecisionsFor(d)
    BY SameControl
  <1>12. believed' \in [H!Calls -> {"?", "known"}]
    <2>1. UNCHANGED believed \/ \E id \in {"?", "known"}: believed' = [believed EXCEPT ![c] = id]
      <3>1. CASE H!AuthorizationArrives(c)
        BY <3>1 DEF H!AuthorizationArrives
      <3> QED
        BY <3>1 DEF H!Start, H!Handler, H!AuthorizationFails, H!ResultArrives, H!ForwardFails,
                    H!Finish, H!PassEnds
    <2> QED
      BY <2>1 DEF GatewayInv
  <1>13. GatewayInv'
    <2>1. \A d \in Observers: pc'[d] \in {"new", "passing", "answered", "lost"}
      BY <1>4, <1>6 DEF GatewayInv, H!Calls
    <2>2. \A m \in net' \cup working': RequestInv(m)'
      BY <1>2, <1>8, <1>9
    <2>3. net' \cap working' = {}
      BY <1>2, <1>10 DEF GatewayInv
    <2>4. \A d \in Actions: pc'[d] = "new" => DecisionsFor(d)' = {}
      <3> SUFFICES ASSUME NEW d \in Actions, pc'[d] = "new"
                   PROVE  DecisionsFor(d)' = {}
        OBVIOUS
      <3>1. d /= c /\ pc[d] = "new"
        BY <1>3, <1>4 DEF H!Calls
      <3>2. DecisionsFor(d) = {}
        BY <3>1 DEF GatewayInv
      <3> QED
        BY <1>11, <3>2
    <2>5. \A m \in net': m.to = "decide" => DecisionsFor(m.call)' = {}
      <3> SUFFICES ASSUME NEW m \in net', m.to = "decide"
                   PROVE  DecisionsFor(m.call)' = {}
        OBVIOUS
      <3>1. DecisionsFor(m.call) = {}
        <4>1. CASE m \in net
          BY <4>1 DEF GatewayInv
        <4>2. CASE m \in requests
          <5>1. m.call = c /\ pc[c] = "new" /\ c \in Actions
            BY <1>7, <4>2
          <5> QED
            BY <5>1 DEF GatewayInv
        <4> QED
          BY <1>2, <4>1, <4>2
      <3> QED
        BY <1>11, <3>1
    <2> QED
      BY <1>4, <1>12, <2>1, <2>2, <2>3, <2>4, <2>5 DEF GatewayInv
  <1>14. PipeInv'
    <2>1. ASSUME call.stage = "persist", NEW m \in working
          PROVE  PreparedFor(m)'
      BY <1>11, <2>1 DEF PipeInv, PreparedFor, PreparedDecide, PreparedObserve, PreparedRecord, Suspended
    <2> QED
      BY <1>5, <2>1 DEF PipeInv
  <1> QED
    BY <1>13, <1>14

-----------------------------------------------------------------------------
(* The other steps.  Nothing but a handler asks for anything, and a call    *)
(* that moves otherwise is lost.                                            *)
LEMMA GatewayKeeps ==
    ASSUME GatewayInv, NEW replies,
           pc' \in [H!Calls -> H!Places], believed' = believed, up' \in BOOLEAN,
           \A c \in H!Calls: pc'[c] = pc[c] \/ (pc[c] /= "new" /\ pc'[c] = "lost"),
           \A m \in replies: m \in H!Message /\ m.to = "gateway",
           net' \subseteq net \cup replies, working' \subseteq net \cup working,
           net' \cap working' = {},
           \A c \in Actions: \/ DecisionsFor(c)' = DecisionsFor(c)
                             \/ pc[c] /= "new" /\ \A m \in net: m.to = "decide" => m.call /= c
    PROVE  GatewayInv'
  <1>1. ASSUME NEW m \in net' \cup working'
        PROVE  RequestInv(m)'
    <2>1. CASE m \in replies
      BY <2>1 DEF RequestInv
    <2>2. CASE m \notin replies
      <3>1. RequestInv(m) /\ m.call \in H!Calls
        BY <2>2 DEF GatewayInv, RequestInv, H!Message
      <3>2. pc'[m.call] = pc[m.call] \/ (pc[m.call] /= "new" /\ pc'[m.call] = "lost")
        BY <3>1
      <3> QED
        BY <3>1, <3>2 DEF RequestInv
    <2> QED
      BY <2>1, <2>2
  <1>2. \A c \in Observers: pc'[c] \in {"new", "passing", "answered", "lost"}
    BY DEF GatewayInv, H!Calls
  <1>3. \A c \in Actions: pc'[c] = "new" => DecisionsFor(c)' = {}
    BY DEF GatewayInv, H!Calls
  <1>4. ASSUME NEW m \in net', m.to = "decide"
        PROVE  DecisionsFor(m.call)' = {}
    <2>1. m \in net
      BY <1>4
    <2>2. m.call \in Actions
      BY <1>4, <2>1 DEF GatewayInv, RequestInv
    <2> QED
      BY <1>4, <2>1, <2>2 DEF GatewayInv
  <1> QED
    BY <1>1, <1>2, <1>3, <1>4 DEF GatewayInv

LEMMA PipeKeeps ==
    ASSUME PipeInv, UNCHANGED <<disk, status, mem, fatal, call, up, working, pc>>,
           ~up => net' \subseteq net
    PROVE  PipeInv'
  <1>1. \A c: DecisionsFor(c)' = DecisionsFor(c)
    BY SameControl
  <1>2. ASSUME call.stage = "persist", NEW m \in working
        PROVE  PreparedFor(m)'
    BY <1>1, <1>2 DEF PipeInv, PreparedFor, PreparedDecide, PreparedObserve, PreparedRecord, Suspended
  <1> QED
    BY <1>2 DEF PipeInv

(* Requests that are answered by a message or not at all.                   *)
LEMMA ReplyType ==
    ASSUME NEW c \in H!Calls, NEW body \in {"ALLOW", "DENY", "error", "observed", "ok", "is_error"}
    PROVE  H!Reply(c, body) \in H!Message /\ H!Reply(c, body).to = "gateway"
  BY DEF H!Reply, H!Message

LEMMA RepliesType ==
    ASSUME NEW m \in H!Message, m.to \in {"decide", "observe"} => Said(m) \in {"ALLOW", "DENY", "error", "observed"}
    PROVE  \A n \in Replies(m): n \in H!Message /\ n.to = "gateway"
  <1>1. m.call \in H!Calls
    BY DEF H!Message
  <1> QED
    BY <1>1, ReplyType DEF Replies

LEMMA OtherSideKeeps ==
    ASSUME GatewayInv, PipeInv, UNCHANGED <<vars, pc, believed, up, working>>,
           H!RunTool \/ H!Lose \/ \E m \in net: Refuse(m)
    PROVE  GatewayInv' /\ PipeInv'
  <1>1. disk' = disk /\ status' = status /\ mem' = mem /\ fatal' = fatal /\ call' = call
    BY DEF vars, memory
  <1>2. \A c: DecisionsFor(c)' = DecisionsFor(c)
    BY <1>1, SameControl
  <1>3. \A c \in H!Calls: ~up => pc[c] \in {"new", "answered", "lost"}
    BY DEF PipeInv
  <1>4. \E replies: /\ \A m \in replies: m \in H!Message /\ m.to = "gateway"
                    /\ net' \subseteq net \cup replies
                    /\ ~up => replies = {}
    <2>1. CASE H!RunTool
      <3>1. PICK m \in net: \E body \in {"ok", "is_error"}: H!Handled(m, "forwarding", body)
        BY <2>1, Zenon DEF H!RunTool
      <3>2. PICK body \in {"ok", "is_error"}: H!Handled(m, "forwarding", body)
        BY <3>1
      <3>3. m.call \in H!Calls
        BY DEF GatewayInv, RequestInv, H!Message
      <3> DEFINE replies == IF H!Waits(m.call, "forwarding") THEN {H!Reply(m.call, body)} ELSE {}
      <3>4. net' = (net \ {m}) \cup replies
        BY <3>2 DEF H!Handled
      <3>5. \A n \in replies: n \in H!Message /\ n.to = "gateway"
        BY <3>3, ReplyType
      <3>6. ~up => replies = {}
        BY <1>3, <3>3 DEF H!Waits
      <3> HIDE DEF replies
      <3>7. net' \subseteq net \cup replies
        BY <3>4
      <3> QED
        BY <3>5, <3>6, <3>7
    <2>2. CASE H!Lose
      <3>1. net' \subseteq net
        BY <2>2 DEF H!Lose
      <3> QED
        BY <3>1
    <2>3. ASSUME NEW m \in net, Refuse(m)
          PROVE  \E replies: /\ \A n \in replies: n \in H!Message /\ n.to = "gateway"
                             /\ net' \subseteq net \cup replies
                             /\ ~up => replies = {}
      <3>1. up
        BY <2>3 DEF Refuse, PipeInv
      <3>2. net' = (net \ {m}) \cup Replies(m)
        BY <2>3 DEF Refuse
      <3>3. m.to \in {"decide", "observe"} => Said(m) \in {"ALLOW", "DENY", "error", "observed"}
        BY <2>3 DEF Refuse, Said
      <3>4. m \in H!Message
        BY DEF GatewayInv, RequestInv
      <3>5. \A n \in Replies(m): n \in H!Message /\ n.to = "gateway"
        BY <3>3, <3>4, RepliesType
      <3>6. net' \subseteq net \cup Replies(m)
        BY <3>2
      <3> QED
        BY <3>1, <3>5, <3>6
    <2> QED
      BY <2>1, <2>2, <2>3
  <1>5. PICK replies: /\ \A m \in replies: m \in H!Message /\ m.to = "gateway"
                      /\ net' \subseteq net \cup replies
                      /\ ~up => replies = {}
    BY <1>4
  <1>6. GatewayInv'
    <2>1. \A m \in working: m.to \in Asked
      BY DEF PipeInv
    <2>2. net' \cap working' = {}
      BY <1>5, <2>1 DEF GatewayInv, Asked
    <2>3. pc' \in [H!Calls -> H!Places] /\ up' \in BOOLEAN
      BY DEF GatewayInv
    <2> QED
      BY <1>2, <1>5, <2>2, <2>3, GatewayKeeps
  <1>7. PipeInv'
    BY <1>1, <1>5, PipeKeeps
  <1> QED
    BY <1>6, <1>7

(* The server takes a request up: it leaves the pipe and its answer is in   *)
(* memory.                                                                  *)
LEMMA TakingUpKeeps ==
    ASSUME GatewayInv, PipeInv, ServerInv, NEW m \in net,
           ServeDecide(m) \/ ServeObserve(m) \/ ServeRecord(m)
    PROVE  GatewayInv' /\ PipeInv'
  <1>1. /\ TakesUp(m) /\ m.to \in Asked /\ RequestInv(m)
        /\ working' = {m} /\ net' = net \ {m}
        /\ pc' = pc /\ believed' = believed /\ up' = up
    BY DEF ServeDecide, ServeObserve, ServeRecord, TakesUp, Asked, GatewayInv
  <1>2. up
    BY <1>1 DEF PipeInv, Asked
  <1> DEFINE Taken == /\ Ready /\ disk' = disk /\ status' = status /\ fatal' = fatal
                      /\ call'.stage = "persist"
                      /\ PreparedFor(m)'
                      /\ m.to = "decide" => call'.reply.answer \in {"ALLOW", "DENY"}
                      /\ Len(mem'.decisions) <= MaxDecisions
  <1>3. Taken
    <2>1. ASSUME ServeDecide(m)
          PROVE  Taken
      <3>1. m.call \in Actions /\ m.to = "decide"
        BY <1>1, <2>1 DEF ServeDecide, RequestInv
      <3>2. Decide(Governed, m.call)
        BY <2>1 DEF ServeDecide
      <3> DEFINE decision == IssuedDecision(Governed, m.call)
      <3>3. /\ decision \in StoredDecision
            /\ mem' = RecordDecision(disk, decision)
            /\ decision.action = m.call
            /\ decision.verdict = IF Suspended THEN "DENY" ELSE "ALLOW"
            /\ call'.reply.answer = decision.verdict
            /\ call'.stage = "persist"
            /\ UNCHANGED <<status, fatal, disk>>
        BY <3>1, <3>2, DecidePrepares
      <3>4. Ready /\ Len(mem.decisions) < MaxDecisions
        BY <3>2 DEF Decide
      <3>5. mem = disk /\ mem \in Store
        BY <3>4, ReadyServer
      <3>6. mem'.decisions = Append(mem.decisions, decision)
        BY <3>3, <3>5, Recording
      <3>7. Len(mem'.decisions) <= MaxDecisions
        <4>1. Len(mem.decisions) \in Nat /\ Len(mem'.decisions) = Len(mem.decisions) + 1
          BY <3>3, <3>5, <3>6, StoreLogs, AppendExtends
        <4> QED
          BY <3>4, <4>1, BoundsAssumption
      <3> HIDE DEF decision
      <3>8. DecisionsFor(m.call)' = {} /\ Suspended' = Suspended
        BY <3>1, <3>3, SameControl DEF GatewayInv
      <3>9. PreparedDecide(m)'
        BY <3>3, <3>8 DEF PreparedDecide
      <3>10. PreparedFor(m)'
        BY <3>1, <3>9 DEF PreparedFor
      <3>11. decision.verdict \in {"ALLOW", "DENY"}
        BY <3>3
      <3> QED
        BY <3>3, <3>4, <3>7, <3>10, <3>11
    <2>2. ASSUME ServeObserve(m)
          PROVE  Taken
      <3>1. PICK d \in Domains, judgment \in Judgments: Observe(d, judgment)
        BY <2>2 DEF ServeObserve
      <3>2. m.to = "observe"
        BY <2>2 DEF ServeObserve
      <3>3. /\ mem'.decisions = disk.decisions /\ mem'.outcomes = disk.outcomes
            /\ Suspended => CurrentStateVersion(mem', Governed) > 0
            /\ call'.stage = "persist"
            /\ UNCHANGED <<status, fatal, disk>>
        BY <3>1, ObservePrepares
      <3>4. Ready
        BY <3>1, ObserveSteps
      <3>5. Suspended' = Suspended
        BY <3>3, SameControl
      <3>6. PreparedObserve'
        BY <3>3, <3>5 DEF PreparedObserve
      <3>7. PreparedFor(m)'
        BY <3>2, <3>6 DEF PreparedFor
      <3>8. Len(mem'.decisions) <= MaxDecisions
        BY <3>3 DEF PipeInv
      <3> QED
        BY <3>2, <3>3, <3>4, <3>7, <3>8
    <2>3. ASSUME ServeRecord(m)
          PROVE  Taken
      <3>1. m.to = "record" /\ m.id = "known" /\ m.body \in Kinds
        BY <1>1, <2>3 DEF ServeRecord, RequestInv
      <3>2. PICK i \in 1..Len(mem.decisions):
              mem.decisions[i].action = m.call /\ RecordOutcomeOf(mem.decisions[i].id, m.body)
        BY <2>3 DEF ServeRecord
      <3>3. m.body \in OutcomeKinds
        BY <3>1, KindsAssumption DEF Kinds
      <3> DEFINE outcome == OutcomeFor(mem, mem.decisions[i].id, m.body)
      <3>4. /\ outcome \in StoredOutcome
            /\ mem' = RecordOutcome(disk, outcome)
            /\ outcome.outcome = m.body
            /\ outcome.decision = i
            /\ i \in 1..Len(disk.decisions)
            /\ disk.decisions[i] = mem.decisions[i]
            /\ call'.stage = "persist"
            /\ UNCHANGED <<status, fatal, disk>>
        BY <3>2, <3>3, RecordPrepares
      <3>5. Ready
        BY <3>2 DEF RecordOutcomeOf
      <3> HIDE DEF outcome
      <3>6. mem = disk /\ mem \in Store
        BY <3>5, ReadyServer
      <3>7. mem'.decisions = disk.decisions
        BY <3>4, <3>6, Recording
      <3>8. PreparedRecord(m)'
        BY <3>1, <3>2, <3>4 DEF PreparedRecord
      <3>9. PreparedFor(m)'
        BY <3>1, <3>8 DEF PreparedFor
      <3>10. Len(mem'.decisions) <= MaxDecisions
        BY <3>7 DEF PipeInv
      <3> QED
        BY <3>1, <3>4, <3>5, <3>9, <3>10
    <2> QED
      BY <2>1, <2>2, <2>3
  <1>4. call' /= Idle /\ status = "serving"
    BY <1>3 DEF Idle, Ready
  <1>5. GatewayInv'
    <2>1. \A c: DecisionsFor(c)' = DecisionsFor(c)
      BY <1>3, SameControl
    <2>2. pc' \in [H!Calls -> H!Places] /\ up' \in BOOLEAN
      BY <1>1 DEF GatewayInv
    <2>3. net' \subseteq net \cup {} /\ working' \subseteq net \cup working /\ net' \cap working' = {}
      BY <1>1
    <2> QED
      BY <1>1, <2>1, <2>2, <2>3, GatewayKeeps
  <1>6. PipeInv'
    BY <1>1, <1>2, <1>3, <1>4 DEF PipeInv
  <1> QED
    BY <1>5, <1>6

(* The write decides for its own call only.                                 *)
LEMMA WrittenDecisions ==
    ASSUME NEW decision \in StoredDecision, disk \in Store, disk' = RecordDecision(disk, decision)
    PROVE  /\ \A c: c /= decision.action => DecisionsFor(c)' = DecisionsFor(c)
           /\ disk'.outcomes = disk.outcomes /\ disk'.versions = disk.versions
           /\ disk'.decisions = Append(disk.decisions, decision)
           /\ DecisionsFor(decision.action) = {} =>
                DecisionsFor(decision.action)' = {Len(disk.decisions) + 1}
  <1>1. /\ disk'.decisions = Append(disk.decisions, decision)
        /\ disk'.outcomes = disk.outcomes /\ disk'.versions = disk.versions
    BY Recording
  <1>2. /\ Len(disk'.decisions) = Len(disk.decisions) + 1
        /\ disk'.decisions[Len(disk.decisions) + 1] = decision
        /\ Len(disk.decisions) \in Nat
        /\ \A i \in 1..Len(disk.decisions): disk'.decisions[i] = disk.decisions[i]
    BY <1>1, StoreLogs, AppendExtends DEF Extends
  <1>3. \A i: i \in 1..Len(disk'.decisions) <=> i \in 1..Len(disk.decisions) \/ i = Len(disk.decisions) + 1
    BY <1>2
  <1>4. Len(disk.decisions) + 1 \notin 1..Len(disk.decisions)
    BY <1>2
  <1>5. ASSUME NEW CONSTANT c, c /= decision.action
        PROVE  DecisionsFor(c)' = DecisionsFor(c)
    BY <1>2, <1>3, <1>5 DEF DecisionsFor
  <1>6. ASSUME DecisionsFor(decision.action) = {}
        PROVE  DecisionsFor(decision.action)' = {Len(disk.decisions) + 1}
    <2>1. \A i \in 1..Len(disk.decisions): disk.decisions[i].action /= decision.action
      BY <1>6 DEF DecisionsFor
    <2> QED
      BY <1>2, <1>3, <2>1 DEF DecisionsFor
  <1> QED
    BY <1>1, <1>5, <1>6

LEMMA WritingKeeps ==
    ASSUME GatewayInv, PipeInv, ServerInv, Write
    PROVE  GatewayInv' /\ PipeInv'
  <1>1. /\ call.stage = "persist"
        /\ call' = [call EXCEPT !.stage = "respond"]
        /\ UNCHANGED <<status, mem, pc, believed, net, up, working>>
        /\ \/ disk' = mem /\ fatal' = fatal
           \/ disk' = disk
    BY DEF Write, PersistOk, PersistFail, memory, gateway
  <1>2. call \in [stage: {"persist", "respond"}, reply: Reply] /\ call /= Idle
    BY <1>1 DEF ServerInv, IInv, TypeOK, Idle
  <1>3. call'.stage = "respond" /\ call'.reply = call.reply /\ call' /= Idle
    BY <1>1, <1>2 DEF Idle
  <1>4. working /= {} /\ up
    BY <1>2 DEF PipeInv
  <1>5. PICK m \in working: working = {m} /\ m.to \in Asked /\ PreparedFor(m)
    BY <1>1, <1>4 DEF PipeInv
  <1>6. RequestInv(m) /\ m.call \in H!Calls
    BY <1>5 DEF GatewayInv, RequestInv, H!Message
  <1>7. status = "serving"
    BY <1>2 DEF ServerInv, IInv, ProcessInv, TypeOK
  <1>8. \A c \in Actions: \/ DecisionsFor(c)' = DecisionsFor(c)
                          \/ pc[c] /= "new" /\ \A n \in net: n.to = "decide" => n.call /= c
    <2>1. CASE disk'.decisions = disk.decisions
      BY <2>1, SameControl
    <2>2. CASE disk' = mem /\ m.to = "decide"
      <3>1. PICK decision \in StoredDecision:
              mem = RecordDecision(disk, decision) /\ decision.action = m.call
        BY <1>5, <2>2 DEF PreparedFor, PreparedDecide
      <3>2. disk \in Store
        BY DEF ServerInv, IInv, TypeOK
      <3>3. \A c: c /= m.call => DecisionsFor(c)' = DecisionsFor(c)
        BY <2>2, <3>1, <3>2, WrittenDecisions
      <3>4. pc[m.call] /= "new"
        BY <1>6, <2>2 DEF RequestInv
      <3>5. ASSUME NEW n \in net, n.to = "decide", n.call = m.call
            PROVE  FALSE
        <4>1. RequestInv(n)
          BY DEF GatewayInv
        <4>2. n = m
          BY <1>6, <2>2, <3>5, <4>1 DEF RequestInv
        <4> QED
          BY <1>5, <4>2 DEF GatewayInv
      <3> QED
        BY <3>3, <3>4, <3>5
    <2>3. CASE disk' = mem /\ m.to = "observe"
      BY <1>5, <2>1, <2>3 DEF PreparedFor, PreparedObserve
    <2>4. CASE disk' = mem /\ m.to = "record"
      <3>1. PICK outcome \in StoredOutcome: mem = RecordOutcome(disk, outcome)
        BY <1>5, <2>4 DEF PreparedFor, PreparedRecord
      <3>2. mem.decisions = disk.decisions
        BY <3>1, Recording DEF ServerInv, IInv, TypeOK
      <3> QED
        BY <2>1, <2>4, <3>2
    <2> QED
      BY <1>1, <1>5, <2>1, <2>2, <2>3, <2>4 DEF Asked
  <1>9. GatewayInv'
    <2>1. pc' \in [H!Calls -> H!Places] /\ up' \in BOOLEAN /\ net' \cap working' = {}
      BY <1>1 DEF GatewayInv
    <2>2. \A c \in H!Calls: pc'[c] = pc[c]
      BY <1>1
    <2>3. net' \subseteq net \cup {} /\ working' \subseteq net \cup working
      BY <1>1
    <2> QED
      BY <1>1, <1>8, <2>1, <2>2, <2>3, GatewayKeeps
  <1>10. PipeInv'
    <2>1. Len(disk'.decisions) <= MaxDecisions
      BY <1>1, <1>7 DEF PipeInv
    <2>2. Len(mem'.decisions) <= MaxDecisions
      BY <1>1, <1>7 DEF PipeInv
    <2>3. working' = {m} /\ m.to \in Asked /\ up' /\ status' = "serving"
      BY <1>1, <1>4, <1>5, <1>7
    <2>4. m.to = "decide" => call'.reply.answer \in {"ALLOW", "DENY"}
      BY <1>3, <1>5 DEF PipeInv
    <2> QED
      BY <1>3, <2>1, <2>2, <2>3, <2>4 DEF PipeInv
  <1> QED
    BY <1>9, <1>10

LEMMA AnsweringKeeps ==
    ASSUME GatewayInv, PipeInv, ServerInv, Answered
    PROVE  GatewayInv' /\ PipeInv'
  <1>1. /\ call.stage = "respond" /\ call' = Idle
        /\ net' = net \cup UNION {Replies(m) : m \in working} /\ working' = {}
        /\ UNCHANGED <<status, mem, fatal, disk, pc, believed, up>>
    BY DEF Answered, Respond, memory
  <1>2. call /= Idle /\ Idle.stage = "idle"
    BY <1>1 DEF Idle
  <1>3. working /= {} /\ up
    BY <1>2 DEF PipeInv
  <1>4. PICK m \in working: working = {m} /\ m.to \in Asked
    BY <1>3 DEF PipeInv
  <1>5. m \in H!Message
    BY DEF GatewayInv, RequestInv
  <1>6. m.to \in {"decide", "observe"} => Said(m) \in {"ALLOW", "DENY", "error", "observed"}
    BY <1>4 DEF Said, PipeInv
  <1>7. \A n \in Replies(m): n \in H!Message /\ n.to = "gateway"
    BY <1>5, <1>6, RepliesType
  <1>8. net' = net \cup Replies(m)
    BY <1>1, <1>4
  <1>9. GatewayInv'
    <2>1. pc' \in [H!Calls -> H!Places] /\ up' \in BOOLEAN
      BY <1>1 DEF GatewayInv
    <2>2. \A c: DecisionsFor(c)' = DecisionsFor(c)
      BY <1>1, SameControl
    <2> QED
      BY <1>1, <1>7, <1>8, <2>1, <2>2, GatewayKeeps
  <1>10. PipeInv'
    BY <1>1, <1>2, <1>3 DEF PipeInv
  <1> QED
    BY <1>9, <1>10

LEMMA DyingKeeps ==
    ASSUME GatewayInv, PipeInv, ServerInv, ServerDies \/ GatewayDies
    PROVE  GatewayInv' /\ PipeInv'
  <1>1. /\ disk' = disk /\ working' = {} /\ call' = Idle /\ ~fatal'
        /\ status' /= "serving" /\ believed' = believed
    <2>1. CASE Crash
      <3>1. disk' = disk /\ call' = Idle /\ ~fatal' /\ status' = "down"
        BY <2>1 DEF Crash, Forgotten
      <3> QED
        BY <3>1 DEF ServerDies, GatewayDies, H!Abandon, gateway
    <2>2. CASE ~Crash
      <3>1. GatewayDies /\ UNCHANGED vars /\ status /= "serving" /\ up
        BY <2>2 DEF ServerDies, GatewayDies, H!Abandon
      <3>2. call = Idle /\ ~fatal
        BY <3>1 DEF PipeInv, ServerInv, IInv, ProcessInv
      <3> QED
        BY <3>1, <3>2 DEF GatewayDies, H!Abandon, vars, memory
    <2> QED
      BY <2>1, <2>2
  <1>2. /\ pc' \in [H!Calls -> H!Places] /\ up' \in BOOLEAN /\ net' \subseteq net
        /\ \A c \in H!Calls: pc'[c] = pc[c] \/ (pc[c] /= "new" /\ pc'[c] = "lost")
        /\ ~up' => /\ \A m \in net': m.to = "upstream"
                   /\ \A c \in H!Calls: pc'[c] \in {"new", "answered", "lost"}
        /\ up' => status' \in {"serving", "down"}
    <2>1. CASE ServerDies
      <3>1. UNCHANGED <<pc, net, up>> /\ status' = "down"
        BY <2>1 DEF ServerDies, gateway, Crash
      <3> QED
        BY <3>1 DEF GatewayInv, PipeInv
    <2>2. CASE GatewayDies
      <3>1. /\ up' = FALSE /\ net' = {m \in net : m.to = "upstream"}
            /\ pc' = [c \in H!Calls |-> IF pc[c] \in {"new", "answered"} THEN pc[c] ELSE "lost"]
        BY <2>2 DEF GatewayDies, H!Abandon
      <3> QED
        BY <3>1 DEF GatewayInv, H!Places
    <2> QED
      BY <2>1, <2>2
  <1>3. GatewayInv'
    <2>1. \A c: DecisionsFor(c)' = DecisionsFor(c)
      BY <1>1, SameControl
    <2>2. net' \subseteq net \cup {}
      BY <1>2
    <2> QED
      BY <1>1, <1>2, <2>1, <2>2, GatewayKeeps
  <1>4. PipeInv'
    <2>1. call'.stage = "idle"
      BY <1>1 DEF Idle
    <2> QED
      BY <1>1, <1>2, <2>1 DEF PipeInv
  <1> QED
    BY <1>3, <1>4

LEMMA StartingKeeps ==
    ASSUME GatewayInv, PipeInv, ServerInv, Spawn \/ Recovers \/ ComeUp \/ UNCHANGED allVars
    PROVE  GatewayInv' /\ PipeInv'
  <1>1. UNCHANGED <<disk, pc, believed, net, working>>
    BY DEF Spawn, Recovers, ComeUp, allVars, vars, gateway, Open, Recover, RecoverEvent, PassOverEvent,
       RefuseEvent, PanicOnEvent, FinishRecovery
  <1>2. \A c: DecisionsFor(c)' = DecisionsFor(c)
    BY <1>1, SameControl
  <1>3. CASE Spawn \/ Recovers
    <2>1. call = Idle /\ ~fatal /\ ~up /\ up' = up
      BY <1>3 DEF Spawn, Recovers, Open, Recover, RecoverEvent, PassOverEvent, RefuseEvent,
         PanicOnEvent, FinishRecovery, Recovering, gateway, ServerInv, IInv, ProcessInv, PipeInv
    <2>2. call' = Idle /\ ~fatal' /\ (status' = "serving" => mem' = disk)
      <3>1. CASE Spawn
        BY <2>1, <3>1 DEF Spawn, Open
      <3>2. CASE Recovers
        <4>1. status = "recovering" /\ mem = disk
          BY <3>2 DEF Recovers, Recover, RecoverEvent, PassOverEvent, RefuseEvent, PanicOnEvent,
             FinishRecovery, Recovering, ServerInv, IInv, ProcessInv
        <4> QED
          BY <2>1, <3>2, <4>1 DEF Recovers, Recover, RecoverEvent, PassOverEvent, RefuseEvent,
             PanicOnEvent, FinishRecovery, Forgotten, memory
      <3> QED
        BY <1>3, <3>1, <3>2
    <2>3. Idle.stage = "idle"
      BY DEF Idle
    <2>4. PipeInv'
      BY <1>1, <2>1, <2>2, <2>3 DEF PipeInv
    <2>5. GatewayInv'
      <3>1. pc' \in [H!Calls -> H!Places] /\ up' \in BOOLEAN /\ net' \cap working' = {}
            /\ net' \subseteq net \cup {} /\ working' \subseteq net \cup working
        BY <1>1, <2>1 DEF GatewayInv
      <3> QED
        BY <1>1, <1>2, <3>1, GatewayKeeps
    <2> QED
      BY <2>4, <2>5
  <1>4. CASE ComeUp \/ UNCHANGED allVars
    <2>1. UNCHANGED <<mem, status, fatal, call>> /\ (up' = up \/ (up' = TRUE /\ status = "serving"))
      BY <1>4 DEF ComeUp, allVars, vars, memory, gateway
    <2>2. GatewayInv'
      <3>1. pc' \in [H!Calls -> H!Places] /\ up' \in BOOLEAN /\ net' \cap working' = {}
            /\ net' \subseteq net \cup {} /\ working' \subseteq net \cup working
        BY <1>1, <2>1 DEF GatewayInv
      <3> QED
        BY <1>1, <1>2, <3>1, GatewayKeeps
    <2>3. ASSUME call.stage = "persist", NEW m \in working
          PROVE  PreparedFor(m)'
      BY <1>1, <1>2, <2>1, <2>3 DEF PipeInv, PreparedFor, PreparedDecide, PreparedObserve,
         PreparedRecord, Suspended
    <2>4. PipeInv'
      BY <1>1, <2>1, <2>3 DEF PipeInv
    <2> QED
      BY <2>2, <2>4
  <1> QED
    BY <1>3, <1>4

LEMMA GovernedStep ==
    ASSUME ServerInv, GatewayInv, PipeInv, [GovernedNext]_allVars
    PROVE  ServerInv' /\ GatewayInv' /\ PipeInv'
  <1>1. [Next]_vars
    BY GovernedStepServes DEF ServerInv, IInv
  <1>2. ServerInv'
    BY <1>1, IInvStep, RestartStep, RecordsStep, AuditStep DEF ServerInv, IInv
  <1>3. GatewayInv' /\ PipeInv'
    <2>1. CASE Handlers
      <3>1. UNCHANGED <<disk, status, mem, fatal, call, up, working, vars>>
        BY <2>1 DEF Handlers, vars, memory
      <3>2. ASSUME NEW c \in H!Calls, H!Start(c) \/ H!Handler(c)
            PROVE  GatewayInv' /\ PipeInv'
        BY <3>1, <3>2, HandlerKeeps
      <3>3. CASE H!RunTool \/ H!Lose
        <4>1. pc' = pc /\ believed' = believed
          BY <3>3 DEF H!RunTool, H!Lose, H!handler
        <4> QED
          BY <3>1, <3>3, <4>1, OtherSideKeeps
      <3> QED
        BY <2>1, <3>2, <3>3 DEF Handlers
    <2>2. ASSUME NEW m \in net, ServeDecide(m) \/ ServeObserve(m) \/ ServeRecord(m)
          PROVE  GatewayInv' /\ PipeInv'
      BY <2>2, TakingUpKeeps
    <2>3. ASSUME NEW m \in net, Refuse(m)
          PROVE  GatewayInv' /\ PipeInv'
      <3>1. UNCHANGED <<vars, pc, believed, up, working>>
        BY <2>3 DEF Refuse
      <3> QED
        BY <2>3, <3>1, OtherSideKeeps
    <2> QED
      BY <2>1, <2>2, <2>3, WritingKeeps, AnsweringKeeps, DyingKeeps, StartingKeeps DEF GovernedNext
  <1> QED
    BY <1>2, <1>3

LEMMA GovernedStart ==
    ASSUME GovernedInit, \A file \in InitialFiles: Unspent(file)
    PROVE  ServerInv /\ GatewayInv /\ PipeInv
  <1>1. Init /\ disk \in InitialFiles /\ Unspent(disk) /\ call = Idle /\ status = "down"
        /\ ~fatal
    BY DEF GovernedInit, Init
  <1>2. ServerInv
    <2>1. IInv
      BY <1>1, IInvInit
    <2>2. RestartInv /\ RecordsInv
      BY <1>1 DEF RestartInv, RecordsInv, Unspent
    <2>3. AuditInv
      BY <1>1 DEF AuditInv, PendingInv, Idle, Unspent
    <2> QED
      BY <2>1, <2>2, <2>3 DEF ServerInv
  <1>3. \A c: DecisionsFor(c) = {}
    BY <1>1 DEF DecisionsFor, Unspent
  <1>4. GatewayInv
    <2>1. Observers \subseteq H!Calls
      BY DEF H!Calls
    <2>2. pc = [c \in H!Calls |-> "new"] /\ believed = [c \in H!Calls |-> "?"]
          /\ net = {} /\ working = {} /\ up = FALSE
      BY DEF GovernedInit
    <2> QED
      BY <1>3, <2>1, <2>2 DEF GatewayInv, H!Places
  <1>5. PipeInv
    <2>1. Len(disk.decisions) <= MaxDecisions
      BY <1>1, BoundsAssumption DEF Unspent
    <2> QED
      BY <1>1, <2>1 DEF GovernedInit, PipeInv, Idle
  <1> QED
    BY <1>2, <1>4, <1>5

(* Whatever the gateway and the server do, and whichever of them dies, the  *)
(* server stays consistent, no request is asked for twice, and an answer    *)
(* prepared in memory is the answer to the request in hand.                 *)
THEOREM GovernedInvariance ==
    ASSUME \A file \in InitialFiles: Unspent(file)
    PROVE  GovernedSpec => [](ServerInv /\ GatewayInv /\ PipeInv)
  <1>1. GovernedInit => ServerInv /\ GatewayInv /\ PipeInv
    BY GovernedStart
  <1>2. ServerInv /\ GatewayInv /\ PipeInv /\ [GovernedNext]_allVars
          => (ServerInv /\ GatewayInv /\ PipeInv)'
    BY GovernedStep
  <1> QED
    BY <1>1, <1>2, PTL DEF GovernedSpec

(* Behind the gateway the server takes no step it would not take alone, so  *)
(* what is proved of the server holds there too.                            *)
THEOREM GovernedIsServer ==
    ASSUME \A file \in InitialFiles: Unspent(file)
    PROVE  GovernedSpec => Spec
  <1>1. GovernedInit => Init
    BY DEF GovernedInit
  <1>2. ServerInv /\ GatewayInv /\ PipeInv /\ [GovernedNext]_allVars => [Next]_vars
    BY GovernedStepServes DEF ServerInv, IInv
  <1>3. GovernedSpec => [](ServerInv /\ GatewayInv /\ PipeInv)
    BY GovernedInvariance
  <1> QED
    BY <1>1, <1>2, <1>3, PTL DEF GovernedSpec, Spec

-----------------------------------------------------------------------------
(* What Gateway takes to be under way: the messages, and the request or the *)
(* reply in the server's hand.                                              *)
Hidden == IF call.stage = "persist" THEN working ELSE UNION {Replies(m) : m \in working}
Under == net \cup Hidden

LEMMA MappedMove ==
    ASSUME NEW c, NEW place, NEW requests
    PROVE  /\ H!MoveTo(c, place, requests) <=>
                /\ pc' = [pc EXCEPT ![c] = place]
                /\ net' = {m \in net : ~(m.to = "gateway" /\ m.call = c)} \cup requests
           /\ GW!MoveTo(c, place, requests) <=>
                /\ pc' = [pc EXCEPT ![c] = place]
                /\ Under' = {m \in Under : ~(m.to = "gateway" /\ m.call = c)} \cup requests
  BY DEF H!MoveTo, GW!MoveTo, Under, Hidden

LEMMA MappedHandled ==
    ASSUME NEW m, NEW place, NEW body
    PROVE  /\ H!Handled(m, place, body) <=>
                net' = (net \ {m}) \cup (IF H!Waits(m.call, place) THEN {H!Reply(m.call, body)} ELSE {})
           /\ GW!Handled(m, place, body) <=>
                Under' = (Under \ {m}) \cup (IF H!Waits(m.call, place) THEN {H!Reply(m.call, body)} ELSE {})
  BY DEF H!Handled, GW!Handled, H!Waits, GW!Waits, H!Reply, GW!Reply, Under, Hidden

LEMMA RepliesStay ==
    ASSUME UNCHANGED <<pc, call, fatal>>, NEW CONSTANT m
    PROVE  Replies(m)' = Replies(m)
  BY DEF Replies, Said, WaitsIn, H!Waits, H!Reply

LEMMA HiddenIs ==
    ASSUME GatewayInv, PipeInv
    PROVE  /\ working = {} => Hidden = {}
           /\ \A m \in working: Hidden = IF call.stage = "persist" THEN {m} ELSE Replies(m)
           /\ \A m \in Hidden: m.to /= "upstream" /\ (m \in net => m.to = "gateway")
           /\ call.stage /= "persist" => \A m \in Hidden: m.to = "gateway"
           /\ call.stage = "persist" => \A m \in Hidden: m.to /= "gateway"
           /\ UNCHANGED <<pc, call, fatal, working>> => Hidden' = Hidden
  <1>1. working = {} => Hidden = {}
    BY DEF Hidden
  <1>2. ASSUME NEW m \in working
        PROVE  Hidden = IF call.stage = "persist" THEN {m} ELSE Replies(m)
    <2>1. working = {m}
      BY DEF PipeInv
    <2> QED
      BY <2>1 DEF Hidden
  <1>3. \A m: \A n \in Replies(m): n.to = "gateway"
    BY DEF Replies, H!Reply
  <1>4. \A m \in working: m.to \in Asked /\ m \notin net
    BY DEF PipeInv, GatewayInv
  <1>5. call.stage = "persist" => Hidden = working
    BY DEF Hidden
  <1>6. call.stage /= "persist" => \A m \in Hidden: m.to = "gateway"
    BY <1>3 DEF Hidden
  <1>7. UNCHANGED <<pc, call, fatal, working>> => Hidden' = Hidden
    <2>1. SUFFICES ASSUME UNCHANGED <<pc, call, fatal, working>>
                   PROVE  Hidden' = Hidden
      OBVIOUS
    <2>2. \A m: Replies(m)' = Replies(m)
      BY <2>1, RepliesStay
    <2> QED
      BY <2>1, <2>2 DEF Hidden
  <1> QED
    BY <1>1, <1>2, <1>4, <1>5, <1>6, <1>7, Zenon DEF Asked

LEMMA MappedTerms ==
    /\ GW!Calls = H!Calls
    /\ \A to, c, body: GW!Request(to, c, body) = H!Request(to, c, body)
    /\ \A c, id, outcome: GW!Report(c, id, outcome) = H!Report(c, id, outcome)
    /\ \A c, text: GW!Answer(c, text) <=> H!Answer(c, text)
    /\ \A body: GW!OutcomeOf(body) = H!OutcomeOf(body)
    /\ \A c, place: GW!Waits(c, place) <=> H!Waits(c, place)
    /\ UNCHANGED GW!handler <=> UNCHANGED <<pc, believed, answer>>
    /\ UNCHANGED H!handler <=> UNCHANGED <<pc, believed, answer>>
  BY DEF GW!Calls, H!Calls, GW!Request, H!Request, GW!Report, H!Report, GW!Answer, H!Answer,
     GW!OutcomeOf, H!OutcomeOf, GW!Waits, H!Waits, GW!handler, H!handler

LEMMA MappedControl ==
    /\ UNCHANGED GW!controlState <=> UNCHANGED <<Suspended, Healthy, DecisionOf, OutcomesOf>>
    /\ UNCHANGED H!controlState <=> UNCHANGED <<Suspended, Healthy, DecisionOf, OutcomesOf>>
    /\ UNCHANGED <<disk, status, fatal, up>> => UNCHANGED <<Suspended, Healthy, DecisionOf, OutcomesOf>>
    /\ UNCHANGED GW!vars <=> UNCHANGED <<Suspended, Healthy, DecisionOf, OutcomesOf, ran,
                                         pc, believed, answer, Under, up>>
  <1>1. UNCHANGED <<disk, status, fatal, up>> => UNCHANGED <<Suspended, Healthy, DecisionOf, OutcomesOf>>
    BY SameControl
  <1> QED
    BY <1>1 DEF GW!controlState, H!controlState, GW!vars, GW!handler, Under, Hidden

(* A handler that moves on no longer hears a late reply, in the pipe or not *)
(* sent yet.                                                                *)
LEMMA MovesMap ==
    ASSUME GatewayInv, PipeInv, UNCHANGED <<fatal, call, working>>,
           NEW c \in H!Calls, NEW place, NEW requests,
           Moves(c, place, requests), H!MoveTo(c, place, requests)
    PROVE  GW!MoveTo(c, place, requests)
  <1>1. /\ pc' = [pc EXCEPT ![c] = place]
        /\ net' = {m \in net : ~(m.to = "gateway" /\ m.call = c)} \cup requests
    BY MappedMove
  <1>2. Hidden' = {m \in Hidden : ~(m.to = "gateway" /\ m.call = c)}
    <2>1. CASE working = {}
      BY <2>1, HiddenIs DEF Hidden
    <2>2. ASSUME NEW m \in working
          PROVE  Hidden' = {n \in Hidden : ~(n.to = "gateway" /\ n.call = c)}
      <3>1. /\ working = {m} /\ m.to \in Asked /\ m.call \in H!Calls
            /\ m.to \in {"decide", "observe"} => pc[m.call] /= "new"
        BY DEF PipeInv, GatewayInv, RequestInv, H!Message
      <3>2. CASE call.stage = "persist"
        <4>1. Hidden = {m} /\ Hidden' = {m} /\ m.to /= "gateway"
          BY <3>1, <3>2 DEF Hidden, Asked
        <4> QED
          BY <4>1
      <3>3. CASE call.stage /= "persist"
        <4>1. Hidden = Replies(m) /\ Hidden' = Replies(m)'
          BY <3>1, <3>3 DEF Hidden
        <4>2. /\ Replies(m) = IF m.to \in {"decide", "observe"} /\ pc[m.call] = WaitsIn(m)
                              THEN {H!Reply(m.call, Said(m))} ELSE {}
              /\ Replies(m)' = IF m.to \in {"decide", "observe"} /\ pc'[m.call] = WaitsIn(m)
                               THEN {H!Reply(m.call, Said(m))} ELSE {}
          BY DEF Replies, Said, WaitsIn, H!Waits, H!Reply
        <4>3. H!Reply(m.call, Said(m)).to = "gateway" /\ H!Reply(m.call, Said(m)).call = m.call
          BY DEF H!Reply
        <4>4. CASE m.call = c
          <5>1. m.to \in {"decide", "observe"} => pc'[c] \notin {"authorizing", "passing"}
            BY <1>1, <3>1, <4>4 DEF Moves, GatewayInv
          <5>2. WaitsIn(m) \in {"authorizing", "passing"}
            BY DEF WaitsIn
          <5>3. Replies(m)' = {}
            BY <4>2, <4>4, <5>1, <5>2
          <5> QED
            BY <4>1, <4>2, <4>3, <4>4, <5>3
        <4>5. CASE m.call /= c
          <5>1. pc'[m.call] = pc[m.call]
            BY <1>1, <3>1, <4>5 DEF GatewayInv
          <5> QED
            BY <4>1, <4>2, <4>3, <4>5, <5>1
        <4> QED
          BY <4>4, <4>5
      <3> QED
        BY <3>2, <3>3
    <2> QED
      BY <2>1, <2>2
  <1>3. Under' = {m \in Under : ~(m.to = "gateway" /\ m.call = c)} \cup requests
    BY <1>1, <1>2 DEF Under
  <1> QED
    BY <1>1, <1>3, MappedMove

LEMMA HandlersMap ==
    ASSUME GatewayInv, PipeInv, UNCHANGED <<vars, up, working>>,
           NEW c \in H!Calls, H!Start(c) \/ H!Handler(c)
    PROVE  GW!Start(c) \/ GW!Handler(c)
  <1>1. fatal' = fatal /\ call' = call /\ disk' = disk /\ status' = status
    BY DEF vars, memory
  <1>2. ASSUME NEW place, NEW requests, Moves(c, place, requests), H!MoveTo(c, place, requests)
        PROVE  GW!MoveTo(c, place, requests)
    BY <1>1, <1>2, MovesMap
  <1>3. UNCHANGED GW!controlState
    BY <1>1, MappedControl
  <1>4. net \subseteq Under
    BY DEF Under
  <1>5. CASE H!Start(c)
    <2>1. up /\ pc[c] = "new" /\ UNCHANGED <<ran, believed, answer, up>>
      BY <1>5 DEF H!Start
    <2>2. IF c \in Actions THEN H!MoveTo(c, "authorizing", {H!Request("decide", c, "ask")})
                           ELSE H!MoveTo(c, "passing", {H!Request("observe", c, "judge")})
      BY <1>5 DEF H!Start
    <2>3. c \notin Actions => c \in Observers
      BY DEF H!Calls
    <2>4. /\ c \in Actions => Moves(c, "authorizing", {H!Request("decide", c, "ask")})
          /\ c \notin Actions => Moves(c, "passing", {H!Request("observe", c, "judge")})
      BY <2>1, <2>3, Zenon DEF Moves
    <2>5. IF c \in Actions THEN GW!MoveTo(c, "authorizing", {GW!Request("decide", c, "ask")})
                           ELSE GW!MoveTo(c, "passing", {GW!Request("observe", c, "judge")})
      BY <1>2, <2>2, <2>4, MappedTerms
    <2> QED
      BY <1>3, <2>1, <2>5 DEF GW!Start
  <1>6. CASE H!AuthorizationFails(c)
    <2>1. /\ pc[c] = "authorizing" /\ H!MoveTo(c, "blocking", {H!Report(c, "?", "blocked")})
          /\ H!Answer(c, "denied") /\ UNCHANGED <<ran, believed, up>>
      BY <1>6 DEF H!AuthorizationFails
    <2>2. Moves(c, "blocking", {H!Report(c, "?", "blocked")})
      BY <2>1, Zenon DEF Moves
    <2>3. GW!MoveTo(c, "blocking", {GW!Report(c, "?", "blocked")}) /\ GW!Answer(c, "denied")
      BY <1>2, <2>1, <2>2, MappedTerms
    <2> QED
      BY <1>3, <2>1, <2>3 DEF GW!AuthorizationFails, GW!Handler
  <1>7. CASE H!AuthorizationArrives(c)
    <2>1. pc[c] = "authorizing" /\ UNCHANGED <<ran, up>>
      BY <1>7 DEF H!AuthorizationArrives
    <2>2. PICK m \in net:
            /\ m.to = "gateway" /\ m.call = c
            /\ m.body \in {"ALLOW", "DENY", "error"}
            /\ believed' = [believed EXCEPT ![c] = IF m.body = "error" THEN "?" ELSE "known"]
            /\ IF m.body = "ALLOW"
               THEN H!MoveTo(c, "forwarding", {H!Request("upstream", c, "run")}) /\ UNCHANGED answer
               ELSE /\ H!MoveTo(c, "blocking", {H!Report(c, believed'[c], "blocked")})
                    /\ H!Answer(c, "denied")
      BY <1>7 DEF H!AuthorizationArrives
    <2>3. believed'[c] \in {"?", "known"}
      BY <2>2 DEF GatewayInv
    <2>4. /\ Moves(c, "forwarding", {H!Request("upstream", c, "run")})
          /\ Moves(c, "blocking", {H!Report(c, believed'[c], "blocked")})
      BY <2>1, <2>3, Zenon DEF Moves
    <2>5. IF m.body = "ALLOW"
          THEN GW!MoveTo(c, "forwarding", {GW!Request("upstream", c, "run")}) /\ UNCHANGED answer
          ELSE /\ GW!MoveTo(c, "blocking", {GW!Report(c, believed'[c], "blocked")})
               /\ GW!Answer(c, "denied")
      <3>1. CASE m.body = "ALLOW"
        BY <1>2, <2>2, <2>4, <3>1, MappedTerms
      <3>2. CASE m.body /= "ALLOW"
        BY <1>2, <2>2, <2>4, <3>2, MappedTerms
      <3> QED
        BY <3>1, <3>2
    <2>6. m \in Under
      BY <1>4
    <2>7. GW!AuthorizationArrives(c)
      BY <1>3, <2>1, <2>2, <2>5, <2>6 DEF GW!AuthorizationArrives, Under, Hidden
    <2> QED
      BY <2>7 DEF GW!Handler
  <1>8. CASE H!ResultArrives(c)
    <2>1. pc[c] = "forwarding" /\ H!Answer(c, "result") /\ UNCHANGED <<ran, believed, up>>
      BY <1>8 DEF H!ResultArrives
    <2>2. PICK m \in net: /\ m.to = "gateway" /\ m.call = c
                          /\ m.body \in {"ok", "is_error"}
                          /\ H!MoveTo(c, "reporting", {H!Report(c, "known", H!OutcomeOf(m.body))})
      BY <1>8 DEF H!ResultArrives
    <2>3. H!OutcomeOf(m.body) \in {"executed", "failed"}
      BY DEF H!OutcomeOf
    <2>4. Moves(c, "reporting", {H!Report(c, "known", H!OutcomeOf(m.body))})
      BY <2>1, <2>3, Zenon DEF Moves
    <2>5. /\ GW!MoveTo(c, "reporting", {GW!Report(c, "known", GW!OutcomeOf(m.body))})
          /\ GW!Answer(c, "result")
      BY <1>2, <2>1, <2>2, <2>4, MappedTerms
    <2>6. m \in Under
      BY <1>4
    <2>7. GW!ResultArrives(c)
      BY <1>3, <2>1, <2>2, <2>5, <2>6 DEF GW!ResultArrives, Under, Hidden
    <2> QED
      BY <2>7 DEF GW!Handler
  <1>9. CASE H!ForwardFails(c)
    <2>1. /\ pc[c] = "forwarding" /\ H!MoveTo(c, "reporting", {H!Report(c, "known", "failed")})
          /\ H!Answer(c, "error") /\ UNCHANGED <<ran, believed, up>>
      BY <1>9 DEF H!ForwardFails
    <2>2. Moves(c, "reporting", {H!Report(c, "known", "failed")})
      BY <2>1, Zenon DEF Moves
    <2>3. GW!MoveTo(c, "reporting", {GW!Report(c, "known", "failed")}) /\ GW!Answer(c, "error")
      BY <1>2, <2>1, <2>2, MappedTerms
    <2> QED
      BY <1>3, <2>1, <2>3 DEF GW!ForwardFails, GW!Handler
  <1>10. CASE H!Finish(c)
    <2>1. /\ pc[c] \in {"blocking", "reporting"} /\ H!MoveTo(c, "answered", {})
          /\ UNCHANGED <<ran, believed, answer, up>>
      BY <1>10 DEF H!Finish
    <2>2. Moves(c, "answered", {})
      BY <2>1, Zenon DEF Moves
    <2>3. GW!MoveTo(c, "answered", {})
      BY <1>2, <2>1, <2>2
    <2> QED
      BY <1>3, <2>1, <2>3 DEF GW!Finish, GW!Handler
  <1>11. CASE H!PassEnds(c)
    <2>1. /\ pc[c] = "passing" /\ H!MoveTo(c, "answered", {})
          /\ UNCHANGED <<ran, believed, up>>
          /\ \/ H!Answer(c, "error")
             \/ (\E m \in net: m.to = "gateway" /\ m.call = c) /\ H!Answer(c, "result")
      BY <1>11 DEF H!PassEnds
    <2>2. Moves(c, "answered", {})
      BY <2>1, Zenon DEF Moves
    <2>3. GW!MoveTo(c, "answered", {})
      BY <1>2, <2>1, <2>2
    <2>4. \/ GW!Answer(c, "error")
          \/ (\E m \in Under: m.to = "gateway" /\ m.call = c) /\ GW!Answer(c, "result")
      BY <1>4, <2>1, MappedTerms
    <2>5. GW!PassEnds(c)
      BY <1>3, <2>1, <2>3, <2>4 DEF GW!PassEnds, Under, Hidden
    <2> QED
      BY <2>5 DEF GW!Handler
  <1> QED
    BY <1>5, <1>6, <1>7, <1>8, <1>9, <1>10, <1>11 DEF H!Handler

(* The upstreams and losses touch neither what the server has in hand nor   *)
(* its reply; a refusal is an answer of an unhealthy server, or says        *)
(* nothing.                                                                 *)
LEMMA UpstreamMaps ==
    ASSUME GatewayInv, PipeInv, UNCHANGED <<vars, up, working>>, H!RunTool \/ H!Lose
    PROVE  GW!RunTool \/ GW!Lose
  <1>1. disk' = disk /\ status' = status /\ fatal' = fatal /\ call' = call
    BY DEF vars, memory
  <1>2. UNCHANGED GW!controlState
    BY <1>1, MappedControl
  <1>3. UNCHANGED <<pc, believed, answer, up>>
    BY MappedTerms DEF H!RunTool, H!Lose
  <1>4. Hidden' = Hidden
    BY <1>1, <1>3, HiddenIs
  <1>5. CASE H!RunTool
    <2>1. PICK m \in net:
            /\ m.to = "upstream"
            /\ \/ /\ ran' = [ran EXCEPT ![m.call] = @ + 1]
                  /\ \E body \in {"ok", "is_error"}: H!Handled(m, "forwarding", body)
               \/ /\ H!Handled(m, "forwarding", "is_error")
                  /\ UNCHANGED ran
      BY <1>5 DEF H!RunTool
    <2>2. m \in Under /\ m \notin Hidden
      BY <2>1, HiddenIs DEF Under
    <2>3. \A body: H!Handled(m, "forwarding", body) => GW!Handled(m, "forwarding", body)
      <3>1. SUFFICES ASSUME NEW body, H!Handled(m, "forwarding", body)
                     PROVE  GW!Handled(m, "forwarding", body)
        OBVIOUS
      <3> DEFINE reply == IF H!Waits(m.call, "forwarding") THEN {H!Reply(m.call, body)} ELSE {}
      <3>2. net' = (net \ {m}) \cup reply
        BY <3>1, MappedHandled
      <3> HIDE DEF reply
      <3>3. Under' = (Under \ {m}) \cup reply
        BY <1>4, <2>2, <3>2 DEF Under
      <3> QED
        BY <3>3, MappedHandled DEF reply
    <2>4. \/ /\ ran' = [ran EXCEPT ![m.call] = @ + 1]
             /\ \E body \in {"ok", "is_error"}: GW!Handled(m, "forwarding", body)
          \/ /\ GW!Handled(m, "forwarding", "is_error")
             /\ UNCHANGED ran
      BY <2>1, <2>3
    <2>5. UNCHANGED GW!handler
      BY <1>3, MappedTerms
    <2>6. GW!RunTool
      BY <1>2, <1>3, <2>1, <2>2, <2>4, <2>5 DEF GW!RunTool, Under, Hidden
    <2> QED
      BY <2>6
  <1>6. CASE H!Lose
    <2>1. PICK m \in net: m.to /= "gateway" /\ net' = net \ {m}
      BY <1>6 DEF H!Lose
    <2>2. m \in Under /\ m \notin Hidden
      BY <2>1, HiddenIs DEF Under
    <2>3. Under' = Under \ {m}
      BY <1>4, <2>1, <2>2 DEF Under
    <2>4. UNCHANGED GW!handler /\ UNCHANGED ran
      BY <1>3, <1>6, MappedTerms DEF H!Lose
    <2>5. GW!Lose
      BY <1>2, <1>3, <2>1, <2>2, <2>3, <2>4 DEF GW!Lose, Under, Hidden
    <2> QED
      BY <2>5
  <1> QED
    BY <1>5, <1>6

LEMMA RefusalMaps ==
    ASSUME GatewayInv, PipeInv, NEW m \in net, Refuse(m)
    PROVE  GW!HandleDecide \/ GW!HandleObserve \/ GW!HandleRecord
  <1>1. /\ status = "serving" /\ call = Idle /\ m.to \in Asked
        /\ fatal \/ (m.to = "record" /\ m.id = "?")
        /\ net' = (net \ {m}) \cup Replies(m)
        /\ UNCHANGED <<vars, ran, pc, believed, answer, up, working>>
    BY DEF Refuse, Asked
  <1>2. disk' = disk /\ status' = status /\ fatal' = fatal /\ call' = call
    BY <1>1 DEF vars, memory
  <1>3. UNCHANGED <<Suspended, Healthy, DecisionOf, OutcomesOf>>
    BY <1>1, <1>2, MappedControl
  <1>4. up /\ (fatal => ~Healthy) /\ (~fatal => Healthy)
    BY <1>1 DEF PipeInv, Asked, Healthy
  <1>5. Hidden = {} /\ Hidden' = {}
    BY <1>1 DEF PipeInv, Hidden
  <1>6. m \in Under /\ Under' = (Under \ {m}) \cup Replies(m)
    BY <1>1, <1>5 DEF Under
  <1>7. UNCHANGED GW!handler
    BY <1>1, MappedTerms
  <1>8. CASE m.to = "decide"
    <2>1. fatal /\ Said(m) = "error" /\ WaitsIn(m) = "authorizing"
      BY <1>1, <1>8 DEF Said, WaitsIn
    <2>2. GW!Handled(m, "authorizing", "error")
      BY <1>6, <1>8, <2>1, MappedHandled DEF Replies
    <2>3. GW!HandleDecide
      BY <1>1, <1>3, <1>4, <1>6, <1>7, <1>8, <2>1, <2>2 DEF GW!HandleDecide, Under, Hidden
    <2> QED
      BY <2>3
  <1>9. CASE m.to = "observe"
    <2>1. fatal /\ Said(m) = "observed" /\ WaitsIn(m) = "passing"
      BY <1>1, <1>9 DEF Said, WaitsIn
    <2>2. GW!Handled(m, "passing", "observed")
      BY <1>6, <1>9, <2>1, MappedHandled DEF Replies
    <2>3. GW!HandleObserve
      BY <1>1, <1>3, <1>4, <1>6, <1>7, <1>9, <2>1, <2>2 DEF GW!HandleObserve, Under, Hidden
    <2> QED
      BY <2>3
  <1>10. CASE m.to = "record"
    <2>1. Replies(m) = {} /\ (fatal \/ m.id = "?")
      BY <1>1, <1>10 DEF Replies
    <2>2. Under' = Under \ {m}
      BY <1>6, <2>1
    <2>3. GW!HandleRecord
      BY <1>1, <1>3, <1>4, <1>6, <1>7, <1>10, <2>1, <2>2 DEF GW!HandleRecord, Under, Hidden
    <2> QED
      BY <2>3
  <1> QED
    BY <1>1, <1>8, <1>9, <1>10 DEF Asked

LEMMA TakenUp ==
    ASSUME GatewayInv, NEW m \in net, ServeDecide(m) \/ ServeObserve(m) \/ ServeRecord(m)
    PROVE  /\ call = Idle /\ call'.stage = "persist" /\ UNCHANGED <<status, fatal, disk>>
           /\ working' = {m} /\ net' = net \ {m} /\ UNCHANGED <<ran, pc, believed, answer, up>>
  <1>1. TakesUp(m)
    BY DEF ServeDecide, ServeObserve, ServeRecord
  <1>2. \A op, id, d, version, text: Prepared(op, id, d, version, text).stage = "persist"
    BY DEF Prepared
  <1>3. CASE ServeDecide(m)
    <2>1. m.call \in Actions /\ Decide(Governed, m.call)
      BY <1>3 DEF ServeDecide, GatewayInv, RequestInv
    <2> QED
      BY <1>1, <1>2, <2>1, DecideSteps, GovernedAssumption DEF TakesUp, Ready
  <1>4. CASE ServeObserve(m)
    <2>1. PICK d \in Domains, judgment \in Judgments: Observe(d, judgment)
      BY <1>4 DEF ServeObserve
    <2> QED
      BY <1>1, <1>2, <2>1, ObserveSteps DEF TakesUp, Ready
  <1>5. CASE ServeRecord(m)
    <2>1. PICK i \in 1..Len(mem.decisions): RecordOutcomeOf(mem.decisions[i].id, m.body)
      BY <1>5 DEF ServeRecord
    <2> QED
      BY <1>1, <1>2, <2>1, OutcomeSteps DEF TakesUp, Ready
  <1> QED
    BY <1>3, <1>4, <1>5

(* To Gateway nothing happens when the server takes a request up or sends   *)
(* the reply it had in hand, nor while it is started again.                 *)
LEMMA InvisibleSteps ==
    ASSUME GatewayInv, PipeInv, ServerInv,
           \/ \E m \in net: ServeDecide(m) \/ ServeObserve(m) \/ ServeRecord(m)
           \/ Answered \/ Spawn \/ Recovers \/ UNCHANGED allVars
    PROVE  UNCHANGED GW!vars
  <1>1. disk' = disk /\ UNCHANGED <<ran, pc, believed, answer, up>>
    <2>1. ASSUME NEW m \in net, ServeDecide(m) \/ ServeObserve(m) \/ ServeRecord(m)
          PROVE  disk' = disk /\ UNCHANGED <<ran, pc, believed, answer, up>>
      BY <2>1, TakenUp
    <2>2. CASE Answered \/ Spawn \/ Recovers \/ UNCHANGED allVars
      BY <2>2 DEF Answered, Respond, Spawn, Recovers, Open, Recover, RecoverEvent, PassOverEvent,
         RefuseEvent, PanicOnEvent, FinishRecovery, allVars, vars, gateway
    <2> QED
      BY <2>1, <2>2
  <1>2. Healthy' = Healthy
    <2>1. ASSUME NEW m \in net, ServeDecide(m) \/ ServeObserve(m) \/ ServeRecord(m)
          PROVE  UNCHANGED <<status, fatal>>
      BY <2>1, TakenUp
    <2>2. CASE Answered \/ UNCHANGED allVars
      BY <1>1, <2>2 DEF Answered, Respond, allVars, vars, memory, Healthy
    <2>3. CASE Spawn \/ Recovers
      <3>1. ~up
        BY <2>3 DEF Spawn, Recovers, Recover, RecoverEvent, PassOverEvent, RefuseEvent, PanicOnEvent,
           FinishRecovery, Recovering, PipeInv
      <3> QED
        BY <1>1, <3>1 DEF Healthy
    <2> QED
      BY <1>1, <2>1, <2>2, <2>3 DEF Healthy
  <1>3. Under' = Under
    <2>1. ASSUME NEW m \in net, ServeDecide(m) \/ ServeObserve(m) \/ ServeRecord(m)
          PROVE  Under' = Under
      <3>1. working' = {m} /\ net' = net \ {m}
        BY <2>1, TakenUp
      <3>2. call = Idle /\ call'.stage = "persist"
        BY <2>1, TakenUp
      <3>3. Hidden = {} /\ Hidden' = {m}
        BY <3>1, <3>2 DEF PipeInv, Hidden
      <3> QED
        BY <3>1, <3>3 DEF Under
    <2>2. CASE Answered
      <3>1. /\ call.stage = "respond" /\ working' = {}
            /\ net' = net \cup UNION {Replies(m) : m \in working}
        BY <2>2 DEF Answered, Respond
      <3>2. Hidden' = {} /\ Hidden = UNION {Replies(m) : m \in working}
        BY <3>1 DEF Hidden
      <3> QED
        BY <3>1, <3>2 DEF Under
    <2>3. CASE Spawn \/ Recovers
      <3>1. ~up /\ net' = net /\ working' = working
        BY <2>3 DEF Spawn, Recovers, Recover, RecoverEvent, PassOverEvent, RefuseEvent, PanicOnEvent,
           FinishRecovery, Recovering, PipeInv, gateway
      <3>2. Hidden = {} /\ Hidden' = {}
        BY <3>1 DEF PipeInv, Hidden
      <3> QED
        BY <3>1, <3>2 DEF Under
    <2>4. CASE UNCHANGED allVars
      <3>1. UNCHANGED <<pc, call, fatal, working, net>>
        BY <2>4 DEF allVars, vars, memory, gateway
      <3> QED
        BY <3>1, HiddenIs DEF Under
    <2> QED
      BY <2>1, <2>2, <2>3, <2>4
  <1> QED
    BY <1>1, <1>2, <1>3, SameControl, MappedControl

(* The deaths and the next start.                                           *)
LEMMA DeathsMap ==
    ASSUME GatewayInv, PipeInv, ServerInv, ServerDies \/ GatewayDies \/ ComeUp
    PROVE  GW!ControlPlaneDies \/ GW!Die \/ GW!ComeUp \/ UNCHANGED GW!vars
  <1>1. disk' = disk /\ UNCHANGED ran
    BY DEF ServerDies, GatewayDies, ComeUp, Crash, vars, gateway
  <1>2. UNCHANGED <<Suspended, DecisionOf, OutcomesOf>>
    BY <1>1, SameControl
  <1>3. CASE ServerDies
    <2>1. /\ status' = "down" /\ working' = {}
          /\ UNCHANGED <<pc, believed, answer, net, up>>
      BY <1>3 DEF ServerDies, Crash, gateway
    <2>2. ~Healthy' /\ Healthy' = FALSE /\ Under' = net
      BY <2>1 DEF Healthy, Under, Hidden
    <2>3. CASE up
      <3>1. Under' = Under \/ \E m \in Under: m.to /= "upstream" /\ Under' = Under \ {m}
        <4>1. CASE Hidden \subseteq net
          BY <2>2, <4>1 DEF Under
        <4>2. CASE ~(Hidden \subseteq net)
          <5>1. PICK m \in Hidden: m \notin net
            BY <4>2
          <5>2. Hidden = {m}
            <6>1. working /= {}
              BY <5>1, HiddenIs
            <6>2. PICK n \in working: TRUE
              BY <6>1
            <6>3. Hidden = IF call.stage = "persist" THEN {n} ELSE Replies(n)
              BY <6>2, HiddenIs
            <6> QED
              BY <5>1, <6>3 DEF Replies
          <5>3. m.to /= "upstream"
            BY <5>1, HiddenIs
          <5>4. m \in Under /\ Under' = Under \ {m}
            BY <2>2, <5>1, <5>2 DEF Under
          <5> QED
            BY <5>3, <5>4
        <4> QED
          BY <4>1, <4>2
      <3>2. UNCHANGED GW!handler
        BY <2>1, MappedTerms
      <3>3. GW!ControlPlaneDies
        BY <1>1, <1>2, <2>1, <2>2, <2>3, <3>1, <3>2 DEF GW!ControlPlaneDies, Under, Hidden
      <3> QED
        BY <3>3
    <2>4. CASE ~up
      <3>1. Healthy = FALSE /\ Hidden = {}
        BY <2>4 DEF Healthy, PipeInv, Hidden
      <3> QED
        BY <1>1, <1>2, <2>1, <2>2, <3>1, MappedControl DEF Under
    <2> QED
      BY <2>3, <2>4
  <1>4. CASE GatewayDies
    <2>1. H!Abandon /\ working' = {}
      BY <1>4 DEF GatewayDies
    <2>2. /\ up /\ up' = FALSE
          /\ pc' = [c \in H!Calls |-> IF pc[c] \in {"new", "answered"} THEN pc[c] ELSE "lost"]
          /\ net' = {m \in net : m.to = "upstream"}
          /\ UNCHANGED <<believed, answer>>
      BY <2>1 DEF H!Abandon
    <2>3. Under' = {m \in Under : m.to = "upstream"} /\ Healthy' = FALSE
      <3>1. Hidden' = {} /\ \A m \in Hidden: m.to /= "upstream"
        BY <2>1, HiddenIs DEF Hidden
      <3> QED
        BY <2>2, <3>1 DEF Under, Healthy
    <2>4. GW!Abandon
      BY <2>2, <2>3, MappedTerms DEF GW!Abandon, Under, Hidden
    <2>5. GW!Die
      BY <1>1, <1>2, <2>3, <2>4 DEF GW!Die
    <2> QED
      BY <2>5
  <1>5. CASE ComeUp
    <2>1. /\ ~up /\ up' = TRUE /\ status = "serving"
          /\ UNCHANGED <<vars, ran, pc, believed, answer, net, working>>
      BY <1>5 DEF ComeUp
    <2>2. status' = status /\ fatal' = fatal /\ call' = call /\ ~fatal
      BY <2>1 DEF vars, memory, PipeInv
    <2>3. Healthy' = TRUE
      BY <2>1, <2>2 DEF Healthy
    <2>4. Under' = Under
      BY <2>1, <2>2, HiddenIs DEF Under
    <2>5. UNCHANGED GW!handler
      BY <2>1, MappedTerms
    <2>6. GW!ComeUp
      BY <1>1, <1>2, <2>1, <2>3, <2>4, <2>5 DEF GW!ComeUp, Under, Hidden
    <2> QED
      BY <2>6
  <1> QED
    BY <1>3, <1>4, <1>5

(* The write is where the decision is made, the observation is taken in and *)
(* the outcome is recorded.                                                 *)
LEMMA DecisionWritten ==
    ASSUME NEW decision \in StoredDecision, disk \in Store, disk' = RecordDecision(disk, decision),
           DecisionsFor(decision.action) = {}
    PROVE  DecisionOf' = [DecisionOf EXCEPT ![decision.action] = decision.verdict]
  <1> DEFINE For(log, c) == {i \in 1..Len(log): log[i].action = c}
             Answer(log, c) == IF For(log, c) = {} THEN "none"
                                 ELSE log[CHOOSE i \in For(log, c): TRUE].verdict
             n == Len(disk.decisions)
             a == decision.action
  <1>1. /\ \A c: c /= a => DecisionsFor(c)' = DecisionsFor(c)
        /\ DecisionsFor(a)' = {n + 1}
        /\ disk'.decisions = Append(disk.decisions, decision)
    BY WrittenDecisions
  <1>2. /\ \A i \in 1..n: disk'.decisions[i] = disk.decisions[i]
        /\ disk'.decisions[n + 1] = decision
    BY <1>1, StoreLogs, AppendExtends DEF Extends
  <1>3. /\ DecisionOf = [c \in Actions |-> Answer(disk.decisions, c)]
        /\ DecisionOf' = [c \in Actions |-> Answer(disk'.decisions, c)]
    BY Zenon DEF DecisionOf, DecisionsFor
  <1>4. \A c: For(disk.decisions, c) = DecisionsFor(c) /\ For(disk'.decisions, c) = DecisionsFor(c)'
    BY Zenon DEF DecisionsFor
  <1> HIDE DEF For
  <1>5. ASSUME NEW c \in Actions, c /= a
        PROVE  Answer(disk'.decisions, c) = Answer(disk.decisions, c)
    <2>1. For(disk'.decisions, c) = For(disk.decisions, c)
      BY <1>1, <1>4, <1>5
    <2>2. CASE For(disk.decisions, c) = {}
      BY <2>1, <2>2
    <2>3. CASE For(disk.decisions, c) /= {}
      <3> DEFINE i == CHOOSE i \in For(disk.decisions, c): TRUE
      <3>1. i \in 1..n
        BY <2>3 DEF For
      <3>2. disk'.decisions[i] = disk.decisions[i]
        BY <1>2, <3>1
      <3>3. Answer(disk.decisions, c) = disk.decisions[i].verdict
        BY <2>3, Zenon
      <3>4. Answer(disk'.decisions, c) = disk'.decisions[i].verdict
        BY <2>1, <2>3, Zenon
      <3> QED
        BY <3>2, <3>3, <3>4
    <2> QED
      BY <2>2, <2>3
  <1>6. Answer(disk'.decisions, a) = decision.verdict
    <2>1. For(disk'.decisions, a) = {n + 1}
      BY <1>1, <1>4
    <2>2. (CHOOSE i \in {n + 1}: TRUE) = n + 1
      OBVIOUS
    <2> QED
      BY <1>2, <2>1, <2>2
  <1> HIDE DEF Answer
  <1> QED
    BY <1>3, <1>5, <1>6

(* Nothing recorded so far is about another decision afterwards.            *)
LEMMA OutcomesStay ==
    ASSUME NEW store \in Store, NEW later \in Store, Recorded(store), Audited(store), Recorded(later),
           Extends(store.decisions, later.decisions), Extends(store.outcomes, later.outcomes)
    PROVE  OutcomesTo(later, Len(store.outcomes)) = OutcomesTo(store, Len(store.outcomes))
  <1>1. /\ Len(store.outcomes) \in Nat /\ Len(later.outcomes) \in Nat
        /\ Len(store.decisions) \in Nat /\ Len(later.decisions) \in Nat
    BY StoreLogs
  <1>2. ASSUME NEW k \in 1..Len(store.outcomes)
        PROVE  Decision(later, store.outcomes[k].decision) = Decision(store, store.outcomes[k].decision)
    <2>1. store.outcomes[k].decision \in 1..Len(store.decisions)
      BY DEF Audited, OutcomesRecorded
    <2>2. store.outcomes[k].decision \in 1..Len(later.decisions)
      BY <1>1, <2>1 DEF Extends
    <2>3. /\ Decision(store, store.outcomes[k].decision) = store.decisions[store.outcomes[k].decision]
          /\ Decision(later, store.outcomes[k].decision) = later.decisions[store.outcomes[k].decision]
      BY <2>1, <2>2, DecisionById
    <2> QED
      BY <2>1, <2>3 DEF Extends
  <1>3. \A k \in 0..Len(store.outcomes): OutcomesTo(later, k) = OutcomesTo(store, k)
    BY <1>1, <1>2, OutcomesPrefix
  <1> QED
    BY <1>1, <1>3

LEMMA OutcomeWritten ==
    ASSUME NEW outcome \in StoredOutcome, disk \in Store, disk' \in Store,
           Recorded(disk), Audited(disk), Recorded(disk'), disk' = RecordOutcome(disk, outcome),
           outcome.decision \in 1..Len(disk.decisions),
           NEW c, disk.decisions[outcome.decision].action = c
    PROVE  /\ OutcomesOf' = [OutcomesOf EXCEPT ![c] = Append(@, outcome.outcome)]
           /\ disk'.decisions = disk.decisions /\ disk'.versions = disk.versions
  <1> DEFINE n == Len(disk.outcomes)
  <1>1. /\ disk'.outcomes = Append(disk.outcomes, outcome)
        /\ disk'.decisions = disk.decisions /\ disk'.versions = disk.versions
    BY Recording
  <1>2. /\ Extends(disk.outcomes, disk'.outcomes)
        /\ Len(disk'.outcomes) = n + 1 /\ disk'.outcomes[n + 1] = outcome
        /\ n \in Nat /\ Extends(disk.decisions, disk'.decisions)
    BY <1>1, StoreLogs, AppendExtends DEF Grows
  <1>3. OutcomesTo(disk', n) = OutcomesTo(disk, n)
    BY <1>2, OutcomesStay
  <1>4. Decision(disk', outcome.decision).action = c
    <2>1. outcome.decision \in 1..Len(disk'.decisions)
      BY <1>1
    <2>2. Decision(disk', outcome.decision) = disk'.decisions[outcome.decision]
      BY <2>1, DecisionById
    <2> QED
      BY <1>1, <2>2
  <1>5. OutcomesTo(disk', n + 1) =
          [OutcomesTo(disk', n) EXCEPT
             ![Decision(disk', disk'.outcomes[n + 1].decision).action] =
                Append(@, disk'.outcomes[n + 1].outcome)]
    <2>1. Len(disk'.outcomes) \in Nat /\ n + 1 \in 1..Len(disk'.outcomes) /\ (n + 1) - 1 = n
      BY <1>2
    <2> HIDE DEF n
    <2>2. \A k \in 1..Len(disk'.outcomes):
            OutcomesTo(disk', k) =
              [OutcomesTo(disk', k - 1) EXCEPT
                 ![Decision(disk', disk'.outcomes[k].decision).action] =
                    Append(@, disk'.outcomes[k].outcome)]
      BY <2>1, OutcomesSteps
    <2> QED
      BY <2>1, <2>2
  <1>6. OutcomesOf = OutcomesTo(disk, n) /\ OutcomesOf' = OutcomesTo(disk', n + 1)
    BY <1>2 DEF OutcomesOf
  <1> HIDE DEF n
  <1>7. OutcomesOf' = [OutcomesTo(disk, n) EXCEPT ![c] = Append(@, outcome.outcome)]
    BY <1>2, <1>3, <1>4, <1>5, <1>6
  <1> QED
    BY <1>1, <1>6, <1>7

LEMMA WriteMaps ==
    ASSUME GatewayInv, PipeInv, ServerInv, ServerInv', Write
    PROVE  GW!HandleDecide \/ GW!HandleObserve \/ GW!HandleRecord
  <1>1. /\ call.stage = "persist"
        /\ call' = [call EXCEPT !.stage = "respond"]
        /\ UNCHANGED <<status, ran, pc, believed, answer, net, up, working>>
        /\ \/ PersistOk /\ disk' = mem /\ fatal' = fatal
           \/ PersistFail /\ disk' = disk /\ fatal' = TRUE
    BY DEF Write, PersistOk, PersistFail, memory, gateway
  <1>2. call \in [stage: {"persist", "respond"}, reply: Reply] /\ call /= Idle
    BY <1>1 DEF ServerInv, IInv, TypeOK, Idle
  <1>3. call'.stage = "respond" /\ call'.reply = call.reply
    BY <1>1, <1>2
  <1>4. working /= {} /\ up
    BY <1>2 DEF PipeInv
  <1>5. PICK m \in working: working = {m} /\ m.to \in Asked /\ PreparedFor(m)
    BY <1>1, <1>4 DEF PipeInv
  <1>6. RequestInv(m) /\ m \notin net
    BY <1>5 DEF GatewayInv
  <1>7. status = "serving" /\ ~fatal
    BY <1>1, <1>2 DEF ServerInv, IInv, ProcessInv, TypeOK
  <1>8. Healthy /\ Healthy = TRUE /\ Healthy' = ~fatal'
    BY <1>1, <1>4, <1>7 DEF Healthy
  <1>9. Hidden = {m} /\ Hidden' = Replies(m)'
    BY <1>1, <1>3, <1>5 DEF Hidden
  <1>10. m \in Under /\ Under' = (Under \ {m}) \cup Replies(m)'
    BY <1>1, <1>6, <1>9 DEF Under
  <1>11. Replies(m)' = IF m.to \in {"decide", "observe"} /\ H!Waits(m.call, WaitsIn(m))
                       THEN {H!Reply(m.call, Said(m)')} ELSE {}
    BY <1>1 DEF Replies, WaitsIn, H!Waits, H!Reply
  <1>12. UNCHANGED GW!handler /\ UNCHANGED <<ran, up>>
    BY <1>1, MappedTerms
  <1>13. disk \in Store /\ disk' \in Store /\ Recorded(disk) /\ Recorded(disk') /\ Audited(disk)
    BY DEF ServerInv, IInv, TypeOK, RecordsInv, AuditInv
  <1>14. disk' = disk => UNCHANGED <<Suspended, DecisionOf, OutcomesOf>>
    BY SameControl
  <1>15. CASE m.to = "decide"
    <2>1. WaitsIn(m) = "authorizing" /\ m.call \in Actions
      BY <1>6, <1>15 DEF WaitsIn, RequestInv
    <2>2. CASE PersistOk /\ disk' = mem /\ fatal' = fatal
      <3>1. PICK decision \in StoredDecision:
              /\ mem = RecordDecision(disk, decision)
              /\ decision.action = m.call
              /\ decision.verdict = IF Suspended THEN "DENY" ELSE "ALLOW"
              /\ call.reply.answer = decision.verdict
        BY <1>5, <1>15 DEF PreparedFor, PreparedDecide
      <3>2. DecisionsFor(m.call) = {}
        BY <1>5, <1>15 DEF PreparedFor, PreparedDecide
      <3>3. DecisionOf' = [DecisionOf EXCEPT ![m.call] = decision.verdict]
        BY <1>13, <2>2, <3>1, <3>2, DecisionWritten
      <3>4. /\ disk'.outcomes = disk.outcomes /\ disk'.versions = disk.versions
            /\ disk'.decisions = Append(disk.decisions, decision)
        BY <1>13, <2>2, <3>1, WrittenDecisions
      <3>5. Suspended' = Suspended
        BY <3>4 DEF Suspended, CurrentStateVersion
      <3>6. OutcomesOf' = OutcomesOf
        <4>1. Extends(disk.decisions, disk'.decisions) /\ Extends(disk.outcomes, disk'.outcomes)
          BY <1>13, <3>4, StoreLogs, AppendExtends DEF Grows
        <4> QED
          BY <1>13, <3>4, <4>1, OutcomesStay DEF OutcomesOf
      <3>7. Said(m)' = decision.verdict
        BY <1>3, <1>7, <1>15, <2>2, <3>1 DEF Said
      <3>8. GW!Handled(m, "authorizing", decision.verdict)
        BY <1>10, <1>11, <1>15, <2>1, <3>7, MappedHandled
      <3>9. Healthy' = Healthy
        BY <1>7, <1>8, <2>2
      <3>10. GW!HandleDecide
        BY <1>8, <1>10, <1>12, <1>15, <3>1, <3>3, <3>5, <3>6, <3>8, <3>9
           DEF GW!HandleDecide, Under, Hidden
      <3> QED
        BY <3>10
    <2>3. CASE PersistFail /\ disk' = disk /\ fatal' = TRUE
      <3>1. Said(m)' = "error"
        BY <1>15, <2>3 DEF Said
      <3>2. GW!Handled(m, "authorizing", "error")
        BY <1>10, <1>11, <1>15, <2>1, <3>1, MappedHandled
      <3>3. Healthy' = FALSE
        BY <1>8, <2>3
      <3>4. GW!HandleDecide
        BY <1>10, <1>12, <1>14, <1>15, <2>3, <3>2, <3>3 DEF GW!HandleDecide, Under, Hidden
      <3> QED
        BY <3>4
    <2> QED
      BY <1>1, <2>2, <2>3
  <1>16. CASE m.to = "observe"
    <2>1. WaitsIn(m) = "passing" /\ Said(m)' = "observed"
      BY <1>16 DEF WaitsIn, Said
    <2>2. GW!Handled(m, "passing", "observed")
      BY <1>10, <1>11, <1>16, <2>1, MappedHandled
    <2>3. CASE PersistOk /\ disk' = mem /\ fatal' = fatal
      <3>1. /\ disk'.decisions = disk.decisions /\ disk'.outcomes = disk.outcomes
            /\ Suspended => Suspended'
        BY <1>5, <1>16, <2>3 DEF PreparedFor, PreparedObserve, Suspended
      <3>2. DecisionOf' = DecisionOf
        BY <3>1, SameControl
      <3>3. OutcomesOf' = OutcomesOf
        <4>1. Extends(disk.decisions, disk'.decisions) /\ Extends(disk.outcomes, disk'.outcomes)
          <5>1. Extends(disk.decisions, disk.decisions) /\ Extends(disk.outcomes, disk.outcomes)
            BY <1>13, StoreLogs DEF Grows
          <5> QED
            BY <3>1, <5>1
        <4> QED
          BY <1>13, <3>1, <4>1, OutcomesStay DEF OutcomesOf
      <3>4. Suspended' \in {Suspended, TRUE}
        <4>1. Suspended \in BOOLEAN /\ Suspended' \in BOOLEAN
          BY DEF Suspended
        <4> QED
          BY <3>1, <4>1, Zenon
      <3>5. Healthy' = Healthy
        BY <1>7, <1>8, <2>3
      <3>6. GW!HandleObserve
        BY <1>8, <1>10, <1>12, <1>16, <2>2, <3>2, <3>3, <3>4, <3>5 DEF GW!HandleObserve, Under, Hidden
      <3> QED
        BY <3>6
    <2>4. CASE PersistFail /\ disk' = disk /\ fatal' = TRUE
      <3>1. Healthy' = FALSE
        BY <1>8, <2>4
      <3>2. GW!HandleObserve
        BY <1>10, <1>12, <1>14, <1>16, <2>2, <2>4, <3>1 DEF GW!HandleObserve, Under, Hidden
      <3> QED
        BY <3>2
    <2> QED
      BY <1>1, <2>3, <2>4
  <1>17. CASE m.to = "record"
    <2>1. Under' = Under \ {m}
      BY <1>10, <1>11, <1>17
    <2>2. CASE PersistOk /\ disk' = mem /\ fatal' = fatal
      <3>1. PICK outcome \in StoredOutcome:
              /\ mem = RecordOutcome(disk, outcome)
              /\ outcome.outcome = m.body
              /\ outcome.decision \in 1..Len(disk.decisions)
              /\ disk.decisions[outcome.decision].action = m.call
        BY <1>5, <1>17 DEF PreparedFor, PreparedRecord
      <3>2. m.id = "known"
        BY <1>5, <1>17 DEF PreparedFor, PreparedRecord
      <3>3. /\ OutcomesOf' = [OutcomesOf EXCEPT ![m.call] = Append(@, m.body)]
            /\ disk'.decisions = disk.decisions /\ disk'.versions = disk.versions
        BY <1>13, <2>2, <3>1, OutcomeWritten
      <3>4. DecisionOf' = DecisionOf
        BY <3>3, SameControl
      <3>5. Suspended' = Suspended
        BY <3>3 DEF Suspended, CurrentStateVersion
      <3>6. DecisionOf[m.call] /= "none"
        <4>1. m.call \in Actions
          BY <1>6, <1>17 DEF RequestInv
        <4>2. DecisionsFor(m.call) /= {}
          BY <3>1 DEF DecisionsFor
        <4> DEFINE i == CHOOSE i \in DecisionsFor(m.call): TRUE
        <4>3. i \in 1..Len(disk.decisions)
          BY <4>2 DEF DecisionsFor
        <4>4. DecisionOf[m.call] = disk.decisions[i].verdict
          BY <4>1, <4>2 DEF DecisionOf
        <4> HIDE DEF i
        <4>5. disk.decisions[i] \in StoredDecision
          BY <1>13, <4>3, StoreLogs
        <4>6. disk.decisions[i].verdict \in {"ALLOW", "DENY"}
          BY <4>5 DEF StoredDecision
        <4> QED
          BY <4>4, <4>6
      <3>7. Healthy' = Healthy
        BY <1>7, <1>8, <2>2
      <3>8. GW!HandleRecord
        BY <1>8, <1>10, <1>12, <1>17, <2>1, <3>2, <3>3, <3>4, <3>5, <3>6, <3>7
           DEF GW!HandleRecord, Under, Hidden
      <3> QED
        BY <3>8
    <2>3. CASE PersistFail /\ disk' = disk /\ fatal' = TRUE
      <3>1. Healthy' = FALSE
        BY <1>8, <2>3
      <3>2. GW!HandleRecord
        BY <1>10, <1>12, <1>14, <1>17, <2>1, <2>3, <3>1 DEF GW!HandleRecord, Under, Hidden
      <3> QED
        BY <3>2
    <2> QED
      BY <1>1, <2>2, <2>3
  <1> QED
    BY <1>5, <1>15, <1>16, <1>17 DEF Asked

LEMMA GatewayBegins ==
    ASSUME GovernedInit, Unspent(disk)
    PROVE  GW!Init
  <1>1. /\ ran = [c \in Actions |-> 0] /\ pc = [c \in H!Calls |-> "new"]
        /\ believed = [c \in H!Calls |-> "?"] /\ answer = [c \in H!Calls |-> "none"]
        /\ net = {} /\ up = FALSE /\ working = {}
    BY DEF GovernedInit
  <1>2. Suspended = FALSE /\ Healthy = FALSE
    BY <1>1 DEF Unspent, Suspended, Healthy
  <1>3. DecisionOf = [c \in Actions |-> "none"]
    <2>1. \A c: DecisionsFor(c) = {}
      BY DEF Unspent, DecisionsFor
    <2> QED
      BY <2>1 DEF DecisionOf
  <1>4. OutcomesOf = [c \in Actions |-> <<>>]
    <2>1. Len(disk.outcomes) = 0
      BY DEF Unspent
    <2> QED
      BY <2>1, OutcomesSteps DEF OutcomesOf
  <1>5. Under = {}
    BY <1>1 DEF GovernedInit, Init, Idle, Under, Hidden
  <1> QED
    BY <1>1, <1>2, <1>3, <1>4, <1>5, MappedTerms DEF GW!Init, Under, Hidden

LEMMA GovernedMaps ==
    ASSUME ServerInv, GatewayInv, PipeInv, [GovernedNext]_allVars
    PROVE  GW!Next \/ UNCHANGED GW!vars
  <1>1. CASE Handlers
    <2>1. UNCHANGED <<vars, up, working>>
      BY <1>1 DEF Handlers
    <2>2. ASSUME NEW c \in H!Calls, H!Start(c) \/ H!Handler(c)
          PROVE  GW!Next
      BY <2>1, <2>2, HandlersMap, MappedTerms DEF GW!Next
    <2>3. CASE H!RunTool \/ H!Lose
      BY <2>1, <2>3, UpstreamMaps DEF GW!Next
    <2> QED
      BY <1>1, <2>2, <2>3 DEF Handlers
  <1>2. ASSUME NEW m \in net, Refuse(m)
        PROVE  GW!Next
    BY <1>2, RefusalMaps DEF GW!Next
  <1>3. CASE Write
    <2>1. ServerInv'
      BY GovernedStep
    <2> QED
      BY <1>3, <2>1, WriteMaps DEF GW!Next
  <1>4. CASE ServerDies \/ GatewayDies \/ ComeUp
    BY <1>4, DeathsMap DEF GW!Next
  <1> QED
    BY <1>1, <1>2, <1>3, <1>4, InvisibleSteps DEF GovernedNext

(* The gateway over the real server is the gateway over Gateway's simple    *)
(* control plane: whatever is proved of Gateway's safety holds of it.  The  *)
(* files it starts on are as the server keeps them, with nothing decided or *)
(* suspended for its calls yet.                                             *)
THEOREM GovernedImplementsGateway ==
    ASSUME \A file \in InitialFiles: Unspent(file)
    PROVE  GovernedSpec => ImplementsGateway
  <1>1. GovernedInit => GW!Init
    <2> SUFFICES ASSUME GovernedInit
                 PROVE  GW!Init
      OBVIOUS
    <2>1. Unspent(disk)
      BY DEF GovernedInit, Init
    <2> QED
      BY <2>1, GatewayBegins
  <1>2. ServerInv /\ GatewayInv /\ PipeInv /\ [GovernedNext]_allVars => [GW!Next]_(GW!vars)
    BY GovernedMaps
  <1>3. GovernedSpec => [](ServerInv /\ GatewayInv /\ PipeInv)
    BY GovernedInvariance
  <1> QED
    BY <1>1, <1>2, <1>3, PTL DEF GovernedSpec, ImplementsGateway, GW!Spec

=============================================================================
