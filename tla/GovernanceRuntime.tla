-------------------------- MODULE GovernanceRuntime --------------------------
(***************************************************************************)
(* The MCP governance server (src/src/mcp/server.rs) over the durable JSON *)
(* event store (src/src/store/json_file.rs).                               *)
(*                                                                         *)
(* The mutex around the runtime serialises requests, so at most one is in  *)
(* progress; but a request is not atomic.  It changes the kernels and the  *)
(* in-memory store, then rewrites the file (which may fail), then answers; *)
(* the process may die between any two of these, and other processes       *)
(* (r2r-enforce, a fresh JsonFileEventStore::open) read the file at any    *)
(* moment.  A restart reads the file back and replays its events one by    *)
(* one through new kernels, refusing to serve when they disagree.          *)
(***************************************************************************)
EXTENDS Governance, EventStore, FiniteSets

CONSTANTS
    InitialFiles,                          \* what the store file may hold at the first start
    Judgments,                             \* the [beyond, destructive] pairs observed
    OutcomeKinds,                          \* what is reported of actions: "executed", ...
    MaxEvents, MaxDecisions, MaxOutcomes   \* bounds on the logs, for model checking

ASSUME JudgmentsAssumption == Judgments \subseteq [beyond: 0..PPM, destructive: 0..PPM]
ASSUME BoundsAssumption == MaxEvents \in Nat /\ MaxDecisions \in Nat /\ MaxOutcomes \in Nat

VARIABLES
    status,    \* the server process: "down", "recovering", "serving", "refused"
    domains,   \* in memory: one kernel and its projection per domain
    mem,       \* in memory: the store's contents
    fatal,     \* in memory: the store's sticky fatal_error
    disk,      \* the file: the last snapshot renamed into place
    cursor,    \* recovery: the next event to replay
    replayed,  \* recovery: the state version counted per domain
    call,      \* the request in progress, if any, and the reply it prepared
    acks       \* history: the replies clients have received, in order

memory == <<domains, mem, fatal>>
recovery == <<cursor, replayed>>
vars == <<status, memory, disk, recovery, call, acks>>

NewDomain ==
    [gov |-> NewGovernance, nextVtick |-> 1, projected |-> "ALLOW", governing |-> 0]

Idle == [stage |-> "idle"]

(* A dead process: what it held in memory is gone. *)
Forgotten ==
    /\ domains' = [d \in Domains |-> NewDomain]
    /\ mem' = EmptyStore
    /\ fatal' = FALSE
    /\ cursor' = 1
    /\ replayed' = [d \in Domains |-> 0]
    /\ call' = Idle

(* A missing file reads as EmptyStore; an earlier installation, or damage,  *)
(* may have left anything else that decodes.  An event's `policy' says what *)
(* its replay input was admitted under: this policy version, another one,   *)
(* or that it has no input.                                                 *)
Init ==
    /\ status = "down"
    /\ domains = [d \in Domains |-> NewDomain]
    /\ mem = EmptyStore
    /\ fatal = FALSE
    /\ disk \in InitialFiles
    /\ cursor = 1
    /\ replayed = [d \in Domains |-> 0]
    /\ call = Idle
    /\ acks = <<>>

-----------------------------------------------------------------------------
(* A kernel step and what the runtime keeps of it: the projected decision   *)
(* and the latest authorization change.                                     *)
(* Seeded fault: the cause is stored too. *)
RenderWithCause(c) == c
RenderRelationChange(c) == [relation |-> c.relation, id |-> c.id, to |-> c.to]
Transitions(admission) == {RenderRelationChange(c) : c \in admission.changes}

(* Seeded faults: the projection keeps the decision of the first event; it  *)
(* does not follow the change that governs.                                 *)
AfterObservationUnprojected(domain, outcome, nextVtick) ==
    [domain EXCEPT !.gov = outcome.gov, !.nextVtick = nextVtick]
AfterObservationUngoverned(domain, outcome, nextVtick) ==
    [domain EXCEPT !.gov = outcome.gov, !.nextVtick = nextVtick,
                   !.projected = outcome.admission.decision]

AfterObservation(domain, outcome, nextVtick) ==
    [gov |-> outcome.gov,
     nextVtick |-> nextVtick,
     projected |-> outcome.admission.decision,
     governing |->
        IF \E c \in outcome.admission.changes: c.relation = "authorization"
        THEN (CHOOSE c \in outcome.admission.changes: c.relation = "authorization").id
        ELSE domain.governing]

(* Seeded fault: an event that changed nothing is counted. *)
VersionAfterAnyEvent(version, admission) == version + 1
VersionAfter(version, admission) ==
    IF admission.changes = {} THEN version ELSE version + 1

(* Replaying a stored event must reproduce what was stored of it. *)
Agrees(event, admission, version) ==
    /\ event.kernelEvent = admission.event
    /\ event.version = version
    /\ event.transitions = Transitions(admission)

Panics(event) ==
    ~ValidContext(event.context) \/ event.judgment.beyond > PPM \/ event.judgment.destructive > PPM

(* with_runtime: the lock is free and the store's health allows the call. *)
Ready == status = "serving" /\ call = Idle /\ ~fatal

Prepared(op, id, domain, version, answer) ==
    [stage |-> "persist",
     reply |-> [op |-> op, id |-> id, domain |-> domain, version |-> version, answer |-> answer]]

(* r2r_observe.  Confidences out of range are refused before any change. *)
Observe(d, judgment) ==
    /\ Ready
    /\ Len(mem.events) < MaxEvents
    /\ LET domain == domains[d]
           context == DemoContext(domain.nextVtick)
           outcome == ObserveJudgment(domain.gov, judgment, context)
           changed == outcome.admission.changes /= {}
           store == IF changed THEN AdvanceStateVersion(mem, d) ELSE mem
           event == [id |-> mem.issued.event + 1,
                     kernelEvent |-> outcome.admission.event,
                     domain |-> d,
                     version |-> CurrentStateVersion(store, d),
                     transitions |-> Transitions(outcome.admission),
                     judgment |-> judgment,
                     context |-> context,
                     policy |-> "current"]
       IN  /\ domains' = [domains EXCEPT ![d] =
                             AfterObservation(domain, outcome, domain.nextVtick + 1)]
           /\ mem' = RecordEvent(store, event)
           /\ call' = Prepared("observe", event.id, d, event.version,
                               IF changed THEN "CHANGED" ELSE "UNCHANGED")
    /\ UNCHANGED <<status, fatal, disk, recovery, acks>>

(* r2r_decide: the projection answers; the causal chain is every event the  *)
(* domain has.                                                              *)
Decide(d, action) ==
    /\ Ready
    /\ Len(mem.decisions) < MaxDecisions
    /\ LET decision == [id |-> mem.issued.decision + 1,
                        domain |-> d,
                        action |-> action,
                        verdict |-> domains[d].projected,
                        governing |-> domains[d].governing,
                        version |-> CurrentStateVersion(mem, d),
                        chain |-> {mem.events[k].id : k \in EventsForDomain(mem, d)}]
       IN  /\ mem' = RecordDecision(mem, decision)
           /\ call' = Prepared("decide", decision.id, d, decision.version, decision.verdict)
    /\ UNCHANGED <<status, domains, fatal, disk, recovery, acks>>

OutcomeFor(store, id, outcome) ==
    LET decision == Decision(store, id)
    IN  [id |-> store.issued.outcome + 1,
         decision |-> decision.id,
         domain |-> decision.domain,
         outcome |-> outcome,
         version |-> CurrentStateVersion(store, decision.domain)]

(* r2r_record_outcome binds the outcome to the version the domain has now.  *)
(* An unknown decision id is answered with an error and changes nothing.    *)
RecordOutcomeOf(id, kind) ==
    /\ Ready
    /\ Len(mem.outcomes) < MaxOutcomes
    /\ KnowsDecision(mem, id)
    /\ LET outcome == OutcomeFor(mem, id, kind)
       IN  /\ mem' = RecordOutcome(mem, outcome)
           /\ call' = Prepared("outcome", outcome.id, outcome.domain, outcome.version, "RECORDED")
    /\ UNCHANGED <<status, domains, fatal, disk, recovery, acks>>

(* persist: a complete temporary file is renamed over the store, or some    *)
(* step of it fails, the file stays as it was and the error is remembered.  *)
PersistOk ==
    /\ call.stage = "persist"
    /\ disk' = mem
    /\ call' = [call EXCEPT !.stage = "respond"]
    /\ UNCHANGED <<status, memory, recovery, acks>>

(* Seeded fault: the error is not remembered. *)
PersistFailForgotten ==
    /\ call.stage = "persist"
    /\ call' = [call EXCEPT !.stage = "respond"]
    /\ UNCHANGED <<status, memory, disk, recovery, acks>>

PersistFail ==
    /\ call.stage = "persist"
    /\ fatal' = TRUE
    /\ call' = [call EXCEPT !.stage = "respond"]
    /\ UNCHANGED <<status, domains, mem, disk, recovery, acks>>

(* Seeded fault: a request whose write failed is never answered. *)
RespondIfHealthy ==
    /\ call.stage = "respond"
    /\ ~fatal
    /\ acks' = Append(acks, call.reply)
    /\ call' = Idle
    /\ UNCHANGED <<status, memory, disk, recovery>>

(* The second health check decides what the client sees: its reply, or an  *)
(* error for an operation memory has already applied.                      *)
Respond ==
    /\ call.stage = "respond"
    /\ acks' = IF fatal THEN acks ELSE Append(acks, call.reply)
    /\ call' = Idle
    /\ UNCHANGED <<status, memory, disk, recovery>>

-----------------------------------------------------------------------------
Crash ==
    /\ status \in {"recovering", "serving"}
    /\ status' = "down"
    /\ Forgotten
    /\ UNCHANGED <<disk, acks>>

(* Seeded faults: the file is not read; the counters are not in it. *)
OpenEmpty ==
    /\ status \in {"down", "refused"}
    /\ status' = "recovering"
    /\ mem' = EmptyStore
    /\ UNCHANGED <<domains, fatal, disk, recovery, call, acks>>
OpenUncounted ==
    /\ status \in {"down", "refused"}
    /\ status' = "recovering"
    /\ mem' = [disk EXCEPT !.issued = EmptyStore.issued]
    /\ UNCHANGED <<domains, fatal, disk, recovery, call, acks>>

(* JsonFileEventStore::open, then GovernanceRuntime::try_with_store. *)
Open ==
    /\ status \in {"down", "refused"}
    /\ status' = "recovering"
    /\ mem' = disk
    /\ UNCHANGED <<domains, fatal, disk, recovery, call, acks>>

(* Seeded fault: the clock starts over. *)
RestoredVtickUnset(domain, event) == domain.nextVtick
RestoredVtick(domain, event) ==
    IF domain.nextVtick > event.context.now + 1 THEN domain.nextVtick ELSE event.context.now + 1

(* The event under recovery, and what a new kernel makes of it.             *)
Event == mem.events[cursor]
Outcome == ObserveJudgment(domains[Event.domain].gov, Event.judgment, Event.context)
Version == VersionAfter(replayed[Event.domain], Outcome.admission)

Recovering == status = "recovering" /\ cursor <= Len(mem.events)
Replayable == Event.policy = "current" /\ ~Panics(Event)

RecoverEvent ==
    /\ Recovering
    /\ Replayable
    /\ Agrees(Event, Outcome.admission, Version)
    /\ domains' = [domains EXCEPT ![Event.domain] =
                       AfterObservation(@, Outcome, RestoredVtick(@, Event))]
    /\ replayed' = [replayed EXCEPT ![Event.domain] = Version]
    /\ cursor' = cursor + 1
    /\ UNCHANGED <<status, mem, fatal, disk, call, acks>>

(* An event stored without its input is passed over if it changed nothing.  *)
PassOverEvent ==
    /\ Recovering
    /\ Event.policy = "none" /\ Event.transitions = {}
    /\ cursor' = cursor + 1
    /\ UNCHANGED <<status, memory, replayed, disk, call, acks>>

RefuseEvent ==
    /\ Recovering
    /\ \/ Event.policy = "none" /\ Event.transitions /= {}
       \/ Event.policy = "other"
       \/ Replayable /\ ~Agrees(Event, Outcome.admission, Version)
    /\ status' = "refused"
    /\ Forgotten
    /\ UNCHANGED <<disk, acks>>

(* AdmissionContext::new and admit assert their ranges.                     *)
PanicOnEvent ==
    /\ Recovering
    /\ Event.policy = "current" /\ Panics(Event)
    /\ status' = "down"
    /\ Forgotten
    /\ UNCHANGED <<disk, acks>>

(* Seeded fault: the versions stored may be older than those counted.       *)
VersionsCovered ==
    \A i \in 1..Len(mem.events): LET d == mem.events[i].domain IN
        mem.events[i].policy /= "none" => replayed[d] >= CurrentStateVersion(mem, d)

(* The versions counted must be the versions stored, for every domain that  *)
(* had an event replayed.                                                   *)
EventsReplayed == cursor > Len(mem.events)
VersionsAgree ==
    \A i \in 1..Len(mem.events): LET d == mem.events[i].domain IN
        mem.events[i].policy /= "none" => replayed[d] = CurrentStateVersion(mem, d)

FinishRecovery ==
    /\ status = "recovering"
    /\ EventsReplayed
    /\ \/ /\ VersionsAgree
          /\ status' = "serving"
          /\ cursor' = 1
          /\ replayed' = [d \in Domains |-> 0]
          /\ UNCHANGED <<memory, call>>
       \/ /\ ~VersionsAgree
          /\ status' = "refused"
          /\ Forgotten
    /\ UNCHANGED <<disk, acks>>

Request ==
    \/ \E d \in Domains, judgment \in Judgments: Observe(d, judgment)
    \/ \E d \in Domains, action \in Actions: Decide(d, action)
    \/ \E id \in 1..MaxDecisions, kind \in OutcomeKinds: RecordOutcomeOf(id, kind)

Finish == PersistOk \/ PersistFail \/ Respond
Recover == RecoverEvent \/ PassOverEvent \/ RefuseEvent \/ PanicOnEvent \/ FinishRecovery

Next == Request \/ Finish \/ Crash \/ Open \/ Recover

Spec == Init /\ [][Next]_vars

(* The server works off the request it holds; nobody is obliged to send     *)
(* requests or to restart it.                                               *)
FairSpec == Spec /\ WF_vars(Finish)

-----------------------------------------------------------------------------
(* r2r_replay: a new kernel runs the domain's events that have an input and *)
(* reports the first one it cannot reproduce; what it makes of the events   *)
(* after that one no longer matters.  `first' is the place of that event in *)
(* the log, 0 for none.                                                     *)
Replayed(run, event, k) ==
    LET outcome == ObserveJudgment(run.gov, event.judgment, event.context)
        version == VersionAfter(run.version, outcome.admission)
        diverges == event.policy = "other" \/ ~Agrees(event, outcome.admission, version)
    IN  [gov |-> outcome.gov,
         version |-> version,
         first |-> IF run.first = 0 /\ diverges THEN k ELSE run.first]

HasInput(store, d, k) == k \in EventsForDomain(store, d) /\ store.events[k].policy /= "none"

ReplayTo(store, d, n) ==
    LET run[k \in 0..Len(store.events)] ==
            IF k = 0 THEN [gov |-> NewGovernance, version |-> 0, first |-> 0]
            ELSE IF HasInput(store, d, k) THEN Replayed(run[k - 1], store.events[k], k)
            ELSE run[k - 1]
    IN  run[n]

Replay(store, d) ==
    LET last == ReplayTo(store, d, Len(store.events))
    IN  [match |-> last.first = 0 /\ last.version = CurrentStateVersion(store, d),
         divergent |-> IF last.first = 0 THEN 0 ELSE store.events[last.first].id]

-----------------------------------------------------------------------------
StoredEvent ==
    [id: Nat, kernelEvent: Nat, domain: Domains, version: Nat,
     transitions: SUBSET [relation: Relations, id: Nat,
                          to: {"Warning", "Degraded", "Suspended", "Active", "created"}],
     judgment: [beyond: Nat, destructive: Nat],
     context: [reliability: Nat, corroborators: Nat, now: Nat, expires: Nat],
     policy: {"current", "other", "none"}]
StoredDecision ==
    [id: Nat, domain: Domains, action: Actions, verdict: {"ALLOW", "DENY"},
     governing: Nat, version: Nat, chain: SUBSET Nat]
StoredOutcome ==
    [id: Nat, decision: Nat, domain: Domains, outcome: OutcomeKinds, version: Nat]
Store ==
    [events: Seq(StoredEvent), decisions: Seq(StoredDecision), outcomes: Seq(StoredOutcome),
     versions: [Domains -> Nat], issued: [event: Nat, decision: Nat, outcome: Nat]]
DomainRuntime ==
    [gov: GovernanceState, nextVtick: Nat, projected: {"ALLOW", "DENY"}, governing: Nat]
ReplyTo(op, answers) ==
    [op: {op}, id: Nat, domain: Domains, version: Nat, answer: answers]
Reply ==
    ReplyTo("observe", {"CHANGED", "UNCHANGED"}) \cup ReplyTo("decide", {"ALLOW", "DENY"})
        \cup ReplyTo("outcome", {"RECORDED"})

(* A file that does not decode into these types is refused by the parser.   *)
ASSUME FilesAssumption == InitialFiles \subseteq Store

(* Every variable keeps its type. *)
TypeOK ==
    /\ status \in {"down", "recovering", "serving", "refused"}
    /\ domains \in [Domains -> DomainRuntime]
    /\ mem \in Store
    /\ fatal \in BOOLEAN
    /\ disk \in Store
    /\ cursor \in Nat \ {0}
    /\ replayed \in [Domains -> Nat]
    /\ call \in {Idle} \cup [stage: {"persist", "respond"}, reply: Reply]
    /\ acks \in Seq(Reply)

-----------------------------------------------------------------------------
Holds(store, reply) ==
    CASE reply.op = "observe" ->
           \E i \in 1..Len(store.events): LET e == store.events[i] IN
              /\ e.id = reply.id /\ e.domain = reply.domain /\ e.version = reply.version
              /\ (reply.answer = "CHANGED") <=> (e.transitions /= {})
      [] reply.op = "decide" ->
           \E i \in 1..Len(store.decisions): LET e == store.decisions[i] IN
              /\ e.id = reply.id /\ e.domain = reply.domain /\ e.version = reply.version
              /\ e.verdict = reply.answer
      [] OTHER ->
           \E i \in 1..Len(store.outcomes): LET e == store.outcomes[i] IN
              e.id = reply.id /\ e.domain = reply.domain /\ e.version = reply.version

(* Whatever a client was told is in the file, as it was told, through every *)
(* failed write, crash and restart that follows.                            *)
AcknowledgedIsDurable ==
    \A i \in 1..Len(acks): Holds(disk, acks[i])

(* A file this server has written, new or on top of what it agreed to serve, *)
(* is never refused by its own recovery, wherever the process died.         *)
OwnFileRecovers == status = "refused" => disk \in InitialFiles \ {EmptyStore}

(* The kernels, clocks and projections after the first n events of a log:   *)
(* the reference definition of what recovery must rebuild.  An event stored *)
(* without its input adds nothing, and no domain's clock ever goes back.    *)
LatestOf(vtick, other) == IF vtick > other THEN vtick ELSE other
Absorbed(all, event) ==
    [all EXCEPT ![event.domain] =
        AfterObservation(@, ObserveJudgment(@.gov, event.judgment, event.context),
                         LatestOf(@.nextVtick, event.context.now + 1))]

RebuiltTo(log, n) ==
    LET after[k \in 0..Len(log)] ==
            IF k = 0 THEN [d \in Domains |-> NewDomain]
            ELSE IF log[k].policy = "none" THEN after[k - 1] ELSE Absorbed(after[k - 1], log[k])
    IN  after[n]
Rebuilt(log) == RebuiltTo(log, Len(log))

(* A restart is invisible: whenever the server can take a request, its      *)
(* store is the file's and its kernels, clocks and projections are what the *)
(* file's log alone determines, never a trace of an operation that failed.  *)
RestartIsInvisible ==
    Ready => mem = disk /\ domains = Rebuilt(disk.events)

(* r2r_replay agrees with what the server recorded, even while a request is *)
(* half done and after the store has failed.                                *)
ReplayMatches ==
    status = "serving" => \A d \in Domains: Replay(mem, d).match

(* Once a client knows a domain's relations changed, no client is told      *)
(* ALLOW for it, whatever crashes in between: the only rule there is        *)
(* suspends.                                                                *)
SuspensionIsHonoured ==
    \A i, j \in 1..Len(acks):
        (i < j /\ acks[i].domain = acks[j].domain /\ acks[i].answer = "CHANGED")
            => acks[j].answer /= "ALLOW"

(* Clients never see the server go back: no id is told twice or after a     *)
(* later one of its kind, although a crash rolls the counters back and an   *)
(* id that was not written is issued again, and no answer about a domain is *)
(* given at an earlier version than one before it.                          *)
AnswersInOrder ==
    \A i, j \in 1..Len(acks):
        i < j =>
            /\ acks[i].op = acks[j].op => acks[i].id < acks[j].id
            /\ acks[i].domain = acks[j].domain => acks[i].version <= acks[j].version

Suspends(e) == \E t \in e.transitions: t.relation = "authorization" /\ t.to = "Suspended"

(* The stored decision explains itself (r2r_explain): it denies exactly     *)
(* when an event of its causal chain suspended authorization, names that    *)
(* change as governing, and the chain is the domain's log at its version.   *)
DecisionsExplainThemselves ==
    \A i \in 1..Len(disk.decisions):
        LET decision == disk.decisions[i]
            chain == {e \in {disk.events[k] : k \in 1..Len(disk.events)} : e.id \in decision.chain}
        IN  /\ Cardinality(chain) = Cardinality(decision.chain)
            /\ \A e \in chain: e.domain = decision.domain /\ e.version <= decision.version
            /\ decision.verdict = "DENY" <=>
                 \E e \in chain: Suspends(e) /\ \E t \in e.transitions:
                    t.relation = "authorization" /\ t.id = decision.governing
            /\ decision.version > 0 => \E e \in chain: e.version = decision.version

(* The execution gate, asked of the file at any moment, with the server     *)
(* alive, dying or dead: a decision presented as issued is executable       *)
(* exactly when it allowed and the file's log holds no suspension of its    *)
(* domain; another action, version or unknown id is never executable.       *)
GateFollowsLog ==
    \A id \in 1..(MaxDecisions + 1), action \in Actions, expected \in 0..MaxEvents:
        ValidateExecution(disk, [decision |-> id, action |-> action, expected |-> expected])
            = "EXECUTION_ALLOWED"
        <=> \E i \in 1..Len(disk.decisions): LET decision == disk.decisions[i] IN
              /\ decision.id = id
              /\ decision.verdict = "ALLOW"
              /\ decision.action = action
              /\ decision.version = expected
              /\ \A k \in 1..Len(disk.events):
                   disk.events[k].domain = decision.domain => ~Suspends(disk.events[k])

(* The server with its memory, its file, failed writes, crashes and          *)
(* recoveries implements the log a client would imagine (AuditLog): the     *)
(* file's logs are its logs, and an answer is owed from the write on, until *)
(* it is given or dies with the process.                                    *)
Damning ==
    {j \in Judgments:
        \/ IsAccepted(Admit("BeyondScope", j.beyond, DemoContext(1)))
        \/ IsAccepted(Admit("DestructiveAction", j.destructive, DemoContext(1)))}
Audit == INSTANCE AuditLog WITH
    observations <- [i \in 1..Len(disk.events) |->
        [domain |-> disk.events[i].domain, judgment |-> disk.events[i].judgment]],
    decisions <- [i \in 1..Len(disk.decisions) |->
        [domain |-> disk.decisions[i].domain, action |-> disk.decisions[i].action,
         verdict |-> disk.decisions[i].verdict, version |-> disk.decisions[i].version]],
    outcomes <- [i \in 1..Len(disk.outcomes) |->
        [decision |-> disk.outcomes[i].decision, version |-> disk.outcomes[i].version]],
    owed <- IF call.stage = "respond" /\ ~fatal THEN call.reply ELSE [op |-> "none"],
    told <- acks
ImplementsAuditLog == Audit!Spec

Extends(log, longer) ==
    Len(longer) >= Len(log) /\ \A i \in 1..Len(log): longer[i] = log[i]

(* The file's logs only grow: no step, restart included, rewrites or loses  *)
(* an entry; and once a write has failed this process changes nothing more  *)
(* on disk and acknowledges nothing more.                                   *)
FileOnlyGrows ==
    [][/\ Extends(disk.events, disk'.events)
       /\ Extends(disk.decisions, disk'.decisions)
       /\ Extends(disk.outcomes, disk'.outcomes)
       /\ fatal => disk' = disk /\ acks' = acks]_vars

(* Only a file that replay reproduces is ever served: the two readers of    *)
(* the log, at start and on demand, agree about every damaged one; and no   *)
(* served event makes a later replay panic with the lock in its hands,      *)
(* which would poison it for every request to come.                         *)
ServedLogsReplay ==
    status = "serving" =>
        /\ \A i \in 1..Len(disk.events):
             disk.events[i].policy = "current" => ~Panics(disk.events[i])
        /\ \A d \in Domains:
             (\E i \in 1..Len(disk.events): disk.events[i].domain = d /\ disk.events[i].policy /= "none")
                 => Replay(disk, d).match

(* The checks of the start, "event log ... final domain state version"       *)
(* (docs/verification-readiness.md): no domain is served in a state that    *)
(* replaying the log does not give, one whose events are all lost included. *)
EveryServedDomainReplays ==
    status = "serving" => \A d \in Domains: Replay(disk, d).match

(* A request taken is answered and frees the lock, also when its write      *)
(* failed, unless the process dies.                                         *)
RequestsEnd == call.stage /= "idle" ~> (call.stage = "idle")

(* "Persistent-store health failures are errors rather than permissive      *)
(* results" (src/src/enforcement.rs): once the server's store has failed on *)
(* a suspension, the gate does not allow an action of the domain.           *)
FailedStoreIsNotPermissive ==
    \A i \in 1..Len(disk.decisions): LET decision == disk.decisions[i] IN
        (fatal /\ domains[decision.domain].projected = "DENY") =>
            ValidateExecution(disk, [decision |-> decision.id, action |-> decision.action,
                                     expected |-> decision.version]) /= "EXECUTION_ALLOWED"
=============================================================================
