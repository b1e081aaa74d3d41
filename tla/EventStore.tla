----------------------------- MODULE EventStore -----------------------------
(***************************************************************************)
(* The contents of an event store (src/src/store/memory.rs), which is also *)
(* exactly what the JSON file holds (src/src/store/json_file.rs): three    *)
(* logs, the version of every domain's relation state, and the counters    *)
(* the ids come from.  "event-000007" is 7, "state-000001" is 1.           *)
(***************************************************************************)
EXTENDS Naturals, Sequences

CONSTANTS
    Domains,   \* the subject/scope pairs
    Actions    \* the actions decisions are asked about

EmptyStore ==
    [events |-> <<>>, decisions |-> <<>>, outcomes |-> <<>>,
     versions |-> [domain \in Domains |-> 0],
     issued |-> [event |-> 0, decision |-> 0, outcome |-> 0]]

CurrentStateVersion(store, domain) == store.versions[domain]

(* Seeded fault: the version table is not advanced. *)
VersionNotAdvanced(store, domain) == store

AdvanceStateVersion(store, domain) == [store EXCEPT !.versions[domain] = @ + 1]

(* Seeded fault: the event takes no id from its counter. *)
RecordEventUncounted(store, event) == [store EXCEPT !.events = Append(@, event)]

(* The next_*_id / record_* pairs: the id is taken and the record pushed in *)
(* one critical section.                                                    *)
RecordEvent(store, event) ==
    [store EXCEPT !.events = Append(@, event), !.issued.event = @ + 1]
RecordDecision(store, decision) ==
    [store EXCEPT !.decisions = Append(@, decision), !.issued.decision = @ + 1]
RecordOutcome(store, outcome) ==
    [store EXCEPT !.outcomes = Append(@, outcome), !.issued.outcome = @ + 1]

(* The places of a domain's events in the log. *)
EventsForDomain(store, domain) ==
    {k \in 1..Len(store.events): store.events[k].domain = domain}

(* store.decision(id): the first record with the id. *)
KnowsDecision(store, id) == \E i \in 1..Len(store.decisions): store.decisions[i].id = id
Decision(store, id) ==
    store.decisions[CHOOSE i \in 1..Len(store.decisions):
        /\ store.decisions[i].id = id
        /\ \A j \in 1..(i - 1): store.decisions[j].id /= id]

(* Seeded fault: the gate does not look at the current version. *)
NeverStale(store, decision) == FALSE
Stale(store, decision) == CurrentStateVersion(store, decision.domain) /= decision.version

(***************************************************************************)
(* The execution gate of src/src/enforcement.rs: whether a decision issued *)
(* earlier may be executed now, as the given snapshot shows it.            *)
(***************************************************************************)
ValidateExecution(store, request) ==
    IF ~KnowsDecision(store, request.decision) THEN "UNKNOWN_DECISION"
    ELSE LET decision == Decision(store, request.decision)
         IN  CASE decision.verdict /= "ALLOW" -> "DECISION_NOT_ALLOW"
               [] decision.verdict = "ALLOW" /\ decision.action /= request.action -> "ACTION_MISMATCH"
               [] OTHER ->
                    IF decision.version /= request.expected THEN "EXPECTED_STATE_VERSION_MISMATCH"
                    ELSE IF Stale(store, decision) THEN "STATE_VERSION_STALE"
                    ELSE "EXECUTION_ALLOWED"
=============================================================================
