----------------------------- MODULE RemoteAccess -----------------------------
(***************************************************************************)
(* The remote profile's access rules (src/src/mcp/remote.rs) in front of   *)
(* the governance server.  A request is authorized against the principal,  *)
(* the scope allowlist and, when it names a decision, the store file; only *)
(* then does it wait for the server's lock.  Sessions are concurrent, so   *)
(* other requests, failed writes and crashes come between the two.         *)
(***************************************************************************)
EXTENDS GovernanceRuntime

CONSTANTS
    Principal,      \* R2R_REMOTE_PRINCIPAL
    AllowedScopes,  \* R2R_REMOTE_SCOPES
    MaxInflight     \* bound on requests authorized and not yet dispatched

ASSUME DomainsAssumption == \A d \in Domains: {"subject", "scope"} \subseteq DOMAIN d
ASSUME ScopesAssumption == AllowedScopes /= {}
(* Any pair of names is a domain: those the principal may use are among     *)
(* the modelled ones.                                                       *)
ASSUME OwnDomainsAssumption ==
    \A scope \in AllowedScopes: [subject |-> Principal, scope |-> scope] \in Domains

VARIABLES
    inflight,   \* requests authorized, waiting for the lock
    explained   \* history: the decisions shown by r2r_explain or r2r_validate_execution

remoteVars == <<vars, inflight, explained>>

RemoteInit == Init /\ inflight = {} /\ explained = {}

Subjects == {d.subject : d \in Domains}
Scopes == {d.scope : d \in Domains}

-----------------------------------------------------------------------------
EnsureScope(scope) == scope \in AllowedScopes

(* Seeded fault: any decision of an allowed scope will do. *)
EnsureDecisionScope(id) ==
    KnowsDecision(disk, id) /\ EnsureScope(Decision(disk, id).domain.scope)

(* The decision is looked up in a store opened afresh from the file. *)
EnsureDecisionAccess(id) ==
    /\ KnowsDecision(disk, id)
    /\ Decision(disk, id).domain.subject = Principal
    /\ EnsureScope(Decision(disk, id).domain.scope)

(* Seeded fault: the caller's subject is believed. *)
AddressedAsAsked(subject, scope) == [subject |-> subject, scope |-> scope]
Addressed(subject, scope) == [subject |-> Principal, scope |-> scope]

Admitted(request) ==
    /\ status = "serving"
    /\ Cardinality(inflight) < MaxInflight
    /\ inflight' = inflight \cup {request}
    /\ UNCHANGED <<vars, explained>>

(* r2r_observe, r2r_decide: the caller names a subject, which is replaced.  *)
AuthorizeDomainCall(tool, subject, scope) ==
    /\ EnsureScope(scope)
    /\ Admitted([tool |-> tool, domain |-> Addressed(subject, scope)])

(* r2r_explain, r2r_record_outcome, r2r_validate_execution: the decision     *)
(* must be the principal's.                                                 *)
AuthorizeDecisionCall(tool, id) ==
    /\ EnsureDecisionAccess(id)
    /\ Admitted([tool |-> tool, decision |-> id])

Dispatched(request) == inflight' = inflight \ {request}

DispatchObserve(request) ==
    /\ request.tool = "observe"
    /\ \E judgment \in Judgments: Observe(request.domain, judgment)
    /\ Dispatched(request)
    /\ UNCHANGED explained

DispatchDecide(request) ==
    /\ request.tool = "decide"
    /\ \E action \in Actions: Decide(request.domain, action)
    /\ Dispatched(request)
    /\ UNCHANGED explained

DispatchOutcome(request) ==
    /\ request.tool = "outcome"
    /\ \E kind \in OutcomeKinds: RecordOutcomeOf(request.decision, kind)
    /\ Dispatched(request)
    /\ UNCHANGED explained

(* r2r_explain reads the decision from memory. *)
DispatchExplain(request) ==
    /\ request.tool = "explain"
    /\ Ready
    /\ Dispatched(request)
    /\ explained' = IF KnowsDecision(mem, request.decision)
                    THEN explained \cup {Decision(mem, request.decision)} ELSE explained
    /\ UNCHANGED vars

(* r2r_validate_execution takes no lock: it opens the file once more and    *)
(* answers what ValidateExecution makes of it, even while a request is      *)
(* half done and after the store has failed.                                *)
DispatchValidate(request) ==
    /\ request.tool = "validate"
    /\ status = "serving"
    /\ Dispatched(request)
    /\ explained' = IF KnowsDecision(disk, request.decision)
                    THEN explained \cup {Decision(disk, request.decision)} ELSE explained
    /\ UNCHANGED vars

(* A store that has failed refuses whatever still waits for the lock. *)
RefuseDispatch(request) ==
    /\ request.tool /= "validate"
    /\ status = "serving" /\ call = Idle /\ fatal
    /\ Dispatched(request)
    /\ UNCHANGED <<vars, explained>>

RemoteCrash == Crash /\ inflight' = {} /\ UNCHANGED explained

Server == (Finish \/ Open \/ Recover) /\ UNCHANGED <<inflight, explained>>

RemoteNext ==
    \/ \E tool \in {"observe", "decide"}, subject \in Subjects, scope \in Scopes:
         AuthorizeDomainCall(tool, subject, scope)
    \/ \E tool \in {"explain", "outcome", "validate"}, id \in 1..MaxDecisions:
         AuthorizeDecisionCall(tool, id)
    \/ \E request \in inflight:
         \/ DispatchObserve(request) \/ DispatchDecide(request)
         \/ DispatchOutcome(request) \/ DispatchExplain(request)
         \/ DispatchValidate(request) \/ RefuseDispatch(request)
    \/ RemoteCrash
    \/ Server

RemoteSpec == RemoteInit /\ [][RemoteNext]_remoteVars

(* As GovernanceRuntime!FairSpec: the server finishes what it holds.        *)
(* Which of the requests that wait gets the lock next is not promised.      *)
RemoteFairSpec ==
    RemoteSpec /\ WF_remoteVars(Finish /\ UNCHANGED <<inflight, explained>>)

-----------------------------------------------------------------------------
Own == {d \in Domains: d.subject = Principal /\ d.scope \in AllowedScopes}

(* Nothing was changed, lost or added that concerns this domain.            *)
NoNews(log, longer, d) ==
    /\ Extends(log, longer)
    /\ \A i \in 1..Len(longer): i > Len(log) => longer[i].domain /= d

(* "Remote callers crossing their configured scope boundary", "decision ids *)
(* being used across authenticated principals" (SECURITY.md): whatever a    *)
(* remote client asks, and whatever fails in between, nothing the file says *)
(* about a domain outside the principal's scopes ever changes.              *)
ForeignDomainsUntouched ==
    [][\A d \in Domains \ Own:
         /\ NoNews(disk.events, disk'.events, d)
         /\ NoNews(disk.decisions, disk'.decisions, d)
         /\ NoNews(disk.outcomes, disk'.outcomes, d)
         /\ disk'.versions[d] = disk.versions[d]]_remoteVars

(* A decision that is shown was the principal's, in an allowed scope,       *)
(* although the check read the file and the tool reads memory, or the file  *)
(* once more, later.                                                        *)
ExplainedAreOwn == \A decision \in explained: decision.domain \in Own

(* The check is not stale when it is used: a request that waits for the lock *)
(* finds in memory the very decision that was checked in the file.           *)
CheckedIsUsed ==
    \A request \in inflight: request.tool \in {"explain", "outcome"} =>
        /\ KnowsDecision(mem, request.decision)
        /\ Decision(mem, request.decision) = Decision(disk, request.decision)
=============================================================================
