------------------------------- MODULE Gateway -------------------------------
(***************************************************************************)
(* The MCP gateway (src/src/gateway/service.rs): concurrent tool calls of  *)
(* an agent, each authorized by the control plane, forwarded to the        *)
(* upstream that owns the tool, and reported back as an outcome.           *)
(*                                                                         *)
(* Every exchange is a request and a reply, and every wait has a timeout   *)
(* that abandons the reply but not the request: the control plane or the   *)
(* upstream may still work off a request nobody waits for.  The control    *)
(* plane (GovernanceRuntime) is reduced to one governed domain whose       *)
(* authorization may become suspended, to the decisions and outcomes it    *)
(* has recorded, and to its health: it lives and its store has not failed. *)
(* A decision is named by the call it was issued for; "?" is the           *)
(* placeholder the gateway uses when it knows no decision.                 *)
(*                                                                         *)
(* The gateway spawns the control plane once, when it starts: a control    *)
(* plane that dies stays dead until the gateway itself is started again.   *)
(* A gateway that dies takes its handlers with it; what the control plane  *)
(* recorded and what an upstream is already running remain.                *)
(*                                                                         *)
(* `outcomes' holds what the gateway reports.  What the agent itself sends *)
(* to the control plane's other tools, which pass through as r2r_observe   *)
(* does, is its own word and no part of this module.                       *)
(***************************************************************************)
EXTENDS Naturals, Sequences

CONSTANTS
    Gated,      \* calls of tools that are authorized first
    Observers   \* calls of the control plane's own r2r_observe, which pass

Calls == Gated \cup Observers
ASSUME CallsAssumption == Gated \cap Observers = {}

VARIABLES
    suspended,   \* control plane: the domain's authorization is suspended
    healthy,     \* control plane: it lives and its store has not failed
    decision,    \* control plane: per gated call, the recorded decision
    outcomes,    \* control plane: per gated call, the outcomes recorded
    ran,         \* upstream: how often the call's tool ran
    pc,          \* gateway: where the handler of each call is
    believed,    \* gateway: the decision id the handler holds, known or "?"
    answer,      \* gateway: what the agent was told
    net,         \* requests and replies under way
    up           \* gateway: it has started and serves

controlState == <<suspended, healthy, decision, outcomes>>
handler == <<pc, believed, answer>>
vars == <<controlState, ran, handler, net, up>>

Request(to, c, body) == [to |-> to, call |-> c, body |-> body, id |-> "?"]
Report(c, id, outcome) == [to |-> "record", call |-> c, body |-> outcome, id |-> id]
Reply(c, body) == [to |-> "gateway", call |-> c, body |-> body, id |-> "?"]

Init ==
    /\ suspended = FALSE
    /\ healthy = FALSE
    /\ decision = [c \in Gated |-> "none"]
    /\ outcomes = [c \in Gated |-> <<>>]
    /\ ran = [c \in Gated |-> 0]
    /\ pc = [c \in Calls |-> "new"]
    /\ believed = [c \in Calls |-> "?"]
    /\ answer = [c \in Calls |-> "none"]
    /\ net = {}
    /\ up = FALSE

-----------------------------------------------------------------------------
(* The handler of one call.  Moving on sends the next request.  An answer   *)
(* is set when the handler knows it and given when it reaches "answered":   *)
(* the outcome is recorded first.                                           *)
MoveTo(c, place, requests) ==
    /\ pc' = [pc EXCEPT ![c] = place]
    /\ net' = {m \in net : ~(m.to = "gateway" /\ m.call = c)} \cup requests

Answer(c, text) == answer' = [answer EXCEPT ![c] = text]

Start(c) ==
    /\ up
    /\ pc[c] = "new"
    /\ IF c \in Gated THEN MoveTo(c, "authorizing", {Request("decide", c, "ask")})
                      ELSE MoveTo(c, "passing", {Request("observe", c, "judge")})
    /\ UNCHANGED <<controlState, ran, believed, answer, up>>

(* Seeded fault: without an answer of the control plane the call goes on. *)
AuthorizationFailsOpen(c) ==
    /\ pc[c] = "authorizing"
    /\ MoveTo(c, "forwarding", {Request("upstream", c, "run")})
    /\ UNCHANGED <<controlState, ran, believed, answer, up>>

(* authorize: no usable reply is a denial without a decision; a reply that  *)
(* names no decision (the control plane's error JSON) denies as "?".        *)
AuthorizationFails(c) ==
    /\ pc[c] = "authorizing"
    /\ MoveTo(c, "blocking", {Report(c, "?", "blocked")})
    /\ Answer(c, "denied")
    /\ UNCHANGED <<controlState, ran, believed, up>>

AuthorizationArrives(c) ==
    /\ pc[c] = "authorizing"
    /\ \E m \in net:
         /\ m.to = "gateway" /\ m.call = c
         /\ m.body \in {"ALLOW", "DENY", "error"}
         /\ believed' = [believed EXCEPT ![c] = IF m.body = "error" THEN "?" ELSE "known"]
         /\ IF m.body = "ALLOW"
            THEN MoveTo(c, "forwarding", {Request("upstream", c, "run")}) /\ UNCHANGED answer
            ELSE /\ MoveTo(c, "blocking", {Report(c, believed'[c], "blocked")})
                 /\ Answer(c, "denied")
    /\ UNCHANGED <<controlState, ran, up>>

(* Seeded fault: a result that says is_error counts as executed. *)
ExecutedWhatever(body) == "executed"
OutcomeOf(body) == IF body = "ok" THEN "executed" ELSE "failed"

ResultArrives(c) ==
    /\ pc[c] = "forwarding"
    /\ \E m \in net:
         /\ m.to = "gateway" /\ m.call = c
         /\ m.body \in {"ok", "is_error"}
         /\ MoveTo(c, "reporting", {Report(c, "known", OutcomeOf(m.body))})
    /\ Answer(c, "result")
    /\ UNCHANGED <<controlState, ran, believed, up>>

(* Seeded faults: the failed call is sent again; it is answered as a denial. *)
ForwardRetries(c) ==
    /\ pc[c] = "forwarding"
    /\ MoveTo(c, "forwarding", {Request("upstream", c, "run")})
    /\ UNCHANGED <<controlState, ran, believed, answer, up>>
ForwardFailureDenies(c) ==
    /\ pc[c] = "forwarding"
    /\ MoveTo(c, "reporting", {Report(c, "known", "failed")})
    /\ Answer(c, "denied")
    /\ UNCHANGED <<controlState, ran, believed, up>>

(* A transport error or the timeout of the forwarded call. *)
ForwardFails(c) ==
    /\ pc[c] = "forwarding"
    /\ MoveTo(c, "reporting", {Report(c, "known", "failed")})
    /\ Answer(c, "error")
    /\ UNCHANGED <<controlState, ran, believed, up>>

(* record_outcome never blocks the answer: its reply, whatever it says, its *)
(* failure and its timeout all end the call.                                *)
Finish(c) ==
    /\ pc[c] \in {"blocking", "reporting"}
    /\ MoveTo(c, "answered", {})
    /\ UNCHANGED <<controlState, ran, believed, answer, up>>

(* Seeded faults: the reply is relayed untyped; the wait has no timeout. *)
PassRelays(c) ==
    /\ pc[c] = "passing"
    /\ MoveTo(c, "answered", {})
    /\ \E m \in net: m.to = "gateway" /\ m.call = c /\ Answer(c, m.body)
    /\ UNCHANGED <<controlState, ran, believed, up>>
PassWaits(c) ==
    /\ pc[c] = "passing"
    /\ \E m \in net: m.to = "gateway" /\ m.call = c
    /\ MoveTo(c, "answered", {})
    /\ Answer(c, "result")
    /\ UNCHANGED <<controlState, ran, believed, up>>

(* A control-plane tool passes through ungated; the timeout may fire while  *)
(* the reply is on its way.                                                 *)
PassEnds(c) ==
    /\ pc[c] = "passing"
    /\ MoveTo(c, "answered", {})
    /\ \/ Answer(c, "error")
       \/ (\E m \in net: m.to = "gateway" /\ m.call = c) /\ Answer(c, "result")
    /\ UNCHANGED <<controlState, ran, believed, up>>

Handler(c) ==
    \/ AuthorizationFails(c) \/ AuthorizationArrives(c)
    \/ ResultArrives(c) \/ ForwardFails(c) \/ Finish(c) \/ PassEnds(c)

-----------------------------------------------------------------------------
(* The other side works off a request and replies if the handler still      *)
(* waits for that reply.                                                    *)
Waits(c, place) == pc[c] = place
Handled(m, place, body) ==
    net' = (net \ {m}) \cup (IF Waits(m.call, place) THEN {Reply(m.call, body)} ELSE {})

(* r2r_decide: a healthy control plane records the decision, or fails to;   *)
(* then, and ever after, it answers with an error that is not a decision.   *)
HandleDecide ==
    \E m \in net:
        /\ m.to = "decide"
        /\ \/ /\ healthy
              /\ LET verdict == IF suspended THEN "DENY" ELSE "ALLOW"
                 IN  /\ decision' = [decision EXCEPT ![m.call] = verdict]
                     /\ Handled(m, "authorizing", verdict)
              /\ UNCHANGED healthy
           \/ /\ healthy' = FALSE
              /\ Handled(m, "authorizing", "error")
              /\ UNCHANGED decision
    /\ UNCHANGED <<suspended, outcomes, ran, handler, up>>

(* r2r_observe: accepted evidence suspends; an observation the store cannot *)
(* hold suspends nothing a healthy control plane will ever answer from.     *)
HandleObserve ==
    \E m \in net:
        /\ m.to = "observe"
        /\ \/ /\ healthy
              /\ suspended' \in {suspended, TRUE}
              /\ UNCHANGED healthy
           \/ /\ healthy' = FALSE
              /\ UNCHANGED suspended
        /\ Handled(m, "passing", "observed")
    /\ UNCHANGED <<decision, outcomes, ran, handler, up>>

(* r2r_record_outcome: an unknown decision, or a failed store, is answered  *)
(* with an error the gateway does not see as one.                           *)
HandleRecord ==
    \E m \in net:
        /\ m.to = "record"
        /\ \/ /\ healthy
              /\ outcomes' = IF m.id = "known" /\ decision[m.call] /= "none"
                             THEN [outcomes EXCEPT ![m.call] = Append(@, m.body)] ELSE outcomes
              /\ UNCHANGED healthy
           \/ /\ healthy' = FALSE
              /\ UNCHANGED outcomes
        /\ net' = net \ {m}
    /\ UNCHANGED <<suspended, decision, ran, handler, up>>

(* The upstream runs the tool; one that reports an error may have run too.  *)
RunTool ==
    \E m \in net:
        /\ m.to = "upstream"
        /\ \/ /\ ran' = [ran EXCEPT ![m.call] = @ + 1]
              /\ \E body \in {"ok", "is_error"}: Handled(m, "forwarding", body)
           \/ /\ Handled(m, "forwarding", "is_error")
              /\ UNCHANGED ran
    /\ UNCHANGED <<controlState, handler, up>>

(* A request lost with its connection; the handler sees an error or waits   *)
(* for its timeout, which are the same step of it.                          *)
Lose ==
    /\ \E m \in net: m.to /= "gateway" /\ net' = net \ {m}
    /\ UNCHANGED <<controlState, ran, handler, up>>

(* The control plane dies, with the request it works on or the reply it     *)
(* was about to give.                                                       *)
ControlPlaneDies ==
    /\ up
    /\ healthy' = FALSE
    /\ \/ UNCHANGED net
       \/ \E m \in net: m.to /= "upstream" /\ net' = net \ {m}
    /\ UNCHANGED <<suspended, decision, outcomes, ran, handler, up>>

(* The agent's session ends with the gateway: its open calls are never      *)
(* answered, and the children read the end of their input.                  *)
Abandon ==
    /\ up
    /\ up' = FALSE
    /\ pc' = [c \in Calls |-> IF pc[c] \in {"new", "answered"} THEN pc[c] ELSE "lost"]
    /\ net' = {m \in net : m.to = "upstream"}
    /\ UNCHANGED <<believed, answer>>

Die ==
    /\ Abandon
    /\ healthy' = FALSE
    /\ UNCHANGED <<suspended, decision, outcomes, ran>>

(* GatewayServer::start (in detail: GatewayStart) with a new control plane  *)
(* on the old store.                                                        *)
ComeUp ==
    /\ ~up
    /\ up' = TRUE
    /\ healthy' = TRUE
    /\ UNCHANGED <<suspended, decision, outcomes, ran, handler, net>>

Next ==
    \/ \E c \in Calls: Start(c) \/ Handler(c)
    \/ HandleDecide \/ HandleObserve \/ HandleRecord \/ RunTool \/ Lose
    \/ ControlPlaneDies \/ Die \/ ComeUp

Spec == Init /\ [][Next]_vars

(* tokio drives every handler and every timer; nothing is assumed of the    *)
(* agent, the control plane or the upstreams.                               *)
FairSpec == Spec /\ \A c \in Calls: WF_vars(Handler(c))

-----------------------------------------------------------------------------
Places ==
    {"new", "authorizing", "blocking", "forwarding", "reporting", "passing", "answered", "lost"}
Message ==
    [to: {"decide", "observe", "record", "upstream", "gateway"}, call: Calls,
     body: {"ask", "judge", "run", "ALLOW", "DENY", "error", "observed", "ok", "is_error",
            "blocked", "executed", "failed"},
     id: {"?", "known"}]

(* Every variable keeps its type. *)
TypeOK ==
    /\ suspended \in BOOLEAN /\ healthy \in BOOLEAN
    /\ decision \in [Gated -> {"none", "ALLOW", "DENY"}]
    /\ outcomes \in [Gated -> Seq({"blocked", "executed", "failed"})]
    /\ ran \in [Gated -> Nat]
    /\ pc \in [Calls -> Places]
    /\ believed \in [Calls -> {"?", "known"}]
    /\ answer \in [Calls -> {"none", "denied", "result", "error"}]
    /\ net \subseteq Message
    /\ up \in BOOLEAN

(* The gateway is an execution gate: through every timeout, lost message,   *)
(* late handling and restart, a tool runs at most once and only after its   *)
(* ALLOW.                                                                   *)
Gate == INSTANCE ExecutionGate WITH Calls <- Gated, verdict <- decision, ran <- ran
ImplementsGate == Gate!Spec

(* A call the agent was told is denied has not run and never will: no       *)
(* request to run it is left anywhere.                                      *)
DenialIsFinal ==
    \A c \in Gated: answer[c] = "denied" =>
        /\ ran[c] = 0
        /\ ~\E m \in net: m.to = "upstream" /\ m.call = c

(* The recorded outcomes do not contradict what happened: a decision has at *)
(* most one, "executed" only of a tool that ran, "blocked" only of a call   *)
(* that was denied and did not run.                                         *)
OutcomesAreHonest ==
    \A c \in Gated:
        /\ Len(outcomes[c]) <= 1
        /\ outcomes[c] = <<"executed">> => ran[c] = 1
        /\ outcomes[c] = <<"blocked">> => decision[c] = "DENY" /\ ran[c] = 0

(* A call that begins when its domain is suspended never runs, whatever     *)
(* dies and is started again.                                               *)
SuspensionStopsNewCalls ==
    \A c \in Gated: [](pc[c] = "new" /\ suspended => [](ran[c] = 0))

(* Every call is answered, though the control plane and the upstreams may   *)
(* never reply; only the death of the gateway leaves one open.              *)
EveryCallAnswered ==
    \A c \in Calls: pc[c] /= "new" ~> pc[c] \in {"answered", "lost"}

(* "Every gated call leaves a three-layer audit trail" (README.md): when    *)
(* all requests have been worked off, an answered call has its outcome.     *)
EveryCallLeavesATrail ==
    \A c \in Gated: (pc[c] = "answered" /\ net = {} /\ healthy) => outcomes[c] /= <<>>
=============================================================================
