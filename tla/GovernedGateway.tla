---------------------------- MODULE GovernedGateway ----------------------------
(***************************************************************************)
(* The whole of it: the gateway's handlers (Gateway) talking to the real   *)
(* governance server (GovernanceRuntime), its child process, instead of    *)
(* the few variables Gateway makes of it.  A request of a handler travels  *)
(* to the server, waits for it to be idle, changes its memory, then its    *)
(* file, and is answered; the server may die in between and is not started *)
(* again before the gateway is.                                            *)
(*                                                                         *)
(* A gated call is named by the action it asks about; its decision is the  *)
(* one the store holds for that action.                                    *)
(***************************************************************************)
EXTENDS GovernanceRuntime

CONSTANTS
    Observers,   \* calls of r2r_observe that pass through the gateway
    Governed     \* config.governance: the subject and scope of every gated call

ASSUME GovernedAssumption == Governed \in Domains
ASSUME ObserversAssumption == Actions \cap Observers = {}
ASSUME KindsAssumption == {"blocked", "executed", "failed"} \subseteq OutcomeKinds

VARIABLES
    ran, pc, believed, answer, net, up,   \* upstream, handlers and pipes, as in Gateway
    working                               \* the request the server works on, if any

gateway == <<ran, pc, believed, answer, net, up>>
allVars == <<vars, gateway, working>>

(* What Gateway calls the control plane, in terms of the server.            *)
Suspended == CurrentStateVersion(disk, Governed) > 0
Healthy == up /\ status = "serving" /\ ~fatal
DecisionsFor(c) == {i \in 1..Len(disk.decisions): disk.decisions[i].action = c}
DecisionOf ==
    [c \in Actions |-> IF DecisionsFor(c) = {} THEN "none"
                       ELSE disk.decisions[CHOOSE i \in DecisionsFor(c): TRUE].verdict]
OutcomesTo(store, n) ==
    LET of[k \in 0..Len(store.outcomes)] ==
            IF k = 0 THEN [c \in Actions |-> <<>>]
            ELSE [of[k - 1] EXCEPT ![Decision(store, store.outcomes[k].decision).action] =
                    Append(@, store.outcomes[k].outcome)]
    IN  of[n]
OutcomesOf == OutcomesTo(disk, Len(disk.outcomes))

(* Gateway with these; only its handlers and upstreams are taken from it.   *)
H == INSTANCE Gateway WITH
    Gated <- Actions, suspended <- Suspended, healthy <- Healthy,
    decision <- DecisionOf, outcomes <- OutcomesOf

GovernedInit ==
    /\ Init
    /\ ran = [c \in Actions |-> 0]
    /\ pc = [c \in H!Calls |-> "new"]
    /\ believed = [c \in H!Calls |-> "?"]
    /\ answer = [c \in H!Calls |-> "none"]
    /\ net = {}
    /\ up = FALSE
    /\ working = {}

-----------------------------------------------------------------------------
Handlers ==
    /\ UNCHANGED <<vars, up, working>>
    /\ \/ \E c \in H!Calls: H!Start(c) \/ H!Handler(c)
       \/ H!RunTool \/ H!Lose

TakesUp(m) ==
    /\ working' = {m}
    /\ net' = net \ {m}
    /\ UNCHANGED <<ran, pc, believed, answer, up>>

ServeDecide(m) ==
    /\ m.to = "decide"
    /\ Decide(Governed, m.call)
    /\ TakesUp(m)

(* The agent names the domain of its own observations.                      *)
ServeObserve(m) ==
    /\ m.to = "observe"
    /\ \E d \in Domains, judgment \in Judgments: Observe(d, judgment)
    /\ TakesUp(m)

ServeRecord(m) ==
    /\ m.to = "record" /\ m.id = "known"
    /\ \E i \in 1..Len(mem.decisions):
         /\ mem.decisions[i].action = m.call
         /\ RecordOutcomeOf(mem.decisions[i].id, m.body)
    /\ TakesUp(m)

(* What the server has to say to m, if the handler still waits for it.      *)
WaitsIn(m) == IF m.to = "decide" THEN "authorizing" ELSE "passing"
Said(m) ==
    CASE m.to = "observe" -> "observed"
      [] m.to = "decide" -> IF fatal THEN "error" ELSE call.reply.answer
Replies(m) ==
    IF m.to \in {"decide", "observe"} /\ H!Waits(m.call, WaitsIn(m))
    THEN {H!Reply(m.call, Said(m))} ELSE {}

(* Answered at once: a store that has failed refuses every request, and a   *)
(* healthy one an outcome of the unknown decision "?".                      *)
Refuse(m) ==
    /\ status = "serving" /\ call = Idle
    /\ m.to \in {"decide", "observe", "record"}
    /\ fatal \/ (m.to = "record" /\ m.id = "?")
    /\ net' = (net \ {m}) \cup Replies(m)
    /\ UNCHANGED <<vars, ran, pc, believed, answer, up, working>>

Write == (PersistOk \/ PersistFail) /\ UNCHANGED <<gateway, working>>

Answered ==
    /\ Respond
    /\ net' = net \cup UNION {Replies(m) : m \in working}
    /\ working' = {}
    /\ UNCHANGED <<ran, pc, believed, answer, up>>

-----------------------------------------------------------------------------
(* The child dies alone; while the gateway lives nothing starts another.    *)
ServerDies == Crash /\ working' = {} /\ UNCHANGED gateway

(* The gateway dies, and its child with it.                                 *)
GatewayDies ==
    /\ H!Abandon
    /\ IF status = "serving" THEN Crash ELSE UNCHANGED vars
    /\ working' = {}
    /\ UNCHANGED ran

(* The next start spawns the child, which recovers from the file before the *)
(* gateway serves.                                                          *)
Spawn == ~up /\ Open /\ UNCHANGED <<gateway, working>>
Recovers == Recover /\ UNCHANGED <<gateway, working>>
ComeUp ==
    /\ ~up
    /\ status = "serving"
    /\ up' = TRUE
    /\ UNCHANGED <<vars, ran, pc, believed, answer, net, working>>

GovernedNext ==
    \/ Handlers
    \/ \E m \in net: ServeDecide(m) \/ ServeObserve(m) \/ ServeRecord(m) \/ Refuse(m)
    \/ Write \/ Answered
    \/ ServerDies \/ GatewayDies \/ Spawn \/ Recovers \/ ComeUp

GovernedSpec == GovernedInit /\ [][GovernedNext]_allVars

-----------------------------------------------------------------------------
(* The control plane Gateway assumes is the one the server provides: the    *)
(* file is its state, a request the server has taken up is under way until  *)
(* its write and its reply is under way from then on.  So everything        *)
(* Gateway's safety properties say of its simplified control plane holds of *)
(* the server with its memory, file, crashes and recovery.                  *)
GW == INSTANCE Gateway WITH
    Gated <- Actions, suspended <- Suspended, healthy <- Healthy,
    decision <- DecisionOf, outcomes <- OutcomesOf,
    net <- net \cup (IF call.stage = "persist" THEN working
                     ELSE UNION {Replies(m) : m \in working})
ImplementsGateway == GW!Spec
===============================================================================
