----------------------------- MODULE GatewayProofs -----------------------------
(***************************************************************************)
(* Theorems about Gateway, for any number of calls, and of GatewayStart.   *)
(* What is said of the gateway follows from one inductive invariant, IInv, *)
(* which locates the one request each step of a handler has sent: still    *)
(* under way, worked off, or lost; what is said of its start, from         *)
(* StartInv.                                                               *)
(***************************************************************************)
EXTENDS Gateway, GatewayStart, SequenceTheorems, FiniteSetTheorems, TLAPS

Results == {"blocked", "executed", "failed"}

(* Who is asked for what: only gated calls are decided, run and reported,   *)
(* and no two requests of a call for the same thing differ.                 *)
RequestsInv ==
    \A m \in net:
        /\ m.to \in {"decide", "upstream", "record"} => m.call \in Gated
        /\ m.to = "decide" => m = Request("decide", m.call, "ask")
        /\ m.to = "upstream" => m = Request("upstream", m.call, "run")
        /\ m.to = "record" => m.body \in Results

(* Where a call is tells what can have happened to it. *)
PlaceInv(c) ==
    /\ pc[c] = "new" => decision[c] = "none" /\ \A m \in net: m.call /= c
    /\ pc[c] \in {"new", "authorizing", "forwarding"} =>
         /\ answer[c] = "none"
         /\ outcomes[c] = <<>>
         /\ \A m \in net: m.call = c => m.to /= "record"
    /\ pc[c] \in {"new", "authorizing", "blocking"} =>
         /\ ran[c] = 0
         /\ \A m \in net: m.call = c => m.to /= "upstream"
    /\ pc[c] \in {"forwarding", "reporting"} => decision[c] = "ALLOW"
    /\ pc[c] = "reporting" => answer[c] \in {"result", "error"}

(* What is under way for a call agrees with what has been recorded of it. *)
MessageInv(c) ==
    /\ \A m \in net: m.call = c =>
         /\ m.to = "decide" => decision[c] = "none"
         /\ m.to = "upstream" => decision[c] = "ALLOW" /\ ran[c] = 0
         /\ m.to = "gateway" => /\ m.body \in {"ALLOW", "DENY"} => decision[c] = m.body
                                /\ m.body = "ok" => ran[c] = 1
         /\ m.to = "record" => /\ outcomes[c] = <<>>
                               /\ m.body = "executed" => ran[c] = 1
                               /\ m.body = "blocked" /\ m.id = "known" => decision[c] = "DENY"
    /\ \A m, n \in net: (m.call = c /\ m.to = "record" /\ n.call = c /\ n.to = "record") => m = n

(* What has been recorded of a call agrees with itself. *)
RecordInv(c) ==
    /\ ran[c] \in {0, 1}
    /\ ran[c] = 1 => decision[c] = "ALLOW"
    /\ answer[c] = "denied" =>
         ran[c] = 0 /\ \A m \in net: m.call = c => m.to /= "upstream"
    /\ Len(outcomes[c]) <= 1
    /\ outcomes[c] = <<"executed">> => ran[c] = 1
    /\ outcomes[c] = <<"blocked">> => decision[c] = "DENY"

CallInv(c) == PlaceInv(c) /\ MessageInv(c) /\ RecordInv(c)

(* Only gated calls are authorized and forwarded; only the others pass. *)
KindInv ==
    \A c \in Calls:
        /\ pc[c] \in {"authorizing", "blocking", "forwarding", "reporting"} => c \in Gated
        /\ pc[c] = "passing" => c \in Observers

IInv == TypeOK /\ RequestsInv /\ KindInv /\ \A c \in Gated: CallInv(c)
-----------------------------------------------------------------------------
(* A step that leaves what is known of a call, and sends it nothing new,    *)
(* leaves its part of the invariant: messages may always get lost.          *)
LEMMA Untouched ==
    ASSUME NEW c \in Gated, CallInv(c),
           pc'[c] = pc[c], decision'[c] = decision[c], outcomes'[c] = outcomes[c],
           ran'[c] = ran[c], answer'[c] = answer[c],
           \A m \in net': m.call = c => m \in net
    PROVE  CallInv(c)'
  <1>1. PlaceInv(c)'
    BY DEF CallInv, PlaceInv
  <1>2. MessageInv(c)'
    BY DEF CallInv, MessageInv
  <1>3. RecordInv(c)'
    BY DEF CallInv, RecordInv
  <1> QED
    BY <1>1, <1>2, <1>3 DEF CallInv

(* A step that only loses messages. *)
LEMMA OnlyLosses ==
    ASSUME IInv, net' \subseteq net, TypeOK',
           UNCHANGED <<decision, outcomes, ran, pc, answer>>
    PROVE  IInv'
  <1>1. RequestsInv' /\ KindInv'
    BY DEF IInv, RequestsInv, KindInv
  <1>2. \A c \in Gated: CallInv(c)'
    BY Untouched DEF IInv
  <1> QED
    BY <1>1, <1>2 DEF IInv

(* What a handler sends is well formed. *)
LEMMA RequestTypes ==
    ASSUME NEW c \in Calls
    PROVE  /\ Request("decide", c, "ask") \in Message
           /\ Request("observe", c, "judge") \in Message
           /\ Request("upstream", c, "run") \in Message
           /\ \A id \in {"?", "known"}, body \in Results: Report(c, id, body) \in Message
           /\ \A body \in {"ALLOW", "DENY", "error", "observed", "ok", "is_error"}:
                Reply(c, body) \in Message
  BY DEF Request, Report, Reply, Message, Results

(* A reply is the only thing a worked-off request leaves. *)
LEMMA HandledEffect ==
    ASSUME NEW m \in net, NEW place, NEW body, Handled(m, place, body)
    PROVE  /\ \A n \in net': n = Reply(m.call, body) \/ (n \in net /\ n /= m)
           /\ \A n \in net': n.to /= "gateway" => n \in net /\ n /= m
           /\ \A n \in net': n.call /= m.call => n \in net
  BY DEF Handled, Reply

(* Moving on drops the replies to the call and adds its next request. *)
LEMMA MoveToEffect ==
    ASSUME TypeOK, NEW c \in Calls, NEW place \in Places, NEW requests \in SUBSET Message,
           MoveTo(c, place, requests), \A m \in requests: m.call = c
    PROVE  /\ pc' \in [Calls -> Places]
           /\ pc'[c] = place
           /\ \A d \in Calls \ {c}: pc'[d] = pc[d]
           /\ net' \subseteq Message
           /\ \A m \in net': m \in net \/ m \in requests
           /\ \A m \in net': m.call /= c => m \in net
           /\ \A m \in net': m.call = c /\ m.to = "gateway" => m \in requests
  BY DEF MoveTo, TypeOK
-----------------------------------------------------------------------------
(* Every variable keeps its type, for any sets of calls. *)
LEMMA HandlerTypes ==
    ASSUME TypeOK, NEW c \in Calls, Start(c) \/ Handler(c)
    PROVE  TypeOK'
  <1> USE DEF TypeOK
  <1>0. /\ \A place \in Places, requests \in SUBSET Message:
             MoveTo(c, place, requests) =>
               pc' \in [Calls -> Places] /\ net' \subseteq Message
        /\ \A text \in {"none", "denied", "result", "error"}:
             Answer(c, text) => answer' \in [Calls -> {"none", "denied", "result", "error"}]
    BY DEF MoveTo, Answer
  <1>1. CASE Start(c)
    BY <1>0, <1>1, RequestTypes DEF Start, Places, controlState
  <1>2. CASE AuthorizationFails(c)
    BY <1>0, <1>2, RequestTypes DEF AuthorizationFails, Places, Results, controlState
  <1>3. CASE AuthorizationArrives(c)
    <2>1. PICK m \in net: AuthorizationArrives(c)!2!(m)
      BY <1>3 DEF AuthorizationArrives
    <2>2. believed' \in [Calls -> {"?", "known"}] /\ believed'[c] \in {"?", "known"}
      BY <2>1
    <2>3. CASE m.body = "ALLOW"
      BY <1>0, <1>3, <2>1, <2>2, <2>3, RequestTypes
         DEF AuthorizationArrives, Places, Results, controlState
    <2>4. CASE m.body /= "ALLOW"
      BY <1>0, <1>3, <2>1, <2>2, <2>4, RequestTypes
         DEF AuthorizationArrives, Places, Results, controlState
    <2> QED
      BY <2>3, <2>4
  <1>4. CASE ResultArrives(c)
    BY <1>0, <1>4, RequestTypes DEF ResultArrives, OutcomeOf, Places, Results, controlState
  <1>5. CASE ForwardFails(c)
    BY <1>0, <1>5, RequestTypes DEF ForwardFails, Places, Results, controlState
  <1>6. CASE Finish(c)
    BY <1>0, <1>6 DEF Finish, Places, controlState
  <1>7. CASE PassEnds(c)
    BY <1>0, <1>7 DEF PassEnds, Places, controlState
  <1> QED
    BY <1>1, <1>2, <1>3, <1>4, <1>5, <1>6, <1>7 DEF Handler

LEMMA RemoteTypes ==
    ASSUME TypeOK, RequestsInv
    PROVE  /\ HandleDecide => TypeOK'
           /\ HandleObserve => TypeOK'
           /\ HandleRecord => TypeOK'
           /\ RunTool => TypeOK'
  <1> USE DEF TypeOK
  <1>1. ASSUME NEW n \in net, NEW place,
               NEW body \in {"ALLOW", "DENY", "error", "observed", "ok", "is_error"},
               Handled(n, place, body)
        PROVE  net' \subseteq Message
    <2>1. n.call \in Calls
      BY DEF Message
    <2> QED
      BY <1>1, <2>1, RequestTypes DEF Handled
  <1>2. ASSUME HandleDecide PROVE TypeOK'
    <2>1. PICK n \in net: HandleDecide!(n)
      BY <1>2 DEF HandleDecide
    <2>2. net' \subseteq Message
      BY <1>1, <2>1
    <2>3. decision' \in [Gated -> {"none", "ALLOW", "DENY"}] /\ healthy' \in BOOLEAN
      BY <2>1
    <2> QED
      BY <2>1, <2>2, <2>3 DEF handler
  <1>3. ASSUME HandleObserve PROVE TypeOK'
    <2>1. PICK n \in net: HandleObserve!(n)
      BY <1>3 DEF HandleObserve
    <2>2. net' \subseteq Message
      BY <1>1, <2>1
    <2>3. suspended' \in BOOLEAN /\ healthy' \in BOOLEAN
      BY <2>1
    <2> QED
      BY <2>1, <2>2, <2>3 DEF handler
  <1>4. ASSUME HandleRecord PROVE TypeOK'
    <2>1. PICK n \in net: HandleRecord!(n)
      BY <1>4 DEF HandleRecord
    <2>2. n.body \in Results /\ n.call \in Gated
      BY <2>1 DEF RequestsInv
    <2>3. Append(outcomes[n.call], n.body) \in Seq(Results)
      BY <2>2, AppendProperties DEF Results
    <2>4. outcomes' \in [Gated -> Seq(Results)] /\ healthy' \in BOOLEAN
      BY <2>1, <2>3 DEF Results
    <2> QED
      BY <2>1, <2>4 DEF handler, Results
  <1>5. ASSUME RunTool PROVE TypeOK'
    <2>1. PICK n \in net: RunTool!(n)
      BY <1>5 DEF RunTool
    <2>2. net' \subseteq Message
      BY <1>1, <2>1
    <2>3. ran' \in [Gated -> Nat]
      BY <2>1
    <2> QED
      BY <2>1, <2>2, <2>3 DEF handler, controlState
  <1> QED
    BY <1>2, <1>3, <1>4, <1>5

LEMMA TypesKept ==
    ASSUME TypeOK, RequestsInv, [Next]_vars
    PROVE  TypeOK'
  <1>1. CASE \E c \in Calls: Start(c) \/ Handler(c)
    BY <1>1, HandlerTypes
  <1>2. CASE HandleDecide \/ HandleObserve \/ HandleRecord \/ RunTool
    BY <1>2, RemoteTypes
  <1>3. CASE Lose
    BY <1>3 DEF Lose, TypeOK, controlState, handler
  <1>4. CASE ControlPlaneDies
    BY <1>4 DEF ControlPlaneDies, TypeOK, handler
  <1>5. CASE Die
    BY <1>5 DEF Die, Abandon, TypeOK, Places
  <1>6. CASE ComeUp
    BY <1>6 DEF ComeUp, TypeOK, handler
  <1>7. CASE UNCHANGED vars
    BY <1>7 DEF vars, TypeOK, controlState, handler
  <1> QED
    BY <1>1, <1>2, <1>3, <1>4, <1>5, <1>6, <1>7 DEF Next
-----------------------------------------------------------------------------
(* The steps of a handler concern one call: the invariant of the others is  *)
(* untouched.                                                               *)
LEMMA HandlerFrame ==
    ASSUME IInv, NEW c \in Calls, Start(c) \/ Handler(c)
    PROVE  /\ UNCHANGED <<decision, outcomes, ran>>
           /\ \A d \in Gated \ {c}: CallInv(d)'
           /\ \A d \in Calls \ {c}: pc'[d] = pc[d]
  <1>1. UNCHANGED <<decision, outcomes, ran>>
    BY DEF Start, Handler, AuthorizationFails, AuthorizationArrives, ResultArrives,
           ForwardFails, Finish, PassEnds, controlState
  <1>2. \E place \in Places, requests \in SUBSET Message:
          (\A m \in requests: m.call = c) /\ MoveTo(c, place, requests)
    <2> USE DEF Places
    <2>0. \A m: /\ m \in {} => m.call = c
                /\ m \in {Request("decide", c, "ask")} => m.call = c
                /\ m \in {Request("observe", c, "judge")} => m.call = c
                /\ m \in {Request("upstream", c, "run")} => m.call = c
                /\ \A id, body: m \in {Report(c, id, body)} => m.call = c
      BY DEF Request, Report
    <2>1. CASE Start(c)
      BY <2>0, <2>1, RequestTypes DEF Start
    <2>2. CASE AuthorizationFails(c)
      BY <2>0, <2>2, RequestTypes DEF AuthorizationFails, Results
    <2>3. CASE AuthorizationArrives(c)
      <3>1. PICK m \in net: AuthorizationArrives(c)!2!(m)
        BY <2>3 DEF AuthorizationArrives
      <3>2. believed'[c] \in {"?", "known"}
        BY <3>1 DEF IInv, TypeOK
      <3>3. CASE m.body = "ALLOW"
        BY <2>0, <3>1, <3>3, RequestTypes
      <3>4. CASE m.body /= "ALLOW"
        BY <2>0, <3>1, <3>2, <3>4, RequestTypes DEF Results
      <3> QED
        BY <3>3, <3>4
    <2>4. CASE ResultArrives(c)
      BY <2>0, <2>4, RequestTypes DEF ResultArrives, OutcomeOf, Results
    <2>5. CASE ForwardFails(c)
      BY <2>0, <2>5, RequestTypes DEF ForwardFails, Results
    <2>6. CASE Finish(c)
      BY <2>0, <2>6 DEF Finish
    <2>7. CASE PassEnds(c)
      BY <2>0, <2>7 DEF PassEnds
    <2> QED
      BY <2>1, <2>2, <2>3, <2>4, <2>5, <2>6, <2>7 DEF Handler
  <1>3. /\ \A d \in Calls \ {c}: pc'[d] = pc[d]
        /\ \A m \in net': m.call /= c => m \in net
    BY <1>2, MoveToEffect DEF IInv, Calls
  <1>4. \A d \in Gated \ {c}: answer'[d] = answer[d]
    BY DEF Start, Handler, AuthorizationFails, AuthorizationArrives, ResultArrives,
           ForwardFails, Finish, PassEnds, Answer, IInv, TypeOK, Calls
  <1>5. \A d \in Gated \ {c}: CallInv(d)'
    BY <1>1, <1>3, <1>4, Untouched DEF IInv, Calls
  <1> QED
    BY <1>1, <1>3, <1>5

(* A handler asks only for what its kind of call is entitled to, and its own *)
(* call keeps its part of the invariant.                                     *)
LEMMA HandlerKeeps ==
    ASSUME IInv, NEW c \in Calls, Start(c) \/ Handler(c)
    PROVE  IInv'
  <1>0. /\ TypeOK'
        /\ UNCHANGED <<decision, outcomes, ran>>
        /\ \A d \in Gated \ {c}: CallInv(d)'
        /\ \A d \in Calls \ {c}: pc'[d] = pc[d]
    BY HandlerTypes, HandlerFrame DEF IInv
  <1>1. c \notin Gated <=> c \in Observers
    BY CallsAssumption DEF Calls
  <1> DEFINE Sends(place, requests) ==
        /\ pc'[c] = place
        /\ \A m \in net': (m \in net /\ (m.call = c => m.to /= "gateway")) \/ m \in requests
  <1>2. ASSUME NEW place \in Places, NEW requests, MoveTo(c, place, requests)
        PROVE  Sends(place, requests)
    BY <1>2 DEF MoveTo, IInv, TypeOK
  <1>3. CASE Start(c)
    <2>1. CASE c \in Gated
      <3>1. Sends("authorizing", {Request("decide", c, "ask")})
        BY <1>2, <1>3, <2>1 DEF Start, Places
      <3>2. pc[c] = "new" /\ answer' = answer
        BY <1>3 DEF Start
      <3>3. RequestsInv' /\ KindInv'
        BY <1>0, <1>1, <2>1, <3>1 DEF IInv, RequestsInv, KindInv, Request
      <3>4. CallInv(c)'
        BY <1>0, <2>1, <3>1, <3>2
           DEF IInv, CallInv, PlaceInv, MessageInv, RecordInv, Request
      <3> QED
        BY <1>0, <3>3, <3>4 DEF IInv
    <2>2. CASE c \notin Gated
      <3>1. Sends("passing", {Request("observe", c, "judge")})
        BY <1>2, <1>3, <2>2 DEF Start, Places
      <3>2. RequestsInv' /\ KindInv'
        BY <1>0, <1>1, <2>2, <3>1 DEF IInv, RequestsInv, KindInv, Request
      <3> QED
        BY <1>0, <2>2, <3>2 DEF IInv
    <2> QED
      BY <2>1, <2>2
  <1>4. CASE AuthorizationFails(c)
    <2>1. Sends("blocking", {Report(c, "?", "blocked")})
      BY <1>2, <1>4 DEF AuthorizationFails, Places
    <2>2. /\ pc[c] = "authorizing" /\ c \in Gated
          /\ answer'[c] = "denied"
      BY <1>4 DEF AuthorizationFails, Answer, IInv, KindInv, TypeOK
    <2>3. RequestsInv' /\ KindInv'
      BY <1>0, <1>1, <2>1, <2>2 DEF IInv, RequestsInv, KindInv, Report, Results
    <2>4. CallInv(c)'
      BY <1>0, <2>1, <2>2 DEF IInv, CallInv, PlaceInv, MessageInv, RecordInv, Report
    <2> QED
      BY <1>0, <2>3, <2>4 DEF IInv
  <1>5. CASE AuthorizationArrives(c)
    <2>1. PICK m \in net: AuthorizationArrives(c)!2!(m)
      BY <1>5 DEF AuthorizationArrives
    <2>2. pc[c] = "authorizing" /\ c \in Gated
      BY <1>5 DEF AuthorizationArrives, IInv, KindInv
    <2>3. m.body \in {"ALLOW", "DENY"} => decision[c] = m.body
      BY <2>1, <2>2 DEF IInv, CallInv, MessageInv
    <2>4. CASE m.body = "ALLOW"
      <3>1. Sends("forwarding", {Request("upstream", c, "run")}) /\ answer' = answer
        BY <1>2, <2>1, <2>4 DEF Places
      <3>2. RequestsInv' /\ KindInv'
        BY <1>0, <1>1, <2>2, <3>1 DEF IInv, RequestsInv, KindInv, Request
      <3>3. CallInv(c)'
        BY <1>0, <2>2, <2>3, <2>4, <3>1
           DEF IInv, CallInv, PlaceInv, MessageInv, RecordInv, Request
      <3> QED
        BY <1>0, <3>2, <3>3 DEF IInv
    <2>5. CASE m.body /= "ALLOW"
      <3>1. Sends("blocking", {Report(c, believed'[c], "blocked")})
        BY <1>2, <2>1, <2>5 DEF Places
      <3>2. answer'[c] = "denied"
        BY <2>1, <2>5 DEF Answer, IInv, TypeOK
      <3>3. believed'[c] = "known" => decision[c] = "DENY"
        BY <2>1, <2>3, <2>5 DEF IInv, TypeOK
      <3>4. RequestsInv' /\ KindInv'
        BY <1>0, <1>1, <2>2, <3>1 DEF IInv, RequestsInv, KindInv, Report, Results
      <3>5. CallInv(c)'
        BY <1>0, <2>2, <3>1, <3>2, <3>3
           DEF IInv, CallInv, PlaceInv, MessageInv, RecordInv, Report
      <3> QED
        BY <1>0, <3>4, <3>5 DEF IInv
    <2> QED
      BY <2>4, <2>5
  <1>6. CASE ResultArrives(c)
    <2>1. PICK m \in net: ResultArrives(c)!2!(m)
      BY <1>6 DEF ResultArrives
    <2>2. pc[c] = "forwarding" /\ c \in Gated
      BY <1>6 DEF ResultArrives, IInv, KindInv
    <2>3. Sends("reporting", {Report(c, "known", OutcomeOf(m.body))})
      BY <1>2, <2>1 DEF Places
    <2>4. answer'[c] = "result"
      BY <1>6 DEF ResultArrives, Answer, IInv, TypeOK
    <2>5. /\ OutcomeOf(m.body) \in {"executed", "failed"}
          /\ OutcomeOf(m.body) = "executed" => ran[c] = 1
      BY <2>1, <2>2 DEF OutcomeOf, IInv, CallInv, MessageInv
    <2>6. RequestsInv' /\ KindInv'
      BY <1>0, <1>1, <2>2, <2>3, <2>5 DEF IInv, RequestsInv, KindInv, Report, Results
    <2>7. CallInv(c)'
      BY <1>0, <2>2, <2>3, <2>4, <2>5
         DEF IInv, CallInv, PlaceInv, MessageInv, RecordInv, Report
    <2> QED
      BY <1>0, <2>6, <2>7 DEF IInv
  <1>7. CASE ForwardFails(c)
    <2>1. Sends("reporting", {Report(c, "known", "failed")})
      BY <1>2, <1>7 DEF ForwardFails, Places
    <2>2. /\ pc[c] = "forwarding" /\ c \in Gated
          /\ answer'[c] = "error"
      BY <1>7 DEF ForwardFails, Answer, IInv, KindInv, TypeOK
    <2>3. RequestsInv' /\ KindInv'
      BY <1>0, <1>1, <2>1, <2>2 DEF IInv, RequestsInv, KindInv, Report, Results
    <2>4. CallInv(c)'
      BY <1>0, <2>1, <2>2 DEF IInv, CallInv, PlaceInv, MessageInv, RecordInv, Report
    <2> QED
      BY <1>0, <2>3, <2>4 DEF IInv
  <1>8. CASE Finish(c)
    <2>1. Sends("answered", {}) /\ answer' = answer
      BY <1>2, <1>8 DEF Finish, Places
    <2>2. pc[c] \in {"blocking", "reporting"} /\ c \in Gated
      BY <1>8 DEF Finish, IInv, KindInv
    <2>3. RequestsInv' /\ KindInv'
      BY <1>0, <1>1, <2>1 DEF IInv, RequestsInv, KindInv
    <2>4. CallInv(c)'
      BY <1>0, <2>1, <2>2 DEF IInv, CallInv, PlaceInv, MessageInv, RecordInv
    <2> QED
      BY <1>0, <2>3, <2>4 DEF IInv
  <1>9. CASE PassEnds(c)
    <2>1. Sends("answered", {})
      BY <1>2, <1>9 DEF PassEnds, Places
    <2>2. c \notin Gated
      BY <1>1, <1>9 DEF PassEnds, IInv, KindInv
    <2>3. RequestsInv' /\ KindInv'
      BY <1>0, <1>1, <2>1 DEF IInv, RequestsInv, KindInv
    <2> QED
      BY <1>0, <2>2, <2>3 DEF IInv
  <1> QED
    BY <1>3, <1>4, <1>5, <1>6, <1>7, <1>8, <1>9 DEF Handler
-----------------------------------------------------------------------------
(* The steps of the other side concern the call of the request they work    *)
(* off, and leave it at most a reply.                                       *)
LEMMA RemoteFrame ==
    ASSUME IInv, TypeOK', NEW m \in net, m.to /= "gateway", UNCHANGED <<pc, answer>>,
           \A n \in net': n = Reply(m.call, n.body) \/ (n \in net /\ n /= m),
           \A c \in Gated \ {m.call}:
             /\ decision'[c] = decision[c] /\ outcomes'[c] = outcomes[c] /\ ran'[c] = ran[c],
           m.call \in Gated => CallInv(m.call)'
    PROVE  IInv'
  <1>1. RequestsInv' /\ KindInv'
    BY DEF IInv, RequestsInv, KindInv, Reply
  <1>2. ASSUME NEW c \in Gated, c /= m.call
        PROVE  CallInv(c)'
    BY <1>2, Untouched DEF IInv, Reply
  <1> QED
    BY <1>1, <1>2 DEF IInv

(* The control plane decides a call once: its one request is gone. *)
LEMMA DecideKeeps ==
    ASSUME IInv, HandleDecide
    PROVE  IInv'
  <1>1. PICK m \in net: HandleDecide!(m)
    BY DEF HandleDecide
  <1>2. TypeOK' /\ m.call \in Gated /\ m = Request("decide", m.call, "ask")
    BY <1>1, RemoteTypes DEF IInv, RequestsInv
  <1>3. /\ decision[m.call] = "none"
        /\ pc[m.call] \notin {"forwarding", "reporting"}
        /\ \A n \in net: n.call = m.call => n.to /= "upstream"
        /\ \A n \in net: n.call = m.call /\ n.to = "gateway" => n.body \notin {"ALLOW", "DENY"}
    BY <1>1, <1>2 DEF IInv, CallInv, PlaceInv, MessageInv
  <1>4. PICK body: /\ Handled(m, "authorizing", body)
                   /\ \/ body = "error" /\ decision' = decision
                      \/ /\ body \in {"ALLOW", "DENY"}
                         /\ decision' = [decision EXCEPT ![m.call] = body]
    BY <1>1
  <1>5. \A n \in net': n = Reply(m.call, body) \/ (n \in net /\ n /= m)
    BY <1>4, HandledEffect
  <1>6. /\ \A n \in net': n = Reply(m.call, n.body) \/ (n \in net /\ n /= m)
        /\ \A n \in net': n.call = m.call => n.to /= "decide"
    BY <1>2, <1>5 DEF Reply, IInv, RequestsInv
  <1>7. UNCHANGED <<pc, answer, outcomes, ran>>
    BY <1>1 DEF handler
  <1>8. /\ \A c \in Gated \ {m.call}: decision'[c] = decision[c]
        /\ decision'[m.call] = IF body = "error" THEN "none" ELSE body
    BY <1>2, <1>3, <1>4 DEF IInv, TypeOK
  <1>9. CallInv(m.call)'
    <2>1. PlaceInv(m.call)'
      BY <1>2, <1>3, <1>5, <1>7, <1>8 DEF IInv, CallInv, PlaceInv, Reply, Request
    <2>2. MessageInv(m.call)'
      BY <1>2, <1>3, <1>4, <1>5, <1>6, <1>7, <1>8 DEF IInv, CallInv, MessageInv, Reply
    <2>3. RecordInv(m.call)'
      BY <1>2, <1>3, <1>5, <1>7, <1>8 DEF IInv, CallInv, RecordInv, Reply
    <2> QED
      BY <2>1, <2>2, <2>3 DEF CallInv
  <1> QED
    BY <1>1, <1>2, <1>6, <1>7, <1>8, <1>9, RemoteFrame

(* Observations concern no gated call. *)
LEMMA ObserveKeeps ==
    ASSUME IInv, HandleObserve
    PROVE  IInv'
  <1>1. PICK m \in net: HandleObserve!(m)
    BY DEF HandleObserve
  <1>2. TypeOK' /\ UNCHANGED <<decision, outcomes, ran, pc, answer>>
    BY <1>1, RemoteTypes DEF IInv, handler
  <1>3. \A n \in net': n = Reply(m.call, "observed") \/ (n \in net /\ n /= m)
    BY <1>1, HandledEffect
  <1>4. ASSUME m.call \in Gated
        PROVE  CallInv(m.call)'
    <2>1. PlaceInv(m.call)'
      BY <1>2, <1>3, <1>4 DEF IInv, CallInv, PlaceInv, Reply
    <2>2. MessageInv(m.call)'
      BY <1>2, <1>3, <1>4 DEF IInv, CallInv, MessageInv, Reply
    <2>3. RecordInv(m.call)'
      BY <1>2, <1>3, <1>4 DEF IInv, CallInv, RecordInv, Reply
    <2> QED
      BY <2>1, <2>2, <2>3 DEF CallInv
  <1>5. m \in net /\ m.to /= "gateway"
    BY <1>1
  <1>6. \A n \in net': n = Reply(m.call, n.body) \/ (n \in net /\ n /= m)
    BY <1>3 DEF Reply
  <1> QED
    BY <1>2, <1>4, <1>5, <1>6, RemoteFrame

(* What a record of at most one outcome looks like. *)
LEMMA NoOutcome ==
    ASSUME NEW record, record = <<>>
    PROVE  Len(record) <= 1 /\ record /= <<"executed">> /\ record /= <<"blocked">>
  OBVIOUS

LEMMA SingleOutcome ==
    ASSUME NEW record, NEW outcome, record = <<outcome>>
    PROVE  /\ Len(record) <= 1
           /\ record = <<"executed">> => outcome = "executed"
           /\ record = <<"blocked">> => outcome = "blocked"
  OBVIOUS

(* An outcome is recorded once: a call reports one. *)
LEMMA RecordKeeps ==
    ASSUME IInv, HandleRecord
    PROVE  IInv'
  <1>1. PICK m \in net: HandleRecord!(m)
    BY DEF HandleRecord
  <1>2. TypeOK' /\ UNCHANGED <<decision, ran, pc, answer>>
    BY <1>1, RemoteTypes DEF IInv, handler
  <1>3. m.call \in Gated /\ m.body \in Results
    BY <1>1 DEF IInv, RequestsInv
  <1>4. /\ outcomes[m.call] = <<>>
        /\ pc[m.call] \notin {"new", "authorizing", "forwarding"}
        /\ m.body = "executed" => ran[m.call] = 1
        /\ m.body = "blocked" /\ m.id = "known" => decision[m.call] = "DENY"
    BY <1>1, <1>3 DEF IInv, CallInv, PlaceInv, MessageInv
  <1>5. /\ \A c \in Gated \ {m.call}: outcomes'[c] = outcomes[c]
        /\ \/ outcomes'[m.call] = <<>>
           \/ outcomes'[m.call] = <<m.body>> /\ m.id = "known"
    BY <1>1, <1>3, <1>4 DEF IInv, TypeOK
  <1>6. /\ net' = net \ {m}
        /\ \A n \in net': n.call = m.call => n.to /= "record"
    BY <1>1, <1>3 DEF IInv, CallInv, MessageInv
  <1>7. CallInv(m.call)'
    <2>1. PlaceInv(m.call)'
      BY <1>2, <1>3, <1>4, <1>6 DEF IInv, CallInv, PlaceInv
    <2>2. MessageInv(m.call)'
      BY <1>2, <1>3, <1>6 DEF IInv, CallInv, MessageInv
    <2>3. /\ Len(outcomes'[m.call]) <= 1
          /\ outcomes'[m.call] = <<"executed">> => m.body = "executed"
          /\ outcomes'[m.call] = <<"blocked">> => m.body = "blocked" /\ m.id = "known"
      BY <1>5, NoOutcome, SingleOutcome
    <2>4. /\ Len(outcomes'[m.call]) <= 1
          /\ outcomes'[m.call] = <<"executed">> => ran'[m.call] = 1
          /\ outcomes'[m.call] = <<"blocked">> => decision'[m.call] = "DENY"
      BY <1>2, <1>4, <2>3
    <2>5. /\ ran'[m.call] \in {0, 1}
          /\ ran'[m.call] = 1 => decision'[m.call] = "ALLOW"
          /\ answer'[m.call] = "denied" =>
               ran'[m.call] = 0 /\ \A n \in net': n.call = m.call => n.to /= "upstream"
      BY <1>2, <1>3, <1>6 DEF IInv, CallInv, RecordInv
    <2>6. RecordInv(m.call)'
      BY <2>4, <2>5 DEF RecordInv
    <2> QED
      BY <2>1, <2>2, <2>6 DEF CallInv
  <1> QED
    BY <1>1, <1>2, <1>3, <1>5, <1>6, <1>7, RemoteFrame

(* A tool runs once: a call asks the upstream once. *)
LEMMA RunKeeps ==
    ASSUME IInv, RunTool
    PROVE  IInv'
  <1>1. PICK m \in net: RunTool!(m)
    BY DEF RunTool
  <1>2. TypeOK' /\ UNCHANGED <<decision, outcomes, pc, answer>>
    BY <1>1, RemoteTypes DEF IInv, handler, controlState
  <1>3. m.call \in Gated /\ m = Request("upstream", m.call, "run")
    BY <1>1 DEF IInv, RequestsInv
  <1>4. /\ decision[m.call] = "ALLOW" /\ ran[m.call] = 0
        /\ pc[m.call] \notin {"new", "authorizing", "blocking"}
        /\ answer[m.call] /= "denied"
    BY <1>1, <1>3 DEF IInv, CallInv, PlaceInv, MessageInv, RecordInv
  <1>5. PICK body: /\ Handled(m, "forwarding", body)
                   /\ \/ /\ body \in {"ok", "is_error"}
                         /\ ran' = [ran EXCEPT ![m.call] = @ + 1]
                      \/ /\ body = "is_error"
                         /\ ran' = ran
    BY <1>1
  <1>6. \A n \in net': n = Reply(m.call, body) \/ (n \in net /\ n /= m)
    BY <1>5, HandledEffect
  <1>7. /\ \A n \in net': n = Reply(m.call, n.body) \/ (n \in net /\ n /= m)
        /\ \A n \in net': n.call = m.call => n.to /= "upstream"
    BY <1>3, <1>6 DEF Reply, IInv, RequestsInv
  <1>8. /\ \A c \in Gated \ {m.call}: ran'[c] = ran[c]
        /\ ran'[m.call] \in {0, 1}
        /\ body = "ok" => ran'[m.call] = 1
    BY <1>3, <1>4, <1>5 DEF IInv, TypeOK
  <1>9. CallInv(m.call)'
    <2>1. PlaceInv(m.call)'
      BY <1>2, <1>3, <1>4, <1>6, <1>8 DEF IInv, CallInv, PlaceInv, Reply
    <2>2. MessageInv(m.call)'
      BY <1>2, <1>3, <1>4, <1>5, <1>6, <1>7, <1>8 DEF IInv, CallInv, MessageInv, Reply
    <2>3. RecordInv(m.call)'
      BY <1>2, <1>3, <1>4, <1>6, <1>8 DEF IInv, CallInv, RecordInv, Reply
    <2> QED
      BY <2>1, <2>2, <2>3 DEF CallInv
  <1> QED
    BY <1>1, <1>2, <1>3, <1>7, <1>8, <1>9, RemoteFrame

(* The gateway's death leaves of a call what is recorded of it and what an  *)
(* upstream was already asked.                                              *)
LEMMA DieKeeps ==
    ASSUME IInv, Die
    PROVE  IInv'
  <1>1. TypeOK'
    BY TypesKept DEF IInv, Next
  <1>2. /\ UNCHANGED <<decision, outcomes, ran, answer>>
        /\ net' \subseteq net
        /\ \A c \in Calls:
              (pc'[c] \in {"new", "answered"} /\ pc'[c] = pc[c]) \/ pc'[c] = "lost"
    BY DEF Die, Abandon
  <1>3. RequestsInv' /\ KindInv'
    BY <1>2 DEF IInv, RequestsInv, KindInv
  <1>4. \A c \in Gated: CallInv(c)'
    BY <1>2 DEF IInv, CallInv, PlaceInv, MessageInv, RecordInv, Calls
  <1> QED
    BY <1>1, <1>3, <1>4 DEF IInv
-----------------------------------------------------------------------------
LEMMA Inductive ==
    /\ Init => IInv
    /\ IInv /\ [Next]_vars => IInv'
  <1>1. Init => IInv
    <2> SUFFICES ASSUME Init PROVE IInv
      OBVIOUS
    <2>0. outcomes \in [Gated -> Seq(Results)] /\ \A c \in Gated: outcomes[c] = <<>>
      BY EmptySeq DEF Init
    <2>4. \A c \in Gated:
            Len(outcomes[c]) <= 1 /\ outcomes[c] /= <<"executed">> /\ outcomes[c] /= <<"blocked">>
      BY <2>0, NoOutcome
    <2>1. TypeOK
      BY <2>0 DEF Init, TypeOK, Places, Results
    <2>2. RequestsInv /\ KindInv
      BY DEF Init, RequestsInv, KindInv
    <2>3. ASSUME NEW c \in Gated PROVE CallInv(c)
      <3>1. PlaceInv(c)
        BY <2>0 DEF Init, PlaceInv, Calls
      <3>2. MessageInv(c)
        BY DEF Init, MessageInv
      <3>3. RecordInv(c)
        BY <2>4 DEF Init, RecordInv, Calls
      <3> QED
        BY <3>1, <3>2, <3>3 DEF CallInv
    <2> QED
      BY <2>1, <2>2, <2>3 DEF IInv
  <1>2. ASSUME IInv, [Next]_vars PROVE IInv'
    <2>0. TypeOK'
      BY <1>2, TypesKept DEF IInv
    <2>1. CASE \E c \in Calls: Start(c) \/ Handler(c)
      BY <1>2, <2>1, HandlerKeeps
    <2>2. CASE HandleDecide
      BY <1>2, <2>2, DecideKeeps
    <2>3. CASE HandleObserve
      BY <1>2, <2>3, ObserveKeeps
    <2>4. CASE HandleRecord
      BY <1>2, <2>4, RecordKeeps
    <2>5. CASE RunTool
      BY <1>2, <2>5, RunKeeps
    <2>6. CASE Lose
      BY <1>2, <2>0, <2>6, OnlyLosses DEF Lose, controlState, handler
    <2>7. CASE ControlPlaneDies
      BY <1>2, <2>0, <2>7, OnlyLosses DEF ControlPlaneDies, handler
    <2>8. CASE Die
      BY <1>2, <2>8, DieKeeps
    <2>9. CASE ComeUp
      BY <1>2, <2>0, <2>9, OnlyLosses DEF ComeUp, handler
    <2>10. CASE UNCHANGED vars
      BY <1>2, <2>0, <2>10, OnlyLosses DEF vars, controlState, handler
    <2> QED
      BY <1>2, <2>1, <2>2, <2>3, <2>4, <2>5, <2>6, <2>7, <2>8, <2>9, <2>10 DEF Next
  <1> QED
    BY <1>1, <1>2
-----------------------------------------------------------------------------
THEOREM Invariance == Spec => []IInv
  BY Inductive, PTL DEF Spec

(* Every variable keeps its type, for any sets of calls. *)
THEOREM TypeCorrect == Spec => []TypeOK
  <1>1. IInv => TypeOK
    BY DEF IInv
  <1> QED
    BY <1>1, Invariance, PTL

(* A call the agent was told is denied has not run, and no request to run   *)
(* it is left anywhere: whatever is lost, late, or dies (authorize and      *)
(* call_tool of the gateway).                                               *)
THEOREM DenialHolds == Spec => []DenialIsFinal
  <1>1. IInv => DenialIsFinal
    BY DEF IInv, CallInv, RecordInv, DenialIsFinal
  <1> QED
    BY <1>1, Invariance, PTL

(* The outcomes the control plane has recorded do not contradict what       *)
(* happened to the call (record_outcome of the gateway, r2r_record_outcome  *)
(* of the control plane).                                                   *)
THEOREM OutcomesHold == Spec => []OutcomesAreHonest
  <1>1. IInv => OutcomesAreHonest
    <2> SUFFICES ASSUME IInv, NEW c \in Gated
                 PROVE  /\ Len(outcomes[c]) <= 1
                        /\ outcomes[c] = <<"executed">> => ran[c] = 1
                        /\ outcomes[c] = <<"blocked">> => decision[c] = "DENY" /\ ran[c] = 0
      BY DEF OutcomesAreHonest
    <2> QED
      BY DEF IInv, CallInv, RecordInv
  <1> QED
    BY <1>1, Invariance, PTL

(* The gateway implements the execution gate: every step of it decides one  *)
(* call that had no decision, runs one call that was allowed and has not    *)
(* run, or is no step of the gate at all.                                   *)
THEOREM GatewayImplementsGate == Spec => ImplementsGate
  <1>1. Init => Gate!Init
    BY DEF Init, Gate!Init
  <1>2. IInv /\ [Next]_vars => [Gate!Next]_(Gate!vars)
    <2> SUFFICES ASSUME IInv, Next
                 PROVE  Gate!Next \/ UNCHANGED <<decision, ran>>
      BY DEF vars, controlState, Gate!vars
    <2>1. CASE \E c \in Calls: Start(c) \/ Handler(c)
      BY <2>1, HandlerFrame
    <2>2. CASE HandleDecide
      <3>1. PICK m \in net: HandleDecide!(m)
        BY <2>2 DEF HandleDecide
      <3>2. m.call \in Gated /\ decision[m.call] = "none"
        BY <3>1 DEF IInv, RequestsInv, CallInv, MessageInv
      <3>3. CASE decision' = decision
        BY <3>1, <3>3
      <3>4. CASE decision' /= decision
        <4>1. PICK v \in {"ALLOW", "DENY"}: decision' = [decision EXCEPT ![m.call] = v]
          BY <3>1, <3>4
        <4>2. Gate!Decide(m.call, v)
          BY <3>1, <3>2, <4>1 DEF Gate!Decide
        <4> QED
          BY <3>2, <4>2 DEF Gate!Next
      <3> QED
        BY <3>3, <3>4
    <2>3. CASE RunTool
      <3>1. PICK m \in net: RunTool!(m)
        BY <2>3 DEF RunTool
      <3>2. m.call \in Gated /\ decision[m.call] = "ALLOW" /\ ran[m.call] = 0
        BY <3>1 DEF IInv, RequestsInv, CallInv, MessageInv
      <3>3. CASE ran' = ran
        BY <3>1, <3>3 DEF controlState
      <3>4. CASE ran' /= ran
        <4>1. ran' = [ran EXCEPT ![m.call] = 1]
          BY <3>1, <3>2, <3>4
        <4>2. Gate!Run(m.call)
          BY <3>1, <3>2, <4>1 DEF Gate!Run, controlState
        <4> QED
          BY <3>2, <4>2 DEF Gate!Next
      <3> QED
        BY <3>3, <3>4
    <2>4. CASE HandleObserve \/ HandleRecord \/ Lose \/ ControlPlaneDies \/ Die \/ ComeUp
      BY <2>4 DEF HandleObserve, HandleRecord, Lose, ControlPlaneDies, Die, ComeUp, controlState
    <2> QED
      BY <2>1, <2>2, <2>3, <2>4 DEF Next
  <1> QED
    BY <1>1, <1>2, Invariance, PTL DEF Spec, ImplementsGate, Gate!Spec

(* A call that begins in a suspended domain never runs: nothing the gateway *)
(* can do restores an authorization, so its only decision can be a denial.  *)
THEOREM SuspensionHolds == Spec => SuspensionStopsNewCalls
  <1> DEFINE Refused(c) == IInv /\ suspended /\ decision[c] /= "ALLOW"
  <1>1. ASSUME NEW c \in Gated
        PROVE  Spec => [](pc[c] = "new" /\ suspended => [](ran[c] = 0))
    <2>1. IInv /\ pc[c] = "new" /\ suspended => Refused(c)
      BY <1>1 DEF IInv, CallInv, PlaceInv
    <2>2. Refused(c) => ran[c] = 0
      BY <1>1 DEF IInv, CallInv, RecordInv
    <2>3. Refused(c) /\ [Next]_vars => Refused(c)'
      <3> SUFFICES ASSUME Refused(c), [Next]_vars
                   PROVE  suspended' /\ decision'[c] /= "ALLOW"
        BY Inductive
      <3>1. CASE \E d \in Calls: Start(d) \/ Handler(d)
        BY <3>1, HandlerFrame
           DEF Start, Handler, AuthorizationFails, AuthorizationArrives, ResultArrives,
               ForwardFails, Finish, PassEnds, controlState
      <3>2. CASE HandleDecide
        <4>1. PICK m \in net: HandleDecide!(m)
          BY <3>2 DEF HandleDecide
        <4>2. decision' = decision \/ decision' = [decision EXCEPT ![m.call] = "DENY"]
          BY <4>1
        <4> QED
          BY <1>1, <4>1, <4>2 DEF IInv, TypeOK
      <3>3. CASE HandleObserve
        BY <3>3 DEF HandleObserve, IInv, TypeOK
      <3>4. CASE HandleRecord \/ RunTool \/ Lose \/ ControlPlaneDies \/ Die \/ ComeUp
        BY <3>4 DEF HandleRecord, RunTool, Lose, ControlPlaneDies, Die, ComeUp, controlState
      <3>5. CASE UNCHANGED vars
        BY <3>5 DEF vars, controlState
      <3> QED
        BY <3>1, <3>2, <3>3, <3>4, <3>5 DEF Next
    <2> HIDE DEF Refused
    <2> QED
      BY <2>1, <2>2, <2>3, Invariance, PTL DEF Spec
  <1> QED
    BY <1>1 DEF SuspensionStopsNewCalls

-----------------------------------------------------------------------------
(***************************************************************************)
(* How a gateway comes to serve (GatewayStart), for every configuration.   *)
(* At most one upstream is marked, so the index kept of the last one is    *)
(* the only one; a tool has one owner, the only upstream connected so far  *)
(* that lists it; and the catalog repeats nothing.                         *)
(***************************************************************************)
Starting == phase \in {"connecting", "listing", "serving"}

MarkInv ==
    /\ Starting => \A i, j \in 1..Len(config):
         config[i].controlPlane /\ config[j].controlPlane => i = j
    /\ phase = "loading" => upstreams = 0
    /\ \A i \in 1..upstreams: config[i].controlPlane /\ Starting => i = controlPlane
    /\ controlPlane /= 0 => config[controlPlane].controlPlane

PhaseInv ==
    /\ phase \in {"loading", "connecting"} => listed = 0
    /\ phase \in {"listing", "serving"} => upstreams = Len(config)
    /\ phase = "serving" => listed = upstreams

OwnersInv ==
    /\ DOMAIN owners = UNION {Range(config[i].tools) : i \in 1..listed}
    /\ \A tool \in DOMAIN owners: owners[tool] \in 1..listed
    /\ \A i \in 1..listed: \A tool \in Range(config[i].tools): owners[tool] = i

CatalogInv ==
    /\ catalog \in Seq(Tools)
    /\ Range(catalog) = DOMAIN owners
    /\ IsFiniteSet(DOMAIN owners)
    /\ Len(catalog) = Cardinality(DOMAIN owners)

StartInv == StartTypeOK /\ MarkInv /\ PhaseInv /\ OwnersInv /\ CatalogInv

LEMMA ConfigType ==
    ASSUME config \in Configs, NEW i \in 1..Len(config)
    PROVE  /\ config \in Seq(UpstreamConfig) /\ Len(config) \in Nat
           /\ config[i] \in UpstreamConfig
           /\ config[i].controlPlane \in BOOLEAN /\ config[i].tools \in Seq(Tools)
           /\ Range(config[i].tools) \subseteq Tools
  <1>1. config \in Seq(UpstreamConfig)
    BY ConfigsAssumption
  <1>2. config[i] \in UpstreamConfig /\ Len(config) \in Nat
    BY <1>1
  <1>3. config[i].controlPlane \in BOOLEAN /\ config[i].tools \in Seq(Tools)
    BY <1>2 DEF UpstreamConfig
  <1> HIDE DEF UpstreamConfig
  <1>4. Range(config[i].tools) \subseteq Tools
    BY <1>3 DEF Range
  <1> QED
    BY <1>1, <1>2, <1>3, <1>4

(* What Cardinality says of a list: a set of at most one mark, a list that  *)
(* repeats nothing, two lists in a row.                                     *)
LEMMA AtMostOne ==
    ASSUME NEW S, IsFiniteSet(S), Cardinality(S) <= 1, NEW x \in S, NEW y \in S
    PROVE  x = y
  <1>1. Cardinality(S) \in Nat /\ Cardinality(S) /= 0
    BY FS_CardinalityType, FS_EmptySet
  <1>2. Cardinality(S) = 1
    BY <1>1
  <1>3. PICK z: S = {z}
    BY <1>2, FS_Singleton
  <1> QED
    BY <1>3

LEMMA InjectiveList ==
    ASSUME NEW tools \in Seq(Tools), IsInjective(tools)
    PROVE  IsFiniteSet(Range(tools)) /\ Cardinality(Range(tools)) = Len(tools)
  <1>1. /\ Len(tools) \in Nat /\ DOMAIN tools = 1..Len(tools)
        /\ tools \in [1..Len(tools) -> Tools]
    OBVIOUS
  <1>2. IsFiniteSet(1..Len(tools)) /\ Cardinality(1..Len(tools)) = Len(tools)
    BY <1>1, FS_Interval
  <1>3. tools \in [1..Len(tools) -> Range(tools)]
    BY <1>1 DEF Range
  <1>4. tools \in Bijection(1..Len(tools), Range(tools))
    BY <1>1, <1>3 DEF Bijection, Injection, Surjection, IsInjective, Range
  <1> QED
    BY <1>2, <1>4, FS_Bijection DEF ExistsBijection

LEMMA ListedInARow ==
    ASSUME NEW first \in Seq(Tools), NEW second \in Seq(Tools)
    PROVE  /\ first \o second \in Seq(Tools)
           /\ Len(first \o second) = Len(first) + Len(second)
           /\ Range(first \o second) = Range(second) \cup Range(first)
  <1> DEFINE whole == first \o second
             n == Len(first)
             m == Len(second)
  <1>1. /\ whole \in Seq(Tools) /\ Len(whole) = n + m /\ n \in Nat /\ m \in Nat
        /\ DOMAIN whole = 1..(n + m) /\ DOMAIN first = 1..n /\ DOMAIN second = 1..m
    OBVIOUS
  <1>2. /\ \A k \in 1..n: whole[k] = first[k]
        /\ \A k \in 1..m: whole[n + k] = second[k]
    OBVIOUS
  <1> HIDE DEF whole, n, m
  <1>3. \A k \in 1..n: k \in 1..(n + m)
    BY <1>1
  <1>4. \A k \in 1..m: n + k \in 1..(n + m)
    BY <1>1
  <1>5. ASSUME NEW k \in 1..(n + m)
        PROVE  k \in 1..n \/ \E j \in 1..m: k = n + j
    <2>1. CASE k <= n
      BY <1>1, <2>1
    <2>2. CASE k > n
      <3>1. k - n \in 1..m /\ k = n + (k - n)
        BY <1>1, <2>2
      <3> QED
        BY <3>1
    <2> QED
      BY <1>1, <2>1, <2>2
  <1>6. Range(whole) \subseteq Range(second) \cup Range(first)
    <2> SUFFICES ASSUME NEW k \in 1..(n + m)
                 PROVE  whole[k] \in Range(second) \cup Range(first)
      BY <1>1 DEF Range
    <2>1. ASSUME k \in 1..n
          PROVE  whole[k] \in Range(first)
      BY <1>1, <1>2, <2>1, Zenon DEF Range
    <2>2. ASSUME NEW j \in 1..m, k = n + j
          PROVE  whole[k] \in Range(second)
      BY <1>1, <1>2, <2>2, Zenon DEF Range
    <2> QED
      BY <1>5, <2>1, <2>2, Zenon
  <1>7. Range(first) \subseteq Range(whole)
    BY <1>1, <1>2, <1>3 DEF Range
  <1>8. Range(second) \subseteq Range(whole)
    <2> SUFFICES ASSUME NEW k \in 1..m
                 PROVE  second[k] \in Range(whole)
      BY <1>1 DEF Range
    <2>1. second[k] = whole[n + k] /\ n + k \in DOMAIN whole
      BY <1>1, <1>2, <1>4
    <2> QED
      BY <2>1, Zenon DEF Range
  <1> QED
    BY <1>1, <1>6, <1>7, <1>8 DEF whole, n, m


LEMMA StartInvInit == StartInit => StartInv
  <1> SUFFICES ASSUME StartInit
               PROVE  StartInv
    OBVIOUS
  <1>1. config \in Seq(UpstreamConfig) /\ Len(config) \in Nat
    BY ConfigsAssumption DEF StartInit
  <1>2. DOMAIN owners = {} /\ Range(owners) = {} /\ Range(catalog) = {} /\ catalog \in Seq(Tools)
        /\ Len(catalog) = 0
    BY DEF StartInit, Range
  <1>3. IsFiniteSet({}) /\ Cardinality({}) = 0
    BY FS_EmptySet
  <1>4. StartTypeOK
    BY <1>1, <1>2 DEF StartTypeOK, StartInit
  <1>5. MarkInv /\ PhaseInv
    BY DEF MarkInv, PhaseInv, StartInit, Starting
  <1>6. OwnersInv
    BY <1>2 DEF OwnersInv, StartInit
  <1>7. CatalogInv
    BY <1>2, <1>3 DEF CatalogInv
  <1> QED
    BY <1>4, <1>5, <1>6, <1>7 DEF StartInv

LEMMA LoadKeeps ==
    ASSUME StartInv, Load
    PROVE  StartInv'
  <1>1. /\ phase = "loading" /\ UNCHANGED <<config, connection, tables>>
        /\ phase' = IF AtMostOneControlPlane THEN "connecting" ELSE "aborted"
    BY DEF Load
  <1>2. /\ UNCHANGED <<config, upstreams, controlPlane, listed, owners, catalog>>
        /\ Len(config) \in Nat
    BY <1>1, ConfigsAssumption DEF connection, tables, StartInv, StartTypeOK
  <1>3. AtMostOneControlPlane => \A i, j \in 1..Len(config):
          config[i].controlPlane /\ config[j].controlPlane => i = j
    <2> DEFINE marked == {i \in 1..Len(config): config[i].controlPlane}
    <2>1. AtMostOneControlPlane => Cardinality(marked) <= 1
      BY DEF AtMostOneControlPlane
    <2>2. /\ marked \subseteq 1..Len(config)
          /\ \A i \in 1..Len(config): config[i].controlPlane => i \in marked
      OBVIOUS
    <2> HIDE DEF marked
    <2>3. IsFiniteSet(1..Len(config))
      BY <1>2, FS_Interval
    <2>4. IsFiniteSet(marked)
      BY <2>2, <2>3, FS_Subset
    <2> QED
      BY <2>1, <2>2, <2>4, AtMostOne
  <1>4. StartTypeOK'
    BY <1>1, <1>2 DEF StartInv, StartTypeOK
  <1>5. MarkInv'
    BY <1>1, <1>2, <1>3 DEF StartInv, MarkInv, Starting, StartTypeOK
  <1>6. PhaseInv'
    BY <1>1, <1>2 DEF StartInv, PhaseInv
  <1> QED
    BY <1>2, <1>4, <1>5, <1>6 DEF StartInv, OwnersInv, CatalogInv

LEMMA ConnectKeeps ==
    ASSUME StartInv, Connect
    PROVE  StartInv'
  <1>1. /\ phase = "connecting" /\ upstreams < Len(config) /\ upstreams' = upstreams + 1
        /\ controlPlane' = IF config[upstreams + 1].controlPlane THEN upstreams + 1 ELSE controlPlane
        /\ UNCHANGED <<config, phase, listed, owners, catalog>>
    BY DEF Connect, Index, tables
  <1>2. /\ upstreams \in Nat /\ Len(config) \in Nat /\ controlPlane \in 0..upstreams
        /\ listed \in 0..upstreams /\ config \in Configs
    BY ConfigsAssumption DEF StartInv, StartTypeOK
  <1>3. /\ upstreams + 1 \in 1..Len(config) /\ Starting
        /\ \A i \in 1..(upstreams + 1): i \in 1..upstreams \/ i = upstreams + 1
        /\ \A i \in 1..(upstreams + 1): i \in 1..Len(config)
    BY <1>1, <1>2 DEF Starting
  <1>4. StartTypeOK'
    BY <1>1, <1>2, <1>3 DEF StartInv, StartTypeOK
  <1>5. MarkInv'
    <2>1. ASSUME NEW i \in 1..(upstreams + 1), config[i].controlPlane
          PROVE  i = controlPlane'
      <3>1. \A k, j \in 1..Len(config): config[k].controlPlane /\ config[j].controlPlane => k = j
        BY <1>3 DEF StartInv, MarkInv
      <3>2. i \in 1..upstreams => i = controlPlane
        BY <1>3, <2>1 DEF StartInv, MarkInv
      <3>3. config[upstreams + 1].controlPlane => i = upstreams + 1
        BY <1>3, <2>1, <3>1
      <3> QED
        BY <1>1, <1>3, <2>1, <3>2, <3>3
    <2>2. controlPlane' /= 0 => config[controlPlane'].controlPlane
      BY <1>1, <1>2 DEF StartInv, MarkInv
    <2> QED
      BY <1>1, <1>3, <2>1, <2>2 DEF StartInv, MarkInv, Starting
  <1>6. PhaseInv'
    BY <1>1 DEF StartInv, PhaseInv
  <1> QED
    BY <1>1, <1>4, <1>5, <1>6 DEF StartInv, OwnersInv, CatalogInv

LEMMA PhaseKeeps ==
    ASSUME StartInv, AllConnected \/ UpstreamFails \/ AllListed
    PROVE  StartInv'
  <1>1. /\ UNCHANGED <<config, upstreams, controlPlane, listed, owners, catalog>>
        /\ phase' \in {"listing", "aborted", "serving"}
        /\ phase' \in {"listing", "serving"} => Starting
    BY DEF AllConnected, UpstreamFails, AllListed, connection, tables, Starting
  <1>2. PhaseInv'
    BY <1>1 DEF StartInv, PhaseInv, AllConnected, UpstreamFails, AllListed
  <1>3. MarkInv'
    BY <1>1 DEF StartInv, MarkInv, Starting
  <1> QED
    BY <1>1, <1>2, <1>3 DEF StartInv, StartTypeOK, OwnersInv, CatalogInv

LEMMA ListingKeeps ==
    ASSUME StartInv, ListTools
    PROVE  StartInv'
  <1> DEFINE n == listed + 1
             tools == config[n].tools
             names == Range(tools)
  <1>1. /\ phase = "listing" /\ listed < upstreams
        /\ UNCHANGED <<config, upstreams, controlPlane>>
        /\ IF Collides(tools)
           THEN phase' = "aborted" /\ UNCHANGED <<listed, owners, catalog>>
           ELSE /\ listed' = n
                /\ owners' = [t \in names \cup DOMAIN owners |->
                                IF t \in names THEN n ELSE owners[t]]
                /\ catalog' = catalog \o tools
                /\ phase' = phase
    BY DEF ListTools, connection, tables
  <1>2. /\ upstreams \in Nat /\ Len(config) \in Nat /\ upstreams <= Len(config)
        /\ listed \in Nat /\ config \in Configs
    BY ConfigsAssumption DEF StartInv, StartTypeOK
  <1>3. /\ n \in 1..Len(config) /\ n \in 0..upstreams
        /\ \A i \in 1..n: i \in 1..listed \/ i = n
        /\ \A i \in 1..listed: i \in 1..n /\ i /= n
        /\ n \in 1..n
    BY <1>1, <1>2
  <1>4. tools \in Seq(Tools) /\ names \subseteq Tools
    BY <1>2, <1>3, ConfigType
  <1> HIDE DEF n, tools
  <1>5. CASE Collides(tools)
    BY <1>1, <1>5 DEF StartInv, StartTypeOK, MarkInv, Starting, PhaseInv, OwnersInv, CatalogInv
  <1>6. CASE ~Collides(tools)
    <2>1. names \cap DOMAIN owners = {} /\ IsInjective(tools)
      BY <1>6 DEF Collides
    <2>2. /\ listed' = n /\ phase' = phase /\ catalog' = catalog \o tools
          /\ DOMAIN owners' = names \cup DOMAIN owners
          /\ \A t \in names: owners'[t] = n
          /\ \A t \in DOMAIN owners: owners'[t] = owners[t]
      BY <1>1, <1>6, <2>1
    <2> HIDE DEF names
    <2>3. MarkInv' /\ PhaseInv'
      BY <1>1, <2>2 DEF StartInv, MarkInv, PhaseInv, Starting
    <2>4. OwnersInv'
      <3>1. DOMAIN owners' = UNION {Range(config[i].tools) : i \in 1..n}
        <4>1. Range(config[n].tools) = names
          BY DEF names, tools
        <4>2. DOMAIN owners = UNION {Range(config[i].tools) : i \in 1..listed}
          BY DEF StartInv, OwnersInv
        <4> QED
          BY <1>3, <2>2, <4>1, <4>2
      <3>2. \A tool \in DOMAIN owners': owners'[tool] \in 1..n
        BY <1>3, <2>2 DEF StartInv, OwnersInv
      <3>3. ASSUME NEW i \in 1..n, NEW tool \in Range(config[i].tools)
            PROVE  owners'[tool] = i
        <4>1. CASE i = n
          BY <2>2, <4>1 DEF names, tools
        <4>2. CASE i \in 1..listed
          <5>1. tool \in DOMAIN owners /\ owners[tool] = i
            BY <3>3, <4>2 DEF StartInv, OwnersInv
          <5> QED
            BY <2>2, <5>1
        <4> QED
          BY <1>3, <4>1, <4>2
      <3>4. listed' = n /\ UNCHANGED config
        BY <1>1, <2>2
      <3>5. /\ DOMAIN owners' = UNION {Range(config'[i].tools) : i \in 1..listed'}
            /\ \A tool \in DOMAIN owners': owners'[tool] \in 1..listed'
        BY <3>1, <3>2, <3>4
      <3>6. \A i \in 1..listed': \A tool \in Range(config'[i].tools): owners'[tool] = i
        BY <3>3, <3>4
      <3> QED
        BY <3>5, <3>6 DEF OwnersInv
    <2>5. CatalogInv'
      <3>1. /\ catalog \in Seq(Tools) /\ Range(catalog) = DOMAIN owners
            /\ IsFiniteSet(DOMAIN owners) /\ Len(catalog) = Cardinality(DOMAIN owners)
        BY DEF StartInv, CatalogInv
      <3>2. /\ catalog' \in Seq(Tools) /\ Len(catalog') = Len(catalog) + Len(tools)
            /\ Range(catalog') = names \cup DOMAIN owners
        BY <1>4, <2>2, <3>1, ListedInARow DEF names
      <3>3. IsFiniteSet(names) /\ Cardinality(names) = Len(tools)
        BY <1>4, <2>1, InjectiveList DEF names
      <3>4. /\ IsFiniteSet(names \cup DOMAIN owners)
            /\ Cardinality(names \cup DOMAIN owners) =
                 Cardinality(names) + Cardinality(DOMAIN owners) - Cardinality(names \cap DOMAIN owners)
        BY <3>1, <3>3, FS_Union
      <3>5. Cardinality(names \cap DOMAIN owners) = 0
        BY <2>1, FS_EmptySet
      <3>6. Len(catalog) \in Nat /\ Len(tools) \in Nat
        BY <1>4, <3>1
      <3> QED
        BY <2>2, <3>1, <3>2, <3>3, <3>4, <3>5, <3>6 DEF CatalogInv
    <2>6. StartTypeOK'
      <3>1. Range(owners') \subseteq 1..n
        BY <2>2, <2>4 DEF OwnersInv, Range
      <3>2. DOMAIN owners \subseteq Tools /\ Range(catalog') \subseteq Tools
        BY <1>4, <2>2, <2>5 DEF StartInv, StartTypeOK, CatalogInv, names
      <3> QED
        BY <1>1, <1>2, <1>3, <1>4, <2>2, <3>1, <3>2 DEF StartInv, StartTypeOK, names
    <2> QED
      BY <2>3, <2>4, <2>5, <2>6 DEF StartInv
  <1> QED
    BY <1>5, <1>6

(* Every variable of the start keeps its type, with what else is inductive. *)
THEOREM StartInvariance == StartSpec => []StartInv
  <1>1. StartInv /\ [StartNext]_startVars => StartInv'
    <2> SUFFICES ASSUME StartInv, [StartNext]_startVars
                 PROVE  StartInv'
      OBVIOUS
    <2>1. CASE UNCHANGED startVars
      BY <2>1 DEF startVars, connection, tables, StartInv, StartTypeOK, MarkInv, Starting, PhaseInv,
         OwnersInv, CatalogInv
    <2> QED
      BY <2>1, LoadKeeps, ConnectKeeps, PhaseKeeps, ListingKeeps DEF StartNext
  <1> QED
    BY <1>1, StartInvInit, PTL DEF StartSpec

(* A tool is listed by its owner alone, once the gateway serves. *)
LEMMA ListedByOwner ==
    ASSUME StartInv, phase = "serving", NEW tool \in Tools, NEW i \in 1..Len(config)
    PROVE  Lists(i, tool) <=> tool \in DOMAIN owners /\ owners[tool] = i
  <1>1. listed = Len(config)
    BY DEF StartInv, PhaseInv
  <1>2. Lists(i, tool) => tool \in DOMAIN owners /\ owners[tool] = i
    BY <1>1 DEF StartInv, OwnersInv, Lists
  <1>3. ASSUME tool \in DOMAIN owners, owners[tool] = i
        PROVE  Lists(i, tool)
    <2>1. PICK j \in 1..listed: tool \in Range(config[j].tools)
      BY <1>3 DEF StartInv, OwnersInv
    <2>2. owners[tool] = j
      BY <2>1 DEF StartInv, OwnersInv
    <2> QED
      BY <1>3, <2>1, <2>2 DEF Lists
  <1> QED
    BY <1>2, <1>3

(* No upstream can smuggle a call past the gate: in a gateway that serves,  *)
(* only a tool with a governance name, listed by the one upstream that the  *)
(* file marks as control plane and by no other, passes ungated.             *)
THEOREM UngatedHolds == StartSpec => []UngatedIsGovernance
  <1>1. StartInv => UngatedIsGovernance
    <2> SUFFICES ASSUME StartInv, phase = "serving", NEW tool \in Tools, Route(tool) = "passing"
                 PROVE  /\ tool \in R2RTools
                        /\ \A i \in 1..Len(config): config[i].controlPlane <=> Lists(i, tool)
      BY DEF UngatedIsGovernance
    <2>1. /\ tool \in DOMAIN owners /\ tool \in R2RTools
          /\ controlPlane /= 0 /\ owners[tool] = controlPlane
      BY DEF Route, IsControlPlaneTool
    <2>2. /\ upstreams = Len(config) /\ Starting
          /\ config[controlPlane].controlPlane
          /\ \A i \in 1..upstreams: config[i].controlPlane => i = controlPlane
      BY <2>1 DEF StartInv, PhaseInv, MarkInv, Starting
    <2>3. ASSUME NEW i \in 1..Len(config)
          PROVE  config[i].controlPlane <=> Lists(i, tool)
      <3>1. Lists(i, tool) <=> i = controlPlane
        BY <2>1, ListedByOwner
      <3>2. config[i].controlPlane <=> i = controlPlane
        BY <2>2
      <3> QED
        BY <3>1, <3>2
    <2> QED
      BY <2>1, <2>3
  <1> QED
    BY <1>1, StartInvariance, PTL

(* What a serving gateway offers was listed once, by the upstream its calls *)
(* will go to, and nothing that was listed is missing.                      *)
THEOREM CatalogHolds == StartSpec => []CatalogIsRouted
  <1>1. StartInv => CatalogIsRouted
    BY ListedByOwner DEF CatalogIsRouted, StartInv, CatalogInv
  <1> QED
    BY <1>1, StartInvariance, PTL
=============================================================================
