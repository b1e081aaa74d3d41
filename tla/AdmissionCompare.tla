--------------------------- MODULE AdmissionCompare ---------------------------
(***************************************************************************)
(* The experiment src/src/bin/admission-compare.rs: two ways to act on the *)
(* same trace of judged tool calls.  The baseline suspends on any score at *)
(* its threshold; the other arm suspends on what Evidence Admission        *)
(* accepts and keeps what it holds until later evidence of the same        *)
(* incident settles it.  A repair restores both.                           *)
(*                                                                         *)
(* The program runs one arm over the whole trace and then the other; they  *)
(* share nothing, so here both take each row as it comes.                  *)
(***************************************************************************)
EXTENDS Admission, FiniteSets

CONSTANTS
    Incidents, \* what rows can be about
    Rows,      \* the judged calls a trace may contain
    MaxRows    \* bound on the length of a trace

Truth == {"benign", "violation", "false_positive"}

(* A row admission would panic on is no row of a trace. *)
Row == [incident: Incidents, confidence: 0..PPM, reliability: 0..PPM, corroborators: Nat,
        observed: Nat, expires: Nat, truth: Truth]
ASSUME RowsAssumption == \A row \in Rows: row \in Row /\ row.expires >= row.observed
ASSUME BoundAssumption == MaxRows \in Nat

BaselineThreshold == 850000

VARIABLES
    step,        \* rows read
    baseline,    \* the baseline arm: the cause of its suspension, if any, and its metrics
    admission,   \* the admission arm, likewise
    pending,     \* holds nothing has settled yet; the row that held one names it
    held,        \* how many were ever held, and how many were settled each way
    disagreed,   \* history: how the arms' evidence has differed so far
    seen         \* history: the judged calls so far, as far as holds are concerned

vars == <<step, baseline, admission, pending, held, disagreed, seen>>

Metric == {"calls", "allowed", "denied", "falseDeny", "enforcementDenied",
           "violationAllowed", "suspensions", "falseSuspensions", "repairs", "links"}
Arm == [cause: Truth \cup {"none"}, m: [Metric -> Nat]]
NewArm == [cause |-> "none", m |-> [metric \in Metric |-> 0]]

Init ==
    /\ step = 0
    /\ baseline = NewArm
    /\ admission = NewArm
    /\ pending = {}
    /\ held = [total |-> 0, accepted |-> 0, expired |-> 0]
    /\ disagreed = {}
    /\ seen = {}

-----------------------------------------------------------------------------
Count(arm, metrics) ==
    [arm EXCEPT !.m = [metric \in Metric |-> IF metric \in metrics THEN @[metric] + 1 ELSE @[metric]]]
Linked(arm, n) == [arm EXCEPT !.m.links = @ + n]

(* Seeded fault: a later cause takes a suspension over. *)
SuspendedAnew(arm, truth) ==
    [Count(arm, {"suspensions"} \cup IF truth = "false_positive" THEN {"falseSuspensions"} ELSE {})
        EXCEPT !.cause = truth]

(* The first cause owns the suspension until a repair. *)
Suspended(arm, truth) ==
    IF arm.cause /= "none" THEN arm
    ELSE [Count(arm, {"suspensions"} \cup
                     IF truth = "false_positive" THEN {"falseSuspensions"} ELSE {})
             EXCEPT !.cause = truth]

(* The call itself is answered from the state its own evidence left. *)
Answered(arm, truth) ==
    IF arm.cause = "none"
    THEN Count(arm, {"allowed"} \cup IF truth = "violation" THEN {"violationAllowed"} ELSE {})
    ELSE Count(arm, {"denied"} \cup
                    IF truth /= "benign" THEN {}
                    ELSE IF arm.cause = "false_positive" THEN {"falseDeny"}
                    ELSE {"enforcementDenied"})

Risky(row) == row.confidence >= BaselineThreshold

BaselineRow(arm, row) ==
    LET suspends == Risky(row) /\ arm.cause = "none"
        judged == IF suspends THEN Linked(Suspended(arm, row.truth), 3) ELSE Linked(arm, 2)
    IN  Answered(Count(judged, {"calls"}), row.truth)

Decision(row) ==
    Admit("BeyondScope", row.confidence,
          [reliability |-> row.reliability, corroborators |-> row.corroborators,
           now |-> row.observed, expires |-> row.expires])

(* Seeded faults: evidence that is held suspends as well; a call is answered *)
(* before its own evidence counts.                                          *)
AdmissionRowUnlessRejected(arm, row) ==
    LET evident == Decision(row) \notin Reject
    IN  Answered(Count(Linked(IF evident THEN Suspended(arm, row.truth) ELSE arm,
                              IF evident THEN 5 ELSE 4), {"calls"}), row.truth)

AdmissionRowAnsweredFirst(arm, row) ==
    LET accepted == IsAccepted(Decision(row))
        answered == Answered(Count(Linked(arm, IF accepted THEN 5 ELSE 4), {"calls"}), row.truth)
    IN  IF accepted THEN Suspended(answered, row.truth) ELSE answered

AdmissionRow(arm, row) ==
    LET accepted == IsAccepted(Decision(row))
    IN  Answered(Count(Linked(IF accepted THEN Suspended(arm, row.truth) ELSE arm,
                              IF accepted THEN 5 ELSE 4), {"calls"}), row.truth)

(* Seeded fault: the expiry is looked at before the acceptance. *)
AcceptsInTime(row, hold) ==
    /\ hold.incident = row.incident
    /\ IsAccepted(Decision(row))
    /\ row.observed <= hold.expires

(* Which pending holds a row settles: those of its incident, all of them    *)
(* when its own evidence is accepted, else those that have expired.         *)
Accepts(row, hold) == hold.incident = row.incident /\ IsAccepted(Decision(row))
Expires(row, hold) ==
    hold.incident = row.incident /\ ~Accepts(row, hold) /\ row.observed > hold.expires

Unsettled(holds, row) == {hold \in holds: ~Accepts(row, hold) /\ ~Expires(row, hold)}
Accepted(holds, row) == Cardinality({hold \in holds: Accepts(row, hold)})
Expired(holds, row) == Cardinality({hold \in holds: Expires(row, hold)})

NewHold(row, at) == [row |-> at, incident |-> row.incident, expires |-> row.expires]
StillPending(holds, row, at) ==
    Unsettled(holds, row) \cup IF Decision(row) \in Hold THEN {NewHold(row, at)} ELSE {}

HeldAfter(counts, holds, row) ==
    [total |-> counts.total + IF Decision(row) \in Hold THEN 1 ELSE 0,
     accepted |-> counts.accepted + Accepted(holds, row),
     expired |-> counts.expired + Expired(holds, row)]

(* How the two arms judge this row differently, as evidence. *)
Disagreement(row) ==
    IF Risky(row) /\ ~IsAccepted(Decision(row)) THEN {"spared"}
    ELSE IF ~Risky(row) /\ IsAccepted(Decision(row)) THEN {"caught"}
    ELSE {}

Seen(row, at) ==
    [row |-> at, incident |-> row.incident, observed |-> row.observed, expires |-> row.expires,
     accepted |-> IsAccepted(Decision(row)), held |-> Decision(row) \in Hold]

JudgedCall(row) ==
    /\ step < MaxRows
    /\ step' = step + 1
    /\ baseline' = BaselineRow(baseline, row)
    /\ admission' = AdmissionRow(admission, row)
    /\ pending' = StillPending(pending, row, step')
    /\ held' = HeldAfter(held, pending, row)
    /\ disagreed' = disagreed \cup Disagreement(row)
    /\ seen' = seen \cup {Seen(row, step')}

Repaired(arm) ==
    IF arm.cause = "none" THEN arm
    ELSE [Linked(Count(arm, {"repairs"}), 2) EXCEPT !.cause = "none"]

(* A repair is one row of the trace for both arms, and settles no hold. *)
Repair ==
    /\ step < MaxRows
    /\ step' = step + 1
    /\ baseline' = Repaired(baseline)
    /\ admission' = Repaired(admission)
    /\ UNCHANGED <<pending, held, disagreed, seen>>

Next == Repair \/ \E row \in Rows: JudgedCall(row)

Spec == Init /\ [][Next]_vars

-----------------------------------------------------------------------------
(* Every variable keeps its type. *)
TypeOK ==
    /\ step \in 0..MaxRows
    /\ baseline \in Arm /\ admission \in Arm
    /\ pending \subseteq [row: 1..step, incident: Incidents, expires: Nat]
    /\ held \in [total: Nat, accepted: Nat, expired: Nat]
    /\ disagreed \subseteq {"spared", "caught"}
    /\ seen \subseteq [row: 1..step, incident: Incidents, observed: Nat, expires: Nat,
                         accepted: BOOLEAN, held: BOOLEAN]

(* The metrics the report compares are about the same calls and the same   *)
(* life of a suspension: both arms answer every call, every denied benign  *)
(* call has one explanation, and every suspension was repaired or is the   *)
(* present one.                                                            *)
BooksBalance ==
    /\ baseline.m["calls"] = admission.m["calls"]
    /\ \A arm \in {baseline, admission}:
         /\ arm.m["calls"] = arm.m["allowed"] + arm.m["denied"]
         /\ arm.m["falseDeny"] + arm.m["enforcementDenied"] <= arm.m["denied"]
         /\ arm.m["falseDeny"] > 0 => arm.m["falseSuspensions"] > 0
         /\ arm.m["suspensions"] =
              arm.m["repairs"] + IF arm.cause = "none" THEN 0 ELSE 1

(* A later call of its incident ends a hold if its evidence is accepted or  *)
(* if it is observed after the hold's expiry; the first such call says how. *)
Ends(later, hold) ==
    /\ later.row > hold.row
    /\ later.incident = hold.incident
    /\ later.accepted \/ later.observed > hold.expires
EndedBy(hold, later) ==
    Ends(later, hold) /\ \A other \in seen: Ends(other, hold) => later.row <= other.row

Held == {call \in seen: call.held}
HeldUntilAccepted == {hold \in Held: \E call \in seen: EndedBy(hold, call) /\ call.accepted}
HeldUntilExpired == {hold \in Held: \E call \in seen: EndedBy(hold, call) /\ ~call.accepted}
HeldStill == {hold \in Held: \A call \in seen: ~Ends(call, hold)}

(* "The third state is not a leak, it has explicit exits" (the experiment's *)
(* README): every hold of the trace leaves once, by the exit its own later  *)
(* calls give it, and is counted there; what is pending is exactly what no  *)
(* later call has ended.  A hold nobody saw expire is accepted when its     *)
(* incident is corroborated after all.                                      *)
HoldsAccountedFor ==
    /\ held.total = held.accepted + held.expired + Cardinality(pending)
    /\ held.accepted = Cardinality(HeldUntilAccepted)
    /\ held.expired = Cardinality(HeldUntilExpired)
    /\ pending = {NewHold(hold, hold.row) : hold \in HeldStill}

(* EA-H1 at its strongest: as long as admission accepted nothing below the  *)
(* baseline's threshold, it is never the stricter arm: suspended only when  *)
(* the baseline is, with no more calls denied and no more repairs.          *)
SparingOnlyRelaxes ==
    "caught" \notin disagreed =>
        /\ admission.cause /= "none" => baseline.cause /= "none"
        /\ admission.m["denied"] <= baseline.m["denied"]
        /\ admission.m["repairs"] <= baseline.m["repairs"]

(* EA-H2 at its strongest: as long as admission accepted all that reached   *)
(* the baseline's threshold, no enforcement is lost: suspended whenever the *)
(* baseline is, with no more violations allowed.                            *)
CorroborationOnlyAdds ==
    "spared" \notin disagreed =>
        /\ baseline.cause /= "none" => admission.cause /= "none"
        /\ admission.m["violationAllowed"] <= baseline.m["violationAllowed"]
=============================================================================
