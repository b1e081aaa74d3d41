------------------------ MODULE AdmissionCompareProofs ------------------------
(***************************************************************************)
(* What the admission experiment's report may claim, for traces of every   *)
(* length and any rows: the two arms' books balance, every hold leaves by  *)
(* one exit, and each arm relates to the other as its hypothesis says.     *)
(*                                                                         *)
(* Both arms' rows have one form, a suspension for evident rows and an     *)
(* answer from the state it left; they differ in what counts as evident.   *)
(* So one lemma about that form (RowEffect) carries every property.        *)
(***************************************************************************)
EXTENDS AdmissionCompare, FiniteSetTheorems, TLAPS

(* 1 when it happened, else 0: what a counter moves by. *)
Tally(happened) == IF happened THEN 1 ELSE 0

(* The row of either arm: evident evidence suspends, then the call is       *)
(* answered.                                                                *)
RowOf(arm, evident, truth, links) ==
    Answered(Count(Linked(IF evident THEN Suspended(arm, truth) ELSE arm, links), {"calls"}), truth)

(* A cause that is a false positive was counted when it suspended. *)
FalseCauseCounted ==
    \A arm \in {baseline, admission}:
        arm.cause = "false_positive" => arm.m["falseSuspensions"] > 0

(* The history names a call by its row. *)
SeenByRow ==
    /\ IsFiniteSet(seen)
    /\ \A one, other \in seen: one.row = other.row => one = other

IInv ==
    /\ TypeOK
    /\ IsFiniteSet(pending)
    /\ SeenByRow
    /\ FalseCauseCounted
    /\ BooksBalance
    /\ HoldsAccountedFor
    /\ SparingOnlyRelaxes
    /\ CorroborationOnlyAdds

-----------------------------------------------------------------------------
LEMMA ArmParts ==
    ASSUME NEW arm \in Arm
    PROVE  /\ arm.cause \in Truth \cup {"none"}
           /\ \A metric \in Metric: arm.m[metric] \in Nat
           /\ arm.m \in [Metric -> Nat]
           /\ arm = [cause |-> arm.cause, m |-> arm.m]
BY Zenon DEF Arm

(* Counting and linking touch the counters they name and nothing else. *)
LEMMA CountEffect ==
    ASSUME NEW arm \in Arm, NEW metrics
    PROVE  /\ Count(arm, metrics) \in Arm
           /\ Count(arm, metrics).cause = arm.cause
           /\ \A metric \in Metric:
                Count(arm, metrics).m[metric] = arm.m[metric] + Tally(metric \in metrics)
<1> DEFINE counted == [metric \in Metric |->
                         IF metric \in metrics THEN arm.m[metric] + 1 ELSE arm.m[metric]]
<1>1. \A metric \in Metric: arm.m[metric] \in Nat
  BY ArmParts
<1>2. counted \in [Metric -> Nat]
  BY <1>1
<1>3. \A metric \in Metric: counted[metric] = arm.m[metric] + Tally(metric \in metrics)
  BY <1>1 DEF Tally
<1>4. Count(arm, metrics) = [arm EXCEPT !.m = counted]
  BY DEF Count
<1> HIDE DEF counted
<1>5. /\ Count(arm, metrics) \in Arm
      /\ Count(arm, metrics).cause = arm.cause
      /\ Count(arm, metrics).m = counted
  BY <1>2, <1>4, ArmParts DEF Arm
<1> QED BY <1>3, <1>5

LEMMA LinkEffect ==
    ASSUME NEW arm \in Arm, NEW n \in Nat
    PROVE  /\ Linked(arm, n) \in Arm
           /\ Linked(arm, n).cause = arm.cause
           /\ \A metric \in Metric \ {"links"}: Linked(arm, n).m[metric] = arm.m[metric]
<1> DEFINE linked == [arm.m EXCEPT !["links"] = arm.m["links"] + n]
<1>1. arm.m \in [Metric -> Nat] /\ arm.m["links"] + n \in Nat
  BY ArmParts DEF Metric
<1>2. linked \in [Metric -> Nat]
  BY <1>1
<1>3. \A metric \in Metric \ {"links"}: linked[metric] = arm.m[metric]
  BY <1>1
<1>4. Linked(arm, n) = [arm EXCEPT !.m = linked]
  BY ArmParts DEF Linked
<1> HIDE DEF linked
<1> QED BY <1>2, <1>3, <1>4, ArmParts DEF Arm

(* Only the first cause suspends, and it is counted when it does. *)
LEMMA SuspendEffect ==
    ASSUME NEW arm \in Arm, NEW truth \in Truth
    PROVE  /\ Suspended(arm, truth) \in Arm
           /\ Suspended(arm, truth).cause = IF arm.cause = "none" THEN truth ELSE arm.cause
           /\ \A metric \in Metric:
                Suspended(arm, truth).m[metric] = arm.m[metric] +
                    Tally(/\ arm.cause = "none"
                          /\ \/ metric = "suspensions"
                             \/ metric = "falseSuspensions" /\ truth = "false_positive")
<1> DEFINE metrics == {"suspensions"} \cup
                      IF truth = "false_positive" THEN {"falseSuspensions"} ELSE {}
           counted == Count(arm, metrics)
<1>1. CASE arm.cause /= "none"
  <2>1. Suspended(arm, truth) = arm
    BY <1>1 DEF Suspended
  <2> QED BY <1>1, <2>1, ArmParts DEF Tally
<1>2. CASE arm.cause = "none"
  <2>1. Suspended(arm, truth) = [counted EXCEPT !.cause = truth]
    BY <1>2 DEF Suspended
  <2>2. /\ counted \in Arm
        /\ \A metric \in Metric: counted.m[metric] = arm.m[metric] + Tally(metric \in metrics)
    BY CountEffect
  <2>3. \A metric: metric \in metrics <=>
            \/ metric = "suspensions"
            \/ metric = "falseSuspensions" /\ truth = "false_positive"
    OBVIOUS
  <2> HIDE DEF counted, metrics
  <2>4. /\ Suspended(arm, truth) \in Arm
        /\ Suspended(arm, truth).cause = truth
        /\ Suspended(arm, truth).m = counted.m
    BY <2>1, <2>2, ArmParts DEF Arm
  <2> QED BY <1>2, <2>2, <2>3, <2>4 DEF Tally
<1> QED BY <1>1, <1>2

(* The answer follows the suspension the call finds, and is counted once. *)
LEMMA AnswerEffect ==
    ASSUME NEW arm \in Arm, NEW truth \in Truth
    PROVE  /\ Answered(arm, truth) \in Arm
           /\ Answered(arm, truth).cause = arm.cause
           /\ \A metric \in Metric:
                Answered(arm, truth).m[metric] = arm.m[metric] +
                    Tally(\/ /\ arm.cause = "none"
                             /\ \/ metric = "allowed"
                                \/ metric = "violationAllowed" /\ truth = "violation"
                          \/ /\ arm.cause /= "none"
                             /\ \/ metric = "denied"
                                \/ /\ metric = "falseDeny"
                                   /\ truth = "benign" /\ arm.cause = "false_positive"
                                \/ /\ metric = "enforcementDenied"
                                   /\ truth = "benign" /\ arm.cause /= "false_positive")
<1>1. CASE arm.cause = "none"
  <2> DEFINE metrics == {"allowed"} \cup
                        IF truth = "violation" THEN {"violationAllowed"} ELSE {}
  <2>1. Answered(arm, truth) = Count(arm, metrics)
    BY <1>1 DEF Answered
  <2>2. \A metric: metric \in metrics <=>
            \/ metric = "allowed"
            \/ metric = "violationAllowed" /\ truth = "violation"
    OBVIOUS
  <2> HIDE DEF metrics
  <2>3. /\ Count(arm, metrics) \in Arm
        /\ Count(arm, metrics).cause = arm.cause
        /\ \A metric \in Metric:
             Count(arm, metrics).m[metric] = arm.m[metric] + Tally(metric \in metrics)
    BY CountEffect
  <2> QED BY <1>1, <2>1, <2>2, <2>3 DEF Tally
<1>2. CASE arm.cause /= "none"
  <2> DEFINE metrics == {"denied"} \cup
                        IF truth /= "benign" THEN {}
                        ELSE IF arm.cause = "false_positive" THEN {"falseDeny"}
                        ELSE {"enforcementDenied"}
  <2>1. Answered(arm, truth) = Count(arm, metrics)
    BY <1>2 DEF Answered
  <2>2. \A metric: metric \in metrics <=>
            \/ metric = "denied"
            \/ metric = "falseDeny" /\ truth = "benign" /\ arm.cause = "false_positive"
            \/ metric = "enforcementDenied" /\ truth = "benign" /\ arm.cause /= "false_positive"
    OBVIOUS
  <2> HIDE DEF metrics
  <2>3. /\ Count(arm, metrics) \in Arm
        /\ Count(arm, metrics).cause = arm.cause
        /\ \A metric \in Metric:
             Count(arm, metrics).m[metric] = arm.m[metric] + Tally(metric \in metrics)
    BY CountEffect
  <2> QED BY <1>2, <2>1, <2>2, <2>3 DEF Tally
<1> QED BY <1>1, <1>2

(* What one row does to an arm: whether it suspends, and what is counted. *)
LEMMA RowEffect ==
    ASSUME NEW arm \in Arm, NEW truth \in Truth, NEW evident \in BOOLEAN, NEW links \in Nat
    PROVE  LET after == RowOf(arm, evident, truth, links)
               suspends == evident /\ arm.cause = "none"
               denied == after.cause /= "none"
           IN  /\ after \in Arm
               /\ after.cause = IF suspends THEN truth ELSE arm.cause
               /\ after.m["calls"] = arm.m["calls"] + 1
               /\ after.m["allowed"] = arm.m["allowed"] + Tally(~denied)
               /\ after.m["denied"] = arm.m["denied"] + Tally(denied)
               /\ after.m["violationAllowed"] =
                    arm.m["violationAllowed"] + Tally(~denied /\ truth = "violation")
               /\ after.m["falseDeny"] =
                    arm.m["falseDeny"] + Tally(truth = "benign" /\ after.cause = "false_positive")
               /\ after.m["enforcementDenied"] =
                    arm.m["enforcementDenied"] +
                        Tally(denied /\ truth = "benign" /\ after.cause /= "false_positive")
               /\ after.m["suspensions"] = arm.m["suspensions"] + Tally(suspends)
               /\ after.m["falseSuspensions"] =
                    arm.m["falseSuspensions"] + Tally(suspends /\ truth = "false_positive")
               /\ after.m["repairs"] = arm.m["repairs"]
<1> DEFINE suspends == evident /\ arm.cause = "none"
           first == IF evident THEN Suspended(arm, truth) ELSE arm
           second == Linked(first, links)
           third == Count(second, {"calls"})
           after == Answered(third, truth)
<1>1. /\ first \in Arm
      /\ first.cause = IF suspends THEN truth ELSE arm.cause
      /\ \A metric \in Metric:
           first.m[metric] = arm.m[metric] +
               Tally(/\ suspends
                     /\ \/ metric = "suspensions"
                        \/ metric = "falseSuspensions" /\ truth = "false_positive")
  <2>1. CASE evident
    BY <2>1, SuspendEffect
  <2>2. CASE ~evident
    <3>1. first = arm /\ ~suspends
      BY <2>2
    <3> QED BY <3>1, ArmParts DEF Tally
  <2> QED BY <2>1, <2>2
<1> HIDE DEF first
<1>2. /\ second \in Arm
      /\ second.cause = first.cause
      /\ \A metric \in Metric \ {"links"}: second.m[metric] = first.m[metric]
  BY <1>1, LinkEffect
<1> HIDE DEF second
<1>3. /\ third \in Arm
      /\ third.cause = second.cause
      /\ \A metric \in Metric: third.m[metric] = second.m[metric] + Tally(metric \in {"calls"})
  BY <1>2, CountEffect
<1> HIDE DEF third
<1>4. /\ after \in Arm
      /\ after.cause = third.cause
      /\ \A metric \in Metric:
           after.m[metric] = third.m[metric] +
               Tally(\/ /\ third.cause = "none"
                        /\ \/ metric = "allowed"
                           \/ metric = "violationAllowed" /\ truth = "violation"
                     \/ /\ third.cause /= "none"
                        /\ \/ metric = "denied"
                           \/ /\ metric = "falseDeny"
                              /\ truth = "benign" /\ third.cause = "false_positive"
                           \/ /\ metric = "enforcementDenied"
                              /\ truth = "benign" /\ third.cause /= "false_positive")
  BY <1>3, AnswerEffect
<1>5. RowOf(arm, evident, truth, links) = after
  BY DEF RowOf, first, second, third
<1> HIDE DEF after
<1>6. after.cause = IF suspends THEN truth ELSE arm.cause
  BY <1>1, <1>2, <1>3, <1>4
<1>7. /\ Metric = {"calls", "allowed", "denied", "falseDeny", "enforcementDenied",
                   "violationAllowed", "suspensions", "falseSuspensions", "repairs", "links"}
      /\ \A metric \in Metric: arm.m[metric] \in Nat
  BY ArmParts DEF Metric
<1>8. /\ after.m["calls"] = arm.m["calls"] + 1
      /\ after.m["repairs"] = arm.m["repairs"]
  BY <1>1, <1>2, <1>3, <1>4, <1>7 DEF Tally
<1>9. /\ after.m["suspensions"] = arm.m["suspensions"] + Tally(suspends)
      /\ after.m["falseSuspensions"] =
           arm.m["falseSuspensions"] + Tally(suspends /\ truth = "false_positive")
  BY <1>1, <1>2, <1>3, <1>4, <1>7 DEF Tally
<1>10. /\ after.m["allowed"] = arm.m["allowed"] + Tally(after.cause = "none")
       /\ after.m["violationAllowed"] =
            arm.m["violationAllowed"] + Tally(after.cause = "none" /\ truth = "violation")
  BY <1>1, <1>2, <1>3, <1>4, <1>7 DEF Tally
<1>11. after.m["denied"] = arm.m["denied"] + Tally(after.cause /= "none")
  BY <1>1, <1>2, <1>3, <1>4, <1>7 DEF Tally
<1>12. /\ after.m["falseDeny"] =
            arm.m["falseDeny"] + Tally(truth = "benign" /\ after.cause = "false_positive")
       /\ after.m["enforcementDenied"] =
            arm.m["enforcementDenied"] +
              Tally(after.cause /= "none" /\ truth = "benign" /\ after.cause /= "false_positive")
  BY <1>1, <1>2, <1>3, <1>4, <1>7 DEF Tally
<1>13. after \in Arm
  BY <1>4
<1> QED BY <1>5, <1>6, <1>8, <1>9, <1>10, <1>11, <1>12, <1>13 DEF Tally
(* Both arms' rows have this form. *)
LEMMA RowForms ==
    ASSUME NEW arm, NEW row
    PROVE  /\ \E links \in Nat: BaselineRow(arm, row) = RowOf(arm, Risky(row), row.truth, links)
           /\ \E links \in Nat:
                AdmissionRow(arm, row) =
                  RowOf(arm, IsAccepted(Decision(row)), row.truth, links)
<1>1. BaselineRow(arm, row) =
        RowOf(arm, Risky(row), row.truth, IF Risky(row) /\ arm.cause = "none" THEN 3 ELSE 2)
  <2>1. CASE Risky(row) /\ arm.cause = "none"
    BY <2>1 DEF BaselineRow, RowOf
  <2>2. CASE ~Risky(row)
    BY <2>2 DEF BaselineRow, RowOf
  <2>3. CASE Risky(row) /\ arm.cause /= "none"
    <3>1. Suspended(arm, row.truth) = arm
      BY <2>3 DEF Suspended
    <3> QED BY <2>3, <3>1 DEF BaselineRow, RowOf
  <2> QED BY <2>1, <2>2, <2>3
<1>2. AdmissionRow(arm, row) =
        RowOf(arm, IsAccepted(Decision(row)), row.truth,
              IF IsAccepted(Decision(row)) THEN 5 ELSE 4)
  BY DEF AdmissionRow, RowOf
<1>3. /\ (IF Risky(row) /\ arm.cause = "none" THEN 3 ELSE 2) \in Nat
      /\ (IF IsAccepted(Decision(row)) THEN 5 ELSE 4) \in Nat
  OBVIOUS
<1> QED BY <1>1, <1>2, <1>3

(* A repair ends a suspension, if there is one, and counts it. *)
LEMMA RepairEffect ==
    ASSUME NEW arm \in Arm
    PROVE  /\ Repaired(arm) \in Arm
           /\ Repaired(arm).cause = "none"
           /\ \A metric \in Metric \ {"links"}:
                Repaired(arm).m[metric] =
                    arm.m[metric] + Tally(metric = "repairs" /\ arm.cause /= "none")
<1>1. CASE arm.cause = "none"
  <2>1. Repaired(arm) = arm
    BY <1>1 DEF Repaired
  <2> QED BY <1>1, <2>1, ArmParts DEF Tally
<1>2. CASE arm.cause /= "none"
  <2> DEFINE counted == Count(arm, {"repairs"})
             linked == Linked(counted, 2)
  <2>1. /\ counted \in Arm
        /\ \A metric \in Metric:
             counted.m[metric] = arm.m[metric] + Tally(metric \in {"repairs"})
    BY CountEffect
  <2>2. Repaired(arm) = [linked EXCEPT !.cause = "none"]
    BY <1>2 DEF Repaired
  <2> HIDE DEF counted
  <2>3. /\ linked \in Arm
        /\ \A metric \in Metric \ {"links"}: linked.m[metric] = counted.m[metric]
    BY <2>1, LinkEffect
  <2> HIDE DEF linked
  <2>4. /\ Repaired(arm) \in Arm
        /\ Repaired(arm).cause = "none"
        /\ Repaired(arm).m = linked.m
    BY <2>2, <2>3 DEF Arm
  <2> QED BY <1>2, <2>1, <2>3, <2>4 DEF Tally
<1> QED BY <1>1, <1>2

-----------------------------------------------------------------------------
(* One arm's books: the part of BooksBalance that speaks of one arm, and    *)
(* what it takes to keep it.                                                *)
ArmBooks(arm) ==
    /\ arm.m["calls"] = arm.m["allowed"] + arm.m["denied"]
    /\ arm.m["falseDeny"] + arm.m["enforcementDenied"] <= arm.m["denied"]
    /\ arm.m["falseDeny"] > 0 => arm.m["falseSuspensions"] > 0
    /\ arm.m["suspensions"] = arm.m["repairs"] + IF arm.cause = "none" THEN 0 ELSE 1
    /\ arm.cause = "false_positive" => arm.m["falseSuspensions"] > 0

LEMMA BooksAre ==
    BooksBalance /\ FalseCauseCounted <=>
        /\ baseline.m["calls"] = admission.m["calls"]
        /\ ArmBooks(baseline) /\ ArmBooks(admission)
BY DEF BooksBalance, FalseCauseCounted, ArmBooks

LEMMA CountersAreNumbers ==
    ASSUME NEW arm \in Arm
    PROVE  /\ arm.m["calls"] \in Nat /\ arm.m["allowed"] \in Nat /\ arm.m["denied"] \in Nat
           /\ arm.m["falseDeny"] \in Nat /\ arm.m["enforcementDenied"] \in Nat
           /\ arm.m["violationAllowed"] \in Nat /\ arm.m["suspensions"] \in Nat
           /\ arm.m["falseSuspensions"] \in Nat /\ arm.m["repairs"] \in Nat
BY ArmParts DEF Metric

LEMMA RowKeepsBooks ==
    ASSUME NEW arm \in Arm, ArmBooks(arm),
           NEW truth \in Truth, NEW evident \in BOOLEAN, NEW links \in Nat
    PROVE  ArmBooks(RowOf(arm, evident, truth, links))
<1> DEFINE after == RowOf(arm, evident, truth, links)
           suspends == evident /\ arm.cause = "none"
<1>1. /\ after.cause = IF suspends THEN truth ELSE arm.cause
      /\ after.m["calls"] = arm.m["calls"] + 1
      /\ after.m["allowed"] = arm.m["allowed"] + Tally(after.cause = "none")
      /\ after.m["denied"] = arm.m["denied"] + Tally(after.cause /= "none")
      /\ after.m["falseDeny"] =
           arm.m["falseDeny"] + Tally(truth = "benign" /\ after.cause = "false_positive")
      /\ after.m["enforcementDenied"] =
           arm.m["enforcementDenied"] +
             Tally(after.cause /= "none" /\ truth = "benign" /\ after.cause /= "false_positive")
      /\ after.m["suspensions"] = arm.m["suspensions"] + Tally(suspends)
      /\ after.m["falseSuspensions"] =
           arm.m["falseSuspensions"] + Tally(suspends /\ truth = "false_positive")
      /\ after.m["repairs"] = arm.m["repairs"]
  BY RowEffect DEF Tally
<1>2. truth /= "none"
  BY DEF Truth
<1>3. /\ arm.m["calls"] \in Nat /\ arm.m["allowed"] \in Nat /\ arm.m["denied"] \in Nat
      /\ arm.m["falseDeny"] \in Nat /\ arm.m["enforcementDenied"] \in Nat
      /\ arm.m["suspensions"] \in Nat
      /\ arm.m["falseSuspensions"] \in Nat /\ arm.m["repairs"] \in Nat
  BY CountersAreNumbers
<1> HIDE DEF after
<1>4. after.m["calls"] = after.m["allowed"] + after.m["denied"]
  BY <1>1, <1>3 DEF ArmBooks, Tally
<1>5. after.m["falseDeny"] + after.m["enforcementDenied"] <= after.m["denied"]
  BY <1>1, <1>3 DEF ArmBooks, Tally
<1>6. after.cause = "false_positive" => after.m["falseSuspensions"] > 0
  BY <1>1, <1>3 DEF ArmBooks, Tally
<1>7. after.m["falseDeny"] > 0 => after.m["falseSuspensions"] > 0
  BY <1>1, <1>3, <1>6 DEF ArmBooks, Tally
<1>8. after.m["suspensions"] = after.m["repairs"] + IF after.cause = "none" THEN 0 ELSE 1
  BY <1>1, <1>2, <1>3 DEF ArmBooks, Tally
<1>9. ArmBooks(after)
  BY <1>4, <1>5, <1>6, <1>7, <1>8 DEF ArmBooks
<1> QED BY <1>9 DEF after

LEMMA RepairKeepsBooks ==
    ASSUME NEW arm \in Arm, ArmBooks(arm)
    PROVE  ArmBooks(Repaired(arm))
<1> DEFINE after == Repaired(arm)
<1>1. /\ after.cause = "none"
      /\ \A metric \in Metric \ {"links"}:
           after.m[metric] = arm.m[metric] + Tally(metric = "repairs" /\ arm.cause /= "none")
  BY RepairEffect
<1>2. /\ arm.m["calls"] \in Nat /\ arm.m["allowed"] \in Nat /\ arm.m["denied"] \in Nat
      /\ arm.m["falseDeny"] \in Nat /\ arm.m["enforcementDenied"] \in Nat
      /\ arm.m["suspensions"] \in Nat
      /\ arm.m["falseSuspensions"] \in Nat /\ arm.m["repairs"] \in Nat
  BY CountersAreNumbers
<1> HIDE DEF after
<1>3. /\ after.m["calls"] = arm.m["calls"] /\ after.m["allowed"] = arm.m["allowed"]
      /\ after.m["denied"] = arm.m["denied"] /\ after.m["falseDeny"] = arm.m["falseDeny"]
      /\ after.m["enforcementDenied"] = arm.m["enforcementDenied"]
      /\ after.m["suspensions"] = arm.m["suspensions"]
      /\ after.m["falseSuspensions"] = arm.m["falseSuspensions"]
      /\ after.m["repairs"] = arm.m["repairs"] + Tally(arm.cause /= "none")
  BY <1>1, <1>2 DEF Metric, Tally
<1>4. ArmBooks(after)
  BY <1>1, <1>2, <1>3 DEF ArmBooks, Tally
<1> QED BY <1>4 DEF after
-----------------------------------------------------------------------------
LEMMA RowTypes ==
    ASSUME NEW row \in Rows
    PROVE  /\ row.truth \in Truth /\ row.incident \in Incidents /\ row.expires \in Nat
           /\ Risky(row) \in BOOLEAN /\ IsAccepted(Decision(row)) \in BOOLEAN
BY RowsAssumption DEF Row, Risky, IsAccepted

(* Every pending hold either stays, is settled by acceptance, or expires:   *)
(* the three are exclusive, so nothing is lost and nothing counted twice.   *)
LEMMA HoldsSplit ==
    ASSUME NEW holds, IsFiniteSet(holds), NEW row
    PROVE  /\ IsFiniteSet(Unsettled(holds, row))
           /\ Cardinality(Unsettled(holds, row)) \in Nat
           /\ Accepted(holds, row) \in Nat /\ Expired(holds, row) \in Nat
           /\ Cardinality(holds) =
                Cardinality(Unsettled(holds, row)) + Accepted(holds, row) + Expired(holds, row)
<1> DEFINE A == {hold \in holds: Accepts(row, hold)}
           E == {hold \in holds: Expires(row, hold)}
           U == {hold \in holds: ~Accepts(row, hold) /\ ~Expires(row, hold)}
<1>1. /\ A \subseteq holds /\ E \subseteq holds /\ U \subseteq holds
      /\ A \cap E = {}
      /\ U \cap (A \cup E) = {}
      /\ holds = U \cup (A \cup E)
  BY DEF Accepts, Expires
<1>2. Unsettled(holds, row) = U /\ Accepted(holds, row) = Cardinality(A)
        /\ Expired(holds, row) = Cardinality(E)
  BY DEF Unsettled, Accepted, Expired
<1> HIDE DEF A, E, U
<1>3. /\ IsFiniteSet(A) /\ Cardinality(A) \in Nat
      /\ IsFiniteSet(E) /\ Cardinality(E) \in Nat
      /\ IsFiniteSet(U) /\ Cardinality(U) \in Nat
  BY <1>1, FS_Subset, FS_CardinalityType
<1>4. Cardinality({}) = 0
  BY FS_EmptySet
<1>5. IsFiniteSet(A \cup E) /\ Cardinality(A \cup E) = Cardinality(A) + Cardinality(E)
  <2>1. IsFiniteSet(A \cup E)
        /\ Cardinality(A \cup E) = Cardinality(A) + Cardinality(E) - Cardinality(A \cap E)
    BY <1>3, FS_Union
  <2>2. Cardinality(A \cap E) = 0
    BY <1>1, <1>4
  <2> QED BY <1>3, <2>1, <2>2
<1>6. Cardinality(U \cup (A \cup E)) = Cardinality(U) + Cardinality(A \cup E)
  <2>1. Cardinality(U \cup (A \cup E)) =
          Cardinality(U) + Cardinality(A \cup E) - Cardinality(U \cap (A \cup E))
    BY <1>3, <1>5, FS_Union
  <2>2. Cardinality(U \cap (A \cup E)) = 0
    BY <1>1, <1>4
  <2> QED BY <1>3, <1>5, <2>1, <2>2
<1> QED BY <1>1, <1>2, <1>3, <1>5, <1>6

(* The holds after a row. *)
LEMMA PendingEffect ==
    ASSUME TypeOK, NEW row \in Rows, IsFiniteSet(pending),
           pending' = StillPending(pending, row, step + 1)
    PROVE  /\ pending' \subseteq [row: 1..(step + 1), incident: Incidents, expires: Nat]
           /\ IsFiniteSet(pending')
           /\ Cardinality(pending') =
                Cardinality(Unsettled(pending, row)) + Tally(Decision(row) \in Hold)
<1> DEFINE new == NewHold(row, step + 1)
           kept == Unsettled(pending, row)
<1>1. step \in Nat /\ pending \subseteq [row: 1..step, incident: Incidents, expires: Nat]
  BY BoundAssumption DEF TypeOK
<1>2. kept \subseteq pending /\ IsFiniteSet(kept) /\ Cardinality(kept) \in Nat
  BY HoldsSplit DEF Unsettled
<1>3. new \in [row: 1..(step + 1), incident: Incidents, expires: Nat]
  BY <1>1, RowTypes DEF NewHold
<1>4. pending \subseteq [row: 1..(step + 1), incident: Incidents, expires: Nat]
  BY <1>1
<1>5. new \notin kept
  <2>1. new.row = step + 1
    BY DEF NewHold
  <2>2. \A hold \in pending: hold.row \in 1..step
    BY <1>1
  <2> QED BY <1>1, <1>2, <2>1, <2>2
<1>6. CASE Decision(row) \in Hold
  <2>1. pending' = kept \cup {new}
    BY <1>6 DEF StillPending
  <2> HIDE DEF new, kept
  <2>2. IsFiniteSet(kept \cup {new}) /\ Cardinality(kept \cup {new}) = Cardinality(kept) + 1
    BY <1>2, <1>5, FS_AddElement
  <2>3. kept \cup {new} \subseteq [row: 1..(step + 1), incident: Incidents, expires: Nat]
    BY <1>2, <1>3, <1>4
  <2> QED BY <1>6, <2>1, <2>2, <2>3 DEF Tally, kept
<1>7. CASE Decision(row) \notin Hold
  <2>1. pending' = kept
    BY <1>7 DEF StillPending
  <2> HIDE DEF new, kept
  <2> QED BY <1>2, <1>4, <1>7, <2>1 DEF Tally, kept
<1> QED BY <1>6, <1>7

(* A call in the history is followed only by calls of later rows. *)
LEMMA SeenTypes ==
    ASSUME TypeOK
    PROVE  /\ step \in Nat
           /\ \A call \in seen:
                /\ call.row \in Nat /\ call.row <= step
                /\ call.observed \in Nat /\ call.expires \in Nat
                /\ call.accepted \in BOOLEAN /\ call.held \in BOOLEAN
<1>1. /\ step \in Nat
      /\ seen \subseteq [row: 1..step, incident: Incidents, observed: Nat, expires: Nat,
                        accepted: BOOLEAN, held: BOOLEAN]
  BY BoundAssumption DEF TypeOK
<1> QED BY <1>1

(* What a new call does to the holds before it: it ends those of its        *)
(* incident that were open, and only those, as the row settles them.        *)
LEMMA NewCallEnds ==
    ASSUME TypeOK, NEW row \in Rows, NEW new, new = Seen(row, step + 1)
    PROVE  /\ new.row = step + 1 /\ new.accepted = IsAccepted(Decision(row))
           /\ new.held = (Decision(row) \in Hold) /\ new \notin seen
           /\ NewHold(new, new.row) = NewHold(row, step + 1)
           /\ \A call \in seen \cup {new}: ~Ends(call, new)
           /\ \A hold \in seen: Ends(new, hold) <=> Accepts(row, hold) \/ Expires(row, hold)
           /\ \A hold \in seen: Accepts(row, hold) => new.accepted
           /\ \A hold \in seen: Expires(row, hold) => ~new.accepted
<1>1. /\ new.row = step + 1 /\ new.incident = row.incident
      /\ new.observed = row.observed /\ new.expires = row.expires
      /\ new.accepted = IsAccepted(Decision(row)) /\ new.held = (Decision(row) \in Hold)
  BY DEF Seen
<1>2. /\ step \in Nat
      /\ \A call \in seen: call.row \in Nat /\ call.row <= step
  BY SeenTypes
<1>3. new \notin seen /\ \A call \in seen \cup {new}: ~Ends(call, new)
  BY <1>1, <1>2 DEF Ends
<1>4. NewHold(new, new.row) = NewHold(row, step + 1)
  BY <1>1 DEF NewHold
<1>5. ASSUME NEW hold \in seen
      PROVE  /\ Ends(new, hold) <=> Accepts(row, hold) \/ Expires(row, hold)
             /\ Accepts(row, hold) => new.accepted
             /\ Expires(row, hold) => ~new.accepted
  <2>1. new.row > hold.row
    BY <1>1, <1>2
  <2> QED BY <1>1, <2>1 DEF Ends, Accepts, Expires
<1> QED BY <1>1, <1>3, <1>4, <1>5

LEMMA ExitsGrow ==
    ASSUME TypeOK, NEW row \in Rows, NEW new, new = Seen(row, step + 1),
           seen' = seen \cup {new}
    PROVE  /\ HeldUntilAccepted' =
                HeldUntilAccepted \cup {hold \in HeldStill: Accepts(row, hold)}
           /\ HeldUntilExpired' =
                HeldUntilExpired \cup {hold \in HeldStill: Expires(row, hold)}
           /\ HeldStill' =
                {hold \in HeldStill: ~Accepts(row, hold) /\ ~Expires(row, hold)}
                  \cup IF Decision(row) \in Hold THEN {new} ELSE {}
<1>1. /\ new.row = step + 1 /\ new.held = (Decision(row) \in Hold) /\ new \notin seen
      /\ \A call \in seen \cup {new}: ~Ends(call, new)
      /\ \A hold \in seen: Ends(new, hold) <=> Accepts(row, hold) \/ Expires(row, hold)
      /\ \A hold \in seen: Accepts(row, hold) => new.accepted
      /\ \A hold \in seen: Expires(row, hold) => ~new.accepted
  BY NewCallEnds
<1>2. seen' = seen \cup {new}
  OBVIOUS
<1>3. /\ step \in Nat
      /\ \A call \in seen: call.row \in Nat /\ call.row <= step
  BY SeenTypes
(* An open hold is ended by the new call, if that call ends it; a hold that *)
(* had ended stays ended by what ended it.                                  *)
<1>4. ASSUME NEW hold \in seen
      PROVE  /\ (\A call \in seen: ~Ends(call, hold)) =>
                   \A call \in seen': EndedBy(hold, call)' <=> call = new /\ Ends(new, hold)
             /\ ~(\A call \in seen: ~Ends(call, hold)) =>
                   \A call \in seen': EndedBy(hold, call)' <=> call \in seen /\ EndedBy(hold, call)
  <2>1. \A call \in seen: call.row < new.row
    BY <1>1, <1>3
  <2>2. ASSUME \A call \in seen: ~Ends(call, hold), NEW call \in seen'
        PROVE  EndedBy(hold, call)' <=> call = new /\ Ends(new, hold)
    <3>1. \A other \in seen': Ends(other, hold) => other = new
      BY <1>2, <2>2
    <3>2. new.row <= new.row
      BY <1>1, <1>3
    <3>3. EndedBy(hold, call)' <=>
            Ends(call, hold) /\ \A other \in seen': Ends(other, hold) => call.row <= other.row
      BY DEF EndedBy, Ends
    <3> QED BY <1>2, <3>1, <3>2, <3>3
  <2>3. ASSUME NEW first \in seen, Ends(first, hold), NEW call \in seen'
        PROVE  EndedBy(hold, call)' <=> call \in seen /\ EndedBy(hold, call)
    <3>1. EndedBy(hold, call)' <=>
            Ends(call, hold) /\ \A other \in seen': Ends(other, hold) => call.row <= other.row
      BY DEF EndedBy, Ends
    <3>2. CASE call = new
      <4>1. ~(call.row <= first.row)
        BY <1>1, <1>3, <3>2
      <4> QED BY <1>1, <1>2, <2>3, <3>1, <3>2, <4>1
    <3>3. CASE call \in seen
      <4>1. call.row <= new.row
        BY <1>1, <1>3, <3>3
      <4> QED BY <1>2, <3>1, <3>3, <4>1 DEF EndedBy
    <3> QED BY <1>2, <3>2, <3>3
  <2> QED BY <2>2, <2>3
<1>5. Held' = Held \cup IF Decision(row) \in Hold THEN {new} ELSE {}
  BY <1>1, <1>2 DEF Held
<1>6. \A call \in seen': ~EndedBy(new, call)' /\ ~Ends(call, new)
  BY <1>1, <1>2 DEF EndedBy
<1>7. /\ HeldUntilAccepted' =
           {hold \in Held': \E call \in seen': EndedBy(hold, call)' /\ call.accepted}
      /\ HeldUntilExpired' =
           {hold \in Held': \E call \in seen': EndedBy(hold, call)' /\ ~call.accepted}
      /\ HeldStill' = {hold \in Held': \A call \in seen': ~Ends(call, hold)}
  BY DEF HeldUntilAccepted, HeldUntilExpired, HeldStill, Ends, EndedBy
<1>8. Held \subseteq seen
  BY DEF Held
<1>9. HeldStill' =
        {hold \in HeldStill: ~Accepts(row, hold) /\ ~Expires(row, hold)}
          \cup IF Decision(row) \in Hold THEN {new} ELSE {}
  BY <1>1, <1>2, <1>5, <1>6, <1>7, <1>8 DEF HeldStill
<1>10. \A hold \in Held:
          (\E call \in seen': EndedBy(hold, call)' /\ call.accepted) <=>
             \/ hold \in HeldUntilAccepted
             \/ hold \in HeldStill /\ Accepts(row, hold)
  <2> SUFFICES ASSUME NEW hold \in Held
               PROVE  (\E call \in seen': EndedBy(hold, call)' /\ call.accepted) <=>
                         \/ hold \in HeldUntilAccepted
                         \/ hold \in HeldStill /\ Accepts(row, hold)
    OBVIOUS
  <2>1. CASE \A call \in seen: ~Ends(call, hold)
    <3>1. hold \in HeldStill /\ hold \notin HeldUntilAccepted
      BY <2>1 DEF HeldStill, HeldUntilAccepted, EndedBy
    <3>2. \A call \in seen': EndedBy(hold, call)' <=> call = new /\ Ends(new, hold)
      BY <1>4, <1>8, <2>1
    <3> QED BY <1>1, <1>2, <1>8, <3>1, <3>2
  <2>2. CASE ~\A call \in seen: ~Ends(call, hold)
    <3>1. hold \notin HeldStill
      BY <2>2 DEF HeldStill
    <3>2. \A call \in seen': EndedBy(hold, call)' <=> call \in seen /\ EndedBy(hold, call)
      BY <1>4, <1>8, <2>2
    <3> QED BY <1>2, <3>1, <3>2 DEF HeldUntilAccepted
  <2> QED BY <2>1, <2>2
<1>11. \A hold \in Held:
          (\E call \in seen': EndedBy(hold, call)' /\ ~call.accepted) <=>
             \/ hold \in HeldUntilExpired
             \/ hold \in HeldStill /\ Expires(row, hold)
  <2> SUFFICES ASSUME NEW hold \in Held
               PROVE  (\E call \in seen': EndedBy(hold, call)' /\ ~call.accepted) <=>
                         \/ hold \in HeldUntilExpired
                         \/ hold \in HeldStill /\ Expires(row, hold)
    OBVIOUS
  <2>1. CASE \A call \in seen: ~Ends(call, hold)
    <3>1. hold \in HeldStill /\ hold \notin HeldUntilExpired
      BY <2>1 DEF HeldStill, HeldUntilExpired, EndedBy
    <3>2. \A call \in seen': EndedBy(hold, call)' <=> call = new /\ Ends(new, hold)
      BY <1>4, <1>8, <2>1
    <3> QED BY <1>1, <1>2, <1>8, <3>1, <3>2
  <2>2. CASE ~\A call \in seen: ~Ends(call, hold)
    <3>1. hold \notin HeldStill
      BY <2>2 DEF HeldStill
    <3>2. \A call \in seen': EndedBy(hold, call)' <=> call \in seen /\ EndedBy(hold, call)
      BY <1>4, <1>8, <2>2
    <3> QED BY <1>2, <3>1, <3>2 DEF HeldUntilExpired
  <2> QED BY <2>1, <2>2
<1>12. /\ HeldUntilAccepted \subseteq Held /\ HeldUntilExpired \subseteq Held
       /\ HeldStill \subseteq Held
  BY DEF HeldUntilAccepted, HeldUntilExpired, HeldStill
<1>13. /\ HeldUntilAccepted' = HeldUntilAccepted \cup {hold \in HeldStill: Accepts(row, hold)}
       /\ HeldUntilExpired' = HeldUntilExpired \cup {hold \in HeldStill: Expires(row, hold)}
  <2>1. \A hold: hold \in Held' <=> hold \in Held \/ (hold = new /\ Decision(row) \in Hold)
    BY <1>5
  <2>2. \A hold: hold \in HeldUntilAccepted' <=>
          hold \in HeldUntilAccepted \/ (hold \in HeldStill /\ Accepts(row, hold))
    BY <1>6, <1>7, <1>10, <1>12, <2>1
  <2>3. \A hold: hold \in HeldUntilExpired' <=>
          hold \in HeldUntilExpired \/ (hold \in HeldStill /\ Expires(row, hold))
    BY <1>6, <1>7, <1>11, <1>12, <2>1
  <2> QED BY <2>2, <2>3
<1> QED BY <1>9, <1>13

(* As many holds are pending as calls are held: their rows tell them apart. *)
LEMMA HoldsAreCalls ==
    ASSUME SeenByRow, NEW S \in SUBSET seen
    PROVE  /\ IsFiniteSet(S) /\ Cardinality(S) \in Nat
           /\ Cardinality({NewHold(hold, hold.row): hold \in S}) = Cardinality(S)
<1> DEFINE f == [hold \in S |-> NewHold(hold, hold.row)]
           T == {NewHold(hold, hold.row): hold \in S}
<1>1. IsFiniteSet(S) /\ Cardinality(S) \in Nat
  BY FS_Subset, FS_CardinalityType DEF SeenByRow
<1>2. f \in [S -> T]
  OBVIOUS
<1>3. \A one, other \in S: f[one] = f[other] => one = other
  <2>1. \A hold \in S: f[hold].row = hold.row
    BY DEF NewHold
  <2> QED BY <2>1 DEF SeenByRow
<1>4. \A t \in T: \E hold \in S: f[hold] = t
  OBVIOUS
<1>5. f \in Bijection(S, T)
  <2> HIDE DEF f, T
  <2> QED BY <1>2, <1>3, <1>4 DEF Bijection, Injection, Surjection, IsInjective
<1> HIDE DEF f, T
<1>6. Cardinality(T) = Cardinality(S)
  BY <1>1, <1>5, FS_Bijection DEF ExistsBijection
<1> QED BY <1>1, <1>6 DEF T

(* Every hold leaves by the exit the history gives it. *)
LEMMA ExitsCounted ==
    ASSUME TypeOK, IsFiniteSet(pending), SeenByRow, HoldsAccountedFor, NEW row \in Rows,
           pending' = StillPending(pending, row, step + 1),
           held'.accepted = held.accepted + Accepted(pending, row),
           held'.expired = held.expired + Expired(pending, row),
           seen' = seen \cup {Seen(row, step + 1)}
    PROVE  /\ SeenByRow'
           /\ held'.accepted = Cardinality(HeldUntilAccepted')
           /\ held'.expired = Cardinality(HeldUntilExpired')
           /\ pending' = {NewHold(hold, hold.row): hold \in HeldStill'}
<1>1. PICK new: new = Seen(row, step + 1)
  OBVIOUS
<1>2. /\ new.row = step + 1 /\ new \notin seen
      /\ NewHold(new, new.row) = NewHold(row, step + 1)
  BY <1>1, NewCallEnds
<1>3. /\ step \in Nat
      /\ \A call \in seen: call.row \in Nat /\ call.row <= step
  BY SeenTypes
<1> DEFINE A == {hold \in HeldStill: Accepts(row, hold)}
           E == {hold \in HeldStill: Expires(row, hold)}
           U == {hold \in HeldStill: ~Accepts(row, hold) /\ ~Expires(row, hold)}
<1>4. /\ HeldUntilAccepted' = HeldUntilAccepted \cup A
      /\ HeldUntilExpired' = HeldUntilExpired \cup E
      /\ HeldStill' = U \cup IF Decision(row) \in Hold THEN {new} ELSE {}
  BY <1>1, ExitsGrow
<1>5. /\ HeldUntilAccepted \in SUBSET seen /\ HeldUntilExpired \in SUBSET seen
      /\ A \in SUBSET seen /\ E \in SUBSET seen
      /\ HeldUntilAccepted \cap A = {} /\ HeldUntilExpired \cap E = {}
  BY DEF HeldUntilAccepted, HeldUntilExpired, HeldStill, Held, EndedBy
<1>6. /\ held.accepted = Cardinality(HeldUntilAccepted)
      /\ held.expired = Cardinality(HeldUntilExpired)
      /\ pending = {NewHold(hold, hold.row): hold \in HeldStill}
  BY DEF HoldsAccountedFor
<1>7. \A hold: /\ Accepts(row, NewHold(hold, hold.row)) <=> Accepts(row, hold)
               /\ Expires(row, NewHold(hold, hold.row)) <=> Expires(row, hold)
  BY DEF Accepts, Expires, NewHold
<1>8. /\ {hold \in pending: Accepts(row, hold)} = {NewHold(hold, hold.row): hold \in A}
      /\ {hold \in pending: Expires(row, hold)} = {NewHold(hold, hold.row): hold \in E}
      /\ Unsettled(pending, row) = {NewHold(hold, hold.row): hold \in U}
  BY <1>6, <1>7 DEF Unsettled
<1> HIDE DEF A, E, U
<1>9. /\ Accepted(pending, row) = Cardinality(A) /\ Expired(pending, row) = Cardinality(E)
  BY <1>5, <1>8, HoldsAreCalls DEF Accepted, Expired
<1>10. /\ IsFiniteSet(A) /\ IsFiniteSet(E)
       /\ IsFiniteSet(HeldUntilAccepted) /\ IsFiniteSet(HeldUntilExpired)
       /\ Cardinality(A) \in Nat /\ Cardinality(E) \in Nat
       /\ Cardinality(HeldUntilAccepted) \in Nat /\ Cardinality(HeldUntilExpired) \in Nat
  BY <1>5, HoldsAreCalls
<1>11. Cardinality({}) = 0
  BY FS_EmptySet
<1>12. Cardinality(HeldUntilAccepted') = Cardinality(HeldUntilAccepted) + Cardinality(A)
  <2>1. Cardinality(HeldUntilAccepted \cup A) =
          Cardinality(HeldUntilAccepted) + Cardinality(A) - Cardinality(HeldUntilAccepted \cap A)
    BY <1>10, FS_Union
  <2>2. Cardinality(HeldUntilAccepted \cap A) = 0
    BY <1>5, <1>11
  <2>3. Cardinality(HeldUntilAccepted') = Cardinality(HeldUntilAccepted \cup A)
    BY <1>4
  <2> QED BY <1>10, <2>1, <2>2, <2>3
<1>13. Cardinality(HeldUntilExpired') = Cardinality(HeldUntilExpired) + Cardinality(E)
  <2>1. Cardinality(HeldUntilExpired \cup E) =
          Cardinality(HeldUntilExpired) + Cardinality(E) - Cardinality(HeldUntilExpired \cap E)
    BY <1>10, FS_Union
  <2>2. Cardinality(HeldUntilExpired \cap E) = 0
    BY <1>5, <1>11
  <2>3. Cardinality(HeldUntilExpired') = Cardinality(HeldUntilExpired \cup E)
    BY <1>4
  <2> QED BY <1>10, <2>1, <2>2, <2>3
<1>14. pending' = {NewHold(hold, hold.row): hold \in HeldStill'}
  <2>1. pending' = {NewHold(hold, hold.row): hold \in U}
                     \cup IF Decision(row) \in Hold THEN {NewHold(new, new.row)} ELSE {}
    BY <1>2, <1>8 DEF StillPending
  <2> QED BY <1>4, <2>1
<1>15. SeenByRow'
  <2>1. IsFiniteSet(seen')
    BY <1>1, FS_AddElement DEF SeenByRow
  <2>2. \A call \in seen: call.row /= new.row
    BY <1>2, <1>3
  <2>3. \A one, other \in seen': one.row = other.row => one = other
    BY <1>1, <2>2 DEF SeenByRow
  <2> QED BY <2>1, <2>3 DEF SeenByRow
<1> QED BY <1>6, <1>9, <1>12, <1>13, <1>14, <1>15

LEMMA NewArmBooks == NewArm \in Arm /\ ArmBooks(NewArm)
<1> DEFINE zero == [metric \in Metric |-> 0]
<1>1. zero \in [Metric -> Nat] /\ \A metric \in Metric: zero[metric] = 0
  OBVIOUS
<1>2. NewArm = [cause |-> "none", m |-> zero]
  BY DEF NewArm
<1> HIDE DEF zero
<1>3. NewArm \in Arm /\ NewArm.cause = "none" /\ NewArm.m = zero
  BY <1>1, <1>2 DEF Arm
<1>4. \A metric \in Metric: NewArm.m[metric] = 0
  BY <1>1, <1>3
<1> QED BY <1>3, <1>4 DEF ArmBooks, Metric

LEMMA IInvInit == Init => IInv
<1> SUFFICES ASSUME Init PROVE IInv
  OBVIOUS
<1>0. /\ step = 0 /\ baseline = NewArm /\ admission = NewArm /\ pending = {}
      /\ held = [total |-> 0, accepted |-> 0, expired |-> 0] /\ disagreed = {} /\ seen = {}
  BY DEF Init
<1>1. NewArm \in Arm /\ ArmBooks(NewArm)
  BY NewArmBooks
<1>2. TypeOK
  BY <1>0, <1>1, BoundAssumption DEF TypeOK
<1>3. IsFiniteSet(pending) /\ Cardinality(pending) = 0
  BY <1>0, FS_EmptySet
<1>4. HoldsAccountedFor
  <2>1. HeldUntilAccepted = {} /\ HeldUntilExpired = {} /\ HeldStill = {}
    BY <1>0 DEF HeldUntilAccepted, HeldUntilExpired, HeldStill, Held
  <2> QED BY <1>0, <1>3, <2>1 DEF HoldsAccountedFor
<1>5. BooksBalance /\ FalseCauseCounted
  BY <1>0, <1>1, BooksAre
<1>6. SparingOnlyRelaxes /\ CorroborationOnlyAdds
  BY <1>0, <1>1, CountersAreNumbers DEF SparingOnlyRelaxes, CorroborationOnlyAdds
<1>7. SeenByRow
  BY <1>0, FS_EmptySet DEF SeenByRow
<1> QED BY <1>2, <1>3, <1>4, <1>5, <1>6, <1>7 DEF IInv

(* A judged call. *)
LEMMA RowStep ==
    ASSUME IInv, NEW row \in Rows, JudgedCall(row)
    PROVE  IInv'
<1>0. /\ step < MaxRows /\ step' = step + 1
      /\ baseline' = BaselineRow(baseline, row)
      /\ admission' = AdmissionRow(admission, row)
      /\ pending' = StillPending(pending, row, step + 1)
      /\ held' = HeldAfter(held, pending, row)
      /\ disagreed' = disagreed \cup Disagreement(row)
      /\ seen' = seen \cup {Seen(row, step + 1)}
  BY DEF JudgedCall
<1>t. /\ TypeOK /\ IsFiniteSet(pending)
      /\ step \in Nat /\ MaxRows \in Nat /\ baseline \in Arm /\ admission \in Arm
  BY BoundAssumption DEF IInv, TypeOK
<1> DEFINE truth == row.truth
           risky == Risky(row)
           accepted == IsAccepted(Decision(row))
<1>r. /\ truth \in Truth /\ risky \in BOOLEAN /\ accepted \in BOOLEAN /\ truth /= "none"
  BY RowTypes DEF Truth
<1>1. PICK b \in Nat: baseline' = RowOf(baseline, risky, truth, b)
  BY <1>0, RowForms
<1>2. PICK a \in Nat: admission' = RowOf(admission, accepted, truth, a)
  BY <1>0, RowForms
<1>3. /\ baseline' \in Arm /\ admission' \in Arm
      /\ baseline'.cause = IF risky /\ baseline.cause = "none" THEN truth ELSE baseline.cause
      /\ admission'.cause =
           IF accepted /\ admission.cause = "none" THEN truth ELSE admission.cause
      /\ baseline'.m["calls"] = baseline.m["calls"] + 1
      /\ admission'.m["calls"] = admission.m["calls"] + 1
      /\ baseline'.m["denied"] = baseline.m["denied"] + Tally(baseline'.cause /= "none")
      /\ admission'.m["denied"] = admission.m["denied"] + Tally(admission'.cause /= "none")
      /\ baseline'.m["repairs"] = baseline.m["repairs"]
      /\ admission'.m["repairs"] = admission.m["repairs"]
      /\ baseline'.m["violationAllowed"] =
           baseline.m["violationAllowed"] + Tally(baseline'.cause = "none" /\ truth = "violation")
      /\ admission'.m["violationAllowed"] =
           admission.m["violationAllowed"] + Tally(admission'.cause = "none" /\ truth = "violation")
  <2> HIDE DEF truth, risky, accepted
  <2>1. /\ baseline' \in Arm
        /\ baseline'.cause = IF risky /\ baseline.cause = "none" THEN truth ELSE baseline.cause
        /\ baseline'.m["calls"] = baseline.m["calls"] + 1
        /\ baseline'.m["denied"] = baseline.m["denied"] + Tally(baseline'.cause /= "none")
        /\ baseline'.m["repairs"] = baseline.m["repairs"]
        /\ baseline'.m["violationAllowed"] =
             baseline.m["violationAllowed"] + Tally(baseline'.cause = "none" /\ truth = "violation")
    <3> DEFINE after == RowOf(baseline, risky, truth, b)
    <3>1. /\ after \in Arm
          /\ after.cause = IF risky /\ baseline.cause = "none" THEN truth ELSE baseline.cause
          /\ after.m["calls"] = baseline.m["calls"] + 1
          /\ after.m["denied"] = baseline.m["denied"] + Tally(after.cause /= "none")
          /\ after.m["repairs"] = baseline.m["repairs"]
          /\ after.m["violationAllowed"] =
               baseline.m["violationAllowed"] + Tally(~(after.cause /= "none") /\ truth = "violation")
      BY <1>r, <1>t, RowEffect
    <3> HIDE DEF after
    <3> QED BY <1>1, <3>1 DEF Tally, after
  <2>2. /\ admission' \in Arm
        /\ admission'.cause =
             IF accepted /\ admission.cause = "none" THEN truth ELSE admission.cause
        /\ admission'.m["calls"] = admission.m["calls"] + 1
        /\ admission'.m["denied"] = admission.m["denied"] + Tally(admission'.cause /= "none")
        /\ admission'.m["repairs"] = admission.m["repairs"]
        /\ admission'.m["violationAllowed"] =
             admission.m["violationAllowed"] +
               Tally(admission'.cause = "none" /\ truth = "violation")
    <3> DEFINE after == RowOf(admission, accepted, truth, a)
    <3>1. /\ after \in Arm
          /\ after.cause = IF accepted /\ admission.cause = "none" THEN truth ELSE admission.cause
          /\ after.m["calls"] = admission.m["calls"] + 1
          /\ after.m["denied"] = admission.m["denied"] + Tally(after.cause /= "none")
          /\ after.m["repairs"] = admission.m["repairs"]
          /\ after.m["violationAllowed"] =
               admission.m["violationAllowed"] + Tally(~(after.cause /= "none") /\ truth = "violation")
      BY <1>r, <1>t, RowEffect
    <3> HIDE DEF after
    <3> QED BY <1>2, <3>1 DEF Tally, after
  <2> QED BY <2>1, <2>2
<1> HIDE DEF truth, risky, accepted
<1>4. /\ baseline.m["calls"] \in Nat /\ admission.m["calls"] \in Nat
      /\ baseline.m["denied"] \in Nat /\ admission.m["denied"] \in Nat
      /\ baseline.m["repairs"] \in Nat /\ admission.m["repairs"] \in Nat
      /\ baseline.m["violationAllowed"] \in Nat /\ admission.m["violationAllowed"] \in Nat
  BY <1>t, CountersAreNumbers
<1>5. BooksBalance' /\ FalseCauseCounted'
  <2>1. /\ baseline.m["calls"] = admission.m["calls"]
        /\ ArmBooks(baseline) /\ ArmBooks(admission)
    BY BooksAre DEF IInv
  <2>2. ArmBooks(baseline') /\ ArmBooks(admission')
    BY <1>1, <1>2, <1>r, <1>t, <2>1, RowKeepsBooks
  <2>3. baseline'.m["calls"] = admission'.m["calls"]
    BY <1>3, <2>1
  <2> QED BY <2>2, <2>3 DEF BooksBalance, FalseCauseCounted, ArmBooks
<1>6. /\ pending' \subseteq [row: 1..(step + 1), incident: Incidents, expires: Nat]
      /\ IsFiniteSet(pending')
      /\ Cardinality(pending') =
           Cardinality(Unsettled(pending, row)) + Tally(Decision(row) \in Hold)
  BY <1>0, <1>t, PendingEffect
<1>7. /\ Cardinality(Unsettled(pending, row)) \in Nat
      /\ Accepted(pending, row) \in Nat /\ Expired(pending, row) \in Nat
      /\ Cardinality(pending) = Cardinality(Unsettled(pending, row)) +
                                  Accepted(pending, row) + Expired(pending, row)
  BY <1>t, HoldsSplit
<1>8. /\ held.total \in Nat /\ held.accepted \in Nat /\ held.expired \in Nat
      /\ held'.total = held.total + Tally(Decision(row) \in Hold)
      /\ held'.accepted = held.accepted + Accepted(pending, row)
      /\ held'.expired = held.expired + Expired(pending, row)
      /\ held' \in [total: Nat, accepted: Nat, expired: Nat]
  <2>1. held.total \in Nat /\ held.accepted \in Nat /\ held.expired \in Nat
    BY <1>t DEF TypeOK
  <2>2. held' = [total |-> held.total + Tally(Decision(row) \in Hold),
                 accepted |-> held.accepted + Accepted(pending, row),
                 expired |-> held.expired + Expired(pending, row)]
    BY <1>0 DEF HeldAfter, Tally
  <2>3. /\ held.total + Tally(Decision(row) \in Hold) \in Nat
        /\ held.accepted + Accepted(pending, row) \in Nat
        /\ held.expired + Expired(pending, row) \in Nat
    BY <1>7, <2>1 DEF Tally
  <2> QED BY <2>1, <2>2, <2>3
<1>9. HoldsAccountedFor' /\ SeenByRow'
  <2>1. held.total = held.accepted + held.expired + Cardinality(pending)
    BY DEF IInv, HoldsAccountedFor
  <2>2. held'.total = held'.accepted + held'.expired + Cardinality(pending')
    BY <1>6, <1>7, <1>8, <2>1 DEF Tally
  <2>3. /\ SeenByRow'
        /\ held'.accepted = Cardinality(HeldUntilAccepted')
        /\ held'.expired = Cardinality(HeldUntilExpired')
        /\ pending' = {NewHold(hold, hold.row): hold \in HeldStill'}
    BY <1>0, <1>t, <1>8, ExitsCounted DEF IInv
  <2> QED BY <2>2, <2>3 DEF HoldsAccountedFor
<1>10. Disagreement(row) =
         IF risky /\ ~accepted THEN {"spared"} ELSE IF ~risky /\ accepted THEN {"caught"} ELSE {}
  BY DEF Disagreement, risky, accepted
<1>11. SparingOnlyRelaxes'
  <2> SUFFICES ASSUME "caught" \notin disagreed'
               PROVE  /\ admission'.cause /= "none" => baseline'.cause /= "none"
                      /\ admission'.m["denied"] <= baseline'.m["denied"]
                      /\ admission'.m["repairs"] <= baseline'.m["repairs"]
    BY DEF SparingOnlyRelaxes
  <2>1. "caught" \notin disagreed /\ (accepted => risky)
    BY <1>0, <1>10, <1>r
  <2>2. /\ admission.cause /= "none" => baseline.cause /= "none"
        /\ admission.m["denied"] <= baseline.m["denied"]
        /\ admission.m["repairs"] <= baseline.m["repairs"]
    BY <2>1 DEF SparingOnlyRelaxes, IInv
  <2>3. admission'.cause /= "none" => baseline'.cause /= "none"
    BY <1>3, <1>r, <2>1, <2>2
  <2> QED BY <1>3, <1>4, <2>2, <2>3 DEF Tally
<1>12. CorroborationOnlyAdds'
  <2> SUFFICES ASSUME "spared" \notin disagreed'
               PROVE  /\ baseline'.cause /= "none" => admission'.cause /= "none"
                      /\ admission'.m["violationAllowed"] <= baseline'.m["violationAllowed"]
    BY DEF CorroborationOnlyAdds
  <2>1. "spared" \notin disagreed /\ (risky => accepted)
    BY <1>0, <1>10, <1>r
  <2>2. /\ baseline.cause /= "none" => admission.cause /= "none"
        /\ admission.m["violationAllowed"] <= baseline.m["violationAllowed"]
    BY <2>1 DEF CorroborationOnlyAdds, IInv
  <2>3. baseline'.cause /= "none" => admission'.cause /= "none"
    BY <1>3, <1>r, <2>1, <2>2
  <2> QED BY <1>3, <1>4, <2>2, <2>3 DEF Tally
<1>13. TypeOK'
  <2>1. step' \in 0..MaxRows
    BY <1>0, <1>t
  <2>2. disagreed' \subseteq {"spared", "caught"}
    BY <1>0, <1>10, <1>t DEF TypeOK
  <2>3. seen' \subseteq [row: 1..step', incident: Incidents, observed: Nat, expires: Nat,
                         accepted: BOOLEAN, held: BOOLEAN]
    <3>1. Seen(row, step + 1) \in [row: 1..step', incident: Incidents, observed: Nat,
                                  expires: Nat, accepted: BOOLEAN, held: BOOLEAN]
      <4>1. row.incident \in Incidents /\ row.observed \in Nat /\ row.expires \in Nat
        BY RowsAssumption DEF Row
      <4>2. IsAccepted(Decision(row)) \in BOOLEAN /\ (Decision(row) \in Hold) \in BOOLEAN
        BY DEF IsAccepted
      <4>3. step + 1 \in 1..step'
        BY <1>0, <1>t
      <4> QED BY <4>1, <4>2, <4>3 DEF Seen
    <3>2. 1..step \subseteq 1..step'
      BY <1>0, <1>t
    <3>3. seen \subseteq [row: 1..step, incident: Incidents, observed: Nat, expires: Nat,
                         accepted: BOOLEAN, held: BOOLEAN]
      BY <1>t DEF TypeOK
    <3> QED BY <1>0, <3>1, <3>2, <3>3
  <2> QED BY <1>0, <1>3, <1>6, <1>8, <2>1, <2>2, <2>3 DEF TypeOK
<1> QED BY <1>5, <1>6, <1>9, <1>11, <1>12, <1>13 DEF IInv
(* A repair, which both arms take together and no hold notices. *)
LEMMA RepairStep == IInv /\ Repair => IInv'
<1> SUFFICES ASSUME IInv, Repair PROVE IInv'
  OBVIOUS
<1>0. /\ step < MaxRows /\ step' = step + 1
      /\ baseline' = Repaired(baseline) /\ admission' = Repaired(admission)
      /\ pending' = pending /\ held' = held /\ disagreed' = disagreed /\ seen' = seen
  BY DEF Repair
<1>t. /\ TypeOK /\ step \in Nat /\ MaxRows \in Nat /\ baseline \in Arm /\ admission \in Arm
  BY BoundAssumption DEF IInv, TypeOK
<1>1. /\ baseline' \in Arm /\ admission' \in Arm
      /\ baseline'.cause = "none" /\ admission'.cause = "none"
      /\ \A metric \in Metric \ {"links"}:
           /\ baseline'.m[metric] =
                baseline.m[metric] + Tally(metric = "repairs" /\ baseline.cause /= "none")
           /\ admission'.m[metric] =
                admission.m[metric] + Tally(metric = "repairs" /\ admission.cause /= "none")
  BY <1>0, <1>t, RepairEffect
<1>2. /\ baseline.m["calls"] \in Nat /\ admission.m["calls"] \in Nat
      /\ baseline.m["denied"] \in Nat /\ admission.m["denied"] \in Nat
      /\ baseline.m["repairs"] \in Nat /\ admission.m["repairs"] \in Nat
      /\ baseline.m["violationAllowed"] \in Nat /\ admission.m["violationAllowed"] \in Nat
  BY <1>t, CountersAreNumbers
<1>3. /\ baseline'.m["calls"] = baseline.m["calls"]
      /\ admission'.m["calls"] = admission.m["calls"]
      /\ baseline'.m["denied"] = baseline.m["denied"]
      /\ admission'.m["denied"] = admission.m["denied"]
      /\ baseline'.m["violationAllowed"] = baseline.m["violationAllowed"]
      /\ admission'.m["violationAllowed"] = admission.m["violationAllowed"]
      /\ baseline'.m["repairs"] = baseline.m["repairs"] + Tally(baseline.cause /= "none")
      /\ admission'.m["repairs"] = admission.m["repairs"] + Tally(admission.cause /= "none")
  BY <1>1, <1>2 DEF Metric, Tally
<1>4. BooksBalance' /\ FalseCauseCounted'
  <2>1. /\ baseline.m["calls"] = admission.m["calls"]
        /\ ArmBooks(baseline) /\ ArmBooks(admission)
    BY BooksAre DEF IInv
  <2>2. ArmBooks(baseline') /\ ArmBooks(admission')
    BY <1>0, <1>t, <2>1, RepairKeepsBooks
  <2> QED BY <1>3, <2>1, <2>2 DEF BooksBalance, FalseCauseCounted, ArmBooks
<1>5. SparingOnlyRelaxes'
  <2> SUFFICES ASSUME "caught" \notin disagreed
               PROVE  /\ admission'.m["denied"] <= baseline'.m["denied"]
                      /\ admission'.m["repairs"] <= baseline'.m["repairs"]
    BY <1>0, <1>1 DEF SparingOnlyRelaxes
  <2>1. /\ admission.cause /= "none" => baseline.cause /= "none"
        /\ admission.m["denied"] <= baseline.m["denied"]
        /\ admission.m["repairs"] <= baseline.m["repairs"]
    BY DEF SparingOnlyRelaxes, IInv
  <2> QED BY <1>2, <1>3, <2>1 DEF Tally
<1>6. CorroborationOnlyAdds'
  BY <1>0, <1>1, <1>3 DEF CorroborationOnlyAdds, IInv
<1>7. HoldsAccountedFor' /\ SeenByRow' /\ IsFiniteSet(pending)'
  BY <1>0 DEF HoldsAccountedFor, HeldUntilAccepted, HeldUntilExpired, HeldStill, Held, EndedBy,
              SeenByRow, IInv
<1>8. TypeOK'
  <2>1. step' \in 0..MaxRows
    BY <1>0, <1>t
  <2>2. pending' \subseteq [row: 1..step', incident: Incidents, expires: Nat]
    <3>1. 1..step \subseteq 1..(step + 1)
      BY <1>t
    <3>2. pending \subseteq [row: 1..step, incident: Incidents, expires: Nat]
      BY <1>t DEF TypeOK
    <3> QED BY <1>0, <3>1, <3>2
  <2>3. seen' \subseteq [row: 1..step', incident: Incidents, observed: Nat, expires: Nat,
                         accepted: BOOLEAN, held: BOOLEAN]
    <3>1. 1..step \subseteq 1..(step + 1)
      BY <1>t
    <3>2. seen \subseteq [row: 1..step, incident: Incidents, observed: Nat, expires: Nat,
                         accepted: BOOLEAN, held: BOOLEAN]
      BY <1>t DEF TypeOK
    <3> QED BY <1>0, <3>1, <3>2
  <2> QED BY <1>0, <1>1, <1>t, <2>1, <2>2, <2>3 DEF TypeOK
<1> QED BY <1>4, <1>5, <1>6, <1>7, <1>8 DEF IInv

LEMMA IInvStep == IInv /\ [Next]_vars => IInv'
<1> SUFFICES ASSUME IInv, [Next]_vars PROVE IInv'
  OBVIOUS
<1>1. CASE Repair
  BY <1>1, RepairStep
<1>2. ASSUME NEW row \in Rows, JudgedCall(row) PROVE IInv'
  BY <1>2, RowStep
<1>3. CASE UNCHANGED vars
  BY <1>3 DEF vars, IInv, TypeOK, FalseCauseCounted, BooksBalance, HoldsAccountedFor,
              HeldUntilAccepted, HeldUntilExpired, HeldStill, Held, EndedBy, SeenByRow,
              SparingOnlyRelaxes, CorroborationOnlyAdds
<1> QED BY <1>1, <1>2, <1>3 DEF Next

-----------------------------------------------------------------------------
(* The inductive invariant of the experiment. *)
THEOREM Invariance == Spec => []IInv
BY IInvInit, IInvStep, PTL DEF Spec

(* The arms' metrics are about the same calls, every denied benign call has *)
(* one explanation, and every suspension was repaired or is the present one.*)
THEOREM BooksHold == Spec => []BooksBalance
<1>1. IInv => BooksBalance
  BY DEF IInv
<1> QED BY <1>1, Invariance, PTL

(* "The third state is not a leak": every hold of the trace leaves once, by *)
(* the exit its own later calls give it, or is still pending because no     *)
(* later call has ended it.                                                 *)
THEOREM HoldsHold == Spec => []HoldsAccountedFor
<1>1. IInv => HoldsAccountedFor
  BY DEF IInv
<1> QED BY <1>1, Invariance, PTL

(* EA-H1: where admission accepts nothing the baseline would have let by,   *)
(* it denies no more calls and needs no more repairs.                       *)
THEOREM SparingHolds == Spec => []SparingOnlyRelaxes
<1>1. IInv => SparingOnlyRelaxes
  BY DEF IInv
<1> QED BY <1>1, Invariance, PTL

(* EA-H2: where admission accepts all the baseline would have acted on, it  *)
(* lets no further violation through.                                       *)
THEOREM CorroborationHolds == Spec => []CorroborationOnlyAdds
<1>1. IInv => CorroborationOnlyAdds
  BY DEF IInv
<1> QED BY <1>1, Invariance, PTL
=============================================================================
