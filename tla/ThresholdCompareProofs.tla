------------------------ MODULE ThresholdCompareProofs ------------------------
(***************************************************************************)
(* For scenarios of every length and any scores: what the stateful arm of  *)
(* src/src/bin/compare.rs gains and loses against the stateless one is     *)
(* exactly the calls that inherited a suspension.                          *)
(***************************************************************************)
EXTENDS ThresholdCompare, TLAPS

(* A scored answer adds one to one of the three counters. *)
LEMMA ScoredEffect ==
    ASSUME NEW m \in Metrics, NEW got \in Decisions, NEW expected \in Decisions
    PROVE  /\ Scored(m, got, expected) \in Metrics
           /\ Scored(m, got, expected).falseAllows =
                IF got = "Allow" /\ expected = "Deny" THEN m.falseAllows + 1 ELSE m.falseAllows
           /\ Scored(m, got, expected).falseDenies =
                IF got = "Deny" /\ expected = "Allow" THEN m.falseDenies + 1 ELSE m.falseDenies
<1>1. m.calls \in Nat /\ m.correct \in Nat /\ m.falseAllows \in Nat /\ m.falseDenies \in Nat
  BY DEF Metrics
<1> DEFINE scored == Scored(m, got, expected)
<1>2. /\ scored.calls = m.calls + 1
      /\ scored.correct = IF got = expected THEN m.correct + 1 ELSE m.correct
      /\ scored.falseAllows = IF got /= expected /\ got = "Allow"
                              THEN m.falseAllows + 1 ELSE m.falseAllows
      /\ scored.falseDenies = IF got /= expected /\ got = "Deny"
                              THEN m.falseDenies + 1 ELSE m.falseDenies
  BY <1>1 DEF Scored, One
<1>3. scored = [calls |-> scored.calls, correct |-> scored.correct,
                falseAllows |-> scored.falseAllows, falseDenies |-> scored.falseDenies]
  BY DEF Scored
<1> HIDE DEF scored
<1>4. scored \in Metrics
  BY <1>1, <1>2, <1>3 DEF Metrics
<1>5. scored.falseAllows = IF got = "Allow" /\ expected = "Deny"
                          THEN m.falseAllows + 1 ELSE m.falseAllows
  BY <1>2 DEF Decisions
<1>6. scored.falseDenies = IF got = "Deny" /\ expected = "Allow"
                          THEN m.falseDenies + 1 ELSE m.falseDenies
  BY <1>2 DEF Decisions
<1> QED BY <1>4, <1>5, <1>6 DEF scored

(* The balance of errors between the arms, with the types it needs. *)
IInv == TypeOK /\ MemoryTradesMissesForDenials

LEMMA ToolCallKeepsBalance ==
    ASSUME IInv, NEW beyond \in Scores, NEW destructive \in Scores, NEW expected \in Decisions,
           ToolCall(beyond, destructive, expected)
    PROVE  IInv'
<1> DEFINE own == ThresholdDecision(beyond, destructive)
           with == StatefulDecision(auth')
<1>1. own \in Decisions /\ with \in Decisions /\ auth' \in {"Active", "Suspended"}
  BY DEF ToolCall, AuthAfter, ThresholdDecision, StatefulDecision, Decisions, IInv, TypeOK
<1>2. own = "Deny" => with = "Deny"
  BY DEF ToolCall, AuthAfter, StatefulDecision
<1>3. inherited' = IF own = "Allow" /\ with = "Deny" THEN inherited + 1 ELSE inherited
  BY <1>1 DEF ToolCall, StatefulDecision
<1>4. stateless' = Scored(stateless, own, expected) /\ stateful' = Scored(stateful, with, expected)
  BY DEF ToolCall
<1> HIDE DEF own, with
<1>5. /\ stateless' \in Metrics /\ stateful' \in Metrics
      /\ stateless'.falseAllows = IF own = "Allow" /\ expected = "Deny"
                                  THEN stateless.falseAllows + 1 ELSE stateless.falseAllows
      /\ stateless'.falseDenies = IF own = "Deny" /\ expected = "Allow"
                                  THEN stateless.falseDenies + 1 ELSE stateless.falseDenies
      /\ stateful'.falseAllows = IF with = "Allow" /\ expected = "Deny"
                                 THEN stateful.falseAllows + 1 ELSE stateful.falseAllows
      /\ stateful'.falseDenies = IF with = "Deny" /\ expected = "Allow"
                                 THEN stateful.falseDenies + 1 ELSE stateful.falseDenies
  <2>1. stateless \in Metrics /\ stateful \in Metrics
    BY DEF IInv, TypeOK
  <2>2. /\ Scored(stateless, own, expected) \in Metrics
        /\ Scored(stateless, own, expected).falseAllows =
             IF own = "Allow" /\ expected = "Deny"
             THEN stateless.falseAllows + 1 ELSE stateless.falseAllows
        /\ Scored(stateless, own, expected).falseDenies =
             IF own = "Deny" /\ expected = "Allow"
             THEN stateless.falseDenies + 1 ELSE stateless.falseDenies
    BY <2>1, <1>1, ScoredEffect
  <2>3. /\ Scored(stateful, with, expected) \in Metrics
        /\ Scored(stateful, with, expected).falseAllows =
             IF with = "Allow" /\ expected = "Deny"
             THEN stateful.falseAllows + 1 ELSE stateful.falseAllows
        /\ Scored(stateful, with, expected).falseDenies =
             IF with = "Deny" /\ expected = "Allow"
             THEN stateful.falseDenies + 1 ELSE stateful.falseDenies
    BY <2>1, <1>1, ScoredEffect
  <2>4. QED
    BY <2>2, <2>3, <1>4
<1>6. TypeOK'
  BY <1>1, <1>3, <1>5 DEF ToolCall, Read, IInv, TypeOK
<1>7. MemoryTradesMissesForDenials'
  <2>1. /\ stateless.falseAllows \in Nat /\ stateless.falseDenies \in Nat
        /\ stateful.falseAllows \in Nat /\ stateful.falseDenies \in Nat /\ inherited \in Nat
    BY DEF IInv, TypeOK, Metrics
  <2> QED BY <2>1, <1>1, <1>2, <1>3, <1>5 DEF IInv, MemoryTradesMissesForDenials, Decisions
<1> QED BY <1>6, <1>7 DEF IInv

(* MemoryTradesMissesForDenials holds for scenarios of every length: the    *)
(* two arms' errors (Metrics::observe) differ exactly by the calls answered *)
(* under a suspension their own judgment would not have caused.             *)
THEOREM BalanceHolds == Spec => []MemoryTradesMissesForDenials
<1>1. Init => IInv
  BY DEF Init, IInv, TypeOK, MemoryTradesMissesForDenials, NoMetrics, Metrics
<1>2. IInv /\ [Next]_vars => IInv'
  <2> SUFFICES ASSUME IInv, [Next]_vars PROVE IInv'
    OBVIOUS
  <2>1. CASE HumanOverride
    BY <2>1 DEF HumanOverride, Read, IInv, TypeOK, MemoryTradesMissesForDenials
  <2>2. CASE ReviewFailure
    BY <2>2 DEF ReviewFailure, Read, IInv, TypeOK, MemoryTradesMissesForDenials
  <2>3. ASSUME NEW beyond \in Scores, NEW destructive \in Scores, NEW expected \in Decisions,
               ToolCall(beyond, destructive, expected)
        PROVE  IInv'
    BY <2>3, ToolCallKeepsBalance
  <2>4. CASE UNCHANGED vars
    BY <2>4 DEF vars, IInv, TypeOK, MemoryTradesMissesForDenials
  <2> QED BY <2>1, <2>2, <2>3, <2>4 DEF Next
<1>3. IInv => MemoryTradesMissesForDenials
  BY DEF IInv
<1> QED BY <1>1, <1>2, <1>3, PTL DEF Spec
=============================================================================
