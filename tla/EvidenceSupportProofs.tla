------------------------ MODULE EvidenceSupportProofs ------------------------
(***************************************************************************)
(* The admission policy for every probability a judge may state, every     *)
(* reliability, and any number of corroborators and ticks: what it accepts *)
(* is earned, and more support never weakens its answer.                   *)
(*                                                                         *)
(* The properties speak of what the judge said and the policy reads what   *)
(* is left of it after rounding, so everything turns on two facts about    *)
(* the rounding: it is monotone, and it crosses a threshold at most half a *)
(* part per million too early.                                             *)
(***************************************************************************)
EXTENDS EvidenceSupport, TLAPS

(* Every answer of the policy is one of its seven. *)
LEMMA AnswerKinds ==
    \A k, confidence, c: Admit(k, confidence, c) \in AdmissionDecision
BY DEF Admit, Graded, AdmissionDecision, Accept, Hold, Reject

(* The three ways a probability is rounded, and the ranges they are for. *)
LEMMA PpmCases ==
    ASSUME NEW p \in Int
    PROVE  \/ p < 0 /\ ProbabilityToPpm(p) = 0
           \/ p > 10000000 /\ ProbabilityToPpm(p) = 1000000
           \/ p >= 0 /\ p <= 10000000 /\ ProbabilityToPpm(p) = (p + 5) \div 10
<1>1. Tenths(PPM) = 10000000
  BY SMT DEF Tenths, PPM
<1>2. PPM = 1000000
  BY SMT DEF PPM
<1>3. CASE p < 0
  <2>1. ~(p > Tenths(PPM))
    BY <1>1, <1>3, SMT
  <2> QED BY <1>3, <2>1 DEF ProbabilityToPpm
<1>4. CASE p > Tenths(PPM)
  <2>1. ~(p < 0)
    BY <1>1, <1>4, SMT
  <2>2. ProbabilityToPpm(p) = PPM
    BY <1>4, <2>1 DEF ProbabilityToPpm
  <2> QED BY <1>1, <1>2, <1>4, <2>2, SMT
<1>5. CASE ~(p < 0) /\ ~(p > Tenths(PPM))
  <2>1. ProbabilityToPpm(p) = (p + 5) \div 10
    BY <1>5 DEF ProbabilityToPpm
  <2> QED BY <1>1, <1>5, <2>1, SMT
<1> QED BY <1>3, <1>4, <1>5

(* A probability becomes a number of parts per million between 0 and PPM. *)
LEMMA PpmRange ==
    ASSUME NEW p \in Int
    PROVE  ProbabilityToPpm(p) \in 0..PPM
<1>1. ProbabilityToPpm(p) \in Int /\ 0 <= ProbabilityToPpm(p) /\ ProbabilityToPpm(p) <= 1000000
  BY PpmCases, SMT
<1>2. PPM \in Int /\ 1000000 <= PPM
  BY SMT DEF PPM
<1> QED BY <1>1, <1>2, SMT

(* Rounding is monotone. *)
LEMMA PpmMonotone ==
    ASSUME NEW p \in Int, NEW q \in Int, p <= q
    PROVE  ProbabilityToPpm(p) <= ProbabilityToPpm(q)
<1>1. \/ p < 0 /\ ProbabilityToPpm(p) = 0
      \/ p > 10000000 /\ ProbabilityToPpm(p) = 1000000
      \/ p >= 0 /\ p <= 10000000 /\ ProbabilityToPpm(p) = (p + 5) \div 10
  BY PpmCases
<1>2. \/ q < 0 /\ ProbabilityToPpm(q) = 0
      \/ q > 10000000 /\ ProbabilityToPpm(q) = 1000000
      \/ q >= 0 /\ q <= 10000000 /\ ProbabilityToPpm(q) = (q + 5) \div 10
  BY PpmCases
<1> QED BY <1>1, <1>2, SMT

(* What passes a threshold after rounding was below it by at most half a   *)
(* part per million before, and the other way round.                       *)
LEMMA RoundingAtThreshold ==
    ASSUME NEW p \in Int, NEW threshold \in Nat, 0 < threshold, threshold <= PPM
    PROVE  ProbabilityToPpm(p) >= threshold <=> AtLeast(p, threshold)
<1>1. threshold \in Int /\ 1 <= threshold /\ threshold <= 1000000
  BY SMT DEF PPM
<1>2. \/ p < 0 /\ ProbabilityToPpm(p) = 0
      \/ p > 10000000 /\ ProbabilityToPpm(p) = 1000000
      \/ p >= 0 /\ p <= 10000000 /\ ProbabilityToPpm(p) = (p + 5) \div 10
  BY PpmCases
<1>3. AtLeast(p, threshold) <=> p >= 10 * threshold - 5
  BY DEF AtLeast, Tenths
<1> QED BY <1>1, <1>2, <1>3, SMT

-----------------------------------------------------------------------------
(* The inductive invariant is TypeOK itself: an adapter submits only what  *)
(* the policy's assertions let through.                                    *)
LEMMA TypeInit == Init => TypeOK
<1> SUFFICES ASSUME Init PROVE TypeOK
  OBVIOUS
<1>1. kind \in EvidenceKind /\ probability \in Probabilities
  BY DEF Init
<1>2. PICK reliability \in Reliabilities, now \in 0..MaxTick, expires \in 0..MaxTick:
          context = [reliability |-> reliability, corroborators |-> 0,
                     now |-> now, expires |-> expires]
  BY DEF Init
<1>3. reliability \in 0..PPM
  BY PpmAssumption
<1>4. now \in Nat /\ expires \in Nat /\ 0 \in Nat
  BY BoundsAssumption
<1>5. context \in AdmissionContext
  BY <1>2, <1>3, <1>4, Zenon DEF AdmissionContext
<1> QED BY <1>1, <1>5, AnswerKinds DEF TypeOK, Answer

LEMMA TypeStep == TypeOK /\ [Next]_vars => TypeOK'
<1> SUFFICES ASSUME TypeOK, [Next]_vars PROVE TypeOK'
  OBVIOUS
<1>1. /\ kind \in EvidenceKind
      /\ probability \in Probabilities
      /\ context \in AdmissionContext
  BY DEF TypeOK
<1>a. Answer' \in AdmissionDecision
  BY AnswerKinds DEF Answer
<1>2. CASE RaiseProbability
  BY <1>1, <1>2, <1>a, Zenon DEF RaiseProbability, Resubmit, TypeOK
<1>3. CASE RaiseReliability
  <2>1. PICK r \in Reliabilities: Resubmit(probability, [context EXCEPT !.reliability = r])
    BY <1>3 DEF RaiseReliability
  <2>2. r \in 0..PPM
    BY PpmAssumption
  <2>3. [context EXCEPT !.reliability = r] \in AdmissionContext
    BY <1>1, <2>2, Zenon DEF AdmissionContext
  <2> QED BY <1>1, <1>a, <2>1, <2>3 DEF Resubmit, TypeOK
<1>4. CASE Corroborate
  <2>1. context.corroborators + 1 \in Nat
    <3>1. context.corroborators \in Nat
      BY <1>1, Zenon DEF AdmissionContext
    <3> QED BY <3>1
  <2>2. [context EXCEPT !.corroborators = @ + 1] \in AdmissionContext
    BY <1>1, <2>1, Zenon DEF AdmissionContext
  <2> QED BY <1>1, <1>4, <1>a, <2>2 DEF Corroborate, Resubmit, TypeOK
<1>5. CASE Tick
  <2>1. context.now + 1 \in Nat
    <3>1. context.now \in Nat
      BY <1>1, Zenon DEF AdmissionContext
    <3> QED BY <3>1
  <2>2. [context EXCEPT !.now = @ + 1] \in AdmissionContext
    BY <1>1, <2>1, Zenon DEF AdmissionContext
  <2> QED BY <1>1, <1>5, <1>a, <2>2 DEF Tick, Resubmit, TypeOK
<1>6. CASE UNCHANGED vars
  BY <1>1, <1>6, <1>a DEF vars, TypeOK
<1> QED BY <1>2, <1>3, <1>4, <1>5, <1>6 DEF Next

(* Type correctness: the adapter never leaves the ranges AdmissionContext's *)
(* constructor asserts, and the policy always has an answer.                *)
THEOREM TypeCorrect == Spec => []TypeOK
BY TypeInit, TypeStep, PTL DEF Spec

-----------------------------------------------------------------------------
(* What each accepted answer went through. *)
LEMMA AcceptedMeans ==
    ASSUME NEW k, NEW confidence, NEW c, IsAccepted(Admit(k, confidence, c))
    PROVE  /\ IsSupported(k)
           /\ ~(c.now > c.expires)
           /\ ~(c.reliability < MinSourceReliability)
           /\ IsStrong(confidence, c) \/ IsCorroborated(confidence, c)
<1>1. /\ "UnsupportedKind" \notin Accept
      /\ "Expired" \notin Accept
      /\ "SourceBelowTrustFloor" \notin Accept
      /\ "NeedsCorroborationOrReview" \notin Accept
      /\ "InsufficientSupport" \notin Accept
  BY DEF Accept
<1>2. IsSupported(k)
  BY <1>1 DEF Admit, IsAccepted
<1>3. ~(c.now > c.expires)
  BY <1>1, <1>2 DEF Admit, IsAccepted
<1>4. Admit(k, confidence, c) = Graded(confidence, c)
  BY <1>2, <1>3 DEF Admit
<1> QED BY <1>1, <1>2, <1>3, <1>4 DEF Graded, IsAccepted

(* Acceptance is earned: whatever the judge says, what the policy accepts  *)
(* passed every gate, and the rounding forgave at most half a part per     *)
(* million.                                                                *)
LEMMA TypeEarns == TypeOK => AcceptanceIsEarned
<1> SUFFICES ASSUME TypeOK, IsAccepted(Answer)
             PROVE  /\ kind /= "Unsupported"
                    /\ context.now <= context.expires
                    /\ AtLeast(probability, CorroboratedConfidence)
                    /\ context.reliability >= CorroboratedReliability
                    /\ (\/ ~AtLeast(probability, StrongConfidence)
                        \/ context.reliability < StrongReliability)
                          => context.corroborators >= MinCorroborators
  BY DEF AcceptanceIsEarned
<1> DEFINE confidence == ProbabilityToPpm(probability)
<1>1. /\ IsSupported(kind)
      /\ ~(context.now > context.expires)
      /\ IsStrong(confidence, context) \/ IsCorroborated(confidence, context)
  BY AcceptedMeans DEF Answer
<1>2. context.now \in Nat /\ context.expires \in Nat /\ context.reliability \in Int
  <2>1. context.now \in Nat /\ context.expires \in Nat /\ context.reliability \in 0..PPM
    BY Zenon DEF TypeOK, AdmissionContext
  <2>2. PPM \in Int
    BY SMT DEF PPM
  <2> QED BY <2>1, <2>2
<1>3. probability \in Int
  BY ProbabilitiesAssumption DEF TypeOK
<1>4. confidence \in Int
  <2>1. confidence \in 0..PPM
    BY <1>3, PpmRange
  <2>2. PPM \in Int
    BY SMT DEF PPM
  <2> QED BY <2>1, <2>2
<1>5. /\ confidence >= CorroboratedConfidence <=> AtLeast(probability, CorroboratedConfidence)
      /\ confidence >= StrongConfidence <=> AtLeast(probability, StrongConfidence)
  <2>1. /\ CorroboratedConfidence \in Nat
        /\ 0 < CorroboratedConfidence
        /\ CorroboratedConfidence <= PPM
    BY SMT DEF CorroboratedConfidence, PPM
  <2>2. /\ StrongConfidence \in Nat
        /\ 0 < StrongConfidence
        /\ StrongConfidence <= PPM
    BY SMT DEF StrongConfidence, PPM
  <2> QED BY <1>3, <2>1, <2>2, RoundingAtThreshold
<1>6. /\ CorroboratedConfidence \in Nat /\ StrongConfidence \in Nat
      /\ CorroboratedConfidence <= StrongConfidence
      /\ CorroboratedReliability \in Nat /\ StrongReliability \in Nat
      /\ CorroboratedReliability <= StrongReliability
  BY SMT DEF CorroboratedConfidence, StrongConfidence, CorroboratedReliability,
             StrongReliability
<1>7. kind /= "Unsupported"
  BY <1>1 DEF IsSupported
<1> HIDE DEF confidence
<1> QED BY <1>1, <1>2, <1>4, <1>5, <1>6, <1>7 DEF IsStrong, IsCorroborated

THEOREM EarningHolds == Spec => []AcceptanceIsEarned
BY TypeCorrect, TypeEarns, PTL
-----------------------------------------------------------------------------
(* An answer's rank is a number, and it is the answer's family. *)
LEMMA RankOf ==
    ASSUME NEW decision \in AdmissionDecision
    PROVE  /\ decision \in Reject => Rank(decision) = 0
           /\ decision \in Hold => Rank(decision) = 1
           /\ decision \in Accept => Rank(decision) = 2
           /\ Rank(decision) \in {0, 1, 2}
<1>1. /\ decision \in Hold => decision \notin Reject
      /\ decision \in Accept => decision \notin Reject /\ decision \notin Hold
  BY DEF Accept, Hold, Reject
<1> QED BY <1>1 DEF Rank

(* With the clock still, more confidence, more reliability and more         *)
(* corroborators never lower the rank: no test of the normative order       *)
(* shadows a later one.                                                     *)
LEMMA AdmitMonotone ==
    ASSUME NEW k,
           NEW confidence \in Int, NEW more \in Int, confidence <= more,
           NEW c \in AdmissionContext, NEW better \in AdmissionContext,
           better.now = c.now, better.expires = c.expires,
           better.reliability >= c.reliability,
           better.corroborators >= c.corroborators
    PROVE  Rank(Admit(k, more, better))
             >= Rank(Admit(k, confidence, c))
<1>1. /\ c.reliability \in Int /\ better.reliability \in Int
      /\ c.corroborators \in Int /\ better.corroborators \in Int
  <2>1. /\ c.reliability \in 0..PPM /\ better.reliability \in 0..PPM
        /\ c.corroborators \in Nat /\ better.corroborators \in Nat
    BY Zenon DEF AdmissionContext
  <2>2. PPM \in Int
    BY SMT DEF PPM
  <2> QED BY <2>1, <2>2
<1>2. CASE ~IsSupported(k)
  <2>1. /\ Admit(k, confidence, c) = "UnsupportedKind"
        /\ Admit(k, more, better) = "UnsupportedKind"
    BY <1>2 DEF Admit
  <2>2. Rank("UnsupportedKind") = 0
    BY DEF Rank, Reject
  <2> QED BY <2>1, <2>2
<1>3. CASE IsSupported(k) /\ c.now > c.expires
  <2>1. /\ Admit(k, confidence, c) = "Expired"
        /\ Admit(k, more, better) = "Expired"
    BY <1>3 DEF Admit
  <2>2. Rank("Expired") = 0
    BY DEF Rank, Reject
  <2> QED BY <2>1, <2>2
<1>4. CASE IsSupported(k) /\ ~(c.now > c.expires)
  <2> DEFINE less == Graded(confidence, c)
             high == Graded(more, better)
  <2>1. Admit(k, confidence, c) = less /\ Admit(k, more, better) = high
    BY <1>4 DEF Admit
  <2>2. less \in AdmissionDecision /\ high \in AdmissionDecision
    BY <2>1, AnswerKinds
  <2>3. /\ MinSourceReliability \in Int /\ StrongReliability \in Int
        /\ CorroboratedReliability \in Int /\ MinCorroborators \in Int
        /\ StrongConfidence \in Int /\ CorroboratedConfidence \in Int
        /\ MinReviewConfidence \in Int
    BY SMT DEF MinSourceReliability, StrongReliability, CorroboratedReliability,
               MinCorroborators, StrongConfidence, CorroboratedConfidence,
               MinReviewConfidence
  <2>4. c.reliability >= MinSourceReliability => better.reliability >= MinSourceReliability
    BY <1>1, <2>3
  <2>5. IsStrong(confidence, c) => IsStrong(more, better)
    BY <1>1, <2>3 DEF IsStrong
  <2>6. IsCorroborated(confidence, c) => IsCorroborated(more, better)
    BY <1>1, <2>3 DEF IsCorroborated
  <2>7. confidence >= MinReviewConfidence => more >= MinReviewConfidence
    BY <2>3
  <2>8. CASE less \in Reject
    BY <2>1, <2>2, <2>8, RankOf
  <2>9. CASE less \in Hold
    <3>1. ~(c.reliability < MinSourceReliability) /\ confidence >= MinReviewConfidence
      BY <2>9 DEF Graded, Hold
    <3>2. high \in Accept \cup Hold
      <4>1. ~(better.reliability < MinSourceReliability)
        BY <1>1, <2>3, <2>4, <3>1
      <4> QED BY <2>7, <3>1, <4>1 DEF Graded, Accept, Hold
    <3> QED BY <2>1, <2>2, <2>9, <3>2, RankOf
  <2>10. CASE less \in Accept
    <3>1. /\ ~(c.reliability < MinSourceReliability)
          /\ IsStrong(confidence, c) \/ IsCorroborated(confidence, c)
      BY <2>10 DEF Graded, Accept
    <3>2. high \in Accept
      <4>1. ~(better.reliability < MinSourceReliability)
        BY <1>1, <2>3, <2>4, <3>1
      <4> QED BY <2>5, <2>6, <3>1, <4>1 DEF Graded, Accept
    <3> QED BY <2>1, <2>2, <2>10, <3>2, RankOf
  <2> QED BY <2>2, <2>8, <2>9, <2>10 DEF AdmissionDecision
<1> QED BY <1>2, <1>3, <1>4

(* When the answer is "Expired", and that nothing but the clock matters for *)
(* it; and what the clock alone can do to an answer.                        *)
LEMMA ExpiredMeans ==
    ASSUME NEW k, NEW confidence, NEW c
    PROVE  Admit(k, confidence, c) = "Expired" <=> IsSupported(k) /\ c.now > c.expires
BY DEF Admit, Graded

LEMMA LaterAnswer ==
    ASSUME NEW k, NEW confidence, NEW c \in AdmissionContext, NEW later \in AdmissionContext,
           later.reliability = c.reliability, later.corroborators = c.corroborators,
           later.expires = c.expires, later.now > c.now
    PROVE  Admit(k, confidence, later) \in {Admit(k, confidence, c), "Expired"}
<1>1. c.now \in Nat /\ c.expires \in Nat /\ later.now \in Nat
  BY Zenon DEF AdmissionContext
<1>2. Graded(confidence, later) = Graded(confidence, c)
  BY DEF Graded, IsStrong, IsCorroborated
<1>3. CASE ~IsSupported(k)
  BY <1>3 DEF Admit
<1>4. CASE IsSupported(k) /\ later.now > later.expires
  BY <1>4 DEF Admit
<1>5. CASE IsSupported(k) /\ ~(later.now > later.expires)
  <2>1. ~(c.now > c.expires)
    BY <1>1, <1>5
  <2> QED BY <1>2, <1>5, <2>1 DEF Admit
<1> QED BY <1>3, <1>4, <1>5

(* Every re-submission either leaves the clock alone and adds support, or   *)
(* only moves the clock.                                                    *)
LEMMA StepSupports ==
    ASSUME TypeOK, TypeOK', Next
    PROVE  /\ kind' = kind
           /\ context'.expires = context.expires
           /\ \/ /\ context'.now = context.now
                 /\ probability' >= probability
                 /\ context'.reliability >= context.reliability
                 /\ context'.corroborators >= context.corroborators
              \/ /\ context'.now > context.now
                 /\ probability' = probability
                 /\ context'.reliability = context.reliability
                 /\ context'.corroborators = context.corroborators
<1>1. context \in AdmissionContext /\ probability \in Int
  BY ProbabilitiesAssumption DEF TypeOK
<1>2. /\ context.reliability \in 0..PPM /\ context.corroborators \in Nat
      /\ context.now \in Nat
  BY <1>1, Zenon DEF AdmissionContext
<1>3. context.reliability \in Int
  <2>1. PPM \in Int
    BY SMT DEF PPM
  <2> QED BY <1>2, <2>1
<1>5. CASE RaiseProbability
  <2>1. PICK p \in Probabilities: p > probability /\ Resubmit(p, context)
    BY <1>5 DEF RaiseProbability
  <2>2. p \in Int
    BY ProbabilitiesAssumption
  <2> QED BY <1>1, <1>2, <1>3, <2>1, <2>2 DEF Resubmit
<1>6. CASE RaiseReliability
  <2>1. PICK r \in Reliabilities:
            /\ r > context.reliability
            /\ Resubmit(probability, [context EXCEPT !.reliability = r])
    BY <1>6 DEF RaiseReliability
  <2>2. r \in Int
    <3>1. r \in 0..PPM
      BY PpmAssumption
    <3>2. PPM \in Int
      BY SMT DEF PPM
    <3> QED BY <3>1, <3>2
  <2>3. /\ context'.reliability = r
        /\ context'.corroborators = context.corroborators
        /\ context'.now = context.now
        /\ context'.expires = context.expires
    BY <1>1, <2>1, Zenon DEF Resubmit, AdmissionContext
  <2> QED BY <1>1, <1>2, <1>3, <2>1, <2>2, <2>3 DEF Resubmit
<1>7. CASE Corroborate
  <2>1. Resubmit(probability, [context EXCEPT !.corroborators = @ + 1])
    BY <1>7 DEF Corroborate
  <2>2. /\ context'.corroborators = context.corroborators + 1
        /\ context'.reliability = context.reliability
        /\ context'.now = context.now
        /\ context'.expires = context.expires
    BY <1>1, <2>1, Zenon DEF Resubmit, AdmissionContext
  <2> QED BY <1>1, <1>2, <1>3, <2>1, <2>2 DEF Resubmit
<1>8. CASE Tick
  <2>1. Resubmit(probability, [context EXCEPT !.now = @ + 1])
    BY <1>8 DEF Tick
  <2>2. /\ context'.now = context.now + 1
        /\ context'.reliability = context.reliability
        /\ context'.corroborators = context.corroborators
        /\ context'.expires = context.expires
    BY <1>1, <2>1, Zenon DEF Resubmit, AdmissionContext
  <2> QED BY <1>2, <2>1, <2>2 DEF Resubmit
<1> QED BY <1>5, <1>6, <1>7, <1>8 DEF Next

(* Support is monotone: no re-submission with more support is answered      *)
(* worse, time only takes answers away, and an expired candidate stays      *)
(* rejected whatever the adapter adds.                                      *)
THEOREM SupportHolds == Spec => SupportIsMonotone
<1> DEFINE A == /\ context'.now = context.now => Rank(Answer') >= Rank(Answer)
                /\ context'.now > context.now => Answer' \in {Answer, "Expired"}
                /\ Answer = "Expired" => Answer' = "Expired"
<1>1. TypeOK /\ TypeOK' /\ [Next]_vars => [A]_vars
  <2> SUFFICES ASSUME TypeOK, TypeOK', Next PROVE A
    OBVIOUS
  <2> DEFINE confidence == ProbabilityToPpm(probability)
  <2>1. /\ context \in AdmissionContext /\ context' \in AdmissionContext
        /\ probability \in Int /\ probability' \in Int
    BY ProbabilitiesAssumption DEF TypeOK
  <2>2. context.now \in Nat /\ context'.now \in Nat /\ context.expires \in Nat
    BY <2>1, Zenon DEF AdmissionContext
  <2>3. confidence \in Int /\ confidence' \in Int
    <3>1. confidence \in 0..PPM /\ confidence' \in 0..PPM
      BY <2>1, PpmRange
    <3>2. PPM \in Int
      BY SMT DEF PPM
    <3> QED BY <3>1, <3>2
  <2>4. Answer = Admit(kind, confidence, context)
    BY DEF Answer
  <2>5. kind' = kind /\ context'.expires = context.expires
    BY StepSupports
  <2>6. Answer' = Admit(kind, confidence', context')
    BY <2>5 DEF Answer
  <2>7. CASE /\ context'.now = context.now
             /\ probability' >= probability
             /\ context'.reliability >= context.reliability
             /\ context'.corroborators >= context.corroborators
    <3>1. confidence <= confidence'
      BY <2>1, <2>7, PpmMonotone
    <3> HIDE DEF confidence
    <3>2. Rank(Answer') >= Rank(Answer)
      BY <2>1, <2>3, <2>4, <2>5, <2>6, <2>7, <3>1, AdmitMonotone
    <3>3. Answer = "Expired" => Answer' = "Expired"
      BY <2>4, <2>5, <2>6, <2>7, ExpiredMeans
    <3> QED BY <2>2, <2>7, <3>2, <3>3
  <2>8. CASE /\ context'.now > context.now
             /\ probability' = probability
             /\ context'.reliability = context.reliability
             /\ context'.corroborators = context.corroborators
    <3>1. confidence' = confidence
      BY <2>8 DEF ProbabilityToPpm
    <3> HIDE DEF confidence
    <3>2. Answer' \in {Answer, "Expired"}
      BY <2>1, <2>4, <2>5, <2>6, <2>8, <3>1, LaterAnswer
    <3> QED BY <2>2, <2>8, <3>2
  <2> QED BY <2>7, <2>8, StepSupports
<1> HIDE DEF A
<1>2. SupportIsMonotone <=> [][A]_vars
  BY DEF SupportIsMonotone, A
<1> QED BY <1>1, <1>2, TypeCorrect, PTL DEF Spec
=============================================================================
