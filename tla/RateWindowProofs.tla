--------------------------- MODULE RateWindowProofs ---------------------------
(***************************************************************************)
(* The request limit for every limit, window length and horizon.           *)
(*                                                                         *)
(* A property of any minute does not follow from the present window alone. *)
(* The inductive invariant says what the counter stands for (exactly what  *)
(* was served since the window opened) and what the window before left     *)
(* behind: whatever was served less than a window's length before the      *)
(* present one opened is at most the limit.  Any minute then lies within   *)
(* the present window and that remainder.                                  *)
(***************************************************************************)
EXTENDS RateWindow, TLAPS, FiniteSetTheorems, SequenceTheorems

Answered == [at: 0..MaxTime, status: {200, 401, 429}]

(* The places of the requests served between two times, of those served    *)
(* before a time, and of those still within a window's length.             *)
ServedOf(log, first, last) ==
    {i \in 1..Len(log): log[i].status = 200 /\ first <= log[i].at /\ log[i].at <= last}
ServedBefore(log, first, end) ==
    {i \in 1..Len(log): log[i].status = 200 /\ first <= log[i].at /\ log[i].at < end}
Recent(log, i) ==
    {j \in 1..(i - 1): log[j].status = 200 /\ log[j].at + Window > log[i].at}

InOrder == \A i \in 1..Len(answers): answers[i].at <= now
ServedInWindow ==
    \A i \in 1..Len(answers): answers[i].status = 200 => answers[i].at < started + Window
CountIsServed == count = Cardinality(ServedOf(answers, started, now))
RemainderIsBounded ==
    \A first \in 0..now: first + Window > started =>
        Cardinality(ServedBefore(answers, first, started)) <= Limit

IInv ==
    /\ TypeOK
    /\ InOrder
    /\ ServedInWindow
    /\ CountIsServed
    /\ RemainderIsBounded
    /\ AtMostTwiceTheLimit
    /\ RefusedOnlyWhenSpent

-----------------------------------------------------------------------------
(* A set of places of a log is finite, so it has a size, and a smaller set  *)
(* has no larger one.                                                       *)
LEMMA PlacesFinite ==
    ASSUME NEW n \in Nat, NEW S \in SUBSET (1..n)
    PROVE  IsFiniteSet(S) /\ Cardinality(S) \in Nat
<1>1. IsFiniteSet(1..n)
  BY FS_Interval
<1>2. IsFiniteSet(S)
  BY <1>1, FS_Subset
<1> QED BY <1>2, FS_CardinalityType

LEMMA FewerPlaces ==
    ASSUME NEW n \in Nat, NEW S \in SUBSET (1..n), NEW T \in SUBSET S
    PROVE  Cardinality(T) <= Cardinality(S)
BY PlacesFinite, FS_Subset

LEMMA ServedSize ==
    ASSUME NEW log \in Seq(Answered), NEW first, NEW last
    PROVE  /\ IsFiniteSet(ServedOf(log, first, last))
           /\ Cardinality(ServedOf(log, first, last)) \in Nat
           /\ IsFiniteSet(ServedBefore(log, first, last))
           /\ Cardinality(ServedBefore(log, first, last)) \in Nat
<1>1. Len(log) \in Nat
  OBVIOUS
<1>2. /\ ServedOf(log, first, last) \in SUBSET (1..Len(log))
      /\ ServedBefore(log, first, last) \in SUBSET (1..Len(log))
  BY DEF ServedOf, ServedBefore
<1> QED BY <1>1, <1>2, PlacesFinite

(* One more answer adds its own place, where it counts, and nothing else. *)
LEMMA ServedAppend ==
    ASSUME NEW log \in Seq(Answered), NEW a \in Answered, NEW first \in Int, NEW last \in Int
    PROVE  /\ a.status = 200 /\ first <= a.at /\ a.at <= last =>
                /\ ServedOf(Append(log, a), first, last) =
                     ServedOf(log, first, last) \cup {Len(log) + 1}
                /\ Cardinality(ServedOf(Append(log, a), first, last)) =
                     Cardinality(ServedOf(log, first, last)) + 1
           /\ ~(a.status = 200 /\ first <= a.at /\ a.at <= last) =>
                ServedOf(Append(log, a), first, last) = ServedOf(log, first, last)
           /\ ~(a.at < last) =>
                ServedBefore(Append(log, a), first, last) = ServedBefore(log, first, last)
<1> DEFINE longer == Append(log, a)
<1>1. Len(log) \in Nat /\ Len(longer) = Len(log) + 1
  OBVIOUS
<1>2. /\ \A i \in 1..Len(log): longer[i] = log[i]
      /\ longer[Len(log) + 1] = a
  OBVIOUS
<1>3. 1..Len(longer) = (1..Len(log)) \cup {Len(log) + 1} /\ Len(log) + 1 \notin 1..Len(log)
  BY <1>1
<1>4. ASSUME a.status = 200, first <= a.at, a.at <= last
      PROVE  /\ ServedOf(longer, first, last) = ServedOf(log, first, last) \cup {Len(log) + 1}
             /\ Cardinality(ServedOf(longer, first, last)) =
                  Cardinality(ServedOf(log, first, last)) + 1
  <2>1. ServedOf(longer, first, last) = ServedOf(log, first, last) \cup {Len(log) + 1}
    BY <1>2, <1>3, <1>4, SMT DEF ServedOf
  <2>2. Len(log) + 1 \notin ServedOf(log, first, last)
    BY <1>3, Zenon DEF ServedOf
  <2> QED BY <2>1, <2>2, ServedSize, FS_AddElement
<1>5. ASSUME ~(a.status = 200 /\ first <= a.at /\ a.at <= last)
      PROVE  ServedOf(longer, first, last) = ServedOf(log, first, last)
  BY <1>2, <1>3, <1>5, SMT DEF ServedOf
<1>6. ASSUME ~(a.at < last)
      PROVE  ServedBefore(longer, first, last) = ServedBefore(log, first, last)
  <2>1. \A i: i \in ServedBefore(longer, first, last) <=> i \in ServedBefore(log, first, last)
    <3> TAKE i
    <3>1. CASE i \in 1..Len(log)
      BY <1>2, <1>3, <3>1, SMT DEF ServedBefore
    <3>2. CASE i = Len(log) + 1
      BY <1>2, <1>3, <1>6, <3>2, SMT DEF ServedBefore
    <3>3. CASE i \notin 1..Len(longer)
      BY <1>3, <3>3, SMT DEF ServedBefore
    <3> QED BY <1>3, <3>1, <3>2, <3>3
  <2> QED BY <2>1, SMT DEF ServedBefore
<1> QED BY <1>4, <1>5, <1>6

(* The log of a state, in the terms of the module. *)
LEMMA ServedIs ==
    /\ \A first, last:
         ServedBetween(first, last) = Cardinality(ServedOf(answers, first, last))
    /\ \A first, last:
         ServedBetween(first, last)' = Cardinality(ServedOf(answers', first, last))
BY DEF ServedBetween, ServedOf

LEMMA RefusedIs ==
    RefusedOnlyWhenSpent <=>
        \A i \in 1..Len(answers):
            answers[i].status = 429 => Cardinality(Recent(answers, i)) >= Limit
BY DEF RefusedOnlyWhenSpent, Recent

(* The types the arithmetic needs. *)
LEMMA Numbers ==
    ASSUME TypeOK
    PROVE  /\ now \in Nat /\ started \in Nat /\ count \in Nat
           /\ started <= now /\ count <= Limit /\ now <= MaxTime
           /\ Limit \in Nat /\ Limit > 0 /\ Window \in Nat /\ Window > 0
           /\ MaxTime \in Nat
           /\ answers \in Seq(Answered) /\ Len(answers) \in Nat
<1>1. answers \in Seq(Answered)
  BY Zenon DEF TypeOK, Answered
<1> QED BY <1>1, LimitAssumption, WindowAssumption, BoundsAssumption DEF TypeOK

LEMMA AnswerOf ==
    ASSUME TypeOK, NEW i \in 1..Len(answers)
    PROVE  answers[i] \in Answered /\ answers[i].at \in Nat /\ i \in Nat
<1>1. answers[i] \in Answered
  BY Numbers
<1>2. answers[i].at \in 0..MaxTime
  BY <1>1, Zenon DEF Answered
<1> QED BY <1>1, <1>2, Numbers

-----------------------------------------------------------------------------
LEMMA IInvInit == Init => IInv
<1> SUFFICES ASSUME Init PROVE IInv
  OBVIOUS
<1>0. now = 0 /\ started = 0 /\ count = 0 /\ answers = <<>>
  BY DEF Init
<1>1. TypeOK
  BY <1>0, LimitAssumption, BoundsAssumption DEF TypeOK
<1>2. Len(answers) = 0
  BY <1>0
<1>3. /\ ServedOf(answers, started, now) = {}
      /\ \A first: ServedBefore(answers, first, started) = {}
      /\ \A first, last: ServedOf(answers, first, last) = {}
  BY <1>2 DEF ServedOf, ServedBefore
<1>4. Cardinality({}) = 0
  BY FS_EmptySet
<1>5. InOrder /\ ServedInWindow /\ RefusedOnlyWhenSpent
  BY <1>2 DEF InOrder, ServedInWindow, RefusedOnlyWhenSpent
<1>6. CountIsServed
  BY <1>0, <1>3, <1>4 DEF CountIsServed
<1>7. RemainderIsBounded
  BY <1>3, <1>4, LimitAssumption DEF RemainderIsBounded
<1>8. AtMostTwiceTheLimit
  BY <1>3, <1>4, LimitAssumption, ServedIs DEF AtMostTwiceTheLimit
<1> QED BY <1>1, <1>5, <1>6, <1>7, <1>8 DEF IInv

(* The clock: a later window has nothing served in it yet. *)
LEMMA TickStep == IInv /\ Tick => IInv'
<1> SUFFICES ASSUME IInv, Tick PROVE IInv'
  OBVIOUS
<1>0. /\ now < MaxTime /\ now' = now + 1
      /\ started' = started /\ count' = count /\ answers' = answers
  BY DEF Tick
<1>t. TypeOK
  BY DEF IInv
<1>n. /\ now \in Nat /\ started \in Nat /\ started <= now /\ MaxTime \in Nat
      /\ Limit \in Nat /\ Window \in Nat /\ answers \in Seq(Answered)
  BY <1>t, Numbers
<1>1. TypeOK'
  BY <1>0, <1>n, <1>t DEF TypeOK
<1>2. \A i \in 1..Len(answers): answers[i].at \in Nat /\ answers[i].at <= now
  BY <1>t, AnswerOf DEF IInv, InOrder
<1>3. InOrder'
  BY <1>0, <1>2, <1>n DEF InOrder
<1>4. ServedInWindow'
  BY <1>0 DEF ServedInWindow, IInv
<1>5. CountIsServed'
  <2>1. ServedOf(answers, started, now + 1) = ServedOf(answers, started, now)
    BY <1>2, <1>n DEF ServedOf
  <2> QED BY <1>0, <2>1 DEF CountIsServed, IInv
<1>6. /\ ServedBefore(answers, now + 1, started) = {}
      /\ ServedOf(answers, now + 1, now + 1 + (Window - 1)) = {}
  BY <1>2, <1>n DEF ServedBefore, ServedOf
<1>7. RemainderIsBounded'
  <2> SUFFICES ASSUME NEW first \in 0..(now + 1), first + Window > started
               PROVE  Cardinality(ServedBefore(answers, first, started)) <= Limit
    BY <1>0 DEF RemainderIsBounded
  <2>1. CASE first \in 0..now
    BY <2>1 DEF RemainderIsBounded, IInv
  <2>2. CASE first = now + 1
    <3>1. Cardinality(ServedBefore(answers, first, started)) = 0
      BY <1>6, <2>2, FS_EmptySet
    <3> QED BY <1>n, <3>1
  <2> QED BY <1>n, <2>1, <2>2
<1>8. AtMostTwiceTheLimit'
  <2>0. \A first, last: ServedBetween(first, last)' = ServedBetween(first, last)
    BY <1>0 DEF ServedBetween
  <2> SUFFICES ASSUME NEW first \in 0..(now + 1)
               PROVE  ServedBetween(first, first + (Window - 1)) <= 2 * Limit
    BY <1>0, <2>0 DEF AtMostTwiceTheLimit
  <2>1. CASE first \in 0..now
    BY <2>1 DEF AtMostTwiceTheLimit, IInv
  <2>2. CASE first = now + 1
    <3>1. ServedBetween(first, first + (Window - 1)) = 0
      BY <1>6, <2>2, ServedIs, FS_EmptySet
    <3> QED BY <1>n, <3>1
  <2> QED BY <1>n, <2>1, <2>2
<1>9. RefusedOnlyWhenSpent'
  BY <1>0 DEF RefusedOnlyWhenSpent, IInv
<1> QED BY <1>1, <1>3, <1>4, <1>5, <1>7, <1>8, <1>9 DEF IInv

(* The types after an answer, whatever its status. *)
LEMMA AnswerAppends ==
    ASSUME IInv, NEW status \in {200, 401, 429}, Answer(status), UNCHANGED now
    PROVE  /\ answers' = Append(answers, [at |-> now, status |-> status])
           /\ answers' \in Seq([at: 0..MaxTime, status: {200, 401, 429}])
           /\ [at |-> now, status |-> status] \in Answered
           /\ Len(answers') = Len(answers) + 1
           /\ \A i \in 1..Len(answers): answers'[i] = answers[i]
           /\ answers'[Len(answers) + 1] = [at |-> now, status |-> status]
           /\ 1..Len(answers') = (1..Len(answers)) \cup {Len(answers) + 1}
           /\ InOrder'
<1>t. TypeOK
  BY DEF IInv
<1>n. now \in 0..MaxTime /\ answers \in Seq(Answered) /\ Len(answers) \in Nat /\ now \in Nat
  BY <1>t, Numbers DEF TypeOK
<1> DEFINE a == [at |-> now, status |-> status]
<1>1. a \in Answered
  <2>1. now \in 0..MaxTime /\ status \in {200, 401, 429}
    BY <1>n
  <2> QED BY <2>1 DEF Answered
<1>2. answers' = Append(answers, a)
  BY DEF Answer
<1>3. answers' \in Seq(Answered)
  BY <1>1, <1>2, <1>n
<1>4. /\ Len(answers') = Len(answers) + 1
      /\ \A i \in 1..Len(answers): answers'[i] = answers[i]
      /\ answers'[Len(answers) + 1] = a
  BY <1>2, <1>n
<1>5. 1..Len(answers') = (1..Len(answers)) \cup {Len(answers) + 1}
  BY <1>4, <1>n
<1>6. InOrder'
  <2>1. a.at <= now
    BY <1>n
  <2> QED BY <1>4, <1>5, <2>1 DEF InOrder, IInv
<1> QED BY <1>1, <1>2, <1>3, <1>4, <1>5, <1>6 DEF Answered

(* What was refused before a new answer stays explained as it was. *)
LEMMA RecentKept ==
    ASSUME IInv, NEW status \in {200, 401, 429}, Answer(status), UNCHANGED now,
           NEW i \in 1..Len(answers)
    PROVE  Recent(answers', i) = Recent(answers, i)
<1>1. \A j \in 1..Len(answers): answers'[j] = answers[j]
  BY AnswerAppends
<1>2. 1..(i - 1) \subseteq 1..Len(answers)
  BY Numbers DEF IInv
<1> QED BY <1>1, <1>2 DEF Recent
(* A refusal, whether for want of a token or of room, uses up nothing: no   *)
(* window is opened by it and no slot is taken.                             *)
LEMMA RefusalStep ==
    ASSUME IInv, NEW status \in {401, 429}, Answer(status),
           UNCHANGED <<now, started, count>>,
           status = 429 => count >= Limit /\ ~RunOut
    PROVE  IInv'
<1> DEFINE a == [at |-> now, status |-> status]
<1>0. status \in {200, 401, 429} /\ a.status /= 200 /\ a.at = now
  OBVIOUS
<1>t. TypeOK
  BY DEF IInv
<1>n. /\ now \in Nat /\ started \in Nat /\ started <= now /\ count \in Nat
      /\ Limit \in Nat /\ Window \in Nat
      /\ answers \in Seq(Answered) /\ Len(answers) \in Nat
  BY <1>t, Numbers
<1>1. /\ answers' = Append(answers, a)
      /\ answers' \in Seq([at: 0..MaxTime, status: {200, 401, 429}])
      /\ a \in Answered
      /\ Len(answers') = Len(answers) + 1
      /\ \A i \in 1..Len(answers): answers'[i] = answers[i]
      /\ answers'[Len(answers) + 1] = a
      /\ 1..Len(answers') = (1..Len(answers)) \cup {Len(answers) + 1}
      /\ InOrder'
  BY <1>0, AnswerAppends
<1>2. TypeOK'
  BY <1>1, <1>t DEF TypeOK
<1>3. ServedInWindow'
  BY <1>0, <1>1 DEF ServedInWindow, IInv
<1>4. \A first, last \in Int:
          ServedOf(answers', first, last) = ServedOf(answers, first, last)
  BY <1>0, <1>1, <1>n, ServedAppend
<1>5. CountIsServed'
  BY <1>4, <1>n DEF CountIsServed, IInv
<1>6. RemainderIsBounded'
  <2>1. \A first \in Int:
            ServedBefore(answers', first, started) = ServedBefore(answers, first, started)
    BY <1>0, <1>1, <1>n, ServedAppend
  <2> QED BY <1>n, <2>1 DEF RemainderIsBounded, IInv
<1>7. AtMostTwiceTheLimit'
  <2>1. \A first \in 0..now: first + (Window - 1) \in Int
    BY <1>n
  <2>2. \A first \in 0..now:
            ServedBetween(first, first + (Window - 1))' = ServedBetween(first, first + (Window - 1))
    BY <1>4, <2>1, ServedIs
  <2> QED BY <2>2 DEF AtMostTwiceTheLimit, IInv
<1>8. RefusedOnlyWhenSpent'
  <2>1. ASSUME NEW i \in 1..Len(answers'), answers'[i].status = 429
        PROVE  Cardinality(Recent(answers', i)) >= Limit
    <3>1. CASE i \in 1..Len(answers)
      <4>1. Recent(answers', i) = Recent(answers, i)
        BY <1>0, <3>1, RecentKept
      <4> QED BY <1>1, <2>1, <3>1, <4>1, RefusedIs DEF IInv
    <3>2. CASE i = Len(answers) + 1
      <4>1. status = 429
        BY <1>1, <2>1, <3>2
      <4>2. started + Window > now
        BY <1>n, <4>1 DEF RunOut
      <4>3. ServedOf(answers, started, now) \subseteq Recent(answers', i)
        <5>1. i - 1 = Len(answers) /\ answers'[i].at = now
          BY <1>1, <1>n, <3>2
        <5>2. ASSUME NEW j \in ServedOf(answers, started, now)
              PROVE  j \in Recent(answers', i)
          <6>1. j \in 1..Len(answers) /\ answers[j].status = 200 /\ started <= answers[j].at
            BY DEF ServedOf
          <6>2. answers[j].at \in Nat
            BY <1>t, <6>1, AnswerOf
          <6>3. answers'[j] = answers[j]
            BY <1>1, <6>1
          <6>4. answers'[j].at + Window > answers'[i].at
            BY <1>n, <4>2, <5>1, <6>1, <6>2, <6>3
          <6> QED BY <5>1, <6>1, <6>3, <6>4 DEF Recent
        <5> QED BY <5>2
      <4>4. Recent(answers', i) \in SUBSET (1..Len(answers))
        BY <1>n, <3>2 DEF Recent
      <4>5. Cardinality(ServedOf(answers, started, now)) <= Cardinality(Recent(answers', i))
        BY <1>n, <4>3, <4>4, FewerPlaces
      <4>6. Cardinality(Recent(answers', i)) \in Nat
        BY <1>n, <4>4, PlacesFinite
      <4> QED BY <1>n, <4>1, <4>5, <4>6 DEF CountIsServed, IInv
    <3> QED BY <1>1, <3>1, <3>2
  <2> QED BY <2>1, RefusedIs DEF RefusedOnlyWhenSpent, Recent
<1> QED BY <1>1, <1>2, <1>3, <1>5, <1>6, <1>7, <1>8 DEF IInv
(* What a window that has run out has seen, it has seen before its end: at  *)
(* a request that finds it run out, nothing was served at this very time.   *)
LEMMA NothingServedNow ==
    ASSUME IInv, RunOut
    PROVE  ServedOf(answers, now, now) = {}
<1>1. /\ now \in Nat /\ started \in Nat /\ Window \in Nat
  BY Numbers DEF IInv
<1>2. ASSUME NEW i \in 1..Len(answers), answers[i].status = 200, now <= answers[i].at
      PROVE  FALSE
  <2>1. answers[i].at \in Nat /\ answers[i].at < started + Window
    BY <1>2, AnswerOf DEF IInv, ServedInWindow
  <2> QED BY <1>1, <1>2, <2>1 DEF RunOut
<1> QED BY <1>2 DEF ServedOf

(* A request that is served: any window's length that reaches the present   *)
(* splits at the opening of the present window.                             *)
LEMMA ServeStep == IInv /\ Serve => IInv'
<1> SUFFICES ASSUME IInv, Serve PROVE IInv'
  OBVIOUS
<1> DEFINE a == [at |-> now, status |-> 200]
<1>0. /\ CountBefore < Limit /\ started' = StartedAfter /\ count' = CountBefore + 1
      /\ Answer(200) /\ now' = now
  BY DEF Serve, Room
<1>t. TypeOK
  BY DEF IInv
<1>n. /\ now \in Nat /\ started \in Nat /\ started <= now /\ count \in Nat /\ count <= Limit
      /\ Limit \in Nat /\ Limit > 0 /\ Window \in Nat /\ Window > 0
      /\ answers \in Seq(Answered) /\ Len(answers) \in Nat
  BY <1>t, Numbers
<1>1. /\ answers' = Append(answers, a)
      /\ answers' \in Seq([at: 0..MaxTime, status: {200, 401, 429}])
      /\ a \in Answered
      /\ Len(answers') = Len(answers) + 1
      /\ \A i \in 1..Len(answers): answers'[i] = answers[i]
      /\ answers'[Len(answers) + 1] = a
      /\ 1..Len(answers') = (1..Len(answers)) \cup {Len(answers) + 1}
      /\ InOrder'
  BY <1>0, AnswerAppends
<1>2. /\ started' \in Nat /\ started' <= now /\ now < started' + Window
      /\ started <= started'
      /\ count' \in Nat /\ count' <= Limit
  <2>1. CASE RunOut
    BY <1>0, <1>n, <2>1 DEF StartedAfter, CountBefore
  <2>2. CASE ~RunOut
    <3>1. started' = started /\ count' = count + 1 /\ count < Limit
      BY <1>0, <2>2 DEF StartedAfter, CountBefore
    <3>2. now < started + Window
      BY <1>n, <2>2 DEF RunOut
    <3> QED BY <1>n, <3>1, <3>2
  <2> QED BY <2>1, <2>2
<1>3. TypeOK'
  <2>1. started' \in 0..now /\ count' \in 0..Limit
    BY <1>2, <1>n
  <2> QED BY <1>0, <1>1, <1>t, <2>1 DEF TypeOK
<1>4. ServedInWindow'
  <2>0. \A t \in Nat: t < started + Window => t < started' + Window
    <3>1. started \in Nat /\ started' \in Nat /\ Window \in Nat /\ started <= started'
      BY <1>2, <1>n
    <3>2. \A t, s, r, w \in Nat: t < s + w /\ s <= r => t < r + w
      OBVIOUS
    <3> QED BY <3>1, <3>2
  <2>1. ASSUME NEW i \in 1..Len(answers'), answers'[i].status = 200
        PROVE  answers'[i].at < started' + Window
    <3>1. CASE i \in 1..Len(answers)
      <4>1. answers[i].at \in Nat /\ answers[i].at < started + Window
        BY <1>1, <1>t, <2>1, <3>1, AnswerOf DEF IInv, ServedInWindow
      <4>2. answers[i].at < started' + Window
        BY <2>0, <4>1
      <4>3. answers'[i] = answers[i]
        BY <1>1, <3>1
      <4> HIDE DEF a
      <4> QED BY <4>2, <4>3
    <3>2. CASE i = Len(answers) + 1
      BY <1>1, <1>2, <3>2
    <3> QED BY <1>1, <3>1, <3>2
  <2> QED BY <2>1 DEF ServedInWindow
<1>5. CountIsServed'
  <2>1. Cardinality(ServedOf(answers', started', now)) =
            Cardinality(ServedOf(answers, started', now)) + 1
    <3>1. started' \in Int /\ now \in Int /\ a.status = 200 /\ started' <= a.at /\ a.at <= now
      BY <1>2, <1>n
    <3> QED BY <1>1, <1>n, <3>1, ServedAppend
  <2>2. Cardinality(ServedOf(answers, started', now)) = CountBefore
    <3>1. CASE RunOut
      <4>1. ServedOf(answers, started', now) = {} /\ CountBefore = 0
        BY <1>0, <3>1, NothingServedNow DEF StartedAfter, CountBefore
      <4> QED BY <4>1, FS_EmptySet
    <3>2. CASE ~RunOut
      BY <1>0, <3>2 DEF StartedAfter, CountBefore, CountIsServed, IInv
    <3> QED BY <3>1, <3>2
  <2> QED BY <1>0, <2>1, <2>2 DEF CountIsServed
<1>6. \A first \in Nat: first + Window > started' =>
          Cardinality(ServedBefore(answers', first, started')) <= Limit
  <2> SUFFICES ASSUME NEW first \in Nat, first + Window > started'
               PROVE  Cardinality(ServedBefore(answers', first, started')) <= Limit
    OBVIOUS
  <2>1. ServedBefore(answers', first, started') = ServedBefore(answers, first, started')
    <3>1. first \in Int /\ started' \in Int /\ ~(a.at < started')
      BY <1>2, <1>n
    <3> QED BY <1>1, <1>n, <3>1, ServedAppend
  <2>2. CASE RunOut
    <3>1. started' = now /\ first >= started
      <4>1. started' = now
        BY <1>0, <2>2 DEF StartedAfter
      <4> QED BY <1>n, <2>2, <4>1 DEF RunOut
    <3>2. ServedBefore(answers, first, now) \subseteq ServedOf(answers, started, now)
      <4>1. \A i \in 1..Len(answers): answers[i].at \in Nat
        BY <1>t, AnswerOf
      <4> QED BY <1>n, <3>1, <4>1 DEF ServedBefore, ServedOf
    <3>3. ServedOf(answers, started, now) \in SUBSET (1..Len(answers))
      BY DEF ServedOf
    <3>4. Cardinality(ServedBefore(answers, first, now)) <= count
      BY <1>n, <3>2, <3>3, FewerPlaces DEF CountIsServed, IInv
    <3>5. Cardinality(ServedBefore(answers, first, now)) \in Nat
      BY <1>n, ServedSize
    <3> QED BY <1>n, <2>1, <3>1, <3>4, <3>5
  <2>3. CASE ~RunOut
    <3>1. started' = started
      BY <1>0, <2>3 DEF StartedAfter
    <3>2. CASE first \in 0..now
      BY <2>1, <3>1, <3>2 DEF RemainderIsBounded, IInv
    <3>3. CASE first > now
      <4>1. ServedBefore(answers, first, started) = {}
        <5>1. \A i \in 1..Len(answers): answers[i].at \in Nat
          BY <1>t, AnswerOf
        <5> QED BY <1>n, <3>3, <5>1 DEF ServedBefore
      <4>2. Cardinality(ServedBefore(answers, first, started)) = 0
        BY <4>1, FS_EmptySet
      <4> QED BY <1>n, <2>1, <3>1, <4>2
    <3> QED BY <1>n, <3>2, <3>3
  <2> QED BY <2>2, <2>3
<1>7. RemainderIsBounded'
  BY <1>0, <1>6, <1>n DEF RemainderIsBounded
<1>8. AtMostTwiceTheLimit'
  <2> SUFFICES ASSUME NEW first \in 0..now
               PROVE  ServedBetween(first, first + (Window - 1))' <= 2 * Limit
    BY <1>0 DEF AtMostTwiceTheLimit
  <2> DEFINE last == first + (Window - 1)
  <2>0. first \in Nat /\ first \in Int /\ last \in Int
    BY <1>n
  <2>1. CASE last < now
    <3>1. ~(a.status = 200 /\ first <= a.at /\ a.at <= last)
      BY <1>n, <2>0, <2>1
    <3>2. ServedOf(answers', first, last) = ServedOf(answers, first, last)
      BY <1>1, <1>n, <2>0, <3>1, ServedAppend
    <3>3. ServedBetween(first, last)' = ServedBetween(first, last)
      BY <3>2, ServedIs
    <3> QED BY <3>3 DEF AtMostTwiceTheLimit, IInv
  <2>2. CASE ~(last < now)
    <3> DEFINE old == ServedBefore(answers', first, started')
               new == ServedOf(answers', started', now)
    <3>1. answers' \in Seq(Answered)
      BY <1>1 DEF Answered
    <3>2. /\ IsFiniteSet(old) /\ Cardinality(old) \in Nat
          /\ IsFiniteSet(new) /\ Cardinality(new) \in Nat
      BY <3>1, ServedSize
    <3>3. Cardinality(old) <= Limit
      <4>1. first + Window > started'
        BY <1>2, <1>n, <2>0, <2>2
      <4> QED BY <1>6, <2>0, <4>1
    <3>4. Cardinality(new) <= Limit
      BY <1>0, <1>2, <1>5 DEF CountIsServed
    <3>5. ServedOf(answers', first, last) \subseteq old \cup new
      <4>1. \A i \in 1..Len(answers'): answers'[i].at \in Nat /\ answers'[i].at <= now
        <5>1. \A i \in 1..Len(answers'): answers'[i].at <= now
          BY <1>0, <1>1 DEF InOrder
        <5>2. \A i \in 1..Len(answers): answers'[i].at \in Nat
          BY <1>1, <1>t, AnswerOf
        <5>3. answers'[Len(answers) + 1].at \in Nat
          BY <1>1, <1>n
        <5> QED BY <1>1, <5>1, <5>2, <5>3
      <4> QED BY <1>2, <4>1 DEF ServedOf, ServedBefore
    <3>6. IsFiniteSet(old \cup new) /\ Cardinality(old \cup new) <= Cardinality(old) + Cardinality(new)
      <4>1. /\ IsFiniteSet(old \cup new)
            /\ IsFiniteSet(old \cap new)
            /\ Cardinality(old \cup new) =
                 Cardinality(old) + Cardinality(new) - Cardinality(old \cap new)
        BY <3>2, FS_Union, FS_Intersection
      <4>2. Cardinality(old \cap new) \in Nat
        BY <4>1, FS_CardinalityType
      <4> QED BY <3>2, <4>1, <4>2
    <3>7. /\ Cardinality(ServedOf(answers', first, last)) <= Cardinality(old \cup new)
          /\ Cardinality(ServedOf(answers', first, last)) \in Nat
          /\ Cardinality(old \cup new) \in Nat
      BY <3>1, <3>5, <3>6, FS_Subset, FS_CardinalityType, ServedSize
    <3>8. ServedBetween(first, last)' = Cardinality(ServedOf(answers', first, last))
      BY ServedIs
    <3> HIDE DEF old, new
    <3> QED BY <1>n, <3>2, <3>3, <3>4, <3>6, <3>7, <3>8
  <2> QED BY <2>1, <2>2
<1>9. RefusedOnlyWhenSpent'
  <2>1. ASSUME NEW i \in 1..Len(answers'), answers'[i].status = 429
        PROVE  i \in 1..Len(answers) /\ Cardinality(Recent(answers', i)) >= Limit
    <3>1. i \in 1..Len(answers)
      BY <1>1, <2>1
    <3>2. Recent(answers', i) = Recent(answers, i)
      BY <1>0, <3>1, RecentKept
    <3> QED BY <1>1, <2>1, <3>1, <3>2, RefusedIs DEF IInv
  <2> QED BY <2>1 DEF RefusedOnlyWhenSpent, Recent
<1> QED BY <1>1, <1>3, <1>4, <1>5, <1>7, <1>8, <1>9 DEF IInv

LEMMA IInvStep == IInv /\ [Next]_vars => IInv'
<1> SUFFICES ASSUME IInv, [Next]_vars PROVE IInv'
  OBVIOUS
<1>1. CASE Tick
  BY <1>1, TickStep
<1>2. CASE Unauthorized
  BY <1>2, RefusalStep DEF Unauthorized
<1>3. CASE Serve
  BY <1>3, ServeStep
<1>4. CASE TooManyRequests
  <2>1. ~RunOut
    BY <1>4, Numbers DEF TooManyRequests, Room, CountBefore, IInv
  <2>2. count \in Nat /\ Limit \in Nat
    BY Numbers DEF IInv
  <2>3. count >= Limit /\ UNCHANGED <<now, started, count>> /\ Answer(429)
    BY <1>4, <2>1, <2>2 DEF TooManyRequests, Room, CountBefore, StartedAfter
  <2> QED BY <2>1, <2>3, RefusalStep
<1>5. CASE UNCHANGED vars
  BY <1>5 DEF vars, IInv, TypeOK, InOrder, ServedInWindow, CountIsServed,
              RemainderIsBounded, AtMostTwiceTheLimit, ServedBetween, RefusedOnlyWhenSpent
<1> QED BY <1>1, <1>2, <1>3, <1>4, <1>5 DEF Next

-----------------------------------------------------------------------------
(* The inductive invariant of the request limit. *)
THEOREM Invariance == Spec => []IInv
BY IInvInit, IInvStep, PTL DEF Spec

(* Type correctness: the count never passes the limit, and a window never   *)
(* opens in the future.                                                     *)
THEOREM TypeCorrect == Spec => []TypeOK
<1>1. IInv => TypeOK
  BY DEF IInv
<1> QED BY <1>1, Invariance, PTL

(* The fixed window of the remote profile admits at most twice the limit in *)
(* any minute, wherever the minute falls.                                   *)
THEOREM BurstBounded == Spec => []AtMostTwiceTheLimit
<1>1. IInv => AtMostTwiceTheLimit
  BY DEF IInv
<1> QED BY <1>1, Invariance, PTL

(* A 429 always has the limit's worth of served requests within the last    *)
(* minute to explain it: refusals and failed authentications use up nothing.*)
THEOREM RefusalEarned == Spec => []RefusedOnlyWhenSpent
<1>1. IInv => RefusedOnlyWhenSpent
  BY DEF IInv
<1> QED BY <1>1, Invariance, PTL
=============================================================================
