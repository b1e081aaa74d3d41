------------------------------ MODULE RateWindow ------------------------------
(***************************************************************************)
(* The request limit of the remote profile (src/src/bin/r2r-mcp-remote.rs):*)
(* authentication first, then one process-wide window that opens lazily at *)
(* the first request after the previous one has run out.  One mutex makes  *)
(* each decision a single step; a reply does not return its slot.          *)
(***************************************************************************)
EXTENDS Naturals, Sequences, FiniteSets

CONSTANTS
    Limit,                \* requests_per_minute
    Window,               \* the minute, in ticks of the monotonic clock
    MaxTime, MaxAnswers   \* bounds on the clock and on the requests answered

ASSUME LimitAssumption == Limit \in Nat \ {0}   \* RemoteHttpSecurity::new refuses zero
ASSUME WindowAssumption == Window \in Nat \ {0}
ASSUME BoundsAssumption == MaxTime \in Nat /\ MaxAnswers \in Nat

VARIABLES
    now,       \* Instant::now()
    started,   \* RateWindow::started_at
    count,     \* RateWindow::count
    answers    \* history: when each request was answered, and with which status

vars == <<now, started, count, answers>>

Init == now = 0 /\ started = 0 /\ count = 0 /\ answers = <<>>

Tick ==
    /\ now < MaxTime
    /\ now' = now + 1
    /\ UNCHANGED <<started, count, answers>>

Answer(status) ==
    /\ Len(answers) < MaxAnswers
    /\ answers' = Append(answers, [at |-> now, status |-> status])

-----------------------------------------------------------------------------
(* Seeded fault: the window lasts one tick too long. *)
RunOutLate == now - started > Window
RunOut == now - started >= Window

(* The window and its count as the request finds them.  Seeded fault: the   *)
(* count restarts and the window does not.                                  *)
StartedOnce == started
StartedAfter == IF RunOut THEN now ELSE started
CountBefore == IF RunOut THEN 0 ELSE count

Room == CountBefore < Limit

Unauthorized ==
    /\ Answer(401)
    /\ UNCHANGED <<now, started, count>>

Serve ==
    /\ Room
    /\ started' = StartedAfter
    /\ count' = CountBefore + 1
    /\ Answer(200)
    /\ UNCHANGED now

TooManyRequests ==
    /\ ~Room
    /\ started' = StartedAfter
    /\ count' = CountBefore
    /\ Answer(429)
    /\ UNCHANGED now

Next == Tick \/ Unauthorized \/ Serve \/ TooManyRequests

Spec == Init /\ [][Next]_vars

-----------------------------------------------------------------------------
(* Every variable keeps its type, and the window never over-counts. *)
TypeOK ==
    /\ now \in 0..MaxTime /\ started \in 0..now /\ count \in 0..Limit
    /\ answers \in Seq([at: 0..MaxTime, status: {200, 401, 429}])

ServedBetween(first, last) ==
    Cardinality({i \in 1..Len(answers):
        answers[i].status = 200 /\ first <= answers[i].at /\ answers[i].at <= last})

(* A fixed window admits a burst around its boundary, and no more than two  *)
(* windows' worth: whichever minute is looked at, at most twice the limit   *)
(* was served in it.                                                        *)
AtMostTwiceTheLimit ==
    \A first \in 0..now: ServedBetween(first, first + (Window - 1)) <= 2 * Limit

(* Nobody is refused for requests that were themselves refused, or that are *)
(* a minute old: at a 429 the limit was served within the last minute, so   *)
(* who waits out Retry-After competes only with requests served since.      *)
RefusedOnlyWhenSpent ==
    \A i \in 1..Len(answers): answers[i].status = 429 =>
        Cardinality({j \in 1..(i - 1):
            answers[j].status = 200 /\ answers[j].at + Window > answers[i].at}) >= Limit
=============================================================================
