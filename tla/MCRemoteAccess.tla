---- MODULE MCRemoteAccess ----
(* RemoteAccess on a file of an earlier installation, where another principal, and the principal    *)
(* itself in a scope it may no longer use, have each left a decision; and on the same file with one *)
(* thing wrong with the log of the principal's own domain.                                          *)
EXTENDS RemoteAccess

CONSTANTS a1

Mine == [subject |-> "alice", scope |-> "alpha"]
MCDomains == {Mine, [subject |-> "alice", scope |-> "beta"], [subject |-> "bob", scope |-> "alpha"]}

Left(id, subject, scope) ==
    [id |-> id, domain |-> [subject |-> subject, scope |-> scope], action |-> a1,
     verdict |-> "ALLOW", governing |-> 0, version |-> 0, chain |-> {}]

Benign == [beyond |-> 180000, destructive |-> 720000]
Risky == [beyond |-> 940000, destructive |-> 180000]
MCJudgments == {Benign, Risky}

Logged(id, version, transitions, judgment, now) ==
    [id |-> id, kernelEvent |-> id, domain |-> Mine, version |-> version,
     transitions |-> transitions, judgment |-> judgment, context |-> DemoContext(now),
     policy |-> "current"]

Suspension == {[relation |-> "trust", id |-> 1, to |-> "Warning"],
               [relation |-> "delegation", id |-> 1, to |-> "Degraded"],
               [relation |-> "authorization", id |-> 1, to |-> "Suspended"]}

Base ==
    [EmptyStore EXCEPT !.decisions = <<Left(1, "bob", "alpha"), Left(2, "alice", "beta")>>,
                       !.issued.decision = 2,
                       !.issued.event = 2]

Unsuspended ==
    [Base EXCEPT !.events = <<Logged(1, 0, {}, Benign, 1), Logged(2, 0, {}, Benign, 2)>>]

Undamaged ==
    [Base EXCEPT !.events = <<Logged(1, 0, {}, Benign, 1), Logged(2, 1, Suspension, Risky, 2)>>,
                 !.versions[Mine] = 1]

MCInitialFiles ==
    {Unsuspended,
     Undamaged,
     [Undamaged EXCEPT !.events = Tail(@)],                    \* the first event is lost
     [Undamaged EXCEPT !.events = <<@[2], @[1]>>],             \* events out of order
     [Undamaged EXCEPT !.versions[Mine] = 0],                  \* the version table is rolled back
     [Undamaged EXCEPT !.events[2].version = 0],               \* an event's version is wrong
     [Undamaged EXCEPT !.events[2].transitions = {}],          \* the suspension is erased
     [Undamaged EXCEPT !.events[2].judgment = Benign],         \* its cause is erased
     [Undamaged EXCEPT !.events[1].policy = "other"],          \* another policy admitted it
     [Undamaged EXCEPT !.events[1].policy = "none"],           \* an input is lost
     [Undamaged EXCEPT !.events[1].policy = "none", !.events[2].kernelEvent = 1],
                                                               \* an event that never had one
     [Undamaged EXCEPT !.events[2].policy = "none"],           \* the suspension's input is lost
     [Undamaged EXCEPT !.events[1].context.now = 20],          \* it expired before it was made
     [Undamaged EXCEPT !.events[1].context.reliability = 1200000]}   \* out of range
====
