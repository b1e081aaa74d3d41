------------------------------- MODULE AuditLog -------------------------------
(***************************************************************************)
(* What the durable governance server promises its clients, without its    *)
(* memory, its file, its failures or its restarts: three logs that only    *)
(* grow, answers that the logs determine, and a client that hears of an    *)
(* entry at most once and only after the entry is there.                   *)
(*                                                                         *)
(* `owed' is the answer to the entry appended last, while it is still under *)
(* way.  It is told, or it is lost with the process that owed it.           *)
(***************************************************************************)
EXTENDS Naturals, Sequences

CONSTANTS
    Domains, Actions,   \* who is governed, and what is asked about
    Judgments,          \* what may be observed
    Damning             \* the judgments of these whose evidence is accepted

VARIABLES
    observations,   \* the log of what was observed
    decisions,      \* the log of what was decided
    outcomes,       \* the log of what became of it
    owed,           \* the answer under way, if any
    told            \* the answers given, in order

vars == <<observations, decisions, outcomes, owed, told>>

Nothing == [op |-> "none"]
Answer(op, id, domain, version, answer) ==
    [op |-> op, id |-> id, domain |-> domain, version |-> version, answer |-> answer]

(* An earlier installation may have left logs of its own.                   *)
Init ==
    /\ observations \in Seq([domain: Domains, judgment: Judgments])
    /\ decisions \in Seq([domain: Domains, action: Actions,
                          verdict: {"ALLOW", "DENY"}, version: Nat])
    /\ outcomes \in Seq([decision: DOMAIN decisions, version: Nat])
    /\ owed = Nothing
    /\ told = <<>>

(* The one rule: a domain is suspended from its first damning observation   *)
(* on, and that is its only change of version.                              *)
Suspended(d) ==
    \E i \in 1..Len(observations):
        observations[i].domain = d /\ observations[i].judgment \in Damning
Version(d) == IF Suspended(d) THEN 1 ELSE 0

Observe(d, judgment) ==
    /\ owed = Nothing
    /\ observations' = Append(observations, [domain |-> d, judgment |-> judgment])
    /\ owed' = Answer("observe", Len(observations'), d, Version(d)',
                      IF Suspended(d)' /\ ~Suspended(d) THEN "CHANGED" ELSE "UNCHANGED")
    /\ UNCHANGED <<decisions, outcomes, told>>

Decide(d, action) ==
    /\ owed = Nothing
    /\ LET verdict == IF Suspended(d) THEN "DENY" ELSE "ALLOW"
       IN  /\ decisions' = Append(decisions, [domain |-> d, action |-> action,
                                              verdict |-> verdict, version |-> Version(d)])
           /\ owed' = Answer("decide", Len(decisions'), d, Version(d), verdict)
    /\ UNCHANGED <<observations, outcomes, told>>

RecordOutcome(id) ==
    /\ owed = Nothing
    /\ LET d == decisions[id].domain
       IN  /\ outcomes' = Append(outcomes, [decision |-> id, version |-> Version(d)])
           /\ owed' = Answer("outcome", Len(outcomes'), d, Version(d), "RECORDED")
    /\ UNCHANGED <<observations, decisions, told>>

Tell ==
    /\ owed /= Nothing
    /\ told' = Append(told, owed)
    /\ owed' = Nothing
    /\ UNCHANGED <<observations, decisions, outcomes>>

Drop ==
    /\ owed /= Nothing
    /\ owed' = Nothing
    /\ UNCHANGED <<observations, decisions, outcomes, told>>

Next ==
    \/ \E d \in Domains, judgment \in Judgments: Observe(d, judgment)
    \/ \E d \in Domains, action \in Actions: Decide(d, action)
    \/ \E id \in DOMAIN decisions: RecordOutcome(id)
    \/ Tell \/ Drop

Spec == Init /\ [][Next]_vars
===============================================================================
