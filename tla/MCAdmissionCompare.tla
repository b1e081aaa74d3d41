---- MODULE MCAdmissionCompare ----
(* AdmissionCompare on traces of one signal of each band of the policy and the baseline, for two   *)
(* incidents, before and after a hold of the first expires.                                        *)
EXTENDS AdmissionCompare

Signal(confidence, reliability, corroborators) ==
    [confidence |-> confidence, reliability |-> reliability, corroborators |-> corroborators]

Signals ==
    {Signal(760000, 800000, 0),     \* uncertain, under the baseline's threshold
     Signal(850000, 800000, 0),     \* uncertain, at it
     Signal(760000, 800000, 2),     \* the first, corroborated
     Signal(930000, 850000, 0)}     \* strong
Inert ==
    {Signal(200000, 850000, 0),     \* weak
     Signal(970000, 400000, 0)}     \* from a source that is not trusted

RowsOf(signals, incident, observed) ==
    {[incident |-> incident, confidence |-> s.confidence, reliability |-> s.reliability,
      corroborators |-> s.corroborators, observed |-> observed, expires |-> observed + 1,
      truth |-> truth] : s \in signals, truth \in Truth}

MCRows ==
    RowsOf(Signals, "i1", 1) \cup RowsOf(Signals, "i1", 3) \cup RowsOf(Signals, "i2", 1)
        \cup RowsOf(Inert, "i1", 1)
====
