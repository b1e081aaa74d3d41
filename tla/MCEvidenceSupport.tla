---- MODULE MCEvidenceSupport ----
(* EvidenceSupport on both sides of every threshold of the policy, of the rounding to it, and of    *)
(* the range of a probability.                                                                      *)
EXTENDS EvidenceSupport

MCProbabilities ==
    {-1, 0, 10000001, 20000000} \cup
    UNION {{Tenths(ppm) - 6, Tenths(ppm) - 5, Tenths(ppm) + 4} :
              ppm \in {MinReviewConfidence, CorroboratedConfidence, StrongConfidence, PPM}}
MCReliabilities == {0, 599999, 600000, 699999, 700000, 799999, 800000, 1000000}
====
