---- MODULE MCGateway ----
(* Gateway with two gated calls and one observation under way together. *)
EXTENDS Gateway
CONSTANTS c1, c2, o1
====
