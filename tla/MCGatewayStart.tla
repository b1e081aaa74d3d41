---- MODULE MCGatewayStart ----
(* GatewayStart with up to three upstreams, each with or without the control plane mark and with   *)
(* up to two of three tools, of which two have governance names.                                   *)
EXTENDS GatewayStart

MCTools == {"r2r_decide", "r2r_other", "read"}
MCListings == {<<>>, <<"r2r_decide">>, <<"r2r_decide", "r2r_other">>, <<"r2r_other">>,
               <<"read">>, <<"read", "read">>, <<"r2r_decide", "read">>}
MCUpstreams == [controlPlane: BOOLEAN, tools: MCListings]
MCConfigs == UNION {[1..n -> MCUpstreams] : n \in 0..3}
====
