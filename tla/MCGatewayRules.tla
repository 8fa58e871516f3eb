---------------------------- MODULE MCGatewayRules ----------------------------
(***************************************************************************)
(* Instances of GatewayRules for TLC.                                      *)
(***************************************************************************)
EXTENDS GatewayRules

CONSTANTS phone, tablet, public, container

(* Two names become one, and one is that of the counters of all clients. *)
MCSanitized ==
  [n \in {"a.b", "a-b", "client"} |-> IF n = "client" THEN "client" ELSE "a_b"]

(* A host on the Internet, or on the home network, is behind the WAN       *)
(* interface; a container is not.                                          *)
MCDevice ==
  [h \in {phone, tablet, public, container} |->
    IF h \in {phone, tablet} THEN "lan" ELSE IF h = container THEN "docker0" ELSE "wan"]

MCPlans == {[dhcp |-> TRUE, wifi |-> FALSE], [dhcp |-> FALSE, wifi |-> TRUE]}
=============================================================================
