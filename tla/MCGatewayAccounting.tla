------------------------- MODULE MCGatewayAccounting -------------------------
(***************************************************************************)
(* Instances of GatewayAccounting for TLC.                                 *)
(***************************************************************************)
EXTENDS GatewayAccounting

CONSTANTS c1, c2

Flow(from, to) == [from |-> from, to |-> to]

(* A registered and an unregistered client use the Internet and each       *)
(* other, one uses a service of the server, the server and a container use *)
(* the Internet.                                                           *)
MCFlows ==
  { Flow(c1, "public"), Flow(c2, "public"), Flow(c1, c2), Flow(c1, "server"),
    Flow("server", "public"), Flow("docker", "public") }

(* More is answered than sent. *)
MCLoads == {[original |-> 1, reply |-> 2]}

(* A window within the day, and one that crosses midnight. *)
MCWindows == {[start |-> 0, end |-> 1], [start |-> 1, end |-> 0]}
=============================================================================
