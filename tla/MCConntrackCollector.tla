------------------------ MODULE MCConntrackCollector ------------------------
(***************************************************************************)
(* Instances of ConntrackCollector for TLC.                                *)
(***************************************************************************)
EXTENDS ConntrackCollector

Flow(src, dst) == [src |-> src, dst |-> dst]

(* The server is reached from the Internet; a container talks to a LAN     *)
(* peer, which is dropped while the route is known and stored as LAN when  *)
(* it is not.                                                              *)
MCFlows == {Flow("public", "host"), Flow("docker", "lan")}

=============================================================================
