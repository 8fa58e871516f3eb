-------------------------- MODULE MCGatewayReadiness --------------------------
(***************************************************************************)
(* Instances of GatewayReadiness for TLC.                                  *)
(***************************************************************************)
EXTENDS GatewayReadiness

CONSTANTS eth0, eth1, wlp1, ra0

P(a, s) == [addr |-> a, size |-> s]
Via(d, i) == [dest |-> d, dev |-> i]

Uplink == [operstate |-> "up", carrier |-> "1", speed |-> 1000, duplex |-> "full",
           master |-> FALSE, ipv4 |-> TRUE, ssh |-> TRUE]

(* The driver of the port does not say whether it is full duplex. *)
Port == [Uplink EXCEPT !.duplex = "", !.ipv4 = FALSE, !.ssh = FALSE]

(* A radio is down until something uses it, and has neither speed nor      *)
(* duplex.                                                                 *)
Radio == [Port EXCEPT !.operstate = "down", !.carrier = "", !.speed = 0, !.duplex = ""]

(* A host with one interface besides that to the Internet, which meets all *)
(* requirements: a port, a radio named so, a radio that is not.            *)
Fit(i, link, radios) ==
  [links |-> [j \in {eth0, i} |-> IF j = eth0 THEN Uplink ELSE link],
   routes |-> {Via(Default, eth0), Via(P(0, 4), eth0)},
   radios |-> [j \in radios |-> [ap |-> TRUE, mode |-> "AP"]],
   nm |-> {eth0, i}, docker |-> {}, nft |-> TRUE]

Wired(port) == Fit(eth1, port, {})
ByName == Fit(wlp1, Radio, {wlp1})
Unnamed == Fit(ra0, [Radio EXCEPT !.operstate = "up"], {ra0})

(* And hosts where some part does not meet a requirement: the port, where  *)
(* SSH comes in, the routes (one around the LAN subnet, one to a single    *)
(* host in it, more default routes), Docker (a network within the subnet), *)
(* the tools, the radio, also where iw does not know it.  Where a host     *)
(* breaks two requirements, a failed read may hide the one or the other.   *)
(* One has both a port and a radio, which is a second way to the Internet  *)
(* and may be the WAN that appears late.                                   *)
MCHosts ==
  { Wired(Port), Wired([Port EXCEPT !.operstate = "down", !.carrier = "", !.speed = 0, !.duplex = ""]),
    Wired([Port EXCEPT !.carrier = "0"]),
    Wired([Port EXCEPT !.speed = 10, !.duplex = "half"]), Wired([Uplink EXCEPT !.master = TRUE]),
    [Wired(Port) EXCEPT !.routes = @ \cup {Via(P(0, 16), eth0)}],
    [Wired(Port) EXCEPT !.docker = {P(10, 2)}, !.routes = @ \cup {Via(Default, eth1)}],
    [Wired(Port) EXCEPT !.nft = FALSE],
    ByName, [ByName EXCEPT !.radios[wlp1].mode = "managed"],
    [ByName EXCEPT !.links = [i \in {eth0, eth1, wlp1} |->
                                CASE i = eth0 -> Uplink [] i = eth1 -> Port [] i = wlp1 -> Radio],
                   !.routes = @ \cup {Via(Default, wlp1)}],
    [ByName EXCEPT !.radios[wlp1].ap = FALSE],
    Unnamed, [Unnamed EXCEPT !.radios[ra0] = [ap |-> FALSE, mode |-> "managed"], !.nm = {},
                             !.routes = @ \cup {Via(P(9, 1), eth0)}],
    Fit(ra0, [Radio EXCEPT !.operstate = "up"], {}) }

Cfg(wan, lan, subnet, slow, session) ==
  [wan |-> wan, lan |-> lan, subnet |-> subnet, slow |-> slow, session |-> session]

(* A wired and a wireless LAN, with and without a configured WAN, and the  *)
(* configuration that can never be ready.                                  *)
MCConfigs ==
  { Cfg(NoInterface, eth1, P(9, 4), FALSE, TRUE), Cfg(eth0, eth1, P(8, 4), TRUE, FALSE),
    Cfg(NoInterface, wlp1, P(8, 4), FALSE, TRUE), Cfg(eth0, ra0, P(8, 4), FALSE, TRUE),
    Cfg(eth0, eth0, NoPrefix, FALSE, FALSE) }
=============================================================================
