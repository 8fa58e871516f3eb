-------------------------- MODULE GatewayAccounting --------------------------
(***************************************************************************)
(* Per-device accounting of the gateway: a transfer is observed at several *)
(* points on its way through the server, and the observations are turned   *)
(* into usage of a device or of the server itself.                         *)
(*                                                                         *)
(*   features/gateway/model/model.go   BuildGatewayDelta, BuildHostDelta,  *)
(*                                     DeviceRegistry, ISPWindowConfig     *)
(*                                                                         *)
(* Observations are handled in any order and arbitrarily late; meanwhile   *)
(* time passes and DHCP hands addresses from one client to another.        *)
(***************************************************************************)
EXTENDS Integers, Sums

CONSTANTS
  Clients,       \* the MAC addresses of the LAN clients
  ClientIPs,     \* the addresses DHCP hands out
  Registered,    \* the clients the registry was created with
  Flows,         \* what may be transferred: records [from, to]
  Loads,         \* how much may be transferred: records [original, reply]
  Tapped,        \* the points at which observations are made
  Windows,       \* the free windows that may be configured
  Day,           \* bound: minutes in a day
  MaxTransfers   \* bound: transfers in a behaviour

(* The ends of a flow other than the clients: the server's own sockets, a  *)
(* container behind a bridge, and a host on the Internet.                  *)
Others == {"server", "docker", "public"}

ASSUME ClientsAssumption == Registered \subseteq Clients
ASSUME FlowsAssumption ==
  /\ Flows \subseteq [from : Clients \cup Others, to : Clients \cup Others]
  /\ \A f \in Flows : f.from # f.to
ASSUME LoadsAssumption == Loads \subseteq [original : Nat, reply : Nat]
ASSUME WindowsAssumption ==
  \A w \in Windows : w.start \in 0 .. Day - 1 /\ w.end \in 0 .. Day - 1
ASSUME BoundsAssumption == Day \in Nat \ {0} /\ MaxTransfers \in Nat


Scopes == {"internet", "lan", "server_local", "docker_internal"}
Periods == {"free_night", "anytime"}
Directions == {"download", "upload"}
NoMAC == "no mac"
Points == {"lan_ingress", "forward_prenat", "forward_postnat", "wan_egress",
           "host_socket", "docker_bridge"}

(* The points that count are among those observed. *)
ASSUME TappedAssumption ==
  Tapped \subseteq Points /\ {"forward_prenat", "host_socket"} \subseteq Tapped

(* A hardware address is no IP address, and a client's is none of the others. *)
ASSUME NamesAssumption ==
  /\ Clients \cap (ClientIPs \cup Others) = {} /\ ClientIPs \cap Others = {}
  /\ NoMAC \notin Clients

-----------------------------------------------------------------------------
(* The functions of the model package.                                     *)

(* Mutant: the window is taken not to cross midnight. *)
InWindowOfOneDay(minute, start, end) == minute >= start /\ minute < end

(* Half of a free window may lie before midnight; an empty one is never    *)
(* open.                                                                   *)
InWindow(minute, start, end) ==
  \/ start < end /\ minute >= start /\ minute < end
  \/ start > end /\ (minute >= start \/ minute < end)

PeriodAt(minute, window) ==
  IF InWindow(minute, window.start, window.end) THEN "free_night" ELSE "anytime"

(* Resolve: a MAC is a permanent identity, registered or not; without one  *)
(* the identity is the address of the moment.                              *)
Resolve(mac, ip) ==
  IF mac = NoMAC
  THEN [kind |-> "ephemeral-ip", of |-> ip]
  ELSE [kind |-> IF mac \in Registered THEN "registered" ELSE "mac", of |-> mac]

(* ClassifyRemoteIP, for the addresses of this model. *)
ClassifyRemoteIP(ip) ==
  CASE ip \in ClientIPs \cup {"server"} -> "lan"
    [] ip = "docker" -> "docker_internal"
    [] ip = "public" -> "internet"

ClassifyScope(o, ips) ==
  CASE {o.src, o.dst} \cap ips # {} ->
         IF o.point = "host_socket" THEN ClassifyRemoteIP(o.dst) ELSE "server_local"
    [] "docker" \in {o.src, o.dst} /\ {o.src, o.dst} \cap ips = {} -> "docker_internal"
    [] OTHER -> ClassifyRemoteIP(o.dst)

(* A delta: where an observation's bytes go.  The initiator's bytes are    *)
(* the upload, the answers the download.  Empty observations yield none.   *)
Delta(o, source, ips, win) ==
  IF o.original = 0 /\ o.reply = 0 THEN {}
  ELSE LET scope == ClassifyScope(o, ips)
       IN { [of |-> o, source |-> source, scope |-> scope,
             period |-> IF scope = "internet" THEN PeriodAt(o.at, win) ELSE "anytime",
             upload |-> o.original, download |-> o.reply] }

(* Mutant: every point is authoritative. *)
BuildGatewayDeltaAnywhere(o, ips, win) ==
  Delta(o, Resolve(o.mac, o.src), ips, win)

AuthoritativeHook == "forward_prenat"

BuildGatewayDelta(o, ips, win) ==
  IF o.point = AuthoritativeHook
  THEN Delta(o, Resolve(o.mac, o.src), ips, win)
  ELSE {}

Host == [kind |-> "host", of |-> "server"]

BuildHostDelta(o, ips, win) ==
  IF o.point = "host_socket" THEN Delta(o, Host, ips, win) ELSE {}

Sources ==
  [kind : {"ephemeral-ip"}, of : ClientIPs \cup Others]
    \cup [kind : {"mac", "registered"}, of : Clients] \cup {Host}

-----------------------------------------------------------------------------

VARIABLES
  serverIPs,  \* Config.ServerIPs: known, or left out as in DefaultConfig
  window,     \* Config.ISPWindow
  clock,      \* the minute of the local day
  lease,      \* the address of each client
  pending,    \* observations made and not yet handled
  deltas,     \* the deltas the handled ones gave, each with its observation
  sent        \* history: the transfers

vars == <<serverIPs, window, clock, lease, pending, deltas, sent>>

Minutes == 0 .. Day - 1

Init ==
  /\ serverIPs \in {{}, {"server"}}
  /\ window \in Windows
  /\ clock = 0
  /\ lease \in [Clients -> ClientIPs]
  /\ pending = {}
  /\ deltas = {}
  /\ sent = {}

(* The reference for the ISP window: minutes since it last opened. *)
TruePeriod(minute) ==
  IF (minute - window.start) % Day < (window.end - window.start) % Day
  THEN "free_night" ELSE "anytime"

-----------------------------------------------------------------------------
(* The environment.                                                        *)

PassTime ==
  /\ clock' = (clock + 1) % Day
  /\ UNCHANGED <<serverIPs, window, lease, pending, deltas, sent>>

(* DHCP gives a client another address, perhaps one still in use. *)
Renew(c, ip) ==
  /\ ip # lease[c]
  /\ lease' = [lease EXCEPT ![c] = ip]
  /\ UNCHANGED <<serverIPs, window, clock, pending, deltas, sent>>

AddressOf(party) == IF party \in Clients THEN lease[party] ELSE party

(* The points a flow passes.  Between the server and the Internet there is *)
(* no LAN, and what ends in a socket of the server is not forwarded.       *)
Path(f) ==
  (IF f.from \in Clients THEN {"lan_ingress"} ELSE {})
    \cup (IF "docker" \in {f.from, f.to} THEN {"docker_bridge"} ELSE {})
    \cup (IF "server" \in {f.from, f.to} THEN {"host_socket"}
          ELSE {"forward_prenat", "forward_postnat"})
    \cup (IF "public" \in {f.from, f.to} THEN {"wan_egress"} ELSE {})

(* Past the NAT an outgoing flow shows the server's address. *)
SourceAt(f, point) ==
  IF f.to = "public" /\ point \in {"forward_postnat", "wan_egress"}
  THEN "server" ELSE AddressOf(f.from)

(* Bytes go both ways; the evidence for the MAC may be missing. *)
Transfer(f, load, mac) ==
  LET n == Cardinality(sent) IN
  /\ n < MaxTransfers
  /\ mac \in {NoMAC, IF f.from \in Clients THEN f.from ELSE NoMAC}
  /\ sent' = sent \cup {[n |-> n, flow |-> f, at |-> clock, mac |-> mac, load |-> load]}
  /\ pending' = pending \cup
       { [n |-> n, at |-> clock, point |-> p, mac |-> mac,
          src |-> SourceAt(f, p), dst |-> AddressOf(f.to),
          original |-> load.original, reply |-> load.reply] : p \in Path(f) \cap Tapped }
  /\ UNCHANGED <<serverIPs, window, clock, lease, deltas>>

-----------------------------------------------------------------------------
(* The consumer of observations.                                           *)

(* Mutant: the observation stays in the queue. *)
HandleAgain(o) ==
  /\ o \in pending
  /\ deltas' = deltas \cup BuildGatewayDelta(o, serverIPs, window)
                       \cup BuildHostDelta(o, serverIPs, window)
  /\ UNCHANGED <<serverIPs, window, clock, lease, pending, sent>>

Handle(o) ==
  /\ o \in pending
  /\ pending' = pending \ {o}
  /\ deltas' = deltas \cup BuildGatewayDelta(o, serverIPs, window)
                       \cup BuildHostDelta(o, serverIPs, window)
  /\ UNCHANGED <<serverIPs, window, clock, lease, sent>>

Next ==
  \/ PassTime
  \/ \E c \in Clients, ip \in ClientIPs : Renew(c, ip)
  \/ \E f \in Flows, load \in Loads, mac \in Clients \cup {NoMAC} : Transfer(f, load, mac)
  \/ \E o \in pending : Handle(o)

Spec == Init /\ [][Next]_vars
-----------------------------------------------------------------------------
(* Properties.                                                             *)

Observations ==
  [n : 0 .. MaxTransfers, at : Minutes, point : Points, mac : Clients \cup {NoMAC},
   src : ClientIPs \cup Others, dst : ClientIPs \cup Others, original : Nat, reply : Nat]

TypeOK ==
  /\ serverIPs \in SUBSET {"server"}
  /\ window \in Windows
  /\ clock \in Minutes
  /\ lease \in [Clients -> ClientIPs]
  /\ pending \subseteq Observations
  /\ deltas \subseteq [of : Observations \ pending, source : Sources, scope : Scopes,
                       period : Periods, upload : Nat, download : Nat]
  /\ sent \subseteq [n : 0 .. MaxTransfers, flow : Flows, at : Minutes,
                     mac : Clients \cup {NoMAC}, load : Loads]

(* SumInternetBySource, taken apart by period and direction. *)
SumInternet(sources, period, dir) ==
  Sum([d \in deltas |-> d[dir]],
      {d \in deltas : d.scope = "internet" /\ d.source \in sources /\ d.period = period})

(* The transfers whose observation at the point that counts has been       *)
(* handled, and what they should add up to.                                *)
Handled(t) ==
  \A o \in pending :
    o.n = t.n => o.point # (IF t.flow.from = "server" THEN "host_socket" ELSE "forward_prenat")

Expected(flows, macs, period, dir) ==
  Sum([t \in sent |-> IF dir = "upload" THEN t.load.original ELSE t.load.reply],
      { t \in sent : /\ t.flow \in flows
                     /\ t.mac \in macs
                     /\ TruePeriod(t.at) = period
                     /\ Handled(t) })

Outbound(parties) == {f \in Flows : f.to = "public" /\ f.from \in parties}

Balanced(sources, flows, macs) ==
  \A period \in Periods, dir \in Directions :
    SumInternet(sources, period, dir) = Expected(flows, macs, period, dir)

(* A device is charged with exactly the Internet bytes its MAC was seen    *)
(* with, in the period they were transferred in, though its address has    *)
(* changed or been given to another client since, and however late its     *)
(* observations are handled (model.go:92-116, 132-152, 211-248).           *)
DevicesKeepTheirBytes ==
  \A c \in Clients : Balanced({s \in Sources : s.of = c}, Outbound(Clients), {c})

(* Everything clients and the server send to the Internet, and what they   *)
(* are answered, is measured once: not again behind the NAT, not at        *)
(* another point, and LAN, server and container traffic is not added to it *)
(* (model.go:211-217, 250-256, 292-306).                                   *)
OutboundIsMeasuredOnce ==
  Balanced(Sources, Outbound(Clients \cup {"server"}), Clients \cup {NoMAC})

=============================================================================
