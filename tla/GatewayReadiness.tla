--------------------------- MODULE GatewayReadiness ---------------------------
(***************************************************************************)
(* Whether the host may become a gateway: discovery reads one part of the  *)
(* host after another, readiness judges the picture it has put together.   *)
(*                                                                         *)
(*   features/gateway/discovery/discovery.go   Discover, lanCandidate      *)
(*   features/gateway/readiness/readiness.go   Evaluate and its checks     *)
(*   features/gateway/config/config.go         the configuration           *)
(*                                                                         *)
(* The host changes while it is read: cables, leases, VPNs, containers.    *)
(* Each read may fail, and then leaves an empty value in the report, which *)
(* some checks take for a fault and others for nothing to complain about.  *)
(* Only checks that can fail are modelled: those that warn at most decide  *)
(* neither of the two answers, with the exception of lan_no_default_route  *)
(* and wifi_current_mode.  What readiness approves, GatewayRules sets up;  *)
(* the names of the two modules are distinct, to be used together.         *)
(***************************************************************************)
EXTENDS Integers

CONSTANTS
  HostStates,  \* the states of the host
  Configs,     \* the configurations
  Interfaces,  \* the names of interfaces, but for those of loopback and containers
  NoInterface, \* the empty name
  WirelessNames, \* the names that begin with wl
  WifiNames,   \* the names that begin with wifi
  RadioNames,  \* the names of what really is a radio, whatever they begin with
  Default,     \* the destination of a default route
  NoPrefix,    \* a LAN subnet that cannot be parsed
  Sizes,       \* how many addresses a prefix may have
  MaxEvents    \* bound: changes of the host and failed reads in a discovery

(* The sizes of prefixes are powers of two: a larger one is a multiple of  *)
(* a smaller one.                                                          *)
ASSUME SizesAssumption ==
  Sizes \subseteq Nat \ {0} /\ \A a, b \in Sizes : a <= b => \E k \in 1 .. b : b = a * k

IPPrefixes == [addr : Nat, size : Sizes]

(* The files of an interface under /sys, empty or zero where there is      *)
(* nothing to read, and its addresses: whether there is an IPv4 address,   *)
(* and whether there is the one an SSH session came in on.                 *)
Links == [operstate : {"up", "down", ""}, carrier : {"1", "0", ""}, speed : Nat,
          duplex : {"full", "half", ""}, master : BOOLEAN, ipv4 : BOOLEAN, ssh : BOOLEAN]

(* What iw shows of the radios that it knows. *)
Radios == [ap : BOOLEAN, mode : {"managed", "AP"}]

(* iw, and NetworkManager, need not know every interface. *)
IsHost(h) ==
  /\ DOMAIN h.links \subseteq Interfaces /\ h.links \in [DOMAIN h.links -> Links]
  /\ h.routes \subseteq [dest : IPPrefixes \cup {Default}, dev : DOMAIN h.links]
  /\ DOMAIN h.radios \subseteq DOMAIN h.links \cap RadioNames
  /\ h.radios \in [DOMAIN h.radios -> Radios]
  /\ h.nm \subseteq DOMAIN h.links
  /\ h.docker \subseteq IPPrefixes
  /\ h.nft \in BOOLEAN

ASSUME HostStatesAssumption == \A h \in HostStates : IsHost(h)
ASSUME ConfigsAssumption ==
  \A c \in Configs : {c.wan, c.lan} \subseteq Interfaces \cup {NoInterface}
                     /\ c.subnet \in IPPrefixes \cup {NoPrefix}
                     /\ c.slow \in BOOLEAN /\ c.session \in BOOLEAN
ASSUME InterfacesAssumption ==
  NoInterface \notin Interfaces /\ WirelessNames \cup WifiNames \cup RadioNames \subseteq Interfaces
ASSUME DiscoveryBounds == MaxEvents \in Nat

VARIABLES
  host,    \* the state of the host
  cfg,     \* the configuration, and whether SSH_CONNECTION names the session
  step,    \* what Discover reads next
  report,  \* the report so far, and what Discover's loops have still to do
  answer,  \* what Evaluate said, once it has
  failed,  \* history: the reads that failed, each with its interface, if any
  events,  \* history: changes and failed reads since the discovery began
  seen     \* history: the states the host has been in since then

readinessVars == <<host, cfg, step, report, answer, failed, events, seen>>

-----------------------------------------------------------------------------
(* What the documents require of the host, said of the host itself         *)
(* (docs/gateway-hardware-readiness.md).                                   *)

Block(p) == LET base == p.size * (p.addr \div p.size) IN base .. base + p.size - 1
Shared(p, q) == Block(p) \cap Block(q) # {}

Destinations(routes) == {r.dest : r \in routes} \ {Default}
DefaultDevs(h) == {r.dev : r \in {s \in h.routes : s.dest = Default}}
WANs(h) == IF cfg.wan = NoInterface THEN DefaultDevs(h) ELSE {cfg.wan}
Wireless == cfg.lan \in RadioNames \cup WirelessNames

Requirements ==
  {"wan", "lan", "separate", "operstate", "carrier", "speed", "duplex", "master", "ap",
   "no_default_route", "not_a_client", "subnet", "routes", "host_routes", "docker", "ssh", "nft"}

Met(r, h) ==
  LET lan == h.links[cfg.lan]
      found == cfg.lan \in DOMAIN h.links
      radio == cfg.lan \in DOMAIN h.radios
      wired == found /\ ~Wireless
  IN  CASE r = "wan" -> WANs(h) \cap DOMAIN h.links # {}
        [] r = "lan" -> found
        [] r = "separate" -> cfg.lan # NoInterface => WANs(h) # {cfg.lan}
        [] r = "operstate" -> wired => lan.operstate = "up"
        [] r = "carrier" -> wired => lan.carrier # "0"
        [] r = "speed" -> wired => cfg.slow \/ lan.speed >= 1000 \/ lan.speed \in {0, 100}
        [] r = "duplex" -> wired => lan.duplex # "half"
        [] r = "master" -> found => ~lan.master
        [] r = "ap" -> found /\ Wireless => radio /\ h.radios[cfg.lan].ap
        [] r = "no_default_route" -> cfg.lan \notin DefaultDevs(h)
        [] r = "not_a_client" -> radio => h.radios[cfg.lan].mode # "managed"
        [] r = "subnet" -> cfg.subnet # NoPrefix
        [] r = "routes" -> cfg.subnet # NoPrefix =>
             \A d \in Destinations(h.routes) : d.size > 1 => ~Shared(cfg.subnet, d)
        [] r = "host_routes" -> cfg.subnet # NoPrefix =>
             \A d \in Destinations(h.routes) : d.size = 1 => ~Shared(cfg.subnet, d)
        [] r = "docker" -> cfg.subnet # NoPrefix => \A p \in h.docker : ~Shared(cfg.subnet, p)
        [] r = "ssh" -> found => ~lan.ssh
        [] r = "nft" -> h.nft

Broken(h) == {r \in Requirements : ~Met(r, h)}

(* What the host violated throughout the discovery, and at some time. *)
Always == {r \in Requirements : \A h \in seen : r \in Broken(h)}
Ever == UNION {Broken(h) : h \in seen}

(* A wireless LAN may still be a client of another network when it is      *)
(* judged ready, but not when it is judged ready for activation.           *)
ActivationOnly == IF Wireless THEN {"not_a_client", "no_default_route"} ELSE {}

-----------------------------------------------------------------------------
(* Discovery.                                                              *)

Nothing == [i \in {} |-> NoInterface]
Unread == [operstate |-> "", carrier |-> "", speed |-> 0, duplex |-> "", master |-> FALSE,
           ipv4 |-> FALSE, ssh |-> FALSE]
Empty == [todo |-> {}, now |-> NoInterface, links |-> Nothing, routes |-> {},
          wan |-> NoInterface, nm |-> {}, radios |-> Nothing, candidates |-> {},
          docker |-> {}, nft |-> FALSE]
NoAnswer == [ready |-> FALSE, activation |-> FALSE, fails |-> {}]

ReadinessInit ==
  /\ host \in HostStates /\ cfg \in Configs
  /\ step = "interfaces" /\ report = Empty /\ answer = NoAnswer
  /\ failed = {} /\ events = 0 /\ seen = {host}

(* The host changes between two reads. *)
Change(h) ==
  /\ step # "answered" /\ events < MaxEvents
  /\ h # host
  /\ host' = h /\ seen' = seen \cup {h} /\ events' = events + 1
  /\ UNCHANGED <<cfg, step, report, answer, failed>>

Reads(now, next) ==
  /\ step = now /\ step' = next
  /\ UNCHANGED <<host, cfg, answer, seen>>

Succeeds(rest) == report' = rest /\ UNCHANGED <<failed, events>>

(* A tool that is not installed, output that cannot be parsed, a file that *)
(* is not there: the read named so fails.                                  *)
Fails(name, i, rest) ==
  /\ events < MaxEvents /\ events' = events + 1
  /\ failed' = failed \cup {<<name, i>>}
  /\ report' = rest

(* net.Interfaces. *)
ListInterfaces ==
  /\ Reads("interfaces", "addresses")
  /\ \/ Succeeds([report EXCEPT !.todo = DOMAIN host.links])
     \/ Fails("interfaces", NoInterface, report)

Known(i, link) ==
  [j \in DOMAIN report.links \cup {i} |-> IF j = i THEN link ELSE report.links[j]]

(* The addresses of the next interface; without them it is left out.  One  *)
(* that is gone by now has none.                                           *)
ReadAddresses(i) ==
  LET next == [report EXCEPT !.todo = @ \ {i}, !.now = i]
      link == IF i \in DOMAIN host.links
                THEN [Unread EXCEPT !.ipv4 = host.links[i].ipv4, !.ssh = host.links[i].ssh]
                ELSE Unread
  IN  /\ i \in report.todo
      /\ \/ Reads("addresses", "operstate") /\ Succeeds([next EXCEPT !.links = Known(i, link)])
         \/ Reads("addresses", "addresses") /\ Fails("addresses", i, [next EXCEPT !.now = NoInterface])

(* readTrimmed, readInt, linkBasename: one file of the interface, which    *)
(* stays empty or zero if that fails or the interface is gone.             *)
Attribute(name, next, read) ==
  /\ Reads(name, next)
  /\ \/ Succeeds(IF report.now \in DOMAIN host.links THEN read ELSE report)
     \/ Fails(name, report.now, report)

Shown == host.links[report.now]
ReadOperstate ==
  Attribute("operstate", "carrier", [report EXCEPT !.links[report.now].operstate = Shown.operstate])
ReadCarrier ==
  Attribute("carrier", "speed", [report EXCEPT !.links[report.now].carrier = Shown.carrier])
ReadSpeed ==
  Attribute("speed", "duplex", [report EXCEPT !.links[report.now].speed = Shown.speed])
ReadDuplex ==
  Attribute("duplex", "master", [report EXCEPT !.links[report.now].duplex = Shown.duplex])
ReadMaster ==
  Attribute("master", "addresses", [report EXCEPT !.links[report.now].master = Shown.master])

(* ip route: the WAN is the device of the first default route, and which   *)
(* comes first is up to the kernel.                                        *)
ReadRoutes ==
  /\ report.todo = {} /\ Reads("addresses", "nm")
  /\ \/ \E dev \in (IF DefaultDevs(host) = {} THEN {NoInterface} ELSE DefaultDevs(host)) :
          Succeeds([report EXCEPT !.routes = host.routes, !.wan = dev])
     \/ Fails("routes", NoInterface, report)

(* nmcli: the devices that NetworkManager knows, each with its kind. *)
ReadManaged ==
  /\ Reads("nm", "dev")
  /\ \/ Succeeds([report EXCEPT !.nm = host.nm])
     \/ Fails("nm", NoInterface, report)

HasDefaultRoute(i) == \E r \in report.routes : r.dest = Default /\ r.dev = i

(* Whether discovery takes it for Wi-Fi: by its name, or by its kind,      *)
(* which is NetworkManager's, or else that of an interface iw knows.       *)
isWiFiInterface(i, radios) ==
  \/ i \in WirelessNames \cup WifiNames
  \/ IF i \in report.nm THEN i \in RadioNames ELSE i \in DOMAIN radios

(* Mutant: a half-duplex link is offered. *)
lanCandidateOfAnyDuplex(i, radios) ==
  /\ i # report.wan /\ ~report.links[i].master
  /\ IF isWiFiInterface(i, radios) THEN i \in DOMAIN radios /\ radios[i].ap
     ELSE /\ ~HasDefaultRoute(i) /\ ~report.links[i].ipv4
          /\ report.links[i].operstate = "up"
          /\ report.links[i].speed = 0 \/ report.links[i].speed >= 1000

(* lanCandidate: which interfaces are offered as monitored LAN. *)
lanCandidate(i, radios) ==
  /\ i # report.wan /\ ~report.links[i].master
  /\ IF isWiFiInterface(i, radios) THEN i \in DOMAIN radios /\ radios[i].ap
     ELSE /\ ~HasDefaultRoute(i) /\ ~report.links[i].ipv4
          /\ report.links[i].operstate = "up"
          /\ report.links[i].speed = 0 \/ report.links[i].speed >= 1000
          /\ report.links[i].duplex # "half"

(* What annotateInterfaces makes of all so far. *)
Annotated(radios) ==
  [report EXCEPT !.radios = radios,
     !.candidates = {i \in DOMAIN report.links : lanCandidate(i, radios)}]

(* iw dev, and iw list for what the radios can do; if either fails nothing *)
(* is known of any radio.                                                  *)
ReadDev ==
  \/ /\ Reads("dev", "list")
     /\ Succeeds([report EXCEPT !.radios = [i \in DOMAIN host.radios |->
                                              [ap |-> FALSE, mode |-> host.radios[i].mode]]])
  \/ Reads("dev", "docker") /\ Fails("radios", NoInterface, Annotated(Nothing))

ReadList ==
  /\ Reads("list", "docker")
  /\ \/ Succeeds(Annotated([i \in DOMAIN report.radios |->
                  [ap |-> i \in DOMAIN host.radios /\ host.radios[i].ap,
                   mode |-> report.radios[i].mode]]))
     \/ Fails("radios", NoInterface, Annotated(Nothing))

(* docker network ls, and an inspect for each network, which fails if the  *)
(* network is gone.                                                        *)
ReadDocker ==
  /\ Reads("docker", "inspect")
  /\ \/ Succeeds([report EXCEPT !.todo = host.docker])
     \/ Fails("docker", NoInterface, report)

InspectNetwork(p) ==
  LET rest == [report EXCEPT !.todo = @ \ {p}] IN
  /\ p \in report.todo /\ Reads("inspect", "inspect")
  /\ \/ p \in host.docker /\ Succeeds([rest EXCEPT !.docker = @ \cup {p}])
     \/ p \in host.docker /\ Fails("docker", NoInterface, rest)
     \/ /\ p \notin host.docker
        /\ report' = rest /\ failed' = failed \cup {<<"docker", NoInterface>>}
        /\ UNCHANGED events

(* nft is found on the path or not; a listing that fails changes nothing.  *)
ReadNftables ==
  /\ report.todo = {} /\ Reads("inspect", "evaluate")
  /\ Succeeds([report EXCEPT !.nft = host.nft])

-----------------------------------------------------------------------------
(* Readiness.                                                              *)

SelectedWAN == IF cfg.wan = NoInterface THEN report.wan ELSE cfg.wan

prefixesOverlap(p, q) == q.addr \in Block(p) \/ p.addr \in Block(q)

Only(check, fails) == IF fails THEN {check} ELSE {}

checkInterface(check, i) == Only(check, i \notin DOMAIN report.links)

(* Mutant: only the name is looked at. *)
isWiFiAPLANByName(i) == i \in WirelessNames

(* Whether readiness takes it for Wi-Fi: iw knows it, or it is named so. *)
isWiFiAPLAN(i) == i \in DOMAIN report.radios \/ i \in WirelessNames

(* The checks on the selected LAN interface that fail. *)
checkLANPhysicalState(lan) ==
  LET l == report.links[lan] IN
  IF lan \notin DOMAIN report.links
    THEN {"lan_link_up", "lan_no_default_route", "lan_link_speed", "lan_full_duplex",
          "lan_bridge_bond_membership"}
  ELSE IF isWiFiAPLAN(lan)
    THEN Only("lan_bridge_bond_membership", l.master)
         \cup Only("wifi_ap_capability", ~(lan \in DOMAIN report.radios /\ report.radios[lan].ap))
  ELSE Only("lan_no_default_route", HasDefaultRoute(lan))
       \cup Only("lan_link_up", ~(l.operstate = "up" /\ l.carrier # "0"))
       \cup Only("lan_link_speed", l.speed < 1000 /\ l.speed \notin {0, 100} /\ ~cfg.slow)
       \cup Only("lan_full_duplex", l.duplex = "half")
       \cup Only("lan_bridge_bond_membership", l.master)

(* ip prints the route to a single host without a length, and what has no  *)
(* length is no prefix to netip.ParsePrefix: such routes are passed over.  *)
ParsedRoutes == {d \in Destinations(report.routes) : d.size > 1}

(* The VPN check looks at a part of the same routes and fails only if this *)
(* one does.                                                               *)
checkSubnetOverlap ==
  IF cfg.subnet = NoPrefix THEN {"lan_subnet_valid"}
  ELSE IF \E d \in ParsedRoutes : prefixesOverlap(cfg.subnet, d)
    THEN {"lan_subnet_overlap"}
  ELSE Only("docker_subnet_overlap", \E p \in report.docker : prefixesOverlap(cfg.subnet, p))

(* The address of the SSH session must not be on the LAN interface; a      *)
(* process that is not told of the session, as a daemon, finds no fault.   *)
checkSSHPreservation ==
  Only("ssh_management_preserved",
       cfg.session /\ cfg.lan \in DOMAIN report.links /\ report.links[cfg.lan].ssh)

Failing ==
  checkInterface("wan_interface", SelectedWAN)
  \cup checkInterface("lan_interface", cfg.lan)
  \cup checkLANPhysicalState(cfg.lan)
  \cup Only("wan_lan_separation", SelectedWAN = cfg.lan /\ SelectedWAN # NoInterface)
  \cup checkSubnetOverlap
  \cup checkSSHPreservation
  \cup Only("nftables_available", ~report.nft)

(* The two checks that hold an activation back even as warnings. *)
Warned ==
  /\ cfg.lan \in DOMAIN report.links /\ isWiFiAPLAN(cfg.lan)
  /\ \/ HasDefaultRoute(cfg.lan)
     \/ cfg.lan \in DOMAIN report.radios /\ report.radios[cfg.lan].mode = "managed"

(* Mutants: only the warnings hold an activation back; what only warns     *)
(* counts as a failure.                                                    *)
EvaluateActivationByWarnings ==
  /\ step = "evaluate" /\ step' = "answered"
  /\ answer' = [ready |-> Failing = {}, activation |-> ~Warned, fails |-> Failing]
  /\ UNCHANGED <<host, cfg, report, failed, events, seen>>

EvaluateStrictly ==
  /\ step = "evaluate" /\ step' = "answered"
  /\ answer' = [ready |-> Failing = {} /\ ~Warned, activation |-> Failing = {} /\ ~Warned,
                fails |-> Failing]
  /\ UNCHANGED <<host, cfg, report, failed, events, seen>>

Evaluate ==
  /\ step = "evaluate" /\ step' = "answered"
  /\ answer' = [ready |-> Failing = {}, activation |-> Failing = {} /\ ~Warned,
                fails |-> Failing]
  /\ UNCHANGED <<host, cfg, report, failed, events, seen>>

(* The next request starts from nothing. *)
Ask ==
  /\ step = "answered" /\ step' = "interfaces"
  /\ report' = Empty /\ answer' = NoAnswer /\ failed' = {} /\ events' = 0 /\ seen' = {host}
  /\ UNCHANGED <<host, cfg>>

ReadinessNext ==
  \/ \E h \in HostStates : Change(h)
  \/ ListInterfaces
  \/ \E i \in Interfaces : ReadAddresses(i)
  \/ ReadOperstate \/ ReadCarrier \/ ReadSpeed \/ ReadDuplex \/ ReadMaster
  \/ ReadRoutes \/ ReadManaged \/ ReadDev \/ ReadList
  \/ ReadDocker \/ (\E p \in report.todo : InspectNetwork(p)) \/ ReadNftables
  \/ Evaluate \/ Ask

ReadinessSpec == ReadinessInit /\ [][ReadinessNext]_readinessVars
-----------------------------------------------------------------------------
(* Properties.                                                             *)

Steps ==
  {"interfaces", "addresses", "operstate", "carrier", "speed", "duplex", "master", "nm",
   "dev", "list", "docker", "inspect", "evaluate", "answered"}

ReadinessTypeOK ==
  /\ host \in seen /\ seen \subseteq HostStates /\ cfg \in Configs
  /\ step \in Steps
  /\ DOMAIN report.links \subseteq Interfaces /\ report.links \in [DOMAIN report.links -> Links]
  /\ report.candidates \subseteq DOMAIN report.links
  /\ answer.activation => answer.ready
  /\ events \in 0 .. MaxEvents

(* What stays hidden.  Routes to single hosts; without routes any overlap  *)
(* and any default route; without Docker its networks; a file of the LAN   *)
(* interface that was not read; the session that the process is not told   *)
(* of; and what is required of a radio, if its name does not say that it   *)
(* is one and iw failed or did not know it.  Two documents promise more:   *)
(* AP mode is confirmed (docs/gateway-hardware-readiness.md:190), and the  *)
(* LAN is not the SSH path (docs/gateway-architecture.md:85).              *)
Unnoticed ==
  /\ cfg.lan \notin WirelessNames
  /\ <<"radios", NoInterface>> \in failed \/ \E h \in seen : cfg.lan \notin DOMAIN h.radios

Hidden ==
  {"host_routes"}
  \cup {name \in {"carrier", "speed", "duplex", "master"} : <<name, cfg.lan>> \in failed}
  \cup (IF <<"routes", NoInterface>> \in failed THEN {"routes", "no_default_route"} ELSE {})
  \cup (IF <<"docker", NoInterface>> \in failed THEN {"docker"} ELSE {})
  \cup (IF cfg.session THEN {} ELSE {"ssh"})
  \cup (IF Unnoticed THEN {"ap", "not_a_client"} ELSE {})

(* Ready means ready: a requirement that the host violated through the     *)
(* whole discovery is found out, in whatever order parts are read and      *)
(* change and whichever reads fail, unless it is one of those that stay    *)
(* hidden for a reason given above (readiness.go:32-91, 198-209,           *)
(* discovery.go:106-151, 635-668).                                         *)
ReadyIsGrounded ==
  /\ answer.ready => Always \subseteq Hidden \cup ActivationOnly
  /\ answer.activation => Always \subseteq Hidden

(* A refusal has a reason: if every read succeeded and the host met all    *)
(* requirements all the time, it is ready, and ready for activation.  A    *)
(* wireless LAN with a default route may be taken for a detected WAN, and  *)
(* a WAN detected in the routes may have appeared after the interfaces     *)
(* were read (readiness.go:32-47, 77-89, discovery.go:108-115).            *)
AppearedLate ==
  cfg.wan = NoInterface /\ report.wan \in Interfaces \ DOMAIN report.links

RefusalHasAReason ==
  step = "answered" /\ failed = {} /\ ~AppearedLate =>
    /\ ~answer.ready => Ever \ (IF cfg.wan = NoInterface THEN {"not_a_client"} ELSE ActivationOnly) # {}
    /\ ~answer.activation => Ever # {}

(* Discovery and readiness agree: an interface that is offered as LAN      *)
(* passes the checks on a LAN interface, except that it may have no        *)
(* carrier (discovery.go:386-423, readiness.go:93-202).                    *)
CandidatesAreUsable ==
  \A i \in report.candidates :
    checkLANPhysicalState(i)
      \subseteq Only("lan_link_up", report.links[i].carrier = "0")

=============================================================================
