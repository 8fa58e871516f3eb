----------------------------- MODULE GatewayRules -----------------------------
(***************************************************************************)
(* The gateway's ruleset and the plan around it: what the rendered rules   *)
(* count, what loading them again does, and what the rollback commands     *)
(* leave behind.                                                           *)
(*                                                                         *)
(*   features/gateway/plan/plan.go                 the plan and its files  *)
(*   apps/gatewayctl/cmd/network-monitor*/main.go  the commands            *)
(*                                                                         *)
(* The programs render and print; applying is disabled in them.  A person  *)
(* applies what they print, as tests/gateway/simulate_gateway.sh does, and *)
(* may stop half way, load the rules once more with other clients, or roll *)
(* back at any time, as the safety timer does.                             *)
(***************************************************************************)
EXTENDS Integers, SequencesExt, Sums

CONSTANTS
  Clients,    \* the clients of the monitored LAN
  Names,      \* the names given to them with --client-counter
  Sanitized,  \* the counter name that a client's name becomes
  Others,     \* hosts that are not on the monitored LAN
  Device,     \* the interface a host is behind
  Plans,      \* the configurations: records of dhcp and wifi
  MaxLoads,   \* bound: loads of the ruleset into one table
  MaxPackets  \* bound: packets in a behaviour

LAN == "lan"
WAN == "wan"
Hosts == Clients \cup Others
Labels == {Sanitized[n] : n \in Names}

ASSUME HostsAssumption ==
  Clients \cap Others = {} /\ IsFiniteSet(Clients) /\ IsFiniteSet(Others)
ASSUME NamesAssumption == Names \in SUBSET STRING /\ Sanitized \in [Names -> STRING]
ASSUME DeviceAssumption ==
  /\ Device \in [Hosts -> STRING]
  /\ \A h \in Hosts : Device[h] = LAN <=> h \in Clients
ASSUME PlansAssumption == Plans \subseteq [dhcp : BOOLEAN, wifi : BOOLEAN]
ASSUME BoundsAssumption == MaxLoads \in Nat /\ MaxPackets \in Nat

(* A packet at the forward hook, before source NAT: it goes to another     *)
(* device, or from one client to another.                                  *)
Packets ==
  {p \in [from : Hosts, to : Hosts, ipv4 : BOOLEAN] :
     p.from # p.to /\ (Device[p.from] # Device[p.to] \/ {p.from, p.to} \subseteq Clients)}

VARIABLES
  plan,     \* the plan being applied
  phase,    \* idle, applying, active or rolling back
  position, \* the steps applied, or the rollback commands run
  settings, \* what of the host the plan changes
  previous, \* the value of ip_forward noted before the first change
  before,   \* history: the settings before the first change
  chain,    \* the loads of the accounting chain, each by the names it gives
  counters, \* the values of the counters
  carried   \* history: how often each packet was forwarded since the table was made

vars == <<plan, phase, position, settings, previous, before, chain, counters, carried>>

Settings == {"forwarding", "address", "table", "dnsmasq", "hostapd"}

NoneCarried == [p \in Packets |-> 0]

CounterNames ==
  ({"internet_download", "internet_upload", "lan_download", "lan_upload"} \X {"client"})
  \cup ({"internet_download", "internet_upload"} \X Labels)

Init ==
  /\ plan \in Plans
  /\ phase = "idle" /\ position = 0
  /\ \E on \in BOOLEAN : settings = [s \in Settings |-> s = "forwarding" /\ on]
  /\ previous = FALSE /\ before = settings
  /\ chain = <<>>
  /\ counters = [c \in CounterNames |-> 0]
  /\ carried = NoneCarried

-----------------------------------------------------------------------------
(* The ruleset.                                                            *)

Rule(iif, oif, src, dst, counter) ==
  [iif |-> iif, oif |-> oif, src |-> src, dst |-> dst, counter |-> counter]
Anywhere == {Device[h] : h \in Hosts}

(* Mutant: the device of the answers is not compared. *)
ClientRulesOfAnyDevice(c, label) ==
  { Rule({LAN}, {WAN}, {c}, Others, <<"internet_upload", label>>),
    Rule(Anywhere, {LAN}, Others, {c}, <<"internet_download", label>>) }

(* Two rules for a client that has a counter of its own. *)
ClientRules(c, label) ==
  { Rule({LAN}, {WAN}, {c}, Others, <<"internet_upload", label>>),
    Rule({WAN}, {LAN}, Others, {c}, <<"internet_download", label>>) }

(* Mutant: nor is it here. *)
AggregateRulesOfAnyDevice ==
  { Rule({LAN}, {WAN}, Clients, Others, <<"internet_upload", "client">>),
    Rule(Anywhere, {LAN}, Others, Clients, <<"internet_download", "client">>),
    Rule({LAN}, Anywhere, Clients, Clients, <<"lan_upload", "client">>),
    Rule(Anywhere, {LAN}, Clients, Clients, <<"lan_download", "client">>) }

(* Four rules for all clients together: the set monitored_lan4 holds their *)
(* addresses.                                                              *)
AggregateRules ==
  { Rule({LAN}, {WAN}, Clients, Others, <<"internet_upload", "client">>),
    Rule({WAN}, {LAN}, Others, Clients, <<"internet_download", "client">>),
    Rule({LAN}, Anywhere, Clients, Clients, <<"lan_upload", "client">>),
    Rule(Anywhere, {LAN}, Clients, Clients, <<"lan_download", "client">>) }

(* Mutant: the counters are named as the clients are. *)
RenderNftablesVerbatim(naming) ==
  AggregateRules \cup UNION {ClientRules(c, naming[c]) : c \in DOMAIN naming}

(* naming gives each client that has a counter its name; that no client    *)
(* has two is assumed, the program does not see to it.                     *)
RenderNftables(naming) ==
  AggregateRules \cup UNION {ClientRules(c, Sanitized[naming[c]]) : c \in DOMAIN naming}

Matches(r, p) ==
  p.ipv4 /\ Device[p.from] \in r.iif /\ Device[p.to] \in r.oif /\ p.from \in r.src /\ p.to \in r.dst

(* How often a packet counts: once for each rule in each load. *)
Counting(p, counter, naming) ==
  {r \in RenderNftables(naming) : r.counter = counter /\ Matches(r, p)}
Hits(p, counter) ==
  Sum([i \in DOMAIN chain |-> Cardinality(Counting(p, counter, chain[i]))], DOMAIN chain)

Forward(p) ==
  /\ settings["forwarding"] /\ settings["table"]
  /\ Sum(carried, Packets) < MaxPackets
  /\ counters' = [c \in CounterNames |-> counters[c] + Hits(p, c)]
  /\ carried' = [carried EXCEPT ![p] = @ + 1]
  /\ UNCHANGED <<plan, phase, position, settings, previous, before, chain>>

-----------------------------------------------------------------------------
(* The plan.                                                               *)

(* BuildDryRun: the changes in the order they are listed.  For a wireless  *)
(* LAN there is a configuration of hostapd besides.                        *)
WouldChange ==
  <<"forwarding", "address", "table">>
  \o (IF plan.dhcp THEN <<"dnsmasq">> ELSE <<>>)
  \o (IF plan.wifi THEN <<"hostapd">> ELSE <<>>)

(* Mutant: a command is missing. *)
RollbackWithoutAddress == <<"table", "dnsmasq", "forwarding">>

RollbackCommands == <<"table", "dnsmasq", "address", "forwarding">>

(* nft -f: the table is made if it is not there, and the rules are added   *)
(* to its chain.                                                           *)
Load(naming) == Len(chain) < MaxLoads /\ chain' = Append(chain, naming)

Begin ==
  /\ phase = "idle"
  /\ phase' = "applying" /\ position' = 0
  /\ previous' = settings["forwarding"] /\ before' = settings
  /\ UNCHANGED <<plan, settings, chain, counters, carried>>

Namings == UNION {[cs -> Names] : cs \in SUBSET Clients}

ApplyStep ==
  LET s == WouldChange[position + 1] IN
  /\ phase = "applying" /\ position < Len(WouldChange)
  /\ settings' = [settings EXCEPT ![s] = TRUE]
  /\ position' = position + 1
  /\ IF s = "table" THEN \E naming \in Namings : Load(naming) ELSE UNCHANGED chain
  /\ UNCHANGED <<plan, phase, previous, before, counters, carried>>

Confirm ==
  /\ phase = "applying" /\ position = Len(WouldChange)
  /\ phase' = "active"
  /\ UNCHANGED <<plan, position, settings, previous, before, chain, counters, carried>>

(* The same file is loaded again. *)
LoadAgain ==
  /\ phase = "active"
  /\ Load(Last(chain))
  /\ UNCHANGED <<plan, phase, position, settings, previous, before, counters, carried>>

(* At any time: by the timer, by hand, or after a step failed. *)
BeginRollback ==
  /\ phase \in {"applying", "active"}
  /\ phase' = "rolling_back" /\ position' = 0
  /\ UNCHANGED <<plan, settings, previous, before, chain, counters, carried>>

(* A command whose change was never made fails, and the next one is run.   *)
(* With the table its counters go.                                         *)
RollbackStep ==
  LET s == RollbackCommands[position + 1] IN
  /\ phase = "rolling_back"
  /\ settings' = [settings EXCEPT ![s] = s = "forwarding" /\ previous]
  /\ position' = position + 1
  /\ IF s = "table"
       THEN /\ chain' = <<>> /\ counters' = [c \in CounterNames |-> 0]
            /\ carried' = NoneCarried
       ELSE UNCHANGED <<chain, counters, carried>>
  /\ phase' = IF position' = Len(RollbackCommands) THEN "idle" ELSE phase
  /\ UNCHANGED <<plan, previous, before>>

Next ==
  \/ \E p \in Packets : Forward(p)
  \/ Begin \/ ApplyStep \/ Confirm \/ LoadAgain \/ BeginRollback \/ RollbackStep

Spec == Init /\ [][Next]_vars
-----------------------------------------------------------------------------
(* Properties.                                                             *)

TypeOK ==
  /\ plan \in Plans
  /\ phase \in {"idle", "applying", "active", "rolling_back"}
  /\ position \in 0 .. 5
  /\ settings \in [Settings -> BOOLEAN] /\ before \in [Settings -> BOOLEAN]
  /\ previous \in BOOLEAN
  /\ chain \in BoundedSeq(Namings, MaxLoads) /\ (chain = <<>> <=> ~settings["table"])
  /\ \A i \in DOMAIN chain : \A r \in RenderNftables(chain[i]) : r.counter \in CounterNames
  /\ counters \in [CounterNames -> Nat] /\ carried \in [Packets -> Nat]

Total(ps) == Sum(carried, ps)
BehindWAN == {h \in Others : Device[h] = WAN}
IPv4(sources, targets) == {p \in Packets : p.ipv4 /\ p.from \in sources /\ p.to \in targets}
Given == {Sanitized[chain[1][c]] : c \in DOMAIN chain[1]}

(* In a table loaded once, the counters of all clients hold each IPv4      *)
(* packet between a client and the WAN once, in its direction, and what    *)
(* clients send each other in both, whatever containers or IPv6 add, as    *)
(* long as no client is named "client" (plan.go:128-134).                  *)
PacketsCountedOnce ==
  Len(chain) = 1 /\ "client" \notin Given =>
    /\ counters[<<"internet_upload", "client">>] = Total(IPv4(Clients, BehindWAN))
    /\ counters[<<"internet_download", "client">>] = Total(IPv4(BehindWAN, Clients))
    /\ \A dir \in {"lan_upload", "lan_download"} :
         counters[<<dir, "client">>] = Total(IPv4(Clients, Clients))

(* The clients' own counters add up to those of all clients, no matter     *)
(* under which names: a collision merges two clients but loses nothing.    *)
(* Each client has one name; gatewayctl would take a second one for the    *)
(* same address, and count its packets for both (plan.go:96-113, 187-200,  *)
(* main.go:125-131).                                                       *)
ClientsAddUp ==
  Len(chain) = 1 /\ DOMAIN chain[1] = Clients /\ "client" \notin Given =>
    \A dir \in {"internet_upload", "internet_download"} :
      Sum([l \in Given |-> counters[<<dir, l>>]], Given) = counters[<<dir, "client">>]

(* After a rollback, from whatever point of the plan it was begun and      *)
(* however often the rules were loaded, the host is as it was before, with *)
(* one exception: no command stops hostapd (plan.go:57-77).                *)
RollbackRestores ==
  phase = "idle" => \A s \in Settings \ {"hostapd"} : settings[s] = before[s]

(* A document, violated: "Gateway nftables rules must be idempotent"       *)
(* (docs/gateway-architecture.md:200).  The rendered file does not empty   *)
(* the chain, so loading it again counts every packet twice, whatever the  *)
(* clients are named (plan.go:115-147).                                    *)
LoadingIsIdempotent ==
  settings["table"] /\ "client" \notin Given =>
    counters[<<"internet_upload", "client">>] <= Total(IPv4(Clients, BehindWAN))
=============================================================================
