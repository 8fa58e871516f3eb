---------------------------- MODULE DeviceRegistry ----------------------------
(***************************************************************************)
(* The registry of LAN devices: sightings of a client (a DHCP lease, an    *)
(* ARP entry) are merged into one device per hardware address.             *)
(*                                                                         *)
(*   features/gateway/devices/registry.go   NewRegistry, Upsert            *)
(*                                                                         *)
(* Sightings reach Upsert late, in any order, or never; the same hardware  *)
(* address is spelled in several ways; a lease moves from one client to    *)
(* another.  The caller stores the device it gets back, or dies before it  *)
(* does, and builds the registry anew from what was stored.                *)
(***************************************************************************)
EXTENDS Integers

CONSTANTS
  Clients,      \* the hardware addresses, in the form that NormalizeMAC returns
  Texts,        \* the texts that sightings carry as hardware address
  Spelled,      \* the client a text spells, or NoClient where it is none
  NoClient,
  Addresses,    \* the addresses that DHCP leases
  NoAddress,
  Hostnames,    \* the names sightings carry; NoName is the empty one
  NoName,
  MaxClock,     \* bound: instants in a behaviour
  Budgets       \* bound: how often each kind of event may happen

Kinds == {"lease", "sighting", "query", "flow"}

ASSUME NoClientAssumption == NoClient \notin Clients
ASSUME NoAddressAssumption == NoAddress \notin Addresses
ASSUME NoNameAssumption == NoName \in Hostnames
ASSUME SpelledAssumption == Spelled \in [Texts -> Clients \cup {NoClient}]
ASSUME BoundsAssumption == MaxClock \in Nat /\ Budgets \subseteq [Kinds -> Nat]

Times == 0 .. MaxClock
NoTime == -1

(* Case and separators are folded; what is no address becomes empty. *)
NormalizeMAC(text) == Spelled[text]

Identities == ({"mac"} \X Clients) \cup ({"unknown"} \X Addresses)
idForMAC(mac) == <<"mac", mac>>

Devices ==
  [id : Identities, mac : Clients \cup {NoClient}, ip : Addresses, hostname : Hostnames,
   firstSeen : Times, lastSeen : Times, status : {"online", "unknown"}]

(* What Upsert is given; client is history, the client really seen. *)
Sightings ==
  [text : Texts, ip : Addresses, hostname : Hostnames, at : Times \cup {NoTime},
   client : Clients]

VARIABLES
  clock,     \* the present instant
  lease,     \* the address each client holds
  sightings, \* the sightings on their way to Upsert
  registry,  \* Registry.byMAC: a map from hardware addresses to devices
  stored,    \* the devices the caller has stored: a map from identities
  held,      \* history: which client held which address when
  undated,   \* history: what Upsert made of sightings without a time
  left       \* how often each kind of event may still happen

registryVars == <<clock, lease, sightings, registry, stored, held, undated, left>>

(* Maps. *)
Nothing == [x \in {} |-> NoClient]
With(map, key, value) ==
  [x \in DOMAIN map \cup {key} |-> IF x = key THEN value ELSE map[x]]

Holding(leases, at) == {<<c, leases[c], at>> : c \in {d \in Clients : leases[d] # NoAddress}}

RegistryInit ==
  /\ clock = 0
  /\ lease \in [Clients -> Addresses \cup {NoAddress}]
  /\ \A c, d \in Clients : lease[c] = lease[d] => c = d \/ lease[c] = NoAddress
  /\ sightings = {}
  /\ registry = Nothing
  /\ stored = Nothing
  /\ held = Holding(lease, 0)
  /\ undated = {}
  /\ left \in Budgets

-----------------------------------------------------------------------------
(* The network.                                                            *)

Event(kind) == left[kind] > 0 /\ left' = [left EXCEPT ![kind] = @ - 1]

PassTime ==
  /\ clock < MaxClock
  /\ clock' = clock + 1
  /\ held' = held \cup Holding(lease, clock + 1)
  /\ UNCHANGED <<lease, sightings, registry, stored, undated, left>>

(* A client gets a free address and gives up the one it had. *)
Renew(c, ip) ==
  /\ Event("lease")
  /\ ip \notin {lease[d] : d \in Clients}
  /\ lease' = [lease EXCEPT ![c] = ip]
  /\ held' = held \cup Holding(lease', clock)
  /\ UNCHANGED <<clock, sightings, registry, stored, undated>>

(* A client is seen with the address it holds, under some spelling of its  *)
(* own hardware address or one that cannot be read, dated or not.          *)
See(c, text, hostname, at) ==
  /\ lease[c] # NoAddress
  /\ Spelled[text] \in {c, NoClient}
  /\ at \in {clock, NoTime}
  /\ Event("sighting")
  /\ sightings' = sightings \cup
       {[text |-> text, ip |-> lease[c], hostname |-> hostname, at |-> at, client |-> c]}
  /\ UNCHANGED <<clock, lease, registry, stored, held, undated>>

-----------------------------------------------------------------------------
(* The registry.                                                           *)

observationTime(at) == IF at = NoTime THEN clock ELSE at

Unidentified(o) ==
  [id |-> <<"unknown", o.ip>>, mac |-> NoClient, ip |-> o.ip, hostname |-> o.hostname,
   firstSeen |-> observationTime(o.at), lastSeen |-> observationTime(o.at),
   status |-> "unknown"]

Known(mac) == mac \in DOMAIN registry

(* Mutants: a new address starts a new history; a late sighting leaves the *)
(* time but not the address.                                               *)
FirstSeenAtAddress(mac, o) ==
  IF Known(mac) /\ registry[mac].ip = o.ip
    THEN registry[mac].firstSeen ELSE observationTime(o.at)
LastSeenLatest(mac, o) ==
  IF Known(mac) /\ registry[mac].lastSeen > observationTime(o.at)
    THEN registry[mac].lastSeen ELSE observationTime(o.at)

FirstSeen(mac, o) == IF Known(mac) THEN registry[mac].firstSeen ELSE observationTime(o.at)
LastSeen(mac, o) == observationTime(o.at)

(* The device a sighting makes of the one known under its address. *)
Merged(mac, o) ==
  [id |-> IF Known(mac) THEN registry[mac].id ELSE idForMAC(mac),
   mac |-> mac,
   ip |-> o.ip,
   hostname |-> IF Known(mac) /\ o.hostname = NoName THEN registry[mac].hostname ELSE o.hostname,
   firstSeen |-> FirstSeen(mac, o),
   lastSeen |-> LastSeen(mac, o),
   status |-> "online"]

Returned(o) ==
  IF NormalizeMAC(o.text) = NoClient THEN Unidentified(o) ELSE Merged(NormalizeMAC(o.text), o)

(* Upsert: a device without a readable address is returned and not kept.   *)
(* The caller stores the result, or fails to.                              *)
Upsert(o, stores) ==
  LET mac == NormalizeMAC(o.text)
      device == Returned(o)
  IN  /\ o \in sightings
      /\ sightings' = sightings \ {o}
      /\ registry' = IF mac = NoClient THEN registry ELSE With(registry, mac, device)
      /\ undated' = IF o.at = NoTime THEN undated \cup {<<mac, o.ip, clock>>} ELSE undated
      /\ stored' = IF stores THEN With(stored, device.id, device) ELSE stored
      /\ UNCHANGED <<clock, lease, held, left>>

(* Mutant: they are not skipped. *)
NewRegistryOfAll(devices) ==
  [mac \in {d.mac : d \in devices} |-> CHOOSE d \in devices : d.mac = mac]

(* NewRegistry: stored devices without a hardware address are skipped. *)
NewRegistry(devices) ==
  [mac \in {d.mac : d \in devices} \ {NoClient} |-> CHOOSE d \in devices : d.mac = mac]

(* The process dies and starts from what was stored. *)
Reload ==
  /\ registry' = NewRegistry({stored[id] : id \in DOMAIN stored})
  /\ UNCHANGED <<clock, lease, sightings, stored, held, undated, left>>

-----------------------------------------------------------------------------

RegistryNext ==
  \/ PassTime
  \/ \E c \in Clients, ip \in Addresses : Renew(c, ip)
  \/ \E c \in Clients, text \in Texts, hostname \in Hostnames, at \in Times \cup {NoTime} :
       See(c, text, hostname, at)
  \/ \E o \in sightings, stores \in BOOLEAN : Upsert(o, stores)
  \/ Reload

RegistrySpec == RegistryInit /\ [][RegistryNext]_registryVars
-----------------------------------------------------------------------------
(* Properties.                                                             *)

RegistryTypeOK ==
  /\ clock \in Times
  /\ lease \in [Clients -> Addresses \cup {NoAddress}]
  /\ sightings \subseteq Sightings
  /\ DOMAIN registry \subseteq Clients /\ registry \in [DOMAIN registry -> Devices]
  /\ DOMAIN stored \subseteq Identities /\ stored \in [DOMAIN stored -> Devices]
  /\ held \subseteq Clients \X Addresses \X Times
  /\ undated \subseteq (Clients \cup {NoClient}) \X Addresses \X Times
  /\ left \in [Kinds -> Nat]

(* The history of a device stays linked to its hardware address: whatever  *)
(* spelling or address it is seen with, in whatever order, and across      *)
(* restarts that lost an update, a stored device keeps its identity and    *)
(* the time it was first seen, and a known name is not erased              *)
(* (registry.go:78-101).                                                   *)
HistoryFollowsMAC ==
  [][\A id \in DOMAIN stored : id[1] = "mac" =>
       /\ id \in DOMAIN stored'
       /\ stored'[id].mac = stored[id].mac
       /\ stored'[id].firstSeen = stored[id].firstSeen
       /\ stored[id].hostname # NoName => stored'[id].hostname # NoName]_stored

(* What the registry shows of a device was true at one moment, though      *)
(* sightings are applied out of order and updates are lost: the client     *)
(* itself held the address at the time it is said to have been seen last,  *)
(* unless the sighting had no time and got that of its handling            *)
(* (registry.go:88-100).                                                   *)
SightingsAreTrue ==
  \A mac \in DOMAIN registry :
    <<mac, registry[mac].ip, registry[mac].lastSeen>> \in held \cup undated
=============================================================================
