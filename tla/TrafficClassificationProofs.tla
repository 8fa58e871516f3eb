--------------------- MODULE TrafficClassificationProofs ---------------------
(***************************************************************************)
(* Theorems about TrafficClassification and the device registry in it, for *)
(* all clients, addresses, spellings, providers, page sizes and bounds.    *)
(***************************************************************************)
EXTENDS TrafficClassification, FiniteSetTheorems, SequenceTheorems, WellFoundedInduction, TLAPS

-----------------------------------------------------------------------------
(* The registry and what is stored of it.                                  *)

(* A device is kept under its own address, and stored under the identity   *)
(* made of it; what has no address has no such identity.                   *)
Identified ==
  /\ \A mac \in DOMAIN registry :
       mac # NoClient /\ registry[mac].mac = mac /\ registry[mac].id = idForMAC(mac)
  /\ \A id \in DOMAIN stored :
       /\ stored[id].id = id
       /\ id[1] = "mac" => stored[id].mac # NoClient /\ id = idForMAC(stored[id].mac)
       /\ id[1] # "mac" => stored[id].mac = NoClient

(* The registry knows what is stored. *)
Kept ==
  \A id \in DOMAIN stored : id[1] = "mac" =>
    /\ stored[id].mac \in DOMAIN registry
    /\ registry[stored[id].mac].firstSeen = stored[id].firstSeen
    /\ stored[id].hostname # NoName => registry[stored[id].mac].hostname # NoName

HistoryInv == Identified /\ Kept

(* What Upsert makes of a sighting whose address can be read.              *)
LEMMA MergedDevice ==
  ASSUME NEW mac, NEW o, mac # NoClient
  PROVE  /\ Merged(mac, o).mac = mac
         /\ Merged(mac, o).ip = o.ip
         /\ Merged(mac, o).lastSeen = observationTime(o.at)
         /\ mac \notin DOMAIN registry => Merged(mac, o).id = idForMAC(mac)
         /\ mac \in DOMAIN registry =>
              /\ Merged(mac, o).id = registry[mac].id
              /\ Merged(mac, o).firstSeen = registry[mac].firstSeen
              /\ registry[mac].hostname # NoName => Merged(mac, o).hostname # NoName
BY DEF Merged, Known, FirstSeen, LastSeen

(* A restart brings back exactly the stored devices that have an address.  *)
LEMMA ReloadRestores ==
  ASSUME Identified, Reload
  PROVE  /\ stored' = stored
         /\ \A mac \in DOMAIN registry' :
              /\ mac # NoClient
              /\ idForMAC(mac) \in DOMAIN stored
              /\ registry'[mac] = stored[idForMAC(mac)]
              /\ stored[idForMAC(mac)].mac = mac
         /\ \A id \in DOMAIN stored : id[1] = "mac" => stored[id].mac \in DOMAIN registry'
<1> DEFINE devices == {stored[id] : id \in DOMAIN stored}
<1>1. registry' = [mac \in {d.mac : d \in devices} \ {NoClient} |->
                     CHOOSE d \in devices : d.mac = mac] /\ stored' = stored
  BY DEF Reload, NewRegistry
<1>2. ASSUME NEW mac \in DOMAIN registry'
      PROVE  /\ mac # NoClient /\ idForMAC(mac) \in DOMAIN stored
             /\ registry'[mac] = stored[idForMAC(mac)]
             /\ stored[idForMAC(mac)].mac = mac
  <2>1. mac # NoClient /\ \E d \in devices : d.mac = mac
    BY <1>1
  <2>2. registry'[mac] = CHOOSE d \in devices : d.mac = mac
    BY <1>1
  <2>3. registry'[mac] \in devices /\ registry'[mac].mac = mac
    BY <2>1, <2>2
  <2>4. PICK id \in DOMAIN stored : registry'[mac] = stored[id]
    BY <2>3
  <2>5. id = idForMAC(mac)
    BY <2>1, <2>3, <2>4 DEF Identified
  <2> QED BY <2>1, <2>3, <2>4, <2>5
<1>3. ASSUME NEW id \in DOMAIN stored, id[1] = "mac"
      PROVE  stored[id].mac \in DOMAIN registry'
  BY <1>1, <1>3 DEF Identified
<1> QED BY <1>1, <1>2, <1>3

(* The history of the devices in one step. *)
HistoryStep ==
  \A id \in DOMAIN stored : id[1] = "mac" =>
    /\ id \in DOMAIN stored'
    /\ stored'[id].mac = stored[id].mac
    /\ stored'[id].firstSeen = stored[id].firstSeen
    /\ stored[id].hostname # NoName => stored'[id].hostname # NoName

(* A sighting that cannot be identified changes no device that can.        *)
LEMMA UpsertUnidentified ==
  ASSUME HistoryInv, NEW o, NEW stores \in BOOLEAN, Upsert(o, stores),
         NormalizeMAC(o.text) = NoClient
  PROVE  HistoryInv' /\ HistoryStep
<1> DEFINE device == Unidentified(o)
<1>1. registry' = registry /\ device.id = <<"unknown", o.ip>> /\ device.mac = NoClient
      /\ device.id[1] # "mac"
  BY DEF Upsert, Unidentified
<1>2. stored' = stored \/ stored' = With(stored, device.id, device)
  BY DEF Upsert, Returned
<1>3. CASE stored' = stored
  BY <1>1, <1>3 DEF HistoryInv, Identified, Kept, HistoryStep
<1>4. CASE stored' = With(stored, device.id, device)
  <2> HIDE DEF device
  <2>1. DOMAIN stored' = DOMAIN stored \cup {device.id} /\ stored'[device.id] = device
        /\ \A id \in DOMAIN stored : id[1] = "mac" => stored'[id] = stored[id]
    BY <1>1, <1>4 DEF With
  <2>2. \A id \in DOMAIN stored' : id # device.id => id \in DOMAIN stored /\ stored'[id] = stored[id]
    BY <1>4 DEF With
  <2> QED BY <1>1, <2>1, <2>2 DEF HistoryInv, Identified, Kept, HistoryStep
<1> QED BY <1>2, <1>3, <1>4

(* One that can goes to the device known under its address.                *)
LEMMA UpsertIdentified ==
  ASSUME HistoryInv, NEW o, NEW stores \in BOOLEAN, Upsert(o, stores),
         NormalizeMAC(o.text) # NoClient
  PROVE  HistoryInv' /\ HistoryStep
<1> DEFINE mac == NormalizeMAC(o.text)
           device == Merged(mac, o)
<1>1. registry' = With(registry, mac, device)
      /\ (stored' = stored \/ stored' = With(stored, device.id, device))
  BY DEF Upsert, Returned
<1>2. /\ device.mac = mac
      /\ mac \in DOMAIN registry =>
           /\ device.firstSeen = registry[mac].firstSeen
           /\ registry[mac].hostname # NoName => device.hostname # NoName
      /\ device.id = idForMAC(mac)
  BY MergedDevice DEF HistoryInv, Identified
<1>3. mac # NoClient
  OBVIOUS
<1> HIDE DEF mac, device
<1>4. /\ mac \in DOMAIN registry' /\ registry'[mac] = device
      /\ \A m \in DOMAIN registry : m \in DOMAIN registry' /\ (m # mac => registry'[m] = registry[m])
      /\ \A m \in DOMAIN registry' : m # mac => m \in DOMAIN registry /\ registry'[m] = registry[m]
  BY <1>1 DEF With
<1>5. /\ device.id[1] = "mac"
      /\ \A id : id[1] = "mac" /\ id = idForMAC(mac) => id = device.id
  BY <1>2 DEF idForMAC
<1>6. ASSUME NEW id \in DOMAIN stored, id[1] = "mac", stored[id].mac = mac
      PROVE  id = device.id /\ device.firstSeen = stored[id].firstSeen
             /\ (stored[id].hostname # NoName => device.hostname # NoName)
  BY <1>2, <1>6 DEF HistoryInv, Identified, Kept
<1>7. CASE stored' = stored
  <2>1. Identified'
    BY <1>2, <1>3, <1>4, <1>7 DEF HistoryInv, Identified
  <2>2. Kept'
    <3> SUFFICES ASSUME NEW id \in DOMAIN stored, id[1] = "mac"
                 PROVE  /\ stored[id].mac \in DOMAIN registry'
                        /\ registry'[stored[id].mac].firstSeen = stored[id].firstSeen
                        /\ stored[id].hostname # NoName =>
                             registry'[stored[id].mac].hostname # NoName
      BY <1>7 DEF Kept
    <3>1. CASE stored[id].mac = mac
      BY <1>4, <1>6, <3>1
    <3>2. CASE stored[id].mac # mac
      BY <1>4, <3>2 DEF HistoryInv, Kept
    <3> QED BY <3>1, <3>2
  <2> QED BY <1>7, <2>1, <2>2 DEF HistoryInv, HistoryStep
<1>8. CASE stored' = With(stored, device.id, device)
  <2>1. /\ device.id \in DOMAIN stored' /\ stored'[device.id] = device
        /\ \A id \in DOMAIN stored : id \in DOMAIN stored' /\ (id # device.id => stored'[id] = stored[id])
        /\ \A id \in DOMAIN stored' : id # device.id => id \in DOMAIN stored /\ stored'[id] = stored[id]
    BY <1>8 DEF With
  <2>2. Identified'
    BY <1>2, <1>3, <1>4, <1>5, <2>1 DEF HistoryInv, Identified
  <2>3. Kept'
    <3> SUFFICES ASSUME NEW id \in DOMAIN stored', id[1] = "mac"
                 PROVE  /\ stored'[id].mac \in DOMAIN registry'
                        /\ registry'[stored'[id].mac].firstSeen = stored'[id].firstSeen
                        /\ stored'[id].hostname # NoName =>
                             registry'[stored'[id].mac].hostname # NoName
      BY DEF Kept
    <3>1. CASE id = device.id
      BY <1>2, <1>4, <2>1, <3>1
    <3>2. CASE id # device.id
      <4>1. id \in DOMAIN stored /\ stored'[id] = stored[id] /\ stored[id].mac # mac
        BY <1>6, <2>1, <3>2
      <4> QED BY <1>4, <4>1 DEF HistoryInv, Kept
    <3> QED BY <3>1, <3>2
  <2>4. HistoryStep
    <3> SUFFICES ASSUME NEW id \in DOMAIN stored, id[1] = "mac"
                 PROVE  /\ id \in DOMAIN stored'
                        /\ stored'[id].mac = stored[id].mac
                        /\ stored'[id].firstSeen = stored[id].firstSeen
                        /\ stored[id].hostname # NoName => stored'[id].hostname # NoName
      BY DEF HistoryStep
    <3>1. CASE id = device.id
      <4>1. stored[id].mac = mac
        BY <1>2, <3>1 DEF HistoryInv, Identified, idForMAC
      <4> QED BY <1>2, <1>6, <2>1, <3>1, <4>1
    <3>2. CASE id # device.id
      BY <2>1, <3>2
    <3> QED BY <3>1, <3>2
  <2> QED BY <2>2, <2>3, <2>4 DEF HistoryInv
<1> QED BY <1>1, <1>7, <1>8

(* The initial state has no devices; every step keeps the invariant and    *)
(* the histories.                                                          *)
LEMMA HistoryInductive ==
  /\ Init => HistoryInv
  /\ HistoryInv /\ [Next]_vars => HistoryInv' /\ HistoryStep
<1>1. Init => HistoryInv
  BY DEF Init, RegistryInit, Nothing, HistoryInv, Identified, Kept
<1>2. ASSUME HistoryInv, [Next]_vars
      PROVE  HistoryInv' /\ HistoryStep
  <2>1. ASSUME NEW o \in sightings, NEW stores \in BOOLEAN, Upsert(o, stores)
        PROVE  HistoryInv' /\ HistoryStep
    BY <1>2, <2>1, UpsertUnidentified, UpsertIdentified
  <2>2. CASE Reload
    <3>1. HistoryInv'
      BY <1>2, <2>2, ReloadRestores DEF HistoryInv, Identified, Kept
    <3> QED BY <2>2, <3>1, ReloadRestores, <1>2 DEF HistoryStep, HistoryInv
  <2>3. CASE UNCHANGED <<registry, stored>>
    BY <1>2, <2>3 DEF HistoryInv, Identified, Kept, HistoryStep
  <2> QED
    BY <1>2, <2>1, <2>2, <2>3
       DEF Next, RegistryNext, PassTime, Renew, See, vars, registryVars
<1> QED BY <1>1, <1>2

(* Whatever a client is seen with, in whatever order, and whatever restart *)
(* loses, a stored device keeps its identity, its first sighting and a     *)
(* name (registry.go:59-103).                                              *)
THEOREM HistoriesFollowMAC == Spec => HistoryFollowsMAC
<1>1. HistoryInv /\ [Next]_vars =>
        [\A id \in DOMAIN stored : id[1] = "mac" =>
           /\ id \in DOMAIN stored'
           /\ stored'[id].mac = stored[id].mac
           /\ stored'[id].firstSeen = stored[id].firstSeen
           /\ stored[id].hostname # NoName => stored'[id].hostname # NoName]_stored
  BY HistoryInductive DEF HistoryStep
<1> QED BY <1>1, HistoryInductive, PTL DEF Spec, HistoryFollowsMAC
-----------------------------------------------------------------------------
(* What the registry says of the present was true once.                    *)

(* The holder of an address holds it now; a sighting says what was so, and *)
(* names its client or nobody; so does every device, stored or not.        *)
Witnessed ==
  /\ \A c \in Clients : lease[c] # NoAddress => <<c, lease[c], clock>> \in held
  /\ \A o \in sightings :
       /\ Spelled[o.text] \in {o.client, NoClient}
       /\ o.at # NoTime => <<o.client, o.ip, o.at>> \in held
  /\ \A id \in DOMAIN stored : id[1] = "mac" =>
       <<stored[id].mac, stored[id].ip, stored[id].lastSeen>> \in held \cup undated

(* The device that a sighting makes says what the sighting says, or has    *)
(* the time of its handling.                                               *)
LEMMA UpsertWitnessed ==
  ASSUME Witnessed, SightingsAreTrue, HistoryInv,
         NEW o \in sightings, NEW stores \in BOOLEAN, Upsert(o, stores)
  PROVE  (Witnessed /\ SightingsAreTrue)'
<1> DEFINE mac == NormalizeMAC(o.text)
           device == Returned(o)
<1>1. /\ sightings' \subseteq sightings /\ clock' = clock /\ lease' = lease /\ held' = held
      /\ undated \subseteq undated'
      /\ o.at = NoTime => <<mac, o.ip, clock>> \in undated'
      /\ registry' = IF mac = NoClient THEN registry ELSE With(registry, mac, device)
      /\ stored' = stored \/ stored' = With(stored, device.id, device)
  BY DEF Upsert
<1>2. ASSUME mac # NoClient
      PROVE  device.mac = mac /\ <<mac, device.ip, device.lastSeen>> \in held \cup undated'
  <2>1. device.mac = mac /\ device.ip = o.ip /\ device.lastSeen = observationTime(o.at)
    BY <1>2, MergedDevice DEF Returned
  <2> HIDE DEF device
  <2>2. CASE o.at = NoTime
    BY <1>1, <2>1, <2>2 DEF observationTime
  <2>3. CASE o.at # NoTime
    BY <1>2, <2>1, <2>3 DEF observationTime, Witnessed, NormalizeMAC
  <2> QED BY <2>1, <2>2, <2>3
<1>3. mac = NoClient => device.id[1] # "mac"
  BY DEF Returned, Unidentified
<1> HIDE DEF mac, device
<1>4. SightingsAreTrue'
  <2> SUFFICES ASSUME NEW m \in DOMAIN registry'
               PROVE  <<m, registry'[m].ip, registry'[m].lastSeen>> \in held' \cup undated'
    BY DEF SightingsAreTrue
  <2>1. CASE mac # NoClient /\ m = mac
    BY <1>1, <1>2, <2>1 DEF With
  <2>2. CASE ~(mac # NoClient /\ m = mac)
    <3>1. m \in DOMAIN registry /\ registry'[m] = registry[m]
      BY <1>1, <2>2 DEF With
    <3> QED BY <1>1, <3>1 DEF SightingsAreTrue
  <2> QED BY <2>1, <2>2
<1>5. Witnessed'
  <2>1. \A c \in Clients : lease'[c] # NoAddress => <<c, lease'[c], clock'>> \in held'
    BY <1>1 DEF Witnessed
  <2>2. \A s \in sightings' :
          /\ Spelled[s.text] \in {s.client, NoClient}
          /\ s.at # NoTime => <<s.client, s.ip, s.at>> \in held'
    BY <1>1 DEF Witnessed
  <2>3. ASSUME NEW id \in DOMAIN stored', id[1] = "mac"
        PROVE  <<stored'[id].mac, stored'[id].ip, stored'[id].lastSeen>> \in held' \cup undated'
    <3>1. CASE stored' = With(stored, device.id, device) /\ id = device.id
      <4>1. stored'[id] = device
        BY <3>1 DEF With
      <4> QED BY <1>1, <1>2, <1>3, <2>3, <3>1, <4>1
    <3>2. CASE ~(stored' = With(stored, device.id, device) /\ id = device.id)
      <4>1. id \in DOMAIN stored /\ stored'[id] = stored[id]
        BY <1>1, <3>2 DEF With
      <4> QED BY <1>1, <2>3, <4>1 DEF Witnessed
    <3> QED BY <3>1, <3>2
  <2> QED BY <2>1, <2>2, <2>3 DEF Witnessed
<1> QED BY <1>4, <1>5

(* Who holds an address is noted as time and leases change, so a sighting  *)
(* is true when it is made and stays so until it is handled.               *)
LEMMA WitnessedInductive ==
  /\ Init => Witnessed /\ SightingsAreTrue
  /\ Witnessed /\ SightingsAreTrue /\ HistoryInv /\ [Next]_vars
       => (Witnessed /\ SightingsAreTrue)'
<1>1. Init => Witnessed /\ SightingsAreTrue
  BY DEF Init, RegistryInit, Nothing, Holding, Witnessed, SightingsAreTrue
<1>2. ASSUME Witnessed, SightingsAreTrue, HistoryInv, [Next]_vars
      PROVE  (Witnessed /\ SightingsAreTrue)'
  <2>1. CASE PassTime
    BY <1>2, <2>1 DEF PassTime, Holding, Witnessed, SightingsAreTrue
  <2>2. ASSUME NEW c \in Clients, NEW ip \in Addresses, Renew(c, ip)
        PROVE  (Witnessed /\ SightingsAreTrue)'
    <3>1. /\ held \subseteq held' /\ clock' = clock
          /\ \A d \in Clients : lease'[d] # NoAddress => <<d, lease'[d], clock>> \in held'
      BY <2>2 DEF Renew, Holding
    <3> QED BY <1>2, <2>2, <3>1 DEF Renew, Witnessed, SightingsAreTrue
  <2>3. ASSUME NEW c \in Clients, NEW text \in Texts, NEW hostname \in Hostnames,
               NEW at \in Times \cup {NoTime}, See(c, text, hostname, at)
        PROVE  (Witnessed /\ SightingsAreTrue)'
    BY <1>2, <2>3 DEF See, Witnessed, SightingsAreTrue
  <2>4. ASSUME NEW o \in sightings, NEW stores \in BOOLEAN, Upsert(o, stores)
        PROVE  (Witnessed /\ SightingsAreTrue)'
    BY <1>2, <2>4, UpsertWitnessed
  <2>5. CASE Reload
    <3>1. UNCHANGED <<clock, lease, sightings, stored, held, undated>>
      BY <2>5 DEF Reload
    <3>2. \A mac \in DOMAIN registry' :
            /\ idForMAC(mac) \in DOMAIN stored /\ idForMAC(mac)[1] = "mac"
            /\ registry'[mac] = stored[idForMAC(mac)] /\ registry'[mac].mac = mac
      BY <1>2, <2>5, ReloadRestores DEF HistoryInv, idForMAC
    <3> QED BY <1>2, <3>1, <3>2 DEF Witnessed, SightingsAreTrue
  <2>6. CASE UNCHANGED <<clock, lease, sightings, registry, stored, held, undated>>
    BY <1>2, <2>6 DEF Witnessed, SightingsAreTrue
  <2> QED
    BY <1>2, <2>1, <2>2, <2>3, <2>4, <2>5, <2>6 DEF Next, RegistryNext, vars, registryVars
<1> QED BY <1>1, <1>2

(* The registry never shows a device at an address, at a time, that it did *)
(* not have it then, however late and in whatever order sightings are      *)
(* applied (registry.go:88-100).                                           *)
THEOREM SightingsAreAlwaysTrue == Spec => []SightingsAreTrue
BY HistoryInductive, WitnessedInductive, PTL DEF Spec

-----------------------------------------------------------------------------
(* The import of the DNS log.                                              *)

(* The times and the finite sets that the import compares and counts.      *)
LogInv ==
  /\ clock \in Int /\ cursor \in Int
  /\ IsFiniteSet(answered) /\ IsFiniteSet(log)
  /\ \A r \in answered \cup log : r.at \in Int

(* A page that is not full has every row that is left.                     *)
LEMMA ShortPages ==
  ASSUME LogInv, NEW page \in Pages
  PROVE  /\ page \subseteq {r \in log : r.at > cursor} /\ IsFiniteSet(page)
         /\ Cardinality(page) = Limit \/ page = {r \in log : r.at > cursor}
         /\ \A r \in page, q \in {x \in log : x.at > cursor} \ page : r.at <= q.at
<1> DEFINE rows == {r \in log : r.at > cursor}
<1>1. page \subseteq rows /\ IsFiniteSet(rows) /\ IsFiniteSet(page)
  BY FS_Subset DEF Pages, LogInv
<1>2. Cardinality(page) = Cardinality(rows) => page = rows
  BY <1>1, FS_Subset
<1> QED BY <1>1, <1>2 DEF Pages

(* Wherever the cursor goes, it goes to the last row of a page.            *)
LEMMA ImportMovesTo ==
  ASSUME NEW page, Import(page)
  PROVE  \E last \in page :
           /\ cursor' = last.at
           /\ cuts \subseteq cuts' /\ (Cardinality(page) = Limit => last.at \in cuts')
BY DEF Import

(* The cursor moves only in an import, and a row becomes one that is       *)
(* passed by only there or when it is logged behind the cursor.            *)
LEMMA PassedByInductive ==
  /\ Init => LogInv /\ PassedByAtEdgesOnly
  /\ LogInv /\ PassedByAtEdgesOnly /\ [Next]_vars => (LogInv /\ PassedByAtEdgesOnly)'
<1>1. Init => LogInv /\ PassedByAtEdgesOnly
  BY FS_EmptySet DEF Init, RegistryInit, NoTime, LogInv, PassedByAtEdgesOnly
<1>2. ASSUME LogInv, PassedByAtEdgesOnly, [Next]_vars
      PROVE  (LogInv /\ PassedByAtEdgesOnly)'
  <2>1. CASE UNCHANGED <<answered, log, cursor, read, cuts, late>>
    <3>1. clock' \in Int
      BY <1>2, <2>1 DEF Next, RegistryNext, PassTime, Renew, See, Upsert, Reload,
                        vars, registryVars, LogInv
    <3> QED BY <1>2, <2>1, <3>1 DEF LogInv, PassedByAtEdgesOnly
  <2>2. ASSUME NEW c \in Clients, NEW domain \in Domains,
               NEW resolved \in Destinations \cup {NoReply},
               Ask(c, domain, resolved), clock' = clock
        PROVE  (LogInv /\ PassedByAtEdgesOnly)'
    <3>1. IsFiniteSet(answered')
      BY <1>2, <2>2, FS_AddElement DEF Ask, LogInv
    <3> QED BY <1>2, <2>2, <3>1 DEF Ask, LogInv, PassedByAtEdgesOnly
  <2>3. ASSUME NEW rows \in SUBSET answered, WriteLog(rows), clock' = clock
        PROVE  (LogInv /\ PassedByAtEdgesOnly)'
    <3>1. IsFiniteSet(answered') /\ IsFiniteSet(log')
      BY <1>2, <2>3, FS_Subset, FS_Union DEF WriteLog, LogInv
    <3> QED BY <1>2, <2>3, <3>1 DEF WriteLog, LogInv, PassedByAtEdgesOnly
  <2>4. ASSUME NEW page \in Pages, Import(page), clock' = clock
        PROVE  (LogInv /\ PassedByAtEdgesOnly)'
    <3>1. PICK last \in page :
            /\ cursor' = last.at
            /\ cuts \subseteq cuts' /\ (Cardinality(page) = Limit => last.at \in cuts')
      BY <1>2, <2>4, ImportMovesTo
    <3>2. UNCHANGED <<answered, log, late>> /\ read' = read \cup page
      BY <2>4 DEF Import
    <3>3. last \in log
      BY <1>2, ShortPages
    <3>4. LogInv'
      BY <1>2, <2>4, <3>1, <3>2, <3>3 DEF LogInv
    <3>5. ASSUME NEW r \in log \ (read \cup page), r.at <= last.at
          PROVE  r.at \in cuts' \/ r \in late
      <4>1. CASE r.at <= cursor
        BY <1>2, <3>1, <4>1 DEF PassedByAtEdgesOnly
      <4>2. CASE r.at > cursor
        <5>1. last.at <= r.at /\ Cardinality(page) = Limit
          BY <1>2, <4>2, ShortPages
        <5>2. last.at = r.at
          BY <1>2, <3>3, <3>5, <5>1 DEF LogInv
        <5> QED BY <3>1, <5>1, <5>2
      <4> QED BY <1>2, <4>1, <4>2 DEF LogInv
    <3> QED BY <3>1, <3>2, <3>4, <3>5 DEF PassedByAtEdgesOnly
  <2> QED
    BY <1>2, <2>1, <2>2, <2>3, <2>4
       DEF Next, ClassifyNext, Connect, Classify, vars, classifyVars
<1> QED BY <1>1, <1>2

(* For every page size: a row that the import passes by was logged late or *)
(* shares its second with the end of a full page (reader.go:31-35).        *)
THEOREM PassedByAlwaysAtEdges == Spec => []PassedByAtEdgesOnly
BY PassedByInductive, PTL DEF Spec

-----------------------------------------------------------------------------
(* Types.                                                                  *)

(* A sighting becomes a device of the right type, known before or not.     *)
LEMMA ReturnedType ==
  ASSUME RegistryTypeOK, NEW o \in sightings
  PROVE  Returned(o) \in Devices /\ (NormalizeMAC(o.text) # NoClient => NormalizeMAC(o.text) \in Clients)
<1> DEFINE mac == NormalizeMAC(o.text)
<1>1. o \in Sightings /\ mac \in Clients \cup {NoClient} /\ observationTime(o.at) \in Times
  BY SpelledAssumption DEF RegistryTypeOK, Sightings, NormalizeMAC, observationTime, NoTime
<1>2. o.ip \in Addresses /\ o.hostname \in Hostnames
  BY <1>1 DEF Sightings
<1>3. ASSUME mac = NoClient PROVE Returned(o) \in Devices
  BY <1>1, <1>2, <1>3 DEF Returned, Unidentified, Devices, Identities
<1>4. ASSUME mac \in Clients PROVE Merged(mac, o) \in Devices
  <2>1. mac \in DOMAIN registry => registry[mac] \in Devices
    BY DEF RegistryTypeOK
  <2>2. <<"mac", mac>> \in Identities
    BY <1>4 DEF Identities
  <2> HIDE DEF mac
  <2>3. mac \in DOMAIN registry =>
          /\ registry[mac].id \in Identities /\ registry[mac].firstSeen \in Times
          /\ registry[mac].hostname \in Hostnames
    BY <2>1 DEF Devices
  <2> QED BY <1>1, <1>2, <1>4, <2>2, <2>3 DEF Merged, Devices, Known, FirstSeen, LastSeen, idForMAC
<1> QED BY <1>1, <1>3, <1>4 DEF Returned

LEMMA WithType ==
  ASSUME NEW K, NEW T, NEW map, DOMAIN map \subseteq K, map \in [DOMAIN map -> T],
         NEW key \in K, NEW value \in T
  PROVE  DOMAIN With(map, key, value) \subseteq K
         /\ With(map, key, value) \in [DOMAIN With(map, key, value) -> T]
BY DEF With

LEMMA HoldingType ==
  ASSUME NEW leases \in [Clients -> Addresses \cup {NoAddress}], NEW at \in Times
  PROVE  Holding(leases, at) \subseteq Clients \X Addresses \X Times
BY DEF Holding

LEMMA RegistryTypeInductive ==
  /\ Init => RegistryTypeOK
  /\ RegistryTypeOK /\ [Next]_vars => RegistryTypeOK'
<1>1. ASSUME Init PROVE RegistryTypeOK
  <2>1. 0 \in Times /\ left \in [Kinds -> Nat]
    BY <1>1, BoundsAssumption DEF Init, RegistryInit, Times
  <2>2. held \subseteq Clients \X Addresses \X Times
    BY <1>1, <2>1, HoldingType DEF Init, RegistryInit
  <2> QED BY <1>1, <2>1, <2>2 DEF Init, RegistryInit, RegistryTypeOK, Nothing
<1>2. ASSUME RegistryTypeOK, [Next]_vars PROVE RegistryTypeOK'
  <2>1. CASE PassTime
    <3>1. clock' \in Times
      BY <1>2, <2>1, BoundsAssumption DEF PassTime, RegistryTypeOK, Times
    <3>2. held' \subseteq Clients \X Addresses \X Times
      BY <1>2, <2>1, <3>1, HoldingType DEF PassTime, RegistryTypeOK
    <3> QED BY <1>2, <2>1, <3>1, <3>2 DEF PassTime, RegistryTypeOK
  <2>2. ASSUME NEW c \in Clients, NEW ip \in Addresses, Renew(c, ip)
        PROVE  RegistryTypeOK'
    <3>1. lease' \in [Clients -> Addresses \cup {NoAddress}] /\ left' \in [Kinds -> Nat]
      BY <1>2, <2>2 DEF Renew, Event, RegistryTypeOK, Kinds
    <3>2. held' \subseteq Clients \X Addresses \X Times
      BY <1>2, <2>2, <3>1, HoldingType DEF Renew, RegistryTypeOK
    <3> QED BY <1>2, <2>2, <3>1, <3>2 DEF Renew, RegistryTypeOK
  <2>3. ASSUME NEW c \in Clients, NEW text \in Texts, NEW hostname \in Hostnames,
               NEW at \in Times \cup {NoTime}, See(c, text, hostname, at)
        PROVE  RegistryTypeOK'
    <3>1. left' \in [Kinds -> Nat]
      BY <1>2, <2>3 DEF See, Event, RegistryTypeOK, Kinds
    <3>2. lease[c] \in Addresses
      BY <1>2, <2>3 DEF See, RegistryTypeOK
    <3>3. sightings' \subseteq Sightings
      BY <1>2, <2>3, <3>2 DEF See, RegistryTypeOK, Sightings
    <3> QED BY <1>2, <2>3, <3>1, <3>3 DEF See, RegistryTypeOK
  <2>4. ASSUME NEW o \in sightings, NEW stores \in BOOLEAN, Upsert(o, stores)
        PROVE  RegistryTypeOK'
    <3> DEFINE mac == NormalizeMAC(o.text)
               device == Returned(o)
    <3>1. device \in Devices /\ device.id \in Identities /\ (mac # NoClient => mac \in Clients)
          /\ mac \in Clients \cup {NoClient} /\ o.ip \in Addresses
      BY <1>2, ReturnedType DEF Devices, RegistryTypeOK, Sightings
    <3>2. /\ sightings' \subseteq sightings /\ UNCHANGED <<clock, lease, held, left>>
          /\ registry' = IF mac = NoClient THEN registry ELSE With(registry, mac, device)
          /\ undated' = IF o.at = NoTime THEN undated \cup {<<mac, o.ip, clock>>} ELSE undated
          /\ stored' = IF stores THEN With(stored, device.id, device) ELSE stored
      BY <2>4 DEF Upsert
    <3> HIDE DEF mac, device
    <3>3. DOMAIN registry' \subseteq Clients /\ registry' \in [DOMAIN registry' -> Devices]
      BY <1>2, <3>1, <3>2, WithType DEF RegistryTypeOK
    <3>4. DOMAIN stored' \subseteq Identities /\ stored' \in [DOMAIN stored' -> Devices]
      BY <1>2, <3>1, <3>2, WithType DEF RegistryTypeOK
    <3>5. undated' \subseteq (Clients \cup {NoClient}) \X Addresses \X Times
      BY <1>2, <3>1, <3>2 DEF RegistryTypeOK
    <3> QED BY <1>2, <3>2, <3>3, <3>4, <3>5 DEF RegistryTypeOK
  <2>5. CASE Reload
    <3> DEFINE devices == {stored[id] : id \in DOMAIN stored}
    <3>1. devices \subseteq Devices
      BY <1>2 DEF RegistryTypeOK
    <3>2. /\ registry' = [mac \in {d.mac : d \in devices} \ {NoClient} |->
                            CHOOSE d \in devices : d.mac = mac]
          /\ UNCHANGED <<clock, lease, sightings, stored, held, undated, left>>
      BY <2>5 DEF Reload, NewRegistry
    <3> HIDE DEF devices
    <3>3. \A d \in devices : d.mac \in Clients \cup {NoClient}
      BY <3>1 DEF Devices
    <3>4. \A mac \in DOMAIN registry' : registry'[mac] \in devices
      BY <3>2
    <3>5. DOMAIN registry' \subseteq Clients /\ registry' \in [DOMAIN registry' -> Devices]
      BY <3>1, <3>2, <3>3, <3>4
    <3> QED BY <1>2, <3>2, <3>5 DEF RegistryTypeOK
  <2>6. ASSUME \/ UNCHANGED left
               \/ \E kind \in Kinds : Event(kind),
               UNCHANGED <<clock, lease, sightings, registry, stored, held, undated>>
        PROVE  RegistryTypeOK'
    <3>1. left' \in [Kinds -> Nat]
      BY <1>2, <2>6 DEF Event, RegistryTypeOK
    <3> QED BY <1>2, <2>6, <3>1 DEF RegistryTypeOK
  <2> QED
    BY <1>2, <2>1, <2>2, <2>3, <2>4, <2>5, <2>6
       DEF Next, RegistryNext, ClassifyNext, vars, registryVars, Kinds
<1> QED BY <1>1, <1>2

(* A nonempty set of places has a first one.                               *)
LEMMA LeastPlace ==
  ASSUME NEW S \in SUBSET Nat, S # {}
  PROVE  \E i \in S : \A j \in S : i <= j
<1>1. PICK i \in S : \A j \in S : ~ (<<j, i>> \in OpToRel(<, Nat))
  BY NatLessThanWellFounded, WFMin
<1>2. \A j \in S : ~ (j < i)
  BY <1>1 DEF OpToRel
<1> QED BY <1>2

(* The places of a list are numbers, and its elements have their type.     *)
LEMMA Places ==
  ASSUME NEW T, NEW s \in Seq(T)
  PROVE  DOMAIN s \subseteq Nat /\ \A i \in DOMAIN s : s[i] \in T
BY LenProperties, ElementOfSeq

(* The rule of a provider that knows one of the names is a rule for a name *)
(* that is among them, and certain only for one among the evidence.        *)
LEMMA RuleFits ==
  ASSUME NEW p \in DOMAIN Providers, NEW names, DOMAIN names \subseteq Nat,
         \E i \in DOMAIN names : Knows(Providers[p], names[i])
  PROVE  \E k \in DOMAIN names, j \in DOMAIN Providers[p].rules :
           /\ names[k] \in Providers[p].rules[j].domains
           /\ RuleOf(Providers[p], names).service = Providers[p].rules[j].service
           /\ RuleOf(Providers[p], names).confidence \in {"high", "medium"}
           /\ RuleOf(Providers[p], names).confidence = "high" => k # 0
<1> DEFINE rules == Providers[p].rules
           Fitting == {i \in DOMAIN names : Knows(Providers[p], names[i])}
           name == First(names, LAMBDA n : Knows(Providers[p], n))
           Matching == {j \in DOMAIN rules : name \in rules[j].domains}
<1>1. DOMAIN rules \subseteq Nat
  <2>1. Providers[p] \in [category : STRING,
                         rules : Seq([service : STRING, domains : SUBSET Domains])]
    BY ProvidersAssumption, Places
  <2> QED BY <2>1, Places
<1>2. \E i \in Fitting : \A j \in Fitting : i <= j
  <2>1. Fitting \in SUBSET Nat /\ Fitting # {}
    OBVIOUS
  <2> HIDE DEF Fitting
  <2> QED BY <2>1, LeastPlace
<1>3. \E k \in Fitting : name = names[k]
  <2>1. \E i \in DOMAIN names :
          /\ Knows(Providers[p], names[i])
          /\ \A j \in DOMAIN names : Knows(Providers[p], names[j]) => i <= j
    BY <1>2
  <2> QED BY <2>1 DEF First
<1>4. Matching # {}
  <2>1. Knows(Providers[p], name)
    BY <1>3
  <2> QED BY <2>1 DEF Knows, Some
<1>5. \E i \in Matching : \A j \in Matching : i <= j
  <2>1. Matching \in SUBSET Nat
    BY <1>1
  <2> HIDE DEF Matching
  <2> QED BY <2>1, <1>4, LeastPlace
<1> HIDE DEF name
<1> DEFINE rule == First(rules, LAMBDA r : name \in r.domains)
<1>6. \E j \in Matching : rule = rules[j]
  <2>1. \E i \in DOMAIN rules :
          /\ name \in rules[i].domains
          /\ \A j \in DOMAIN rules : name \in rules[j].domains => i <= j
    BY <1>5
  <2> QED BY <2>1 DEF First
<1>7. RuleOf(Providers[p], names) =
        [service |-> rule.service,
         category |-> Providers[p].category,
         confidence |-> IF \E i \in DOMAIN names \ {0} : names[i] = name
                          THEN "high" ELSE "medium"]
  BY DEF RuleOf, name
<1> HIDE DEF rules, rule
<1>8. PICK j \in Matching : RuleOf(Providers[p], names).service = rules[j].service
  BY <1>6, <1>7
<1>9. CASE \E i \in DOMAIN names \ {0} : names[i] = name
  BY <1>7, <1>8, <1>9 DEF rules
<1>10. CASE ~ \E i \in DOMAIN names \ {0} : names[i] = name
  <2>1. RuleOf(Providers[p], names).confidence = "medium"
    BY <1>7, <1>10
  <2> QED BY <1>3, <1>8, <2>1 DEF rules
<1> QED BY <1>9, <1>10

(* The verdict on a flow is certain only for DNS itself, or by evidence    *)
(* for a domain of the service.                                            *)
LEMMA VerdictConfidence ==
  ASSUME NEW f \in Flows, queries \in Seq(Queries)
  PROVE  /\ Engine(f, Evidence(f)).confidence \in {"high", "medium", "low", "unknown"}
         /\ Engine(f, Evidence(f)).confidence = "high" /\ Engine(f, Evidence(f)).category # "dns"
              => \E i \in Evidence(f) : Supports(queries[i], Engine(f, Evidence(f)))
<1> DEFINE names == Candidates(f, Evidence(f))
           verdict == Engine(f, Evidence(f))
<1>1. ASSUME ~ Some(Providers, LAMBDA p : Some(names, LAMBDA n : Knows(p, n)))
      PROVE  verdict = Fallback(f.port)
  BY <1>1 DEF Engine
<1>2. ASSUME Some(Providers, LAMBDA p : Some(names, LAMBDA n : Knows(p, n)))
      PROVE  \E p \in DOMAIN Providers : /\ \E i \in DOMAIN names : Knows(Providers[p], names[i])
                                         /\ verdict = RuleOf(Providers[p], names)
  <2> DEFINE Knowing == {p \in DOMAIN Providers :
                           Some(names, LAMBDA n : Knows(Providers[p], n))}
  <2>1. \E p \in Knowing : \A q \in Knowing : p <= q
    <3>1. Knowing \in SUBSET Nat
      BY ProvidersAssumption, Places
    <3>2. Knowing # {}
      BY <1>2 DEF Some
    <3> HIDE DEF Knowing
    <3> QED BY <3>1, <3>2, LeastPlace
  <2>2. \E p \in DOMAIN Providers :
          /\ Some(names, LAMBDA n : Knows(Providers[p], n))
          /\ \A q \in DOMAIN Providers :
               Some(names, LAMBDA n : Knows(Providers[q], n)) => p <= q
    BY <2>1 DEF Some
  <2>3. verdict = RuleOf(First(Providers, LAMBDA p : Some(names, LAMBDA n : Knows(p, n))), names)
    BY <1>2 DEF Engine
  <2>4. \E p \in DOMAIN Providers :
          /\ Some(names, LAMBDA n : Knows(Providers[p], n))
          /\ First(Providers, LAMBDA q : Some(names, LAMBDA n : Knows(q, n))) = Providers[p]
    BY <2>2 DEF First
  <2> QED BY <2>3, <2>4 DEF Some
<1>3. \A i \in DOMAIN names \ {0} : i \in Evidence(f) /\ names[i] = queries[i].domain
  BY DEF Candidates
<1>4. DOMAIN names \subseteq Nat
  <2>1. Evidence(f) \subseteq Nat
    BY Places DEF Evidence
  <2> QED BY <2>1 DEF Candidates
<1>5. f.port \in {"udp443", "53", "80", "443", "other"}
  BY PortsAssumption DEF Flows
<1>6. /\ Fallback(f.port).confidence \in {"high", "low", "unknown"}
      /\ Fallback(f.port).confidence = "high" => Fallback(f.port).category = "dns"
  BY <1>5 DEF Fallback
<1> HIDE DEF names
<1>7. CASE ~ Some(Providers, LAMBDA p : Some(names, LAMBDA n : Knows(p, n)))
  BY <1>1, <1>6, <1>7
<1>8. CASE Some(Providers, LAMBDA p : Some(names, LAMBDA n : Knows(p, n)))
  <2>1. PICK p \in DOMAIN Providers : /\ \E i \in DOMAIN names : Knows(Providers[p], names[i])
                                      /\ verdict = RuleOf(Providers[p], names)
    BY <1>2, <1>8
  <2> HIDE DEF verdict
  <2>2. PICK k \in DOMAIN names, j \in DOMAIN Providers[p].rules :
          /\ names[k] \in Providers[p].rules[j].domains
          /\ verdict.service = Providers[p].rules[j].service
          /\ verdict.confidence \in {"high", "medium"}
          /\ verdict.confidence = "high" => k # 0
    BY <1>4, <2>1, RuleFits
  <2>3. verdict.confidence = "high" =>
          k \in Evidence(f) /\ queries[k].domain \in Providers[p].rules[j].domains
    BY <1>3, <2>2
  <2>4. verdict.confidence = "high" => \E i \in Evidence(f) : Supports(queries[i], verdict)
    BY <2>2, <2>3 DEF Supports
  <2> QED BY <2>2, <2>4 DEF verdict
<1> QED BY <1>7, <1>8

(* What an import adds to the list of queries is on the page.              *)
LEMMA ImportAdds ==
  ASSUME TypeOK, LogInv, NEW page \in Pages, Import(page)
  PROVE  /\ page \subseteq log /\ queries' \in Seq(Queries)
         /\ \A i \in DOMAIN queries' : \/ i \in DOMAIN queries /\ queries'[i] = queries[i]
                                       \/ queries'[i] \in page
         /\ cursor' \in Times /\ cuts' \subseteq Times
<1>1. page \subseteq log /\ IsFiniteSet(page) /\ page \subseteq Queries
  BY ShortPages DEF TypeOK
<1> DEFINE named == {r \in page : r.resolved # NoReply}
<1>2. PICK rows \in SetToSeqs(named) : queries' = queries \o rows
  BY DEF Import
<1>3. Cardinality(named) \in Nat
  BY <1>1, FS_Subset, FS_CardinalityType
<1>4. rows \in [1 .. Cardinality(named) -> named]
  BY <1>2 DEF SetToSeqs
<1>5. rows \in Seq(page) /\ rows \in Seq(Queries) /\ queries \in Seq(Queries)
  <2>1. rows \in [1 .. Cardinality(named) -> page] /\ rows \in [1 .. Cardinality(named) -> Queries]
    BY <1>1, <1>4
  <2> HIDE DEF named
  <2> QED BY <1>3, <2>1, IsASeq DEF TypeOK
<1>6. queries' \in Seq(Queries)
  BY <1>2, <1>5, ConcatProperties
<1>7. ASSUME NEW i \in DOMAIN queries'
      PROVE  (i \in DOMAIN queries /\ queries'[i] = queries[i]) \/ queries'[i] \in page
  <2>1. i \in 1 .. Len(queries) + Len(rows) /\ Len(queries) \in Nat /\ Len(rows) \in Nat
    BY <1>2, <1>5, <1>6, <1>7, ConcatProperties, LenProperties
  <2>2. CASE i <= Len(queries)
    BY <1>2, <1>5, <2>1, <2>2, ConcatProperties
  <2>3. CASE i > Len(queries)
    <3>1. queries'[i] = rows[i - Len(queries)]
      BY <1>2, <1>5, <2>1, <2>3, ConcatProperties
    <3>2. i - Len(queries) \in 1 .. Len(rows)
      BY <2>1, <2>3
    <3> QED BY <1>5, <3>1, <3>2, ElementOfSeq
  <2> QED BY <2>1, <2>2, <2>3
<1>8. \A r \in page : r.at \in Times
  BY <1>1 DEF Queries
<1>9. cursor' \in Times /\ cuts' \subseteq Times
  BY <1>8 DEF Import, TypeOK
<1> QED BY <1>1, <1>6, <1>7, <1>9

LEMMA TypeInductive ==
  /\ Init => TypeOK
  /\ TypeOK /\ LogInv /\ [Next]_vars => TypeOK'
<1>1. Init => TypeOK
  BY RegistryTypeInductive, EmptySeq DEF Init, TypeOK
<1>2. ASSUME TypeOK, LogInv, [Next]_vars PROVE TypeOK'
  <2>1. RegistryTypeOK'
    BY <1>2, RegistryTypeInductive DEF TypeOK
  <2>2. ASSUME NEW c \in Clients, NEW domain \in Domains,
               NEW resolved \in Destinations \cup {NoReply}, Ask(c, domain, resolved)
        PROVE  TypeOK'
    <3>1. lease[c] \in Addresses /\ clock \in Times
      BY <1>2, <2>2 DEF Ask, TypeOK, RegistryTypeOK
    <3>2. answered' \subseteq Queries
      BY <1>2, <2>2, <3>1 DEF Ask, TypeOK, Queries
    <3> QED BY <1>2, <2>1, <2>2, <3>2 DEF Ask, TypeOK
  <2>3. ASSUME NEW rows \in SUBSET answered, WriteLog(rows)
        PROVE  TypeOK'
    BY <1>2, <2>1, <2>3 DEF WriteLog, TypeOK
  <2>4. ASSUME NEW page \in Pages, Import(page)
        PROVE  TypeOK'
    BY <1>2, <2>1, <2>4, ImportAdds DEF Import, TypeOK
  <2>5. ASSUME NEW c \in Clients, NEW dest \in Destinations, NEW port \in Ports,
               NEW sni \in Domains \cup {NoSNI}, Connect(c, dest, port, sni)
        PROVE  TypeOK'
    <3>1. lease[c] \in Addresses /\ clock \in Times
      BY <1>2, <2>5 DEF Connect, TypeOK, RegistryTypeOK
    <3>2. flows' \subseteq Flows
      BY <1>2, <2>5, <3>1 DEF Connect, TypeOK, Flows
    <3> QED BY <1>2, <2>1, <2>5, <3>2 DEF Connect, TypeOK
  <2>6. ASSUME NEW f \in flows, Classify(f)
        PROVE  TypeOK'
    <3>1. \A v \in verdicts' :
            v.flow \in Flows /\ v.verdict.confidence \in {"high", "medium", "low", "unknown"}
      BY <1>2, <2>6, VerdictConfidence DEF Classify, TypeOK
    <3> QED BY <1>2, <2>1, <2>6, <3>1 DEF Classify, TypeOK
  <2>7. CASE UNCHANGED classifyVars
    BY <1>2, <2>1, <2>7 DEF TypeOK, classifyVars
  <2> QED BY <1>2, <2>2, <2>3, <2>4, <2>5, <2>6, <2>7 DEF Next, ClassifyNext, vars
<1> QED BY <1>1, <1>2

(* Every variable keeps its type: the registry's maps hold devices under   *)
(* addresses and identities, and only logged rows are read.                *)
THEOREM ClassificationTypes == Spec => []TypeOK
BY PassedByInductive, TypeInductive, PTL DEF Spec

-----------------------------------------------------------------------------
(* Evidence.                                                               *)

(* Queries come from rows that were read; whoever asked, or opened a flow, *)
(* held the address that the row, or the flow, has, when it has it.        *)
Sourced ==
  /\ \A i \in DOMAIN queries : queries[i] \in read
  /\ \A r \in answered \cup log : <<r.client, r.ip, r.at>> \in held
  /\ \A f \in flows : <<f.client, f.ip, f.at>> \in held

(* A verdict that is certain when it is made has its evidence then.        *)
LEMMA CertainVerdict ==
  ASSUME TypeOK, Sourced, NEW f \in flows,
         Engine(f, Evidence(f)).confidence = "high", Engine(f, Evidence(f)).category # "dns"
  PROVE  \E r \in read :
           /\ Supports(r, Engine(f, Evidence(f)))
           /\ r.resolved = f.dest /\ f.at - r.at \in -Window .. Window
           /\ <<f.client, r.ip, f.at>> \in held
           /\ HandedOver(f) \/ r.client = f.client
<1>1. f \in Flows /\ f.at \in Int
  BY DEF TypeOK, Flows, Times
<1>2. PICK i \in Evidence(f) : Supports(queries[i], Engine(f, Evidence(f)))
  BY <1>1, VerdictConfidence DEF TypeOK
<1>3. /\ i \in DOMAIN queries
      /\ queries[i].ip = f.ip /\ queries[i].resolved = f.dest
      /\ queries[i].at - f.at \in -Window .. Window
  BY DEF Evidence
<1>4. queries[i] \in read /\ queries[i] \in Queries
  BY <1>3 DEF Sourced, TypeOK
<1>5. queries[i].at \in Int /\ queries[i].client \in Clients
  BY <1>4 DEF Queries, Times
<1>6. <<queries[i].client, f.ip, queries[i].at>> \in held
  BY <1>3, <1>4 DEF Sourced, TypeOK
<1>7. /\ f.at - queries[i].at \in -Window .. Window
      /\ queries[i].at \in f.at - Window .. f.at + Window
  BY <1>1, <1>3, <1>5, WindowAssumption
<1>8. queries[i].client # f.client => HandedOver(f)
  BY <1>5, <1>6, <1>7 DEF HandedOver
<1>9. <<f.client, queries[i].ip, f.at>> \in held
  BY <1>3 DEF Sourced
<1> QED BY <1>2, <1>3, <1>4, <1>7, <1>8, <1>9

LEMMA EvidenceInductive ==
  /\ Init => Sourced /\ EvidenceIsOwnUnlessHandedOver
  /\ TypeOK /\ LogInv /\ Witnessed /\ Sourced /\ EvidenceIsOwnUnlessHandedOver /\ [Next]_vars
       => (Sourced /\ EvidenceIsOwnUnlessHandedOver)'
<1>1. Init => Sourced /\ EvidenceIsOwnUnlessHandedOver
  BY DEF Init, Sourced, EvidenceIsOwnUnlessHandedOver, Certain
<1>2. ASSUME TypeOK, LogInv, Witnessed, Sourced, EvidenceIsOwnUnlessHandedOver, [Next]_vars
      PROVE  (Sourced /\ EvidenceIsOwnUnlessHandedOver)'
  <2>1. held \subseteq held' /\ read \subseteq read'
    BY <1>2 DEF Next, RegistryNext, PassTime, Renew, See, Upsert, Reload, ClassifyNext, Ask,
                WriteLog, Import, Connect, Classify, vars, registryVars, classifyVars
  <2>2. \A f : HandedOver(f) => HandedOver(f)'
    BY <2>1 DEF HandedOver
  <2>3. verdicts' = verdicts => EvidenceIsOwnUnlessHandedOver'
    <3>1. ASSUME verdicts' = verdicts, NEW v \in Certain'
          PROVE  \E r \in read' :
                   /\ Supports(r, v.verdict)
                   /\ r.resolved = v.flow.dest /\ v.flow.at - r.at \in -Window .. Window
                   /\ <<v.flow.client, r.ip, v.flow.at>> \in held'
                   /\ HandedOver(v.flow)' \/ r.client = v.flow.client
      <4>1. v \in Certain
        BY <3>1 DEF Certain
      <4> QED BY <1>2, <2>1, <2>2, <4>1 DEF EvidenceIsOwnUnlessHandedOver
    <3> QED BY <3>1 DEF EvidenceIsOwnUnlessHandedOver, Supports
  <2>4. ASSUME NEW page \in Pages, Import(page)
        PROVE  (Sourced /\ EvidenceIsOwnUnlessHandedOver)'
    <3>1. \A i \in DOMAIN queries' : queries'[i] \in read'
      BY <1>2, <2>4, ImportAdds DEF Import, Sourced
    <3> QED BY <1>2, <2>1, <2>3, <2>4, <3>1 DEF Import, Sourced
  <2>5. ASSUME NEW c \in Clients, NEW dest \in Destinations, NEW port \in Ports,
               NEW sni \in Domains \cup {NoSNI}, Connect(c, dest, port, sni)
        PROVE  (Sourced /\ EvidenceIsOwnUnlessHandedOver)'
    <3>1. <<c, lease[c], clock>> \in held
      BY <1>2, <2>5 DEF Connect, Witnessed
    <3> DEFINE new == [at |-> clock, ip |-> lease[c], dest |-> dest, port |-> port,
                       sni |-> sni, client |-> c]
    <3>2. \A f \in flows' : <<f.client, f.ip, f.at>> \in held'
      <4>1. flows' = flows \cup {new} /\ <<new.client, new.ip, new.at>> \in held
        BY <2>5, <3>1 DEF Connect
      <4> HIDE DEF new
      <4> QED BY <1>2, <2>1, <4>1 DEF Sourced
    <3> QED BY <1>2, <2>1, <2>3, <2>5, <3>2 DEF Connect, Sourced
  <2>6. ASSUME NEW c \in Clients, NEW domain \in Domains,
               NEW resolved \in Destinations \cup {NoReply}, Ask(c, domain, resolved)
        PROVE  (Sourced /\ EvidenceIsOwnUnlessHandedOver)'
    <3>1. <<c, lease[c], clock>> \in held
      BY <1>2, <2>6 DEF Ask, Witnessed
    <3> DEFINE row == [at |-> clock, ip |-> lease[c], domain |-> domain,
                       resolved |-> resolved, client |-> c]
    <3>2. \A r \in answered' \cup log' : <<r.client, r.ip, r.at>> \in held'
      <4>1. answered' = answered \cup {row} /\ log' = log /\ <<row.client, row.ip, row.at>> \in held
        BY <2>6, <3>1 DEF Ask
      <4> HIDE DEF row
      <4> QED BY <1>2, <2>1, <4>1 DEF Sourced
    <3> QED BY <1>2, <2>1, <2>3, <2>6, <3>2 DEF Ask, Sourced
  <2>7. ASSUME NEW rows \in SUBSET answered, WriteLog(rows)
        PROVE  (Sourced /\ EvidenceIsOwnUnlessHandedOver)'
    BY <1>2, <2>1, <2>3, <2>7 DEF WriteLog, Sourced
  <2>8. ASSUME NEW f \in flows, Classify(f)
        PROVE  (Sourced /\ EvidenceIsOwnUnlessHandedOver)'
    <3> DEFINE new == [flow |-> f, verdict |-> Engine(f, Evidence(f))]
    <3>1. ASSUME new.verdict.confidence = "high", new.verdict.category # "dns"
          PROVE  \E r \in read :
                   /\ Supports(r, new.verdict)
                   /\ r.resolved = f.dest /\ f.at - r.at \in -Window .. Window
                   /\ <<f.client, r.ip, f.at>> \in held
                   /\ HandedOver(f) \/ r.client = f.client
      BY <1>2, <3>1, CertainVerdict
    <3>2. /\ verdicts' = verdicts \cup {new} /\ flows' \subseteq flows
          /\ UNCHANGED <<answered, log, read, queries>>
      BY <2>8 DEF Classify
    <3>3. new.flow = f
      OBVIOUS
    <3> HIDE DEF new
    <3>4. ASSUME NEW v \in Certain'
          PROVE  \E r \in read' :
                   /\ Supports(r, v.verdict)
                   /\ r.resolved = v.flow.dest /\ v.flow.at - r.at \in -Window .. Window
                   /\ <<v.flow.client, r.ip, v.flow.at>> \in held'
                   /\ HandedOver(v.flow)' \/ r.client = v.flow.client
      <4>1. v \in verdicts' /\ v.verdict.confidence = "high" /\ v.verdict.category # "dns"
        BY <3>4 DEF Certain
      <4>2. CASE v \in verdicts
        BY <1>2, <2>1, <2>2, <4>1, <4>2 DEF EvidenceIsOwnUnlessHandedOver, Certain
      <4>3. CASE v = new
        BY <2>1, <2>2, <3>1, <3>3, <4>1, <4>3
      <4> QED BY <3>2, <4>1, <4>2, <4>3
    <3>5. EvidenceIsOwnUnlessHandedOver'
      BY <3>4 DEF EvidenceIsOwnUnlessHandedOver, Supports
    <3> QED BY <1>2, <2>1, <3>2, <3>5 DEF Sourced
  <2>9. CASE UNCHANGED classifyVars
    BY <1>2, <2>1, <2>3, <2>9 DEF Sourced, classifyVars
  <2> QED
    BY <1>2, <2>4, <2>5, <2>6, <2>7, <2>8, <2>9 DEF Next, ClassifyNext, vars
<1> QED BY <1>1, <1>2

(* For every window, log, lease history and set of providers: a verdict    *)
(* that is called certain rests on a query that was read, for a domain of  *)
(* the service, from an address the flow's client held, within the window; *)
(* and on the client's own query, unless another client held the address   *)
(* within the window (correlation.go:33-50, rules.go:28-70).               *)
THEOREM EvidenceIsAlwaysOwnUnlessHandedOver == Spec => []EvidenceIsOwnUnlessHandedOver
BY PassedByInductive, TypeInductive, WitnessedInductive, HistoryInductive, EvidenceInductive,
   PTL DEF Spec
=============================================================================
