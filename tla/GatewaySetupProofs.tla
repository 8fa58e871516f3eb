-------------------------- MODULE GatewaySetupProofs --------------------------
(***************************************************************************)
(* Theorems about the two halves of a gateway's setup: GatewayReadiness,   *)
(* for every set of states that the host may be in and of configurations,  *)
(* and every bound on changes and failed reads; and GatewayRules, for      *)
(* every network, naming, plan and bound.                                  *)
(***************************************************************************)
EXTENDS GatewayRules, GatewayReadiness, SumTheorems, SequenceTheorems, TLAPS

(* The settings that the rollback commands put back: all but hostapd.      *)
Undone == Settings \ {"hostapd"}

(* Between plans only forwarding can be on. While a plan is applied or     *)
(* rolled back, previous is the value that forwarding had; what has been   *)
(* rolled back is as it was.                                               *)
PlanInv ==
  /\ settings \in [Settings -> BOOLEAN]
  /\ phase \in {"idle", "applying", "active", "rolling_back"}
  /\ phase = "idle" =>
       \A s \in Undone : settings[s] = before[s] /\ (s # "forwarding" => ~settings[s])
  /\ phase # "idle" => \A s \in Undone : before[s] = (s = "forwarding" /\ previous)
  /\ phase = "rolling_back" =>
       /\ position \in 0 .. 3
       /\ \A i \in 1 .. position : settings[RollbackCommands[i]] = before[RollbackCommands[i]]

(* The commands cover all that has to be undone.                           *)
LEMMA CommandsUndo ==
  /\ Len(RollbackCommands) = 4
  /\ \A i \in 1 .. 4 : RollbackCommands[i] \in Undone
  /\ \A s \in Undone : \E i \in 1 .. 4 : RollbackCommands[i] = s
<1>1. /\ Len(RollbackCommands) = 4
      /\ RollbackCommands[1] = "table" /\ RollbackCommands[2] = "dnsmasq"
      /\ RollbackCommands[3] = "address" /\ RollbackCommands[4] = "forwarding"
  BY DEF RollbackCommands
<1>2. Undone = {"table", "dnsmasq", "address", "forwarding"}
  BY DEF Undone, Settings
<1> QED BY <1>1, <1>2

(* One command puts its setting back and leaves the others alone; the last *)
(* one ends the rollback.                                                  *)
LEMMA CommandKeepsPlanInv ==
  ASSUME PlanInv, RollbackStep
  PROVE  PlanInv'
<1> DEFINE s == RollbackCommands[position + 1]
<1>1. /\ phase = "rolling_back" /\ position \in 0 .. 3
      /\ settings' = [settings EXCEPT ![s] = s = "forwarding" /\ previous]
      /\ position' = position + 1 /\ before' = before /\ previous' = previous
      /\ phase' = IF position' = 4 THEN "idle" ELSE "rolling_back"
  BY CommandsUndo DEF RollbackStep, PlanInv
<1>2. s \in Undone /\ s \in Settings
  BY <1>1, CommandsUndo DEF Undone
<1>3. before[s] = (s = "forwarding" /\ previous)
  BY <1>1, <1>2 DEF PlanInv
<1>4. /\ settings' \in [Settings -> BOOLEAN]
      /\ settings'[s] = before[s]
      /\ \A t \in Settings : t # s => settings'[t] = settings[t]
  BY <1>1, <1>2, <1>3 DEF PlanInv
<1>5. \A i \in 1 .. position' : settings'[RollbackCommands[i]] = before'[RollbackCommands[i]]
  <2> SUFFICES ASSUME NEW i \in 1 .. position + 1
               PROVE  settings'[RollbackCommands[i]] = before[RollbackCommands[i]]
    BY <1>1
  <2>1. i \in 1 .. 4 /\ RollbackCommands[i] \in Settings /\ (i = position + 1 \/ i \in 1 .. position)
    BY <1>1, CommandsUndo DEF Undone
  <2>2. CASE RollbackCommands[i] = s
    BY <1>4, <2>2
  <2>3. CASE RollbackCommands[i] # s
    BY <1>1, <1>4, <2>1, <2>3 DEF PlanInv
  <2> QED BY <2>2, <2>3
<1>6. \A t \in Undone : before'[t] = (t = "forwarding" /\ previous')
  BY <1>1 DEF PlanInv
<1>7. position' = 4 =>
        \A t \in Undone : settings'[t] = before'[t] /\ (t # "forwarding" => ~settings'[t])
  BY <1>5, <1>6, CommandsUndo
<1> HIDE DEF s
<1> QED BY <1>1, <1>4, <1>5, <1>6, <1>7 DEF PlanInv

(* The invariant holds at the start and is kept by every step.             *)
LEMMA PlanInductive == (Init => PlanInv) /\ (PlanInv /\ [Next]_vars => PlanInv')
<1>1. Init => PlanInv
  BY DEF Init, PlanInv, Undone, Settings
<1>2. ASSUME PlanInv, [Next]_vars PROVE PlanInv'
  <2>1. CASE Begin
    <3>1. \A s \in Undone : settings[s] = (s = "forwarding" /\ settings["forwarding"])
      BY <1>2, <2>1 DEF Begin, PlanInv, Undone, Settings
    <3> QED BY <1>2, <2>1, <3>1 DEF Begin, PlanInv
  <2>2. CASE ApplyStep
    BY <1>2, <2>2 DEF ApplyStep, PlanInv
  <2>3. CASE BeginRollback
    BY <1>2, <2>3 DEF BeginRollback, PlanInv
  <2>4. CASE RollbackStep
    BY <1>2, <2>4, CommandKeepsPlanInv
  <2>5. CASE Confirm
    BY <1>2, <2>5 DEF Confirm, PlanInv
  <2>6. CASE UNCHANGED <<phase, position, settings, previous, before>>
    BY <1>2, <2>6 DEF PlanInv
  <2> QED
    BY <1>2, <2>1, <2>2, <2>3, <2>4, <2>5, <2>6 DEF Next, Forward, LoadAgain, vars
<1> QED BY <1>1, <1>2

(* A rollback begun at any point restores what its commands name, for      *)
(* every plan and however often the rules were loaded (plan.go:57-77).     *)
THEOREM RollbackAlwaysRestores == Spec => []RollbackRestores
<1>1. PlanInv => RollbackRestores
  BY DEF PlanInv, RollbackRestores, Undone
<1> QED BY <1>1, PlanInductive, PTL DEF Spec

-----------------------------------------------------------------------------
(* The ruleset.                                                            *)

LEMMA FourAreFinite ==
  ASSUME NEW a, NEW b, NEW c, NEW d
  PROVE  IsFiniteSet({a, b}) /\ IsFiniteSet({a, b, c, d})
<1>1. IsFiniteSet({a} \cup {b})
  BY FS_Singleton, FS_Union
<1>2. IsFiniteSet({c} \cup {d})
  BY FS_Singleton, FS_Union
<1>3. IsFiniteSet(({a} \cup {b}) \cup ({c} \cup {d}))
  BY <1>1, <1>2, FS_Union
<1>4. {a} \cup {b} = {a, b} /\ ({a} \cup {b}) \cup ({c} \cup {d}) = {a, b, c, d}
  OBVIOUS
<1> QED BY <1>1, <1>3, <1>4

LEMMA PacketsAreFinite == IsFiniteSet(Packets)
<1> DEFINE triples == (Hosts \X Hosts) \X BOOLEAN
           all == [from : Hosts, to : Hosts, ipv4 : BOOLEAN]
           f == [t \in triples |-> [from |-> t[1][1], to |-> t[1][2], ipv4 |-> t[2]]]
<1>1. IsFiniteSet(Hosts)
  BY HostsAssumption, FS_Union DEF Hosts
<1>2. IsFiniteSet({TRUE, FALSE}) /\ BOOLEAN = {TRUE, FALSE}
  BY FourAreFinite
<1>3. IsFiniteSet(triples)
  BY <1>1, <1>2, FS_Product
<1>4. f \in [triples -> all]
  OBVIOUS
<1>5. ASSUME NEW p \in all PROVE \E t \in triples : f[t] = p
  <2>1. <<<<p.from, p.to>>, p.ipv4>> \in triples
    BY <1>5
  <2>2. f[<<<<p.from, p.to>>, p.ipv4>>] = p
    BY <1>5, <2>1
  <2> QED BY <2>1, <2>2
<1>6. f \in Surjection(triples, all)
  BY <1>4, <1>5 DEF Surjection
<1>7. IsFiniteSet(all)
  BY <1>3, <1>6, FS_Surjection
<1> QED BY <1>7, FS_Subset DEF Packets

(* The names that a naming gives to counters.                              *)
LabelsOf(naming) == {Sanitized[naming[c]] : c \in DOMAIN naming}

(* A client's own rules, one for each direction.                           *)
Upload(c, naming) ==
  Rule({LAN}, {WAN}, {c}, Others, <<"internet_upload", Sanitized[naming[c]]>>)
Download(c, naming) ==
  Rule({WAN}, {LAN}, Others, {c}, <<"internet_download", Sanitized[naming[c]]>>)

LEMMA RulesOf ==
  ASSUME NEW naming
  PROVE  RenderNftables(naming) =
           AggregateRules \cup {Upload(c, naming) : c \in DOMAIN naming}
                          \cup {Download(c, naming) : c \in DOMAIN naming}
<1>1. \A c \in DOMAIN naming :
        ClientRules(c, Sanitized[naming[c]]) = {Upload(c, naming), Download(c, naming)}
  BY DEF ClientRules, Upload, Download
<1>2. \A r : r \in UNION {ClientRules(c, Sanitized[naming[c]]) : c \in DOMAIN naming}
              <=> \E c \in DOMAIN naming : r = Upload(c, naming) \/ r = Download(c, naming)
  BY <1>1
<1> QED BY <1>2 DEF RenderNftables

LEMMA NamingTypes ==
  ASSUME NEW naming \in Namings
  PROVE  /\ DOMAIN naming \subseteq Clients /\ IsFiniteSet(DOMAIN naming)
         /\ LabelsOf(naming) \subseteq Labels
<1>1. DOMAIN naming \subseteq Clients /\ naming \in [DOMAIN naming -> Names]
  BY DEF Namings
<1> QED BY <1>1, HostsAssumption, FS_Subset DEF LabelsOf, Labels

(* The rules are finitely many and count only on declared counters.        *)
LEMMA RuleTypes ==
  ASSUME NEW naming \in Namings
  PROVE  /\ IsFiniteSet(RenderNftables(naming))
         /\ \A r \in RenderNftables(naming) : r.counter \in CounterNames
<1> DEFINE D == DOMAIN naming
           up == [c \in D |-> Upload(c, naming)]
           down == [c \in D |-> Download(c, naming)]
           ups == {Upload(c, naming) : c \in D}
           downs == {Download(c, naming) : c \in D}
<1>1. up \in Surjection(D, ups) /\ down \in Surjection(D, downs)
  BY DEF Surjection
<1>2. IsFiniteSet(ups) /\ IsFiniteSet(downs)
  BY <1>1, NamingTypes, FS_Surjection
<1>3. IsFiniteSet(AggregateRules)
  BY FourAreFinite DEF AggregateRules
<1>4. IsFiniteSet(AggregateRules \cup ups \cup downs)
  BY <1>2, <1>3, FS_Union
<1>5. \A c \in D : Sanitized[naming[c]] \in Labels
  BY NamingTypes DEF LabelsOf
<1>6. \A r \in AggregateRules : r.counter \in CounterNames
  BY DEF AggregateRules, Rule, CounterNames
<1>7. \A r \in ups \cup downs : r.counter \in CounterNames
  BY <1>5 DEF Upload, Download, Rule, CounterNames
<1> QED BY <1>4, <1>6, <1>7, RulesOf

(* A packet meets a set of rules that has at most one for it never or once. *)
LEMMA MetOnce ==
  ASSUME NEW p, NEW counter, NEW naming, NEW r, NEW met \in BOOLEAN,
         Counting(p, counter, naming) = IF met THEN {r} ELSE {}
  PROVE  Cardinality(Counting(p, counter, naming)) = IF met THEN 1 ELSE 0
BY FS_Singleton, FS_EmptySet

(* What the counters of all clients are to count.                          *)
Aggregated ==
  [dir \in {"internet_upload", "internet_download", "lan_upload", "lan_download"} |->
    CASE dir = "internet_upload" -> IPv4(Clients, BehindWAN)
      [] dir = "internet_download" -> IPv4(BehindWAN, Clients)
      [] OTHER -> IPv4(Clients, Clients)]

(* As long as no client is named "client", only the rules for all clients  *)
(* count on their counters.                                                *)
LEMMA AggregateCounts ==
  ASSUME NEW naming \in Namings, "client" \notin LabelsOf(naming), NEW p \in Packets,
         NEW dir \in DOMAIN Aggregated
  PROVE  Cardinality(Counting(p, <<dir, "client">>, naming)) = IF p \in Aggregated[dir] THEN 1 ELSE 0
<1> DEFINE r == CASE dir = "internet_upload" ->
                       Rule({LAN}, {WAN}, Clients, Others, <<"internet_upload", "client">>)
                  [] dir = "internet_download" ->
                       Rule({WAN}, {LAN}, Others, Clients, <<"internet_download", "client">>)
                  [] dir = "lan_upload" ->
                       Rule({LAN}, Anywhere, Clients, Clients, <<"lan_upload", "client">>)
                  [] dir = "lan_download" ->
                       Rule(Anywhere, {LAN}, Clients, Clients, <<"lan_download", "client">>)
<1>1. \A c \in DOMAIN naming : Sanitized[naming[c]] # "client"
  BY DEF LabelsOf
<1>2. /\ \A q \in {Upload(c, naming) : c \in DOMAIN naming} : q.counter # <<dir, "client">>
      /\ \A q \in {Download(c, naming) : c \in DOMAIN naming} : q.counter # <<dir, "client">>
  BY <1>1 DEF Upload, Download, Rule
<1>3. /\ r \in AggregateRules /\ r.counter = <<dir, "client">>
      /\ \A q \in AggregateRules : q.counter = <<dir, "client">> => q = r
  BY DEF AggregateRules, Rule, Aggregated
<1>4. Counting(p, <<dir, "client">>, naming) = IF Matches(r, p) THEN {r} ELSE {}
  <2> HIDE DEF r
  <2> QED BY <1>2, <1>3, RulesOf DEF Counting
<1>5. Matches(r, p) <=> p \in Aggregated[dir]
  <2>1. p.from \in Hosts /\ p.to \in Hosts /\ p.ipv4 \in BOOLEAN
    BY DEF Packets
  <2>2. Device[p.from] \in Anywhere /\ Device[p.to] \in Anywhere
    BY <2>1 DEF Anywhere
  <2>3. \A h \in Hosts : Device[h] = LAN <=> h \in Clients
    BY DeviceAssumption
  <2>4. CASE dir = "internet_upload"
    BY <2>1, <2>2, <2>3, <2>4 DEF Matches, Rule, Aggregated, IPv4, BehindWAN, Hosts
  <2>5. CASE dir = "internet_download"
    BY <2>1, <2>2, <2>3, <2>5 DEF Matches, Rule, Aggregated, IPv4, BehindWAN, Hosts
  <2>6. CASE dir = "lan_upload"
    BY <2>1, <2>2, <2>3, <2>6 DEF Matches, Rule, Aggregated, IPv4, Hosts
  <2>7. CASE dir = "lan_download"
    BY <2>1, <2>2, <2>3, <2>7 DEF Matches, Rule, Aggregated, IPv4, Hosts
  <2> QED BY <2>4, <2>5, <2>6, <2>7 DEF Aggregated
<1> HIDE DEF r
<1>6. Matches(r, p) \in BOOLEAN
  BY DEF Matches, Packets
<1> QED BY <1>4, <1>5, <1>6, MetOnce

(* If every client has a counter, a packet to or from the WAN counts on    *)
(* that of its client, whoever else shares it.                             *)
ClientOf(dir, p) == IF dir = "internet_upload" THEN p.from ELSE p.to

LEMMA ClientCounts ==
  ASSUME NEW naming \in Namings, DOMAIN naming = Clients, "client" \notin LabelsOf(naming),
         NEW p \in Packets, NEW dir \in {"internet_upload", "internet_download"},
         NEW label \in LabelsOf(naming)
  PROVE  Cardinality(Counting(p, <<dir, label>>, naming)) =
           IF p \in Aggregated[dir] /\ label = Sanitized[naming[ClientOf(dir, p)]] THEN 1 ELSE 0
<1> DEFINE c == ClientOf(dir, p)
           r == IF dir = "internet_upload" THEN Upload(c, naming) ELSE Download(c, naming)
           met == p \in Aggregated[dir] /\ label = Sanitized[naming[c]]
<1>1. p.from \in Hosts /\ p.to \in Hosts /\ p.ipv4 \in BOOLEAN
      /\ \A h \in Hosts : Device[h] = LAN <=> h \in Clients
  BY DeviceAssumption DEF Packets
<1>2. \A q \in AggregateRules : q.counter # <<dir, label>>
  BY DEF AggregateRules, Rule
<1>3. CASE dir = "internet_upload"
  <2>1. \A d \in Clients : Download(d, naming).counter # <<dir, label>>
    BY <1>3 DEF Download, Rule
  <2>2. \A d \in Clients :
          Upload(d, naming).counter = <<dir, label>> /\ Matches(Upload(d, naming), p)
            <=> d = c /\ met
    BY <1>1, <1>3 DEF Upload, Rule, Matches, ClientOf, Aggregated, IPv4, BehindWAN, Hosts
  <2>3. met => c \in Clients
    BY <1>3 DEF ClientOf, Aggregated, IPv4
  <2>4. Counting(p, <<dir, label>>, naming) = IF met THEN {r} ELSE {}
    <3> HIDE DEF c, met
    <3> QED BY <1>2, <1>3, <2>1, <2>2, <2>3, RulesOf DEF Counting
  <2> HIDE DEF r
  <2> QED BY <2>4, MetOnce
<1>4. CASE dir = "internet_download"
  <2>1. \A d \in Clients : Upload(d, naming).counter # <<dir, label>>
    BY <1>4 DEF Upload, Rule
  <2>2. \A d \in Clients :
          Download(d, naming).counter = <<dir, label>> /\ Matches(Download(d, naming), p)
            <=> d = c /\ met
    BY <1>1, <1>4 DEF Download, Rule, Matches, ClientOf, Aggregated, IPv4, BehindWAN, Hosts
  <2>3. met => c \in Clients
    BY <1>4 DEF ClientOf, Aggregated, IPv4
  <2>4. Counting(p, <<dir, label>>, naming) = IF met THEN {r} ELSE {}
    <3> HIDE DEF c, met
    <3> QED BY <1>2, <1>4, <2>1, <2>2, <2>3, RulesOf DEF Counting
  <2> HIDE DEF r
  <2> QED BY <2>4, MetOnce
<1> QED BY <1>3, <1>4

-----------------------------------------------------------------------------
(* Types.                                                                  *)

(* The table is the third change of a plan, made once.  Without it nothing *)
(* has been counted.                                                       *)
Loaded ==
  /\ phase = "applying" => position \in 0 .. Len(WouldChange)
  /\ (phase = "applying" /\ position >= 3) \/ phase = "active" => settings["table"]
  /\ chain = <<>> => counters = [c \in CounterNames |-> 0] /\ carried = NoneCarried

Typed == TypeOK /\ PlanInv /\ Loaded

LEMMA ConcatAt ==
  ASSUME NEW S, NEW s \in Seq(S), NEW t \in Seq(S), NEW n \in Nat, Len(s) = n
  PROVE  /\ s \o t \in Seq(S) /\ Len(s \o t) = n + Len(t)
         /\ \A i \in 1 .. n + Len(t) : (s \o t)[i] = IF i <= n THEN s[i] ELSE t[i - n]
BY ConcatProperties

LEMMA Optional ==
  ASSUME NEW x \in Settings \ {"table"}, NEW s, s = <<x>> \/ s = <<>>
  PROVE  /\ s \in Seq(Settings) /\ Len(s) \in 0 .. 1
         /\ \A i \in 1 .. Len(s) : s[i] \in Settings \ {"table"}
<1>1. CASE s = <<x>>
  <2>1. <<x>> \in Seq(Settings) /\ Len(<<x>>) = 1 /\ <<x>>[1] = x
    OBVIOUS
  <2>2. \A i \in 1 .. 1 : i = 1
    OBVIOUS
  <2> QED BY <1>1, <2>1, <2>2
<1>2. CASE s = <<>>
  <2>1. <<>> \in Seq(Settings) /\ Len(<<>>) = 0
    OBVIOUS
  <2> QED BY <1>2, <2>1
<1> QED BY <1>1, <1>2

LEMMA Changes ==
  /\ Len(WouldChange) \in 3 .. 5
  /\ WouldChange[3] = "table"
  /\ \A i \in 1 .. Len(WouldChange) :
       WouldChange[i] \in Settings /\ (WouldChange[i] = "table" <=> i = 3)
<1> DEFINE base == <<"forwarding", "address", "table">>
           dhcp == IF plan.dhcp THEN <<"dnsmasq">> ELSE <<>>
           wifi == IF plan.wifi THEN <<"hostapd">> ELSE <<>>
<1>1. base \in Seq(Settings) /\ Len(base) = 3 /\ base[3] = "table"
      /\ \A i \in 1 .. 3 : base[i] \in Settings /\ (base[i] = "table" <=> i = 3)
  BY DEF Settings
<1>2. /\ dhcp \in Seq(Settings) /\ Len(dhcp) \in 0 .. 1
      /\ wifi \in Seq(Settings) /\ Len(wifi) \in 0 .. 1
      /\ \A i \in 1 .. Len(dhcp) : dhcp[i] \in Settings \ {"table"}
      /\ \A i \in 1 .. Len(wifi) : wifi[i] \in Settings \ {"table"}
  <2>1. "dnsmasq" \in Settings \ {"table"} /\ "hostapd" \in Settings \ {"table"}
    BY DEF Settings
  <2>2. (dhcp = <<"dnsmasq">> \/ dhcp = <<>>) /\ (wifi = <<"hostapd">> \/ wifi = <<>>)
    OBVIOUS
  <2> HIDE DEF dhcp, wifi
  <2> QED BY <2>1, <2>2, Optional
<1>3. WouldChange = (base \o dhcp) \o wifi
  BY DEF WouldChange
<1> HIDE DEF base, dhcp, wifi
<1>4. /\ base \o dhcp \in Seq(Settings) /\ Len(base \o dhcp) = 3 + Len(dhcp)
      /\ \A i \in 1 .. 3 + Len(dhcp) :
           (base \o dhcp)[i] = IF i <= 3 THEN base[i] ELSE dhcp[i - 3]
  <2> DEFINE n == 3
  <2>1. base \in Seq(Settings) /\ dhcp \in Seq(Settings) /\ Len(base) = n /\ n \in Nat
    BY <1>1, <1>2
  <2> HIDE DEF n
  <2>2. /\ base \o dhcp \in Seq(Settings) /\ Len(base \o dhcp) = n + Len(dhcp)
        /\ \A i \in 1 .. n + Len(dhcp) : (base \o dhcp)[i] = IF i <= n THEN base[i] ELSE dhcp[i - n]
    BY ONLY <2>1, ConcatAt
  <2> QED BY <2>2 DEF n
<1>5. /\ Len(WouldChange) = 3 + Len(dhcp) + Len(wifi)
      /\ \A i \in 1 .. 3 + Len(dhcp) + Len(wifi) :
           WouldChange[i] = IF i <= 3 + Len(dhcp) THEN (base \o dhcp)[i]
                            ELSE wifi[i - (3 + Len(dhcp))]
  <2> DEFINE n == 3 + Len(dhcp)
             both == base \o dhcp
  <2>1. n \in Nat /\ both \in Seq(Settings) /\ wifi \in Seq(Settings) /\ Len(both) = n
    BY <1>2, <1>4
  <2>2. WouldChange = both \o wifi
    BY <1>3
  <2> HIDE DEF n, both
  <2>3. /\ Len(both \o wifi) = n + Len(wifi)
        /\ \A i \in 1 .. n + Len(wifi) : (both \o wifi)[i] = IF i <= n THEN both[i] ELSE wifi[i - n]
    BY ONLY <2>1, ConcatAt
  <2> QED BY <2>2, <2>3 DEF n, both
<1>6. ASSUME NEW i \in 1 .. Len(WouldChange)
      PROVE  WouldChange[i] \in Settings /\ (WouldChange[i] = "table" <=> i = 3)
  <2>1. CASE i <= 3
    BY <1>1, <1>2, <1>4, <1>5, <1>6, <2>1
  <2>2. CASE i > 3 /\ i <= 3 + Len(dhcp)
    <3>1. WouldChange[i] = dhcp[i - 3] /\ i - 3 \in 1 .. Len(dhcp)
      BY <1>2, <1>4, <1>5, <1>6, <2>2
    <3> QED BY <1>2, <2>2, <3>1
  <2>3. CASE i > 3 + Len(dhcp)
    <3>1. WouldChange[i] = wifi[i - (3 + Len(dhcp))] /\ i - (3 + Len(dhcp)) \in 1 .. Len(wifi) /\ i # 3
      BY <1>2, <1>5, <1>6, <2>3
    <3> QED BY <1>2, <3>1
  <2> QED BY <1>2, <1>5, <1>6, <2>1, <2>2, <2>3
<1> QED BY <1>2, <1>5, <1>6

(* A chain is a sequence of namings, and one more load keeps it one.       *)
LEMMA ChainType ==
  ASSUME chain \in BoundedSeq(Namings, MaxLoads)
  PROVE  /\ chain \in Seq(Namings) /\ Len(chain) \in 0 .. MaxLoads
         /\ DOMAIN chain = 1 .. Len(chain) /\ IsFiniteSet(DOMAIN chain)
         /\ \A i \in DOMAIN chain : chain[i] \in Namings
<1>1. PICK m \in 0 .. MaxLoads : chain \in [1 .. m -> Namings]
  BY DEF BoundedSeq, SeqOf
<1>2. chain \in Seq(Namings) /\ Len(chain) = m /\ DOMAIN chain = 1 .. m
  BY <1>1, BoundsAssumption
<1>3. IsFiniteSet(1 .. m)
  BY BoundsAssumption, FS_Interval
<1> QED BY <1>1, <1>2, <1>3

LEMMA LoadType ==
  ASSUME chain \in BoundedSeq(Namings, MaxLoads), NEW naming \in Namings, Load(naming)
  PROVE  /\ chain' \in BoundedSeq(Namings, MaxLoads) /\ chain' # <<>>
         /\ Len(chain') = Len(chain) + 1
         /\ Len(chain) = 0 => chain = <<>> /\ chain'[1] = naming
<1>1. chain \in Seq(Namings) /\ Len(chain) \in 0 .. MaxLoads - 1 /\ chain' = Append(chain, naming)
  BY ChainType, BoundsAssumption DEF Load
<1>2. /\ chain' \in Seq(Namings) /\ Len(chain') = Len(chain) + 1
      /\ chain'[Len(chain) + 1] = naming
  BY <1>1, AppendProperties
<1>3. chain' \in [1 .. Len(chain) + 1 -> Namings] /\ Len(chain) + 1 \in 0 .. MaxLoads
  <2>1. chain' \in [1 .. Len(chain') -> Namings]
    BY <1>2, LenProperties
  <2> QED BY <1>1, <1>2, <2>1, BoundsAssumption
<1>4. chain' \in BoundedSeq(Namings, MaxLoads)
  BY <1>3 DEF BoundedSeq, SeqOf
<1>5. Len(chain) = 0 => chain = <<>>
  BY <1>1, EmptySeq
<1>6. chain' # <<>>
  BY <1>1, <1>2
<1> QED BY <1>1, <1>2, <1>4, <1>5, <1>6

(* A packet counts a whole number of times; in a chain loaded once, as     *)
(* often as it meets a rule.                                               *)
LEMMA HitsType ==
  ASSUME chain \in BoundedSeq(Namings, MaxLoads), NEW p, NEW counter
  PROVE  /\ Hits(p, counter) \in Nat
         /\ Len(chain) = 1 =>
              Hits(p, counter) = Cardinality(Counting(p, counter, chain[1]))
<1> DEFINE f == [i \in DOMAIN chain |-> Cardinality(Counting(p, counter, chain[i]))]
<1>1. ASSUME NEW i \in DOMAIN chain PROVE f[i] \in Nat
  <2>1. IsFiniteSet(RenderNftables(chain[i]))
    BY ChainType, RuleTypes
  <2>2. IsFiniteSet(Counting(p, counter, chain[i]))
    BY <2>1, FS_Subset DEF Counting
  <2> QED BY <2>2, FS_CardinalityType
<1>2. IsFiniteSet(DOMAIN chain) /\ Hits(p, counter) = Sum(f, DOMAIN chain)
  BY ChainType DEF Hits
<1>3. Sum(f, DOMAIN chain) \in Nat
  <2> HIDE DEF f
  <2> QED BY <1>1, <1>2, SumType
<1>4. ASSUME Len(chain) = 1 PROVE Sum(f, DOMAIN chain) = f[1]
  <2>1. DOMAIN chain = {1} /\ f[1] \in Nat
    BY <1>1, <1>4, ChainType
  <2> HIDE DEF f
  <2>2. Sum(f, {1}) = f[1] + Sum(f, {1} \ {1})
    BY <1>1, <1>2, <2>1, SumRemove
  <2>3. Sum(f, {1} \ {1}) = 0
    BY FS_EmptySet, SumStep
  <2> QED BY <2>1, <2>2, <2>3
<1>5. Len(chain) = 1 => f[1] = Cardinality(Counting(p, counter, chain[1]))
  BY ChainType
<1> QED BY <1>2, <1>3, <1>4, <1>5

LEMMA ForwardTyped ==
  ASSUME Typed, NEW p \in Packets, Forward(p)
  PROVE  Typed'
<1>1. UNCHANGED <<plan, phase, position, settings, previous, before, chain>>
  BY DEF Forward
<1>2. PlanInv' /\ chain # <<>>
  BY <1>1 DEF Typed, PlanInv, TypeOK, Forward
<1>3. chain \in BoundedSeq(Namings, MaxLoads)
  BY DEF Typed, TypeOK
<1>4. counters' \in [CounterNames -> Nat]
  <2>1. \A c \in CounterNames : counters[c] \in Nat /\ Hits(p, c) \in Nat
    BY <1>3, HitsType DEF Typed, TypeOK
  <2>2. \A c \in CounterNames : counters[c] + Hits(p, c) \in Nat
    BY <2>1
  <2> QED BY <2>2 DEF Forward
<1>5. carried' \in [Packets -> Nat]
  BY DEF Forward, Typed, TypeOK
<1>6. TypeOK'
  BY <1>1, <1>4, <1>5 DEF Typed, TypeOK
<1>7. Loaded'
  BY <1>1, <1>2 DEF Typed, Loaded, WouldChange
<1> QED BY <1>2, <1>6, <1>7 DEF Typed

LEMMA ApplyTyped ==
  ASSUME Typed, ApplyStep
  PROVE  Typed'
<1> DEFINE s == WouldChange[position + 1]
<1>1. /\ phase = "applying" /\ position \in 0 .. 5 /\ position < Len(WouldChange)
      /\ settings' = [settings EXCEPT ![s] = TRUE] /\ position' = position + 1
      /\ UNCHANGED <<plan, phase, previous, before, counters, carried>>
  BY DEF ApplyStep, Typed, TypeOK
<1>2. /\ Len(WouldChange) \in 3 .. 5 /\ position + 1 \in 1 .. Len(WouldChange)
      /\ s \in Settings /\ (s = "table" <=> position = 2)
  BY <1>1, Changes
<1>3. PlanInv'
  BY <1>1 DEF Typed, PlanInv
<1>4. chain \in BoundedSeq(Namings, MaxLoads) /\ settings \in [Settings -> BOOLEAN]
  BY DEF Typed, TypeOK
<1>5. \/ s = "table" /\ \E naming \in Namings : Load(naming)
      \/ s # "table" /\ chain' = chain
  BY DEF ApplyStep
<1> HIDE DEF s
<1>6. /\ chain' \in BoundedSeq(Namings, MaxLoads)
      /\ s = "table" => chain' # <<>>
      /\ s # "table" => chain' = chain
  BY <1>4, <1>5, LoadType
<1>7. settings' \in [Settings -> BOOLEAN] /\ settings'[s] /\ (s # "table" => settings'["table"] = settings["table"])
  BY <1>1, <1>2, <1>4 DEF Settings
<1>8. chain' = <<>> <=> ~settings'["table"]
  BY <1>6, <1>7 DEF Typed, TypeOK
<1>9. \A i \in DOMAIN chain' : chain'[i] \in Namings
  BY <1>6 DEF BoundedSeq, SeqOf
<1>10. TypeOK'
  <2>1. \A i \in DOMAIN chain' : \A r \in RenderNftables(chain'[i]) : r.counter \in CounterNames
    BY <1>9, RuleTypes
  <2>2. position' \in 0 .. 5
    <3>1. \A n \in 3 .. 5 : position \in 0 .. 5 /\ position < n => position + 1 \in 0 .. 5
      OBVIOUS
    <3> QED BY <1>1, <1>2, <3>1
  <2>3. /\ plan' \in Plans /\ phase' \in {"idle", "applying", "active", "rolling_back"}
        /\ before' \in [Settings -> BOOLEAN] /\ previous' \in BOOLEAN
        /\ counters' \in [CounterNames -> Nat] /\ carried' \in [Packets -> Nat]
    BY <1>1 DEF Typed, TypeOK
  <2>4. chain' \in BoundedSeq(Namings, MaxLoads) /\ settings' \in [Settings -> BOOLEAN]
    BY <1>6, <1>7
  <2> QED BY <1>8, <2>1, <2>2, <2>3, <2>4 DEF TypeOK
<1>11. Loaded'
  <2>1. WouldChange' = WouldChange
    BY <1>1 DEF WouldChange
  <2>2. position + 1 >= 3 => settings'["table"]
    BY <1>1, <1>2, <1>7 DEF Typed, Loaded
  <2>3. chain' = <<>> => chain = <<>>
    BY <1>6
  <2> QED BY <1>1, <1>2, <2>1, <2>2, <2>3 DEF Typed, Loaded
<1> QED BY <1>3, <1>10, <1>11 DEF Typed

LEMMA RollbackTyped ==
  ASSUME Typed, RollbackStep
  PROVE  Typed'
<1> DEFINE s == RollbackCommands[position + 1]
<1>1. /\ phase = "rolling_back" /\ position \in 0 .. 3 /\ position' = position + 1
      /\ settings' = [settings EXCEPT ![s] = s = "forwarding" /\ previous]
      /\ UNCHANGED <<plan, previous, before>>
      /\ phase' \in {"idle", "rolling_back"}
  BY DEF RollbackStep, Typed, PlanInv
<1>2. s \in Settings
  BY <1>1, CommandsUndo DEF Undone
<1>3. PlanInv'
  BY CommandKeepsPlanInv DEF Typed
<1>4. \/ /\ s = "table" /\ chain' = <<>> /\ counters' = [c \in CounterNames |-> 0]
         /\ carried' = NoneCarried
      \/ s # "table" /\ UNCHANGED <<chain, counters, carried>>
  BY DEF RollbackStep
<1> HIDE DEF s
<1>5. /\ settings' \in [Settings -> BOOLEAN]
      /\ s = "table" => ~settings'["table"]
      /\ s # "table" => settings'["table"] = settings["table"]
  <2>1. settings \in [Settings -> BOOLEAN] /\ previous \in BOOLEAN
    BY DEF Typed, TypeOK
  <2>2. (s = "forwarding" /\ previous) \in BOOLEAN
    OBVIOUS
  <2> QED BY <1>1, <1>2, <2>1, <2>2 DEF Settings
<1>6. TypeOK'
  <2>1. CASE s = "table"
    <3>1. <<>> \in BoundedSeq(Namings, MaxLoads)
      BY BoundsAssumption DEF BoundedSeq, SeqOf
    <3>2. NoneCarried \in [Packets -> Nat] /\ [c \in CounterNames |-> 0] \in [CounterNames -> Nat]
      BY DEF NoneCarried
    <3>3. counters' \in [CounterNames -> Nat] /\ carried' \in [Packets -> Nat]
      BY <1>4, <2>1, <3>2
    <3>4. chain' \in BoundedSeq(Namings, MaxLoads) /\ (chain' = <<>> <=> ~settings'["table"])
          /\ DOMAIN chain' = {}
      BY <1>4, <1>5, <2>1, <3>1
    <3>5. plan' \in Plans /\ position' \in 0 .. 5 /\ before' \in [Settings -> BOOLEAN]
          /\ previous' \in BOOLEAN /\ phase' \in {"idle", "applying", "active", "rolling_back"}
      BY <1>1 DEF Typed, TypeOK
    <3>6. \A i \in DOMAIN chain' : \A r \in RenderNftables(chain'[i]) : r.counter \in CounterNames
      BY <3>4
    <3>7. chain' \in BoundedSeq(Namings, MaxLoads) /\ settings' \in [Settings -> BOOLEAN]
      BY <1>5, <3>4
    <3> QED BY <3>3, <3>4, <3>5, <3>6, <3>7 DEF TypeOK
  <2>2. CASE s # "table"
    BY <1>1, <1>4, <1>5, <2>2 DEF Typed, TypeOK
  <2> QED BY <2>1, <2>2
<1>7. Loaded'
  BY <1>1, <1>4 DEF Typed, Loaded
<1> QED BY <1>3, <1>6, <1>7 DEF Typed

LEMMA TypeInductive == (Init => Typed) /\ (Typed /\ [Next]_vars => Typed')
<1>1. ASSUME Init PROVE Typed
  <2>1. PlanInv
    BY <1>1, PlanInductive
  <2>2. <<>> \in BoundedSeq(Namings, MaxLoads) /\ DOMAIN <<>> = {}
        /\ NoneCarried \in [Packets -> Nat]
    BY BoundsAssumption DEF BoundedSeq, SeqOf, NoneCarried
  <2>3. TypeOK
    <3>1. settings \in [Settings -> BOOLEAN] /\ ~settings["table"]
      BY <1>1 DEF Init, Settings
    <3>2. counters \in [CounterNames -> Nat] /\ carried \in [Packets -> Nat]
      BY <1>1, <2>2 DEF Init
    <3>3. chain = <<>> /\ DOMAIN chain = {} /\ chain \in BoundedSeq(Namings, MaxLoads)
      BY <1>1, <2>2 DEF Init
    <3>4. plan \in Plans /\ phase = "idle" /\ position = 0 /\ before = settings
      BY <1>1 DEF Init
    <3>5. previous \in BOOLEAN
      BY <1>1 DEF Init
    <3>6. \A i \in DOMAIN chain : \A r \in RenderNftables(chain[i]) : r.counter \in CounterNames
      BY <3>3
    <3> QED BY <3>1, <3>2, <3>3, <3>4, <3>5, <3>6 DEF TypeOK
  <2>4. Loaded
    BY <1>1 DEF Init, Loaded
  <2> QED BY <2>1, <2>3, <2>4 DEF Typed
<1>2. ASSUME Typed, [Next]_vars PROVE Typed'
  <2>1. PlanInv'
    BY <1>2, PlanInductive DEF Typed
  <2>2. CASE Begin
    <3>1. TypeOK'
      BY <1>2, <2>2 DEF Typed, TypeOK, Begin, Settings
    <3>2. Loaded'
      <4>1. Len(WouldChange') \in 3 .. 5
        BY <2>2, Changes DEF Begin, WouldChange
      <4> QED BY <1>2, <2>2, <4>1 DEF Typed, Loaded, Begin
    <3> QED BY <2>1, <3>1, <3>2 DEF Typed
  <2>3. CASE Confirm
    <3>1. settings["table"]
      BY <1>2, <2>3, Changes DEF Typed, Loaded, Confirm
    <3> QED BY <1>2, <2>1, <2>3, <3>1 DEF Typed, TypeOK, Loaded, Confirm
  <2>4. CASE LoadAgain
    <3>1. chain \in BoundedSeq(Namings, MaxLoads) /\ chain # <<>>
      BY <1>2, <2>4 DEF Typed, TypeOK, Loaded, LoadAgain
    <3>2. Len(chain) \in DOMAIN chain
      BY <3>1, ChainType, EmptySeq
    <3>3. Last(chain) \in Namings
      BY <3>1, <3>2, ChainType DEF Last
    <3>4. chain' \in BoundedSeq(Namings, MaxLoads) /\ chain' # <<>>
      BY <2>4, <3>1, <3>3, LoadType DEF LoadAgain
    <3>5. \A i \in DOMAIN chain' : chain'[i] \in Namings
      BY <3>4 DEF BoundedSeq, SeqOf
    <3>6. \A i \in DOMAIN chain' : \A r \in RenderNftables(chain'[i]) : r.counter \in CounterNames
      BY <3>5, RuleTypes
    <3>7. TypeOK'
      BY <1>2, <2>4, <3>1, <3>4, <3>6 DEF Typed, TypeOK, LoadAgain
    <3>8. Loaded'
      BY <1>2, <2>4, <3>4 DEF Typed, Loaded, LoadAgain
    <3> QED BY <2>1, <3>7, <3>8 DEF Typed
  <2>5. CASE BeginRollback
    BY <1>2, <2>1, <2>5 DEF Typed, TypeOK, Loaded, BeginRollback
  <2>6. CASE UNCHANGED vars
    BY <1>2, <2>1, <2>6 DEF Typed, TypeOK, Loaded, WouldChange, vars
  <2> QED
    BY <1>2, <2>2, <2>3, <2>4, <2>5, <2>6, ForwardTyped, ApplyTyped, RollbackTyped DEF Next
<1> QED BY <1>1, <1>2

(* Every variable keeps its type; among others, every rule counts on a     *)
(* counter that the file declares, under whatever names clients are given  *)
(* (plan.go:96-147).                                                       *)
THEOREM RulesTypes == Spec => []TypeOK
BY TypeInductive, PTL DEF Spec, Typed

-----------------------------------------------------------------------------
(* What the counters hold.                                                 *)

(* A table made once is made by a load into an empty chain; afterwards     *)
(* only packets change what is counted in it, until the table goes.        *)
LEMMA ChainSteps ==
  ASSUME Typed, [Next]_vars, Len(chain') = 1
  PROVE  \/ UNCHANGED <<chain, counters, carried>>
         \/ \E p \in Packets : Forward(p)
         \/ chain = <<>> /\ UNCHANGED <<counters, carried>>
<1>1. chain \in BoundedSeq(Namings, MaxLoads) /\ Len(chain) \in Nat
  BY ChainType, BoundsAssumption DEF Typed, TypeOK
<1>2. ASSUME NEW naming \in Namings, Load(naming) PROVE chain = <<>>
  BY <1>1, <1>2, LoadType
<1>3. CASE ApplyStep
  BY <1>2, <1>3 DEF ApplyStep
<1>4. CASE LoadAgain
  <2>1. chain # <<>>
    BY <1>4 DEF Typed, TypeOK, Loaded, LoadAgain
  <2>2. Last(chain) \in Namings
    BY <1>1, <2>1, ChainType, EmptySeq DEF Last
  <2> QED BY <1>2, <1>4, <2>1, <2>2 DEF LoadAgain
<1>5. CASE RollbackStep
  <2>1. Len(<<>>) = 0
    OBVIOUS
  <2> QED BY <1>5, <2>1 DEF RollbackStep
<1> QED BY <1>3, <1>4, <1>5 DEF Next, Begin, Confirm, BeginRollback, vars

(* A packet adds to the total of a set of packets if it is one of them.    *)
LEMMA TotalGrows ==
  ASSUME Typed, NEW p \in Packets, Forward(p), NEW S \in SUBSET Packets
  PROVE  /\ Sum(carried, S) \in Nat
         /\ Sum(carried', S) = Sum(carried, S) + (IF p \in S THEN 1 ELSE 0)
<1>1. /\ IsFiniteSet(S) /\ \A q \in S : carried[q] \in Nat
      /\ carried' = [carried EXCEPT ![p] = @ + 1] /\ carried \in [Packets -> Nat]
  BY PacketsAreFinite, FS_Subset DEF Forward, Typed, TypeOK
<1>2. CASE p \in S
  <2>1. carried'[p] = carried[p] + 1 /\ \A q \in S \ {p} : carried'[q] = carried[q]
    BY <1>1
  <2>2. Sum(carried', S) = Sum(carried, S) + 1
    <3> DEFINE f == carried
               g == carried'
    <3>1. /\ IsFiniteSet(S) /\ p \in S /\ \A q \in S : f[q] \in Nat
          /\ g[p] = f[p] + 1 /\ \A q \in S \ {p} : g[q] = f[q]
      BY <1>1, <1>2, <2>1
    <3> HIDE DEF f, g
    <3>2. Sum(g, S) = Sum(f, S) + 1
      BY ONLY <3>1, SumUpdate
    <3> QED BY <3>2 DEF f, g
  <2> QED BY <1>1, <1>2, <2>2, SumType
<1>3. CASE p \notin S
  <2>1. \A q \in S : carried'[q] = carried[q]
    BY <1>1, <1>3
  <2>2. Sum(carried', S) = Sum(carried, S)
    BY <1>1, <2>1, SumEqual
  <2> QED BY <1>1, <1>3, <2>2, SumType
<1> QED BY <1>2, <1>3

LEMMA NothingCarried ==
  ASSUME carried = NoneCarried, NEW S \in SUBSET Packets
  PROVE  Total(S) = 0
<1>1. IsFiniteSet(S) /\ \A q \in S : carried[q] = 0
  BY PacketsAreFinite, FS_Subset DEF NoneCarried
<1> QED BY <1>1, SumZero DEF Total

LEMMA AggregatedTypes ==
  /\ DOMAIN Aggregated = {"internet_upload", "internet_download", "lan_upload", "lan_download"}
  /\ \A dir \in DOMAIN Aggregated :
       Aggregated[dir] \in SUBSET Packets /\ <<dir, "client">> \in CounterNames
BY DEF Aggregated, IPv4, CounterNames

(* PacketsCountedOnce, said of each of the four directions.                *)
LEMMA PacketsCountedOnceMeans ==
  PacketsCountedOnce <=>
    (Len(chain) = 1 /\ "client" \notin LabelsOf(chain[1]) =>
       \A dir \in DOMAIN Aggregated : counters[<<dir, "client">>] = Sum(carried, Aggregated[dir]))
<1>1. /\ Aggregated["internet_upload"] = IPv4(Clients, BehindWAN)
      /\ Aggregated["internet_download"] = IPv4(BehindWAN, Clients)
      /\ Aggregated["lan_upload"] = IPv4(Clients, Clients)
      /\ Aggregated["lan_download"] = IPv4(Clients, Clients)
  BY DEF Aggregated
<1>2. Given = LabelsOf(chain[1])
  BY DEF Given, LabelsOf
<1> QED BY <1>1, <1>2, AggregatedTypes DEF PacketsCountedOnce, Total

LEMMA PacketsCountedOnceInductive ==
  /\ Init => PacketsCountedOnce
  /\ Typed /\ PacketsCountedOnce /\ [Next]_vars => PacketsCountedOnce'
<1>1. Init => PacketsCountedOnce
  <2>1. Len(<<>>) = 0
    OBVIOUS
  <2> QED BY <2>1 DEF Init, PacketsCountedOnce
<1>2. ASSUME Typed, PacketsCountedOnce, [Next]_vars PROVE PacketsCountedOnce'
  <2> SUFFICES ASSUME Len(chain') = 1, "client" \notin LabelsOf(chain'[1]),
                      NEW dir \in DOMAIN Aggregated
               PROVE  counters'[<<dir, "client">>] = Sum(carried', Aggregated[dir])
    <3>1. Given' = LabelsOf(chain'[1])
      BY DEF Given, LabelsOf
    <3>2. /\ Aggregated["internet_upload"] = IPv4(Clients, BehindWAN)
          /\ Aggregated["internet_download"] = IPv4(BehindWAN, Clients)
          /\ Aggregated["lan_upload"] = IPv4(Clients, Clients)
          /\ Aggregated["lan_download"] = IPv4(Clients, Clients)
      BY DEF Aggregated
    <3> QED BY <3>1, <3>2, AggregatedTypes DEF PacketsCountedOnce, Total
  <2>1. Aggregated[dir] \in SUBSET Packets /\ <<dir, "client">> \in CounterNames
    BY AggregatedTypes
  <2>2. CASE UNCHANGED <<chain, counters, carried>>
    BY <1>2, <2>2, PacketsCountedOnceMeans
  <2>3. ASSUME NEW p \in Packets, Forward(p)
        PROVE  counters'[<<dir, "client">>] = Sum(carried', Aggregated[dir])
    <3>1. chain' = chain /\ chain \in BoundedSeq(Namings, MaxLoads)
          /\ counters'[<<dir, "client">>] = counters[<<dir, "client">>] + Hits(p, <<dir, "client">>)
      BY <1>2, <2>1, <2>3 DEF Forward, Typed, TypeOK
    <3>2. chain[1] \in Namings
      BY <3>1, ChainType
    <3>3. Hits(p, <<dir, "client">>) = IF p \in Aggregated[dir] THEN 1 ELSE 0
      BY <3>1, <3>2, HitsType, AggregateCounts
    <3>4. counters[<<dir, "client">>] = Sum(carried, Aggregated[dir])
      BY <1>2, <3>1, PacketsCountedOnceMeans
    <3> QED BY <1>2, <2>1, <2>3, <3>1, <3>3, <3>4, TotalGrows
  <2>4. CASE chain = <<>> /\ UNCHANGED <<counters, carried>>
    <3>1. counters = [c \in CounterNames |-> 0] /\ carried = NoneCarried
      BY <1>2, <2>4 DEF Typed, Loaded
    <3> QED BY <2>1, <2>4, <3>1, NothingCarried DEF Total
  <2> QED BY <1>2, <2>2, <2>3, <2>4, ChainSteps
<1> QED BY <1>1, <1>2

(* In a table loaded once each IPv4 packet between a client and the WAN,   *)
(* or between two clients, is counted as often as it should be, for every  *)
(* network and naming (plan.go:128-134).                                   *)
THEOREM PacketsAreCountedOnce == Spec => []PacketsCountedOnce
BY TypeInductive, PacketsCountedOnceInductive, PTL DEF Spec

-----------------------------------------------------------------------------
(* The counters of single clients.                                         *)

LEMMA LabelsAreFinite ==
  ASSUME NEW naming \in Namings
  PROVE  IsFiniteSet(LabelsOf(naming))
         /\ \A dir \in {"internet_upload", "internet_download"} :
              \A l \in LabelsOf(naming) : <<dir, l>> \in CounterNames
<1> DEFINE f == [c \in DOMAIN naming |-> Sanitized[naming[c]]]
<1>1. f \in Surjection(DOMAIN naming, LabelsOf(naming))
  BY DEF Surjection, LabelsOf
<1>2. IsFiniteSet(LabelsOf(naming))
  BY <1>1, NamingTypes, FS_Surjection
<1> QED BY <1>2, NamingTypes DEF CounterNames

LEMMA ClientsInductive ==
  /\ Init => ClientsAddUp
  /\ Typed /\ ClientsAddUp /\ [Next]_vars => ClientsAddUp'
<1>1. Init => ClientsAddUp
  <2>1. Len(<<>>) = 0
    OBVIOUS
  <2> QED BY <2>1 DEF Init, ClientsAddUp
<1>2. ASSUME Typed, ClientsAddUp, [Next]_vars PROVE ClientsAddUp'
  <2> DEFINE labels == LabelsOf(chain'[1])
             own(dir) == [l \in labels |-> counters'[<<dir, l>>]]
  <2> SUFFICES ASSUME Len(chain') = 1, DOMAIN chain'[1] = Clients, "client" \notin labels,
                      NEW dir \in {"internet_upload", "internet_download"}
               PROVE  Sum(own(dir), labels) = counters'[<<dir, "client">>]
    <3>1. Given' = labels
      BY DEF Given, LabelsOf
    <3> QED BY <3>1 DEF ClientsAddUp
  <2> DEFINE old == [l \in labels |-> counters[<<dir, l>>]]
  <2>1. chain'[1] \in Namings
    <3>1. TypeOK'
      BY <1>2, TypeInductive DEF Typed
    <3>2. \E m \in 0 .. MaxLoads : chain' \in [1 .. m -> Namings]
      BY <3>1 DEF TypeOK, BoundedSeq, SeqOf
    <3> QED BY <3>2, BoundsAssumption
  <2>2. /\ IsFiniteSet(labels) /\ dir \in DOMAIN Aggregated /\ <<dir, "client">> \in CounterNames
        /\ \A l \in labels : <<dir, l>> \in CounterNames
    BY <2>1, LabelsAreFinite, AggregatedTypes
  <2>3. \A l \in labels : old[l] \in Nat
    BY <1>2, <2>2 DEF Typed, TypeOK
  <2>4. chain' = chain => Sum(old, labels) = counters[<<dir, "client">>]
    <3>1. chain' = chain => Given = labels
      BY DEF Given, LabelsOf
    <3> QED BY <1>2, <3>1 DEF ClientsAddUp
  <2>5. CASE UNCHANGED <<chain, counters, carried>>
    BY <2>4, <2>5
  <2>6. ASSUME NEW p \in Packets, Forward(p)
        PROVE  Sum(own(dir), labels) = counters'[<<dir, "client">>]
    <3> DEFINE c == ClientOf(dir, p)
               label == Sanitized[chain'[1][c]]
    <3>1. chain' = chain /\ chain \in BoundedSeq(Namings, MaxLoads)
          /\ \A x \in CounterNames : counters'[x] = counters[x] + Hits(p, x)
      BY <1>2, <2>6 DEF Forward, Typed, TypeOK
    <3>2. Hits(p, <<dir, "client">>) = IF p \in Aggregated[dir] THEN 1 ELSE 0
      BY <2>1, <2>2, <3>1, HitsType, AggregateCounts
    <3>3. \A l \in labels :
            Hits(p, <<dir, l>>) = IF p \in Aggregated[dir] /\ l = label THEN 1 ELSE 0
      BY <2>1, <3>1, HitsType, ClientCounts
    <3>4. Sum(old, labels) = counters[<<dir, "client">>] /\ counters[<<dir, "client">>] \in Nat
      BY <1>2, <2>2, <2>4, <3>1 DEF Typed, TypeOK
    <3>5. p \in Aggregated[dir] => label \in labels
      <4>1. p \in Aggregated[dir] => c \in Clients
        BY DEF Aggregated, IPv4, ClientOf
      <4> QED BY <4>1 DEF LabelsOf
    <3>6. ASSUME NEW l \in labels
          PROVE  own(dir)[l] = old[l] + (IF p \in Aggregated[dir] /\ l = label THEN 1 ELSE 0)
      <4>1. own(dir)[l] = old[l] + Hits(p, <<dir, l>>)
        BY <2>2, <3>1
      <4> QED BY <3>3, <4>1
    <3> HIDE DEF labels, label, old, own
    <3>7. CASE p \in Aggregated[dir]
      <4>1. own(dir)[label] = old[label] + 1 /\ \A l \in labels \ {label} : own(dir)[l] = old[l]
        BY <2>3, <3>5, <3>6, <3>7
      <4>2. Sum(own(dir), labels) = Sum(old, labels) + 1
        BY <2>2, <2>3, <3>5, <3>7, <4>1, SumUpdate
      <4> QED BY <2>2, <3>1, <3>2, <3>4, <3>7, <4>2
    <3>8. CASE p \notin Aggregated[dir]
      <4>1. \A l \in labels : own(dir)[l] = old[l]
        BY <2>3, <3>6, <3>8
      <4>2. Sum(own(dir), labels) = Sum(old, labels)
        BY <2>2, <4>1, SumEqual
      <4> QED BY <2>2, <3>1, <3>2, <3>4, <3>8, <4>2
    <3> QED BY <3>7, <3>8
  <2>7. CASE chain = <<>> /\ UNCHANGED <<counters, carried>>
    <3>1. counters' = [c \in CounterNames |-> 0]
      BY <1>2, <2>7 DEF Typed, Loaded
    <3>2. \A l \in labels : own(dir)[l] = 0
      BY <2>2, <3>1
    <3> HIDE DEF labels, own
    <3>3. Sum(own(dir), labels) = 0
      BY <2>2, <3>2, SumZero
    <3> QED BY <2>2, <3>1, <3>3
  <2> QED BY <1>2, <2>5, <2>6, <2>7, ChainSteps
<1> QED BY <1>1, <1>2

(* The clients' own counters add up to the counter of all, under whatever  *)
(* names, colliding or not (plan.go:96-113, 187-200).                      *)
THEOREM ClientsAlwaysAddUp == Spec => []ClientsAddUp
BY TypeInductive, ClientsInductive, PTL DEF Spec

-----------------------------------------------------------------------------
(***************************************************************************)
(* The readiness of a host.                                                *)
(***************************************************************************)

Attributes == {"operstate", "carrier", "speed", "duplex", "master"}

(* In which steps an attribute of the current interface is not read yet. *)
Awaited(a) ==
  CASE a = "operstate" -> {"operstate"}
    [] a = "carrier" -> {"operstate", "carrier"}
    [] a = "speed" -> {"operstate", "carrier", "speed"}
    [] a = "duplex" -> {"operstate", "carrier", "speed", "duplex"}
    [] a = "master" -> Attributes

LinkSteps == {"addresses"} \cup Attributes
BeforeRoutes == {"interfaces"} \cup LinkSteps
BeforeRadios == BeforeRoutes \cup {"nm", "dev"}
BeforeDocker == BeforeRadios \cup {"list", "docker"}

Missed(name) == <<name, NoInterface>> \in failed

(* Each part of the report was true of the host at some time of the        *)
(* discovery, or its read failed; not all of them need have been true      *)
(* together.  The interfaces that were listed, read by now or not:         *)
Listed ==
  \E h \in seen :
    LET known == DOMAIN report.links \cup (IF step \in LinkSteps THEN report.todo ELSE {}) IN
    step # "interfaces" => known \subseteq DOMAIN h.links /\ (failed = {} => known = DOMAIN h.links)

(* Their addresses and attributes, unless they are gone; an operational    *)
(* state is never up unless it was.                                        *)
AddressesSeen ==
  \A i \in DOMAIN report.links :
    \E h \in seen : i \in DOMAIN h.links => report.links[i].ssh = h.links[i].ssh

AttributesSeen ==
  \A i \in DOMAIN report.links, a \in Attributes :
    \/ i = report.now /\ step \in Awaited(a)
    \/ <<a, i>> \in failed
    \/ \E h \in seen : i \in DOMAIN h.links => report.links[i][a] = h.links[i][a]

UpSeen ==
  \A i \in DOMAIN report.links :
    report.links[i].operstate = "up" =>
      \E h \in seen : i \in DOMAIN h.links /\ h.links[i].operstate = "up"

(* The routes, the radios, Docker's networks, and nft. *)
NoRoutes == report.routes = {} /\ report.wan = NoInterface

RoutesSeen ==
  \/ Missed("routes") /\ NoRoutes
  \/ \E h \in seen :
       /\ report.routes = h.routes
       /\ IF DefaultDevs(h) = {} THEN report.wan = NoInterface ELSE report.wan \in DefaultDevs(h)

DevSeen ==
  \E h \in seen :
    /\ DOMAIN report.radios = DOMAIN h.radios
    /\ \A i \in DOMAIN report.radios : report.radios[i].mode = h.radios[i].mode

ModesSeen == (Missed("radios") /\ report.radios = Nothing) \/ DevSeen

APsSeen ==
  (Missed("radios") /\ report.radios = Nothing) \/
  \E h \in seen : \A i \in DOMAIN report.radios :
    report.radios[i].ap <=> (i \in DOMAIN h.radios /\ h.radios[i].ap)

DockerSeen ==
  \/ Missed("docker")
  \/ \E h \in seen : report.docker \cup (IF step = "inspect" THEN report.todo ELSE {}) = h.docker

NftSeen == \E h \in seen : report.nft = h.nft

Judged == [ready |-> Failing = {}, activation |-> Failing = {} /\ ~Warned, fails |-> Failing]

Offered == {i \in DOMAIN report.links : lanCandidate(i, report.radios)}

Whole(r) ==
  DOMAIN r = {"todo", "now", "links", "routes", "wan", "nm", "radios", "candidates", "docker", "nft"}

(* The report has its form, and in it nothing that is still to be read. *)
Formed ==
  /\ Whole(report) /\ report.links \in [DOMAIN report.links -> Links]
  /\ step \in Attributes => report.now \in DOMAIN report.links
  /\ step = "interfaces" => DOMAIN report.links = {} /\ report.todo = {}
  /\ step \in BeforeRoutes => NoRoutes
  /\ step \in BeforeRadios \cup {"list"} => report.candidates = {}
  /\ step \in BeforeDocker => report.docker = {}

Picture ==
  /\ step \in Steps /\ cfg \in Configs /\ events \in 0 .. MaxEvents
  /\ host \in seen /\ seen \subseteq HostStates
  /\ Formed
  /\ Listed /\ AddressesSeen /\ AttributesSeen /\ UpSeen
  /\ step \notin BeforeRoutes => RoutesSeen
  /\ step = "list" => DevSeen
  /\ step \notin BeforeRadios \cup {"list"} =>
       ModesSeen /\ APsSeen /\ report.candidates = Offered
  /\ step \notin BeforeDocker => DockerSeen
  /\ step \in {"evaluate", "answered"} => NftSeen
  /\ answer = IF step = "answered" THEN Judged ELSE NoAnswer

(* The parts of a host, for what follows. *)
LEMMA HostParts ==
  ASSUME NEW h \in HostStates
  PROVE  /\ DOMAIN h.links \subseteq Interfaces
         /\ h.links \in [DOMAIN h.links -> Links]
         /\ DefaultDevs(h) \subseteq DOMAIN h.links
         /\ Destinations(h.routes) \subseteq IPPrefixes
         /\ DOMAIN h.radios \subseteq DOMAIN h.links \cap RadioNames
         /\ h.radios \in [DOMAIN h.radios -> Radios]
         /\ h.docker \subseteq IPPrefixes /\ h.nft \in BOOLEAN
<1>1. IsHost(h)
  BY HostStatesAssumption
<1>2. \A r \in h.routes : r.dest \in IPPrefixes \cup {Default} /\ r.dev \in DOMAIN h.links
  BY <1>1 DEF IsHost
<1>3. DefaultDevs(h) \subseteq DOMAIN h.links /\ Destinations(h.routes) \subseteq IPPrefixes
  BY <1>2 DEF DefaultDevs, Destinations
<1> QED BY <1>1, <1>3 DEF IsHost

(* What is not read again stays as it was seen. *)
Grows == seen \subseteq seen' /\ failed \subseteq failed'

LEMMA LinksStay ==
  ASSUME Grows, report'.links = report.links
  PROVE  /\ AddressesSeen => AddressesSeen' /\ (UpSeen => UpSeen')
         /\ (step \in Attributes => step' = step /\ report'.now = report.now)
              => (AttributesSeen => AttributesSeen')
         /\ (/\ step # "interfaces"
             /\ step' \in LinkSteps => step \in LinkSteps /\ report'.todo = report.todo
             /\ step \in LinkSteps => step' \in LinkSteps \/ report.todo = {})
              => (Listed => Listed')
<1>1. AddressesSeen => AddressesSeen'
  BY DEF Grows, AddressesSeen
<1>2. UpSeen => UpSeen'
  BY DEF Grows, UpSeen
<1>3. ASSUME step \in Attributes => step' = step /\ report'.now = report.now, AttributesSeen
      PROVE  AttributesSeen'
  <2>1. \A a \in Attributes : Awaited(a) \subseteq Attributes
    BY DEF Awaited, Attributes
  <2> SUFFICES ASSUME NEW i \in DOMAIN report.links, NEW a \in Attributes
               PROVE  \/ i = report'.now /\ step' \in Awaited(a)
                      \/ <<a, i>> \in failed'
                      \/ \E h \in seen' : i \in DOMAIN h.links => report.links[i][a] = h.links[i][a]
    BY DEF AttributesSeen
  <2> QED BY <1>3, <2>1 DEF Grows, AttributesSeen
<1>4. ASSUME step # "interfaces",
             step' \in LinkSteps => step \in LinkSteps /\ report'.todo = report.todo,
             step \in LinkSteps => step' \in LinkSteps \/ report.todo = {},
             Listed
      PROVE  Listed'
  BY <1>4 DEF Grows, Listed
<1> QED BY <1>1, <1>2, <1>3, <1>4

LEMMA PartsStay ==
  ASSUME Grows
  PROVE  /\ report'.routes = report.routes /\ report'.wan = report.wan => (RoutesSeen => RoutesSeen')
         /\ report'.radios = report.radios
              => (DevSeen => DevSeen') /\ (ModesSeen => ModesSeen') /\ (APsSeen => APsSeen')
         /\ report'.docker = report.docker /\ (step = "inspect" => report'.todo = report.todo)
              /\ (step' = "inspect" <=> step = "inspect")
              => (DockerSeen => DockerSeen')
         /\ report'.nft = report.nft => (NftSeen => NftSeen')
<1>1. \A h : DefaultDevs(h)' = DefaultDevs(h)
  BY DEF DefaultDevs
<1>2. report'.routes = report.routes /\ report'.wan = report.wan => (RoutesSeen => RoutesSeen')
  BY <1>1 DEF Grows, RoutesSeen, NoRoutes, Missed
<1>3. report'.radios = report.radios => (DevSeen => DevSeen')
  BY DEF Grows, DevSeen
<1>4. report'.radios = report.radios => (ModesSeen => ModesSeen')
  BY <1>3 DEF Grows, ModesSeen, Missed, Nothing
<1>5. report'.radios = report.radios => (APsSeen => APsSeen')
  BY DEF Grows, APsSeen, Missed, Nothing
<1>6. (report'.docker = report.docker /\ (step = "inspect" => report'.todo = report.todo)
        /\ (step' = "inspect" <=> step = "inspect"))
        => (DockerSeen => DockerSeen')
  BY DEF Grows, DockerSeen, Missed
<1>7. report'.nft = report.nft => (NftSeen => NftSeen')
  BY DEF Grows, NftSeen
<1> QED BY <1>2, <1>3, <1>4, <1>5, <1>6, <1>7

(* What is offered depends on what was read of links, routes, kinds and    *)
(* radios.                                                                 *)
LEMMA OfferedStays ==
  ASSUME report'.links = report.links, report'.routes = report.routes,
         report'.wan = report.wan, report'.nm = report.nm
  PROVE  /\ \A i, radios : lanCandidate(i, radios)' = lanCandidate(i, radios)
         /\ report'.radios = report.radios => Offered' = Offered
<1>1. \A i, radios : isWiFiInterface(i, radios)' = isWiFiInterface(i, radios)
  BY DEF isWiFiInterface
<1>2. \A i, radios : lanCandidate(i, radios)' = lanCandidate(i, radios)
  BY <1>1 DEF lanCandidate, HasDefaultRoute
<1> QED BY <1>2 DEF Offered

(* The picture holds at the start and after every step. *)
LEMMA PictureInit == ReadinessInit => Picture
<1> SUFFICES ASSUME ReadinessInit PROVE Picture
  OBVIOUS
<1>1. Formed
  BY DEF ReadinessInit, Formed, Whole, NoRoutes, Empty, Nothing, BeforeRoutes, Attributes
<1>2. Listed /\ AddressesSeen /\ AttributesSeen /\ UpSeen
  BY DEF ReadinessInit, Listed, AddressesSeen, AttributesSeen, UpSeen, Empty, Nothing
<1>3. step = "interfaces" /\ step \in BeforeRoutes /\ step \in BeforeRadios /\ step \in BeforeDocker
  BY DEF ReadinessInit, BeforeRoutes, BeforeRadios, BeforeDocker
<1> QED BY <1>1, <1>2, <1>3, DiscoveryBounds DEF ReadinessInit, Picture, Steps

LEMMA PictureChange == \A h \in HostStates : Picture /\ Change(h) => Picture'
<1> SUFFICES ASSUME NEW h \in HostStates, Picture, Change(h) PROVE Picture'
  OBVIOUS
<1>1. /\ Grows /\ cfg' = cfg /\ report' = report /\ failed' = failed
      /\ step' = step /\ step # "answered" /\ answer' = answer
      /\ host' \in seen' /\ seen' \subseteq HostStates
  BY DEF Change, Grows, Picture
<1>2. Formed'
  BY <1>1 DEF Picture, Formed, NoRoutes, Whole
<1>3. Listed' /\ AddressesSeen' /\ AttributesSeen' /\ UpSeen'
  <2>1. Listed'
    BY <1>1 DEF Picture, Listed, Grows
  <2> QED BY <1>1, <2>1, LinksStay DEF Picture
<1>4. events' \in 0 .. MaxEvents
  BY DiscoveryBounds DEF Change, Picture
<1> QED BY <1>1, <1>2, <1>3, <1>4, OfferedStays, PartsStay DEF Picture

(* A read leaves the host alone; if it fails that is noted. *)
LEMMA Reading ==
  ASSUME NEW now, NEW next, Picture, Reads(now, next)
  PROVE  /\ step = now /\ step' = next /\ cfg' = cfg /\ host' = host /\ answer' = answer
         /\ seen' = seen /\ host \in seen /\ host \in HostStates
         /\ \A rest : Succeeds(rest) =>
              report' = rest /\ failed' = failed /\ events' = events /\ Grows
         /\ \A name, i, rest : Fails(name, i, rest) =>
              report' = rest /\ failed' = failed \cup {<<name, i>>} /\ events' \in 0 .. MaxEvents /\ Grows
<1>1. \A rest : Succeeds(rest) => Grows
  BY DEF Reads, Succeeds, Grows
<1>2. \A name, i, rest : Fails(name, i, rest) => Grows
  BY DEF Reads, Fails, Grows
<1>3. \A name, i, rest : Fails(name, i, rest) => events' \in 0 .. MaxEvents
  BY DiscoveryBounds DEF Fails, Picture
<1> QED BY <1>1, <1>2, <1>3 DEF Reads, Picture, Succeeds, Fails

LEMMA PictureListInterfaces == Picture /\ ListInterfaces => Picture'
<1> SUFFICES ASSUME Picture, ListInterfaces PROVE Picture'
  OBVIOUS
<1>1. Reads("interfaces", "addresses")
  BY DEF ListInterfaces
<1>2. Whole(report) /\ DOMAIN report.links = {} /\ report.todo = {}
  BY <1>1, Reading DEF Picture, Formed
<1>3. /\ Whole(report') /\ report'.links = report.links /\ report'.routes = report.routes
      /\ report'.wan = report.wan /\ report'.candidates = report.candidates
      /\ report'.docker = report.docker
      /\ \/ failed' # {} /\ report' = report
         \/ report'.todo = DOMAIN host.links
  <2>1. CASE Succeeds([report EXCEPT !.todo = DOMAIN host.links])
    BY <1>1, <1>2, <2>1, Reading DEF Whole
  <2>2. CASE Fails("interfaces", NoInterface, report)
    BY <1>1, <1>2, <2>2, Reading DEF Whole
  <2> QED BY <2>1, <2>2 DEF ListInterfaces
<1>4. Grows /\ events' \in 0 .. MaxEvents
  BY <1>1, Reading DEF ListInterfaces, Picture
<1>5. Formed'
  BY <1>1, <1>2, <1>3, Reading
     DEF Picture, Formed, NoRoutes, BeforeRoutes, BeforeRadios, BeforeDocker, LinkSteps, Attributes
<1>6. Listed'
  <2> DEFINE known == DOMAIN report'.links \cup (IF step' \in LinkSteps THEN report'.todo ELSE {})
  <2>1. known = report'.todo
    BY <1>1, <1>2, <1>3, Reading DEF LinkSteps
  <2>2. known \subseteq DOMAIN host.links /\ (failed' = {} => known = DOMAIN host.links)
    BY <1>2, <1>3, <2>1
  <2> QED BY <1>1, <2>2, Reading DEF Listed
<1>7. AddressesSeen' /\ AttributesSeen' /\ UpSeen'
  BY <1>2, <1>3 DEF AddressesSeen, AttributesSeen, UpSeen
<1> QED
  BY <1>1, <1>4, <1>5, <1>6, <1>7, Reading
     DEF Picture, Steps, BeforeRoutes, BeforeRadios, BeforeDocker, LinkSteps

LEMMA PictureReadAddresses == \A i : Picture /\ ReadAddresses(i) => Picture'
<1> SUFFICES ASSUME NEW i, Picture, ReadAddresses(i) PROVE Picture'
  OBVIOUS
<1> DEFINE next == [report EXCEPT !.todo = @ \ {i}, !.now = i]
           left == [next EXCEPT !.now = NoInterface]
           link == IF i \in DOMAIN host.links
                     THEN [Unread EXCEPT !.ipv4 = host.links[i].ipv4, !.ssh = host.links[i].ssh]
                     ELSE Unread
           read == [next EXCEPT !.links = Known(i, link)]
<1>1. Whole(report) /\ i \in report.todo /\ step = "addresses"
  BY DEF Picture, Formed, ReadAddresses, Reads
<1>2. report.links \in [DOMAIN report.links -> Links]
  BY DEF Picture, Formed
<1>3. /\ link \in Links /\ link.operstate = ""
      /\ i \in DOMAIN host.links => link.ssh = host.links[i].ssh
  <2>1. host.links \in [DOMAIN host.links -> Links]
    BY HostParts DEF Picture
  <2> QED BY <2>1 DEF Links, Unread
<1> HIDE DEF link
<1>4. step \notin Attributes /\ step \in LinkSteps /\ step \in BeforeRoutes /\ step \in BeforeRadios
      /\ step \in BeforeDocker
  BY <1>1 DEF Attributes, LinkSteps, BeforeRoutes, BeforeRadios, BeforeDocker
<1>5. report.routes = {} /\ report.wan = NoInterface /\ report.candidates = {} /\ report.docker = {}
  BY <1>1, <1>4 DEF Picture, Formed, NoRoutes
<1>6. CASE Reads("addresses", "operstate") /\ Succeeds(read)
  <2>1. /\ step' = "operstate" /\ report' = read /\ failed' = failed /\ Grows /\ seen' = seen
        /\ cfg' = cfg /\ host' = host /\ answer' = answer /\ host \in seen /\ events' = events
    BY <1>6, Reading
  <2>2. /\ Whole(report') /\ report'.todo = report.todo \ {i} /\ report'.now = i
        /\ report'.links = Known(i, link) /\ report'.routes = report.routes
        /\ report'.wan = report.wan /\ report'.candidates = report.candidates
        /\ report'.docker = report.docker
    BY <1>1, <2>1 DEF Whole
  <2>3. /\ DOMAIN report'.links = DOMAIN report.links \cup {i} /\ report'.links[i] = link
        /\ \A j \in DOMAIN report.links : j # i => report'.links[j] = report.links[j]
        /\ report'.links \in [DOMAIN report'.links -> Links]
    <3>1. report'.links =
            [j \in DOMAIN report.links \cup {i} |-> IF j = i THEN link ELSE report.links[j]]
      BY <2>2 DEF Known
    <3>2. DOMAIN report'.links = DOMAIN report.links \cup {i} /\ report'.links[i] = link
      BY <3>1
    <3>3. \A j \in DOMAIN report.links : j # i => report'.links[j] = report.links[j]
      BY <3>1
    <3>4. \A j \in DOMAIN report'.links : report'.links[j] \in Links
      BY <1>2, <1>3, <3>2, <3>3
    <3> QED BY <3>1, <3>2, <3>3, <3>4
  <2>4. Formed'
    BY <1>5, <2>1, <2>2, <2>3 DEF Formed, NoRoutes, Attributes
  <2>5. Listed'
    BY <1>1, <2>1, <2>2, <2>3 DEF Picture, Listed, LinkSteps, Attributes
  <2>6. AddressesSeen' /\ UpSeen'
    BY <1>3, <2>1, <2>3 DEF Picture, AddressesSeen, UpSeen
  <2>7. AttributesSeen'
    <3>1. \A a \in Attributes : "operstate" \in Awaited(a)
      BY DEF Attributes, Awaited
    <3>2. \A a : Awaited(a)' = Awaited(a)
      BY DEF Awaited, Attributes
    <3>3. \A a \in Attributes : Awaited(a) \subseteq Attributes
      BY DEF Attributes, Awaited
    <3> SUFFICES ASSUME NEW j \in DOMAIN report.links \cup {i}, NEW a \in Attributes, j # i
                 PROVE  \/ <<a, j>> \in failed
                        \/ \E h \in seen : j \in DOMAIN h.links => report'.links[j][a] = h.links[j][a]
      BY <2>1, <2>2, <2>3, <3>1, <3>2 DEF AttributesSeen
    <3>4. j \in DOMAIN report.links /\ report'.links[j] = report.links[j] /\ step \notin Awaited(a)
      BY <1>4, <2>3, <3>3
    <3> QED BY <3>4 DEF Picture, AttributesSeen
  <2> QED
    BY <1>4, <2>1, <2>4, <2>5, <2>6, <2>7
       DEF Picture, Steps, BeforeRoutes, BeforeRadios, BeforeDocker, LinkSteps, Attributes
<1>7. CASE Reads("addresses", "addresses") /\ Fails("addresses", i, left)
  <2>1. /\ step' = step /\ report' = left /\ failed' = failed \cup {<<"addresses", i>>} /\ Grows
        /\ cfg' = cfg /\ host' = host /\ answer' = answer /\ seen' = seen
        /\ events' \in 0 .. MaxEvents
    BY <1>1, <1>7, Reading
  <2>2. /\ Whole(report') /\ report'.todo = report.todo \ {i} /\ report'.now = NoInterface
        /\ report'.links = report.links /\ report'.routes = report.routes
        /\ report'.wan = report.wan /\ report'.candidates = report.candidates
        /\ report'.docker = report.docker
    BY <1>1, <2>1 DEF Whole
  <2>3. Formed'
    BY <1>2, <1>4, <1>5, <2>1, <2>2 DEF Picture, Formed, NoRoutes
  <2>4. Listed'
    BY <1>4, <2>1, <2>2 DEF Picture, Listed
  <2>5. AddressesSeen' /\ UpSeen' /\ AttributesSeen'
    BY <1>4, <2>1, <2>2, LinksStay DEF Picture
  <2> QED BY <1>1, <1>4, <2>1, <2>3, <2>4, <2>5 DEF Picture
<1> QED BY <1>6, <1>7 DEF ReadAddresses, link

(* One attribute of the current interface has been read, or not. *)
Noted(a, next) ==
  /\ Reads(a, next) /\ Grows /\ events' \in 0 .. MaxEvents
  /\ Whole(report') /\ report'.todo = report.todo /\ report'.now = report.now
  /\ report'.routes = report.routes /\ report'.wan = report.wan
  /\ report'.candidates = report.candidates /\ report'.docker = report.docker
  /\ report'.links \in [DOMAIN report.links -> Links]
  /\ \A i \in DOMAIN report.links : report'.links[i].ssh = report.links[i].ssh
  /\ \A i \in DOMAIN report.links, b \in Attributes :
       i # report.now \/ b # a => report'.links[i][b] = report.links[i][b]
  /\ \/ <<a, report.now>> \in failed' /\ report'.links = report.links
     \/ report.now \notin DOMAIN host.links /\ report'.links = report.links
     \/ report.now \in DOMAIN host.links
        /\ report'.links[report.now][a] = host.links[report.now][a]

LEMMA PictureNoted ==
  ASSUME Picture, NEW a \in Attributes, NEW next \in LinkSteps, Noted(a, next),
         \A b \in Attributes : a \in Awaited(b) => b = a \/ next \in Awaited(b)
  PROVE  Picture'
<1>1. /\ step = a /\ step' = next /\ cfg' = cfg /\ host' = host /\ answer' = answer
      /\ seen' = seen /\ host \in seen /\ host \in HostStates /\ failed \subseteq failed'
  BY Reading DEF Noted, Grows
<1>2. step \in LinkSteps /\ step \in BeforeRoutes /\ step \in BeforeRadios /\ step \in BeforeDocker
      /\ step' \in BeforeRoutes /\ step' \in BeforeRadios /\ step' \in BeforeDocker
      /\ step' \in Steps /\ step' \notin {"interfaces", "answered", "evaluate", "list"}
      /\ step \notin {"answered", "interfaces"}
  BY <1>1 DEF LinkSteps, Attributes, BeforeRoutes, BeforeRadios, BeforeDocker, Steps
<1>3. report.now \in DOMAIN report.links /\ DOMAIN report'.links = DOMAIN report.links
  BY <1>1 DEF Picture, Formed, Noted
<1>4. Formed'
  BY <1>1, <1>2, <1>3 DEF Picture, Formed, Noted, NoRoutes
<1>5. Listed'
  BY <1>1, <1>2, <1>3 DEF Picture, Listed, Noted, Grows
<1>6. AddressesSeen'
  BY <1>1, <1>3 DEF Picture, AddressesSeen, Noted
<1>7. UpSeen'
  <2> SUFFICES ASSUME NEW i \in DOMAIN report.links, report'.links[i].operstate = "up"
               PROVE  \E h \in seen : i \in DOMAIN h.links /\ h.links[i].operstate = "up"
    BY <1>1, <1>3 DEF UpSeen
  <2>1. CASE report'.links[i].operstate = report.links[i].operstate
    BY <2>1 DEF Picture, UpSeen
  <2>2. CASE report'.links[i].operstate # report.links[i].operstate
    <3>1. i = report.now /\ a = "operstate"
      BY <2>2 DEF Noted, Attributes
    <3>2. i \in DOMAIN host.links /\ report'.links[i].operstate = host.links[i].operstate
      BY <2>2, <3>1 DEF Noted
    <3> QED BY <1>1, <3>2
  <2> QED BY <2>1, <2>2
<1>8. AttributesSeen'
  <2> SUFFICES ASSUME NEW i \in DOMAIN report.links, NEW b \in Attributes
               PROVE  \/ i = report'.now /\ step' \in Awaited(b)
                      \/ <<b, i>> \in failed'
                      \/ \E h \in seen' : i \in DOMAIN h.links => report'.links[i][b] = h.links[i][b]
    BY <1>3 DEF AttributesSeen, Awaited, Attributes
  <2>1. CASE i = report.now /\ b = a
    BY <1>1, <2>1 DEF Noted
  <2>2. CASE i # report.now \/ b # a
    <3>1. report'.links[i][b] = report.links[i][b]
      BY <2>2 DEF Noted
    <3>2. CASE i = report.now /\ step \in Awaited(b)
      BY <1>1, <2>2, <3>2 DEF Noted
    <3>3. CASE ~(i = report.now /\ step \in Awaited(b))
      BY <1>1, <3>1, <3>3 DEF Picture, AttributesSeen
    <3> QED BY <3>2, <3>3
  <2> QED BY <2>1, <2>2
<1> QED BY <1>1, <1>2, <1>4, <1>5, <1>6, <1>7, <1>8 DEF Picture, Noted

LEMMA OneAttribute ==
  ASSUME Picture, NEW a \in Attributes, NEW next,
         Attribute(a, next, [report EXCEPT !.links[report.now][a] = Shown[a]])
  PROVE  Noted(a, next)
<1> DEFINE n == report.now
           read == [report EXCEPT !.links[n][a] = Shown[a]]
<1>1. Reads(a, next) /\ Whole(report) /\ report.links \in [DOMAIN report.links -> Links]
  BY DEF Attribute, Picture, Formed
<1>2. n \in DOMAIN report.links
  BY <1>1 DEF Reads, Picture, Formed
<1>3. host.links \in [DOMAIN host.links -> Links]
  BY HostParts DEF Picture
<1>4. Succeeds(IF n \in DOMAIN host.links THEN read ELSE report) \/ Fails(a, n, report)
  BY DEF Attribute
<1>5. Grows /\ events' \in 0 .. MaxEvents
  BY <1>1, <1>4, Reading DEF Picture
<1>6. CASE Succeeds(read) /\ n \in DOMAIN host.links
  <2>1. report' = read
    BY <1>1, <1>6, Reading
  <2>2. /\ Whole(report') /\ report'.todo = report.todo /\ report'.now = report.now
        /\ report'.routes = report.routes /\ report'.wan = report.wan
        /\ report'.candidates = report.candidates /\ report'.docker = report.docker
        /\ report'.links = [report.links EXCEPT ![n][a] = Shown[a]]
    BY <1>1, <2>1 DEF Whole
  <2>3. [report.links[n] EXCEPT ![a] = Shown[a]] \in Links
    <3>1. Shown \in Links /\ report.links[n] \in Links
      BY <1>1, <1>2, <1>3, <1>6 DEF Shown
    <3> HIDE DEF n
    <3> QED BY <3>1 DEF Links, Attributes
  <2>4. report'.links \in [DOMAIN report.links -> Links]
    BY <1>1, <1>2, <2>2, <2>3
  <2>5. DOMAIN report.links[n] = {"operstate", "carrier", "speed", "duplex", "master", "ipv4", "ssh"}
    BY <1>1, <1>2 DEF Links
  <2>6. /\ report'.links[n] = [report.links[n] EXCEPT ![a] = Shown[a]]
        /\ \A i \in DOMAIN report.links : i # n => report'.links[i] = report.links[i]
    BY <1>1, <1>2, <2>2
  <2>7. /\ report'.links[n][a] = Shown[a] /\ report'.links[n].ssh = report.links[n].ssh
        /\ \A b \in Attributes : b # a => report'.links[n][b] = report.links[n][b]
    BY <2>5, <2>6 DEF Attributes
  <2> QED BY <1>1, <1>5, <1>6, <2>2, <2>4, <2>6, <2>7 DEF Noted, Shown
<1>7. CASE report' = report /\ (n \notin DOMAIN host.links \/ <<a, n>> \in failed')
  BY <1>1, <1>5, <1>7 DEF Noted
<1> QED BY <1>1, <1>4, <1>6, <1>7, Reading

LEMMA PictureReadAttributes ==
  /\ Picture /\ ReadOperstate => Picture'
  /\ Picture /\ ReadCarrier => Picture'
  /\ Picture /\ ReadSpeed => Picture'
  /\ Picture /\ ReadDuplex => Picture'
  /\ Picture /\ ReadMaster => Picture'
<1>1. Picture /\ ReadOperstate => Noted("operstate", "carrier")
  BY OneAttribute DEF ReadOperstate, Attributes
<1>2. Picture /\ ReadCarrier => Noted("carrier", "speed")
  BY OneAttribute DEF ReadCarrier, Attributes
<1>3. Picture /\ ReadSpeed => Noted("speed", "duplex")
  BY OneAttribute DEF ReadSpeed, Attributes
<1>4. Picture /\ ReadDuplex => Noted("duplex", "master")
  BY OneAttribute DEF ReadDuplex, Attributes
<1>5. Picture /\ ReadMaster => Noted("master", "addresses")
  BY OneAttribute DEF ReadMaster, Attributes
<1>6. \A b \in Attributes :
        /\ "operstate" \in Awaited(b) => b = "operstate" \/ "carrier" \in Awaited(b)
        /\ "carrier" \in Awaited(b) => b = "carrier" \/ "speed" \in Awaited(b)
        /\ "speed" \in Awaited(b) => b = "speed" \/ "duplex" \in Awaited(b)
        /\ "duplex" \in Awaited(b) => b = "duplex" \/ "master" \in Awaited(b)
        /\ "master" \in Awaited(b) => b = "master" \/ "addresses" \in Awaited(b)
  BY DEF Awaited, Attributes
<1>7. Attributes \subseteq LinkSteps /\ "addresses" \in LinkSteps
      /\ {"operstate", "carrier", "speed", "duplex", "master"} \subseteq Attributes
  BY DEF LinkSteps, Attributes
<1>8. Picture /\ ReadOperstate => Picture'
  BY <1>1, <1>6, <1>7, PictureNoted
<1>9. Picture /\ ReadCarrier => Picture'
  BY <1>2, <1>6, <1>7, PictureNoted
<1>10. Picture /\ ReadSpeed => Picture'
  BY <1>3, <1>6, <1>7, PictureNoted
<1>11. Picture /\ ReadDuplex => Picture'
  BY <1>4, <1>6, <1>7, PictureNoted
<1>12. Picture /\ ReadMaster => Picture'
  BY <1>5, <1>6, <1>7, PictureNoted
<1> QED BY <1>8, <1>9, <1>10, <1>11, <1>12

(* Where each of the later steps stands. *)
LEMMA LaterSteps ==
  /\ \A s \in {"nm", "dev", "list", "docker", "inspect", "evaluate", "answered"} :
       s \in Steps /\ s \notin LinkSteps /\ s \notin Attributes /\ s \notin BeforeRoutes
  /\ "addresses" \in LinkSteps /\ "addresses" \in BeforeRoutes
  /\ BeforeRoutes \subseteq BeforeRadios /\ BeforeRadios \subseteq BeforeDocker
  /\ {"nm", "dev"} \subseteq BeforeRadios /\ {"list", "docker"} \subseteq BeforeDocker
  /\ \A s \in {"list", "docker", "inspect", "evaluate", "answered"} : s \notin BeforeRadios
  /\ \A s \in {"inspect", "evaluate", "answered"} : s \notin BeforeDocker
BY DEF Steps, LinkSteps, Attributes, BeforeRoutes, BeforeRadios, BeforeDocker

LEMMA PictureReadRoutes == Picture /\ ReadRoutes => Picture'
<1> SUFFICES ASSUME Picture, ReadRoutes PROVE Picture'
  OBVIOUS
<1> DEFINE devs == IF DefaultDevs(host) = {} THEN {NoInterface} ELSE DefaultDevs(host)
           read(dev) == [report EXCEPT !.routes = host.routes, !.wan = dev]
<1>1. /\ Reads("addresses", "nm") /\ report.todo = {} /\ Whole(report)
      /\ report.links \in [DOMAIN report.links -> Links]
  BY DEF ReadRoutes, Picture, Formed
<1>2. /\ step = "addresses" /\ step' = "nm" /\ cfg' = cfg /\ host' = host /\ answer' = answer
      /\ seen' = seen /\ host \in seen /\ host \in HostStates
  BY <1>1, Reading
<1>3. report.candidates = {} /\ report.docker = {} /\ NoRoutes
  BY <1>2, LaterSteps DEF Picture, Formed
<1>4. Grows /\ events' \in 0 .. MaxEvents
  BY <1>1, Reading DEF ReadRoutes, Picture
<1>5. /\ Whole(report') /\ report'.links = report.links
      /\ report'.candidates = report.candidates /\ report'.docker = report.docker
      /\ \/ <<"routes", NoInterface>> \in failed' /\ report' = report
         \/ report'.routes = host.routes /\ report'.wan \in devs
  <2>1. CASE Fails("routes", NoInterface, report)
    BY <1>1, <2>1, Reading
  <2>2. CASE \E dev \in devs : Succeeds(read(dev))
    <3>1. PICK dev \in devs : report' = read(dev)
      BY <1>1, <2>2, Reading
    <3> QED BY <1>1, <3>1 DEF Whole
  <2> QED BY <2>1, <2>2 DEF ReadRoutes
<1>6. Formed'
  BY <1>1, <1>2, <1>3, <1>5, LaterSteps DEF Formed
<1>7. RoutesSeen'
  <2>1. CASE <<"routes", NoInterface>> \in failed' /\ report' = report
    BY <1>3, <2>1 DEF RoutesSeen, Missed, NoRoutes
  <2>2. CASE report'.routes = host.routes /\ report'.wan \in devs
    BY <1>2, <2>2 DEF RoutesSeen, DefaultDevs
  <2> QED BY <1>5, <2>1, <2>2
<1>8. Listed' /\ AddressesSeen' /\ UpSeen' /\ AttributesSeen'
  <2>1. step \notin Attributes
    BY <1>2 DEF Attributes
  <2> QED BY <1>1, <1>2, <1>4, <1>5, <2>1, LaterSteps, LinksStay DEF Picture
<1> QED BY <1>2, <1>4, <1>6, <1>7, <1>8, LaterSteps DEF Picture

(* What a read after that of the routes leaves as it was. *)
Later(now, next) ==
  /\ step = now /\ step' = next /\ cfg' = cfg /\ host' = host /\ answer' = answer
  /\ host \in seen /\ seen' = seen /\ seen \subseteq HostStates
  /\ Grows /\ events' \in 0 .. MaxEvents
  /\ Whole(report) /\ Whole(report') /\ report'.links = report.links
  /\ report'.routes = report.routes /\ report'.wan = report.wan

LEMMA LaterKeeps ==
  ASSUME Picture, NEW now \in {"nm", "dev", "list", "docker", "inspect", "evaluate"},
         NEW next \in {"nm", "dev", "list", "docker", "inspect", "evaluate"}, Later(now, next)
  PROVE  /\ next \in Steps /\ cfg' \in Configs /\ events' \in 0 .. MaxEvents
         /\ host' \in seen' /\ seen' \subseteq HostStates /\ answer' = NoAnswer
         /\ Listed' /\ AddressesSeen' /\ UpSeen' /\ AttributesSeen' /\ RoutesSeen'
         /\ next \notin BeforeRoutes /\ next # "answered"
         /\ report.links \in [DOMAIN report.links -> Links]
<1>1. step \notin LinkSteps /\ step' \notin LinkSteps /\ step \notin Attributes
      /\ step # "interfaces" /\ step \notin BeforeRoutes /\ step # "answered"
  BY LaterSteps DEF Later
<1>2. Listed' /\ AddressesSeen' /\ UpSeen' /\ AttributesSeen'
  BY <1>1, LinksStay DEF Later, Picture
<1>3. RoutesSeen'
  BY <1>1, PartsStay DEF Later, Picture
<1> QED BY <1>1, <1>2, <1>3, LaterSteps DEF Picture, Later, Formed

LEMMA PictureReadManaged == Picture /\ ReadManaged => Picture'
<1> SUFFICES ASSUME Picture, ReadManaged PROVE Picture'
  OBVIOUS
<1>1. Reads("nm", "dev") /\ Whole(report)
  BY DEF ReadManaged, Picture, Formed
<1>2. report' = [report EXCEPT !.nm = host.nm] \/ report' = report
  BY <1>1, Reading DEF ReadManaged
<1>3. /\ Whole(report') /\ report'.links = report.links /\ report'.routes = report.routes
      /\ report'.wan = report.wan /\ report'.candidates = report.candidates
      /\ report'.docker = report.docker
  BY <1>1, <1>2 DEF Whole
<1>4. Later("nm", "dev")
  BY <1>1, <1>3, Reading DEF Later, ReadManaged, Picture
<1>5. step = "nm" /\ step' = "dev"
  BY <1>4 DEF Later
<1>6. Formed'
  BY <1>3, <1>4, <1>5, LaterKeeps, LaterSteps DEF Picture, Formed
<1> QED BY <1>4, <1>5, <1>6, LaterKeeps, LaterSteps DEF Picture

(* Once the radios are known, so is what is offered. *)
LEMMA AnnotatedParts ==
  ASSUME Picture, NEW radios, report' = Annotated(radios),
         step \in BeforeRadios \cup {"list"}
  PROVE  /\ Whole(report') /\ report'.links = report.links /\ report'.routes = report.routes
         /\ report'.wan = report.wan /\ report'.radios = radios /\ report'.docker = {}
         /\ report'.candidates = Offered'
<1>1. Whole(report) /\ report.docker = {}
  BY LaterSteps DEF Picture, Formed
<1>2. /\ Whole(report') /\ report'.links = report.links /\ report'.routes = report.routes
      /\ report'.wan = report.wan /\ report'.nm = report.nm /\ report'.radios = radios
      /\ report'.docker = {}
      /\ report'.candidates = {i \in DOMAIN report.links : lanCandidate(i, radios)}
  BY <1>1 DEF Annotated, Whole
<1> QED BY <1>2, OfferedStays DEF Offered

LEMMA PictureNoRadios ==
  \A now \in {"dev", "list"} :
    Picture /\ Reads(now, "docker") /\ Fails("radios", NoInterface, Annotated(Nothing)) => Picture'
<1> SUFFICES ASSUME NEW now \in {"dev", "list"}, Picture, Reads(now, "docker"),
                    Fails("radios", NoInterface, Annotated(Nothing))
             PROVE  Picture'
  OBVIOUS
<1>1. step = now /\ step' = "docker" /\ step \in BeforeRadios \cup {"list"}
      /\ report' = Annotated(Nothing) /\ <<"radios", NoInterface>> \in failed'
  BY Reading, LaterSteps
<1>2. Later(now, "docker") /\ report'.radios = Nothing /\ report'.candidates = Offered'
      /\ report'.docker = {}
  BY <1>1, AnnotatedParts, Reading DEF Later, Picture, Formed
<1>3. Formed'
  BY <1>1, <1>2, LaterKeeps, LaterSteps DEF Formed, Later
<1>4. ModesSeen' /\ APsSeen'
  BY <1>1, <1>2 DEF ModesSeen, APsSeen, Missed, Nothing
<1> QED BY <1>1, <1>2, <1>3, <1>4, LaterKeeps, LaterSteps DEF Picture

LEMMA PictureReadDev == Picture /\ ReadDev => Picture'
<1> SUFFICES ASSUME Picture, ReadDev PROVE Picture'
  OBVIOUS
<1> DEFINE radios == [i \in DOMAIN host.radios |-> [ap |-> FALSE, mode |-> host.radios[i].mode]]
<1>1. CASE Reads("dev", "list") /\ Succeeds([report EXCEPT !.radios = radios])
  <2>1. Whole(report) /\ report' = [report EXCEPT !.radios = radios]
    BY <1>1, Reading DEF Picture, Formed
  <2>2. /\ Whole(report') /\ report'.links = report.links /\ report'.routes = report.routes
        /\ report'.wan = report.wan /\ report'.candidates = report.candidates
        /\ report'.docker = report.docker /\ report'.radios = radios
    BY <2>1 DEF Whole
  <2>3. Later("dev", "list")
    BY <1>1, <2>1, <2>2, Reading DEF Later, Picture
  <2>4. step = "dev" /\ step' = "list"
    BY <2>3 DEF Later
  <2>5. Formed'
    BY <2>2, <2>3, <2>4, LaterKeeps, LaterSteps DEF Picture, Formed
  <2>6. DevSeen'
    BY <2>2, <2>3 DEF DevSeen, Later
  <2> QED BY <2>3, <2>4, <2>5, <2>6, LaterKeeps, LaterSteps DEF Picture
<1>2. CASE Reads("dev", "docker") /\ Fails("radios", NoInterface, Annotated(Nothing))
  BY <1>2, PictureNoRadios
<1> QED BY <1>1, <1>2 DEF ReadDev

LEMMA PictureReadList == Picture /\ ReadList => Picture'
<1> SUFFICES ASSUME Picture, ReadList PROVE Picture'
  OBVIOUS
<1> DEFINE radios == [i \in DOMAIN report.radios |->
                        [ap |-> i \in DOMAIN host.radios /\ host.radios[i].ap,
                         mode |-> report.radios[i].mode]]
<1>1. Reads("list", "docker")
  BY DEF ReadList
<1>2. CASE Succeeds(Annotated(radios))
  <2>1. step = "list" /\ step' = "docker" /\ report' = Annotated(radios)
    BY <1>1, <1>2, Reading
  <2>2. Later("list", "docker") /\ report'.radios = radios /\ report'.candidates = Offered'
        /\ report'.docker = {}
    BY <1>1, <1>2, <2>1, AnnotatedParts, Reading DEF Later, Picture, Formed
  <2>3. Formed'
    BY <2>1, <2>2, LaterKeeps, LaterSteps DEF Formed, Later
  <2>4. DevSeen'
    <3>1. PICK h \in seen : /\ DOMAIN report.radios = DOMAIN h.radios
                            /\ \A i \in DOMAIN report.radios : report.radios[i].mode = h.radios[i].mode
      BY <2>1 DEF Picture, DevSeen
    <3>2. DOMAIN report'.radios = DOMAIN h.radios
          /\ \A i \in DOMAIN report'.radios : report'.radios[i].mode = h.radios[i].mode
      BY <2>2, <3>1
    <3> QED BY <2>2, <3>2 DEF DevSeen, Later
  <2>5. APsSeen'
    <3>1. \A i \in DOMAIN report'.radios :
            report'.radios[i].ap = (i \in DOMAIN host.radios /\ host.radios[i].ap)
      BY <2>2
    <3>2. host \in seen'
      BY <2>2 DEF Later
    <3> QED BY <3>1, <3>2 DEF APsSeen
  <2> QED BY <2>1, <2>2, <2>3, <2>4, <2>5, LaterKeeps, LaterSteps DEF Picture, ModesSeen
<1>3. CASE Fails("radios", NoInterface, Annotated(Nothing))
  BY <1>1, <1>3, PictureNoRadios
<1> QED BY <1>2, <1>3 DEF ReadList

(* After the radios nothing is read any more that they are judged with. *)
LEMMA LastKeeps ==
  ASSUME Picture, NEW now \in {"docker", "inspect"}, NEW next \in {"inspect", "evaluate"},
         Later(now, next), report'.nm = report.nm, report'.radios = report.radios,
         report'.candidates = report.candidates
  PROVE  Formed' /\ ModesSeen' /\ APsSeen' /\ report'.candidates = Offered'
<1>1. step = now /\ step' = next
  BY DEF Later
<1>2. Formed'
  BY <1>1, LaterKeeps, LaterSteps DEF Later, Formed
<1>3. ModesSeen' /\ APsSeen'
  BY <1>1, LaterSteps, PartsStay DEF Later, Picture
<1>4. report'.candidates = Offered'
  BY <1>1, LaterSteps, OfferedStays DEF Later, Picture
<1> QED BY <1>2, <1>3, <1>4

LEMMA PictureReadDocker == Picture /\ ReadDocker => Picture'
<1> SUFFICES ASSUME Picture, ReadDocker PROVE Picture'
  OBVIOUS
<1>1. Reads("docker", "inspect") /\ Whole(report) /\ step = "docker" /\ step' = "inspect"
  BY Reading DEF ReadDocker, Picture, Formed
<1>2. /\ Whole(report') /\ report'.links = report.links /\ report'.routes = report.routes
      /\ report'.wan = report.wan /\ report'.candidates = report.candidates
      /\ report'.docker = report.docker /\ report'.nm = report.nm /\ report'.radios = report.radios
      /\ <<"docker", NoInterface>> \in failed' \/ report'.todo = host.docker
  <2>1. CASE Succeeds([report EXCEPT !.todo = host.docker])
    BY <1>1, <2>1, Reading DEF Whole
  <2>2. CASE Fails("docker", NoInterface, report)
    BY <1>1, <2>2, Reading
  <2> QED BY <2>1, <2>2 DEF ReadDocker
<1>3. Later("docker", "inspect")
  BY <1>1, <1>2, Reading DEF Later, ReadDocker, Picture
<1>4. report.docker = {}
  BY <1>1, LaterSteps DEF Picture, Formed
<1>5. DockerSeen'
  BY <1>1, <1>2, <1>3, <1>4 DEF DockerSeen, Missed, Later
<1> QED BY <1>1, <1>2, <1>3, <1>5, LaterKeeps, LastKeeps, LaterSteps DEF Picture

LEMMA PictureInspectNetwork == \A p : Picture /\ InspectNetwork(p) => Picture'
<1> SUFFICES ASSUME NEW p, Picture, InspectNetwork(p) PROVE Picture'
  OBVIOUS
<1> DEFINE rest == [report EXCEPT !.todo = @ \ {p}]
<1>1. /\ Reads("inspect", "inspect") /\ Whole(report) /\ step = "inspect" /\ step' = "inspect"
      /\ p \in report.todo
  BY Reading DEF InspectNetwork, Picture, Formed
<1>2. CASE Succeeds([rest EXCEPT !.docker = @ \cup {p}])
  <2>1. report' = [rest EXCEPT !.docker = @ \cup {p}] /\ Grows /\ events' = events
    BY <1>1, <1>2, Reading
  <2>2. /\ Whole(report') /\ report'.links = report.links /\ report'.routes = report.routes
        /\ report'.wan = report.wan /\ report'.candidates = report.candidates
        /\ report'.nm = report.nm /\ report'.radios = report.radios
        /\ report'.docker = report.docker \cup {p} /\ report'.todo = report.todo \ {p}
    BY <1>1, <2>1 DEF Whole
  <2>3. Later("inspect", "inspect")
    BY <1>1, <2>1, <2>2, Reading DEF Later, Picture
  <2>4. report'.docker \cup report'.todo = report.docker \cup report.todo
    BY <1>1, <2>2
  <2>5. DockerSeen'
    BY <1>1, <2>1, <2>4, LaterSteps DEF Picture, DockerSeen, Missed, Grows
  <2> QED BY <1>1, <2>2, <2>3, <2>5, LaterKeeps, LastKeeps, LaterSteps DEF Picture
<1>3. CASE report' = rest /\ <<"docker", NoInterface>> \in failed' /\ Grows
           /\ events' \in 0 .. MaxEvents
  <2>1. /\ Whole(report') /\ report'.links = report.links /\ report'.routes = report.routes
        /\ report'.wan = report.wan /\ report'.candidates = report.candidates
        /\ report'.nm = report.nm /\ report'.radios = report.radios
    BY <1>1, <1>3 DEF Whole
  <2>2. Later("inspect", "inspect")
    BY <1>1, <1>3, <2>1, Reading DEF Later, Picture
  <2>3. DockerSeen'
    BY <1>3 DEF DockerSeen, Missed
  <2> QED BY <1>1, <2>1, <2>2, <2>3, LaterKeeps, LastKeeps, LaterSteps DEF Picture
<1>4. CASE report' = rest /\ failed' = failed \cup {<<"docker", NoInterface>>} /\ UNCHANGED events
  BY <1>1, <1>3, <1>4, Reading DEF Grows, Picture
<1>5. CASE Fails("docker", NoInterface, rest)
  BY <1>1, <1>3, <1>5, Reading
<1> QED BY <1>2, <1>4, <1>5 DEF InspectNetwork

LEMMA PictureReadNftables == Picture /\ ReadNftables => Picture'
<1> SUFFICES ASSUME Picture, ReadNftables PROVE Picture'
  OBVIOUS
<1>1. /\ Reads("inspect", "evaluate") /\ Whole(report) /\ report.todo = {}
      /\ Succeeds([report EXCEPT !.nft = host.nft]) /\ step = "inspect" /\ step' = "evaluate"
  BY Reading DEF ReadNftables, Picture, Formed
<1>2. report' = [report EXCEPT !.nft = host.nft] /\ Grows /\ events' = events
  BY <1>1, Reading
<1>3. /\ Whole(report') /\ report'.links = report.links /\ report'.routes = report.routes
      /\ report'.wan = report.wan /\ report'.candidates = report.candidates
      /\ report'.docker = report.docker /\ report'.nm = report.nm
      /\ report'.radios = report.radios /\ report'.nft = host.nft
  BY <1>1, <1>2 DEF Whole
<1>4. Later("inspect", "evaluate")
  BY <1>1, <1>2, <1>3, Reading DEF Later, Picture
<1>5. DockerSeen'
  BY <1>1, <1>2, <1>3, LaterSteps DEF Picture, DockerSeen, Missed, Grows
<1>6. NftSeen'
  BY <1>3, <1>4 DEF NftSeen, Later
<1> QED BY <1>1, <1>3, <1>4, <1>5, <1>6, LaterKeeps, LastKeeps, LaterSteps DEF Picture

(* What is judged depends on the configuration and the report. *)
LEMMA JudgedStays ==
  ASSUME cfg' = cfg, report' = report
  PROVE  Judged' = Judged
<1>1. \A i : isWiFiAPLAN(i)' = isWiFiAPLAN(i) /\ HasDefaultRoute(i)' = HasDefaultRoute(i)
  BY DEF isWiFiAPLAN, HasDefaultRoute
<1>2. checkLANPhysicalState(cfg.lan)' = checkLANPhysicalState(cfg.lan)
  BY <1>1 DEF checkLANPhysicalState
<1>3. Failing' = Failing
  BY <1>2 DEF Failing, checkInterface, SelectedWAN, checkSubnetOverlap, checkSSHPreservation,
     ParsedRoutes, Destinations
<1>4. Warned' = Warned
  BY <1>1 DEF Warned
<1> QED BY <1>3, <1>4 DEF Judged

LEMMA PictureEvaluate == Picture /\ Evaluate => Picture'
<1> SUFFICES ASSUME Picture, Evaluate PROVE Picture'
  OBVIOUS
<1>1. /\ step = "evaluate" /\ step' = "answered" /\ answer' = Judged
      /\ UNCHANGED <<host, cfg, report, failed, events, seen>>
  BY DEF Evaluate, Judged
<1>2. Judged' = Judged
  BY <1>1, JudgedStays
<1>3. Grows /\ Formed' /\ Offered' = Offered
  BY <1>1, OfferedStays, LaterSteps DEF Grows, Picture, Formed, NoRoutes, Whole
<1>4. Listed' /\ AddressesSeen' /\ UpSeen' /\ AttributesSeen'
  BY <1>1, <1>3, LaterSteps, LinksStay DEF Picture
<1>5. RoutesSeen' /\ ModesSeen' /\ APsSeen' /\ DockerSeen' /\ NftSeen'
  BY <1>1, <1>3, LaterSteps, PartsStay DEF Picture
<1> QED BY <1>1, <1>2, <1>3, <1>4, <1>5, LaterSteps DEF Picture

LEMMA PictureAsk == Picture /\ Ask => Picture'
<1> SUFFICES ASSUME Picture, Ask PROVE Picture'
  OBVIOUS
<1>1. Formed'
  BY DEF Ask, Formed, Whole, NoRoutes, Empty, Nothing, BeforeRoutes, Attributes
<1>2. Listed' /\ AddressesSeen' /\ AttributesSeen' /\ UpSeen'
  BY DEF Ask, Listed, AddressesSeen, AttributesSeen, UpSeen, Empty, Nothing
<1>3. "interfaces" \in BeforeRoutes /\ "interfaces" \in BeforeRadios /\ "interfaces" \in BeforeDocker
  BY DEF BeforeRoutes, BeforeRadios, BeforeDocker
<1> QED BY <1>1, <1>2, <1>3, DiscoveryBounds DEF Ask, Picture, Steps

(* The picture holds in every state. *)
THEOREM ReadinessPicture == ReadinessSpec => []Picture
<1>1. Picture /\ [ReadinessNext]_readinessVars => Picture'
  <2> SUFFICES ASSUME Picture, [ReadinessNext]_readinessVars PROVE Picture'
    OBVIOUS
  <2>1. CASE UNCHANGED readinessVars
    <3>1. UNCHANGED <<host, cfg, step, report, answer, failed, events, seen>>
      BY <2>1 DEF readinessVars
    <3>2. Judged' = Judged /\ Offered' = Offered /\ Grows
      BY <3>1, JudgedStays, OfferedStays DEF Grows
    <3>3. Formed' /\ Listed'
      BY <3>1 DEF Picture, Formed, NoRoutes, Whole, Listed
    <3> QED BY <3>1, <3>2, <3>3, LinksStay, PartsStay DEF Picture
  <2>2. CASE ReadinessNext
    BY <2>2, PictureChange, PictureListInterfaces, PictureReadAddresses, PictureReadAttributes,
       PictureReadRoutes, PictureReadManaged, PictureReadDev, PictureReadList,
       PictureReadDocker, PictureInspectNetwork, PictureReadNftables, PictureEvaluate,
       PictureAsk DEF ReadinessNext
  <2> QED BY <2>1, <2>2
<1> QED BY PictureInit, <1>1, PTL DEF ReadinessSpec

-----------------------------------------------------------------------------

(* The interfaces and radios of the report are the host's. *)
LEMMA ReportParts ==
  ASSUME Picture
  PROVE  /\ DOMAIN report.links \subseteq Interfaces
         /\ report.links \in [DOMAIN report.links -> Links]
         /\ step \notin BeforeRadios \cup {"list"} => DOMAIN report.radios \subseteq RadioNames
<1>1. DOMAIN report.links \subseteq Interfaces
  <2>1. CASE step = "interfaces"
    BY <2>1 DEF Picture, Formed
  <2>2. CASE step # "interfaces"
    BY <2>2, HostParts DEF Picture, Listed
  <2> QED BY <2>1, <2>2
<1>2. step \notin BeforeRadios \cup {"list"} => DOMAIN report.radios \subseteq RadioNames
  BY HostParts DEF Picture, ModesSeen, DevSeen, Nothing
<1> QED BY <1>1, <1>2 DEF Picture, Formed

(* The type invariant, for every set of hosts, configurations and bounds. *)
THEOREM ReadinessTypes == ReadinessSpec => []ReadinessTypeOK
<1>1. Picture => ReadinessTypeOK
  <2> SUFFICES ASSUME Picture PROVE ReadinessTypeOK
    OBVIOUS
  <2>1. report.candidates \subseteq DOMAIN report.links
    BY DEF Picture, Formed, Offered
  <2>2. answer.activation => answer.ready
    BY DEF Picture, Judged, NoAnswer
  <2> QED BY <2>1, <2>2, ReportParts DEF Picture, ReadinessTypeOK
<1> QED BY <1>1, ReadinessPicture, PTL

(* Discovery offers as LAN what readiness finds nothing wrong with, except *)
(* that there may be no carrier, although the two tell radios differently  *)
(* (discovery.go:386-423, readiness.go:93-202).                            *)
THEOREM CandidatesAreAlwaysUsable == ReadinessSpec => []CandidatesAreUsable
<1>1. Picture => CandidatesAreUsable
  <2> SUFFICES ASSUME Picture, NEW i \in report.candidates
               PROVE  checkLANPhysicalState(i)
                        \subseteq Only("lan_link_up", report.links[i].carrier = "0")
    BY DEF CandidatesAreUsable
  <2>1. step \notin BeforeRadios \cup {"list"} /\ report.candidates = Offered
    BY DEF Picture, Formed
  <2>2. i \in DOMAIN report.links /\ lanCandidate(i, report.radios)
    BY <2>1 DEF Offered
  <2>3. report.links[i] \in Links /\ DOMAIN report.radios \subseteq RadioNames
    BY <2>1, <2>2, ReportParts
  <2>4. isWiFiAPLAN(i) <=> isWiFiInterface(i, report.radios)
    BY <2>2, <2>3 DEF isWiFiAPLAN, isWiFiInterface, lanCandidate
  <2>5. CASE isWiFiAPLAN(i)
    BY <2>2, <2>4, <2>5 DEF lanCandidate, checkLANPhysicalState, Only
  <2>6. CASE ~isWiFiAPLAN(i)
    <3> DEFINE l == report.links[i]
    <3>1. /\ ~l.master /\ ~HasDefaultRoute(i) /\ l.operstate = "up"
          /\ l.speed = 0 \/ l.speed >= 1000
          /\ l.duplex # "half"
      BY <2>2, <2>4, <2>6 DEF lanCandidate
    <3>2. l.speed \in Nat
      BY <2>3 DEF Links
    <3>3. ~(l.speed < 1000 /\ l.speed \notin {0, 100} /\ ~cfg.slow)
      BY <3>1, <3>2
    <3> QED BY <2>2, <2>6, <3>1, <3>3 DEF checkLANPhysicalState, Only
  <2> QED BY <2>5, <2>6
<1> QED BY <1>1, ReadinessPicture, PTL

-----------------------------------------------------------------------------

(* Of two numbers, the one with the larger multiple is larger. *)
LEMMA Cancel ==
  ASSUME NEW s \in Nat \ {0}, NEW u \in Int, NEW v \in Int, s * u < s * v
  PROVE  u < v
<1> SUFFICES ASSUME v <= u PROVE FALSE
  OBVIOUS
<1>1. s * (u - v) >= 0
  OBVIOUS
<1>2. s * (u - v) = s * u - s * v
  OBVIOUS
<1> QED BY <1>1, <1>2

(* Blocks that share an address are nested: the smaller one begins inside  *)
(* the larger one.                                                         *)
LEMMA BlocksNest ==
  ASSUME NEW p \in IPPrefixes, NEW q \in IPPrefixes, p.size <= q.size, Shared(p, q)
  PROVE  p.addr \in Block(q)
<1> DEFINE s == p.size
           t == q.size
           P == p.addr \div s
           Q == q.addr \div t
<1>1. s \in Nat \ {0} /\ t \in Nat \ {0} /\ p.addr \in Nat /\ q.addr \in Nat
  BY SizesAssumption DEF IPPrefixes
<1>2. P \in Nat /\ Q \in Nat /\ s * P <= p.addr /\ p.addr < s * (P + 1)
  BY <1>1
<1>3. PICK k \in 1 .. t : t = s * k
  BY SizesAssumption DEF IPPrefixes
<1>4. PICK x \in Int : s * P <= x /\ x < s * (P + 1) /\ t * Q <= x /\ x < t * (Q + 1)
  BY <1>1, <1>2 DEF Shared, Block
<1> HIDE DEF s, t, P, Q
<1>5. t * Q = s * (k * Q) /\ t * (Q + 1) = s * (k * (Q + 1))
  BY <1>1, <1>2, <1>3
<1>6. k * Q \in Int /\ k * (Q + 1) \in Int
  BY <1>2, <1>3
<1>7. k * Q < P + 1 /\ P < k * (Q + 1)
  BY <1>1, <1>2, <1>4, <1>5, <1>6, Cancel
<1>8. s * (k * Q) <= s * P /\ s * (P + 1) <= s * (k * (Q + 1))
  BY <1>1, <1>2, <1>6, <1>7
<1>9. t * Q <= p.addr /\ p.addr < t * (Q + 1)
  BY <1>1, <1>2, <1>5, <1>6, <1>8
<1> QED BY <1>1, <1>2, <1>9 DEF Block, t, Q

(* Looking for one address of each in the other finds every overlap. *)
LEMMA OverlapFound ==
  ASSUME NEW p \in IPPrefixes, NEW q \in IPPrefixes
  PROVE  Shared(p, q) <=> prefixesOverlap(p, q)
<1>1. p.size \in Nat \ {0} /\ q.size \in Nat \ {0} /\ p.addr \in Nat /\ q.addr \in Nat
  BY SizesAssumption DEF IPPrefixes
<1>2. p.addr \in Block(p) /\ q.addr \in Block(q)
  BY <1>1 DEF Block
<1>3. prefixesOverlap(p, q) => Shared(p, q)
  BY <1>2 DEF prefixesOverlap, Shared
<1>4. Shared(p, q) => Shared(q, p)
  BY DEF Shared
<1>5. Shared(p, q) => prefixesOverlap(p, q)
  BY <1>1, <1>4, BlocksNest DEF prefixesOverlap
<1> QED BY <1>3, <1>5

-----------------------------------------------------------------------------

-----------------------------------------------------------------------------

(* What has been checked when no check fails. *)
Passed ==
  /\ SelectedWAN \in DOMAIN report.links /\ cfg.lan \in DOMAIN report.links
  /\ SelectedWAN = cfg.lan => SelectedWAN = NoInterface
  /\ ~report.links[cfg.lan].master /\ (cfg.session => ~report.links[cfg.lan].ssh)
  /\ isWiFiAPLAN(cfg.lan) => cfg.lan \in DOMAIN report.radios /\ report.radios[cfg.lan].ap
  /\ ~isWiFiAPLAN(cfg.lan) =>
       /\ ~HasDefaultRoute(cfg.lan)
       /\ report.links[cfg.lan].operstate = "up" /\ report.links[cfg.lan].carrier # "0"
       /\ report.links[cfg.lan].speed >= 1000 \/ report.links[cfg.lan].speed \in {0, 100} \/ cfg.slow
       /\ report.links[cfg.lan].duplex # "half"
  /\ cfg.subnet # NoPrefix
  /\ \A d \in ParsedRoutes : ~prefixesOverlap(cfg.subnet, d)
  /\ \A p \in report.docker : ~prefixesOverlap(cfg.subnet, p)
  /\ report.nft

(* No check fails exactly when all have passed. *)
LEMMA NothingFails ==
  ASSUME cfg.lan \in DOMAIN report.links => report.links[cfg.lan].speed \in Nat
  PROVE  Failing = {} <=> Passed
<1>1. ASSUME Failing = {} PROVE Passed
  <2>1. /\ checkInterface("wan_interface", SelectedWAN) = {}
        /\ checkInterface("lan_interface", cfg.lan) = {}
        /\ checkLANPhysicalState(cfg.lan) = {}
        /\ Only("wan_lan_separation", SelectedWAN = cfg.lan /\ SelectedWAN # NoInterface) = {}
        /\ checkSubnetOverlap = {} /\ checkSSHPreservation = {}
        /\ Only("nftables_available", ~report.nft) = {}
    BY <1>1 DEF Failing
  <2>2. /\ SelectedWAN \in DOMAIN report.links /\ cfg.lan \in DOMAIN report.links
        /\ SelectedWAN = cfg.lan => SelectedWAN = NoInterface
        /\ report.nft
    BY <2>1 DEF checkInterface, Only
  <2>3. cfg.session => ~report.links[cfg.lan].ssh
    BY <2>1, <2>2 DEF checkSSHPreservation, Only
  <2>4. /\ cfg.subnet # NoPrefix
        /\ \A d \in ParsedRoutes : ~prefixesOverlap(cfg.subnet, d)
        /\ \A p \in report.docker : ~prefixesOverlap(cfg.subnet, p)
    BY <2>1 DEF checkSubnetOverlap, Only
  <2>5. CASE isWiFiAPLAN(cfg.lan)
    BY <2>1, <2>2, <2>3, <2>4, <2>5 DEF checkLANPhysicalState, Only, Passed
  <2>6. CASE ~isWiFiAPLAN(cfg.lan)
    BY <1>1, <2>1, <2>2, <2>3, <2>4, <2>6 DEF checkLANPhysicalState, Only, Passed
  <2> QED BY <2>5, <2>6
<1>2. ASSUME Passed PROVE Failing = {}
  <2>1. /\ checkInterface("wan_interface", SelectedWAN) = {}
        /\ checkInterface("lan_interface", cfg.lan) = {}
        /\ Only("wan_lan_separation", SelectedWAN = cfg.lan /\ SelectedWAN # NoInterface) = {}
        /\ checkSubnetOverlap = {} /\ checkSSHPreservation = {}
        /\ Only("nftables_available", ~report.nft) = {}
    BY <1>2 DEF Passed, checkInterface, Only, checkSubnetOverlap, checkSSHPreservation
  <2>2. checkLANPhysicalState(cfg.lan) = {}
    <3>1. CASE isWiFiAPLAN(cfg.lan)
      BY <1>2, <3>1 DEF Passed, checkLANPhysicalState, Only
    <3>2. CASE ~isWiFiAPLAN(cfg.lan)
      BY <1>2, <3>2 DEF Passed, checkLANPhysicalState, Only
    <3> QED BY <3>1, <3>2
  <2> QED BY <2>1, <2>2 DEF Failing
<1> QED BY <1>1, <1>2

(* The configuration and the states it is judged by. *)
LEMMA SubnetIsPrefix ==
  ASSUME cfg \in Configs
  PROVE  /\ cfg.subnet \in IPPrefixes \cup {NoPrefix}
         /\ cfg.wan \in Interfaces \cup {NoInterface} /\ cfg.lan \in Interfaces \cup {NoInterface}
BY ConfigsAssumption

(* The report's routes are those of the host they were read from. *)
LEMMA DefaultRoutesOf ==
  ASSUME NEW h, report.routes = h.routes
  PROVE  /\ \A i : HasDefaultRoute(i) <=> i \in DefaultDevs(h)
         /\ ParsedRoutes = {d \in Destinations(h.routes) : d.size > 1}
BY DEF HasDefaultRoute, DefaultDevs, ParsedRoutes

(* An answer comes at the end, when all parts have been read. *)
LEMMA AllSeen ==
  ASSUME Picture, step = "answered"
  PROVE  /\ RoutesSeen /\ ModesSeen /\ APsSeen /\ DockerSeen /\ NftSeen /\ answer = Judged
         /\ \A i \in DOMAIN report.links, a \in Attributes :
              \/ <<a, i>> \in failed
              \/ \E h \in seen : i \in DOMAIN h.links => report.links[i][a] = h.links[i][a]
<1>1. \A a \in Attributes : step \notin Awaited(a)
  BY DEF Awaited, Attributes
<1> QED BY <1>1, LaterSteps DEF Picture, AttributesSeen

LEMMA AllListed ==
  ASSUME Picture, step = "answered"
  PROVE  \E h \in seen : /\ DOMAIN report.links \subseteq DOMAIN h.links
                         /\ failed = {} => DOMAIN report.links = DOMAIN h.links
<1>1. step \notin LinkSteps
  BY LaterSteps
<1> QED BY <1>1 DEF Picture, Listed

(* Whatever passes the checks was met by the host at some time, but for    *)
(* what stays hidden.                                                      *)
LEMMA PassedIsMet ==
  ASSUME Picture, step = "answered", Passed
  PROVE  /\ Always \subseteq Hidden \cup ActivationOnly
         /\ ~Warned => Always \subseteq Hidden
<1> DEFINE lan == cfg.lan
           l == report.links[lan]
           Fine(r) == \E h \in seen : Met(r, h)
<1>1. \A r \in Always : r \in Requirements /\ ~Fine(r)
  BY DEF Always, Broken
<1>2. seen \subseteq HostStates /\ host \in seen
  BY DEF Picture
<1>3. lan \in DOMAIN report.links /\ l \in Links
  BY ReportParts DEF Passed
<1>4. lan \in Interfaces /\ lan # NoInterface /\ SelectedWAN \in Interfaces
      /\ SelectedWAN # NoInterface /\ SelectedWAN # lan
  BY ReportParts, InterfacesAssumption DEF Passed
<1>5. PICK h1 \in seen : /\ DOMAIN report.links \subseteq DOMAIN h1.links
                         /\ failed = {} => DOMAIN report.links = DOMAIN h1.links
  BY AllListed
<1>6. PICK h2 \in seen :
        \/ Missed("routes") /\ NoRoutes
        \/ /\ report.routes = h2.routes
           /\ IF DefaultDevs(h2) = {} THEN report.wan = NoInterface
              ELSE report.wan \in DefaultDevs(h2)
  BY <1>2, AllSeen DEF RoutesSeen
<1>7. Fine("lan")
  BY <1>3, <1>5 DEF Met
<1>8. /\ cfg.wan # NoInterface => \A h : WANs(h) = {SelectedWAN}
      /\ cfg.wan = NoInterface =>
           SelectedWAN \in WANs(h2) /\ SelectedWAN \in DOMAIN h2.links
  BY <1>2, <1>4, <1>6, HostParts DEF SelectedWAN, WANs, NoRoutes
<1>9. Fine("wan")
  <2>1. CASE cfg.wan # NoInterface
    BY <1>5, <1>8, <2>1 DEF Met, Passed
  <2>2. CASE cfg.wan = NoInterface
    BY <1>8, <2>2 DEF Met
  <2> QED BY <2>1, <2>2
<1>10. Fine("separate")
  BY <1>4, <1>8 DEF Met
<1>11. Fine("subnet") /\ cfg.subnet \in IPPrefixes
  BY <1>2, SubnetIsPrefix DEF Met, Passed, Picture
<1>12. Fine("nft")
  <2>1. PICK h \in seen : report.nft = h.nft
    BY AllSeen DEF NftSeen
  <2> QED BY <2>1 DEF Met, Passed
<1>13. Fine("operstate")
  <2>1. CASE isWiFiAPLAN(lan)
    BY <1>2, <2>1, ReportParts, LaterSteps DEF Met, Wireless, isWiFiAPLAN
  <2>2. CASE ~isWiFiAPLAN(lan)
    <3>1. l.operstate = "up"
      BY <2>2 DEF Passed
    <3> QED BY <1>3, <3>1 DEF Picture, UpSeen, Met
  <2> QED BY <2>1, <2>2
<1>14. \A a \in Attributes : <<a, lan>> \in failed
         \/ \E h \in seen : lan \in DOMAIN h.links => l[a] = h.links[lan][a]
  BY <1>3, AllSeen
<1>15. ASSUME NEW a \in {"carrier", "speed", "duplex"}, <<a, lan>> \notin failed PROVE Fine(a)
  <2>1. PICK h \in seen : lan \in DOMAIN h.links => l[a] = h.links[lan][a]
    BY <1>14, <1>15 DEF Attributes
  <2>2. CASE isWiFiAPLAN(lan)
    BY <1>2, <1>15, <2>2, ReportParts, LaterSteps DEF Met, Wireless, isWiFiAPLAN
  <2>3. CASE ~isWiFiAPLAN(lan)
    <3>1. /\ l.carrier # "0" /\ l.duplex # "half"
          /\ l.speed >= 1000 \/ l.speed \in {0, 100} \/ cfg.slow
      BY <2>3 DEF Passed
    <3>2. CASE a = "carrier"
      BY <2>1, <3>1, <3>2 DEF Met
    <3>3. CASE a = "speed"
      BY <2>1, <3>1, <3>3 DEF Met
    <3>4. CASE a = "duplex"
      BY <2>1, <3>1, <3>4 DEF Met
    <3> QED BY <1>15, <3>2, <3>3, <3>4
  <2> QED BY <2>2, <2>3
<1>16. <<"master", lan>> \notin failed => Fine("master")
  <2> SUFFICES ASSUME <<"master", lan>> \notin failed PROVE Fine("master")
    OBVIOUS
  <2>1. PICK h \in seen : lan \in DOMAIN h.links => l.master = h.links[lan].master
    BY <1>14 DEF Attributes
  <2> QED BY <2>1 DEF Met, Passed
<1>17. cfg.session => Fine("ssh")
  <2>1. PICK h \in seen : lan \in DOMAIN h.links => l.ssh = h.links[lan].ssh
    BY <1>3 DEF Picture, AddressesSeen
  <2> QED BY <2>1 DEF Met, Passed
<1>18. ~Wireless => Fine("ap")
  BY <1>2 DEF Met
<1>19. isWiFiAPLAN(lan) => Fine("ap")
  <2> SUFFICES ASSUME isWiFiAPLAN(lan) PROVE Fine("ap")
    OBVIOUS
  <2>1. lan \in DOMAIN report.radios /\ report.radios[lan].ap
    BY DEF Passed
  <2>2. PICK h \in seen : lan \in DOMAIN h.radios /\ h.radios[lan].ap
    BY <2>1, AllSeen DEF APsSeen, Nothing
  <2> QED BY <2>2 DEF Met
<1>20. Wireless /\ ~isWiFiAPLAN(lan) => "ap" \in Hidden /\ "not_a_client" \in Hidden
  <2> SUFFICES ASSUME Wireless, ~isWiFiAPLAN(lan) PROVE Unnoticed
    BY DEF Hidden
  <2>1. lan \notin WirelessNames /\ lan \notin DOMAIN report.radios
    BY DEF isWiFiAPLAN
  <2> QED BY <2>1, AllSeen DEF ModesSeen, DevSeen, Missed, Unnoticed
<1>21. ~Wireless => Fine("not_a_client")
  BY <1>2, HostParts DEF Met, Wireless
<1>22. isWiFiAPLAN(lan) /\ ~Warned => Fine("not_a_client")
  <2> SUFFICES ASSUME isWiFiAPLAN(lan), ~Warned PROVE Fine("not_a_client")
    OBVIOUS
  <2>1. lan \in DOMAIN report.radios /\ report.radios[lan].mode # "managed"
    BY <1>3 DEF Passed, Warned
  <2>2. PICK h \in seen : lan \in DOMAIN h.radios /\ report.radios[lan].mode = h.radios[lan].mode
    BY <2>1, AllSeen DEF ModesSeen, DevSeen, Nothing
  <2> QED BY <2>1, <2>2 DEF Met
<1>23. ~Missed("routes") /\ ~HasDefaultRoute(lan) => Fine("no_default_route")
  BY <1>6, DefaultRoutesOf DEF Met
<1>24. ~isWiFiAPLAN(lan) => ~HasDefaultRoute(lan)
  BY DEF Passed
<1>25. isWiFiAPLAN(lan) /\ ~Warned => ~HasDefaultRoute(lan)
  BY <1>3 DEF Warned
<1>26. ~Missed("routes") => Fine("routes")
  <2> SUFFICES ASSUME ~Missed("routes") PROVE Met("routes", h2)
    OBVIOUS
  <2>1. \A d \in Destinations(h2.routes) :
          d.size > 1 => d \in IPPrefixes /\ ~prefixesOverlap(cfg.subnet, d)
    BY <1>2, <1>6, HostParts, DefaultRoutesOf DEF Passed
  <2> QED BY <1>11, <2>1, OverlapFound DEF Met
<1>27. ~Missed("docker") => Fine("docker")
  <2> SUFFICES ASSUME ~Missed("docker") PROVE Fine("docker")
    OBVIOUS
  <2>1. PICK h \in seen : report.docker = h.docker
    BY LaterSteps, AllSeen DEF DockerSeen
  <2>2. \A p \in h.docker : p \in IPPrefixes /\ ~prefixesOverlap(cfg.subnet, p)
    BY <1>2, <2>1, HostParts DEF Passed
  <2> QED BY <1>11, <2>2, OverlapFound DEF Met
<1> HIDE DEF Fine, lan, l
<1>28. Always \subseteq {"carrier", "speed", "duplex", "master", "ssh", "ap", "not_a_client",
                        "no_default_route", "host_routes", "routes", "docker"}
  BY <1>1, <1>7, <1>9, <1>10, <1>11, <1>12, <1>13 DEF Requirements
<1>29. Always \cap {"carrier", "speed", "duplex", "master", "ssh", "host_routes", "routes", "docker"}
         \subseteq Hidden
  BY <1>1, <1>15, <1>16, <1>17, <1>26, <1>27 DEF Hidden, Missed, lan
<1>30. "ap" \in Always => "ap" \in Hidden
  BY <1>1, <1>18, <1>19, <1>20
<1>31. isWiFiAPLAN(lan) => Wireless
  BY ReportParts, LaterSteps DEF isWiFiAPLAN, Wireless, lan
<1>32. "not_a_client" \in Always => "not_a_client" \in Hidden \/ (Wireless /\ isWiFiAPLAN(lan) /\ Warned)
  BY <1>1, <1>20, <1>21, <1>22
<1>33. "no_default_route" \in Always =>
         "no_default_route" \in Hidden \/ (Wireless /\ isWiFiAPLAN(lan) /\ Warned)
  BY <1>1, <1>23, <1>24, <1>25, <1>31 DEF Hidden, Missed
<1>34. Wireless => {"not_a_client", "no_default_route"} = ActivationOnly
  BY DEF ActivationOnly
<1> QED BY <1>28, <1>29, <1>30, <1>32, <1>33, <1>34

(* Ready is grounded, for every set of hosts and configurations and any    *)
(* bound on changes and failures: each part of the report was true of the  *)
(* host once, so that what was never met fails its check, unless one of    *)
(* the reasons of Hidden keeps it from being seen (readiness.go:32-91,     *)
(* 198-209, discovery.go:106-151, 635-668).                                *)
THEOREM ReadyIsAlwaysGrounded == ReadinessSpec => []ReadyIsGrounded
<1>1. Picture => ReadyIsGrounded
  <2> SUFFICES ASSUME Picture PROVE ReadyIsGrounded
    OBVIOUS
  <2>1. CASE step # "answered"
    BY <2>1 DEF Picture, NoAnswer, ReadyIsGrounded
  <2>2. CASE step = "answered"
    <3>1. cfg.lan \in DOMAIN report.links => report.links[cfg.lan].speed \in Nat
      BY ReportParts DEF Links
    <3>2. /\ answer.ready <=> Passed
          /\ answer.activation <=> Passed /\ ~Warned
      <4>1. /\ answer.ready = (Failing = {})
            /\ answer.activation = (Failing = {} /\ ~Warned)
        BY <2>2, AllSeen DEF Judged
      <4>2. Failing = {} <=> Passed
        BY <3>1, NothingFails
      <4> QED BY <4>1, <4>2
    <3> QED BY <2>2, <3>2, PassedIsMet DEF ReadyIsGrounded
  <2> QED BY <2>1, <2>2
<1> QED BY <1>1, ReadinessPicture, PTL

(* What a host that meets all requirements is not refused for. *)
LEMMA MetIsPassed ==
  ASSUME Picture, step = "answered", failed = {}, ~AppearedLate
  PROVE  /\ Ever \subseteq (IF cfg.wan = NoInterface THEN {"not_a_client"} ELSE ActivationOnly)
              => Passed
         /\ Ever = {} => ~Warned
<1> DEFINE lan == cfg.lan
           l == report.links[lan]
<1>1. \A h \in seen, r \in Requirements : r \notin Ever => Met(r, h)
  BY DEF Ever, Broken
<1>2. seen \subseteq HostStates
  BY DEF Picture
<1>3. PICK h1 \in seen : /\ DOMAIN report.links \subseteq DOMAIN h1.links
                         /\ failed = {} => DOMAIN report.links = DOMAIN h1.links
  BY AllListed
<1>4. PICK h2 \in seen :
        /\ report.routes = h2.routes
        /\ IF DefaultDevs(h2) = {} THEN report.wan = NoInterface
           ELSE report.wan \in DefaultDevs(h2)
  BY AllSeen DEF RoutesSeen, Missed
<1>5. PICK h3 \in seen :
        /\ DOMAIN report.radios = DOMAIN h3.radios
        /\ \A i \in DOMAIN report.radios : report.radios[i].mode = h3.radios[i].mode
  BY AllSeen DEF ModesSeen, DevSeen, Missed
<1>6. PICK h4 \in seen : \A i \in DOMAIN report.radios :
        report.radios[i].ap <=> (i \in DOMAIN h4.radios /\ h4.radios[i].ap)
  BY AllSeen DEF APsSeen, Missed
<1>7. ASSUME Ever \subseteq (IF cfg.wan = NoInterface THEN {"not_a_client"} ELSE ActivationOnly)
      PROVE  Passed
  <2>1. \A h \in seen : \A r \in Requirements \ {"not_a_client", "no_default_route"} : Met(r, h)
    BY <1>1, <1>7 DEF ActivationOnly
  <2>2. ~Wireless \/ cfg.wan = NoInterface => \A h \in seen : Met("no_default_route", h)
    BY <1>1, <1>7 DEF ActivationOnly, Requirements
  <2>3. \A h \in seen : lan \in DOMAIN h.links
    BY <2>1 DEF Met, Requirements
  <2>4. lan \in DOMAIN report.links /\ l \in Links /\ lan \in Interfaces /\ lan # NoInterface
    BY <1>3, <2>3, ReportParts, InterfacesAssumption
  <2>5. SelectedWAN \in DOMAIN report.links
    <3>1. CASE cfg.wan # NoInterface
      <4>1. Met("wan", h1)
        BY <2>1 DEF Requirements
      <4> QED BY <1>3, <3>1, <4>1 DEF Met, WANs, SelectedWAN
    <3>2. CASE cfg.wan = NoInterface
      <4>1. DefaultDevs(h2) # {}
        <5>1. Met("wan", h2)
          BY <2>1 DEF Requirements
        <5> QED BY <3>2, <5>1 DEF Met, WANs
      <4>2. report.wan \in Interfaces
        BY <1>2, <1>4, <4>1, HostParts
      <4> QED BY <3>2, <4>2 DEF AppearedLate, SelectedWAN
    <3> QED BY <3>1, <3>2
  <2>6. SelectedWAN # lan
    <3>1. CASE cfg.wan # NoInterface
      <4>1. Met("separate", h1)
        BY <2>1 DEF Requirements
      <4> QED BY <2>4, <3>1, <4>1 DEF Met, WANs, SelectedWAN
    <3>2. CASE cfg.wan = NoInterface
      <4>1. lan \notin DefaultDevs(h2)
        BY <2>2, <3>2 DEF Met
      <4>2. report.wan # lan
        BY <1>4, <2>4, <4>1
      <4> QED BY <3>2, <4>2 DEF SelectedWAN
    <3> QED BY <3>1, <3>2
  <2>7. \A a \in Attributes : \E h \in seen : l[a] = h.links[lan][a]
    <3> SUFFICES ASSUME NEW a \in Attributes PROVE \E h \in seen : l[a] = h.links[lan][a]
      OBVIOUS
    <3>1. PICK h \in seen : lan \in DOMAIN h.links => l[a] = h.links[lan][a]
      BY <2>4, AllSeen
    <3> QED BY <2>3, <3>1
  <2>8. ~l.master
    <3>1. PICK h \in seen : l.master = h.links[lan].master
      BY <2>7 DEF Attributes
    <3>2. Met("master", h)
      BY <2>1 DEF Requirements
    <3> QED BY <2>3, <3>1, <3>2 DEF Met
  <2>9. ~l.ssh
    <3>1. PICK h \in seen : lan \in DOMAIN h.links => l.ssh = h.links[lan].ssh
      BY <2>4 DEF Picture, AddressesSeen
    <3>2. Met("ssh", h)
      BY <2>1 DEF Requirements
    <3> QED BY <2>3, <3>1, <3>2 DEF Met
  <2>10. isWiFiAPLAN(lan) => Wireless
    BY ReportParts, LaterSteps DEF isWiFiAPLAN, Wireless
  <2>11. Wireless => isWiFiAPLAN(lan) /\ lan \in DOMAIN report.radios /\ report.radios[lan].ap
    <3> SUFFICES ASSUME Wireless PROVE lan \in DOMAIN report.radios /\ report.radios[lan].ap
      BY DEF isWiFiAPLAN
    <3>1. \A h \in seen : lan \in DOMAIN h.radios /\ h.radios[lan].ap
      BY <2>1, <2>3 DEF Met, Requirements
    <3> QED BY <1>5, <1>6, <3>1
  <2>12. ASSUME ~Wireless
         PROVE  /\ ~HasDefaultRoute(lan) /\ l.operstate = "up" /\ l.carrier # "0"
                /\ l.speed >= 1000 \/ l.speed \in {0, 100} \/ cfg.slow
                /\ l.duplex # "half"
    <3>1. ~HasDefaultRoute(lan)
      BY <1>4, <2>2, <2>12, DefaultRoutesOf DEF Met
    <3>2. l.operstate = "up"
      <4>1. PICK h \in seen : l.operstate = h.links[lan].operstate
        BY <2>7 DEF Attributes
      <4>2. Met("operstate", h)
        BY <2>1 DEF Requirements
      <4> QED BY <2>3, <2>12, <4>1, <4>2 DEF Met
    <3>3. l.carrier # "0"
      <4>1. PICK h \in seen : l.carrier = h.links[lan].carrier
        BY <2>7 DEF Attributes
      <4>2. Met("carrier", h)
        BY <2>1 DEF Requirements
      <4> QED BY <2>3, <2>12, <4>1, <4>2 DEF Met
    <3>4. l.speed >= 1000 \/ l.speed \in {0, 100} \/ cfg.slow
      <4>1. PICK h \in seen : l.speed = h.links[lan].speed
        BY <2>7 DEF Attributes
      <4>2. Met("speed", h)
        BY <2>1 DEF Requirements
      <4> QED BY <2>3, <2>12, <4>1, <4>2 DEF Met
    <3>5. l.duplex # "half"
      <4>1. PICK h \in seen : l.duplex = h.links[lan].duplex
        BY <2>7 DEF Attributes
      <4>2. Met("duplex", h)
        BY <2>1 DEF Requirements
      <4> QED BY <2>3, <2>12, <4>1, <4>2 DEF Met
    <3> QED BY <3>1, <3>2, <3>3, <3>4, <3>5
  <2>13. cfg.subnet # NoPrefix /\ cfg.subnet \in IPPrefixes
    BY <2>1, SubnetIsPrefix DEF Met, Requirements, Picture
  <2>14. \A d \in ParsedRoutes : ~prefixesOverlap(cfg.subnet, d)
    <3>1. Met("routes", h2)
      BY <2>1 DEF Requirements
    <3> QED BY <1>2, <1>4, <2>13, <3>1, HostParts, DefaultRoutesOf, OverlapFound DEF Met
  <2>15. \A p \in report.docker : ~prefixesOverlap(cfg.subnet, p)
    <3>1. PICK h \in seen : report.docker = h.docker
      BY AllSeen DEF DockerSeen, Missed
    <3>2. Met("docker", h)
      BY <2>1 DEF Requirements
    <3> QED BY <1>2, <2>13, <3>1, <3>2, HostParts, OverlapFound DEF Met
  <2>16. report.nft
    <3>1. PICK h \in seen : report.nft = h.nft
      BY AllSeen DEF NftSeen
    <3>2. Met("nft", h)
      BY <2>1 DEF Requirements
    <3> QED BY <3>1, <3>2 DEF Met
  <2> QED
    BY <2>4, <2>5, <2>6, <2>8, <2>9, <2>10, <2>11, <2>12, <2>13, <2>14, <2>15, <2>16 DEF Passed
<1>8. ASSUME Ever = {} PROVE ~Warned
  <2>1. \A h \in seen : Met("no_default_route", h) /\ Met("not_a_client", h)
    BY <1>1, <1>8 DEF Requirements
  <2>2. ~HasDefaultRoute(lan)
    BY <1>4, <2>1, DefaultRoutesOf DEF Met
  <2>3. lan \in DOMAIN report.radios => report.radios[lan].mode # "managed"
    BY <1>5, <2>1 DEF Met
  <2> QED BY <2>2, <2>3 DEF Warned
<1> QED BY <1>7, <1>8

(* A refusal has a reason, likewise: what fails a check was found so when  *)
(* it was read, unless the detected WAN appeared after the interfaces      *)
(* (readiness.go:32-47, 77-89, discovery.go:108-115).                      *)
THEOREM RefusalsHaveReasons == ReadinessSpec => []RefusalHasAReason
<1>1. Picture => RefusalHasAReason
  <2> SUFFICES ASSUME Picture, step = "answered", failed = {}, ~AppearedLate
               PROVE  /\ ~answer.ready =>
                           Ever \ (IF cfg.wan = NoInterface THEN {"not_a_client"} ELSE ActivationOnly) # {}
                      /\ ~answer.activation => Ever # {}
    BY DEF RefusalHasAReason
  <2>1. cfg.lan \in DOMAIN report.links => report.links[cfg.lan].speed \in Nat
    BY ReportParts DEF Links
  <2>2. /\ answer.ready = (Failing = {})
        /\ answer.activation = (Failing = {} /\ ~Warned)
    BY AllSeen DEF Judged
  <2>3. Failing = {} <=> Passed
    BY <2>1, NothingFails
  <2> QED BY <2>2, <2>3, MetIsPassed
<1> QED BY <1>1, ReadinessPicture, PTL
=============================================================================
