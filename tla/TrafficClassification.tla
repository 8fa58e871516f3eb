------------------------ MODULE TrafficClassification ------------------------
(***************************************************************************)
(* The service behind a flow: the queries that Pi-hole logs are imported,  *)
(* correlated with the flows of the same client, and matched against the   *)
(* rules of the providers.                                                 *)
(*                                                                         *)
(*   features/traffic-classification/application/engine.go    Classify     *)
(*   .../infrastructure/providers/rules.go                    Classify     *)
(*   .../infrastructure/dns/correlation.go                    Evidence     *)
(*   .../infrastructure/dns/pihole/reader.go                  ReadSince    *)
(*                                                                         *)
(* Clients and their leases are those of the device registry: both know a  *)
(* client by an address that may be another client's a moment later.       *)
(* Pi-hole writes its log now and then, the log is imported page by page,  *)
(* and flows are classified some time after they were seen.                *)
(***************************************************************************)
EXTENDS DeviceRegistry, SequencesExt

CONSTANTS
  Providers,    \* the providers in order: a category and rules, in order,
                \* each a service and the domains that end in its suffixes
  Domains,      \* the domains asked for
  Destinations, \* the addresses domains resolve to
  NoReply,      \* in place of the address where the log has none
  Window,       \* the correlation window
  Limit,        \* the rows of a page
  Ports         \* what ports and protocols show: udp443, 53, 80, 443, other

ASSUME ProvidersAssumption ==
  Providers \in Seq([category : STRING,
                     rules : Seq([service : STRING, domains : SUBSET Domains])])
ASSUME NoReplyAssumption == NoReply \notin Destinations
ASSUME PortsAssumption == Ports \subseteq {"udp443", "53", "80", "443", "other"}
ASSUME WindowAssumption == Window \in Nat /\ Limit \in Nat \ {0}

(* A query; client is history, the client that really asked. *)
Queries == [at : Times, ip : Addresses, domain : Domains,
            resolved : Destinations \cup {NoReply}, client : Clients]

(* A flow: what its destination port and protocol show, and the name its   *)
(* TLS greeting shows, if any (Flow.Domain is tried in the same place);    *)
(* client is history.                                                      *)
NoSNI == "none"
Flows == [at : Times, ip : Addresses, dest : Destinations, port : Ports,
          sni : Domains \cup {NoSNI}, client : Clients]

VARIABLES
  answered, \* queries Pi-hole has answered and not yet written
  log,      \* the rows of Pi-hole's database
  cursor,   \* the time of the last row imported
  queries,  \* Correlator.queries
  flows,    \* flows not yet classified
  verdicts, \* history: flows with the verdict they got
  read,     \* history: the rows that pages returned
  cuts,     \* history: instants at which a full page ended
  late      \* history: rows written after the cursor had reached their instant

classifyVars ==
  <<answered, log, cursor, queries, flows, verdicts, read, cuts, late>>
vars == <<registryVars, classifyVars>>

Init ==
  /\ RegistryInit
  /\ answered = {} /\ log = {} /\ cursor = NoTime /\ queries = <<>>
  /\ flows = {} /\ verdicts = {}
  /\ read = {} /\ cuts = {} /\ late = {}

-----------------------------------------------------------------------------
(* The import of the log.                                                  *)

Ask(c, domain, resolved) ==
  LET row == [at |-> clock, ip |-> lease[c], domain |-> domain, resolved |-> resolved,
              client |-> c] IN
  /\ lease[c] # NoAddress
  /\ row \notin answered \cup log
  /\ answered' = answered \cup {row}
  /\ UNCHANGED <<log, cursor, queries, flows, verdicts, read, cuts, late>>

(* Pi-hole writes some of what it holds. *)
WriteLog(rows) ==
  /\ rows # {}
  /\ log' = log \cup rows
  /\ answered' = answered \ rows
  /\ late' = late \cup {r \in rows : r.at <= cursor}
  /\ UNCHANGED <<cursor, queries, flows, verdicts, read, cuts>>

(* Mutant: the rows are not ordered. *)
PagesUnordered ==
  LET rows == {r \in log : r.at > cursor}
      size == IF Cardinality(rows) < Limit THEN Cardinality(rows) ELSE Limit
  IN  {page \in SUBSET rows : Cardinality(page) = size}

(* WHERE timestamp > since ORDER BY timestamp LIMIT limit: which rows of a *)
(* second come first is up to the database.                                *)
Pages ==
  LET rows == {r \in log : r.at > cursor}
      size == IF Cardinality(rows) < Limit THEN Cardinality(rows) ELSE Limit
  IN  {page \in SUBSET rows :
         Cardinality(page) = size /\ \A r \in page, q \in rows \ page : r.at <= q.at}

(* ReadSince, and Add for each row: rows without an address are left out.  *)
(* The caller goes on from the last row.  A read that fails returns none   *)
(* and changes nothing.                                                    *)
Import(page) ==
  /\ \E last \in page :
       /\ \A r \in page : r.at <= last.at
       /\ cursor' = last.at
       /\ cuts' = IF Cardinality(page) = Limit THEN cuts \cup {last.at} ELSE cuts
  /\ \E rows \in SetToSeqs({r \in page : r.resolved # NoReply}) :
       /\ \A i, j \in DOMAIN rows : i < j => rows[i].at <= rows[j].at
       /\ queries' = queries \o rows
  /\ read' = read \cup page
  /\ UNCHANGED <<answered, log, flows, verdicts, late>>

-----------------------------------------------------------------------------
(* The classification of a flow.                                           *)

Connect(c, dest, port, sni) ==
  /\ lease[c] # NoAddress
  /\ flows' = flows \cup
       {[at |-> clock, ip |-> lease[c], dest |-> dest, port |-> port, sni |-> sni, client |-> c]}
  /\ UNCHANGED <<answered, log, cursor, queries, verdicts, read, cuts, late>>

(* Mutant: any client's query is evidence. *)
EvidenceOfAnyone(f) ==
  {i \in DOMAIN queries :
     queries[i].resolved = f.dest /\ queries[i].at - f.at \in -Window .. Window}

(* Correlator.Evidence: same client address, same destination, and a time  *)
(* within the window on either side of the flow; by place in the list.     *)
Evidence(f) ==
  {i \in DOMAIN queries :
     /\ queries[i].ip = f.ip /\ queries[i].resolved = f.dest
     /\ queries[i].at - f.at \in -Window .. Window}

(* The names a provider tries: the SNI, then the evidence as imported. *)
Candidates(f, evidence) ==
  [i \in evidence \cup (IF f.sni = NoSNI THEN {} ELSE {0}) |->
    IF i = 0 THEN f.sni ELSE queries[i].domain]

Some(s, Test(_)) == \E i \in DOMAIN s : Test(s[i])
First(s, Test(_)) ==
  s[CHOOSE i \in DOMAIN s : Test(s[i]) /\ \A j \in DOMAIN s : Test(s[j]) => i <= j]

Knows(provider, name) == Some(provider.rules, LAMBDA r : name \in r.domains)

(* DomainProvider.Classify: the first rule that matches the first name     *)
(* that any rule matches.  All evidence resolved to the destination, so a  *)
(* name found in it is certain, and one found in the SNI only is not.      *)
RuleOf(provider, names) ==
  LET name == First(names, LAMBDA n : Knows(provider, n))
      rule == First(provider.rules, LAMBDA r : name \in r.domains)
  IN  [service |-> rule.service, category |-> provider.category,
       confidence |-> IF \E i \in DOMAIN names \ {0} : names[i] = name
                      THEN "high" ELSE "medium"]

Fallback(port) ==
  CASE port = "udp443" -> [service |-> "QUIC", category |-> "quic", confidence |-> "low"]
    [] port = "53" -> [service |-> "DNS", category |-> "dns", confidence |-> "high"]
    [] port = "80" -> [service |-> "General HTTP", category |-> "general_web", confidence |-> "low"]
    [] port = "443" -> [service |-> "Encrypted HTTPS / Unknown", category |-> "unknown_https",
                        confidence |-> "unknown"]
    [] port = "other" -> [service |-> "Other", category |-> "other", confidence |-> "unknown"]

(* Engine.Classify: the first provider that knows any of the names. *)
Engine(f, evidence) ==
  LET names == Candidates(f, evidence)
      Applies(p) == Some(names, LAMBDA name : Knows(p, name))
  IN  IF Some(Providers, Applies)
        THEN RuleOf(First(Providers, Applies), names)
        ELSE Fallback(f.port)

Classify(f) ==
  /\ flows' = flows \ {f}
  /\ verdicts' = verdicts \cup {[flow |-> f, verdict |-> Engine(f, Evidence(f))]}
  /\ UNCHANGED <<answered, log, cursor, queries, read, cuts, late>>

-----------------------------------------------------------------------------

ClassifyNext ==
  \/ /\ Event("query")
     /\ \E c \in Clients, domain \in Domains, resolved \in Destinations \cup {NoReply} :
          Ask(c, domain, resolved)
  \/ /\ Event("flow")
     /\ \E c \in Clients, dest \in Destinations, port \in Ports, sni \in Domains \cup {NoSNI} :
          Connect(c, dest, port, sni)
  \/ /\ UNCHANGED left
     /\ \/ \E rows \in SUBSET answered : WriteLog(rows)
        \/ \E page \in Pages : Import(page)
        \/ \E f \in flows : Classify(f)

Next ==
  \/ RegistryNext /\ UNCHANGED classifyVars
  \/ ClassifyNext /\ UNCHANGED <<clock, lease, sightings, registry, stored, held, undated>>

Spec == Init /\ [][Next]_vars
-----------------------------------------------------------------------------
(* Properties.                                                             *)

TypeOK ==
  /\ RegistryTypeOK
  /\ answered \subseteq Queries /\ log \subseteq Queries /\ queries \in Seq(Queries)
  /\ cursor \in Times \cup {NoTime}
  /\ flows \subseteq Flows
  /\ \A v \in verdicts :
       v.flow \in Flows /\ v.verdict.confidence \in {"high", "medium", "low", "unknown"}
  /\ read \subseteq log /\ late \subseteq log /\ cuts \subseteq Times

(* The import passes a row by for one of two reasons only: a full page     *)
(* ended within the row's second, or Pi-hole wrote the row after the       *)
(* cursor had reached its second (reader.go:31-35).                        *)
PassedByAtEdgesOnly ==
  \A r \in log \ read : r.at <= cursor => r.at \in cuts \/ r \in late

(* The verdicts called certain, but for those that only the port decides.  *)
Certain == {v \in verdicts : v.verdict.confidence = "high" /\ v.verdict.category # "dns"}

(* Some rule for the service matches the domain that was asked for. *)
Supports(r, verdict) ==
  \E i \in DOMAIN Providers : \E j \in DOMAIN Providers[i].rules :
    LET rule == Providers[i].rules[j] IN
    rule.service = verdict.service /\ r.domain \in rule.domains

(* Another client held the address of the flow within the window.          *)
HandedOver(f) ==
  \E c \in Clients \ {f.client}, at \in f.at - Window .. f.at + Window : <<c, f.ip, at>> \in held

(* A certain verdict rests on a query that was read, for a domain of the   *)
(* service, answered with the flow's destination, at most a window away    *)
(* from the flow, and from the address the flow's client held.  It was     *)
(* this client's own query, unless the address was handed over within the  *)
(* window: "same client" in docs/network-intelligence.md:53 means the same *)
(* address to the code (correlation.go:33-50, rules.go:28-70).             *)
EvidenceIsOwnUnlessHandedOver ==
  \A v \in Certain :
    \E r \in read :
      /\ Supports(r, v.verdict)
      /\ r.resolved = v.flow.dest /\ v.flow.at - r.at \in -Window .. Window
      /\ <<v.flow.client, r.ip, v.flow.at>> \in held
      /\ HandedOver(v.flow) \/ r.client = v.flow.client

(* A document, violated: "Correlate a later flow only when client IP,      *)
(* destination IP, and time window match" (docs/network-intelligence.md    *)
(* :69).  The window extends to both sides, so a flow that came before the *)
(* query is correlated with it too (correlation.go:40).                    *)
EvidenceIsOfALaterFlow ==
  \A v \in Certain :
    \E r \in read : /\ r.ip = v.flow.ip /\ r.resolved = v.flow.dest
                    /\ v.flow.at - r.at \in 0 .. Window

=============================================================================
