# Network Monitor: TLA+ models and proofs

This directory holds the formal models of the network monitor: what the
collector books in PostgreSQL, what the API reports of it and the dashboard
shows, how the gateway packages attribute traffic to devices and services and
raise alerts, and how a host is judged, set up and rolled back as a gateway. The
models are checked with TLC on small instances. Every safety property that a run
checks is also proved with TLAPS, for every instance; what is only model-checked,
liveness, is listed in section 5. Line numbers refer to the sources under `apps/` and
`features/`.

## 1. The system

| component | state | operations |
|---|---|---|
| nftables collector (`apps/collector/cmd/collector/main.go`, `internal/nft`) | the last snapshot `previous`; status, mode, accounting and totals of `/healthz`; in the kernel, the table `inet network_monitor` with four named counters | `host.Detect`, `db.New`, `nft.Setup`, then at each tick `ReadCounters`, `Deltas`, `WriteDeltas`, `record` or `setError` |
| traffic writer (`apps/collector/internal/db/writer.go`) | four tables: raw samples, and minute, hourly and daily sums | `WriteDeltas`: one transaction, four statements per item |
| conntrack collector (`runConntrackCollector`, `features/network-usage`) | the counters of each flow key at the last snapshot | `sampleConntrack`, `BuildDelta`, `ClassifyRemoteIP`, `WriteDeltas` |
| gateway measurement model (`features/gateway/model`) | a configuration and a registry of devices; otherwise functions | `BuildGatewayDelta`, `BuildHostDelta`, `Resolve`, `PeriodAt`, `SumInternetBySource` |
| gateway aggregator (`features/gateway/accounting`) | a map from minute, device, class, period, category, service and confidence to bytes | `Add`, `Flush` |
| alert engine (`features/gateway/alerts`) | when each (rule, device, tier) was last sent | `Evaluate`, `Deduplicator.Evaluate` |
| device registry (`features/gateway/devices`) | devices by MAC | `NewRegistry`, `Upsert` |
| ISP buckets (`features/gateway/isp`) | none | `PeriodAt` |
| reporting API (`apps/backend`) | whether the database was reachable at the start | one handler per report, each a few queries |
| discovery, readiness, plan, configuration and command line tools of the gateway | none that outlives a call | read-only commands, checks over their results, a rendered ruleset |
| traffic classification (`features/traffic-classification`) | DNS queries seen so far | `Correlator.Add`, `Evidence`, `Engine.Classify`, `ReadSince` |
| web dashboard (`apps/frontend`) | the last answer of each endpoint | a load every few seconds |

How they interact. `main` starts one goroutine that owns the counters and the
transaction; `/healthz` reads its state under a lock. If `nft.Setup` fails, the
goroutine becomes the conntrack collector, and if conntrack accounting is off
as well, it ends and only `/healthz` is left. The API runs in another container
and meets the collector in the database only: it reads `traffic_samples` and
`traffic_hourly`. The dashboard polls both. The API and the command line tools
run discovery and readiness anew for each request; the tools print a plan, its
ruleset and its rollback commands, and a person applies them. No program calls
the gateway aggregator, the registry, the alert engine, the measurement model
or the traffic classification yet; they are libraries with documented
contracts, so the models feed them from an environment that follows those.

What is hard about it:

* the kernel keeps counting while the process is blocked, failing or dead, and
  the kernel's table outlives the process;
* the baseline moves before the write, the write spans four tables, and the
  answer to a COMMIT can be lost;
* nftables errors, read errors, write errors and a missing database each leave
  the process running in another state, and `/healthz` is all that shows it;
* conntrack entries expire and come back under the same key between snapshots;
* a transfer through the gateway is visible at several hooks, behind the NAT
  under the server's address, and addresses move between devices;
* time: polls and commits that are late, requests that straddle midnight, a time
  zone of UTC+5:30 over UTC hour buckets, free windows that cross midnight;
* events that arrive after their minute was flushed, alerts held back by a
  cooldown whose memory a restart loses;
* addresses that change hands while sightings, DNS queries and flows about them
  are still on their way, and a DNS log that is written late and read in pages;
* a discovery of many commands over a host that changes meanwhile, any of which
  may fail and leave a gap that looks like good news;
* rules that are loaded by hand, once or twice, and rolled back half way;
* a screen fed by loads that overlap and overtake one another.

What makes each of them correct, in a sentence: no byte is booked twice; all
tables tell the same story; bytes go missing only for reasons one can name, and
`/healthz` shows it; a device pays for its own Internet bytes in the right
period, once; reports agree with each other and never shrink; usage beyond a
tier is alerted; a device keeps its history whatever address it has; a
confident verdict rests on a query from the address the client held, its own
unless the address changed hands within the window; a host that is called ready
meets the requirements, except those that a failed read or another named cause
hides, and one that is refused has violated some; a rollback restores the host
except for hostapd; the screen is wrong for a bounded time only. Where the code
does less than its documents say, section 4 has it.

## 2. The modules

| module | models | main source |
|---|---|---|
| `Ledger` | the abstract promise: bytes are carried, then booked, never more than carried, never taken back | both collectors |
| `NftCollector`, `MCNftCollector` | the nftables collector, its transaction, the kernel table, `/healthz`, crashes | `main.go`, `nft/accounting.go`, `db/writer.go` |
| `NftCollectorProofs` | the theorems about it | |
| `ConntrackCollector`, `MCConntrackCollector` | the fallback mode | `main.go`, `flow.go`, `classifier.go`, `parser.go` |
| `ConntrackCollectorProofs` | the theorems about it | |
| `Sums`, `SumTheorems` | sums over finite sets, as the reports, aggregates and counters form them; the facts about them that the proofs below use | |
| `GatewayAccounting`, `MCGatewayAccounting` | observations of transfers and the deltas made of them | `gateway/model/model.go` |
| `GatewayAccountingProofs` | the theorems about it | |
| `TrafficReports` | the hour a delta is booked in, and the three reports over the rows | `writer.go`, `store.go`, API `main.go`, `buckets.go` |
| `DeviceAlerts`, `MCDeviceAlerts` | aggregation, flush, rules, tiers and cooldown | `aggregator.go`, `engine.go` |
| `DeviceAlertsProofs` | the theorems about it | |
| `DeviceRegistry` | sightings of clients merged into devices, stored, lost and reloaded | `devices/registry.go` |
| `TrafficClassification`, `MCTrafficClassification` | extends the registry: the DNS log, its import, correlation and the verdict on a flow | `engine.go`, `rules.go`, `correlation.go`, `pihole/reader.go` |
| `TrafficClassificationProofs` | the theorems about these two | |
| `GatewayReadiness`, `MCGatewayReadiness` | discovery of a changing host, and what readiness says of it | `discovery.go`, `readiness.go`, `config.go` |
| `GatewayRules`, `MCGatewayRules` | what the rendered rules count, loading them, the plan and its rollback | `plan.go`, `gatewayctl` |
| `GatewaySetupProofs` | the theorems about these two modules of the gateway's setup | |
| `Dashboard` | the loads of the browser, the alerts and the LIVE badge | `main.tsx` |
| `ReportingProofs` | the theorems about `TrafficReports` and `Dashboard` | |

The operators named "Mutant" in a comment are the code with a plausible bug.
No specification uses them; each is there to show that a property notices it.

### NftCollector

The program counter `pc` follows `main`, `runCollector` and `WriteDeltas`:
`detect`, `connect`, `setup` (the delete), `load` (`nft -f`), `wait` (the
ticker), `begin`, `exec`, `commit`, `record`; `acct` and `fallback` are the hand
over to the conntrack collector, `stopped` is the end of the goroutine,
`halted` a process whose goroutine was never started, `off` no process.
`previous`, `health` and `totals` are the Go variables; `deltas` and `todo` are
the items of the tick at work and the statements still to execute, in order;
`txn` are the rows of the open transaction and `stored` the committed ones.
`rules` counts how often the ruleset is in the table, because `nft -f` adds to
what is there: a failed delete (whose error `Setup` drops) leaves a table
behind that then counts every packet twice, with the old counter values.
`Matched` translates the eight rules; `Crossed` is the reference they are
compared with. Every nft command and every database statement may fail, COMMIT
may be applied although it returns an error, counters may be reset or flushed
from outside, and the process may die anywhere.

Four history variables serve the properties only: `actual` (what crossed the
interface while the table was installed), `lossy` (which named loss has
happened), `recounted` (a table was reused) and the two bounds.

### ConntrackCollector

A flow key is a pair of address kinds. `table` is the kernel's view, `previous`
the last good snapshot; both are partial functions on the flows, since entries
expire and return. The class and direction tests keep the order of the code.
Parsing is success or failure of a whole snapshot, as in `sampleConntrack`. The
transaction is one step here, since `NftCollector` takes it apart. `TrueRow` is
the reference: the row a byte belongs to whatever the code does. Its remote end
is the one further from the server, in the order of `Nearness`; where the server
talks to its own containers either end could be meant, and the properties leave
such flows out (`Unambiguous`).

### GatewayAccounting

`Transfer` makes an observation at every tapped point on the flow's path,
behind the NAT with the server's address; `Handle` is one call of
`BuildGatewayDelta` and one of `BuildHostDelta`, in any order and at any time;
`Renew` moves an address. `serverIPs` is either known or empty, as
`DefaultConfig` leaves it. Real DHCP and NAT are external. Four assumptions
about them are stated as ASSUMEs, and the proofs use them: no party sends to
itself; a hardware address is not an IP address, and no client's is that of the
server, a container or the Internet; the two points that count are among those
observed (the authoritative hook of `DefaultConfig` and the one `BuildHostDelta`
accepts, `model.go:171, 251`); the window's two times lie within a day.

### TrafficReports

Time advances in half hours, the granularity of the offset of the default time
zone. A request is a clock reading followed by a query, with commits and
midnight in between; the dashboard reads the clock after its first query, the
ISP report before its only one. Once `collecting` is false the collector stays
down; what it did before that is what the reports are judged by.

### DeviceAlerts

Of the aggregate key the model keeps minute, device, period and category; the
other parts are treated alike by the code. `usage` adds up what was flushed, as
the stages in `contracts.go` are meant to be chained; `metric = "burst_10m"` is
left out because nothing computes its input. An alert and the key of the
deduplicator have the name of a rule and nothing else of it, so two rules of one
name share them; the checked instance has such a pair.

### DeviceRegistry and TrafficClassification

Both know a client by an address, so they are one system: `TrafficClassification`
extends `DeviceRegistry` and shares its clock and its leases. `registry` is
`byMAC`; `stored` is what the caller keeps of the devices `Upsert` returns, and
`Reload` is a restart that builds the registry from it. Spellings of a MAC are
tokens, `Spelled` is what `NormalizeMAC` makes of them. `answered`, `log` and
`cursor` are Pi-hole and the caller of `ReadSince`; a page is any set of rows
that `WHERE`, `ORDER BY` and `LIMIT` allow, since rows of one second come in any
order. `Evidence` is the set of places in the imported list, so the order of
import is kept; `RuleOf` and `Engine` keep the loops of the code as first
matches, the SNI before the evidence. `client` in a row, and `held`, `read`, `cuts` and `late`, are history.

### GatewayReadiness

One step per read of `Discover`, in its order: the list of interfaces; for each
interface its addresses and then each file under `/sys` by itself; `ip route`;
`nmcli`; `iw dev`, `iw list`; `docker network ls` and an inspect per network;
`nft`. Between any two the host may change to any other of `HostStates`, and each
read may fail. A failed read leaves what the code leaves: no interfaces, one
interface less, `""` or `0` in place of a file (`readTrimmed`, `readInt`,
`linkBasename`), no routes, no radios, one network less. `failed` names each, with
its interface.

What really is a radio (`RadioNames`), what is called `wl...` (`WirelessNames`) or
`wifi...` (`WifiNames`), what `iw` knows and what NetworkManager knows are four
different things here, because the code goes by the last three:
`isWiFiInterface` of discovery by name and kind, `isWiFiAPLAN` of readiness by
`iface.WiFi` and name. The one assumption is that `iw` lists radios only and that
NetworkManager calls a device Wi-Fi if it is one; neither need know all of them.
`cfg.session` is whether `SSH_CONNECTION` is in the environment of the process,
and the `ssh` of a link whether the session really comes in there.

The checks are written as the set of names that fail. `Requirements` and `Met` are
the reference: what `docs/gateway-hardware-readiness.md` requires, said of the host
rather than of the report. `Always` and `Ever` are what the host violated during a
discovery, all the time and at some time; `Hidden` is what readiness cannot find
out, each with its cause.

### GatewayRules

A rule is the sets of interfaces, sources and targets it matches and the counter
it adds to; a chain is the sequence of loads, because `nft -f` adds. `carried`
counts how often each packet was forwarded, and is what the counters are compared
with. The person
who applies is external: steps in the order of `WouldChange`, a rollback from
any point in the order of `RollbackCommands`. Rollback commands are run to the
end whether or not one fails.

### Dashboard

A load is a record of the answers so far; loads are shown when all their answers
are there, in whatever order that happens. Time is counted as ages capped at
`Old`, beyond which nothing differs, so that behaviours are infinite and
liveness means something. The servers answer as they like.

## 3. The runs

| run | bounds | question |
|---|---|---|
| `nft_collector` | 3 units of traffic, 3 faults, five kinds of packet | is a byte ever counted twice, lost without a reason, or reported without being stored, does the collector implement `Ledger`, does it recover when failures stop, and is a removed table noticed? |
| `conntrack_safety` | two flows, 3 units, 1 fault | the same for snapshots |
| `gateway_safety` | two clients, two addresses, six kinds of flow, 2 transfers, two windows | who pays for a transfer, once, in which period? |
| `reports_safety` | 2 days of 2 hours, offset of half an hour, 2 units | are bytes in their hour, do the reports agree, do totals shrink? |
| `alerts_safety` | 3 minutes, 3 units, three rules, two of one name, three tiers | are late events counted once, are crossed tiers alerted? |
| `intelligence_safety` | two clients, two addresses, 3 instants, window and page of 1, five budgets of events | do devices keep their histories, what does the import miss, whose query is evidence? |
| `readiness_safety` | 15 hosts, 5 configurations, 2 changes or failed reads per discovery | which requirements can an unfit host violate and be called ready, can a fit one be refused, a useless interface be offered? |
| `rules_safety` | two clients, three names (two collide, one is reserved), a public host, a container, 2 loads, 2 packets, two plans | do the rules count once, do clients add up, does a rollback restore? |
| `dashboard_truth` | two endpoints, two intervals, one load by hand | how long can the screen be wrong? |
| `reports_isp` | 1 unit | finding: half-hour offsets |
| `rules_reload` | 2 loads | finding: the same rules, loaded, confirmed and loaded again, count twice |
| `evidence_later` | as `intelligence_safety` | finding: a later query is evidence |

Why these bounds are enough. In `nft_collector`, the shortest way to count a byte
twice needs a crash, a failed delete and one packet, and every pair of failures
in one transaction fits as well; three units are needed for a byte that is
stored, one in flight and one ahead of the baseline. In `conntrack_safety` a
flow must be able to grow, expire, return and grow again, which takes two
units, and the third lies before the baseline; a direction needs two flows, one
with a remote source and one that is dropped or stored depending on the route.
In `gateway_safety` two transfers of the same device from two addresses, or of
two devices from one, are the cases that differ; each passes up to four points,
so up to eight observations are handled in any order. In `reports_safety` two
days are needed for midnight, two hours for a window, and two units for bytes on
both sides of an edge. In `alerts_safety` three units cross both tiers of the
first rule at once or one by one, and three minutes hold a cooldown and its end.

In `intelligence_safety` the kinds of event are budgeted: `Init` picks one of
five budgets, each made for a case (the registry by itself; three queries, so
that a page of one ends within a second and a row is left behind; two queries
about one destination; an address handed on between a query and a flow; a bit
of everything). Three instants put a query before, in and after the window. In
`readiness_safety` one host for each kind of LAN interface (a port, a radio called
`wl...`, a radio that is not) meets all requirements, and each of the others breaks
one or a few of them; one has a second way to the Internet, so that a WAN may come up
while the host is read. Properties compare a report with all hosts seen during the
discovery, so two changes suffice to hide a part from one read and to show it to
another, two failed reads to hide two parts, and one of each to do both; the
theorems have any number. Every member of `Hidden` is needed: with any one left
out, TLC finds `ReadyIsGrounded` violated, and likewise `RefusalHasAReason` without
`AppearedLate`. `WifiNames` is empty in the instance, since an interface of that
name is treated as one that NetworkManager knows. In `rules_safety` one packet in each direction, or two in one, tell
every pair of counters apart; plans with DHCP and with Wi-Fi cover all steps.
In `dashboard_truth` a timer load, one by hand and one started by a change of
the interval can be under way together, so older answers do replace newer ones;
the bounds `Latest` and `Fresh + Max(Intervals) + Slow` are exact: TLC violates
both properties when they are one smaller.

Deadlock is checked for readiness, rules and the dashboard, which never stop,
and not for the others: their bounded instances end when traffic, faults or time
are used up, and the code itself may stop (`stopped`, `halted`).

Fairness. `nft_collector` assumes weak fairness of `Start`, `Boot` and `Tick`:
the container is restarted when the process dies (`restart: unless-stopped` in
the compose file), and the goroutine and its ticker are never stopped
(`main.go:117-139`). Nothing is assumed of the environment: faults need not
happen and need not be repaired. No action is assumed to succeed rather than
fail; failures are only bounded in number. `dashboard_truth` assumes that time
passes, that the interval timer fires (`main.tsx:516-520`), and that a fetch is
answered or fails within `Slow`. The last is an assumption about the browser and
the servers: `fetchEndpoint` sets no timeout, and a fetch that hangs keeps its
load from ever being shown, though not the loads after it.

## 4. The findings

Three sentences of the documentation that runs refute:

* `docs/device-accounting.md:66` assigns periods by the time of each transfer;
  the reports use the start of the UTC hour bucket (API `main.go:361`,
  `reports_isp`).
* `docs/gateway-architecture.md:200` wants idempotent rules; the rendered file
  neither deletes nor flushes its table, so a second load doubles every rule
  (`plan.go:115-147`). In the trace of `rules_reload` a plan is applied and
  confirmed, the same file is loaded again, and one packet of a client is counted
  twice. The reserved client name `client` plays no part in it.
* `docs/network-intelligence.md:69` correlates a *later* flow with a query; the
  window extends to both sides (`correlation.go:40`, `evidence_later`).

Others that the models make visible, each as a guard, an exception or a
precondition of a property rather than as a run:

* `docs/gateway-hardware-readiness.md:190` wants AP mode confirmed by `iw list` for a
  Wi-Fi LAN. A radio whose name does not begin with `wl` is Wi-Fi to readiness only
  through `iw`; if `iw` is missing, fails or does not list it, it is judged as
  Ethernet, where unreadable speed and duplex only warn, and is called ready, also
  for activation (`readiness.go:107, 198-202`; `ap` and `not_a_client` in `Hidden`).
* `docs/gateway-architecture.md:85` wants the LAN interface not to be the SSH path.
  The path is taken from `SSH_CONNECTION` in the environment of the process
  (`discovery.go:124`), which a daemon or a process under sudo need not have; the
  check then passes (`readiness.go:205`; `ssh` in `Hidden`).
* `docs/network-intelligence.md:53` calls evidence of the *same client* certain.
  A client is an address to the correlator (`correlation.go:37`), so after a lease
  has moved the query of the one before is taken for it. `HandedOver` names this,
  and `EvidenceIsOwnUnlessHandedOver` shows that it is the only way.
* `docs/network-accounting.md:34` calls the totals accurate, but a failed write
  drops the bytes of its tick (collector `main.go:132`; `NothingLost` names it).
* `docs/network-accounting.md:28` has public traffic counted as Internet, but
  IPv6 matches no rule (`accounting.go:67-82`; named by `NothingLost`). The
  gateway's rules leave IPv6 out too (`PacketsCountedOnce` speaks of IPv4).
* `docs/testing.md:32` and `:35` expect LAN and container traffic to be counted;
  in fallback mode flows with two local ends are dropped (`flow.go:91`).
* `docs/device-accounting.md:48` defines Internet by destination or source; the
  model looks at the destination only (`model.go:304`), and the gateway's rules
  at the interface only, so a private host behind the WAN counts as Internet
  (`plan.go:130`).
* `README.md:10` has the API report `unavailable` when collection is; it asks
  whether any sample was ever stored (`store.go:134`).
* The delete in `nft.Setup` may fail unnoticed (`accounting.go:51`), and then
  bytes from before the start are counted, against
  `docs/network-accounting.md:32`. `NoOvercount` and `Ledger` name it as the one
  exception (`recounted`, `Taint`).
* `docs/gateway-architecture.md:84` has the subnet checked against existing
  routes; a route to a single host is printed without a length and skipped, and
  if `ip route` or Docker cannot be read, nothing overlaps (`readiness.go:262`).
  `Hidden` lists these.
* Readiness fails open in more than the overlaps. A file under `/sys` that cannot be
  read is `""` or `0` (`discovery.go:635-669`), and an empty carrier, duplex or
  master and a speed of zero pass or only warn; only an unreadable `operstate` is
  refused. `Hidden` lists carrier, speed, duplex and master of the LAN interface
  for that, beside AP mode and the SSH path from above. Each file is read at
  another moment, so the picture of one interface may mix two of its states too.
* Discovery reads the interfaces before the routes (`discovery.go:108-115`): a WAN
  that comes up in between is detected and then "not found"
  (`readiness.go:244-254`), though the host met every requirement at every moment.
  The answer is safe, and the next request corrects it; `AppearedLate` names it as
  the one exception of `RefusalHasAReason`.
* `docs/gateway-hardware-readiness.md:176` fails links below 100 Mb/s; the
  override for slow LANs lets any speed pass (`readiness.go:93-159`).
* Queries that share a second with the end of a page are never imported
  (`reader.go:33`); what `PassedByAtEdgesOnly` shows is that nothing else is passed
  by but rows written late.
* An answer of the dashboard that straddles midnight mixes two days, since the clock
  is read after the first of its two queries (API `main.go:346`). `TotalsNeverShrink`
  is about the answers of one day and forbids no such mixture.
* The rollback has no command for hostapd, which the Wi-Fi plan starts
  (`plan.go:72`); `RollbackRestores` names it as the one exception.

## 5. The proofs

`NftCollectorProofs` proves, for every set of packets, every size and every
number of failures and crashes:

| theorem | says |
|---|---|
| `TypeCorrect` | `Spec => []TypeOK` |
| `NeverOvercounts` | `Spec => []NoOvercount` |
| `TablesAlwaysAgree` | `Spec => []TablesAgree` |
| `LossesAreNamed` | `Spec => []NothingLost` |
| `TotalsAreBacked` | `Spec => []TotalsAreStored` |
| `IdleIsAlwaysReported` | `Spec => []IdleIsReported` |
| `DropsAreAlwaysReported` | `Spec => DroppedDeltasAreReported` |
| `RefinesLedger` | `Spec => L!LedgerSpec` |

The assumptions are those of the module: packets are of the listed kinds and
have positive sizes, and the bounds are natural numbers.

None of the invariants is inductive by itself. `NoOvercount` says nothing about
bytes that are being written, and a state with a full transaction and an empty
counter would satisfy it and break at the COMMIT. The inductive invariant is
`IInv`, the conjunction of

* `TypeOK`;
* `Rows`: the open transaction holds the deltas of the statements executed so
  far and nothing else, so that at COMMIT each table receives exactly the deltas;
* `TablesAgree`;
* `Covered`: stored, in flight and not yet read are disjoint parts of what
  crossed the interface, and a removed table has no counts;
* `Exact`: without a loss they are all of it;
* `Backed`: totals, plus the deltas about to be recorded, are stored.

`StepKinds` sorts the steps into fourteen kinds, of which `Quiet` needs no
further argument; each part then has a lemma with a step per kind. The
refinement maps COMMIT (answered or not, or followed by a crash) to `Book`, a
packet to `Carry`, the reuse of a table to `Taint` and everything else to
stuttering; it uses `Covered` to show that `Book` never books more than was
carried.

`ConntrackCollectorProofs` proves, for every set of flows, any number of bytes
and any number of failures and restarts:

| theorem | says |
|---|---|
| `ConntrackTypes` | `Spec => []TypeOK` |
| `ConntrackRefinesLedger` | `Spec => ImplementsLedger` |
| `SteadyFlowsAreAlwaysComplete` | `Spec => []SteadyFlowsAreComplete` |

The refinement is row by row: a write maps to `Book`, packets that raise
`countable` to `Carry`, everything else stutters. It needs `Covered`: what is
stored, in flight and ahead of the baseline are disjoint parts of what could be
counted, where "ahead" is what `BuildDeltas` would make of the table as it is now
(`Ahead`); that `BuildDeltas` puts a side of a flow in its true row is
`TheCodeFindsTheRow`, a lemma over the address kinds. Completeness needs `Steady`: a
steady flow is in both snapshots and its counters have not gone back, and before
the first snapshot of the first process nothing can be missing.

`SumTheorems` proves what a sum over a finite set is: that it may be taken apart
anywhere, that it grows with its terms and its set, that sums add and that terms
of zero do not count. `MapThenSumSet` is a recursive function over subsets; since
the provers cannot apply a theorem about all predicates, each fact is shown by a
smallest counterexample among the subsets instead (`SmallestSubset`, from the
well-foundedness of strict inclusion).

`GatewayAccountingProofs` proves, for any clients, addresses, flows, loads,
points observed and free windows:

| theorem | says |
|---|---|
| `AccountingTypes` | `Spec => []TypeOK` |
| `DevicesAlwaysKeepTheirBytes` | `Spec => []DevicesKeepTheirBytes` |
| `OutboundIsAlwaysMeasuredOnce` | `Spec => []OutboundIsMeasuredOnce` |

`PeriodsAreTrue` shows that the comparison of minutes in `inWindow` is the
arithmetic of minutes since the window opened, for windows on either side of
midnight. The invariant `Typed` adds to the types that transfers are numbered
(`Numbered`) and that a pending observation shows what its transfer and its
point determine, and nothing of the leases of today (`Observed`). Then
`DeltaCounts` says when the deltas of an observation count for the sources of a
set, `HandledBy` that it makes at most its own transfer count as handled, and so
`Handle` adds the same number to both sums or to neither. Both theorems are
instances of that one argument, for sources and parties that belong together
(`Fits`).

`ReportingProofs` proves of `TrafficReports`, for any number of days and hours, any
offset and any free window:

| theorem | says |
|---|---|
| `ReportTypes` | `Spec => []TypeOK` |
| `PromptHoursAreAlwaysExact` | `Spec => []PromptHoursAreExact` |
| `ReportsAlwaysAgree` | `Spec => []ReportsAgree` |
| `ReportsNeverShrink` | `Spec => TotalsNeverShrink` |

The reports agree because the rows they do not share are empty: no row is ahead
of the clock (`FutureIsEmpty`). Answers do not shrink because of `AnswerHolds`:
what was answered is still in the rows, for an ISP report in those up to a
moment no later than that of any request under way.

It proves of `Dashboard`, for any endpoints, refresh intervals, bound of a fetch and age
up to which a sample is live:

| theorem | says |
|---|---|
| `DashboardTypes` | `DashboardSpec => []DashboardTypeOK` |
| `LiveIsAlwaysBounded` | `DashboardSpec => []LiveIsBounded` |
| `AlertsAlwaysCatchUp` | `DashboardSpec => []AlertsCatchUp` |

Both bounds look ahead: `Shows` says of a number that grows with time what it will
be at most when the next load is shown, which is one of those under way or, if
there is none, the one the timer starts. `LiveInv` and `AlertsInv` keep that
promise within the bounds from the moment when something goes wrong. `Current`
adds that what a load has been told since an endpoint last changed is true, so
that a load shown later than a fetch after the change says the truth, whatever it
overtakes. Nothing is needed about the order in which loads are shown. Loads are
records in a set; `Apart` shows that no two of them are ever equal, so that the
set has as many as the browser.

`DeviceAlertsProofs` proves, for any devices, rules, tiers, cooldowns and free
window:

| theorem | says |
|---|---|
| `AlertTypes` | `Spec => []TypeOK` |
| `EventsAreCountedOnce` | `Spec => []CountedOnce` |
| `TiersAreAlerted` | `Spec => []CrossedTiersAreAlerted` |

`CountedOnce` is inductive once only finitely many keys are in use (`Typed`).
The tiers need `SentIsTrue`: whatever the deduplicator remembers was sent.

`TrafficClassificationProofs` and `GatewaySetupProofs` prove, for every set of
clients, addresses, spellings and providers, every window and page size, every
finite set of hosts, every naming of clients and every plan, and of
`GatewayReadiness` for every set of states that the host may be in, every set of
configurations and any number of changes and failures:

| theorem | says |
|---|---|
| `HistoriesFollowMAC` | `Spec => HistoryFollowsMAC` |
| `SightingsAreAlwaysTrue` | `Spec => []SightingsAreTrue` |
| `PassedByAlwaysAtEdges` | `Spec => []PassedByAtEdgesOnly` |
| `ClassificationTypes` | `Spec => []TypeOK` |
| `EvidenceIsAlwaysOwnUnlessHandedOver` | `Spec => []EvidenceIsOwnUnlessHandedOver` |
| `RollbackAlwaysRestores` | `Spec => []RollbackRestores` |
| `RulesTypes` | `Spec => []TypeOK` |
| `PacketsAreCountedOnce` | `Spec => []PacketsCountedOnce` |
| `ClientsAlwaysAddUp` | `Spec => []ClientsAddUp` |
| `ReadinessTypes` | `ReadinessSpec => []ReadinessTypeOK` |
| `ReadyIsAlwaysGrounded` | `ReadinessSpec => []ReadyIsGrounded` |
| `RefusalsHaveReasons` | `ReadinessSpec => []RefusalHasAReason` |
| `CandidatesAreAlwaysUsable` | `ReadinessSpec => []CandidatesAreUsable` |

* `HistoryFollowsMAC` compares a stored device with the one that the next
  `Upsert` stores over it, which is made of the registry's copy. It needs
  `HistoryInv`: `Identified`, a device is filed under its own address and
  identity, in memory and in the store; and `Kept`, the copy in memory has the
  first sighting and the name of the stored one. A restart restores both.
* `SightingsAreTrue` is about the registry; a restart refills that from the
  store, and `Upsert` from a sighting made long before. `Witnessed` extends it to
  the store, the sightings on their way, and the leases sightings are made of.
* `PassedByAtEdgesOnly` needs only that times are integers and the log finite
  (`LogInv`): then a page is either full or all that is left (`ShortPages`).
* `EvidenceIsOwnUnlessHandedOver` needs `Sourced`: queries come from rows that were
  read, and whoever asked or opened a flow held its address then, which follows from
  `Witnessed`. If the one who asked is not the flow's client, two clients held the
  address within the window: it was handed over (`CertainVerdict`). The rest is
  about `Engine`: a verdict is certain only by a name found in the evidence, and that
  name is in the domains of a rule for the service (`RuleFits`, `VerdictConfidence`;
  that the loops find a first match is `LeastPlace`).
* `RollbackRestores` speaks of the end of a rollback; `PlanInv` adds that
  `previous` is what `forwarding` was before the plan, and that the commands
  already run have put back what they name.
* `PacketsCountedOnce` and `ClientsAddUp` need `Loaded`: without a table nothing is
  counted. `Aggregated` is the one rule of the chain that a packet meets for a
  counter of all clients; the clients' own rules give the same one hit, under
  the label of the client (`ClientOf`), so labels split the hits between them
  however they collide.
* The three properties of readiness need `Picture`: each part of the report, down to
  the single file of an interface, was true of the host at some moment of the
  discovery, not all at the same one, or its read failed and left it empty.
  `PassedIsMet` and `MetIsPassed` then compare the checks with the
  requirements one by one, each at the moment when the part it reads was read.
  `OverlapFound` shows that looking for one address of each block in the other
  finds every overlap. That is so because prefixes nest, their sizes being powers
  of two (`SizesAssumption`: of two sizes the larger is a multiple of the smaller);
  blocks of other sizes could share addresses other than the two that are written.

What the attempts to prove corrected. The reference of `ConntrackCollector`
called an end remote by being public or not, which agrees with the code on
the flows of the checked instance only; it is now an order of nearness. Alerts
were identified by their rule, where the code has its name: with two rules of one
name `CrossedTiersAreAlerted` is another claim, which holds. `carried` was a
sequence of packets and is a count of each. `TappedAssumption` did not say that
the two points that count are tapped, without which nothing is measured.
`RefusalHasAReason` failed for a WAN that appears between two readings, which no
host of the instance did; one that does is in it now, and the exception is in the
property. Prefixes of any size were allowed, though they are powers of two.

Only model-checked: liveness (`Recovers`, `TableLossNoticed`, `StaleIsShown`), which rests
on fairness. The three runs that refute a sentence of a document leave nothing to prove.

## 6. What is not modelled

Formatting, HTTP, the text of `/proc`, `/sys`, of nft, ip, iw, docker and
conntrack output; 64-bit overflow of counters, which takes centuries at the
rates of an interface; `traffic_minute` and `traffic_daily` as buckets of their
own, which no report reads; the destinations, device report and investigation
endpoints, which read tables no program writes; catalogue, alert policy and the
text of the wizard, which are constants. `Config` is read once: a poll interval
of zero is accepted and makes the ticker panic, which needs no model. Readiness
checks that only warn (listeners, Pi-hole, forwarding, capabilities) decide
neither answer. The accept and masquerade rules count nothing. `gatewayctl` accepts one address under
two client names (`main.go:125-131`), and the rules then count its packets for both;
`Namings` gives each client one name, and `ClientsAddUp` and its theorem hold under
that assumption only. The dashboard's
other sections show an answer as it came. The schema consists of declarations.

## 7. Plan

1. Abstract specifications: a report service over `Ledger`, implemented by
   `TrafficReports`; an alert service implemented by `DeviceAlerts`.
2. Proofs that they are implemented, along the invariants that section 5 has.

The most important behaviour, what is booked, came first; the gateway followed
in the order in which the code base is going to use it.
