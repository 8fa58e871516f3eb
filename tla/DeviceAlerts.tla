----------------------------- MODULE DeviceAlerts -----------------------------
(***************************************************************************)
(* From the traffic events of the gateway to alerts: events are aggregated *)
(* in memory by minute, device, ISP period and category, the aggregates    *)
(* are flushed, and rules over a device's usage raise alerts that are held *)
(* back for a cooldown once sent.                                          *)
(*                                                                         *)
(*   features/gateway/accounting/aggregator.go  Add, Flush                 *)
(*   features/gateway/accounting/contracts.go   the stages and their order *)
(*   features/gateway/alerts/engine.go          Evaluate, matchedBytes     *)
(*                                                                         *)
(* The stages run one after another in a process that may die and lose     *)
(* what it holds in memory.  Events may arrive late, after the minute they *)
(* belong to was flushed.                                                  *)
(***************************************************************************)
EXTENDS Integers, Sums

CONSTANTS
  Devices,     \* the device IDs
  Rules,       \* the alert rules, records
  FreeMinutes, \* the minutes of the free window
  MaxLate,     \* bound: minutes an event may arrive late
  MaxClock,    \* bound: minutes in a behaviour
  MaxBytes     \* bound: units of traffic in a behaviour

Categories == {"video", "downloads", "unknown"}
Directions == {"download", "upload"}
Periods == {"free_night", "anytime"}
Metrics == {"", "anytime", "unknown", "upload"}

ASSUME RulesAssumption ==
  Rules \subseteq
    [name : STRING, metric : Metrics, thresholds : SUBSET Nat,
     included : SUBSET Categories, excluded : SUBSET Categories,
     includeUnknown : BOOLEAN, cooldown : Nat]
ASSUME BoundsAssumption == MaxLate \in Nat /\ MaxClock \in Nat /\ MaxBytes \in Nat

Minutes == 0 .. MaxClock

PeriodAt(minute) == IF minute \in FreeMinutes THEN "free_night" ELSE "anytime"

(* The key of an aggregate. *)
Keys == Minutes \X Devices \X Periods \X Categories

-----------------------------------------------------------------------------

VARIABLES
  clock,    \* the present minute
  items,    \* the aggregates in memory: a map from keys to two sums
  usage,    \* what was flushed, by device, period, category and direction
  sent,     \* Deduplicator.sent: when the alert of a key was last sent
  alerts,   \* history: the alerts sent
  checked,  \* history: devices evaluated since the last change of usage or clock
  carried,  \* history: bytes by device, period, category and direction
  bytes,    \* history: units of traffic, for the bound
  restarted \* history: when the process last restarted

vars == <<clock, items, usage, sent, alerts, checked, carried, bytes, restarted>>

Accounts == Devices \X Periods \X Categories \X Directions
AlertKeys == {<<r.name, d, t>> : r \in Rules, d \in Devices, t \in UNION {q.thresholds : q \in Rules}}
Never == -1
Empty == [k \in {} |-> [dir \in Directions |-> 0]]

Init ==
  /\ clock = 0
  /\ items = Empty
  /\ usage = [a \in Accounts |-> 0]
  /\ sent = [k \in AlertKeys |-> Never]
  /\ alerts = {}
  /\ checked = {}
  /\ carried = [a \in Accounts |-> 0]
  /\ bytes = 0
  /\ restarted = Never

-----------------------------------------------------------------------------

PassTime ==
  /\ clock < MaxClock
  /\ clock' = clock + 1
  /\ checked' = {}
  /\ UNCHANGED <<items, usage, sent, alerts, carried, bytes, restarted>>

(* A key that is not there yet starts from zero. *)
Added(key, dir) ==
  [k \in DOMAIN items \cup {key} |->
    [e \in Directions |-> (IF k \in DOMAIN items THEN items[k][e] ELSE 0)
                            + (IF k = key /\ e = dir THEN 1 ELSE 0)]]

(* Mutant: the period is that of the moment. *)
AddNow(d, category, dir, at) ==
  /\ bytes < MaxBytes
  /\ at <= clock /\ clock - at <= MaxLate
  /\ items' = Added(<<at, d, PeriodAt(clock), category>>, dir)
  /\ carried' = [carried EXCEPT ![<<d, PeriodAt(at), category, dir>>] = @ + 1]
  /\ bytes' = bytes + 1
  /\ UNCHANGED <<clock, usage, sent, alerts, checked, restarted>>

(* Add: the period and the minute are those of the event. *)
Add(d, category, dir, at) ==
  /\ bytes < MaxBytes
  /\ at <= clock /\ clock - at <= MaxLate
  /\ items' = Added(<<at, d, PeriodAt(at), category>>, dir)
  /\ carried' = [carried EXCEPT ![<<d, PeriodAt(at), category, dir>>] = @ + 1]
  /\ bytes' = bytes + 1
  /\ UNCHANGED <<clock, usage, sent, alerts, checked, restarted>>

(* The bytes of an account that are in memory, over all minutes. *)
InMemory(a) ==
  Sum([k \in DOMAIN items |-> items[k][a[4]]],
      {k \in DOMAIN items : k[2] = a[1] /\ k[3] = a[2] /\ k[4] = a[3]})

(* Flush hands out every item and forgets it; usage adds it up. *)
Flush ==
  /\ usage' = [a \in Accounts |-> usage[a] + InMemory(a)]
  /\ items' = Empty
  /\ checked' = {}
  /\ UNCHANGED <<clock, sent, alerts, carried, bytes, restarted>>

-----------------------------------------------------------------------------
(* The alert engine.                                                       *)

Known == Categories \ {"unknown"}

(* What a rule counts.  Unknown bytes are kept apart from the total and    *)
(* from the other categories.                                              *)
Counted(rule) ==
  CASE rule.metric = "anytime" -> {"anytime"} \X Categories \X Directions
    [] rule.metric = "unknown" -> Periods \X {"unknown"} \X Directions
    [] rule.metric = "upload" -> Periods \X Categories \X {"upload"}
    [] rule.metric = "" ->
         LET wanted == IF rule.included = {} THEN Known ELSE Known \cap rule.included
             unknown == IF rule.includeUnknown THEN {"unknown"} ELSE {}
         IN  Periods \X ((wanted \cup unknown) \ rule.excluded) \X Directions

MatchedBytes(rule, d, bytesOf) ==
  Sum([a \in Counted(rule) |-> bytesOf[<<d, a[1], a[2], a[3]>>]], Counted(rule))

(* EvaluateAt: an alert for every threshold the usage is beyond.  The      *)
(* alert, and the key of the deduplicator, have only the name of the rule. *)
Tiers(rule, d) == {t \in rule.thresholds : t # 0 /\ MatchedBytes(rule, d, usage) > t}

(* Mutant: the tier is left out of the key. *)
DueOnce(rule, d, t) == \A u \in rule.thresholds : sent[<<rule.name, d, u>>] = Never

(* Not sent before, or long enough ago. *)
Due(rule, d, t) ==
  LET previous == sent[<<rule.name, d, t>>]
  IN  previous = Never \/ rule.cooldown = 0 \/ clock - previous >= rule.cooldown

(* Mutant: the end of the cooldown is noted for the time of the alert. *)
EvaluateNotingExpiry(rule, d) ==
  LET due == {t \in Tiers(rule, d) : Due(rule, d, t)} IN
  /\ sent' = [k \in AlertKeys |->
               IF k \in {<<rule.name, d, t>> : t \in due} THEN clock + rule.cooldown ELSE sent[k]]
  /\ alerts' = alerts \cup {[rule |-> rule.name, device |-> d, tier |-> t, at |-> clock] : t \in due}
  /\ checked' = checked \cup {<<rule, d>>}
  /\ UNCHANGED <<clock, items, usage, carried, bytes, restarted>>

Evaluate(rule, d) ==
  LET due == {t \in Tiers(rule, d) : Due(rule, d, t)} IN
  /\ sent' = [k \in AlertKeys |->
               IF k \in {<<rule.name, d, t>> : t \in due} THEN clock ELSE sent[k]]
  /\ alerts' = alerts \cup {[rule |-> rule.name, device |-> d, tier |-> t, at |-> clock] : t \in due}
  /\ checked' = checked \cup {<<rule, d>>}
  /\ UNCHANGED <<clock, items, usage, carried, bytes, restarted>>

(* The aggregates and what the deduplicator knows are gone; usage is not. *)
Restart ==
  /\ restarted = Never
  /\ restarted' = clock
  /\ items' = Empty
  /\ sent' = [k \in AlertKeys |-> Never]
  /\ checked' = {}
  /\ UNCHANGED <<clock, usage, alerts, carried, bytes>>

-----------------------------------------------------------------------------

Next ==
  \/ PassTime
  \/ \E d \in Devices, category \in Categories, dir \in Directions, at \in Minutes :
       Add(d, category, dir, at)
  \/ Flush
  \/ \E rule \in Rules, d \in Devices : Evaluate(rule, d)
  \/ Restart

Spec == Init /\ [][Next]_vars
-----------------------------------------------------------------------------
(* Properties.                                                             *)

TypeOK ==
  /\ clock \in Minutes
  /\ DOMAIN items \subseteq Keys /\ items \in [DOMAIN items -> [Directions -> Nat]]
  /\ usage \in [Accounts -> Nat]
  /\ sent \in [AlertKeys -> {Never} \cup 0 .. clock]
  /\ alerts \subseteq [rule : {r.name : r \in Rules}, device : Devices, tier : Nat, at : 0 .. clock]
  /\ checked \subseteq Rules \X Devices
  /\ carried \in [Accounts -> Nat]
  /\ bytes \in 0 .. MaxBytes
  /\ restarted \in {Never} \cup Minutes

(* Until the process dies every byte is in memory or in the usage, once,   *)
(* under its own device, category, direction and the period of its event,  *)
(* however late it came and however often its minute has been flushed      *)
(* (aggregator.go:33-90); after that bytes may be missing, but none is     *)
(* there twice.                                                            *)
CountedOnce ==
  \A a \in Accounts :
    /\ usage[a] + InMemory(a) <= carried[a]
    /\ restarted = Never => usage[a] + InMemory(a) = carried[a]

(* Holding alerts back hides no tier: whenever a rule has just been        *)
(* evaluated, each tier the usage is beyond was alerted within the last    *)
(* cooldown, also when one evaluation passes several tiers, and when two   *)
(* rules, of one name perhaps, or two devices interleave                   *)
(* (engine.go:58-74, 135-137).                                             *)
CrossedTiersAreAlerted ==
  \A rule \in Rules, d \in Devices : <<rule, d>> \in checked => \A t \in Tiers(rule, d) :
    \E a \in alerts :
      /\ a.rule = rule.name /\ a.device = d /\ a.tier = t
      /\ a.at = clock \/ clock - a.at < rule.cooldown
=============================================================================
