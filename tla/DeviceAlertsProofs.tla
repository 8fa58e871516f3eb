-------------------------- MODULE DeviceAlertsProofs --------------------------
(***************************************************************************)
(* Theorems about DeviceAlerts, for every set of devices, of rules and of  *)
(* free minutes, and every bound.                                          *)
(***************************************************************************)
EXTENDS DeviceAlerts, SumTheorems

-----------------------------------------------------------------------------
(* Types.                                                                  *)

ItemsOK == DOMAIN items \subseteq Keys /\ items \in [DOMAIN items -> [Directions -> Nat]]

LEMMA AddedType ==
  ASSUME ItemsOK, NEW key \in Keys, NEW dir \in Directions
  PROVE  /\ DOMAIN Added(key, dir) = DOMAIN items \cup {key}
         /\ Added(key, dir) \in [DOMAIN Added(key, dir) -> [Directions -> Nat]]
         /\ \A k \in DOMAIN items \cup {key}, e \in Directions :
              Added(key, dir)[k][e] =
                (IF k \in DOMAIN items THEN items[k][e] ELSE 0)
                  + (IF k = key /\ e = dir THEN 1 ELSE 0)
<1> DEFINE value(k, e) == (IF k \in DOMAIN items THEN items[k][e] ELSE 0)
                            + (IF k = key /\ e = dir THEN 1 ELSE 0)
<1>1. \A k : \A e \in Directions : value(k, e) \in Nat
  BY DEF ItemsOK
<1>2. Added(key, dir) = [k \in DOMAIN items \cup {key} |-> [e \in Directions |-> value(k, e)]]
  BY DEF Added
<1> HIDE DEF value
<1>3. DOMAIN Added(key, dir) = DOMAIN items \cup {key}
  BY <1>2
<1>4. \A k \in DOMAIN items \cup {key} :
        Added(key, dir)[k] = [e \in Directions |-> value(k, e)]
  BY <1>2
<1>5. \A k \in DOMAIN items \cup {key} :
        /\ Added(key, dir)[k] \in [Directions -> Nat]
        /\ \A e \in Directions : Added(key, dir)[k][e] = value(k, e)
  BY <1>1, <1>4
<1>6. Added(key, dir) \in [DOMAIN Added(key, dir) -> [Directions -> Nat]]
  BY <1>2, <1>3, <1>5
<1> QED BY <1>3, <1>5, <1>6 DEF value

(* The key that the event of Add falls under.                              *)
LEMMA KeysOfEvents ==
  ASSUME NEW at \in Minutes, NEW d \in Devices, NEW category \in Categories
  PROVE  /\ <<at, d, PeriodAt(at), category>> \in Keys
         /\ \A dir \in Directions : <<d, PeriodAt(at), category, dir>> \in Accounts
BY DEF Keys, Accounts, PeriodAt, Periods

(* A sum of what is in memory is a natural number, when there is finitely  *)
(* much.                                                                   *)
Held(a) == {k \in DOMAIN items : k[2] = a[1] /\ k[3] = a[2] /\ k[4] = a[3]}

LEMMA InMemoryType ==
  ASSUME ItemsOK, IsFiniteSet(DOMAIN items), NEW a \in Accounts
  PROVE  /\ IsFiniteSet(Held(a))
         /\ \A k \in Held(a) : items[k][a[4]] \in Nat
         /\ InMemory(a) = Sum([k \in DOMAIN items |-> items[k][a[4]]], Held(a))
         /\ InMemory(a) \in Nat
<1> DEFINE f == [k \in DOMAIN items |-> items[k][a[4]]]
<1>1. IsFiniteSet(Held(a))
  BY FS_Subset DEF Held
<1>2. \A k \in Held(a) : items[k][a[4]] \in Nat /\ f[k] = items[k][a[4]]
  BY DEF ItemsOK, Accounts, Held
<1>3. InMemory(a) = Sum(f, Held(a))
  BY DEF InMemory, Held
<1>4. Sum(f, Held(a)) \in Nat
  <2> HIDE DEF f
  <2> QED BY <1>1, <1>2, SumType
<1> QED BY <1>1, <1>2, <1>3, <1>4

LEMMA TierTypes ==
  ASSUME NEW rule \in Rules, NEW d \in Devices, NEW t \in Tiers(rule, d)
  PROVE  <<rule.name, d, t>> \in AlertKeys /\ t \in Nat /\ rule.cooldown \in Nat
BY RulesAssumption DEF Tiers, AlertKeys

(* Every variable keeps its type, and only finitely many keys are in use.  *)
Typed == TypeOK /\ IsFiniteSet(DOMAIN items)

LEMMA TypedInductive == (Init => Typed) /\ (Typed /\ [Next]_vars => Typed')
<1>1. ASSUME Init PROVE Typed
  <2>1. DOMAIN items = {} /\ items \in [DOMAIN items -> [Directions -> Nat]]
    BY <1>1 DEF Init, Empty
  <2>2. IsFiniteSet(DOMAIN items)
    BY <2>1, FS_EmptySet
  <2> QED BY <1>1, <2>1, <2>2, BoundsAssumption DEF Init, Typed, TypeOK, Minutes, Never
<1>2. ASSUME Typed, [Next]_vars PROVE Typed'
  <2>1. CASE PassTime
    <3>1. /\ clock' \in Minutes /\ \A n \in 0 .. clock : n \in 0 .. clock'
      BY <1>2, <2>1, BoundsAssumption DEF PassTime, Typed, TypeOK, Minutes
    <3>2. UNCHANGED <<items, usage, sent, alerts, carried, bytes, restarted>> /\ checked' = {}
      BY <2>1 DEF PassTime
    <3>3. sent' \in [AlertKeys -> {Never} \cup 0 .. clock']
      BY <1>2, <3>1, <3>2 DEF Typed, TypeOK
    <3>4. alerts' \subseteq [rule : {r.name : r \in Rules}, device : Devices, tier : Nat, at : 0 .. clock']
      BY <1>2, <3>1, <3>2 DEF Typed, TypeOK
    <3> QED BY <1>2, <3>1, <3>2, <3>3, <3>4 DEF Typed, TypeOK
  <2>2. ASSUME NEW d \in Devices, NEW category \in Categories, NEW dir \in Directions,
               NEW at \in Minutes, Add(d, category, dir, at)
        PROVE  Typed'
    <3> DEFINE key == <<at, d, PeriodAt(at), category>>
               acc == <<d, PeriodAt(at), category, dir>>
    <3>1. key \in Keys /\ acc \in Accounts
      BY KeysOfEvents
    <3> HIDE DEF key, acc
    <3>2. items' = Added(key, dir) /\ carried' = [carried EXCEPT ![acc] = @ + 1] /\ bytes' = bytes + 1
          /\ bytes < MaxBytes /\ UNCHANGED <<clock, usage, sent, alerts, checked, restarted>>
      BY <2>2 DEF Add, key, acc
    <3>3. /\ DOMAIN items' = DOMAIN items \cup {key}
          /\ items' \in [DOMAIN items' -> [Directions -> Nat]]
      BY <1>2, <3>1, <3>2, AddedType DEF Typed, TypeOK, ItemsOK
    <3>4. IsFiniteSet(DOMAIN items')
      BY <1>2, <3>3, FS_AddElement DEF Typed
    <3>5. carried' \in [Accounts -> Nat] /\ bytes' \in 0 .. MaxBytes
      BY <1>2, <3>1, <3>2, BoundsAssumption DEF Typed, TypeOK
    <3> QED BY <1>2, <3>1, <3>2, <3>3, <3>4, <3>5 DEF Typed, TypeOK
  <2>3. CASE Flush
    <3>1. usage' \in [Accounts -> Nat]
      <4>1. \A a \in Accounts : usage[a] \in Nat /\ InMemory(a) \in Nat
        BY <1>2, InMemoryType DEF Typed, TypeOK, ItemsOK
      <4>2. usage' = [a \in Accounts |-> usage[a] + InMemory(a)]
        BY <2>3 DEF Flush
      <4> QED BY <4>1, <4>2
    <3>2. DOMAIN items' = {} /\ items' \in [DOMAIN items' -> [Directions -> Nat]]
      BY <2>3 DEF Flush, Empty
    <3>3. IsFiniteSet(DOMAIN items')
      BY <3>2, FS_EmptySet
    <3> QED BY <1>2, <2>3, <3>1, <3>2, <3>3 DEF Flush, Typed, TypeOK
  <2>4. ASSUME NEW rule \in Rules, NEW d \in Devices, Evaluate(rule, d) PROVE Typed'
    <3> DEFINE due == {t \in Tiers(rule, d) : Due(rule, d, t)}
    <3>1. \A t \in due : t \in Nat
      BY TierTypes
    <3>2. UNCHANGED <<clock, items, usage, carried, bytes, restarted>>
      BY <2>4 DEF Evaluate
    <3>3. clock \in 0 .. clock
      BY <1>2 DEF Typed, TypeOK, Minutes
    <3>4. sent' = [k \in AlertKeys |->
                    IF k \in {<<rule.name, d, t>> : t \in due} THEN clock ELSE sent[k]]
      BY <2>4 DEF Evaluate
    <3>5. alerts' = alerts \cup {[rule |-> rule.name, device |-> d, tier |-> t, at |-> clock] : t \in due}
      BY <2>4 DEF Evaluate
    <3>6. checked' \subseteq Rules \X Devices
      BY <1>2, <2>4 DEF Evaluate, Typed, TypeOK
    <3> HIDE DEF due
    <3>7. sent' \in [AlertKeys -> {Never} \cup 0 .. clock]
      BY <1>2, <3>3, <3>4 DEF Typed, TypeOK
    <3>8. alerts' \subseteq [rule : {r.name : r \in Rules}, device : Devices, tier : Nat, at : 0 .. clock]
      BY <1>2, <3>1, <3>3, <3>5 DEF Typed, TypeOK
    <3> QED BY <1>2, <3>2, <3>6, <3>7, <3>8 DEF Typed, TypeOK
  <2>5. CASE Restart
    <3>1. DOMAIN items' = {} /\ items' \in [DOMAIN items' -> [Directions -> Nat]]
      BY <2>5 DEF Restart, Empty
    <3>2. IsFiniteSet(DOMAIN items')
      BY <3>1, FS_EmptySet
    <3> QED BY <1>2, <2>5, <3>1, <3>2 DEF Restart, Typed, TypeOK
  <2>6. CASE UNCHANGED vars
    BY <1>2, <2>6 DEF vars, Typed, TypeOK
  <2> QED BY <1>2, <2>1, <2>2, <2>3, <2>4, <2>5, <2>6 DEF Next
<1> QED BY <1>1, <1>2

(* Every variable of the aggregator and the alert engine keeps its type:   *)
(* sums are natural numbers, and nothing was sent in the future            *)
(* (aggregator.go:33-90, engine.go:58-74).                                 *)
THEOREM AlertTypes == Spec => []TypeOK
<1>1. Typed => TypeOK
  BY DEF Typed
<1> QED BY <1>1, TypedInductive, PTL DEF Spec

-----------------------------------------------------------------------------
(* Bytes are counted once.                                                 *)

(* An event adds one unit to what is in memory of its own account, whether *)
(* its key is new or not, and nothing to that of any other.                *)
LEMMA OneEventCountsOnce ==
  ASSUME Typed, NEW key \in Keys, NEW dir \in Directions, items' = Added(key, dir),
         NEW a \in Accounts
  PROVE  InMemory(a)' =
           InMemory(a) + (IF a = <<key[2], key[3], key[4], dir>> THEN 1 ELSE 0)
<1> DEFINE f == [k \in DOMAIN items |-> items[k][a[4]]]
           g == [k \in DOMAIN items' |-> items'[k][a[4]]]
           S == Held(a)
           T == {k \in DOMAIN items' : k[2] = a[1] /\ k[3] = a[2] /\ k[4] = a[3]}
           n == IF dir = a[4] THEN 1 ELSE 0
           ours == key[2] = a[1] /\ key[3] = a[2] /\ key[4] = a[3]
<1>1. /\ a = <<a[1], a[2], a[3], a[4]>> /\ a[4] \in Directions
      /\ key = <<key[1], key[2], key[3], key[4]>>
  BY DEF Accounts, Keys
<1>2. ItemsOK /\ IsFiniteSet(DOMAIN items)
  BY DEF Typed, TypeOK, ItemsOK
<1>3. /\ IsFiniteSet(S) /\ InMemory(a) = Sum(f, S) /\ Sum(f, S) \in Nat
      /\ \A k \in S : k \in DOMAIN items /\ f[k] = items[k][a[4]] /\ f[k] \in Nat
  BY <1>2, InMemoryType DEF Held
<1>4. InMemory(a)' = Sum(g, T)
  BY DEF InMemory
<1>5. /\ DOMAIN items' = DOMAIN items \cup {key}
      /\ \A k \in DOMAIN items \cup {key} :
           items'[k][a[4]] = (IF k \in DOMAIN items THEN items[k][a[4]] ELSE 0)
                               + (IF k = key THEN n ELSE 0)
  <2>1. /\ DOMAIN items' = DOMAIN items \cup {key}
        /\ \A k \in DOMAIN items \cup {key}, e \in Directions :
             items'[k][e] = (IF k \in DOMAIN items THEN items[k][e] ELSE 0)
                              + (IF k = key /\ e = dir THEN 1 ELSE 0)
    BY <1>2, AddedType
  <2>2. \A k : (IF k = key /\ a[4] = dir THEN 1 ELSE 0) = (IF k = key THEN n ELSE 0)
    OBVIOUS
  <2> QED BY <1>1, <2>1, <2>2
<1>6. n \in Nat /\ (a = <<key[2], key[3], key[4], dir>> <=> ours /\ n = 1)
  BY <1>1
<1>7. CASE ~ours
  <2>1. T = S
    BY <1>5, <1>7 DEF Held
  <2>2. \A k \in S : k # key
    BY <1>7 DEF Held
  <2>3. \A k \in S : g[k] = f[k]
    BY <1>3, <1>5, <2>2
  <2> HIDE DEF f, g, S, T, n, ours
  <2>4. Sum(g, S) = Sum(f, S)
    BY <1>3, <2>3, SumEqual
  <2> QED BY <1>3, <1>4, <1>6, <1>7, <2>1, <2>4
<1>8. CASE ours /\ key \in DOMAIN items
  <2>1. T = S /\ key \in S
    BY <1>5, <1>8 DEF Held
  <2>2. g[key] = f[key] + n /\ \A k \in S \ {key} : g[k] = f[k]
    <3>1. \A k \in S : k \in DOMAIN items /\ f[k] \in Nat /\ f[k] = items[k][a[4]]
                       /\ g[k] = items'[k][a[4]]
      BY <1>3, <1>5
    <3> HIDE DEF f, g, S, T, n, ours
    <3>2. \A k \in S : g[k] = f[k] + (IF k = key THEN n ELSE 0)
      BY <1>5, <3>1
    <3> QED BY <2>1, <3>1, <3>2
  <2> HIDE DEF f, g, S, T, n, ours
  <2>3. Sum(g, S) = Sum(f, S) + n
    BY <1>3, <1>6, <2>1, <2>2, SumUpdate
  <2>4. n = 1 \/ n = 0
    BY DEF n
  <2> QED BY <1>3, <1>4, <1>6, <1>8, <2>1, <2>3, <2>4
<1>9. CASE ours /\ key \notin DOMAIN items
  <2>1. T = S \cup {key} /\ key \notin S /\ T \ {key} = S /\ key \in T
    BY <1>5, <1>9 DEF Held
  <2>2. g[key] = n /\ \A k \in S : g[k] = f[k]
    BY <1>3, <1>5, <1>9
  <2>3. n = 1 \/ n = 0
    OBVIOUS
  <2> HIDE DEF f, g, S, T, n, ours
  <2>4. IsFiniteSet(T) /\ \A k \in T : g[k] \in Nat
    BY <1>3, <1>6, <2>1, <2>2, FS_AddElement
  <2>5. Sum(g, T) = g[key] + Sum(g, T \ {key})
    BY <2>1, <2>4, SumRemove
  <2>6. Sum(g, S) = Sum(f, S)
    BY <1>3, <2>2, SumEqual
  <2>7. InMemory(a)' = n + InMemory(a)
    BY <1>3, <1>4, <2>1, <2>2, <2>5, <2>6
  <2> QED BY <1>3, <1>6, <1>9, <2>3, <2>7
<1> QED BY <1>7, <1>8, <1>9

(* After a flush, or a restart, nothing is in memory.                      *)
LEMMA NothingInMemory ==
  ASSUME items' = Empty, NEW a
  PROVE  InMemory(a)' = 0
<1> DEFINE f == [k \in DOMAIN items' |-> items'[k][a[4]]]
           S == {k \in DOMAIN items' : k[2] = a[1] /\ k[3] = a[2] /\ k[4] = a[3]}
<1>1. InMemory(a)' = Sum(f, S)
  BY DEF InMemory
<1>2. S = {} /\ IsFiniteSet({})
  BY FS_EmptySet DEF Empty
<1> HIDE DEF f, S
<1> QED BY <1>1, <1>2, SumStep

LEMMA CountedOnceInductive ==
  (Init => CountedOnce) /\ (Typed /\ CountedOnce /\ [Next]_vars => CountedOnce')
<1>1. ASSUME Init PROVE CountedOnce
  <2>1. ASSUME NEW a \in Accounts PROVE usage[a] = 0 /\ carried[a] = 0 /\ InMemory(a) = 0
    <3> DEFINE f == [k \in DOMAIN items |-> items[k][a[4]]]
    <3>1. Held(a) = {} /\ IsFiniteSet({})
      BY <1>1, FS_EmptySet DEF Init, Empty, Held
    <3>2. InMemory(a) = Sum(f, Held(a))
      BY DEF InMemory, Held
    <3> HIDE DEF f
    <3>3. InMemory(a) = 0
      BY <3>1, <3>2, SumStep
    <3> QED BY <1>1, <3>3 DEF Init
  <2> QED BY <2>1 DEF CountedOnce
<1>2. ASSUME Typed, CountedOnce, [Next]_vars PROVE CountedOnce'
  <2>1. ItemsOK /\ IsFiniteSet(DOMAIN items)
    BY <1>2 DEF Typed, TypeOK, ItemsOK
  <2>2. \A a \in Accounts : usage[a] \in Nat /\ InMemory(a) \in Nat /\ carried[a] \in Nat
    BY <1>2, <2>1, InMemoryType DEF Typed, TypeOK
  <2>3. ASSUME NEW d \in Devices, NEW category \in Categories, NEW dir \in Directions,
               NEW at \in Minutes, Add(d, category, dir, at)
        PROVE  CountedOnce'
    <3> DEFINE key == <<at, d, PeriodAt(at), category>>
               acc == <<d, PeriodAt(at), category, dir>>
    <3>1. key \in Keys /\ acc \in Accounts /\ acc = <<key[2], key[3], key[4], dir>>
      BY KeysOfEvents
    <3> HIDE DEF key, acc
    <3>2. /\ items' = Added(key, dir) /\ usage' = usage /\ restarted' = restarted
          /\ carried' = [carried EXCEPT ![acc] = @ + 1]
      BY <2>3 DEF Add, key, acc
    <3>3. \A a \in Accounts : InMemory(a)' = InMemory(a) + (IF a = acc THEN 1 ELSE 0)
      BY <1>2, <3>1, <3>2, OneEventCountsOnce
    <3>4. \A a \in Accounts : carried'[a] = carried[a] + (IF a = acc THEN 1 ELSE 0)
      BY <1>2, <3>1, <3>2 DEF Typed, TypeOK
    <3>5. \A a \in Accounts : usage[a] + InMemory(a) <= carried[a]
                              /\ (restarted = Never => usage[a] + InMemory(a) = carried[a])
      BY <1>2 DEF CountedOnce
    <3>6. \A a \in Accounts : usage'[a] + InMemory(a)' <= carried'[a]
                              /\ (restarted' = Never => usage'[a] + InMemory(a)' = carried'[a])
      BY <2>2, <3>2, <3>3, <3>4, <3>5
    <3> QED BY <3>6 DEF CountedOnce
  <2>4. CASE Flush
    <3>1. \A a \in Accounts : usage'[a] = usage[a] + InMemory(a) /\ InMemory(a)' = 0
      BY <2>4, NothingInMemory DEF Flush
    <3>2. carried' = carried /\ restarted' = restarted
      BY <2>4 DEF Flush
    <3>3. \A a \in Accounts : usage[a] + InMemory(a) <= carried[a]
                              /\ (restarted = Never => usage[a] + InMemory(a) = carried[a])
      BY <1>2 DEF CountedOnce
    <3>4. \A a \in Accounts : usage'[a] + InMemory(a)' <= carried'[a]
                              /\ (restarted' = Never => usage'[a] + InMemory(a)' = carried'[a])
      BY <2>2, <3>1, <3>2, <3>3
    <3> QED BY <3>4 DEF CountedOnce
  <2>5. CASE Restart
    <3>1. \A a \in Accounts : InMemory(a)' = 0
      BY <2>5, NothingInMemory DEF Restart
    <3>2. usage' = usage /\ carried' = carried /\ restarted' # Never
      BY <1>2, <2>5, BoundsAssumption DEF Restart, Typed, TypeOK, Minutes, Never
    <3>3. \A a \in Accounts : usage[a] + InMemory(a) <= carried[a]
      BY <1>2 DEF CountedOnce
    <3>4. \A a \in Accounts : usage'[a] + InMemory(a)' <= carried'[a]
      BY <2>2, <3>1, <3>2, <3>3
    <3> QED BY <3>2, <3>4 DEF CountedOnce
  <2>6. PassTime \/ (\E rule \in Rules, d \in Devices : Evaluate(rule, d)) \/ UNCHANGED vars
          => UNCHANGED <<items, usage, carried, restarted>>
    BY DEF PassTime, Evaluate, vars
  <2>7. ASSUME UNCHANGED <<items, usage, carried, restarted>> PROVE CountedOnce'
    BY <1>2, <2>7 DEF CountedOnce, InMemory
  <2> QED BY <1>2, <2>3, <2>4, <2>5, <2>6, <2>7 DEF Next
<1> QED BY <1>1, <1>2

(* No byte of an event is counted twice, and until the process dies none   *)
(* is missing, for any number of late events and flushes                   *)
(* (aggregator.go:33-90).                                                  *)
THEOREM EventsAreCountedOnce == Spec => []CountedOnce
BY TypedInductive, CountedOnceInductive, PTL DEF Spec

-----------------------------------------------------------------------------
(* Alerts.                                                                 *)

(* What the deduplicator remembers was sent.  That is more than the alerts *)
(* of this process: those of an earlier one stay sent, and are forgotten.  *)
SentIsTrue ==
  \A k \in AlertKeys : sent[k] # Never =>
    [rule |-> k[1], device |-> k[2], tier |-> k[3], at |-> sent[k]] \in alerts

LEMMA AlertsInductive ==
  /\ Init => SentIsTrue /\ CrossedTiersAreAlerted
  /\ Typed /\ SentIsTrue /\ CrossedTiersAreAlerted /\ [Next]_vars
       => SentIsTrue' /\ CrossedTiersAreAlerted'
<1>1. ASSUME Init PROVE SentIsTrue /\ CrossedTiersAreAlerted
  BY <1>1 DEF Init, SentIsTrue, CrossedTiersAreAlerted
<1>2. ASSUME Typed, SentIsTrue, CrossedTiersAreAlerted, [Next]_vars
      PROVE  SentIsTrue' /\ CrossedTiersAreAlerted'
  <2>1. ASSUME NEW rule \in Rules, NEW d \in Devices, Evaluate(rule, d)
        PROVE  SentIsTrue' /\ CrossedTiersAreAlerted'
    <3> DEFINE due == {t \in Tiers(rule, d) : Due(rule, d, t)}
               Alert(t) == [rule |-> rule.name, device |-> d, tier |-> t, at |-> clock]
    <3>1. /\ sent' = [k \in AlertKeys |->
                        IF k \in {<<rule.name, d, t>> : t \in due} THEN clock ELSE sent[k]]
          /\ alerts' = alerts \cup {Alert(t) : t \in due}
          /\ checked' = checked \cup {<<rule, d>>}
          /\ UNCHANGED <<clock, usage>>
      BY <2>1 DEF Evaluate
    <3>2. \A t \in Tiers(rule, d) : Due(rule, d, t) => t \in due
      OBVIOUS
    <3> HIDE DEF due
    <3>3. SentIsTrue'
      <4>1. ASSUME NEW k \in AlertKeys, sent'[k] # Never
            PROVE  [rule |-> k[1], device |-> k[2], tier |-> k[3], at |-> sent'[k]] \in alerts'
        <5>1. CASE k \in {<<rule.name, d, t>> : t \in due}
          <6>1. PICK t \in due : k = <<rule.name, d, t>>
            BY <5>1
          <6>2. sent'[k] = clock /\ k[1] = rule.name /\ k[2] = d /\ k[3] = t /\ Alert(t) \in alerts'
            BY <3>1, <5>1, <6>1
          <6> QED BY <6>2
        <5>2. CASE k \notin {<<rule.name, d, t>> : t \in due}
          <6>1. sent'[k] = sent[k] /\ alerts \subseteq alerts'
            BY <3>1, <5>2
          <6> QED BY <1>2, <4>1, <6>1 DEF SentIsTrue
        <5> QED BY <5>1, <5>2
      <4> QED BY <4>1 DEF SentIsTrue
    <3>4. ASSUME NEW q \in Rules, NEW e \in Devices, <<q, e>> \in checked', NEW t \in Tiers(q, e)
          PROVE  \E a \in alerts' :
                   /\ a.rule = q.name /\ a.device = e /\ a.tier = t
                   /\ a.at = clock \/ clock - a.at < q.cooldown
      <4>1. CASE <<q, e>> \in checked
        BY <1>2, <3>1, <4>1 DEF CrossedTiersAreAlerted
      <4>2. CASE <<q, e>> \notin checked
        <5>1. q = rule /\ e = d
          BY <3>1, <3>4, <4>2
        <5>2. CASE Due(rule, d, t)
          <6>1. Alert(t) \in alerts'
            BY <3>1, <3>2, <3>4, <5>1, <5>2
          <6> QED BY <5>1, <6>1
        <5>3. CASE ~Due(rule, d, t)
          <6> DEFINE k == <<rule.name, d, t>>
                     a == [rule |-> k[1], device |-> k[2], tier |-> k[3], at |-> sent[k]]
          <6>1. k \in AlertKeys
            BY <3>4, <5>1, TierTypes
          <6>2. sent[k] # Never /\ ~(clock - sent[k] >= rule.cooldown)
            BY <5>3 DEF Due
          <6>3. a \in alerts
            BY <1>2, <6>1, <6>2 DEF SentIsTrue
          <6>4. rule.cooldown \in Nat /\ clock \in Nat /\ sent[k] \in Nat
            BY <1>2, <6>1, <6>2, RulesAssumption, BoundsAssumption DEF Typed, TypeOK, Minutes
          <6>5. clock - a.at < rule.cooldown
            BY <6>2, <6>4
          <6> QED BY <3>1, <5>1, <6>3, <6>5
        <5> QED BY <5>2, <5>3
      <4> QED BY <4>1, <4>2
    <3>5. CrossedTiersAreAlerted'
      BY <3>1, <3>4 DEF CrossedTiersAreAlerted, Tiers
    <3> QED BY <3>3, <3>5
  <2>2. CASE Restart
    <3>1. SentIsTrue'
      BY <2>2 DEF Restart, SentIsTrue
    <3> QED BY <2>2, <3>1 DEF Restart, CrossedTiersAreAlerted
  <2>3. PassTime \/ Flush => UNCHANGED <<sent, alerts>> /\ checked' = {}
    BY DEF PassTime, Flush
  <2>4. (\E d \in Devices, category \in Categories, dir \in Directions, at \in Minutes :
           Add(d, category, dir, at)) \/ UNCHANGED vars
          => UNCHANGED <<clock, usage, sent, alerts, checked>>
    BY DEF Add, vars
  <2>5. ASSUME UNCHANGED <<sent, alerts>> /\ checked' = {}
        PROVE  SentIsTrue' /\ CrossedTiersAreAlerted'
    BY <1>2, <2>5 DEF SentIsTrue, CrossedTiersAreAlerted
  <2>6. ASSUME UNCHANGED <<clock, usage, sent, alerts, checked>>
        PROVE  SentIsTrue' /\ CrossedTiersAreAlerted'
    BY <1>2, <2>6 DEF SentIsTrue, CrossedTiersAreAlerted, Tiers
  <2> QED BY <1>2, <2>1, <2>2, <2>3, <2>4, <2>5, <2>6 DEF Next
<1> QED BY <1>1, <1>2

(* A tier that the usage is beyond was alerted within the last cooldown    *)
(* whenever its rule has just been evaluated (engine.go:58-74).            *)
THEOREM TiersAreAlerted == Spec => []CrossedTiersAreAlerted
BY TypedInductive, AlertsInductive, PTL DEF Spec
=============================================================================
